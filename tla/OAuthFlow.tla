-------------------------------- MODULE OAuthFlow --------------------------------
(***************************************************************************)
(* The authorization flow of crates/fox-oauth up to the token it stores     *)
(* (authorize_inner): one flow at a time listens on the callback port, the  *)
(* browser comes back to that port when the user is done, or later, or      *)
(* again, and the code it brings is exchanged.  Tabs of flows that are over *)
(* stay open and come back to whoever listens then.                         *)
(***************************************************************************)
EXTENDS Naturals, FiniteSets

CONSTANTS
  Flow,   \* calls of oauth_authorize
  Nobody

VARIABLES
  at,      \* where each flow is
  turn,    \* AUTHORIZE_LOCK: the flow that holds it
  server,  \* of each flow: "off", "on", "draining" or "aborted"
  inbox,   \* the first message of its channel: "none", "code" or "refused"
  brought, \* the flow whose tab brought the code
  tabs,    \* flows whose page was opened in the browser
  port     \* "free", or "taken" by another program

vars == <<at, turn, server, inbox, brought, tabs, port>>

Ended == {"done", "failed"}
Bound(f) == server[f] # "off"
Goto(f, place) == at' = [at EXCEPT ![f] = place]
Becomes(f, s) == server' = [server EXCEPT ![f] = s]

\* An abort ends what is still there.
Aborts(f) == IF Bound(f) THEN Becomes(f, "aborted") ELSE UNCHANGED server

\* The flow is over, and the lock is free.
End(f, how) == Goto(f, how) /\ turn' = Nobody

Begin(f) ==
  /\ at[f] = "idle" /\ Goto(f, "lock")
  /\ UNCHANGED <<turn, server, inbox, brought, tabs, port>>

\* oauth2_fields: the client, its addresses or the kind of authorization is missing.
Reject(f) ==
  /\ at[f] = "idle" /\ Goto(f, "failed")
  /\ UNCHANGED <<turn, server, inbox, brought, tabs, port>>

Turn(f) ==
  /\ at[f] = "lock" /\ turn = Nobody
  /\ Goto(f, "bind") /\ turn' = f
  /\ UNCHANGED <<server, inbox, brought, tabs, port>>

\* redirect_binding: the address to come back to is not of this machine.
Elsewhere(f) ==
  /\ at[f] = "bind" /\ End(f, "failed")
  /\ UNCHANGED <<server, inbox, brought, tabs, port>>

\* bind_callback_listener tries again for two seconds while the port is in use,
\* time enough for the server of the flow before to go, not for a program.
Bind(f) ==
  /\ at[f] = "bind"
  /\ \/ /\ port = "free" /\ \A g \in Flow : ~Bound(g)
        /\ Becomes(f, "on") /\ Goto(f, "open") /\ UNCHANGED turn
     \/ port = "taken" /\ End(f, "failed") /\ UNCHANGED server
  /\ UNCHANGED <<inbox, brought, tabs, port>>

\* Slip: the server is left as it is.
OpenLeaving(f) ==
  /\ at[f] = "open"
  /\ \/ Goto(f, "wait") /\ tabs' = tabs \cup {f} /\ UNCHANGED <<turn, server>>
     \/ End(f, "failed") /\ UNCHANGED <<tabs, server>>
  /\ UNCHANGED <<inbox, brought, port>>

\* The browser shows the page of the provider, or cannot be started.
Open(f) ==
  /\ at[f] = "open"
  /\ \/ Goto(f, "wait") /\ tabs' = tabs \cup {f} /\ UNCHANGED <<turn, server>>
     \/ End(f, "failed") /\ Aborts(f) /\ UNCHANGED tabs
  /\ UNCHANGED <<inbox, brought, port>>

\* Slip: the state is not compared.
VerdictAny(f, g, code) == IF code THEN "code" ELSE "refused"

\* What the handler says to the flow: the state must be its own, and there must
\* be a code, which a user who declines does not bring.
Verdict(f, g, code) == IF f = g /\ code THEN "code" ELSE "refused"

\* The tab of g comes to the server of f, which answers and stops accepting.
Callback(f, g, code) ==
  /\ server[f] \in {"on", "aborted"} /\ g \in tabs
  /\ IF inbox[f] = "none"
     THEN /\ inbox' = [inbox EXCEPT ![f] = Verdict(f, g, code)]
          /\ brought' = [brought EXCEPT ![f] = g]
     ELSE UNCHANGED <<inbox, brought>>
  /\ Becomes(f, IF server[f] = "on" THEN "draining" ELSE server[f])
  /\ UNCHANGED <<at, turn, tabs, port>>

Hear(f) ==
  /\ at[f] = "wait"
  /\ \/ inbox[f] = "code" /\ Goto(f, "close") /\ UNCHANGED <<turn, server>>
     \/ inbox[f] = "refused" /\ End(f, "failed") /\ Aborts(f)
  /\ UNCHANGED <<inbox, brought, tabs, port>>

\* Nobody came for AUTHORIZE_TIMEOUT.
TimeOut(f) ==
  /\ at[f] = "wait" /\ inbox[f] = "none"
  /\ End(f, "failed") /\ Aborts(f)
  /\ UNCHANGED <<inbox, brought, tabs, port>>

\* The server drains for up to three seconds, then it is aborted.
Close(f) ==
  /\ at[f] = "close" /\ Goto(f, "exchange")
  /\ Aborts(f)
  /\ UNCHANGED <<turn, inbox, brought, tabs, port>>

\* The code is exchanged and the token stored, or not.
Exchange(f) ==
  /\ at[f] = "exchange" /\ (End(f, "done") \/ End(f, "failed"))
  /\ UNCHANGED <<server, inbox, brought, tabs, port>>

\* The task of a server that was told to stop, or aborted, ends.
ServerGone(f) ==
  /\ server[f] \in {"draining", "aborted"} /\ Becomes(f, "off")
  /\ UNCHANGED <<at, turn, inbox, brought, tabs, port>>

OtherProgram ==
  /\ \A f \in Flow : ~Bound(f)
  /\ port' = IF port = "free" THEN "taken" ELSE "free"
  /\ UNCHANGED <<at, turn, server, inbox, brought, tabs>>

Init ==
  /\ at = [f \in Flow |-> "idle"] /\ turn = Nobody
  /\ server = [f \in Flow |-> "off"] /\ inbox = [f \in Flow |-> "none"]
  /\ brought = [f \in Flow |-> Nobody] /\ tabs = {} /\ port = "free"

Run(f) == Turn(f) \/ Elsewhere(f) \/ Bind(f) \/ Open(f) \/ Hear(f) \/ Close(f) \/ Exchange(f)

Next ==
  \/ \E f \in Flow : Begin(f) \/ Reject(f) \/ Run(f) \/ TimeOut(f) \/ ServerGone(f)
  \/ \E f, g \in Flow, code \in BOOLEAN : Callback(f, g, code)
  \/ OtherProgram

Spec == Init /\ [][Next]_vars

\* A flow is polled, and the wait for the
\* browser, the one for the server and aborts all end by themselves.  That the
\* provider answers the exchange is an assumption.
Fairness ==
  \A f \in Flow : WF_vars(Run(f)) /\ WF_vars(TimeOut(f)) /\ WF_vars(ServerGone(f))

----------------------------------------------------------------------------
TypeOK ==
  /\ at \in [Flow -> {"idle", "lock", "bind", "open", "wait", "close", "exchange"} \cup Ended]
  /\ turn \in Flow \cup {Nobody} /\ tabs \subseteq Flow
  /\ server \in [Flow -> {"off", "on", "draining", "aborted"}]
  /\ inbox \in [Flow -> {"none", "code", "refused"}]
  /\ brought \in [Flow -> Flow \cup {Nobody}] /\ port \in {"free", "taken"}
  /\ \A f \in Flow : at[f] \notin {"idle", "lock"} \cup Ended <=> turn = f

\* The code a flow exchanges was brought by the tab it opened itself, whatever
\* tabs of earlier flows come back to its port.
CodeIsOwn == \A f \in Flow : at[f] \in {"close", "exchange", "done"} => brought[f] = f

\* Every flow ends, whatever tabs come to it, and leaves the callback port free.
FlowsEnd == <>[](\A f \in Flow : at[f] \in {"idle"} \cup Ended /\ ~Bound(f))
=============================================================================
