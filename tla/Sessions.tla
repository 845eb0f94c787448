------------------------------ MODULE Sessions ------------------------------
(***************************************************************************)
(* WebSocket and SSE sessions of the application: the commands of           *)
(* crates/fox-tauri/src/commands/ws.rs, the tables they keep, and the       *)
(* events on their way to the interface.                                    *)
(*                                                                          *)
(* Actors: the commands; a WebSocket client, which publishes events to a    *)
(* ring of bounded capacity, and the task that forwards them; a task that   *)
(* reads an SSE response and emits events itself; and the interface, which  *)
(* hears the events of the id it holds.  The interface leaves the choice of *)
(* the id to the command, so ids never meet and a session is its own id.    *)
(*                                                                          *)
(* Left out: what the client does (module WsClient) and what events say.    *)
(***************************************************************************)
EXTENDS Naturals, Sequences

CONSTANTS
  Session,   \* sessions, each of one kind
  Ws,        \* those that are WebSockets
  Capacity,  \* of the broadcast ring (EVENT_CAPACITY)
  MaxEvents  \* bound: events of a session

VARIABLES
  cmd,      \* the connect command: "idle", "opened", "fed", "returned"
  table,    \* state.ws and state.sse
  source,   \* the client, or the task of an SSE session: "none", "live", "over"
  told,     \* events it has published
  forward,  \* the forwarding task: "none", "live", "over"
  next,     \* the next event it receives
  ui,       \* the interface: "waits" for the id, "listens", "left"
  heard,    \* the events it heard
  leaving   \* disconnect: "no", "stopping", "done"

vars == <<cmd, table, source, told, forward, next, ui, heard, leaving>>

Sse == Session \ Ws

Init ==
  /\ cmd = [s \in Session |-> "idle"] /\ table = {}
  /\ source = [s \in Session |-> "none"] /\ told = [s \in Session |-> 0]
  /\ forward = [s \in Session |-> "none"] /\ next = [s \in Session |-> 1]
  /\ ui = [s \in Session |-> "waits"] /\ heard = [s \in Session |-> <<>>]
  /\ leaving = [s \in Session |-> "no"]

Goto(s, from, to) == cmd[s] = from /\ cmd' = [cmd EXCEPT ![s] = to]

\* app.emit: who does not hold the id passes over the event.
Emit(s, event) ==
  heard' = IF ui[s] = "listens" THEN [heard EXCEPT ![s] = Append(@, event)]
                                ELSE heard

-----------------------------------------------------------------------------
(* Connecting *)

\* sse_connect spawns its task.
SseOpen(s) ==
  /\ s \in Sse /\ Goto(s, "idle", "fed")
  /\ source' = [source EXCEPT ![s] = "live"]
  /\ UNCHANGED <<table, told, forward, next, ui, heard, leaving>>

\* The client is connected: its task runs.
Open(s) ==
  /\ s \in Ws /\ Goto(s, "idle", "opened")
  /\ source' = [source EXCEPT ![s] = "live"]
  /\ UNCHANGED <<table, told, forward, next, ui, heard, leaving>>

\* client.subscribe: events published before are lost.
Subscribe(s) ==
  /\ Goto(s, "opened", "fed")
  /\ forward' = [forward EXCEPT ![s] = "live"]
  /\ next' = [next EXCEPT ![s] = told[s] + 1]
  /\ UNCHANGED <<table, source, told, ui, heard, leaving>>

Insert(s) ==
  /\ Goto(s, "fed", "returned") /\ table' = table \cup {s}
  /\ UNCHANGED <<source, told, forward, next, ui, heard, leaving>>

\* The interface gets the id.
Learn(s) ==
  /\ cmd[s] = "returned" /\ ui[s] = "waits" /\ ui' = [ui EXCEPT ![s] = "listens"]
  /\ UNCHANGED <<cmd, table, source, told, forward, next, heard, leaving>>

-----------------------------------------------------------------------------
(* Events *)

Publish(s) ==
  /\ source[s] = "live" /\ told[s] < MaxEvents
  /\ told' = [told EXCEPT ![s] = @ + 1]
  /\ IF s \in Sse THEN Emit(s, told'[s]) ELSE UNCHANGED heard
  /\ UNCHANGED <<cmd, table, source, forward, next, ui, leaving>>

\* An SSE response ends or fails, with a last event.  The entry stays.
SseEnds(s) ==
  /\ s \in Sse /\ source[s] = "live" /\ source' = [source EXCEPT ![s] = "over"]
  /\ told' = [told EXCEPT ![s] = @ + 1] /\ Emit(s, told'[s])
  /\ UNCHANGED <<cmd, table, forward, next, ui, leaving>>

Lagged(s) == told[s] - next[s] >= Capacity

\* The forwarding task receives; Lagged ends it, with the client still alive.
Forward(s) ==
  /\ forward[s] = "live" /\ next[s] <= told[s]
  /\ IF Lagged(s)
     THEN forward' = [forward EXCEPT ![s] = "over"] /\ UNCHANGED <<next, heard>>
     ELSE /\ Emit(s, next[s]) /\ next' = [next EXCEPT ![s] = @ + 1]
          /\ UNCHANGED forward
  /\ UNCHANGED <<cmd, table, source, told, ui, leaving>>

-----------------------------------------------------------------------------
(* Disconnecting *)

\* The interface lets the id go, the command removes the entry, aborts the
\* forwarding or the SSE task, and goes on to stop a client.
Disconnect(s) ==
  /\ ui[s] = "listens" /\ ui' = [ui EXCEPT ![s] = "left"]
  /\ table' = table \ {s}
  /\ forward' = [forward EXCEPT ![s] = IF s \in Ws THEN "over" ELSE @]
  /\ source' = [source EXCEPT ![s] = IF s \in Sse THEN "over" ELSE @]
  /\ leaving' = [leaving EXCEPT ![s] = IF s \in Ws THEN "stopping" ELSE "done"]
  /\ UNCHANGED <<cmd, told, next, heard>>

\* client.stop ends the client, or has waited five seconds in vain (WsClient
\* says when).
Stop(s) ==
  /\ leaving[s] = "stopping" /\ leaving' = [leaving EXCEPT ![s] = "done"]
  /\ \E how \in {"live", "over"} : source' = [source EXCEPT ![s] = how]
  /\ UNCHANGED <<cmd, table, told, forward, next, ui, heard>>

-----------------------------------------------------------------------------

Next ==
  \E s \in Session :
    \/ SseOpen(s) \/ Open(s) \/ Subscribe(s) \/ Insert(s) \/ Learn(s)
    \/ Publish(s) \/ SseEnds(s) \/ Forward(s)
    \/ Disconnect(s) \/ Stop(s)

Spec == Init /\ [][Next]_vars

\* Commands run on, the forwarding task is polled, the interface gets answers.
Fairness ==
  \A s \in Session :
    WF_vars(Subscribe(s) \/ Insert(s)) /\ WF_vars(Learn(s)) /\ WF_vars(Forward(s))

-----------------------------------------------------------------------------
(* Properties *)

\* A session that lives can be found and ended: it is in a table, or its
\* connect command is about to put it there, or its disconnect took it out.
NoOrphan ==
  \A s \in Session : source[s] = "live" =>
    s \in table \/ cmd[s] # "returned" \/ leaving[s] # "no"

\* The interface misses no event between two it hears.
NoGap ==
  \A s \in Session : \A i \in 1 .. Len(heard[s]) - 1 :
    heard[s][i + 1] = heard[s][i] + 1

\* The last event of a session reaches an interface that listens, unless the
\* session lagged: then nothing does any more.
LastEventHeard ==
  \A s \in Ws : \A n \in 1 .. MaxEvents :
    (ui[s] = "listens" /\ told[s] = n /\ next[s] <= n)
      ~> \/ ui[s] = "left" \/ told[s] > n
         \/ forward[s] = "over" /\ Lagged(s)
         \/ heard[s] # <<>> /\ heard[s][Len(heard[s])] = n
=============================================================================
