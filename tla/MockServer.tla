------------------------------ MODULE MockServer ------------------------------
(***************************************************************************)
(* The mock server of the application: mock_start, mock_reload, mock_stop   *)
(* of crates/fox-tauri and the server of crates/fox-mock.                   *)
(*                                                                          *)
(* Actors: commands, which overlap; the user, who edits rules and endpoints *)
(* and switches projects meanwhile; and clients with requests in flight.    *)
(* The handle of the running server is behind a read-write lock, which is   *)
(* held for the time a server drains.  A command that starts a server gives *)
(* it its name.                                                             *)
(*                                                                          *)
(* Left out: how a request picks its definition (module MockMatch).         *)
(***************************************************************************)
EXTENDS Naturals, Sequences, FiniteSets

CONSTANTS
  Cmd,       \* commands
  Req,       \* requests of clients
  Project,
  None,
  MaxPort,   \* ports that are tried, 1 .. MaxPort
  MaxEdits   \* bound: edits of rules and endpoints

ASSUME MockAssumption == MaxPort \in Nat /\ None \notin Cmd /\ None \notin Project

Port == 1 .. MaxPort

VARIABLES
  kind, at, result,  \* what each command is, where it is and how it ended
  project, seen,     \* its project, and the edit each of its queries saw
  active,            \* active_project
  edits,             \* edits of each project so far
  taken,             \* ports other programs have
  writer,            \* who holds the write lock
  mock,              \* the server whose handle is kept
  port,              \* the port each server listens on, 0 if it does not
  store,             \* the definitions of each server
  drains,            \* the server a command waits for
  req, asked,        \* requests, and the server each is at
  calm               \* commands nothing has happened beside since they began

cmd == <<kind, at, result, project, seen>>
user == <<active, edits, taken>>
server == <<mock, port, store>>
client == <<req, asked>>
vars == <<cmd, user, writer, server, drains, client, calm>>

Init ==
  /\ kind = [c \in Cmd |-> "none"] /\ at = [c \in Cmd |-> "idle"]
  /\ result = [c \in Cmd |-> "none"] /\ project = [c \in Cmd |-> None]
  /\ seen = [c \in Cmd |-> <<>>]
  /\ active \in Project \cup {None} /\ edits = [p \in Project |-> 0]
  /\ taken \in SUBSET Port
  /\ writer = None /\ mock = None /\ port = [c \in Cmd |-> 0]
  /\ store = [c \in Cmd |-> <<None>>] /\ drains = [c \in Cmd |-> None]
  /\ req = [r \in Req |-> "idle"] /\ asked = [r \in Req |-> None]
  /\ calm = {}

Listening == {c \in Cmd : port[c] # 0}
Goto(c, from, to) == at[c] = from /\ at' = [at EXCEPT ![c] = to]
Ends(c, from, r) == Goto(c, from, "done") /\ result' = [result EXCEPT ![c] = r]

-----------------------------------------------------------------------------
(* Commands *)

Begin(c, k) ==
  /\ Goto(c, "idle", IF k = "start" THEN "check" ELSE IF k = "reload" THEN "project"
                     ELSE "take")
  /\ kind' = [kind EXCEPT ![c] = k]
  /\ calm' = IF \A d \in Cmd : at[d] \in {"idle", "done"} THEN {c} ELSE {}
  /\ UNCHANGED <<result, project, seen, user, writer, server, drains, client>>

\* mock_start looks for a server under a read lock that it gives up again.
Check(c) ==
  /\ writer = None
  /\ IF mock = None THEN Goto(c, "check", "project") /\ UNCHANGED result
     ELSE Ends(c, "check", "running")
  /\ UNCHANGED <<kind, project, seen, user, writer, server, drains, client, calm>>

\* Slip: a project is waited for.
ReadProjectWaits(c) ==
  /\ active # None /\ Goto(c, "project", "query")
  /\ project' = [project EXCEPT ![c] = active]
  /\ UNCHANGED <<kind, result, seen, user, writer, server, drains, client, calm>>

ReadProject(c) ==
  /\ IF active = None THEN Ends(c, "project", "invalid") /\ UNCHANGED project
     ELSE /\ Goto(c, "project", "query") /\ UNCHANGED result
          /\ project' = [project EXCEPT ![c] = active]
  /\ UNCHANGED <<kind, seen, user, writer, server, drains, client, calm>>

\* build_definitions: rules, endpoints and examples, a query each.
Query(c) ==
  /\ at[c] = "query"
  /\ seen' = [seen EXCEPT ![c] = Append(@, edits[project[c]])]
  /\ at' = IF Len(seen[c]) < 2 THEN at
           ELSE [at EXCEPT ![c] = IF kind[c] = "start" THEN "bind" ELSE "install"]
  /\ UNCHANGED <<kind, result, project, user, writer, server, drains, client, calm>>

Definitions(c) == <<project[c]>> \o seen[c]
Free == Port \ (taken \cup {port[c] : c \in Listening})

\* The first port that is free, if one is; the server answers from then on.
Bind(c) ==
  /\ \/ /\ Free = {} /\ Ends(c, "bind", "noport") /\ UNCHANGED <<port, store>>
     \/ /\ Goto(c, "bind", "commit") /\ UNCHANGED result
        /\ \E p \in Free :
             (\A q \in Free : p <= q) /\ port' = [port EXCEPT ![c] = p]
        /\ store' = [store EXCEPT ![c] = Definitions(c)]
  /\ UNCHANGED <<kind, project, seen, user, writer, mock, drains, client, calm>>

\* Slip: the loser forgets its server.
CommitLosing(c) ==
  /\ writer = None
  /\ IF mock = None THEN mock' = c /\ Ends(c, "commit", "ok")
     ELSE Ends(c, "commit", "running") /\ UNCHANGED mock
  /\ UNCHANGED <<kind, project, seen, user, writer, port, store, drains, client,
                 calm>>

\* The handle is kept if there is none; else the server just started is stopped,
\* under the lock.
Commit(c) ==
  /\ writer = None
  /\ IF mock = None
     THEN mock' = c /\ Ends(c, "commit", "ok") /\ UNCHANGED <<writer, port, drains>>
     ELSE /\ Goto(c, "commit", "drain") /\ UNCHANGED <<result, mock>>
          /\ writer' = c /\ port' = [port EXCEPT ![c] = 0]
          /\ drains' = [drains EXCEPT ![c] = c]
  /\ UNCHANGED <<kind, project, seen, user, store, client, calm>>

\* mock_reload: the definitions of the server that runs now are replaced.
Install(c) ==
  /\ writer = None
  /\ Ends(c, "install", IF mock = None THEN "stopped" ELSE "ok")
  /\ store' = IF mock = None THEN store ELSE [store EXCEPT ![mock] = Definitions(c)]
  /\ UNCHANGED <<kind, project, seen, user, writer, mock, port, drains, client,
                 calm>>

\* mock_stop: the handle is taken and the server told to shut down: it accepts
\* no more and answers what it has.
Take(c) ==
  /\ writer = None
  /\ IF mock = None
     THEN Ends(c, "take", "ok") /\ UNCHANGED <<writer, mock, port, drains>>
     ELSE /\ Goto(c, "take", "drain") /\ UNCHANGED result
          /\ writer' = c /\ mock' = None /\ port' = [port EXCEPT ![mock] = 0]
          /\ drains' = [drains EXCEPT ![c] = mock]
  /\ UNCHANGED <<kind, project, seen, user, store, client, calm>>

Busy(s) == \E r \in Req : req[r] = "waiting" /\ asked[r] = s

Drained(c) ==
  /\ ~Busy(drains[c])
  /\ Ends(c, "drain", IF kind[c] = "start" THEN "running" ELSE "ok")
  /\ writer' = None /\ drains' = [drains EXCEPT ![c] = None]
  /\ UNCHANGED <<kind, project, seen, user, server, client, calm>>

-----------------------------------------------------------------------------
(* Clients and the user *)

\* A request comes to a listening server; it may be delayed.
Arrive(r) ==
  /\ req[r] = "idle"
  /\ \E s \in Listening : asked' = [asked EXCEPT ![r] = s]
  /\ req' = [req EXCEPT ![r] = "waiting"]
  /\ UNCHANGED <<cmd, user, writer, server, drains, calm>>

Answer(r) ==
  /\ req[r] = "waiting" /\ req' = [req EXCEPT ![r] = "answered"]
  /\ UNCHANGED <<cmd, user, writer, server, drains, asked, calm>>

Edit(p) ==
  /\ edits[p] < MaxEdits /\ edits' = [edits EXCEPT ![p] = @ + 1] /\ calm' = {}
  /\ UNCHANGED <<cmd, active, taken, writer, server, drains, client>>

Switch ==
  /\ active' \in Project \ {active} /\ calm' = {}
  /\ UNCHANGED <<cmd, edits, taken, writer, server, drains, client>>

Work(c) ==
  \/ Check(c) \/ ReadProject(c) \/ Query(c) \/ Bind(c) \/ Commit(c)
  \/ Install(c) \/ Take(c) \/ Drained(c)

Next ==
  \/ \E c \in Cmd : Work(c) \/ \E k \in {"start", "reload", "stop"} : Begin(c, k)
  \/ \E r \in Req : Arrive(r) \/ Answer(r)
  \/ Switch \/ \E p \in Project : Edit(p)

\* Commands are tasks of the runtime and locks are fair; delays end.
Fairness ==
  /\ \A c \in Cmd : WF_vars(Work(c))
  /\ \A r \in Req : WF_vars(Answer(r))

Spec == Init /\ [][Next]_vars

-----------------------------------------------------------------------------
(* Properties *)

\* Everything is of its kind, and no two servers listen on a port, nor one on a
\* port of another program.
TypeOK ==
  /\ kind \in [Cmd -> {"none", "start", "reload", "stop"}]
  /\ at \in [Cmd -> {"idle", "check", "project", "query", "bind", "commit",
                     "install", "take", "drain", "done"}]
  /\ project \in [Cmd -> Project \cup {None}] /\ active \in Project \cup {None}
  /\ {mock, writer} \subseteq Cmd \cup {None}
  /\ port \in [Cmd -> {0} \cup (Port \ taken)]
  /\ \A c, d \in Listening : port[c] = port[d] => c = d
  /\ req \in [Req -> {"idle", "waiting", "answered"}]
  /\ calm \subseteq Cmd

\* The server whose handle is kept listens, and one that listens is kept or is
\* about to be, or to be stopped: mock.rs promises that no handle leaks.
NoStrayServer ==
  /\ mock # None => mock \in Listening
  /\ \A s \in Listening : s = mock \/ at[s] = "commit"

\* A command that stops a server waits for the requests in flight: no request is
\* at a server that neither listens nor is being drained.
StopWaitsForRequests ==
  \A r \in Req : req[r] = "waiting" =>
    asked[r] \in Listening \/ \E c \in Cmd : drains[c] = asked[r]

\* A start or reload that nothing happened beside serves the active project as it
\* is in the database.
SerialServesActive ==
  \A c \in calm : result[c] = "ok" /\ kind[c] \in {"start", "reload"} =>
    mock # None /\ store[mock] = <<active, edits[active], edits[active], edits[active]>>

\* Every command comes to an end, whoever holds the lock.
CommandsEnd == \A c \in Cmd : (at[c] # "idle") ~> (at[c] = "done")

\* The server that is kept is the one that listens, it lets requests finish and
\* serves what the database holds.
MockFollows == TypeOK /\ NoStrayServer /\ StopWaitsForRequests /\ SerialServesActive
=============================================================================
