----------------------------- MODULE AgentControl -----------------------------
(***************************************************************************)
(* The control server for agents: the commands of crates/fox-tauri that     *)
(* start, stop and configure it, the file that names its port, and the      *)
(* bridge (rustfox-mcp) that looks for it with that file.                   *)
(*                                                                          *)
(* Actors: commands, which overlap; the bridge; whoever ends the            *)
(* application, starts it again or removes the file.  The handle of the     *)
(* server is behind a lock that is held while it starts or stops, but not   *)
(* while settings are read and written.  A write may fail.                  *)
(***************************************************************************)
EXTENDS Naturals, FiniteSets

CONSTANTS
  Cmd,       \* commands
  Bridge,    \* calls of a tool of the bridge
  None,
  Last,      \* u16::MAX: ports are 1 .. Last
  Default,   \* DEFAULT_AGENT_PORT
  Tries      \* MAX_PORT_TRIES

Port == 1 .. Last

VARIABLES
  kind, arg,        \* what a command is, and its port (or 1 for true)
  at, result,       \* where it is, and how it ended
  prev, was, tried, \* the port before, whether the server ran, where to start
  writer,           \* who holds the lock
  server,           \* the port the server listens on, 0 if there is none
  file,             \* the port in the file, 0 if there is no file
  enabled, first,   \* the settings mcp_enabled and mcp_port
  app,              \* "up" or "down"
  taken,            \* ports other programs have
  look, probe, found, \* the bridge: where it is, the port it tries, what it found
  calm, before      \* commands and calls nothing has happened beside, and whether
                    \* there was a server when each began

cmd == <<kind, arg, at, result, prev, was, tried>>
disk == <<file, enabled, first>>
bridge == <<look, probe, found>>
vars == <<cmd, writer, server, disk, app, taken, bridge, calm, before>>

Init ==
  /\ kind = [c \in Cmd |-> "none"] /\ arg = [c \in Cmd |-> 0]
  /\ at = [c \in Cmd |-> "idle"] /\ result = [c \in Cmd |-> "none"]
  /\ prev = [c \in Cmd |-> 0] /\ was = [c \in Cmd |-> 0]
  /\ tried = [c \in Cmd |-> 0]
  /\ writer = None /\ server = 0 /\ file = 0
  /\ enabled = 1 /\ first = Default /\ app = "down"
  /\ taken \in SUBSET Port
  /\ look = [b \in Bridge |-> "idle"] /\ probe = [b \in Bridge |-> 0]
  /\ found = [b \in Bridge |-> 0] /\ calm = {}
  /\ before = [x \in Cmd \cup Bridge |-> 0]

Goto(c, from, to) == at[c] = from /\ at' = [at EXCEPT ![c] = to]
Ends(c, from, r) == Goto(c, from, "done") /\ result' = [result EXCEPT ![c] = r]
AtRest == /\ \A c \in Cmd : at[c] \in {"idle", "done"}
          /\ \A b \in Bridge : look[b] \in {"idle", "done"}
Begins(x) == /\ calm' = IF AtRest THEN {x} ELSE {}
             /\ before' = [before EXCEPT ![x] = server]

\* start_at: the first free port from p on, at most Tries of them and none past
\* the last; 0 if all are taken.
Candidates(p) == {q \in Port : p <= q /\ q < p + Tries} \ taken
FirstFree(p) ==
  IF Candidates(p) = {} THEN 0
  ELSE CHOOSE q \in Candidates(p) : \A r \in Candidates(p) : q <= r

-----------------------------------------------------------------------------
(* Commands *)

Begin(c, k, a) ==
  /\ app = "up"
  /\ Goto(c, "idle", CASE k = "start" -> "lock" [] k = "stop" -> "unlock"
                       [] k = "enable" -> IF a = 1 THEN "lock" ELSE "unlock"
                       [] k = "port" -> "read")
  /\ kind' = [kind EXCEPT ![c] = k] /\ arg' = [arg EXCEPT ![c] = a]
  /\ Begins(c)
  /\ UNCHANGED <<result, prev, was, tried, writer, server, disk, app, taken, bridge>>

\* set_mcp_port does nothing if the port is the one it reads.
ReadPort(c) ==
  /\ prev' = [prev EXCEPT ![c] = first]
  /\ IF arg[c] = first THEN Ends(c, "read", "ok")
     ELSE Goto(c, "read", "unlock") /\ UNCHANGED result
  /\ UNCHANGED <<kind, arg, was, tried, writer, server, disk, app, taken, bridge,
                 calm, before>>

\* What comes after the server was started or stopped.
AfterLock(c) == IF kind[c] = "enable" THEN "write" ELSE "done"

\* ensure_started takes the lock.  If the server runs, its port is only written
\* to the file again; else the port to start at is read.
Lock(c) ==
  /\ at[c] \in {"lock", "relock"} /\ writer = None
  /\ IF server # 0
     THEN /\ file' = server /\ UNCHANGED <<writer, tried>>
          /\ at' = [at EXCEPT ![c] = AfterLock(c)]
          /\ result' = [result EXCEPT ![c] = IF at[c] = "relock" THEN "failed" ELSE "ok"]
     ELSE /\ writer' = c /\ tried' = [tried EXCEPT ![c] = first]
          /\ at' = [at EXCEPT ![c] = IF at[c] = "relock" THEN "rebind" ELSE "bind"]
          /\ UNCHANGED <<file, result>>
  /\ UNCHANGED <<kind, arg, prev, was, server, enabled, first, app, taken, bridge,
                 calm, before>>

\* The server listens, its port is written to the file, and the lock is given up.
\* If no port is free set_mcp_port rolls back, once; the others fail.
Bind(c) ==
  /\ at[c] \in {"bind", "rebind"} /\ writer' = None
  /\ IF FirstFree(tried[c]) # 0
     THEN /\ server' = FirstFree(tried[c]) /\ file' = server'
          /\ at' = [at EXCEPT ![c] = AfterLock(c)]
          /\ result' = [result EXCEPT ![c] = IF at[c] = "rebind" THEN "failed" ELSE "ok"]
     ELSE /\ UNCHANGED <<server, file>>
          /\ at' = [at EXCEPT ![c] = IF kind[c] = "port" /\ at[c] = "bind"
                                     THEN "rollback" ELSE "done"]
          /\ result' = [result EXCEPT ![c] = "failed"]
  /\ UNCHANGED <<kind, arg, prev, was, tried, enabled, first, app, taken, bridge,
                 calm, before>>

\* stop_locked: the server is stopped and the file removed.
Unlock(c) ==
  /\ writer = None
  /\ Goto(c, "unlock", IF kind[c] = "stop" THEN "done" ELSE "write")
  /\ result' = [result EXCEPT ![c] = "ok"]
  /\ was' = [was EXCEPT ![c] = server]
  /\ server' = 0 /\ file' = IF server = 0 THEN file ELSE 0
  /\ UNCHANGED <<kind, arg, prev, tried, writer, enabled, first, app, taken, bridge,
                 calm, before>>

\* Slip: the setting is not written.
WriteNothing(c) ==
  /\ Ends(c, "write", "ok")
  /\ UNCHANGED <<kind, arg, prev, was, tried, writer, server, disk, app, taken,
                 bridge, calm, before>>

\* The setting is written, or the database refuses and the command ends.
Write(c) ==
  \/ /\ Goto(c, "write", IF kind[c] = "port" /\ was[c] # 0 THEN "lock" ELSE "done")
     /\ enabled' = IF kind[c] = "enable" THEN arg[c] ELSE enabled
     /\ first' = IF kind[c] = "port" THEN arg[c] ELSE first
     /\ UNCHANGED <<kind, arg, result, prev, was, tried, writer, server, file, app,
                    taken, bridge, calm, before>>
  \/ /\ Ends(c, "write", "refused")
     /\ UNCHANGED <<kind, arg, prev, was, tried, writer, server, disk, app, taken,
                    bridge, calm, before>>

\* The old port is written back, if the database lets it be, and tried.
Rollback(c) ==
  /\ Goto(c, "rollback", "relock")
  /\ \/ first' = prev[c] /\ UNCHANGED calm
     \/ calm' = {} /\ UNCHANGED first
  /\ UNCHANGED <<kind, arg, result, prev, was, tried, writer, server, file, enabled,
                 app, taken, bridge, before>>

Work(c) ==
  \/ ReadPort(c) \/ Lock(c) \/ Bind(c) \/ Unlock(c) \/ Write(c) \/ Rollback(c)

-----------------------------------------------------------------------------
(* The application and the bridge *)

\* The application starts, and its server with it unless that is switched off; a
\* server that cannot start is only logged.
Start ==
  /\ app = "down" /\ app' = "up" /\ calm' = {}
  /\ server' = IF enabled = 1 THEN FirstFree(first) ELSE 0
  /\ file' = IF server' # 0 THEN server' ELSE file
  /\ UNCHANGED <<cmd, writer, enabled, first, taken, bridge, before>>

\* It ends or crashes: the file stays.
Exit ==
  /\ app = "up" /\ app' = "down" /\ calm' = {}
  /\ at' = [c \in Cmd |-> IF at[c] = "idle" THEN "idle" ELSE "done"]
  /\ writer' = None /\ server' = 0
  /\ UNCHANGED <<kind, arg, result, prev, was, tried, disk, taken, bridge, before>>

RemoveFile ==
  /\ file # 0 /\ file' = 0 /\ calm' = {}
  /\ UNCHANGED <<cmd, writer, server, enabled, first, app, taken, bridge, before>>

LookAt(b, where, p) ==
  look' = [look EXCEPT ![b] = where] /\ probe' = [probe EXCEPT ![b] = p]

\* discover_default reads the file and tries the port in it ...
Discover(b) ==
  /\ look[b] = "idle" /\ Begins(b)
  /\ IF file # 0 THEN LookAt(b, "file", file) ELSE LookAt(b, "scan", Default)
  /\ UNCHANGED <<cmd, writer, server, disk, app, taken, found>>

\* ... and then those of the default range, until the server answers.
Probe(b) ==
  /\ look[b] \in {"file", "scan"}
  /\ IF probe[b] = server
     THEN LookAt(b, "done", probe[b]) /\ found' = [found EXCEPT ![b] = server]
     ELSE /\ UNCHANGED found
          /\ IF look[b] = "file" THEN LookAt(b, "scan", Default)
             ELSE IF probe[b] + 1 < Default + Tries THEN LookAt(b, "scan", probe[b] + 1)
             ELSE LookAt(b, "done", probe[b])
  /\ UNCHANGED <<cmd, writer, server, disk, app, taken, calm, before>>

Next ==
  \/ \E c \in Cmd : Work(c) \/ Begin(c, "start", 0) \/ Begin(c, "stop", 0)
  \/ \E c \in Cmd, e \in {0, 1} : Begin(c, "enable", e)
  \/ \E c \in Cmd, p \in Port : Begin(c, "port", p)
  \/ \E b \in Bridge : Discover(b) \/ Probe(b)
  \/ Start \/ Exit \/ RemoveFile

Spec == Init /\ [][Next]_vars

-----------------------------------------------------------------------------
(* Properties *)

\* Ports are ports; the server listens only in an application that is up and on a
\* port that was free; who holds the lock is starting the server.
TypeOK ==
  /\ server \in {0} \cup Port /\ file \in {0} \cup Port
  /\ server # 0 => app = "up" /\ server \notin taken
  /\ enabled \in {0, 1} /\ first \in Port
  /\ writer # None => at[writer] \in {"bind", "rebind"} /\ server = 0
  /\ \A c \in Cmd : was[c] \in {0} \cup Port /\ tried[c] \in {0} \cup Port
  /\ \A b \in Bridge : found[b] \in {0} \cup Port

\* A port file beside a running server names the port it listens on, whatever was
\* asked for (portfile.rs: the port that was bound).
FileNamesServer == server # 0 /\ file # 0 => file = server

\* A command that succeeded with nothing beside it leaves the server as the
\* settings say: running if and only if it was switched on, and at the new port
\* or one of those after it.
SerialSettingsApplied ==
  \A c \in calm \cap Cmd : at[c] = "done" /\ result[c] = "ok" =>
    /\ kind[c] = "enable" => enabled = arg[c] /\ (server # 0 <=> enabled = 1)
    /\ kind[c] = "port" =>
         /\ first = arg[c] /\ (server # 0 <=> before[c] # 0)
         /\ server # 0 /\ was[c] # 0 => server \in Candidates(first)

\* A port on which the server cannot start is given back: the old setting holds
\* and the server runs again, if it ran and the database wrote.
SerialPortRolledBack ==
  \A c \in calm \cap Cmd :
    at[c] = "done" /\ kind[c] = "port" /\ result[c] = "failed" =>
      first = prev[c] /\ (Candidates(first) # {} => server # 0)

\* The bridge finds a server that runs all the while, if its port is in the file
\* or in the default range.
BridgeFindsServer ==
  \A b \in calm \cap Bridge :
    look[b] = "done" /\ server # 0
      /\ (file = server \/ (Default <= server /\ server < Default + Tries))
    => found[b] = server
=============================================================================
