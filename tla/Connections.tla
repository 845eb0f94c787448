----------------------------- MODULE Connections -----------------------------
(***************************************************************************)
(* What of the application talks to a server: calls that have an answer,    *)
(* and sessions that have events, of a WebSocket or of SSE.  Each has its   *)
(* tables, through which the user finds and ends it.                        *)
(***************************************************************************)
EXTENDS Calls, Sequences

CONSTANTS
  Session,    \* sessions
  Ws,         \* those that are WebSockets
  Capacity,   \* EVENT_CAPACITY
  MaxEvents   \* bound: events of a session

VARIABLES cmd, table, source, emitted, forward, next, ui, heard, leaving

sessions == <<cmd, table, source, emitted, forward, next, ui, heard, leaving>>

S == INSTANCE Sessions WITH told <- emitted

\* Whatever goes on can be found and ended, and nothing that is over is listed.
CancelFinds ==
  TypeOK /\ Cancellable /\ RegistryCleared /\ OpenStreamsListed /\ S!NoOrphan

\* Events come in order: none after the last, and no gap between two.
EventsInOrder == EndIsLast /\ []S!NoGap
==============================================================================
