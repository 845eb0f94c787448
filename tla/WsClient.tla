------------------------------ MODULE WsClient ------------------------------
(***************************************************************************)
(* The reconnecting WebSocket client of crates/fox-http/src/ws_client.rs   *)
(* together with the ws_messages table it spills to.                       *)
(*                                                                         *)
(* Actors: the background task (ws_loop and the run_session it awaits),    *)
(* callers of send_message, one caller of stop, the remote peer and        *)
(* network, and the process itself, which may exit and be started again    *)
(* with the same table.  A step of the task is the code between two of its *)
(* await points; a step is cut further only where stop() can fall between  *)
(* two statements and be treated differently.                              *)
(*                                                                         *)
(* Left out: payloads, headers, sub-protocols, the wording of errors, the  *)
(* broadcast of received messages (it changes nothing here), and the       *)
(* length of the back-off (the wait is a step that may come at any time).  *)
(***************************************************************************)
EXTENDS Naturals, Sequences, FiniteSets

CONSTANTS
  Message,         \* messages callers may send; each is sent at most once
  NoMessage,       \* "nothing in flight"
  OutboxCapacity,  \* capacity of the mpsc queue (OUTBOX_CAPACITY)
  MaxMissedPongs,  \* WsOptions::max_missed_pongs
  AutoReconnect,   \* WsOptions::auto_reconnect
  HasStore,        \* a SqlitePool was given
  RequestOk,       \* build_request succeeds for this target
  MaxFaults,       \* bound: failures the network may inject
  MaxRestarts      \* bound: times the process is restarted

ASSUME ConstantsAssumption ==
  /\ NoMessage \notin Message
  /\ OutboxCapacity \in Nat \ {0}
  /\ MaxMissedPongs \in Nat \ {0}
  /\ {AutoReconnect, HasStore, RequestOk} \subseteq BOOLEAN
  /\ MaxFaults \in Nat
  /\ MaxRestarts \in Nat

VARIABLES
  task,       \* where the background task is
  stopValue,  \* value of the `stop` watch channel: "run" (false), "stop" (true)
  stopper,    \* the caller of stop()
  state,      \* value of the `state` watch channel
  outbox,     \* the bounded mpsc queue
  spilling,   \* messages whose send saw a full queue, INSERT still pending
  rows,       \* messages that have a row in ws_messages
  stamp,      \* created_at of each row, as an insertion number; 0: never stored
  inserts,    \* insertions so far
  old,        \* rows past WS_MESSAGE_TTL
  persisted,  \* rows loaded by this session and not yet sent
  inflight,   \* message given to sink.send
  source,     \* inflight came from the "queue" or the "table"
  missed,     \* missed_pongs
  pongs,      \* answers of the peer not yet read from the stream
  peer,       \* the peer of this session: "prompt" so far, "late" (a heartbeat
              \* overtook an answer), or "silent" (answers no more)
  result,     \* how run_session ended
  faults,     \* network failures so far
  restarts,   \* process restarts so far
  wire,       \* history: messages written to the socket, in order
  queued,     \* history: messages the queue accepted, in order
  purged,     \* history: rows deleted because they expired
  undeleted,  \* history: rows written to the socket whose DELETE did not happen
  failed,     \* history: queue messages whose sink.send failed
  forfeited   \* history: queue messages dropped with the queue itself

taskVars  == <<task, state, result>>
stopVars  == <<stopValue, stopper>>
queueVars == <<outbox, spilling>>
tableVars == <<rows, stamp, inserts, old>>
sendVars  == <<persisted, inflight, source>>
beatVars  == <<missed, pongs, peer>>
envVars   == <<faults, restarts>>
history   == <<wire, queued, purged, undeleted, failed, forfeited>>
vars == <<taskVars, stopVars, queueVars, tableVars, sendVars, beatVars,
          envVars, history>>

-----------------------------------------------------------------------------

Elements(s) == {s[i] : i \in DOMAIN s}

Stopped == stopValue = "stop"

\* Places where a tokio::sync::watch receiver of `stop` is alive.  The sender
\* keeps none (connect_with_store drops it), and watch::Sender::send leaves
\* the value as it is when there is no receiver.
StopReceiverAlive == task \in {"Load", "Session", "Send", "Delete", "Backoff"}

InSession == task \in {"Load", "Session", "Send", "Delete"}

\* Messages some caller has already handed to send_message.
Used == Elements(queued) \cup spilling \cup {m \in Message : stamp[m] > 0}

\* m comes first in ORDER BY created_at.
IsOldest(m, S) == m \in S /\ \A n \in S : stamp[m] <= stamp[n]

\* Where the loop goes after an error or the end of a session: wait_stoppable
\* when reconnecting, else `break`, which leaves only the inner loop.
AfterFailure == IF AutoReconnect THEN "Backoff" ELSE "Outer"

Fault == faults < MaxFaults /\ faults' = faults + 1

-----------------------------------------------------------------------------
(* connect_with_store: the task is spawned with an empty queue. *)

Init ==
  /\ task = "Outer" /\ state = "Connecting" /\ result = "Ok"
  /\ stopValue = "run" /\ stopper = "idle"
  /\ outbox = <<>> /\ spilling = {}
  /\ rows = {} /\ stamp = [m \in Message |-> 0] /\ inserts = 0 /\ old = {}
  /\ persisted = {} /\ inflight = NoMessage /\ source = "queue"
  /\ missed = 0 /\ pongs = 0 /\ peer = "prompt"
  /\ faults = 0 /\ restarts = 0
  /\ wire = <<>> /\ queued = <<>> /\ purged = {} /\ undeleted = {}
  /\ failed = {} /\ forfeited = {}

-----------------------------------------------------------------------------
(* ws_loop *)

\* Slip: the outer loop does not look at the stop flag.
OuterCheckIgnoresStop ==
  /\ task = "Outer"
  /\ task' = "Inner" /\ state' = "Connecting"
  /\ UNCHANGED <<result, stopVars, queueVars, tableVars, sendVars, beatVars,
                 envVars, history>>

\* Top of the outer loop.  On stop the function returns: the final state is
\* Closed and the receiving half of the queue is dropped with what it holds.
OuterCheck ==
  /\ task = "Outer"
  /\ \/ /\ Stopped
        /\ task' = "Done" /\ state' = "Closed"
        /\ outbox' = <<>>
        /\ forfeited' = forfeited \cup Elements(outbox)
     \/ /\ ~Stopped
        /\ task' = "Inner" /\ state' = "Connecting"
        /\ UNCHANGED <<outbox, forfeited>>
  /\ UNCHANGED <<result, stopVars, spilling, tableVars, sendVars, beatVars,
                 envVars, wire, queued, purged, undeleted, failed>>

\* Top of the inner loop and build_request.
InnerCheck ==
  /\ task = "Inner"
  /\ \/ Stopped /\ task' = "Outer" /\ UNCHANGED state
     \/ ~Stopped /\ RequestOk /\ task' = "Handshake" /\ UNCHANGED state
     \/ ~Stopped /\ ~RequestOk /\ task' = AfterFailure /\ state' = "Error"
  /\ UNCHANGED <<result, stopVars, queueVars, tableVars, sendVars, beatVars,
                 envVars, history>>

\* connect_async returned an error.
HandshakeFail ==
  /\ task = "Handshake"
  /\ Fault
  /\ task' = AfterFailure /\ state' = "Error"
  /\ UNCHANGED <<result, stopVars, queueVars, tableVars, sendVars, beatVars,
                 restarts, history>>

\* connect_async returned a stream; run_session runs up to its first await.
HandshakeOk ==
  /\ task = "Handshake"
  /\ task' = "Load" /\ state' = "Open"
  /\ missed' = 0 /\ pongs' = 0 /\ peer' = "prompt"
  /\ UNCHANGED <<result, stopVars, queueVars, tableVars, sendVars, envVars,
                 history>>

\* Slip: a graceful end of the session is not published.
EndSessionKeepsState ==
  /\ task = "Ended"
  /\ \/ Stopped /\ task' = "Outer" /\ UNCHANGED state
     \/ /\ ~Stopped
        /\ task' = AfterFailure
        /\ state' = IF result = "Ok" THEN state ELSE "Error"
  /\ UNCHANGED <<result, stopVars, queueVars, tableVars, sendVars, beatVars,
                 envVars, history>>

\* After run_session: its receiver of `stop` is gone, the flag is read once.
EndSession ==
  /\ task = "Ended"
  /\ \/ Stopped /\ task' = "Outer" /\ UNCHANGED state
     \/ /\ ~Stopped
        /\ task' = AfterFailure
        /\ state' = IF result = "Ok" THEN "Closed" ELSE "Error"
  /\ UNCHANGED <<result, stopVars, queueVars, tableVars, sendVars, beatVars,
                 envVars, history>>

\* wait_stoppable: the delay elapsed, or the stop signal came first.
BackoffElapsed ==
  /\ task = "Backoff"
  /\ ~Stopped
  /\ task' = "Inner"
  /\ UNCHANGED <<state, result, stopVars, queueVars, tableVars, sendVars,
                 beatVars, envVars, history>>

BackoffStopped ==
  /\ task = "Backoff"
  /\ Stopped
  /\ task' = "Outer"
  /\ UNCHANGED <<state, result, stopVars, queueVars, tableVars, sendVars,
                 beatVars, envVars, history>>

-----------------------------------------------------------------------------
(* run_session *)

\* The session returns: `persisted` and the message in flight are dropped.
Leave(how) ==
  /\ task' = "Ended" /\ result' = how
  /\ persisted' = {} /\ inflight' = NoMessage /\ source' = "queue"

\* load_persisted, then the check of the stop flag that precedes the loop.
\* Either statement may fail; a failed purge is ignored, a failed SELECT
\* loads nothing.
LoadPersisted ==
  /\ task = "Load"
  /\ \E gone \in {{}, rows \cap old} : \E listed \in {{}, rows \ gone} :
       /\ HasStore \/ (gone = {} /\ listed = {})
       /\ rows' = rows \ gone
       /\ purged' = purged \cup gone
       /\ \/ ~Stopped /\ task' = "Session" /\ persisted' = listed
             /\ UNCHANGED <<result, inflight, source>>
          \/ Stopped /\ Leave("Ok")
  /\ UNCHANGED <<state, stopVars, queueVars, stamp, inserts, old, beatVars,
                 envVars, wire, queued, undeleted, failed, forfeited>>

\* select!: stop_rx.changed() -> close_sink, graceful end.
SessionStop ==
  /\ task = "Session"
  /\ Stopped
  /\ Leave("Ok")
  /\ UNCHANGED <<state, stopVars, queueVars, tableVars, beatVars, envVars,
                 history>>

\* next_outgoing: the loaded rows in order of time, then the queue.
NextOutgoing ==
  \/ /\ \E m \in persisted :
          /\ IsOldest(m, persisted)
          /\ inflight' = m
          /\ persisted' = persisted \ {m}
     /\ source' = "table"
     /\ UNCHANGED outbox
  \/ /\ persisted = {} /\ outbox # <<>>
     /\ inflight' = Head(outbox)
     /\ outbox' = Tail(outbox)
     /\ source' = "queue"
     /\ UNCHANGED persisted

\* select!: there is something to send.
TakeOutgoing ==
  /\ task = "Session"
  /\ task' = "Send"
  /\ NextOutgoing
  /\ UNCHANGED <<state, result, stopVars, spilling, tableVars, beatVars,
                 envVars, history>>

\* sink.send(message).await returned Ok; a row is deleted only afterwards.
SendOk ==
  /\ task = "Send"
  /\ wire' = Append(wire, inflight)
  /\ \/ source = "table" /\ task' = "Delete" /\ UNCHANGED <<inflight, source>>
     \/ source = "queue" /\ task' = "Session" /\ inflight' = NoMessage
        /\ UNCHANGED source
  /\ UNCHANGED <<state, result, stopVars, queueVars, tableVars, persisted,
                 beatVars, envVars, queued, purged, undeleted, failed,
                 forfeited>>

\* Slip: the row is deleted although it was not written.
SendFailDeletesRow ==
  /\ task = "Send"
  /\ Fault
  /\ failed' = failed \cup IF source = "queue" THEN {inflight} ELSE {}
  /\ rows' = rows \ {inflight}
  /\ Leave("Err")
  /\ UNCHANGED <<state, stopVars, queueVars, stamp, inserts, old, beatVars,
                 restarts, wire, queued, purged, undeleted, forfeited>>

\* sink.send returned Err: the session ends.  A message that came from the
\* queue is not put back.
SendFail ==
  /\ task = "Send"
  /\ Fault
  /\ failed' = failed \cup IF source = "queue" THEN {inflight} ELSE {}
  /\ Leave("Err")
  /\ UNCHANGED <<state, stopVars, queueVars, tableVars, beatVars, restarts,
                 wire, queued, purged, undeleted, forfeited>>

\* Slip: the row is kept after it has been written.
DeleteRowForgotten ==
  /\ task = "Delete"
  /\ task' = "Session" /\ inflight' = NoMessage /\ source' = "queue"
  /\ UNCHANGED <<state, result, stopVars, queueVars, tableVars, persisted,
                 beatVars, envVars, history>>

\* delete_ws_messages; its error is only logged.
DeleteRow ==
  /\ task = "Delete"
  /\ \/ rows' = rows \ {inflight} /\ UNCHANGED undeleted
     \/ undeleted' = undeleted \cup {inflight} /\ UNCHANGED rows
  /\ task' = "Session" /\ inflight' = NoMessage /\ source' = "queue"
  /\ UNCHANGED <<state, result, stopVars, queueVars, stamp, inserts, old,
                 persisted, beatVars, envVars, wire, queued, purged, failed, forfeited>>

\* select!: the stream ends (None, Err) or the peer sends a Close frame.
StreamEnds ==
  /\ task = "Session"
  /\ Fault
  /\ \E how \in {"Ok", "Err"} : Leave(how)
  /\ UNCHANGED <<state, stopVars, queueVars, tableVars, beatVars, restarts,
                 history>>

\* select!: a Pong is read.
ReadPong ==
  /\ task = "Session"
  /\ pongs > 0
  /\ pongs' = pongs - 1 /\ missed' = 0
  /\ UNCHANGED <<taskVars, stopVars, queueVars, tableVars, sendVars, peer,
                 envVars, history>>

\* Slip: pings are sent but not counted.
TickUncounted ==
  /\ task = "Session"
  /\ pongs = 0
  /\ pongs' = IF peer = "silent" THEN pongs ELSE pongs + 1
  /\ UNCHANGED <<taskVars, stopVars, queueVars, tableVars, sendVars, missed,
                 peer, envVars, history>>

\* select!: ping.tick().  A tick that overtakes an answer not yet read costs
\* a fault: once the budget is spent the network is prompt.
Tick ==
  /\ task = "Session"
  /\ \/ pongs = 0 /\ UNCHANGED <<peer, faults>>
     \/ pongs > 0 /\ Fault /\ peer' = IF peer = "silent" THEN peer ELSE "late"
  /\ missed' = missed + 1
  /\ pongs' = IF peer = "silent" THEN pongs ELSE pongs + 1
  /\ \/ missed' >= MaxMissedPongs /\ Leave("Heartbeat")
     \/ missed' < MaxMissedPongs /\ UNCHANGED <<task, result, sendVars>>
  /\ UNCHANGED <<state, stopVars, queueVars, tableVars, restarts,
                 history>>

\* select!: the ping itself cannot be sent.
TickFail ==
  /\ task = "Session"
  /\ Fault
  /\ Leave("Err")
  /\ UNCHANGED <<state, stopVars, queueVars, tableVars, beatVars, restarts,
                 history>>

-----------------------------------------------------------------------------
(* send_message and persist_overflow *)

\* try_send found room.
SendQueued(m) ==
  /\ task # "Done"
  /\ m \notin Used
  /\ Len(outbox) < OutboxCapacity
  /\ outbox' = Append(outbox, m)
  /\ queued' = Append(queued, m)
  /\ UNCHANGED <<taskVars, stopVars, spilling, tableVars, sendVars, beatVars,
                 envVars, wire, purged, undeleted, failed, forfeited>>

\* try_send found the queue full and there is a table to spill to.  Without
\* one, or once the task is gone, the caller gets an error and nothing changes.
SendSpills(m) ==
  /\ task # "Done"
  /\ m \notin Used
  /\ Len(outbox) >= OutboxCapacity
  /\ HasStore
  /\ spilling' = spilling \cup {m}
  /\ UNCHANGED <<taskVars, stopVars, outbox, tableVars, sendVars, beatVars,
                 envVars, history>>

\* enqueue_ws_message: the INSERT succeeds, or fails and the caller is told.
SpillInsert(m) ==
  /\ m \in spilling
  /\ spilling' = spilling \ {m}
  /\ \/ /\ rows' = rows \cup {m}
        /\ inserts' = inserts + 1
        /\ stamp' = [stamp EXCEPT ![m] = inserts + 1]
     \/ UNCHANGED <<rows, inserts, stamp>>
  /\ UNCHANGED <<taskVars, stopVars, outbox, old, sendVars, beatVars, envVars,
                 history>>

\* A row becomes older than WS_MESSAGE_TTL; older rows have done so before.
RowExpires(m) ==
  /\ IsOldest(m, rows \ old)
  /\ old' = old \cup {m}
  /\ UNCHANGED <<taskVars, stopVars, queueVars, rows, stamp, inserts,
                 sendVars, beatVars, envVars, history>>

-----------------------------------------------------------------------------
(* stop() *)

StopBegin ==
  /\ stopper = "idle"
  /\ stopper' = "waiting"
  /\ stopValue' = IF StopReceiverAlive THEN "stop" ELSE stopValue
  /\ UNCHANGED <<taskVars, queueVars, tableVars, sendVars, beatVars, envVars,
                 history>>

\* The join handle resolved, or five seconds passed; either way stop()
\* publishes Closed and reports success.
StopReturn ==
  /\ stopper = "waiting"
  /\ stopper' = "returned" /\ state' = "Closed"
  /\ UNCHANGED <<task, result, stopValue, queueVars, tableVars, sendVars,
                 beatVars, envVars, history>>

\* A second call finds the handle taken and does not wait.
StopAgain ==
  /\ stopper = "returned"
  /\ stopValue' = IF StopReceiverAlive THEN "stop" ELSE stopValue
  /\ state' = "Closed"
  /\ UNCHANGED <<task, result, stopper, queueVars, tableVars, sendVars,
                 beatVars, envVars, history>>

-----------------------------------------------------------------------------
(* The environment *)

\* The peer stops answering pings but keeps the connection up.
PeerGoesSilent ==
  /\ InSession /\ peer # "silent"
  /\ Fault
  /\ peer' = "silent"
  /\ UNCHANGED <<taskVars, stopVars, queueVars, tableVars, sendVars, missed,
                 pongs, restarts, history>>

\* The process exits, cleanly or not, and a client for the same target is
\* opened again: only the table survives.
Restart ==
  /\ restarts < MaxRestarts /\ restarts' = restarts + 1
  /\ task' = "Outer" /\ state' = "Connecting" /\ result' = "Ok"
  /\ stopValue' = "run" /\ stopper' = "idle"
  /\ outbox' = <<>> /\ spilling' = {}
  /\ persisted' = {} /\ inflight' = NoMessage /\ source' = "queue"
  /\ missed' = 0 /\ pongs' = 0 /\ peer' = "prompt"
  /\ undeleted' = IF task = "Delete" THEN undeleted \cup {inflight}
                  ELSE undeleted
  /\ forfeited' = forfeited \cup Elements(outbox)
                  \cup (IF task = "Send" /\ source = "queue" THEN {inflight} ELSE {})
  /\ UNCHANGED <<tableVars, faults, wire, queued, purged, failed>>

-----------------------------------------------------------------------------

Task ==
  \/ OuterCheck \/ InnerCheck \/ HandshakeFail \/ HandshakeOk \/ EndSession
  \/ BackoffElapsed \/ BackoffStopped \/ LoadPersisted \/ SessionStop
  \/ TakeOutgoing \/ SendOk \/ SendFail \/ DeleteRow \/ StreamEnds
  \/ ReadPong \/ Tick \/ TickFail

Callers ==
  \/ \E m \in Message : SendQueued(m) \/ SendSpills(m) \/ SpillInsert(m)
  \/ StopBegin \/ StopReturn \/ StopAgain

Environment ==
  \/ \E m \in Message : RowExpires(m)
  \/ PeerGoesSilent \/ Restart

Next == Task \/ Callers \/ Environment

Spec == Init /\ [][Next]_vars

\* The runtime polls the task, timers fire and network calls return.  select!
\* polls its branches in random order, so a branch that keeps becoming ready is
\* taken in the end: strong fairness for the branches of run_session.
Fairness ==
  /\ WF_vars(OuterCheck) /\ WF_vars(InnerCheck) /\ WF_vars(LoadPersisted)
  /\ WF_vars(HandshakeOk \/ HandshakeFail) /\ WF_vars(EndSession)
  /\ WF_vars(BackoffElapsed) /\ WF_vars(BackoffStopped)
  /\ WF_vars(SendOk \/ SendFail) /\ WF_vars(DeleteRow)
  /\ SF_vars(SessionStop) /\ SF_vars(TakeOutgoing)
  /\ SF_vars(ReadPong) /\ SF_vars(Tick)

FairSpec == Spec /\ Fairness

-----------------------------------------------------------------------------
(* Properties *)

TypeOK ==
  /\ task \in {"Outer", "Inner", "Handshake", "Load", "Session", "Send",
               "Delete", "Ended", "Backoff", "Done"}
  /\ state \in {"Connecting", "Open", "Closed", "Error"}
  /\ result \in {"Ok", "Err", "Heartbeat"}
  /\ stopValue \in {"run", "stop"} /\ stopper \in {"idle", "waiting", "returned"}
  /\ outbox \in Seq(Message) /\ spilling \subseteq Message
  /\ rows \subseteq Message /\ stamp \in [Message -> Nat]
  /\ inserts \in Nat /\ old \subseteq Message
  /\ persisted \subseteq Message /\ inflight \in Message \cup {NoMessage}
  /\ source \in {"queue", "table"}
  /\ missed \in Nat /\ pongs \in Nat /\ peer \in {"prompt", "late", "silent"}
  /\ faults \in Nat /\ restarts \in Nat
  /\ wire \in Seq(Message) /\ queued \in Seq(Message)
  /\ purged \subseteq Message /\ undeleted \subseteq Message
  /\ failed \subseteq Message /\ forfeited \subseteq Message

\* A message that spilled to the table keeps its row until it has been written
\* to a socket or its retention ran out -- across failed sends, reconnects and
\* process restarts (the row is deleted only after sink.send succeeded).
SpilledNotLost ==
  \A m \in Message : stamp[m] > 0 => m \in rows \cup Elements(wire) \cup purged

\* Every message the queue accepted is waiting, being written, written, or one
\* of the two known losses: its own sink.send failed, or the queue itself was
\* dropped when the client stopped or the process exited.
QueueConserved ==
  \A m \in Elements(queued) :
    \/ m \in Elements(outbox) \cup Elements(wire) \cup failed \cup forfeited
    \/ task = "Send" /\ source = "queue" /\ inflight = m

\* A message is written twice only if it came from the table and the DELETE
\* that follows its first write did not happen.
ResentOnlyIfUndeleted ==
  \A i, j \in DOMAIN wire : i # j /\ wire[i] = wire[j] => wire[i] \in undeleted

\* Messages of the queue are written in the order in which they were accepted,
\* whatever reconnects lie between them.
QueueOrderKept ==
  \A i, j \in DOMAIN wire : \A p, q \in DOMAIN queued :
    i < j /\ wire[i] = queued[p] /\ wire[j] = queued[q] => p < q

\* What state() reports: Open only while a session is up (or has just ended, or
\* was stopped and is about to become Closed),
\* and during a session nothing but Open, unless stop() already overwrote it.
StateTellsTruth ==
  /\ state = "Open" =>
       InSession \/ task = "Ended" \/ (task = "Outer" /\ Stopped)
  /\ InSession => state = "Open" \/ stopper = "returned"
  /\ task = "Done" => Stopped /\ state = "Closed"

\* The heartbeat never ends a connection whose peer answers every ping before
\* the next one is due.
HeartbeatSparesPromptPeer ==
  task = "Ended" /\ result = "Heartbeat" => peer # "prompt"

\* A stop signal that reached the channel ends the task (only a restart of the
\* process takes the signal back).
StopEndsTask == Stopped ~> (task = "Done" \/ ~Stopped)

\* A peer that no longer answers is noticed: the session ends.
SilentPeerDetected == (InSession /\ peer = "silent") ~> task = "Ended"

\* With auto_reconnect, every session that ends is followed by another
\* handshake unless a stop signal came.
Reconnects ==
  (AutoReconnect /\ task = "Ended") ~> (task = "Handshake" \/ Stopped)

\* Once the network stops failing, the queue drains: every queued message is
\* taken from it.
QueueDrains == \A m \in Message :
  (m \in Elements(outbox)) ~> (m \notin Elements(outbox))

\* Nothing is lost: what spilled to the table keeps its row until it was written
\* or expired, what the queue accepted is accounted for.
NothingLost == TypeOK /\ SpilledNotLost /\ QueueConserved

\* Messages are written once and in order, but for rows that outlived their
\* first write.
WrittenInOrder == ResentOnlyIfUndeleted /\ QueueOrderKept

\* The heartbeat ends the connection of a silent peer, and of no prompt one.
HeartbeatJudges == []HeartbeatSparesPromptPeer /\ SilentPeerDetected

\* The task never hangs: it ends when stopped, else reconnects and drains.
NeverStuck == StopEndsTask /\ Reconnects /\ QueueDrains
=============================================================================
