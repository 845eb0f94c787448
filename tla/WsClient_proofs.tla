--------------------------- MODULE WsClient_proofs ---------------------------
(***************************************************************************)
(* Proofs about WsClient for every set of messages, every capacity, every  *)
(* heartbeat limit and every number of failures and restarts.              *)
(***************************************************************************)
EXTENDS WsClient, TLAPS

\* The elements of a sequence after each of the operations the client uses.
LEMMA ElementsAppend ==
  ASSUME NEW S, NEW s \in Seq(S), NEW e
  PROVE  Elements(Append(s, e)) = Elements(s) \cup {e}
<1> DEFINE t == Append(s, e)
<1>1. DOMAIN t = DOMAIN s \cup {Len(s) + 1}
  OBVIOUS
<1>2. \A i \in DOMAIN s : t[i] = s[i]
  OBVIOUS
<1>3. t[Len(s) + 1] = e
  OBVIOUS
<1> HIDE DEF t
<1>4. Elements(t) = Elements(s) \cup {e}
  BY <1>1, <1>2, <1>3 DEF Elements
<1>5. QED  BY <1>4 DEF t

LEMMA ElementsHeadTail ==
  ASSUME NEW S, NEW s \in Seq(S), s # <<>>
  PROVE  /\ Head(s) \in S
         /\ Tail(s) \in Seq(S)
         /\ Elements(s) = {Head(s)} \cup Elements(Tail(s))
<1>1. Head(s) \in S /\ Tail(s) \in Seq(S)
  OBVIOUS
<1>2. ASSUME NEW i \in DOMAIN s
      PROVE  s[i] \in {Head(s)} \cup Elements(Tail(s))
  <2>1. CASE i = 1
    BY <2>1
  <2>2. CASE i # 1
    <3>1. i - 1 \in DOMAIN Tail(s) /\ Tail(s)[i - 1] = s[i]
      BY <2>2
    <3>2. QED  BY <3>1 DEF Elements
  <2>3. QED  BY <2>1, <2>2
<1>3. ASSUME NEW i \in DOMAIN Tail(s)
      PROVE  Tail(s)[i] \in Elements(s)
  <2>1. i + 1 \in DOMAIN s /\ Tail(s)[i] = s[i + 1]
    OBVIOUS
  <2>2. QED  BY <2>1 DEF Elements
<1>4. Head(s) \in Elements(s)
  <2>1. 1 \in DOMAIN s /\ Head(s) = s[1]
    OBVIOUS
  <2>2. QED  BY <2>1 DEF Elements
<1>5. QED  BY <1>1, <1>2, <1>3, <1>4 DEF Elements

LEMMA ElementsEmpty == Elements(<<>>) = {}
BY DEF Elements

LEMMA ElementsType ==
  ASSUME NEW S, NEW s \in Seq(S)
  PROVE  Elements(s) \subseteq S
BY DEF Elements

-----------------------------------------------------------------------------
(* Type correctness *)

\* What a step of sending needs to know about the message it carries.
InflightOK == task \in {"Send", "Delete"} => inflight \in Message

TypeInv == TypeOK /\ InflightOK

LEMMA TypeInit == Init => TypeInv
BY ConstantsAssumption DEF Init, TypeInv, TypeOK, InflightOK

LEMMA TypeStep == TypeInv /\ [Next]_vars => TypeInv'
<1> SUFFICES ASSUME TypeInv, [Next]_vars
             PROVE  TypeInv'
  OBVIOUS
<1> USE ConstantsAssumption
    DEF TypeInv, TypeOK, InflightOK, vars, taskVars, stopVars, queueVars,
        tableVars, sendVars, beatVars, envVars, history
<1>1. CASE OuterCheck
  <2>1. Elements(outbox) \subseteq Message
    BY ElementsType
  <2>2. <<>> \in Seq(Message)
    OBVIOUS
  <2>3. QED  BY <1>1, <2>1, <2>2 DEF OuterCheck
<1>2. CASE InnerCheck
  BY <1>2 DEF InnerCheck, AfterFailure
<1>3. CASE HandshakeFail
  BY <1>3 DEF HandshakeFail, AfterFailure, Fault
<1>4. CASE HandshakeOk
  BY <1>4 DEF HandshakeOk
<1>5. CASE EndSession
  BY <1>5 DEF EndSession, AfterFailure
<1>6. CASE BackoffElapsed \/ BackoffStopped
  BY <1>6 DEF BackoffElapsed, BackoffStopped
<1>7. CASE LoadPersisted
  BY <1>7 DEF LoadPersisted, Leave
<1>8. CASE SessionStop
  BY <1>8 DEF SessionStop, Leave
<1>9. CASE TakeOutgoing
  <2>1. outbox # <<>> => Head(outbox) \in Message /\ Tail(outbox) \in Seq(Message)
    BY ElementsHeadTail
  <2>2. QED
    BY <1>9, <2>1 DEF TakeOutgoing, NextOutgoing, IsOldest
<1>10. CASE SendOk
  BY <1>10 DEF SendOk
<1>11. CASE SendFail
  BY <1>11 DEF SendFail, Leave, Fault
<1>12. CASE DeleteRow
  BY <1>12 DEF DeleteRow
<1>13. CASE StreamEnds \/ TickFail
  BY <1>13 DEF StreamEnds, TickFail, Leave, Fault
<1>14. CASE ReadPong
  BY <1>14 DEF ReadPong
<1>15. CASE Tick
  BY <1>15 DEF Tick, Leave, Fault
<1>16. ASSUME NEW m \in Message, SendQueued(m)
       PROVE  TypeInv'
  BY <1>16 DEF SendQueued
<1>17. ASSUME NEW m \in Message, SendSpills(m) \/ SpillInsert(m)
       PROVE  TypeInv'
  <2>1. [stamp EXCEPT ![m] = inserts + 1] \in [Message -> Nat]
    OBVIOUS
  <2>2. CASE SendSpills(m)
    BY <2>2 DEF SendSpills
  <2>3. CASE SpillInsert(m)
    <3>1. stamp' \in [Message -> Nat] /\ inserts' \in Nat
      <4>1. \/ stamp' = [stamp EXCEPT ![m] = inserts + 1] /\ inserts' = inserts + 1
            \/ stamp' = stamp /\ inserts' = inserts
        BY <2>3 DEF SpillInsert
      <4>2. stamp \in [Message -> Nat] /\ inserts \in Nat
        OBVIOUS
      <4> QED  BY ONLY <2>1, <4>1, <4>2
    <3>2. rows' \subseteq Message /\ spilling' \subseteq Message
      BY <2>3 DEF SpillInsert
    <3>3. UNCHANGED <<taskVars, stopVars, outbox, old, sendVars, beatVars,
                      envVars, history>>
      BY <2>3 DEF SpillInsert
    <3>4. QED  BY <3>1, <3>2, <3>3
  <2>4. QED  BY <1>17, <2>2, <2>3
<1>18. CASE StopBegin \/ StopReturn \/ StopAgain
  <2>1. /\ state' \in {state, "Closed"} /\ stopper' \in {stopper, "waiting", "returned"}
        /\ stopValue' \in {stopValue, "stop"}
        /\ UNCHANGED <<task, result, queueVars, tableVars, sendVars, beatVars, envVars,
                       history>>
    <3> HIDE DEF TypeInv, TypeOK, InflightOK, stopVars, queueVars, tableVars, sendVars,
                 beatVars, envVars, history
    <3> QED  BY ONLY <1>18 DEF StopBegin, StopReturn, StopAgain, taskVars
  <2>2. QED  BY ONLY TypeInv, <2>1
<1>19. ASSUME NEW m \in Message, RowExpires(m)
       PROVE  TypeInv'
  BY <1>19 DEF RowExpires
<1>20. CASE PeerGoesSilent
  BY <1>20 DEF PeerGoesSilent, Fault
<1>21. CASE Restart
  BY <1>21, ElementsType DEF Restart
<1>22. CASE UNCHANGED vars
  BY <1>22
<1>23. QED
  BY <1>1, <1>2, <1>3, <1>4, <1>5, <1>6, <1>7, <1>8, <1>9, <1>10, <1>11,
     <1>12, <1>13, <1>14, <1>15, <1>16, <1>17, <1>18, <1>19, <1>20, <1>21,
     <1>22 DEF Next, Task, Callers, Environment

\* Every variable keeps its type in every behaviour of the client.
THEOREM TypeCorrect == Spec => []TypeOK
<1>1. TypeInv => TypeOK
  BY DEF TypeInv
<1>2. QED
  BY TypeInit, TypeStep, <1>1, PTL DEF Spec

-----------------------------------------------------------------------------
(* Messages that spilled to the table *)

\* The strengthening that makes SpilledNotLost inductive: when delete_ws_messages
\* runs, its message has been written.
WrittenBeforeDelete == task = "Delete" => inflight \in Elements(wire)

SpillInv == SpilledNotLost /\ WrittenBeforeDelete

LEMMA SpillInit == Init => SpillInv
BY DEF Init, SpillInv, SpilledNotLost, WrittenBeforeDelete

LEMMA SpillStep == TypeInv /\ SpillInv /\ [Next]_vars => SpillInv'
<1> SUFFICES ASSUME TypeInv, SpillInv, [Next]_vars
             PROVE  SpillInv'
  OBVIOUS
<1> USE DEF SpillInv, SpilledNotLost, WrittenBeforeDelete
<1>1. CASE LoadPersisted
  BY <1>1 DEF LoadPersisted, Leave
<1>2. CASE SendOk
  <2>1. Elements(wire') = Elements(wire) \cup {inflight}
    BY <1>2, ElementsAppend DEF SendOk, TypeInv, TypeOK
  <2>2. QED  BY <1>2, <2>1 DEF SendOk, tableVars
<1>3. CASE DeleteRow
  BY <1>3 DEF DeleteRow
<1>4. ASSUME NEW m \in Message, SpillInsert(m)
      PROVE  SpillInv'
  <2>1. \A n \in Message : n # m => stamp'[n] = stamp[n]
    BY <1>4 DEF SpillInsert, TypeInv, TypeOK
  <2>2. UNCHANGED <<wire, purged, task, inflight>> /\ rows \subseteq rows'
    BY <1>4 DEF SpillInsert, taskVars, sendVars, history
  <2>3. m \in rows' \/ stamp'[m] = stamp[m]
    BY <1>4 DEF SpillInsert
  <2>4. QED  BY <2>1, <2>2, <2>3
<1>5. CASE Restart
  BY <1>5 DEF Restart, tableVars
<1>6. ASSUME UNCHANGED <<rows, stamp, wire, purged>>,
             task' = "Delete" => task = "Delete" /\ inflight' = inflight
      PROVE  SpillInv'
  BY <1>6
<1>7. CASE OuterCheck \/ InnerCheck \/ HandshakeFail \/ HandshakeOk \/ EndSession
  BY <1>6, <1>7 DEF OuterCheck, InnerCheck, HandshakeFail, HandshakeOk,
     EndSession, AfterFailure, tableVars, history
<1>8. CASE BackoffElapsed \/ BackoffStopped \/ SessionStop \/ TakeOutgoing
  BY <1>6, <1>8 DEF BackoffElapsed, BackoffStopped, SessionStop, TakeOutgoing,
     Leave, tableVars, history
<1>9. CASE SendFail \/ StreamEnds \/ ReadPong \/ Tick \/ TickFail
  BY <1>6, <1>9 DEF SendFail, StreamEnds, ReadPong, Tick, TickFail, Leave,
     taskVars, sendVars, tableVars, history
<1>10. ASSUME NEW m \in Message,
              SendQueued(m) \/ SendSpills(m) \/ RowExpires(m)
       PROVE  SpillInv'
  BY <1>6, <1>10 DEF SendQueued, SendSpills, RowExpires, taskVars, sendVars,
     tableVars, history
<1>11. CASE StopBegin \/ StopReturn \/ StopAgain \/ PeerGoesSilent
  BY <1>6, <1>11 DEF StopBegin, StopReturn, StopAgain, PeerGoesSilent,
     taskVars, sendVars, tableVars, history
<1>12. CASE UNCHANGED vars
  BY <1>6, <1>12 DEF vars, taskVars, sendVars, tableVars, history
<1>13. QED
  BY <1>1, <1>2, <1>3, <1>4, <1>5, <1>7, <1>8, <1>9, <1>10, <1>11, <1>12
     DEF Next, Task, Callers, Environment

\* A message that spilled to ws_messages keeps its row until it was written to
\* a socket or expired, through every reconnect, failed send and restart.
THEOREM SpilledMessagesSurvive == Spec => []SpilledNotLost
<1>1. SpillInv => SpilledNotLost
  BY DEF SpillInv
<1>2. QED
  BY TypeInit, TypeStep, SpillInit, SpillStep, <1>1, PTL DEF Spec

-----------------------------------------------------------------------------
(* Messages of the queue *)

LEMMA QueueInit == Init => QueueConserved
BY ElementsEmpty DEF Init, QueueConserved

LEMMA QueueStep == TypeInv /\ QueueConserved /\ [Next]_vars => QueueConserved'
<1> SUFFICES ASSUME TypeInv, QueueConserved, [Next]_vars
             PROVE  QueueConserved'
  OBVIOUS
<1> USE DEF QueueConserved
<1>1. CASE OuterCheck
  BY <1>1, ElementsEmpty DEF OuterCheck
<1>2. CASE TakeOutgoing
  <2>1. UNCHANGED <<queued, wire, failed, forfeited>> /\ task = "Session"
        /\ task' = "Send"
    BY <1>2 DEF TakeOutgoing, history
  <2>2. CASE UNCHANGED outbox
    BY <2>1, <2>2
  <2>3. CASE /\ outbox # <<>> /\ inflight' = Head(outbox)
             /\ outbox' = Tail(outbox) /\ source' = "queue"
    <3>1. Elements(outbox) = {inflight'} \cup Elements(outbox')
      BY <2>3, ElementsHeadTail DEF TypeInv, TypeOK
    <3>2. QED  BY <2>1, <2>3, <3>1
  <2>4. QED  BY <1>2, <2>2, <2>3 DEF TakeOutgoing, NextOutgoing
<1>3. CASE SendOk
  <2>1. Elements(wire') = Elements(wire) \cup {inflight}
    BY <1>3, ElementsAppend DEF SendOk, TypeInv, TypeOK
  <2>2. QED  BY <1>3, <2>1 DEF SendOk, queueVars
<1>4. CASE SendFail
  BY <1>4 DEF SendFail, Leave, queueVars
<1>5. ASSUME NEW m \in Message, SendQueued(m)
      PROVE  QueueConserved'
  <2>1. /\ Elements(queued') = Elements(queued) \cup {m}
        /\ Elements(outbox') = Elements(outbox) \cup {m}
    BY <1>5, ElementsAppend DEF SendQueued, TypeInv, TypeOK
  <2>2. UNCHANGED <<wire, failed, forfeited, task, source, inflight>>
    BY <1>5 DEF SendQueued, taskVars, sendVars
  <2>3. QED  BY <2>1, <2>2
<1>6. CASE Restart
  BY <1>6, ElementsEmpty DEF Restart
<1>7. ASSUME UNCHANGED <<queued, outbox, wire, failed, forfeited>>,
             task = "Send" => UNCHANGED <<task, source, inflight>>
      PROVE  QueueConserved'
  BY <1>7
<1>8. CASE InnerCheck \/ HandshakeFail \/ HandshakeOk \/ EndSession
  BY <1>7, <1>8 DEF InnerCheck, HandshakeFail, HandshakeOk, EndSession,
     queueVars, history
<1>9. CASE BackoffElapsed \/ BackoffStopped \/ LoadPersisted \/ SessionStop
  BY <1>7, <1>9 DEF BackoffElapsed, BackoffStopped, LoadPersisted, SessionStop,
     queueVars, history
<1>10. CASE DeleteRow \/ StreamEnds \/ ReadPong \/ Tick \/ TickFail
  BY <1>7, <1>10 DEF DeleteRow, StreamEnds, ReadPong, Tick, TickFail,
     queueVars, history
<1>11. ASSUME NEW m \in Message,
              SendSpills(m) \/ SpillInsert(m) \/ RowExpires(m)
       PROVE  QueueConserved'
  BY <1>7, <1>11 DEF SendSpills, SpillInsert, RowExpires, taskVars, sendVars,
     queueVars, history
<1>12. CASE StopBegin \/ StopReturn \/ StopAgain \/ PeerGoesSilent
  BY <1>7, <1>12 DEF StopBegin, StopReturn, StopAgain, PeerGoesSilent,
     taskVars, sendVars, queueVars, history
<1>13. CASE UNCHANGED vars
  BY <1>7, <1>13 DEF vars, taskVars, sendVars, queueVars, history
<1>14. QED
  BY <1>1, <1>2, <1>3, <1>4, <1>5, <1>6, <1>8, <1>9, <1>10, <1>11, <1>12,
     <1>13 DEF Next, Task, Callers, Environment

\* Every message the queue accepted is waiting, being written, written, or one
\* of the two known losses.
THEOREM QueueNeverLosesOtherwise == Spec => []QueueConserved
BY TypeInit, TypeStep, QueueInit, QueueStep, PTL DEF Spec

-----------------------------------------------------------------------------
(* Order and repetition on the wire *)

\* A message goes the way of the queue or the way of the table, and what was
\* written went one of them.
Apart ==
  /\ \A m \in Message : stamp[m] > 0 \/ m \in spilling => m \notin Elements(queued)
  /\ \A m \in spilling : stamp[m] = 0
  /\ \A m \in rows \cup persisted : stamp[m] > 0
  /\ \A m \in Elements(wire) : stamp[m] > 0 \/ m \in Elements(queued)

\* A row that is or will be sent again is one whose DELETE did not happen.
Resent ==
  /\ task = "Delete" => source = "table"
  /\ task \in {"Send", "Delete"} /\ source = "table" =>
       stamp[inflight] > 0 /\ inflight \notin persisted
  /\ task = "Send" /\ source = "table" /\ inflight \in Elements(wire) =>
       inflight \in undeleted
  /\ \A m \in rows \cup persisted : m \in Elements(wire) =>
       m \in undeleted \/ (task = "Delete" /\ m = inflight)

\* The queue accepts a message once, and holds the last ones it accepted.
AcceptedOnce ==
  \A p, q \in DOMAIN queued : queued[p] = queued[q] => p = q

Taken == Len(queued) - Len(outbox)

HoldsTheLast ==
  /\ Len(outbox) <= Len(queued)
  /\ \A x \in DOMAIN outbox : outbox[x] = queued[Taken + x]

\* What is on the wire was taken before what is still in the queue, and before
\* the message that is being written.
WrittenBefore(r) ==
  \A i \in DOMAIN wire, q \in DOMAIN queued : wire[i] = queued[q] => q < r

TakenInOrder ==
  /\ WrittenBefore(Taken + 1)
  /\ task = "Send" /\ source = "queue" =>
       \E r \in DOMAIN queued :
         r <= Taken /\ inflight = queued[r] /\ WrittenBefore(r)

OrderInv == Apart /\ Resent /\ AcceptedOnce /\ HoldsTheLast /\ TakenInOrder
            /\ WrittenInOrder

LEMMA OrderInit == Init => OrderInv
BY ElementsEmpty DEF Init, OrderInv, Apart, Resent, AcceptedOnce, Taken, HoldsTheLast,
   TakenInOrder, WrittenBefore, WrittenInOrder, ResentOnlyIfUndeleted, QueueOrderKept

\* What is being written went one of the two ways.
LEMMA FlightIsKnown ==
  ASSUME TypeInv, OrderInv, task = "Send"
  PROVE  /\ inflight \in Message
         /\ source = "table" => stamp[inflight] > 0 /\ inflight \notin Elements(queued)
         /\ source = "queue" => inflight \in Elements(queued)
<1>1. inflight \in Message
  BY DEF TypeInv, InflightOK
<1>2. source = "table" => stamp[inflight] > 0
  BY DEF OrderInv, Resent
<1>3. source = "queue" => inflight \in Elements(queued)
  BY DEF OrderInv, TakenInOrder, Elements
<1>4. QED
  BY <1>1, <1>2, <1>3 DEF OrderInv, Apart

LEMMA ApartStep == TypeInv /\ OrderInv /\ [Next]_vars => Apart'
<1> SUFFICES ASSUME TypeInv, OrderInv, [Next]_vars
             PROVE  Apart'
  OBVIOUS
<1>0. Apart
  BY DEF OrderInv
<1> USE <1>0 DEF Apart
<1>1. CASE LoadPersisted
  <2>1. /\ UNCHANGED <<stamp, spilling, queued, wire>>
        /\ rows' \subseteq rows /\ persisted' \subseteq rows
    BY <1>1 DEF LoadPersisted, Leave, queueVars
  <2>2. QED  BY ONLY <1>0, <2>1 DEF Apart
<1>2. CASE SendOk
  <2>1. UNCHANGED <<stamp, spilling, queued, rows, persisted>>
    BY <1>2 DEF SendOk, queueVars, tableVars
  <2>2. Elements(wire') = Elements(wire) \cup {inflight}
    BY <1>2, ElementsAppend DEF SendOk, TypeInv, TypeOK
  <2>3. stamp[inflight] > 0 \/ inflight \in Elements(queued)
    BY <1>2, FlightIsKnown DEF SendOk, TypeInv, TypeOK
  <2>4. QED  BY ONLY <1>0, <2>1, <2>2, <2>3 DEF Apart
<1>3. ASSUME NEW m \in Message, SendQueued(m)
      PROVE  Apart'
  <2>1. UNCHANGED <<stamp, spilling, wire, rows, persisted>>
    BY <1>3 DEF SendQueued, tableVars, sendVars
  <2>2. Elements(queued') = Elements(queued) \cup {m}
    BY <1>3, ElementsAppend DEF SendQueued, TypeInv, TypeOK
  <2>3. m \notin spilling /\ ~(stamp[m] > 0)
    BY <1>3 DEF SendQueued, Used
  <2>4. QED  BY ONLY <1>0, <2>1, <2>2, <2>3 DEF Apart
<1>4. ASSUME NEW m \in Message, SendSpills(m)
      PROVE  Apart'
  <2>1. UNCHANGED <<stamp, queued, wire, rows, persisted>> /\ spilling' = spilling \cup {m}
    BY <1>4 DEF SendSpills, tableVars, sendVars, history
  <2>2. m \notin Elements(queued) /\ ~(stamp[m] > 0) /\ stamp[m] \in Nat
    BY <1>4 DEF SendSpills, Used, TypeInv, TypeOK
  <2>3. QED  BY ONLY <1>0, <2>1, <2>2 DEF Apart
<1>5. ASSUME NEW m \in Message, SpillInsert(m)
      PROVE  Apart'
  <2>1. /\ UNCHANGED <<queued, wire, persisted>> /\ spilling' = spilling \ {m}
        /\ m \in spilling
    BY <1>5 DEF SpillInsert, sendVars, history
  <2>2. CASE UNCHANGED <<rows, stamp>>
    BY ONLY <1>0, <2>1, <2>2 DEF Apart
  <2>3. CASE rows' = rows \cup {m} /\ stamp' = [stamp EXCEPT ![m] = inserts + 1]
    <3>1. /\ \A n \in Message : n # m => stamp'[n] = stamp[n]
          /\ stamp'[m] > 0
      BY <2>3 DEF TypeInv, TypeOK
    <3>2. /\ rows \subseteq Message /\ persisted \subseteq Message
          /\ spilling \subseteq Message /\ Elements(wire) \subseteq Message
      BY ElementsType DEF TypeInv, TypeOK
    <3>3. QED  BY ONLY <1>0, <2>1, <2>3, <3>1, <3>2 DEF Apart
  <2>4. QED  BY <1>5, <2>2, <2>3 DEF SpillInsert
<1>6. ASSUME UNCHANGED <<stamp, queued, wire>>, spilling' \subseteq spilling,
             rows' \subseteq rows, persisted' \subseteq persisted
      PROVE  Apart'
  BY ONLY <1>0, <1>6 DEF Apart
<1>7. CASE OuterCheck \/ InnerCheck \/ HandshakeFail \/ HandshakeOk \/ EndSession
  BY <1>6, <1>7 DEF OuterCheck, InnerCheck, HandshakeFail, HandshakeOk, EndSession,
     queueVars, tableVars, sendVars, history
<1>8. CASE BackoffElapsed \/ BackoffStopped \/ SessionStop \/ TakeOutgoing \/ SendFail
  BY <1>6, <1>8 DEF BackoffElapsed, BackoffStopped, SessionStop, TakeOutgoing,
     NextOutgoing, SendFail, Leave, queueVars, tableVars, sendVars, history
<1>9. CASE DeleteRow \/ StreamEnds \/ ReadPong \/ Tick \/ TickFail
  BY <1>6, <1>9 DEF DeleteRow, StreamEnds, ReadPong, Tick, TickFail, Leave,
     queueVars, tableVars, sendVars, history
<1>10. ASSUME NEW m \in Message, RowExpires(m)
       PROVE  Apart'
  BY <1>6, <1>10 DEF RowExpires, queueVars, sendVars, history
<1>11. CASE StopBegin \/ StopReturn \/ StopAgain \/ PeerGoesSilent \/ Restart
  BY <1>6, <1>11 DEF StopBegin, StopReturn, StopAgain, PeerGoesSilent, Restart,
     queueVars, tableVars, sendVars, history
<1>12. CASE UNCHANGED vars
  BY <1>6, <1>12 DEF vars, queueVars, tableVars, sendVars, history
<1>13. QED
  BY <1>1, <1>2, <1>3, <1>4, <1>5, <1>7, <1>8, <1>9, <1>10, <1>11, <1>12
     DEF Next, Task, Callers, Environment

LEMMA ResentStep == TypeInv /\ OrderInv /\ [Next]_vars => Resent'
<1> SUFFICES ASSUME TypeInv, OrderInv, [Next]_vars
             PROVE  Resent'
  OBVIOUS
<1>0. Resent /\ Apart
  BY DEF OrderInv
<1> USE <1>0 DEF Resent
<1>1. CASE LoadPersisted
  <2>1. /\ UNCHANGED <<wire, undeleted>> /\ task = "Load" /\ task' \in {"Session", "Ended"}
        /\ rows' \subseteq rows /\ persisted' \subseteq rows
    BY <1>1 DEF LoadPersisted, Leave
  <2>2. QED  BY ONLY <1>0, <2>1 DEF Resent
<1>2. CASE TakeOutgoing
  <2>1. /\ UNCHANGED <<wire, undeleted, rows, stamp>>
        /\ task = "Session" /\ task' = "Send"
    BY <1>2 DEF TakeOutgoing, tableVars, history
  <2>2. CASE source' = "queue" /\ UNCHANGED persisted
    BY ONLY <1>0, <2>1, <2>2 DEF Resent
  <2>3. CASE inflight' \in persisted /\ persisted' = persisted \ {inflight'}
    BY ONLY <1>0, <2>1, <2>3 DEF Resent, Apart
  <2>4. QED  BY <1>2, <2>2, <2>3 DEF TakeOutgoing, NextOutgoing, IsOldest
<1>3. CASE SendOk
  <2>1. UNCHANGED <<undeleted, rows, stamp, persisted>>
    BY <1>3 DEF SendOk, tableVars
  <2>2. Elements(wire') = Elements(wire) \cup {inflight}
    BY <1>3, ElementsAppend DEF SendOk, TypeInv, TypeOK
  <2>3. CASE source = "table" /\ task' = "Delete" /\ UNCHANGED <<inflight, source>>
    <3>1. task = "Send"
      BY <1>3 DEF SendOk
    <3>2. QED  BY ONLY <1>0, <2>1, <2>2, <2>3, <3>1 DEF Resent
  <2>4. CASE source = "queue" /\ task' = "Session"
    <3>1. inflight \in Elements(queued) /\ inflight \in Message /\ task = "Send"
      BY <1>3, <2>4, FlightIsKnown DEF SendOk
    <3>2. inflight \notin rows \cup persisted
      BY <3>1 DEF Apart
    <3>3. QED  BY ONLY <1>0, <2>1, <2>2, <2>4, <3>1, <3>2 DEF Resent
  <2>5. QED  BY <1>3, <2>3, <2>4 DEF SendOk
<1>4. CASE DeleteRow
  <2>1. /\ UNCHANGED <<wire, stamp, persisted>> /\ task = "Delete" /\ task' = "Session"
        /\ \/ rows' = rows \ {inflight} /\ UNCHANGED undeleted
           \/ undeleted' = undeleted \cup {inflight} /\ UNCHANGED rows
    BY <1>4 DEF DeleteRow
  <2>2. QED  BY ONLY <1>0, <2>1 DEF Resent
<1>5. ASSUME NEW m \in Message, SpillInsert(m)
      PROVE  Resent'
  <2>1. /\ UNCHANGED <<wire, persisted, undeleted, task, source, inflight>>
        /\ m \in spilling /\ rows' \subseteq rows \cup {m}
    BY <1>5 DEF SpillInsert, taskVars, sendVars, history
  <2>2. m \notin Elements(wire)
    BY <2>1 DEF Apart, TypeInv, TypeOK
  <2>3. task \in {"Send", "Delete"} /\ source = "table" => stamp'[inflight] > 0
    <3>1. SUFFICES ASSUME task \in {"Send", "Delete"}, source = "table"
                   PROVE  stamp'[inflight] > 0
      OBVIOUS
    <3>2. inflight \in Message /\ stamp[inflight] > 0
      BY <3>1 DEF TypeInv, InflightOK
    <3>3. stamp' = stamp \/ stamp' = [stamp EXCEPT ![m] = inserts + 1]
      BY <1>5 DEF SpillInsert
    <3>4. stamp \in [Message -> Nat] /\ inserts + 1 > 0
      BY DEF TypeInv, TypeOK
    <3>5. QED  BY ONLY <3>2, <3>3, <3>4
  <2>4. QED  BY ONLY <1>0, <2>1, <2>2, <2>3 DEF Resent
<1>6. CASE Restart
  <2>1. /\ UNCHANGED <<wire, rows>> /\ task' = "Outer" /\ persisted' = {}
        /\ undeleted \subseteq undeleted' /\ (task = "Delete" => inflight \in undeleted')
    BY <1>6 DEF Restart, tableVars
  <2>2. QED  BY ONLY <1>0, <2>1 DEF Resent
<1>7. ASSUME UNCHANGED <<wire, undeleted, rows, stamp>>, persisted' \subseteq persisted,
             \/ UNCHANGED <<task, source, inflight, persisted>>
             \/ task # "Delete" /\ task' \notin {"Send", "Delete"}
      PROVE  Resent'
  BY ONLY <1>0, <1>7 DEF Resent
<1>8. CASE OuterCheck \/ InnerCheck \/ HandshakeFail \/ HandshakeOk \/ EndSession
  BY <1>7, <1>8 DEF OuterCheck, InnerCheck, HandshakeFail, HandshakeOk, EndSession,
     AfterFailure, tableVars, sendVars, history
<1>9. CASE BackoffElapsed \/ BackoffStopped \/ SessionStop \/ SendFail
  BY <1>7, <1>9 DEF BackoffElapsed, BackoffStopped, SessionStop, SendFail, Leave,
     tableVars, sendVars, history
<1>10. CASE StreamEnds \/ ReadPong \/ Tick \/ TickFail
  BY <1>7, <1>10 DEF StreamEnds, ReadPong, Tick, TickFail, Leave, taskVars, tableVars,
     sendVars, history
<1>11. ASSUME NEW m \in Message, SendQueued(m) \/ SendSpills(m) \/ RowExpires(m)
       PROVE  Resent'
  BY <1>7, <1>11 DEF SendQueued, SendSpills, RowExpires, taskVars, tableVars, sendVars,
     history
<1>12. CASE StopBegin \/ StopReturn \/ StopAgain \/ PeerGoesSilent
  BY <1>7, <1>12 DEF StopBegin, StopReturn, StopAgain, PeerGoesSilent, taskVars,
     tableVars, sendVars, history
<1>13. CASE UNCHANGED vars
  BY <1>7, <1>13 DEF vars, taskVars, tableVars, sendVars, history
<1>14. QED
  BY <1>1, <1>2, <1>3, <1>4, <1>5, <1>6, <1>8, <1>9, <1>10, <1>11, <1>12, <1>13
     DEF Next, Task, Callers, Environment

LEMMA OrderStep ==
  TypeInv /\ OrderInv /\ [Next]_vars =>
    AcceptedOnce' /\ HoldsTheLast' /\ TakenInOrder'
<1> DEFINE Ordered == AcceptedOnce /\ HoldsTheLast /\ TakenInOrder
<1> SUFFICES ASSUME TypeInv, OrderInv, [Next]_vars
             PROVE  Ordered'
  OBVIOUS
<1>0. /\ Ordered /\ outbox \in Seq(Message) /\ queued \in Seq(Message)
      /\ wire \in Seq(Message)
  BY DEF OrderInv, TypeInv, TypeOK
<1>1. CASE TakeOutgoing
  <2>1. UNCHANGED <<queued, wire>> /\ task' = "Send"
    BY <1>1 DEF TakeOutgoing, history
  <2>2. CASE UNCHANGED outbox /\ source' = "table"
    BY ONLY <1>0, <2>1, <2>2 DEF AcceptedOnce, HoldsTheLast, Taken, TakenInOrder, WrittenBefore
  <2>3. CASE /\ outbox # <<>> /\ inflight' = Head(outbox)
             /\ outbox' = Tail(outbox) /\ source' = "queue"
    <3>1. /\ Len(outbox') = Len(outbox) - 1 /\ Len(outbox) > 0
          /\ \A x \in DOMAIN outbox' : outbox'[x] = outbox[x + 1] /\ x + 1 \in DOMAIN outbox
          /\ inflight' = outbox[1] /\ 1 \in DOMAIN outbox
      BY ONLY <1>0, <2>3
    <3>2. Taken' = Taken + 1 /\ Taken \in Nat /\ Taken + 1 \in DOMAIN queued
      BY ONLY <1>0, <2>1, <3>1 DEF Taken, HoldsTheLast
    <3>3. HoldsTheLast'
      <4>1. ASSUME NEW x \in DOMAIN outbox' PROVE outbox'[x] = queued'[Taken' + x]
        <5>1. outbox'[x] = queued[Taken + (x + 1)]
          BY ONLY <1>0, <3>1, x \in DOMAIN outbox' DEF HoldsTheLast
        <5>2. Taken + (x + 1) = Taken' + x
          <6>1. x \in Nat
            BY ONLY <1>0, <2>3, x \in DOMAIN outbox'
          <6>2. QED  BY ONLY <3>2, <6>1
        <5>3. QED  BY ONLY <2>1, <5>1, <5>2
      <4>2. Len(outbox') <= Len(queued')
        BY ONLY <1>0, <2>1, <3>1 DEF HoldsTheLast
      <4>3. QED  BY ONLY <4>1, <4>2 DEF HoldsTheLast
    <3>4. inflight' = queued[Taken + 1]
      BY ONLY <1>0, <3>1 DEF HoldsTheLast
    <3>5. WrittenBefore(Taken + 1) /\ WrittenBefore(Taken + 1 + 1)
      BY ONLY <1>0, <3>2 DEF TakenInOrder, WrittenBefore
    <3>6. TakenInOrder'
      BY ONLY <1>0, <2>1, <3>2, <3>4, <3>5 DEF TakenInOrder, WrittenBefore
    <3>7. QED  BY ONLY <1>0, <2>1, <3>3, <3>6 DEF AcceptedOnce
  <2>4. QED  BY <1>1, <2>2, <2>3 DEF TakeOutgoing, NextOutgoing
<1>2. CASE SendOk
  <2>1. UNCHANGED <<queued, outbox>> /\ task = "Send" /\ task' # "Send"
    BY <1>2 DEF SendOk, queueVars
  <2>2. wire' = Append(wire, inflight)
    BY <1>2 DEF SendOk
  <2>3. \A i \in DOMAIN wire' :
          (i \in DOMAIN wire /\ wire'[i] = wire[i]) \/ wire'[i] = inflight
    BY ONLY <1>0, <2>2
  <2>4. \A q \in DOMAIN queued : inflight = queued[q] => q < Taken + 1
    <3>1. CASE source = "table"
      BY <2>1, <3>1, FlightIsKnown DEF Elements
    <3>2. CASE source = "queue"
      <4>1. PICK r \in DOMAIN queued : r <= Taken /\ inflight = queued[r]
        BY ONLY <1>0, <2>1, <3>2 DEF TakenInOrder
      <4>2. \A q \in DOMAIN queued : inflight = queued[q] => q = r
        BY ONLY <1>0, <4>1 DEF AcceptedOnce
      <4>3. r < Taken + 1
        BY ONLY <1>0, <4>1 DEF Taken
      <4>4. QED  BY ONLY <4>2, <4>3
    <3>3. source = "table" \/ source = "queue"
      BY DEF TypeInv, TypeOK
    <3>4. QED  BY ONLY <3>1, <3>2, <3>3
  <2>5. TakenInOrder'
    BY ONLY <1>0, <2>1, <2>3, <2>4 DEF TakenInOrder, WrittenBefore, Taken
  <2>6. QED  BY ONLY <1>0, <2>1, <2>5 DEF AcceptedOnce, HoldsTheLast, Taken
<1>3. ASSUME NEW m \in Message, SendQueued(m)
      PROVE  Ordered'
  <2>1. /\ UNCHANGED <<wire, task, source, inflight>> /\ m \notin Elements(queued)
        /\ outbox' = Append(outbox, m) /\ queued' = Append(queued, m)
        /\ m \notin Elements(wire)
    <3>1. /\ UNCHANGED <<wire, task, source, inflight>> /\ m \notin Used
          /\ outbox' = Append(outbox, m) /\ queued' = Append(queued, m)
      BY <1>3 DEF SendQueued, taskVars, sendVars
    <3>2. QED  BY <3>1 DEF Used, OrderInv, Apart
  <2>2. /\ Len(queued') = Len(queued) + 1 /\ Len(outbox') = Len(outbox) + 1
        /\ \A p \in DOMAIN queued : queued'[p] = queued[p] /\ queued[p] # m /\ p \in DOMAIN queued'
        /\ \A x \in DOMAIN outbox : outbox'[x] = outbox[x]
        /\ queued'[Len(queued) + 1] = m /\ outbox'[Len(outbox) + 1] = m
        /\ DOMAIN queued' = DOMAIN queued \cup {Len(queued) + 1}
        /\ DOMAIN outbox' = DOMAIN outbox \cup {Len(outbox) + 1}
    BY ONLY <1>0, <2>1 DEF Elements
  <2>3. Taken' = Taken /\ Taken + (Len(outbox) + 1) = Len(queued) + 1
    BY ONLY <1>0, <2>2 DEF Taken
  <2>4. AcceptedOnce'
    BY ONLY <1>0, <2>2 DEF AcceptedOnce
  <2>5. HoldsTheLast'
    <3>1. Len(outbox') <= Len(queued')
      BY ONLY <1>0, <2>2 DEF HoldsTheLast
    <3>2. ASSUME NEW x \in DOMAIN outbox PROVE outbox'[x] = queued'[Taken + x]
      <4>1. Taken + x \in DOMAIN queued
        BY ONLY <1>0, x \in DOMAIN outbox DEF HoldsTheLast, Taken
      <4>2. QED  BY ONLY <1>0, <2>2, <4>1, x \in DOMAIN outbox DEF HoldsTheLast
    <3>3. outbox'[Len(outbox) + 1] = queued'[Taken + (Len(outbox) + 1)]
      BY ONLY <2>2, <2>3
    <3>4. QED  BY ONLY <2>2, <2>3, <3>1, <3>2, <3>3 DEF HoldsTheLast
  <2>6. \A i \in DOMAIN wire : wire[i] # m
    BY ONLY <2>1 DEF Elements
  <2>7. \A r : WrittenBefore(r) => WrittenBefore(r)'
    BY ONLY <2>1, <2>2, <2>6 DEF WrittenBefore
  <2>8. TakenInOrder'
    BY ONLY <1>0, <2>1, <2>2, <2>3, <2>7 DEF TakenInOrder
  <2>9. QED  BY ONLY <2>4, <2>5, <2>8
<1>4. ASSUME UNCHANGED <<queued, wire>>, outbox' = <<>>, task' # "Send"
      PROVE  Ordered'
  <2>1. Len(outbox') = 0 /\ DOMAIN outbox' = {} /\ Taken' = Len(queued)
    BY ONLY <1>0, <1>4 DEF Taken
  <2>2. HoldsTheLast'
    BY ONLY <1>0, <1>4, <2>1 DEF HoldsTheLast
  <2>3. TakenInOrder'
    BY ONLY <1>0, <1>4, <2>1 DEF TakenInOrder, WrittenBefore
  <2>4. QED  BY ONLY <1>0, <1>4, <2>2, <2>3 DEF AcceptedOnce
<1>5. ASSUME UNCHANGED <<queued, wire, outbox>>,
             task' = "Send" => UNCHANGED <<task, source, inflight>>
      PROVE  Ordered'
  BY ONLY <1>0, <1>5 DEF AcceptedOnce, HoldsTheLast, Taken, TakenInOrder, WrittenBefore
<1> HIDE DEF Ordered
<1>6. CASE OuterCheck \/ Restart
  BY <1>4, <1>5, <1>6 DEF OuterCheck, Restart
<1>7. CASE InnerCheck \/ HandshakeFail \/ HandshakeOk \/ EndSession
  BY <1>5, <1>7 DEF InnerCheck, HandshakeFail, HandshakeOk, EndSession, AfterFailure,
     queueVars, history
<1>8. CASE BackoffElapsed \/ BackoffStopped \/ LoadPersisted \/ SessionStop
  BY <1>5, <1>8 DEF BackoffElapsed, BackoffStopped, LoadPersisted, SessionStop, Leave,
     queueVars, history
<1>9. CASE SendFail \/ DeleteRow \/ StreamEnds \/ ReadPong \/ Tick \/ TickFail
  BY <1>5, <1>9 DEF SendFail, DeleteRow, StreamEnds, ReadPong, Tick, TickFail, Leave,
     taskVars, sendVars, queueVars, history
<1>10. ASSUME NEW m \in Message, SendSpills(m) \/ SpillInsert(m) \/ RowExpires(m)
       PROVE  Ordered'
  BY <1>5, <1>10 DEF SendSpills, SpillInsert, RowExpires, taskVars, sendVars, queueVars,
     history
<1>11. CASE StopBegin \/ StopReturn \/ StopAgain \/ PeerGoesSilent
  BY <1>5, <1>11 DEF StopBegin, StopReturn, StopAgain, PeerGoesSilent, taskVars,
     sendVars, queueVars, history
<1>12. CASE UNCHANGED vars
  BY <1>5, <1>12 DEF vars, taskVars, sendVars, queueVars, history
<1>13. QED
  BY <1>1, <1>2, <1>3, <1>6, <1>7, <1>8, <1>9, <1>10, <1>11, <1>12
     DEF Next, Task, Callers, Environment

LEMMA WrittenStep == TypeInv /\ OrderInv /\ [Next]_vars => WrittenInOrder'
<1> SUFFICES ASSUME TypeInv, OrderInv, [Next]_vars
             PROVE  WrittenInOrder'
  OBVIOUS
<1>0. /\ ResentOnlyIfUndeleted /\ QueueOrderKept /\ AcceptedOnce /\ TakenInOrder
      /\ wire \in Seq(Message) /\ queued \in Seq(Message)
  BY DEF OrderInv, WrittenInOrder, TypeInv, TypeOK
<1>1. CASE SendOk
  <2>1. /\ wire' = Append(wire, inflight) /\ UNCHANGED <<queued, undeleted>>
        /\ task = "Send"
    BY <1>1 DEF SendOk
  <2>2. /\ DOMAIN wire' = DOMAIN wire \cup {Len(wire) + 1}
        /\ \A i \in DOMAIN wire : wire'[i] = wire[i] /\ i < Len(wire) + 1
        /\ wire'[Len(wire) + 1] = inflight
    BY ONLY <1>0, <2>1
  <2>3. \A i \in DOMAIN wire, p, q \in DOMAIN queued :
          wire[i] = queued[p] /\ inflight = queued[q] => p < q
    <3>1. CASE source = "table"
      BY <2>1, <3>1, FlightIsKnown DEF Elements
    <3>2. CASE source = "queue"
      <4>1. PICK r \in DOMAIN queued : inflight = queued[r] /\ WrittenBefore(r)
        BY ONLY <1>0, <2>1, <3>2 DEF TakenInOrder
      <4>2. QED  BY ONLY <1>0, <4>1 DEF AcceptedOnce, WrittenBefore
    <3>3. source = "table" \/ source = "queue"
      BY DEF TypeInv, TypeOK
    <3>4. QED  BY ONLY <3>1, <3>2, <3>3
  <2>4. \A i \in DOMAIN wire : wire[i] = inflight => inflight \in undeleted
    <3>1. CASE source = "table"
      BY <2>1, <3>1 DEF OrderInv, Resent, Elements
    <3>2. CASE source = "queue"
      <4>1. PICK r \in DOMAIN queued : inflight = queued[r]
        BY ONLY <1>0, <2>1, <3>2 DEF TakenInOrder
      <4>2. \A i \in DOMAIN wire : wire[i] = inflight => r < r
        BY ONLY <2>3, <4>1
      <4>3. QED  BY ONLY <1>0, <4>2
    <3>3. source = "table" \/ source = "queue"
      BY DEF TypeInv, TypeOK
    <3>4. QED  BY ONLY <3>1, <3>2, <3>3
  <2>5. ResentOnlyIfUndeleted'
    BY ONLY <1>0, <2>1, <2>2, <2>4 DEF ResentOnlyIfUndeleted
  <2>6. QueueOrderKept'
    BY ONLY <1>0, <2>1, <2>2, <2>3 DEF QueueOrderKept
  <2>7. QED  BY ONLY <2>5, <2>6 DEF WrittenInOrder
<1>2. ASSUME NEW m \in Message, SendQueued(m)
      PROVE  WrittenInOrder'
  <2>1. UNCHANGED <<wire, undeleted>> /\ queued' = Append(queued, m) /\ m \notin Used
    BY <1>2 DEF SendQueued
  <2>2. \A i \in DOMAIN wire : wire[i] # m
    BY <2>1 DEF Used, OrderInv, Apart, Elements
  <2>3. \A p \in DOMAIN queued' : queued'[p] # m => p \in DOMAIN queued /\ queued'[p] = queued[p]
    BY ONLY <1>0, <2>1
  <2>4. QED
    BY ONLY <1>0, <2>1, <2>2, <2>3 DEF WrittenInOrder, ResentOnlyIfUndeleted, QueueOrderKept
<1>3. ASSUME UNCHANGED <<wire, queued>>, undeleted \subseteq undeleted'
      PROVE  WrittenInOrder'
  BY ONLY <1>0, <1>3 DEF WrittenInOrder, ResentOnlyIfUndeleted, QueueOrderKept
<1>4. CASE OuterCheck \/ InnerCheck \/ HandshakeFail \/ HandshakeOk \/ EndSession
  BY <1>3, <1>4 DEF OuterCheck, InnerCheck, HandshakeFail, HandshakeOk, EndSession, history
<1>5. CASE BackoffElapsed \/ BackoffStopped \/ LoadPersisted \/ SessionStop \/ TakeOutgoing
  BY <1>3, <1>5 DEF BackoffElapsed, BackoffStopped, LoadPersisted, SessionStop,
     TakeOutgoing, history
<1>6. CASE SendFail \/ DeleteRow \/ StreamEnds \/ ReadPong \/ Tick \/ TickFail
  BY <1>3, <1>6 DEF SendFail, DeleteRow, StreamEnds, ReadPong, Tick, TickFail, history
<1>7. ASSUME NEW m \in Message, SendSpills(m) \/ SpillInsert(m) \/ RowExpires(m)
      PROVE  WrittenInOrder'
  BY <1>3, <1>7 DEF SendSpills, SpillInsert, RowExpires, history
<1>8. CASE StopBegin \/ StopReturn \/ StopAgain \/ PeerGoesSilent \/ Restart
  BY <1>3, <1>8 DEF StopBegin, StopReturn, StopAgain, PeerGoesSilent, Restart, history
<1>9. CASE UNCHANGED vars
  BY <1>3, <1>9 DEF vars, history
<1>10. QED
  BY <1>1, <1>2, <1>4, <1>5, <1>6, <1>7, <1>8, <1>9 DEF Next, Task, Callers, Environment

\* What the queue accepted is written in the order in which it was accepted, and
\* nothing is written twice but a row whose DELETE did not happen: next_outgoing and the
\* select! of run_session, across reconnects and restarts.
THEOREM WrittenOnceInOrder == Spec => []WrittenInOrder
<1>1. TypeInv /\ OrderInv /\ [Next]_vars => OrderInv'
  BY ApartStep, ResentStep, OrderStep, WrittenStep DEF OrderInv
<1>2. OrderInv => WrittenInOrder
  BY DEF OrderInv
<1>3. QED
  BY TypeInit, TypeStep, OrderInit, <1>1, <1>2, PTL DEF Spec

-----------------------------------------------------------------------------
(* The heartbeat *)

\* A peer that answers in time leaves at most the last ping unanswered.
PromptPeer ==
  /\ InSession /\ peer = "prompt" => missed = pongs /\ pongs <= 1
  /\ HeartbeatSparesPromptPeer

LEMMA BeatInit == Init => PromptPeer
BY DEF Init, PromptPeer, InSession, HeartbeatSparesPromptPeer

LEMMA BeatStep ==
  ASSUME MaxMissedPongs > 1
  PROVE  TypeInv /\ PromptPeer /\ [Next]_vars => PromptPeer'
<1> SUFFICES ASSUME TypeInv, PromptPeer, [Next]_vars
             PROVE  PromptPeer'
  OBVIOUS
<1> USE DEF PromptPeer, InSession, HeartbeatSparesPromptPeer
<1>0. missed \in Nat /\ pongs \in Nat /\ MaxMissedPongs \in Nat
  BY ConstantsAssumption DEF TypeInv, TypeOK
<1>1. CASE HandshakeOk
  BY <1>1 DEF HandshakeOk
<1>2. CASE ReadPong
  <2>1. /\ UNCHANGED <<task, result, peer>> /\ task = "Session"
        /\ pongs > 0 /\ pongs' = pongs - 1 /\ missed' = 0
    BY <1>2 DEF ReadPong, taskVars
  <2>2. QED  BY ONLY PromptPeer, <1>0, <2>1
<1>3. CASE Tick
  <2>1. /\ task = "Session" /\ missed' = missed + 1
        /\ peer' = "prompt" => peer = "prompt" /\ pongs = 0 /\ pongs' = pongs + 1
    BY <1>3 DEF Tick
  <2>2. \/ missed' >= MaxMissedPongs /\ task' = "Ended"
        \/ task' = "Session"
    BY <1>3 DEF Tick, Leave
  <2>3. peer' = "prompt" => missed' = 1 /\ pongs' = 1
    BY ONLY PromptPeer, <1>0, <2>1
  <2>4. peer' = "prompt" => task' = "Session"
    <3>1. ASSUME missed' = 1 PROVE ~(missed' >= MaxMissedPongs)
      BY ONLY <1>0, <3>1, MaxMissedPongs > 1
    <3>2. QED  BY <2>2, <2>3, <3>1
  <2>5. QED  BY ONLY <2>3, <2>4
<1>4. ASSUME UNCHANGED beatVars, task' \in {"Load", "Session", "Send", "Delete"} => InSession,
             task' = "Ended" => (task = "Ended" /\ UNCHANGED result) \/ result' # "Heartbeat"
      PROVE  PromptPeer'
  BY ONLY <1>4, PromptPeer DEF beatVars
<1>5. CASE OuterCheck \/ InnerCheck \/ HandshakeFail \/ EndSession
  BY <1>4, <1>5 DEF OuterCheck, InnerCheck, HandshakeFail, EndSession, AfterFailure
<1>6. CASE BackoffElapsed \/ BackoffStopped \/ LoadPersisted \/ SessionStop \/ TakeOutgoing
  BY <1>4, <1>6 DEF BackoffElapsed, BackoffStopped, LoadPersisted, SessionStop, Leave,
     TakeOutgoing
<1>7. CASE SendOk \/ SendFail \/ DeleteRow \/ StreamEnds \/ TickFail
  BY <1>4, <1>7 DEF SendOk, SendFail, DeleteRow, StreamEnds, TickFail, Leave
<1>8. ASSUME NEW m \in Message,
             SendQueued(m) \/ SendSpills(m) \/ SpillInsert(m) \/ RowExpires(m)
      PROVE  PromptPeer'
  BY <1>4, <1>8 DEF SendQueued, SendSpills, SpillInsert, RowExpires, taskVars
<1>9. CASE StopBegin \/ StopReturn \/ StopAgain
  BY <1>4, <1>9 DEF StopBegin, StopReturn, StopAgain, taskVars
<1>10. CASE PeerGoesSilent
  BY <1>10 DEF PeerGoesSilent, taskVars
<1>11. CASE Restart
  BY <1>11 DEF Restart
<1>12. CASE UNCHANGED vars
  BY <1>4, <1>12 DEF vars, taskVars
<1>13. QED
  BY <1>1, <1>2, <1>3, <1>5, <1>6, <1>7, <1>8, <1>9, <1>10, <1>11, <1>12
     DEF Next, Task, Callers, Environment

\* The heartbeat never ends the session of a peer that answers each ping before the
\* next: of run_session, for every limit above one (a limit of one ends it at the first
\* ping, before an answer can come).
THEOREM PromptPeerIsSpared ==
  ASSUME MaxMissedPongs > 1
  PROVE  Spec => []HeartbeatSparesPromptPeer
<1>1. PromptPeer => HeartbeatSparesPromptPeer
  BY DEF PromptPeer
<1>2. QED
  BY TypeInit, TypeStep, BeatInit, BeatStep, <1>1, PTL DEF Spec

-----------------------------------------------------------------------------
(* What state() reports *)

LEMMA StateInit == Init => StateTellsTruth
BY DEF Init, StateTellsTruth, InSession

LEMMA StateStep == TypeInv /\ StateTellsTruth /\ [Next]_vars => StateTellsTruth'
<1> SUFFICES ASSUME TypeInv, StateTellsTruth, [Next]_vars
             PROVE  StateTellsTruth'
  OBVIOUS
<1> USE DEF StateTellsTruth, InSession, Stopped
<1>1. CASE OuterCheck \/ InnerCheck \/ HandshakeFail \/ HandshakeOk
  BY <1>1 DEF OuterCheck, InnerCheck, HandshakeFail, HandshakeOk,
     AfterFailure, stopVars
<1>2. CASE EndSession \/ BackoffElapsed \/ BackoffStopped
  BY <1>2 DEF EndSession, BackoffElapsed, BackoffStopped, AfterFailure, stopVars
<1>3. CASE LoadPersisted \/ SessionStop \/ TakeOutgoing \/ SendOk \/ SendFail
  BY <1>3 DEF LoadPersisted, SessionStop, TakeOutgoing, SendOk, SendFail,
     Leave, stopVars
<1>4. CASE DeleteRow \/ StreamEnds \/ ReadPong \/ Tick \/ TickFail
  BY <1>4 DEF DeleteRow, StreamEnds, ReadPong, Tick, TickFail, Leave, taskVars,
     stopVars
<1>5. CASE StopBegin \/ StopReturn \/ StopAgain
  BY <1>5 DEF StopBegin, StopReturn, StopAgain, StopReceiverAlive, taskVars
<1>6. CASE Restart
  BY <1>6 DEF Restart
<1>7. ASSUME UNCHANGED <<taskVars, stopVars>>
      PROVE  StateTellsTruth'
  BY <1>7 DEF taskVars, stopVars
<1>8. ASSUME NEW m \in Message,
             \/ SendQueued(m) \/ SendSpills(m) \/ SpillInsert(m)
             \/ RowExpires(m)
      PROVE  StateTellsTruth'
  BY <1>7, <1>8 DEF SendQueued, SendSpills, SpillInsert, RowExpires
<1>9. CASE PeerGoesSilent \/ UNCHANGED vars
  BY <1>7, <1>9 DEF PeerGoesSilent, vars
<1>10. QED
  BY <1>1, <1>2, <1>3, <1>4, <1>5, <1>6, <1>8, <1>9
     DEF Next, Task, Callers, Environment

\* The reported state and the position of the task agree in every behaviour.
THEOREM StateIsTruthful == Spec => []StateTellsTruth
BY TypeInit, TypeStep, StateInit, StateStep, PTL DEF Spec

\* Nothing is lost: the three together, as the run checks them.
THEOREM NothingIsLost == Spec => []NothingLost
BY TypeCorrect, SpilledMessagesSurvive, QueueNeverLosesOtherwise, PTL DEF NothingLost
=============================================================================
