-------------------------- MODULE Connections_proofs --------------------------
(***************************************************************************)
(* What a call keeps of its answer, which descriptors it reads it by and   *)
(* what the history gets of it; that the registry of cancel tokens and the *)
(* table of streams know what is under way; and that sessions are found and*)
(* their events come in order.  For any number of calls and servers, any   *)
(* cap and any length of a body or stream.                                 *)
(***************************************************************************)
EXTENDS Connections, TLAPS

(***************************************************************************)
(* The inductive invariant, by what each part is about.                     *)
(***************************************************************************)

\* A task that is alive has not said its last word.
Ended == \A c \in Call : TaskLive(c) \/ task[c] = "none" => ends[c] = 0

\* A call has neither token nor task before its method is resolved, and a stream
\* that ended before it was listed has left the registry.
Stages ==
  \A c \in Call :
    /\ at[c] \in {"idle", "load", "fetch", "resolve"} => c \notin cancels
    /\ at[c] \in {"fetch", "resolve"} => kind[c] \in Grpc
    /\ at[c] \notin {"list", "done"} => task[c] = "none"
    /\ at[c] = "list" => task[c] \in {"setup", "open", "over"}
    /\ at[c] = "list" /\ c \in cancels => task[c] # "over"

\* What was not answered is not in the history, and what is about to be written
\* has not been.
Unsaved ==
  \A c \in Call :
    /\ at[c] # "done" => rows[c] = 0 /\ c \notin saving
    /\ c \in saving => rows[c] = 0

\* As long as the body is read, the cap was not passed.
Within == \A c \in Call : at[c] \notin {"leave", "done"} => came[c] <= Cap

\* The files have a key of their own, and a call has no pool before it looked.
OwnKeys ==
  /\ pools["files"] \in {Files, None}
  /\ \A c \in Call :
       /\ at[c] \in {"idle", "load"} => pool[c] = None
       /\ at[c] = "fetch" => pool[c] = None

\* What is under way can be cancelled and closed, and nothing else is kept.
UnderWay == Cancellable /\ RegistryCleared /\ OpenStreamsListed

LEMMA TypeInit == Init => TypeOK
  BY CallsAssumption DEF Init, TypeOK, Places, Kind, Source, Key

\* A step keeps the types; only a task that is alive tells and ends.
LEMMA TypeStep ==
  ASSUME TypeOK, Ended, Unsaved, Stages, [Next]_vars
  PROVE  TypeOK' /\ Ended' /\ Unsaved'
<1> USE DEF TypeOK, Ended, Unsaved, Stages, Places, Kind, Source, Key, Grpc,
        Goto, Leaving, args, body, stream, history, CacheKey, Hit, TooMuch,
        TaskLive, Retry
<1>1. ASSUME NEW c \in Call, Run(c) \/ Outside(c) \/ User(c)
      PROVE  TypeOK' /\ Ended' /\ Unsaved'
  <2>1. CASE Begin(c) BY <2>1 DEF Begin
  <2>2. CASE Refuse(c) BY <2>2 DEF Refuse
  <2>3. CASE Lookup(c) BY <2>3 DEF Lookup
  <2>4. CASE Fetch(c) BY <2>4 DEF Fetch
  <2>5. CASE Resolve(c) BY <2>5 DEF Resolve
  <2>6. CASE Register(c) BY <2>6 DEF Register
  <2>7. CASE Authorize(c) BY <2>7 DEF Authorize
  <2>8. CASE AuthorizeFails(c) BY <2>8 DEF AuthorizeFails
  <2>9. CASE Challenged(c) BY <2>9 DEF Challenged
  <2>10. CASE Answered(c) BY <2>10 DEF Answered
  <2>11. CASE SendFails(c) BY <2>11 DEF SendFails
  <2>12. CASE Abort(c) BY <2>12 DEF Abort
  <2>13. CASE Chunk(c) BY <2>13, CallsAssumption DEF Chunk
  <2>14. CASE ChunkCancelled(c) BY <2>14 DEF ChunkCancelled
  <2>15. CASE BodyFails(c) BY <2>15 DEF BodyFails
  <2>16. CASE BodyEnds(c) BY <2>16 DEF BodyEnds
  <2>17. CASE UnaryAnswers(c) BY <2>17 DEF UnaryAnswers
  <2>18. CASE UnaryFails(c) BY <2>18 DEF UnaryFails
  <2>19. CASE Leave(c) BY <2>19 DEF Leave
  <2>20. CASE SaveHistory(c) BY <2>20 DEF SaveHistory
  <2>21. CASE ListStream(c) BY <2>21 DEF ListStream
  <2>22. CASE StreamOpens(c) BY <2>22 DEF StreamOpens
  <2>23. CASE StreamTells(c) BY <2>23, CallsAssumption DEF StreamTells
  <2>24. CASE StreamOver(c) BY <2>24 DEF StreamOver, StreamEnds
  <2>25. CASE StreamCancelled(c) BY <2>25 DEF StreamCancelled, StreamEnds
  <2>26. CASE AbortTakes(c) BY <2>26 DEF AbortTakes
  <2>27. CASE Cancel(c) BY <2>27 DEF Cancel
  <2>28. CASE Close(c) BY <2>28 DEF Close
  <2> QED
    BY <1>1, <2>1, <2>2, <2>3, <2>4, <2>5, <2>6, <2>7, <2>8, <2>9, <2>10, <2>11,
          <2>12, <2>13, <2>14, <2>15, <2>16, <2>17, <2>18, <2>19, <2>20,
          <2>21, <2>22, <2>23, <2>24, <2>25, <2>26, <2>27, <2>28 DEF Run,
          Outside, User
<1>2. CASE UNCHANGED vars BY <1>2 DEF vars
<1> QED BY <1>1, <1>2 DEF Next

\* A step keeps what is true of the answers.
LEMMA AnswerStep ==
  ASSUME TypeOK, Unsaved, Within, OwnKeys, AnswersTrue, [Next]_vars
  PROVE  Within' /\ OwnKeys' /\ AnswersTrue'
<1> USE DEF TypeOK, Unsaved, Within, OwnKeys, AnswersTrue, BodyIsPrefix,
        ReloadedPoolIsOwn, HistoryOfAnswered, CacheKey, Hit, TooMuch, Key,
        Source, Kind, Goto, Leaving, args, body, stream, history
<1>1. ASSUME NEW c \in Call, Run(c) \/ Outside(c) \/ User(c)
      PROVE  Within' /\ OwnKeys' /\ AnswersTrue'
  <2>1. CASE Begin(c) BY <2>1 DEF Begin
  <2>2. CASE Refuse(c) BY <2>2 DEF Refuse
  <2>3. CASE Lookup(c) BY <2>3 DEF Lookup
  <2>4. CASE Fetch(c) BY <2>4 DEF Fetch
  <2>5. CASE Resolve(c) BY <2>5 DEF Resolve
  <2>6. CASE Register(c) BY <2>6 DEF Register
  <2>7. CASE Authorize(c) BY <2>7 DEF Authorize
  <2>8. CASE AuthorizeFails(c) BY <2>8 DEF AuthorizeFails
  <2>9. CASE Challenged(c) BY <2>9 DEF Challenged
  <2>10. CASE Answered(c) BY <2>10 DEF Answered
  <2>11. CASE SendFails(c) BY <2>11 DEF SendFails
  <2>12. CASE Abort(c) BY <2>12 DEF Abort
  <2>13. CASE Chunk(c) BY <2>13, CallsAssumption DEF Chunk
  <2>14. CASE ChunkCancelled(c) BY <2>14 DEF ChunkCancelled
  <2>15. CASE BodyFails(c) BY <2>15 DEF BodyFails
  <2>16. CASE BodyEnds(c) BY <2>16 DEF BodyEnds
  <2>17. CASE UnaryAnswers(c) BY <2>17 DEF UnaryAnswers
  <2>18. CASE UnaryFails(c) BY <2>18 DEF UnaryFails
  <2>19. CASE Leave(c) BY <2>19 DEF Leave
  <2>20. CASE SaveHistory(c) BY <2>20 DEF SaveHistory
  <2>21. CASE ListStream(c) BY <2>21 DEF ListStream
  <2>22. CASE StreamOpens(c) BY <2>22 DEF StreamOpens
  <2>23. CASE StreamTells(c) BY <2>23 DEF StreamTells
  <2>24. CASE StreamOver(c) BY <2>24 DEF StreamOver, StreamEnds
  <2>25. CASE StreamCancelled(c) BY <2>25 DEF StreamCancelled, StreamEnds
  <2>26. CASE AbortTakes(c) BY <2>26 DEF AbortTakes
  <2>27. CASE Cancel(c) BY <2>27 DEF Cancel
  <2>28. CASE Close(c) BY <2>28 DEF Close
  <2> QED
    BY <1>1, <2>1, <2>2, <2>3, <2>4, <2>5, <2>6, <2>7, <2>8, <2>9, <2>10, <2>11,
          <2>12, <2>13, <2>14, <2>15, <2>16, <2>17, <2>18, <2>19, <2>20,
          <2>21, <2>22, <2>23, <2>24, <2>25, <2>26, <2>27, <2>28 DEF Run,
          Outside, User
<1>2. CASE UNCHANGED vars BY <1>2 DEF vars
<1> QED BY <1>1, <1>2 DEF Next

\* A step keeps what is true of the registry and of the table of streams.
LEMMA RegistryStep ==
  ASSUME TypeOK, Stages, UnderWay, [Next]_vars
  PROVE  Stages' /\ UnderWay'
<1> USE DEF TypeOK, Stages, UnderWay, Cancellable, RegistryCleared,
        OpenStreamsListed, TaskLive, Places, Kind, Grpc, Retry, Goto, Leaving,
        args, body, stream, history
<1>1. ASSUME NEW c \in Call, Run(c) \/ Outside(c) \/ User(c)
      PROVE  Stages' /\ UnderWay'
  <2>1. CASE Begin(c) BY <2>1 DEF Begin
  <2>2. CASE Refuse(c) BY <2>2 DEF Refuse
  <2>3. CASE Lookup(c) BY <2>3 DEF Lookup
  <2>4. CASE Fetch(c) BY <2>4 DEF Fetch
  <2>5. CASE Resolve(c) BY <2>5 DEF Resolve
  <2>6. CASE Register(c) BY <2>6 DEF Register
  <2>7. CASE Authorize(c) BY <2>7 DEF Authorize
  <2>8. CASE AuthorizeFails(c) BY <2>8 DEF AuthorizeFails
  <2>9. CASE Challenged(c) BY <2>9 DEF Challenged
  <2>10. CASE Answered(c) BY <2>10 DEF Answered
  <2>11. CASE SendFails(c) BY <2>11 DEF SendFails
  <2>12. CASE Abort(c) BY <2>12 DEF Abort
  <2>13. CASE Chunk(c) BY <2>13 DEF Chunk
  <2>14. CASE ChunkCancelled(c) BY <2>14 DEF ChunkCancelled
  <2>15. CASE BodyFails(c) BY <2>15 DEF BodyFails
  <2>16. CASE BodyEnds(c) BY <2>16 DEF BodyEnds
  <2>17. CASE UnaryAnswers(c) BY <2>17 DEF UnaryAnswers
  <2>18. CASE UnaryFails(c) BY <2>18 DEF UnaryFails
  <2>19. CASE Leave(c) BY <2>19 DEF Leave
  <2>20. CASE SaveHistory(c) BY <2>20 DEF SaveHistory
  <2>21. CASE ListStream(c) BY <2>21 DEF ListStream
  <2>22. CASE StreamOpens(c) BY <2>22 DEF StreamOpens
  <2>23. CASE StreamTells(c) BY <2>23 DEF StreamTells
  <2>24. CASE StreamOver(c) BY <2>24 DEF StreamOver, StreamEnds
  <2>25. CASE StreamCancelled(c) BY <2>25 DEF StreamCancelled, StreamEnds
  <2>26. CASE AbortTakes(c) BY <2>26 DEF AbortTakes
  <2>27. CASE Cancel(c) BY <2>27 DEF Cancel
  <2>28. CASE Close(c) BY <2>28 DEF Close
  <2> QED
    BY <1>1, <2>1, <2>2, <2>3, <2>4, <2>5, <2>6, <2>7, <2>8, <2>9, <2>10, <2>11,
          <2>12, <2>13, <2>14, <2>15, <2>16, <2>17, <2>18, <2>19, <2>20,
          <2>21, <2>22, <2>23, <2>24, <2>25, <2>26, <2>27, <2>28 DEF Run,
          Outside, User
<1>2. CASE UNCHANGED vars BY <1>2 DEF vars
<1> QED BY <1>1, <1>2 DEF Next

IInv == TypeOK /\ Ended /\ Unsaved /\ Stages /\ Within /\ OwnKeys

LEMMA Invariant == Spec => [](IInv /\ AnswersTrue /\ UnderWay)
<1>1. Init => IInv /\ AnswersTrue /\ UnderWay
  BY TypeInit, CallsAssumption
  DEF Init, IInv, AnswersTrue, BodyIsPrefix, ReloadedPoolIsOwn, HistoryOfAnswered,
      UnderWay, Cancellable, RegistryCleared, OpenStreamsListed, TaskLive, Ended,
      Unsaved, Stages, Within, OwnKeys, Key
<1>2. IInv /\ AnswersTrue /\ UnderWay /\ [Next]_vars
        => (IInv /\ AnswersTrue /\ UnderWay)'
  BY TypeStep, AnswerStep, RegistryStep DEF IInv
<1> QED
  BY <1>1, <1>2, PTL DEF Spec

(* Every variable of the calls keeps its type. *)
THEOREM TypeCorrect == Spec => []TypeOK
  BY Invariant, PTL DEF IInv

(* A body is what came, up to the cap; a forced reload and a call with proto    *)
(* files are read by their own descriptions; and history has a call once, if    *)
(* and only after it was answered: whatever calls overlap.                      *)
THEOREM AnswersAreTrue == Spec => []AnswersTrue
  BY Invariant, PTL

(* What waits for a server is in the registry or cancelled, what is over is not *)
(* in it, and every open stream that the user knows of is listed.               *)
THEOREM RegistryIsTrue == Spec => [](Cancellable /\ RegistryCleared /\ OpenStreamsListed)
  BY Invariant, PTL DEF UnderWay

(* After its terminal event, or its abort, a stream tells nothing and does not   *)
(* end again.                                                                    *)
THEOREM LastIsLast == Spec => EndIsLast
<1> DEFINE Quiet ==
      \A c \in Call : ends[c] = 1 \/ task[c] = "aborted" =>
        told'[c] = told[c] /\ ends'[c] = ends[c]
<1>1. IInv /\ [Next]_vars => Quiet
  <2> SUFFICES ASSUME IInv, [Next]_vars PROVE Quiet
    OBVIOUS
  <2> USE DEF IInv, TypeOK, Ended, TaskLive, Goto, Leaving, args, body, stream, history
  <2>1. ASSUME NEW c \in Call, Run(c) \/ Outside(c) \/ User(c) PROVE Quiet
    <3>1. CASE StreamTells(c) BY <3>1 DEF StreamTells
    <3>2. CASE StreamOver(c) \/ StreamCancelled(c)
      BY <3>2 DEF StreamOver, StreamCancelled, StreamEnds
    <3>3. CASE UNCHANGED <<told, ends>>
      BY <3>3
    <3> QED
      BY <2>1, <3>1, <3>2, <3>3
      DEF Run, Outside, User, Begin, Refuse, Lookup, Fetch, Resolve, Register, Authorize,
          AuthorizeFails, Challenged, Answered, SendFails, Abort, Chunk, ChunkCancelled,
          BodyFails, BodyEnds, UnaryAnswers, UnaryFails, Leave, SaveHistory, ListStream,
          StreamOpens, AbortTakes, Cancel, Close
  <2>2. CASE UNCHANGED vars BY <2>2 DEF vars
  <2> QED BY <2>1, <2>2 DEF Next
<1> QED
  BY <1>1, Invariant, PTL DEF Spec, EndIsLast

-----------------------------------------------------------------------------
(***************************************************************************)
(* Sessions: a WebSocket's events come through a ring and a task, those of  *)
(* SSE directly.                                                            *)
(***************************************************************************)
SessionTyped ==
  /\ cmd \in [Session -> {"idle", "opened", "fed", "returned"}] /\ table \subseteq Session
  /\ source \in [Session -> {"none", "live", "over"}] /\ emitted \in [Session -> Nat]
  /\ forward \in [Session -> {"none", "live", "over"}] /\ next \in [Session -> Nat]
  /\ ui \in [Session -> {"waits", "listens", "left"}] /\ heard \in [Session -> Seq(Nat)]
  /\ leaving \in [Session -> {"no", "stopping", "done"}]

\* The interface has the id from the command, and hears events only with it.
Learnt ==
  \A s \in Session :
    /\ ui[s] # "waits" => cmd[s] = "returned"
    /\ ui[s] = "waits" => heard[s] = << >>
    /\ forward[s] = "live" \/ cmd[s] = "opened" => s \in Ws

\* What was heard last is the last event of the source, or the last one taken
\* from the ring.
HeardLast ==
  \A s \in Session :
    ui[s] = "listens" /\ heard[s] # << >> =>
      heard[s][Len(heard[s])] + 1 = IF s \in Ws THEN next[s] ELSE emitted[s] + 1

NoGapIn(events) == \A i \in 1 .. Len(events) - 1 : events[i + 1] = events[i] + 1

SessionInv ==
  /\ SessionTyped /\ Learnt /\ HeardLast
  /\ \A s \in Session : NoGapIn(heard[s])

\* One more event, the one after the last.
LEMMA OneMore ==
  ASSUME NEW events \in Seq(Nat), NEW e \in Nat, NoGapIn(events),
         events # << >> => events[Len(events)] + 1 = e
  PROVE  /\ NoGapIn(Append(events, e)) /\ Append(events, e) \in Seq(Nat)
         /\ Append(events, e) # << >> /\ Append(events, e)[Len(Append(events, e))] = e
<1> DEFINE more == Append(events, e)
<1>1. /\ more \in Seq(Nat) /\ Len(more) = Len(events) + 1 /\ Len(events) \in Nat
      /\ more[Len(events) + 1] = e /\ \A i \in 1 .. Len(events) : more[i] = events[i]
  OBVIOUS
<1>2. more # << >>
  BY <1>1
<1> HIDE DEF more
<1>3. ASSUME NEW i \in 1 .. Len(more) - 1 PROVE more[i + 1] = more[i] + 1
  <2>1. CASE i < Len(events)
    <3>1. i \in 1 .. Len(events) - 1 /\ i \in 1 .. Len(events) /\ i + 1 \in 1 .. Len(events)
      BY <1>1, <2>1
    <3>2. events[i + 1] = events[i] + 1
      BY <3>1 DEF NoGapIn
    <3> QED  BY <3>1, <3>2, <1>1
  <2>2. CASE i = Len(events)
    <3>1. events # << >> /\ i \in 1 .. Len(events)
      BY <1>1, <2>2
    <3> QED  BY <3>1, <2>2, <1>1
  <2> QED  BY <2>1, <2>2, <1>1
<1> QED  BY <1>1, <1>2, <1>3 DEF NoGapIn, more

\* An event is heard by who listens.
LEMMA Emitted ==
  ASSUME SessionInv, NEW s \in Session, NEW e \in Nat, S!Emit(s, e),
         heard[s] # << >> /\ ui[s] = "listens" => heard[s][Len(heard[s])] + 1 = e
  PROVE  /\ heard' \in [Session -> Seq(Nat)]
         /\ \A r \in Session : NoGapIn(heard'[r])
         /\ \A r \in Session \ {s} : heard'[r] = heard[r]
         /\ ui[s] # "listens" => heard'[s] = heard[s]
         /\ ui[s] = "listens" => heard'[s][Len(heard'[s])] = e
<1>1. heard \in [Session -> Seq(Nat)] /\ \A r \in Session : NoGapIn(heard[r])
  BY DEF SessionInv, SessionTyped
<1>2. CASE ui[s] = "listens"
  <2>1. heard' = [heard EXCEPT ![s] = Append(heard[s], e)]
    BY <1>2 DEF S!Emit
  <2>2. /\ NoGapIn(Append(heard[s], e)) /\ Append(heard[s], e) \in Seq(Nat)
        /\ Append(heard[s], e)[Len(Append(heard[s], e))] = e
    BY <1>1, <1>2, OneMore
  <2> QED  BY <1>1, <1>2, <2>1, <2>2
<1>3. CASE ui[s] # "listens"
  BY <1>1, <1>3 DEF S!Emit
<1> QED  BY <1>2, <1>3

LEMMA InitSessions == S!Init => SessionInv /\ S!NoOrphan
  BY DEF S!Init, SessionInv, SessionTyped, Learnt, HeardLast, NoGapIn, S!NoOrphan

\* What changes neither an event nor who hears it.
LEMMA QuietStep ==
  ASSUME SessionInv, NEW s \in Session,
         S!SseOpen(s) \/ S!Open(s) \/ S!Subscribe(s) \/ S!Insert(s) \/ S!Learn(s) \/ S!Disconnect(s) \/ S!Stop(s)
  PROVE  SessionInv'
<1> USE DEF SessionInv
<1>0. heard' = heard /\ emitted' = emitted
  BY DEF S!SseOpen, S!Open, S!Subscribe, S!Insert, S!Learn, S!Disconnect, S!Stop
<1>1. SessionTyped'
  <2>1. CASE S!SseOpen(s)
    BY <2>1 DEF S!SseOpen, S!Goto, SessionTyped
  <2>2. CASE S!Open(s)
    BY <2>2 DEF S!Open, S!Goto, SessionTyped
  <2>3. CASE S!Subscribe(s)
    BY <2>3 DEF S!Subscribe, S!Goto, SessionTyped
  <2>4. CASE S!Insert(s)
    BY <2>4 DEF S!Insert, S!Goto, SessionTyped
  <2>5. CASE S!Learn(s)
    BY <2>5 DEF S!Learn, SessionTyped
  <2>6. CASE S!Disconnect(s)
    BY <2>6 DEF S!Disconnect, SessionTyped
  <2>7. CASE S!Stop(s)
    BY <2>7 DEF S!Stop, SessionTyped
  <2> QED  BY <2>1, <2>2, <2>3, <2>4, <2>5, <2>6, <2>7
<1>2. Learnt'
  <2>1. CASE S!SseOpen(s)
    BY <2>1, <1>0 DEF S!SseOpen, S!Goto, SessionTyped, Learnt
  <2>2. CASE S!Open(s)
    BY <2>2, <1>0 DEF S!Open, S!Goto, SessionTyped, Learnt
  <2>3. CASE S!Subscribe(s)
    BY <2>3, <1>0 DEF S!Subscribe, S!Goto, SessionTyped, Learnt
  <2>4. CASE S!Insert(s)
    BY <2>4, <1>0 DEF S!Insert, S!Goto, SessionTyped, Learnt
  <2>5. CASE S!Learn(s)
    BY <2>5, <1>0 DEF S!Learn, SessionTyped, Learnt
  <2>6. CASE S!Disconnect(s)
    BY <2>6, <1>0 DEF S!Disconnect, SessionTyped, Learnt
  <2>7. CASE S!Stop(s)
    BY <2>7, <1>0 DEF S!Stop, SessionTyped, Learnt
  <2> QED  BY <2>1, <2>2, <2>3, <2>4, <2>5, <2>6, <2>7
<1>3. HeardLast'
  <2>1. CASE S!SseOpen(s) \/ S!Open(s) \/ S!Insert(s) \/ S!Stop(s)
    BY <2>1, <1>0 DEF S!SseOpen, S!Open, S!Insert, S!Stop, HeardLast
  <2>2. CASE S!Subscribe(s)
    <3>1. ui[s] = "waits" /\ heard[s] = << >>
      BY <2>2 DEF S!Subscribe, S!Goto, Learnt, SessionTyped
    <3>2. ui' = ui /\ \A r \in Session \ {s} : next'[r] = next[r]
      BY <2>2 DEF S!Subscribe, SessionTyped
    <3> QED  BY <3>1, <3>2, <1>0 DEF HeardLast
  <2>3. CASE S!Learn(s)
    <3>1. ui[s] = "waits" /\ heard[s] = << >>
      BY <2>3 DEF S!Learn, Learnt
    <3>2. next' = next /\ \A r \in Session \ {s} : ui'[r] = ui[r]
      BY <2>3 DEF S!Learn, SessionTyped
    <3> QED  BY <3>1, <3>2, <1>0 DEF HeardLast
  <2>4. CASE S!Disconnect(s)
    <3>1. ui' = [ui EXCEPT ![s] = "left"] /\ next' = next
      BY <2>4 DEF S!Disconnect
    <3>2. \A r \in Session : ui'[r] = "listens" => ui[r] = "listens"
      BY <3>1 DEF SessionTyped
    <3> QED  BY <3>1, <3>2, <1>0 DEF HeardLast
  <2> QED  BY <2>1, <2>2, <2>3, <2>4
<1>4. \A r \in Session : NoGapIn(heard'[r])
  BY <1>0
<1> QED  BY <1>1, <1>2, <1>3, <1>4

\* A source tells an event, which the interface of an SSE session hears.
LEMMA TellStep ==
  ASSUME SessionInv, NEW s \in Session, S!Publish(s) \/ S!SseEnds(s)
  PROVE  SessionInv'
<1> USE DEF SessionInv
<1>1. /\ emitted' = [emitted EXCEPT ![s] = @ + 1] /\ UNCHANGED <<cmd, table, forward, next, ui, leaving>>
      /\ source' = source \/ source' = [source EXCEPT ![s] = "over"]
      /\ (s \notin Ws /\ S!Emit(s, emitted'[s])) \/ (s \in Ws /\ heard' = heard)
  BY DEF S!Publish, S!SseEnds, S!Sse
<1>2. emitted'[s] = emitted[s] + 1 /\ emitted[s] \in Nat /\ emitted'[s] \in Nat
      /\ emitted' \in [Session -> Nat] /\ \A r \in Session \ {s} : emitted'[r] = emitted[r]
  BY <1>1 DEF SessionTyped
<1>3. CASE s \in Ws /\ heard' = heard
  <2>1. SessionTyped'
    BY <1>1, <1>2, <1>3 DEF SessionTyped
  <2>2. Learnt'
    BY <1>1, <1>3 DEF Learnt
  <2>3. HeardLast'
    BY <1>1, <1>2, <1>3 DEF HeardLast
  <2> QED  BY <2>1, <2>2, <2>3, <1>3
<1>4. CASE s \notin Ws /\ S!Emit(s, emitted'[s])
  <2>0. heard[s] # << >> /\ ui[s] = "listens" => heard[s][Len(heard[s])] + 1 = emitted'[s]
    BY <1>2, <1>4 DEF HeardLast
  <2> DEFINE e == emitted'[s]
  <2>1. /\ heard' \in [Session -> Seq(Nat)]
        /\ \A r \in Session : NoGapIn(heard'[r])
        /\ \A r \in Session \ {s} : heard'[r] = heard[r]
        /\ ui[s] # "listens" => heard'[s] = heard[s]
        /\ ui[s] = "listens" => heard'[s][Len(heard'[s])] = e
    <3>1. e \in Nat /\ S!Emit(s, e) /\ (heard[s] # << >> /\ ui[s] = "listens" => heard[s][Len(heard[s])] + 1 = e)
      BY <1>2, <1>4, <2>0
    <3> HIDE DEF e
    <3> QED  BY <3>1, Emitted
  <2>2. SessionTyped'
    <3>1. SessionTyped
      OBVIOUS
    <3>2. source' \in [Session -> {"none", "live", "over"}]
      BY <1>1, <3>1 DEF SessionTyped
    <3> QED  BY ONLY <1>1, <1>2, <2>1, <3>1, <3>2 DEF SessionTyped
  <2>3. Learnt'
    BY <1>1, <2>1 DEF Learnt
  <2>4. HeardLast'
    <3>1. \A r \in Session \ {s} : heard'[r] = heard[r] /\ emitted'[r] = emitted[r]
      BY <1>2, <2>1
    <3> QED  BY <1>1, <1>2, <1>4, <2>1, <3>1 DEF HeardLast
  <2> QED  BY <2>1, <2>2, <2>3, <2>4
<1> QED  BY <1>1, <1>3, <1>4

\* The forwarding task takes an event from the ring, or has lagged.
LEMMA ForwardStep ==
  ASSUME SessionInv, NEW s \in Session, S!Forward(s)
  PROVE  SessionInv'
<1> USE DEF SessionInv
<1>1. /\ UNCHANGED <<cmd, table, source, emitted, ui, leaving>> /\ forward[s] = "live" /\ s \in Ws
      /\ \/ forward' = [forward EXCEPT ![s] = "over"] /\ UNCHANGED <<next, heard>>
         \/ S!Emit(s, next[s]) /\ next' = [next EXCEPT ![s] = @ + 1] /\ UNCHANGED forward
  BY DEF S!Forward, Learnt
<1>2. CASE forward' = [forward EXCEPT ![s] = "over"] /\ UNCHANGED <<next, heard>>
  <2>1. SessionTyped'
    BY <1>1, <1>2 DEF SessionTyped
  <2>2. Learnt'
    BY <1>1, <1>2 DEF Learnt, SessionTyped
  <2>3. HeardLast'
    BY <1>1, <1>2 DEF HeardLast
  <2> QED  BY <2>1, <2>2, <2>3, <1>2
<1>3. CASE S!Emit(s, next[s]) /\ next' = [next EXCEPT ![s] = @ + 1] /\ UNCHANGED forward
  <2>0. /\ next[s] \in Nat /\ next'[s] = next[s] + 1 /\ next' \in [Session -> Nat]
        /\ \A r \in Session \ {s} : next'[r] = next[r]
    BY <1>3 DEF SessionTyped
  <2> DEFINE e == next[s]
  <2>1. /\ heard' \in [Session -> Seq(Nat)]
        /\ \A r \in Session : NoGapIn(heard'[r])
        /\ \A r \in Session \ {s} : heard'[r] = heard[r]
        /\ ui[s] # "listens" => heard'[s] = heard[s]
        /\ ui[s] = "listens" => heard'[s][Len(heard'[s])] = e
    <3>1. e \in Nat /\ S!Emit(s, e) /\ (heard[s] # << >> /\ ui[s] = "listens" => heard[s][Len(heard[s])] + 1 = e)
      BY <1>1, <1>3, <2>0 DEF HeardLast
    <3> HIDE DEF e
    <3> QED  BY <3>1, Emitted
  <2>2. SessionTyped'
    BY <1>1, <1>3, <2>0, <2>1 DEF SessionTyped
  <2>3. Learnt'
    BY <1>1, <1>3, <2>1 DEF Learnt
  <2>4. HeardLast'
    BY <1>1, <2>0, <2>1 DEF HeardLast
  <2> QED  BY <2>1, <2>2, <2>3, <2>4
<1> QED  BY <1>1, <1>2, <1>3

LEMMA NextSessions == SessionInv /\ [S!Next]_(S!vars) => SessionInv'
<1> SUFFICES ASSUME SessionInv, [S!Next]_(S!vars) PROVE SessionInv'
  OBVIOUS
<1>1. ASSUME NEW s \in Session,
             S!SseOpen(s) \/ S!Open(s) \/ S!Subscribe(s) \/ S!Insert(s) \/ S!Learn(s) \/ S!Disconnect(s) \/ S!Stop(s)
      PROVE  SessionInv'
  BY <1>1, QuietStep
<1>2. ASSUME NEW s \in Session, S!Publish(s) \/ S!SseEnds(s) PROVE SessionInv'
  BY <1>2, TellStep
<1>3. ASSUME NEW s \in Session, S!Forward(s) PROVE SessionInv'
  BY <1>3, ForwardStep
<1>4. CASE UNCHANGED S!vars
  BY <1>4 DEF S!vars, SessionInv, SessionTyped, Learnt, HeardLast
<1> QED  BY <1>1, <1>2, <1>3, <1>4 DEF S!Next

\* A session stays in its table until its disconnect takes it out.
LEMMA OrphanStep == SessionInv /\ S!NoOrphan /\ [S!Next]_(S!vars) => S!NoOrphan'
<1> SUFFICES ASSUME SessionTyped, S!NoOrphan, [S!Next]_(S!vars) PROVE S!NoOrphan'
  BY DEF SessionInv
<1> USE DEF SessionTyped, S!NoOrphan
<1>1. ASSUME NEW s \in Session, S!SseOpen(s) \/ S!Open(s) PROVE S!NoOrphan'
  <2>1. /\ UNCHANGED <<table, leaving>> /\ cmd'[s] # "returned"
        /\ \A r \in Session \ {s} : source'[r] = source[r] /\ cmd'[r] = cmd[r]
    BY <1>1 DEF S!SseOpen, S!Open, S!Goto
  <2> QED  BY <2>1
<1>2. ASSUME NEW s \in Session, S!Subscribe(s) \/ S!Learn(s) PROVE S!NoOrphan'
  BY <1>2 DEF S!Subscribe, S!Learn, S!Goto
<1>3. ASSUME NEW s \in Session, S!Insert(s) PROVE S!NoOrphan'
  BY <1>3 DEF S!Insert, S!Goto
<1>4. ASSUME NEW s \in Session, S!Publish(s) \/ S!SseEnds(s) \/ S!Forward(s) PROVE S!NoOrphan'
  BY <1>4 DEF S!Publish, S!SseEnds, S!Forward
<1>5. ASSUME NEW s \in Session, S!Disconnect(s) \/ S!Stop(s) PROVE S!NoOrphan'
  <2>1. leaving'[s] # "no" /\ cmd' = cmd /\ table \ {s} \subseteq table'
    <3>1. CASE S!Disconnect(s)
      BY <3>1 DEF S!Disconnect
    <3>2. CASE S!Stop(s)
      BY <3>2 DEF S!Stop
    <3> QED  BY <1>5, <3>1, <3>2
  <2>2. \A r \in Session \ {s} : source'[r] = source[r] /\ leaving'[r] = leaving[r]
    <3>1. CASE S!Disconnect(s)
      BY <3>1 DEF S!Disconnect
    <3>2. CASE S!Stop(s)
      BY <3>2 DEF S!Stop
    <3> QED  BY <1>5, <3>1, <3>2
  <2> QED  BY <2>1, <2>2
<1>6. CASE UNCHANGED S!vars
  BY <1>6 DEF S!vars
<1> QED  BY <1>1, <1>2, <1>3, <1>4, <1>5, <1>6 DEF S!Next

LEMMA SessionsTrue == S!Spec => [](S!NoOrphan /\ S!NoGap)
<1>1. SessionInv => S!NoGap
  BY DEF SessionInv, NoGapIn, S!NoGap
<1> QED  BY <1>1, InitSessions, NextSessions, OrphanStep, PTL DEF S!Spec

\* A call that waits for a server has a token that ends it and an open stream an entry
\* that closes it, what is over is not listed, and a session that lives is in its
\* table or on its way in or out: for any calls, servers and sessions. (request.rs,
\* grpc.rs, ws.rs)
THEOREM CancelAlwaysFinds == Spec /\ S!Spec => []CancelFinds
  BY TypeCorrect, RegistryIsTrue, SessionsTrue, PTL DEF CancelFinds

\* No event of a stream comes after its last one, and an interface misses none between
\* two events of a session that it hears: for any number of either. (grpc.rs, ws.rs)
THEOREM EventsComeInOrder == Spec /\ S!Spec => EventsInOrder
  BY LastIsLast, SessionsTrue, PTL DEF EventsInOrder

===============================================================================
