--------------------------- MODULE TestRuns_proofs ----------------------------
(***************************************************************************)
(* A load test implements RunPromise, for any number of workers and of     *)
(* requests; and a run of a collection sends each case once and loses      *)
(* nothing, for any number of cases and workers.                           *)
(*                                                                         *)
(* Results of a collection are told apart by their cases: the invariant    *)
(* counts how often a case is claimed, under way and recorded, and an      *)
(* induction over the sequence of results is a look at its last one.       *)
(***************************************************************************)
EXTENDS TestRuns, FiniteSetTheorems, WellFoundedInduction, TLAPS

Place == {"unborn", "check", "claim", "send", "deliver", "done"}
Fresh == [counted |-> {}, cancelled |-> "no"]

\* The parts of the state the argument is about.
Typed ==
  /\ phase \in {"loading", "registered", "running", "collected", "returned"}
  /\ token \in {"live", "cancelled"}
  /\ next \in Nat
  /\ at \in [Worker -> Place]
  /\ mine \in [Worker -> Request]
  /\ channel \subseteq Request /\ counted \subseteq Request
  /\ late \subseteq Worker

\* The worker has claimed a request and not delivered its sample.
Busy(w) == at[w] \in {"send", "deliver"}

\* A request that was claimed is in exactly one place.
OnePlace ==
  /\ \A w \in Worker : Busy(w) =>
       /\ mine[w] < next
       /\ mine[w] \notin channel /\ mine[w] \notin counted
  /\ \A v, w \in Worker : Busy(v) /\ Busy(w) /\ mine[v] = mine[w] => v = w
  /\ \A i \in channel : i < next /\ i \notin counted
  /\ \A i \in counted : i < next
  /\ \A i \in Request : i < next =>
       \/ i \in channel \/ i \in counted
       \/ \E w \in Worker : Busy(w) /\ mine[w] = i

\* A worker leaves only when it should, and is late only once.
GoodReason ==
  /\ \A w \in Worker : at[w] = "done" => token = "cancelled" \/ next >= Total
  /\ \A w \in late : token = "cancelled" /\ at[w] # "claim"

\* The workers live while the command runs, and the result comes after them.
InPhase ==
  /\ phase \in {"loading", "registered"} => \A w \in Worker : at[w] = "unborn"
  /\ phase \in {"collected", "returned"} => \A w \in Worker : at[w] = "done"
  /\ phase = "running" => \A w \in Worker : at[w] # "unborn"
  /\ phase \in {"loading", "registered", "running"} => answer = Fresh

IInv == Typed /\ OnePlace /\ GoodReason /\ InPhase

LEMMA RequestFacts ==
  /\ Total \in Nat /\ Total > 0
  /\ 0 \in Request
  /\ \A i \in Request : i \in Nat /\ i < Total
  /\ \A n \in Nat : n < Total => n \in Request
BY LoadAssumption DEF Request

-----------------------------------------------------------------------------
(* The invariant *)

LEMMA InvInit == Init => IInv
BY RequestFacts DEF Init, IInv, Typed, Place, OnePlace, Busy, GoodReason,
                    InPhase, Fresh

LEMMA TypedStep ==
  ASSUME Typed, [Next]_vars
  PROVE  Typed'
<1> USE RequestFacts DEF Typed, Place, Goto, shared, pool, sums
<1>1. CASE Command
  BY <1>1 DEF Command, Register, SpawnWorkers, Receive, Collect, Return
<1>2. CASE TakeToken \/ CancelToken
  BY <1>2 DEF TakeToken, CancelToken
<1>3. ASSUME NEW w \in Worker, CheckToken(w) PROVE Typed'
  BY <1>3 DEF CheckToken
<1>4. ASSUME NEW w \in Worker, Claim(w) PROVE Typed'
  BY <1>4 DEF Claim
<1>5. ASSUME NEW w \in Worker, SendReturns(w) PROVE Typed'
  BY <1>5 DEF SendReturns
<1>6. ASSUME NEW w \in Worker, Deliver(w) PROVE Typed'
  BY <1>6 DEF Deliver
<1>7. CASE UNCHANGED vars
  BY <1>7 DEF vars
<1>8. QED
  BY <1>1, <1>2, <1>3, <1>4, <1>5, <1>6, <1>7 DEF Next, Work, Terminated

LEMMA OnePlaceStep ==
  ASSUME Typed, Typed', OnePlace, InPhase, [Next]_vars
  PROVE  OnePlace'
<1> USE RequestFacts DEF Typed, Place, Goto, shared, pool, sums, Busy
<1>1. CASE Register \/ Collect \/ Return \/ TakeToken \/ CancelToken
  BY <1>1 DEF Register, Collect, Return, TakeToken, CancelToken, OnePlace
<1>2. CASE SpawnWorkers
  BY <1>2 DEF SpawnWorkers, OnePlace, InPhase
<1>3. CASE Receive
  BY <1>3 DEF Receive, OnePlace
<1>4. ASSUME NEW w \in Worker, CheckToken(w) PROVE OnePlace'
  BY <1>4 DEF CheckToken, OnePlace
<1>5. ASSUME NEW w \in Worker, Claim(w) PROVE OnePlace'
  BY <1>5 DEF Claim, OnePlace
<1>6. ASSUME NEW w \in Worker, SendReturns(w) PROVE OnePlace'
  BY <1>6 DEF SendReturns, OnePlace
<1>7. ASSUME NEW w \in Worker, Deliver(w) PROVE OnePlace'
  BY <1>7 DEF Deliver, OnePlace
<1>8. CASE UNCHANGED vars
  BY <1>8 DEF vars, OnePlace
<1>9. QED
  BY <1>1, <1>2, <1>3, <1>4, <1>5, <1>6, <1>7, <1>8
     DEF Next, Command, Work, Terminated

LEMMA GoodReasonStep ==
  ASSUME Typed, Typed', GoodReason, InPhase, [Next]_vars
  PROVE  GoodReason'
<1> USE RequestFacts DEF Typed, Place, Goto, shared, pool, sums, GoodReason
<1>1. CASE Command
  BY <1>1 DEF Command, Register, SpawnWorkers, Receive, Collect, Return
<1>2. CASE TakeToken \/ CancelToken
  BY <1>2 DEF TakeToken, CancelToken
<1>3. ASSUME NEW w \in Worker, CheckToken(w) PROVE GoodReason'
  BY <1>3 DEF CheckToken
<1>4. ASSUME NEW w \in Worker, Claim(w) PROVE GoodReason'
  BY <1>4 DEF Claim
<1>5. ASSUME NEW w \in Worker, SendReturns(w) PROVE GoodReason'
  BY <1>5 DEF SendReturns
<1>6. ASSUME NEW w \in Worker, Deliver(w) PROVE GoodReason'
  BY <1>6 DEF Deliver
<1>7. CASE UNCHANGED vars
  BY <1>7 DEF vars
<1>8. QED
  BY <1>1, <1>2, <1>3, <1>4, <1>5, <1>6, <1>7 DEF Next, Work, Terminated

LEMMA InPhaseStep ==
  ASSUME Typed, Typed', InPhase, [Next]_vars
  PROVE  InPhase'
<1> USE DEF Typed, Place, Goto, shared, pool, sums, InPhase
<1>1. CASE Command
  BY <1>1 DEF Command, Register, SpawnWorkers, Receive, Collect, Return
<1>2. CASE TakeToken \/ CancelToken
  BY <1>2 DEF TakeToken, CancelToken
<1>3. ASSUME NEW w \in Worker, CheckToken(w) PROVE InPhase'
  BY <1>3 DEF CheckToken
<1>4. ASSUME NEW w \in Worker, Claim(w) PROVE InPhase'
  BY <1>4 DEF Claim
<1>5. ASSUME NEW w \in Worker, SendReturns(w) PROVE InPhase'
  BY <1>5 DEF SendReturns
<1>6. ASSUME NEW w \in Worker, Deliver(w) PROVE InPhase'
  BY <1>6 DEF Deliver
<1>7. CASE UNCHANGED vars
  BY <1>7 DEF vars
<1>8. QED
  BY <1>1, <1>2, <1>3, <1>4, <1>5, <1>6, <1>7 DEF Next, Work, Terminated

LEMMA Invariant == Spec => []IInv
<1>1. IInv /\ [Next]_vars => IInv'
  BY TypedStep, OnePlaceStep, GoodReasonStep, InPhaseStep DEF IInv
<1>2. QED  BY InvInit, <1>1, PTL DEF Spec

-----------------------------------------------------------------------------
(* The refinement: each step is a step of the promise or changes nothing    *)
(* that the promise sees.                                                   *)

\* What the promise sees, besides late and the result.
Seen == [i \in Request |-> Status(i)]
Answered == IF phase \in {"collected", "returned"} THEN "yes" ELSE "no"

LEMMA SameSeen ==
  ASSUME next' = next, UNCHANGED <<mine, at>>
  PROVE  Seen' = Seen
BY DEF Seen, Status

LEMMA PromiseInit == Init => Promise!Init
<1> SUFFICES ASSUME Init PROVE Promise!Init
  OBVIOUS
<1>1. \A i \in Request : Status(i) = "waiting"
  BY RequestFacts DEF Init, Status
<1>2. QED
  BY <1>1 DEF Init, Promise!Init, Promise!Request, Request, Wanted

\* A claim of a request that exists is the sending of the promise.
LEMMA ClaimSends ==
  ASSUME IInv, NEW w \in Worker, Claim(w), NEW k \in Request, k = next
  PROVE  Promise!Send(k, w)
<1> USE RequestFacts DEF IInv, Typed, Place
<1>0. next < Total /\ ~(next >= Total)
  OBVIOUS
<1>1. /\ at[w] = "claim" /\ next' = k + 1
      /\ at' = [at EXCEPT ![w] = "send"]
      /\ mine' = [mine EXCEPT ![w] = k]
      /\ late' = IF token = "cancelled" THEN late \cup {w} ELSE late
      /\ UNCHANGED <<phase, token, answer>>
  BY <1>0 DEF Claim, Goto, shared
<1>2. phase = "running"
  BY <1>1 DEF InPhase
<1>3. /\ Status(k) = "waiting"
      /\ \A j \in Request : j < k => Status(j) # "waiting"
  BY DEF Status
<1>4. Wanted = "wanted" => w \notin late
  BY <1>1 DEF GoodReason, Wanted
<1>5. Status(k)' = "sent"
  <2>1. ~(k >= next') /\ at'[w] = "send" /\ mine'[w] = k
    BY <1>1
  <2>2. QED  BY <2>1 DEF Status
<1>6. ASSUME NEW i \in Request, i # k PROVE Status(i)' = Status(i)
  <2>1. CASE i > k
    BY <1>1, <2>1 DEF Status
  <2>2. CASE i < k
    <3>1. \A v \in Worker : at'[v] = "send" /\ mine'[v] = i <=>
                            at[v] = "send" /\ mine[v] = i
      BY <1>1, <1>6
    <3>2. i \in Nat /\ ~(i >= next) /\ ~(i >= next')
      BY <1>1, <2>2
    <3>3. QED  BY <3>1, <3>2 DEF Status
  <2>3. QED  BY <1>6, <2>1, <2>2
<1>7. Seen' = [Seen EXCEPT ![k] = "sent"]
  BY <1>1, <1>5, <1>6 DEF Seen
<1>8. /\ Wanted' = Wanted
      /\ late' = IF Wanted = "wanted" THEN late \cup {w} ELSE late
  BY <1>1 DEF Wanted
<1>9. Answered = "no" /\ Answered' = "no"
  BY <1>1, <1>2 DEF Answered
<1>10. QED
  BY <1>1, <1>3, <1>4, <1>7, <1>8, <1>9
     DEF Promise!Send, Promise!Request, Request, Seen, Answered

\* Past the last request a claim changes nothing.
LEMMA ClaimPastEnd ==
  ASSUME IInv, NEW w \in Worker, Claim(w), next >= Total
  PROVE  UNCHANGED Promise!vars
<1> USE RequestFacts DEF IInv, Typed, Place
<1>1. /\ next' = next + 1 /\ late' = late /\ mine' = mine
      /\ at' = [at EXCEPT ![w] = "done"] /\ at[w] = "claim"
      /\ UNCHANGED <<phase, token, answer>>
  BY DEF Claim, Goto, shared
<1>2. ASSUME NEW i \in Request PROVE Status(i)' = Status(i)
  <2>1. i \in Nat /\ ~(i >= next) /\ ~(i >= next')
    BY <1>1
  <2>2. \A v \in Worker : at'[v] = "send" <=> at[v] = "send"
    BY <1>1
  <2>3. QED  BY <1>1, <2>1, <2>2 DEF Status
<1>3. QED
  BY <1>1, <1>2 DEF Promise!vars, Wanted

\* A request is over when it returns to the worker.
LEMMA SendReturnsFinishes ==
  ASSUME IInv, NEW w \in Worker, SendReturns(w)
  PROVE  Promise!Finish(mine[w])
<1> USE RequestFacts DEF IInv, Typed, Place
<1>1. /\ at[w] = "send" /\ at' = [at EXCEPT ![w] = "deliver"]
      /\ UNCHANGED <<phase, token, next, mine, late, answer>>
  BY DEF SendReturns, Goto, shared
<1>2. mine[w] \in Request /\ mine[w] < next
  BY <1>1 DEF OnePlace, Busy
<1>3. \A v \in Worker : at[v] = "send" /\ mine[v] = mine[w] => v = w
  BY <1>1 DEF OnePlace, Busy
<1>4. Status(mine[w]) = "sent"
  BY <1>1, <1>2 DEF Status
<1>5. Status(mine[w])' = "over"
  BY <1>1, <1>2, <1>3 DEF Status
<1>6. ASSUME NEW i \in Request, i # mine[w] PROVE Status(i)' = Status(i)
  <2>1. \A v \in Worker : at'[v] = "send" /\ mine[v] = i <=>
                          at[v] = "send" /\ mine[v] = i
    BY <1>1, <1>6
  <2>2. QED  BY <1>1, <2>1 DEF Status
<1>7. Seen' = [Seen EXCEPT ![mine[w]] = "over"]
  BY <1>1, <1>2, <1>5, <1>6 DEF Seen
<1>8. QED
  BY <1>1, <1>2, <1>4, <1>7 DEF Promise!Finish, Seen, Wanted

\* When every worker is gone the requests that are over are those counted.
LEMMA CollectAnswers ==
  ASSUME IInv, Collect
  PROVE  Promise!Answer
<1> USE RequestFacts DEF IInv, Typed, Place
<1>1. /\ phase = "running" /\ phase' = "collected"
      /\ channel = {} /\ \A w \in Worker : at[w] = "done"
      /\ answer' = [counted |-> counted, cancelled |-> Wanted]
      /\ UNCHANGED <<token, next, at, mine, late>>
  BY DEF Collect, shared, pool
<1>2. \A i \in Request : i < next <=> i \in counted
  BY <1>1 DEF OnePlace, Busy
<1>3. \A i \in Request : Status(i) = IF i \in counted THEN "over" ELSE "waiting"
  BY <1>1, <1>2 DEF Status
<1>4. Promise!Over = counted
  BY <1>3 DEF Promise!Over, Promise!Request, Request
<1>5. Wanted = "wanted" \/ counted = Request
  <2>1. PICK w \in Worker : TRUE
    BY LoadAssumption
  <2>2. token = "cancelled" \/ next >= Total
    BY <1>1, <2>1 DEF GoodReason
  <2>3. next >= Total => counted = Request
    BY <1>2
  <2>4. QED  BY <2>2, <2>3 DEF Wanted
<1>6. Seen' = Seen
  BY <1>1, SameSeen
<1>7. QED
  BY <1>1, <1>3, <1>4, <1>5, <1>6
     DEF Promise!Answer, Promise!Request, Request, Seen, Wanted

\* The other steps do not show.
LEMMA HiddenSteps ==
  ASSUME IInv,
         \/ Register \/ SpawnWorkers \/ Receive \/ Return \/ TakeToken
         \/ UNCHANGED vars
         \/ \E w \in Worker : CheckToken(w) \/ Deliver(w)
  PROVE  UNCHANGED Promise!vars
<1> USE RequestFacts DEF IInv, Typed, Place, shared, pool, sums, Goto
<1>1. /\ UNCHANGED <<next, late, token, answer>>
      /\ Answered' = Answered
  BY DEF Register, SpawnWorkers, Receive, Return, TakeToken, CheckToken,
         Deliver, vars, Answered
<1>2. \A v \in Worker, i \in Request : at'[v] = "send" /\ mine'[v] = i <=>
                                      at[v] = "send" /\ mine[v] = i
  <2>1. CASE Register \/ Receive \/ Return \/ TakeToken \/ UNCHANGED vars
    BY <2>1 DEF Register, Receive, Return, TakeToken, vars
  <2>2. CASE SpawnWorkers
    BY <2>2 DEF SpawnWorkers, InPhase
  <2>3. ASSUME NEW w \in Worker, CheckToken(w) \/ Deliver(w)
        PROVE  \A v \in Worker, i \in Request :
                 at'[v] = "send" /\ mine'[v] = i <=>
                 at[v] = "send" /\ mine[v] = i
    BY <2>3 DEF CheckToken, Deliver
  <2>4. QED  BY <2>1, <2>2, <2>3
<1>3. \A i \in Request : Status(i)' = Status(i)
  BY <1>1, <1>2 DEF Status
<1>4. QED  BY <1>1, <1>3 DEF Promise!vars, Wanted, Answered

LEMMA CancelShows ==
  ASSUME IInv, CancelToken
  PROVE  Promise!Cancel
<1>1. token' = "cancelled" /\ UNCHANGED <<phase, next, at, mine, late, answer>>
  BY DEF CancelToken, pool
<1>2. Seen' = Seen
  BY <1>1, SameSeen
<1>3. QED  BY <1>1, <1>2 DEF Promise!Cancel, Seen, Wanted

\* Every step of the load test is one the promise allows.
LEMMA PromiseStep ==
  ASSUME IInv, [Next]_vars
  PROVE  [Promise!Next]_Promise!vars
<1>1. ASSUME NEW w \in Worker, Work(w) PROVE [Promise!Next]_Promise!vars
  <2>1. CASE CheckToken(w) \/ Deliver(w)
    BY <2>1, HiddenSteps
  <2>2. CASE Claim(w)
    <3>1. next \in Nat /\ Total \in Nat
      BY RequestFacts DEF IInv, Typed
    <3>2. CASE next < Total
      <4>1. next \in Request
        BY <3>1, <3>2, RequestFacts
      <4>2. Promise!Send(next, w)
        BY <2>2, <4>1, ClaimSends
      <4>3. QED
        BY <4>1, <4>2 DEF Promise!Next, Promise!Request, Request
    <3>3. CASE next >= Total
      BY <2>2, <3>3, ClaimPastEnd
    <3>4. QED  BY <3>1, <3>2, <3>3
  <2>3. CASE SendReturns(w)
    <3>1. mine[w] \in Request
      BY DEF IInv, Typed
    <3>2. QED
      BY <2>3, <3>1, SendReturnsFinishes
         DEF Promise!Next, Promise!Request, Request
  <2>4. QED  BY <1>1, <2>1, <2>2, <2>3 DEF Work
<1>2. CASE Collect
  BY <1>2, CollectAnswers DEF Promise!Next
<1>3. CASE CancelToken
  BY <1>3, CancelShows DEF Promise!Next
<1>4. CASE Register \/ SpawnWorkers \/ Receive \/ Return \/ TakeToken
           \/ UNCHANGED vars
  BY <1>4, HiddenSteps
<1>5. QED  BY <1>1, <1>2, <1>3, <1>4 DEF Next, Command, Terminated

\* A load test keeps its promise, for any number of workers and requests.
THEOREM PromiseKept == Spec => KeepsPromise
BY Invariant, PromiseInit, PromiseStep, PTL DEF Spec, Promise!Spec, KeepsPromise

-----------------------------------------------------------------------------
(* The sums *)

FiniteSums == IsFiniteSet(counted) /\ SumsAgree

\* The sums of the result are the number of samples, each counted once.
THEOREM SumsAlwaysAgree == Spec => []SumsAgree
<1>1. Init => FiniteSums
  BY FS_EmptySet DEF Init, FiniteSums, SumsAgree
<1>2. ASSUME IInv, FiniteSums, [Next]_vars PROVE FiniteSums'
  <2>1. CASE Receive
    <3>1. PICK i \in channel : counted' = counted \cup {i} /\ done' = done + 1
      BY <2>1 DEF Receive
    <3>2. i \notin counted
      BY <1>2, <3>1 DEF IInv, OnePlace
    <3>3. /\ IsFiniteSet(counted \cup {i})
          /\ Cardinality(counted \cup {i}) = Cardinality(counted) + 1
      BY <1>2, <3>2, FS_AddElement DEF FiniteSums
    <3>4. QED  BY <1>2, <3>1, <3>3 DEF FiniteSums, SumsAgree
  <2>2. CASE ~Receive
    <3>1. UNCHANGED <<counted, done>>
      BY <1>2, <2>2
         DEF Next, Command, Register, SpawnWorkers, Collect, Return, TakeToken,
             CancelToken, Terminated, Work, CheckToken, Claim, SendReturns,
             Deliver, vars, sums
    <3>2. QED  BY <1>2, <3>1 DEF FiniteSums, SumsAgree
  <2>3. QED  BY <2>1, <2>2
<1>3. FiniteSums => SumsAgree
  BY DEF FiniteSums
<1>4. QED  BY Invariant, <1>1, <1>2, <1>3, PTL DEF Spec
-----------------------------------------------------------------------------
(* What the command leaves behind *)

Gone == {w \in Worker : at[w] = "done"}

\* Each worker counts at most once past the last request.
Bounded == next <= Total + Cardinality(Gone)

\* The last progress event shows the last sample, and the token is registered
\* while the run goes on.
LastShown ==
  /\ done \in Nat /\ shown \in 0 .. done
  /\ done = Total => shown = Total
  /\ registry \in {"in", "out"} /\ (registry = "in" => phase \notin {"loading", "returned"})
  /\ answer \in [counted : SUBSET Request, cancelled : {"no", "wanted"}]
  /\ canceller \in {"idle", "holding"} /\ cancels \in 0 .. MaxCancels

LEMMA GoneFinite ==
  IsFiniteSet(Gone) /\ Cardinality(Gone) \in Nat /\ Cardinality(Gone) <= Cardinality(Worker)
  /\ Cardinality(Worker) \in Nat
<1>1. Gone \subseteq Worker
  BY DEF Gone
<1> QED
  BY <1>1, LoadAssumption, FS_Subset, FS_CardinalityType

\* A worker that leaves is one more.
LEMMA GoneGrows ==
  ASSUME Typed, NEW w \in Worker, at[w] # "done", at' = [at EXCEPT ![w] = "done"]
  PROVE  Cardinality(Gone') = Cardinality(Gone) + 1
<1>1. Gone' = Gone \cup {w} /\ w \notin Gone
  BY DEF Gone, Typed
<1> QED
  BY <1>1, GoneFinite, FS_AddElement

LEMMA GoneStays ==
  ASSUME Typed, NEW w \in Worker, at[w] # "done", NEW stage, stage # "done",
         at' = [at EXCEPT ![w] = stage]
  PROVE  Gone' = Gone
BY DEF Gone, Typed

LEMMA BoundedStep ==
  ASSUME IInv, Bounded, [Next]_vars
  PROVE  Bounded'
<1> DEFINE n == Cardinality(Gone)
<1>0. next \in Nat /\ Total \in Nat /\ n \in Nat /\ next <= Total + n /\ Typed
  BY RequestFacts, GoneFinite DEF Bounded, IInv, Typed
<1>1. ASSUME UNCHANGED <<next, at>> PROVE Bounded'
  BY <1>0, <1>1 DEF Bounded, Gone
<1>2. CASE SpawnWorkers
  <2>1. next' = next /\ Gone = {}
    BY <1>2 DEF SpawnWorkers, InPhase, IInv, Gone, pool
  <2>2. Gone' = {}
    BY <1>2 DEF SpawnWorkers, Gone
  <2> QED
    BY <1>0, <2>1, <2>2 DEF Bounded
<1>3. ASSUME NEW w \in Worker, CheckToken(w) PROVE Bounded'
  <2>1. next' = next /\ at[w] = "check"
    BY <1>3 DEF CheckToken
  <2>2. CASE at' = [at EXCEPT ![w] = "done"]
    <3>1. Cardinality(Gone') = n + 1
      BY <1>0, <2>1, <2>2, GoneGrows
    <3> QED
      BY <1>0, <2>1, <3>1 DEF Bounded
  <2>3. CASE at' = [at EXCEPT ![w] = "claim"]
    <3>1. Gone' = Gone
      BY <1>0, <2>1, <2>3, GoneStays
    <3> QED
      BY <1>0, <2>1, <3>1 DEF Bounded
  <2> QED
    BY <1>3, <2>2, <2>3 DEF CheckToken, Goto
<1>4. ASSUME NEW w \in Worker, Claim(w) PROVE Bounded'
  <2>1. next' = next + 1 /\ at[w] = "claim"
    BY <1>4 DEF Claim
  <2>2. CASE next >= Total
    <3>1. at' = [at EXCEPT ![w] = "done"]
      BY <1>4, <2>2 DEF Claim, Goto
    <3>2. Cardinality(Gone') = n + 1
      BY <1>0, <2>1, <3>1, GoneGrows
    <3> QED
      BY <1>0, <2>1, <3>2 DEF Bounded
  <2>3. CASE ~(next >= Total)
    <3>1. at' = [at EXCEPT ![w] = "send"]
      BY <1>4, <2>3 DEF Claim, Goto
    <3>2. Gone' = Gone
      BY <1>0, <2>1, <3>1, GoneStays
    <3> QED
      BY <1>0, <2>1, <2>3, <3>2 DEF Bounded
  <2> QED
    BY <2>2, <2>3
<1>5. ASSUME NEW w \in Worker, SendReturns(w) \/ Deliver(w) PROVE Bounded'
  <2>1. next' = next /\ at[w] # "done"
    BY <1>5 DEF SendReturns, Deliver
  <2>2. \E stage \in {"deliver", "check"} : at' = [at EXCEPT ![w] = stage]
    BY <1>5 DEF SendReturns, Deliver, Goto
  <2>3. Gone' = Gone
    BY <1>0, <2>1, <2>2, GoneStays
  <2> QED
    BY <1>0, <2>1, <2>3 DEF Bounded
<1> QED
  BY <1>1, <1>2, <1>3, <1>4, <1>5
     DEF Next, Command, Work, Register, Receive, Collect, Return, TakeToken,
         CancelToken, Terminated, vars, pool

LEMMA LastShownStep ==
  ASSUME Typed, Typed', LastShown, [Next]_vars
  PROVE  LastShown'
<1> USE DEF LastShown, shared, pool, sums
<1>1. CASE Register
  BY <1>1 DEF Register
<1>2. CASE SpawnWorkers
  BY <1>2 DEF SpawnWorkers
<1>3. CASE Receive
  BY <1>3, RequestFacts DEF Receive
<1>4. CASE Collect
  BY <1>4 DEF Collect, Typed, Wanted
<1>5. CASE Return
  BY <1>5 DEF Return
<1>6. CASE TakeToken
  BY <1>6, LoadAssumption DEF TakeToken
<1>7. CASE CancelToken
  BY <1>7 DEF CancelToken
<1>8. ASSUME NEW w \in Worker, Work(w) PROVE LastShown'
  BY <1>8 DEF Work, CheckToken, Claim, SendReturns, Deliver
<1>9. CASE UNCHANGED vars
  BY <1>9 DEF vars
<1> QED
  BY <1>1, <1>2, <1>3, <1>4, <1>5, <1>6, <1>7, <1>8, <1>9 DEF Next, Command, Terminated

\* As many samples as requests at most, and all of them when workers left without
\* a cancellation.
LEMMA Complete ==
  ASSUME IInv, FiniteSums, LastShown
  PROVE  /\ done <= Total
         /\ phase = "running" /\ channel = {} /\ (\A w \in Worker : at[w] = "done")
              /\ token = "live" => shown = Total
<1>1. IsFiniteSet(Request) /\ Cardinality(Request) = Total
  <2>1. 0 \in Int /\ Total - 1 \in Int /\ 0 <= Total
    BY RequestFacts
  <2>2. IsFiniteSet(0 .. Total - 1)
        /\ Cardinality(0 .. Total - 1) = IF 0 > Total - 1 THEN 0 ELSE (Total - 1) - 0 + 1
    BY <2>1, FS_Interval
  <2> QED
    BY <2>2, RequestFacts DEF Request
<1>2. counted \subseteq Request
  BY DEF IInv, Typed
<1>3. Cardinality(counted) <= Total
  BY <1>1, <1>2, FS_Subset
<1>4. ASSUME channel = {}, \A w \in Worker : at[w] = "done", token = "live"
      PROVE  shown = Total
  <2>1. PICK w \in Worker : TRUE
    BY LoadAssumption
  <2>2. next >= Total
    BY <1>4, <2>1 DEF IInv, GoodReason
  <2>3. \A i \in Request : i \in counted
    BY <1>4, <2>2, RequestFacts DEF IInv, OnePlace, Busy, Typed
  <2>4. counted = Request
    BY <1>2, <2>3
  <2> QED
    BY <1>1, <2>4 DEF FiniteSums, SumsAgree, LastShown
<1> QED
  BY <1>3, <1>4 DEF FiniteSums, SumsAgree

\* A load test counts every sample once, shows them all in its last event unless
\* it was cancelled, and leaves no token in the registry.
THEOREM ResultIsWhole == Spec => []ResultWhole
<1> DEFINE J == IInv /\ FiniteSums /\ Bounded /\ LastShown /\ ProgressComplete
<1>1. Init => J
  <2> SUFFICES ASSUME Init PROVE J
    OBVIOUS
  <2>1. IInv
    BY InvInit
  <2>2. FiniteSums
    BY FS_EmptySet DEF Init, FiniteSums, SumsAgree
  <2>3. Bounded
    BY RequestFacts, GoneFinite DEF Init, Bounded
  <2>4. LastShown /\ ProgressComplete
    BY RequestFacts, LoadAssumption DEF Init, LastShown, ProgressComplete
  <2> QED
    BY <2>1, <2>2, <2>3, <2>4
<1>2. J /\ [Next]_vars /\ IInv' /\ SumsAgree' => J'
  <2> SUFFICES ASSUME J, [Next]_vars, IInv', SumsAgree' PROVE J'
    OBVIOUS
  <2>1. FiniteSums'
    <3>1. counted' \subseteq Request
      BY DEF IInv, Typed
    <3>2. IsFiniteSet(Request)
      BY RequestFacts, FS_Interval DEF Request
    <3> QED
      BY <3>1, <3>2, FS_Subset DEF FiniteSums
  <2>2. Bounded'
    BY BoundedStep
  <2>3. LastShown'
    BY LastShownStep DEF IInv
  <2>4. ProgressComplete'
    <3>1. CASE Collect
      BY <3>1, Complete DEF Collect, ProgressComplete, sums, shared
    <3>2. CASE ~Collect
      <4>1. phase' = "collected" => phase = "collected" /\ shown' = shown
        BY <3>2
           DEF Next, Command, Register, SpawnWorkers, Receive, Return, TakeToken,
               CancelToken, Terminated, Work, CheckToken, Claim, SendReturns,
               Deliver, vars, sums
      <4>2. token' = "live" => token = "live"
        BY <3>2
           DEF Next, Command, Register, SpawnWorkers, Receive, Return, TakeToken,
               CancelToken, Terminated, Work, CheckToken, Claim, SendReturns,
               Deliver, vars, shared
      <4> QED
        BY <4>1, <4>2 DEF ProgressComplete
    <3> QED
      BY <3>1, <3>2
  <2> QED
    BY <2>1, <2>2, <2>3, <2>4
<1>3. J => ResultWhole
  <2> SUFFICES ASSUME J PROVE ResultWhole
    OBVIOUS
  <2>1. next \in 0 .. Total + Cardinality(Worker)
    BY RequestFacts, GoneFinite DEF Bounded, IInv, Typed
  <2>2. done \in 0 .. Total /\ shown \in 0 .. done
    BY Complete, RequestFacts DEF LastShown
  <2>3. TypeOK
    BY <2>1, <2>2 DEF TypeOK, IInv, Typed, Place, LastShown
  <2>4. RegistryCleared
    BY DEF RegistryCleared, LastShown
  <2> QED
    BY <2>3, <2>4 DEF ResultWhole, FiniteSums
<1> QED
  BY <1>1, <1>2, <1>3, Invariant, SumsAlwaysAgree, PTL DEF Spec

-----------------------------------------------------------------------------
(* The variables of a collection: what each case leaves to the next one *)

LEMMA CA == Cases \in Nat \ {0} /\ IsFiniteSet(Worker)
  BY CasesAssumption, LoadAssumption

\* The instance names the operator anew.
LEMMA SameCardinality == \A S : C!Cardinality(S) = Cardinality(S)
  BY DEF C!Cardinality, Cardinality

(***************************************************************************)
(* A set of numbers that is not empty has a least one; an induction over    *)
(* data is here a look at the least counterexample.                         *)
(***************************************************************************)
LEMMA LeastElement ==
  ASSUME NEW T \in SUBSET Nat, T # {} PROVE \E m \in T : \A n \in T : m <= n
<1> DEFINE R == {ss \in Nat \X Nat : ss[1] < ss[2]}
<1>1. IsWellFoundedOn(R, Nat)
  BY NatLessThanWellFounded DEF OpToRel
<1>2. PICK x \in T : \A y \in T : ~ (<<y, x>> \in R)
  <2> HIDE DEF R
  <2> QED  BY <1>1, WFMin
<1>3. ASSUME NEW y \in T PROVE x <= y
  <2>1. <<y, x>> \notin R
    BY <1>2
  <2> QED  BY <2>1
<1> QED  BY <1>3

\* What case n makes of the variable, if g tells what the cases before it left.
Leaves(g, p, o, n) ==
  IF n = 0 THEN <<>>
  ELSE IF p[n] \in {"sets", "both"} /\ o[n] = "judged" THEN <<n>>
  ELSE IF p[n] \in {"adds", "both"} THEN Append(g[n - 1], n)
  ELSE g[n - 1]
Chain(g, k, p, o) == g = [n \in 0 .. k |-> Leaves(g, p, o, n)]

LEMMA ChainAt ==
  ASSUME NEW g, NEW k, NEW p, NEW o, NEW n \in 0 .. k, Chain(g, k, p, o)
  PROVE  g[n] = Leaves(g, p, o, n)
<1> DEFINE F(x) == Leaves(g, p, o, x)
<1>1. g = [x \in 0 .. k |-> F(x)]
  BY DEF Chain
<1> HIDE DEF F
<1>2. g[n] = F(n)
  BY <1>1
<1> QED  BY <1>2 DEF F

LEMMA ChainsExist ==
  ASSUME NEW p, NEW o PROVE \E g : Chain(g, Cases, p, o)
<1> DEFINE T == {k \in 0 .. Cases : ~ \E g : Chain(g, k, p, o)}
<1> SUFFICES ASSUME T # {} PROVE FALSE
  BY CA
<1>1. PICK m \in T : \A n \in T : m <= n
  <2>1. T \in SUBSET Nat
    OBVIOUS
  <2> QED  BY <2>1, LeastElement
<1>2. CASE m = 0
  <2>1. Chain([n \in 0 .. 0 |-> <<>>], 0, p, o)
    BY DEF Chain, Leaves
  <2> QED  BY <1>2, <2>1
<1>3. CASE m # 0
  <2>1. m \in Nat /\ m - 1 \in 0 .. Cases /\ ~(m <= m - 1)
    BY CA, <1>3
  <2>2. m - 1 \notin T
    BY <1>1, <2>1
  <2>3. PICK f : Chain(f, m - 1, p, o)
    BY <2>1, <2>2
  <2> DEFINE g == [n \in 0 .. m |-> IF n = m THEN Leaves(f, p, o, m) ELSE f[n]]
  <2>4. ASSUME NEW n \in 0 .. m PROVE g[n] = Leaves(g, p, o, n)
    <3>1. n # 0 => g[n - 1] = f[n - 1]
      BY <2>1
    <3>2. Leaves(g, p, o, n) = Leaves(f, p, o, n)
      BY <3>1 DEF Leaves
    <3>3. n # m => f[n] = Leaves(f, p, o, n)
      <4> SUFFICES ASSUME n # m PROVE f[n] = Leaves(f, p, o, n)
        OBVIOUS
      <4>1. n \in 0 .. m - 1
        BY <2>1
      <4> QED  BY <2>3, <4>1, ChainAt
    <3> QED  BY <3>2, <3>3
  <2>5. Chain(g, m, p, o)
    <3>1. g = [n \in 0 .. m |-> g[n]]
      OBVIOUS
    <3> HIDE DEF g
    <3> QED  BY <3>1, <2>4 DEF Chain
  <2> HIDE DEF g
  <2> QED  BY <2>5
<1> QED  BY <1>2, <1>3

LEMMA ChainsAgree ==
  ASSUME NEW p, NEW o, NEW q, NEW g, NEW h, NEW k \in 0 .. Cases,
         Chain(g, Cases, p, o), Chain(h, Cases, p, q), \A i \in 1 .. k : o[i] = q[i]
  PROVE  \A i \in 0 .. k : g[i] = h[i]
<1> DEFINE T == {i \in 0 .. k : g[i] # h[i]}
<1> SUFFICES ASSUME T # {} PROVE FALSE
  OBVIOUS
<1>1. PICK m \in T : \A n \in T : m <= n
  <2>1. T \in SUBSET Nat
    OBVIOUS
  <2> QED  BY <2>1, LeastElement
<1>2. m \in 0 .. Cases /\ g[m] = Leaves(g, p, o, m) /\ h[m] = Leaves(h, p, q, m)
  <2>1. m \in 0 .. Cases
    BY CA
  <2> QED  BY <2>1, ChainAt
<1>3. CASE m = 0
  BY <1>2, <1>3 DEF Leaves
<1>4. CASE m # 0
  <2>1. m \in 1 .. k /\ m - 1 \in 0 .. k /\ ~(m <= m - 1)
    BY <1>4
  <2>2. m - 1 \notin T
    BY <1>1, <2>1
  <2>3. g[m - 1] = h[m - 1] /\ o[m] = q[m]
    BY <2>1, <2>2
  <2> QED  BY <1>2, <1>4, <2>3 DEF Leaves
<1> QED  BY <1>3, <1>4

LEMMA LeftIsChain == Chain(C!Left, Cases, plan, outcome) /\ Chain(C!Left, Cases, plan, outcome)'
<1>1. ASSUME NEW f, Chain(f, Cases, plan, outcome) PROVE Chain(C!Left, Cases, plan, outcome)
  BY <1>1, Zenon DEF C!Left, Leaves, Chain
<1>2. ASSUME NEW f, Chain(f, Cases, plan', outcome') PROVE Chain(C!Left, Cases, plan, outcome)'
  BY <1>2, Zenon DEF C!Left, Leaves, Chain
<1>3. \E f : Chain(f, Cases, plan, outcome)
  BY ChainsExist
<1>4. \E f : Chain(f, Cases, plan', outcome')
  BY ChainsExist
<1> QED  BY <1>1, <1>2, <1>3, <1>4

-----------------------------------------------------------------------------
(* The invariant of a collection *)

Runs(w) == place[w] \in {"begin", "inject", "send", "judge", "extract", "post"}
GoneCases == {w \in crew : place[w] \in {"drop", "silent", "over"}}
Spent == {w \in crew : place[w] # "claim"}

\* Who is where, and how far the counter has come.
Counted ==
  /\ crew # {} /\ counter <= Cases + Cardinality(GoneCases)
  /\ \A w \in Worker : place[w] # "hold" /\ (w \notin crew => place[w] = "over")
  /\ \A w \in Worker : Runs(w) => claimed[w] <= counter
  /\ \A v, w \in Worker : Runs(v) /\ Runs(w) /\ claimed[v] = claimed[w] => v = w

\* A case is sent by the worker that has it, and by nobody before.
Unsent ==
  \A c \in C!Case :
    /\ sends[c] <= 1
    /\ counter < c => sends[c] = 0
    /\ \A w \in Worker : place[w] \in {"begin", "inject", "send"} /\ claimed[w] = c => sends[c] = 0

\* A claim after the cancellation is the last thing a worker does with the counter.
Late == tardy <= Cardinality(Spent) /\ (halt = "live" => tardy = 0)

\* Each case that was claimed is with a worker, on its way or received.
On(c) == \E i \in 1 .. Len(sent) : sent[i] = c
Kept ==
  /\ \A c \in C!Case : c <= counter =>
       c \in results \/ On(c) \/ \E w \in Worker : Runs(w) /\ claimed[w] = c
  /\ \A c \in C!Case : outcome[c] # "none" <=>
       c \in results \/ On(c) \/ \E w \in Worker : place[w] \in {"extract", "post"} /\ claimed[w] = c
  /\ halt = "live" => \A w \in crew : w \in GoneCases => counter >= Cases

Ended ==
  command = "returned" =>
    /\ sent = <<>> /\ \A w \in crew : place[w] = "over"
    /\ handed = runtime /\ (results = C!Case \/ flag = "yes")

\* What a place says of the tests of the case.
Planned ==
  \A w \in Worker :
    /\ place[w] = "inject" => C!Plan(w) \in {"adds", "both"}
    /\ place[w] \in {"send", "judge", "extract"} => C!Plan(w) \notin {"broken", "none"}
    /\ place[w] = "extract" => C!Plan(w) \in {"sets", "both"} /\ outcome[claimed[w]] = "judged"

\* The variable as the assertions of case c read it.
Mid(c) == IF plan[c] \in {"adds", "both"} THEN Append(C!Left[c - 1], c) ELSE C!Left[c - 1]
Done == IF counter < Cases THEN counter ELSE Cases

\* The variable of a worker that is alone.
Alone(w) ==
  /\ ~ Runs(w) => runtime = C!Left[Done]
  /\ Runs(w) => counter = claimed[w]
  /\ place[w] \in {"begin", "inject"} => runtime = C!Left[counter - 1]
  /\ place[w] = "inject" => snapshot[w] = runtime
  /\ place[w] \in {"send", "judge", "extract"} => runtime = Mid(counter)
  /\ place[w] = "post" => runtime = C!Left[counter]
  /\ \A c \in C!Case : counter < c => judged[c] = C!None
  /\ \A c \in C!Case : judged[c] # C!None => judged[c] = Mid(c)
Serial == \A w \in Worker : crew = {w} => Alone(w)

CasesInv == C!TypeOK /\ Counted /\ Unsent /\ Late /\ Kept /\ Ended /\ Planned /\ Serial

LEMMA CardOK ==
  ASSUME C!TypeOK
  PROVE  /\ IsFiniteSet(crew) /\ Cardinality(crew) \in Nat
         /\ IsFiniteSet(GoneCases) /\ Cardinality(GoneCases) \in Nat /\ Cardinality(GoneCases) <= Cardinality(crew)
         /\ IsFiniteSet(Spent) /\ Cardinality(Spent) \in Nat /\ Cardinality(Spent) <= Cardinality(crew)
<1>1. IsFiniteSet(crew)
  BY CA, FS_Subset DEF C!TypeOK
<1>2. GoneCases \subseteq crew /\ Spent \subseteq crew
  BY DEF GoneCases, Spent
<1> QED  BY <1>1, <1>2, FS_Subset, FS_CardinalityType

\* A set that gains one, or gains some, or stays.
LEMMA Grows ==
  ASSUME NEW S, NEW R, NEW w, IsFiniteSet(R), S \subseteq R
  PROVE  /\ Cardinality(S) \in Nat /\ Cardinality(R) \in Nat /\ Cardinality(S) <= Cardinality(R)
         /\ w \in R /\ w \notin S => Cardinality(S) + 1 <= Cardinality(R)
<1>1. /\ Cardinality(S) \in Nat /\ Cardinality(R) \in Nat /\ Cardinality(S) <= Cardinality(R)
      /\ IsFiniteSet(S)
  BY FS_Subset, FS_CardinalityType
<1>2. ASSUME w \in R, w \notin S PROVE Cardinality(S) + 1 <= Cardinality(R)
  <2>1. S \cup {w} \subseteq R
    BY <1>2
  <2>2. Cardinality(S \cup {w}) = Cardinality(S) + 1
    BY <1>1, <1>2, FS_AddElement
  <2>3. Cardinality(S \cup {w}) <= Cardinality(R)
    BY <2>1, FS_Subset
  <2> QED  BY <2>2, <2>3
<1> QED  BY <1>1, <1>2

LEMMA TypeInit == C!Init => C!TypeOK
<1> SUFFICES ASSUME C!Init PROVE C!TypeOK
  OBVIOUS
<1>1. 1 \in C!Case /\ 0 \in 0 .. Cases
  BY CA DEF C!Case
<1>2. C!None \in C!Value /\ <<>> \in C!Value
  BY <1>1 DEF C!None, C!Value
<1>3. IsFiniteSet(crew) /\ Cardinality(crew) \in Nat
  BY CA, FS_Subset, FS_CardinalityType DEF C!Init
<1>4. counter \in 0 .. Cases + Cardinality(crew) /\ Len(sent) <= 2 * Cardinality(crew)
  BY CA, <1>3 DEF C!Init
<1>5. sent \in Seq(C!Case) /\ results \subseteq C!Case
  BY DEF C!Init
<1> QED  BY SameCardinality, <1>1, <1>2, <1>4, <1>5 DEF C!Init, C!TypeOK, C!Kind, C!Result

LEMMA TypeStep == ASSUME C!TypeOK, Counted, NEW w \in Worker, C!Step(w) PROVE C!TypeOK'
<1> USE DEF C!TypeOK, C!Goto
<1>0. C!Plan(w) \in C!Kind /\ claimed[w] \in C!Case /\ claimed[w] \in 0 .. Cases
  BY CA DEF C!Plan, C!Case
<1>Check. CASE C!Check(w)
  BY <1>0, <1>Check DEF C!Check, C!Plan, C!Kind, C!Result, C!Ends, C!told, C!end
<1>Claim. CASE C!Claim(w)
  <2>1. counter \in Nat /\ Cases \in Nat /\ Cardinality(crew) \in Nat
    BY CA, CardOK
  <2>2. counter' \in 0 .. Cases + Cardinality(crew)
    <3>1. w \in crew /\ w \notin GoneCases
      BY <1>Claim DEF C!Claim, GoneCases, Counted
    <3>2. Cardinality(GoneCases) + 1 <= Cardinality(crew) /\ Cardinality(GoneCases) \in Nat
      BY <3>1, CardOK, Grows DEF GoneCases
    <3> QED  BY <2>1, <3>2, <1>Claim, CA DEF C!Claim, Counted
  <2>3. tardy' \in Nat
    BY <1>Claim DEF C!Claim
  <2>4. claimed' \in [Worker -> C!Case]
    BY <1>Claim, <2>1, CA DEF C!Claim, C!Case
  <2> QED  BY SameCardinality, <1>Claim, <2>2, <2>3, <2>4 DEF C!Claim, C!told, C!end
<1>Skip. CASE C!Skip(w)
  BY <1>0, <1>Skip DEF C!Skip, C!Plan, C!Kind, C!Result, C!Ends, C!told, C!end
<1>Read. CASE C!Read(w)
  BY <1>0, <1>Read DEF C!Read, C!Plan, C!Kind, C!Result, C!Ends, C!told, C!end
<1>Inject. CASE C!Inject(w)
  <2>1. runtime' \in C!Value
    BY <1>0, <1>Inject DEF C!Inject, C!Value
  <2> QED  BY <2>1, <1>Inject DEF C!Inject, C!told, C!end
<1>Send. CASE C!Send(w)
  <2>1. sends' \in [C!Case -> Nat]
    BY <1>0, <1>Send DEF C!Send
  <2>2. place' \in [Worker -> {"check", "claim", "begin", "inject", "send", "judge",
                        "extract", "post", "drop", "silent", "hold", "over"}]
    BY <1>Send DEF C!Send
  <2>3. outcome' \in [C!Case -> C!Result \cup {"none"}]
    BY <1>0, <1>Send DEF C!Send, C!Ends, C!Result
  <2> QED  BY <2>1, <2>2, <2>3, <1>Send DEF C!Send, C!told, C!end
<1>Judge. CASE C!Judge(w)
  BY <1>0, <1>Judge DEF C!Judge, C!Plan, C!Kind, C!Result, C!Ends, C!told, C!end
<1>Extract. CASE C!Extract(w)
  <2>1. runtime' \in C!Value
    BY <1>0, <1>Extract DEF C!Extract, C!Value
  <2> QED  BY <2>1, <1>Extract DEF C!Extract, C!told, C!end
<1>Post. CASE C!Post(w)
  <2>1. sent' \in Seq(C!Case) /\ Len(sent') = Len(sent) + 1
    BY <1>0, <1>Post DEF C!Post
  <2>2. Len(sent') <= 2 * Cardinality(crew)
    BY SameCardinality, <1>Post, <2>1, CardOK DEF C!Post
  <2>3. C!None \in C!Value
    BY CA DEF C!None, C!Value
  <2> QED  BY SameCardinality, <2>1, <2>2, <2>3, <1>Post DEF C!Post, C!end
<1>Drop. CASE C!Drop(w)
  BY <1>0, <1>Drop DEF C!Drop, C!Plan, C!Kind, C!Result, C!Ends, C!told, C!end
<1>DropLast. CASE C!DropLast(w)
  BY <1>0, <1>DropLast DEF C!DropLast, C!Plan, C!Kind, C!Result, C!Ends, C!told, C!end
<1> QED
  BY <1>Check, <1>Claim, <1>Skip, <1>Read, <1>Inject, <1>Send, <1>Judge, <1>Extract, <1>Post,
       <1>Drop, <1>DropLast DEF C!Step

LEMMA CountedStep == ASSUME C!TypeOK, Counted, NEW w \in Worker, C!Step(w) PROVE Counted'
<1> USE DEF C!TypeOK, C!Goto
<1>0. crew \in SUBSET Worker /\ IsFiniteSet(crew) /\ IsFiniteSet(GoneCases) /\ Cardinality(GoneCases) \in Nat
  BY CardOK
<1>1. counter \in Nat /\ Cases \in Nat
  BY CA, CardOK
<1>2. place \in [Worker -> {"check", "claim", "begin", "inject", "send", "judge",
                        "extract", "post", "drop", "silent", "hold", "over"}]
  OBVIOUS
<1>3. claimed \in [Worker -> C!Case]
  OBVIOUS
<1>4. IsFiniteSet(GoneCases') /\ (w \in GoneCases \/ w \notin GoneCases)
  BY CardOK, FS_Subset DEF GoneCases, C!Step, C!Check, C!Claim, C!Skip, C!Read, C!Inject, C!Send,
       C!Judge, C!Extract, C!Post, C!Drop, C!DropLast
<1> HIDE DEF C!TypeOK, GoneCases, Runs
<1>Check. CASE C!Check(w)
  <2>1. crew' = crew /\ counter' = counter /\ GoneCases \subseteq GoneCases'
    BY <1>0, <1>2, <1>Check DEF C!Check, GoneCases
  <2>2. Cardinality(GoneCases) <= Cardinality(GoneCases') /\ Cardinality(GoneCases') \in Nat
    BY <2>1, <1>4, Grows
  <2>3. counter' <= Cases + Cardinality(GoneCases')
    BY <2>1, <2>2, <1>0, <1>1 DEF Counted
  <2>4. \A v \in Worker : place'[v] # "hold" /\ (v \notin crew => place'[v] = "over")
    BY <1>0, <1>2, <1>Check DEF C!Check, Counted
  <2>5. claimed' = claimed /\ \A v \in Worker : Runs(v)' => Runs(v)
    BY <1>2, <1>Check DEF C!Check, Runs
  <2> QED  BY <2>1, <2>3, <2>4, <2>5 DEF Counted
<1>Claim. CASE C!Claim(w)
  <2>1. crew' = crew /\ counter' = counter + 1 /\ GoneCases \subseteq GoneCases' /\ w \in crew /\ w \notin GoneCases
    BY <1>0, <1>2, <1>Claim DEF C!Claim, GoneCases, Counted
  <2>2. Cardinality(GoneCases) <= Cardinality(GoneCases') /\ Cardinality(GoneCases') \in Nat
    BY <2>1, <1>4, Grows
  <2>3. counter' <= Cases + Cardinality(GoneCases')
    <3>1. CASE counter < Cases
      BY <2>1, <2>2, <1>1, <3>1
    <3>2. CASE ~ (counter < Cases)
      <4>1. w \in GoneCases'
        BY <2>1, <3>2, <1>2, <1>Claim DEF C!Claim, GoneCases
      <4>2. Cardinality(GoneCases) + 1 <= Cardinality(GoneCases')
        BY <4>1, <2>1, <1>4, Grows
      <4> QED  BY <4>2, <2>1, <2>2, <1>0, <1>1 DEF Counted
    <3> QED  BY <3>1, <3>2
  <2>4. \A v \in Worker : place'[v] # "hold" /\ (v \notin crew => place'[v] = "over")
    BY <1>0, <1>2, <2>1, <1>Claim DEF C!Claim, Counted
  <2>5. \A v \in Worker : v # w => claimed'[v] = claimed[v] /\ (Runs(v)' => Runs(v))
    BY <1>2, <1>3, <1>Claim DEF C!Claim, Runs
  <2>6. Runs(w)' => claimed'[w] = counter + 1
    BY <1>2, <1>3, <1>Claim DEF C!Claim, Runs
  <2>7. \A v \in Worker : v # w => claimed'[v] = claimed[v] /\ (Runs(v)' => claimed'[v] <= counter /\ claimed[v] \in Nat)
    BY <2>5, <1>3 DEF Counted, C!Case
  <2>8. \A v \in Worker : v # w => (Runs(v)' => claimed'[v] <= counter' /\ claimed'[v] # counter + 1)
    BY <2>1, <2>7, <1>1
  <2>9. \A v \in Worker : Runs(v)' => claimed'[v] <= counter'
    BY <2>1, <2>6, <2>8, <1>1
  <2>10. \A u, v \in Worker : Runs(u)' /\ Runs(v)' /\ claimed'[u] = claimed'[v] => u = v
    BY <2>5, <2>6, <2>8 DEF Counted
  <2> QED  BY <2>1, <2>3, <2>4, <2>9, <2>10 DEF Counted
<1>Skip. CASE C!Skip(w)
  <2>1. crew' = crew /\ counter' = counter /\ GoneCases \subseteq GoneCases'
    BY <1>0, <1>2, <1>Skip DEF C!Skip, GoneCases
  <2>2. Cardinality(GoneCases) <= Cardinality(GoneCases') /\ Cardinality(GoneCases') \in Nat
    BY <2>1, <1>4, Grows
  <2>3. counter' <= Cases + Cardinality(GoneCases')
    BY <2>1, <2>2, <1>0, <1>1 DEF Counted
  <2>4. \A v \in Worker : place'[v] # "hold" /\ (v \notin crew => place'[v] = "over")
    BY <1>0, <1>2, <1>Skip DEF C!Skip, Counted
  <2>5. claimed' = claimed /\ \A v \in Worker : Runs(v)' => Runs(v)
    BY <1>2, <1>Skip DEF C!Skip, Runs
  <2> QED  BY <2>1, <2>3, <2>4, <2>5 DEF Counted
<1>Read. CASE C!Read(w)
  <2>1. crew' = crew /\ counter' = counter /\ GoneCases \subseteq GoneCases'
    BY <1>0, <1>2, <1>Read DEF C!Read, GoneCases
  <2>2. Cardinality(GoneCases) <= Cardinality(GoneCases') /\ Cardinality(GoneCases') \in Nat
    BY <2>1, <1>4, Grows
  <2>3. counter' <= Cases + Cardinality(GoneCases')
    BY <2>1, <2>2, <1>0, <1>1 DEF Counted
  <2>4. \A v \in Worker : place'[v] # "hold" /\ (v \notin crew => place'[v] = "over")
    BY <1>0, <1>2, <1>Read DEF C!Read, Counted
  <2>5. claimed' = claimed /\ \A v \in Worker : Runs(v)' => Runs(v)
    BY <1>2, <1>Read DEF C!Read, Runs
  <2> QED  BY <2>1, <2>3, <2>4, <2>5 DEF Counted
<1>Inject. CASE C!Inject(w)
  <2>1. crew' = crew /\ counter' = counter /\ GoneCases \subseteq GoneCases'
    BY <1>0, <1>2, <1>Inject DEF C!Inject, GoneCases
  <2>2. Cardinality(GoneCases) <= Cardinality(GoneCases') /\ Cardinality(GoneCases') \in Nat
    BY <2>1, <1>4, Grows
  <2>3. counter' <= Cases + Cardinality(GoneCases')
    BY <2>1, <2>2, <1>0, <1>1 DEF Counted
  <2>4. \A v \in Worker : place'[v] # "hold" /\ (v \notin crew => place'[v] = "over")
    BY <1>0, <1>2, <1>Inject DEF C!Inject, Counted
  <2>5. claimed' = claimed /\ \A v \in Worker : Runs(v)' => Runs(v)
    BY <1>2, <1>Inject DEF C!Inject, Runs
  <2> QED  BY <2>1, <2>3, <2>4, <2>5 DEF Counted
<1>Send. CASE C!Send(w)
  <2>1. crew' = crew /\ counter' = counter /\ GoneCases \subseteq GoneCases'
    BY <1>0, <1>2, <1>Send DEF C!Send, GoneCases
  <2>2. Cardinality(GoneCases) <= Cardinality(GoneCases') /\ Cardinality(GoneCases') \in Nat
    BY <2>1, <1>4, Grows
  <2>3. counter' <= Cases + Cardinality(GoneCases')
    BY <2>1, <2>2, <1>0, <1>1 DEF Counted
  <2>4. \A v \in Worker : place'[v] # "hold" /\ (v \notin crew => place'[v] = "over")
    BY <1>0, <1>2, <1>Send DEF C!Send, Counted
  <2>5. claimed' = claimed /\ \A v \in Worker : Runs(v)' => Runs(v)
    BY <1>2, <1>Send DEF C!Send, Runs
  <2> QED  BY <2>1, <2>3, <2>4, <2>5 DEF Counted
<1>Judge. CASE C!Judge(w)
  <2>1. crew' = crew /\ counter' = counter /\ GoneCases \subseteq GoneCases'
    BY <1>0, <1>2, <1>Judge DEF C!Judge, GoneCases
  <2>2. Cardinality(GoneCases) <= Cardinality(GoneCases') /\ Cardinality(GoneCases') \in Nat
    BY <2>1, <1>4, Grows
  <2>3. counter' <= Cases + Cardinality(GoneCases')
    BY <2>1, <2>2, <1>0, <1>1 DEF Counted
  <2>4. \A v \in Worker : place'[v] # "hold" /\ (v \notin crew => place'[v] = "over")
    BY <1>0, <1>2, <1>Judge DEF C!Judge, Counted
  <2>5. claimed' = claimed /\ \A v \in Worker : Runs(v)' => Runs(v)
    BY <1>2, <1>Judge DEF C!Judge, Runs
  <2> QED  BY <2>1, <2>3, <2>4, <2>5 DEF Counted
<1>Extract. CASE C!Extract(w)
  <2>1. crew' = crew /\ counter' = counter /\ GoneCases \subseteq GoneCases'
    BY <1>0, <1>2, <1>Extract DEF C!Extract, GoneCases
  <2>2. Cardinality(GoneCases) <= Cardinality(GoneCases') /\ Cardinality(GoneCases') \in Nat
    BY <2>1, <1>4, Grows
  <2>3. counter' <= Cases + Cardinality(GoneCases')
    BY <2>1, <2>2, <1>0, <1>1 DEF Counted
  <2>4. \A v \in Worker : place'[v] # "hold" /\ (v \notin crew => place'[v] = "over")
    BY <1>0, <1>2, <1>Extract DEF C!Extract, Counted
  <2>5. claimed' = claimed /\ \A v \in Worker : Runs(v)' => Runs(v)
    BY <1>2, <1>Extract DEF C!Extract, Runs
  <2> QED  BY <2>1, <2>3, <2>4, <2>5 DEF Counted
<1>Post. CASE C!Post(w)
  <2>1. crew' = crew /\ counter' = counter /\ GoneCases \subseteq GoneCases'
    BY <1>0, <1>2, <1>Post DEF C!Post, GoneCases
  <2>2. Cardinality(GoneCases) <= Cardinality(GoneCases') /\ Cardinality(GoneCases') \in Nat
    BY <2>1, <1>4, Grows
  <2>3. counter' <= Cases + Cardinality(GoneCases')
    BY <2>1, <2>2, <1>0, <1>1 DEF Counted
  <2>4. \A v \in Worker : place'[v] # "hold" /\ (v \notin crew => place'[v] = "over")
    BY <1>0, <1>2, <1>Post DEF C!Post, Counted
  <2>5. claimed' = claimed /\ \A v \in Worker : Runs(v)' => Runs(v)
    BY <1>2, <1>Post DEF C!Post, Runs
  <2> QED  BY <2>1, <2>3, <2>4, <2>5 DEF Counted
<1>Drop. CASE C!Drop(w)
  <2>1. crew' = crew /\ counter' = counter /\ GoneCases \subseteq GoneCases'
    BY <1>0, <1>2, <1>Drop DEF C!Drop, GoneCases
  <2>2. Cardinality(GoneCases) <= Cardinality(GoneCases') /\ Cardinality(GoneCases') \in Nat
    BY <2>1, <1>4, Grows
  <2>3. counter' <= Cases + Cardinality(GoneCases')
    BY <2>1, <2>2, <1>0, <1>1 DEF Counted
  <2>4. \A v \in Worker : place'[v] # "hold" /\ (v \notin crew => place'[v] = "over")
    BY <1>0, <1>2, <1>Drop DEF C!Drop, Counted
  <2>5. claimed' = claimed /\ \A v \in Worker : Runs(v)' => Runs(v)
    BY <1>2, <1>Drop DEF C!Drop, Runs
  <2> QED  BY <2>1, <2>3, <2>4, <2>5 DEF Counted
<1>DropLast. CASE C!DropLast(w)
  <2>1. crew' = crew /\ counter' = counter /\ GoneCases \subseteq GoneCases'
    BY <1>0, <1>2, <1>DropLast DEF C!DropLast, GoneCases
  <2>2. Cardinality(GoneCases) <= Cardinality(GoneCases') /\ Cardinality(GoneCases') \in Nat
    BY <2>1, <1>4, Grows
  <2>3. counter' <= Cases + Cardinality(GoneCases')
    BY <2>1, <2>2, <1>0, <1>1 DEF Counted
  <2>4. \A v \in Worker : place'[v] # "hold" /\ (v \notin crew => place'[v] = "over")
    BY <1>0, <1>2, <1>DropLast DEF C!DropLast, Counted
  <2>5. claimed' = claimed /\ \A v \in Worker : Runs(v)' => Runs(v)
    BY <1>2, <1>DropLast DEF C!DropLast, Runs
  <2> QED  BY <2>1, <2>3, <2>4, <2>5 DEF Counted
<1> QED
  BY <1>Check, <1>Claim, <1>Skip, <1>Read, <1>Inject, <1>Send, <1>Judge, <1>Extract, <1>Post,
       <1>Drop, <1>DropLast DEF C!Step

LEMMA UnsentStep == ASSUME C!TypeOK, Counted, Unsent, NEW w \in Worker, C!Step(w) PROVE Unsent'
<1> USE DEF C!Goto
<1>1. counter \in Nat
  BY CA, CardOK DEF C!TypeOK
<1>2. place \in [Worker -> {"check", "claim", "begin", "inject", "send", "judge",
                        "extract", "post", "drop", "silent", "hold", "over"}]
  BY DEF C!TypeOK
<1>3. claimed \in [Worker -> C!Case] /\ claimed[w] \in C!Case
  BY DEF C!TypeOK
<1>4. sends \in [C!Case -> Nat]
  BY DEF C!TypeOK
<1>Check. CASE C!Check(w)
  <2>1. sends' = sends /\ counter' = counter /\ claimed' = claimed
    BY <1>Check DEF C!Check
  <2>2. \A v \in Worker : place'[v] \in {"begin", "inject", "send"} => place[v] \in {"begin", "inject", "send"}
    BY <1>2, <1>Check DEF C!Check
  <2> QED  BY <2>1, <2>2 DEF Unsent
<1>Claim. CASE C!Claim(w)
  <2>1. sends' = sends /\ counter' = counter + 1
    BY <1>Claim DEF C!Claim
  <2>2. \A v \in Worker : v # w => claimed'[v] = claimed[v] /\ place'[v] = place[v]
    BY <1>2, <1>3, <1>Claim DEF C!Claim
  <2>3. place'[w] \in {"begin", "inject", "send"} => claimed'[w] = counter + 1
    BY <1>2, <1>3, <1>Claim DEF C!Claim
  <2>4. counter < counter + 1 /\ \A c \in C!Case : counter' < c => counter < c
    BY <2>1, <1>1 DEF C!Case
  <2>5. \A c \in C!Case : \A v \in Worker : place'[v] \in {"begin", "inject", "send"} /\ claimed'[v] = c => sends[c] = 0
    BY <2>2, <2>3, <2>4 DEF Unsent
  <2> QED  BY <2>1, <2>4, <2>5 DEF Unsent
<1>Skip. CASE C!Skip(w)
  <2>1. sends' = sends /\ counter' = counter /\ claimed' = claimed
    BY <1>Skip DEF C!Skip
  <2>2. \A v \in Worker : place'[v] \in {"begin", "inject", "send"} => place[v] \in {"begin", "inject", "send"}
    BY <1>2, <1>Skip DEF C!Skip
  <2> QED  BY <2>1, <2>2 DEF Unsent
<1>Read. CASE C!Read(w)
  <2>1. sends' = sends /\ counter' = counter /\ claimed' = claimed
    BY <1>Read DEF C!Read
  <2>2. \A v \in Worker : place'[v] \in {"begin", "inject", "send"} => place[v] \in {"begin", "inject", "send"}
    BY <1>2, <1>Read DEF C!Read
  <2> QED  BY <2>1, <2>2 DEF Unsent
<1>Inject. CASE C!Inject(w)
  <2>1. sends' = sends /\ counter' = counter /\ claimed' = claimed
    BY <1>Inject DEF C!Inject
  <2>2. \A v \in Worker : place'[v] \in {"begin", "inject", "send"} => place[v] \in {"begin", "inject", "send"}
    BY <1>2, <1>Inject DEF C!Inject
  <2> QED  BY <2>1, <2>2 DEF Unsent
<1>Send. CASE C!Send(w)
  <2>1. counter' = counter /\ claimed' = claimed /\ place[w] = "send" /\ place'[w] \in {"judge", "post"}
    BY <1>2, <1>Send DEF C!Send
  <2>2. \A v \in Worker : v # w => place'[v] = place[v]
    BY <1>2, <1>Send DEF C!Send
  <2>3. \A c \in C!Case : c # claimed[w] => sends'[c] = sends[c]
    BY <1>4, <1>Send DEF C!Send
  <2>4. sends[claimed[w]] = 0 /\ sends'[claimed[w]] = sends[claimed[w]] + 1
    BY <2>1, <1>3, <1>4, <1>Send DEF C!Send, Unsent
  <2>5. sends'[claimed[w]] = 1
    BY <2>4
  <2>6. \A c \in C!Case : sends'[c] <= 1
    BY <2>3, <2>5 DEF Unsent
  <2>7. Runs(w) /\ claimed[w] <= counter
    BY <2>1 DEF Counted, Runs
  <2>8. \A c \in C!Case : counter < c => c # claimed[w]
    BY <2>7, <1>1, <1>3 DEF C!Case
  <2>9. \A v \in Worker : place'[v] \in {"begin", "inject", "send"} => v # w /\ claimed[v] # claimed[w]
    BY <2>1, <2>2, <2>7 DEF Counted, Runs
  <2> QED  BY <2>1, <2>2, <2>3, <2>6, <2>8, <2>9, <1>3 DEF Unsent
<1>Judge. CASE C!Judge(w)
  <2>1. sends' = sends /\ counter' = counter /\ claimed' = claimed
    BY <1>Judge DEF C!Judge
  <2>2. \A v \in Worker : place'[v] \in {"begin", "inject", "send"} => place[v] \in {"begin", "inject", "send"}
    BY <1>2, <1>Judge DEF C!Judge
  <2> QED  BY <2>1, <2>2 DEF Unsent
<1>Extract. CASE C!Extract(w)
  <2>1. sends' = sends /\ counter' = counter /\ claimed' = claimed
    BY <1>Extract DEF C!Extract
  <2>2. \A v \in Worker : place'[v] \in {"begin", "inject", "send"} => place[v] \in {"begin", "inject", "send"}
    BY <1>2, <1>Extract DEF C!Extract
  <2> QED  BY <2>1, <2>2 DEF Unsent
<1>Post. CASE C!Post(w)
  <2>1. sends' = sends /\ counter' = counter /\ claimed' = claimed
    BY <1>Post DEF C!Post
  <2>2. \A v \in Worker : place'[v] \in {"begin", "inject", "send"} => place[v] \in {"begin", "inject", "send"}
    BY <1>2, <1>Post DEF C!Post
  <2> QED  BY <2>1, <2>2 DEF Unsent
<1>Drop. CASE C!Drop(w)
  <2>1. sends' = sends /\ counter' = counter /\ claimed' = claimed
    BY <1>Drop DEF C!Drop
  <2>2. \A v \in Worker : place'[v] \in {"begin", "inject", "send"} => place[v] \in {"begin", "inject", "send"}
    BY <1>2, <1>Drop DEF C!Drop
  <2> QED  BY <2>1, <2>2 DEF Unsent
<1>DropLast. CASE C!DropLast(w)
  <2>1. sends' = sends /\ counter' = counter /\ claimed' = claimed
    BY <1>DropLast DEF C!DropLast
  <2>2. \A v \in Worker : place'[v] \in {"begin", "inject", "send"} => place[v] \in {"begin", "inject", "send"}
    BY <1>2, <1>DropLast DEF C!DropLast
  <2> QED  BY <2>1, <2>2 DEF Unsent
<1> QED
  BY <1>Check, <1>Claim, <1>Skip, <1>Read, <1>Inject, <1>Send, <1>Judge, <1>Extract, <1>Post,
       <1>Drop, <1>DropLast DEF C!Step

LEMMA LateStep == ASSUME C!TypeOK, Counted, Late, NEW w \in Worker, C!Step(w) PROVE Late'
<1> USE DEF C!Goto
<1>0. Cardinality(Spent) \in Nat
  BY CardOK
<1>2. place \in [Worker -> {"check", "claim", "begin", "inject", "send", "judge",
                        "extract", "post", "drop", "silent", "hold", "over"}]
  BY DEF C!TypeOK
<1>3. tardy \in Nat
  BY DEF C!TypeOK
<1>4. IsFiniteSet(Spent') /\ Cardinality(Spent') \in Nat
  <2>1. Spent' \subseteq crew /\ IsFiniteSet(crew)
    BY CardOK DEF Spent, C!Step, C!Check, C!Claim, C!Skip, C!Read, C!Inject, C!Send, C!Judge,
         C!Extract, C!Post, C!Drop, C!DropLast
  <2> QED  BY <2>1, FS_Subset, FS_CardinalityType
<1>5. 0 <= Cardinality(Spent')
  BY <1>4
<1>Check. CASE C!Check(w)
  <2>1. tardy' = tardy /\ halt' = halt /\ crew' = crew
    BY <1>Check DEF C!Check
  <2>2. CASE halt = "live"
    BY <2>1, <2>2, <1>4, <1>5 DEF Late
  <2>3. CASE halt # "live"
    <3>1. Spent \subseteq Spent'
      BY <1>2, <1>Check, <2>3 DEF C!Check, Spent
    <3>2. Cardinality(Spent) <= Cardinality(Spent')
      BY <3>1, <1>4, Grows
    <3> QED  BY <2>1, <3>2, <1>0, <1>3, <1>4, <1>5 DEF Late
  <2> QED  BY <2>2, <2>3
<1>Claim. CASE C!Claim(w)
  <2>1. halt' = halt /\ crew' = crew /\ Spent \subseteq Spent' /\ w \notin Spent /\ w \in Spent'
    BY <1>2, <1>Claim DEF C!Claim, Spent, Counted
  <2>2. Cardinality(Spent) + 1 <= Cardinality(Spent')
    BY <2>1, <1>4, Grows
  <2>3. tardy' <= tardy + 1 /\ (halt = "live" => tardy' = tardy)
    BY <1>3, <1>Claim DEF C!Claim
  <2>4. tardy' \in Nat
    BY <1>3, <1>Claim DEF C!Claim
  <2>5. tardy' <= Cardinality(Spent')
    BY <2>2, <2>3, <2>4, <1>0, <1>3, <1>4 DEF Late
  <2> QED  BY <2>1, <2>3, <2>5 DEF Late
<1>Skip. CASE C!Skip(w)
  <2>1. tardy' = tardy /\ halt' = halt /\ crew' = crew /\ Spent \subseteq Spent'
    BY <1>2, <1>Skip DEF C!Skip, Spent
  <2>2. Cardinality(Spent) <= Cardinality(Spent')
    BY <2>1, <1>4, Grows
  <2> QED  BY <2>1, <2>2, <1>0, <1>3, <1>4 DEF Late
<1>Read. CASE C!Read(w)
  <2>1. tardy' = tardy /\ halt' = halt /\ crew' = crew /\ Spent \subseteq Spent'
    BY <1>2, <1>Read DEF C!Read, Spent
  <2>2. Cardinality(Spent) <= Cardinality(Spent')
    BY <2>1, <1>4, Grows
  <2> QED  BY <2>1, <2>2, <1>0, <1>3, <1>4 DEF Late
<1>Inject. CASE C!Inject(w)
  <2>1. tardy' = tardy /\ halt' = halt /\ crew' = crew /\ Spent \subseteq Spent'
    BY <1>2, <1>Inject DEF C!Inject, Spent
  <2>2. Cardinality(Spent) <= Cardinality(Spent')
    BY <2>1, <1>4, Grows
  <2> QED  BY <2>1, <2>2, <1>0, <1>3, <1>4 DEF Late
<1>Send. CASE C!Send(w)
  <2>1. tardy' = tardy /\ halt' = halt /\ crew' = crew /\ place' \in {[place EXCEPT ![w] = "judge"], [place EXCEPT ![w] = "post"]}
    BY <1>Send DEF C!Send
  <2>2. Spent \subseteq Spent'
    BY <1>2, <2>1 DEF Spent, C!TypeOK
  <2>3. Cardinality(Spent) <= Cardinality(Spent')
    BY <2>2, <1>4, Grows
  <2> QED  BY <2>1, <2>3, <1>0, <1>3, <1>4 DEF Late
<1>Judge. CASE C!Judge(w)
  <2>1. tardy' = tardy /\ halt' = halt /\ crew' = crew /\ Spent \subseteq Spent'
    BY <1>2, <1>Judge DEF C!Judge, Spent
  <2>2. Cardinality(Spent) <= Cardinality(Spent')
    BY <2>1, <1>4, Grows
  <2> QED  BY <2>1, <2>2, <1>0, <1>3, <1>4 DEF Late
<1>Extract. CASE C!Extract(w)
  <2>1. tardy' = tardy /\ halt' = halt /\ crew' = crew /\ Spent \subseteq Spent'
    BY <1>2, <1>Extract DEF C!Extract, Spent
  <2>2. Cardinality(Spent) <= Cardinality(Spent')
    BY <2>1, <1>4, Grows
  <2> QED  BY <2>1, <2>2, <1>0, <1>3, <1>4 DEF Late
<1>Post. CASE C!Post(w)
  <2>1. tardy' = tardy /\ halt' = halt /\ crew' = crew /\ Spent \subseteq Spent'
    BY <1>2, <1>Post DEF C!Post, Spent
  <2>2. Cardinality(Spent) <= Cardinality(Spent')
    BY <2>1, <1>4, Grows
  <2> QED  BY <2>1, <2>2, <1>0, <1>3, <1>4 DEF Late
<1>Drop. CASE C!Drop(w)
  <2>1. tardy' = tardy /\ halt' = halt /\ crew' = crew /\ Spent \subseteq Spent'
    BY <1>2, <1>Drop DEF C!Drop, Spent
  <2>2. Cardinality(Spent) <= Cardinality(Spent')
    BY <2>1, <1>4, Grows
  <2> QED  BY <2>1, <2>2, <1>0, <1>3, <1>4 DEF Late
<1>DropLast. CASE C!DropLast(w)
  <2>1. tardy' = tardy /\ halt' = halt /\ crew' = crew /\ Spent \subseteq Spent'
    BY <1>2, <1>DropLast DEF C!DropLast, Spent
  <2>2. Cardinality(Spent) <= Cardinality(Spent')
    BY <2>1, <1>4, Grows
  <2> QED  BY <2>1, <2>2, <1>0, <1>3, <1>4 DEF Late
<1> QED
  BY <1>Check, <1>Claim, <1>Skip, <1>Read, <1>Inject, <1>Send, <1>Judge, <1>Extract, <1>Post,
       <1>Drop, <1>DropLast DEF C!Step

LEMMA KeptStep == ASSUME C!TypeOK, Counted, Kept, NEW w \in Worker, C!Step(w) PROVE Kept'
<1> USE DEF C!Goto
<1>1. counter \in Nat /\ Cases \in Nat
  BY CA, CardOK DEF C!TypeOK
<1>2. place \in [Worker -> {"check", "claim", "begin", "inject", "send", "judge",
                        "extract", "post", "drop", "silent", "hold", "over"}]
  BY DEF C!TypeOK
<1>3. claimed \in [Worker -> C!Case] /\ claimed[w] \in C!Case
  BY DEF C!TypeOK
<1>4. outcome \in [C!Case -> C!Result \cup {"none"}]
  BY DEF C!TypeOK
<1>Check. CASE C!Check(w)
  <2>1. counter' = counter /\ results' = results /\ claimed' = claimed /\ sent' = sent /\ outcome' = outcome
    BY <1>Check DEF C!Check, C!told
  <2>2. \A v \in Worker : (Runs(v)' <=> Runs(v)) /\ (place'[v] \in {"extract", "post"} <=> place[v] \in {"extract", "post"})
    BY <1>2, <1>Check DEF C!Check, Runs
  <2>3. halt' = "live" => \A v \in crew' : v \in GoneCases' => counter' >= Cases
    BY <1>2, <1>Check DEF C!Check, GoneCases, Kept, Counted
  <2>4. \A c \in C!Case : On(c)' <=> On(c)
    BY <2>1 DEF On
  <2> QED  BY <2>1, <2>2, <2>3, <2>4 DEF Kept
<1>Claim. CASE C!Claim(w)
  <2>1. counter' = counter + 1 /\ results' = results /\ sent' = sent /\ outcome' = outcome
    BY <1>Claim DEF C!Claim, C!told
  <2>2. \A v \in Worker : v # w => claimed'[v] = claimed[v] /\ place'[v] = place[v]
    BY <1>2, <1>3, <1>Claim DEF C!Claim
  <2>3. place[w] = "claim" /\ place'[w] \in {"begin", "drop"}
    BY <1>2, <1>Claim DEF C!Claim
  <2>4. counter < Cases => Runs(w)' /\ claimed'[w] = counter + 1
    BY <1>2, <1>3, <1>Claim DEF C!Claim, Runs
  <2>5. \A c \in C!Case : On(c)' <=> On(c)
    BY <2>1 DEF On
  <2>6. \A c \in C!Case : c <= counter' => c <= counter \/ (counter < Cases /\ c = counter + 1)
    BY <2>1, <1>1 DEF C!Case
  <2>7. \A v \in Worker : Runs(v) => v # w /\ Runs(v)' /\ claimed'[v] = claimed[v]
    BY <2>2, <2>3 DEF Runs
  <2>8. \A c \in C!Case : c <= counter' =>
       c \in results \/ On(c) \/ \E v \in Worker : Runs(v)' /\ claimed'[v] = c
    BY <2>4, <2>6, <2>7 DEF Kept
  <2>9. \A v \in Worker : (place'[v] \in {"extract", "post"} <=> place[v] \in {"extract", "post"})
    BY <2>2, <2>3
  <2>10. \A v \in Worker : place[v] \in {"extract", "post"} => claimed'[v] = claimed[v]
    BY <2>2, <2>3
  <2>11. halt' = "live" => \A v \in crew' : v \in GoneCases' => counter' >= Cases
    <3>1. halt' = halt /\ crew' = crew
      BY <1>Claim DEF C!Claim
    <3>2. w \in GoneCases' => ~ (counter < Cases)
      BY <1>2, <1>Claim DEF C!Claim, GoneCases
    <3>3. \A v \in crew : v # w /\ v \in GoneCases' => v \in GoneCases
      BY <2>2, <1>Claim DEF C!Claim, GoneCases, C!TypeOK
    <3>4. halt = "live" => \A v \in crew : v \in GoneCases' => counter >= Cases
      BY <3>2, <3>3, <1>1 DEF Kept
    <3>5. counter >= Cases => counter' >= Cases
      BY <2>1, <1>1
    <3> QED  BY <3>1, <3>4, <3>5
  <2>12. \A c \in C!Case : outcome[c] # "none" <=>
       c \in results \/ On(c) \/ \E v \in Worker : place'[v] \in {"extract", "post"} /\ claimed'[v] = c
    BY <2>9, <2>10 DEF Kept
  <2> QED  BY <2>1, <2>5, <2>8, <2>11, <2>12 DEF Kept
<1>Skip. CASE C!Skip(w)
  <2>1. counter' = counter /\ results' = results /\ claimed' = claimed /\ sent' = sent
    BY <1>Skip DEF C!Skip, C!told
  <2>2. \A v \in Worker : v # w => place'[v] = place[v]
    BY <1>2, <1>Skip DEF C!Skip
  <2>3. Runs(w) /\ Runs(w)' /\ place[w] \notin {"extract", "post"}
    BY <1>2, <1>Skip DEF C!Skip, Runs
  <2>4. \A c \in C!Case : c # claimed[w] => outcome'[c] = outcome[c]
    BY <1>3, <1>4, <1>Skip DEF C!Skip, C!Ends
  <2>5. place'[w] \in {"extract", "post"} => outcome'[claimed[w]] # "none"
    BY <1>2, <1>3, <1>4, <1>Skip DEF C!Skip, C!Ends
  <2>6. place'[w] \notin {"extract", "post"} => outcome'[claimed[w]] = outcome[claimed[w]]
    BY <1>2, <1>3, <1>4, <1>Skip DEF C!Skip, C!Ends
  <2>7. halt' = "live" => \A v \in crew' : v \in GoneCases' => counter' >= Cases
    <3>1. halt' = halt /\ crew' = crew /\ GoneCases' \subseteq GoneCases
      BY <1>2, <2>2, <2>3, <1>Skip DEF C!Skip, GoneCases, Runs, C!TypeOK
    <3> QED  BY <2>1, <3>1 DEF Kept
  <2>8. \A c \in C!Case : On(c)' <=> On(c)
    BY <2>1 DEF On
  <2>9. \A v \in Worker : Runs(v)' <=> Runs(v)
    BY <2>2, <2>3 DEF Runs
  <2>10. \A c \in C!Case : outcome'[c] # "none" <=>
       c \in results \/ On(c) \/ \E v \in Worker : place'[v] \in {"extract", "post"} /\ claimed[v] = c
    <3> SUFFICES ASSUME NEW c \in C!Case PROVE outcome'[c] # "none" <=>
       c \in results \/ On(c) \/ \E v \in Worker : place'[v] \in {"extract", "post"} /\ claimed[v] = c
      OBVIOUS
    <3>1. outcome[c] # "none" <=>
       c \in results \/ On(c) \/ \E v \in Worker : place[v] \in {"extract", "post"} /\ claimed[v] = c
      BY DEF Kept
    <3>2. \A v \in Worker : v # w => (place'[v] \in {"extract", "post"} <=> place[v] \in {"extract", "post"})
      BY <2>2
    <3>3. CASE c # claimed[w]
      BY ONLY <3>1, <3>2, <3>3, <2>4, w \in Worker, c \in C!Case
    <3>4. CASE c = claimed[w] /\ place'[w] \in {"extract", "post"}
      BY ONLY <3>4, <2>5, w \in Worker
    <3>5. CASE c = claimed[w] /\ place'[w] \notin {"extract", "post"}
      BY ONLY <3>1, <3>2, <3>5, <2>3, <2>6, w \in Worker, c \in C!Case
    <3> QED  BY <3>3, <3>4, <3>5
  <2>11. \A c \in C!Case : c <= counter =>
       c \in results \/ On(c) \/ \E v \in Worker : Runs(v)' /\ claimed[v] = c
    BY <2>9 DEF Kept
  <2> QED  BY <2>1, <2>7, <2>8, <2>10, <2>11 DEF Kept
<1>Read. CASE C!Read(w)
  <2>1. counter' = counter /\ results' = results /\ claimed' = claimed /\ sent' = sent /\ outcome' = outcome
    BY <1>Read DEF C!Read, C!told
  <2>2. \A v \in Worker : (Runs(v)' <=> Runs(v)) /\ (place'[v] \in {"extract", "post"} <=> place[v] \in {"extract", "post"})
    BY <1>2, <1>Read DEF C!Read, Runs
  <2>3. halt' = "live" => \A v \in crew' : v \in GoneCases' => counter' >= Cases
    BY <1>2, <1>Read DEF C!Read, GoneCases, Kept, Counted
  <2>4. \A c \in C!Case : On(c)' <=> On(c)
    BY <2>1 DEF On
  <2> QED  BY <2>1, <2>2, <2>3, <2>4 DEF Kept
<1>Inject. CASE C!Inject(w)
  <2>1. counter' = counter /\ results' = results /\ claimed' = claimed /\ sent' = sent /\ outcome' = outcome
    BY <1>Inject DEF C!Inject, C!told
  <2>2. \A v \in Worker : (Runs(v)' <=> Runs(v)) /\ (place'[v] \in {"extract", "post"} <=> place[v] \in {"extract", "post"})
    BY <1>2, <1>Inject DEF C!Inject, Runs
  <2>3. halt' = "live" => \A v \in crew' : v \in GoneCases' => counter' >= Cases
    BY <1>2, <1>Inject DEF C!Inject, GoneCases, Kept, Counted
  <2>4. \A c \in C!Case : On(c)' <=> On(c)
    BY <2>1 DEF On
  <2> QED  BY <2>1, <2>2, <2>3, <2>4 DEF Kept
<1>Send. CASE C!Send(w)
  <2>1. counter' = counter /\ results' = results /\ claimed' = claimed /\ sent' = sent
    BY <1>Send DEF C!Send, C!told
  <2>2. \A v \in Worker : v # w => place'[v] = place[v]
    BY <1>2, <1>Send DEF C!Send
  <2>3. Runs(w) /\ Runs(w)' /\ place[w] \notin {"extract", "post"}
    BY <1>2, <1>Send DEF C!Send, Runs
  <2>4. \A c \in C!Case : c # claimed[w] => outcome'[c] = outcome[c]
    BY <1>3, <1>4, <1>Send DEF C!Send, C!Ends
  <2>5. place'[w] \in {"extract", "post"} => outcome'[claimed[w]] # "none"
    BY <1>2, <1>3, <1>4, <1>Send DEF C!Send, C!Ends
  <2>6. place'[w] \notin {"extract", "post"} => outcome'[claimed[w]] = outcome[claimed[w]]
    BY <1>2, <1>3, <1>4, <1>Send DEF C!Send, C!Ends
  <2>7. halt' = "live" => \A v \in crew' : v \in GoneCases' => counter' >= Cases
    <3>1. halt' = halt /\ crew' = crew /\ GoneCases' \subseteq GoneCases
      BY <1>2, <2>2, <2>3, <1>Send DEF C!Send, GoneCases, Runs, C!TypeOK
    <3> QED  BY <2>1, <3>1 DEF Kept
  <2>8. \A c \in C!Case : On(c)' <=> On(c)
    BY <2>1 DEF On
  <2>9. \A v \in Worker : Runs(v)' <=> Runs(v)
    BY <2>2, <2>3 DEF Runs
  <2>10. \A c \in C!Case : outcome'[c] # "none" <=>
       c \in results \/ On(c) \/ \E v \in Worker : place'[v] \in {"extract", "post"} /\ claimed[v] = c
    <3> SUFFICES ASSUME NEW c \in C!Case PROVE outcome'[c] # "none" <=>
       c \in results \/ On(c) \/ \E v \in Worker : place'[v] \in {"extract", "post"} /\ claimed[v] = c
      OBVIOUS
    <3>1. outcome[c] # "none" <=>
       c \in results \/ On(c) \/ \E v \in Worker : place[v] \in {"extract", "post"} /\ claimed[v] = c
      BY DEF Kept
    <3>2. \A v \in Worker : v # w => (place'[v] \in {"extract", "post"} <=> place[v] \in {"extract", "post"})
      BY <2>2
    <3>3. CASE c # claimed[w]
      BY ONLY <3>1, <3>2, <3>3, <2>4, w \in Worker, c \in C!Case
    <3>4. CASE c = claimed[w] /\ place'[w] \in {"extract", "post"}
      BY ONLY <3>4, <2>5, w \in Worker
    <3>5. CASE c = claimed[w] /\ place'[w] \notin {"extract", "post"}
      BY ONLY <3>1, <3>2, <3>5, <2>3, <2>6, w \in Worker, c \in C!Case
    <3> QED  BY <3>3, <3>4, <3>5
  <2>11. \A c \in C!Case : c <= counter =>
       c \in results \/ On(c) \/ \E v \in Worker : Runs(v)' /\ claimed[v] = c
    BY <2>9 DEF Kept
  <2> QED  BY <2>1, <2>7, <2>8, <2>10, <2>11 DEF Kept
<1>Judge. CASE C!Judge(w)
  <2>1. counter' = counter /\ results' = results /\ claimed' = claimed /\ sent' = sent
    BY <1>Judge DEF C!Judge, C!told
  <2>2. \A v \in Worker : v # w => place'[v] = place[v]
    BY <1>2, <1>Judge DEF C!Judge
  <2>3. Runs(w) /\ Runs(w)' /\ place[w] \notin {"extract", "post"}
    BY <1>2, <1>Judge DEF C!Judge, Runs
  <2>4. \A c \in C!Case : c # claimed[w] => outcome'[c] = outcome[c]
    BY <1>3, <1>4, <1>Judge DEF C!Judge, C!Ends
  <2>5. place'[w] \in {"extract", "post"} => outcome'[claimed[w]] # "none"
    BY <1>2, <1>3, <1>4, <1>Judge DEF C!Judge, C!Ends
  <2>6. place'[w] \notin {"extract", "post"} => outcome'[claimed[w]] = outcome[claimed[w]]
    BY <1>2, <1>3, <1>4, <1>Judge DEF C!Judge, C!Ends
  <2>7. halt' = "live" => \A v \in crew' : v \in GoneCases' => counter' >= Cases
    <3>1. halt' = halt /\ crew' = crew /\ GoneCases' \subseteq GoneCases
      BY <1>2, <2>2, <2>3, <1>Judge DEF C!Judge, GoneCases, Runs, C!TypeOK
    <3> QED  BY <2>1, <3>1 DEF Kept
  <2>8. \A c \in C!Case : On(c)' <=> On(c)
    BY <2>1 DEF On
  <2>9. \A v \in Worker : Runs(v)' <=> Runs(v)
    BY <2>2, <2>3 DEF Runs
  <2>10. \A c \in C!Case : outcome'[c] # "none" <=>
       c \in results \/ On(c) \/ \E v \in Worker : place'[v] \in {"extract", "post"} /\ claimed[v] = c
    <3> SUFFICES ASSUME NEW c \in C!Case PROVE outcome'[c] # "none" <=>
       c \in results \/ On(c) \/ \E v \in Worker : place'[v] \in {"extract", "post"} /\ claimed[v] = c
      OBVIOUS
    <3>1. outcome[c] # "none" <=>
       c \in results \/ On(c) \/ \E v \in Worker : place[v] \in {"extract", "post"} /\ claimed[v] = c
      BY DEF Kept
    <3>2. \A v \in Worker : v # w => (place'[v] \in {"extract", "post"} <=> place[v] \in {"extract", "post"})
      BY <2>2
    <3>3. CASE c # claimed[w]
      BY ONLY <3>1, <3>2, <3>3, <2>4, w \in Worker, c \in C!Case
    <3>4. CASE c = claimed[w] /\ place'[w] \in {"extract", "post"}
      BY ONLY <3>4, <2>5, w \in Worker
    <3>5. CASE c = claimed[w] /\ place'[w] \notin {"extract", "post"}
      BY ONLY <3>1, <3>2, <3>5, <2>3, <2>6, w \in Worker, c \in C!Case
    <3> QED  BY <3>3, <3>4, <3>5
  <2>11. \A c \in C!Case : c <= counter =>
       c \in results \/ On(c) \/ \E v \in Worker : Runs(v)' /\ claimed[v] = c
    BY <2>9 DEF Kept
  <2> QED  BY <2>1, <2>7, <2>8, <2>10, <2>11 DEF Kept
<1>Extract. CASE C!Extract(w)
  <2>1. counter' = counter /\ results' = results /\ claimed' = claimed /\ sent' = sent /\ outcome' = outcome
    BY <1>Extract DEF C!Extract, C!told
  <2>2. \A v \in Worker : (Runs(v)' <=> Runs(v)) /\ (place'[v] \in {"extract", "post"} <=> place[v] \in {"extract", "post"})
    BY <1>2, <1>Extract DEF C!Extract, Runs
  <2>3. halt' = "live" => \A v \in crew' : v \in GoneCases' => counter' >= Cases
    BY <1>2, <1>Extract DEF C!Extract, GoneCases, Kept, Counted
  <2>4. \A c \in C!Case : On(c)' <=> On(c)
    BY <2>1 DEF On
  <2> QED  BY <2>1, <2>2, <2>3, <2>4 DEF Kept
<1>Post. CASE C!Post(w)
  <2>1. counter' = counter /\ results' = results /\ claimed' = claimed /\ outcome' = outcome
    BY <1>Post DEF C!Post
  <2>2. \A v \in Worker : v # w => place'[v] = place[v]
    BY <1>2, <1>Post DEF C!Post
  <2>3. place[w] = "post" /\ place'[w] = "check"
    BY <1>2, <1>Post DEF C!Post
  <2>4. \A c \in C!Case : On(c)' <=> On(c) \/ c = claimed[w]
    <3>1. sent \in Seq(C!Case) /\ sent' = Append(sent, claimed[w])
      BY <1>Post DEF C!Post, C!TypeOK
    <3>2. Len(sent') = Len(sent) + 1 /\ sent'[Len(sent) + 1] = claimed[w] /\ Len(sent) \in Nat
          /\ \A i \in 1 .. Len(sent) : sent'[i] = sent[i]
      BY <3>1, <1>3
    <3> HIDE DEF C!TypeOK
    <3>3. \A i \in 1 .. Len(sent') : i \in 1 .. Len(sent) \/ i = Len(sent) + 1
      BY ONLY <3>2
    <3>4. Len(sent) + 1 \in 1 .. Len(sent') /\ \A i \in 1 .. Len(sent) : i \in 1 .. Len(sent')
      BY ONLY <3>2
    <3> QED  BY ONLY <3>2, <3>3, <3>4 DEF On
  <2>5. \A v \in Worker : v # w => (Runs(v)' <=> Runs(v))
    BY <2>2 DEF Runs
  <2>6. halt' = "live" => \A v \in crew' : v \in GoneCases' => counter' >= Cases
    BY <1>2, <1>Post DEF C!Post, GoneCases, Kept
  <2>7. \A c \in C!Case : c <= counter' =>
       c \in results \/ On(c)' \/ \E v \in Worker : Runs(v)' /\ claimed[v] = c
    BY <2>1, <2>4, <2>5 DEF Kept
  <2>8. \A c \in C!Case : outcome[c] # "none" <=>
       c \in results \/ On(c)' \/ \E v \in Worker : place'[v] \in {"extract", "post"} /\ claimed[v] = c
    BY <2>2, <2>3, <2>4 DEF Kept
  <2> QED  BY <2>1, <2>6, <2>7, <2>8 DEF Kept
<1>Drop. CASE C!Drop(w)
  <2>1. counter' = counter /\ results' = results /\ claimed' = claimed /\ sent' = sent /\ outcome' = outcome
    BY <1>Drop DEF C!Drop, C!told
  <2>2. \A v \in Worker : (Runs(v)' <=> Runs(v)) /\ (place'[v] \in {"extract", "post"} <=> place[v] \in {"extract", "post"})
    BY <1>2, <1>Drop DEF C!Drop, Runs
  <2>3. halt' = "live" => \A v \in crew' : v \in GoneCases' => counter' >= Cases
    BY <1>2, <1>Drop DEF C!Drop, GoneCases, Kept, Counted
  <2>4. \A c \in C!Case : On(c)' <=> On(c)
    BY <2>1 DEF On
  <2> QED  BY <2>1, <2>2, <2>3, <2>4 DEF Kept
<1>DropLast. CASE C!DropLast(w)
  <2>1. counter' = counter /\ results' = results /\ claimed' = claimed /\ sent' = sent /\ outcome' = outcome
    BY <1>DropLast DEF C!DropLast, C!told
  <2>2. \A v \in Worker : (Runs(v)' <=> Runs(v)) /\ (place'[v] \in {"extract", "post"} <=> place[v] \in {"extract", "post"})
    BY <1>2, <1>DropLast DEF C!DropLast, Runs
  <2>3. halt' = "live" => \A v \in crew' : v \in GoneCases' => counter' >= Cases
    BY <1>2, <1>DropLast DEF C!DropLast, GoneCases, Kept, Counted
  <2>4. \A c \in C!Case : On(c)' <=> On(c)
    BY <2>1 DEF On
  <2> QED  BY <2>1, <2>2, <2>3, <2>4 DEF Kept
<1> QED
  BY <1>Check, <1>Claim, <1>Skip, <1>Read, <1>Inject, <1>Send, <1>Judge, <1>Extract, <1>Post,
       <1>Drop, <1>DropLast DEF C!Step

LEMMA EndedStep == ASSUME C!TypeOK, Counted, Ended, NEW w \in Worker, C!Step(w) PROVE Ended'
<1> USE DEF C!Goto
<1>1. place \in [Worker -> {"check", "claim", "begin", "inject", "send", "judge",
                        "extract", "post", "drop", "silent", "hold", "over"}] /\ (place[w] # "over" => w \in crew)
  BY DEF C!TypeOK, Counted
<1>2. SUFFICES ASSUME command' = "returned" PROVE Ended'
  BY DEF Ended
<1>0. command = "returned" /\ (w \in crew => place[w] = "over") /\ place[w] # "hold"
  BY <1>2 DEF C!Step, C!Check, C!Claim, C!Skip, C!Read, C!Inject, C!Send, C!Judge, C!Extract,
       C!Post, C!Drop, C!DropLast, C!end, Ended, Counted
<1>Check. CASE C!Check(w)
  BY <1>0, <1>1, <1>2, <1>Check DEF C!Check, C!told, C!end
<1>Claim. CASE C!Claim(w)
  BY <1>0, <1>1, <1>2, <1>Claim DEF C!Claim, C!told, C!end
<1>Skip. CASE C!Skip(w)
  BY <1>0, <1>1, <1>2, <1>Skip DEF C!Skip, C!told, C!end
<1>Read. CASE C!Read(w)
  BY <1>0, <1>1, <1>2, <1>Read DEF C!Read, C!told, C!end
<1>Inject. CASE C!Inject(w)
  BY <1>0, <1>1, <1>2, <1>Inject DEF C!Inject, C!told, C!end
<1>Send. CASE C!Send(w)
  BY <1>0, <1>1, <1>2, <1>Send DEF C!Send, C!told, C!end
<1>Judge. CASE C!Judge(w)
  BY <1>0, <1>1, <1>2, <1>Judge DEF C!Judge, C!told, C!end
<1>Extract. CASE C!Extract(w)
  BY <1>0, <1>1, <1>2, <1>Extract DEF C!Extract, C!told, C!end
<1>Post. CASE C!Post(w)
  BY <1>0, <1>1, <1>2, <1>Post DEF C!Post, C!told, C!end
<1>Drop. CASE C!Drop(w)
  BY <1>0, <1>1, <1>2, <1>Drop DEF C!Drop, C!told, C!end
<1>DropLast. CASE C!DropLast(w)
  BY <1>0, <1>1, <1>2, <1>DropLast DEF C!DropLast, C!told, C!end
<1> QED
  BY <1>Check, <1>Claim, <1>Skip, <1>Read, <1>Inject, <1>Send, <1>Judge, <1>Extract, <1>Post,
       <1>Drop, <1>DropLast DEF C!Step

LEMMA PlannedStep == ASSUME C!TypeOK, Counted, Planned, NEW w \in Worker, C!Step(w) PROVE Planned'
<1> USE DEF C!Goto
<1>2. place \in [Worker -> {"check", "claim", "begin", "inject", "send", "judge",
                        "extract", "post", "drop", "silent", "hold", "over"}]
  BY DEF C!TypeOK
<1>3. claimed \in [Worker -> C!Case] /\ claimed[w] \in C!Case
  BY DEF C!TypeOK
<1>4. outcome \in [C!Case -> C!Result \cup {"none"}]
  BY DEF C!TypeOK
<1>Check. CASE C!Check(w)
  <2>1. plan' = plan /\ claimed' = claimed /\ outcome' = outcome
    BY <1>Check DEF C!Check
  <2>2. \A v \in Worker : v # w => place'[v] = place[v]
    BY <1>2, <1>Check DEF C!Check
  <2>3. /\ place'[w] = "inject" => C!Plan(w) \in {"adds", "both"}
        /\ place'[w] \in {"send", "judge", "extract"} => C!Plan(w) \notin {"broken", "none"}
        /\ place'[w] = "extract" => C!Plan(w) \in {"sets", "both"} /\ outcome[claimed[w]] = "judged"
    BY <1>2, <1>Check DEF C!Check, Planned, C!Plan
  <2> QED  BY <2>1, <2>2, <2>3 DEF Planned, C!Plan
<1>Claim. CASE C!Claim(w)
  <2>1. plan' = plan /\ outcome' = outcome
    BY <1>Claim DEF C!Claim
  <2>2. \A v \in Worker : v # w => place'[v] = place[v] /\ claimed'[v] = claimed[v]
    BY <1>2, <1>3, <1>Claim DEF C!Claim
  <2>3. place'[w] \in {"begin", "drop"}
    BY <1>2, <1>Claim DEF C!Claim
  <2> QED  BY <2>1, <2>2, <2>3 DEF Planned, C!Plan
<1>Skip. CASE C!Skip(w)
  <2>1. plan' = plan /\ claimed' = claimed
    BY <1>Skip DEF C!Skip
  <2>2. \A v \in Worker : v # w => place'[v] = place[v]
    BY <1>2, <1>Skip DEF C!Skip
  <2>3. /\ place'[w] # "inject"
        /\ place'[w] \in {"send", "judge", "extract"} => C!Plan(w) \notin {"broken", "none"}
        /\ place'[w] = "extract" => C!Plan(w) \in {"sets", "both"} /\ outcome'[claimed[w]] = "judged"
    BY <1>2, <1>3, <1>4, <1>Skip DEF C!Skip, Planned, C!Plan, C!Ends
  <2>4. \A c \in C!Case : c # claimed[w] => outcome'[c] = outcome[c]
    BY <1>3, <1>4, <1>Skip DEF C!Skip, C!Ends
  <2>5. Runs(w)
    BY <1>Skip DEF C!Skip, Runs
  <2>6. \A v \in Worker : v # w /\ place'[v] = "extract" => claimed[v] # claimed[w] /\ claimed[v] \in C!Case
    BY <2>2, <2>5, <1>3 DEF Counted, Runs
  <2> QED  BY <2>1, <2>2, <2>3, <2>4, <2>6 DEF Planned, C!Plan
<1>Read. CASE C!Read(w)
  <2>1. plan' = plan /\ claimed' = claimed /\ outcome' = outcome
    BY <1>Read DEF C!Read
  <2>2. \A v \in Worker : v # w => place'[v] = place[v]
    BY <1>2, <1>Read DEF C!Read
  <2>3. /\ place'[w] = "inject" => C!Plan(w) \in {"adds", "both"}
        /\ place'[w] \in {"send", "judge", "extract"} => C!Plan(w) \notin {"broken", "none"}
        /\ place'[w] = "extract" => C!Plan(w) \in {"sets", "both"} /\ outcome[claimed[w]] = "judged"
    BY <1>2, <1>Read DEF C!Read, Planned, C!Plan
  <2> QED  BY <2>1, <2>2, <2>3 DEF Planned, C!Plan
<1>Inject. CASE C!Inject(w)
  <2>1. plan' = plan /\ claimed' = claimed /\ outcome' = outcome
    BY <1>Inject DEF C!Inject
  <2>2. \A v \in Worker : v # w => place'[v] = place[v]
    BY <1>2, <1>Inject DEF C!Inject
  <2>3. /\ place'[w] = "inject" => C!Plan(w) \in {"adds", "both"}
        /\ place'[w] \in {"send", "judge", "extract"} => C!Plan(w) \notin {"broken", "none"}
        /\ place'[w] = "extract" => C!Plan(w) \in {"sets", "both"} /\ outcome[claimed[w]] = "judged"
    BY <1>2, <1>Inject DEF C!Inject, Planned, C!Plan
  <2> QED  BY <2>1, <2>2, <2>3 DEF Planned, C!Plan
<1>Send. CASE C!Send(w)
  <2>1. plan' = plan /\ claimed' = claimed
    BY <1>Send DEF C!Send
  <2>2. \A v \in Worker : v # w => place'[v] = place[v]
    BY <1>2, <1>Send DEF C!Send
  <2>3. /\ place'[w] # "inject"
        /\ place'[w] \in {"send", "judge", "extract"} => C!Plan(w) \notin {"broken", "none"}
        /\ place'[w] = "extract" => C!Plan(w) \in {"sets", "both"} /\ outcome'[claimed[w]] = "judged"
    BY <1>2, <1>3, <1>4, <1>Send DEF C!Send, Planned, C!Plan, C!Ends
  <2>4. \A c \in C!Case : c # claimed[w] => outcome'[c] = outcome[c]
    BY <1>3, <1>4, <1>Send DEF C!Send, C!Ends
  <2>5. Runs(w)
    BY <1>Send DEF C!Send, Runs
  <2>6. \A v \in Worker : v # w /\ place'[v] = "extract" => claimed[v] # claimed[w] /\ claimed[v] \in C!Case
    BY <2>2, <2>5, <1>3 DEF Counted, Runs
  <2> QED  BY <2>1, <2>2, <2>3, <2>4, <2>6 DEF Planned, C!Plan
<1>Judge. CASE C!Judge(w)
  <2>1. plan' = plan /\ claimed' = claimed
    BY <1>Judge DEF C!Judge
  <2>2. \A v \in Worker : v # w => place'[v] = place[v]
    BY <1>2, <1>Judge DEF C!Judge
  <2>3. /\ place'[w] # "inject"
        /\ place'[w] \in {"send", "judge", "extract"} => C!Plan(w) \notin {"broken", "none"}
        /\ place'[w] = "extract" => C!Plan(w) \in {"sets", "both"} /\ outcome'[claimed[w]] = "judged"
    BY <1>2, <1>3, <1>4, <1>Judge DEF C!Judge, Planned, C!Plan, C!Ends
  <2>4. \A c \in C!Case : c # claimed[w] => outcome'[c] = outcome[c]
    BY <1>3, <1>4, <1>Judge DEF C!Judge, C!Ends
  <2>5. Runs(w)
    BY <1>Judge DEF C!Judge, Runs
  <2>6. \A v \in Worker : v # w /\ place'[v] = "extract" => claimed[v] # claimed[w] /\ claimed[v] \in C!Case
    BY <2>2, <2>5, <1>3 DEF Counted, Runs
  <2> QED  BY <2>1, <2>2, <2>3, <2>4, <2>6 DEF Planned, C!Plan
<1>Extract. CASE C!Extract(w)
  <2>1. plan' = plan /\ claimed' = claimed /\ outcome' = outcome
    BY <1>Extract DEF C!Extract
  <2>2. \A v \in Worker : v # w => place'[v] = place[v]
    BY <1>2, <1>Extract DEF C!Extract
  <2>3. /\ place'[w] = "inject" => C!Plan(w) \in {"adds", "both"}
        /\ place'[w] \in {"send", "judge", "extract"} => C!Plan(w) \notin {"broken", "none"}
        /\ place'[w] = "extract" => C!Plan(w) \in {"sets", "both"} /\ outcome[claimed[w]] = "judged"
    BY <1>2, <1>Extract DEF C!Extract, Planned, C!Plan
  <2> QED  BY <2>1, <2>2, <2>3 DEF Planned, C!Plan
<1>Post. CASE C!Post(w)
  <2>1. plan' = plan /\ claimed' = claimed /\ outcome' = outcome
    BY <1>Post DEF C!Post
  <2>2. \A v \in Worker : v # w => place'[v] = place[v]
    BY <1>2, <1>Post DEF C!Post
  <2>3. /\ place'[w] = "inject" => C!Plan(w) \in {"adds", "both"}
        /\ place'[w] \in {"send", "judge", "extract"} => C!Plan(w) \notin {"broken", "none"}
        /\ place'[w] = "extract" => C!Plan(w) \in {"sets", "both"} /\ outcome[claimed[w]] = "judged"
    BY <1>2, <1>Post DEF C!Post, Planned, C!Plan
  <2> QED  BY <2>1, <2>2, <2>3 DEF Planned, C!Plan
<1>Drop. CASE C!Drop(w)
  <2>1. plan' = plan /\ claimed' = claimed /\ outcome' = outcome
    BY <1>Drop DEF C!Drop
  <2>2. \A v \in Worker : v # w => place'[v] = place[v]
    BY <1>2, <1>Drop DEF C!Drop
  <2>3. /\ place'[w] = "inject" => C!Plan(w) \in {"adds", "both"}
        /\ place'[w] \in {"send", "judge", "extract"} => C!Plan(w) \notin {"broken", "none"}
        /\ place'[w] = "extract" => C!Plan(w) \in {"sets", "both"} /\ outcome[claimed[w]] = "judged"
    BY <1>2, <1>Drop DEF C!Drop, Planned, C!Plan
  <2> QED  BY <2>1, <2>2, <2>3 DEF Planned, C!Plan
<1>DropLast. CASE C!DropLast(w)
  <2>1. plan' = plan /\ claimed' = claimed /\ outcome' = outcome
    BY <1>DropLast DEF C!DropLast
  <2>2. \A v \in Worker : v # w => place'[v] = place[v]
    BY <1>2, <1>DropLast DEF C!DropLast
  <2>3. /\ place'[w] = "inject" => C!Plan(w) \in {"adds", "both"}
        /\ place'[w] \in {"send", "judge", "extract"} => C!Plan(w) \notin {"broken", "none"}
        /\ place'[w] = "extract" => C!Plan(w) \in {"sets", "both"} /\ outcome[claimed[w]] = "judged"
    BY <1>2, <1>DropLast DEF C!DropLast, Planned, C!Plan
  <2> QED  BY <2>1, <2>2, <2>3 DEF Planned, C!Plan
<1> QED
  BY <1>Check, <1>Claim, <1>Skip, <1>Read, <1>Inject, <1>Send, <1>Judge, <1>Extract, <1>Post,
       <1>Drop, <1>DropLast DEF C!Step

LEMMA LeftAt ==
  /\ \A n \in 0 .. Cases : C!Left[n] = Leaves(C!Left, plan, outcome, n)
  /\ \A n \in 0 .. Cases : C!Left'[n] = Leaves(C!Left', plan', outcome', n)
<1>1. Chain(C!Left, Cases, plan, outcome) /\ Chain(C!Left', Cases, plan', outcome')
  BY LeftIsChain DEF Chain
<1> QED  BY <1>1, ChainAt

\* The cases up to k leave what they left as long as they end as they ended.
LEMMA LeftBelow ==
  ASSUME NEW k \in 0 .. Cases, plan' = plan, \A i \in 1 .. k : outcome'[i] = outcome[i]
  PROVE  \A i \in 0 .. k : C!Left'[i] = C!Left[i]
<1>1. Chain(C!Left, Cases, plan, outcome) /\ Chain(C!Left', Cases, plan, outcome')
  BY LeftIsChain DEF Chain
<1>2. \A i \in 0 .. k : C!Left[i] = C!Left'[i]
  <2> DEFINE g == C!Left  h == C!Left'  p == plan  a == outcome  b == outcome'
  <2>1. Chain(g, Cases, p, a) /\ Chain(h, Cases, p, b) /\ \A i \in 1 .. k : a[i] = b[i]
    BY <1>1
  <2> HIDE DEF g, h, p, a, b
  <2>2. \A i \in 0 .. k : g[i] = h[i]
    BY <2>1, ChainsAgree
  <2> QED  BY <2>2 DEF g, h
<1> QED  BY <1>2

\* What is read and left by cases whose predecessors end as they ended.
LEMMA MidBelow ==
  ASSUME NEW c \in C!Case, plan' = plan, \A i \in C!Case : i < c => outcome'[i] = outcome[i]
  PROVE  Mid(c)' = Mid(c) /\ C!Left'[c - 1] = C!Left[c - 1]
<1>1. c - 1 \in 0 .. Cases /\ \A i \in 1 .. c - 1 : i \in C!Case /\ i < c
  BY CA DEF C!Case
<1>2. c - 1 \in 0 .. c - 1
  BY <1>1
<1>3. C!Left'[c - 1] = C!Left[c - 1]
  BY <1>1, <1>2, LeftBelow
<1> QED  BY <1>3 DEF Mid

\* What case c leaves, from what its assertions read.
LEMMA LeftOfMid ==
  ASSUME NEW c \in C!Case
  PROVE  /\ plan[c] \in {"sets", "both"} /\ outcome[c] = "judged" => C!Left[c] = <<c>>
         /\ ~ (plan[c] \in {"sets", "both"} /\ outcome[c] = "judged") => C!Left[c] = Mid(c)
         /\ plan'[c] \in {"sets", "both"} /\ outcome'[c] = "judged" => C!Left'[c] = <<c>>
         /\ ~ (plan'[c] \in {"sets", "both"} /\ outcome'[c] = "judged") => C!Left'[c] = Mid(c)'
<1>1. c \in 0 .. Cases /\ c # 0
  BY CA DEF C!Case
<1>2. C!Left[c] = Leaves(C!Left, plan, outcome, c) /\ C!Left'[c] = Leaves(C!Left', plan', outcome', c)
  BY <1>1, LeftAt
<1> QED  BY <1>1, <1>2 DEF Leaves, Mid

LEMMA SerialStep ==
  ASSUME C!TypeOK, Counted, Planned, Serial, NEW w \in Worker, C!Step(w)
  PROVE  Serial'
<1> USE DEF C!Goto
<1>1. counter \in Nat /\ Cases \in Nat /\ C!Case = 1 .. Cases
  BY CA, CardOK DEF C!TypeOK, C!Case
<1>2. place \in [Worker -> {"check", "claim", "begin", "inject", "send", "judge",
                        "extract", "post", "drop", "silent", "hold", "over"}]
  BY DEF C!TypeOK
<1>3. claimed \in [Worker -> C!Case] /\ claimed[w] \in C!Case
  BY DEF C!TypeOK
<1>4. Cases \in 0 .. Cases /\ \A c \in C!Case : c - 1 \in 0 .. Cases /\ c \in 0 .. Cases
  BY <1>1
<1>5. Done \in 0 .. Cases
  BY <1>1 DEF Done
<1>6. snapshot \in [Worker -> C!Value]
  BY DEF C!TypeOK
<1>7. outcome \in [C!Case -> C!Result \cup {"none"}]
  BY DEF C!TypeOK
<1>8. judged \in [C!Case -> C!Value]
  BY DEF C!TypeOK
<1>9. crew' = crew /\ w \in crew
  BY DEF C!TypeOK, Counted, C!Step, C!Check, C!Claim, C!Skip, C!Read, C!Inject, C!Send, C!Judge,
       C!Extract, C!Post, C!Drop, C!DropLast
<1> SUFFICES ASSUME crew = {w} PROVE Alone(w)'
  BY <1>9 DEF Serial
<1>10. Alone(w)
  BY DEF Serial
<1>11. PICK k \in C!Case : k = claimed[w]
  BY <1>3
<1> USE <1>10
<1>Check. CASE C!Check(w)
  <2>1. plan' = plan /\ outcome' = outcome /\ counter' = counter /\ claimed' = claimed /\ judged' = judged
    BY <1>Check DEF C!Check
  <2>2. \A c \in C!Case : Mid(c)' = Mid(c) /\ C!Left'[c - 1] = C!Left[c - 1]
    BY <2>1, MidBelow
  <2>3. \A c \in 0 .. Cases : C!Left'[c] = C!Left[c]
    BY <2>1, <1>4, LeftBelow
  <2>4. runtime' = runtime /\ ~ Runs(w) /\ ~ Runs(w)' /\ Done' = Done
    BY <1>2, <1>Check, <2>1 DEF C!Check, Runs, Done
  <2>5. runtime' = C!Left'[Done']
    BY <2>3, <2>4, <1>5 DEF Alone
  <2> QED  BY <2>1, <2>2, <2>4, <2>5 DEF Alone, Runs
<1>Claim. CASE C!Claim(w)
  <2>1. plan' = plan /\ outcome' = outcome /\ counter' = counter + 1 /\ judged' = judged /\ runtime' = runtime
    BY <1>Claim DEF C!Claim
  <2>2. \A c \in C!Case : Mid(c)' = Mid(c) /\ C!Left'[c - 1] = C!Left[c - 1]
    BY <2>1, MidBelow
  <2>3. \A c \in 0 .. Cases : C!Left'[c] = C!Left[c]
    BY <2>1, <1>4, LeftBelow
  <2>4. ~ Runs(w) /\ runtime = C!Left[Done]
    BY <1>Claim DEF C!Claim, Runs, Alone
  <2>5. /\ \A c \in C!Case : counter' < c => judged'[c] = C!None
        /\ \A c \in C!Case : judged'[c] # C!None => judged'[c] = Mid(c)'
    <3>1. \A c \in C!Case : counter' < c => counter < c
      BY <1>1, <2>1 DEF C!Case
    <3> QED  BY <2>1, <2>2, <3>1 DEF Alone
  <2>6. CASE counter < Cases
    <3>1. Runs(w)' /\ claimed'[w] = counter + 1 /\ place'[w] = "begin"
      BY <1>2, <1>3, <1>Claim, <2>6 DEF C!Claim, Runs
    <3>2. counter \in 0 .. Cases /\ counter' - 1 = counter /\ Done = counter
      BY <1>1, <2>1, <2>6 DEF Done
    <3>3. runtime' = C!Left'[counter' - 1]
      BY <2>1, <2>3, <2>4, <3>2
    <3> QED  BY <2>1, <2>5, <3>1, <3>3 DEF Alone
  <2>7. CASE ~ (counter < Cases)
    <3>1. ~ Runs(w)' /\ place'[w] = "drop"
      BY <1>2, <1>Claim, <2>7 DEF C!Claim, Runs
    <3>2. Done = Cases /\ Done' = Cases /\ Cases \in 0 .. Cases
      BY <1>1, <2>1, <2>7 DEF Done
    <3>3. runtime' = C!Left'[Done']
      BY <2>1, <2>3, <2>4, <3>2
    <3> QED  BY <2>1, <2>5, <3>1, <3>3 DEF Alone
  <2> QED  BY <2>6, <2>7
<1>Skip. CASE C!Skip(w)
  <2>1. plan' = plan /\ counter' = counter /\ claimed' = claimed
    BY <1>Skip DEF C!Skip
  <2>2. Runs(w) /\ Runs(w)' /\ counter = k /\ k \in C!Case
    BY <1>2, <1>11, <1>3, <1>Skip DEF C!Skip, Runs, Alone
  <2>3. \A c \in C!Case : c < k => c # k
    BY <1>1, <2>2 DEF C!Case
  <2>4. \A c \in C!Case : c < k => outcome'[c] = outcome[c]
    BY <1>3, <1>11, <1>7, <2>3, <1>Skip DEF C!Skip, C!Ends
  <2>5. \A c \in C!Case : ~ (k < c) => Mid(c)' = Mid(c) /\ C!Left'[c - 1] = C!Left[c - 1]
    <3> SUFFICES ASSUME NEW c \in C!Case, ~ (k < c) PROVE Mid(c)' = Mid(c) /\ C!Left'[c - 1] = C!Left[c - 1]
      OBVIOUS
    <3>1. \A i \in C!Case : i < c => i < k
      BY <1>1 DEF C!Case
    <3> QED  BY <2>1, <2>4, <3>1, MidBelow
  <2>6. ~ (k < k) /\ Mid(k)' = Mid(k) /\ C!Left'[k - 1] = C!Left[k - 1]
    BY <2>2, <2>5, <1>1
  <2>7. judged' = judged
    BY <1>Skip DEF C!Skip
  <2>8. /\ \A c \in C!Case : counter' < c => judged'[c] = C!None
        /\ \A c \in C!Case : judged'[c] # C!None => judged'[c] = Mid(c)'
    BY <2>1, <2>2, <2>5, <2>7 DEF Alone
  <2>9. plan[k] \in {"broken", "none"} /\ place[w] = "begin" /\ place'[w] = "post" /\ runtime' = runtime
    BY <1>2, <1>11, <2>2, <1>Skip DEF C!Skip, C!Plan
  <2>10. runtime = C!Left[k - 1]
    BY <2>2, <2>9 DEF Alone
  <2>11. runtime' = Mid(k)'
    BY <2>6, <2>9, <2>10 DEF Mid
  <2>12. C!Left'[k] = Mid(k)'
    <3>1. ~ (plan'[k] \in {"sets", "both"} /\ outcome'[k] = "judged")
      BY <2>1, <2>9
    <3> QED  BY <2>2, <3>1, LeftOfMid
  <2> QED  BY <2>1, <2>2, <2>8, <2>9, <2>11, <2>12 DEF Alone
<1>Read. CASE C!Read(w)
  <2>1. plan' = plan /\ outcome' = outcome /\ counter' = counter /\ claimed' = claimed /\ judged' = judged
    BY <1>Read DEF C!Read
  <2>2. \A c \in C!Case : Mid(c)' = Mid(c) /\ C!Left'[c - 1] = C!Left[c - 1]
    BY <2>1, MidBelow
  <2>3. \A c \in 0 .. Cases : C!Left'[c] = C!Left[c]
    BY <2>1, <1>4, LeftBelow
  <2>4. runtime' = runtime /\ Runs(w) /\ Runs(w)' /\ runtime = C!Left[k - 1] /\ counter = k
    BY <1>2, <1>11, <1>Read DEF C!Read, Runs, Alone
  <2>5. k \in C!Case /\ Mid(k)' = Mid(k) /\ C!Left'[k - 1] = C!Left[k - 1]
    BY <1>3, <1>11, <2>2, <2>4
  <2>6. CASE plan[k] \in {"adds", "both"}
    <3>1. place'[w] = "inject" /\ snapshot'[w] = runtime
      BY <1>2, <1>11, <1>6, <1>Read, <2>4, <2>6 DEF C!Read, C!Plan
    <3> QED  BY <2>1, <2>2, <2>4, <2>5, <3>1 DEF Alone
  <2>7. CASE plan[k] \notin {"adds", "both"}
    <3>1. place'[w] = "send"
      BY <1>2, <1>11, <1>Read, <2>4, <2>7 DEF C!Read, C!Plan
    <3>2. runtime' = Mid(k)'
      BY <2>4, <2>5, <2>7 DEF Mid
    <3> QED  BY <2>1, <2>2, <2>4, <3>1, <3>2 DEF Alone
  <2> QED  BY <2>6, <2>7
<1>Inject. CASE C!Inject(w)
  <2>1. plan' = plan /\ outcome' = outcome /\ counter' = counter /\ claimed' = claimed /\ judged' = judged
    BY <1>Inject DEF C!Inject
  <2>2. \A c \in C!Case : Mid(c)' = Mid(c) /\ C!Left'[c - 1] = C!Left[c - 1]
    BY <2>1, MidBelow
  <2>3. \A c \in 0 .. Cases : C!Left'[c] = C!Left[c]
    BY <2>1, <1>4, LeftBelow
  <2>4. place[w] = "inject" /\ place'[w] = "send" /\ Runs(w) /\ Runs(w)' /\ counter = k
    BY <1>2, <1>11, <1>Inject DEF C!Inject, Runs, Alone
  <2>5. runtime' = Append(C!Left[k - 1], k)
    BY <1>Inject, <2>4 DEF C!Inject, Alone
  <2>6. k \in C!Case /\ plan[k] \in {"adds", "both"}
    BY <1>3, <1>11, <2>4 DEF Planned, C!Plan
  <2>7. runtime' = Mid(k) /\ Mid(k)' = Mid(k)
    BY <2>2, <2>5, <2>6 DEF Mid
  <2> QED  BY <2>1, <2>2, <2>4, <2>7 DEF Alone
<1>Send. CASE C!Send(w)
  <2>1. plan' = plan /\ counter' = counter /\ claimed' = claimed
    BY <1>Send DEF C!Send
  <2>2. Runs(w) /\ Runs(w)' /\ counter = k /\ k \in C!Case
    BY <1>2, <1>11, <1>3, <1>Send DEF C!Send, Runs, Alone
  <2>3. \A c \in C!Case : c < k => c # k
    BY <1>1, <2>2 DEF C!Case
  <2>4. \A c \in C!Case : c < k => outcome'[c] = outcome[c]
    BY <1>3, <1>11, <1>7, <2>3, <1>Send DEF C!Send, C!Ends
  <2>5. \A c \in C!Case : ~ (k < c) => Mid(c)' = Mid(c) /\ C!Left'[c - 1] = C!Left[c - 1]
    <3> SUFFICES ASSUME NEW c \in C!Case, ~ (k < c) PROVE Mid(c)' = Mid(c) /\ C!Left'[c - 1] = C!Left[c - 1]
      OBVIOUS
    <3>1. \A i \in C!Case : i < c => i < k
      BY <1>1 DEF C!Case
    <3> QED  BY <2>1, <2>4, <3>1, MidBelow
  <2>6. ~ (k < k) /\ Mid(k)' = Mid(k) /\ C!Left'[k - 1] = C!Left[k - 1]
    BY <2>2, <2>5, <1>1
  <2>7. judged' = judged
    BY <1>Send DEF C!Send
  <2>8. /\ \A c \in C!Case : counter' < c => judged'[c] = C!None
        /\ \A c \in C!Case : judged'[c] # C!None => judged'[c] = Mid(c)'
    BY <2>1, <2>2, <2>5, <2>7 DEF Alone
  <2>9. place[w] = "send" /\ runtime' = runtime /\ runtime = Mid(k)
    BY <2>2, <1>Send DEF C!Send, Alone
  <2>10. CASE place'[w] = "judge"
    BY <2>1, <2>2, <2>6, <2>8, <2>9, <2>10 DEF Alone
  <2>11. CASE place'[w] # "judge"
    <3>1. place'[w] = "post" /\ outcome'[k] = "unsent"
      BY <1>2, <1>11, <1>7, <2>2, <2>11, <1>Send DEF C!Send, C!Ends
    <3>2. C!Left'[k] = Mid(k)'
      <4>1. ~ (plan'[k] \in {"sets", "both"} /\ outcome'[k] = "judged")
        BY <3>1
      <4> QED  BY <2>2, <4>1, LeftOfMid
    <3> QED  BY <2>1, <2>2, <2>6, <2>8, <2>9, <3>1, <3>2 DEF Alone
  <2> QED  BY <2>10, <2>11
<1>Judge. CASE C!Judge(w)
  <2>1. plan' = plan /\ counter' = counter /\ claimed' = claimed
    BY <1>Judge DEF C!Judge
  <2>2. Runs(w) /\ Runs(w)' /\ counter = k /\ k \in C!Case
    BY <1>2, <1>11, <1>3, <1>Judge DEF C!Judge, Runs, Alone
  <2>3. \A c \in C!Case : c < k => c # k
    BY <1>1, <2>2 DEF C!Case
  <2>4. \A c \in C!Case : c < k => outcome'[c] = outcome[c]
    BY <1>3, <1>11, <1>7, <2>3, <1>Judge DEF C!Judge, C!Ends
  <2>5. \A c \in C!Case : ~ (k < c) => Mid(c)' = Mid(c) /\ C!Left'[c - 1] = C!Left[c - 1]
    <3> SUFFICES ASSUME NEW c \in C!Case, ~ (k < c) PROVE Mid(c)' = Mid(c) /\ C!Left'[c - 1] = C!Left[c - 1]
      OBVIOUS
    <3>1. \A i \in C!Case : i < c => i < k
      BY <1>1 DEF C!Case
    <3> QED  BY <2>1, <2>4, <3>1, MidBelow
  <2>6. ~ (k < k) /\ Mid(k)' = Mid(k) /\ C!Left'[k - 1] = C!Left[k - 1]
    BY <2>2, <2>5, <1>1
  <2>7. place[w] = "judge" /\ runtime' = runtime /\ runtime = Mid(k)
    BY <2>2, <1>Judge DEF C!Judge, Alone
  <2>8. /\ \A c \in C!Case : counter' < c => judged'[c] = C!None
        /\ \A c \in C!Case : judged'[c] # C!None => judged'[c] = Mid(c)'
    <3>1. judged'[k] = runtime /\ \A c \in C!Case : c # k => judged'[c] = judged[c]
      BY <1>8, <1>11, <2>2, <1>Judge DEF C!Judge
    <3>2. \A c \in C!Case : k < c => c # k
      BY <2>2, <2>6
    <3> QED  BY <2>1, <2>2, <2>5, <2>6, <2>7, <3>1, <3>2 DEF Alone
  <2>9. outcome'[k] = "judged"
    BY <1>7, <1>11, <2>2, <1>Judge DEF C!Judge, C!Ends
  <2>10. CASE plan[k] \in {"sets", "both"}
    <3>1. place'[w] = "extract"
      BY <1>2, <1>11, <2>2, <2>10, <1>Judge DEF C!Judge, C!Plan
    <3> QED  BY <2>1, <2>2, <2>6, <2>7, <2>8, <3>1 DEF Alone
  <2>11. CASE plan[k] \notin {"sets", "both"}
    <3>1. place'[w] = "post"
      BY <1>2, <1>11, <2>2, <2>11, <1>Judge DEF C!Judge, C!Plan
    <3>2. C!Left'[k] = Mid(k)'
      <4>1. ~ (plan'[k] \in {"sets", "both"} /\ outcome'[k] = "judged")
        BY <2>1, <2>11
      <4> QED  BY <2>2, <4>1, LeftOfMid
    <3> QED  BY <2>1, <2>2, <2>6, <2>7, <2>8, <3>1, <3>2 DEF Alone
  <2> QED  BY <2>10, <2>11
<1>Extract. CASE C!Extract(w)
  <2>1. plan' = plan /\ outcome' = outcome /\ counter' = counter /\ claimed' = claimed /\ judged' = judged
    BY <1>Extract DEF C!Extract
  <2>2. \A c \in C!Case : Mid(c)' = Mid(c) /\ C!Left'[c - 1] = C!Left[c - 1]
    BY <2>1, MidBelow
  <2>3. \A c \in 0 .. Cases : C!Left'[c] = C!Left[c]
    BY <2>1, <1>4, LeftBelow
  <2>4. place[w] = "extract" /\ place'[w] = "post" /\ Runs(w) /\ Runs(w)' /\ counter = k
    BY <1>2, <1>11, <1>Extract DEF C!Extract, Runs, Alone
  <2>5. runtime' = <<k>> /\ k \in C!Case
    BY <1>3, <1>11, <1>Extract, <2>4 DEF C!Extract
  <2>6. plan'[k] \in {"sets", "both"} /\ outcome'[k] = "judged"
    BY <2>1, <2>4, <1>11 DEF Planned, C!Plan
  <2>7. C!Left'[k] = <<k>>
    BY <2>5, <2>6, LeftOfMid
  <2> QED  BY <2>1, <2>2, <2>4, <2>5, <2>7 DEF Alone
<1>Post. CASE C!Post(w)
  <2>1. plan' = plan /\ outcome' = outcome /\ counter' = counter /\ claimed' = claimed /\ judged' = judged
    BY <1>Post DEF C!Post
  <2>2. \A c \in C!Case : Mid(c)' = Mid(c) /\ C!Left'[c - 1] = C!Left[c - 1]
    BY <2>1, MidBelow
  <2>3. \A c \in 0 .. Cases : C!Left'[c] = C!Left[c]
    BY <2>1, <1>4, LeftBelow
  <2>4. place[w] = "post" /\ place'[w] = "check" /\ Runs(w) /\ ~ Runs(w)' /\ claimed[w] = counter /\ runtime' = runtime
    BY <1>2, <1>Post DEF C!Post, Runs, Alone
  <2>5. runtime = C!Left[counter] /\ counter \in C!Case
    BY <1>3, <2>4 DEF Alone
  <2>6. Done' = counter /\ counter \in 0 .. Cases
    BY <1>1, <2>1, <2>5 DEF Done, C!Case
  <2> QED  BY <2>1, <2>2, <2>3, <2>4, <2>5, <2>6 DEF Alone
<1>Drop. CASE C!Drop(w)
  <2>1. plan' = plan /\ outcome' = outcome /\ counter' = counter /\ claimed' = claimed /\ judged' = judged
    BY <1>Drop DEF C!Drop
  <2>2. \A c \in C!Case : Mid(c)' = Mid(c) /\ C!Left'[c - 1] = C!Left[c - 1]
    BY <2>1, MidBelow
  <2>3. \A c \in 0 .. Cases : C!Left'[c] = C!Left[c]
    BY <2>1, <1>4, LeftBelow
  <2>4. runtime' = runtime /\ ~ Runs(w) /\ ~ Runs(w)' /\ Done' = Done
    BY <1>2, <1>Drop, <2>1 DEF C!Drop, Runs, Done
  <2>5. runtime' = C!Left'[Done']
    BY <2>3, <2>4, <1>5 DEF Alone
  <2> QED  BY <2>1, <2>2, <2>4, <2>5 DEF Alone, Runs
<1>DropLast. CASE C!DropLast(w)
  <2>1. plan' = plan /\ outcome' = outcome /\ counter' = counter /\ claimed' = claimed /\ judged' = judged
    BY <1>DropLast DEF C!DropLast
  <2>2. \A c \in C!Case : Mid(c)' = Mid(c) /\ C!Left'[c - 1] = C!Left[c - 1]
    BY <2>1, MidBelow
  <2>3. \A c \in 0 .. Cases : C!Left'[c] = C!Left[c]
    BY <2>1, <1>4, LeftBelow
  <2>4. runtime' = runtime /\ ~ Runs(w) /\ ~ Runs(w)' /\ Done' = Done
    BY <1>2, <1>DropLast, <2>1 DEF C!DropLast, Runs, Done
  <2>5. runtime' = C!Left'[Done']
    BY <2>3, <2>4, <1>5 DEF Alone
  <2> QED  BY <2>1, <2>2, <2>4, <2>5 DEF Alone, Runs
<1> QED
  BY <1>Check, <1>Claim, <1>Skip, <1>Read, <1>Inject, <1>Send, <1>Judge, <1>Extract, <1>Post,
       <1>Drop, <1>DropLast DEF C!Step

\* Who changes nothing of the variable and the cases changes nothing of Serial.
LEMMA SameSerial ==
  ASSUME C!TypeOK, Serial,
         UNCHANGED <<plan, crew, place, claimed, snapshot, counter, runtime, judged, outcome>>
  PROVE  Serial'
<1>1. \A c \in C!Case : Mid(c)' = Mid(c) /\ C!Left'[c - 1] = C!Left[c - 1]
  BY MidBelow
<1>2. \A c \in 0 .. Cases : C!Left'[c] = C!Left[c]
  <2>1. Cases \in 0 .. Cases
    BY CA
  <2> QED  BY <2>1, LeftBelow
<1>3. Done \in 0 .. Cases /\ Done' = Done
  BY CA, CardOK DEF Done, C!TypeOK
<1>4. C!Case = 1 .. Cases /\ counter \in Nat /\ claimed \in [Worker -> C!Case] /\ crew \subseteq Worker
  BY CA, CardOK DEF C!TypeOK, C!Case
<1>5. SUFFICES ASSUME NEW w \in Worker, crew = {w} PROVE Alone(w)'
  BY DEF Serial
<1>6. Alone(w)
  BY <1>5 DEF Serial
<1>7. ~ Runs(w) => C!Left'[Done'] = C!Left[Done]
  BY <1>2, <1>3
<1>8. Runs(w) => counter \in C!Case /\ counter \in 0 .. Cases /\ C!Left'[counter - 1] = C!Left[counter - 1] /\ C!Left'[counter] = C!Left[counter]
  <2>1. Runs(w) => counter \in C!Case
    BY <1>4, <1>6 DEF Alone
  <2>2. counter \in C!Case => counter \in 0 .. Cases
    BY <1>4
  <2> QED  BY <1>1, <1>2, <2>1, <2>2
<1>9. PICK k : k = counter
  OBVIOUS
<1>10. counter' = k /\ (k \in C!Case => Mid(k)' = Mid(k))
  BY <1>1, <1>9
<1>11. Runs(w)' = Runs(w) /\ (place[w] \in {"begin", "inject", "send", "judge", "extract", "post"} => Runs(w))
  BY DEF Runs
<1> QED  BY <1>1, <1>6, <1>7, <1>8, <1>9, <1>10, <1>11 DEF Alone

-----------------------------------------------------------------------------
(* The command and the user *)

LEMMA ReceiveKeeps == CasesInv /\ C!Receive => CasesInv'
<1> SUFFICES ASSUME CasesInv, C!Receive PROVE CasesInv'
  OBVIOUS
<1>1. C!TypeOK /\ Counted /\ Unsent /\ Late /\ Kept /\ Ended /\ Planned /\ Serial
  BY DEF CasesInv
<1>2. /\ UNCHANGED <<plan, crew, place, claimed, snapshot, counter, halt, tardy, runtime, judged,
                     sends, outcome, command, handed, flag>>
      /\ sent # <<>> /\ sent' = Tail(sent) /\ results' = results \cup {Head(sent)}
  BY DEF C!Receive, C!worker, C!end
<1>3. /\ sent \in Seq(C!Case) /\ Len(sent) \in Nat /\ Len(sent) # 0
      /\ Head(sent) = sent[1] /\ Len(sent') = Len(sent) - 1
      /\ \A i \in 1 .. Len(sent') : sent'[i] = sent[i + 1]
      /\ sent[1] \in C!Case /\ sent' \in Seq(C!Case)
  BY <1>1, <1>2 DEF C!TypeOK
<1>4. \A c \in C!Case : c \in results' \/ On(c)' <=> c \in results \/ On(c)
  <2>1. \A i \in 1 .. Len(sent') : i + 1 \in 1 .. Len(sent)
    BY <1>3
  <2>2. \A i \in 1 .. Len(sent) : i = 1 \/ (i - 1 \in 1 .. Len(sent') /\ sent'[i - 1] = sent[i])
    BY <1>3
  <2>3. 1 \in 1 .. Len(sent)
    BY <1>3
  <2> QED  BY ONLY <1>2, <1>3, <2>1, <2>2, <2>3 DEF On
<1>5. C!TypeOK'
  <2>1. Len(sent') <= 2 * Cardinality(crew)
    BY SameCardinality, <1>1, <1>3, CardOK DEF C!TypeOK
  <2> QED  BY SameCardinality, <1>1, <1>2, <1>3, <2>1 DEF C!TypeOK
<1>6. Counted' /\ Unsent' /\ Late' /\ Planned'
  BY <1>1, <1>2 DEF Counted, Unsent, Late, Planned, GoneCases, Spent, Runs, C!Plan
<1>7. Kept'
  <2>1. \A v \in Worker : (Runs(v)' <=> Runs(v)) /\ (v \in GoneCases' <=> v \in GoneCases)
    BY <1>2 DEF Runs, GoneCases
  <2>2. \A c \in C!Case : c <= counter' =>
       c \in results' \/ On(c)' \/ \E w \in Worker : Runs(w)' /\ claimed'[w] = c
    BY <1>1, <1>2, <1>4, <2>1 DEF Kept
  <2>3. \A c \in C!Case : outcome[c] # "none" <=>
       c \in results' \/ On(c)' \/ \E w \in Worker : place[w] \in {"extract", "post"} /\ claimed[w] = c
    BY <1>1, <1>4 DEF Kept
  <2>4. halt' = "live" => \A v \in crew' : v \in GoneCases' => counter' >= Cases
    BY <1>1, <1>2, <2>1 DEF Kept, GoneCases
  <2> QED  BY <1>2, <2>1, <2>2, <2>3, <2>4 DEF Kept
<1>8. Ended'
  BY <1>1, <1>2 DEF Ended
<1>9. Serial'
  BY <1>1, <1>2, SameSerial
<1> QED  BY <1>5, <1>6, <1>7, <1>8, <1>9 DEF CasesInv

LEMMA ReturnKeeps == CasesInv /\ C!Return => CasesInv'
<1> SUFFICES ASSUME CasesInv, C!Return PROVE CasesInv'
  OBVIOUS
<1>1. C!TypeOK /\ Counted /\ Unsent /\ Late /\ Kept /\ Ended /\ Planned /\ Serial
  BY DEF CasesInv
<1>2. /\ UNCHANGED <<plan, crew, place, claimed, snapshot, counter, halt, tardy, runtime, judged,
                     sends, outcome, sent, results>>
      /\ sent = <<>> /\ \A w \in crew : ~C!HoldsSender(w)
      /\ handed' = IF \E w \in crew : C!HoldsVariables(w) THEN <<>> ELSE runtime
      /\ flag' = IF halt = "live" THEN "no" ELSE "yes"
      /\ command' = "returned"
  BY DEF C!Return, C!worker, C!told
<1>3. \A w \in crew : place[w] = "over"
  BY <1>1, <1>2 DEF C!HoldsSender, Counted, C!TypeOK
<1>4. handed' = runtime
  BY <1>2, <1>3 DEF C!HoldsVariables
<1>5. C!TypeOK'
  BY <1>1, <1>2, <1>4 DEF C!TypeOK
<1>6. Counted' /\ Unsent' /\ Late' /\ Planned'
  BY <1>1, <1>2 DEF Counted, Unsent, Late, Planned, GoneCases, Spent, Runs, C!Plan
<1>7. Kept'
  BY <1>1, <1>2 DEF Kept, GoneCases, On, Runs
<1>8. results = C!Case \/ flag' = "yes"
  <2> SUFFICES ASSUME halt = "live" PROVE results = C!Case
    BY <1>1, <1>2 DEF C!TypeOK
  <2>1. counter >= Cases
    BY <1>1, <1>3 DEF Kept, Counted, GoneCases
  <2>2. counter \in Nat /\ C!Case = 1 .. Cases
    BY <1>1, CA, CardOK DEF C!TypeOK, C!Case
  <2>3. \A c \in C!Case : c <= counter
    BY <2>1, <2>2, CA
  <2>4. \A w \in Worker : ~ Runs(w)
    BY <1>1, <1>3 DEF Counted, Runs
  <2>5. \A c \in C!Case : ~ On(c)
    BY <1>2 DEF On
  <2>6. \A c \in C!Case : c \in results
    BY <1>1, <2>3, <2>4, <2>5 DEF Kept
  <2> QED  BY <1>1, <2>6 DEF C!TypeOK
<1>9. Ended'
  BY <1>2, <1>3, <1>4, <1>8 DEF Ended
<1>10. Serial'
  BY <1>1, <1>2, SameSerial
<1> QED  BY <1>5, <1>6, <1>7, <1>9, <1>10 DEF CasesInv

LEMMA CancelKeeps == CasesInv /\ C!Cancel => CasesInv'
<1> SUFFICES ASSUME CasesInv, C!Cancel PROVE CasesInv'
  OBVIOUS
<1>1. C!TypeOK /\ Counted /\ Unsent /\ Late /\ Kept /\ Ended /\ Planned /\ Serial
  BY DEF CasesInv
<1>2. /\ UNCHANGED <<plan, crew, place, claimed, snapshot, counter, tardy, runtime, judged,
                     sends, outcome, sent, results, command, handed, flag>>
      /\ halt = "live" /\ halt' = "cancelled" /\ command = "running"
  BY DEF C!Cancel, C!worker, C!told, C!end
<1>3. C!TypeOK'
  BY <1>1, <1>2 DEF C!TypeOK
<1>4. Counted' /\ Unsent' /\ Late' /\ Planned'
  BY <1>1, <1>2 DEF Counted, Unsent, Late, Planned, GoneCases, Spent, Runs, C!Plan
<1>5. Kept'
  BY <1>1, <1>2 DEF Kept, GoneCases, On, Runs
<1>6. Ended'
  BY <1>2 DEF Ended
<1>7. Serial'
  BY <1>1, <1>2, SameSerial
<1> QED  BY <1>3, <1>4, <1>5, <1>6, <1>7 DEF CasesInv

-----------------------------------------------------------------------------
(* The invariant holds, and with it the property *)

LEMMA InitIInv == C!Init => CasesInv
<1> SUFFICES ASSUME C!Init PROVE CasesInv
  OBVIOUS
<1>1. C!TypeOK
  BY TypeInit
<1>2. crew # {}
  <2>1. Cardinality(crew) # 0
    BY SameCardinality, CA DEF C!Init, C!Case
  <2> QED  BY <2>1, FS_EmptySet
<1>3. GoneCases = {} /\ Cardinality(GoneCases) = 0
  <2>1. GoneCases = {}
    BY DEF GoneCases, C!Init
  <2> QED  BY <2>1, FS_EmptySet
<1>4. \A w \in Worker : ~ Runs(w)
  BY DEF Runs, C!Init
<1>5. counter = 0 /\ 0 <= Cases + 0
  BY CA DEF C!Init
<1>6. Counted
  BY <1>2, <1>3, <1>4, <1>5 DEF Counted, C!Init
<1>7. Unsent
  BY DEF Unsent, C!Init
<1>8. Late
  <2>1. Cardinality(Spent) \in Nat
    BY <1>1, CardOK
  <2> QED  BY <2>1 DEF Late, C!Init
<1>9. Kept
  <2>1. \A c \in C!Case : ~ (c <= counter) /\ ~ On(c)
    BY <1>5 DEF On, C!Case, C!Init
  <2> QED  BY <1>3, <2>1 DEF Kept, C!Init
<1>10. Ended
  BY DEF Ended, C!Init
<1>11. Planned
  BY DEF Planned, C!Init
<1>12. Serial
  <2>1. Done = 0 /\ C!Left[0] = <<>>
    <3>1. 0 \in 0 .. Cases
      BY CA
    <3>2. C!Left[0] = <<>>
      BY <3>1, LeftAt DEF Leaves
    <3>3. Done = 0
      BY <1>5, CA DEF Done
    <3> QED  BY <3>2, <3>3
  <2> QED  BY <1>4, <2>1 DEF Serial, Alone, C!Init, Runs
<1> QED  BY <1>1, <1>6, <1>7, <1>8, <1>9, <1>10, <1>11, <1>12 DEF CasesInv

LEMMA NextIInv == CasesInv /\ [C!Next]_(C!vars) => CasesInv'
<1> SUFFICES ASSUME CasesInv, [C!Next]_(C!vars) PROVE CasesInv'
  OBVIOUS
<1>1. CASE C!Receive
  BY <1>1, ReceiveKeeps
<1>2. CASE C!Return
  BY <1>2, ReturnKeeps
<1>3. CASE C!Cancel
  BY <1>3, CancelKeeps
<1>4. ASSUME NEW w \in Worker, C!Step(w) PROVE CasesInv'
  BY <1>4, TypeStep, CountedStep, UnsentStep, LateStep, KeptStep, EndedStep, PlannedStep,
       SerialStep DEF CasesInv
<1>5. CASE UNCHANGED C!vars
  <2>1. C!TypeOK /\ Counted /\ Unsent /\ Late /\ Kept /\ Ended /\ Planned /\ Serial
    BY DEF CasesInv
  <2>2. UNCHANGED <<plan, crew, place, claimed, snapshot, counter, halt, tardy, runtime, judged,
                    sends, outcome, sent, results, command, handed, flag>>
    BY <1>5 DEF C!vars, C!worker, C!told, C!end
  <2>3. C!TypeOK'
    BY <2>1, <2>2 DEF C!TypeOK
  <2>4. Counted' /\ Unsent' /\ Late' /\ Planned'
    BY <2>1, <2>2 DEF Counted, Unsent, Late, Planned, GoneCases, Spent, Runs, C!Plan
  <2>5. Kept'
    BY <2>1, <2>2 DEF Kept, GoneCases, On, Runs
  <2>6. Ended'
    BY <2>1, <2>2 DEF Ended
  <2>7. Serial'
    BY <2>1, <2>2, SameSerial
  <2> QED  BY <2>3, <2>4, <2>5, <2>6, <2>7 DEF CasesInv
<1> QED  BY <1>1, <1>2, <1>3, <1>4, <1>5 DEF C!Next

LEMMA IInvHolds == CasesInv => C!RunIsWhole /\ C!VariablesPassOn
<1> SUFFICES ASSUME CasesInv PROVE C!RunIsWhole /\ C!VariablesPassOn
  OBVIOUS
<1>1. C!TypeOK /\ Counted /\ Unsent /\ Late /\ Kept /\ Ended /\ Planned /\ Serial
  BY DEF CasesInv
<1>2. C!SentOnce
  BY <1>1 DEF Unsent, C!SentOnce
<1>3. C!CancelStopsClaims
  BY SameCardinality, <1>1, CardOK DEF Late, C!CancelStopsClaims, C!TypeOK
<1>4. C!NoResultLost
  <2> SUFFICES ASSUME command = "returned"
               PROVE  {c \in C!Case : outcome[c] # "none"} = results /\ (results # C!Case => flag = "yes")
    BY DEF C!NoResultLost
  <2>1. \A c \in C!Case : ~ On(c)
    BY <1>1 DEF On, Ended
  <2>2. \A w \in Worker : place[w] = "over"
    BY <1>1 DEF Ended, Counted
  <2>3. \A c \in C!Case : outcome[c] # "none" <=> c \in results
    BY <1>1, <2>1, <2>2 DEF Kept
  <2> QED  BY <1>1, <2>3 DEF C!TypeOK, Ended
<1>5. C!SerialHandsOn
  <2> SUFFICES ASSUME Cardinality(crew) = 1, NEW c \in C!Case, judged[c] # C!None PROVE judged[c] = Mid(c)
    BY SameCardinality DEF C!SerialHandsOn, Mid
  <2>1. PICK w : crew = {w}
    BY <1>1, CardOK, FS_Singleton
  <2> QED  BY <1>1, <2>1 DEF Serial, Alone, C!TypeOK
<1>6. C!VariablesHandedOver
  BY <1>1 DEF Ended, C!VariablesHandedOver
<1> QED  BY <1>1, <1>2, <1>3, <1>4, <1>5, <1>6 DEF C!RunIsWhole, C!VariablesPassOn

\* A run of a collection claims and sends each case at most once, counts every case
\* it sent, and its variables go from case to case and back to the caller: for any
\* number of cases, workers and cancellations (`run_collection`, runner.rs).
THEOREM CollectionIsWhole == C!Spec => []RunIsWhole
<1>1. C!Spec => []CasesInv
  BY InitIInv, NextIInv, PTL DEF C!Spec
<1>2. CasesInv => RunIsWhole
  BY IInvHolds DEF RunIsWhole
<1> QED  BY <1>1, <1>2, PTL

===============================================================================
