------------------------------- MODULE LoadRun -------------------------------
(***************************************************************************)
(* A load test: the pool of workers and the aggregator of                   *)
(* crates/fox-test/src/load.rs, under the command and the registry of       *)
(* cancel tokens of crates/fox-tauri/src/commands/load_test.rs.             *)
(*                                                                          *)
(* Actors: the workers (tasks of a thread pool), the command that starts    *)
(* them and collects their samples, the user's cancel command, and the      *)
(* server, which answers, fails or times out.  A step is the code between   *)
(* two accesses to what the actors share.                                   *)
(*                                                                          *)
(* Left out: what a sample says (success or failure, duration, error),      *)
(* which nothing but the figures of the result depends on, and the order of *)
(* samples in the channel.                                                  *)
(***************************************************************************)
EXTENDS Naturals, FiniteSets

CONSTANTS
  Worker,     \* the spawned workers (the concurrency, clamped)
  Total,      \* requests to send (clamped to at least 1)
  MaxCancels  \* bound: cancel commands

ASSUME LoadAssumption ==
  /\ Total \in Nat \ {0} /\ MaxCancels \in Nat
  /\ IsFiniteSet(Worker) /\ Worker # {}

Request == 0 .. Total - 1

VARIABLES
  phase,     \* of the command
  registry,  \* run_cancels has the run's token: "in" or "out"
  token,     \* CancellationToken: "live" or "cancelled"
  next,      \* the shared counter
  at,        \* where each worker is
  mine,      \* the request a worker has claimed
  channel,   \* requests whose samples were sent and not yet received
  counted,   \* requests whose samples were received
  done,      \* samples received
  shown,     \* done of the last progress event
  answer,    \* the result: requests counted, and whether it says cancelled
  canceller, \* cancel_run: "idle", or "holding" the token it removed
  cancels,   \* counter for MaxCancels
  late       \* history: workers that claimed a request after the cancellation

shared == <<registry, token, canceller, cancels>>
pool == <<next, at, mine, late>>
sums == <<counted, done, shown>>
vars == <<phase, shared, pool, channel, sums, answer>>

Init ==
  /\ phase = "loading" /\ registry = "out" /\ token = "live"
  /\ next = 0 /\ at = [w \in Worker |-> "unborn"]
  /\ mine = [w \in Worker |-> 0]
  /\ channel = {} /\ counted = {}
  /\ done = 0 /\ shown = 0
  /\ answer = [counted |-> {}, cancelled |-> "no"]
  /\ canceller = "idle" /\ cancels = 0 /\ late = {}

Goto(w, place) == at' = [at EXCEPT ![w] = place]

-----------------------------------------------------------------------------
(* The command, before its workers run. *)

\* Variables and parameters are loaded; the token is registered.
Register ==
  /\ phase = "loading" /\ phase' = "registered" /\ registry' = "in"
  /\ UNCHANGED <<token, canceller, cancels, pool, channel, sums, answer>>

SpawnWorkers ==
  /\ phase = "registered" /\ phase' = "running"
  /\ at' = [w \in Worker |-> "check"]
  /\ UNCHANGED <<shared, next, mine, late, channel, sums, answer>>

-----------------------------------------------------------------------------
(* A worker *)

\* Slip: the token is not looked at.
CheckTokenNever(w) ==
  /\ at[w] = "check" /\ Goto(w, "claim")
  /\ UNCHANGED <<phase, shared, next, mine, late, channel, sums, answer>>

\* Slip: a worker that finds the token cancelled looks again.
CheckTokenAgain(w) ==
  /\ at[w] = "check"
  /\ Goto(w, IF token = "cancelled" THEN "check" ELSE "claim")
  /\ UNCHANGED <<phase, shared, next, mine, late, channel, sums, answer>>

CheckToken(w) ==
  /\ at[w] = "check"
  /\ Goto(w, IF token = "cancelled" THEN "done" ELSE "claim")
  /\ UNCHANGED <<phase, shared, next, mine, late, channel, sums, answer>>

Claim(w) ==
  /\ at[w] = "claim"
  /\ next' = next + 1
  /\ Goto(w, IF next >= Total THEN "done" ELSE "send")
  /\ mine' = IF next >= Total THEN mine ELSE [mine EXCEPT ![w] = next]
  /\ late' = IF next < Total /\ token = "cancelled" THEN late \cup {w} ELSE late
  /\ UNCHANGED <<phase, shared, channel, sums, answer>>

\* send_request_capped returns: the server's answer, an error, the timeout or,
\* after a cancellation, its abort.
SendReturns(w) ==
  /\ at[w] = "send" /\ Goto(w, "deliver")
  /\ UNCHANGED <<phase, shared, next, mine, late, channel, sums, answer>>

\* The channel holds two samples per worker; the sender waits for room.
Deliver(w) ==
  /\ at[w] = "deliver" /\ Goto(w, "check")
  /\ Cardinality(channel) < 2 * Cardinality(Worker)
  /\ channel' = channel \cup {mine[w]}
  /\ mine' = [mine EXCEPT ![w] = 0]
  /\ UNCHANGED <<phase, shared, next, late, sums, answer>>

-----------------------------------------------------------------------------
(* The aggregator *)

\* Slip: the samples that are waiting are received at once and counted as one.
ReceiveBatch ==
  /\ phase = "running" /\ channel # {}
  /\ channel' = {} /\ counted' = counted \cup channel
  /\ done' = done + 1
  /\ shown' \in IF done + 1 < Total THEN {shown, done + 1} ELSE {done + 1}
  /\ UNCHANGED <<phase, shared, pool, answer>>

\* A sample is counted; progress is shown at most every 100 ms, but always for
\* the last one.
Receive ==
  /\ phase = "running"
  /\ \E i \in channel : channel' = channel \ {i} /\ counted' = counted \cup {i}
  /\ done' = done + 1
  /\ shown' \in IF done + 1 < Total THEN {shown, done + 1} ELSE {done + 1}
  /\ UNCHANGED <<phase, shared, pool, answer>>

Wanted == IF token = "cancelled" THEN "wanted" ELSE "no"

\* Every worker is gone and the channel is empty.
Collect ==
  /\ phase = "running"
  /\ channel = {} /\ \A w \in Worker : at[w] = "done"
  /\ phase' = "collected"
  /\ answer' = [counted |-> counted, cancelled |-> Wanted]
  /\ UNCHANGED <<shared, pool, channel, sums>>

Return ==
  /\ phase = "collected" /\ phase' = "returned"
  /\ registry' = "out"
  /\ UNCHANGED <<token, canceller, cancels, pool, channel, sums, answer>>

-----------------------------------------------------------------------------
(* cancel_run takes the token out of the registry under its lock and        *)
(* cancels it afterwards; without a token it answers false.                 *)

TakeToken ==
  /\ canceller = "idle" /\ cancels < MaxCancels /\ cancels' = cancels + 1
  /\ canceller' = IF registry = "in" THEN "holding" ELSE "idle"
  /\ registry' = "out"
  /\ UNCHANGED <<phase, token, pool, channel, sums, answer>>

CancelToken ==
  /\ canceller = "holding" /\ canceller' = "idle"
  /\ token' = "cancelled"
  /\ UNCHANGED <<phase, registry, cancels, pool, channel, sums, answer>>

-----------------------------------------------------------------------------

Work(w) ==
  CheckToken(w) \/ Claim(w) \/ SendReturns(w) \/ Deliver(w)

Command == Register \/ SpawnWorkers \/ Receive \/ Collect \/ Return

\* The command has returned and no cancel command is under way.
Terminated == phase = "returned" /\ canceller = "idle" /\ UNCHANGED vars

Next ==
  \/ Command \/ TakeToken \/ CancelToken \/ Terminated
  \/ \E w \in Worker : Work(w)

Spec == Init /\ [][Next]_vars

\* Tasks are polled, locks are free between steps, and every request ends by
\* its timeout.  Nobody has to cancel.
Fairness ==
  /\ WF_vars(Command) /\ WF_vars(CancelToken)
  /\ \A w \in Worker : WF_vars(Work(w))

FairSpec == Spec /\ Fairness

-----------------------------------------------------------------------------
(* Properties *)

TypeOK ==
  /\ phase \in {"loading", "registered", "running", "collected", "returned"}
  /\ registry \in {"in", "out"} /\ token \in {"live", "cancelled"}
  /\ next \in 0 .. Total + Cardinality(Worker)
  /\ at \in [Worker -> {"unborn", "check", "claim", "send", "deliver", "done"}]
  /\ mine \in [Worker -> Request]
  /\ channel \subseteq Request /\ counted \subseteq Request
  /\ done \in 0 .. Total /\ shown \in 0 .. done
  /\ answer \in [counted : SUBSET Request, cancelled : {"no", "wanted"}]
  /\ canceller \in {"idle", "holding"} /\ cancels \in 0 .. MaxCancels
  /\ late \subseteq Worker

\* What the promise sees of a request.
Status(i) ==
  IF i >= next THEN "waiting"
  ELSE IF \E w \in Worker : at[w] = "send" /\ mine[w] = i THEN "sent"
  ELSE "over"

Promise == INSTANCE RunPromise
  WITH status <- [i \in Request |-> Status(i)],
       stop <- Wanted,
       answered <- IF phase \in {"collected", "returned"} THEN "yes" ELSE "no",
       result <- answer

\* A load test keeps its promise: each request is sent at most once and in
\* order, all of them unless cancelled, at most one more per worker after a
\* cancellation, and none that was sent is missing from the result.
KeepsPromise == Promise!Spec

\* The numbers of the result are those of the samples: a sample is neither
\* dropped nor counted twice on its way through the channel.
SumsAgree == done = Cardinality(counted)

\* When the command returns its token is gone from the registry, whoever took
\* it out, so that no later cancel finds a run that is over.
RegistryCleared == phase = "returned" => registry = "out"

\* The last progress event of a run that was not cancelled shows all requests.
ProgressComplete == phase = "collected" /\ token = "live" => shown = Total

\* What the command leaves behind: sums of every sample, a last event that shows
\* them all, and no token.
ResultWhole == TypeOK /\ SumsAgree /\ RegistryCleared /\ ProgressComplete
=============================================================================
