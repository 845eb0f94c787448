---------------------------- MODULE CollectionRun ----------------------------
(***************************************************************************)
(* A run of a collection of test cases: run_collection and run_one of       *)
(* crates/fox-test/runner.rs under the command test_collection.             *)
(*                                                                          *)
(* Actors: the command, which collects results; a fixed pool of workers,    *)
(* which share a counter of cases, a table of variables and a channel of    *)
(* results; and the user, who may cancel.  Workers run on several threads,  *)
(* so a step is what a worker does between two accesses to what they share. *)
(*                                                                          *)
(* The table is abstracted to one variable: its value is the sequence of    *)
(* the cases that it came from.  A pre_request adds its case to the value   *)
(* it has read, an extract replaces it.  What is sent was rendered by the   *)
(* command before the run and does not depend on the table.  An extract     *)
(* that finds nothing is as none.                                           *)
(***************************************************************************)
EXTENDS Naturals, Sequences, FiniteSets

CONSTANTS
  N,        \* cases of the collection, at least one
  Worker    \* workers there may be, finitely many

Case == 1 .. N

\* What the tests of a case ask for: a configuration that does not parse, none,
\* assertions, a pre_request that uses the variable, an extract, or all.
Kind == {"broken", "none", "asserts", "adds", "sets", "both"}
Result == {"broken", "skipped", "unsent", "judged"}
None == <<0>>      \* nothing read, no result yet

VARIABLES
  plan,       \* the kind of each case
  pool,       \* the workers of this run
  at, claimed,\* where each worker is, and the case it runs
  next,       \* cases claimed so far
  token,      \* the cancel token
  late,       \* cases claimed after the cancellation
  runtime,    \* the variable
  snapshot,   \* what a worker read before the pre_request
  judged,     \* what the assertions of each case read
  sends,      \* requests sent for each case
  outcome,    \* how each case ended, when its worker knows
  channel,    \* results on their way
  results,    \* cases whose result was received
  command,    \* "running" or "returned"
  handed,     \* the variable handed to the caller
  flag        \* CollectionResult::cancelled

worker == <<at, claimed, snapshot>>
told == <<channel, results>>
end == <<command, handed, flag>>
vars == <<plan, pool, worker, next, token, late, runtime, judged, sends, outcome,
          told, end>>

Init ==
  /\ plan \in [Case -> Kind]
  /\ pool \in SUBSET Worker /\ Cardinality(pool) \in Case
  /\ at = [w \in Worker |-> IF w \in pool THEN "check" ELSE "over"]
  /\ claimed = [w \in Worker |-> 1] /\ snapshot = [w \in Worker |-> None]
  /\ next = 0 /\ token = "live" /\ late = 0 /\ runtime = <<>>
  /\ judged = [c \in Case |-> None] /\ sends = [c \in Case |-> 0]
  /\ outcome = [c \in Case |-> "none"]
  /\ channel = <<>> /\ results = {}
  /\ command = "running" /\ handed = None /\ flag = "no"

Goto(w, from, to) == at[w] = from /\ at' = [at EXCEPT ![w] = to]
Ends(w, how) == outcome' = [outcome EXCEPT ![claimed[w]] = how]
Plan(w) == plan[claimed[w]]

-----------------------------------------------------------------------------
(* A worker *)

Check(w) ==
  /\ Goto(w, "check", IF token = "live" THEN "claim" ELSE "drop")
  /\ UNCHANGED <<plan, pool, claimed, snapshot, next, token, late, runtime,
                 judged, sends, outcome, told, end>>

\* Slip: the counter is loaded and stored, not incremented in one step.
ClaimStale(w) ==
  /\ Goto(w, "claim", IF next < N THEN "begin" ELSE "drop")
  /\ claimed' = [claimed EXCEPT ![w] = IF next < N THEN next + 1 ELSE @]
  /\ next' = IF \E v \in pool \ {w} : at[v] = "claim" THEN next ELSE next + 1
  /\ late' = IF token = "live" \/ next >= N THEN late ELSE late + 1
  /\ UNCHANGED <<plan, pool, snapshot, token, runtime, judged, sends, outcome,
                 told, end>>

\* fetch_add: every worker that comes too late counts once more.
Claim(w) ==
  /\ Goto(w, "claim", IF next < N THEN "begin" ELSE "drop")
  /\ claimed' = [claimed EXCEPT ![w] = IF next < N THEN next + 1 ELSE @]
  /\ next' = next + 1
  /\ late' = IF token = "live" \/ next >= N THEN late ELSE late + 1
  /\ UNCHANGED <<plan, pool, snapshot, token, runtime, judged, sends, outcome,
                 told, end>>

\* A case without tests, or whose tests do not parse, is not sent.
Skip(w) ==
  /\ Plan(w) \in {"broken", "none"} /\ Goto(w, "begin", "post")
  /\ Ends(w, IF Plan(w) = "broken" THEN "broken" ELSE "skipped")
  /\ UNCHANGED <<plan, pool, claimed, snapshot, next, token, late, runtime,
                 judged, sends, told, end>>

\* The values of pre_request are resolved against a snapshot ...
Read(w) ==
  /\ Plan(w) \notin {"broken", "none"}
  /\ Goto(w, "begin", IF Plan(w) \in {"adds", "both"} THEN "inject" ELSE "send")
  /\ snapshot' = [snapshot EXCEPT ![w] = runtime]
  /\ UNCHANGED <<plan, pool, claimed, next, token, late, runtime, judged, sends,
                 outcome, told, end>>

\* ... and written back under the lock taken anew.
Inject(w) ==
  /\ Goto(w, "inject", "send")
  /\ runtime' = Append(snapshot[w], claimed[w])
  /\ UNCHANGED <<plan, pool, claimed, snapshot, next, token, late, judged, sends,
                 outcome, told, end>>

\* The request is sent; it ends with an answer, an error or the time limit.
Send(w) ==
  /\ sends' = [sends EXCEPT ![claimed[w]] = @ + 1]
  /\ \/ Goto(w, "send", "judge") /\ UNCHANGED outcome
     \/ Goto(w, "send", "post") /\ Ends(w, "unsent")
  /\ UNCHANGED <<plan, pool, claimed, snapshot, next, token, late, runtime,
                 judged, told, end>>

Judge(w) ==
  /\ Goto(w, "judge", IF Plan(w) \in {"sets", "both"} THEN "extract" ELSE "post")
  /\ judged' = [judged EXCEPT ![claimed[w]] = runtime]
  /\ Ends(w, "judged")
  /\ UNCHANGED <<plan, pool, claimed, snapshot, next, token, late, runtime, sends,
                 told, end>>

\* What was found in the answer is merged, whether the assertions hold or not.
Extract(w) ==
  /\ Goto(w, "extract", "post")
  /\ runtime' = <<claimed[w]>>
  /\ UNCHANGED <<plan, pool, claimed, snapshot, next, token, late, judged, sends,
                 outcome, told, end>>

\* The channel holds two results for each worker; a full one makes it wait.
Post(w) ==
  /\ Len(channel) < 2 * Cardinality(pool)
  /\ Goto(w, "post", "check")
  /\ channel' = Append(channel, claimed[w])
  /\ snapshot' = [snapshot EXCEPT ![w] = None]
  /\ UNCHANGED <<plan, pool, claimed, next, token, late, runtime,
                 judged, sends, outcome, results, end>>

\* The task ends and drops what it holds in the order of first use: its share of
\* the variables (the counter's too) before the sender.
Drop(w) ==
  /\ Goto(w, "drop", "silent")
  /\ UNCHANGED <<plan, pool, claimed, snapshot, next, token, late, runtime,
                 judged, sends, outcome, told, end>>

DropLast(w) ==
  /\ at[w] \in {"silent", "hold"} /\ at' = [at EXCEPT ![w] = "over"]
  /\ UNCHANGED <<plan, pool, claimed, snapshot, next, token, late, runtime,
                 judged, sends, outcome, told, end>>

-----------------------------------------------------------------------------
(* The command and the user *)

Receive ==
  /\ channel # <<>>
  /\ results' = results \cup {Head(channel)} /\ channel' = Tail(channel)
  /\ UNCHANGED <<plan, pool, worker, next, token, late, runtime, judged, sends,
                 outcome, end>>

\* A worker holds a sender until its last step, unless it dropped that first.
HoldsSender(w) == at[w] \notin {"hold", "over"}
HoldsVariables(w) == at[w] \notin {"silent", "over"}

\* All senders are gone.  Arc::try_unwrap gives the variables if nobody else
\* holds them, and an empty table otherwise.
Return ==
  /\ command = "running" /\ channel = <<>> /\ \A w \in pool : ~HoldsSender(w)
  /\ command' = "returned"
  /\ handed' = IF \E w \in pool : HoldsVariables(w) THEN <<>> ELSE runtime
  /\ flag' = IF token = "live" THEN "no" ELSE "yes"
  /\ UNCHANGED <<plan, pool, worker, next, token, late, runtime, judged, sends,
                 outcome, told>>

\* cancel_load_test: the token is in run_cancels until the command has returned.
Cancel ==
  /\ command = "running" /\ token = "live" /\ token' = "cancelled"
  /\ UNCHANGED <<plan, pool, worker, next, late, runtime, judged, sends, outcome,
                 told, end>>

Step(w) ==
  \/ Check(w) \/ Claim(w) \/ Skip(w) \/ Read(w) \/ Inject(w) \/ Send(w)
  \/ Judge(w) \/ Extract(w) \/ Post(w) \/ Drop(w) \/ DropLast(w)

Next == Receive \/ Return \/ Cancel \/ \E w \in Worker : Step(w)

\* Workers and the command are tasks of the runtime, and every send has a time
\* limit.
Fairness ==
  /\ \A w \in Worker : WF_vars(Step(w))
  /\ WF_vars(Receive) /\ WF_vars(Return)

Spec == Init /\ [][Next]_vars
FairSpec == Spec /\ Fairness

-----------------------------------------------------------------------------
(* Properties *)

Value == Seq(0 .. N)

\* What everybody holds is of its kind; every worker counts at most once past the
\* last case, and the channel holds at most two results for each worker.
TypeOK ==
  /\ plan \in [Case -> Kind] /\ pool \subseteq Worker
  /\ at \in [Worker -> {"check", "claim", "begin", "inject", "send", "judge",
                        "extract", "post", "drop", "silent", "hold", "over"}]
  /\ claimed \in [Worker -> Case] /\ snapshot \in [Worker -> Value]
  /\ next \in 0 .. N + Cardinality(pool) /\ late \in Nat /\ token \in {"live", "cancelled"}
  /\ runtime \in Value /\ judged \in [Case -> Value]
  /\ sends \in [Case -> Nat]
  /\ outcome \in [Case -> Result \cup {"none"}]
  /\ channel \in Seq(Case) /\ Len(channel) <= 2 * Cardinality(pool)
  /\ results \subseteq Case
  /\ command \in {"running", "returned"} /\ handed \in Value
  /\ flag \in {"yes", "no"}

\* No request of a case is sent twice, whichever workers race for the counter.
SentOnce == \A c \in Case : sends[c] <= 1

\* After a cancellation a worker begins at most the one case it was about to
\* claim: CollectionOptions says that workers claim no more.
CancelStopsClaims == late <= Cardinality(pool)

\* A run returns the result of every case it claimed; a case is missing only
\* from a run that says it was cancelled.
NoResultLost ==
  command = "returned" =>
    /\ {c \in Case : outcome[c] # "none"} = results
    /\ results # Case => flag = "yes"

\* What the cases 1 .. n make of the variable, one after the other.
Left[n \in 0 .. N] ==
  IF n = 0 THEN <<>>
  ELSE IF plan[n] \in {"sets", "both"} /\ outcome[n] = "judged" THEN <<n>>
  ELSE IF plan[n] \in {"adds", "both"} THEN Append(Left[n - 1], n)
  ELSE Left[n - 1]

\* With one worker the assertions of a case read what the cases before it left
\* and what its own pre_request made of that (runner.rs: concurrency 1 is the
\* way to run a chain of cases).
SerialHandsOn ==
  Cardinality(pool) = 1 =>
    \A c \in Case : judged[c] # None =>
      judged[c] = IF plan[c] \in {"adds", "both"} THEN Append(Left[c - 1], c)
                  ELSE Left[c - 1]

\* The caller is handed the variables as the workers left them.
VariablesHandedOver == command = "returned" => handed = runtime

\* A run sends each case at most once, stops claiming when cancelled and loses no
\* result.
RunIsWhole == TypeOK /\ SentOnce /\ CancelStopsClaims /\ NoResultLost

\* Variables go from case to case and back to the caller.
VariablesPassOn == SerialHandsOn /\ VariablesHandedOver
=============================================================================
