------------------------------- MODULE TestRuns -------------------------------
(***************************************************************************)
(* What runs on workers until it ends by itself, a load test beside a        *)
(* collection of cases: crates/fox-test/load.rs and runner.rs.  Both take    *)
(* their workers from one pool of threads and share nothing else.            *)
(***************************************************************************)
EXTENDS LoadRun, Sequences

CONSTANT Cases   \* cases of the collection

ASSUME CasesAssumption == Cases \in Nat \ {0}

VARIABLES
  plan, crew, place, claimed, counter, halt, tardy, runtime, snapshot, judged,
  sends, outcome, sent, results, command, handed, flag

cases == <<plan, crew, place, claimed, counter, halt, tardy, runtime, snapshot, judged,
           sends, outcome, sent, results, command, handed, flag>>

C == INSTANCE CollectionRun WITH
  N <- Cases, pool <- crew, at <- place, next <- counter, token <- halt,
  late <- tardy, channel <- sent

\* A run of a collection sends each case at most once and loses no result, and its
\* variables go from case to case and back to the caller.
RunIsWhole == C!RunIsWhole /\ C!VariablesPassOn
=============================================================================
