----------------------------- MODULE RunPromise -----------------------------
(***************************************************************************)
(* What a load test promises to whoever started it                          *)
(* (crates/fox-test/src/load.rs): requests are sent in order, each at most  *)
(* once; the answer comes when none is under way, and counts every request  *)
(* that was sent.  A result that does not say cancelled counts them all.    *)
(* After a cancellation each worker may send one request more.              *)
(***************************************************************************)
EXTENDS Naturals

CONSTANTS
  Worker,  \* the workers of the pool
  Total    \* requests to send

Request == 0 .. Total - 1

VARIABLES
  status,    \* status[i]: "waiting", "sent" or "over"
  stop,      \* "wanted" once the run was cancelled, "no" before
  late,      \* workers that have sent a request after that
  answered,  \* "yes" once the result is there, "no" before
  result     \* the requests it counts, and whether it says cancelled

vars == <<status, stop, late, answered, result>>

Init ==
  /\ status = [i \in Request |-> "waiting"]
  /\ stop = "no" /\ late = {}
  /\ answered = "no" /\ result = [counted |-> {}, cancelled |-> "no"]

Send(i, w) ==
  /\ status[i] = "waiting" /\ answered = "no"
  /\ \A j \in Request : j < i => status[j] # "waiting"
  /\ stop = "wanted" => w \notin late
  /\ late' = IF stop = "wanted" THEN late \cup {w} ELSE late
  /\ status' = [status EXCEPT ![i] = "sent"]
  /\ UNCHANGED <<stop, answered, result>>

Finish(i) ==
  /\ status[i] = "sent" /\ status' = [status EXCEPT ![i] = "over"]
  /\ UNCHANGED <<stop, late, answered, result>>

\* Also after the answer: the run can still be found for a moment.
Cancel == stop' = "wanted" /\ UNCHANGED <<status, late, answered, result>>

Over == {i \in Request : status[i] = "over"}

Answer ==
  /\ answered = "no" /\ answered' = "yes"
  /\ \A i \in Request : status[i] # "sent"
  /\ stop = "wanted" \/ Over = Request
  /\ result' = [counted |-> Over, cancelled |-> stop]
  /\ UNCHANGED <<status, stop, late>>

Next ==
  \/ \E i \in Request : Finish(i) \/ \E w \in Worker : Send(i, w)
  \/ Cancel \/ Answer

Spec == Init /\ [][Next]_vars
=============================================================================
