-------------------------------- MODULE MCOAuth --------------------------------
(***************************************************************************)
(* For TLC: refreshes by two callers, or three authorization flows.  What   *)
(* they share is the cache, in which OAuthRefresh has the tokens of         *)
(* authorizations appear, so a behaviour here is one of one of them.        *)
(***************************************************************************)
EXTENDS OAuth

CONSTANTS c1, c2, f1, f2, f3

TwoCallers == {c1, c2}
ThreeFlows == {f1, f2, f3}

VARIABLE part

MCInit ==
  /\ Init /\ F!Init /\ part \in {"refresh", "flow"}
  /\ part = "flow" => stale = {}

MCNext ==
  \/ part = "refresh" /\ Next /\ UNCHANGED <<part, flow>>
  \/ part = "flow" /\ F!Next /\ UNCHANGED <<part, vars>>

MCSpec == MCInit /\ [][MCNext]_<<part, vars, flow>> /\ Fairness /\ F!Fairness

\* Calls for a token end; so do flows, and they leave the callback port free.
AllEnd == CallsEnd /\ F!FlowsEnd
=============================================================================
