---------------------------- MODULE MCPersistence ----------------------------
(***************************************************************************)
(* For TLC: what the application keeps over restarts, the counters with two *)
(* keys and two callers, the sealed columns with their key, what a start    *)
(* does to the database and the logs, and the proxy, beside the cookies it  *)
(* does not keep.  They share no state, so a behaviour is one of one part.  *)
(***************************************************************************)
EXTENDS Persistence, TLC

CONSTANTS k1, k2, c1, c2

TwoKeys == {k1, k2}
TwoCallers == {c1, c2}

\* A backup that is ahead of the counters, or behind them, in one key.
Backups == {(k1 :> 2) @@ (k2 :> Absent), (k1 :> 1) @@ (k2 :> 3)}
Symmetry == Permutations(TwoCallers)

\* The api is below the site.
SiteAbove == {<<"site", "api">>}

VARIABLE part

Alone ==
  /\ part = "vault" \/ (legacy = "home" /\ keys["home"] = 0)
  /\ part = "start" \/ (keep = 1 /\ ~ahead)

MCInit == Init /\ V!Init /\ S!Init /\ H!Init /\ part \in {"counters", "vault", "start", "shared"} /\ Alone

\* The last start is over.
Over == open = "none" /\ starts = 3 /\ UNCHANGED vault

MCNext ==
  \/ part = "counters" /\ Next /\ UNCHANGED <<part, vault, boot, shared>>
  \/ part = "vault" /\ (V!Next \/ Over) /\ UNCHANGED <<part, vars, boot, shared>>
  \/ part = "start" /\ S!Next /\ UNCHANGED <<part, vars, vault, shared>>
  \/ part = "shared" /\ H!Next /\ UNCHANGED <<part, vars, vault, boot>>

MCSpec == MCInit /\ [][MCNext]_<<part, vars, vault, boot, shared>>
=============================================================================
