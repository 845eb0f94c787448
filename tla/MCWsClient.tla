---------------------------- MODULE MCWsClient ----------------------------
(* WsClient with small sets of messages, for TLC. *)
EXTENDS WsClient, TLC

CONSTANTS m1, m2, m3

TwoMessages == {m1, m2}
ThreeMessages == {m1, m2, m3}

Symmetry == Permutations(Message)
=============================================================================
