--------------------------- MODULE MCActiveContext ---------------------------
(* ActiveContext with two projects of one environment each, for TLC. *)
EXTENDS ActiveContext, TLC

CONSTANTS p1, p2, e1, e2, c1, c2

TwoProjects == {p1, p2}
TwoEnvs == {e1, e2}
EnvOwner == (e1 :> p1) @@ (e2 :> p2)
TwoCallers == {c1, c2}

AllOps == {"SetProject", "SetEnv", "Variables", "SaveProject", "SaveEnv",
           "DeleteProject", "DeleteEnv"}
=============================================================================
