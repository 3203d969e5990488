---------------------------- MODULE MCRequestLog ----------------------------
(* Model-checking instances of RequestLog.                                 *)
EXTENDS RequestLog, TLC

CONSTANTS i1, i2

MCFinishedAt == (i1 :> 0) @@ (i2 :> 0)
Symmetry     == Permutations(Requests)
=============================================================================
