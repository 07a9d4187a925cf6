--------------------------- MODULE MCRunExecution ---------------------------
(* The instance of RunExecution for TLC: two calls start the first run.      *)
EXTENDS RunExecution

CONSTANTS s1, s2, s3, r1, r2, c1, w1, w2

RunOfDef == [s \in Starts |-> IF s = s3 THEN r2 ELSE r1]
=============================================================================
