---------------------------- MODULE MCConnections ----------------------------
(* The instance of Connections for TLC.                                      *)
EXTENDS Connections, TLC

CONSTANTS c1, c2, f1, f2, k1, k2, x1, w1, api

ConnectionSymmetry == Permutations(Connections) \cup Permutations(Flows) \cup Permutations(Callbacks)
=============================================================================
