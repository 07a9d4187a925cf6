--------------------------- MODULE MCContentReview ---------------------------
(* An instance of ContentReview for TLC. *)
EXTENDS ContentReview

CONSTANTS t1, t2, d1, e1

=============================================================================
