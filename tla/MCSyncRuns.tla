------------------------------ MODULE MCSyncRuns ------------------------------
(* The instance of SyncRuns for TLC: two requests with one idempotency key.  *)
EXTENDS SyncRuns

CONSTANTS keyed, again, r1, w1, w2, p1, p2

KeyOfDef == [q \in {keyed, again} |-> "key"]
=============================================================================
