---------------------------- MODULE MCPublishing ----------------------------
(* Instances of Publishing for TLC: entries e1 and e2 of one content item. *)
EXTENDS Publishing

CONSTANTS e1, e2, i1

OneItem == [e \in Entries |-> i1]

=============================================================================
