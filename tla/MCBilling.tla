------------------------------ MODULE MCBilling ------------------------------
(* An instance of Billing for TLC. *)
EXTENDS Billing, TLC

CONSTANTS r1, r2, k1, k2, basic, v1, v2, v3

(* Requests, keys and the events of the subscription are interchangeable. *)
Alike == Permutations(Callers) \cup Permutations({v1, v2}) \cup Permutations(ChargeKeys)

TwoCredits == [k \in ChargeKeys |-> 2]
OneCredit == [p \in Plans |-> 1]
Kinds == [e \in Events |-> CASE e \in {v1, v2} -> "subscription" [] e = v3 -> "failed"]
=============================================================================
