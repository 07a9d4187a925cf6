----------------------------- MODULE SinglePost -----------------------------
(***************************************************************************)
(* What a retry-safe publisher promises (ADR-0036): however often an entry *)
(* is attempted, its post goes out once, an attempt that says it is out is *)
(* right, and every attempt that ends without a post may be repeated.      *)
(***************************************************************************)
EXTENDS Naturals

CONSTANT Attempts

VARIABLES
  posted,   \* posts on the platform
  report    \* [Attempts -> what each attempt told the operator]

vars == <<posted, report>>

Init ==
  /\ posted = 0
  /\ report = [a \in Attempts |-> "none"]

(* The post goes out; the attempt learns of it or not. *)
Post(a) ==
  /\ posted = 0 /\ report[a] = "none"
  /\ posted' = 1
  /\ \E r \in {"out", "again"} : report' = [report EXCEPT ![a] = r]

(* The attempt ends without posting. *)
End(a) ==
  /\ report[a] = "none"
  /\ \E r \in {"again", "refused", "out"} :
       /\ r = "out" => posted = 1
       /\ report' = [report EXCEPT ![a] = r]
  /\ UNCHANGED posted

Next == \E a \in Attempts : Post(a) \/ End(a)

Spec == Init /\ [][Next]_vars

=============================================================================
