---------------------------- MODULE AtomicBudget ----------------------------
(***************************************************************************)
(* What a budget promises to parallel work (ADR-0029): to find room and to *)
(* hold it is one step.  Room is what is left beside every live hold, a    *)
(* hold ends by a settlement of its tenant or by its age, and for good.    *)
(* How a job gets there, by a lock, by reads and again after a crash, is   *)
(* not to be seen.                                                         *)
(***************************************************************************)
EXTENDS Integers

CONSTANTS
  Jobs, Keys,
  KeyOf, WorkspaceOf, Cost,   \* of each job
  RequestLimit,               \* [Workspaces -> Int]; negative: none
  WsCeiling, OrgCeiling,      \* micros; 0: none
  TTL,
  Size(_),                    \* the number of holds in a set
  Total(_, _)                 \* the sum of a function over a set of holds

VARIABLES hold, clock

vars == <<hold, clock>>

Live == {k \in Keys : hold[k].status = "ACTIVE" /\ hold[k].expiresAt > clock}
LiveOf(w) == {k \in Live : WorkspaceOf[hold[k].job] = w}
Micros(K) == Total([k \in Keys |-> Cost[hold[k].job]], K)

Fits(cost, K, ceiling) == ceiling > 0 => Micros(K) + cost < ceiling

Room(j) ==
  LET w == WorkspaceOf[j]
  IN  /\ RequestLimit[w] >= 0 => Size(LiveOf(w)) < RequestLimit[w]
      /\ Fits(Cost[j], LiveOf(w), WsCeiling[w])
      /\ Fits(Cost[j], Live, OrgCeiling)

Init ==
  /\ \A k \in Keys : hold[k].status = "NONE"
  /\ clock = 0

(* A hold lives from when the job asked for it. *)
Reserve(j) ==
  /\ hold[KeyOf[j]].status = "NONE" /\ Room(j)
  /\ \E asked \in 0 .. clock :
       hold' = [hold EXCEPT ![KeyOf[j]] =
                  [status |-> "ACTIVE", job |-> j, expiresAt |-> asked + TTL]]
  /\ UNCHANGED clock

Settle(j) ==
  LET k == KeyOf[j]
  IN  /\ hold[k].status = "ACTIVE" /\ WorkspaceOf[hold[k].job] = WorkspaceOf[j]
      /\ \E status \in {"RECONCILED", "RELEASED"} : hold' = [hold EXCEPT ![k].status = status]
      /\ UNCHANGED clock

ReleaseExpired ==
  /\ hold' = [k \in Keys |-> IF hold[k].status = "ACTIVE" /\ hold[k].expiresAt <= clock
                             THEN [hold[k] EXCEPT !.status = "RELEASED"] ELSE hold[k]]
  /\ UNCHANGED clock

TimePasses == clock' = clock + 1 /\ UNCHANGED hold

Next ==
  \/ \E j \in Jobs : Reserve(j) \/ Settle(j)
  \/ ReleaseExpired \/ TimePasses

Spec == Init /\ [][Next]_vars

=============================================================================
