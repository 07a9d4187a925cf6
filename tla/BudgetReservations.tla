------------------------- MODULE BudgetReservations -------------------------
(***************************************************************************)
(* The budget reservations of packages/metering for the jobs of one        *)
(* organization and one usage kind: reserve() takes the organization's     *)
(* advisory lock, looks its key up, runs the pre-flight reads one          *)
(* statement at a time (READ COMMITTED), decides, and writes the hold; the *)
(* executors then call the provider, write the usage event and settle the  *)
(* hold outside that lock.  A job may crash anywhere and be delivered      *)
(* again; holds expire and a sweep releases them.                          *)
(***************************************************************************)
EXTENDS Integers, FiniteSets, Functions

CONSTANTS
  Jobs,           \* deliveries of work, each reserving under one key
  Keys,           \* idempotency keys
  Workspaces,     \* workspaces of the organization
  KeyOf,          \* [Jobs -> Keys]
  WorkspaceOf,    \* [Jobs -> Workspaces]
  Cost,           \* [Jobs -> Nat], estimated micros; 0 when it cannot be priced
  Inline,         \* jobs that reserve in the worker, again on each delivery
  RecordFirst,    \* jobs that write their usage event before they reconcile
  WsMax,          \* [Workspaces -> Limit], maxRequests of the workspace's limit row
  OrgMax,         \* Limit, maxRequests of the organization's limit row
  WsCeiling,      \* [Workspaces -> Nat], enforced monthly micros; 0: none
  OrgCeiling,     \* Nat
  TTL,            \* how long a hold lives
  MaxClock,       \* bound of the clock
  MaxAttempts,    \* bound of the deliveries of one job
  Timely          \* TRUE: no hold of an unfinished job is allowed to expire

NoRow == -2       \* no BudgetOperationLimit row for the scope
NoMax == -1       \* a row whose maxRequests is null
Limit == Nat \cup {NoRow, NoMax}

ASSUME ConstantsAssumption ==
  /\ Jobs # {}
  /\ KeyOf \in [Jobs -> Keys]
  /\ WorkspaceOf \in [Jobs -> Workspaces]
  /\ Cost \in [Jobs -> Nat]
  /\ Inline \subseteq Jobs /\ RecordFirst \subseteq Jobs
  /\ WsMax \in [Workspaces -> Limit] /\ OrgMax \in Limit
  /\ WsCeiling \in [Workspaces -> Nat] /\ OrgCeiling \in Nat
  /\ TTL \in Nat \ {0} /\ MaxClock \in Nat /\ MaxAttempts \in Nat
  /\ Timely \in BOOLEAN

ASSUME FinitenessAssumption == IsFiniteSet(Jobs) /\ IsFiniteSet(Keys)

VARIABLES
  pc,         \* where each job stands
  tx,         \* what each job's reserve() has read so far
  hold,       \* the BudgetReservation row of each key
  usage,      \* the UsageEvent rows, one per <<job, attempt>>
  attempts,   \* deliveries of each job so far
  clock

vars == <<pc, tx, hold, usage, attempts, clock>>

(* An operator named X_Y is X with the bug Y; the mutants of the runs use it. *)

-----------------------------------------------------------------------------
(* Rows and what is read from them *)

Statuses == {"NONE", "ACTIVE", "RECONCILED", "RELEASED"}
Holds == [status : Statuses, job : Jobs, expiresAt : Nat]
UsageEvents == Jobs \X (1 .. MaxAttempts)
Snapshots == [now : Nat, spent : SUBSET UsageEvents, held : SUBSET Keys]

NoTransaction == [now |-> 0, spent |-> {}, held |-> {}]
NoHold == [status |-> "NONE", job |-> CHOOSE j \in Jobs : TRUE, expiresAt |-> 0]

InTransaction == {"locked", "spendRead", "holdsRead"}
InFlight == {"allowed", "called", "recorded", "settled"}
Stages == {"idle", "waiting", "refused", "rejected", "done"}
            \cup InTransaction \cup InFlight

LiveAt(k, t) == hold[k].status = "ACTIVE" /\ hold[k].expiresAt > t
Live(k) == LiveAt(k, clock)
HoldWorkspace(k) == WorkspaceOf[hold[k].job]
EventWorkspace(e) == WorkspaceOf[e[1]]

EventCost == [e \in UsageEvents |-> Cost[e[1]]]
HoldCost == [k \in Keys |-> Cost[hold[k].job]]
SpentMicros(E) == SumFunctionOnSet(EventCost, E)
HeldMicros(K) == SumFunctionOnSet(HoldCost, K)

-----------------------------------------------------------------------------
(* preflight() *)

Configured(limit) == limit \notin {NoRow, NoMax}

(* strictest(): the smaller of the two maxima that are numbers. *)
MaxRequests(w) ==
  CASE ~Configured(WsMax[w]) -> OrgMax
    [] ~Configured(OrgMax)   -> WsMax[w]
    [] OTHER                 -> IF WsMax[w] < OrgMax THEN WsMax[w] ELSE OrgMax

(* The organization's events count only when the workspace has no row at all. *)
CountedFor(w, v) == v = w \/ (WsMax[w] = NoRow /\ OrgMax # NoRow)

UsedRequests(w) == Cardinality({e \in usage : CountedFor(w, EventWorkspace(e))})
HeldRequests(w, K) == Cardinality({k \in K : CountedFor(w, HoldWorkspace(k))})

OperationLimitReached_OffByOne(j) ==
  LET w == WorkspaceOf[j]
  IN  /\ Configured(MaxRequests(w))
      /\ UsedRequests(w) + HeldRequests(w, tx[j].held) > MaxRequests(w)

(* The limit is checked against the totals read last and the holds read before. *)
OperationLimitReached(j) ==
  LET w == WorkspaceOf[j]
  IN  /\ Configured(MaxRequests(w))
      /\ UsedRequests(w) + HeldRequests(w, tx[j].held) + 1 > MaxRequests(w)

CeilingReached(ceiling, E, K, j) ==
  ceiling > 0 /\ SpentMicros(E) + HeldMicros(K) + Cost[j] >= ceiling

Blocked(j) ==
  LET w == WorkspaceOf[j]
  IN  \/ OperationLimitReached(j)
      \/ CeilingReached(WsCeiling[w],
                        {e \in tx[j].spent : EventWorkspace(e) = w},
                        {k \in tx[j].held : HoldWorkspace(k) = w}, j)
      \/ CeilingReached(OrgCeiling, tx[j].spent, tx[j].held, j)

-----------------------------------------------------------------------------
(* reserve(), one action per statement that other sessions can interleave *)

(* Bounds: a job is delivered MaxAttempts times at most, and only while a    *)
(* hold it could take still expires within MaxClock.                         *)
CanCall(j) == pc[j] = "idle" /\ attempts[j] < MaxAttempts /\ clock + TTL <= MaxClock

(* The caller evaluates `now` before it waits for the lock. *)
Call(j) ==
  /\ CanCall(j)
  /\ pc' = [pc EXCEPT ![j] = "waiting"]
  /\ tx' = [tx EXCEPT ![j].now = clock]
  /\ attempts' = [attempts EXCEPT ![j] = @ + 1]
  /\ UNCHANGED <<hold, usage, clock>>

LockFree_PerWorkspace(j) ==
  \A i \in Jobs : WorkspaceOf[i] = WorkspaceOf[j] => pc[i] \notin InTransaction
LockFree_Unlocked(j) == pc[j] = "waiting"

(* The lock is keyed on the organization, whatever workspace j is in. *)
LockFree(j) == \A i \in Jobs : pc[i] \notin InTransaction

ForeignHold_Unchecked(j) == FALSE
ForeignHold(j) ==
  /\ hold[KeyOf[j]].status # "NONE"
  /\ HoldWorkspace(KeyOf[j]) # WorkspaceOf[j]

(* pg_advisory_xact_lock, then the lookup of the key: another tenant's row   *)
(* is an error and ends the transaction.                                     *)
AcquireLock(j) ==
  /\ pc[j] = "waiting" /\ LockFree(j)
  /\ pc' = [pc EXCEPT ![j] = IF ForeignHold(j) THEN "rejected" ELSE "locked"]
  /\ UNCHANGED <<tx, hold, usage, attempts, clock>>

ReadSpend(j) ==
  /\ pc[j] = "locked"
  /\ pc' = [pc EXCEPT ![j] = "spendRead"]
  /\ tx' = [tx EXCEPT ![j].spent = usage]
  /\ UNCHANGED <<hold, usage, attempts, clock>>

ReadHolds(j) ==
  /\ pc[j] = "spendRead"
  /\ pc' = [pc EXCEPT ![j] = "holdsRead"]
  /\ tx' = [tx EXCEPT ![j].held = {k \in Keys : LiveAt(k, tx[j].now)}]
  /\ UNCHANGED <<hold, usage, attempts, clock>>

(* Refused: BudgetBlockedError, or a reused hold whose decision is blocked:  *)
(* the executor writes its terminal status and settles nothing.              *)
Refuse(j) ==
  /\ pc[j] = "holdsRead" /\ Blocked(j)
  /\ pc' = [pc EXCEPT ![j] = "refused"]
  /\ tx' = [tx EXCEPT ![j] = NoTransaction]
  /\ UNCHANGED <<hold, usage, attempts, clock>>

ExpiryOf(now) == now + TTL

(* Allowed: the first caller of the key creates its hold, a later one gets   *)
(* the row as it is, whatever its status.                                    *)
Allow(j) ==
  /\ pc[j] = "holdsRead" /\ ~Blocked(j)
  /\ pc' = [pc EXCEPT ![j] = "allowed"]
  /\ hold' = IF hold[KeyOf[j]].status = "NONE"
             THEN [hold EXCEPT ![KeyOf[j]] =
                     [status |-> "ACTIVE", job |-> j, expiresAt |-> ExpiryOf(tx[j].now)]]
             ELSE hold
  /\ tx' = [tx EXCEPT ![j] = NoTransaction]
  /\ UNCHANGED <<usage, attempts, clock>>

-----------------------------------------------------------------------------
(* The executor: provider call, usage event, settlement *)

Settle_AnyStatus(j, status) ==
  LET k == KeyOf[j]
  IN  \/ hold' = hold
      \/ /\ hold[k].status # "NONE" /\ HoldWorkspace(k) = WorkspaceOf[j]
         /\ hold' = [hold EXCEPT ![k].status = status]

(* settle(): only an ACTIVE row of the caller's workspace; a failed write is *)
(* logged and swallowed, which leaves the row as it was.                     *)
Settle(j, status) ==
  LET k == KeyOf[j]
  IN  \/ hold' = hold
      \/ /\ hold[k].status = "ACTIVE" /\ HoldWorkspace(k) = WorkspaceOf[j]
         /\ hold' = [hold EXCEPT ![k].status = status]

CallProvider(j) ==
  /\ pc[j] = "allowed"
  /\ pc' = [pc EXCEPT ![j] = "called"]
  /\ UNCHANGED <<tx, hold, usage, attempts, clock>>

(* Refused, cancelled or failed before any provider call. *)
FailBeforeSpend(j) ==
  /\ pc[j] = "allowed"
  /\ Settle(j, "RELEASED")
  /\ pc' = [pc EXCEPT ![j] = "done"]
  /\ UNCHANGED <<tx, usage, attempts, clock>>

(* The publisher threw: the hold is reconciled and no usage event written. *)
ProviderThrows(j) ==
  /\ pc[j] = "called" /\ j \in RecordFirst
  /\ Settle(j, "RECONCILED")
  /\ pc' = [pc EXCEPT ![j] = "done"]
  /\ UNCHANGED <<tx, usage, attempts, clock>>

(* PrismaUsageRecorder.record: a failed insert is logged and swallowed. *)
RecordUsage(j) ==
  /\ \/ j \in RecordFirst /\ pc[j] = "called" /\ pc' = [pc EXCEPT ![j] = "recorded"]
     \/ j \notin RecordFirst /\ pc[j] = "settled" /\ pc' = [pc EXCEPT ![j] = "done"]
  /\ usage' \in {usage, usage \cup {<<j, attempts[j]>>}}
  /\ UNCHANGED <<tx, hold, attempts, clock>>

Reconcile(j) ==
  /\ \/ j \in RecordFirst /\ pc[j] = "recorded" /\ pc' = [pc EXCEPT ![j] = "done"]
     \/ j \notin RecordFirst /\ pc[j] = "called" /\ pc' = [pc EXCEPT ![j] = "settled"]
  /\ Settle(j, "RECONCILED")
  /\ UNCHANGED <<tx, usage, attempts, clock>>

-----------------------------------------------------------------------------
(* Crashes, redelivery, time *)

(* The process dies; its transaction rolls back and the lock goes with it.   *)
(* The queue delivers the job again: an inline executor reserves again under *)
(* the same key, a job whose hold the API took starts over without reserving.*)
(* A request that dies inside the API's reserve is gone.                     *)
Crash(j) ==
  /\ pc[j] \in InTransaction \cup InFlight \cup {"waiting"}
  /\ \/ j \in Inline /\ pc' = [pc EXCEPT ![j] = "idle"] /\ UNCHANGED attempts
     \/ /\ j \notin Inline
        /\ \/ pc[j] \notin InFlight
           \/ attempts[j] = MaxAttempts
        /\ pc' = [pc EXCEPT ![j] = "done"]
        /\ UNCHANGED attempts
     \/ /\ j \notin Inline /\ pc[j] \in InFlight /\ attempts[j] < MaxAttempts
        /\ pc' = [pc EXCEPT ![j] = "allowed"]
        /\ attempts' = [attempts EXCEPT ![j] = @ + 1]
  /\ tx' = [tx EXCEPT ![j] = NoTransaction]
  /\ UNCHANGED <<hold, usage, clock>>

(* A job that still has work to do under a hold it was given. *)
Unfinished(j) ==
  \/ pc[j] \in InFlight \cup InTransaction \cup {"waiting"}
  \/ CanCall(j) /\ attempts[j] > 0

(* Under Timely, work ends (or is delivered again and ends) before its hold  *)
(* expires, and a reserve() does not wait for the lock longer than a hold    *)
(* lives: Prisma ends an interactive transaction after seconds.              *)
InTime(j) ==
  /\ Unfinished(j) /\ Live(KeyOf[j]) => hold[KeyOf[j]].expiresAt > clock + 1
  /\ pc[j] \in InTransaction \cup {"waiting"} => tx[j].now + TTL > clock + 1

Tick ==
  /\ clock < MaxClock
  /\ Timely => \A j \in Jobs : InTime(j)
  /\ clock' = clock + 1
  /\ UNCHANGED <<pc, tx, hold, usage, attempts>>

Expired_Strictly(k) == hold[k].status = "ACTIVE" /\ hold[k].expiresAt < clock
Expired(k) == hold[k].status = "ACTIVE" /\ hold[k].expiresAt <= clock

(* expireStaleReservations(), the recurring budget.reservation.sweep job. *)
Sweep ==
  /\ \E k \in Keys : Expired(k)
  /\ hold' = [k \in Keys |-> IF Expired(k) THEN [hold[k] EXCEPT !.status = "RELEASED"]
                                           ELSE hold[k]]
  /\ UNCHANGED <<pc, tx, usage, attempts, clock>>

(* Every job has ended and time has run to its bound. *)
Quiescent ==
  /\ clock = MaxClock
  /\ \A j \in Jobs : pc[j] \in {"refused", "rejected", "done"}
                     \/ (pc[j] = "idle" /\ ~CanCall(j))
  /\ UNCHANGED vars

-----------------------------------------------------------------------------
Init ==
  /\ pc = [j \in Jobs |-> "idle"]
  /\ tx = [j \in Jobs |-> NoTransaction]
  /\ hold = [k \in Keys |-> NoHold]
  /\ usage = {}
  /\ attempts = [j \in Jobs |-> 0]
  /\ clock = 0

Next ==
  \/ \E j \in Jobs :
       \/ Call(j) \/ AcquireLock(j) \/ ReadSpend(j) \/ ReadHolds(j)
       \/ Refuse(j) \/ Allow(j)
       \/ CallProvider(j) \/ FailBeforeSpend(j) \/ ProviderThrows(j)
       \/ RecordUsage(j) \/ Reconcile(j) \/ Crash(j)
  \/ Tick \/ Sweep \/ Quiescent

Spec == Init /\ [][Next]_vars

(* Time passes and the sweep is a repeatable job (apps/worker, every 5 min). *)
FairSpec == Spec /\ WF_vars(Tick) /\ WF_vars(Sweep)

-----------------------------------------------------------------------------
(* Properties *)

(* Every variable keeps the shape its rows and reads have in the code. *)
TypeOK ==
  /\ pc \in [Jobs -> Stages]
  /\ tx \in [Jobs -> Snapshots]
  /\ hold \in [Keys -> Holds]
  /\ usage \subseteq UsageEvents
  /\ attempts \in [Jobs -> 0 .. MaxAttempts]
  /\ clock \in Nat

(* The live holds of a workspace never pass the largest number of requests   *)
(* its limits allow, whatever crashes, expiries and redeliveries happen:     *)
(* the decision and the hold are one step under the organization's lock.     *)
HeldRequestsWithinLimit ==
  \A w \in Workspaces :
    Configured(MaxRequests(w)) =>
      Cardinality({k \in Keys : Live(k) /\ HoldWorkspace(k) = w}) <= MaxRequests(w)

(* The estimates of the live holds of a workspace stay under its ceiling,    *)
(* and those of the organization under the organization's: ten parallel      *)
(* reserves against room for one leave one hold (ADR-0029).                  *)
HeldCostWithinCeilings ==
  LET live(w) == {k \in Keys : Live(k) /\ HoldWorkspace(k) = w}
  IN  /\ \A w \in Workspaces :
           WsCeiling[w] > 0 => HeldMicros(live(w)) < WsCeiling[w]
      /\ OrgCeiling > 0 => HeldMicros(UNION {live(w) : w \in Workspaces}) < OrgCeiling

(* Events written and calls still to be written, of workspaces v that count  *)
(* against workspace w.                                                      *)
Unrecorded(j) == pc[j] \in {"allowed", "called"} \/ (j \notin RecordFirst /\ pc[j] = "settled")

CommittedRequests(w) ==
  UsedRequests(w)
    + Cardinality({j \in Jobs : Unrecorded(j) /\ CountedFor(w, WorkspaceOf[j])})

(* Work never passes the monthly request limit, crashes and redeliveries     *)
(* included, as long as executors write the usage event before they settle:  *)
(* the totals are read after the holds, so an operation is seen as a hold,   *)
(* as an event, or as both, never as neither.                                *)
RequestsWithinLimit ==
  \A w \in Workspaces :
    /\ Configured(MaxRequests(w))
    /\ WsMax[w] # NoRow \/ \A v \in Workspaces : WsMax[v] = NoRow
    => CommittedRequests(w) <= MaxRequests(w)

(* A job that is working has a hold row, and the row is of its own tenant,   *)
(* even when another tenant came upon the same key first (reserve, 97-104).  *)
WorkIsBackedByOwnHold ==
  \A j \in Jobs : pc[j] \in InFlight =>
    /\ hold[KeyOf[j]].status # "NONE"
    /\ HoldWorkspace(KeyOf[j]) = WorkspaceOf[j]

(* A settled hold is final: a retry, a late settlement or the sweep never    *)
(* revives it or changes how it ended.                                       *)
SettledHoldsAreFinal ==
  [][\A k \in Keys : hold[k].status \in {"RECONCILED", "RELEASED"}
                        => hold'[k] = hold[k]]_vars

(* reserve(), its lock and its reads implement a budget that decides and     *)
(* holds in one step, for the settled, the expired and the redelivered too.  *)
Budget == INSTANCE AtomicBudget
            WITH RequestLimit <- [w \in Workspaces |-> MaxRequests(w)],
                 Size <- Cardinality, Total <- SumFunctionOnSet
ImplementsAtomicBudget == Budget!Spec

(* A crashed worker cannot keep an allowance: every hold stops being ACTIVE. *)
HoldsDoNotLeak ==
  \A k \in Keys : hold[k].status = "ACTIVE" ~> hold[k].status # "ACTIVE"

=============================================================================
