----------------------------- MODULE Publishing -----------------------------
(***************************************************************************)
(* The publishing pipeline: calendar entries are scheduled, published now  *)
(* or cancelled through the API (calendar.service.ts), claimed when due by *)
(* the recurring dispatch job, and published by executePublication, one    *)
(* queue job at a time per delivery, several jobs in parallel.  A job may  *)
(* crash or throw anywhere and is delivered again; the platform is any one *)
(* that creates the post in a single request (all but Instagram, Threads   *)
(* and YouTube).  The budget decision under the organization's lock is one *)
(* step here; BudgetReservations opens it.                                 *)
(***************************************************************************)
EXTENDS Integers, FiniteSets

CONSTANTS
  Entries,        \* calendar entries
  Items,          \* content items
  ItemOf,         \* [Entries -> Items]
  Targeted,       \* entries with a social account
  Scheduled,      \* entries that exist, SCHEDULED, when the model starts
  Callers,        \* API requests, one each: schedule or publish now
  Dispatchers,    \* concurrent runs of the dispatch job
  Jobs,           \* publication.publish jobs the queue can hold (bound)
  PublishLimit,   \* maxRequests of the PUBLISH_ATTEMPT limit; 0: no limit
  MaxDeliveries,  \* attempts of a queue job (5 in the code)
  MaxCrashes,     \* bound of the crashes and failed statements
  MaxExpiries,    \* bound of the budget holds that run out of time
  Crashable,      \* which of "job", "dispatcher", "request" may crash
  Cancels         \* TRUE: operators cancel entries

ASSUME PublishingConstants ==
  /\ Entries # {}
  /\ IsFiniteSet(Callers) /\ IsFiniteSet(Dispatchers) /\ IsFiniteSet(Jobs)
  /\ ItemOf \in [Entries -> Items]
  /\ Targeted \subseteq Entries /\ Scheduled \subseteq Entries
  /\ PublishLimit \in Nat /\ MaxDeliveries \in Nat \ {0} /\ MaxCrashes \in Nat
  /\ MaxExpiries \in Nat
  /\ Crashable \subseteq {"job", "dispatcher", "request"}
  /\ Cancels \in BOOLEAN

VARIABLES
  status,      \* [Entries -> EntryStatus], ContentScheduleEntry.status
  tries,       \* [Entries -> Nat], ContentScheduleEntry.attemptCount
  due,         \* entries whose scheduledAt has passed
  item,        \* [Items -> lifecycleState], as far as publishing moves it
  designs,     \* entries whose designs were marked PUBLISHED
  request,     \* [Callers -> what the API request is doing]
  found,       \* [Dispatchers -> entries read as due, not yet flipped]
  claimed,     \* [Dispatchers -> entries flipped to QUEUED, not yet enqueued]
  job,         \* [Jobs -> the queue job and what its handler read]
  reserved,    \* budget holds ever created, as <<entry, attempt>> keys
  active,      \* those of them still ACTIVE
  expired,     \* those of them whose 10 minutes passed before they were settled
  posts,       \* [Entries -> Nat], posts on the platform
  crashes

dispatch == <<found, claimed>>
rows == <<status, tries, item, designs>>
budget == <<reserved, active, expired>>
vars == <<rows, due, request, dispatch, job, budget, posts, crashes>>

EntryStatus == {"NONE", "SCHEDULED", "QUEUED", "PUBLISHING", "PUBLISHED",
                "FAILED", "UNSUPPORTED", "CANCELLED"}
Lifecycle == {"APPROVED", "SCHEDULED", "PUBLISHED"}
Outcomes == {"PUBLISHED", "FAILED", "THROWN"}

NoEntry == CHOOSE e \in Entries : TRUE
NoRequest == [stage |-> "idle", entry |-> NoEntry, seen |-> "APPROVED"]
NoJob == [stage |-> "free", entry |-> NoEntry, deliveries |-> 0,
          attempt |-> 0, outcome |-> "FAILED"]

(* Stages of a handler that has read its entry and is not finished with it. *)
Sending == {"sending", "sent"}
Attempting == {"read", "refused", "held", "releasing", "recorded", "marked"} \cup Sending
JobStages == {"free", "waiting", "done", "dead"} \cup Attempting
RequestStages == {"idle", "creating", "linking", "queueing", "enqueueing", "done"}

(* Someone outside the queue still acts on what it read of e. *)
Requested(e) == \E c \in Callers :
  request[c].stage \in {"queueing", "enqueueing"} /\ request[c].entry = e
Dispatching(e) == \E d \in Dispatchers : e \in found[d] \cup claimed[d]
Attempted(e) == \E j \in Jobs : job[j].entry = e /\ job[j].stage \in Attempting
Waiting(e) == \E j \in Jobs : job[j].entry = e /\ job[j].stage = "waiting"

(* Nothing works on the entry. *)
AtRest(e) == ~(Requested(e) \/ Dispatching(e) \/ Attempted(e) \/ Waiting(e))

(* An operator named X_Y is X with the bug Y; the mutants of the runs use it. *)

-----------------------------------------------------------------------------
(* The queue *)

(* queue.enqueue without an idempotency key: always a job of its own. *)
Enqueue(e) ==
  \E j \in Jobs :
    /\ job[j].stage = "free"
    /\ job' = [job EXCEPT ![j] = [NoJob EXCEPT !.stage = "waiting", !.entry = e]]

-----------------------------------------------------------------------------
(* calendar.service: schedule, publishNow, cancel *)

(* The item is read and found schedulable; the entry is created afterwards. *)
ScheduleRead(c, e) ==
  /\ request[c].stage = "idle" /\ status[e] = "NONE"
  /\ \A b \in Callers : request[b].stage = "creating" => request[b].entry # e
  /\ item[ItemOf[e]] \in {"APPROVED", "SCHEDULED"}
  /\ request' = [request EXCEPT ![c] =
                   [stage |-> "creating", entry |-> e, seen |-> item[ItemOf[e]]]]
  /\ UNCHANGED <<rows, due, dispatch, job, budget, posts, crashes>>

ScheduleCreate(c) ==
  /\ request[c].stage = "creating"
  /\ status' = [status EXCEPT ![request[c].entry] = "SCHEDULED"]
  /\ request' = [request EXCEPT ![c].stage =
                   IF request[c].seen = "APPROVED" THEN "linking" ELSE "done"]
  /\ UNCHANGED <<tries, item, designs, due, dispatch, job, budget, posts, crashes>>

ScheduleLink(c) ==
  /\ request[c].stage = "linking"
  /\ item' = [item EXCEPT ![ItemOf[request[c].entry]] = "SCHEDULED"]
  /\ request' = [request EXCEPT ![c].stage = "done"]
  /\ UNCHANGED <<status, tries, designs, due, dispatch, job, budget, posts, crashes>>

PublishNowRead(c, e) ==
  /\ request[c].stage = "idle" /\ e \in Targeted
  /\ status[e] \in {"SCHEDULED", "UNSUPPORTED", "FAILED"}
  /\ request' = [request EXCEPT ![c].stage = "queueing", ![c].entry = e]
  /\ UNCHANGED <<rows, due, dispatch, job, budget, posts, crashes>>

(* The update names the id only, not the status that was read. *)
PublishNowQueue(c) ==
  /\ request[c].stage = "queueing"
  /\ status' = [status EXCEPT ![request[c].entry] = "QUEUED"]
  /\ request' = [request EXCEPT ![c].stage = "enqueueing"]
  /\ UNCHANGED <<tries, item, designs, due, dispatch, job, budget, posts, crashes>>

PublishNowEnqueue(c) ==
  /\ request[c].stage = "enqueueing"
  /\ Enqueue(request[c].entry)
  /\ request' = [request EXCEPT ![c].stage = "done"]
  /\ UNCHANGED <<rows, due, dispatch, budget, posts, crashes>>

(* Entries are never deleted, so the lookup before the update decides nothing. *)
Cancel(e) ==
  /\ Cancels /\ status[e] # "NONE"
  /\ status' = [status EXCEPT ![e] = "CANCELLED"]
  /\ UNCHANGED <<tries, item, designs, due, request, dispatch, job, budget, posts, crashes>>

-----------------------------------------------------------------------------
(* publication.dispatch: claimDuePublications, then one enqueue per claim *)

BecomesDue(e) ==
  /\ e \notin due
  /\ due' = due \cup {e}
  /\ UNCHANGED <<rows, request, dispatch, job, budget, posts, crashes>>

(* Fewer entries than the batch of 50 are ever due here, so a scan takes all. *)
Scan(d) ==
  LET ready == {e \in due \cap Targeted : status[e] = "SCHEDULED"}
  IN  /\ found[d] = {} /\ claimed[d] = {} /\ ready # {}
      /\ found' = [found EXCEPT ![d] = ready]
      /\ UNCHANGED <<rows, due, request, claimed, job, budget, posts, crashes>>

Flip_Unguarded(d, e) ==
  /\ e \in found[d]
  /\ found' = [found EXCEPT ![d] = @ \ {e}]
  /\ status' = [status EXCEPT ![e] = "QUEUED"]
  /\ claimed' = [claimed EXCEPT ![d] = @ \cup {e}]
  /\ UNCHANGED <<tries, item, designs, due, request, job, budget, posts, crashes>>

(* The guarded updateMany: an entry is claimed only if it is still SCHEDULED. *)
Flip(d, e) ==
  /\ e \in found[d]
  /\ found' = [found EXCEPT ![d] = @ \ {e}]
  /\ IF status[e] = "SCHEDULED"
     THEN /\ status' = [status EXCEPT ![e] = "QUEUED"]
          /\ claimed' = [claimed EXCEPT ![d] = @ \cup {e}]
     ELSE UNCHANGED <<status, claimed>>
  /\ UNCHANGED <<tries, item, designs, due, request, job, budget, posts, crashes>>

(* The claims are enqueued after the last flip. *)
DispatchEnqueue(d, e) ==
  /\ found[d] = {} /\ e \in claimed[d]
  /\ Enqueue(e)
  /\ claimed' = [claimed EXCEPT ![d] = @ \ {e}]
  /\ UNCHANGED <<rows, due, request, found, budget, posts, crashes>>

-----------------------------------------------------------------------------
(* executePublication *)

InStage(j, stage) == job[j].stage = stage
Goto(j, stage) == job' = [job EXCEPT ![j].stage = stage]

Dispatchable_Open(s) == s \notin {"PUBLISHED", "FAILED", "UNSUPPORTED"}
Dispatchable_Queued(s) == s = "QUEUED"
Dispatchable(s) == s \in {"QUEUED", "PUBLISHING"}

(* A delivery reads the entry, and skips one that is not dispatchable. *)
Deliver(j) ==
  /\ InStage(j, "waiting")
  /\ LET e == job[j].entry
     IN  job' = [job EXCEPT ![j] =
                   [job[j] EXCEPT !.stage = IF Dispatchable(status[e]) THEN "read" ELSE "done",
                                  !.deliveries = job[j].deliveries + 1,
                                  !.attempt = tries[e]]]
  /\ UNCHANGED <<rows, due, request, dispatch, budget, posts, crashes>>

ReservationKey_PerEntry(j) == <<job[j].entry, 0>>
ReservationKey(j) == <<job[j].entry, job[j].attempt>>

(* No usage event is ever written for a publish (the worker passes no        *)
(* recorder), so only live holds count, the job's own one included.  A key   *)
(* that was reserved before is handed back whatever became of its hold.      *)
OverLimit == PublishLimit > 0 /\ Cardinality(active) + 1 > PublishLimit

Reserve(j) ==
  /\ InStage(j, "read")
  /\ IF OverLimit
     THEN Goto(j, "refused") /\ UNCHANGED budget
     ELSE /\ Goto(j, "held")
          /\ reserved' = reserved \cup {ReservationKey(j)}
          /\ active' = IF ReservationKey(j) \in reserved THEN active
                                                         ELSE active \cup {ReservationKey(j)}
          /\ UNCHANGED expired
  /\ UNCHANGED <<rows, due, request, dispatch, posts, crashes>>

RefuseOverBudget(j) ==
  /\ InStage(j, "refused") /\ Goto(j, "done")
  /\ status' = [status EXCEPT ![job[j].entry] = "FAILED"]
  /\ UNCHANGED <<tries, item, designs, due, request, dispatch, budget, posts, crashes>>

Begin(j) ==
  /\ InStage(j, "held") /\ Goto(j, "sending")
  /\ status' = [status EXCEPT ![job[j].entry] = "PUBLISHING"]
  /\ tries' = [tries EXCEPT ![job[j].entry] = @ + 1]
  /\ UNCHANGED <<item, designs, due, request, dispatch, budget, posts, crashes>>

(* settleWithoutSending: no publisher, media gone, or invalid for the platform. *)
GiveUp(j) ==
  /\ InStage(j, "sending") /\ Goto(j, "releasing")
  /\ \E s \in {"UNSUPPORTED", "FAILED"} : status' = [status EXCEPT ![job[j].entry] = s]
  /\ UNCHANGED <<tries, item, designs, due, request, dispatch, budget, posts, crashes>>

(* The platform creates the post or not; its answer may be lost either way,  *)
(* and only a post it acknowledged is reported as PUBLISHED.                 *)
Send(j) ==
  /\ InStage(j, "sending")
  /\ \E created \in BOOLEAN, outcome \in Outcomes :
       /\ outcome = "PUBLISHED" => created
       /\ job' = [job EXCEPT ![j].stage = "sent", ![j].outcome = outcome]
       /\ posts' = IF created THEN [posts EXCEPT ![job[j].entry] = @ + 1] ELSE posts
  /\ UNCHANGED <<rows, due, request, dispatch, budget, crashes>>

(* The outcome is written; a publisher that threw is recorded as FAILED. *)
RecordOutcome_Optimistic(j) ==
  /\ InStage(j, "sent") /\ Goto(j, "recorded")
  /\ status' = [status EXCEPT ![job[j].entry] =
                  IF job[j].outcome = "FAILED" THEN "FAILED" ELSE "PUBLISHED"]
  /\ UNCHANGED <<tries, item, designs, due, request, dispatch, budget, posts, crashes>>

RecordOutcome(j) ==
  /\ InStage(j, "sent") /\ Goto(j, "recorded")
  /\ status' = [status EXCEPT ![job[j].entry] =
                  IF job[j].outcome = "PUBLISHED" THEN "PUBLISHED" ELSE "FAILED"]
  /\ UNCHANGED <<tries, item, designs, due, request, dispatch, budget, posts, crashes>>

(* The update throws: the catch block takes the attempt for a failed one. *)
RecordFails(j) ==
  /\ InStage(j, "sent") /\ job[j].outcome # "THROWN" /\ crashes < MaxCrashes
  /\ job' = [job EXCEPT ![j].outcome = "THROWN"]
  /\ crashes' = crashes + 1
  /\ UNCHANGED <<rows, due, request, dispatch, budget, posts>>

(* Bookkeeping after a success: both updates swallow their own failure.  The *)
(* catch block has none and goes straight on to its settlement.              *)
MarkPublished(j) ==
  /\ InStage(j, "recorded") /\ Goto(j, "marked")
  /\ IF job[j].outcome = "PUBLISHED"
     THEN /\ item' \in {item, [item EXCEPT ![ItemOf[job[j].entry]] = "PUBLISHED"]}
          /\ designs' \in {designs, designs \cup {job[j].entry}}
     ELSE UNCHANGED <<item, designs>>
  /\ UNCHANGED <<status, tries, due, request, dispatch, budget, posts, crashes>>

(* release() after giving up, reconcile() after sending; a failed settlement *)
(* is swallowed and leaves the hold ACTIVE.                                  *)
Settle(j) ==
  /\ job[j].stage \in {"releasing", "marked"} /\ Goto(j, "done")
  /\ active' \in {active, active \ {ReservationKey(j)}}
  /\ UNCHANGED <<rows, due, request, dispatch, reserved, expired, posts, crashes>>

(* The hold's time is up, whatever its job is doing: the pre-flight counts it*)
(* no more, and the sweep releases it.                                       *)
HoldExpires(key) ==
  /\ key \in active /\ Cardinality(expired) < MaxExpiries
  /\ active' = active \ {key}
  /\ expired' = expired \cup {key}
  /\ UNCHANGED <<rows, due, request, dispatch, job, reserved, posts, crashes>>

-----------------------------------------------------------------------------
(* Crashes: a process dies, or a statement outside a try block throws *)

Crash(who) == who \in Crashable /\ crashes < MaxCrashes /\ crashes' = crashes + 1

JobCrash(j) ==
  /\ Crash("job") /\ job[j].stage \in Attempting
  /\ Goto(j, IF job[j].deliveries < MaxDeliveries THEN "waiting" ELSE "dead")
  /\ UNCHANGED <<rows, due, request, dispatch, budget, posts>>

(* Delivered again, the dispatch job scans anew and knows nothing of its claims. *)
DispatcherCrash(d) ==
  /\ Crash("dispatcher") /\ found[d] \cup claimed[d] # {}
  /\ found' = [found EXCEPT ![d] = {}]
  /\ claimed' = [claimed EXCEPT ![d] = {}]
  /\ UNCHANGED <<rows, due, request, job, budget, posts>>

RequestCrash(c) ==
  /\ Crash("request") /\ request[c].stage \notin {"idle", "done"}
  /\ request' = [request EXCEPT ![c].stage = "done"]
  /\ UNCHANGED <<rows, due, dispatch, job, budget, posts>>

-----------------------------------------------------------------------------
Init ==
  /\ status = [e \in Entries |-> IF e \in Scheduled THEN "SCHEDULED" ELSE "NONE"]
  /\ tries = [e \in Entries |-> 0]
  /\ due = {}
  /\ item = [i \in Items |-> IF \E e \in Scheduled : ItemOf[e] = i
                             THEN "SCHEDULED" ELSE "APPROVED"]
  /\ designs = {}
  /\ request = [c \in Callers |-> NoRequest]
  /\ found = [d \in Dispatchers |-> {}]
  /\ claimed = [d \in Dispatchers |-> {}]
  /\ job = [j \in Jobs |-> NoJob]
  /\ reserved = {} /\ active = {} /\ expired = {}
  /\ posts = [e \in Entries |-> 0]
  /\ crashes = 0

RequestStep(c) ==
  \/ \E e \in Entries : ScheduleRead(c, e) \/ PublishNowRead(c, e)
  \/ ScheduleCreate(c) \/ ScheduleLink(c)
  \/ PublishNowQueue(c) \/ PublishNowEnqueue(c)

DispatchStep(d) == Scan(d) \/ \E e \in Entries : Flip(d, e) \/ DispatchEnqueue(d, e)

JobStep(j) ==
  \/ Deliver(j) \/ Reserve(j) \/ RefuseOverBudget(j) \/ Begin(j) \/ GiveUp(j)
  \/ Send(j) \/ RecordOutcome(j) \/ MarkPublished(j) \/ Settle(j)

(* Nothing is left to do. *)
Quiescent ==
  /\ \A e \in Entries : AtRest(e) /\ e \in due
  /\ UNCHANGED vars

Next ==
  \/ \E c \in Callers : RequestStep(c) \/ RequestCrash(c)
  \/ \E e \in Entries : BecomesDue(e) \/ Cancel(e)
  \/ \E d \in Dispatchers : DispatchStep(d) \/ DispatcherCrash(d)
  \/ \E j \in Jobs : JobStep(j) \/ RecordFails(j) \/ JobCrash(j)
  \/ \E key \in active : HoldExpires(key)
  \/ Quiescent

Spec == Init /\ [][Next]_vars

(* The dispatch job recurs every minute, workers take waiting jobs, handlers *)
(* and requests that do not crash go on; nobody has to make a request.       *)
FairSpec ==
  /\ Spec
  /\ \A e \in Entries : WF_vars(BecomesDue(e))
  /\ \A d \in Dispatchers : WF_vars(DispatchStep(d))
  /\ \A j \in Jobs : WF_vars(JobStep(j))
  /\ \A c \in Callers : WF_vars(RequestStep(c) /\ request[c].stage # "idle")

-----------------------------------------------------------------------------
(* Properties *)

(* Every variable keeps the shape of the rows and messages it stands for. *)
TypeOK ==
  /\ status \in [Entries -> EntryStatus]
  /\ tries \in [Entries -> Nat]
  /\ due \subseteq Entries /\ designs \subseteq Entries
  /\ item \in [Items -> Lifecycle]
  /\ request \in [Callers -> [stage : RequestStages, entry : Entries, seen : Lifecycle]]
  /\ found \in [Dispatchers -> SUBSET Entries]
  /\ claimed \in [Dispatchers -> SUBSET Entries]
  /\ job \in [Jobs -> [stage : JobStages, entry : Entries, deliveries : Nat,
                       attempt : Nat, outcome : Outcomes]]
  /\ reserved \subseteq Entries \X Nat /\ active \subseteq reserved /\ expired \subseteq reserved
  /\ posts \in [Entries -> Nat]
  /\ crashes \in Nat

(* A due entry is dispatched once, and once more for each request to publish *)
(* it now, however many dispatchers scan together and die: the guarded flip  *)
(* of claimDuePublications.                                                  *)
DispatchedOnce ==
  \A e \in Entries :
    Cardinality({j \in Jobs : job[j].stage # "free" /\ job[j].entry = e})
      + Cardinality({d \in Dispatchers : e \in claimed[d]})
      <= 1 + Cardinality({c \in Callers : request[c].stage = "done" /\ request[c].entry = e})

(* PUBLISHED is never fabricated: an entry, a content item or a design says  *)
(* it only when a post is really on the platform, whatever jobs overlap,     *)
(* throw or are delivered again.                                             *)
PublishedIsReal ==
  /\ \A e \in Entries : status[e] = "PUBLISHED" \/ e \in designs => posts[e] > 0
  /\ \A i \in Items : item[i] = "PUBLISHED" =>
       \E e \in Entries : ItemOf[e] = i /\ posts[e] > 0

(* A finished or cancelled entry nobody is in the middle of handling stays   *)
(* so and is never posted: jobs still in the queue skip it, dispatchers that *)
(* read it before do not claim it.                                           *)
Settled(e) == status[e] \in {"PUBLISHED", "CANCELLED"} /\ ~Attempted(e) /\ ~Requested(e)

SettledIsFinal ==
  [][\A e \in Entries : Settled(e) => Settled(e)' /\ posts'[e] = posts[e]]_vars

(* While a request may reach the platform, its hold is ACTIVE or has run out *)
(* of time: a retry finds the hold of its own attempt and never one that an  *)
(* earlier attempt settled.  Only another job that read the same attempt     *)
(* number can have settled it.                                               *)
Twins(j, k) == j # k /\ job[j].entry = job[k].entry /\ job[j].attempt = job[k].attempt
SendIsHeld ==
  \A j \in Jobs :
    job[j].stage \in Sending =>
      \/ ReservationKey(j) \in active \cup expired
      \/ \E k \in Jobs : Twins(j, k) /\ job[k].stage = "done"

(* What the executor says of its key, that a genuine re-publish takes a      *)
(* fresh hold: no two jobs send under one.  They do when an operator         *)
(* publishes an entry that the dispatcher takes up as well, since the number *)
(* of the attempt is read before it is counted.                              *)
RepublishHoldsAfresh ==
  \A j, k \in Jobs : Twins(j, k) => ~(job[j].stage \in Sending /\ job[k].stage \in Sending)

(* Every targeted entry ends: it is dispatched when due, and no row stays    *)
(* QUEUED or PUBLISHING (ADR-0020).                                          *)
Ended == {"PUBLISHED", "FAILED", "UNSUPPORTED", "CANCELLED"}
EntriesEnd ==
  \A e \in Targeted :
    status[e] \in {"SCHEDULED", "QUEUED", "PUBLISHING"} ~> status[e] \in Ended

=============================================================================
