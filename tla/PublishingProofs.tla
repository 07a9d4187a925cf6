-------------------------- MODULE PublishingProofs --------------------------
(***************************************************************************)
(* However many dispatchers, jobs and requests there are, and wherever     *)
(* they crash: what the rows say of a post is true, a settled entry stays  *)
(* settled, and an entry is dispatched once and once more for each request *)
(* to publish it.  A request to a platform is made under a hold that is    *)
(* ACTIVE, ran out of time, or was settled by another job of the attempt.  *)
(***************************************************************************)
EXTENDS Publishing, FiniteSetTheorems, TLAPS

RequestRecords == [stage : RequestStages, entry : Entries, seen : Lifecycle]
JobRecords == [stage : JobStages, entry : Entries, deliveries : Nat,
               attempt : Nat, outcome : Outcomes]

Live(j) == job[j].stage \in Attempting \cup {"waiting"}
Pending(c) == request[c].stage \in {"queueing", "enqueueing"}

(* A post that an attempt was told of is on the platform. *)
AcknowledgedInv == \A j \in Jobs :
  job[j].stage \in {"sent", "recorded"} /\ job[j].outcome = "PUBLISHED" => posts[job[j].entry] > 0

(* An entry is created once, and nobody handles one that does not exist. *)
CreatedInv ==
  /\ \A c \in Callers : request[c].stage = "creating" => status[request[c].entry] = "NONE"
  /\ \A b, c \in Callers :
       request[b].stage = "creating" /\ request[c].stage = "creating"
         /\ request[b].entry = request[c].entry => b = c
  /\ \A c \in Callers : Pending(c) => status[request[c].entry] # "NONE"
  /\ \A d \in Dispatchers : \A e \in found[d] \cup claimed[d] : status[e] # "NONE"
  /\ \A j \in Jobs : job[j].stage # "free" => status[job[j].entry] # "NONE"

(* Jobs, claims and answered requests of an entry; until it leaves           *)
(* SCHEDULED, only requests have made jobs of it.                            *)
JobsOf(e) == {j \in Jobs : job[j].stage # "free" /\ job[j].entry = e}
ClaimsOf(e) == {d \in Dispatchers : e \in claimed[d]}
AnsweredFor(e) == {c \in Callers : request[c].stage = "done" /\ request[c].entry = e}
CountInv == \A e \in Entries :
  Cardinality(JobsOf(e)) + Cardinality(ClaimsOf(e))
    <= (IF status[e] \in {"NONE", "SCHEDULED"} THEN 0 ELSE 1) + Cardinality(AnsweredFor(e))

-----------------------------------------------------------------------------
(* The types. *)

(* The records of Init have their types. *)
LEMMA FirstRecords == NoRequest \in RequestRecords /\ NoJob \in JobRecords
<1>1. NoEntry \in Entries
  BY PublishingConstants DEF NoEntry
<1> QED
  BY <1>1 DEF NoRequest, NoJob, RequestRecords, JobRecords, RequestStages, Lifecycle, JobStages, Outcomes

(* Initially entries exist or not, and nothing else does. *)
LEMMA InitType == Init => TypeOK
BY FirstRecords, PublishingConstants
DEF Init, TypeOK, RequestRecords, JobRecords, EntryStatus, Lifecycle

(* A new job of an entry. *)
LEMMA EnqueueFacts ==
  ASSUME TypeOK, NEW e \in Entries, Enqueue(e)
  PROVE  /\ job' \in [Jobs -> JobRecords]
         /\ \E j \in Jobs : /\ job[j].stage = "free" /\ job'[j].stage = "waiting" /\ job'[j].entry = e
                            /\ \A i \in Jobs \ {j} : job'[i] = job[i]
<1>1. PICK j \in Jobs : job[j].stage = "free"
                        /\ job' = [job EXCEPT ![j] = [NoJob EXCEPT !.stage = "waiting", !.entry = e]]
  BY DEF Enqueue
<1>2. [NoJob EXCEPT !.stage = "waiting", !.entry = e] \in JobRecords
      /\ [NoJob EXCEPT !.stage = "waiting", !.entry = e].stage = "waiting"
      /\ [NoJob EXCEPT !.stage = "waiting", !.entry = e].entry = e
  BY FirstRecords DEF JobRecords, JobStages, NoJob
<1>3. job \in [Jobs -> JobRecords]
  BY DEF TypeOK, JobRecords
<1> QED
  BY <1>1, <1>2, <1>3

(* A delivery counts itself and notes the attempt it will make. *)
LEMMA DeliveredRecord ==
  ASSUME NEW row \in JobRecords, NEW s \in JobStages, NEW m \in Nat, NEW n \in Nat
  PROVE  /\ [row EXCEPT !.stage = s, !.deliveries = m, !.attempt = n] \in JobRecords
         /\ [row EXCEPT !.stage = s, !.deliveries = m, !.attempt = n].entry = row.entry
         /\ [row EXCEPT !.stage = s, !.deliveries = m, !.attempt = n].stage = s
<1> HIDE DEF JobStages
<1> QED
  BY DEF JobRecords

(* What a job's step leaves alone, and how it moves its job. *)
LEMMA JobFacts ==
  ASSUME TypeOK, NEW j \in Jobs, JobStep(j) \/ RecordFails(j) \/ JobCrash(j)
  PROVE  /\ Live(j) /\ job' \in [Jobs -> JobRecords]
         /\ \A i \in Jobs \ {j} : job'[i] = job[i]
         /\ job'[j].entry = job[j].entry /\ job'[j].stage # "free"
         /\ UNCHANGED <<due, request, found, claimed>>
<1>0. job \in [Jobs -> JobRecords] /\ \A e \in Entries : tries[e] \in Nat
  BY DEF TypeOK, JobRecords
<1> USE DEF JobRecords, JobStages, Attempting, Sending, Outcomes, dispatch, InStage, Goto, Live
<1>1. CASE Deliver(j)
  <2> DEFINE s == IF Dispatchable(status[job[j].entry]) THEN "read" ELSE "done"
  <2> DEFINE row == [job[j] EXCEPT !.stage = s, !.deliveries = job[j].deliveries + 1,
                                   !.attempt = tries[job[j].entry]]
  <2>1. job' = [job EXCEPT ![j] = row]
    BY <1>1 DEF Deliver
  <2>2. row \in JobRecords /\ row.entry = job[j].entry /\ row.stage # "free"
    <3>1. /\ job[j] \in JobRecords /\ s \in JobStages /\ s # "free"
          /\ job[j].deliveries + 1 \in Nat /\ tries[job[j].entry] \in Nat
      BY <1>0
    <3> HIDE DEF s, JobStages
    <3> QED
      BY <3>1, DeliveredRecord
  <2> HIDE DEF row
  <2> QED
    BY <1>0, <1>1, <2>1, <2>2 DEF Deliver
<1>2. CASE Reserve(j)
  BY <1>0, <1>2 DEF Reserve
<1>3. CASE RefuseOverBudget(j) \/ Begin(j) \/ GiveUp(j) \/ RecordOutcome(j)
  BY <1>0, <1>3 DEF RefuseOverBudget, Begin, GiveUp, RecordOutcome
<1>4. CASE Send(j)
  <2>1. PICK outcome \in Outcomes : job' = [job EXCEPT ![j].stage = "sent", ![j].outcome = outcome]
    BY <1>4 DEF Send
  <2>2. job'[j] = [job[j] EXCEPT !.stage = "sent", !.outcome = outcome] /\ \A i \in Jobs \ {j} : job'[i] = job[i]
    BY <1>0, <2>1
  <2>3. [job[j] EXCEPT !.stage = "sent", !.outcome = outcome] \in JobRecords
    BY <1>0
  <2>4. DOMAIN job' = Jobs /\ job' = [i \in Jobs |-> job'[i]]
    BY <1>0, <2>1
  <2> QED
    BY <1>0, <1>4, <2>2, <2>3, <2>4 DEF Send
<1>5. CASE MarkPublished(j) \/ Settle(j)
  BY <1>0, <1>5 DEF MarkPublished, Settle
<1>6. CASE RecordFails(j)
  BY <1>0, <1>6 DEF RecordFails
<1>7. CASE JobCrash(j)
  BY <1>0, <1>7 DEF JobCrash
<1> QED
  BY <1>1, <1>2, <1>3, <1>4, <1>5, <1>7, <1>6 DEF JobStep

(* What a request's step leaves alone, and how it moves its request. *)
LEMMA RequestTypes ==
  ASSUME TypeOK, NEW c \in Callers, RequestStep(c) \/ RequestCrash(c)
  PROVE  request' \in [Callers -> RequestRecords] /\ \A b \in Callers \ {c} : request'[b] = request[b]
<1>0. request \in [Callers -> RequestRecords] /\ \A e \in Entries : item[ItemOf[e]] \in Lifecycle
  BY PublishingConstants DEF TypeOK, RequestRecords
<1> USE DEF RequestRecords, RequestStages
<1>1. ASSUME NEW e \in Entries, ScheduleRead(c, e) PROVE request' \in [Callers -> RequestRecords]
  BY <1>0, <1>1 DEF ScheduleRead
<1>2. ASSUME NEW e \in Entries, PublishNowRead(c, e)
      PROVE  request' \in [Callers -> RequestRecords] /\ \A b \in Callers \ {c} : request'[b] = request[b]
  <2>1. request'[c] = [request[c] EXCEPT !.stage = "queueing", !.entry = e]
        /\ \A b \in Callers \ {c} : request'[b] = request[b]
    BY <1>0, <1>2 DEF PublishNowRead
  <2>2. [request[c] EXCEPT !.stage = "queueing", !.entry = e] \in RequestRecords
    BY <1>0
  <2>3. request' = [b \in Callers |-> request'[b]]
    BY <1>0, <1>2 DEF PublishNowRead
  <2>4. \A b \in Callers : request'[b] \in RequestRecords
    <3> HIDE DEF RequestRecords
    <3> QED
      BY <1>0, <2>1, <2>2
  <2> HIDE DEF RequestRecords
  <2> QED
    BY <2>1, <2>3, <2>4
<1>3. CASE ScheduleCreate(c) \/ ScheduleLink(c) \/ PublishNowQueue(c) \/ PublishNowEnqueue(c) \/ RequestCrash(c)
  BY <1>0, <1>3 DEF ScheduleCreate, ScheduleLink, PublishNowQueue, PublishNowEnqueue, RequestCrash
<1> QED
  BY <1>0, <1>1, <1>2, <1>3 DEF RequestStep, ScheduleRead

(* The steps keep the types. *)
LEMMA NextType == TypeOK /\ [Next]_vars => TypeOK'
<1> SUFFICES ASSUME TypeOK, [Next]_vars PROVE TypeOK'
  OBVIOUS
<1>0. /\ job \in [Jobs -> JobRecords] /\ request \in [Callers -> RequestRecords]
  BY DEF TypeOK, JobRecords, RequestRecords
<1>1. ASSUME NEW c \in Callers, RequestStep(c) \/ RequestCrash(c) PROVE TypeOK'
  <2>1. request' \in [Callers -> RequestRecords]
    BY <1>1, RequestTypes
  <2>2. job' \in [Jobs -> JobRecords]
    BY <1>0, <1>1, EnqueueFacts DEF RequestStep, RequestCrash, ScheduleRead, ScheduleCreate, ScheduleLink,
         PublishNowRead, PublishNowQueue, PublishNowEnqueue, RequestRecords
  <2>3. request[c].entry \in Entries /\ ItemOf[request[c].entry] \in Items
    BY <1>0, PublishingConstants DEF RequestRecords
  <2>4. status' \in [Entries -> EntryStatus]
    BY <1>1, <2>3 DEF RequestStep, RequestCrash, ScheduleRead, ScheduleCreate, ScheduleLink,
         PublishNowRead, PublishNowQueue, PublishNowEnqueue, TypeOK, EntryStatus, rows
  <2>5. item' \in [Items -> Lifecycle] /\ crashes' \in Nat
    BY <1>1, <2>3 DEF RequestStep, RequestCrash, ScheduleRead, ScheduleCreate, ScheduleLink,
         PublishNowRead, PublishNowQueue, PublishNowEnqueue, TypeOK, Lifecycle, Crash, rows
  <2>6. UNCHANGED <<tries, designs, due, dispatch, budget, posts>>
    BY <1>1 DEF RequestStep, RequestCrash, ScheduleRead, ScheduleCreate, ScheduleLink,
         PublishNowRead, PublishNowQueue, PublishNowEnqueue, rows
  <2> QED
    BY <2>1, <2>2, <2>4, <2>5, <2>6 DEF TypeOK, dispatch, budget, JobRecords, RequestRecords
<1>2. ASSUME NEW d \in Dispatchers, DispatchStep(d) \/ DispatcherCrash(d) PROVE TypeOK'
  <2>1. job' \in [Jobs -> JobRecords]
    BY <1>0, <1>2, EnqueueFacts DEF DispatchStep, DispatcherCrash, Scan, Flip, DispatchEnqueue
  <2>2. found' \in [Dispatchers -> SUBSET Entries] /\ claimed' \in [Dispatchers -> SUBSET Entries]
    BY <1>2 DEF DispatchStep, DispatcherCrash, Scan, Flip, DispatchEnqueue, TypeOK
  <2>3. status' \in [Entries -> EntryStatus] /\ crashes' \in Nat
    BY <1>2 DEF DispatchStep, DispatcherCrash, Scan, Flip, DispatchEnqueue, TypeOK, EntryStatus, Crash, rows
  <2>4. UNCHANGED <<tries, item, designs, due, request, budget, posts>>
    BY <1>2 DEF DispatchStep, DispatcherCrash, Scan, Flip, DispatchEnqueue, rows
  <2> QED
    BY <2>1, <2>2, <2>3, <2>4 DEF TypeOK, budget, JobRecords
<1>3. ASSUME NEW j \in Jobs, JobStep(j) \/ RecordFails(j) \/ JobCrash(j) PROVE TypeOK'
  <2>0. job[j].entry \in Entries /\ job[j].attempt \in Nat
    BY <1>0 DEF JobRecords
  <2>1. job' \in [Jobs -> JobRecords] /\ UNCHANGED <<due, request, found, claimed>>
    BY <1>3, JobFacts
  <2>2. status' \in [Entries -> EntryStatus] /\ tries' \in [Entries -> Nat] /\ posts' \in [Entries -> Nat]
    BY <1>3, <2>0 DEF TypeOK, EntryStatus, JobStep, Deliver, Reserve, RefuseOverBudget, Begin, GiveUp, Send,
         RecordOutcome, MarkPublished, Settle, RecordFails, JobCrash, rows
  <2>3. item' \in [Items -> Lifecycle] /\ designs' \subseteq Entries /\ crashes' \in Nat
    BY <1>3, <2>0, PublishingConstants DEF TypeOK, Lifecycle, JobStep, Deliver, Reserve, RefuseOverBudget, Begin,
         GiveUp, Send, RecordOutcome, MarkPublished, Settle, RecordFails, JobCrash, Crash, rows
  <2>4. reserved' \subseteq Entries \X Nat /\ active' \subseteq reserved' /\ expired' \subseteq reserved'
    BY <1>3, <2>0 DEF TypeOK, ReservationKey, JobStep, Deliver, Reserve, RefuseOverBudget, Begin,
         GiveUp, Send, RecordOutcome, MarkPublished, Settle, RecordFails, JobCrash, budget
  <2> QED
    BY <2>1, <2>2, <2>3, <2>4 DEF TypeOK, JobRecords
<1>4. CASE \E e \in Entries : BecomesDue(e) \/ Cancel(e)
  BY <1>4 DEF BecomesDue, Cancel, TypeOK, EntryStatus, rows, dispatch, budget
<1>5. CASE UNCHANGED vars
  BY <1>5 DEF vars, rows, dispatch, budget, TypeOK
<1>6. CASE \E key \in active : HoldExpires(key)
  BY <1>6 DEF HoldExpires, rows, dispatch, TypeOK
<1> QED
  BY <1>1, <1>2, <1>3, <1>4, <1>5, <1>6 DEF Next, Quiescent

(* The rows, requests, claims, jobs and holds stay in the sets declared for  *)
(* them.                                                                     *)
THEOREM TypeCorrect == Spec => []TypeOK
<1> QED
  BY InitType, NextType, PTL DEF Spec

-----------------------------------------------------------------------------
(* What is reported as published is. *)

(* A job's step concerns its entry, which no longer waits for its date, and  *)
(* takes no post back.                                                       *)
LEMMA JobEffects ==
  ASSUME TypeOK, NEW j \in Jobs, JobStep(j) \/ RecordFails(j) \/ JobCrash(j)
  PROVE  /\ job[j].entry \in Entries
         /\ \A e \in Entries \ {job[j].entry} :
              status'[e] = status[e] /\ tries'[e] = tries[e] /\ posts'[e] = posts[e]
         /\ \/ status' = status
            \/ status'[job[j].entry] \notin {"NONE", "SCHEDULED"}
         /\ posts'[job[j].entry] >= posts[job[j].entry]
<1>1. job[j].entry \in Entries /\ \A e \in Entries : posts[e] \in Nat
  BY DEF TypeOK
<1>2. \A e \in Entries \ {job[j].entry} : status'[e] = status[e]
  BY <1>1 DEF TypeOK, JobStep, Deliver, Reserve, RefuseOverBudget, Begin, GiveUp, Send,
       RecordOutcome, MarkPublished, Settle, RecordFails, JobCrash, rows
<1>3. \A e \in Entries \ {job[j].entry} : tries'[e] = tries[e]
  BY <1>1 DEF TypeOK, JobStep, Deliver, Reserve, RefuseOverBudget, Begin, GiveUp, Send,
       RecordOutcome, MarkPublished, Settle, RecordFails, JobCrash, rows
<1>4. /\ \A e \in Entries \ {job[j].entry} : posts'[e] = posts[e]
      /\ posts'[job[j].entry] >= posts[job[j].entry]
  BY <1>1 DEF TypeOK, JobStep, Deliver, Reserve, RefuseOverBudget, Begin, GiveUp, Send,
       RecordOutcome, MarkPublished, Settle, RecordFails, JobCrash, rows
<1>5. status' = status \/ status'[job[j].entry] \notin {"NONE", "SCHEDULED"}
  BY <1>1 DEF TypeOK, JobStep, Deliver, Reserve, RefuseOverBudget, Begin, GiveUp, Send,
       RecordOutcome, MarkPublished, Settle, RecordFails, JobCrash, rows
<1> QED
  BY <1>1, <1>2, <1>3, <1>4, <1>5

(* Requests, dispatchers, operators and the sweep report nothing as          *)
(* published, and settle no hold.                                            *)
LEMMA OutsideReports ==
  ASSUME TypeOK,
         \/ \E c \in Callers : RequestStep(c) \/ RequestCrash(c)
         \/ \E d \in Dispatchers : DispatchStep(d) \/ DispatcherCrash(d)
         \/ \E e \in Entries : BecomesDue(e) \/ Cancel(e)
         \/ \E key \in active : HoldExpires(key)
         \/ UNCHANGED vars
  PROVE  /\ UNCHANGED <<posts, designs, tries, reserved>>
         /\ active \cup expired \subseteq active' \cup expired'
         /\ \A e \in Entries : status'[e] = "PUBLISHED" => status[e] = "PUBLISHED"
         /\ \A i \in Items : item'[i] = "PUBLISHED" => item[i] = "PUBLISHED"
         /\ \A j \in Jobs : job'[j] = job[j] \/ (job'[j].stage = "waiting" /\ job[j].stage = "free")
<1>0. request \in [Callers -> RequestRecords]
  BY DEF TypeOK, RequestRecords
<1>1. ASSUME NEW c \in Callers, RequestStep(c) \/ RequestCrash(c)
      PROVE  /\ UNCHANGED <<posts, designs, tries, reserved, active, expired>>
             /\ \A e \in Entries : status'[e] = "PUBLISHED" => status[e] = "PUBLISHED"
             /\ \A i \in Items : item'[i] = "PUBLISHED" => item[i] = "PUBLISHED"
             /\ job' = job \/ \E e \in Entries : Enqueue(e)
  BY <1>0, <1>1 DEF TypeOK, RequestRecords, RequestStep, RequestCrash, ScheduleRead, ScheduleCreate, ScheduleLink,
       PublishNowRead, PublishNowQueue, PublishNowEnqueue, rows, budget
<1>2. ASSUME NEW d \in Dispatchers, DispatchStep(d) \/ DispatcherCrash(d)
      PROVE  /\ UNCHANGED <<posts, designs, tries, reserved, active, expired>>
             /\ \A e \in Entries : status'[e] = "PUBLISHED" => status[e] = "PUBLISHED"
             /\ item' = item
             /\ job' = job \/ \E e \in Entries : Enqueue(e)
  BY <1>2 DEF TypeOK, DispatchStep, DispatcherCrash, Scan, Flip, DispatchEnqueue, rows, budget
<1>3. CASE \E e \in Entries : BecomesDue(e) \/ Cancel(e)
  <2>1. PICK e \in Entries : BecomesDue(e) \/ Cancel(e)
    BY <1>3
  <2>2. UNCHANGED <<posts, designs, tries, reserved, active, expired, item, job>>
    BY <2>1 DEF BecomesDue, Cancel, rows, budget
  <2>3. \A x \in Entries : status'[x] = "PUBLISHED" => status[x] = "PUBLISHED"
    BY <2>1 DEF TypeOK, BecomesDue, Cancel, rows
  <2> QED
    BY <2>2, <2>3
<1>4. CASE UNCHANGED vars
  BY <1>4 DEF vars, rows, budget
<1>5. ASSUME job' = job \/ \E e \in Entries : Enqueue(e)
      PROVE  \A j \in Jobs : job'[j] = job[j] \/ (job'[j].stage = "waiting" /\ job[j].stage = "free")
  BY <1>5, EnqueueFacts
<1>6. CASE \E c \in Callers : RequestStep(c) \/ RequestCrash(c)
  BY <1>1, <1>5, <1>6
<1>7. CASE \E d \in Dispatchers : DispatchStep(d) \/ DispatcherCrash(d)
  BY <1>2, <1>5, <1>7
<1>8. CASE \E key \in active : HoldExpires(key)
  BY <1>8 DEF HoldExpires, rows
<1> QED
  BY <1>3, <1>4, <1>6, <1>7, <1>8

RealInv == AcknowledgedInv /\ PublishedIsReal

(* A job reports what it was told, and marks what it reported. *)
LEMMA NextReal == TypeOK /\ RealInv /\ [Next]_vars => RealInv'
<1> SUFFICES ASSUME TypeOK, RealInv, [Next]_vars PROVE RealInv'
  OBVIOUS
<1>0. \A e \in Entries : posts[e] \in Nat
  BY DEF TypeOK
<1>1. ASSUME NEW j \in Jobs, JobStep(j) \/ RecordFails(j) \/ JobCrash(j) PROVE RealInv'
  <2>1. \A e \in Entries : posts[e] > 0 => posts'[e] > 0
    <3>1. TypeOK' /\ \A e \in Entries : posts'[e] >= posts[e]
      BY <1>0, <1>1, JobEffects, NextType
    <3>2. \A e \in Entries : posts'[e] \in Nat
      BY <3>1 DEF TypeOK
    <3> QED
      BY <1>0, <3>1, <3>2 DEF TypeOK
  <2>2. job[j].stage \in {"sent", "recorded"} /\ job[j].outcome = "PUBLISHED" => posts[job[j].entry] > 0
    BY DEF RealInv, AcknowledgedInv
  <2>3. job'[j].stage \in {"sent", "recorded"} /\ job'[j].outcome = "PUBLISHED" => posts'[job[j].entry] > 0
    <3>0. job \in [Jobs -> JobRecords] /\ job[j].entry \in Entries
      BY DEF TypeOK, JobRecords
    <3>1. CASE Send(j)
      BY <1>0, <3>0, <3>1 DEF Send, TypeOK, JobRecords
    <3>2. CASE RecordOutcome(j)
      BY <2>1, <2>2, <3>0, <3>2 DEF RecordOutcome, InStage, Goto, JobRecords
    <3>3. CASE RecordFails(j)
      BY <3>0, <3>3 DEF RecordFails, JobRecords
    <3>4. CASE Deliver(j)
      BY <3>0, <3>4 DEF Deliver, JobRecords
    <3>5. CASE Reserve(j) \/ RefuseOverBudget(j) \/ Begin(j) \/ GiveUp(j) \/ MarkPublished(j)
               \/ Settle(j) \/ JobCrash(j)
      BY <3>0, <3>5 DEF Reserve, RefuseOverBudget, Begin, GiveUp, MarkPublished, Settle, JobCrash, Goto, JobRecords
    <3> QED
      BY <1>1, <3>1, <3>2, <3>3, <3>4, <3>5 DEF JobStep
  <2>4. AcknowledgedInv'
    BY <1>1, <2>1, <2>3, JobFacts DEF RealInv, AcknowledgedInv, TypeOK
  <2>5. \A e \in Entries : status'[e] = "PUBLISHED" \/ e \in designs' => posts'[e] > 0
    BY <1>1, <2>1, <2>2 DEF RealInv, PublishedIsReal, TypeOK, JobStep, Deliver, Reserve, RefuseOverBudget, Begin,
       GiveUp, Send, RecordOutcome, MarkPublished, Settle, RecordFails, JobCrash, InStage, rows
  <2>6. \A i \in Items : item'[i] = "PUBLISHED" => \E e \in Entries : ItemOf[e] = i /\ posts'[e] > 0
    BY <1>1, <2>1, <2>2 DEF RealInv, PublishedIsReal, TypeOK, JobStep, Deliver, Reserve, RefuseOverBudget, Begin,
       GiveUp, Send, RecordOutcome, MarkPublished, Settle, RecordFails, JobCrash, InStage, rows
  <2> QED
    BY <2>4, <2>5, <2>6 DEF RealInv, PublishedIsReal
<1>2. CASE \/ \E c \in Callers : RequestStep(c) \/ RequestCrash(c)
           \/ \E d \in Dispatchers : DispatchStep(d) \/ DispatcherCrash(d)
           \/ \E e \in Entries : BecomesDue(e) \/ Cancel(e)
           \/ \E key \in active : HoldExpires(key)
           \/ UNCHANGED vars
  BY <1>2, OutsideReports DEF RealInv, AcknowledgedInv, PublishedIsReal
<1> QED
  BY <1>1, <1>2 DEF Next, Quiescent

(* An entry, an item or a design says published only when a post is there. *)
THEOREM PublishedIsRealAlways == Spec => []PublishedIsReal
<1>1. Init => RealInv
  BY FirstRecords DEF Init, RealInv, AcknowledgedInv, PublishedIsReal, NoJob
<1>2. RealInv => PublishedIsReal
  BY DEF RealInv
<1> QED
  BY <1>1, <1>2, TypeCorrect, NextReal, PTL DEF Spec

-----------------------------------------------------------------------------
(* What has ended stays so. *)

(* Steps that create no entry keep what is known of the ones there are. *)
LEMMA NothingCreated ==
  ASSUME TypeOK, TypeOK', CreatedInv,
         \A e \in Entries : status'[e] = "NONE" <=> status[e] = "NONE",
         \A c \in Callers :
           \/ request'[c] = request[c]
           \/ request'[c].stage # "creating" /\ (Pending(c)' => status[request'[c].entry] # "NONE"),
         \A d \in Dispatchers : \A e \in found'[d] \cup claimed'[d] : status[e] # "NONE",
         \A j \in Jobs : job'[j].stage # "free" => status[job'[j].entry] # "NONE"
  PROVE  CreatedInv'
<1>0. /\ \A c \in Callers : request[c].entry \in Entries /\ request'[c].entry \in Entries
      /\ \A d \in Dispatchers : found'[d] \cup claimed'[d] \subseteq Entries
      /\ \A j \in Jobs : job'[j].entry \in Entries
  BY DEF TypeOK
<1>1. \A c \in Callers : request'[c].stage = "creating" => request'[c] = request[c]
  OBVIOUS
<1>2. (\A c \in Callers : request[c].stage = "creating" => status[request[c].entry] = "NONE")'
  BY <1>0, <1>1 DEF CreatedInv
<1>3. (\A b, c \in Callers :
        request[b].stage = "creating" /\ request[c].stage = "creating"
          /\ request[b].entry = request[c].entry => b = c)'
  BY <1>1 DEF CreatedInv
<1>4. (\A c \in Callers : Pending(c) => status[request[c].entry] # "NONE")'
  BY <1>0 DEF CreatedInv, Pending
<1>5. (\A d \in Dispatchers : \A e \in found[d] \cup claimed[d] : status[e] # "NONE")'
  BY <1>0
<1>6. (\A j \in Jobs : job[j].stage # "free" => status[job[j].entry] # "NONE")'
  BY <1>0
<1> QED
  BY <1>2, <1>3, <1>4, <1>5, <1>6 DEF CreatedInv

(* A request creates its entry, or handles one that exists. *)
LEMMA RequestCreates ==
  ASSUME TypeOK, TypeOK', CreatedInv, NEW c \in Callers, RequestStep(c) \/ RequestCrash(c)
  PROVE  CreatedInv'
<1>0. /\ request \in [Callers -> RequestRecords] /\ \A b \in Callers \ {c} : request'[b] = request[b]
      /\ request[c].entry \in Entries /\ status \in [Entries -> EntryStatus]
      /\ found' = found /\ claimed' = claimed
  BY RequestTypes DEF TypeOK, RequestRecords, RequestStep, RequestCrash, ScheduleRead, ScheduleCreate, ScheduleLink,
       PublishNowRead, PublishNowQueue, PublishNowEnqueue, dispatch
<1>1. ASSUME NEW e \in Entries, ScheduleRead(c, e) PROVE CreatedInv'
  <2>1. /\ request'[c].stage = "creating" /\ request'[c].entry = e /\ status[e] = "NONE"
        /\ \A b \in Callers : request[b].stage = "creating" => request[b].entry # e
        /\ UNCHANGED <<status, job>>
    BY <1>0, <1>1 DEF ScheduleRead, rows
  <2>2. (\A b \in Callers : request[b].stage = "creating" => status[request[b].entry] = "NONE")'
    BY <1>0, <2>1 DEF CreatedInv
  <2>3. (\A a, b \in Callers :
          request[a].stage = "creating" /\ request[b].stage = "creating"
            /\ request[a].entry = request[b].entry => a = b)'
    BY <1>0, <2>1 DEF CreatedInv
  <2>4. (\A b \in Callers : Pending(b) => status[request[b].entry] # "NONE")'
    BY <1>0, <2>1 DEF CreatedInv, Pending
  <2>5. (\A d \in Dispatchers : \A x \in found[d] \cup claimed[d] : status[x] # "NONE")'
    BY <1>0, <2>1 DEF CreatedInv
  <2>6. (\A j \in Jobs : job[j].stage # "free" => status[job[j].entry] # "NONE")'
    BY <2>1 DEF CreatedInv
  <2> QED
    BY <2>2, <2>3, <2>4, <2>5, <2>6 DEF CreatedInv
<1>2. CASE ScheduleCreate(c)
  <2>1. request[c].stage = "creating" /\ request'[c].stage \in {"linking", "done"}
        /\ status' = [status EXCEPT ![request[c].entry] = "SCHEDULED"] /\ job' = job
    BY <1>0, <1>2 DEF ScheduleCreate, RequestRecords
  <2>2. \A b \in Callers : request'[b].stage = "creating" =>
          request'[b] = request[b] /\ request[b].entry # request[c].entry /\ request[b].entry \in Entries
    BY <1>0, <2>1 DEF CreatedInv, RequestRecords
  <2>3. \A e \in Entries : status'[e] = "NONE" <=> status[e] = "NONE" /\ e # request[c].entry
    BY <1>0, <2>1
  <2>4. \A b \in Callers : Pending(b)' => request'[b] = request[b] /\ request[b].entry \in Entries
    BY <1>0, <2>1 DEF Pending, RequestRecords
  <2>5. (\A b \in Callers : request[b].stage = "creating" => status[request[b].entry] = "NONE")'
    BY <2>2, <2>3 DEF CreatedInv
  <2>6. (\A a, b \in Callers :
          request[a].stage = "creating" /\ request[b].stage = "creating"
            /\ request[a].entry = request[b].entry => a = b)'
    BY <2>2 DEF CreatedInv
  <2>7. (\A b \in Callers : Pending(b) => status[request[b].entry] # "NONE")'
    BY <2>3, <2>4 DEF CreatedInv, Pending
  <2>8. (\A d \in Dispatchers : \A e \in found[d] \cup claimed[d] : status[e] # "NONE")'
    BY <1>0, <2>3 DEF CreatedInv, TypeOK
  <2>9. (\A j \in Jobs : job[j].stage # "free" => status[job[j].entry] # "NONE")'
    BY <2>1, <2>3 DEF CreatedInv, TypeOK
  <2> QED
    BY <2>5, <2>6, <2>7, <2>8, <2>9 DEF CreatedInv
<1>3. ASSUME NEW e \in Entries, PublishNowRead(c, e) PROVE CreatedInv'
  <2>1. request'[c].stage = "queueing" /\ request'[c].entry = e /\ status[e] # "NONE" /\ UNCHANGED <<status, job>>
    BY <1>0, <1>3 DEF PublishNowRead, RequestRecords, rows
  <2> QED
    BY <1>0, <2>1, NothingCreated DEF CreatedInv
<1>4. CASE PublishNowQueue(c)
  <2>1. request'[c].stage = "enqueueing" /\ request'[c].entry = request[c].entry /\ job' = job
        /\ status[request[c].entry] # "NONE" /\ \A e \in Entries : status'[e] = "NONE" <=> status[e] = "NONE"
    BY <1>0, <1>4 DEF PublishNowQueue, RequestRecords, CreatedInv, Pending
  <2> QED
    BY <1>0, <2>1, NothingCreated DEF CreatedInv
<1>5. CASE PublishNowEnqueue(c)
  <2>1. request'[c].stage = "done" /\ status' = status /\ status[request[c].entry] # "NONE"
    BY <1>0, <1>5 DEF PublishNowEnqueue, RequestRecords, CreatedInv, Pending, rows
  <2>2. \A j \in Jobs : job'[j] = job[j] \/ job'[j].entry = request[c].entry
    BY <1>0, <1>5, EnqueueFacts DEF PublishNowEnqueue
  <2>3. \A j \in Jobs : job'[j].stage # "free" => status[job'[j].entry] # "NONE"
    BY <2>1, <2>2 DEF CreatedInv
  <2> QED
    BY <1>0, <2>1, <2>3, NothingCreated DEF CreatedInv, Pending
<1>6. CASE ScheduleLink(c) \/ RequestCrash(c)
  <2>1. request'[c].stage = "done" /\ UNCHANGED <<status, job>>
    BY <1>0, <1>6 DEF ScheduleLink, RequestCrash, RequestRecords, rows
  <2> QED
    BY <1>0, <2>1, NothingCreated DEF CreatedInv, Pending
<1> QED
  BY <1>1, <1>2, <1>3, <1>4, <1>5, <1>6 DEF RequestStep

(* Nobody else creates an entry. *)
LEMMA NextCreated == TypeOK /\ CreatedInv /\ [Next]_vars => CreatedInv'
<1> SUFFICES ASSUME TypeOK, CreatedInv, [Next]_vars PROVE CreatedInv'
  OBVIOUS
<1>0. TypeOK' /\ status \in [Entries -> EntryStatus]
  BY NextType DEF TypeOK
<1>1. ASSUME NEW c \in Callers, RequestStep(c) \/ RequestCrash(c) PROVE CreatedInv'
  BY <1>0, <1>1, RequestCreates
<1>2. ASSUME NEW d \in Dispatchers, DispatchStep(d) \/ DispatcherCrash(d) PROVE CreatedInv'
  <2>1. request' = request
    BY <1>2 DEF DispatchStep, DispatcherCrash, Scan, Flip, DispatchEnqueue
  <2>2. \A e \in Entries : status'[e] = "NONE" <=> status[e] = "NONE"
    BY <1>0, <1>2 DEF DispatchStep, DispatcherCrash, Scan, Flip, DispatchEnqueue, rows
  <2>3. \A x \in Dispatchers : \A e \in found'[x] \cup claimed'[x] : status[e] # "NONE"
    BY <1>2 DEF CreatedInv, TypeOK, DispatchStep, DispatcherCrash, Scan, Flip, DispatchEnqueue
  <2>4. \A j \in Jobs : job'[j].stage # "free" => status[job'[j].entry] # "NONE"
    BY <1>2, EnqueueFacts DEF CreatedInv, DispatchStep, DispatcherCrash, Scan, Flip, DispatchEnqueue
  <2> QED
    BY <1>0, <2>1, <2>2, <2>3, <2>4, NothingCreated
<1>3. ASSUME NEW j \in Jobs, JobStep(j) \/ RecordFails(j) \/ JobCrash(j) PROVE CreatedInv'
  <2>1. job[j].stage # "free" /\ UNCHANGED <<request, found, claimed>>
    BY <1>3, JobFacts DEF Live, Attempting, Sending
  <2>2. \A e \in Entries : status'[e] = "NONE" <=> status[e] = "NONE"
    BY <1>3, <2>1, JobEffects DEF CreatedInv
  <2>3. \A i \in Jobs : job'[i].stage # "free" => status[job'[i].entry] # "NONE"
    BY <1>3, <2>1, JobFacts DEF CreatedInv
  <2> QED
    BY <1>0, <2>1, <2>2, <2>3, NothingCreated DEF CreatedInv
<1>4. ASSUME NEW e \in Entries, BecomesDue(e) \/ Cancel(e) PROVE CreatedInv'
  <2>1. /\ UNCHANGED <<request, found, claimed, job>>
        /\ \A x \in Entries : status'[x] = "NONE" <=> status[x] = "NONE"
    BY <1>0, <1>4 DEF BecomesDue, Cancel, rows, dispatch
  <2> QED
    BY <1>0, <2>1, NothingCreated DEF CreatedInv
<1>5. CASE UNCHANGED vars \/ \E key \in active : HoldExpires(key)
  BY <1>5 DEF HoldExpires, vars, rows, dispatch, CreatedInv, Pending
<1> QED
  BY <1>1, <1>2, <1>3, <1>4, <1>5 DEF Next, Quiescent

(* The entries of the beginning exist, and nobody works. *)
LEMMA InitCreated == Init => CreatedInv
BY DEF Init, CreatedInv, Pending, NoRequest, NoJob

(* A settled entry is left alone: only a request that is about it, a job    *)
(* that has read it and a dispatcher that finds it SCHEDULED write to it.    *)
LEMMA SettledStays ==
  ASSUME TypeOK, CreatedInv, Next, NEW e \in Entries, Settled(e)
  PROVE  Settled(e)' /\ posts'[e] = posts[e]
<1>0. /\ request \in [Callers -> RequestRecords] /\ status \in [Entries -> EntryStatus]
      /\ status[e] \in {"PUBLISHED", "CANCELLED"} /\ ~Attempted(e) /\ ~Requested(e)
  BY DEF TypeOK, RequestRecords, Settled
<1>1. ASSUME NEW c \in Callers, RequestStep(c) \/ RequestCrash(c) PROVE Settled(e)' /\ posts'[e] = posts[e]
  <2>1. \A b \in Callers \ {c} : request'[b] = request[b]
    BY <1>1, RequestTypes
  <2>2. status'[e] = status[e]
    BY <1>0, <1>1 DEF CreatedInv, Requested, RequestRecords, RequestStep, RequestCrash, ScheduleRead, ScheduleCreate,
         ScheduleLink, PublishNowRead, PublishNowQueue, PublishNowEnqueue, rows
  <2>3. ~(request'[c].stage \in {"queueing", "enqueueing"} /\ request'[c].entry = e)
    BY <1>0, <1>1 DEF Requested, RequestRecords, RequestStep, RequestCrash, ScheduleRead, ScheduleCreate,
         ScheduleLink, PublishNowRead, PublishNowQueue, PublishNowEnqueue
  <2>4. posts' = posts /\ \A j \in Jobs : job'[j] = job[j] \/ job'[j].stage = "waiting"
    BY <1>1, OutsideReports
  <2> QED
    BY <1>0, <2>1, <2>2, <2>3, <2>4 DEF Settled, Requested, Attempted, Attempting, Sending
<1>2. ASSUME NEW d \in Dispatchers, DispatchStep(d) \/ DispatcherCrash(d) PROVE Settled(e)' /\ posts'[e] = posts[e]
  <2>1. status'[e] = status[e] /\ request' = request
    BY <1>0, <1>2 DEF DispatchStep, DispatcherCrash, Scan, Flip, DispatchEnqueue, rows
  <2>2. posts' = posts /\ \A j \in Jobs : job'[j] = job[j] \/ job'[j].stage = "waiting"
    BY <1>2, OutsideReports
  <2> QED
    BY <1>0, <2>1, <2>2 DEF Settled, Requested, Attempted, Attempting, Sending
<1>3. ASSUME NEW j \in Jobs, JobStep(j) \/ RecordFails(j) \/ JobCrash(j) PROVE Settled(e)' /\ posts'[e] = posts[e]
  <2>1. CASE job[j].entry = e
    <3>1. job[j].stage = "waiting"
      BY <1>0, <1>3, <2>1, JobFacts DEF Live, Attempted
    <3>2. Deliver(j)
      BY <1>3, <3>1 DEF JobStep, Reserve, RefuseOverBudget, Begin, GiveUp, Send, RecordOutcome, MarkPublished,
           Settle, RecordFails, JobCrash, InStage, Attempting, Sending
    <3>3. job'[j].stage = "done" /\ UNCHANGED <<status, posts, request>>
      BY <1>0, <2>1, <3>2 DEF Deliver, Dispatchable, TypeOK, rows
    <3> QED
      BY <1>0, <1>3, <3>3, JobFacts DEF Settled, Requested, Attempted, Attempting, Sending
  <2>2. CASE job[j].entry # e
    BY <1>0, <1>3, <2>2, JobFacts, JobEffects DEF Settled, Requested, Attempted
  <2> QED
    BY <2>1, <2>2
<1>4. ASSUME NEW x \in Entries, BecomesDue(x) \/ Cancel(x) PROVE Settled(e)' /\ posts'[e] = posts[e]
  BY <1>0, <1>4 DEF BecomesDue, Cancel, rows, Settled, Requested, Attempted
<1>5. CASE UNCHANGED vars \/ \E key \in active : HoldExpires(key)
  BY <1>0, <1>5 DEF HoldExpires, vars, rows, Settled, Requested, Attempted
<1> QED
  BY <1>1, <1>2, <1>3, <1>4, <1>5 DEF Next, Quiescent

(* A published or cancelled entry that nobody is in the middle of handling   *)
(* stays as it is and is never posted.                                       *)
THEOREM SettledStaysAlways == Spec => SettledIsFinal
<1>1. ASSUME TypeOK, CreatedInv, [Next]_vars
      PROVE  [\A e \in Entries : Settled(e) => Settled(e)' /\ posts'[e] = posts[e]]_vars
  BY <1>1, SettledStays
<1>2. Spec => []CreatedInv
  BY InitCreated, NextCreated, TypeCorrect, PTL DEF Spec
<1> QED
  BY <1>1, <1>2, TypeCorrect, PTL DEF Spec, SettledIsFinal

-----------------------------------------------------------------------------
(* An entry is dispatched once, and once more per answered request. *)

(* The sets that are counted are finite. *)
LEMMA Counted ==
  ASSUME NEW e
  PROVE  /\ IsFiniteSet(JobsOf(e)) /\ IsFiniteSet(ClaimsOf(e)) /\ IsFiniteSet(AnsweredFor(e))
         /\ IsFiniteSet(JobsOf(e)') /\ IsFiniteSet(ClaimsOf(e)') /\ IsFiniteSet(AnsweredFor(e)')
<1>1. /\ JobsOf(e) \subseteq Jobs /\ ClaimsOf(e) \subseteq Dispatchers /\ AnsweredFor(e) \subseteq Callers
      /\ JobsOf(e)' \subseteq Jobs /\ ClaimsOf(e)' \subseteq Dispatchers /\ AnsweredFor(e)' \subseteq Callers
  BY DEF JobsOf, ClaimsOf, AnsweredFor
<1> QED
  BY <1>1, FS_Subset, PublishingConstants

Waits(e) == status[e] \in {"NONE", "SCHEDULED"}
CountOf(e) == Cardinality(JobsOf(e)) + Cardinality(ClaimsOf(e))
                <= (IF Waits(e) THEN 0 ELSE 1) + Cardinality(AnsweredFor(e))

(* Nothing is added to the left, and what was answered stays so. *)
LEMMA CountKept ==
  ASSUME NEW e, CountOf(e), JobsOf(e)' \subseteq JobsOf(e), ClaimsOf(e)' \subseteq ClaimsOf(e),
         AnsweredFor(e) \subseteq AnsweredFor(e)', Waits(e)' => Waits(e)
  PROVE  CountOf(e)'
<1>1. /\ Cardinality(JobsOf(e)') <= Cardinality(JobsOf(e))
      /\ Cardinality(ClaimsOf(e)') <= Cardinality(ClaimsOf(e))
      /\ Cardinality(AnsweredFor(e)) <= Cardinality(AnsweredFor(e)')
  BY Counted, FS_Subset
<1>2. /\ Cardinality(JobsOf(e)') \in Nat /\ Cardinality(JobsOf(e)) \in Nat
      /\ Cardinality(ClaimsOf(e)') \in Nat /\ Cardinality(ClaimsOf(e)) \in Nat
      /\ Cardinality(AnsweredFor(e)) \in Nat /\ Cardinality(AnsweredFor(e)') \in Nat
  BY Counted, FS_CardinalityType
<1>3. Cardinality(JobsOf(e)') + Cardinality(ClaimsOf(e)')
        <= (IF Waits(e)' THEN 0 ELSE 1) + Cardinality(AnsweredFor(e)')
  BY <1>1, <1>2 DEF CountOf
<1> QED
  BY <1>3 DEF CountOf

(* A request adds at most the job that it is answered with. *)
LEMMA RequestCounts ==
  ASSUME TypeOK, TypeOK', CreatedInv, NEW c \in Callers, RequestStep(c) \/ RequestCrash(c),
         NEW e \in Entries, CountOf(e)
  PROVE  CountOf(e)'
<1>0. /\ request \in [Callers -> RequestRecords] /\ status \in [Entries -> EntryStatus]
      /\ \A b \in Callers \ {c} : request'[b] = request[b]
      /\ request[c].entry \in Entries
  BY RequestTypes DEF TypeOK, RequestRecords
<1>1. claimed' = claimed /\ ClaimsOf(e)' = ClaimsOf(e) /\ request[c].stage # "done"
  BY <1>0 DEF RequestStep, RequestCrash, ScheduleRead, ScheduleCreate, ScheduleLink,
       PublishNowRead, PublishNowQueue, PublishNowEnqueue, dispatch, ClaimsOf
<1>2. AnsweredFor(e) \subseteq AnsweredFor(e)'
  BY <1>0, <1>1 DEF AnsweredFor
<1>3. Waits(e)' => Waits(e)
  BY <1>0 DEF RequestStep, RequestCrash, ScheduleRead, ScheduleCreate, ScheduleLink,
       PublishNowRead, PublishNowQueue, PublishNowEnqueue, rows, Waits, CreatedInv
<1>4. CASE PublishNowEnqueue(c) /\ request[c].entry = e
  <2>1. PICK j \in Jobs : /\ job[j].stage = "free" /\ job'[j].stage = "waiting" /\ job'[j].entry = e
                          /\ \A i \in Jobs \ {j} : job'[i] = job[i]
    BY <1>4, EnqueueFacts DEF PublishNowEnqueue
  <2>2. JobsOf(e)' = JobsOf(e) \cup {j} /\ j \notin JobsOf(e)
    BY <2>1 DEF JobsOf
  <2>3. request'[c].stage = "done" /\ request'[c].entry = e /\ status' = status
    BY <1>0, <1>4 DEF PublishNowEnqueue, RequestRecords, rows
  <2>4. AnsweredFor(e)' = AnsweredFor(e) \cup {c} /\ c \notin AnsweredFor(e)
    BY <1>0, <1>1, <2>3 DEF AnsweredFor
  <2>5. /\ Cardinality(JobsOf(e)') = Cardinality(JobsOf(e)) + 1
        /\ Cardinality(AnsweredFor(e)') = Cardinality(AnsweredFor(e)) + 1
    BY <2>2, <2>4, Counted, FS_AddElement
  <2>6. /\ Cardinality(JobsOf(e)) \in Nat /\ Cardinality(AnsweredFor(e)) \in Nat
        /\ Cardinality(ClaimsOf(e)) \in Nat /\ Cardinality(ClaimsOf(e)') = Cardinality(ClaimsOf(e))
        /\ Waits(e)' = Waits(e)
    BY <1>1, <2>3, Counted, FS_CardinalityType DEF Waits
  <2>7. Cardinality(JobsOf(e)') + Cardinality(ClaimsOf(e)')
          <= (IF Waits(e)' THEN 0 ELSE 1) + Cardinality(AnsweredFor(e)')
    BY <2>5, <2>6 DEF CountOf
  <2> QED
    BY <2>7 DEF CountOf
<1>5. CASE ~(PublishNowEnqueue(c) /\ request[c].entry = e)
  <2>1. JobsOf(e)' = JobsOf(e)
    <3>1. CASE PublishNowEnqueue(c)
      BY <1>0, <1>5, <3>1, EnqueueFacts DEF PublishNowEnqueue, JobsOf
    <3>2. CASE ~PublishNowEnqueue(c)
      BY <3>2 DEF RequestStep, RequestCrash, ScheduleRead, ScheduleCreate, ScheduleLink,
           PublishNowRead, PublishNowQueue, JobsOf
    <3> QED
      BY <3>1, <3>2
  <2> QED
    BY <1>1, <1>2, <1>3, <2>1, CountKept
<1> QED
  BY <1>4, <1>5

(* A dispatcher claims an entry that waits, and a claim becomes one job. *)
LEMMA DispatchCounts ==
  ASSUME TypeOK, NEW d \in Dispatchers, DispatchStep(d) \/ DispatcherCrash(d), NEW e \in Entries, CountOf(e)
  PROVE  CountOf(e)'
<1>0. /\ claimed \in [Dispatchers -> SUBSET Entries] /\ status \in [Entries -> EntryStatus]
      /\ request' = request /\ AnsweredFor(e)' = AnsweredFor(e)
  BY DEF TypeOK, DispatchStep, DispatcherCrash, Scan, Flip, DispatchEnqueue, AnsweredFor
<1>1. /\ Cardinality(JobsOf(e)) \in Nat /\ Cardinality(ClaimsOf(e)) \in Nat
      /\ Cardinality(AnsweredFor(e)) \in Nat /\ Cardinality(AnsweredFor(e)') = Cardinality(AnsweredFor(e))
  BY <1>0, Counted, FS_CardinalityType
<1>2. CASE Flip(d, e) /\ status[e] = "SCHEDULED"
  <2>1. claimed' = [claimed EXCEPT ![d] = @ \cup {e}] /\ job' = job /\ status' = [status EXCEPT ![e] = "QUEUED"]
    BY <1>2 DEF Flip
  <2>2. ClaimsOf(e)' = ClaimsOf(e) \cup {d} /\ JobsOf(e)' = JobsOf(e) /\ Waits(e) /\ ~Waits(e)'
    BY <1>0, <1>2, <2>1 DEF ClaimsOf, JobsOf, Waits
  <2>3. Cardinality(ClaimsOf(e)') = IF d \in ClaimsOf(e) THEN Cardinality(ClaimsOf(e))
                                                        ELSE Cardinality(ClaimsOf(e)) + 1
    BY <2>2, Counted, FS_AddElement
  <2>4. Cardinality(JobsOf(e)') + Cardinality(ClaimsOf(e)') <= 1 + Cardinality(AnsweredFor(e)')
    BY <1>1, <2>2, <2>3 DEF CountOf
  <2> QED
    BY <2>2, <2>4 DEF CountOf
<1>3. CASE DispatchEnqueue(d, e)
  <2>1. PICK j \in Jobs : /\ job[j].stage = "free" /\ job'[j].stage = "waiting" /\ job'[j].entry = e
                          /\ \A i \in Jobs \ {j} : job'[i] = job[i]
    BY <1>3, EnqueueFacts DEF DispatchEnqueue
  <2>2. JobsOf(e)' = JobsOf(e) \cup {j} /\ j \notin JobsOf(e)
    BY <2>1 DEF JobsOf
  <2>3. ClaimsOf(e)' = ClaimsOf(e) \ {d} /\ d \in ClaimsOf(e) /\ Waits(e)' = Waits(e)
    BY <1>0, <1>3 DEF DispatchEnqueue, ClaimsOf, Waits, rows
  <2>4. /\ Cardinality(JobsOf(e)') = Cardinality(JobsOf(e)) + 1
        /\ Cardinality(ClaimsOf(e)') = Cardinality(ClaimsOf(e)) - 1
    BY <2>2, <2>3, Counted, FS_AddElement, FS_RemoveElement
  <2>5. Cardinality(JobsOf(e)') + Cardinality(ClaimsOf(e)')
          <= (IF Waits(e)' THEN 0 ELSE 1) + Cardinality(AnsweredFor(e)')
    BY <1>1, <2>3, <2>4 DEF CountOf
  <2> QED
    BY <2>5 DEF CountOf
<1>4. CASE ~(Flip(d, e) /\ status[e] = "SCHEDULED") /\ ~DispatchEnqueue(d, e)
  <2>1. JobsOf(e)' = JobsOf(e)
    <3>1. ASSUME NEW x \in Entries, DispatchEnqueue(d, x) PROVE JobsOf(e)' = JobsOf(e)
      <4>1. x # e
        BY <1>4, <3>1
      <4>2. PICK j \in Jobs : /\ job[j].stage = "free" /\ job'[j].stage = "waiting" /\ job'[j].entry = x
                              /\ \A i \in Jobs \ {j} : job'[i] = job[i]
        BY <3>1, EnqueueFacts DEF DispatchEnqueue
      <4> QED
        BY <4>1, <4>2 DEF JobsOf
    <3>2. job' = job => JobsOf(e)' = JobsOf(e)
      BY DEF JobsOf
    <3>3. job' = job \/ \E x \in Entries : DispatchEnqueue(d, x)
      BY DEF DispatchStep, DispatcherCrash, Scan, Flip
    <3>4. CASE job' = job
      BY <3>2, <3>4
    <3>5. CASE \E x \in Entries : DispatchEnqueue(d, x)
      BY <3>1, <3>5
    <3> QED
      BY <3>3, <3>4, <3>5
  <2>2. ClaimsOf(e)' \subseteq ClaimsOf(e)
    BY <1>0, <1>4 DEF DispatchStep, DispatcherCrash, Scan, Flip, DispatchEnqueue, ClaimsOf
  <2>3. Waits(e)' => Waits(e)
    BY <1>0 DEF DispatchStep, DispatcherCrash, Scan, Flip, DispatchEnqueue, Waits, rows
  <2> QED
    BY <1>0, <2>1, <2>2, <2>3, CountKept
<1> QED
  BY <1>2, <1>3, <1>4

(* Jobs and operators change nothing that is counted. *)
LEMMA NextCount == TypeOK /\ CreatedInv /\ CountInv /\ [Next]_vars => CountInv'
<1> SUFFICES ASSUME TypeOK, CreatedInv, CountInv, [Next]_vars, NEW e \in Entries PROVE CountOf(e)'
  BY DEF CountInv, CountOf, Waits
<1>0. CountOf(e) /\ TypeOK' /\ status \in [Entries -> EntryStatus]
  BY NextType DEF CountInv, CountOf, Waits, TypeOK
<1>1. ASSUME NEW j \in Jobs, JobStep(j) \/ RecordFails(j) \/ JobCrash(j) PROVE CountOf(e)'
  <2>1. JobsOf(e)' = JobsOf(e)
    BY <1>1, JobFacts DEF JobsOf, Live, Attempting, Sending
  <2>2. ClaimsOf(e)' = ClaimsOf(e) /\ AnsweredFor(e)' = AnsweredFor(e)
    BY <1>1, JobFacts DEF ClaimsOf, AnsweredFor
  <2>3. Waits(e)' => Waits(e)
    BY <1>1, JobEffects DEF Waits
  <2> QED
    BY <1>0, <2>1, <2>2, <2>3, CountKept
<1>2. ASSUME NEW x \in Entries, BecomesDue(x) \/ Cancel(x) PROVE CountOf(e)'
  <2>1. /\ JobsOf(e)' = JobsOf(e) /\ ClaimsOf(e)' = ClaimsOf(e) /\ AnsweredFor(e)' = AnsweredFor(e)
        /\ Waits(e)' => Waits(e)
    BY <1>0, <1>2 DEF BecomesDue, Cancel, JobsOf, ClaimsOf, AnsweredFor, Waits, rows, dispatch
  <2> QED
    BY <1>0, <2>1, CountKept
<1>3. CASE UNCHANGED vars \/ \E key \in active : HoldExpires(key)
  <2>1. /\ JobsOf(e)' = JobsOf(e) /\ ClaimsOf(e)' = ClaimsOf(e) /\ AnsweredFor(e)' = AnsweredFor(e)
        /\ Waits(e)' = Waits(e)
    BY <1>3 DEF HoldExpires, vars, rows, dispatch, JobsOf, ClaimsOf, AnsweredFor, Waits
  <2> QED
    BY <1>0, <2>1, CountKept
<1> QED
  BY <1>0, <1>1, <1>2, <1>3, RequestCounts, DispatchCounts DEF Next, Quiescent

(* However many dispatchers scan together and die, an entry has one job, and *)
(* one more for each request to publish it now.                              *)
THEOREM DispatchedOnceAlways == Spec => []DispatchedOnce
<1>1. Init => CountInv
  <2> SUFFICES ASSUME Init, NEW e \in Entries PROVE CountOf(e)
    BY DEF CountInv, CountOf, Waits
  <2>1. JobsOf(e) = {} /\ ClaimsOf(e) = {} /\ AnsweredFor(e) = {}
    BY DEF Init, JobsOf, ClaimsOf, AnsweredFor, NoJob, NoRequest
  <2> QED
    BY <2>1, FS_EmptySet DEF CountOf
<1>2. CountInv => DispatchedOnce
  <2> SUFFICES ASSUME CountInv, NEW e \in Entries
               PROVE  Cardinality(JobsOf(e)) + Cardinality(ClaimsOf(e)) <= 1 + Cardinality(AnsweredFor(e))
    BY DEF DispatchedOnce, JobsOf, ClaimsOf, AnsweredFor
  <2>1. /\ Cardinality(JobsOf(e)) \in Nat /\ Cardinality(ClaimsOf(e)) \in Nat
        /\ Cardinality(AnsweredFor(e)) \in Nat
    BY Counted, FS_CardinalityType
  <2> QED
    BY <2>1 DEF CountInv
<1> QED
  BY <1>1, <1>2, InitCreated, NextCreated, NextCount, TypeCorrect, PTL DEF Spec

-----------------------------------------------------------------------------
(* Requests are sent under the hold of their attempt. *)

(* A hold that is neither ACTIVE nor out of time was settled by a job of its *)
(* attempt, which is over; and an attempt that may send has reserved one.    *)
HoldInv ==
  /\ \A key \in reserved :
       key \in active \cup expired \/ \E k \in Jobs : job[k].stage = "done" /\ ReservationKey(k) = key
  /\ \A j \in Jobs : job[j].stage \in {"held", "sending", "sent"} => ReservationKey(j) \in reserved

(* A job that is over stays so, and its key with it. *)
LEMMA DoneStays ==
  ASSUME TypeOK, [Next]_vars, NEW k \in Jobs, job[k].stage = "done"
  PROVE  job'[k] = job[k]
<1>1. ASSUME NEW j \in Jobs, JobStep(j) \/ RecordFails(j) \/ JobCrash(j) PROVE job'[k] = job[k]
  <2>1. Live(j) /\ j # k
    BY <1>1, JobFacts DEF Live, Attempting, Sending
  <2> QED
    BY <1>1, <2>1, JobFacts
<1> QED
  BY <1>1, OutsideReports DEF Next, Quiescent

(* An attempt reserves the hold of its number before it is held, and when it *)
(* settles one it is over.                                                   *)
LEMMA JobHolds ==
  ASSUME TypeOK, HoldInv, NEW j \in Jobs, JobStep(j) \/ RecordFails(j) \/ JobCrash(j)
  PROVE  HoldInv'
<1>0. /\ job \in [Jobs -> JobRecords] /\ \A i \in Jobs \ {j} : job'[i] = job[i]
      /\ job[j].entry \in Entries
  BY JobFacts DEF TypeOK, JobRecords
<1>1. \A i \in Jobs \ {j} : ReservationKey(i)' = ReservationKey(i)
  BY <1>0 DEF ReservationKey
<1>2. \A k \in Jobs : job[k].stage = "done" => job'[k].stage = "done" /\ ReservationKey(k)' = ReservationKey(k)
  <2>1. job[j].stage # "done"
    BY JobFacts DEF Live, Attempting, Sending
  <2> QED
    BY <1>0, <1>1, <2>1
<1>3. CASE Deliver(j) \/ JobCrash(j)
  <2>1. UNCHANGED <<reserved, active, expired>> /\ job'[j].stage \notin {"held", "sending", "sent"}
    BY <1>0, <1>3 DEF Deliver, JobCrash, Goto, JobRecords, budget
  <2> QED
    BY <1>0, <1>1, <1>2, <2>1 DEF HoldInv
<1>4. CASE Reserve(j)
  <2>1. ReservationKey(j)' = ReservationKey(j)
    BY <1>0, <1>4 DEF Reserve, Goto, ReservationKey, JobRecords
  <2>2. CASE OverLimit
    <3>1. UNCHANGED <<reserved, active, expired>> /\ job'[j].stage = "refused"
      BY <1>0, <1>4, <2>2 DEF Reserve, Goto, JobRecords, budget
    <3> QED
      BY <1>0, <1>1, <1>2, <3>1 DEF HoldInv
  <2>3. CASE ~OverLimit
    <3>1. /\ reserved' = reserved \cup {ReservationKey(j)} /\ expired' = expired
          /\ active \subseteq active'
          /\ ReservationKey(j) \notin reserved => ReservationKey(j) \in active'
      BY <1>4, <2>3 DEF Reserve
    <3> QED
      BY <1>0, <1>1, <1>2, <2>1, <3>1 DEF HoldInv
  <2> QED
    BY <2>2, <2>3
<1>5. CASE Settle(j)
  <2>1. /\ job'[j].stage = "done" /\ ReservationKey(j)' = ReservationKey(j)
        /\ UNCHANGED <<reserved, expired>> /\ active \ {ReservationKey(j)} \subseteq active'
    BY <1>0, <1>5 DEF Settle, Goto, ReservationKey, JobRecords
  <2> QED
    BY <1>0, <1>1, <1>2, <2>1 DEF HoldInv
<1>6. CASE \/ RefuseOverBudget(j) \/ Begin(j) \/ GiveUp(j) \/ Send(j)
           \/ RecordOutcome(j) \/ MarkPublished(j) \/ RecordFails(j)
  <2>1. /\ UNCHANGED <<reserved, active, expired>> /\ ReservationKey(j)' = ReservationKey(j)
        /\ job'[j].stage \in {"held", "sending", "sent"} => job[j].stage \in {"held", "sending", "sent"}
    BY <1>0, <1>6 DEF RefuseOverBudget, Begin, GiveUp, Send, RecordOutcome, MarkPublished, RecordFails, Goto, InStage,
       JobRecords, ReservationKey, budget
  <2> QED
    BY <1>0, <1>1, <1>2, <2>1 DEF HoldInv
<1> QED
  BY <1>3, <1>4, <1>5, <1>6 DEF JobStep

(* Nobody else reserves or settles a hold. *)
LEMMA NextHolds == TypeOK /\ HoldInv /\ [Next]_vars => HoldInv'
<1> SUFFICES ASSUME TypeOK, HoldInv, [Next]_vars PROVE HoldInv'
  OBVIOUS
<1>1. ASSUME NEW j \in Jobs, JobStep(j) \/ RecordFails(j) \/ JobCrash(j) PROVE HoldInv'
  BY <1>1, JobHolds
<1>2. CASE \/ \E c \in Callers : RequestStep(c) \/ RequestCrash(c)
           \/ \E d \in Dispatchers : DispatchStep(d) \/ DispatcherCrash(d)
           \/ \E e \in Entries : BecomesDue(e) \/ Cancel(e)
           \/ \E key \in active : HoldExpires(key)
           \/ UNCHANGED vars
  <2>1. /\ reserved' = reserved /\ active \cup expired \subseteq active' \cup expired'
        /\ \A j \in Jobs : job'[j] = job[j] \/ job'[j].stage = "waiting"
    BY <1>2, OutsideReports
  <2>2. \A k \in Jobs : job[k].stage = "done" => job'[k] = job[k]
    BY DoneStays
  <2>3. (\A key \in reserved :
          key \in active \cup expired \/ \E k \in Jobs : job[k].stage = "done" /\ ReservationKey(k) = key)'
    BY <2>1, <2>2 DEF HoldInv, ReservationKey
  <2>4. (\A j \in Jobs : job[j].stage \in {"held", "sending", "sent"} => ReservationKey(j) \in reserved)'
    BY <2>1 DEF HoldInv, ReservationKey
  <2> QED
    BY <2>3, <2>4 DEF HoldInv
<1> QED
  BY <1>1, <1>2 DEF Next, Quiescent

(* Whatever operators, dispatchers and redelivered jobs do with an entry, a  *)
(* request is sent under the hold of its attempt, ACTIVE or out of time,     *)
(* unless another job of the same attempt is over.                           *)
THEOREM SendsAreHeld == Spec => []SendIsHeld
<1>1. Init => HoldInv
  BY DEF Init, HoldInv, NoJob
<1>2. TypeOK /\ HoldInv => SendIsHeld
  <2> SUFFICES ASSUME TypeOK, HoldInv, NEW j \in Jobs, job[j].stage \in Sending,
                      ReservationKey(j) \notin active \cup expired
               PROVE  \E k \in Jobs : Twins(j, k) /\ job[k].stage = "done"
    BY DEF SendIsHeld
  <2>1. PICK k \in Jobs : job[k].stage = "done" /\ ReservationKey(k) = ReservationKey(j)
    BY DEF HoldInv, Sending
  <2>2. k # j /\ job[k].entry = job[j].entry /\ job[k].attempt = job[j].attempt
    BY <2>1 DEF ReservationKey, Sending
  <2> QED
    BY <2>1, <2>2 DEF Twins
<1> QED
  BY <1>1, <1>2, NextHolds, TypeCorrect, PTL DEF Spec

=============================================================================
