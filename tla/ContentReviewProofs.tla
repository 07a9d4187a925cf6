------------------------- MODULE ContentReviewProofs -------------------------
(***************************************************************************)
(* What review guarantees for any number of requests, bodies, drafts and   *)
(* entries: approvals cover the body they were given to, as long as nobody *)
(* writes over a row he did not read; nothing is posted that was never     *)
(* approved at all; a draft is written into the item once.                 *)
(***************************************************************************)
EXTENDS ContentReview, TLAPS

(* Requests about to write know what they read and what moderation said. *)
Prepared(c) ==
  /\ Finishes(c, "approve") /\ call[c].verdict = "CLEAR" => call[c].seen.body \notin Unsafe
  /\ call[c].stage = "linking" => call[c].seen.state = "APPROVED"

CoverInv == TypeOK /\ (\A c \in Callers : Prepared(c)) /\ ApprovalCoversTheBody

(* Whatever leads to a post comes after an approval. *)
Reviewed ==
  \/ item.state \in {"APPROVED", "SCHEDULED"}
  \/ \E c \in Callers : call[c].stage \in {"creating", "linking"}
  \/ \E e \in Entries : entry[e].stage # "none"
  \/ posts # {}
ReviewInv == TypeOK /\ (Reviewed => approved # {})

(* A draft lands between its READY and the end of its job. *)
Landing(d) ==
  /\ job[d].stage \in {"read", "generating"} => draft[d] = "GENERATING"
  /\ job[d].stage = "recorded" => draft[d] = "READY" /\ landed[d] = 0
  /\ landed[d] = 0 \/ (landed[d] = 1 /\ draft[d] \in {"READY", "FAILED"})
LandInv == TypeOK /\ \A d \in Drafts : Landing(d)

-----------------------------------------------------------------------------
(* No request at all has the shape of a request. *)
LEMMA NoCallType == NewRow \in Rows /\ NoCall \in Calls
<1>1. NewRow \in Rows
  BY DEF NewRow, Rows, States, Verdicts
<1>2. (CHOOSE d \in Drafts : TRUE) \in Drafts
  BY ContentReviewConstants
<1> QED
  BY <1>1, <1>2 DEF NoCall, Calls, ReviewOps, CallStages, Verdicts

(* Ending a request, or taking it to another stage, keeps its shape. *)
LEMMA StageType ==
  ASSUME TypeOK, NEW c \in Callers
  PROVE  /\ End(c) => call' \in [Callers -> Calls]
         /\ \A stage \in CallStages : Goto(c, stage) => call' \in [Callers -> Calls]
<1>1. End(c) => call' \in [Callers -> Calls]
  BY NoCallType DEF End, TypeOK
<1>2. ASSUME NEW stage \in CallStages, Goto(c, stage)
      PROVE  call' \in [Callers -> Calls]
  <2>1. [call[c] EXCEPT !.stage = stage] \in Calls
    BY DEF TypeOK, Calls
  <2> QED
    BY <1>2, <2>1 DEF Goto, TypeOK
<1> QED
  BY <1>1, <1>2

(* What starting and ending a request changes of the requests. *)
LEMMA RequestSteps ==
  ASSUME TypeOK, NEW c \in Callers
  PROVE  /\ End(c) => /\ call'[c].stage = "idle"
                      /\ \A b \in Callers \ {c} : call'[b] = call[b]
         /\ \A op, stage : Open(c, op, stage) =>
              /\ call'[c].op = op /\ call'[c].stage = stage
              /\ \A b \in Callers \ {c} : call'[b] = call[b]
<1>1. ASSUME End(c)
      PROVE  call'[c].stage = "idle" /\ \A b \in Callers \ {c} : call'[b] = call[b]
  BY <1>1 DEF End, NoCall, TypeOK
<1>2. ASSUME NEW op, NEW stage, Open(c, op, stage)
      PROVE  /\ call'[c].op = op /\ call'[c].stage = stage
             /\ \A b \in Callers \ {c} : call'[b] = call[b]
  <2>1. call[c] \in Calls
    BY DEF TypeOK
  <2>2. call' = [call EXCEPT ![c] = [call[c] EXCEPT !.op = op, !.stage = stage, !.seen = item]]
    BY <1>2 DEF Open
  <2>3. call'[c] = [call[c] EXCEPT !.op = op, !.stage = stage, !.seen = item]
    BY <2>2 DEF TypeOK
  <2>4. call'[c].op = op /\ call'[c].stage = stage
    BY <2>1, <2>3 DEF Calls
  <2> QED
    BY <2>2, <2>4 DEF TypeOK
<1> QED
  BY <1>1, <1>2

(* A new item has no approval. *)
LEMMA InitItem == Init => item.state \in {"RESEARCH_READY", "REVIEW"}
<1> SUFFICES ASSUME Init PROVE item.state \in {"RESEARCH_READY", "REVIEW"}
  OBVIOUS
<1>1. CASE item = NewRow
  BY <1>1 DEF NewRow
<1>2. CASE \E t \in Texts : item = [NewRow EXCEPT !.state = "REVIEW", !.body = t]
  BY <1>2 DEF NewRow
<1> QED
  BY <1>1, <1>2 DEF Init

(* An update by a request keeps the types. *)
LEMMA UpdateType ==
  ASSUME TypeOK, NEW c \in Callers, NEW row \in Rows,
         NEW bodies \in SUBSET (Bodies \cup {NoBody}), NEW entries \in Nat,
         Update(c, row, bodies, entries)
  PROVE  TypeOK'
<1>1. call' \in [Callers -> Calls]
  BY StageType DEF Update
<1>2. overwrote' \in BOOLEAN
  BY DEF Update, TypeOK
<1>3. written' \in Nat /\ approved' \subseteq Bodies \cup {NoBody}
  BY DEF Update, TypeOK
<1> QED
  BY <1>1, <1>2, <1>3 DEF Update, TypeOK

(* The row is well-typed after each of the updates requests make. *)
LEMMA RowsWritten ==
  ASSUME TypeOK, NEW c \in Callers
  PROVE  /\ [item EXCEPT !.moderation = "FLAGGED"] \in Rows
         /\ \A t \in Texts :
              [item EXCEPT !.body = t, !.state = "EDITING",
                           !.edits = Longer(call[c].seen.edits)] \in Rows
         /\ \A s \in States : [item EXCEPT !.state = s] \in Rows
         /\ \A s \in States : [item EXCEPT !.state = s,
                                 !.approvals = Longer(call[c].seen.approvals)] \in Rows
         /\ [item EXCEPT !.state = "APPROVED", !.moderation = call[c].verdict,
                         !.approvals = Longer(call[c].seen.approvals)] \in Rows
<1>1. /\ item \in Rows /\ call[c].verdict \in Verdicts
      /\ Longer(call[c].seen.edits) \in Nat /\ Longer(call[c].seen.approvals) \in Nat
  BY DEF TypeOK, Rows, Calls, Longer
<1> HIDE DEF Longer
<1> QED
  BY <1>1 DEF Rows, States, Verdicts, Bodies

(* Initially every variable has its type. *)
LEMMA InitType == Init => TypeOK
<1> SUFFICES ASSUME Init PROVE TypeOK
  OBVIOUS
<1>1. \A t \in Texts : [NewRow EXCEPT !.state = "REVIEW", !.body = t] \in Rows
  BY DEF NewRow, Rows, States, Verdicts, Bodies
<1> QED
  BY <1>1, NoCallType DEF Init, TypeOK, DraftStatus, JobStages, Attempts

(* Requests keep the types. *)
LEMMA CallType ==
  ASSUME TypeOK, NEW c \in Callers, CallStart(c) \/ CallStep(c) \/ RequestCrash(c)
  PROVE  TypeOK'
<1>1. ASSUME NEW op \in ReviewOps \cup {"schedule", "generate"}, NEW stage \in CallStages,
             Open(c, op, stage)
      PROVE  TypeOK'
  <2>1. [call[c] EXCEPT !.op = op, !.stage = stage, !.seen = item] \in Calls
    BY DEF TypeOK, Calls
  <2>2. call' \in [Callers -> Calls]
    BY <1>1, <2>1 DEF Open, TypeOK
  <2> QED
    BY <1>1, <2>2 DEF Open, TypeOK, history
<1>2. CASE CallStart(c)
  BY <1>1, <1>2 DEF CallStart, Schedule, Generate, Review, CallStages
<1>3. CASE Moderate(c)
  BY <1>3 DEF Moderate, TypeOK, Calls, CallStages, history
<1>4. CASE Flag(c)
  BY <1>4, UpdateType, RowsWritten DEF Flag
<1>5. CASE Edit(c)
  <2>1. PICK t \in Texts :
          Update(c, [item EXCEPT !.body = t, !.state = "EDITING",
                                 !.edits = Longer(call[c].seen.edits)], {}, 1)
    BY <1>5 DEF Edit
  <2> QED
    BY <2>1, UpdateType, RowsWritten
<1>6. CASE Submit(c)
  BY <1>6, UpdateType, RowsWritten DEF Submit, States
<1>7. CASE Decide(c)
  <2>1. PICK op \in {"change", "reject"} :
          Update(c, [item EXCEPT !.state = Target[op],
                                 !.approvals = Longer(call[c].seen.approvals)], {}, 1)
    BY <1>7 DEF Decide
  <2>2. Target[op] \in States
    BY DEF Target, States
  <2> QED
    BY <2>1, <2>2, UpdateType, RowsWritten
<1>8. CASE Approve(c)
  <2>1. {call[c].seen.body} \subseteq Bodies \cup {NoBody}
    BY DEF TypeOK, Calls, Rows
  <2> QED
    BY <1>8, <2>1, UpdateType, RowsWritten DEF Approve
<1>9. CASE ScheduleCreate(c)
  <2>1. call' \in [Callers -> Calls]
    BY <1>9, StageType DEF ScheduleCreate, CallStages
  <2>2. entry' \in [Entries -> Attempts]
    BY <1>9 DEF ScheduleCreate, TypeOK, Attempts
  <2> QED
    BY <1>9, <2>1, <2>2 DEF ScheduleCreate, TypeOK, history
<1>10. CASE ScheduleLink(c)
  BY <1>10, UpdateType, RowsWritten DEF ScheduleLink, States
<1>11. CASE GenerateRefused(c) \/ GenerateEnqueue(c) \/ RequestCrash(c)
  <2>1. call' \in [Callers -> Calls]
    BY <1>11, StageType DEF GenerateRefused, GenerateEnqueue, RequestCrash
  <2>2. job' \in [Drafts -> [stage : JobStages, deliveries : Nat]]
    BY <1>11 DEF GenerateRefused, GenerateEnqueue, RequestCrash, TypeOK, JobStages
  <2> QED
    BY <1>11, <2>1, <2>2
       DEF GenerateRefused, GenerateEnqueue, RequestCrash, Crash, TypeOK, history
<1>12. CASE GenerateCreate(c)
  <2>1. PICK d \in Drafts :
          /\ draft' = [draft EXCEPT ![d] = "GENERATING"]
          /\ call' = [call EXCEPT ![c].stage = "enqueueing", ![c].draft = d]
    BY <1>12 DEF GenerateCreate
  <2>2. draft' \in [Drafts -> DraftStatus]
    BY <2>1 DEF TypeOK, DraftStatus
  <2>3. call' \in [Callers -> Calls]
    BY <2>1 DEF TypeOK, Calls, CallStages
  <2> QED
    BY <1>12, <2>2, <2>3 DEF GenerateCreate, TypeOK, history
<1> QED
  BY <1>2, <1>3, <1>4, <1>5, <1>6, <1>7, <1>8, <1>9, <1>10, <1>11, <1>12 DEF CallStep

(* So do draft jobs. *)
LEMMA JobType ==
  ASSUME TypeOK, NEW d \in Drafts, JobStep(d) \/ JobCrash(d)
  PROVE  TypeOK'
<1>1. CASE DraftDeliver(d)
  BY <1>1 DEF DraftDeliver, TypeOK, JobStages, Outside, history
<1>2. CASE DraftRefused(d) \/ DraftAllowed(d) \/ DraftRecord(d) \/ DraftFinish(d) \/ DraftThrows(d)
  BY <1>2 DEF DraftRefused, DraftAllowed, DraftRecord, DraftFinish, DraftThrows, JobTo, TypeOK,
              JobStages, DraftStatus, Outside, history
<1>3. CASE DraftApply(d)
  <2>1. item' \in Rows
    <3>1. item \in Rows /\ d \in Bodies /\ "GENERATED" \in States
      BY DEF TypeOK, Bodies, States
    <3> QED
      BY <1>3, <3>1 DEF DraftApply, Rows
  <2>2. landed' \in [Drafts -> Nat]
    BY <1>3 DEF DraftApply, TypeOK
  <2>3. job' \in [Drafts -> [stage : JobStages, deliveries : Nat]]
    BY <1>3 DEF DraftApply, JobTo, TypeOK, JobStages
  <2> QED
    BY <1>3, <2>1, <2>2, <2>3 DEF DraftApply, TypeOK, Outside
<1>4. CASE JobCrash(d)
  BY <1>4 DEF JobCrash, Crash, JobTo, TypeOK, JobStages, Outside, history
<1> QED
  BY <1>1, <1>2, <1>3, <1>4 DEF JobStep

(* So does publishing. *)
LEMMA EntryType ==
  ASSUME TypeOK, NEW e \in Entries, EntryStep(e)
  PROVE  TypeOK'
<1>1. CASE PublishRead(e) \/ PublishSend(e)
  BY <1>1 DEF PublishRead, PublishSend, TypeOK, Attempts, Rows, history
<1>2. CASE PublishMark(e)
  <2>1. item' \in Rows
    BY <1>2 DEF PublishMark, TypeOK, Rows, States
  <2> QED
    BY <1>2, <2>1 DEF PublishMark, TypeOK, Attempts, history
<1> QED
  BY <1>1, <1>2 DEF EntryStep

(* No step changes the types. *)
LEMMA NextType == TypeOK /\ [Next]_vars => TypeOK'
<1> SUFFICES ASSUME TypeOK, [Next]_vars PROVE TypeOK'
  OBVIOUS
<1>1. CASE UNCHANGED vars
  BY <1>1 DEF vars, history, TypeOK
<1> QED
  BY <1>1, CallType, JobType, EntryType DEF Next

(* Every reachable state has the shape of the rows and messages of the code. *)
THEOREM TypeCorrect == Spec => []TypeOK
BY InitType, NextType, PTL DEF Spec

-----------------------------------------------------------------------------
(* Approvals cover the body *)

(* A request that ends, or goes on to a stage that knows nothing, leaves     *)
(* every request prepared.                                                   *)
LEMMA StepPrepares ==
  ASSUME CoverInv, NEW c \in Callers, Prepared(c)',
         \A b \in Callers \ {c} : call'[b] = call[b]
  PROVE  \A b \in Callers : Prepared(b)'
BY DEF CoverInv, Prepared, Finishes

(* What a step of a request does to the requests. *)
LEMMA CallPrepares ==
  ASSUME CoverInv, NEW c \in Callers, CallStart(c) \/ CallStep(c) \/ RequestCrash(c)
  PROVE  \A b \in Callers : Prepared(b)'
<1>1. ASSUME End(c) PROVE \A b \in Callers : Prepared(b)'
  <2>1. Prepared(c)' /\ \A b \in Callers \ {c} : call'[b] = call[b]
    BY <1>1 DEF End, NoCall, Prepared, Finishes, CoverInv, TypeOK
  <2> QED
    BY <2>1, StepPrepares
<1>2. CASE CallStart(c)
  <2>1. PICK op, stage : Open(c, op, stage) /\ stage # "linking"
                         /\ (op = "approve" => stage # "writing")
    BY <1>2 DEF CallStart, Schedule, Generate, Review
  <2>2. /\ call'[c].op = op /\ call'[c].stage = stage
        /\ \A b \in Callers \ {c} : call'[b] = call[b]
    BY <2>1, RequestSteps DEF CoverInv
  <2>3. Prepared(c)'
    BY <2>1, <2>2 DEF Prepared, Finishes
  <2> QED
    BY <2>2, <2>3, StepPrepares
<1>3. CASE Moderate(c)
  <2>1. Prepared(c)' /\ \A b \in Callers \ {c} : call'[b] = call[b]
    BY <1>3 DEF Moderate, Prepared, Finishes, CoverInv, TypeOK, Calls
  <2> QED
    BY <2>1, StepPrepares
<1>4. CASE ScheduleCreate(c)
  <2>1. ASSUME Goto(c, "linking"), call[c].seen.state = "APPROVED"
        PROVE  Prepared(c)' /\ \A b \in Callers \ {c} : call'[b] = call[b]
    BY <2>1 DEF Goto, Prepared, Finishes, CoverInv, TypeOK, Calls
  <2> QED
    BY <1>1, <1>4, <2>1, StepPrepares DEF ScheduleCreate
<1>5. CASE GenerateCreate(c)
  <2>1. Prepared(c)' /\ \A b \in Callers \ {c} : call'[b] = call[b]
    BY <1>5 DEF GenerateCreate, Prepared, Finishes, CoverInv, TypeOK, Calls
  <2> QED
    BY <2>1, StepPrepares
<1>6. CASE \/ Flag(c) \/ Edit(c) \/ Submit(c) \/ Decide(c) \/ Approve(c) \/ ScheduleLink(c)
           \/ GenerateRefused(c) \/ GenerateEnqueue(c) \/ RequestCrash(c)
  <2>1. End(c)
    BY <1>6 DEF Flag, Edit, Submit, Decide, Approve, ScheduleLink, GenerateRefused,
                GenerateEnqueue, RequestCrash, Update
  <2> QED
    BY <1>1, <2>1
<1> QED
  BY <1>2, <1>3, <1>4, <1>5, <1>6 DEF CallStep

(* What a step of a request does to the row. *)
LEMMA CallCovers ==
  ASSUME CoverInv, NEW c \in Callers, CallStart(c) \/ CallStep(c) \/ RequestCrash(c)
  PROVE  ApprovalCoversTheBody'
<1>1. ASSUME item' = item, overwrote' = overwrote, approved' = approved
      PROVE  ApprovalCoversTheBody'
  BY <1>1 DEF CoverInv, ApprovalCoversTheBody
<1>2. CASE \/ CallStart(c) \/ RequestCrash(c) \/ Moderate(c) \/ ScheduleCreate(c)
           \/ GenerateRefused(c) \/ GenerateCreate(c) \/ GenerateEnqueue(c)
  BY <1>1, <1>2 DEF CallStart, Schedule, Generate, Review, Open, RequestCrash, Moderate,
                    ScheduleCreate, GenerateRefused, GenerateCreate, GenerateEnqueue, history
<1>3. CASE Flag(c)
  BY <1>3 DEF Flag, Update, CoverInv, TypeOK, Rows, ApprovalCoversTheBody
<1>4. CASE Edit(c) \/ Submit(c) \/ Decide(c)
  <2>1. item'.state \in {"EDITING", "REVIEW", "CHANGES_REQUESTED", "ARCHIVED"}
    <3>1. CASE Edit(c)
      BY <3>1 DEF Edit, Update, CoverInv, TypeOK, Rows
    <3>2. CASE Submit(c)
      BY <3>2 DEF Submit, Update, CoverInv, TypeOK, Rows
    <3>3. CASE Decide(c)
      <4>1. PICK op \in {"change", "reject"} :
              item' = [item EXCEPT !.state = Target[op],
                                   !.approvals = Longer(call[c].seen.approvals)]
        BY <3>3 DEF Decide, Update
      <4>2. Target[op] \in {"CHANGES_REQUESTED", "ARCHIVED"}
        BY DEF Target
      <4> QED
        BY <4>1, <4>2 DEF CoverInv, TypeOK, Rows
    <3> QED
      BY <1>4, <3>1, <3>2, <3>3
  <2> QED
    BY <2>1 DEF ApprovalCoversTheBody
<1>5. CASE Approve(c)
  <2> SUFFICES ASSUME ~overwrote'
               PROVE  item'.body \in approved' /\ (item'.moderation = "CLEAR" => item'.body \notin Unsafe)
    BY DEF ApprovalCoversTheBody
  <2>1. call[c].seen = item
    BY <1>5 DEF Approve, Update, Stale
  <2>2. /\ item'.body = item.body /\ item'.moderation = call[c].verdict
        /\ approved' = approved \cup {item.body}
    BY <1>5, <2>1 DEF Approve, Update, CoverInv, TypeOK, Rows
  <2>3. call[c].verdict = "CLEAR" => item.body \notin Unsafe
    BY <1>5, <2>1 DEF Approve, CoverInv, Prepared
  <2> QED
    BY <2>2, <2>3
<1>6. CASE ScheduleLink(c)
  <2> SUFFICES ASSUME ~overwrote'
               PROVE  item'.body \in approved' /\ (item'.moderation = "CLEAR" => item'.body \notin Unsafe)
    BY DEF ApprovalCoversTheBody
  <2>1. item.state = "APPROVED" /\ ~overwrote
    BY <1>6 DEF ScheduleLink, Update, Stale, CoverInv, Prepared
  <2>2. item'.body = item.body /\ item'.moderation = item.moderation /\ approved' = approved
    BY <1>6 DEF ScheduleLink, Update, CoverInv, TypeOK, Rows
  <2> QED
    BY <2>1, <2>2 DEF CoverInv, ApprovalCoversTheBody
<1> QED
  BY <1>2, <1>3, <1>4, <1>5, <1>6 DEF CallStep

(* Jobs and the publisher take the item out of review, or leave it alone. *)
LEMMA OthersCover ==
  ASSUME CoverInv,
         (\E d \in Drafts : JobStep(d) \/ JobCrash(d)) \/ (\E e \in Entries : EntryStep(e))
  PROVE  ApprovalCoversTheBody' /\ \A c \in Callers : Prepared(c)'
<1>1. call' = call /\ overwrote' = overwrote /\ approved' = approved
  BY DEF JobStep, JobCrash, DraftDeliver, DraftRefused, DraftAllowed, DraftRecord, DraftApply,
         DraftFinish, DraftThrows, EntryStep, PublishRead, PublishSend, PublishMark, Outside, history
<1>2. item' = item \/ item'.state \in {"GENERATED", "PUBLISHED"}
  BY DEF JobStep, JobCrash, DraftDeliver, DraftRefused, DraftAllowed, DraftRecord, DraftApply,
         DraftFinish, DraftThrows, EntryStep, PublishRead, PublishSend, PublishMark,
         CoverInv, TypeOK, Rows
<1>3. ApprovalCoversTheBody'
  BY <1>1, <1>2 DEF CoverInv, ApprovalCoversTheBody
<1> QED
  BY <1>1, <1>3 DEF CoverInv, Prepared, Finishes

(* No request is under way at first, and no item is approved. *)
LEMMA InitCover == Init => CoverInv
<1> SUFFICES ASSUME Init PROVE CoverInv
  OBVIOUS
<1>1. \A c \in Callers : call[c].stage = "idle"
  BY DEF Init, NoCall
<1> QED
  BY <1>1, InitItem, InitType DEF CoverInv, Prepared, Finishes, ApprovalCoversTheBody

(* Every step keeps it. *)
LEMMA NextCover == CoverInv /\ [Next]_vars => CoverInv'
<1> SUFFICES ASSUME CoverInv, [Next]_vars PROVE CoverInv'
  OBVIOUS
<1>1. TypeOK'
  BY NextType DEF CoverInv
<1>2. CASE UNCHANGED vars
  BY <1>1, <1>2 DEF vars, history, CoverInv, Prepared, Finishes, ApprovalCoversTheBody
<1>3. CASE Next
  <2>1. ApprovalCoversTheBody' /\ \A c \in Callers : Prepared(c)'
    BY <1>3, CallPrepares, CallCovers, OthersCover DEF Next
  <2> QED
    BY <1>1, <2>1 DEF CoverInv
<1> QED
  BY <1>2, <1>3

(* As long as no request writes over a row it did not read, an approved or   *)
(* scheduled item carries a body that was approved, under its own verdict:   *)
(* approve and schedule in content.service and calendar.service.             *)
THEOREM ApprovalsCover == Spec => []ApprovalCoversTheBody
<1>1. CoverInv => ApprovalCoversTheBody
  BY DEF CoverInv
<1> QED
  BY <1>1, InitCover, NextCover, PTL DEF Spec

-----------------------------------------------------------------------------
(* Nothing is posted unreviewed *)

(* A request comes to schedule only an item that was approved. *)
LEMMA CallReviewed ==
  ASSUME ReviewInv, NEW c \in Callers, CallStart(c) \/ CallStep(c) \/ RequestCrash(c), Reviewed'
  PROVE  approved' # {}
<1>1. approved \subseteq approved'
  BY DEF CallStart, Schedule, Generate, Review, Open, CallStep, Moderate, Flag, Edit, Submit, Decide,
         Approve, ScheduleCreate, ScheduleLink, GenerateRefused, GenerateCreate, GenerateEnqueue,
         RequestCrash, Update, history
<1>2. CASE Approve(c)
  BY <1>2 DEF Approve, Update
<1>3. CASE Schedule(c)
  BY <1>1, <1>3 DEF Schedule, Schedulable, ReviewInv, Reviewed
<1>4. CASE ScheduleCreate(c) \/ ScheduleLink(c)
  BY <1>1, <1>4 DEF ScheduleCreate, ScheduleLink, ReviewInv, Reviewed
<1>5. CASE Flag(c) \/ Edit(c) \/ Submit(c) \/ Decide(c)
  <2>1. item'.state \in {"EDITING", "REVIEW", "CHANGES_REQUESTED", "ARCHIVED"} \cup {item.state}
    <3>1. CASE Flag(c) \/ Edit(c) \/ Submit(c)
      BY <3>1 DEF Flag, Edit, Submit, Update, ReviewInv, TypeOK, Rows
    <3>2. CASE Decide(c)
      <4>1. PICK op \in {"change", "reject"} :
              item' = [item EXCEPT !.state = Target[op],
                                   !.approvals = Longer(call[c].seen.approvals)]
        BY <3>2 DEF Decide, Update
      <4>2. Target[op] \in {"CHANGES_REQUESTED", "ARCHIVED"}
        BY DEF Target
      <4> QED
        BY <4>1, <4>2 DEF ReviewInv, TypeOK, Rows
    <3> QED
      BY <1>5, <3>1, <3>2
  <2>2. \A b \in Callers : call'[b].stage \in {"idle", call[b].stage}
    <3>1. End(c)
      BY <1>5 DEF Flag, Edit, Submit, Decide, Update
    <3> QED
      BY <3>1, RequestSteps DEF ReviewInv
  <2>3. entry' = entry /\ posts' = posts
    BY <1>5 DEF Flag, Edit, Submit, Decide, Update
  <2> QED
    BY <1>1, <2>1, <2>2, <2>3 DEF ReviewInv, Reviewed
<1>6. ASSUME item' = item, entry' = entry, posts' = posts,
             \A b \in Callers : call'[b].stage \in {"creating", "linking"} => call'[b] = call[b]
      PROVE  approved' # {}
  BY <1>1, <1>6 DEF ReviewInv, Reviewed
<1>7. CASE GenerateRefused(c) \/ GenerateEnqueue(c) \/ RequestCrash(c)
  <2>1. End(c) /\ item' = item /\ entry' = entry /\ posts' = posts
    BY <1>7 DEF GenerateRefused, GenerateEnqueue, RequestCrash
  <2> QED
    BY <1>6, <2>1, RequestSteps DEF ReviewInv
<1>8. CASE Moderate(c) \/ GenerateCreate(c)
  <2>1. call'[c].stage \notin {"creating", "linking"}
        /\ \A b \in Callers \ {c} : call'[b] = call[b]
    <3>1. CASE Moderate(c)
      BY <3>1 DEF Moderate, ReviewInv, TypeOK, Calls
    <3>2. CASE GenerateCreate(c)
      BY <3>2 DEF GenerateCreate, ReviewInv, TypeOK, Calls
    <3> QED
      BY <1>8, <3>1, <3>2
  <2> QED
    BY <1>6, <1>8, <2>1 DEF Moderate, GenerateCreate
<1>9. CASE Generate(c) \/ \E op \in ReviewOps : Review(c, op)
  <2>1. PICK op, stage : Open(c, op, stage) /\ stage \notin {"creating", "linking"}
    BY <1>9 DEF Generate, Review
  <2>2. item' = item /\ entry' = entry /\ posts' = posts
    BY <2>1 DEF Open
  <2> QED
    BY <1>6, <2>1, <2>2, RequestSteps DEF ReviewInv
<1> QED
  BY <1>2, <1>3, <1>4, <1>5, <1>7, <1>8, <1>9 DEF CallStart, CallStep

(* Jobs schedule nothing, and the publisher posts what was scheduled. *)
LEMMA OthersReviewed ==
  ASSUME ReviewInv, Reviewed',
         (\E d \in Drafts : JobStep(d) \/ JobCrash(d)) \/ (\E e \in Entries : EntryStep(e))
  PROVE  approved' # {}
<1>1. approved' = approved /\ call' = call
  BY DEF JobStep, JobCrash, DraftDeliver, DraftRefused, DraftAllowed, DraftRecord, DraftApply,
         DraftFinish, DraftThrows, EntryStep, PublishRead, PublishSend, PublishMark, Outside, history
<1>2. CASE \E d \in Drafts : JobStep(d) \/ JobCrash(d)
  <2>1. item' = item \/ item'.state = "GENERATED"
    BY <1>2 DEF JobStep, JobCrash, DraftDeliver, DraftRefused, DraftAllowed, DraftRecord,
                DraftApply, DraftFinish, DraftThrows, ReviewInv, TypeOK, Rows
  <2>2. entry' = entry /\ posts' = posts
    BY <1>2 DEF JobStep, JobCrash, DraftDeliver, DraftRefused, DraftAllowed, DraftRecord,
                DraftApply, DraftFinish, DraftThrows, Outside
  <2> QED
    BY <1>1, <2>1, <2>2 DEF ReviewInv, Reviewed
<1>3. CASE \E e \in Entries : EntryStep(e)
  <2>1. \E e \in Entries : entry[e].stage # "none"
    BY <1>3 DEF EntryStep, PublishRead, PublishSend, PublishMark
  <2> QED
    BY <1>1, <2>1 DEF ReviewInv, Reviewed
<1> QED
  BY <1>2, <1>3

(* At first nothing is approved, scheduled or posted; every step keeps the   *)
(* order.                                                                    *)
LEMMA ReviewInductive == (Init => ReviewInv) /\ (ReviewInv /\ [Next]_vars => ReviewInv')
<1>1. Init => ReviewInv
  <2> SUFFICES ASSUME Init PROVE ReviewInv
    OBVIOUS
  <2>1. /\ \A c \in Callers : call[c].stage = "idle"
        /\ \A e \in Entries : entry[e].stage = "none"
    BY DEF Init, NoCall
  <2>2. posts = {}
    BY DEF Init
  <2> QED
    BY <2>1, <2>2, InitItem, InitType DEF ReviewInv, Reviewed
<1>2. ASSUME ReviewInv, [Next]_vars PROVE ReviewInv'
  <2>1. TypeOK'
    BY <1>2, NextType DEF ReviewInv
  <2>2. CASE UNCHANGED vars
    BY <1>2, <2>1, <2>2 DEF vars, history, ReviewInv, Reviewed
  <2>3. CASE Next
    BY <1>2, <2>1, <2>3, CallReviewed, OthersReviewed DEF Next, ReviewInv
  <2> QED
    BY <1>2, <2>2, <2>3
<1> QED
  BY <1>1, <1>2

(* Nothing is scheduled or posted before somebody has approved the item,     *)
(* whatever requests overlap or die.                                         *)
THEOREM PostsAreReviewed == Spec => []NothingPostedUnreviewed
<1>1. ReviewInv => NothingPostedUnreviewed
  BY DEF ReviewInv, Reviewed, NothingPostedUnreviewed
<1> QED
  BY <1>1, ReviewInductive, PTL DEF Spec

-----------------------------------------------------------------------------
(* Drafts land once *)

(* A job goes from READY to the one write of the item. *)
LEMMA JobLands ==
  ASSUME LandInv, NEW d \in Drafts, JobStep(d) \/ JobCrash(d)
  PROVE  \A b \in Drafts : Landing(b)'
<1>1. \A b \in Drafts \ {d} : Landing(b)'
  <2>1. \A b \in Drafts \ {d} : job'[b] = job[b] /\ draft'[b] = draft[b] /\ landed'[b] = landed[b]
    BY DEF JobStep, JobCrash, JobTo, DraftDeliver, DraftRefused, DraftAllowed, DraftRecord,
           DraftApply, DraftFinish, DraftThrows, history, LandInv, TypeOK
  <2> QED
    BY <2>1 DEF LandInv, Landing
<1>2. Landing(d)'
  <2>1. CASE DraftDeliver(d)
    BY <2>1 DEF DraftDeliver, Unfinished, history, LandInv, TypeOK, Landing
  <2>2. CASE DraftRefused(d) \/ DraftAllowed(d) \/ DraftRecord(d)
    BY <2>2 DEF DraftRefused, DraftAllowed, DraftRecord, JobTo, history, LandInv, TypeOK, Landing
  <2>3. CASE DraftApply(d)
    BY <2>3 DEF DraftApply, JobTo, LandInv, TypeOK, Landing
  <2>4. CASE DraftFinish(d) \/ DraftThrows(d) \/ JobCrash(d)
    BY <2>4 DEF DraftFinish, DraftThrows, JobCrash, JobTo, history, LandInv, TypeOK, Landing
  <2> QED
    BY <2>1, <2>2, <2>3, <2>4 DEF JobStep
<1> QED
  BY <1>1, <1>2

(* Requests create drafts and queue jobs; they write none into the item. *)
LEMMA OthersLand ==
  ASSUME LandInv,
         \/ \E c \in Callers : CallStart(c) \/ CallStep(c) \/ RequestCrash(c)
         \/ \E e \in Entries : EntryStep(e)
  PROVE  \A d \in Drafts : Landing(d)'
<1>1. landed' = landed
  BY DEF CallStart, Schedule, Generate, Review, Open, CallStep, Moderate, Flag, Edit, Submit, Decide,
         Approve, ScheduleCreate, ScheduleLink, GenerateRefused, GenerateCreate, GenerateEnqueue,
         RequestCrash, Update, history, EntryStep, PublishRead, PublishSend, PublishMark
<1>2. ASSUME draft' = draft, job' = job PROVE \A d \in Drafts : Landing(d)'
  BY <1>1, <1>2 DEF LandInv, Landing
<1>3. ASSUME NEW c \in Callers, GenerateCreate(c) PROVE \A d \in Drafts : Landing(d)'
  BY <1>1, <1>3 DEF GenerateCreate, LandInv, TypeOK, Landing
<1>4. ASSUME NEW c \in Callers, GenerateEnqueue(c) PROVE \A d \in Drafts : Landing(d)'
  BY <1>1, <1>4 DEF GenerateEnqueue, LandInv, TypeOK, Landing
<1> QED
  BY <1>2, <1>3, <1>4
     DEF CallStart, Schedule, Generate, Review, Open, CallStep, Moderate, Flag, Edit, Submit, Decide,
         Approve, ScheduleCreate, ScheduleLink, GenerateRefused, RequestCrash, Update,
         EntryStep, PublishRead, PublishSend, PublishMark

(* A draft is written into the item at most once, however often its job is   *)
(* delivered (executeContentDraft).                                          *)
THEOREM DraftsLandOnce == Spec => []DraftLandsOnce
<1>1. Init => LandInv
  <2> SUFFICES ASSUME Init PROVE LandInv
    OBVIOUS
  <2>1. \A d \in Drafts : job[d].stage = "free" /\ landed[d] = 0
    BY DEF Init
  <2>2. \A d \in Drafts : Landing(d)
    BY <2>1 DEF Landing
  <2> QED
    BY <2>2, InitType DEF LandInv
<1>2. ASSUME LandInv, [Next]_vars PROVE LandInv'
  <2>1. TypeOK'
    BY <1>2, NextType DEF LandInv
  <2>2. CASE UNCHANGED vars
    BY <1>2, <2>1, <2>2 DEF vars, history, LandInv, Landing
  <2>3. CASE Next
    BY <1>2, <2>1, <2>3, JobLands, OthersLand DEF Next, LandInv
  <2> QED
    BY <1>2, <2>2, <2>3
<1>3. LandInv => DraftLandsOnce
  BY DEF LandInv, Landing, DraftLandsOnce
<1> QED
  BY <1>1, <1>2, <1>3, PTL DEF Spec

=============================================================================
