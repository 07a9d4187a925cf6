---------------------------- MODULE ContentReview ----------------------------
(***************************************************************************)
(* One content item on its way to a post.  People edit, submit, decide,    *)
(* approve and schedule it through the API (content.service.ts,            *)
(* calendar.service.ts): each request reads the row, awaits other things   *)
(* and writes by id, without checking that the row is still the one it     *)
(* read.  Draft jobs (content-pipeline) write generated bodies into it in  *)
(* the background, and the publisher posts whatever body it finds when an  *)
(* entry is dispatched.  Several requests, jobs and entries are under way  *)
(* at once; requests and workers may crash.  Budget holds are the subject  *)
(* of BudgetReservations, the entry's own life that of Publishing.         *)
(***************************************************************************)
EXTENDS Integers, FiniteSets

CONSTANTS
  Callers,        \* API requests that can be under way at once
  Texts,          \* bodies people write
  Drafts,         \* content drafts, and the bodies generated for them
  Unsafe,         \* bodies moderation never clears
  NoBody,         \* null
  Entries,        \* calendar entries
  MaxCalls,       \* bound of the requests made
  MaxDeliveries,  \* attempts of a draft job (5 in the code)
  MaxCrashes      \* bound of the crashes

Bodies == Texts \cup Drafts

ASSUME ContentReviewConstants ==
  /\ Unsafe \subseteq Bodies /\ NoBody \notin Bodies
  /\ Drafts # {} /\ Texts \cap Drafts = {}
  /\ MaxCalls \in Nat /\ MaxDeliveries \in Nat \ {0} /\ MaxCrashes \in Nat

VARIABLES
  item,       \* the ContentItem row; approvals and edits are the lengths of its logs
  draft,      \* [Drafts -> DraftStatus], ContentDraft.status
  job,        \* [Drafts -> the content.draft.generate job of that draft]
  call,       \* [Callers -> what the API request is doing and the row it read]
  entry,      \* [Entries -> the calendar entry and the body its attempt read]
  posts,      \* bodies posted
  calls, crashes,
  approved,   \* history: the bodies an approval has been given to
  written,    \* history: the edits and decisions made
  landed,     \* history: [Drafts -> how often the draft was written into the item]
  overwrote   \* history: a request has written over a row it did not read

history == <<approved, written, landed, overwrote>>
vars == <<item, draft, job, call, entry, posts, calls, crashes, history>>

(* CONTENT_LIFECYCLE_TRANSITIONS, by the state they lead to; the states the  *)
(* API and the workers can put an item into.                                 *)
Sources ==
  [EDITING           |-> {"DRAFT", "GENERATED", "CHANGES_REQUESTED", "APPROVED"},
   REVIEW            |-> {"GENERATED", "EDITING"},
   CHANGES_REQUESTED |-> {"REVIEW"},
   APPROVED          |-> {"REVIEW", "SCHEDULED"},
   ARCHIVED          |-> {"IDEA", "RESEARCHING", "RESEARCH_READY", "BRIEF", "STRATEGY",
                          "DRAFT", "GENERATED", "EDITING", "REVIEW", "CHANGES_REQUESTED",
                          "APPROVED", "SCHEDULED", "PUBLISHED", "PARTIALLY_PUBLISHED",
                          "FAILED"}]
States == {"RESEARCH_READY", "GENERATED", "EDITING", "REVIEW", "CHANGES_REQUESTED",
           "APPROVED", "SCHEDULED", "PUBLISHED", "ARCHIVED"}
ReviewOps == {"edit", "submit", "change", "reject", "approve"}
Target == [edit |-> "EDITING", submit |-> "REVIEW", change |-> "CHANGES_REQUESTED",
           reject |-> "ARCHIVED", approve |-> "APPROVED"]

Verdicts == {"NONE", "CLEAR", "ERROR", "SKIPPED", "FLAGGED"}
DraftStatus == {"NONE", "GENERATING", "READY", "FAILED"}
CallStages == {"idle", "moderating", "flagging", "writing", "creating", "linking",
               "drafting", "enqueueing"}
JobStages == {"free", "waiting", "read", "generating", "recorded", "applied", "done", "dead"}

Rows == [state : States, body : Bodies \cup {NoBody}, approvals : Nat, edits : Nat,
         moderation : Verdicts]
Calls == [op : ReviewOps \cup {"schedule", "generate"}, stage : CallStages, seen : Rows,
          verdict : Verdicts, draft : Drafts]
Attempts == [stage : {"none", "scheduled", "sending", "posted", "failed", "done"},
             body : Bodies \cup {NoBody}]

NewRow == [state |-> "RESEARCH_READY", body |-> NoBody, approvals |-> 0, edits |-> 0,
           moderation |-> "NONE"]
NoCall == [op |-> "edit", stage |-> "idle", seen |-> NewRow, verdict |-> "NONE",
           draft |-> CHOOSE d \in Drafts : TRUE]

(* An operator named X_Y is X with the bug Y; the mutants of the run use it. *)

-----------------------------------------------------------------------------
(* API requests: read, await, write *)

Idle(c) == call[c].stage = "idle"
End(c) == call' = [call EXCEPT ![c] = NoCall]
Goto(c, stage) == call' = [call EXCEPT ![c].stage = stage]
Stale(c) == call[c].seen # item

(* A request starts with the row as it is now. *)
Open(c, op, stage) ==
  /\ Idle(c) /\ calls < MaxCalls
  /\ calls' = calls + 1
  /\ call' = [call EXCEPT ![c] = [@ EXCEPT !.op = op, !.stage = stage, !.seen = item]]
  /\ UNCHANGED <<item, draft, job, entry, posts, crashes, history>>

(* assertTransition on the row read; an item in EDITING may be edited again. *)
Permitted(op) ==
  \/ item.state \in Sources[Target[op]]
  \/ op = "edit" /\ item.state = "EDITING"

Review(c, op) ==
  /\ Permitted(op)
  /\ Open(c, op, IF op = "approve" THEN "moderating" ELSE "writing")

(* A provider that fails gives ERROR, a deployment without one SKIPPED; only *)
(* FLAGGED keeps the approval from going on.                                 *)
Moderate(c) ==
  /\ call[c].stage = "moderating"
  /\ \E v \in Verdicts \ {"NONE"} :
       /\ v = "CLEAR" => call[c].seen.body \notin Unsafe
       /\ call' = [call EXCEPT ![c].verdict = v,
                     ![c].stage = IF v = "FLAGGED" THEN "flagging" ELSE "writing"]
  /\ UNCHANGED <<item, draft, job, entry, posts, calls, crashes, history>>

(* The row's update at the end of request c. *)
Update(c, row, bodies, entries) ==
  /\ item' = row
  /\ End(c)
  /\ approved' = approved \cup bodies
  /\ written' = written + entries
  /\ overwrote' = (overwrote \/ Stale(c))
  /\ UNCHANGED <<draft, job, entry, posts, calls, crashes, landed>>

(* The refusal of flagged content keeps the verdict and nothing else. *)
Flag(c) ==
  /\ call[c].stage = "flagging"
  /\ Update(c, [item EXCEPT !.moderation = "FLAGGED"], {}, 0)

Finishes(c, op) == call[c].stage = "writing" /\ call[c].op = op

(* The logs are written back as they were read, with one entry more. *)
Longer(n) == n + 1

Edit_InPlace(c) ==
  /\ Finishes(c, "edit")
  /\ \E t \in Texts :
       Update(c, [item EXCEPT !.body = t, !.edits = Longer(call[c].seen.edits)], {}, 1)

Edit(c) ==
  /\ Finishes(c, "edit")
  /\ \E t \in Texts :
       Update(c, [item EXCEPT !.body = t, !.state = "EDITING",
                              !.edits = Longer(call[c].seen.edits)], {}, 1)

Submit(c) ==
  /\ Finishes(c, "submit")
  /\ Update(c, [item EXCEPT !.state = "REVIEW"], {}, 0)

Decide(c) ==
  \E op \in {"change", "reject"} :
    /\ Finishes(c, op)
    /\ Update(c, [item EXCEPT !.state = Target[op],
                              !.approvals = Longer(call[c].seen.approvals)], {}, 1)

(* The approval is of the body that was moderated, whatever body is there now. *)
Approve(c) ==
  /\ Finishes(c, "approve")
  /\ Update(c, [item EXCEPT !.state = "APPROVED", !.moderation = call[c].verdict,
                            !.approvals = Longer(call[c].seen.approvals)],
            {call[c].seen.body}, 1)

-----------------------------------------------------------------------------
(* Scheduling *)

Schedulable_Reviewed(s) == s \in {"REVIEW", "APPROVED", "SCHEDULED"}
Schedulable(s) == s \in {"APPROVED", "SCHEDULED"}

Schedule(c) == Schedulable(item.state) /\ Open(c, "schedule", "creating")

ScheduleCreate(c) ==
  /\ call[c].stage = "creating"
  /\ \E e \in Entries :
       /\ entry[e].stage = "none"
       /\ entry' = [entry EXCEPT ![e].stage = "scheduled"]
  /\ IF call[c].seen.state = "APPROVED" THEN Goto(c, "linking") ELSE End(c)
  /\ UNCHANGED <<item, draft, job, posts, calls, crashes, history>>

ScheduleLink(c) ==
  /\ call[c].stage = "linking"
  /\ Update(c, [item EXCEPT !.state = "SCHEDULED"], {}, 0)

-----------------------------------------------------------------------------
(* Generating: the request, then the job *)

(* No state is refused: any item grounded on evidence can be drafted again. *)
Generate(c) == Open(c, "generate", "drafting")

GenerateRefused(c) ==
  /\ call[c].stage = "drafting" /\ End(c)
  /\ UNCHANGED <<item, draft, job, entry, posts, calls, crashes, history>>

GenerateCreate(c) ==
  /\ call[c].stage = "drafting"
  /\ \E d \in Drafts :
       /\ draft[d] = "NONE"
       /\ draft' = [draft EXCEPT ![d] = "GENERATING"]
       /\ call' = [call EXCEPT ![c].stage = "enqueueing", ![c].draft = d]
  /\ UNCHANGED <<item, job, entry, posts, calls, crashes, history>>

GenerateEnqueue(c) ==
  /\ call[c].stage = "enqueueing" /\ End(c)
  /\ job' = [job EXCEPT ![call[c].draft].stage = "waiting"]
  /\ UNCHANGED <<item, draft, entry, posts, calls, crashes, history>>

JobTo(d, stage) == job' = [job EXCEPT ![d].stage = stage]
Outside == <<call, entry, posts, calls>>

Unfinished_Any(s) == s \in {"GENERATING", "READY"}
Unfinished(s) == s = "GENERATING"

(* A draft that is no longer GENERATING is skipped on re-delivery. *)
DraftDeliver(d) ==
  /\ job[d].stage = "waiting"
  /\ job' = [job EXCEPT ![d] = [stage |-> IF Unfinished(draft[d]) THEN "read" ELSE "done",
                                deliveries |-> @.deliveries + 1]]
  /\ UNCHANGED <<item, draft, Outside, crashes, history>>

(* The second budget decision. *)
DraftRefused(d) ==
  /\ job[d].stage = "read" /\ JobTo(d, "done")
  /\ draft' = [draft EXCEPT ![d] = "FAILED"]
  /\ UNCHANGED <<item, Outside, crashes, history>>

DraftAllowed(d) ==
  /\ job[d].stage = "read" /\ JobTo(d, "generating")
  /\ UNCHANGED <<item, draft, Outside, crashes, history>>

(* The provider answers, or declines the content; a declined draft goes no   *)
(* further than its usage and its hold.                                      *)
DraftRecord(d) ==
  /\ job[d].stage = "generating"
  /\ \/ draft' = [draft EXCEPT ![d] = "READY"] /\ JobTo(d, "recorded")
     \/ draft' = [draft EXCEPT ![d] = "FAILED"] /\ JobTo(d, "done")
  /\ UNCHANGED <<item, Outside, crashes, history>>

(* Whatever state the item is in by now. *)
DraftApply(d) ==
  /\ job[d].stage = "recorded" /\ JobTo(d, "applied")
  /\ item' = [item EXCEPT !.body = d, !.state = "GENERATED"]
  /\ landed' = [landed EXCEPT ![d] = @ + 1]
  /\ UNCHANGED <<draft, Outside, crashes, approved, written, overwrote>>

(* The evidence pack is marked used. *)
DraftFinish(d) ==
  /\ job[d].stage = "applied" /\ JobTo(d, "done")
  /\ UNCHANGED <<item, draft, Outside, crashes, history>>

DraftThrows_Unrecorded(d) ==
  /\ job[d].stage \in {"generating", "recorded", "applied"} /\ JobTo(d, "done")
  /\ UNCHANGED <<item, draft, Outside, crashes, history>>

(* The catch block, also of what throws after the draft was READY. *)
DraftThrows(d) ==
  /\ job[d].stage \in {"generating", "recorded", "applied"} /\ JobTo(d, "done")
  /\ draft' = [draft EXCEPT ![d] = "FAILED"]
  /\ UNCHANGED <<item, Outside, crashes, history>>

-----------------------------------------------------------------------------
(* Publishing, as far as the item's body and state go *)

(* The attempt reads the item; neither its state nor its approval is asked.  *)
PublishRead(e) ==
  /\ entry[e].stage = "scheduled"
  /\ entry' = [entry EXCEPT ![e] = [stage |-> "sending", body |-> item.body]]
  /\ UNCHANGED <<item, draft, job, call, posts, calls, crashes, history>>

PublishSend(e) ==
  /\ entry[e].stage = "sending"
  /\ \/ posts' = posts \cup {entry[e].body} /\ entry' = [entry EXCEPT ![e].stage = "posted"]
     \/ posts' = posts /\ entry' = [entry EXCEPT ![e].stage = "failed"]
  /\ UNCHANGED <<item, draft, job, call, calls, crashes, history>>

PublishMark(e) ==
  /\ entry[e].stage = "posted"
  /\ entry' = [entry EXCEPT ![e].stage = "done"]
  /\ item' \in {item, [item EXCEPT !.state = "PUBLISHED"]}
  /\ UNCHANGED <<draft, job, call, posts, calls, crashes, history>>

-----------------------------------------------------------------------------
(* Crashes *)

Crash == crashes < MaxCrashes /\ crashes' = crashes + 1

RequestCrash(c) ==
  /\ Crash /\ ~Idle(c) /\ End(c)
  /\ UNCHANGED <<item, draft, job, entry, posts, calls, history>>

JobCrash(d) ==
  /\ Crash /\ job[d].stage \in {"read", "generating", "recorded", "applied"}
  /\ JobTo(d, IF job[d].deliveries < MaxDeliveries THEN "waiting" ELSE "dead")
  /\ UNCHANGED <<item, draft, Outside, history>>

-----------------------------------------------------------------------------
(* A new item on an evidence pack, or one a campaign run routed to review.   *)
Init ==
  /\ item \in {NewRow} \cup {[NewRow EXCEPT !.state = "REVIEW", !.body = t] : t \in Texts}
  /\ draft = [d \in Drafts |-> "NONE"]
  /\ job = [d \in Drafts |-> [stage |-> "free", deliveries |-> 0]]
  /\ call = [c \in Callers |-> NoCall]
  /\ entry = [e \in Entries |-> [stage |-> "none", body |-> NoBody]]
  /\ posts = {} /\ calls = 0 /\ crashes = 0
  /\ approved = {} /\ written = 0 /\ overwrote = FALSE
  /\ landed = [d \in Drafts |-> 0]

CallStep(c) ==
  \/ Moderate(c) \/ Flag(c) \/ Edit(c) \/ Submit(c) \/ Decide(c) \/ Approve(c)
  \/ ScheduleCreate(c) \/ ScheduleLink(c)
  \/ GenerateRefused(c) \/ GenerateCreate(c) \/ GenerateEnqueue(c)

CallStart(c) ==
  Schedule(c) \/ Generate(c) \/ \E op \in ReviewOps : Review(c, op)

JobStep(d) ==
  \/ DraftDeliver(d) \/ DraftRefused(d) \/ DraftAllowed(d) \/ DraftRecord(d)
  \/ DraftApply(d) \/ DraftFinish(d) \/ DraftThrows(d)

EntryStep(e) == PublishRead(e) \/ PublishSend(e) \/ PublishMark(e)

Next ==
  \/ \E c \in Callers : CallStart(c) \/ CallStep(c) \/ RequestCrash(c)
  \/ \E d \in Drafts : JobStep(d) \/ JobCrash(d)
  \/ \E e \in Entries : EntryStep(e)

Spec == Init /\ [][Next]_vars

(* Workers take waiting jobs, and requests that were made go on. *)
FairSpec ==
  /\ Spec
  /\ \A c \in Callers : WF_vars(CallStep(c))
  /\ \A d \in Drafts : WF_vars(JobStep(d))

-----------------------------------------------------------------------------
(* Properties *)

(* Every variable keeps the shape of the rows and messages it stands for. *)
TypeOK ==
  /\ item \in Rows
  /\ draft \in [Drafts -> DraftStatus]
  /\ job \in [Drafts -> [stage : JobStages, deliveries : Nat]]
  /\ call \in [Callers -> Calls]
  /\ entry \in [Entries -> Attempts]
  /\ posts \subseteq Bodies \cup {NoBody} /\ approved \subseteq Bodies \cup {NoBody}
  /\ calls \in Nat /\ crashes \in Nat /\ written \in Nat
  /\ landed \in [Drafts -> Nat] /\ overwrote \in BOOLEAN

(* As long as no request has written over a row it did not read, the body of *)
(* an approved or scheduled item is one that was approved, and a CLEAR on    *)
(* the row is a verdict on that body: approve moderates the copy it read,    *)
(* while edits and generated bodies arrive.                                  *)
ApprovalCoversTheBody ==
  item.state \in {"APPROVED", "SCHEDULED"} /\ ~overwrote =>
    /\ item.body \in approved
    /\ item.moderation = "CLEAR" => item.body \notin Unsafe

(* Whatever requests overlap or die, nothing is scheduled or posted before   *)
(* somebody has approved the item once (calendar.service, schedule).         *)
NothingPostedUnreviewed ==
  (\E e \in Entries : entry[e].stage # "none") \/ posts # {} => approved # {}

(* "Human review & approval with full history": the logs of edits and        *)
(* decisions hold every one that was made.  Of two requests that read the    *)
(* same row, the second to write drops the entry of the first.               *)
HistoryIsKept == item.approvals + item.edits = written

(* A draft is written into the item once: a job delivered again after a      *)
(* crash does not undo the edits made since (executeContentDraft).           *)
DraftLandsOnce == \A d \in Drafts : landed[d] <= 1

(* "A stuck GENERATING row never happens": every draft whose job was queued  *)
(* is finished, though its job dies on the way (executeContentDraft).        *)
Queued(d) == job[d].stage # "free"
DraftsEnd == \A d \in Drafts : Queued(d) ~> draft[d] \in {"READY", "FAILED"}

=============================================================================
