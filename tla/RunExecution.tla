---------------------------- MODULE RunExecution ----------------------------
(***************************************************************************)
(* The rows that drive long work: VideoRender, AudioRender and             *)
(* CampaignOrchestrationRun.  The API creates a row and queues its job, or *)
(* cancels it; an executor takes the row from QUEUED over RUNNING to one   *)
(* terminal status.  The three share the protocol and differ in what they  *)
(* make: files, files and the audio of an episode, a campaign.  Jobs are   *)
(* delivered again, processes die, and database writes throw.              *)
(***************************************************************************)
EXTENDS Naturals, FiniteSets

CONSTANTS
  Runs,          \* render keys or run keys, one row each (bound)
  Starts,        \* calls of startRender() and startRun() (bound)
  RunOf,         \* [Starts -> Runs]
  Cancels,       \* calls of cancelRender() and cancelRun() (bound)
  Workers,       \* executions at a time
  MaxAttempts,   \* deliveries of a job whose handler throws
  Kinds,         \* the rows looked at
  Locks          \* the queue gives a job out again only when its worker is dead

ASSUME RunConstants ==
  /\ Runs # {} /\ RunOf \in [Starts -> Runs]
  /\ MaxAttempts \in Nat \ {0}
  /\ Kinds \subseteq {"VIDEO", "AUDIO", "CAMPAIGN"} /\ Kinds # {}
  /\ Locks \in BOOLEAN

VARIABLES
  kind,      \* which table the rows are of
  row,       \* [Runs -> row]
  hold,      \* [HoldKeys -> the budget reservation of the key]
  job,       \* [Runs -> the job of the row]
  made,      \* [Runs -> how many files or campaigns were made for it]
  episode,   \* the podcast episode of the audio renders
  start,     \* [Starts -> where each call stands]
  cancel,    \* [Cancels -> what each call has read and where it stands]
  exec       \* [Workers -> what each execution has read and where it stands]

vars == <<kind, row, hold, job, made, episode, start, cancel, exec>>

Media == kind \in {"VIDEO", "AUDIO"}
Succeeded == {"SUCCEEDED", "PARTIAL"}
Failed == {"FAILED", "TIMED_OUT", "CANCELLED"}
Final == Succeeded \cup Failed
Unfinished == {"QUEUED", "RUNNING"}

(* result is mediaAssetId or campaignId, 0 for null; linked says that        *)
(* queueJobId is set; lost (no column) that the final write was swallowed.   *)
Rows == [status : {"NONE"} \cup Unfinished \cup Final, cancel : BOOLEAN, linked : BOOLEAN,
         result : Nat, lost : BOOLEAN]
NoRow == [status |-> "NONE", cancel |-> FALSE, linked |-> FALSE, result |-> 0, lost |-> FALSE]

Jobs == [state : {"none", "waiting", "active", "done", "removed", "failed"},
         tries : Nat, stalled : BOOLEAN]
NoJob == [state |-> "none", tries |-> 0, stalled |-> FALSE]

NoAudio == <<"none", 0>>
Idle == [stage |-> "idle", run |-> CHOOSE r \in Runs : TRUE, made |-> 0, status |-> "SUCCEEDED"]
NoCancel == [stage |-> "idle", run |-> CHOOSE r \in Runs : TRUE, queued |-> FALSE, linked |-> FALSE,
             removed |-> FALSE]

(* A reservation is made under the render key, and settled under the row's   *)
(* id: orchestration-, audio-render- or video-render-<id>.                   *)
HoldKeys == {"renderKey", "id"} \X Runs
ReservedKey(r) == <<"renderKey", r>>
SettledKey(r) == <<"id", r>>

Of(w) == exec[w].run
RowOf(w) == row[Of(w)]
Goto(w, stage) == exec' = [exec EXCEPT ![w].stage = stage]
Step(s, stage) == start' = [start EXCEPT ![s] = stage]
Move(c, stage) == cancel' = [cancel EXCEPT ![c].stage = stage]

(* An operator named X_Y is X with the bug Y; the mutants of the runs use it. *)

-----------------------------------------------------------------------------
(* startRender() and startRun() *)

(* A row that may be tried again; any other answers the call. *)
Retriable(r) ==
  row[r].status \in {"NONE", "FAILED"} \cup (IF Media THEN {"TIMED_OUT"} ELSE {"CANCELLED"})

Find(s) ==
  /\ start[s] = "idle"
  /\ Step(s, IF Retriable(RunOf[s]) THEN "reserve" ELSE "done")
  /\ UNCHANGED <<kind, row, hold, job, made, episode, cancel, exec>>

(* Renders reserve under the render key, or find the hold that is there; a   *)
(* campaign is only pre-flighted; the budget may refuse either.              *)
Reserve(s) ==
  /\ start[s] = "reserve"
  /\ \/ /\ hold' = IF Media /\ hold[ReservedKey(RunOf[s])] = "NONE"
                   THEN [hold EXCEPT ![ReservedKey(RunOf[s])] = "HELD"] ELSE hold
        /\ Step(s, "create")
     \/ Step(s, "done") /\ UNCHANGED hold
  /\ UNCHANGED <<kind, row, job, made, episode, cancel, exec>>

(* The key is unique: of two calls one creates, and no failed row is renewed. *)
Create(s) ==
  /\ start[s] = "create"
  /\ IF row[RunOf[s]].status = "NONE"
     THEN /\ row' = [row EXCEPT ![RunOf[s]].status = "QUEUED"]
          /\ Step(s, "enqueue")
     ELSE Step(s, "done") /\ UNCHANGED row
  /\ UNCHANGED <<kind, hold, job, made, episode, cancel, exec>>

Enqueue(s) ==
  /\ start[s] = "enqueue"
  /\ job' = [job EXCEPT ![RunOf[s]].state = "waiting"]
  /\ Step(s, "link")
  /\ UNCHANGED <<kind, row, hold, made, episode, cancel, exec>>

(* queueJobId is stored. *)
Link(s) ==
  /\ start[s] = "link"
  /\ row' = [row EXCEPT ![RunOf[s]].linked = TRUE]
  /\ Step(s, IF kind = "AUDIO" THEN "episode" ELSE "done")
  /\ UNCHANGED <<kind, hold, job, made, episode, cancel, exec>>

(* The episode becomes RENDERING, wherever its job is by now. *)
Announce(s) ==
  /\ start[s] = "episode"
  /\ episode' = [episode EXCEPT !.status = "RENDERING"]
  /\ Step(s, "done")
  /\ UNCHANGED <<kind, row, hold, job, made, cancel, exec>>

StartDies(s) ==
  /\ start[s] \notin {"idle", "done"}
  /\ Step(s, "done")
  /\ UNCHANGED <<kind, row, hold, job, made, episode, cancel, exec>>

-----------------------------------------------------------------------------
(* cancelRender() and cancelRun() *)

CancelRead(c, r) ==
  /\ cancel[c].stage = "idle"
  /\ row[r].status \in Unfinished
  /\ cancel' = [cancel EXCEPT ![c] = [NoCancel EXCEPT
                  !.stage = "flag", !.run = r,
                  !.queued = row[r].status = "QUEUED", !.linked = row[r].linked]]
  /\ UNCHANGED <<kind, row, hold, job, made, episode, start, exec>>

CancelFlag(c) ==
  /\ cancel[c].stage = "flag"
  /\ row' = [row EXCEPT ![cancel[c].run].cancel = TRUE]
  /\ Move(c, "remove")
  /\ UNCHANGED <<kind, hold, job, made, episode, start, exec>>

(* A job in the hands of a worker cannot be removed; a finished one can. *)
CancelRemove(c) ==
  LET r == cancel[c].run IN
  /\ cancel[c].stage = "remove"
  /\ \/ /\ cancel[c].linked /\ job[r].state # "active"
        /\ job' = IF job[r].state = "waiting" THEN [job EXCEPT ![r].state = "removed"] ELSE job
        /\ cancel' = [cancel EXCEPT ![c].stage = "close", ![c].removed = TRUE]
     \/ Move(c, "close") /\ UNCHANGED job
  /\ UNCHANGED <<kind, row, hold, made, episode, start, exec>>

CancelClose_Unguarded(c) ==
  /\ cancel[c].stage = "close"
  /\ row' = IF cancel[c].removed \/ cancel[c].queued
            THEN [row EXCEPT ![cancel[c].run].status = "CANCELLED"] ELSE row
  /\ Move(c, "done")
  /\ UNCHANGED <<kind, hold, job, made, episode, start, exec>>

(* A row that was QUEUED, or whose job was removed, is closed if it is still *)
(* QUEUED.                                                                   *)
CancelClose(c) ==
  /\ cancel[c].stage = "close"
  /\ row' = IF (cancel[c].removed \/ cancel[c].queued) /\ row[cancel[c].run].status = "QUEUED"
            THEN [row EXCEPT ![cancel[c].run].status = "CANCELLED"] ELSE row
  /\ Move(c, "done")
  /\ UNCHANGED <<kind, hold, job, made, episode, start, exec>>

CancelDies(c) ==
  /\ cancel[c].stage \notin {"idle", "done"}
  /\ Move(c, "done")
  /\ UNCHANGED <<kind, row, hold, job, made, episode, start, exec>>

-----------------------------------------------------------------------------
(* The executors *)

Deliver(w, r) ==
  /\ exec[w].stage = "idle" /\ job[r].state = "waiting"
  /\ job' = [job EXCEPT ![r].state = "active", ![r].tries = @ + 1]
  /\ exec' = [exec EXCEPT ![w] = [Idle EXCEPT !.stage = "read", !.run = r]]
  /\ UNCHANGED <<kind, row, hold, made, episode, start, cancel>>

Read_Any(w) ==
  /\ exec[w].stage = "read"
  /\ exec' = [exec EXCEPT ![w].made = IF Media THEN 0 ELSE RowOf(w).result,
                          ![w].stage = IF RowOf(w).cancel THEN "close" ELSE "begin"]
  /\ UNCHANGED <<kind, row, hold, job, made, episode, start, cancel>>

Read_Queued(w) ==
  /\ exec[w].stage = "read"
  /\ exec' = [exec EXCEPT ![w].made = IF Media THEN 0 ELSE RowOf(w).result,
                          ![w].stage = IF RowOf(w).status # "QUEUED" THEN "end"
                                       ELSE IF RowOf(w).cancel THEN "close" ELSE "begin"]
  /\ UNCHANGED <<kind, row, hold, job, made, episode, start, cancel>>

(* A finished row is skipped, one whose cancellation was asked for is        *)
(* closed; a campaign's row names the campaign of an earlier delivery.       *)
Read(w) ==
  /\ exec[w].stage = "read"
  /\ exec' = [exec EXCEPT ![w].made = IF Media THEN 0 ELSE RowOf(w).result,
                          ![w].stage = IF RowOf(w).status \notin Unfinished THEN "end"
                                       ELSE IF RowOf(w).cancel THEN "close" ELSE "begin"]
  /\ UNCHANGED <<kind, row, hold, job, made, episode, start, cancel>>

(* RUNNING is written whatever became of the row since it was read. *)
Begin(w) ==
  /\ exec[w].stage = "begin"
  /\ row' = [row EXCEPT ![Of(w)].status = "RUNNING"]
  /\ Goto(w, "work")
  /\ UNCHANGED <<kind, hold, job, made, episode, start, cancel>>

Fails(w) ==
  \E status \in Failed : exec' = [exec EXCEPT ![w].stage = "fail", ![w].status = status]

(* The work itself: inputs, consent, encoding or mixing; the trends, the     *)
(* strategy and the plan of a campaign.  It may fail, or be aborted.         *)
Work(w) ==
  /\ exec[w].stage = "work"
  /\ Goto(w, IF Media THEN "store" ELSE "ensure") \/ Fails(w)
  /\ UNCHANGED <<kind, row, hold, job, made, episode, start, cancel>>

Makes(w) == /\ made' = [made EXCEPT ![Of(w)] = @ + 1]
            /\ exec' = [exec EXCEPT ![w].stage = IF Media THEN "succeed" ELSE "link",
                                    ![w].made = made[Of(w)] + 1]

(* The files are stored as new assets; a failure may leave some behind. *)
Store(w) ==
  /\ exec[w].stage = "store"
  /\ \/ Makes(w)
     \/ Fails(w) /\ made' \in {made, [made EXCEPT ![Of(w)] = @ + 1]}
  /\ UNCHANGED <<kind, row, hold, job, episode, start, cancel>>

Ensure_Anew(w) ==
  /\ exec[w].stage = "ensure"
  /\ Makes(w) \/ (Fails(w) /\ UNCHANGED made)
  /\ UNCHANGED <<kind, row, hold, job, episode, start, cancel>>

(* ensureCampaign(): the campaign the row named when it was read, or a new   *)
(* one.                                                                      *)
Ensure(w) ==
  /\ exec[w].stage = "ensure"
  /\ \/ exec[w].made = 0 /\ Makes(w)
     \/ exec[w].made # 0 /\ Goto(w, "link") /\ UNCHANGED made
     \/ Fails(w) /\ UNCHANGED made
  /\ UNCHANGED <<kind, row, hold, job, episode, start, cancel>>

(* save({campaignId}), whose errors are swallowed. *)
Save(w) ==
  /\ exec[w].stage = "link"
  /\ row' \in {row, [row EXCEPT ![Of(w)].result = exec[w].made]}
  /\ Goto(w, "items")
  /\ UNCHANGED <<kind, hold, job, made, episode, start, cancel>>

(* Content items, drafts and their review.  A failed draft is noted and does *)
(* not stop the run.                                                         *)
Items(w) ==
  /\ exec[w].stage = "items"
  /\ \/ \E status \in Succeeded :
          exec' = [exec EXCEPT ![w].stage = "succeed", ![w].status = status]
     \/ Fails(w)
  /\ UNCHANGED <<kind, row, hold, job, made, episode, start, cancel>>

(* abortIfCancelled(), before each stage of a campaign and each draft. *)
Abort(w) ==
  /\ kind = "CAMPAIGN" /\ exec[w].stage \in {"work", "ensure", "items"}
  /\ RowOf(w).cancel
  /\ exec' = [exec EXCEPT ![w].stage = "fail", ![w].status = "CANCELLED"]
  /\ UNCHANGED <<kind, row, hold, job, made, episode, start, cancel>>

(* reconcile() and release(). *)
Settle(w) ==
  LET k == SettledKey(Of(w)) IN
  hold' = [hold EXCEPT ![k] = IF @ = "HELD" THEN "SETTLED" ELSE @]

(* The hold is reconciled, the usage recorded and the row written, unless    *)
(* the database throws.                                                      *)
Succeed(w) ==
  /\ exec[w].stage = "succeed"
  /\ Settle(w)
  /\ \/ /\ row' = [row EXCEPT ![Of(w)].status = exec[w].status, ![Of(w)].result = exec[w].made]
        /\ Goto(w, IF kind = "AUDIO" THEN "episode" ELSE "end")
     \/ Fails(w) /\ UNCHANGED row
  /\ UNCHANGED <<kind, job, made, episode, start, cancel>>

(* The episode gets its audio, unless the database throws. *)
SetEpisode(w) ==
  /\ exec[w].stage = "episode"
  /\ \/ /\ episode' = [status |-> "READY", audio |-> <<Of(w), exec[w].made>>]
        /\ Goto(w, "end")
     \/ Fails(w) /\ UNCHANGED episode
  /\ UNCHANGED <<kind, row, hold, job, made, start, cancel>>

FailedRow_KeepsResult(w, status) == [RowOf(w) EXCEPT !.status = status]
FailedRow(w, status) ==
  [RowOf(w) EXCEPT !.status = status, !.result = IF Media THEN 0 ELSE @]

(* finishFailed(): unconditional, and its own error is swallowed. *)
FinishFailed(w, status) ==
  row' \in {[row EXCEPT ![Of(w)] = FailedRow(w, status)], [row EXCEPT ![Of(w)].lost = TRUE]}

(* The catch block; the hold is released. *)
Fail(w) ==
  /\ exec[w].stage = "fail"
  /\ FinishFailed(w, exec[w].status)
  /\ Settle(w)
  /\ Goto(w, IF kind = "AUDIO" THEN "reset" ELSE "end")
  /\ UNCHANGED <<kind, job, made, episode, start, cancel>>

(* The episode of a failed render goes back, errors swallowed. *)
Reset(w) ==
  /\ exec[w].stage = "reset"
  /\ episode' \in {episode, [episode EXCEPT !.status = IF @ = "RENDERING" THEN "READY_TO_RENDER" ELSE @]}
  /\ Goto(w, "end")
  /\ UNCHANGED <<kind, row, hold, job, made, start, cancel>>

(* The early return for a cancellation. *)
Close(w) ==
  /\ exec[w].stage = "close"
  /\ FinishFailed(w, "CANCELLED")
  /\ Goto(w, "end")
  /\ UNCHANGED <<kind, hold, job, made, episode, start, cancel>>

Stop(w) == exec' = [exec EXCEPT ![w] = Idle]

(* The handler returns, whatever its outcome: the job is complete. *)
End(w) ==
  /\ exec[w].stage = "end"
  /\ job' = [job EXCEPT ![Of(w)].state = IF @ = "active" THEN "done" ELSE @]
  /\ Stop(w)
  /\ UNCHANGED <<kind, row, hold, made, episode, start, cancel>>

(* Only the read and the write of RUNNING throw out of the handler. *)
Throw(w) ==
  /\ exec[w].stage \in {"read", "begin"}
  /\ job' = [job EXCEPT ![Of(w)].state = IF @ # "active" THEN @
                                         ELSE IF job[Of(w)].tries < MaxAttempts THEN "waiting" ELSE "failed"]
  /\ Stop(w)
  /\ UNCHANGED <<kind, row, hold, made, episode, start, cancel>>

-----------------------------------------------------------------------------
(* The queue and failures *)

WorkerDies(w) ==
  /\ exec[w].stage # "idle"
  /\ Stop(w)
  /\ UNCHANGED <<kind, row, hold, job, made, episode, start, cancel>>

(* A job whose worker was lost is given out once more, and then fails. *)
Stall(r) ==
  /\ job[r].state = "active"
  /\ Locks => \A w \in Workers : exec[w].stage # "idle" => Of(w) # r
  /\ job' = [job EXCEPT ![r].state = IF job[r].stalled THEN "failed" ELSE "waiting",
                        ![r].stalled = TRUE]
  /\ UNCHANGED <<kind, row, hold, made, episode, start, cancel, exec>>

(* A reservation ends by its time. *)
HoldExpires(r) ==
  /\ hold[ReservedKey(r)] = "HELD"
  /\ hold' = [hold EXCEPT ![ReservedKey(r)] = "EXPIRED"]
  /\ UNCHANGED <<kind, row, job, made, episode, start, cancel, exec>>

(* No more calls come (bound). *)
Quiescent ==
  /\ \A s \in Starts : start[s] = "done"
  /\ \A r \in Runs : job[r].state \notin {"waiting", "active"}
  /\ \A w \in Workers : exec[w].stage = "idle"
  /\ UNCHANGED vars

-----------------------------------------------------------------------------
Init ==
  /\ kind \in Kinds
  /\ row = [r \in Runs |-> NoRow]
  /\ hold = [k \in HoldKeys |-> "NONE"]
  /\ job = [r \in Runs |-> NoJob]
  /\ made = [r \in Runs |-> 0]
  /\ episode = [status |-> "READY_TO_RENDER", audio |-> NoAudio]
  /\ start = [s \in Starts |-> "idle"]
  /\ cancel = [c \in Cancels |-> NoCancel]
  /\ exec = [w \in Workers |-> Idle]

Execute(w) ==
  \/ Read(w) \/ Begin(w) \/ Work(w) \/ Store(w) \/ Ensure(w) \/ Save(w) \/ Items(w) \/ Abort(w)
  \/ Succeed(w) \/ SetEpisode(w) \/ Fail(w) \/ Reset(w) \/ Close(w) \/ End(w) \/ Throw(w)

Next ==
  \/ \E s \in Starts :
       Find(s) \/ Reserve(s) \/ Create(s) \/ Enqueue(s) \/ Link(s) \/ Announce(s) \/ StartDies(s)
  \/ \E c \in Cancels :
       \/ CancelFlag(c) \/ CancelRemove(c) \/ CancelClose(c) \/ CancelDies(c)
       \/ \E r \in Runs : CancelRead(c, r)
  \/ \E w \in Workers :
       Execute(w) \/ WorkerDies(w) \/ (\E r \in Runs : Deliver(w, r))
  \/ \E r \in Runs : Stall(r) \/ HoldExpires(r)
  \/ Quiescent

Spec == Init /\ [][Next]_vars

(* Workers take waiting jobs, live ones go on, and the queue notices a job   *)
(* whose worker was lost.                                                    *)
Fairness ==
  /\ \A w \in Workers : WF_vars(Execute(w))
  /\ \A r \in Runs : WF_vars(\E w \in Workers : Deliver(w, r)) /\ WF_vars(Stall(r))

FairSpec == Spec /\ Fairness

-----------------------------------------------------------------------------
(* Properties *)

StartStages == {"idle", "reserve", "create", "enqueue", "link", "episode", "done"}
CancelStates == [stage : {"idle", "flag", "remove", "close", "done"}, run : Runs,
                 queued : BOOLEAN, linked : BOOLEAN, removed : BOOLEAN]
ExecStates ==
  [stage : {"idle", "read", "begin", "work", "store", "ensure", "link", "items", "succeed",
            "episode", "fail", "reset", "close", "end"},
   run : Runs, made : Nat, status : Final]

(* Every variable keeps the shape of what it stands for. *)
TypeOK ==
  /\ kind \in Kinds
  /\ row \in [Runs -> Rows]
  /\ hold \in [HoldKeys -> {"NONE", "HELD", "SETTLED", "EXPIRED"}]
  /\ job \in [Runs -> Jobs]
  /\ made \in [Runs -> Nat]
  /\ episode \in [status : {"READY_TO_RENDER", "RENDERING", "READY"},
                  audio : {NoAudio} \cup (Runs \X Nat)]
  /\ start \in [Starts -> StartStages]
  /\ cancel \in [Cancels -> CancelStates]
  /\ exec \in [Workers -> ExecStates]

(* "There is a video" and "there is not" are never confused: a render that   *)
(* did not succeed has no file, one that did has one that was stored.        *)
NoFileUnlessSucceeded ==
  Media =>
    \A r \in Runs :
      /\ row[r].status \in Failed => row[r].result = 0
      /\ row[r].status \in Succeeded => row[r].result \in 1 .. made[r]

(* No late cancellation, second start or redelivery takes back what          *)
(* succeeded; only the audio executor itself does, when the update of the    *)
(* episode throws after that of the render.                                  *)
SucceededIsKept ==
  [][\A r \in Runs :
       row[r].status \in Succeeded /\ row'[r].status # row[r].status =>
         kind = "AUDIO" /\ \E w \in Workers : Of(w) = r /\ exec[w].stage = "fail"]_vars

(* An episode never points at the audio of a render that failed, was         *)
(* cancelled or is being made again.                                         *)
EpisodeAudioIsReal ==
  episode.audio # NoAudio =>
    \E r \in Runs : row[r].status = "SUCCEEDED" /\ episode.audio = <<r, row[r].result>>

(* However often its job is delivered, a run that knows its campaign builds  *)
(* no other: "a retry adopts the one the run already made".                  *)
CampaignIsKept ==
  [][\A r \in Runs :
       kind = "CAMPAIGN" /\ row[r].result # 0 => row'[r].result = row[r].result]_vars

(* A run whose job is in the queue ends, unless the job was removed or       *)
(* failed for good, or the executor's last write was swallowed.              *)
Ended(r) ==
  row[r].status \in Final \/ row[r].lost \/ job[r].state \in {"removed", "failed"}
RunsEnd == \A r \in Runs : job[r].state \in {"waiting", "active"} ~> Ended(r)

(* "A reservation is always settled.  Success reconciles it, failure         *)
(* releases it": a render whose row says how it ended holds no budget.       *)
ReservationIsSettled ==
  \A r \in Runs :
    row[r].status \in Succeeded \cup {"FAILED"} => hold[ReservedKey(r)] # "HELD"

=============================================================================
