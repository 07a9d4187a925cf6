------------------------- MODULE RunExecutionProofs -------------------------
(***************************************************************************)
(* However many runs, calls, workers and deliveries there are: as long as  *)
(* the queue gives a job to one live worker at a time, a run that did not  *)
(* succeed has no file, what succeeded is kept, the audio of an episode is *)
(* real, and a campaign is not built again.                                *)
(***************************************************************************)
EXTENDS RunExecution, TLAPS

Stages == {"idle", "read", "begin", "work", "store", "ensure", "link", "items", "succeed",
           "episode", "fail", "reset", "close", "end"}
Unwritten == {"begin", "work", "store", "ensure", "link", "items", "succeed", "close"}
Busy == Stages \ {"idle", "read", "end"}

(* What an execution knows of its row, its job and the episode. *)
AtRow(w) ==
  /\ exec[w].stage # "idle" => job[Of(w)].state = "active"
  /\ exec[w].stage \in Unwritten => RowOf(w).status \notin Succeeded
  /\ exec[w].stage = "fail" /\ RowOf(w).status \in Succeeded => kind = "AUDIO"
  /\ exec[w].stage = "episode" => RowOf(w).status = "SUCCEEDED" /\ RowOf(w).result = exec[w].made
AtData(w) ==
  /\ Media /\ exec[w].stage = "succeed" => exec[w].made \in 1 .. made[Of(w)]
  /\ Media => exec[w].stage \notin {"ensure", "link", "items"}
  /\ Media /\ exec[w].stage \in {"read", "begin", "work", "store", "succeed"} => exec[w].status = "SUCCEEDED"
  /\ exec[w].stage = "succeed" => exec[w].status \in Succeeded
  /\ exec[w].stage = "fail" => exec[w].status \in Failed
  /\ kind # "AUDIO" => exec[w].stage \notin {"episode", "reset"}
  /\ exec[w].stage = "store" => Media
  /\ kind = "CAMPAIGN" /\ exec[w].stage \in Busy /\ RowOf(w).result # 0 => exec[w].made = RowOf(w).result
AtEpisode(w) ==
  exec[w].stage \in Busy => episode.audio = NoAudio \/ \A n \in Nat : episode.audio # <<Of(w), n>>
Knows(w) == AtRow(w) /\ AtData(w) /\ AtEpisode(w)

OneExecution == \A v, w \in Workers :
  exec[v].stage # "idle" /\ exec[w].stage # "idle" /\ Of(v) = Of(w) => v = w

(* Files and rows go together; a row comes before its job. *)
RowInv(r) ==
  /\ Media /\ row[r].status \notin Succeeded => row[r].result = 0
  /\ Media /\ row[r].status \in Succeeded => row[r].result \in 1 .. made[r]
  /\ row[r].status = "NONE" => job[r].state = "none"

(* One call queues the job of a run. *)
StartInv ==
  /\ \A s \in Starts : start[s] = "enqueue" =>
       job[RunOf[s]].state = "none" /\ row[RunOf[s]].status # "NONE"
  /\ \A s, t \in Starts : start[s] = "enqueue" /\ start[t] = "enqueue" /\ RunOf[s] = RunOf[t] => s = t

IInv ==
  /\ TypeOK /\ OneExecution /\ StartInv
  /\ \A w \in Workers : Knows(w)
  /\ \A r \in Runs : RowInv(r)
  /\ EpisodeAudioIsReal

-----------------------------------------------------------------------------
(* Initially there is nothing. *)
LEMMA InitIInv == Init => IInv
<1> SUFFICES ASSUME Init PROVE IInv
  OBVIOUS
<1>1. (CHOOSE r \in Runs : TRUE) \in Runs
  BY RunConstants
<1>2. Idle \in ExecStates /\ NoCancel \in CancelStates
  BY <1>1 DEF Idle, NoCancel, ExecStates, CancelStates, Final, Succeeded
<1>3. NoRow \in Rows /\ NoJob \in Jobs
  BY DEF NoRow, NoJob, Rows, Jobs
<1>4. [status |-> "READY_TO_RENDER", audio |-> NoAudio] \in
        [status : {"READY_TO_RENDER", "RENDERING", "READY"}, audio : {NoAudio} \cup (Runs \X Nat)]
  OBVIOUS
<1>5. TypeOK
  BY <1>2, <1>3, <1>4 DEF Init, TypeOK, StartStages
<1>6. \A w \in Workers : exec[w].stage = "idle"
  BY DEF Init, Idle
<1>7. OneExecution /\ StartInv /\ \A w \in Workers : Knows(w)
  BY <1>6 DEF Init, OneExecution, StartInv, Knows, AtRow, AtData, AtEpisode, Unwritten, Busy
<1>8. ASSUME NEW r \in Runs PROVE RowInv(r)
  BY DEF Init, RowInv, NoRow, NoJob, Succeeded
<1>9. EpisodeAudioIsReal
  BY DEF Init, EpisodeAudioIsReal
<1> QED
  BY <1>5, <1>7, <1>8, <1>9 DEF IInv

-----------------------------------------------------------------------------
(* Type correctness *)

(* Taking an execution, a call or a cancellation on keeps its shape, and     *)
(* concerns no other.                                                        *)
LEMMA GotoFacts ==
  ASSUME TypeOK, NEW w \in Workers, NEW stage \in Stages, Goto(w, stage)
  PROVE  /\ exec' \in [Workers -> ExecStates]
         /\ exec'[w].stage = stage /\ exec'[w].run = Of(w)
         /\ exec'[w].made = exec[w].made /\ exec'[w].status = exec[w].status
         /\ \A v \in Workers : v # w => exec'[v] = exec[v]
<1>1. exec[w] \in ExecStates /\ exec'[w] = [exec[w] EXCEPT !.stage = stage]
  BY DEF Goto, TypeOK
<1>2. exec'[w] \in ExecStates
  BY <1>1 DEF ExecStates, Stages
<1> QED
  BY <1>1, <1>2 DEF Goto, TypeOK, ExecStates, Of

LEMMA FailsFacts ==
  ASSUME TypeOK, NEW w \in Workers, Fails(w)
  PROVE  /\ exec' \in [Workers -> ExecStates]
         /\ exec'[w].stage = "fail" /\ exec'[w].run = Of(w)
         /\ exec'[w].made = exec[w].made /\ exec'[w].status \in Failed
         /\ \A v \in Workers : v # w => exec'[v] = exec[v]
<1>1. PICK status \in Failed : exec' = [exec EXCEPT ![w].stage = "fail", ![w].status = status]
  BY DEF Fails
<1>2. exec[w] \in ExecStates /\ exec'[w] = [exec[w] EXCEPT !.stage = "fail", !.status = status]
  BY <1>1 DEF TypeOK
<1>3. exec'[w] \in ExecStates
  BY <1>2 DEF ExecStates, Final
<1> QED
  BY <1>1, <1>2, <1>3 DEF TypeOK, ExecStates, Of

LEMMA StopFacts ==
  ASSUME TypeOK, NEW w \in Workers, Stop(w)
  PROVE  /\ exec' \in [Workers -> ExecStates] /\ exec'[w].stage = "idle"
         /\ \A v \in Workers : v # w => exec'[v] = exec[v]
<1>1. Idle \in ExecStates /\ Idle.stage = "idle"
  <2>1. (CHOOSE r \in Runs : TRUE) \in Runs
    BY RunConstants
  <2> QED
    BY <2>1 DEF Idle, ExecStates, Final, Succeeded
<1> QED
  BY <1>1 DEF Stop, TypeOK

LEMMA MakesFacts ==
  ASSUME TypeOK, NEW w \in Workers, Makes(w)
  PROVE  /\ exec' \in [Workers -> ExecStates] /\ made' \in [Runs -> Nat]
         /\ exec'[w].stage = (IF Media THEN "succeed" ELSE "link") /\ exec'[w].run = Of(w)
         /\ exec'[w].made = made[Of(w)] + 1 /\ exec'[w].status = exec[w].status
         /\ made'[Of(w)] = made[Of(w)] + 1 /\ Of(w) \in Runs /\ made[Of(w)] \in Nat
         /\ \A v \in Workers : v # w => exec'[v] = exec[v]
         /\ \A r \in Runs : r # Of(w) => made'[r] = made[r]
<1> DEFINE stage == IF Media THEN "succeed" ELSE "link"
<1>1. stage \in {"succeed", "link"}
  OBVIOUS
<1>2. Of(w) \in Runs /\ made[Of(w)] \in Nat /\ exec[w] \in ExecStates
  BY DEF Of, TypeOK, ExecStates
<1>3. exec' = [exec EXCEPT ![w].stage = stage, ![w].made = made[Of(w)] + 1]
  BY DEF Makes
<1>4. exec'[w] = [exec[w] EXCEPT !.stage = stage, !.made = made[Of(w)] + 1]
  BY <1>3 DEF TypeOK
<1>5. exec'[w] \in ExecStates
  <2> DEFINE k == made[Of(w)] + 1
  <2>1. k \in Nat /\ exec'[w] = [exec[w] EXCEPT !.stage = stage, !.made = k]
    BY <1>2, <1>4
  <2> HIDE DEF k, stage
  <2> QED
    BY <1>1, <1>2, <2>1 DEF ExecStates
<1> HIDE DEF stage
<1>6. exec' \in [Workers -> ExecStates] /\ \A v \in Workers : v # w => exec'[v] = exec[v]
  BY <1>3, <1>5 DEF TypeOK
<1>7. /\ made' \in [Runs -> Nat] /\ made'[Of(w)] = made[Of(w)] + 1
      /\ \A r \in Runs : r # Of(w) => made'[r] = made[r]
  BY <1>2 DEF Makes, TypeOK
<1> QED
  BY <1>2, <1>4, <1>6, <1>7 DEF ExecStates, Of, stage

(* A row is written field by field. *)
LEMMA RowType ==
  ASSUME TypeOK, NEW r \in Runs, NEW f \in Rows
  PROVE  [row EXCEPT ![r] = f] \in [Runs -> Rows]
BY DEF TypeOK

(* Every step keeps the types. *)
LEMMA CallTypes ==
  ASSUME TypeOK, NEW s \in Starts,
         Find(s) \/ Reserve(s) \/ Create(s) \/ Enqueue(s) \/ Link(s) \/ Announce(s) \/ StartDies(s)
  PROVE  TypeOK'
<1>1. RunOf[s] \in Runs /\ row[RunOf[s]] \in Rows /\ job[RunOf[s]] \in Jobs
      /\ ReservedKey(RunOf[s]) \in HoldKeys
  BY RunConstants DEF TypeOK, ReservedKey, HoldKeys
<1>2. \A stage \in StartStages : Step(s, stage) => start' \in [Starts -> StartStages]
  BY DEF Step, TypeOK
<1>3. {"reserve", "create", "enqueue", "link", "episode", "done"} \subseteq StartStages
  BY DEF StartStages
<1>4. CASE Find(s)
  BY <1>2, <1>3, <1>4 DEF Find, TypeOK
<1>5. CASE Reserve(s)
  <2>1. hold' \in [HoldKeys -> {"NONE", "HELD", "SETTLED", "EXPIRED"}]
    BY <1>1, <1>5 DEF Reserve, TypeOK
  <2> QED
    BY <1>2, <1>3, <1>5, <2>1 DEF Reserve, TypeOK
<1>6. CASE Create(s)
  <2>1. [row[RunOf[s]] EXCEPT !.status = "QUEUED"] \in Rows
    BY <1>1 DEF Rows, Unfinished
  <2>2. row' \in [Runs -> Rows]
    BY <1>1, <1>6, <2>1 DEF Create, TypeOK
  <2> QED
    BY <1>2, <1>3, <1>6, <2>2 DEF Create, TypeOK
<1>7. CASE Enqueue(s)
  <2>1. [job[RunOf[s]] EXCEPT !.state = "waiting"] \in Jobs
    BY <1>1 DEF Jobs
  <2>2. job' \in [Runs -> Jobs]
    BY <1>1, <1>7, <2>1 DEF Enqueue, TypeOK
  <2> QED
    BY <1>2, <1>3, <1>7, <2>2 DEF Enqueue, TypeOK
<1>8. CASE Link(s)
  <2>1. [row[RunOf[s]] EXCEPT !.linked = TRUE] \in Rows
    BY <1>1 DEF Rows
  <2>2. row' \in [Runs -> Rows]
    BY <1>1, <1>8, <2>1 DEF Link, TypeOK
  <2> QED
    BY <1>2, <1>3, <1>8, <2>2 DEF Link, TypeOK
<1>9. CASE Announce(s) \/ StartDies(s)
  BY <1>2, <1>3, <1>9 DEF Announce, StartDies, TypeOK
<1> QED
  BY <1>4, <1>5, <1>6, <1>7, <1>8, <1>9

LEMMA CancelTypes ==
  ASSUME TypeOK, NEW c \in Cancels,
         \/ CancelFlag(c) \/ CancelRemove(c) \/ CancelClose(c) \/ CancelDies(c)
         \/ \E r \in Runs : CancelRead(c, r)
  PROVE  TypeOK'
<1>1. /\ cancel[c] \in CancelStates /\ cancel[c].run \in Runs
      /\ row[cancel[c].run] \in Rows /\ job[cancel[c].run] \in Jobs
  BY DEF TypeOK, CancelStates
<1>2. ASSUME NEW stage \in {"remove", "close", "done"}, Move(c, stage)
      PROVE  cancel' \in [Cancels -> CancelStates]
  <2>1. [cancel[c] EXCEPT !.stage = stage] \in CancelStates
    BY <1>1 DEF CancelStates
  <2> QED
    BY <1>2, <2>1 DEF Move, TypeOK
<1>3. CASE CancelFlag(c)
  <2>1. [row[cancel[c].run] EXCEPT !.cancel = TRUE] \in Rows
    BY <1>1 DEF Rows
  <2> QED
    BY <1>1, <1>2, <1>3, <2>1 DEF CancelFlag, TypeOK
<1>4. CASE CancelRemove(c)
  <2>1. [job[cancel[c].run] EXCEPT !.state = "removed"] \in Jobs
    BY <1>1 DEF Jobs
  <2>2. job' \in [Runs -> Jobs]
    BY <1>1, <1>4, <2>1 DEF CancelRemove, TypeOK
  <2>3. [cancel[c] EXCEPT !.stage = "close", !.removed = TRUE] \in CancelStates
    BY <1>1 DEF CancelStates
  <2>4. cancel' \in [Cancels -> CancelStates]
    BY <1>1, <1>2, <1>4, <2>3 DEF CancelRemove, TypeOK
  <2> QED
    BY <1>4, <2>2, <2>4 DEF CancelRemove, TypeOK
<1>5. CASE CancelClose(c)
  <2>1. [row[cancel[c].run] EXCEPT !.status = "CANCELLED"] \in Rows
    BY <1>1 DEF Rows, Final, Failed
  <2>2. row' \in [Runs -> Rows]
    BY <1>1, <1>5, <2>1 DEF CancelClose, TypeOK
  <2> QED
    BY <1>2, <1>5, <2>2 DEF CancelClose, TypeOK
<1>6. CASE CancelDies(c)
  BY <1>2, <1>6 DEF CancelDies, TypeOK
<1>7. ASSUME NEW r \in Runs, CancelRead(c, r)
      PROVE  TypeOK'
  <2>1. NoCancel \in CancelStates /\ row[r] \in Rows
    <3>1. (CHOOSE q \in Runs : TRUE) \in Runs
      BY RunConstants
    <3> QED
      BY <3>1 DEF NoCancel, CancelStates, TypeOK
  <2>2. [NoCancel EXCEPT !.stage = "flag", !.run = r, !.queued = row[r].status = "QUEUED",
                         !.linked = row[r].linked] \in CancelStates
    BY <2>1 DEF CancelStates, Rows
  <2>3. cancel' \in [Cancels -> CancelStates]
    BY <1>7, <2>2 DEF CancelRead, TypeOK
  <2> QED
    BY <1>7, <2>3 DEF CancelRead, TypeOK
<1> QED
  BY <1>3, <1>4, <1>5, <1>6, <1>7

LEMMA ExecTypes ==
  ASSUME TypeOK, NEW w \in Workers, Execute(w) \/ WorkerDies(w)
  PROVE  TypeOK'
<1> USE DEF RowOf
<1>1. /\ Of(w) \in Runs /\ exec[w] \in ExecStates /\ row[Of(w)] \in Rows /\ job[Of(w)] \in Jobs
      /\ exec[w].made \in Nat /\ exec[w].status \in Final /\ SettledKey(Of(w)) \in HoldKeys
  BY DEF Of, TypeOK, ExecStates, SettledKey, HoldKeys
<1>2. Settle(w) => hold' \in [HoldKeys -> {"NONE", "HELD", "SETTLED", "EXPIRED"}]
  BY <1>1 DEF Settle, TypeOK
<1>3. CASE Read(w)
  <2>1. PICK stage \in {"end", "close", "begin"}, n \in Nat :
          exec' = [exec EXCEPT ![w].made = n, ![w].stage = stage]
    <3> DEFINE stage == IF row[Of(w)].status \notin Unfinished THEN "end"
                        ELSE IF row[Of(w)].cancel THEN "close" ELSE "begin"
               n == IF Media THEN 0 ELSE row[Of(w)].result
    <3>1. stage \in {"end", "close", "begin"} /\ n \in Nat
      BY <1>1 DEF Rows
    <3>2. exec' = [exec EXCEPT ![w].made = n, ![w].stage = stage]
      BY <1>3 DEF Read
    <3> HIDE DEF stage, n
    <3> QED
      BY <3>1, <3>2
  <2>2. [exec[w] EXCEPT !.made = n, !.stage = stage] \in ExecStates
    BY <1>1 DEF ExecStates
  <2>3. exec'[w] = [exec[w] EXCEPT !.made = n, !.stage = stage]
    BY <2>1 DEF TypeOK
  <2>4. exec' \in [Workers -> ExecStates]
    BY <2>1, <2>2, <2>3 DEF TypeOK
  <2> QED
    BY <1>3, <2>4 DEF Read, TypeOK
<1>4. CASE Begin(w)
  <2>1. [row[Of(w)] EXCEPT !.status = "RUNNING"] \in Rows
    BY <1>1 DEF Rows, Unfinished
  <2>2. row' \in [Runs -> Rows]
    BY <1>1, <1>4, <2>1 DEF Begin, TypeOK
  <2> QED
    BY <1>4, <2>2, GotoFacts DEF Begin, TypeOK, Stages
<1>5. CASE Work(w)
  <2>1. exec' \in [Workers -> ExecStates]
    BY <1>5, GotoFacts, FailsFacts DEF Work, Stages
  <2> QED
    BY <1>5, <2>1 DEF Work, TypeOK
<1>6. CASE Store(w)
  <2>1. [made EXCEPT ![Of(w)] = @ + 1] \in [Runs -> Nat]
    BY <1>1 DEF TypeOK
  <2>2. exec' \in [Workers -> ExecStates] /\ made' \in [Runs -> Nat]
    BY <1>6, <2>1, MakesFacts, FailsFacts DEF Store, TypeOK
  <2> QED
    BY <1>6, <2>2 DEF Store, TypeOK
<1>7. CASE Ensure(w)
  <2>1. exec' \in [Workers -> ExecStates] /\ made' \in [Runs -> Nat]
    BY <1>7, MakesFacts, FailsFacts, GotoFacts DEF Ensure, TypeOK, Stages
  <2> QED
    BY <1>7, <2>1 DEF Ensure, TypeOK
<1>8. CASE Save(w)
  <2>1. [row[Of(w)] EXCEPT !.result = exec[w].made] \in Rows
    BY <1>1 DEF Rows
  <2>2. row' \in [Runs -> Rows]
    BY <1>1, <1>8, <2>1 DEF Save, TypeOK
  <2> QED
    BY <1>8, <2>2, GotoFacts DEF Save, TypeOK, Stages
<1>9. CASE Items(w) \/ Abort(w)
  <2>1. exec' \in [Workers -> ExecStates]
    <3>1. ASSUME NEW stage \in {"succeed", "fail"}, NEW status \in Final,
                 exec' = [exec EXCEPT ![w].stage = stage, ![w].status = status]
          PROVE  exec' \in [Workers -> ExecStates]
      <4>1. [exec[w] EXCEPT !.stage = stage, !.status = status] \in ExecStates
        BY <1>1 DEF ExecStates
      <4> QED
        BY <3>1, <4>1 DEF TypeOK
    <3> QED
      BY <1>9, <3>1, FailsFacts DEF Items, Abort, Final, Failed, Succeeded
  <2> QED
    BY <1>9, <2>1 DEF Items, Abort, TypeOK
<1>10. CASE Succeed(w)
  <2>1. [row[Of(w)] EXCEPT !.status = exec[w].status, !.result = exec[w].made] \in Rows
    BY <1>1 DEF Rows
  <2>2. row' \in [Runs -> Rows]
    BY <1>1, <1>10, <2>1 DEF Succeed, TypeOK
  <2>3. exec' \in [Workers -> ExecStates]
    BY <1>10, GotoFacts, FailsFacts DEF Succeed, Stages
  <2> QED
    BY <1>2, <1>10, <2>2, <2>3 DEF Succeed, TypeOK
<1>11. CASE SetEpisode(w)
  <2>1. exec' \in [Workers -> ExecStates]
    BY <1>11, GotoFacts, FailsFacts DEF SetEpisode, Stages
  <2>2. [status |-> "READY", audio |-> <<Of(w), exec[w].made>>] \in
          [status : {"READY_TO_RENDER", "RENDERING", "READY"}, audio : {NoAudio} \cup (Runs \X Nat)]
    BY <1>1
  <2> QED
    BY <1>11, <2>1, <2>2 DEF SetEpisode, TypeOK
<1>12. ASSUME NEW status \in Final, FinishFailed(w, status)
       PROVE  row' \in [Runs -> Rows]
  <2>1. FailedRow(w, status) \in Rows /\ [row[Of(w)] EXCEPT !.lost = TRUE] \in Rows
    <3> DEFINE n == IF Media THEN 0 ELSE row[Of(w)].result
    <3>1. n \in Nat /\ FailedRow(w, status) = [row[Of(w)] EXCEPT !.status = status, !.result = n]
      BY <1>1 DEF Rows, FailedRow
    <3> HIDE DEF n
    <3> QED
      BY <1>1, <3>1 DEF Rows
  <2> QED
    BY <1>1, <1>12, <2>1 DEF FinishFailed, TypeOK
<1>13. CASE Fail(w)
  <2>1. row' \in [Runs -> Rows]
    BY <1>1, <1>12, <1>13 DEF Fail
  <2>2. exec' \in [Workers -> ExecStates]
    BY <1>13, GotoFacts DEF Fail, Stages
  <2> QED
    BY <1>2, <1>13, <2>1, <2>2 DEF Fail, TypeOK
<1>14. CASE Reset(w)
  <2>1. exec' \in [Workers -> ExecStates]
    BY <1>14, GotoFacts DEF Reset, Stages
  <2> QED
    BY <1>14, <2>1 DEF Reset, TypeOK
<1>15. CASE Close(w)
  <2>1. row' \in [Runs -> Rows]
    BY <1>12, <1>15 DEF Close, Final, Failed
  <2>2. exec' \in [Workers -> ExecStates]
    BY <1>15, GotoFacts DEF Close, Stages
  <2> QED
    BY <1>15, <2>1, <2>2 DEF Close, TypeOK
<1>16. CASE End(w) \/ Throw(w)
  <2>1. PICK state \in {"none", "waiting", "active", "done", "removed", "failed"} :
          job' = [job EXCEPT ![Of(w)].state = state]
    BY <1>1, <1>16 DEF End, Throw, Jobs
  <2>2. [job[Of(w)] EXCEPT !.state = state] \in Jobs
    BY <1>1 DEF Jobs
  <2>3. job' \in [Runs -> Jobs]
    BY <1>1, <2>1, <2>2 DEF TypeOK
  <2> QED
    BY <1>16, <2>3, StopFacts DEF End, Throw, TypeOK
<1>17. CASE WorkerDies(w)
  BY <1>17, StopFacts DEF WorkerDies, TypeOK
<1> QED
  BY <1>3, <1>4, <1>5, <1>6, <1>7, <1>8, <1>9, <1>10, <1>11, <1>13, <1>14, <1>15, <1>16, <1>17 DEF Execute

LEMMA QueueTypes ==
  ASSUME TypeOK, NEW r \in Runs,
         Stall(r) \/ HoldExpires(r) \/ \E w \in Workers : Deliver(w, r)
  PROVE  TypeOK'
<1>1. job[r] \in Jobs /\ ReservedKey(r) \in HoldKeys
  BY DEF TypeOK, ReservedKey, HoldKeys
<1>2. CASE Stall(r)
  <2>1. PICK state \in {"failed", "waiting"} : job' = [job EXCEPT ![r].state = state, ![r].stalled = TRUE]
    BY <1>2 DEF Stall
  <2>2. [job[r] EXCEPT !.state = state, !.stalled = TRUE] \in Jobs
    BY <1>1 DEF Jobs
  <2>3. job'[r] = [job[r] EXCEPT !.state = state, !.stalled = TRUE]
    BY <2>1 DEF TypeOK
  <2>4. job' \in [Runs -> Jobs]
    BY <2>1, <2>2, <2>3 DEF TypeOK
  <2> QED
    BY <1>2, <2>4 DEF Stall, TypeOK
<1>3. CASE HoldExpires(r)
  BY <1>1, <1>3 DEF HoldExpires, TypeOK
<1>4. ASSUME NEW w \in Workers, Deliver(w, r)
      PROVE  TypeOK'
  <2>1. job' \in [Runs -> Jobs]
    <3> DEFINE n == job[r].tries + 1
    <3>1. n \in Nat /\ job' = [job EXCEPT ![r].state = "active", ![r].tries = n]
      BY <1>1, <1>4 DEF Jobs, Deliver
    <3> HIDE DEF n
    <3>2. job'[r] = [job[r] EXCEPT !.state = "active", !.tries = n]
      BY <3>1 DEF TypeOK
    <3>3. job'[r] \in Jobs
      BY <1>1, <3>1, <3>2 DEF Jobs
    <3> QED
      BY <3>1, <3>3 DEF TypeOK
  <2>2. [Idle EXCEPT !.stage = "read", !.run = r] \in ExecStates
    BY DEF Idle, ExecStates, Final, Succeeded
  <2> QED
    BY <1>4, <2>1, <2>2 DEF Deliver, TypeOK
<1> QED
  BY <1>2, <1>3, <1>4

LEMMA NextType == TypeOK /\ [Next]_vars => TypeOK'
<1>1. TypeOK /\ UNCHANGED vars => TypeOK'
  BY DEF TypeOK, vars
<1> QED
  BY <1>1, CallTypes, CancelTypes, ExecTypes, QueueTypes DEF Next, Quiescent

-----------------------------------------------------------------------------
(* Steps of calls and of the queue *)

(* A step outside the executions that keeps results, successes and the jobs  *)
(* that are being executed.                                                  *)
LEMMA OutsideStep ==
  ASSUME IInv, TypeOK', StartInv', exec' = exec, kind' = kind, made' = made,
         episode'.audio = episode.audio,
         \A r \in Runs :
           /\ row'[r].result = row[r].result
           /\ row[r].status \in Succeeded \/ row'[r].status \in Succeeded => row'[r].status = row[r].status
           /\ \A w \in Workers : exec[w].stage # "idle" /\ Of(w) = r /\ job[r].state = "active" =>
                job'[r].state = "active"
           /\ row'[r].status = "NONE" => job'[r].state = "none"
  PROVE  IInv'
<1>1. OneExecution'
  BY DEF IInv, OneExecution, Of
<1>2. ASSUME NEW w \in Workers PROVE Knows(w)'
  <2>1. Of(w) \in Runs /\ Of(w)' = Of(w)
    BY DEF IInv, TypeOK, ExecStates, Of
  <2>2. AtRow(w)'
    BY <2>1 DEF IInv, Knows, AtRow, RowOf, Of, Unwritten, Succeeded
  <2>3. AtData(w)'
    BY <2>1 DEF IInv, Knows, AtData, RowOf, Of, Media
  <2>4. AtEpisode(w)'
    BY <2>1 DEF IInv, Knows, AtEpisode, Of
  <2> QED
    BY <2>2, <2>3, <2>4 DEF Knows
<1>3. ASSUME NEW r \in Runs PROVE RowInv(r)'
  BY DEF IInv, RowInv, Media
<1>4. EpisodeAudioIsReal'
  <2>1. \A r \in Runs : row[r].status = "SUCCEEDED" => row'[r].status = "SUCCEEDED" /\ row'[r].result = row[r].result
    BY DEF Succeeded
  <2> QED
    BY <2>1 DEF IInv, EpisodeAudioIsReal
<1> QED
  BY <1>1, <1>2, <1>3, <1>4 DEF IInv

(* A call creates the row and queues its job once. *)
LEMMA CallIInv ==
  ASSUME IInv, TypeOK', NEW s \in Starts,
         Find(s) \/ Reserve(s) \/ Create(s) \/ Enqueue(s) \/ Link(s) \/ Announce(s) \/ StartDies(s)
  PROVE  IInv'
<1> DEFINE r == RunOf[s]
<1>1. r \in Runs /\ \A t \in Starts : RunOf[t] \in Runs
  BY RunConstants
<1>2. exec' = exec /\ kind' = kind /\ made' = made /\ episode'.audio = episode.audio
  BY DEF Find, Reserve, Create, Enqueue, Link, Announce, StartDies, IInv, TypeOK
<1>3. CASE Create(s) /\ row[r].status = "NONE"
  <2>1. row' = [row EXCEPT ![r].status = "QUEUED"] /\ start' = [start EXCEPT ![s] = "enqueue"] /\ job' = job
    BY <1>3 DEF Create, Step
  <2>2. row'[r].status = "QUEUED" /\ row'[r].result = row[r].result /\ \A q \in Runs : q # r => row'[q] = row[q]
    BY <1>1, <2>1 DEF IInv, TypeOK, Rows
  <2>3. job[r].state = "none"
    BY <1>1, <1>3 DEF IInv, RowInv
  <2>4. \A t \in Starts : start[t] = "enqueue" => RunOf[t] # r
    BY <1>3 DEF IInv, StartInv
  <2>5. start'[s] = "enqueue" /\ \A t \in Starts : t # s => start'[t] = start[t]
    BY <2>1 DEF IInv, TypeOK
  <2>6. StartInv'
    BY <1>1, <2>1, <2>2, <2>3, <2>4, <2>5 DEF IInv, StartInv
  <2>7. \A q \in Runs : row'[q].status = "NONE" => job'[q].state = "none"
    BY <2>1, <2>2 DEF IInv, RowInv
  <2> QED
    BY <1>2, <1>3, <2>1, <2>2, <2>6, <2>7, OutsideStep DEF Succeeded
<1>4. CASE Enqueue(s)
  <2>1. start[s] = "enqueue" /\ start' = [start EXCEPT ![s] = "link"] /\ row' = row
        /\ job' = [job EXCEPT ![r].state = "waiting"]
    BY <1>4 DEF Enqueue, Step
  <2>2. job[r].state = "none" /\ row[r].status # "NONE"
    BY <2>1 DEF IInv, StartInv
  <2>3. \A q \in Runs : q # r => job'[q] = job[q]
    BY <2>1 DEF IInv, TypeOK
  <2>4. start'[s] # "enqueue" /\ \A t \in Starts : t # s => start'[t] = start[t]
    BY <2>1 DEF IInv, TypeOK
  <2>5. \A t \in Starts : t # s /\ start[t] = "enqueue" => RunOf[t] # r
    BY <2>1 DEF IInv, StartInv
  <2>6. StartInv'
    BY <1>1, <2>1, <2>3, <2>4, <2>5 DEF IInv, StartInv
  <2>7. \A q \in Runs : row'[q].status = "NONE" => job'[q].state = "none"
    BY <2>1, <2>2, <2>3 DEF IInv, RowInv
  <2> QED
    BY <1>2, <2>1, <2>2, <2>3, <2>6, <2>7, OutsideStep
<1>5. CASE ~Enqueue(s) /\ ~(Create(s) /\ row[r].status = "NONE")
  <2>1. job' = job /\ \A q \in Runs : row'[q].status = row[q].status /\ row'[q].result = row[q].result
    BY <1>1, <1>5 DEF Find, Reserve, Create, Link, Announce, StartDies, IInv, TypeOK, Rows
  <2>2. start'[s] # "enqueue" /\ \A t \in Starts : t # s => start'[t] = start[t]
    BY <1>5 DEF Find, Reserve, Create, Link, Announce, StartDies, Step, IInv, TypeOK
  <2>3. StartInv'
    BY <1>1, <2>1, <2>2 DEF IInv, StartInv
  <2>4. \A q \in Runs : row'[q].status = "NONE" => job'[q].state = "none"
    BY <2>1 DEF IInv, RowInv
  <2> QED
    BY <1>2, <2>1, <2>3, <2>4, OutsideStep
<1> QED
  BY <1>3, <1>4, <1>5

(* A cancellation closes rows that are QUEUED. *)
LEMMA CancelRows ==
  ASSUME TypeOK, NEW c \in Cancels,
         \/ CancelFlag(c) \/ CancelRemove(c) \/ CancelClose(c) \/ CancelDies(c)
         \/ \E r \in Runs : CancelRead(c, r)
  PROVE  \A q \in Runs : /\ row'[q].result = row[q].result
                         /\ \/ row'[q].status = row[q].status
                            \/ row[q].status = "QUEUED" /\ row'[q].status = "CANCELLED"
<1>1. CASE row' = row
  BY <1>1
<1>2. CASE row' = [row EXCEPT ![cancel[c].run].cancel = TRUE]
  BY <1>2 DEF TypeOK, Rows
<1>3. CASE row[cancel[c].run].status = "QUEUED" /\ row' = [row EXCEPT ![cancel[c].run].status = "CANCELLED"]
  BY <1>3 DEF TypeOK, Rows
<1> QED
  BY <1>1, <1>2, <1>3 DEF CancelFlag, CancelRemove, CancelClose, CancelDies, CancelRead

(* It takes waiting jobs. *)
LEMMA CancelIInv ==
  ASSUME IInv, TypeOK', NEW c \in Cancels,
         \/ CancelFlag(c) \/ CancelRemove(c) \/ CancelClose(c) \/ CancelDies(c)
         \/ \E r \in Runs : CancelRead(c, r)
  PROVE  IInv'
<1>1. exec' = exec /\ kind' = kind /\ made' = made /\ episode' = episode /\ start' = start
  BY DEF CancelFlag, CancelRemove, CancelClose, CancelDies, CancelRead
<1>2. \A q \in Runs : job'[q].state = job[q].state \/ (job[q].state = "waiting" /\ job'[q].state = "removed")
  <2>1. CASE job' = job
    BY <2>1
  <2>2. CASE job[cancel[c].run].state = "waiting" /\ job' = [job EXCEPT ![cancel[c].run].state = "removed"]
    BY <2>2 DEF IInv, TypeOK, Jobs
  <2> QED
    BY <2>1, <2>2 DEF CancelFlag, CancelRemove, CancelClose, CancelDies, CancelRead
<1>3. \A q \in Runs : /\ row'[q].result = row[q].result
                      /\ \/ row'[q].status = row[q].status
                         \/ row[q].status = "QUEUED" /\ row'[q].status = "CANCELLED"
  BY CancelRows DEF IInv
<1>4. \A t \in Starts : RunOf[t] \in Runs
  BY RunConstants
<1>5. StartInv'
  BY <1>1, <1>2, <1>3, <1>4 DEF IInv, StartInv
<1>6. \A q \in Runs : row'[q].status = "NONE" => job'[q].state = "none"
  BY <1>2, <1>3 DEF IInv, RowInv
<1> QED
  BY <1>1, <1>2, <1>3, <1>5, <1>6, OutsideStep DEF Succeeded

(* The queue takes no job from a live worker; that is what its lock is for.  *)
LEMMA QueueIInv ==
  ASSUME Locks, IInv, TypeOK', NEW r \in Runs, Stall(r) \/ HoldExpires(r)
  PROVE  IInv'
<1>1. exec' = exec /\ kind' = kind /\ made' = made /\ episode' = episode /\ start' = start /\ row' = row
  BY DEF Stall, HoldExpires
<1>2. CASE Stall(r)
  <2>1. \A q \in Runs : q # r => job'[q] = job[q]
    BY <1>2 DEF Stall, IInv, TypeOK
  <2>2. job[r].state = "active" /\ \A w \in Workers : exec[w].stage # "idle" => Of(w) # r
    BY <1>2 DEF Stall
  <2>3. row[r].status # "NONE" /\ \A t \in Starts : start[t] = "enqueue" => RunOf[t] # r
    BY <2>2 DEF IInv, StartInv, RowInv
  <2>4. StartInv'
    BY <1>1, <2>1, <2>3, RunConstants DEF IInv, StartInv
  <2> QED
    BY <1>1, <2>1, <2>2, <2>3, <2>4, OutsideStep DEF IInv, RowInv
<1>3. CASE HoldExpires(r)
  <2>1. job' = job
    BY <1>3 DEF HoldExpires
  <2>2. StartInv'
    BY <1>1, <2>1 DEF IInv, StartInv
  <2> QED
    BY <1>1, <2>1, <2>2, OutsideStep DEF IInv, RowInv
<1> QED
  BY <1>2, <1>3

-----------------------------------------------------------------------------
(* Steps of an execution *)

(* An execution steps alone at its run: the others are at other runs. *)
LEMMA OwnStep ==
  ASSUME IInv, TypeOK', NEW w \in Workers, exec[w].stage # "idle",
         kind' = kind, start' = start,
         \A v \in Workers : v # w => exec'[v] = exec[v],
         exec'[w].stage # "idle" => exec'[w].run = Of(w),
         \A r \in Runs : r # Of(w) => row'[r] = row[r] /\ made'[r] = made[r] /\ job'[r] = job[r],
         row'[Of(w)].status # "NONE",
         episode'.audio = episode.audio \/ \E n \in Nat : episode'.audio = <<Of(w), n>>,
         Knows(w)', \A r \in Runs : r = Of(w) => RowInv(r)', EpisodeAudioIsReal'
  PROVE  IInv'
<1>1. \A v \in Workers : Of(v) \in Runs
  BY DEF Of, IInv, TypeOK, ExecStates
<1>2. \A v \in Workers : v # w /\ exec[v].stage # "idle" => Of(v) # Of(w)
  BY DEF IInv, OneExecution
<1>3. OneExecution'
  BY <1>2 DEF IInv, OneExecution, Of
<1>4. \A t \in Starts : start[t] = "enqueue" => RunOf[t] # Of(w)
  BY DEF IInv, StartInv, Knows, AtRow
<1>5. StartInv'
  BY <1>4, RunConstants DEF IInv, StartInv
<1>6. ASSUME NEW v \in Workers, v # w PROVE Knows(v)'
  <2>1. exec'[v] = exec[v] /\ Of(v)' = Of(v) /\ Of(v) \in Runs /\ Media' = Media
    BY <1>1, <1>6 DEF Of, Media
  <2>2. CASE exec[v].stage = "idle"
    BY <2>1, <2>2 DEF Knows, AtRow, AtData, AtEpisode, Unwritten, Busy
  <2>3. CASE exec[v].stage # "idle"
    <3>1. row'[Of(v)] = row[Of(v)] /\ made'[Of(v)] = made[Of(v)] /\ job'[Of(v)] = job[Of(v)]
      BY <1>2, <1>6, <2>1, <2>3
    <3>2. AtRow(v)'
      BY <2>1, <3>1 DEF IInv, Knows, AtRow, RowOf
    <3>3. AtData(v)'
      BY <2>1, <3>1 DEF IInv, Knows, AtData, RowOf
    <3>4. AtEpisode(v)'
      BY <1>2, <1>6, <2>1, <2>3 DEF IInv, Knows, AtEpisode
    <3> QED
      BY <3>2, <3>3, <3>4 DEF Knows
  <2> QED
    BY <2>2, <2>3
<1>7. ASSUME NEW r \in Runs, r # Of(w) PROVE RowInv(r)'
  BY <1>7 DEF IInv, RowInv, Media
<1>8. \A r \in Runs : RowInv(r)'
  BY <1>7
<1> QED
  BY <1>3, <1>5, <1>6, <1>8 DEF IInv

(* The audio of the episode is that of another render while one is made. *)
LEMMA EpisodeKept ==
  ASSUME IInv, NEW w \in Workers, exec[w].stage \in Busy, episode'.audio = episode.audio,
         \A r \in Runs : r # Of(w) => row'[r] = row[r]
  PROVE  EpisodeAudioIsReal'
<1>1. SUFFICES ASSUME episode.audio # NoAudio
               PROVE  \E r \in Runs : row'[r].status = "SUCCEEDED" /\ episode.audio = <<r, row'[r].result>>
  BY DEF EpisodeAudioIsReal
<1>2. PICK r \in Runs : row[r].status = "SUCCEEDED" /\ episode.audio = <<r, row[r].result>>
  BY <1>1 DEF IInv, EpisodeAudioIsReal
<1>3. row[r].result \in Nat
  BY DEF IInv, TypeOK, Rows
<1>4. r # Of(w)
  BY <1>1, <1>2, <1>3 DEF IInv, Knows, AtEpisode
<1> QED
  BY <1>2, <1>4

(* What holds of an execution before it steps. *)
LEMMA OwnFacts ==
  ASSUME IInv, NEW w \in Workers, exec[w].stage # "idle"
  PROVE  /\ Of(w) \in Runs /\ exec[w] \in ExecStates /\ row[Of(w)] \in Rows
         /\ row[Of(w)].status # "NONE" /\ job[Of(w)].state = "active"
         /\ Knows(w) /\ RowInv(Of(w)) /\ made[Of(w)] \in Nat /\ RowOf(w) = row[Of(w)]
         /\ kind \in {"VIDEO", "AUDIO", "CAMPAIGN"} /\ Media \in BOOLEAN
<1>1. Of(w) \in Runs /\ exec[w] \in ExecStates
  BY DEF IInv, TypeOK, ExecStates, Of
<1>2. Knows(w) /\ RowInv(Of(w)) /\ job[Of(w)].state = "active"
  BY <1>1 DEF IInv, Knows, AtRow
<1> QED
  BY <1>1, <1>2, RunConstants DEF IInv, TypeOK, RowInv, RowOf, Media

(* An execution that only moves on: rows, files and episode stay. *)
LEMMA MoveIInv ==
  ASSUME IInv, TypeOK', NEW w \in Workers, exec[w].stage # "idle", exec'[w].run = Of(w),
         \A v \in Workers : v # w => exec'[v] = exec[v],
         UNCHANGED <<kind, row, job, made, start>>, episode'.audio = episode.audio,
         AtRow(w)', AtData(w)',
         exec'[w].stage \in Busy => exec[w].stage \in Busy
  PROVE  IInv'
<1>1. \A r \in Runs : RowInv(r)'
  BY DEF IInv, RowInv, Media
<1>2. EpisodeAudioIsReal'
  BY DEF IInv, EpisodeAudioIsReal
<1>3. AtEpisode(w)'
  BY DEF IInv, Knows, AtEpisode, Of
<1> QED
  BY <1>1, <1>2, <1>3, OwnFacts, OwnStep DEF Knows

(* An execution that ends, for whatever reason, leaves everything but its    *)
(* job.                                                                      *)
LEMMA StopIInv ==
  ASSUME IInv, TypeOK', NEW w \in Workers, End(w) \/ Throw(w) \/ WorkerDies(w)
  PROVE  IInv'
<1>1. exec[w].stage # "idle" /\ exec'[w].stage = "idle" /\ \A v \in Workers : v # w => exec'[v] = exec[v]
  BY StopFacts DEF End, Throw, WorkerDies, IInv
<1>2. /\ UNCHANGED <<kind, row, made, episode, start>>
      /\ \A r \in Runs : r # Of(w) => job'[r] = job[r]
  BY DEF End, Throw, WorkerDies, IInv, TypeOK
<1>3. Knows(w)'
  BY <1>1 DEF Knows, AtRow, AtData, AtEpisode, Unwritten, Busy
<1>4. \A r \in Runs : r = Of(w) => RowInv(r)'
  BY <1>1, <1>2, OwnFacts DEF RowInv, Media
<1>5. EpisodeAudioIsReal'
  BY <1>2 DEF IInv, EpisodeAudioIsReal
<1> QED
  BY <1>1, <1>2, <1>3, <1>4, <1>5, OwnFacts, OwnStep

(* A job is given out when nobody has it. *)
LEMMA DeliverIInv ==
  ASSUME IInv, TypeOK', NEW w \in Workers, NEW r \in Runs, Deliver(w, r)
  PROVE  IInv'
<1>1. exec[w].stage = "idle" /\ job[r].state = "waiting" /\ UNCHANGED <<kind, row, made, episode, start>>
  BY DEF Deliver
<1>2. \A v \in Workers : Of(v) \in Runs
  BY DEF Of, IInv, TypeOK, ExecStates
<1>3. job'[r].state = "active" /\ \A q \in Runs : q # r => job'[q] = job[q]
  BY DEF Deliver, IInv, TypeOK, Jobs
<1>4. /\ exec'[w].stage = "read" /\ exec'[w].run = r /\ exec'[w].status = "SUCCEEDED"
      /\ \A v \in Workers : v # w => exec'[v] = exec[v]
  BY DEF Deliver, IInv, TypeOK, Idle
<1>5. \A v \in Workers : exec[v].stage # "idle" => Of(v) # r
  BY <1>1 DEF IInv, Knows, AtRow
<1>6. OneExecution'
  BY <1>2, <1>4, <1>5 DEF IInv, OneExecution, Of
<1>7. ASSUME NEW v \in Workers PROVE Knows(v)'
  <2>1. CASE v = w
    BY <1>3, <1>4, <2>1 DEF Knows, AtRow, AtData, AtEpisode, Unwritten, Busy, Of
  <2>2. CASE v # w /\ exec[v].stage = "idle"
    BY <1>4, <2>2 DEF Knows, AtRow, AtData, AtEpisode, Unwritten, Busy
  <2>3. CASE v # w /\ exec[v].stage # "idle"
    <3>1. exec'[v] = exec[v] /\ Of(v)' = Of(v) /\ job'[Of(v)] = job[Of(v)] /\ Media' = Media
      BY <1>1, <1>2, <1>3, <1>4, <1>5, <2>3 DEF Of, Media
    <3> QED
      BY <1>1, <3>1 DEF IInv, Knows, AtRow, AtData, AtEpisode, RowOf
  <2> QED
    BY <2>1, <2>2, <2>3
<1>8. row[r].status # "NONE" /\ \A t \in Starts : start[t] = "enqueue" => RunOf[t] # r
  BY <1>1 DEF IInv, RowInv, StartInv
<1>9. \A q \in Runs : RowInv(q)'
  BY <1>1, <1>3, <1>8 DEF IInv, RowInv, Media
<1>10. StartInv' /\ EpisodeAudioIsReal'
  BY <1>1, <1>3, <1>8, RunConstants DEF IInv, StartInv, EpisodeAudioIsReal
<1> QED
  BY <1>6, <1>7, <1>9, <1>10 DEF IInv

(* The row is read: one that is not finished is not the episode's audio.     *)
LEMMA ReadIInv ==
  ASSUME IInv, TypeOK', NEW w \in Workers, Read(w)
  PROVE  IInv'
<1>1. exec[w].stage = "read" /\ UNCHANGED <<kind, row, job, made, episode, start>>
  BY DEF Read
<1> DEFINE n == IF Media THEN 0 ELSE RowOf(w).result
           stage == IF RowOf(w).status \notin Unfinished THEN "end" ELSE IF RowOf(w).cancel THEN "close" ELSE "begin"
<1>2. /\ stage \in {"end", "close", "begin"} /\ (stage # "end" => RowOf(w).status \in Unfinished)
      /\ (~Media => n = RowOf(w).result)
  OBVIOUS
<1>3. exec' = [exec EXCEPT ![w].made = n, ![w].stage = stage]
  BY DEF Read
<1> HIDE DEF n, stage
<1>4. exec'[w] = [exec[w] EXCEPT !.made = n, !.stage = stage] /\ \A v \in Workers : v # w => exec'[v] = exec[v]
  BY <1>3 DEF IInv, TypeOK
<1>5. exec'[w].stage = stage /\ exec'[w].made = n /\ exec'[w].run = Of(w) /\ exec'[w].status = exec[w].status
  BY <1>1, <1>4, OwnFacts DEF ExecStates, Of
<1>6. Of(w)' = Of(w) /\ RowOf(w)' = RowOf(w) /\ Media' = Media
  BY <1>1, <1>5 DEF Of, RowOf, Media
<1>7. AtRow(w)'
  BY <1>1, <1>2, <1>5, <1>6, OwnFacts DEF Knows, AtRow, Unfinished, Succeeded, Unwritten
<1>8. AtData(w)'
  BY <1>1, <1>2, <1>5, <1>6, OwnFacts DEF Knows, AtData, Media
<1>9. AtEpisode(w)'
  <2> SUFFICES ASSUME stage # "end", NEW k \in Nat, episode.audio # NoAudio, episode.audio = <<Of(w), k>>
               PROVE  FALSE
    BY <1>1, <1>5, <1>6 DEF AtEpisode, Busy
  <2>1. PICK r \in Runs : row[r].status = "SUCCEEDED" /\ episode.audio = <<r, row[r].result>>
    BY DEF IInv, EpisodeAudioIsReal
  <2>2. r = Of(w)
    BY <2>1
  <2> QED
    BY <1>1, <1>2, <2>1, <2>2, OwnFacts DEF Unfinished
<1>10. (\A r \in Runs : RowInv(r)') /\ EpisodeAudioIsReal'
  BY <1>1 DEF IInv, RowInv, Media, EpisodeAudioIsReal
<1> QED
  BY <1>1, <1>4, <1>5, <1>7, <1>8, <1>9, <1>10, OwnFacts, OwnStep DEF Knows

(* An execution whose work fails may leave files of no row behind. *)
LEMMA FailsIInv ==
  ASSUME IInv, TypeOK', NEW w \in Workers, exec[w].stage \in Busy, Fails(w),
         RowOf(w).status \in Succeeded => kind = "AUDIO",
         \A r \in Runs : r # Of(w) => made'[r] = made[r],
         made' = made \/ RowOf(w).status \notin Succeeded,
         UNCHANGED <<kind, row, job, episode, start>>
  PROVE  IInv'
<1>1. exec[w].stage # "idle"
  BY DEF Busy
<1>2. /\ exec'[w].stage = "fail" /\ exec'[w].run = Of(w) /\ exec'[w].made = exec[w].made
      /\ exec'[w].status \in Failed
      /\ \A v \in Workers : v # w => exec'[v] = exec[v]
  BY FailsFacts DEF IInv
<1>3. Of(w)' = Of(w) /\ RowOf(w)' = RowOf(w) /\ Media' = Media
  BY <1>2 DEF Of, RowOf, Media
<1>4. AtRow(w)'
  BY <1>1, <1>2, <1>3, OwnFacts DEF AtRow, Unwritten
<1>5. AtData(w)'
  BY <1>1, <1>2, <1>3, OwnFacts DEF Knows, AtData, Media
<1>6. AtEpisode(w)'
  BY <1>1, <1>3, OwnFacts DEF Knows, AtEpisode
<1>7. \A r \in Runs : r = Of(w) => RowInv(r)'
  BY <1>1, <1>3, OwnFacts DEF RowInv
<1>8. EpisodeAudioIsReal'
  BY DEF IInv, EpisodeAudioIsReal
<1> QED
  BY <1>1, <1>2, <1>4, <1>5, <1>6, <1>7, <1>8, OwnFacts, OwnStep DEF Knows

(* RUNNING is written over a row that had not succeeded. *)
LEMMA BeginIInv ==
  ASSUME IInv, TypeOK', NEW w \in Workers, Begin(w)
  PROVE  IInv'
<1>1. exec[w].stage = "begin" /\ exec[w].stage # "idle" /\ exec[w].stage \in Busy /\ exec[w].stage \in Unwritten
      /\ UNCHANGED <<kind, job, made, episode, start>>
  BY DEF Begin, Busy, Stages, Unwritten
<1>2. /\ exec'[w].stage = "work" /\ exec'[w].run = Of(w) /\ exec'[w].made = exec[w].made
      /\ exec'[w].status = exec[w].status /\ \A v \in Workers : v # w => exec'[v] = exec[v]
  BY GotoFacts DEF Begin, IInv, Stages
<1>3. /\ row'[Of(w)] = [row[Of(w)] EXCEPT !.status = "RUNNING"]
      /\ \A r \in Runs : r # Of(w) => row'[r] = row[r]
  BY <1>1, OwnFacts DEF Begin, IInv, TypeOK
<1>4. row'[Of(w)].status = "RUNNING" /\ row'[Of(w)].result = row[Of(w)].result
  BY <1>1, <1>3, OwnFacts DEF Rows
<1>5. Of(w)' = Of(w) /\ RowOf(w)' = row'[Of(w)] /\ Media' = Media
  BY <1>1, <1>2 DEF Of, RowOf, Media
<1>6. AtRow(w)'
  BY <1>1, <1>2, <1>4, <1>5, OwnFacts DEF AtRow, Succeeded
<1>7. AtData(w)'
  BY <1>1, <1>2, <1>4, <1>5, OwnFacts DEF Knows, AtData, Media
<1>8. AtEpisode(w)'
  BY <1>1, <1>2, <1>5, OwnFacts DEF Knows, AtEpisode
<1>9. \A r \in Runs : r = Of(w) => RowInv(r)'
  BY <1>1, <1>4, <1>5, OwnFacts DEF Knows, AtRow, RowInv, Succeeded
<1>10. EpisodeAudioIsReal'
  BY <1>1, <1>3, EpisodeKept
<1> QED
  BY <1>1, <1>2, <1>3, <1>4, <1>6, <1>7, <1>8, <1>9, <1>10, OwnFacts, OwnStep DEF Knows

(* The work is done, or fails. *)
LEMMA WorkIInv ==
  ASSUME IInv, TypeOK', NEW w \in Workers, Work(w)
  PROVE  IInv'
<1>1. exec[w].stage = "work" /\ exec[w].stage # "idle" /\ exec[w].stage \in Busy /\ exec[w].stage \in Unwritten
      /\ UNCHANGED <<kind, row, job, made, episode, start>>
  BY DEF Work, Busy, Stages, Unwritten
<1>2. CASE Fails(w)
  BY <1>1, <1>2, OwnFacts, FailsIInv DEF Knows, AtRow
<1>3. CASE Goto(w, IF Media THEN "store" ELSE "ensure")
  <2> DEFINE stage == IF Media THEN "store" ELSE "ensure"
  <2>1. stage \in {"store", "ensure"} /\ stage \in Stages /\ Goto(w, stage) /\ (stage = "store" <=> Media)
    BY <1>3 DEF Stages
  <2> HIDE DEF stage
  <2>2. /\ exec'[w].stage = stage /\ exec'[w].run = Of(w) /\ exec'[w].made = exec[w].made
        /\ exec'[w].status = exec[w].status /\ \A v \in Workers : v # w => exec'[v] = exec[v]
    BY <2>1, GotoFacts DEF IInv
  <2>3. Of(w)' = Of(w) /\ RowOf(w)' = RowOf(w) /\ Media' = Media
    BY <1>1, <2>2 DEF Of, RowOf, Media
  <2>4. AtRow(w)'
    BY <1>1, <2>1, <2>2, <2>3, OwnFacts DEF Knows, AtRow
  <2>5. AtData(w)'
    BY <1>1, <2>1, <2>2, <2>3, OwnFacts DEF Knows, AtData
  <2> QED
    BY <1>1, <2>2, <2>4, <2>5, MoveIInv
<1> QED
  BY <1>2, <1>3 DEF Work

(* What is made for a run counts once more; its row has not succeeded yet.   *)
LEMMA MakesIInv ==
  ASSUME IInv, TypeOK', NEW w \in Workers, exec[w].stage \in {"store", "ensure"}, Makes(w),
         Media <=> exec[w].stage = "store",
         kind = "CAMPAIGN" => RowOf(w).result = 0,
         UNCHANGED <<kind, row, job, episode, start>>
  PROVE  IInv'
<1>1. exec[w].stage # "idle" /\ exec[w].stage \in Busy /\ exec[w].stage \in Unwritten
  BY DEF Busy, Stages, Unwritten
<1>2. /\ exec'[w].stage = (IF Media THEN "succeed" ELSE "link") /\ exec'[w].run = Of(w)
      /\ exec'[w].made = made[Of(w)] + 1 /\ exec'[w].status = exec[w].status
      /\ made'[Of(w)] = made[Of(w)] + 1 /\ Of(w) \in Runs /\ made[Of(w)] \in Nat
      /\ \A v \in Workers : v # w => exec'[v] = exec[v]
      /\ \A r \in Runs : r # Of(w) => made'[r] = made[r]
  BY MakesFacts DEF IInv
<1>3. Of(w)' = Of(w) /\ RowOf(w)' = RowOf(w) /\ Media' = Media /\ RowOf(w).status \notin Succeeded
  BY <1>1, <1>2, OwnFacts DEF Of, RowOf, Media, Knows, AtRow
<1>4. AtRow(w)'
  BY <1>1, <1>2, <1>3, OwnFacts DEF AtRow
<1>5. AtData(w)'
  <2>1. exec'[w].made \in 1 .. made'[Of(w)]
    BY <1>2
  <2>2. CASE Media
    BY <1>1, <1>2, <1>3, <2>1, <2>2, OwnFacts DEF Knows, AtData, Media, Succeeded
  <2>3. CASE ~Media
    BY <1>1, <1>2, <1>3, <2>3, OwnFacts DEF Knows, AtData, Media
  <2> QED
    BY <2>2, <2>3
<1>6. AtEpisode(w)'
  BY <1>1, <1>3, OwnFacts DEF Knows, AtEpisode
<1>7. \A r \in Runs : r = Of(w) => RowInv(r)'
  BY <1>1, <1>3, OwnFacts DEF RowInv
<1>8. EpisodeAudioIsReal'
  BY DEF IInv, EpisodeAudioIsReal
<1> QED
  BY <1>1, <1>2, <1>4, <1>5, <1>6, <1>7, <1>8, OwnFacts, OwnStep DEF Knows

LEMMA StoreIInv ==
  ASSUME IInv, TypeOK', NEW w \in Workers, Store(w)
  PROVE  IInv'
<1>1. exec[w].stage = "store" /\ exec[w].stage # "idle" /\ exec[w].stage \in Busy /\ exec[w].stage \in Unwritten
      /\ UNCHANGED <<kind, row, job, episode, start>>
  BY DEF Store, Busy, Stages, Unwritten
<1>2. RowOf(w).status \notin Succeeded /\ Media
  BY <1>1, OwnFacts DEF Knows, AtRow, AtData
<1>3. CASE Makes(w)
  BY <1>1, <1>2, <1>3, MakesIInv DEF Media
<1>4. CASE Fails(w) /\ made' \in {made, [made EXCEPT ![Of(w)] = @ + 1]}
  <2>1. \A r \in Runs : r # Of(w) => made'[r] = made[r]
    BY <1>4 DEF IInv, TypeOK
  <2> QED
    BY <1>1, <1>2, <1>4, <2>1, FailsIInv
<1> QED
  BY <1>3, <1>4 DEF Store

(* The campaign is made only when the row, read after the last execution,    *)
(* named none.                                                               *)
LEMMA EnsureIInv ==
  ASSUME IInv, TypeOK', NEW w \in Workers, Ensure(w)
  PROVE  IInv'
<1>1. exec[w].stage = "ensure" /\ exec[w].stage # "idle" /\ exec[w].stage \in Busy /\ exec[w].stage \in Unwritten
      /\ UNCHANGED <<kind, row, job, episode, start>>
  BY DEF Ensure, Busy, Stages, Unwritten
<1>2. RowOf(w).status \notin Succeeded /\ ~Media /\ kind = "CAMPAIGN"
  BY <1>1, OwnFacts DEF Knows, AtRow, AtData, Media
<1>3. RowOf(w).result # 0 => exec[w].made = RowOf(w).result
  BY <1>1, <1>2, OwnFacts DEF Knows, AtData
<1>4. CASE exec[w].made = 0 /\ Makes(w)
  BY <1>1, <1>2, <1>3, <1>4, MakesIInv
<1>5. CASE Goto(w, "link") /\ UNCHANGED made
  <2>1. /\ exec'[w].stage = "link" /\ exec'[w].run = Of(w) /\ exec'[w].made = exec[w].made
        /\ exec'[w].status = exec[w].status /\ \A v \in Workers : v # w => exec'[v] = exec[v]
    BY <1>5, GotoFacts DEF IInv, Stages
  <2>2. Of(w)' = Of(w) /\ RowOf(w)' = RowOf(w) /\ Media' = Media
    BY <1>1, <2>1 DEF Of, RowOf, Media
  <2>3. AtRow(w)' /\ AtData(w)'
    BY <1>1, <1>2, <1>3, <2>1, <2>2, OwnFacts DEF AtRow, AtData
  <2> QED
    BY <1>1, <1>5, <2>1, <2>3, MoveIInv
<1>6. CASE Fails(w) /\ UNCHANGED made
  BY <1>1, <1>2, <1>6, FailsIInv
<1> QED
  BY <1>4, <1>5, <1>6 DEF Ensure

(* The row names the campaign the execution works on. *)
LEMMA SaveIInv ==
  ASSUME IInv, TypeOK', NEW w \in Workers, Save(w)
  PROVE  IInv'
<1>1. exec[w].stage = "link" /\ exec[w].stage # "idle" /\ exec[w].stage \in Busy /\ exec[w].stage \in Unwritten
      /\ UNCHANGED <<kind, job, made, episode, start>>
  BY DEF Save, Busy, Stages, Unwritten
<1>2. RowOf(w).status \notin Succeeded /\ ~Media
  BY <1>1, OwnFacts DEF Knows, AtRow, AtData
<1>3. /\ exec'[w].stage = "items" /\ exec'[w].run = Of(w) /\ exec'[w].made = exec[w].made
      /\ exec'[w].status = exec[w].status /\ \A v \in Workers : v # w => exec'[v] = exec[v]
  BY GotoFacts DEF IInv, Save, Stages
<1>4. /\ row'[Of(w)].status = row[Of(w)].status /\ row'[Of(w)].result \in {row[Of(w)].result, exec[w].made}
      /\ \A r \in Runs : r # Of(w) => row'[r] = row[r]
  <2>1. CASE row' = row
    BY <2>1
  <2>2. CASE row' = [row EXCEPT ![Of(w)].result = exec[w].made]
    <3>1. row'[Of(w)] = [row[Of(w)] EXCEPT !.result = exec[w].made] /\ \A r \in Runs : r # Of(w) => row'[r] = row[r]
      BY <1>1, <2>2, OwnFacts DEF IInv, TypeOK
    <3> QED
      BY <1>1, <3>1, OwnFacts DEF Rows
  <2> QED
    BY <2>1, <2>2 DEF Save
<1>5. Of(w)' = Of(w) /\ RowOf(w)' = row'[Of(w)] /\ Media' = Media
  BY <1>1, <1>3 DEF Of, RowOf, Media
<1>6. AtRow(w)'
  BY <1>1, <1>2, <1>3, <1>4, <1>5, OwnFacts DEF AtRow
<1>7. AtData(w)'
  BY <1>1, <1>2, <1>3, <1>4, <1>5, OwnFacts DEF Knows, AtData
<1>8. AtEpisode(w)'
  BY <1>1, <1>3, <1>5, OwnFacts DEF Knows, AtEpisode
<1>9. \A r \in Runs : r = Of(w) => RowInv(r)'
  BY <1>1, <1>2, <1>4, <1>5, OwnFacts DEF RowInv
<1>10. EpisodeAudioIsReal'
  BY <1>1, <1>4, EpisodeKept
<1> QED
  BY <1>1, <1>3, <1>4, <1>6, <1>7, <1>8, <1>9, <1>10, OwnFacts, OwnStep DEF Knows

(* The items are made, or the run is aborted. *)
LEMMA ItemsIInv ==
  ASSUME IInv, TypeOK', NEW w \in Workers, Items(w)
  PROVE  IInv'
<1>1. exec[w].stage = "items" /\ exec[w].stage # "idle" /\ exec[w].stage \in Busy /\ exec[w].stage \in Unwritten
      /\ UNCHANGED <<kind, row, job, made, episode, start>>
  BY DEF Items, Busy, Stages, Unwritten
<1>2. RowOf(w).status \notin Succeeded /\ ~Media
  BY <1>1, OwnFacts DEF Knows, AtRow, AtData
<1>3. CASE Fails(w)
  BY <1>1, <1>2, <1>3, FailsIInv
<1>4. ASSUME NEW status \in Succeeded,
             exec' = [exec EXCEPT ![w].stage = "succeed", ![w].status = status]
      PROVE  IInv'
  <2>1. exec'[w] = [exec[w] EXCEPT !.stage = "succeed", !.status = status]
        /\ \A v \in Workers : v # w => exec'[v] = exec[v]
    BY <1>4 DEF IInv, TypeOK
  <2>2. /\ exec'[w].stage = "succeed" /\ exec'[w].run = Of(w) /\ exec'[w].made = exec[w].made
        /\ exec'[w].status = status
    BY <1>1, <2>1, OwnFacts DEF ExecStates, Of
  <2>3. Of(w)' = Of(w) /\ RowOf(w)' = RowOf(w) /\ Media' = Media
    BY <1>1, <2>2 DEF Of, RowOf, Media
  <2>4. AtRow(w)' /\ AtData(w)'
    BY <1>1, <1>2, <2>2, <2>3, OwnFacts DEF Knows, AtRow, AtData
  <2> QED
    BY <1>1, <2>1, <2>2, <2>4, MoveIInv
<1> QED
  BY <1>3, <1>4 DEF Items

LEMMA AbortIInv ==
  ASSUME IInv, TypeOK', NEW w \in Workers, Abort(w)
  PROVE  IInv'
<1>1. exec[w].stage # "idle" /\ exec[w].stage \in Busy /\ exec[w].stage \in Unwritten
      /\ UNCHANGED <<kind, row, job, made, episode, start>>
  BY DEF Abort, Busy, Stages, Unwritten
<1>2. Fails(w)
  BY DEF Abort, Fails, Failed
<1>3. RowOf(w).status \notin Succeeded
  BY <1>1, OwnFacts DEF Knows, AtRow
<1> QED
  BY <1>1, <1>2, <1>3, FailsIInv

(* A row that succeeds names what was made for it. *)
LEMMA SucceedIInv ==
  ASSUME IInv, TypeOK', NEW w \in Workers, Succeed(w)
  PROVE  IInv'
<1>1. exec[w].stage = "succeed" /\ exec[w].stage # "idle" /\ exec[w].stage \in Busy /\ exec[w].stage \in Unwritten
      /\ UNCHANGED <<kind, job, made, episode, start>>
  BY DEF Succeed, Busy, Stages, Unwritten
<1>2. /\ RowOf(w).status \notin Succeeded /\ exec[w].status \in Succeeded
      /\ Media => exec[w].status = "SUCCEEDED" /\ exec[w].made \in 1 .. made[Of(w)]
      /\ kind = "CAMPAIGN" /\ RowOf(w).result # 0 => exec[w].made = RowOf(w).result
  BY <1>1, OwnFacts DEF Knows, AtRow, AtData
<1>3. CASE Fails(w) /\ UNCHANGED row
  BY <1>1, <1>2, <1>3, FailsIInv
<1>4. CASE /\ row' = [row EXCEPT ![Of(w)].status = exec[w].status, ![Of(w)].result = exec[w].made]
           /\ Goto(w, IF kind = "AUDIO" THEN "episode" ELSE "end")
  <2> DEFINE stage == IF kind = "AUDIO" THEN "episode" ELSE "end"
  <2>1. stage \in {"episode", "end"} /\ stage \in Stages /\ Goto(w, stage) /\ (stage = "episode" <=> kind = "AUDIO")
    BY <1>4 DEF Stages
  <2> HIDE DEF stage
  <2>2. /\ exec'[w].stage = stage /\ exec'[w].run = Of(w) /\ exec'[w].made = exec[w].made
        /\ exec'[w].status = exec[w].status /\ \A v \in Workers : v # w => exec'[v] = exec[v]
    BY <2>1, GotoFacts DEF IInv
  <2>3. /\ row'[Of(w)].status = exec[w].status /\ row'[Of(w)].result = exec[w].made
        /\ \A r \in Runs : r # Of(w) => row'[r] = row[r]
    <3>1. row'[Of(w)] = [row[Of(w)] EXCEPT !.status = exec[w].status, !.result = exec[w].made]
          /\ \A r \in Runs : r # Of(w) => row'[r] = row[r]
      BY <1>1, <1>4, OwnFacts DEF IInv, TypeOK
    <3> QED
      BY <1>1, <3>1, OwnFacts DEF Rows
  <2>4. Of(w)' = Of(w) /\ RowOf(w)' = row'[Of(w)] /\ Media' = Media
    BY <1>1, <2>2 DEF Of, RowOf, Media
  <2>5. AtRow(w)'
    BY <1>1, <1>2, <2>1, <2>2, <2>3, <2>4, OwnFacts DEF AtRow, Unwritten, Media
  <2>6. AtData(w)'
    BY <1>1, <2>1, <2>2, <2>3, <2>4, OwnFacts DEF AtData
  <2>7. AtEpisode(w)'
    BY <1>1, <2>2, <2>4, OwnFacts DEF Knows, AtEpisode
  <2>8. \A r \in Runs : r = Of(w) => RowInv(r)'
    BY <1>1, <1>2, <2>3, <2>4, OwnFacts DEF RowInv, Succeeded
  <2>9. EpisodeAudioIsReal'
    BY <1>1, <2>3, EpisodeKept
  <2> QED
    BY <1>1, <1>2, <2>2, <2>3, <2>5, <2>6, <2>7, <2>8, <2>9, OwnFacts, OwnStep DEF Knows, Succeeded
<1> QED
  BY <1>3, <1>4 DEF Succeed

(* The episode gets the audio its row names. *)
LEMMA SetEpisodeIInv ==
  ASSUME IInv, TypeOK', NEW w \in Workers, SetEpisode(w)
  PROVE  IInv'
<1>1. exec[w].stage = "episode" /\ exec[w].stage # "idle" /\ exec[w].stage \in Busy
      /\ UNCHANGED <<kind, row, job, made, start>>
  BY DEF SetEpisode, Busy, Stages
<1>2. /\ row[Of(w)].status = "SUCCEEDED" /\ row[Of(w)].result = exec[w].made /\ kind = "AUDIO"
      /\ exec[w].made \in Nat /\ Of(w) \in Runs
  BY <1>1, OwnFacts DEF Knows, AtRow, AtData, ExecStates
<1>3. CASE Fails(w) /\ UNCHANGED episode
  BY <1>1, <1>2, <1>3, FailsIInv
<1>4. CASE episode' = [status |-> "READY", audio |-> <<Of(w), exec[w].made>>] /\ Goto(w, "end")
  <2>1. /\ exec'[w].stage = "end" /\ exec'[w].run = Of(w) /\ exec'[w].made = exec[w].made
        /\ exec'[w].status = exec[w].status /\ \A v \in Workers : v # w => exec'[v] = exec[v]
    BY <1>4, GotoFacts DEF IInv, Stages
  <2>2. Of(w)' = Of(w) /\ RowOf(w)' = RowOf(w) /\ Media' = Media
    BY <1>1, <2>1 DEF Of, RowOf, Media
  <2>3. Knows(w)'
    BY <1>1, <2>1, <2>2, OwnFacts DEF Knows, AtRow, AtData, AtEpisode, Unwritten, Busy
  <2>4. \A r \in Runs : r = Of(w) => RowInv(r)'
    BY <1>1, OwnFacts DEF RowInv, Media
  <2>5. EpisodeAudioIsReal'
    BY <1>1, <1>2, <1>4 DEF EpisodeAudioIsReal
  <2> QED
    BY <1>1, <1>2, <1>4, <2>1, <2>3, <2>4, <2>5, OwnFacts, OwnStep
<1> QED
  BY <1>3, <1>4 DEF SetEpisode

(* A row that is written off loses its file, and is not the episode's.       *)
LEMMA WrittenOff ==
  ASSUME IInv, TypeOK', NEW w \in Workers, exec[w].stage \in {"fail", "close"}, NEW status \in Failed,
         FinishFailed(w, status), UNCHANGED <<kind, job, made, episode, start>>,
         NEW stage \in {"reset", "end"}, Goto(w, stage), stage = "reset" => kind = "AUDIO"
  PROVE  IInv'
<1>1. exec[w].stage # "idle" /\ exec[w].stage \in Busy /\ stage \in Stages
  BY DEF Busy, Stages
<1>2. /\ exec'[w].stage = stage /\ exec'[w].run = Of(w) /\ exec'[w].made = exec[w].made
      /\ exec'[w].status = exec[w].status /\ \A v \in Workers : v # w => exec'[v] = exec[v]
  BY <1>1, GotoFacts DEF IInv
<1>3. /\ \/ row'[Of(w)].status = row[Of(w)].status /\ row'[Of(w)].result = row[Of(w)].result
         \/ row'[Of(w)].status = status /\ row'[Of(w)].result = IF Media THEN 0 ELSE row[Of(w)].result
      /\ \A r \in Runs : r # Of(w) => row'[r] = row[r]
  <2> DEFINE n == IF Media THEN 0 ELSE row[Of(w)].result
  <2>1. CASE row' = [row EXCEPT ![Of(w)] = FailedRow(w, status)]
    <3>1. row'[Of(w)] = [row[Of(w)] EXCEPT !.status = status, !.result = n]
          /\ \A r \in Runs : r # Of(w) => row'[r] = row[r]
      BY <1>1, <2>1, OwnFacts DEF IInv, TypeOK, FailedRow, RowOf
    <3> HIDE DEF n
    <3>2. row'[Of(w)].status = status /\ row'[Of(w)].result = n
      BY <1>1, <3>1, OwnFacts DEF Rows
    <3> QED
      BY <3>1, <3>2 DEF n
  <2>2. CASE row' = [row EXCEPT ![Of(w)].lost = TRUE]
    <3>1. row'[Of(w)] = [row[Of(w)] EXCEPT !.lost = TRUE] /\ \A r \in Runs : r # Of(w) => row'[r] = row[r]
      BY <1>1, <2>2, OwnFacts DEF IInv, TypeOK
    <3> QED
      BY <1>1, <3>1, OwnFacts DEF Rows
  <2> QED
    BY <2>1, <2>2 DEF FinishFailed
<1>4. Of(w)' = Of(w) /\ RowOf(w)' = row'[Of(w)] /\ Media' = Media /\ status \notin Succeeded /\ status # "NONE"
  BY <1>2 DEF Of, RowOf, Media, Failed, Succeeded
<1>5. AtRow(w)'
  BY <1>1, <1>2, <1>4, OwnFacts DEF AtRow, Unwritten
<1>6. AtData(w)'
  BY <1>1, <1>2, <1>3, <1>4, OwnFacts DEF Knows, AtData, Media
<1>7. AtEpisode(w)'
  BY <1>1, <1>2, <1>4, OwnFacts DEF Knows, AtEpisode
<1>8. \A r \in Runs : r = Of(w) => RowInv(r)'
  BY <1>1, <1>3, <1>4, OwnFacts DEF RowInv
<1>9. EpisodeAudioIsReal'
  BY <1>1, <1>3, EpisodeKept
<1>10. row'[Of(w)].status # "NONE"
  BY <1>1, <1>3, <1>4, OwnFacts
<1> QED
  BY <1>1, <1>2, <1>3, <1>5, <1>6, <1>7, <1>8, <1>9, <1>10, OwnFacts, OwnStep DEF Knows

LEMMA FailIInv ==
  ASSUME IInv, TypeOK', NEW w \in Workers, Fail(w) \/ Close(w) \/ Reset(w)
  PROVE  IInv'
<1>1. CASE Fail(w)
  <2>1. exec[w].stage = "fail" /\ UNCHANGED <<kind, job, made, episode, start>> /\ FinishFailed(w, exec[w].status)
    BY <1>1 DEF Fail
  <2>2. exec[w].status \in Failed
    BY <2>1, OwnFacts DEF Knows, AtData
  <2>3. QED
    <3> DEFINE stage == IF kind = "AUDIO" THEN "reset" ELSE "end"
    <3>1. stage \in {"reset", "end"} /\ Goto(w, stage) /\ (stage = "reset" => kind = "AUDIO")
      BY <1>1 DEF Fail
    <3> HIDE DEF stage
    <3> QED
      BY <2>1, <2>2, <3>1, WrittenOff
<1>2. CASE Close(w)
  BY <1>2, WrittenOff DEF Close, Failed
<1>3. CASE Reset(w)
  <2>1. exec[w].stage = "reset" /\ exec[w].stage # "idle" /\ exec[w].stage \in Busy
        /\ UNCHANGED <<kind, row, job, made, start>>
    BY <1>3 DEF Reset, Busy, Stages
  <2>2. /\ exec'[w].stage = "end" /\ exec'[w].run = Of(w)
        /\ \A v \in Workers : v # w => exec'[v] = exec[v]
    BY <1>3, GotoFacts DEF IInv, Reset, Stages
  <2>3. AtRow(w)' /\ AtData(w)'
    <3>1. Of(w)' = Of(w)
      BY <2>2 DEF Of
    <3> QED
      BY <2>1, <2>2, <3>1, OwnFacts DEF AtRow, AtData, Unwritten, Busy
  <2>4. episode'.audio = episode.audio
    BY <1>3 DEF Reset, IInv, TypeOK
  <2> QED
    BY <2>1, <2>2, <2>3, <2>4, MoveIInv
<1> QED
  BY <1>1, <1>2, <1>3

-----------------------------------------------------------------------------
(* Every step keeps the invariant. *)
LEMMA NextIInv ==
  ASSUME Locks, IInv, [Next]_vars
  PROVE  IInv'
<1>1. TypeOK'
  BY NextType DEF IInv
<1>2. CASE UNCHANGED vars
  <2>1. UNCHANGED <<kind, row, job, made, episode, start, exec>>
    BY <1>2 DEF vars
  <2>2. StartInv'
    BY <2>1 DEF IInv, StartInv
  <2> QED
    BY <1>1, <2>1, <2>2, OutsideStep DEF IInv, RowInv
<1>3. ASSUME NEW w \in Workers, Execute(w) \/ WorkerDies(w)
      PROVE  IInv'
  BY <1>1, <1>3, ReadIInv, BeginIInv, WorkIInv, StoreIInv, EnsureIInv, SaveIInv, ItemsIInv, AbortIInv,
     SucceedIInv, SetEpisodeIInv, FailIInv, StopIInv DEF Execute
<1> QED
  BY <1>1, <1>2, <1>3, CallIInv, CancelIInv, QueueIInv, DeliverIInv DEF Next, Quiescent

LEMMA Invariance ==
  ASSUME Locks
  PROVE  Spec => []IInv
BY InitIInv, NextIInv, PTL DEF Spec

-----------------------------------------------------------------------------
(* The values of the variables stay in the sets declared for them.           *)
THEOREM TypeCorrect == Spec => []TypeOK
<1>1. Init => TypeOK
  BY InitIInv DEF IInv
<1> QED
  BY <1>1, NextType, PTL DEF Spec

(* As long as the queue gives a job to one live worker at a time, a render   *)
(* that did not succeed has no file, and one that did has one that was       *)
(* stored: "there is a video" and "there is not" are never confused.         *)
THEOREM FilesAreOfSuccess ==
  ASSUME Locks
  PROVE  Spec => []NoFileUnlessSucceeded
<1>1. IInv => NoFileUnlessSucceeded
  BY DEF IInv, RowInv, NoFileUnlessSucceeded, Failed, Succeeded
<1> QED
  BY <1>1, Invariance, PTL

(* Under the same lock an episode never points at the audio of a render that *)
(* failed, was cancelled or is being made again.                             *)
THEOREM EpisodesAreReal ==
  ASSUME Locks
  PROVE  Spec => []EpisodeAudioIsReal
<1>1. IInv => EpisodeAudioIsReal
  BY DEF IInv
<1> QED
  BY <1>1, Invariance, PTL

(* A step writes the row of a run only as its execution, its calls or its    *)
(* cancellations do: what it may do to a row that has succeeded or names a   *)
(* campaign.                                                                 *)
LEMMA RowSteps ==
  ASSUME IInv, Next, NEW r \in Runs
  PROVE  /\ row[r].status \in Succeeded /\ row'[r].status # row[r].status =>
              kind = "AUDIO" /\ \E w \in Workers : Of(w) = r /\ exec[w].stage = "fail"
         /\ kind = "CAMPAIGN" /\ row[r].result # 0 => row'[r].result = row[r].result
<1> USE DEF RowOf
<1>1. row[r] \in Rows /\ \A q \in Runs : row[q] \in Rows
  BY DEF IInv, TypeOK
<1>2. ASSUME NEW w \in Workers, exec[w].stage # "idle", Of(w) # r, Execute(w)
      PROVE  row'[r] = row[r]
  BY <1>2, OwnFacts DEF IInv, TypeOK, Execute, Read, Begin, Work, Store, Ensure, Save, Items, Abort, Succeed,
     SetEpisode, Fail, Reset, Close, End, Throw, FinishFailed
<1>0. ASSUME NEW w \in Workers, Of(w) = r, NEW status, FinishFailed(w, status), kind = "CAMPAIGN"
      PROVE  row'[r].result = row[r].result
  <2>1. FailedRow(w, status) = [row[r] EXCEPT !.status = status, !.result = row[r].result]
    BY <1>0 DEF FailedRow, Media
  <2>2. CASE row' = [row EXCEPT ![r] = FailedRow(w, status)]
    BY <1>1, <2>1, <2>2 DEF IInv, TypeOK, Rows
  <2>3. CASE row' = [row EXCEPT ![r].lost = TRUE]
    BY <1>1, <2>3 DEF IInv, TypeOK, Rows
  <2> QED
    BY <1>0, <2>2, <2>3 DEF FinishFailed
<1>3. ASSUME NEW w \in Workers, exec[w].stage # "idle", Of(w) = r, Begin(w) \/ Close(w)
      PROVE  row[r].status \notin Succeeded /\ (kind = "CAMPAIGN" => row'[r].result = row[r].result)
  <2>1. row[r].status \notin Succeeded
    BY <1>3, OwnFacts DEF Knows, AtRow, Unwritten, Begin, Close
  <2>3. CASE Begin(w)
    BY <1>1, <1>3, <2>1, <2>3 DEF Begin, IInv, TypeOK, Rows
  <2>4. CASE Close(w)
    BY <1>0, <1>3, <2>1, <2>4 DEF Close
  <2> QED
    BY <1>3, <2>3, <2>4
<1>4. ASSUME NEW w \in Workers, Of(w) = r, Fail(w)
      PROVE  /\ row[r].status \in Succeeded => kind = "AUDIO" /\ exec[w].stage = "fail"
             /\ kind = "CAMPAIGN" => row'[r].result = row[r].result
  <2>2. exec[w].stage = "fail"
    BY <1>4 DEF Fail
  <2>3. row[r].status \in Succeeded => kind = "AUDIO"
    BY <1>4, <2>2, OwnFacts DEF Knows, AtRow
  <2> QED
    BY <1>0, <1>4, <2>2, <2>3 DEF Fail
<1>5. ASSUME NEW w \in Workers, Of(w) = r, Save(w) \/ Succeed(w)
      PROVE  /\ row[r].status \notin Succeeded
             /\ kind = "CAMPAIGN" /\ row[r].result # 0 => row'[r].result = row[r].result
  <2>1. /\ exec[w].stage \in {"link", "succeed"} /\ row[r].status \notin Succeeded
        /\ kind = "CAMPAIGN" /\ row[r].result # 0 => exec[w].made = row[r].result
    BY <1>5, OwnFacts DEF Knows, AtRow, AtData, Unwritten, Busy, Stages, Save, Succeed
  <2>2. row'[r].result \in {row[r].result, exec[w].made}
    BY <1>1, <1>5 DEF Save, Succeed, IInv, TypeOK, Rows
  <2> QED
    BY <2>1, <2>2
<1>6. ASSUME NEW w \in Workers, Execute(w)
      PROVE  exec[w].stage # "idle"
  BY <1>6 DEF Execute, Read, Begin, Work, Store, Ensure, Save, Items, Abort, Succeed, SetEpisode, Fail, Reset,
     Close, End, Throw
<1>7. ASSUME NEW w \in Workers, Execute(w), ~Begin(w), ~Close(w), ~Fail(w), ~Save(w), ~Succeed(w)
      PROVE  row' = row
  BY <1>7 DEF Execute, Read, Work, Store, Ensure, Items, Abort, SetEpisode, Reset, End, Throw
<1>8. ASSUME NEW s \in Starts,
             Find(s) \/ Reserve(s) \/ Create(s) \/ Enqueue(s) \/ Link(s) \/ Announce(s) \/ StartDies(s)
      PROVE  row'[r].result = row[r].result /\ (row[r].status \in Succeeded => row'[r].status = row[r].status)
  <2>1. RunOf[s] \in Runs
    BY RunConstants
  <2> QED
    BY <1>1, <1>8, <2>1 DEF Find, Reserve, Create, Enqueue, Link, Announce, StartDies, IInv, TypeOK, Rows, Succeeded
<1>9. ASSUME NEW c \in Cancels,
             \/ CancelFlag(c) \/ CancelRemove(c) \/ CancelClose(c) \/ CancelDies(c)
             \/ \E q \in Runs : CancelRead(c, q)
      PROVE  row'[r].result = row[r].result /\ (row[r].status \in Succeeded => row'[r].status = row[r].status)
  BY <1>9, CancelRows DEF IInv, Succeeded
<1>10. ASSUME \/ \E w \in Workers : WorkerDies(w) \/ \E q \in Runs : Deliver(w, q)
              \/ \E q \in Runs : Stall(q) \/ HoldExpires(q)
              \/ Quiescent
       PROVE  row' = row
  BY <1>10 DEF WorkerDies, Deliver, Stall, HoldExpires, Quiescent, vars
<1>11. ASSUME NEW w \in Workers, Execute(w)
       PROVE  /\ row[r].status \in Succeeded /\ row'[r].status # row[r].status =>
                   kind = "AUDIO" /\ Of(w) = r /\ exec[w].stage = "fail"
              /\ kind = "CAMPAIGN" /\ row[r].result # 0 => row'[r].result = row[r].result
  <2>1. CASE Of(w) # r
    BY <1>2, <1>6, <1>11, <2>1
  <2>2. CASE Of(w) = r
    BY <1>3, <1>4, <1>5, <1>6, <1>7, <1>11, <2>2
  <2> QED
    BY <2>1, <2>2
<1> QED
  BY <1>8, <1>9, <1>10, <1>11 DEF Next

(* No late cancellation, second start or redelivery takes back what          *)
(* succeeded, under the lock of the queue.                                   *)
THEOREM SuccessIsKept ==
  ASSUME Locks
  PROVE  Spec => SucceededIsKept
<1>1. ASSUME IInv, [Next]_vars
      PROVE  [\A r \in Runs :
               row[r].status \in Succeeded /\ row'[r].status # row[r].status =>
                 kind = "AUDIO" /\ \E w \in Workers : Of(w) = r /\ exec[w].stage = "fail"]_vars
  BY <1>1, RowSteps
<1> QED
  BY <1>1, Invariance, PTL DEF Spec, SucceededIsKept

(* However often its job is delivered, a run that names its campaign keeps   *)
(* it.                                                                       *)
THEOREM CampaignsAreKept ==
  ASSUME Locks
  PROVE  Spec => CampaignIsKept
<1>1. ASSUME IInv, [Next]_vars
      PROVE  [\A r \in Runs :
               kind = "CAMPAIGN" /\ row[r].result # 0 => row'[r].result = row[r].result]_vars
  BY <1>1, RowSteps
<1> QED
  BY <1>1, Invariance, PTL DEF Spec, CampaignIsKept

=============================================================================
