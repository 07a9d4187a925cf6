--------------------------- MODULE SyncRunsProofs ---------------------------
(***************************************************************************)
(* Theorems about SyncRuns, for any runs, requests, workers and posts.     *)
(* The lease separates the executions of a run only while each stays       *)
(* within it, which is what Timely assumes and what everything but the     *)
(* types rests on.                                                         *)
(***************************************************************************)
EXTENDS SyncRuns, TLAPS

Row(w) == run[RunOf(w)]

(* An execution that holds a run has its row as it claimed it. *)
HolderInv == \A w \in Workers : Holding(w) =>
  /\ Row(w).status = "RUNNING"
  /\ Row(w).startedAt = exec[w].now /\ Row(w).attempt = exec[w].attempt
  /\ clock <= exec[w].now + Lease

(* Within a tick, another execution has taken the run since this one read    *)
(* it, and it can no longer be claimed.                                      *)
Taken(w) ==
  \/ Row(w).status \in Final
  \/ Row(w).status = "RUNNING" /\ Row(w).startedAt = clock
  \/ Row(w).status = "QUEUED" /\ Row(w).next > clock
ClaimInv == \A w \in Workers : exec[w].pc = "claim" =>
  exec[w].now = clock /\ (exec[w].attempt = Row(w).attempt + 1 \/ Taken(w))

(* Keys are of attempts that were made, each is reserved once, and no late   *)
(* settlement touches the hold of the attempt that runs.                     *)
KeyInv ==
  /\ \A r \in Runs, n \in Nat : <<r, n>> \in reserved => n <= run[r].attempt
  /\ \A w \in Workers :
       /\ exec[w].pc = "reserve" => HoldKey(w) \notin reserved
       /\ exec[w].pc = "fetch" => HoldKey(w) \in held
       /\ exec[w].pc = "settle" => exec[w].attempt <= Row(w).attempt
  /\ \A v, w \in Workers :
       exec[v].pc = "settle" /\ Holding(w) /\ RunOf(v) = RunOf(w) => exec[v].attempt < exec[w].attempt

(* What an execution has read without a failure is stored under its attempt. *)
FreshInv == \A w \in Workers :
  /\ exec[w].pc \in {"claim", "reserve"} => exec[w].results = {}
  /\ exec[w].pc = "fetch" =>
       /\ exec[w].results = {} => exec[w].todo \in Targets
       /\ exec[w].results # {} /\ exec[w].results \cap Failures = {} =>
            \A p \in Posts \ exec[w].todo : snapshot[RunOf(w)][p] = exec[w].attempt

IInv ==
  /\ TypeOK /\ HolderInv /\ ClaimInv /\ OneHolderPerLease
  /\ KeyInv /\ FreshInv /\ SuccessIsFresh

-----------------------------------------------------------------------------
(* Initially there are no runs and nobody works. *)
LEMMA InitIInv == Init => IInv
<1> SUFFICES ASSUME Init PROVE IInv
  OBVIOUS
<1>1. NoRow \in Rows /\ Idle \in Executions
  BY DEF NoRow, Rows, Idle, Executions
<1>2. TypeOK
  BY <1>1, SyncConstants DEF Init, TypeOK, Calls, Jobs, Idle, RunOf
<1>3. \A w \in Workers : exec[w].pc = "idle"
  BY DEF Init, Idle
<1>4. \A r \in Runs : run[r].status = "NONE"
  BY DEF Init, NoRow
<1>5. HolderInv /\ ClaimInv /\ OneHolderPerLease /\ FreshInv /\ SuccessIsFresh
  BY <1>3, <1>4 DEF HolderInv, ClaimInv, OneHolderPerLease, FreshInv, SuccessIsFresh, Holding
<1>6. KeyInv
  BY <1>3 DEF KeyInv, Init, Holding
<1> QED
  BY <1>2, <1>5, <1>6 DEF IInv

-----------------------------------------------------------------------------
(* The types. *)

(* An execution that stops, or goes on to another step, keeps its type. *)
LEMMA ExecTypes ==
  ASSUME TypeOK, NEW w \in Workers
  PROVE  /\ Stop(w) => exec' \in [Workers -> Executions] /\ exec'[w] = Idle
         /\ \A pc \in {"claim", "reserve", "fetch", "settle", "enqueue"} :
              Goto(w, pc) => /\ exec' \in [Workers -> Executions]
                             /\ exec'[w] = [exec[w] EXCEPT !.pc = pc]
<1>1. Idle \in Executions
  BY DEF Idle, Executions
<1>2. exec[w] \in Executions
  BY DEF TypeOK
<1>3. ASSUME NEW pc \in {"claim", "reserve", "fetch", "settle", "enqueue"}
      PROVE  [exec[w] EXCEPT !.pc = pc] \in Executions
  BY <1>2 DEF Executions
<1> QED
  BY <1>1, <1>3 DEF TypeOK, Stop, Goto

(* Rows change in their status, their attempt and their times. *)
LEMMA RowTypes ==
  ASSUME NEW row \in Rows, NEW status \in {"NONE"} \cup Unfinished \cup Final,
         NEW attempt \in Nat, NEW startedAt \in Nat, NEW next \in Nat
  PROVE  /\ [row EXCEPT !.status = status, !.attempt = attempt, !.startedAt = startedAt, !.next = next] \in Rows
         /\ [row EXCEPT !.status = status, !.next = next] \in Rows
         /\ row.attempt \in Nat /\ row.startedAt \in Nat /\ row.next \in Nat
<1> DEFINE K == {NoKey} \cup {KeyOf[q] : q \in Requests}
<1> DEFINE S == {"NONE"} \cup Unfinished \cup Final
<1>1. Rows = [status : S, attempt : Nat, startedAt : Nat, next : Nat, key : K] /\ status \in S
  BY DEF Rows
<1> HIDE DEF K, S
<1> QED
  BY <1>1

(* The requests keep the types. *)
LEMMA RequestTypes ==
  ASSUME TypeOK, NEW q \in Requests, Ask(q) \/ Create(q) \/ Enqueue(q)
  PROVE  TypeOK'
<1>1. CASE Ask(q)
  BY <1>1 DEF Ask, TypeOK, Calls, RunOf
<1>2. CASE Create(q)
  <2>1. CASE Keyed(q) # {}
    BY <1>2, <2>1 DEF Create, TypeOK, Calls, RunOf
  <2>2. CASE Keyed(q) = {}
    <3>1. PICK r \in Runs : /\ run' = [run EXCEPT ![r].status = "QUEUED", ![r].key = KeyOf[q]]
                            /\ request' = [request EXCEPT ![q] = [pc |-> "enqueue", run |-> r]]
      BY <1>2, <2>2 DEF Create
    <3>2. [run[r] EXCEPT !.status = "QUEUED", !.key = KeyOf[q]] \in Rows
      BY DEF TypeOK, Rows, Unfinished
    <3>3. run' \in [Runs -> Rows]
      BY <3>1, <3>2 DEF TypeOK
    <3>4. request' \in [Requests -> Calls] /\ \A p \in Requests : request'[p].pc = "enqueue" => request'[p].run \in Runs
      BY <3>1 DEF TypeOK, Calls
    <3> QED
      BY <1>2, <3>3, <3>4 DEF Create, TypeOK, RunOf
  <2> QED
    BY <2>1, <2>2
<1>3. CASE Enqueue(q)
  <2>1. Job(request[q].run, 0) \in Jobs
    BY <1>3 DEF Enqueue, TypeOK, Jobs, Job
  <2> QED
    BY <1>3, <2>1 DEF Enqueue, TypeOK, Calls, RunOf
<1> QED
  BY <1>1, <1>2, <1>3

(* So do the executions, *)
LEMMA ExecutionTypes ==
  ASSUME TypeOK, NEW w \in Workers, Execute(w)
  PROVE  TypeOK'
<1>0. exec[w] \in Executions /\ exec[w].pc # "idle" /\ RunOf(w) \in Runs /\ run[RunOf(w)] \in Rows
  BY DEF TypeOK, Execute, Claim, Reserve, Fetch, Finish, Settle, EnqueueRetry
<1>1. ASSUME exec' \in [Workers -> Executions], exec'[w].run = RunOf(w) \/ exec'[w] = Idle,
             \A v \in Workers \ {w} : exec'[v] = exec[v]
      PROVE  \A v \in Workers : exec'[v].pc # "idle" => exec'[v].run \in Runs
  BY <1>0, <1>1 DEF TypeOK, RunOf, Idle
<1>2. \A v \in Workers \ {w} : exec'[v] = exec[v]
  BY DEF TypeOK, Execute, Claim, Reserve, Fetch, Finish, Settle, EnqueueRetry, Goto, Stop
<1>3. CASE Claim(w)
  <2>1. exec' \in [Workers -> Executions] /\ (exec'[w].run = RunOf(w) \/ exec'[w] = Idle)
    BY <1>0, <1>3, ExecTypes DEF Claim, Executions, RunOf
  <2> DEFINE claimed == [run[RunOf(w)] EXCEPT !.status = "RUNNING", !.attempt = run[RunOf(w)].attempt + 1,
                                              !.startedAt = exec[w].now, !.next = 0]
  <2>2. claimed \in Rows
    <3>1. exec[w].now \in Nat /\ run[RunOf(w)].attempt + 1 \in Nat /\ 0 \in Nat
      BY <1>0 DEF Executions, Rows
    <3>2. "RUNNING" \in {"NONE"} \cup Unfinished \cup Final
      BY DEF Unfinished
    <3> QED
      BY <1>0, <3>1, <3>2, RowTypes
  <2>3. run' \in {run, [run EXCEPT ![RunOf(w)] = claimed]}
    <3>1. CASE Claimable(w)
      BY <1>3, <3>1 DEF Claim
    <3>2. CASE ~Claimable(w)
      BY <1>3, <3>2 DEF Claim
    <3> QED
      BY <3>1, <3>2
  <2> HIDE DEF claimed
  <2>4. run' \in [Runs -> Rows]
    BY <1>0, <2>2, <2>3 DEF TypeOK
  <2> QED
    BY <1>1, <1>2, <1>3, <2>1, <2>4 DEF Claim, TypeOK, RunOf
<1>4. CASE Reserve(w)
  <2>1. CASE run' = [run EXCEPT ![RunOf(w)].status = "FAILED"] /\ Stop(w) /\ UNCHANGED <<reserved, held>>
    <3>1. [run[RunOf(w)] EXCEPT !.status = "FAILED"] \in Rows
      BY <1>0 DEF Rows, Final
    <3>2. run' \in [Runs -> Rows]
      BY <1>0, <2>1, <3>1 DEF TypeOK
    <3> QED
      BY <1>1, <1>2, <1>4, <2>1, <3>2, ExecTypes DEF Reserve, TypeOK, RunOf
  <2>2. CASE /\ reserved' = reserved \cup {HoldKey(w)} /\ held' = held \cup ({HoldKey(w)} \ reserved)
             /\ \E posts \in Targets : exec' = [exec EXCEPT ![w].pc = "fetch", ![w].todo = posts]
             /\ UNCHANGED run
    <3>1. PICK posts \in Targets : exec' = [exec EXCEPT ![w].pc = "fetch", ![w].todo = posts]
      BY <2>2
    <3>2. [exec[w] EXCEPT !.pc = "fetch", !.todo = posts] \in Executions
      BY <1>0 DEF Executions, Targets
    <3>3. exec' \in [Workers -> Executions] /\ exec'[w].run = RunOf(w)
      BY <1>0, <3>1, <3>2 DEF TypeOK, RunOf, Executions
    <3>4. HoldKey(w) \in Runs \X Nat
      BY <1>0 DEF HoldKey, Executions
    <3> QED
      BY <1>1, <1>2, <1>4, <2>2, <3>3, <3>4 DEF Reserve, TypeOK, RunOf
  <2> QED
    BY <1>4, <2>1, <2>2 DEF Reserve
<1>5. CASE Fetch(w)
  <2>1. PICK p \in exec[w].todo, result \in Results, todo \in SUBSET exec[w].todo :
          /\ snapshot' \in {snapshot, StoreSnapshot(w, p)}
          /\ exec' = [exec EXCEPT ![w].todo = todo, ![w].results = @ \cup {result}]
    BY <1>5 DEF Fetch
  <2>2. [exec[w] EXCEPT !.todo = todo, !.results = @ \cup {result}] \in Executions
    BY <1>0 DEF Executions
  <2>3. exec' \in [Workers -> Executions] /\ exec'[w].run = RunOf(w)
    BY <1>0, <2>1, <2>2 DEF TypeOK, RunOf, Executions
  <2>4. exec[w].attempt \in Nat /\ snapshot[RunOf(w)] \in [Posts -> Nat]
    BY <1>0 DEF Executions, TypeOK
  <2>5. [snapshot[RunOf(w)] EXCEPT ![p] = exec[w].attempt] \in [Posts -> Nat]
    BY <2>4
  <2>6. snapshot' \in [Runs -> [Posts -> Nat]]
    BY <1>0, <2>1, <2>5 DEF StoreSnapshot, TypeOK
  <2> QED
    BY <1>1, <1>2, <1>5, <2>3, <2>6 DEF Fetch, TypeOK, RunOf
<1>6. CASE Finish(w)
  <2>1. exec' \in [Workers -> Executions] /\ exec'[w].run = RunOf(w)
    BY <1>0, <1>6, ExecTypes DEF Finish, Executions, RunOf
  <2>2. [run[RunOf(w)] EXCEPT !.status = "QUEUED", !.next = exec[w].now + Backoff] \in Rows
    <3>1. exec[w].now + Backoff \in Nat
      BY <1>0, SyncConstants DEF Executions
    <3> QED
      BY <1>0, <3>1, RowTypes DEF Unfinished
  <2>3. FinalStatus(exec[w].results) \in Final
    BY DEF FinalStatus, Final
  <2>4. [run[RunOf(w)] EXCEPT !.status = FinalStatus(exec[w].results), !.next = 0] \in Rows
    BY <1>0, <2>3, RowTypes
  <2>5. run' \in [Runs -> Rows]
    BY <1>0, <1>6, <2>2, <2>4 DEF Finish, TypeOK
  <2> QED
    BY <1>1, <1>2, <1>6, <2>1, <2>5 DEF Finish, TypeOK, RunOf
<1>7. CASE Settle(w)
  <2>1. exec' \in [Workers -> Executions] /\ (exec'[w].run = RunOf(w) \/ exec'[w] = Idle)
    BY <1>0, <1>7, ExecTypes DEF Settle, Executions, RunOf
  <2> QED
    BY <1>1, <1>2, <1>7, <2>1 DEF Settle, TypeOK, RunOf
<1>8. CASE EnqueueRetry(w)
  <2>1. exec' \in [Workers -> Executions] /\ exec'[w] = Idle
    BY <1>8, ExecTypes DEF EnqueueRetry
  <2>2. Job(RunOf(w), exec[w].now + Backoff) \in Jobs
    BY <1>0, SyncConstants DEF Job, Jobs, Executions
  <2> QED
    BY <1>1, <1>2, <1>8, <2>1, <2>2 DEF EnqueueRetry, TypeOK, RunOf
<1> QED
  BY <1>3, <1>4, <1>5, <1>6, <1>7, <1>8 DEF Execute

(* the queue, the dispatcher, time and failures. *)
LEMMA QueueTypes ==
  ASSUME TypeOK,
         \/ \E w \in Workers : Die(w) \/ \E j \in job : Deliver(w, j)
         \/ \E r \in Runs : Dispatch(r)
         \/ Tick \/ UNCHANGED vars
  PROVE  TypeOK'
<1>1. ASSUME NEW w \in Workers, Die(w)
      PROVE  TypeOK'
  <2>1. exec' \in [Workers -> Executions] /\ exec'[w] = Idle /\ \A v \in Workers \ {w} : exec'[v] = exec[v]
    BY <1>1, ExecTypes DEF Die, Stop, TypeOK
  <2> QED
    BY <1>1, <2>1 DEF Die, TypeOK, RunOf, Idle
<1>2. ASSUME NEW w \in Workers, NEW j \in job, Deliver(w, j)
      PROVE  TypeOK'
  <2>0. j \in Jobs /\ j.run \in Runs /\ run[j.run].attempt \in Nat
    BY DEF TypeOK, Jobs, Rows
  <2> DEFINE e == [Idle EXCEPT !.pc = "claim", !.run = j.run, !.now = clock, !.attempt = run[j.run].attempt + 1]
  <2>1. e \in Executions /\ e.run = j.run
    <3>1. clock \in Nat /\ run[j.run].attempt + 1 \in Nat
      BY <2>0 DEF TypeOK
    <3>2. Idle \in Executions
      BY DEF Idle, Executions
    <3> QED
      BY <2>0, <3>1, <3>2 DEF Executions
  <2>2. exec' = [exec EXCEPT ![w] = e]
    BY <1>2 DEF Deliver
  <2> HIDE DEF e
  <2>3. exec' \in [Workers -> Executions] /\ \A v \in Workers : exec'[v].pc # "idle" => exec'[v].run \in Runs
    BY <2>0, <2>1, <2>2 DEF TypeOK, RunOf
  <2>4. [j EXCEPT !.again = FALSE] \in Jobs
    BY <2>0 DEF Jobs
  <2>5. job' \subseteq Jobs
    BY <1>2, <2>4 DEF Deliver, TypeOK
  <2> QED
    BY <1>2, <2>3, <2>5 DEF Deliver, TypeOK, RunOf
<1>3. ASSUME NEW r \in Runs, Dispatch(r)
      PROVE  TypeOK'
  <2>1. Job(r, 0) \in Jobs
    BY DEF Job, Jobs
  <2> QED
    BY <1>3, <2>1 DEF Dispatch, TypeOK, RunOf
<1>4. CASE Tick
  BY <1>4 DEF Tick, TypeOK, RunOf
<1>5. CASE UNCHANGED vars
  BY <1>5 DEF vars, TypeOK, RunOf
<1> QED
  BY <1>1, <1>2, <1>3, <1>4, <1>5

LEMMA NextType == TypeOK /\ [Next]_vars => TypeOK'
BY RequestTypes, ExecutionTypes, QueueTypes DEF Next, Quiescent

(* The values of the variables stay in the sets declared for them. *)
THEOREM TypeCorrect == Spec => []TypeOK
<1>1. Init => TypeOK
  BY InitIInv DEF IInv
<1> QED
  BY <1>1, NextType, PTL DEF Spec

-----------------------------------------------------------------------------
(* The lease. *)

(* What the types say of an execution and of its row. *)
LEMMA ExecFacts ==
  ASSUME TypeOK, NEW w \in Workers, exec[w].pc # "idle"
  PROVE  /\ RunOf(w) \in Runs /\ clock \in Nat /\ Lease \in Nat \ {0} /\ Backoff \in Nat \ {0}
         /\ exec[w].now \in Nat /\ exec[w].attempt \in Nat
         /\ Row(w).attempt \in Nat /\ Row(w).startedAt \in Nat /\ Row(w).next \in Nat
<1>1. exec[w] \in Executions /\ RunOf(w) \in Runs
  BY DEF TypeOK
<1>2. run[RunOf(w)] \in Rows
  BY <1>1 DEF TypeOK
<1> QED
  BY <1>1, <1>2, RowTypes, SyncConstants DEF Executions, Row, Rows, TypeOK

(* Nothing but the executions, the rows, the keys and the snapshots matters, *)
(* and an execution that stops or queues its retry matters no more.          *)
LEMMA FrameIInv ==
  ASSUME IInv, TypeOK', UNCHANGED <<clock, run, snapshot, reserved, held>>,
         \A w \in Workers : exec'[w] = exec[w] \/ exec'[w].pc \in {"idle", "enqueue"}
  PROVE  IInv'
<1>1. HolderInv' /\ ClaimInv'
  BY DEF IInv, HolderInv, ClaimInv, Holding, Row, RunOf, Taken
<1>2. OneHolderPerLease'
  BY DEF IInv, OneHolderPerLease, Holding, RunOf
<1>3. KeyInv'
  BY DEF IInv, KeyInv, Holding, RunOf, HoldKey, Row
<1>4. FreshInv' /\ SuccessIsFresh'
  BY DEF IInv, FreshInv, SuccessIsFresh, RunOf, Targets
<1> QED
  BY <1>1, <1>2, <1>3, <1>4 DEF IInv

(* A new run has no executions that hold it. *)
LEMMA CreateIInv ==
  ASSUME IInv, TypeOK', NEW q \in Requests, Create(q)
  PROVE  IInv'
<1>1. CASE Keyed(q) # {}
  BY <1>1, FrameIInv DEF Create
<1>2. CASE Keyed(q) = {}
  <2>1. PICK r \in Runs : run[r].status = "NONE" /\ run' = [run EXCEPT ![r].status = "QUEUED", ![r].key = KeyOf[q]]
    BY <1>2 DEF Create
  <2>0. UNCHANGED <<clock, snapshot, reserved, held, exec>>
    BY <1>2 DEF Create
  <2>2. /\ \A s \in Runs : run'[s].attempt = run[s].attempt /\ run'[s].startedAt = run[s].startedAt
        /\ \A s \in Runs \ {r} : run'[s] = run[s]
        /\ run'[r].status = "QUEUED"
    BY <2>1 DEF IInv, TypeOK, Rows
  <2>3. HolderInv' /\ ClaimInv'
    <3>1. ASSUME NEW w \in Workers, exec[w].pc # "idle"
          PROVE  /\ Row(w)'.attempt = Row(w).attempt /\ Row(w)'.startedAt = Row(w).startedAt
                 /\ Row(w).status # "NONE" => Row(w)' = Row(w)
      BY <2>0, <2>1, <2>2, <3>1 DEF IInv, TypeOK, Row, RunOf
    <3>2. HolderInv'
      BY <2>0, <3>1 DEF IInv, HolderInv, Holding
    <3>3. \A w \in Workers : exec[w].pc = "claim" /\ Taken(w) => Taken(w)'
      <4> SUFFICES ASSUME NEW w \in Workers, exec[w].pc = "claim", Taken(w) PROVE Taken(w)'
        OBVIOUS
      <4>1. Row(w).status # "NONE"
        BY DEF Taken, Final
      <4> QED
        BY <2>0, <3>1, <4>1 DEF Taken
    <3> QED
      BY <2>0, <3>1, <3>2, <3>3 DEF IInv, ClaimInv
  <2>4. OneHolderPerLease' /\ KeyInv'
    BY <2>0, <2>2 DEF IInv, TypeOK, OneHolderPerLease, KeyInv, Holding, Row, RunOf, HoldKey
  <2>5. FreshInv' /\ SuccessIsFresh'
    BY <2>0, <2>2 DEF IInv, TypeOK, FreshInv, SuccessIsFresh, RunOf, Targets
  <2> QED
    BY <2>3, <2>4, <2>5 DEF IInv
<1> QED
  BY <1>1, <1>2

(* A delivered job is about the next attempt. *)
LEMMA DeliverIInv ==
  ASSUME IInv, TypeOK', NEW w \in Workers, NEW j \in job, Deliver(w, j)
  PROVE  IInv'
<1>0. UNCHANGED <<clock, run, snapshot, reserved, held>> /\ \A v \in Workers \ {w} : exec'[v] = exec[v]
  BY DEF Deliver, IInv, TypeOK
<1>1. exec'[w].pc = "claim" /\ exec'[w].now = clock /\ exec'[w].attempt = run[exec'[w].run].attempt + 1
      /\ exec'[w].results = {}
  BY DEF Deliver, IInv, TypeOK, Idle
<1>2. HolderInv' /\ ClaimInv'
  BY <1>0, <1>1 DEF IInv, HolderInv, ClaimInv, Holding, Row, RunOf, Taken
<1>3. OneHolderPerLease' /\ KeyInv'
  BY <1>0, <1>1 DEF IInv, OneHolderPerLease, KeyInv, Holding, RunOf, HoldKey, Row
<1>4. FreshInv' /\ SuccessIsFresh'
  BY <1>0, <1>1 DEF IInv, FreshInv, SuccessIsFresh, RunOf, Targets
<1> QED
  BY <1>2, <1>3, <1>4 DEF IInv

(* A claim succeeds only when nobody holds the run, and for the attempt that *)
(* was announced.                                                            *)
LEMMA ClaimIInv ==
  ASSUME IInv, TypeOK', NEW w \in Workers, Claim(w)
  PROVE  IInv'
<1> DEFINE r == RunOf(w)
<1>0. /\ exec[w].pc = "claim" /\ exec[w].pc # "idle" /\ UNCHANGED <<clock, snapshot, reserved, held>>
      /\ exec[w].now = clock /\ (exec[w].attempt = Row(w).attempt + 1 \/ Taken(w))
  BY DEF Claim, IInv, ClaimInv
<1>1. CASE ~Claimable(w)
  BY <1>0, <1>1, ExecTypes, FrameIInv DEF Claim, Stop, Idle, IInv, TypeOK
<1>2. CASE Claimable(w)
  <2>1. ~Taken(w)
    BY <1>0, <1>2, ExecFacts DEF Claimable, Taken, Row, Final, IInv
  <2>2. ASSUME NEW v \in Workers, Holding(v) PROVE RunOf(v) # r
    <3>1. Row(v).status = "RUNNING" /\ clock <= Row(v).startedAt + Lease
      BY <2>2 DEF IInv, HolderInv
    <3> QED
      BY <1>0, <1>2, <3>1, ExecFacts DEF Claimable, Row, IInv
  <2>3. /\ \A s \in Runs \ {r} : run'[s] = run[s]
        /\ run'[r].status = "RUNNING" /\ run'[r].attempt = exec[w].attempt /\ run'[r].startedAt = clock
        /\ run[r].attempt < exec[w].attempt
    <3>1. run' = [run EXCEPT ![r] = [run[r] EXCEPT !.status = "RUNNING", !.attempt = run[r].attempt + 1,
                                                   !.startedAt = exec[w].now, !.next = 0]]
      BY <1>2 DEF Claim
    <3>2. r \in Runs /\ run \in [Runs -> Rows] /\ run[r] \in Rows /\ run[r].attempt \in Nat /\ exec[w].attempt \in Nat
      BY <1>0, ExecFacts DEF IInv, TypeOK, Row
    <3>3. exec[w].attempt = run[r].attempt + 1 /\ exec[w].now = clock
      BY <1>0, <2>1 DEF Row
    <3> HIDE DEF r
    <3>4. run'[r] = [run[r] EXCEPT !.status = "RUNNING", !.attempt = run[r].attempt + 1,
                                   !.startedAt = exec[w].now, !.next = 0]
      BY <3>1, <3>2
    <3>5. run'[r].status = "RUNNING" /\ run'[r].attempt = run[r].attempt + 1 /\ run'[r].startedAt = exec[w].now
      BY <3>2, <3>4 DEF Rows
    <3> QED
      BY <3>1, <3>2, <3>3, <3>5
  <2>4. /\ exec'[w].pc = "reserve" /\ exec'[w].run = r /\ exec'[w].now = clock /\ exec'[w].attempt = exec[w].attempt
        /\ exec'[w].results = exec[w].results
        /\ \A v \in Workers \ {w} : exec'[v] = exec[v]
    BY <1>0, <1>2 DEF Claim, Goto, IInv, TypeOK, Executions, RunOf
  <2>5. /\ r \in Runs /\ clock \in Nat /\ Lease \in Nat \ {0} /\ exec[w].attempt \in Nat
        /\ \A s \in Runs : run[s].attempt \in Nat
    BY <1>0, ExecFacts, RowTypes DEF IInv, TypeOK, Unfinished
  <2> HIDE DEF r
  <2>6. HolderInv'
    <3>1. ASSUME NEW v \in Workers \ {w}, Holding(v) PROVE run'[RunOf(v)] = run[RunOf(v)]
      BY <2>2, <2>3, <3>1 DEF IInv, TypeOK, Holding
    <3> QED
      BY <1>0, <2>3, <2>4, <2>5, <3>1 DEF IInv, HolderInv, Holding, Row, RunOf
  <2>7. ClaimInv'
    <3> SUFFICES ASSUME NEW v \in Workers, (exec[v].pc = "claim")'
                 PROVE  (exec[v].now = clock /\ (exec[v].attempt = Row(v).attempt + 1 \/ Taken(v)))'
      BY DEF ClaimInv
    <3>1. v # w /\ exec'[v] = exec[v] /\ exec[v].pc = "claim" /\ RunOf(v) \in Runs
      BY <2>4 DEF IInv, TypeOK
    <3>2. CASE RunOf(v) = r
      BY <1>0, <2>3, <3>1, <3>2 DEF IInv, ClaimInv, Taken, Row, RunOf
    <3>3. CASE RunOf(v) # r
      BY <1>0, <2>3, <3>1, <3>3 DEF IInv, ClaimInv, Taken, Row, RunOf
    <3> QED
      BY <3>2, <3>3
  <2>8. OneHolderPerLease'
    BY <2>2, <2>4 DEF IInv, OneHolderPerLease, Holding, RunOf
  <2>9. \A n \in Nat : <<r, n>> \in reserved => n < exec[w].attempt
    BY <2>3, <2>5 DEF IInv, KeyInv
  <2>10. \A s \in Runs : run[s].attempt <= run'[s].attempt
    BY <2>3, <2>5
  <2>11. /\ (\A s \in Runs, n \in Nat : <<s, n>> \in reserved => n <= run[s].attempt)'
         /\ \A v \in Workers : (exec[v].pc = "reserve" => HoldKey(v) \notin reserved)'
         /\ \A v \in Workers : (exec[v].pc = "fetch" => HoldKey(v) \in held)'
    <3>1. HoldKey(w)' = <<r, exec[w].attempt>>
      BY <2>4 DEF HoldKey, RunOf
    <3>2. HoldKey(w)' \notin reserved
      BY <2>5, <2>9, <3>1
    <3>3. \A v \in Workers \ {w} : HoldKey(v)' = HoldKey(v)
      BY <2>4 DEF HoldKey, RunOf
    <3>4. (\A s \in Runs, n \in Nat : <<s, n>> \in reserved => n <= run[s].attempt)'
      BY <1>0, <2>3, <2>5, <2>9 DEF IInv, KeyInv
    <3> QED
      BY <1>0, <2>4, <3>2, <3>3, <3>4 DEF IInv, KeyInv
  <2>12. \A v \in Workers : (exec[v].pc = "settle" => exec[v].attempt <= Row(v).attempt)'
    <3>1. ASSUME NEW v \in Workers \ {w}, exec[v].pc = "settle"
          PROVE  exec[v].attempt <= run'[RunOf(v)].attempt
      <4>1. exec[v].attempt <= run[RunOf(v)].attempt /\ RunOf(v) \in Runs /\ exec[v].attempt \in Nat
        BY <3>1, ExecFacts DEF IInv, KeyInv, Row
      <4> QED
        BY <2>3, <2>5, <4>1
    <3> QED
      BY <2>4, <3>1 DEF Row, RunOf
  <2>13. \A u, v \in Workers :
           (exec[u].pc = "settle" /\ Holding(v) /\ RunOf(u) = RunOf(v) => exec[u].attempt < exec[v].attempt)'
    <3>1. ASSUME NEW u \in Workers \ {w}, exec[u].pc = "settle", RunOf(u) = r
          PROVE  exec[u].attempt < exec[w].attempt
      <4>1. exec[u].attempt <= run[r].attempt /\ exec[u].attempt \in Nat
        BY <3>1, ExecFacts DEF IInv, KeyInv, Row
      <4> QED
        BY <2>3, <2>5, <4>1
    <3> QED
      BY <2>4, <3>1 DEF IInv, KeyInv, Holding, RunOf
  <2>14. KeyInv'
    BY <2>11, <2>12, <2>13 DEF KeyInv
  <2>15. FreshInv' /\ SuccessIsFresh'
    BY <1>0, <2>3, <2>4 DEF IInv, FreshInv, SuccessIsFresh, RunOf, Targets
  <2> QED
    BY <2>6, <2>7, <2>8, <2>14, <2>15 DEF IInv
<1> QED
  BY <1>1, <1>2

(* What holds of the run of an execution that holds it. *)
LEMMA HolderFacts ==
  ASSUME IInv, NEW w \in Workers, Holding(w)
  PROVE  /\ RunOf(w) \in Runs /\ Row(w).status = "RUNNING" /\ Row(w).attempt = exec[w].attempt
         /\ Row(w).startedAt = exec[w].now
         /\ \A v \in Workers \ {w} : Holding(v) => RunOf(v) # RunOf(w)
BY DEF IInv, HolderInv, OneHolderPerLease, Holding, TypeOK

(* An execution lets go of its run: it has ended, or waits for a retry. *)
LEMMA LeaveIInv ==
  ASSUME IInv, TypeOK', NEW w \in Workers, Holding(w), UNCHANGED <<clock, snapshot, reserved, held>>,
         \A v \in Workers \ {w} : exec'[v] = exec[v],
         \/ exec'[w].pc = "idle"
         \/ exec'[w].pc = "settle" /\ exec'[w].run = RunOf(w) /\ exec'[w].attempt = exec[w].attempt,
         \A s \in Runs \ {RunOf(w)} : run'[s] = run[s],
         run'[RunOf(w)].attempt = exec[w].attempt,
         \/ run'[RunOf(w)].status \in Final
         \/ run'[RunOf(w)].status = "QUEUED" /\ run'[RunOf(w)].next = exec[w].now + Backoff,
         run'[RunOf(w)].status = "SUCCEEDED" => \A p \in Posts : snapshot[RunOf(w)][p] = exec[w].attempt
  PROVE  IInv'
<1> DEFINE r == RunOf(w)
<1>0. /\ r \in Runs /\ run[r].status = "RUNNING" /\ run[r].attempt = exec[w].attempt /\ run[r].startedAt = exec[w].now
      /\ \A v \in Workers \ {w} : Holding(v) => RunOf(v) # r
  BY HolderFacts DEF Row
<1>1. /\ \A s \in Runs : run'[s].attempt = run[s].attempt
      /\ clock \in Nat /\ Backoff \in Nat \ {0} /\ exec[w].now \in Nat /\ exec[w].attempt \in Nat
      /\ \A v \in Workers : exec[v].pc # "idle" => RunOf(v) \in Runs
  BY <1>0, ExecFacts DEF IInv, TypeOK, Holding
<1>2. HolderInv'
  BY <1>0, <1>1 DEF IInv, HolderInv, Holding, Row, RunOf
<1>3. ClaimInv'
  <2> SUFFICES ASSUME NEW v \in Workers, (exec[v].pc = "claim")'
               PROVE  (exec[v].now = clock /\ (exec[v].attempt = Row(v).attempt + 1 \/ Taken(v)))'
    BY DEF ClaimInv
  <2>1. exec'[v] = exec[v] /\ exec[v].pc = "claim" /\ RunOf(v) \in Runs
    BY <1>1
  <2>2. exec[v].now = clock /\ (exec[v].attempt = Row(v).attempt + 1 \/ Taken(v))
    BY <2>1 DEF IInv, ClaimInv
  <2>3. CASE RunOf(v) # r
    BY <2>1, <2>2, <2>3 DEF Taken, Row, RunOf
  <2>4. CASE RunOf(v) = r /\ exec[v].attempt = Row(v).attempt + 1
    BY <1>1, <2>1, <2>2, <2>4 DEF Row, RunOf
  <2>5. CASE RunOf(v) = r /\ Taken(v)
    <3>1. exec[w].now = clock
      BY <1>0, <2>5 DEF Taken, Row, Final
    <3>2. run'[r].status \in Final \/ (run'[r].status = "QUEUED" /\ run'[r].next > clock)
      BY <1>1, <3>1
    <3> QED
      BY <2>1, <2>2, <2>5, <3>2 DEF Taken, Row, RunOf
  <2> QED
    BY <2>2, <2>3, <2>4, <2>5
<1>4. OneHolderPerLease'
  BY DEF IInv, OneHolderPerLease, Holding, RunOf
<1>5. KeyInv'
  <2>1. (\A s \in Runs, n \in Nat : <<s, n>> \in reserved => n <= run[s].attempt)'
    BY <1>1 DEF IInv, KeyInv
  <2>2. \A v \in Workers \ {w} : HoldKey(v)' = HoldKey(v)
    BY DEF HoldKey, RunOf
  <2>3. \A v \in Workers : /\ (exec[v].pc = "reserve" => HoldKey(v) \notin reserved)'
                           /\ (exec[v].pc = "fetch" => HoldKey(v) \in held)'
    BY <2>2 DEF IInv, KeyInv
  <2>4. \A v \in Workers : (exec[v].pc = "settle" => exec[v].attempt <= Row(v).attempt)'
    BY <1>0, <1>1 DEF IInv, KeyInv, Row, RunOf
  <2>5. \A u, v \in Workers :
          (exec[u].pc = "settle" /\ Holding(v) /\ RunOf(u) = RunOf(v) => exec[u].attempt < exec[v].attempt)'
    BY <1>0 DEF IInv, KeyInv, Holding, RunOf
  <2> QED
    BY <2>1, <2>3, <2>4, <2>5 DEF KeyInv
<1>6. FreshInv' /\ SuccessIsFresh'
  <2>1. FreshInv'
    BY DEF IInv, FreshInv, RunOf, Targets
  <2>2. SuccessIsFresh'
    BY <1>0, <1>1 DEF IInv, SuccessIsFresh
  <2> QED
    BY <2>1, <2>2
<1> QED
  BY <1>2, <1>3, <1>4, <1>5, <1>6 DEF IInv

(* An attempt whose budget is refused fails; another gets a hold that no     *)
(* attempt had before.                                                       *)
LEMMA ReserveIInv ==
  ASSUME IInv, TypeOK', NEW w \in Workers, Reserve(w)
  PROVE  IInv'
<1>0. /\ Holding(w) /\ exec[w].pc = "reserve" /\ UNCHANGED <<clock, snapshot>>
      /\ RunOf(w) \in Runs /\ exec[w].attempt \in Nat /\ Row(w).attempt = exec[w].attempt
      /\ \A v \in Workers \ {w} : exec'[v] = exec[v]
  BY ExecFacts, HolderFacts DEF Reserve, Holding, IInv, TypeOK, Stop
<1>1. CASE run' = [run EXCEPT ![RunOf(w)].status = "FAILED"] /\ Stop(w) /\ UNCHANGED <<reserved, held>>
  <2>1. run'[RunOf(w)].status = "FAILED" /\ run'[RunOf(w)].attempt = exec[w].attempt
        /\ \A s \in Runs \ {RunOf(w)} : run'[s] = run[s]
    BY <1>0, <1>1 DEF IInv, TypeOK, Rows, Row
  <2>2. exec'[w].pc = "idle"
    BY <1>1 DEF Stop, Idle, IInv, TypeOK
  <2> QED
    BY <1>0, <1>1, <2>1, <2>2, LeaveIInv DEF Final
<1>2. CASE /\ reserved' = reserved \cup {HoldKey(w)} /\ held' = held \cup ({HoldKey(w)} \ reserved)
           /\ \E posts \in Targets : exec' = [exec EXCEPT ![w].pc = "fetch", ![w].todo = posts]
           /\ UNCHANGED run
  <2>1. PICK posts \in Targets : exec' = [exec EXCEPT ![w].pc = "fetch", ![w].todo = posts]
    BY <1>2
  <2>2. /\ exec'[w].pc = "fetch" /\ exec'[w].todo = posts /\ exec'[w].run = RunOf(w)
        /\ exec'[w].attempt = exec[w].attempt /\ exec'[w].now = exec[w].now /\ exec'[w].results = exec[w].results
    BY <2>1 DEF IInv, TypeOK, Executions, RunOf
  <2>3. exec[w].results = {}
    BY <1>0 DEF IInv, FreshInv
  <2>4. \A v \in Workers :
          /\ RunOf(v)' = RunOf(v) /\ Row(v)' = Row(v)
          /\ exec'[v].attempt = exec[v].attempt /\ exec'[v].now = exec[v].now
          /\ (Holding(v))' = Holding(v)
          /\ exec'[v].pc \in {"claim", "settle"} => exec[v].pc = exec'[v].pc
    <3> SUFFICES ASSUME NEW v \in Workers
                 PROVE  /\ RunOf(v)' = RunOf(v) /\ Row(v)' = Row(v)
                        /\ exec'[v].attempt = exec[v].attempt /\ exec'[v].now = exec[v].now
                        /\ (Holding(v))' = Holding(v)
                        /\ exec'[v].pc \in {"claim", "settle"} => exec[v].pc = exec'[v].pc
      OBVIOUS
    <3>1. CASE v = w
      BY <1>0, <1>2, <2>2, <3>1 DEF Row, RunOf, Holding
    <3>2. CASE v # w
      BY <1>0, <1>2, <3>2 DEF Row, RunOf, Holding
    <3> QED
      BY <3>1, <3>2
  <2>5. HolderInv'
    BY <1>0, <2>4 DEF IInv, HolderInv
  <2>6. ClaimInv'
    <3>1. \A v \in Workers : exec[v].pc = "claim" => Taken(v)' = Taken(v)
      BY <1>0, <2>4 DEF Taken
    <3> QED
      BY <1>0, <2>4, <3>1 DEF IInv, ClaimInv
  <2>7. OneHolderPerLease'
    BY <2>4 DEF IInv, OneHolderPerLease
  <2>8. HoldKey(w)' = HoldKey(w) /\ HoldKey(w) = <<RunOf(w), exec[w].attempt>> /\ HoldKey(w) \notin reserved
        /\ \A v \in Workers \ {w} : HoldKey(v)' = HoldKey(v)
    BY <1>0, <2>2 DEF HoldKey, RunOf, IInv, KeyInv
  <2>9. (\A s \in Runs, n \in Nat : <<s, n>> \in reserved => n <= run[s].attempt)'
    BY <1>0, <1>2, <2>8 DEF IInv, KeyInv, Row
  <2>10. \A v \in Workers : (exec[v].pc = "fetch" => HoldKey(v) \in held)'
    BY <1>0, <1>2, <2>8 DEF IInv, KeyInv
  <2>11. \A v \in Workers : (exec[v].pc = "reserve" => HoldKey(v) \notin reserved)'
    <3> SUFFICES ASSUME NEW v \in Workers, (exec[v].pc = "reserve")' PROVE HoldKey(v)' \notin reserved'
      OBVIOUS
    <3>1. v # w /\ exec[v].pc = "reserve"
      BY <1>0, <2>2
    <3>2. RunOf(v) # RunOf(w) /\ HoldKey(v) \notin reserved
      BY <1>0, <3>1, HolderFacts DEF Holding, IInv, KeyInv
    <3> QED
      BY <1>2, <2>8, <3>1, <3>2 DEF HoldKey
  <2>12. \A v \in Workers : (exec[v].pc = "settle" => exec[v].attempt <= Row(v).attempt)'
    BY <2>4 DEF IInv, KeyInv
  <2>13. \A u, v \in Workers :
          (exec[u].pc = "settle" /\ Holding(v) /\ RunOf(u) = RunOf(v) => exec[u].attempt < exec[v].attempt)'
    BY <2>4 DEF IInv, KeyInv
  <2>14. KeyInv'
    BY <2>9, <2>10, <2>11, <2>12, <2>13 DEF KeyInv
  <2>15. FreshInv'
    <3> SUFFICES ASSUME NEW v \in Workers
                 PROVE  (/\ exec[v].pc \in {"claim", "reserve"} => exec[v].results = {}
                         /\ exec[v].pc = "fetch" =>
                              /\ exec[v].results = {} => exec[v].todo \in Targets
                              /\ exec[v].results # {} /\ exec[v].results \cap Failures = {} =>
                                   \A p \in Posts \ exec[v].todo : snapshot[RunOf(v)][p] = exec[v].attempt)'
      BY DEF FreshInv
    <3>1. CASE v = w
      BY <2>1, <2>2, <2>3, <3>1 DEF Targets
    <3>2. CASE v # w
      BY <1>0, <3>2 DEF IInv, FreshInv, RunOf, Targets
    <3> QED
      BY <3>1, <3>2
  <2>16. SuccessIsFresh'
    BY <1>0, <1>2 DEF IInv, SuccessIsFresh
  <2> QED
    BY <2>5, <2>6, <2>7, <2>14, <2>15, <2>16 DEF IInv
<1> QED
  BY <1>1, <1>2 DEF Reserve

(* A result without a failure is stored, and only for the run that is held. *)
LEMMA FetchIInv ==
  ASSUME IInv, TypeOK', NEW w \in Workers, Fetch(w)
  PROVE  IInv'
<1>0. /\ Holding(w) /\ exec[w].pc = "fetch" /\ UNCHANGED <<clock, run, reserved, held>>
      /\ RunOf(w) \in Runs /\ Row(w).status = "RUNNING" /\ exec[w].todo \subseteq Posts
      /\ \A v \in Workers \ {w} : exec'[v] = exec[v] /\ (Holding(v) => RunOf(v) # RunOf(w))
  BY HolderFacts DEF Fetch, Holding, IInv, TypeOK, Executions
<1>1. PICK p \in exec[w].todo, result \in Results :
        /\ snapshot' = IF result \in Failures THEN snapshot ELSE StoreSnapshot(w, p)
        /\ \E todo \in {exec[w].todo \ {p}} \cup (IF result \in Failures THEN {{}} ELSE {}) :
             exec' = [exec EXCEPT ![w].todo = todo, ![w].results = @ \cup {result}]
  BY DEF Fetch
<1>2. PICK todo \in SUBSET Posts :
        /\ result \notin Failures => todo = exec[w].todo \ {p}
        /\ exec' = [exec EXCEPT ![w].todo = todo, ![w].results = @ \cup {result}]
  BY <1>0, <1>1
<1>3. /\ exec'[w].pc = "fetch" /\ exec'[w].todo = todo /\ exec'[w].run = RunOf(w)
      /\ exec'[w].attempt = exec[w].attempt /\ exec'[w].now = exec[w].now
      /\ exec'[w].results = exec[w].results \cup {result}
  BY <1>0, <1>2 DEF IInv, TypeOK, Executions, RunOf
<1>4. HolderInv' /\ ClaimInv' /\ OneHolderPerLease'
  BY <1>0, <1>3 DEF IInv, HolderInv, ClaimInv, OneHolderPerLease, Holding, Row, RunOf, Taken
<1>5. KeyInv'
  BY <1>0, <1>3 DEF IInv, KeyInv, Holding, Row, RunOf, HoldKey
<1>6. /\ \A r \in Runs \ {RunOf(w)} : snapshot'[r] = snapshot[r]
      /\ result \notin Failures =>
           /\ snapshot'[RunOf(w)][p] = exec[w].attempt
           /\ \A q \in Posts \ {p} : snapshot'[RunOf(w)][q] = snapshot[RunOf(w)][q]
  BY <1>0, <1>1 DEF IInv, TypeOK, StoreSnapshot
<1>7. ASSUME exec'[w].results \cap Failures = {}, NEW q \in Posts \ todo
      PROVE  snapshot'[RunOf(w)][q] = exec[w].attempt
  <2>1. result \notin Failures /\ todo = exec[w].todo \ {p} /\ exec[w].results \cap Failures = {}
    BY <1>2, <1>3, <1>7
  <2>2. CASE exec[w].results = {}
    BY <1>0, <1>1, <1>6, <1>7, <2>1, <2>2 DEF IInv, FreshInv, Targets
  <2>3. CASE exec[w].results # {}
    BY <1>0, <1>1, <1>6, <1>7, <2>1, <2>3 DEF IInv, FreshInv
  <2> QED
    BY <2>2, <2>3
<1>8. FreshInv'
  <2> SUFFICES ASSUME NEW v \in Workers
               PROVE  /\ exec'[v].pc \in {"claim", "reserve"} => exec'[v].results = {}
                      /\ exec'[v].pc = "fetch" =>
                           /\ exec'[v].results = {} => exec'[v].todo \in Targets
                           /\ exec'[v].results # {} /\ exec'[v].results \cap Failures = {} =>
                                \A q \in Posts \ exec'[v].todo : snapshot'[exec'[v].run][q] = exec'[v].attempt
    BY DEF FreshInv, RunOf, Targets
  <2>1. CASE v = w
    BY <1>3, <1>7, <2>1
  <2>2. CASE v # w
    <3>1. exec[v].pc = "fetch" => RunOf(v) \in Runs \ {RunOf(w)}
      BY <1>0, <2>2 DEF Holding, IInv, TypeOK
    <3> QED
      BY <1>0, <1>6, <2>2, <3>1 DEF IInv, FreshInv, RunOf
  <2> QED
    BY <2>1, <2>2
<1>9. SuccessIsFresh'
  BY <1>0, <1>6 DEF IInv, SuccessIsFresh, Row
<1> QED
  BY <1>4, <1>5, <1>8, <1>9 DEF IInv

(* A run that succeeded had no failure, and something to read. *)
LEMMA FinishIInv ==
  ASSUME IInv, TypeOK', NEW w \in Workers, Finish(w)
  PROVE  IInv'
<1>0. /\ Holding(w) /\ exec[w].pc = "fetch" /\ exec[w].todo = {} /\ UNCHANGED <<clock, snapshot, reserved, held>>
      /\ RunOf(w) \in Runs /\ Row(w).attempt = exec[w].attempt /\ exec[w].results \in SUBSET Results
      /\ run \in [Runs -> Rows] /\ Row(w) \in Rows
  BY HolderFacts DEF Finish, Holding, IInv, TypeOK, Executions, Row
<1>1. /\ exec'[w].pc = "settle" /\ exec'[w].run = RunOf(w) /\ exec'[w].attempt = exec[w].attempt
      /\ \A v \in Workers \ {w} : exec'[v] = exec[v]
  BY DEF Finish, Goto, IInv, TypeOK, Executions, RunOf
<1> DEFINE again == [run[RunOf(w)] EXCEPT !.status = "QUEUED", !.next = exec[w].now + Backoff]
<1> DEFINE ended == [run[RunOf(w)] EXCEPT !.status = FinalStatus(exec[w].results), !.next = 0]
<1>2. run' = [run EXCEPT ![RunOf(w)] = IF Retries(w) THEN again ELSE ended]
  BY DEF Finish
<1>3. /\ again.status = "QUEUED" /\ again.next = exec[w].now + Backoff /\ again.attempt = exec[w].attempt
      /\ ended.status = FinalStatus(exec[w].results) /\ ended.attempt = exec[w].attempt
  BY <1>0 DEF Rows, Row
<1> HIDE DEF again, ended
<1>4. run'[RunOf(w)] \in {again, ended} /\ \A s \in Runs \ {RunOf(w)} : run'[s] = run[s]
  BY <1>0, <1>2
<1>5. FinalStatus(exec[w].results) \in Final
  BY DEF FinalStatus, Final
<1>6. ASSUME FinalStatus(exec[w].results) = "SUCCEEDED", NEW p \in Posts
      PROVE  snapshot[RunOf(w)][p] = exec[w].attempt
  <2>1. exec[w].results = {"SUCCEEDED"}
    BY <1>6 DEF FinalStatus
  <2>2. exec[w].results # {} /\ exec[w].results \cap Failures = {}
    BY <2>1 DEF Failures
  <2> QED
    BY <1>0, <2>2 DEF IInv, FreshInv
<1> QED
  BY <1>0, <1>1, <1>3, <1>4, <1>5, <1>6, LeaveIInv

(* A settlement ends no hold but its own. *)
LEMMA SettleIInv ==
  ASSUME IInv, TypeOK', NEW w \in Workers, Settle(w)
  PROVE  IInv'
<1>0. /\ exec[w].pc = "settle" /\ UNCHANGED <<clock, run, snapshot, reserved>> /\ held' = held \ {HoldKey(w)}
      /\ \A v \in Workers \ {w} : exec'[v] = exec[v]
  BY DEF Settle, Stop, Goto, IInv, TypeOK
<1>1. exec'[w].pc \in {"idle", "enqueue"}
  BY DEF Settle, Stop, Goto, IInv, TypeOK, Idle, Executions
<1>2. HolderInv' /\ ClaimInv' /\ OneHolderPerLease'
  BY <1>0, <1>1 DEF IInv, HolderInv, ClaimInv, OneHolderPerLease, Holding, Row, RunOf, Taken
<1>3. \A v \in Workers : (exec[v].pc = "fetch" => HoldKey(v) \in held)'
  <2> SUFFICES ASSUME NEW v \in Workers, (exec[v].pc = "fetch")' PROVE HoldKey(v)' \in held'
    OBVIOUS
  <2>1. v # w /\ exec'[v] = exec[v] /\ exec[v].pc = "fetch" /\ HoldKey(v) \in held
    BY <1>0, <1>1 DEF IInv, KeyInv
  <2>2. RunOf(v) = RunOf(w) => exec[w].attempt < exec[v].attempt
    BY <1>0, <2>1 DEF IInv, KeyInv, Holding
  <2>3. exec[w].attempt \in Nat /\ exec[v].attempt \in Nat
    BY <1>0, <2>1, ExecFacts DEF IInv
  <2>4. HoldKey(v) # HoldKey(w)
    BY <2>2, <2>3 DEF HoldKey
  <2> QED
    BY <1>0, <2>1, <2>4 DEF HoldKey, RunOf
<1>4. KeyInv'
  BY <1>0, <1>1, <1>3 DEF IInv, KeyInv, Holding, Row, RunOf, HoldKey
<1>5. FreshInv' /\ SuccessIsFresh'
  BY <1>0, <1>1 DEF IInv, FreshInv, SuccessIsFresh, RunOf, Targets
<1> QED
  BY <1>2, <1>4, <1>5 DEF IInv

(* Time passes only while claims are done and leases last. *)
LEMMA TickIInv ==
  ASSUME Timely, IInv, TypeOK', Tick
  PROVE  IInv'
<1>0. /\ UNCHANGED <<run, snapshot, reserved, held, exec>> /\ clock' = clock + 1 /\ clock \in Nat
      /\ \A w \in Workers : exec[w].pc # "claim" /\ (Holding(w) => clock < exec[w].now + Lease)
  BY DEF Tick, IInv, TypeOK
<1>1. ASSUME NEW w \in Workers, Holding(w) PROVE clock + 1 <= exec[w].now + Lease
  BY <1>0, <1>1, ExecFacts DEF IInv, Holding
<1>2. HolderInv' /\ ClaimInv'
  BY <1>0, <1>1 DEF IInv, HolderInv, ClaimInv, Holding, Row, RunOf
<1>3. OneHolderPerLease' /\ KeyInv' /\ FreshInv' /\ SuccessIsFresh'
  BY <1>0 DEF IInv, OneHolderPerLease, KeyInv, FreshInv, SuccessIsFresh, Holding, Row, RunOf, HoldKey, Targets
<1> QED
  BY <1>2, <1>3 DEF IInv

LEMMA NextIInv ==
  ASSUME Timely, IInv, [Next]_vars
  PROVE  IInv'
<1>0. TypeOK'
  BY NextType DEF IInv
<1>1. ASSUME NEW q \in Requests, Ask(q) \/ Create(q) \/ Enqueue(q) PROVE IInv'
  BY <1>0, <1>1, CreateIInv, FrameIInv DEF Ask, Enqueue
<1>2. ASSUME NEW w \in Workers, Execute(w) PROVE IInv'
  <2>1. CASE EnqueueRetry(w)
    BY <1>0, <2>1, FrameIInv DEF EnqueueRetry, Stop, Idle, IInv, TypeOK
  <2> QED
    BY <1>0, <1>2, <2>1, ClaimIInv, ReserveIInv, FetchIInv, FinishIInv, SettleIInv DEF Execute
<1>3. ASSUME NEW w \in Workers, Die(w) PROVE IInv'
  BY <1>0, <1>3, FrameIInv DEF Die, Stop, Idle, IInv, TypeOK
<1>4. ASSUME NEW r \in Runs, Dispatch(r) PROVE IInv'
  BY <1>0, <1>4, FrameIInv DEF Dispatch
<1>5. CASE UNCHANGED vars
  BY <1>0, <1>5, FrameIInv DEF vars
<1> QED
  BY <1>0, <1>1, <1>2, <1>3, <1>4, <1>5, DeliverIInv, TickIInv DEF Next, Quiescent

LEMMA Invariance ==
  ASSUME Timely
  PROVE  Spec => []IInv
BY InitIInv, NextIInv, PTL DEF Spec

-----------------------------------------------------------------------------
(* Within their leases no two executions hold one run. *)
THEOREM OneHolder ==
  ASSUME Timely
  PROVE  Spec => []OneHolderPerLease
<1>1. IInv => OneHolderPerLease
  BY DEF IInv
<1> QED
  BY <1>1, Invariance, PTL

(* Each attempt that calls a provider has a budget hold of its own. *)
THEOREM AttemptsAreHeld ==
  ASSUME Timely
  PROVE  Spec => []AttemptIsHeld
<1>1. IInv => AttemptIsHeld
  BY DEF IInv, AttemptIsHeld, HolderInv, KeyInv, Holding, Row
<1> QED
  BY <1>1, Invariance, PTL

(* A run that succeeded shows what its last attempt read. *)
THEOREM SuccessesAreFresh ==
  ASSUME Timely
  PROVE  Spec => []SuccessIsFresh
<1>1. IInv => SuccessIsFresh
  BY DEF IInv
<1> QED
  BY <1>1, Invariance, PTL

(* No late or repeated execution reopens or rewrites a run that ended. *)
THEOREM FinishedRunsStay ==
  ASSUME Timely
  PROVE  Spec => FinishedIsFinal
<1>1. ASSUME IInv, Next, NEW r \in Runs, run[r].status \in Final
      PROVE  run'[r].status = run[r].status
  <2>0. run \in [Runs -> Rows]
    BY <1>1 DEF IInv, TypeOK
  <2>1. ASSUME NEW q \in Requests, Create(q) PROVE run'[r].status = run[r].status
    BY <1>1, <2>0, <2>1 DEF Create, Rows, Final
  <2>2. ASSUME NEW w \in Workers, Claim(w) PROVE run'[r].status = run[r].status
    BY <1>1, <2>0, <2>2 DEF Claim, Claimable, Final
  <2>3. ASSUME NEW w \in Workers, Reserve(w) \/ Finish(w) PROVE run'[r].status = run[r].status
    <3>1. RunOf(w) # r
      BY <1>1, <2>3, HolderFacts DEF Reserve, Finish, Holding, Row, Final
    <3> QED
      BY <2>0, <2>3, <3>1 DEF Reserve, Finish
  <2> QED
    BY <1>1, <2>1, <2>2, <2>3 DEF Next, Execute, Ask, Enqueue, Fetch, Settle, EnqueueRetry, Die, Deliver, Dispatch,
                                  Tick, Quiescent, vars
<1>2. ASSUME IInv, [Next]_vars
      PROVE  [\A r \in Runs : run[r].status \in Final => run'[r].status = run[r].status]_vars
  BY <1>1, <1>2
<1> QED
  BY <1>2, Invariance, PTL DEF Spec, FinishedIsFinal

=============================================================================
