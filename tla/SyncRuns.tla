------------------------------- MODULE SyncRuns -------------------------------
(***************************************************************************)
(* Analytics sync runs: requestAnalyticsSync() creates a run or joins one, *)
(* executeAnalyticsSync() claims it under a lease, reads every post of its *)
(* target, stores one snapshot per post and ends or requeues the run, and  *)
(* a dispatcher finds the runs whose job was lost.  Jobs are delivered     *)
(* again, executions die, and two may hold the same run.                   *)
(***************************************************************************)
EXTENDS Naturals, FiniteSets

CONSTANTS
  Runs,          \* rows of analytics_sync_runs (bound)
  NoRun,
  Requests,      \* calls of requestAnalyticsSync for one target
  KeyOf,         \* [Requests -> idempotency key, or NoKey]
  NoKey,
  Workers,       \* executions at a time
  Posts,         \* what a run reads
  Results,       \* what reading a post comes to (bound)
  MaxAttempts,   \* AnalyticsSyncRun.maxAttempts
  Lease,         \* RUN_LEASE_MS, in ticks
  Backoff,       \* analyticsRetryDelayMs, in ticks
  MaxTime,       \* bound on the clock
  Timely         \* claims are prompt and no execution outlives its lease

ASSUME SyncConstants ==
  /\ NoRun \notin Runs
  /\ Results \subseteq {"SUCCEEDED", "PARTIAL", "UNAVAILABLE", "FAILED", "RETRYABLE"}
  /\ MaxAttempts \in Nat \ {0} /\ Lease \in Nat \ {0} /\ Backoff \in Nat \ {0}
  /\ MaxTime \in Nat
  /\ Timely \in BOOLEAN

VARIABLES
  clock,
  run,        \* [Runs -> row]
  snapshot,   \* [Runs -> [Posts -> the attempt that stored it, 0 for none]]
  reserved,   \* keys <<run, attempt>> that have a budget reservation
  held,       \* those of them still HELD
  job,        \* analytics.sync.execute jobs in the queue
  request,    \* [Requests -> where the call stands]
  exec        \* [Workers -> what each execution has read and where it stands]

vars == <<clock, run, snapshot, reserved, held, job, request, exec>>

Final == {"SUCCEEDED", "PARTIAL", "FAILED", "UNAVAILABLE"}
Unfinished == {"QUEUED", "RUNNING"}

(* What reading one post comes to; RETRYABLE is FAILED with a code that is   *)
(* worth another attempt.                                                    *)
Failures == {"FAILED", "RETRYABLE"}
ReadResults == {"SUCCEEDED", "PARTIAL", "UNAVAILABLE"} \cup Failures

NoRow == [status |-> "NONE", attempt |-> 0, startedAt |-> 0, next |-> 0, key |-> NoKey]
Idle == [pc |-> "idle", run |-> NoRun, now |-> 0, attempt |-> 0,
         todo |-> {}, results |-> {}]

(* An execution between its claim and its last write to the row. *)
Holding(w) == exec[w].pc \in {"reserve", "fetch"}
RunOf(w) == exec[w].run
Job(r, due) == [run |-> r, due |-> due, again |-> TRUE]
HoldKey_PerRun(w) == <<RunOf(w), 0>>
HoldKey(w) == <<RunOf(w), exec[w].attempt>>

Goto(w, pc) == exec' = [exec EXCEPT ![w].pc = pc]
Stop(w) == exec' = [exec EXCEPT ![w] = Idle]

(* An operator named X_Y is X with the bug Y; the mutants of the runs use it. *)

-----------------------------------------------------------------------------
(* requestAnalyticsSync() and its callers *)

Keyed(q) == {r \in Runs : KeyOf[q] # NoKey /\ run[r].key = KeyOf[q]}
Active == {r \in Runs : run[r].status \in Unfinished}

(* The run of the same key, or an unfinished run of the target, answers the *)
(* call; otherwise it goes on to create one.                                *)
Ask(q) ==
  /\ request[q].pc = "idle"
  /\ request' = [request EXCEPT ![q].pc =
                   IF Keyed(q) \cup Active # {} THEN "done" ELSE "create"]
  /\ UNCHANGED <<clock, run, snapshot, reserved, held, job, exec>>

(* The unique key decides between identical calls; two calls without a key  *)
(* both create.                                                             *)
Create(q) ==
  /\ request[q].pc = "create"
  /\ IF Keyed(q) # {}
     THEN /\ request' = [request EXCEPT ![q].pc = "done"]
          /\ UNCHANGED run
     ELSE \E r \in Runs :
            /\ run[r].status = "NONE"
            /\ run' = [run EXCEPT ![r].status = "QUEUED", ![r].key = KeyOf[q]]
            /\ request' = [request EXCEPT ![q] = [pc |-> "enqueue", run |-> r]]
  /\ UNCHANGED <<clock, snapshot, reserved, held, job, exec>>

(* The caller enqueues the first job of the run it created, unless it dies. *)
Enqueue(q) ==
  /\ request[q].pc = "enqueue"
  /\ job' \in {job, job \cup {Job(request[q].run, 0)}}
  /\ request' = [request EXCEPT ![q].pc = "done"]
  /\ UNCHANGED <<clock, run, snapshot, reserved, held, exec>>

-----------------------------------------------------------------------------
(* executeAnalyticsSync() *)

(* A worker takes a job, which the queue may deliver again (bound: once),   *)
(* while this execution lives or after it.  The time and the row are read   *)
(* before the claim.                                                        *)
Deliver(w, j) ==
  /\ exec[w].pc = "idle"
  /\ j \in job /\ j.due <= clock
  /\ job' \in {job \ {j}} \cup
              (IF j.again THEN {(job \ {j}) \cup {[j EXCEPT !.again = FALSE]}} ELSE {})
  /\ exec' = [exec EXCEPT ![w] = [Idle EXCEPT !.pc = "claim", !.run = j.run, !.now = clock,
                                              !.attempt = run[j.run].attempt + 1]]
  /\ UNCHANGED <<clock, run, snapshot, reserved, held, request>>

Claimable_AtOnce(w) ==
  LET row == run[RunOf(w)] IN
    \/ row.status = "QUEUED" /\ row.next <= exec[w].now
    \/ row.status = "RUNNING"

Claimable_Finished(w) ==
  LET row == run[RunOf(w)] IN
    \/ row.status # "RUNNING" /\ row.next <= exec[w].now
    \/ row.status = "RUNNING" /\ row.startedAt + Lease < exec[w].now

(* The guard of the claim: QUEUED and due, or RUNNING and older than a lease. *)
Claimable(w) ==
  LET row == run[RunOf(w)] IN
    \/ row.status = "QUEUED" /\ row.next <= exec[w].now
    \/ row.status = "RUNNING" /\ row.startedAt + Lease < exec[w].now

(* A run that is neither due nor abandoned is skipped. *)
Claim(w) ==
  /\ exec[w].pc = "claim"
  /\ IF Claimable(w)
     THEN /\ run' = [run EXCEPT ![RunOf(w)] =
                       [@ EXCEPT !.status = "RUNNING", !.attempt = run[RunOf(w)].attempt + 1,
                                 !.startedAt = exec[w].now, !.next = 0]]
          /\ Goto(w, "reserve")
     ELSE Stop(w) /\ UNCHANGED run
  /\ UNCHANGED <<clock, snapshot, reserved, held, job, request>>

(* loadTargets(): the published posts of the target, or none to read. *)
Targets == {{}, Posts}

(* The budget refuses and the run fails; or the key of this attempt gets a  *)
(* hold, unless it has one, and the posts are looked up.                    *)
Reserve(w) ==
  /\ exec[w].pc = "reserve"
  /\ \/ /\ run' = [run EXCEPT ![RunOf(w)].status = "FAILED"]
        /\ Stop(w)
        /\ UNCHANGED <<reserved, held>>
     \/ /\ reserved' = reserved \cup {HoldKey(w)}
        /\ held' = held \cup ({HoldKey(w)} \ reserved)
        /\ \E posts \in Targets :
             exec' = [exec EXCEPT ![w].pc = "fetch", ![w].todo = posts]
        /\ UNCHANGED run
  /\ UNCHANGED <<clock, snapshot, job, request>>

StoreSnapshot_KeepsFirst(w, p) ==
  [snapshot EXCEPT ![RunOf(w)][p] = IF @ = 0 THEN exec[w].attempt ELSE @]

(* storeSnapshot(): it replaces the one an earlier attempt of the run stored. *)
StoreSnapshot(w, p) == [snapshot EXCEPT ![RunOf(w)][p] = exec[w].attempt]

(* One call of the provider.  A failure stores nothing and may stop every    *)
(* other call to the account.                                                *)
Fetch(w) ==
  /\ exec[w].pc = "fetch"
  /\ \E p \in exec[w].todo, result \in Results :
       /\ snapshot' = IF result \in Failures THEN snapshot
                      ELSE StoreSnapshot(w, p)
       /\ \E todo \in {exec[w].todo \ {p}} \cup (IF result \in Failures THEN {{}} ELSE {}) :
            exec' = [exec EXCEPT ![w].todo = todo, ![w].results = @ \cup {result}]
  /\ UNCHANGED <<clock, run, reserved, held, job, request>>

FinalStatus(results) ==
  IF results = {} THEN "UNAVAILABLE"
  ELSE IF results = {"SUCCEEDED"} THEN "SUCCEEDED"
  ELSE IF results \cap {"SUCCEEDED", "PARTIAL"} # {} THEN "PARTIAL"
  ELSE IF results \cap Failures # {} THEN "FAILED"
  ELSE "UNAVAILABLE"

(* Failures worth retrying stop before the end of the clock (bound). *)
Retries(w) ==
  /\ "RETRYABLE" \in exec[w].results
  /\ exec[w].attempt < MaxAttempts
  /\ exec[w].now + Backoff <= MaxTime

(* The row is written whatever its status is by now. *)
Finish(w) ==
  /\ exec[w].pc = "fetch" /\ exec[w].todo = {}
  /\ run' = [run EXCEPT ![RunOf(w)] =
               IF Retries(w)
               THEN [@ EXCEPT !.status = "QUEUED", !.next = exec[w].now + Backoff]
               ELSE [@ EXCEPT !.status = FinalStatus(exec[w].results), !.next = 0]]
  /\ Goto(w, "settle")
  /\ UNCHANGED <<clock, snapshot, reserved, held, job, request>>

(* The usage is recorded and the hold settled, or released when no provider *)
(* was called.                                                              *)
Settle(w) ==
  /\ exec[w].pc = "settle"
  /\ held' = held \ {HoldKey(w)}
  /\ IF Retries(w) THEN Goto(w, "enqueue") ELSE Stop(w)
  /\ UNCHANGED <<clock, run, snapshot, reserved, job, request>>

(* The worker enqueues the retry with its delay. *)
EnqueueRetry(w) ==
  /\ exec[w].pc = "enqueue"
  /\ job' = job \cup {Job(RunOf(w), exec[w].now + Backoff)}
  /\ Stop(w)
  /\ UNCHANGED <<clock, run, snapshot, reserved, held, request>>

-----------------------------------------------------------------------------
(* The dispatcher, the queue, time and failures *)

Dispatch_Retries(r) ==
  /\ run[r].status = "QUEUED" /\ run[r].next <= clock /\ run[r].attempt > 0
  /\ job' = job \cup {Job(r, 0)}
  /\ UNCHANGED <<clock, run, snapshot, reserved, held, request, exec>>

(* claimDueAnalyticsSyncs(): a QUEUED run whose retry is due gets a job. *)
Dispatch(r) ==
  /\ run[r].status = "QUEUED" /\ run[r].next <= clock
  /\ job' = job \cup {Job(r, 0)}
  /\ UNCHANGED <<clock, run, snapshot, reserved, held, request, exec>>

(* The process dies, or the database throws after the claim. *)
Die(w) ==
  /\ exec[w].pc # "idle"
  /\ Stop(w)
  /\ UNCHANGED <<clock, run, snapshot, reserved, held, job, request>>

Tick ==
  /\ clock < MaxTime
  /\ Timely => \A w \in Workers : exec[w].pc # "claim" /\ (Holding(w) => clock < exec[w].now + Lease)
  /\ clock' = clock + 1
  /\ UNCHANGED <<run, snapshot, reserved, held, job, request, exec>>

(* The end of the clock (bound). *)
Quiescent ==
  /\ clock = MaxTime
  /\ UNCHANGED vars

-----------------------------------------------------------------------------
Init ==
  /\ clock = 0
  /\ run = [r \in Runs |-> NoRow]
  /\ snapshot = [r \in Runs |-> [p \in Posts |-> 0]]
  /\ reserved = {} /\ held = {} /\ job = {}
  /\ request = [q \in Requests |-> [pc |-> "idle", run |-> NoRun]]
  /\ exec = [w \in Workers |-> Idle]

Execute(w) ==
  Claim(w) \/ Reserve(w) \/ Fetch(w) \/ Finish(w) \/ Settle(w) \/ EnqueueRetry(w)

Next ==
  \/ \E q \in Requests : Ask(q) \/ Create(q) \/ Enqueue(q)
  \/ \E w \in Workers : Execute(w) \/ Die(w)
  \/ \E w \in Workers, j \in job : Deliver(w, j)
  \/ \E r \in Runs : Dispatch(r)
  \/ Tick
  \/ Quiescent

Spec == Init /\ [][Next]_vars

(* The queue delivers what is due, executions are not struck down before     *)
(* their claim for ever, live ones go on, the dispatcher is scheduled and    *)
(* time passes; nothing is assumed of the jobs that requests and retries add.*)
Fairness ==
  /\ \A w \in Workers : WF_vars(Execute(w))
  /\ \A r \in Runs : /\ WF_vars(Dispatch(r))
                      /\ SF_vars(\E w \in Workers, j \in job : j.run = r /\ Deliver(w, j))
                      /\ SF_vars(\E w \in Workers : RunOf(w) = r /\ Claim(w))
  /\ SF_vars(Tick)

FairSpec == Spec /\ Fairness

-----------------------------------------------------------------------------
(* Properties *)

Rows == [status : {"NONE"} \cup Unfinished \cup Final, attempt : Nat, startedAt : Nat,
         next : Nat, key : {NoKey} \cup {KeyOf[q] : q \in Requests}]
Jobs == [run : Runs, due : Nat, again : BOOLEAN]
Calls == [pc : {"idle", "create", "enqueue", "done"}, run : Runs \cup {NoRun}]
Executions == [pc : {"idle", "claim", "reserve", "fetch", "settle", "enqueue"},
               run : Runs \cup {NoRun}, now : Nat, attempt : Nat,
               todo : SUBSET Posts, results : SUBSET Results]

(* Every variable keeps the shape of what it stands for. *)
TypeOK ==
  /\ clock \in Nat
  /\ run \in [Runs -> Rows]
  /\ snapshot \in [Runs -> [Posts -> Nat]]
  /\ reserved \in SUBSET (Runs \X Nat) /\ held \subseteq reserved
  /\ job \subseteq Jobs
  /\ request \in [Requests -> Calls]
  /\ exec \in [Workers -> Executions]
  /\ \A w \in Workers : exec[w].pc # "idle" => RunOf(w) \in Runs
  /\ \A q \in Requests : request[q].pc = "enqueue" => request[q].run \in Runs

(* The lease: two executions never hold one run, unless the first was given  *)
(* up for dead.                                                              *)
OneHolderPerLease ==
  \A v, w \in Workers :
    Holding(v) /\ Holding(w) /\ RunOf(v) = RunOf(w) => v = w

(* The attempt number an execution computed before its claim is the one the  *)
(* row has: no two attempts share a budget key, so each that calls a         *)
(* provider has a hold of its own.                                           *)
AttemptIsHeld ==
  \A w \in Workers :
    exec[w].pc = "fetch" => exec[w].attempt = run[RunOf(w)].attempt /\ HoldKey(w) \in held

(* A run that ended SUCCEEDED shows what its last attempt read, for every    *)
(* post it found.                                                            *)
SuccessIsFresh ==
  \A r \in Runs :
    run[r].status = "SUCCEEDED" => \A p \in Posts : snapshot[r][p] = run[r].attempt

(* No late or repeated execution reopens or rewrites a finished run. *)
FinishedIsFinal ==
  [][\A r \in Runs : run[r].status \in Final => run'[r].status = run[r].status]_vars

(* A lost job, a lost retry or a caller that dies strands no run: what is    *)
(* queued ends, unless an execution dies while it holds it.                  *)
Ended(r) == run[r].status \in Final
Abandoned(r) == run[r].status = "RUNNING" /\ ~\E w \in Workers : Holding(w) /\ RunOf(w) = r
RunsEnd == \A r \in Runs : run[r].status = "QUEUED" ~> Ended(r) \/ Abandoned(r)

=============================================================================
