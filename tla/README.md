# Formal models of Spectra

TLA+ models of the parts of Spectra whose correctness depends on the order in
which API requests, queue jobs, timers and outside services act: the budget
reservations, the publishing pipeline, the container ledger of Instagram and
Threads, the upload sessions of YouTube and TikTok, the way of a content item from draft to
post, the subscriptions and credits of billing, the analytics sync runs, the
rows that drive renders and campaign runs, and the OAuth connections. Every
module is model-checked with TLC; most also have theorems checked by TLAPS,
which hold for every value of the constants.

Paths are relative to the repository (`src/` here), definitions and actions
are in `code font`.

| Module | What it is |
|---|---|
| `BudgetReservations` | `packages/metering`: reserve, pre-flight, settle, sweep; the executors that use them |
| `AtomicBudget` | abstract: a budget that decides and holds in one step; `BudgetReservations` implements it |
| `Publishing` | calendar requests, the dispatch job, `executePublication`; platforms that post in one request |
| `PublishingProofs` | its theorems |
| `ContainerPublish` | `InstagramPublisher` and `ThreadsPublisher` with the container ledger (ADR-0036) |
| `SinglePost` | abstract: what a retry-safe publisher promises; `ContainerPublish` implements it |
| `ContainerPublishProofs` | its theorems, the refinement among them |
| `ContentReview` | one content item: edits, review, approval, scheduling, draft jobs, posting |
| `ContentReviewProofs` | its theorems |
| `Billing` | one organization: webhooks, the subscription row, allowances, charges, reversals and operator grants |
| `SpendingProofs` | the theorems about `BudgetReservations` and `Billing`, and about sums over finite sets |
| `SyncRuns` | `packages/analytics-pipeline/src/sync.ts`: requests, leases, retries, snapshots, the dispatcher |
| `SyncRunsProofs` | its theorems |
| `VideoUpload` | `YouTubeVideoPublisher` and `TikTokVideoPublisher` with the upload ledger |
| `VideoUploadProofs` | its theorems |
| `RunExecution` | video renders, audio renders and campaign runs: start, cancel, execute |
| `RunExecutionProofs` | its theorems |
| `Connections` | OAuth flows, refreshes of rotating tokens, disconnects |
| `ConnectionsProofs` | its theorems |
| `MC*` | the instances for TLC; each `.cfg` is one run |

## 1. Inventory

The system is a NestJS API (`apps/api`), a worker (`apps/worker`) that runs
queue jobs (BullMQ behind `packages/workflow-core`), and packages with the
logic of both. All durable state is in PostgreSQL through Prisma, at READ
COMMITTED. Requests and jobs meet only in its rows and in the queue: there is
no shared memory, and hardly a transaction longer than one statement. That is
where the difficulty is: nearly every operation reads a row, awaits something,
and writes by id.

| Component | State | Operations | Hard behaviour | What makes it correct |
|---|---|---|---|---|
| metering (`packages/metering`) | `BudgetReservation`, `UsageEvent`, limit and ceiling rows | `reserve`, `reconcile`, `release`, `expireStaleReservations`, `preflight`, `record` | advisory lock around one part only; reads of several statements; redelivered jobs reuse a key; holds expire | limits and ceilings are not passed; a settled hold is final; no hold leaks; work runs under its own hold |
| publishing (`packages/publishing`) | `ContentScheduleEntry` status, attempt count, container id | `claimDuePublications`, `executePublication` | parallel dispatchers, redelivery, crash after the post, cancellation in flight | dispatched once; PUBLISHED is real; every entry ends; one post |
| calendar (`apps/api/src/content/calendar.service.ts`) | the same rows | `schedule`, `publishNow`, `cancel` | check-then-update by id against the jobs | ended entries stay ended |
| Instagram, Threads (`social-meta`, `social-threads`) | containers at the platform, the ledger on the entry | `publish` in steps: find, create, stage, await, publish | lost answers, dead attempts, containers that fail or expire | a retry never posts twice; "try again" is safe |
| content items (`apps/api/src/content/content.service.ts`) | `ContentItem` state, body, approvals, edits | `updateBody`, `submitForReview`, `requestChanges`, `reject`, `approve`, `generate` | two people at once, a draft job at the same time, moderation awaited between check and write | an approval is of the body that is there; no decision is lost; nothing unreviewed is posted |
| draft job (`packages/content-pipeline`) | `ContentDraft` status, the item | `executeContentDraft` | redelivery, crash between READY and the item's update | a draft lands at most once and ends |
| queue (`packages/workflow-core`) | BullMQ jobs | `enqueue`, retry with backoff, timeout, dead letter | at-least-once delivery; a timed-out handler runs on beside its redelivery | no job lost; one effect per job |
| worker (`apps/worker`) | none of its own | registers handlers and repeatable jobs | dies anywhere | its timers are the fairness of the models |
| billing (`apps/api/src/billing`, `packages/billing-core`) | subscriptions, webhook events, credit lots and ledger | `handleWebhook`, `consumeCredits`, `reverseCredits`, `grantCredits` | webhooks repeated and out of order; concurrent charges | the ledger accounts for the lots; a key is charged once, a period granted once; the row ends as the provider has it |
| analytics sync (`analytics-pipeline`) | sync runs with leases, one snapshot per run and post | request, claim, read, store, finish or requeue, dispatch | lost jobs, dead or slow holders of a lease, retries that read again | one holder per lease; a hold for each attempt; a success shows what was read last; queued runs end |
| renders (`video-pipeline`, `audio-pipeline`) | render rows, media assets, episodes | start, cancel, execute | cancellation, second starts and redelivery during a long render | a file exactly when it succeeded; success is final; an episode's audio is real; the hold is settled |
| campaign orchestration | runs, campaigns, content items | start, cancel, execute | redelivered runs create items again | a run keeps its campaign; success is final; runs end |
| research pipeline | research runs, evidence | start, schedule, execute | redelivery after a source was stored and before its finding; two runs on one claim | a stored source keeps its evidence; no supporter of a claim is lost |
| YouTube, TikTok | upload sessions, publish ids, the ledger of account and asset | resumable upload, status query | resuming an upload whose end was lost; processing that fails later | the file is sent once; PUBLISHED is out |
| OAuth (`social-oauth`, `apps/api/src/social/oauth`) | flows, connections, rotating tokens, accounts | begin, complete, refresh, disconnect | two callbacks, two refreshes, a disconnect in between | one grant per state; the stored token is the good one; disconnected means purged |
| X, LinkedIn, Pinterest, WordPress, Facebook pages | none | one request | lost answer | covered by `Publishing`'s `Send` |
| tenancy, auth, admin of budgets, knowledge, claims, strategy, studio, media, brands, verticals, ops, health | rows | create, read, update | none that TLC would reach beyond a uniqueness constraint | request-scoped checks |
| scoring, chunking, extraction, renderers, AI clients, storage, config, telemetry, web | none, or caches | pure functions and I/O | none | not modelled |

Interactions: the API enqueues jobs after it wrote the row they are about
(never in one transaction); the executors call metering before and after their
provider; the dispatch job turns due entries into publish jobs; the publisher
reads the item's body when it posts; draft jobs and campaign runs write items
that people edit.

## 2. Plan

Done, in the order of how much depends on them: `BudgetReservations` with
`AtomicBudget` (all paid work goes through it), `Publishing` (irreversible and public), `ContainerPublish`
with `SinglePost`, `ContentReview` (who allowed what is posted), `Billing`, then
`SyncRuns` (the one lease of the system), `VideoUpload` (the other publishers
with a ledger), `Connections` (what every publisher needs first) and
`RunExecution` (long work that is started, cancelled and delivered again).

What a next step would take up:

1. `WorkQueue`: deduplication by job id, backoff, timeout, dead letter, with the
   abstract specification the other modules assume of the queue: each job is
   handled at least once or is dead.
2. `ResearchRuns`: a run that is retried from FAILED and whose sources outlive
   it.  A delivery skips every source that is stored already
   (`research-pipeline/src/executor.ts:363`), so what an earlier one had not yet
   made of a source, its finding, claims and citation, is never made; and two
   runs of a project write one claim as each has read it. Then the studio's rows.
3. A shared module for budgets and runs, in which `RunExecution`'s holds are those
   of `BudgetReservations`.

## 3. The modules and the code

In every module one action is one piece of code that nothing can interleave: a
statement against the database, a request to the outside, a transaction. A
function with three awaits is three actions and the state between them is what
the caller holds in local variables. A crash loses exactly that. In the mutants
(`PROJECT.json`), an operator `X_Y` is the definition `X` with the bug `Y`.

### BudgetReservations and AtomicBudget

Jobs of one organization and one usage kind. `pc` is where a job stands; `tx`
what its `reserve()` has read so far; `hold` the `BudgetReservation` row of
each key; `usage` the `UsageEvent` rows.

- `Call`, `AcquireLock`, `ReadSpend`, `ReadHolds`, then `Refuse` or `Allow`: one
  `reserve()` (`reservation.ts`) with the pre-flight (`preflight.ts`) inside its
  transaction. `now` is evaluated before the lock is waited for, as in the code.
  `AcquireLock` includes the lookup of the key and the refusal of a row of
  another tenant. The two pre-flight reads that matter are separate
  statements with a snapshot each.
- `MaxRequests`, `CountedFor`, `OperationLimitReached`, `CeilingReached`: the
  decision, `strictest()` and the scope of the counts included.
- `CallProvider`, `ProviderThrows`, `RecordUsage`, `Reconcile`,
  `FailBeforeSpend`: the executors, in the two orders they have. `RecordFirst`
  jobs write their usage event before they settle (publishing, drafts); the
  others settle first (video, audio, campaign).
- `Inline` jobs reserve in the worker, again on each delivery; the hold of the
  others is taken by the API.
- `Sweep` is `expireStaleReservations`, `Tick` is time, `Crash` a process that
  dies: the transaction and the lock go, rows stay, the queue delivers again.
- `SpentMicros` and `HeldMicros` are sums over the rows that were read.

`AtomicBudget` is what ADR-0029 promises of it to whoever looks at the holds and
the clock only: a hold appears when there is room beside every hold that is live
at that moment, and it ends by a settlement of its tenant or by its age, for good.
Locks, reads, jobs, crashes and the usage events are not to be seen there, so its
room is a bound, not the decision (what was spent takes more of it away). A hold may
have been asked for earlier than it is taken (`asked`): the code evaluates `now`
before it waits. The refinement hands in `MaxRequests`, `Cardinality` and the sum.

### Publishing

Calendar entries and everything that moves them. `request` is what each API
request has read; `found` and `claimed` are the local lists of a dispatch run;
`job` holds each queue job and what its handler read; `posts` counts posts on
the platform and is the reality the rows are compared with.

- `ScheduleRead`/`Create`/`Link`, `PublishNowRead`/`Queue`/`Enqueue`, `Cancel`:
  `calendar.service.ts`.
- `Scan`, `Flip`, `DispatchEnqueue`: `claimDuePublications` and the loop of the
  dispatch job, which enqueues after the last flip.
- `Deliver`, `Reserve`, `RefuseOverBudget`, `Begin`, `GiveUp`, `Send`,
  `RecordOutcome`, `RecordFails`, `MarkPublished`, `Settle`:
  `executePublication` from the read of the entry to the settlement of the
  hold. The catch block is `Send` with outcome THROWN, or `RecordFails`, and the
  FAILED branch of `RecordOutcome`.
- The budget decision is one step here; `BudgetReservations` opens it. A hold
  lives for 10 minutes: `HoldExpires` may end it whatever its job is doing, and a
  later delivery that reserves under its key gets it back as it is
  (`reservation.ts:97-106`).

### ContainerPublish and SinglePost

One entry; each attempt is one call of `publish()`. `Find`, `Check`, `Clear`,
`Create`, `Stage`, `Await`, `Drop`, `Publish` are the steps of
`InstagramPublisher.publish` (`social-meta/src/publisher.ts`) and of
`ThreadsPublisher.publish`; where they differ, `Instagram` tells them apart:
Threads neither checks nor awaits its container, refuses to go on when the
ledger has no row, and reports an unanswered create as ambiguous. `Process` and
`Expire` are the platform's. The platform is external and assumed to publish a
container only when it is FINISHED, and once.

`SinglePost` is what ADR-0036 promises of all this: at most one post, no attempt
reports a post that is not out, attempts without one may be repeated. The
refinement maps `posted` to the number of published containers and `report`
to what the operator is told.

### ContentReview

One item. A request is a record of `call`: its operation, its stage, and the
row it read (`seen`). `Review` reads and checks the transition, `Moderate` awaits
the provider, and `Edit`, `Submit`, `Decide`, `Approve`, `Flag` write by id. The
logs (`approvals`, `humanEdits`) are JSON arrays written back as read plus one
entry, so their lengths are enough. `GenerateCreate` and `GenerateEnqueue` are
the request for a draft; `DraftDeliver` to `DraftFinish` and `DraftThrows` are
`executeContentDraft`, which sets the body and GENERATED whatever state the item
is in. `PublishRead`, `PublishSend` and `PublishMark` are the part of an attempt
that touches the item. The variables of `history` (`approved`, `written`,
`landed`, `overwrote`) exist only to state the properties and no guard reads
them. Of these, `overwrote` says that a request wrote over a row that had changed
since it read it.

### Billing

One organization. A request is a record of `call`: a charge, a reversal, an
operator's grant or the handling of one webhook event, with what it has read
(`seen`, `remote`). `lot` is `credit_grants`; of `credit_ledger_entries`,
`charged` is the CONSUMPTION entry of each key and `logged` the lots with a GRANT
or REVERSAL entry. Time is counted in billing periods.

- `Consume` or `Replay`, `Load`, `Charge`: `consumeCredits`, whose lots are read
  before its transaction and decremented in it. `Take` is the loop of
  `planDeduction`, `Before` its order; each lot's share is stated by what the lots
  before it have, so there is no loop and no recursion.
- `Reverse`, `Reissue`: `reverseCredits`. A CONSUMPTION entry never names a lot,
  so the branch that restores one is never taken and is not modelled.
- `GrantCredits`, `Log`: `grantCredits`, two writes without a transaction.
- `Deliver`, `Record`, then `Fetch`, `Upsert`, `AllowanceFind`, `AllowanceCreate`,
  `Log`, or `Invoice`, then `Close`: `handleWebhook` and what it calls. `Throw` is
  any exception its catch block records; `failing` is the stage of that block.
- `ProviderMoves`, `ProviderSends`: the payment provider, external. Each change
  sends an event, and a sent event can be delivered at any later time, any number
  of times. Its subscription is ACTIVE (for TRIALING too) or CANCELED (for every
  status that grants nothing), with a plan and a period.

`subscribed`, `told` and `lateSync` exist only to state the properties. Names that
`BudgetReservations` has too carry a prefix here (`BillingSpec`, `BillingTypeOK`,
`ChargeKeys`, `time`), because `SpendingProofs` is about both.

### SyncRuns

One target (an account or a workspace's posts). `run` is `AnalyticsSyncRun`,
`snapshot` which attempt stored what a post shows, `reserved` and `held` the budget
keys, one per run and attempt, `job` the queue.

- `Ask`, `Create`, `Enqueue`: `requestAnalyticsSync` and the API's enqueue after
  it. A call joins the run of its key or the unfinished run of the target.
- `Deliver`, `Claim`, `Reserve`, `Fetch`, `Finish`, `Settle`, `EnqueueRetry`:
  `executeAnalyticsSync`. The time and the attempt number are read before the
  guarded claim (`Claimable`: QUEUED and due, or RUNNING for longer than a lease)
  and used after it; `Finish` writes by id, whatever the status is by then.
  `Fetch` is one call of the provider and `storeSnapshot`; `FinalStatus` is
  `finalStatus`.
- `Dispatch` is `claimDueAnalyticsSyncs`, which selects QUEUED runs only; `Die` a
  process that dies or a database that throws.

### VideoUpload

One asset on one channel. `ledger` is the `SocialMediaUpload` row of (account,
asset); `upload` what the platform holds under each session or publish id;
`attempt` one call of `publish()` each, one at a time.

- `Find`, `Creator`, `Load`, `Probe`, `Initiate`, `Record`, `Chunk`, `Drop`,
  `Settle`, `Finish`, `Answer`: the steps of `YouTubeVideoPublisher.publish` and
  `TikTokVideoPublisher.publish`; `YouTube` tells them apart where they differ (a
  session is resumed, a publish id is asked about). `Fails` is how either reports
  a request that did not succeed. Whatever is written to the ledger at the end is
  committed before `publish()` returns: an attempt that decided (`Decide`) can still
  die in "answer". If it had found the video rejected or in the inbox, it ends
  UNVIEWABLE, or UNTOLD when it died.
- `Received`, `Process`, `Expire` are the platform's. A file is sent in `Chunks`
  parts; its last one makes the video or starts its processing, also when the
  answer to it is lost.
- `gaveUp` exists only to state the properties: an attempt let go of a complete
  upload, because its session had expired, its file could not be read, or TikTok's
  answer about it was inconclusive.

### RunExecution

`kind` says which table the rows are of; the three share a protocol and the
differences are in the actions' conditions. `made` counts the assets or
campaigns that exist, `row.result` is the one the row names.

- `Find`, `Reserve`, `Create`, `Enqueue`, `Link`, `Announce`: `startRender` of video
  and audio, `startRun` of campaigns, with the death of the request in between.
- `CancelRead`, `CancelFlag`, `CancelRemove`, `CancelClose`: `cancelRender` and
  `cancelRun`; the status is read once, at the beginning.
- `Read`, `Begin`, `Work`, `Store` (renders), `Ensure`, `Save`, `Items`, `Abort`
  (campaigns), `Succeed`, `SetEpisode`, `Fail`, `Reset`, `Close`:
  `executeVideoRender`, `executeAudioRender`, `executeOrchestration`. Nearly all
  writes are by id. The catch block is `Fail`; what it cannot write it swallows
  (`lost`).
- `Deliver`, `End`, `Throw`, `Stall`, `WorkerDies`: the queue. A handler that throws
  is delivered again up to `MaxAttempts`, a job whose worker was lost once.
- `ReservedKey` and `SettledKey` are the keys under which the API reserves and the
  executors settle.

### Connections

`flow` is `SocialOAuthAttempt`, `conn` `SocialConnection`, `account` which
connection a live account belongs to, `grant` what the platform has given for a
callback's code: which refresh token of it is good. A token is a grant and the
number of its rotation.

- `Begin`, `Arrive`, `Consume`, `RejectExpired`, `Fail`, `Exchange`, `FindExisting`,
  `StoreGrant`, `Discover`: `oauth.service.ts` and `storeGrant`, `discover` of
  `connections.service.ts`. The transaction of `storeGrant` is READ COMMITTED and
  locks nothing when it looks for the row to be renewed, so that read and the write
  by id are two actions.
- `Open`, `Call`, `Write`, `Reread`, `Reauth`, `Use`: a refresh, by the API
  (`refresh`) or by a publishing worker (`openConnection`,
  `refreshConnectionToken`); only the worker reads again when its token is refused.
- `Revoke`, `Purge`: `disconnect`.
- `Rotate`, `Withdraw`, `Good` are the platform's. It refuses a token that was
  used before; whether it revokes the grant too is a withdrawal.

## 4. The runs

Passing runs:

| Run | Instance | Shows |
|---|---|---|
| `budget_inline` | 3 jobs, a limit of 2, two deliveries each, crashes | used plus pending requests stay within the limit, when executors record first and holds outlive the work |
| `budget_crash` | 2 workspaces, a key both use, limits and ceilings of both scopes, holds that expire under running work | live holds stay within limits and ceilings; no tenant works under another's hold; no hold stays ACTIVE; `AtomicBudget` is implemented, in which a settled hold is final |
| `publish_races` | 2 entries of one item, 2 dispatchers, a request, 2 jobs, 2 crashes anywhere, cancellations, operators who publish what is in flight | dispatch is exactly once; PUBLISHED is real for entry, item and designs; settled entries stay settled and are not posted |
| `publish_ends` | 1 entry, 2 requests, a dispatcher, a job that may crash, a hold that may run out of time | no attempt is sent under a hold that an earlier one settled; every entry ends |
| `container_retries` | 3 attempts, 3 containers, either platform | one post; "try again" is safe; `SinglePost` is implemented |
| `review_flow` | 4 requests, two at a time, 2 texts (one unsafe), a draft, an entry, a crash | approvals cover the body; nothing unreviewed is posted; drafts land once and end |
| `billing_flow` | 4 requests, two at a time, 2 keys, 3 events, 2 periods, a crash or an exception | the ledger accounts for every credit; a key is charged once, a period granted once; the row ends as the provider has it |
| `sync_runs` | 2 requests with one key, 2 executions, 2 posts, 2 attempts, a lease of one tick; every execution may die, every job be delivered again | one holder per lease; each attempt works under its own hold; a success shows what its last attempt read; finished runs are not reopened; a queued run ends although its job was lost |
| `video_retries` | 3 attempts, 3 sessions or publish ids, a file of 2 parts, either platform | the file is sent once; the next attempt finds a complete upload; PUBLISHED is out, or the attempt that finished the upload had found it not viewable |
| `connections` | 2 flows, 2 callbacks, 2 rows, an account, a refresh by the API and one by a worker, 2 rotations | one grant per state; outcomes are final; the stored token is the good one; a purged row on which nobody is at work stays purged |
| `run_rows` | 2 starts and a cancellation of one run, 2 deliveries and a stalled one, each of the three kinds | a file exactly when the render succeeded; success is kept; an episode's audio is real; a run keeps its campaign; queued runs end |

The run in which TLC finds the code at odds with what the repository says of it
(the quotation is in `PROJECT.json` under `findings`; section 6 has more of the kind):

| Run | What happens |
|---|---|
| `render_hold` | a render succeeds or fails and its budget stays held until it expires, because the executor settles a key under which nothing was reserved (`video-pipeline/src/executor.ts:109`, `audio-pipeline/src/executor.ts:144`) |

### Assumptions of the passing runs, and what happens without them

- `Timely` (`budget_inline`): a hold outlives the work it was taken for. The TTL
  in the code is long against a job's timeout, but nothing enforces it.
  `budget_crash` drops it, for the properties that survive.
- `RecordFirst` covers all jobs in `budget_inline`. The render and campaign
  executors settle before they record (`video-pipeline/src/executor.ts:174`,
  `audio-pipeline/src/executor.ts:299`,
  `campaign-orchestration/src/executor.ts:417`), where `reservation.ts:133-135`
  says of `reconcile` that "its real usage is in the ledger". In between the
  operation counts nowhere: with such a job TLC refutes `RequestsWithinLimit`.
  `budget_crash` has jobs of both kinds, for the properties that survive.
- `SendIsHeld` allows two things the code does. A job that comes back after its
  hold ran out of time sends without an ACTIVE one. And when an entry was queued
  twice (`calendar.service.ts:361`), jobs that read the same count of attempts share
  a hold, which the first to end settles under the other
  (`RepublishHoldsAfresh`, section 6). What it rules out is a retry or a re-publish under the settled hold
  of an earlier attempt.
- `Overlap = FALSE` and `Recordable = TRUE` (`container_retries`): attempts of
  one entry follow each other and the ledger has the row. With `Overlap = TRUE` TLC
  finds two posts (both attempts find the ledger empty); with `Recordable =
  FALSE` it refutes `RetryIsSafe` for Instagram, whose broken connections are
  reported as safe to retry.
- `ApprovalCoversTheBody` says "as long as no request has written over a row it
  did not read" (`overwrote`). Nothing in the code prevents that: without the
  condition it fails with two requests, as `HistoryIsKept` (section 6) does.
- `SubscriptionIsCurrent` says "as long as no two handlers fetched before either
  wrote" (`lateSync`). If they did, the one with the older answer may write last
  and bring a cancelled plan back until the next event
  (`billing.service.ts:419`, `439`).

- `Timely` (`sync_runs`): a claim follows the read before it within the tick, and
  no execution outlives its lease (15 minutes; the requests have timeouts, but a run of many posts has
  many of them).
  Nothing enforces it: `Finish` writes by id, so without it an execution that was
  given up for dead reopens or overwrites a finished run, and TLC refutes
  `OneHolderPerLease` and `FinishedIsFinal`.
- Attempts of `VideoUpload` follow each other. Two entries of one asset and account
  can be published at once, and then upload twice. `SentOnce` and
  `NextAttemptFindsIt` leave out the three cases in which an attempt lets go
  of a complete upload (`GivenUp`).
- `PublishedIsOut` leaves out what `OnlyPostsAreReported` (section 6) counts: an
  attempt may report an upload as published that the attempt which finished it
  found not viewable
  (`Unseen`), whether it told the operator or died first.
- `PurgedStays` is about purged rows on which nobody is at work. A disconnect waits
  for nobody: a refresh, a discovery or a reconnect that read the row before the
  purge writes to it by id afterwards, and the row is then not purged any more
  (`DisconnectNullsCredential`, section 6). Nothing that begins after the purge undoes
  it, nor a reconnect that began before and looks for the row after it.
- `Locks = TRUE` (`run_rows`): BullMQ gives a job out again only when its worker is
  dead. A live worker that lost its lock (a blocked event loop) runs on beside the
  second one; without the assumption its FAILED overwrites SUCCEEDED.
- `SucceededIsKept` leaves out the audio executor's own second thought: an exception
  while it writes the episode turns a SUCCEEDED render FAILED
  (`audio-pipeline/src/executor.ts:334`, `345`).

### Bounds

`MaxClock`, `TTL`: the clock reaches the expiry of a hold taken at 0 and of one
taken a tick later, so that a hold can expire before, during and after the work
of another. `MaxAttempts`, `MaxDeliveries` = 2: one delivery and one
redelivery, which is where keys and rows are reused; a third repeats the
second. `MaxCrashes` = 2 in `publish_races` allows a crash of two different
actors; it is below `MaxDeliveries` in `publish_ends` and `review_flow`,
because a job that dies at every delivery is dead and promises nothing.
`MaxExpiries` = 1 lets the hold of an attempt run out before, during or after its
sending; `publish_races` has none, since no property of it speaks of holds. A limit of
two among three jobs lets work that is partly recorded and partly held pass it. Three attempts let one attempt leave a
container, one replace it and one find the replacement; `container_retries` has
as many containers as attempts, since an attempt creates at most one, and the
containers are symmetric (no property of that run is a liveness property).
`MaxCalls` = 4 covers submit, approve, schedule and one disturbance, and two
callers at once give every pair of requests; in `Billing` a delivery is a request
too, so four of them are an event handled twice beside two charges, or a grant, two
charges and a reversal. A charge is of two credits and a lot of one, so that a charge takes
from several lots or falls short; `MaxLots` = 4 is a lot for each of four requests. Two
periods let an allowance lapse and another be granted. Requests, keys and
subscription events are symmetric there (no liveness property). `Jobs` in `Publishing` bounds the
queue: an enqueue waits when it is full, which no property counts as progress.

In `SyncRuns` a lease and a backoff of one tick on a clock of two let a lease
lapse, a retry become due and the dispatcher find it; a job is delivered
twice at most; one run suffices, since a run never meets another except through a
request that joins it. `VideoUpload` has as many sessions as attempts, since an
attempt starts at most one, and a file of two parts, the least for which an
upload can be interrupted half-way. `MaxRotations` = 2 in `Connections` is a
rotation for each of the two refreshes; a callback is a grant, so two of them are
a connect and a reconnect, or the same state twice. In `RunExecution` two starts race
for one key, `MaxAttempts` = 2 is a delivery and a repetition, and one
worker at a time is what `Locks` allows for one run. Sessions, rows,
flows and callbacks are symmetric where no liveness is checked.

Deadlock is checked in every run except those of `ContentReview` and `Billing`,
where requests, drafts, entries and events are used up and the system rests.

### Fairness

`FairSpec` of `BudgetReservations`: time passes and the sweep runs (repeatable
job, every 5 minutes, `apps/worker/src/main.ts:735-756`). `Publishing`: entries
become due, the dispatch job runs (every 60 s), workers take waiting jobs,
handlers and requests that have not crashed go on. `ContentReview`: the same for
draft jobs and requests. `SyncRuns`: live executions go on, the dispatcher runs
(every 5 minutes, `apps/worker/src/main.ts:758`), time passes, and, strongly,
a job of a run is delivered and its claim made now and then although executions may
die (an execution that dies at each claim for ever would prove nothing); no
fairness of the jobs that requests and retries add, so a lost one is a behaviour.
`RunExecution`: live executors go on, waiting jobs are taken, and the queue notices
a job whose worker was lost. `VideoUpload` and `Connections` have safety properties
only. `Billing` has safety properties only and assumes none. No fairness is assumed of people, platforms or crashes.
`Send` always ends because the HTTP clients have timeouts.

## 5. What is proved

For every value of the constants that satisfies the modules' assumptions:

| Theorem | Statement | Argument |
|---|---|---|
| `SpendingProofs!TypeCorrect` | `TypeOK` of `BudgetReservations` | inductive together with `Delivered` (a job that left idle has been counted), without which the events of `RecordUsage` would have no type |
| `HeldBound` | `HeldRequestsWithinLimit` | the invariant needs `OneTransaction` (the lock), `NowIsPast` and `LiveHoldsAreSeen`: whoever has read the holds has seen every hold that is still live. Then `Allow` adds one to a number the decision left room for, and everything else only ends holds |
| `RequestLimit` | `RequestsWithinLimit`, under `OwnKeyExecutors` (each job its own key, all `Inline` and `RecordFirst`) and `Timely` | adds `ReserveIsRecent`, `HoldOfDeliveredJob`, `HoldKept`, `HoldTaken`: pending work is held, so the decision has seen each pending operation as a hold or as an event, and recording only moves an operation from one to the other |
| `Finality` | `SettledHoldsAreFinal` | action by action |
| `HeldCostBound` | `HeldCostWithinCeilings` | the same three invariants, with sums in the place of numbers (`CostsBounded`): what is live was read, `CeilingReached` left room beside it (`RoomWasLeft`), a hold adds its own cost, and every other step drops terms (`SumOfPart`) |
| `OwnHolds` | `WorkIsBackedByOwnHold` | `OwnRow` also says of a job inside its transaction that the row of its key is its tenant's or missing; another tenant cannot take the key in between, since that needs the lock (`OneTransaction`) |
| `BudgetIsAtomic` | `ImplementsAtomicBudget` | `Allow` is `Reserve`: by `LiveHoldsAreSeen` the decision was about all that is live now, spent or not (`AllowHasRoom`); settlements and the sweep map to their own steps, all else stutters |
| `BillingTypes` | `BillingTypeOK` | with `PeriodsArePast` and `CallFits`: a request has the key, the event or the lot its stage needs |
| `ChargesAreOnce` | `ChargedOnce` | inductive with the types: of two charges under one key the second rolls back or spends nothing |
| `LotsAreInOrder` | lots are granted in order, and no request has seen one that is not granted | a request's copy is older than the rows, so what it does not know of it cannot take from |
| `LedgerIsKept` | `LedgerMatchesLots` | `SumsAgree`: a charge moves the same sum on both sides, a new lot has everything left (`SumChanges`, `SumOfSums`); `FewLeft`: lots without their entry belong to distinct requests that log them, or to distinct failures |
| `PlansAreFair` | `PlanIsFair` | over sets of lots that leave out none before another (`PlanOfFirstLots`): the last one gives what is missing or all it has; `PlanEmptiesEarlier` is the order |
| `AllowancesAreDue` | `AllowanceIsDue` | `ActiveIsSubscribed`: whatever a request fetched as ACTIVE the provider once had; keys of allowances are unique because the second create throws |
| `RowIsCurrent` | `SubscriptionIsCurrent` | `RowIsDue`: two handlers crossed; or the row is the provider's and nobody about to write has read anything else (`InStep`); or an event is left whose handlers have yet to read, or have read what the provider has (`Unprocessed`). `UnsentIsUnknown`: a change sends an event nobody is handling yet |
| `PublishingProofs!PublishedIsRealAlways` | `PublishedIsReal` | `AcknowledgedInv`: an attempt that was told of a post has one |
| `SettledStaysAlways` | `SettledIsFinal` | `CreatedInv`: an entry is created once, from the one request that is at it, so only jobs, claims and requests of the entry itself write to it |
| `DispatchedOnceAlways` | `DispatchedOnce` | `CountInv`: jobs and claims of an entry that still waits are no more than the requests that were answered with a job; a claim adds one exactly when the entry stops waiting |
| `SendsAreHeld` | `SendIsHeld` | `HoldInv`: a key that was ever reserved is live, has expired, or belongs to a job that is done, which stays done (`DoneStays`); a job between its reserve and its last write has reserved its own key. So a key that is neither live nor expired was settled by another job of the same count |
| `ContainerPublishProofs!RetryPostsOnce` | `AtMostOnePost`, `LedgerKnowsThePost`, for sequential attempts with a ledger row | `IInv`: one attempt runs (`OneRuns`), what it holds is what the ledger and the platform have (`Knows`), and every post is in the ledger (`PostIsRecorded`) |
| `RetriesAreSafe` | `RetryIsSafe` | from `IInv` |
| `Implements` | `ImplementsSinglePost` | under `IInv`, `Publish` is `Post`, a return is `End`, all else stutters |
| `ContentReviewProofs!ApprovalsCover` | `ApprovalCoversTheBody` | `CoverInv`: a request that has not been overtaken carries the body it will approve (`Prepared`) |
| `PostsAreReviewed` | `NothingPostedUnreviewed` | `ReviewInv`: requests past their check of an approved state have an approval in their past (`Reviewed`); it does not need `overwrote` |
| `DraftsLandOnce` | `DraftLandsOnce` | `LandInv`: a draft lands only from READY, which `DraftDeliver` never takes up again (`Landing`) |
| `ContentReviewProofs!TypeCorrect` | `TypeOK` | with the stages of a request, which say what it has read |
| `SyncRunsProofs!OneHolder`, `AttemptsAreHeld`, `SuccessesAreFresh`, `FinishedRunsStay` | `OneHolderPerLease`, `AttemptIsHeld`, `SuccessIsFresh`, `FinishedIsFinal`, under `Timely` | `IInv`: an execution that holds a run has the row as it claimed it (`HolderInv`); a pending claim is for the announced attempt, or the run has been taken since and the claim will be refused (`ClaimInv`); a key is reserved once, and a late settlement is of an earlier attempt than the running one (`KeyInv`); what was read without a failure is stored under the attempt (`FreshInv`) |
| `VideoUploadProofs!NextAttemptFindsItAlways` | `NextAttemptFindsIt` | `IInv`: one attempt runs, and what it holds is the upload of the ledger (`Knows`); an attempt that starts a new upload does so when nothing whole stands, or something was given up |
| `SentOnceAlways` | `SentOnce` | a set that is empty or a single upload has at most one element |
| `PublishedIsOutAlways` | `PublishedIsOut` | an UPLOADED row names a video that is out, or that the attempt which finished it found not viewable (`UploadedIsTold`): the row and what was found are written in one step, and the death of that attempt keeps what it found |
| `RunExecutionProofs!FilesAreOfSuccess`, `EpisodesAreReal`, `SuccessIsKept`, `CampaignsAreKept` | `NoFileUnlessSucceeded`, `EpisodeAudioIsReal`, `SucceededIsKept`, `CampaignIsKept`, under `Locks` | `IInv`: one execution per run (`OneExecution`), whose job is active; until its last write its row has not succeeded (`AtRow`), what it made is among what exists (`AtData`), and one call queues the job of a run (`StartInv`) |
| `ConnectionsProofs!OneGrantPerStateAlways`, `OutcomesAreFinal` | `OneGrantPerState`, `OutcomeIsFinal` | `FlowInv`: a callback that exchanges or stores owns the flow it consumed, and nobody else does |
| `RotationIsKeptAlways` | `RotationIsKept` | `RotationInv`: a token belongs to one row (`Home`), and where tokens rotate the answer to a refresh is newer than every token stored or in use (`Newest`) |
| `PurgedStaysAlways` | `PurgedStays` | action by action, from `TypeOK`: who writes a token or an account to a row is at work on it, and nobody takes up a purged row: it is not live, and `Renewed` passes over it |

`PublishingProofs`, `SyncRunsProofs`, `VideoUploadProofs`, `RunExecutionProofs` and
`ConnectionsProofs` each prove `TypeOK` too (`TypeCorrect`), without assumptions beyond those on the constants.

Sums are library folds over sets in no particular order. Their lemmas (`SumWithout`,
`SumAgrees`, `SumOfSums`, `SumOfPart`, ...) are proved by induction over the subsets of a
finite set in a form that can be cited: a set `P` instead of a predicate
(`SubsetInduction`, from the well-foundedness of the strict subset order).

All safety properties of the passing runs are theorems. Two more are theorems only:
`SettledHoldsAreFinal`, which `AtomicBudget` has and TLC checks with it, and
`PlanIsFair`, which is about the plan of any request in a typed state, whatever came before. Only model-checked: the
liveness properties (`HoldsDoNotLeak`, `EntriesEnd`, `DraftsEnd` and the `RunsEnd` of
`SyncRuns` and `RunExecution`), which the prover cannot do under fairness.

## 6. What the models leave out

- In the modelled components: rate cards, `maxTokens` limits and notice tiers of
  `budget.ts`; changing a limit while work runs; choosing a publisher and
  decrypting credentials; request building and text validation; prompts,
  citations and the moderation heuristics; the lengths of the queue's backoff and
  its deduplication; metric values, capabilities and reports of analytics; what
  is rendered, mixed or planned; consent URLs, PKCE and the sealing of
  tokens; of billing, checkout and portal sessions, the creation of the
  customer, entitlement checks, the balance, events of the other mode (stored,
  never applied), events without a handler, and the limit of 500 lots a charge
  reads (`billing.service.ts:937`).
- The components marked `not_modelled` in `PROJECT.json`, each with its reason;
  section 2 says which of them come next.

Seen while modelling, and not carried as runs. First, where the code and what the
repository says of it part (each was a behaviour TLC found; the first four are
formulas of the modules, which TLC refutes when they are added to the run that is
named, with the shortest trace as long as said):

- `HistoryIsKept` (`ContentReview`): "full history" (`docs/PRD.md:39`, and
  `schema.prisma:1214`). Two requests read an item and both decide; each writes back
  the log it read and its own entry, and the first entry is gone
  (`content.service.ts:319`, `404`, `460`). Five states of `review_flow`.
- `OnlyPostsAreReported` (`VideoUpload`): ADR-0019:8-9, "never claim an operation
  happened when it didn't", and `social-tiktok/src/tiktok.test.ts:352`. A video that
  was rejected, or left in the inbox, is recorded UPLOADED before the failure is
  returned (`social-youtube/src/publisher.ts:282`, `social-tiktok/src/publisher.ts:337`),
  and the next attempt reports PUBLISHED (`:151` and `:153`), even if the first died
  before it could say anything. 12 states of `video_retries`.
- `DisconnectNullsCredential` (`Connections`): `docs/DATABASE_DESIGN.md:117`,
  "Disconnect sets `disconnectedAt`, `REVOKED` and nulls the credential". A reconnect
  finds its row, the row is disconnected and purged, and the reconnect writes
  CONNECTED and its credential to it by id (`connections.service.ts:281-300`,
  `736-757`). 15 states of `connections`, without refreshes.
- `RepublishHoldsAfresh` (`Publishing`): `publishing/src/executor.ts:147-148`, "a
  genuine re-publish takes a fresh one". The dispatcher and a request queue one
  entry (`calendar.service.ts:361`), both jobs read the count of attempts before
  either counts (134, 175), and both send under one hold. 16 states of
  `publish_ends`.
- A job that crashes after reserving counts its own hold when it is delivered again,
  and is refused though nothing else uses the limit (`reservation.ts:105`; its
  comment, 91-93, has the retry return the hold it made).
- An operation that ends between the read of the spend and the read of the holds is
  in neither, and a ceiling is passed (`preflight.ts:156-174`, against
  `reservation.ts:40-42` and ADR-0029:109).
- A job that dies after the post and before the status posts again when it is
  delivered again (`publishing/src/executor.ts:136`, against 213-214 and
  ADR-0020:52-53).
- A dispatch job that dies between claiming and enqueueing leaves its entries QUEUED
  for ever (`apps/worker/src/main.ts:343`, against ADR-0020:37-38).
- An approved and scheduled item can get a new body, from a draft or an edit, and
  that body is posted unapproved (`publishing/src/executor.ts:213`, against
  `docs/PRD.md:53-56`).
- TikTok's publisher asks about an earlier publish id, "never re-initialize"
  (`social-tiktok/src/publisher.ts:163`), and initializes anew when the answer is
  inconclusive.
- Two charges under different keys that overlap plan on the same credits and take a
  lot below zero, where ADR-0044 section 6 and `billing.service.ts:634-636` report a
  shortfall. Nothing outside the tests calls `consumeCredits` yet.
- A video or audio render that FAILED cannot be started again: its row keeps the
  unique render key (comment `video.service.ts:287-291`). Cancelling one that is
  RUNNING does not stop it (comment 371-374).
- A render whose process dies after the usage event and before SUCCEEDED records its
  usage twice (comment `video-pipeline/src/executor.ts:88`).

And otherwise:

- A sync run whose worker died is delivered again within its lease, skipped, and
  never selected by the dispatcher, which looks for QUEUED: it stays RUNNING and
  answers every later request of its target (`Abandoned` in `RunsEnd`). Two
  requests without a key may both create; a key that joined an active run is not
  remembered; a FAILED run may show snapshots of an earlier attempt.
- An upload session that expired, or a file that cannot be read, after the answer to
  the last part was lost makes the next attempt upload the video again. The ledger's key is account and asset: another
  entry with the same video is reported PUBLISHED too.
- A refresh that lost the race marks a connection REAUTH_REQUIRED that was just
  refreshed, always in the API, and in a worker between its second read and its
  write (comment `resolver.ts:398`). A refresh that began before a reconnect
  overwrites the new grant; `storeGrant` leaves `lastRefreshedAt`; a
  discovery may end after a disconnect and make accounts live under it; an answer
  that is lost loses a rotated token.
- An executor that read QUEUED before a cancellation sets RUNNING over CANCELLED; a
  RUNNING row whose waiting retry is removed stays RUNNING; a request that dies
  between creating and queueing leaves QUEUED; an error that `finishFailed`
  swallows leaves RUNNING. An episode becomes RENDERING after its job was queued,
  so possibly after it ended, and a cancelled render leaves it so.
- A campaign run that dies between its campaign and the link to it makes a second
  one; a redelivered run creates its items again, and its settlement names a key
  that was never reserved.

- An organization's request limit counts only the own workspace's events when
  that workspace has a row whose maximum is null, against the comment beside it
  (`preflight.ts:370-371`, `394`); `CountedFor` models the code.
- `publishNow` checks a status it read earlier and updates by id, so an entry in
  flight can be queued again (`calendar.service.ts:361`); `publish_races` has
  the behaviour.
- A redelivered attempt that finds no publisher records UNSUPPORTED, "Nothing was
  published", though the earlier delivery may have posted
  (`publishing/src/executor.ts:199-208`).
- `PUBLISH_ATTEMPT` usage is never recorded, because the worker passes no
  recorder (`main.ts:441-448`, `executor.ts:143-144`); in `Publishing` only
  live holds count against the limit.
- A container staged before an edit is published with the old caption.
- A dropped connection while publishing an unrecorded container is reported
  as safe to retry (`social-meta/src/client.ts:190`, ADR-0036:86-87).
- The draft job sets GENERATED from RESEARCH_READY, which the transition table
  does not have (`lifecycle.ts:30-52`); a moderation verdict ERROR does not
  stop an approval.
- A request that dies between creating a draft and queueing its job leaves the row
  GENERATING; a draft job that dies between READY and the item's update loses the
  body, since its next delivery skips. `ContentReview` has both behaviours;
  `DraftsEnd` is about drafts whose job was queued.
- Campaign runs put their items into REVIEW whatever state they are in
  (`campaign-orchestration/src/executor.ts:400-409`); in `ContentReview` such an
  item is one of the initial states.
- A charge that was partly covered reports its shortfall once; its replay reports
  a shortfall of 0 (`billing.service.ts:647`).
- Reversing a charge twice returns its credits twice, and always as a lot that
  never expires, where ADR-0044 section 6 and `credits.ts:92-96` return them to the
  lots they came from (`billing.service.ts:692-711`). `Billing` has both.
- An event whose handler died stays RECEIVED, and its later deliveries are answered
  as duplicates (`billing.service.ts:346`); invoice events that arrive before
  the subscription's row are IGNORED for good.
- The key of an allowance names the plan, so a change of plan within a period
  grants a second one, against the comment "One allowance per organization per
  billing period" (`billing.service.ts:948`, `961`); `AllowanceIsDue` is per plan.
- A lot whose GRANT entry was lost to a failure never gets one: the redelivery
  finds the lot and returns (`billing.service.ts:966`).

## 7. Running the checks

    tlc -workers 2 -config publish_races.cfg MCPublishing.tla
    tlapm ContainerPublishProofs.tla

The module and configuration of each run are listed in `PROJECT.json`. The
largest run, `publish_races`, has 4.5 million states and takes about two
minutes, as does `run_rows`; `billing_flow` and `sync_runs` take a minute or
more, `connections` and `video_retries` half of that, the others seconds.
