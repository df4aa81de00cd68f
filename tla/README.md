# A TLA+ model of the LazorKit protocol dashboard

The repository indexes every transaction of the LazorKit programs (v1 and v2, on
mainnet and devnet) into a Postgres event log and serves aggregates of it to a
dashboard. Its promise is that *nothing is skipped, nothing is counted twice, and
what is shown is a recompute of what was stored*, although the indexer is a script
that a cron starts and that may be killed at any moment, although RPC endpoints
throttle, lag and lie about the end of history, and although every database call
may be sent twice. These modules state that promise and check it.

Paths below are relative to the repository root; `SQL` stands for
`supabase/migrations/20261002000100_lk_event_log.sql`.

## 1. Inventory of the system

| Part | Code | State it keeps | Operations |
|---|---|---|---|
| Event log | SQL 29-317, 389-640, 645-658, 1362-1606, 1696-1729 | per (program, generation): queue `lk.pending`, ledger `lk.events`, rollups `lk.daily`, `lk.actor_days`, gaps `lk.gaps`, progress columns of `lk.builds` | `lk_enqueue`, `lk_pending`, `lk_ingest`, `lk_mark_attempt`, `lk_open_gaps`, `lk_reparse_candidates`, `lk_compact` and their helpers `lk.recompute_days`, `lk.horizon`, `lk.maybe_complete_backfill`, `lk.complete_through` |
| Wallet facts | SQL 233-249, 590-620 | `lk.wallets`: first creation and last migration of each wallet | part of `lk.recompute_days` |
| Builds | SQL 74-101, 1838-1890 | generations of a program: building, active, retired | `lk_start_build`, `lk_promote_build` |
| Run reports | SQL 311-317, 1629-1694 | `lk.programs.last_run_*`, `consecutive_failures`, `no_progress_runs`, `lk.runs`, `lk.heartbeats` | `lk_report_run`, `lk_heartbeat` |
| Deployments | SQL 1319-1360, `worker/loop/deployment.ts`, `worker/chain/binary.ts` | `lk.programs.deploy_status`, binary columns, `lk.deploys` | `lk_set_deployment`, `detectDeployment` |
| Rollup and dashboard | SQL 389-543, 769-1288 | none (functions of the tables) | `lk.rollup`, window and cluster functions, `lk_dashboard`, `lk_health` |
| Verification | SQL 661-764, 1732-1836, `worker/verify/` | `lk.programs.checks` | `lk_verify` (R1), `lk_verify_counts`, invariants I1-I6, reference rollup |
| Worker run | `worker/loop/run.ts`, `worker/loop/ingest.ts`, `worker/main.ts`, `worker/config.ts` | in memory only: the rotation, a batch, statistics, a deadline | `runWorker`: per cluster lane deployment, snapshot, discovery, ingest rotation, gaps, reparse; then promotion, report, compaction, verify, heartbeat |
| Discovery | `worker/loop/discover.ts` | in memory: found signatures, `before`, endpoint, continuity floor | `discover`: pages two endpoints down to the frontier, queues chunks, moves the frontier last |
| RPC client, pacer | `worker/rpc/` | adaptive rates, next free slot, throttle counters | `call`, `acquire`, `throttled`, `succeeded` |
| Database client | `worker/db/client.ts` | none | one RPC per SQL function, three attempts |
| Parser, state decoders | `worker/parse/`, `worker/state/` | none | `parseTransaction`, `takeSnapshot` |
| Scheduler | `.github/workflows/indexer.yml`, `api/cron/heartbeat.ts` | the workflow's concurrency group | starts runs, one at a time; kills one after 70 minutes |
| API | `api/` | a memo per function instance; a CDN in front | `/api/dashboard`, `/api/health`, `computeFreshness`, the daily `cron/heartbeat` |
| Dashboard client | `src/api/`, `src/app/App.tsx`, `src/types/validate.ts` | React state, saved payloads and their index in `localStorage` | `fetchDashboard`, `writeCached`, select, refresh, abort |
| Dashboard views | `src/app/`, `src/components/` | none | view of a result, banner, badges, progress, notes, sections; charts and tables |

**How the parts interact.** A run reads `lk_worker_context` once, then the two
cluster lanes run concurrently in one process and touch different programs. All
state that survives a run is in Postgres; a run talks to it only through the SQL
functions, each of which takes the build's advisory lock first and is one
transaction. The API reads the same tables at any moment, also half-way through a
run, and the dashboard caches what it got.

**What is hard.**
- *Repeated calls*: the database client sends a call again after a network error or
  a 5xx, so a call that was executed may be executed again.
- *Crashes*: a run dies between any two calls; everything in memory is gone.
- *Stale reads*: a batch is fetched for minutes after `lk_pending` returned it.
- *Order*: discovery sees newest first, ingestion works oldest first, the frontier
  may only move when everything below it is durable, a day may only be sealed when
  nothing can still arrive for it.
- *Failure isolation*: one signature nobody serves, or whose rows the database
  rejects, must neither block the queue nor disappear.
- *Retention*: sealing deletes the ledger rows, so anything that was wrong stays
  wrong.
- *Two generations*: a rebuild fills one while every run still feeds the other; the
  switch must lose nothing, also when its answer is lost.
- *Reads apart in time*: the three account reads of a detection, and the snapshot,
  the pages and the rows of a state check, are of different slots.
- *Layers of staleness*: a memo, a CDN, an open tab and a saved copy each add age to
  an answer, and requests for other selections are still under way.

**What makes each part correct.**
- Event log: queue and ledger disjoint; open rollups are recomputes; each signature
  counted once; nothing accepted is ever lost; sealed days never change; a queued
  signature can always be ingested.
- Worker run: Invariant D (everything below the frontier is queued or recorded);
  only complete days are sealed; a gap only after separate runs; every served
  signature is recorded in the end; what `lk.complete_through` claims is true.
- Discovery: no signature between two pages is skipped when the endpoint changes or
  paging restarts; the end of history is only believed from the archival endpoint.
- Builds: one active generation; promotion loses nothing that was discovered; a
  rebuild ends.
- Run reports: "ok" means complete; repeated failures and programs without progress are
  seen.
- Deployments: a detection that nothing disturbs describes what is deployed.
- RPC client: intervals and pauses are kept, rates stay in range, retries end.
- Parser and rollup: a fee belongs to one instruction; a shared transaction counts
  once per cluster; the SQL and the reference rollup agree.
- State checks: no false alarm when state and history are of different slots, as long
  as the history read is not the older one.
- Wallet facts: the result does not depend on the order of recomputes.
- Freshness and views: the API and every part of the page say the same of a program.
- Dashboard client: the figures are those selected, of bounded age; saved copies are
  bounded and listed; an outage ends.

## 2. What is modelled now

| Module | Stands for |
|---|---|
| `SignatureLedger` | abstract specification: the life of each signature (absent, queued, gap, recorded), final days, the count |
| `EventLog` | the durable side for one build: one action per SQL function that writes it, callers unconstrained (overlapping, repeating, delayed) |
| `EventLog_proofs` | the TLAPS proofs about `EventLog`: its invariants, and that it implements `SignatureLedger` |
| `Indexer` | one program's runs over `EventLog`: discovery, queueing, draining, isolation, gap retries, reparse, compaction, with kills, failed phases, exhausted budgets and repeated calls; endpoints that lag; the clock |
| `Indexer_proofs` | the TLAPS proofs about `Indexer`: that it implements `EventLog`, and what only serialised runs promise |
| `Discovery` | one build's `discover` calls: pages from two endpoints, the switch, the restart, chunks, the final call |
| `Discovery_proofs` | the TLAPS proofs about `Discovery` |
| `Lifecycle` | one program's generations and the runs around them: start, deployment, two builds, promotion, report, heartbeat |
| `Freshness` | what the API computes of heartbeats and programs (operators) |
| `Dashboard` | a reader's page: the API function and its memo, the CDN, a tab, its saved copies |
| `Views` | what the page shows of a payload (operators) |
| `RpcClient` | the JSON-RPC client of one endpoint and its pacer |
| `ChainReads` | the detection of a deployment on a chain that changes |
| `StateChecks` | snapshot, discovery and ingest of a chain that grows, the checks I1-I6 and `verify:chain` |
| `Parser`, `Rollup` | a transaction executed, landed, parsed for each program, rolled up and added to the cluster's totals |
| `Pipeline` | the composition of the last five |
| `Lifecycle_proofs`, `Dashboard_proofs`, `StateChecks_proofs`, `Rollup_proofs`, `Pipeline_proofs` | the TLAPS proofs about these |
| `MC...` | the instances TLC checks |

`Indexer` EXTENDS `EventLog` and uses its operators (`Enqueue`, `Ingest`,
`MarkAttempt`, `Compact`), so the SQL is modelled once. `Indexer` is shown to
implement `EventLog` (`ImplementsEventLog`), and `EventLog` to implement
`SignatureLedger` (`ImplementsLedger`).

### EventLog

Each SQL function takes `lk.lock(program, gen)` and runs in one transaction, hence
one atomic action per call. The state is the columns the functions read:

| Variable | Column |
|---|---|
| `pending`, `attempts`, `lastRun` | rows of `lk.pending`, `attempts`, `last_attempt_run` |
| `events` | rows of `lk.events` as (signature, ix_seq, parser_version); version 0 is the kind 253 row |
| `daily` | for each day, the ledger rows its `lk.daily` row was computed from |
| `sealed`, `compacted` | `lk.daily.sealed`, the days before `compacted_before` |
| `gapState`, `gapSince` | `lk.gaps` without a row, open or resolved; `first_seen_at` |
| `frontier`, `discoveredAt`, `historyEnd`, `backfillComplete`, `ingestedSigs` | the columns of `lk.builds` |
| `today` | `now()`, in days |
| `known` | history variable: every signature the queue ever accepted |

Abstractions: `lk.rollup` is a function of the day's ledger rows and of nothing
else, so a rollup *is* the set of rows it was computed from, and "stored = fresh
recompute" is equality of sets. A refusal of `lk.recompute_days` aborts the
transaction, so it is a guard. Time is counted in UTC days, as every comparison of
the horizon is. Not represented: `lk.actor_days` (rebuilt together with the daily
row), wallet facts, deploys, `history_proof`, generations (one active build, so the
"retired" refusals never apply).

`Next` lets anyone call anything: `EnqueueChunk` queues any signatures that exist,
`EnqueueFinal` moves the frontier to any of them, `IngestBatch` ingests any set ever
queued under any parser version (an old batch, a batch sent twice, two workers'
batches), `ReplaceBatch` is any gap repair or reparse, `MarkAttempt` any attempt of
any run. What holds here holds for every worker, correct or not.

### Indexer

The phases of `runWorker` for one program are the values of `pc`. The actions follow
the code: `Discover`, `QueueChunk`, `QueueFinal` (`discover.ts`), `TakeBatch`,
`Fetch`, `Mark`, `IngestFetched`, `BatchRejected`, `IngestAlone`, `RejectAlone`
(`ingestBatch` and `ingestIsolating`), `TakeGaps`, `RetryGap`, `GapsDone`
(`retryGaps`), `Reparse`, `ReparseDone`, `CompactAndEnd`. A fetch may fail at any
time. The other failures are counted as faults and bounded by `MaxFaults`: `Kill`
(job timeout, cancelled job, crash), `PhaseFails` (the catch blocks of the lane end
one phase, not the run), `OutOfBudget`, and `AnswerLost` (the call ran, the client
sends it again). `Unstorable` is the set of signatures whose rows the database
rejects (SQLSTATE class 22 or 23).

The chain is reduced to `tip`, the newest slot the endpoints serve at commitment
`finalized`. `NextDay` states the timing assumption on it: finality lags by seconds,
so at midnight everything of the day *before* is served, and unless
`LagCrossesMidnight` everything of the day itself; and a run lives through at most
one midnight (`timeout-minutes: 70`). One discovery returns everything served from
the frontier slot up or fails; that paging achieves this is the subject of the
module `Discovery`. The second program of the lane, the other lane, deployment detection, the
snapshot and `lk_verify` do not touch the state modelled here; promotion and reports
are in `Lifecycle`.

### Discovery

The variables are the local variables of `discover` (`endpoint`, `before`, `limit`,
`found`, `newest` for `order[0]`, `oldestSeen`, `floor` for `continuityFloor`,
`unsent` for the chunks not sent yet), the build's `frontier`, and `queued`, the
signatures `lk_enqueue` has accepted. The feed is numbered from the oldest signature.
An endpoint serves a window of it: the primary forgets at the old end
(`PrimaryForgets`, signature by signature), both grow at the new end, whole slots at
a time because pages are read at commitment `finalized`. The archival endpoint
forgets nothing, but once the first pass is over it may answer for a while from a
node with less history (`ArchivalTruncated`): `EndsAboveFrontier` exists for that.
During the first pass the code has nothing to compare the end of history with. When only one endpoint is configured, `deps.primary` and
`deps.archival` are the same client: `entry = "archival"`, chosen in `Init`.

One action is one page and what the loop does with it: `PageReachesFrontier` (break),
`PageIsFull` (continue below), `PrimaryEnds` (switch), `HistoryEnds` (break at the end
of history), `Restart` (the archival endpoint does not know `before`, three retries
later still not), `NoOverlap` and `EndsAboveFrontier` (throw). The windows may move
between any two pages. `Fail` ends the call anywhere, block times included; all local
variables are lost and the next call starts over. `QueueChunk` and `MoveFrontier` are
the `lk_enqueue` calls; a repeated one changes nothing here (`EventLog` and `Indexer`
repeat them). `discovered_at` and `history_end` are in `Indexer`.

### Lifecycle and Freshness

`pc` names the step of the current run, from `start` (`mode=rebuild`) to `beat`;
`run` holds its local variables (`gen` is `program.activeGen`, `todo` and `work` the
builds still to discover and to drain, `errors` the outcome's list). `builds` is
`lk.builds` with each generation's queue, ledger and gaps as sets of signatures, and
`prog` the columns of `lk.programs` that a report reads and writes. Only the order of
two builds' `discovered_at` is ever read, so `order` is that relation and there is no
clock. One discovery and one draining are single steps: their inside is `Discovery`
and `Indexer`, and what they may leave behind (chunks without the final call, part of
a queue, a gap, an error) is chosen in `DiscoverFails` and `Drain`.

`StartBuild`, `Promote` and `Report` may lose their answer and be sent again: the
second `lk_start_build` raises and ends the run (`StartRefused`), the second
`lk_promote_build` raises and is logged, so the run reports the *old* generation, and
a second `lk_report_run` counts again. `Abort` is a kill, or an error outside every
catch block (the context read, also the one before the promotion): nothing is
reported. `RunElsewhere` is a run for other programs, which writes the same heartbeat
row. `Freshness` is `computeFreshness` as operators; `Lifecycle` applies it to the
states its runs reach and `Dashboard` to the payloads its pages show.

The history variables say what the code does not store: `okTip` (the tip when the run
of the last "ok" report began), `failedRuns` and `idleRuns` (consecutive runs reported
failed, or that finished nothing of either generation while the reported queue was not
empty, each run counted once).

### Dashboard and Views

`memo` and `cdn` hold responses with their age; `Serve` is the CDN answering from what
it holds, refreshing a stale entry behind the answer or calling the function
(`Handler`). `req` is the one request of the tab: sent, or reading its body. A new
selection, a click on refresh or the interval aborts it (`Restart`): a request without
an answer ends silently, one that reads its body reads `null` and reports that under
its own key, as `fetchDashboard` does. `Shown` is `App.tsx`'s comparison of the
result's key with the selection. `WriteCached` is `writeCached`: trim to
`MAX_CACHED - 1`, write the copy, write the index, drop the oldest and start over when
the storage is full; `quota` counts a copy as 2 and an index entry as 1. `Reload`
opens the page at the URL it wrote. What the database contains is one of `Setups`
and does not change while the page is watched, so a payload is its key and its age;
its programs are looked up in `content`. `Valid` reduces the runtime validator to its
verdict.

A tick is the unit of `MemoAge`, `MaxAge`, `Swr` and `Refresh`; a request is answered
within one tick, because the platform ends a slow function and with it the request.

`Views` translates `viewFromResult`, the banner, badges, progress, expected builds,
deployment notes, sections and the URL; a sentence is the name of what it says.

### Pipeline

The stages of a lane share no variable, so `Pipeline` lets each behaviour run one of
them (`stage`), and one run checks them all.

- `RpcClient`: `rate`, `successes`, `nextIn` are the pacer's (`nextAt` relative to
  now); `Take` reserves a slot, `Answer429`, `AnswerFails`, `AnswerOk`,
  `AnswerRefused` are what `call` does with an answer. A lane awaits each call and each
  cluster has clients of its own, so a pacer has one caller. Rates are integers per
  minute instead of floating point per second.
- `ChainReads`: `StartDetection` (the row as `lk_worker_context` returned it),
  `ReadProgram`, `ReadHeader`, `ReadImage`; `Deploy`, `Upgrade`, `SetAuthority` and
  `CloseProgram` come between any two. A hash is the bytes it is taken of, and
  `ElfBound` translates the end of the image from its tables and sections. The table of
  known builds (`KnownKind`) does not change here; a hash that is listed after its
  detection is a matter of `Dashboard`'s contents.
- `StateChecks`: a slot has one transaction of one instruction with its effect on the
  program's accounts; `GetAccounts` and `WriteState` are the snapshot,
  `StartDiscovery`, `QueueAll`, `StampDiscovery` the discovery, `Ingested` and
  `RepairGap` the rows. `Checks` is `lk.check_invariants`, `HistoryAgrees` the
  comparison of `verify:chain`. Accounts and signatures are answers of different nodes:
  the listing of `QueueAll` ends at any slot, also below the snapshot's or the frontier,
  and `trailed` remembers that the last one ended below the snapshot's. The snapshot answers at the newest slot; an older answer is an earlier
  snapshot with a later stamp, which only makes `v_ready` wait longer. What instructions
  do to accounts is the on-chain program's business and modelled as the checks take it to
  be.
- `Parser`: `Invoke` executes instructions as the runtime does (a call goes one level
  down, from an instruction still running), `Land` ends the transaction with or without
  an error and with or without recorded stack heights; `Rows` is `parseTransaction` on
  the flat list per top-level instruction.
- `Rollup`: each program's copy of the transaction is absent, a gap, a parse error or
  parsed; `RowMetrics`, `TxMetrics` are `lk.rollup`, `ClusterMetrics` is
  `lk.cluster_metrics`, `ReferenceRows` and `ReferenceTx` the reference rollup.

## 3. Runs

| Run | Question | Result |
|---|---|---|
| `event_log` | do the invariants of the queue, ledger, rollups, gaps and retention survive any calls, and does every call implement the abstract ledger? | holds, 171,639 states |
| `indexer` | do serialised runs with kills, failed phases and repeated calls keep Invariant D, seal only complete days, give up only after separate runs, and stay within what `EventLog` allows? | holds, 966,011 states |
| `indexer_live` | is every served signature recorded once faults stop, and is `complete_through` true when a discovery fits in one chunk? | holds |
| `discovery` | do pages over a pruned primary and a lagging or truncated archival endpoint ever skip a signature, does the frontier move last, and is everything queued in the end? | holds, 115,507 states |
| `lifecycle` | do generations stay consistent, does a promotion keep what was discovered, does "ok" mean complete, are failures and programs without progress shown, and does a rebuild end, when runs are killed, phases fail and answers are lost? | holds, 422,409 states |
| `dashboard` | does a page show the selection, of bounded age, in agreement with itself, does it bound its copies, and does it recover from an outage? | holds, 268,418 states |
| `pipeline` | are pauses and rates kept, is an undisturbed detection current, do the state checks raise no false alarm unless the listing trails the snapshot, and is everything counted once? | holds, 4,144,925 states |
| `event_log_race` | does a kind 253 row always belong to an open gap, for overlapping callers? | violated, finding 1 |
| `indexer_chunks` | is `complete_through` true with several chunks? | violated, finding 2 |
| `indexer_gaps` | is every gap retried by a later run? | violated, finding 3 |
| `indexer_lag` | does Invariant D survive a signature that becomes visible only after midnight? | violated, finding 4 |
| `discovery_empty` | does Invariant D survive an archival endpoint that knows nothing of the program yet? | violated, finding 5 |

**Bounds and why they are enough.** Three signatures: two that share a day (and, in
`event_log`, a slot), so that a day can be half recorded, and one on the next day,
so that one day can be sealed while another is open. Two parser versions that
disagree on the number of rows of one signature, so that mixing parses shows. Two
attempts instead of five: one that counts and one that converts. Retention 0 or 1 day
and a gap window of 1 or 2 days instead of 35 and 30 on a clock of three days, so
that sealing, and gaps older and younger than the window, all happen. Chunks of one
and batches of two, so that a discovery takes several calls and a batch has a
remainder. Four run ids suffice because ids are only compared with
`last_attempt_run`, so an id no queued signature holds is as good as a new one. Two
faults (one in the liveness run) cover every pair such as "repeated call, then
kill". `event_log` has no bound on the number of calls, and declares run ids
symmetric. Deadlock is not checked: the clock stops at `LastDay` and the model with
it. `discovery` has four signatures, two of which share a slot, so that a window or a
page can end inside and at the edge of a slot; pages of one (the first) and two and
chunks of two, so that a discovery takes several pages on two endpoints with a
restart in between and several chunks; two failures or truncations. The archival
endpoint starts with the first signature; `discovery_empty` starts it with none.
`lifecycle` has one signature, two generations, one rebuild and four faults: a queue
that is left alone for three runs and a failure in between take four, a lost start and
a lost promotion two; the heartbeat is looked at fresh and after 13 hours. (Two
signatures with two faults hold as well.) Chain and clock may stop, but runs go on, so
deadlock is checked. `dashboard` has two selections of different clusters, so that an
answer can be of the wrong one, three databases (healthy, behindhand, stopped) that
between them meet every badge and state, room for a copy without its index entry,
for one copy and for two, with a limit of one, two clicks and one change of the API: enough for a request to be
aborted, a save to fail and an outage to begin or end at any step. The ages are the
smallest that differ from each other's boundaries. `pipeline` has three
retries of each kind and a creep after three successes; two upgrades and three
detections, so that a disturbed detection is followed by an undisturbed one; three
transactions and four snapshots or discoveries; four instructions of three heights in
a transaction, three when it is ingested. Its stages end at these bounds, so deadlock
is not checked.

**Fairness.** `FairIndexerSpec` assumes weak fairness of `StartRun`, because the cron
starts a run after every run, and of `WorkerStep`, because a process that is neither
killed nor out of budget takes its next step. Nothing is assumed of fetches (each
may fail for ever), of the chain, or of the clock. Faults are finitely many because
`MaxFaults` bounds them; with endless faults nothing could be promised. In `Discovery`,
`FairSpec` assumes weak fairness of `Discover`, for the same reason, and of the two
endpoints catching up with the chain and of a truncated archival endpoint recovering;
the primary need not remember anything. `Lifecycle` assumes weak fairness of
`ScheduledRun` and of a run's own steps, as `Indexer` does; a rebuild is dispatched by
hand and need not be. `Dashboard` assumes that requests are served and delivered, that
the interval fires and that time passes; nothing of the API, the reader or the
instances, and its liveness property speaks of an API that is up from some point on.

**Seeded faults.** For every property of a run that holds, `PROJECT.json` names a
definition marked "Seeded fault" in the modules: a plausible slip (a dropped guard, a
swapped order, a lost reset) which, put in the place of the definition after it, makes
TLC find that property violated. It shows that the property constrains the code.

## 4. Proofs

Every invariant and action property that a passing run checks is also a theorem,
for every value of the constants that satisfies the modules' named assumptions. Each
inductive invariant was first checked with TLC on the instance of its run.

### EventLog

`EventLog_proofs` proves, for every feed, parser, retention, number of attempts and
set of runs that satisfies the named assumptions of `EventLog`:

| Theorem | States |
|---|---|
| `TypeCorrect` | `Spec => []TypeOK` |
| `QueueAndLedgerStayDisjoint` | `Spec => []QueueLedgerDisjoint` |
| `RollupsStayRecomputed` | `Spec => []DailyIsRecompute` |
| `QueueStaysIngestible` | `Spec => []QueueNeverRefused` |
| `NothingIsEverLost` | `Spec => []NothingLost` |
| `EachCountedOnce` | `Spec => []CountedOnce` |
| `YoungGapsStayRepairable` | `Spec => []YoungGapStaysRepairable` |
| `SealedStaysForever` | `Spec => SealedForever` |

**The argument.** None of the invariants is inductive alone; `Inv` is their
conjunction with two facts that tie the parts together: a sealed day is compacted
(`SealedIsCompacted`), and a rollup, open or final, only holds rows of its own day
(`RollupRowsOnTheirDay`). Then the recorded signatures of open days are exactly the
ledgered ones (`RecordedLedgered`), every write of the ledger changes the recorded
set by exactly the new signatures (`LedgerWrite`, `CountNew`), and so ingesting,
replacing and converting to a gap (`InvIngest`, `InvConvertToGap`) keep the count
and lose nothing; `lk_enqueue` keeps the queue off compacted days (`InvEnqueue`),
and the horizon keeps compaction off queued days (`InvCompact`). `InvStep` has one
case per action, `InvAlways` is the induction. `Inv` itself is checked by TLC in
`event_log`.

It also proves `EventLogImplementsLedger`, `Spec => ImplementsLedger`:
under the mapping of `EventLog`, which reads a signature's status off the queue, the
gaps and the rollups, every call is one step of `SignatureLedger` or changes none of
its variables. `Inv` is what makes a status unambiguous (queued and recorded exclude
each other) and the count of an ingest the number of signatures it records; each
action has its lemma, and `LedgerStep` joins them.

### Indexer

`Indexer_proofs` proves, for every feed, chunk and batch size, number of attempts and
of faults:

| Theorem | States |
|---|---|
| `IndexerImplementsEventLog` | `IndexerSpec => ImplementsEventLog` |
| `IndexerTypeCorrect` | `IndexerSpec => []IndexerTypeOK` |
| `FrontierStaysComplete` | `LagCrossesMidnight = FALSE => (IndexerSpec => []InvariantD)` |
| `SealedDaysStayComplete` | `LagCrossesMidnight = FALSE => (IndexerSpec => []SealedDaysComplete)` |
| `CompleteThroughStaysTrue` | `LagCrossesMidnight = FALSE /\ Cardinality(Sigs) <= ChunkSize => (IndexerSpec => []CompleteThroughHolds)` |
| `GapsComeFromSeparateRuns` | `IndexerSpec => []GapAfterSeparateRuns` |
| `UnparsedRowsAreOpenGaps` | `IndexerSpec => []UnparsedRowIsOpenGap` |
| `RowsComeFromOneParse` | `IndexerSpec => []RowsFromOneParse` |

The hypotheses are those of the runs: `FALSE` says that what belongs to a day is
served when the next one ends it, and finding 4 is what happens otherwise; the bound
on a discovery is what finding 2 violates.

Every step of a run is a call that `EventLog` allows, or none. That needs `RunInv`:
what a run holds in its hands (`batch`, `fetched`, `alone`, the chunks not sent yet,
the gaps it retries) exists, was queued before, and fits the phase, so that the
preconditions of the SQL functions hold when it calls them, after a kill or a repeated
call too. With the refinement `EventLog`'s invariant holds of the worker, and the rest
builds on it:

- `CoverInv`: everything served up to the frontier, and everything of a compacted day,
  was known. Between the discovery and its final call the chunks hold what is missing,
  and compaction only passes days that ended before the last completed discovery.
- `ThroughInv`: what is known is closed downwards when a discovery is one chunk, so
  the oldest queued block time has nothing unknown below it.
- `AttemptInv`: every attempt counted in the database is one of a run of its own
  (`runsTried`), because within a run `last_attempt_run` remembers what was counted
  and nothing is marked before the run takes its first batch.
- `RowsInv`: between `lk_pending` and `lk_ingest` of the same run nobody else makes a
  gap of a batch's signature. It is the serialisation of runs that makes the two
  properties true: for overlapping callers finding 1 refutes the first.

### Discovery

`Discovery_proofs` proves, for every feed, every page limit and chunk size, and every
behaviour of the endpoints:

| Theorem | States |
|---|---|
| `TypeCorrect` | `Spec => []TypeOK` |
| `FrontierHidesNothing` | `ArchivalStart # 0 => (Spec => []InvariantD)` |
| `PagesLeaveNoHole` | `ArchivalStart # 0 => (Spec => []PagesCoverFeed)` |
| `FrontierStaysBehindTheQueue` | `ArchivalStart # 0 => (Spec => FrontierMovesLast)` |

The assumption says that the archival endpoint serves some signature of the program
from the start; finding 5 is what happens without it. The inductive invariant
(`Inv` of `Discovery`, also checked by TLC) says that the frontier slot itself is
queued, that what is collected starts with the last signature of a slot and is a run
of the feed without holes, and that the next page starts right below it or will be
compared with its last signature. `PageMeetsCollected` is the heart of it: after a
restart the first page is not empty, its newest signature is in the slot of the last
collected one or later, and because a window holds all of its newest slot
(`WindowHoldsItsSlot`), comparing *slots*, as the code does, is enough. `NoHole`
extends the run by a page, `InvPagingEnds` shows that the last page reaches
signatures that are queued already (a truncated history that ends inside the frontier
slot included) or the program's first one, and `FrontierPassesQueued` that the final
call only passes what the chunks carried.

### Lifecycle

`Lifecycle_proofs` proves, for every number of signatures, generations, faults and
rebuilds:

| Theorem | States |
|---|---|
| `GenerationsAreConsistent` | `Spec => []LifecycleInv` |
| `OkMeansComplete` | `Spec => []OkRunIsComplete` |
| `StalledQueueIsReported` | `Spec => []StalledQueueFails` |
| `RepeatedFailuresAreShown` | `Spec => []FailuresAreSeen` |
| `PromotionsKeepDiscoveries` | `Spec => PromotionKeepsDiscoveries` |

The inductive invariant adds three things. `RunInv`: what a run has discovered without
an error reaches the tip at which it began, and the generation it has in mind is the
active one until it promotes; after a promotion whose answer was lost, the active one
has an empty queue, which is why reporting the old generation's (deleted) queue is
still the truth. `OrderInv`: a later discovery has a higher frontier, so the test that
compares `discovered_at` is the test that matters, and with Invariant D of the new
generation and its empty queue nothing is missing after the switch. `ReportInv`: the
two counters never fall behind the runs, and "ok" covers the active frontier.

`StalledQueueIsReported` is about a program, not a queue: the worker counts progress
over both generations, so three runs that leave the active queue as it is while a
rebuild drains are reported as "lagging".

### Dashboard

`Dashboard_proofs` proves, for every set of selections, every choice of the four ages,
of the quota and of the limit of copies, and any number of clicks, reloads and outages:

| Theorem | States |
|---|---|
| `AnswersAreRecent` | `Spec => []ShownAgeBounded` |
| `FiguresBelongToSelection` | `Spec => []ShowsTheSelection` |
| `CopiesStayListed` | `Spec => []CopiesAreListed` |
| `DashboardIsCorrect` | `Spec => []DashboardInv` |
| `PartsOfThePageAgree` | `Spec => []PageAgrees` |

`IInv` bounds an age layer by layer: in the memo, in the CDN by how long it is held,
on arrival, and on the page by the timer (`AgeHolds`): a tab that has been visible
since the interval last fired has asked since then. `StorageInv` is about the saved
copies: the index lists each key once and within the limit, and a copy without an
entry is of a key whose latest save failed; whatever the quota refuses, the loop of
`WriteCached` keeps both. `EnvInv` says what database the page is looking at. `PageAgrees` compares the banner, the
badges, the progress, the cards and the version filters for a payload, whatever its
rows are; the lemmas before it (`CardsAgree`, `EveryFilterAgrees`, `NamedWhileDelayed`, ...) say
what each part shows. It rests on `ContentAssumption`: one program of each version on
each cluster, as `lk.programs` has it; a build "matches" exactly when the known builds
list its hash, because the query joins that table; and the kind in a program's row is
the one listed now (`KindIsCurrent`) or still "unknown", because it was stored at the
detection and the hash may have been listed since. What a card says of a build (its
badge beside its match, the build expected next) is claimed for current kinds only;
everything else for both.

### The pipeline

| Theorem | States |
|---|---|
| `RpcClientIsCorrect` | `RpcSpec => []RpcInv` |
| `DetectionIsCurrent` | `ReadsSpec => []DeploymentIsCurrent` |
| `ChecksAreRightUnlessListingTrails` | `ChecksSpec => []ChecksAgree` |
| `NothingIsCountedTwice` | `RollupSpec => []CountedOnce` |
| `PipelineCalls`, `PipelineDetects`, `PipelineCompares`, `PipelineRollsUp` | each behaviour of the composition is one of each stage |

The client is correct for every rate, back-off and answer. `DetectionIsCurrent` needs
what a detection has seen so far (`SeenInv`) and that slots only grow (`SlotInv`), so
that a disturbed detection leaves a slot behind that the next one must read again.

`StateChecks_proofs` holds for every number of slots and reads. `BooksInv` is double
entry: what the accounts show at a slot equals the sum over the transactions landed up
to it, for the accounts now, for a snapshot between its two reads and for the stored
one. `StampsInv` and `CollectedInv` say what a completed discovery younger than the
snapshot has, provided its listing did not trail: everything up to the snapshot's slot.
So when the conditions hold under which the code evaluates its checks, the ledger rows
up to that slot are exactly the transactions the stored totals were made of, and each
check compares two sums over the same set. A sum over a set is
written as the size of a set of units (`Total`), so that the library's theorems about
cardinalities replace an induction over a fold.

`Rollup_proofs` holds for every transaction a runtime can execute, of any number of
instructions, programs and heights. `TraceInv` describes an execution: the chain of
callers of an instruction is the last one of each lower height. `TxInv` says that the
landed list is such an execution, and `CopiesInv` that a copy is what `parseTransaction`
makes of it. From these a fee belongs to one instruction of one program's copy
(`FeesOnce`), the SQL and the reference rollup agree on every copy (`RowsAgree`) and
the cluster counts a shared transaction once (`ClusterOnce`).

### What the proofs changed

- *A progress of 100 % with an incomplete history*. `PageAgrees` said that the
  catching-up banner names the programs whose progress is short of the end. When a
  first discovery was cut short and its queue is drained, the banner names a program
  at 100 % (of what is known so far). The instance had no such program; it has one now,
  and the property says which rows are named.
- *A listing older than the snapshot*. The first `StateChecks` let a discovery see
  everything that had landed when it paged. Nothing in `v_ready` says so: it compares
  `discovered_at` with `fetched_at`, not the frontier with the snapshot's slot, although
  the two answers may come from nodes that are not equally far. The listing now ends
  anywhere, and the property excepts the case in which the code is wrong.
- *A kind older than the list of builds*. `ContentAssumption` said that kind and match
  belong together. They are stored and joined at different times; the assumption now
  has both cases, and `Behindhand` has such a row.
- *CASE arms that overlap*. The translations of the badge, the sections, the result of
  a view and the class of an RPC failure listed arms that may both hold, which leaves
  the choice open. They now follow the order of the code.
- *Helpers*. `Without` (an index without a key) and `Total` (a sum) are written without
  recursion, because nothing can be proved here about a recursive one.

**Only model-checked**: the four liveness properties (`EventuallyRecorded`,
`EventuallyQueued`, `RebuildFinishes`, `RecoversFromOutage`). They rest on fairness,
whose ENABLED the prover does not treat.

## 5. Findings

1. **A resolved gap can keep its "unparsed" row** (`event_log_race`). `lk_ingest`
   without `p_replace` keeps an existing kind 253 row (`on conflict do nothing`) but
   marks the gap resolved. If one worker read the signature with `lk_pending` before
   another worker's fifth failed run turned it into a gap, the first one's ingest
   resolves the gap over the kind 253 row, which no `lk_open_gaps` offers again. It
   needs two workers at once (a local one next to the workflow's); within serialised
   runs it cannot happen: the run `indexer` checks it and `UnparsedRowsAreOpenGaps`
   proves it.
2. **`complete_through` during a discovery of several chunks** (`indexer_chunks`).
   Chunks are queued newest first, so between two of them the oldest queued block
   time is later than discovered signatures that are not queued yet.
3. **Gap retries starve** (`indexer_gaps`). Ten gaps are retried per run, oldest
   first, and a failed retry leaves the order unchanged.
4. **A signature finalised after midnight can be dropped** (`indexer_lag`), when no
   discovery succeeds for the whole retention period while compaction keeps running.
5. **An empty archival answer after a restart** (`discovery_empty`). The overlap check
   runs on non-empty pages only, and the floor is cleared either way, so on a fresh
   build an archival endpoint that does not know the program yet ends history at once
   and the frontier is set above signatures the primary had already forgotten.

Smaller disagreements between code and comments that have no run of their own are
hazards with a note in `PROJECT.json`: a repeated `lk_report_run` counts one run twice;
`verify:chain` is exact only while no failed discovery has queued rows above the
frontier; a shared transaction is not counted while v1's copy is unparsed, and its
fees are added by both programs; the banner may blame a schedule whose state is older
than 48 hours; an upgrade between header and image leaves a wrong row in `lk.deploys`;
a signature listing that is behind the snapshot lets a check report a mismatch until the
next discovery (`worker/state/snapshot.ts:1` says "at the same slot"), and one that
`verify:chain` reads may end below the frontier; a hash listed after its detection leaves
"Unrecognised build" beside a match, and the deployed build may be the one shown as
expected next, until the next deploy; an active queue that stands still while a rebuild
drains is "lagging", never "failed".

## 6. Plan

Done, in this order: `SignatureLedger`, `EventLog`, `Indexer`, `Discovery`;
`Lifecycle` with `Freshness`; `RpcClient`, `ChainReads`, `StateChecks`, `Parser` and
`Rollup` in `Pipeline`; `Dashboard` with `Views`. `SignatureLedger` is the abstract
specification of the event log; for the generations the abstract statement is
`PromotionKeepsDiscoveries`.

Next: two tabs that share one storage; the sealing of days together with the state
checks (what is subtracted of a snapshot when its events are gone); the order in which
wallet facts are cleared and recomputed.

**Not modelled**, and why:
- *Wallet facts* (`lk.wallets`): which creation or migration is kept depends on the
  order of instructions within a day, which the rows of `EventLog` do not carry.
- *Windows and distinct counts* of `lk_dashboard` (`lk.window_metrics`,
  `lk.window_actors`, `lk.actor_days`): sums of what `Rollup` counts over sets of days,
  and sets of wallets, payers and apps.
- *Locks*: each SQL function is one atomic step, as its advisory lock makes it; the
  order of row and advisory locks in `lk_promote_build`, which PostgreSQL would resolve
  by aborting one caller, is a hazard without a property.
- *Bytes*: instruction data, account layouts, webauthn, base58 and hashes are pure
  functions with a test corpus of their own.
- *Rendering*: charts, tables, KPI cards, formatting and wording.
- *The daily cron handler* and its GitHub request: its heartbeat row is an input of
  `Freshness`.
- *The two lanes of a run together*: they touch different programs and endpoints.
