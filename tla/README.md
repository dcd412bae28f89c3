# Verification of Query Doctor

TLA+ models, TLC runs and TLAPS proofs about the parts of Query Doctor
(`query_doctor/`) that keep state shared between processes or threads.  Most of
the repository is sequential text processing (profile analysis, report wording,
redaction, SQL rewriting).  What is hard to test is the rest: worker Pods that
share a job table with leases, a collector that writes the same tables, an
operator command, the pools that process the cases of a batch, a collector that
vouches for the completeness of its history, the cutting of a discovery window,
and the web server's background jobs.  That is what is modelled.

Files: one module per component, `MC*.tla` and `*.cfg` for TLC, `*_proofs.tla`
for TLAPS, `PROJECT.json` for the inventory, the map from definitions to source
lines, the hazards and the findings.

## 1. Inventory

| Component | State it keeps | Operations | Interacts with | Hard behaviour | What makes it correct |
|---|---|---|---|---|---|
| Recent history store: `recent/sqlite_history_store.py`, `recent/postgres_history_store.py`, `recent/profile_budget.py` | tables `recent_query_summary`, `recent_profile_job`, `recent_analysis_cache`, `recent_profile_artifact` | summary upsert, enqueue, claim, renew, complete, fail, requeue, age out, two materialisation upserts, prune | called by the collector, workers, remediation, the web's history pages | every guard that protects one worker from another is in a `WHERE` clause; two back ends must agree | fencing by owner and expiry; job and summary tell the same story; settled jobs stay settled |
| Profile workers: `recent/profile_worker.py`, `profile_worker_processor.py` | claimed batch, an old clock reading, the current outcome | age out, claim, renew, process, store, store, complete or fail | the store; engines through the processor | Pods die, leases expire during collection, store calls fail, late workers carry on | completed means materialised; retry budget; every job settles |
| Collector: `cli/batch_recent.py`, `recent/history_store.py` | its listing | discover, upsert summaries, plan and enqueue jobs, prune | the store | upsert may fail while enqueue succeeds; the same query is listed again and again | no second job for a settled query; no summary waits for ever |
| Remediation: `cli/recent_profile_remediation.py` | none | requeue failed jobs | the store, late workers | a fresh budget while an old worker still runs | a failed job restarts only as a fresh one |
| Retention: `prune_history` in both stores | none | delete rows older than per-table cut-offs | all of the above | rows are written again by later runs while older ones are deleted | retention counts from the last run that listed a query |
| Collector summary and operator audit: `recent/collector_summary.py`, `recent/operator_*.py`, `impala/query_discovery.py` | the summary file with its observation time | compare with the previous observation, write, audit | daemons whose query logs overwrite themselves, the store | a query evicted between two listings, failures under a summary, a torn file | what a ready or confirmed summary claims is true; it becomes ready again |
| Discovery: `recent/discovery.py`, `cm/profile_collection.py` | pending shards, summaries found | list, cut, halve, merge | Cloudera Manager | scan limits anywhere, a shared cap, a fallback listing | nothing lost without a word, the cap kept, an end |
| Case processing: `recent/case_processing.py`, `case_reuse.py`, `backfill.py`, `metadata_refresh.py` | case results, two pools, circuit breaker | reuse, collect, analyse, refresh, enrich | engines, subprocesses, file system | futures in any order, retries, a breaker, exceptions | every selected case gets one outcome; failures bounded; no thread left |
| Web job registry: `web/jobs.py` and the job workers (`job_workers.py`, `batch_jobs.py`, `batch_case_actions.py`, `specific_query_actions.py`) | in-memory jobs, latest summaries, one thread per job | create, reuse, cancel, stage, complete, fail, prune | subprocesses, case directories, browser requests | cancel racing completion, check-then-create, eviction of cancelled jobs | a settled job never changes; one scan per form; a job ends |
| Report trust markers: `web/trusted_markers.py`, `web/trusted_artifacts.py`, `cli/report.py` | report file and marker file per case | write report, write marker, check, read | report jobs, readers | files are rewritten while they are checked and read | only a report the validator accepted is shown |
| Web subprocess runner: `web/subprocesses.py` | one process group | poll, terminate, kill, time out | job workers | cancel, exit and deadline at once | a cancelled subprocess is stopped |
| Recent scan view cache: `web/ui/recent_scan_view_cache.py` | eight cached views | get or build | web pages | a file changes while its view is built | a cached view belongs to its key |
| Analyzer, optimizer, report text, CM, Impala, Trino, Spark, Prometheus, safety, configuration, CLI, demo, scripts | none across calls | parse, format, redact, fetch | the components above | none of concurrency or recovery | properties of text, outside these models |

## 2. Plan

Most important first; 1 to 11 are done.

1. `ProfileJobStore`: the tables and every transaction of the job protocol.
2. `ProfileWorkers` (extends it): workers, collector, remediation, clock,
   faults; `MCProfileWorkers` and its runs.
3. `ProfileLifecycle`: what the protocol promises per query, without tables and
   clock; refinement checked by TLC and proved.
4. `ProfileWorkers_proofs`.
5. `WebJobs` and `WebCaseReports` (extends it): the web server's job registry,
   report jobs with their subprocesses, the report files and trust markers.
6. `WebJobs_proofs` (lemmas on the registry) and `WebCaseReports_proofs`.
7. `WebScans` (extends `WebJobs`) and `WebScans_proofs`: create-or-join of scans
   and the latest summaries.
8. `CaseProcessing` and `CaseProcessing_proofs`: a batch's pools and breaker.
9. `HistoryCollector` and `HistoryCollector_proofs`: the collector's claims about
   its own completeness, with the retention of summary rows.
10. `RecentDiscovery` and `RecentDiscovery_proofs`: shards and halves.

11. `ProfileSummary_proofs` (the summary table against the job table, what stays
    settled, the order of a batch), and in the modules above the proofs of
    `ListingsBounded`, `EndedBounded`, `ContinuityIsSound` and, for reports made
    one after another, of the report files: every safety and action property a
    run checks is now a theorem.

To do:

12. Pruning of job, cache and artifact rows composed with `ProfileJobStore`; the
    error class of a summary; the backlog counts.
13. The view cache; optimizer markers; specific-query jobs.

## 3. Modules

### `ProfileJobStore`: the tables and their transactions

A *query* stands for the primary key (engine, source kind, source key, query
id).  `job[q]` is the row of `recent_profile_job` (`absent` if there is none),
`summary[q]` the `profile_status` of `recent_query_summary`, `cached` and
`artifact` the rows of the two materialisation tables by query and fingerprint,
`identity[q]` the verified statement fingerprint of the summary.  Each store
method is one SQLite `with connection` block or one PostgreSQL transaction, so
each is one operator: `ClaimProfileJobs` for the claim's row updates *and* the
summary update that follows them, and so on.  `Progress` is the shared
`profile_status` update with its two `AND NOT` conditions.  `Backend` chooses
between the two orders a claim's records come back in; every other statement is
the same in both adapters.  Workers filter by one engine, source kind and source
key; the model has the queries of one such source.

### `ProfileWorkers`: everybody who uses the tables

A worker is a program counter over its store calls (`age_out`, `claim`, then
per job `renew`, `process`, `cache`, `artifact`, `complete` or `fail`), the
clock reading `at` that it carries from one statement to a later one (the start
of the run for age-out and claim, the renewal's own, `completed_at` for the
completion), the rest
of its batch `todo` with the attempts the claim returned, and the processor's
outcome `out`.  Between any two store calls any other process may run, the clock
may advance, the worker may crash (`Crash`) or the call may fail (`StoreError`,
`AgeOutError`, `ClaimError`).  The collector discovers, persists and enqueues in
three steps; either store call may fail and, as in the code, a failed persist
does not stop the enqueue.  Collection and analysis are one step that chooses an
outcome: what the processor returns is decided by an engine outside the program.

`FailureCode` stands for families of error codes; the processor's own codes are
not told apart.

### `ProfileLifecycle`: the promise

Per query: a phase, a holder, whether the holder's lease has run out, whether a
complete result is stored.  A job is granted only when free (pending or lapsed),
completed only when its result is ready, and never leaves `completed` or
`aged_out`.  `ProfileWorkers!Lifecycle` is the refinement mapping.

### `WebJobs`: the registry

`jobs` is `WebJobStore._jobs`, a function from the ids that are known to
records; a pruned id leaves its domain.  `Pruned` is the set of registries that
`_prune_locked` may leave: the age limit first, then the oldest over the number
limit, any choice among equals (the code compares random ids).  Every method
prunes first, `Settle` (`complete_html` and `fail`) also last, and `RequestCancel`
changes a record without pruning afterwards, all as in the code.

### `WebCaseReports`: reports made, trusted and shown

* A *request thread* starts a job in two steps, `AskForReport` (the running
  check) and `StartReportJob` (creation and start of the thread).
* A *job thread* follows `run_batch_case_report_job`, and for a case-actions job
  `run_llm_actions_job`: start the subprocess, poll (stopped? exited? out of
  time?), stop it, judge the outcome, hash the report, empty the marker, write
  it, settle.  Between any two of these anything else may happen; a subprocess
  that ends between the last poll and SIGKILL has still timed out (`TimeOut`).
* A *subprocess* is rejected by the validator (exit 4), fails (exit 1), or
  writes its report in place: from the truncation (`ChildTruncates`) to the last
  byte (`ChildFinishes`) the file is `torn`, and it stays so if the writer is
  killed.  When two subprocesses write at once (`mixed`), what the last leaves
  is its own text or a torn one.
* A *reader* reads the marker, then the report to compare its hash, then the
  report again to show it.
* `Restart` empties the registry and kills the threads; subprocesses go on.

`Text` are reports the validator accepts; hashing is as good as the text.
`report[f].by`, `report[f].mixed` and `reader[r].overtaken` are history: the
first and the last are read by properties only.

### `WebScans`: scans started from the web

`WebScans` extends `WebJobs` with scans of finished queries (`batch`), of running
ones (`running`) and of Trino.  A *request thread* looks for a running scan with
its form (`AskForScan`), tries the metadata source, which takes its time, and
then joins or creates one under the registry's lock (`JoinScan`, `StartScan`).  A
*job thread* follows `run_batch_job`: start the batch subprocess, poll, judge,
find the summary, publish it as the latest of its page, settle.  The *subprocess*
writes its summary in place as the last thing it does, and may fail or be killed
in the middle of it.  `PageOf` reads the page from the registry, as the code
does.  Every subprocess has a directory of its own, so one that outlives the
server is followed no further.  Time stands still in this model: which ended jobs
are forgotten is decided by their number.  `stopped` is history.

### `CaseProcessing`: a batch

The *main thread* reuses earlier results, submits collections, takes futures in
batches (`Wait`) and in any order within a batch (`Process`), feeds the circuit
breaker, marks what is left in the iterator when it trips, and then goes through
the analysis, the runtime-metrics pass, the backfill and the metadata pass.  A
case's place is `at[c]`: in a pool's queue, in the hands of a thread, or between
two of them; the pools have as many threads as the code gives them, and a pool of
one thread is a plain loop.  A *pool thread* collects with retries, analyses,
refreshes and analyses again, or enriches; any task may raise, and then the main
thread unwinds: leaving a `with ThreadPoolExecutor` block waits for everything
submitted.  `collection`, `analysis`, `category` and `metadata` are the fields of
`CaseResult` the passes decide by.  Which cases are "best" is any choice of the
right number.

### `HistoryCollector`: what a collector says of its history

*Daemons* complete queries and keep the last `LogSize` of them; a restart empties
the log.  A *run* lists each daemon's paths one after another, keeps the queries
of its window, upserts their rows, plans jobs, prunes, and writes the summary
file: status, continuity and observation time.  Each of these may fail as the
code catches it, an exception that nothing else catches may stop it anywhere up
to the prune (`Unexpected`), and the run may die between any two, or while it
writes the file.  A query has an end time, readable or not, and a window time:
its end, or its start where the end cannot be read or comes before the start.
A query that was running in the first answer of its daemon and has completed in
the second stays a running one for the run (`run.running`).  Continuity compares the latest of the full logs' oldest completion times
with the previous summary's observation time.  `OperatorReady` is the audit.
`stored` is the rows' `recorded_at`; `listed` and `run.before` are history.
`ProfileWorkers` keeps the job side of the same run; the two share no variable,
because nothing a job does changes what is listed or recorded.

### `RecentDiscovery`: a window in shards

One sequential loop against an arbitrary Cloudera Manager.  The whole window is
listed; if the manager says that it met its scan limit, shards are listed from
newest to oldest, and one that meets the limit again is replaced by its halves
and what it brought is dropped.  What a page walk may bring (`Answers`) is any
set the limit allows, with or without a warning; a listing with the duration
filter that brings nothing is tried without it (`Collections`).  A window given
as "the last minutes" (`moving`) has no dates: each page of its first listing
reads the clock again, so that with several pages (`Paged`) a query may be listed
twice or skipped; shards have dates of their own.  Time counts in
units of the shortest shard.  The message that the window was cut is always given
and is not counted as a warning here.  The window's end is read again between the
first listing and the shards; the model has one window.

## 4. Runs

All runs of `MCProfileWorkers` use two workers.  Deadlock is checked in the runs
of `MCCaseProcessing` (a batch that is stuck would be one; once it is over it
stays so by `Over`) and `MCHistoryCollector` (a collector can always start
another run).  The other runs have `CHECK_DEADLOCK FALSE`: a discovery ends, and
where the clock, the faults and the job ids are bounded the model stops, when
they are used up, where the program would wait for the next run.

| Run | Instance | Shows |
|---|---|---|
| `profile_reclaim` | 1 query, 2 fingerprints, lease 1, age-out after 1, clock to 3, 1 fault, budget 2, fair workers | all safety and action properties, the refinement of `ProfileLifecycle`, and that every planned job settles |
| `profile_batches` | 2 queries, batches of 2, no faults, clock to 2 | the summary agrees with the job at *every* state (`Lagging` is empty without faults), SQLite batches are freshest first, fencing across a batch |
| `profile_postgres_order` | 2 queries, PostgreSQL | *violated*: batches are worked oldest first |
| `profile_aged_out_waiting` | 1 query, 1 fault | *violated*: a summary waits for an aged-out profile |
| `web_reports_serial` | 1 request thread, 1 reader, 3 jobs, 2 variants, 2 texts; no stop, no restart | under this restriction a marker trusts only whole reports, an `ok` job's report opens, and a reader no writer overtakes sees a whole report |
| `web_jobs_end` | 1 request thread, 2 jobs (report and case actions), 1 stop, 1 restart, ended jobs kept for no time and one at most, fair job threads | ends are final, ended jobs are bounded, no subprocess is left, every job ends |
| `web_two_requests` | 2 request threads, no stop | *violated*: a marker trusts a torn report |
| `web_scans` | 2 request threads, 2 jobs of 3 kinds with one form, 1 stop, 1 restart, one ended job kept | one scan per form, the latest summary is whole, ended scans publish no more, stopped ones never |
| `cases_batch` | 5 cases, 1 reusable, 2 collection and 2 analysis threads, 2 attempts, 1 exception, backfill from 5 to 4, fair threads | the breaker's budget, an answer for every case, skipped cases never ran, categories agree with outcomes, nothing left running, an end |
| `collector_continuity` | 2 daemons with a log of 1, window 2, retention 1, 3 queries, clock to 4, 1 fault, fair collector | confirmed continuity is sound, ready means recorded, retention is kept, the audit becomes ready again |
| `collector_ready_hole` | 1 daemon with a log of 1, no fault | *violated*: a hole under a ready summary |
| `discovery_shards` | 3 queries at any time of a window of 7, shards of 4, limit 2 | nothing lost silently, cap kept, listings bounded |

**Bounds.**  `MaxTime` stops the clock, `MaxFaults` counts crashes and storage
errors, and `RoomForExpiry` lets a fault strand a lease only while the clock can
still reach its expiry (otherwise the liveness run would report the model's own
end of time).  The protocol's races need two workers, one job, one expiry and a
reclaim, which two lease lengths of time give: the shortest counterexamples of
the mutants use at most one fault and three ticks.  A batch needs two jobs so
that one of them waits while the other is worked on.  A retry budget of 2 has
both a retry and an exhaustion.  `attempts` is bounded by the clock: every claim
after the budget needs another expiry.

**Fairness.**  `FairSpec` assumes that time passes, that worker runs are started
again and again (a CronJob or a loop in the deployment starts
`query-doctor-recent-profile-worker`) and that a started run goes on (it is
sequential code whose calls have time-outs).  Nothing is assumed of the
collector, the operator or the faults, and no outcome of the processor is
favoured.  `EveryJobSettles` has one query, because claims are by priority and
the code promises nothing to a low-priority job under a steady stream of others.

**Bounds and fairness of the report runs.**  `MaxCancels`, `MaxRestarts` and
`MaxTime` bound the stops, the restarts and the registry's clock.  A job id is
used once, so `Job` bounds the number of jobs: two jobs give one report over
another, a third one a mixture of variants or a third over the second.  One case
is enough, since nothing in the code relates two cases but the limit on ended
jobs, which counts jobs of any case.  `web_reports_serial` is a restriction of
the environment, not of the code: one request at a time, nobody stops a job, the
server does not restart.  `web_two_requests` shows that the property is lost
without it.  A stop after a job thread's last look has the same effect: the case
is free for the next job, whose subprocess may be writing the file when the first
thread takes the marker's hash of it (raise `MaxCancels` to 1 in
`MCWebCaseReportsSerial.cfg` to see it).  `FairSpec` is weak fairness of each job thread: its loop polls every 50 ms and its subprocess has a
deadline, after which it is killed.  Nothing is assumed of the subprocess.  That
a stop outlasts its grace period and ends in SIGKILL is inside `StopChild`.

**Bounds and fairness of the other runs.**  `web_scans` needs two requests and two
jobs for every race of a check with a creation and of one publication with
another; a limit of one ended job lets a stopped job be forgotten while its
thread runs.  In `cases_batch` five cases are two in flight, two that trip the
breaker and one that is skipped, with one of them reused; the thresholds are
scaled down from the code's (`Consecutive` 2, `MinCompleted` 3) so that both ways
to trip happen, and `MaxRaises` bounds the tasks that raise.  `Fairness` is weak
fairness of the main thread and of each case's task: threads are scheduled, and
every process they wait for is ended by its timeout.  Any answer stays possible
for ever; that the batch ends follows from the bound on retries.  In
`collector_continuity` a log of one makes every second query evict, and two
daemons make one's overlap hide the other's gap; the fault budget `MaxFaults`
also bounds daemon restarts.  `FairSpec` lets the clock run and the scheduler
start runs that go on.  All end times are readable in this run (`Readable`), none
comes before its start (`LateStarts`) and a daemon has one path; the model allows
others, and so do the proofs but for `ConfirmedIsSound` (section 6).  In
`discovery_shards` a window of 7 and shards of 4 give a short last shard, halves
of odd length and two levels of halving; three queries against a limit of two
fill the cap, and pages of one make the first listing a walk of several.  Queries are interchangeable (symmetry).

## 5. What the checks found

* **PostgreSQL batch order** (`profile_postgres_order`): the adapter re-sorts
  what `UPDATE ... RETURNING` gives back by ascending end time, while the
  documentation promises freshest first.
* **A summary that waits for ever** (`profile_aged_out_waiting`): after a failed
  upsert the job exists without a summary row; once it has aged out, the next
  collector run creates the row and marks it `pending`.
* **Two requests, one report file** (`web_two_requests`): the running check and
  the creation of the job are two registry calls.
* **A hole under a ready summary** (`collector_ready_hole`): the observation time
  is read when the summary is made, the daemons were listed before; a query that
  completes in between and is evicted before the next listing was never seen, and
  the next summary is ready.  `ContinuityIsSound` says what does hold: nothing
  completed *after* the observation is missed.
* **Two answers of one daemon** (met while proving `ContinuityIsSound`; no run of
  its own).  Each daemon is asked twice, `/queries?json` and `/queries?json=true`,
  and the oldest completion time kept for it is the later of its full answers'.
  A second full answer in which no end time can be read leaves the time of the
  first (`query_discovery.py:127-130`): with a log of one, a query that completes
  and leaves the log between the two requests is lost under a `confirmed`
  summary, where `docs/recent-history-store.md:345-355` has an unreadable boundary
  make it unproven.  To see it, give `MCHistoryCollectorRuns.cfg` one host,
  `Paths = 2` and `Readable = {TRUE, FALSE}`.  `ConfirmedIsSound` therefore
  assumes one path or readable end times.

* **A query running in one answer, completed in the next** (met while modelling
  in-flight entries; no run of its own).  With two paths the first entry of a
  query counts (`query_discovery.py:137-138`), so a query that completes between
  the two requests may be left out of the run as a running one
  (`batch_recent.py:1092-1095`).  The next run lists it, unless it has left the
  log by then, and continuity does not tell: the log was seen to hold it.  The
  model has this with `Paths = 2`; "listed" in `ContinuityIsSound` means seen in
  an answer, in whatever state.

Behaviour that the models have and no run is about, because nothing in the code
or its documentation promises otherwise, or the property above excludes it:

* `completed_at` is read before the two materialisation writes, so a lease that
  expires during them still promotes the identity
  (`docs/recent-history-store.md:140-141` says otherwise).
* Two workers under one lease-owner label cannot be told apart; claims by
  priority may starve old jobs until they age out.
* A reader whose check and display a report job overtakes shows half a report; a
  stop after a job thread's last look comes too late; a stop that the registry
  has forgotten is no stop; a subprocess outlives a server that dies; a thread
  that cannot be started leaves its job running.
* A scan is published before it is rendered, so a failed scan may be the latest;
  of two scans that overlap the one that ends last is the latest; a stopped scan
  of running queries that has been pruned publishes to the other page.
* A reused case counts as a collected one for the breaker; one collection thread,
  or direct Impala access, has no breaker; the runtime-metrics pass collects
  again after a trip, and a failure of its re-analysis turns an analysed case
  into a failed one; the backfill counts successes before the metadata pass.
* A collector run that failed, or did not reach a daemon, still moves the
  observation time; an outage longer than the window loses queries under a
  confirmed continuity; a failing prune does not change the status.
* A first listing in several pages whose window moves with the clock may skip a
  query without a warning (`PagesMoved` in `NothingLostSilently`); whether it
  does depends on the manager's order, which is not modelled.
* A last shard that fills the cap sets no flag, and a query on the edge of two
  shards takes room twice (`filled` in `NothingLostSilently`).

## 6. Proofs

`ProfileWorkers_proofs` proves, for any number of workers, queries, fingerprints
and faults, any lease length, batch size, budget and clock bound, and under the
named assumptions `StoreAssumption` and `WorkerAssumption` only:

| Theorem | States | Argument |
|---|---|---|
| `TypeCorrect` | `[]TypeOK` | inductive together with `BatchShape`: `Head(todo[w])` is typed only because a worker past its claim has a current job, and the outcome's fingerprint is one only because `cache`, `artifact` and `complete` are reached from a completed outcome |
| `CompletedMaterialised` | `[]CompletedIsMaterialised` | inductive with `StoredSoFar`: what a worker has stored for its current job is still there, whoever holds the lease |
| `RetryBudgetKept` | `[]RetryBudget`, if `OwnersDistinct` | inductive with `AttemptsAgree`: while a worker holds the lease its remembered attempts are the row's; a claim by another owner ends the first owner's hold |
| `LeaseFencing` | `OnlyHolderChangesLease` | from the type invariant, action by action |
| `ImplementsLifecycle` | `LifecycleSpec` | every transaction maps to a step of `ProfileLifecycle`; completion needs `StoredSoFar` |

`OwnersDistinct` (no two workers share a lease-owner label) is an hypothesis of
the budget only.  The documentation speaks of distinct Pod names, but the Helm
chart passes one configured label (`recentProfileWorker.leaseOwner`) to every Pod
of a CronJob, which keeps owners apart only as far as its concurrency policy
forbids two Pods at once; the other theorems hold without it.
`BatchShape`, `StoredSoFar` and `AttemptsAgree` were checked by TLC before they
were used.

`ProfileSummary_proofs` goes on from there.  Every step is first shown to be one
of the nine store transactions (`Transaction`), with what its caller guarantees;
then there is one case per transaction:

| Theorem | States | Argument |
|---|---|---|
| `SummaryFollowsJob` | `[]SummaryTracksJob` | a transaction that writes one table writes the other's row or finds it lagging; without faults nothing lags, because the collector plans jobs only for the summaries it has persisted (`PersistedFirst`) |
| `SettledForGood` | `SettledStays` | only the requeue selects a finished job, and only a failed one; an analyzed summary has a completed job (from `SummaryTracksJob`), which no statement selects |
| `BatchOrderOnSqlite` | `[]FreshestFirst`, if `Backend = "sqlite"` | a claim returns its rows in `SelectedBefore`, and a batch only loses its head |

On PostgreSQL the order is the other branch of `ReturnedBefore`, and the property
is the one `profile_postgres_order` refutes.

`WebCaseReports_proofs` proves, for any number of request threads, jobs, cases,
readers, stops and restarts, under `WebJobsAssumption` and `ReportsAssumption`:

| Theorem | States | Argument |
|---|---|---|
| `ReportsTypeCorrect` | `[]TypeOK` | pruning returns a sub-registry (`PrunedKeeps`), so each registry method keeps the registry typed (`LookKeeps`, `CreateKeeps`, `CancelKeeps`, `SettleKeeps`); a subprocess that writes has a job thread with a case |
| `NoChildLeftBehind` | `[]NoStrayChild` | a thread leaves the poll loop only when its subprocess has exited or been killed |
| `JobsEndOnce` | `JobsOnlyEnd` | pruning takes only ended jobs, settling looks at the status under the lock; needs `KnownJobs`: a fresh id is in no registry |

| `EndedStayFew` | `EndedBounded` | what a pruning leaves has at most `MaxTerminal` ended jobs (`PrunedBounded`: exactly the excess is dropped), and every method but a stop prunes last or adds a running job |
| `EndedOneOver` | at most `MaxTerminal + 1` ended jobs ever, if `MaxTerminal > 0` | a stop prunes before it ends a job (`CancelBounded`) |
| `SerialReportsWhole` | `[]TrustedIsWhole`, if `Serial` | `MarkersWhole`: what a marker holds is a text a subprocess wrote to its end |
| `SerialOkOpens` | `[]OkIsTrusted`, if `Serial` | inductive with the invariants below |
| `SerialReadersSeeWhole` | `[]QuietReaderSeesWhole`, if `Serial` | `ReadersWhole`: a report found equal to a whole marker is whole, and stays so until a writer overtakes the reader |

The inductive invariant is `IInv == TypeOK /\ KnownJobs /\ NoStrayChild`.

The last three are about reports made one after another: `Serial` says that there
is one request thread and that nobody stops a job or restarts the server, as in
`web_reports_serial`, here for any number of jobs, cases, kinds, texts and
readers and any retention.  Each part is needed, and TLC refutes each of the three
properties when one is dropped: two requests both find the case free
(`web_two_requests`); a stop ends the job in the registry while its thread and
its subprocess still run, so the next job of the case may start; a subprocess
outlives a restart.  The proof has two layers.  `ControlInv` is about who is at
work: a thread at work has a running job for its case (`Tracked`), so a case has
one thread (`OnePerCase`), and the free case a request has found is still free
(`StillFree`).  `FilesInv` is about what is written meanwhile: a writer has its
file to itself and has torn it (`WriterAlone`, `NeverMixed`), what it leaves when
it ended well is its own text (`WrittenWhole`), and what its thread hashes and
marks is that text (`MarksItsOwn`).  TLC checked both before they were used.

`WebScans_proofs`, for any number of request threads, jobs, forms, stops and
restarts, under `WebJobsAssumption` and `ScansAssumption`:

| Theorem | States | Argument |
|---|---|---|
| `ScansTypeCorrect` | `[]TypeOK` | the registry lemmas of `WebJobs_proofs` |
| `OneScanAtATime` | `[]OneScanPerForm` | creation looks again under the lock (`MayCreate`), and no other step makes a job run |
| `LatestAlwaysWhole` | `[]LatestIsWhole` | only a subprocess that ended well is published (`Judged`), and one that ended well left no torn summary (`WellEnded`) |
| `EndedAreDone` | `EndedPublishesNoMore` | as long as a job's thread goes on, nothing but a stop ends the job (`KnownJobs`) |
| `StopsWin` | `StoppedNotPublished` | a stop in time is in the record, and its thread has not got past its last look (`StopsReach`) |

`CaseProcessing_proofs`, for any number of cases, threads, attempts, thresholds
and exceptions, under `CaseAssumption`:

| Theorem | States | Argument |
|---|---|---|
| `CasesTypeCorrect` | `[]TypeOK` | a collection uses at most `MaxAttempts` processes |
| `BreakerBoundsFailures` | `[]FailureBudget` | `BudgetInv`: the failures in a row and the futures still outstanding together stay under the bound once the breaker has tripped |
| `NoCaseLost` | `[]EveryCaseAnswered` | `LoopInv` and `CaseInv`: what the iterator has passed is outstanding or has a result |
| `SkippedWereNeverRun` | `[]SkippedNeverRun` | `CaseInv`: cases the iterator has not passed are idle |
| `PoolsDrain` | `[]NothingLeftRunning` | each pool is left only when it is empty |
| `CategoryTellsOutcome` | `[]FailureMatchesOutcome` | `CategoryInv`: a case reaches each pool unmarked |

`HistoryCollector_proofs`, for any number of daemons, paths, queries and faults,
readable or not, under `CollectorAssumption`; the inductive invariant is `TypeOK
/\ RowIsListing /\ Recorded /\ KeptForRetention`:

| Theorem | States | Argument |
|---|---|---|
| `CollectorTypeCorrect` | `[]TypeOK` | the chosen oldest and latest times exist (well-foundedness of the naturals) |
| `RetentionKept` | `[]KeptForRetention` | a row carries the time of the last listing (`RowIsListing`) |
| `ReadyVouches` | `ReadyMeansRecorded` | a run without warning or failure has recorded what it selected (`Recorded`) |
| `ConfirmedIsSound` | `ContinuityIsSound`, if `Paths = 1` or all end times are readable | `LogsInv`, below |

`LogsInv` orders the end times (`TimesOrdered`) and says of a run under way: if a
query has left a daemon's log unlisted while a newer one of that daemon was
listed, the log is noted as full, with no oldest time or one no earlier than the
query's (`Witnessed`).  A listing establishes it: a log that has lost a query is
full and holds newer ones only (`LostFromFullLog`, from the last position at
which a log's worth of queries still lies above).  A completion adds a query
newer than anything listed; a restart excuses the queries before it.  Section 5
shows why the hypothesis is needed.

`RecentDiscovery_proofs`, for any window, shard lengths, limit, page size and finite
set of queries, under `DiscoveryAssumption`:

| Theorem | States | Argument |
|---|---|---|
| `DiscoveryTypeCorrect` | `[]TypeOK` | shards and halves are ranges of the window (`ShardsTile`, `HalvesMeet`) |
| `CapIsKept` | `[]CapKept` | every listing asks for the remaining room only |
| `HalvingStops` | `[]ListingsBounded` | halving replaces a shard by two that are shorter and not empty (`HalvesProper`); twice the newest end still pending pays for the listings to come (`Spent`) |
| `SilenceIsComplete` | `[]NothingLostSilently` | `Chain`: pending shards follow one another down to the window's start; `NewerFound`: what is newer than the first of them is found, unless the whole window was listed in pages that moved |

Only model-checked: `EveryJobSettles`, `EveryJobEnds`, `BatchEnds` and
`BackToReady`; liveness under fairness is outside the proof system's reach.
Every invariant and action property of a passing run is a theorem, under the
hypotheses named above.  No definition in these modules is recursive.

## 7. Not modelled

Most of the repository is sequential text processing: the analyzer, the
optimizer's rewrites, report wording and validation, the pages' rendering, the
readiness scripts.  It keeps no state across calls, and its correctness is about
text; a model of it would repeat it line by line and show nothing.  The models
cover the code that coordinates, which is a small share of the lines.

Of the components with state: pruning of job, cache and artifact rows, backlog
counts, the summary error class and failure facts, the report pass of a batch
(`run_top_reports`, a sequential loop), specific-query and optimizer jobs of the
web server, and the view cache.  In the web models: the `.partial` file of a
rejected report (nothing trusts or shows it as a report), a facts file that
changes under a report, a thread that cannot be started, and the contents of
result pages.  In the batch: files of a case directory, which one task at a time
writes.  In discovery: ranking and selection of candidates.  Time is an integer
clock shared by all processes: clock skew between Pods is not modelled.  A
transaction is atomic: SQLite's and PostgreSQL's isolation is assumed (`BEGIN
IMMEDIATE`, `FOR UPDATE SKIP LOCKED`), including that a claim on PostgreSQL never
skips a row another transaction holds for longer than that transaction lasts.
