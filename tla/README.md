# Verification of the StreamFlow analytics platform

TLA+ models of the platform's moving parts, TLC runs that check them on small
instances, and TLAPS proofs of what matters most for every value of the constants.
Paths below are relative to the repository's root.

## 1. Inventory

Data flows in one direction; every arrow is a place where a component may be down,
late, or called twice.

    event producer --Avro--> Kafka --> Spark streaming jobs --> Bronze (Delta on MinIO)
    CDC simulator -> PostgreSQL -> Debezium -> Kafka            \-> ClickHouse realtime tables
    Bronze --> [Airflow bronze_to_silver: dbt] --> Silver --> [silver_to_gold: dbt] --> Gold, marts
    Gold / realtime --> REST API, Grafana, Trino;  Great Expectations and monitors look at all of it

| Component | State it keeps | Operations | What is hard | What makes it correct |
|---|---|---|---|---|
| **Event producer** `producer/event_producer.py`, `main.py` | `recent_orders` (deque of 1000), `_stats`, librdkafka's local queue, stop event | generate one of four kinds of event, `produce_event` with three attempts and a dead-letter topic, flush at the end | the local queue filling up, retries, delivery reports served only by `poll`, stop signals racing the loop, `status` changed before the event is sent | an event is placed at most once; status events of an order follow the flow; stopping terminates; it keeps producing after an outage |
| **CDC simulator** `producer/cdc_simulator.py` | rows of `orders` and `products` in PostgreSQL, cycle counter | insert orders (every third cycle), advance statuses, change stock, each with its own commit | SELECT then UPDATE without a lock, two simulators at once, row-lock deadlocks, errors swallowed per cycle | statuses only move forward; terminal statuses are final; no cycle hangs |
| **Registration scripts** `producer/create_topics.py`, `register_schemas.py`, `register_debezium.py` | topics, subjects, connectors (external) | create if missing, check-then-post | re-running, 409 conflicts, two connector names on one replication slot | re-running changes nothing |
| **orders_to_bronze** `spark_jobs/streaming/orders_to_bronze.py` | two checkpoints (offset log, commit log), Delta transaction log, schema cache of the workers | plan, run and commit micro-batches into Delta and, by `foreachBatch`, into ClickHouse | crash between any two writes, replay, partial JDBC writes, swallowed errors, registry outages, retention | each record at most once in Bronze per checkpoint, none lost unnoticed |
| **pageviews_to_bronze** | one checkpoint, Delta table | the same engine with one sink | as above | as above |
| **realtime_metrics** | three checkpoints, window state | windowed aggregates appended to ClickHouse | errors swallowed by `_write_metric`, replays | each window's last value is the right one |
| **inventory_tracker** | two checkpoints | latest stock and low-stock alerts | an alert write that fails ends the job | no alert is missed |
| **metrics_reporter** `spark_jobs/utils/metrics_reporter.py` | last progress, count of empty batches | poll `lastProgress` each minute, alert | the same progress is read and counted again | "N consecutive batches" means N batches |
| **Airflow DAGs** `airflow/dags/*.py` | task instances, XComs, `pipeline_runs` | retries, skips, trigger rules, cross-DAG sensor | `all_done` leaves hide failures; the sensor's execution date; skipped versus failed | a run reported as successful refreshed its tables |
| **data_quality_monitor, infra_health_check** | task instances, XComs, `data_quality_reports`, `infra_health_reports` | ten checks, each with an alert and an XCom, one report per DAG | a worker dying between alert, XCom and return; retries that find something else; a refused report | report and alerts agree; no check ends unheard |
| **historical_backfill** | parquet chunks in Bronze | validate, page through PostgreSQL, trigger Silver | LIMIT/OFFSET over a changing table, ties in the sort key, chunk names that collide | every row of the range is exported once |
| **dbt project** `dbt_project/` | Silver, Gold and mart tables | incremental delete+insert, full refresh, snapshots | reruns after a failure | a rerun gives the same tables |
| **Great Expectations runner** `data_quality/` | `gx_validation_results` | run checkpoints in sequence, persist, exit code | one checkpoint raising, nothing evaluated counting as success | a failure is never reported as a success |
| **REST API** `serving/api/main.py` | none | read-only queries | - | - |
| **Configuration** `infrastructure/`, `serving/`, compose file, Makefile | - | - | - | not modelled: no behaviour of its own |

Interactions that carry the risk: producer and simulator write concurrently with the
readers; the streaming jobs hand data to the batch side through MinIO only; the DAGs
talk to each other through task states and XComs; everything else is read-only.

## 2. Plan and state

Each module names its constants' assumptions, has one action per operation and invariants
that are conjunctions of named parts. No module uses a RECURSIVE operator.

| | Modules | Question | State |
|---|---|---|---|
| 1 | `OrderedIngest` (abstract), `OrdersToBronze` (detailed, refines it) | what survives crashes, replays and swallowed errors on the way from Kafka to Bronze and ClickHouse | 3.1 |
| 2 | `ProducerQueue` | does the producer stop when told, and go on after an outage | 3.2 |
| 3 | `CdcSimulator` | what racing simulators do to rows that Debezium captures | 3.3 |
| 4 | `GatedRefresh` (abstract), `MedallionPipeline` (both DAGs and the sensor between them, each refines it) | what a successful DAG run says about the tables | 3.4 |
| 5 | `HistoricalBackfill` | is every row of a range exported, and does it stay | 3.5 |
| 6 | `Monitors`, `CheckpointRunner` | does bad news of a check get lost between XCom, report and alert; is the gate's verdict the checkpoints' | 3.6 |
| 7 | `OrderEvents` | what a reader of `order-status` may conclude from the producer's events | 3.7 |

Each of them has a `...Proofs` module (the abstract ones are proved implemented in
`OrdersToBronzeProofs` and `MedallionPipelineProofs`). What else the repository holds is in section 6, with the reason why
there is no model of it.

## 3. The models

Every run has its `.cfg`; `MC<Module>.tla` holds what a `.cfg` cannot write. All runs fit
in a few minutes together. A run that is expected to find a violation checks one sentence
of the documentation against the code. The names of the runs are those of `PROJECT.json`.

### 3.1 `OrderedIngest`, `OrdersToBronze`: the streaming ingestion

**State and code.** `log`, `lo` are the Kafka topic and its retention; `registryUp`, `warm`
the schema registry and the `_schema_cache` of the Python workers
(`avro_deserializer.py:25-71`); `status`, `phase`, `attempt`, `runs` the driver of `run()`
(`orders_to_bronze.py:122-186`) and its two queries; `plan`, `commit` the offset log and
commit log of each query's checkpoint; `txn` the batch numbers in the Delta log, per query id;
`bronze`, `realtime` how often each offset is in either table. `undecoded` and `swallowed` are
history: they say why a record is missing. `PlanBatch`, `AppendToDelta` /
`WriteToClickhouse` / `ClickhouseWriteFails`, `CommitBatch` are the steps of a micro-batch,
so that `Crash` and `QueryFails` fall between any two writes; `Interrupt`, `StopBronze`,
`StopRealtime` are the `finally` block in its order; `DeleteCheckpoint` is the runbook's
reset, which takes both checkpoints because one path is inside the other.

**Abstractions.** One partition; a record is its kind (valid, invalid, not Avro); partial
JDBC writes are any subset of the batch's valid rows; an evaluation of the plan that finds
neither cache nor registry drops any prefix of the batch.

| Run | Shows | Bounds |
|---|---|---|
| `ingest` | write-ahead order, at most once per checkpoint, every loss from Bronze has one of three causes, a replayed batch has its old range, `OrderedIngest` is implemented; a valid order is in `orders_realtime`, or undecoded, expired or in a swallowed batch, and never there more often than submissions times attempts | Bronze: 3 records of 2 kinds; ClickHouse: 2 records, valid or invalid; batches of 2, 2 attempts, 2 submissions, 1 deletion of the checkpoint: a full and a partial batch, a replay in each epoch |
| `live` | one query dying ends the job; while the job is up each record gets behind both queries | both queries, 2 records, batches of 1, one submission, the checkpoint deleted before or after it |
| `outage` (violation) | README.md:116 "no records are lost or duplicated": an outage of the registry loses decodable records, offsets committed | |

In `ingest` one query has batches at a time (`MCOrdersIngest!StudySpec`): the two have
checkpoints and tables of their own and meet in the driver only, whose steps are all there. The
proofs are about `Spec`, where both go on at once.

Two copies, two epochs and two batches per epoch are the least numbers at which every
guard of the replay logic takes both values; more records repeat what the second one shows.

**Fairness.** The trigger threads and the `finally` block go on while the process lives.
Submitting the job, producing, and the registry's recovery are never assumed.

**Proved** (`OrdersToBronzeProofs`, any number of records, batch size, attempts, runs and
resets). `TypeOK` is inductive as it stands. The other safety properties of the Bronze side are
not: that a batch is appended once needs to know where each query stands. `BronzeInv` adds `PhaseInv` (an idle
query has committed its plan, a running one is one batch ahead, an executed one is in the
table), `RangeInv`, `FreshTxn` (a new epoch finds no batch number of its own) and `BronzeOnce`
(in front of `Covered` the current epoch has added nothing). From it follow `WriteAheadOrder`,
`BronzeAtMostOncePerEpoch`, `BronzeAccounted`, `ReplaySameRange`, and, step by step, the
refinement of `OrderedIngest` under `position <- Covered`, which implies `CoveredMonotone`.

Two of the README's promises are false as they stand (`outage`, section 5) and are proved with
the conditions they need: `RegistryUpLosesNothing` (while the registry answers, every Avro record
that Kafka still has and the job is past is in Bronze) and `ExactlyOnceHolds` (exactly once,
as long as nobody deletes the checkpoint either), from the lemma `NothingUndecoded`.

The ClickHouse side has an invariant of its own, `RealtimeInv`: an order in front of the commit
of its query is missing for a named reason, and the copies of an offset are bounded by the
attempts that were begun, one batch after the other. `RealtimeAccounted` and
`RealtimeCopiesBounded` follow.

Of liveness all but the fairness is proved. For `NoHalfJob`, `HalfJobIsStopping`: a query is down
only in a job that is stopping or down, and `stopping` leads nowhere but on. For
`RunningJobCatchesUp`, `BatchesAdvance`: no failure of the registry or of ClickHouse blocks a
query (a planned batch can always be evaluated, if only by dropping records), an idle query with a record
before it has a batch to plan, and a step of a query moves its phase, its commit or its bounded attempts forward.

### 3.2 `ProducerQueue`: handing events to Kafka

**State and code.** `pc`, `round`, `failures`, `fate` are the main thread in `run()` and
`produce_event` (`event_producer.py:317-360`); `stop` the stop event set by the signal
handlers; `cached` the subjects whose schema id the serializers have; `queued` and `reports`
split the occupancy of librdkafka's local queue into messages the broker has not answered for
and delivery reports nobody has served. The point of the model is that a report holds its
place until `poll` or `flush` serves it, and that `produce_event` polls only after a
`produce()` that succeeded.

| Run | Shows | Bounds |
|---|---|---|
| `producer` | a full queue stays full until the flush; a stop signal ends the process in every situation; events get through again unless the queue is full of reports | 2 topics, room for 3, burst mode (2 calls of `run()`, the first timed) |

`StreamsUnlessWedged` has its exception for a reason: `poll` is called only behind a
`produce()` that succeeded (`event_producer.py:344`). In an outage that is long enough the queue
fills, each message times out into a report, and every later event is dropped although Kafka is
back. With librdkafka's defaults (100,000 messages, five minutes until a message times out) that
needs more than about 333 events per second, a high `--eps`. The size of the queue only moves the
moment, so three places are enough; that a full queue stays full is proved for every size.

**Fairness.** The main thread runs: its sleeps and flushes are bounded. Messages are answered
or time out. Kafka and the registry may stay down for ever.

**Proved** (`ProducerQueueProofs`): `TypeOK` (occupancy never exceeds the limit) is
inductive, and with it `FullUntilFlush` holds of every step. `StopIsBounded` is what
`StopTerminates` rests on: `Remaining` counts the steps of the main thread until the process has
ended, at most twice the queue's limit plus three plus the attempts; behind a stop signal each
of them lowers it, with the services in any condition, and nobody else raises it. Until then some
action of `Main` can be taken (`NeverBlocked`, stated with the actions' conditions because ENABLED
is out of reach). For `StreamsUnlessWedged`, `SendsOrWedges`: with the registry back an attempt succeeds
unless the queue is full, and in a full queue messages only turn into reports.

### 3.3 `CdcSimulator`: racing writers on PostgreSQL

**State and code.** A thread's `pc` walks through one turn of `run()`
(`cdc_simulator.py:132-158`): insert every third cycle, SELECT and UPDATE of order statuses, the two stock UPDATEs, each part with its
commit. `committed` is what others see of a row, `latest` the version of the transaction that
holds its `lock`; `todo` the rows a statement has picked, with the status it read or the
quantity it moves; `waiting` the row it queues for. An UPDATE that waited computes from the
row's newest version but does not ask its sub-select again: that is READ COMMITTED, and the
source of the races. `Fail`, `DeadlockVictim`, `Kill`, `Restart` end a cycle anywhere; the
commit of a killed process happened or did not. The `continue` behind an empty `STATUS_FLOW`
lookup can never run, because every status the SELECT leaves has a successor, and is left out.

| Run | Shows | Bounds |
|---|---|---|
| `cdc_flow` | with one simulator, what Debezium sees of an order follows the flow, through failures and restarts | 3 orders, limits of 2 |
| `cdc_stock` | stock never negative, and never more than one sighting below the level plus one restock per thread; no cycle hangs, deadlocks included; a stop ends the thread | 2 threads, 2 products (the smallest deadlock), quantities and limits scaled down so that racing sales reach 0 and racing restocks the ceiling |

With several simulators `StatusesFollowFlow` fails, a delivered order can come back; no document
promises it for several producers, so it is listed as a hazard, not a finding.

**Fairness.** Threads run; PostgreSQL serves the waiters of a row sooner or later (strong
fairness of `Update`) and aborts a member of every lasting deadlock.

**Proved** (`CdcSimulatorProofs`): `StockNeverNegative` for any number of threads and any
limits; `StatusesFollowFlow` for one simulator, from `FreshReads` (nobody changes an order between
its SELECT and its UPDATE) and `OneStepAhead`; `StockBounded` for any number of threads. `TypeOK` covers
rows, locks and pending updates. `StockBounded` needs more than the others: `RoomLeft` says that a product's quantity leaves
room for one restock by every thread whose sub-select has picked it, which turns the race
into a count.

That no thread hangs rests on `LockInv`: a lock is held by a thread in the part of its cycle that
works on that table, and a thread waits in the middle of an UPDATE, for a row its statement picked. From it follow
`LocksAreGivenBack` (no lock outlives its cycle, whatever fails, is killed or restarted; no
deadlock reaches across the two tables), `NobodyWaitsForNobody` (if every thread in a cycle waits
for a held row, they are a deadlock, which PostgreSQL breaks), `AloneNobodyWaits` and
`CyclesGoForward` (no part of a cycle is done twice, no row picked again); `StoppedThreadsLeave`: a thread
that was told to stop begins no other cycle. `CyclesEnd` and `StopEndsThread` add the fairness.

### 3.4 `MedallionPipeline`: the two DAGs

**State and code.** Per DAG the latest run (`run`, `runNo`, `date`), `max_active_runs=1`; per
task the state of its instance (`ti`) and its failed executions (`tries`). A table is the
number of the run that last wrote it. `fresh` is the XCom of `_check_bronze_freshness`,
`rows` the table `pipeline_runs`, `metaOk` / `metaFailed` what the sensor can find,
`alerted` the calls of `on_failure_callback` (`setup_alerting.py:39-43`). `TaskFails` is an
execution that fails, before or after its effect; `RunsCommand`, `CheckBronzeFreshness`,
`UpdatePipelineMetadata`, `WaitForSilverPipeline`, `SensorTimesOut`, `RefreshAndAlert` are the
executions that succeed; `MarkUpstreamFailed`, `MarkSkipped`, `Ready`, `FinishRun`, `ClearTask`
are Airflow's scheduler, external, as far as the DAG files rely on it.

**Abstractions.** A logical date is a count of half hours (the hourly DAG has even ones, 01:30
is 3). An execution is one step with its outcome. The freshness check sees any set of
sources: the listing's page limit and its clock are inside that choice. `dq_results`
reaches a column of `pipeline_runs` only, and is never other than UNKNOWN in a row that can be
inserted (PostgreSQL refuses it whenever the XCom is not empty), so it is left out. An SLA miss of
either DAG calls `on_sla_miss_callback`, which posts a warning with `send_pipeline_alert`
(`setup_alerting.py:46-53`); it depends on how long a task took and changes nothing, so it is
left out, too, and `alerted` holds failures only. `MinSilverRuns` keeps the time-out of the
sensor honest where that matters: it fires after that many Silver runs have ended.

| Run | Shows | Bounds |
|---|---|---|
| `gold` | either DAG implements `GatedRefresh`: tables are written behind the gate of their run only, and no mart before every Gold table; a Gold run that wrote anything had a Silver run of its own date to wait for; every table left stale has a reported failure or a skip; a Silver run that found nothing writes nothing | 1 Silver and 2 Gold runs interleaved, 2 Gold tasks, failures in four tasks, 1 retry, 1 Clear |
| `silver` | every run of both DAGs ends; `pipeline_runs` has a row of a Silver run that found nothing, or could not look, and none of a run that found data | 2 Silver runs and a Gold run, failures of the check and the metadata task, 1 retry, 1 Clear |
| `schedule` (violation) | README.md:251-252: the scheduled Gold run waits for a logical date the hourly DAG never has, times out and refreshes nothing | retries as coded, nothing fails, a Silver run ends while the sensor waits |

`GatedRefresh` stands for both DAGs, with `open` as the success of the freshness check or of the
sensor. It knows no tasks, so it says what trigger rules, retries and Clears together must not break.

Silver runs triggered by hand for the Gold run's date are in `gold` and `silver` because only
they let the sensor succeed. Two Gold tasks are the least that can disagree; a second run is the
least with something older to leave behind. More retries only repeat a step (proved for any number).

**Fairness.** The scheduler serves every task that can go on and every run that can end;
nobody has to start a run or to clear a task.

**Proved** (`MedallionPipelineProofs`, for any sets of dbt tasks, retries, runs and Clears):
`TypeOK` with its bound on retries, `SkipWritesNothing`, `NoSilentFailure`, `OnlyEmptyRunsRecorded`,
`GoldFollowsSilver`, and `RefinesGatedRefresh`, the refinement of `GatedRefresh` by both DAGs,
which implies `MartsNeverNewer`. None but the first is inductive. `IInv` adds `TableInv` (a successful task's
table has the run's number; no table is newer than its run), `CheckInv` (tables of a run are
written behind a check that found something), `CauseInv` (each failed instance was reported, each
upstream_failed one has a failed one at an earlier stage, each skipped one a skipped check),
`EndInv` and `RecordInv` (a row is written after the check has looked, and found nothing). `NoSilentFailure` then follows by following a table's task to its
cause. `GoldNeedsSilver` has an invariant of its own (`SensorInv`, `UsedInv`: a table of
the run is written behind its sensor, and what the sensor found belongs to a date that was used).

`GoldNeverRefreshed` is the finding of `schedule` for every value of the constants: unless
somebody triggers a run by hand (`HandDates = {}`), no Gold table and no mart is ever written,
since the two schedules share no logical date.

For `RunsEnd`, `RunsNeverStuck`: a running run has a task that can go on, found as a pending task
of the lowest stage, or a sensor that pokes; and `RunsAreFinite`: each execution uses up one of
the tries its task has left, and nothing gives one back before the run has ended. What remains for TLC is fairness.

### 3.5 `HistoricalBackfill`: paging over a table in use

**State and code.** `db` holds the committed rows, with `CommitRow` for every other session;
`pc`, `table`, `chunk`, `page` are `_export_postgres_to_bronze` (`historical_backfill.py:64-133`)
between its SELECT and its `put_object`; `bronze` maps a chunk's key to its rows; `runs` is the
`dag_run.conf` of each run so far, a cleared one counted again. `before`, `exported` and `saved`
are history. Each page is any set of rows that a SELECT with that ORDER BY, LIMIT and OFFSET
can return from what is committed by then: rows of equal `created_at` come in any order.

**Abstractions.** Time is in half days, enough to tell midnight from the rest of a day, which is
what `BETWEEN` two dates does. Rows are not deleted and keep their `created_at`: nothing in the
repository does otherwise. `order_items` has no `created_at`, so its SELECT fails; that is `ExportFails`.
A conf that names a table twice is left out (`BackfillAssumption`), although the code does not
refuse it: its second pass replaces the chunks of the first within one run, and neither
the run nor the theorems say anything about that.

| Run | Shows | Bounds |
|---|---|---|
| `backfill` | that of the last day nothing behind midnight is exported, which other rows a successful export may miss (ties) or write twice (ties, rows committed late); a row stays in Bronze until a later run of the same table and start year; the paging loop ends although rows arrive | 5 rows in one table, 1 in another, pages of 2, ranges of 1 day over a turn of the year, 2 runs: a full, a partial and an empty page, a tie across a border |

**Fairness.** A task that Airflow has started goes on. That an export ends also needs that `Rows` is
finite: a table that grows as fast as it is read would keep the loop going.

**Proved** (`HistoricalBackfillProofs`, any tables, rows, chunk size and runs): `TypeOK`,
`KeptUnlessRedone`, `RepeatedOnlyByRace`, `ExportAccounted` (its second half from `WrittenInv`: what is written matched the WHERE clause), and from the last two
`ExportExact`: a row asked for before the last midnight, committed before the export, without a tie or a late row in front, is exported exactly once. The core is `PageOfRank`: in a SELECT
without ties a row is on page *k* exactly when the number of rows before it is, so that a row
which is not yet owed to an earlier page is still to come (`MissInv`), and one that was
written stays behind the offset unless a row was committed in front of it (`RepInv`).
`ExportIsFinite` bounds the loop by the number of rows and shows that PostgreSQL always has a
page to answer with (`SomePage`, which orders the rows by induction on their number).

### 3.6 `Monitors` and `CheckpointRunner`: who hears of bad news

**State and code.** `data_quality_monitor.py` and `infra_health_check.py` have one shape:
independent checks that alert, push their verdict as an XCom and return, and a report task behind
`all_done` that pulls, announces and writes. `state`, `tries` are the task instances; `found`,
`xcom` and `report` the verdict on its way; `alerted` the calls of `send_pipeline_alert` and
`called` those of `on_failure_callback`. Look, push and return are separate steps, and
`WorkerDies` falls between any two of them, after which the retry looks again and may find
another verdict. `Verdicts` lists what each check's code can come to, with the alert it sends or
leaves out. `CheckpointRunner` is the loop of `run_checkpoints.py:143-180` and
`airflow_integration.py:47-77`: a checkpoint raises or comes to suites with numbers of failures.

**Abstractions.** What was measured is the verdict; the wording of an alert and whether the mail
arrives are left out. `psycopg2.connect` and the like have no time-out: a call that hangs is
outside the model, and would hold the run.

| Run | Shows | Bounds |
|---|---|---|
| `watch` | a bad row of the report was announced, and an announced check is written as fine only after a retry; every check of a run that has ended is in the report, or a failure was called out, or PostgreSQL refused the report; runs end; the gate's verdict is exactly that of its checkpoints, and each that was asked for is run and shown | every check of both DAGs, two or three at a time, since they meet in the report only; the gate with 0 or 1 failures in up to two suites of three checkpoints |

The gate shares nothing with the monitors; `MCMonitors` lets it run while they have not begun.

**Fairness.** The scheduler and its workers go on with a run; when the next one starts is not assumed.

**Proved.** `MonitorsProofs`, for any sets of checks: `TypeOK`, `ReportAgreesWithAlerts`,
`NoSilentCheck`, from one invariant that ties what a task has done to its state (`TasksInv`,
`CompileInv`, `ChecksInv`) and the report to the last look of each check (`StoryInv`); `RunsNeverStuck` (a run that has not ended has a task
that can go on) and `RunsAreFinite` (a task has at most ten steps left, each step takes one, and only
the next run gives any back), the two halves of `MonitorRunsEnd` that are not fairness.
`CheckpointRunnerProofs`, for any numbers of failures: `GateTruthful`. `Total` is a recursive
function, but a checkpoint has at most two suites, so its values are unfolded and no induction is needed.

### 3.7 `OrderEvents`: what the producer says of its orders

**State and code.** `recent` is `recent_orders` with its statuses; `hand` the event between
`generate_*` and the end of `produce_event`; `line` the events of one partition on their way;
`told` and `missing` what a consumer of `order-status` has seen last and whether the next event was
lost. The status in memory changes before the event is produced (`event_producer.py:270`) and is
never taken back. Events are dropped, dead-lettered, lost in delivery, or left behind by a
restart; `NextOut` is `enable.idempotence`, without which five batches in flight may overtake each other.

| Run | Shows | Bounds |
|---|---|---|
| `orders` | a reader sees an order only move forward; where the previous status of an event is not the last one seen, an event between them was lost; every event drawn fits its Avro schema, the stock's floor included | 3 orders, 2 remembered, 2 events on their way, quantities 0, 1, 3 and 500 |

Three orders are the least that push one out of the memory while another one moves on.

**Proved** (`OrderEventsProofs`, any number of orders, of places and of events in flight): `TypeOK`,
`GapsOnlyByLoss`, `StatusesMoveForward`. `ChainInv` says that the events of an order form a chain
from what the reader knows through the line and the hand to the status in memory, each
joined to the one before (`LineInv`, `HandInv`, `RecentInv`), with a mark where one was lost.

## 4. What is proved, and what only TLC checks

Every invariant and every action property of a passing run is proved for all values of the
constants, and so are the refinements of `OrderedIngest` and `GatedRefresh`. All proofs assume the
named `ASSUME` of their module and what their statement says, nothing else; TLC evaluates each
`ASSUME` in a run.

Only model-checked are the liveness properties, since fairness and ENABLED are outside TLAPS, and
the runs that are expected to fail. What a liveness property says of the code apart from
fairness is proved beside it: that steps of the process only lead forward or are bounded in
number and, where the table says so, that there is always one to take. That it
is taken, and the leads-to itself, is TLC's part.

| Liveness, checked by TLC | Forward or bounded | Always one to take |
|---|---|---|
| `NoHalfJob` | `HalfJobIsStopping` | - |
| `RunningJobCatchesUp` | `BatchesAdvance` (`GetsForward`) | `BatchesAdvance` (`NothingBlocks`: planning and evaluating a batch) |
| `StopTerminates` | `StopIsBounded` (`StopBound`, `StopCounts`) | `StopIsBounded` (`NeverBlocked`) |
| `StreamsUnlessWedged` | `SendsOrWedges` | `StopIsBounded` (`NeverBlocked`) |
| `CyclesEnd`, `StopEndsThread` | `CyclesGoForward`, `StoppedThreadsLeave` | `NobodyWaitsForNobody`: no thread waits for good, but for a deadlock |
| `RunsEnd` | `RunsAreFinite` of `MedallionPipelineProofs` | `RunsNeverStuck`, unless the sensor still pokes |
| `MonitorRunsEnd` | `RunsAreFinite` of `MonitorsProofs` | `RunsNeverStuck` |
| `ExportEnds` | `ExportIsFinite` | `ExportIsFinite` (there is a page for every SELECT) |

Induction over data is used once, in the form that first-order provers can follow: `LeastNumber`
says that a set of numbers that is not empty has a least member, and `SomePage` takes the least
size for which it would fail. `CheckpointRunner!Total`, the one recursive definition, is unfolded for the lengths it meets.

Runs say `CHECK_DEADLOCK FALSE` where the program may stop: a process exits, a DAG is not
triggered again, or a bound of the model is reached.

## 5. Disagreements without a run of their own

Seen while modelling, true of the code by reading, not checked by a run:

- `orders_to_bronze.py:89`: a failed write to ClickHouse is logged and its batch committed, and a
  crash before the commit writes it again. README.md:46-47 ("Exactly-once via checkpointing",
  "Writes to Bronze + ClickHouse realtime") does not hold of `orders_realtime`;
  `RealtimeAccounted` and `RealtimeCopiesBounded` are what does.
- `orders_to_bronze.py:109` drops what cannot be decoded; README.md:112-113 says "no filtering".
- `orders_to_bronze.py:138-144`: `--reset-checkpoint` does nothing for an `s3a://` path.
- `event_producer.py:344`: the "continuous background stream" of README.md:200 does not survive
  every outage, see 3.2.
- `event_producer.py:402`: the key of an order is `order_id`; README.md:243 says the topic is
  partitioned by `user_id`.
- `bronze_to_silver.py:141`: `rows_processed` is JSONB and gets `str(freshness)`, which is not
  JSON once it holds anything; no run with data ever gets its row (README.md:250 says it does).
  `RowIsJson` models it, and `OnlyEmptyRunsRecorded` states what is left of the promise.
- `bronze_to_silver.py:202`: the only leaf is `all_done`, so a run whose dbt tasks failed is a
  success, which `tests/e2e/test_pipeline_e2e.py:109-112` takes for filled tables, and the
  sensor of `silver_to_gold.py:118` takes for a run that did not fail.
- `silver_to_gold.py:87-90` announces six refreshed Gold tables after any run.
- `historical_backfill.py:120`: chunks are parquet files under a Delta table's directory that its
  log does not name, so a Delta reader never sees them (line 138 says "into Bronze Delta Lake").
- `historical_backfill.py:103`: `BETWEEN` two dates leaves out the last day after midnight, and the
  dates come from a user who names days.
- `run_checkpoints.py:114-115` only logs what PostgreSQL refuses, and `airflow_integration.py` never
  persists; README.md:125 says every result is.
- `run_checkpoints.py:55`: a checkpoint that evaluates nothing is a success, with a rate of 0 %.
- `infra_health_check.py:128` asks for `postgres-source-connector`; the repository registers
  `streamflow-postgres-connector`, so the check of Debezium never comes to UP.
- `data_quality_monitor.py:88`: Spark commits no group offsets, `committed()` answers -1001, and the
  lag grows into a permanent false FAIL.
- `data_quality_monitor.py:325` and `infra_health_check.py:219` ff. give tasks an `sla`, but these two DAGs
  have no `sla_miss_callback`, which the other two have (`bronze_to_silver.py:158`, `silver_to_gold.py:110`).
- A quality report whose worker dies behind the commit is written twice (`copies` in `Monitors`).
- `gold_user_segments.sql:32-55` ranks the best as 1; `docs/data_dictionary.md:148-150` says 5.
- With two simulators `StatusesFollowFlow` of 3.3 fails.

## 6. Not modelled

- **`pageviews_to_bronze`**: `event_timestamp` is ambiguous once the payload's columns stand next to
  the renamed Kafka timestamp (lines 98-108), so the job does not start. Its engine is that of 3.1.
- **`realtime_metrics`**: the funnel combines a stream-stream join with complete mode, which Spark
  rejects, and the tables of `infrastructure/clickhouse` lack columns the job appends, so that every
  write of a window fails and is swallowed (lines 54-55).
- **`inventory_tracker`**: the Delta sink refuses update mode (lines 195-204), which ends the job before the
  alert query starts; the read-modify-write of lines 56-110 is called from nowhere.
- **`metrics_reporter`**: whether `lastProgress` changes while a query is idle is up to the version of
  Spark (3.5 leaves it alone, so the alert of line 126 hardly ever fires); only log lines depend on it.
- **dbt project**: one statement per model; what it computes is for a test of the SQL. The incremental
  predicate of the Silver models compares a column with itself once compiled. That a model
  succeeds, fails, or fails behind its effect is in 3.4.
- **Great Expectations suites**: declarations; a suite is its number of failures in 3.6.
- **Registration scripts, connection setup**: one-shot scripts whose effect is a service's answer.
- **Airflow plugins, legacy batch DAG, `orders_stream`**: used by nothing else, or superseded.
- **REST API, schemas, configuration, infrastructure**: no state, or no behaviour of their own. The Avro
  schemas appear in `OrderEvents` as far as the events' fields depend on them.
