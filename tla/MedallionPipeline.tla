-------------------------- MODULE MedallionPipeline --------------------------
(***************************************************************************)
(* The two Airflow DAGs that move data through the medallion layers:       *)
(* airflow/dags/bronze_to_silver.py (hourly) and silver_to_gold.py         *)
(* (daily), with the sensor that ties the second to the first and the      *)
(* callback of airflow/scripts/setup_alerting.py.                          *)
(*                                                                         *)
(* The scheduler (trigger rules, retries, run states) is external; it is   *)
(* modelled as far as the DAG files rely on it.  A task execution is one   *)
(* step, its outcome; a failed one may or may not have had its effect.     *)
(*                                                                         *)
(* Abstractions: a table is the number of the run that last wrote it; a    *)
(* logical date is a count of half hours; of each DAG the latest run is    *)
(* kept (max_active_runs=1), so only that one can be cleared.              *)
(***************************************************************************)
EXTENDS Naturals, FiniteSets

CONSTANTS
  SilverTasks,     \* the dbt tasks of group silver_dbt_runs
  GoldTasks,       \* the dbt tasks of group gold_parallel_runs
  Retries,         \* default_args["retries"] of each DAG (2 and 1 in the files)
  MayFail,         \* the tasks whose executions may fail
  Slots,           \* bound: the logical dates of the schedules, in half hours
  HandDates,       \* the logical dates of runs that somebody triggers
  MaxRuns,         \* bound: runs of each DAG
  MaxClears,       \* bound: uses of "Clear" on a failed task
  MinSilverRuns    \* Silver runs that surely end before the sensor times out

B2S == "bronze_to_silver"
S2G == "silver_to_gold"
Dags == {B2S, S2G}

AllSilverTasks == {"run_dbt_silver_orders", "run_dbt_silver_pageviews",
                   "run_dbt_silver_inventory"}
AllGoldTasks == {"run_gold_daily_revenue", "run_gold_products",
                 "run_gold_users", "run_gold_funnel"}

ASSUME ConstantsAssumption ==
  /\ SilverTasks \subseteq AllSilverTasks /\ SilverTasks # {}
  /\ GoldTasks \subseteq AllGoldTasks /\ GoldTasks # {}
  /\ Slots \subseteq Nat
  /\ HandDates \subseteq Nat
  /\ Retries \in [Dags -> Nat]
  /\ MaxRuns \in [Dags -> Nat]
  /\ MaxClears \in Nat
  /\ MinSilverRuns \in Nat

-----------------------------------------------------------------------------
(* The shape of the DAGs.                                                  *)

\* The tasks of each DAG along its chain a >> [group] >> b >> ...
TasksOf(d) ==
  IF d = B2S
  THEN {"check_bronze_freshness", "test_silver_models",
        "run_data_quality_checks", "update_pipeline_metadata"} \cup SilverTasks
  ELSE {"wait_for_silver_pipeline", "run_dbt_snapshots", "run_marts",
        "test_gold_and_marts", "sync_to_clickhouse",
        "refresh_grafana_alerts"} \cup GoldTasks

Tasks == TasksOf(B2S) \cup TasksOf(S2G)
DagOf(t) == IF t \in TasksOf(B2S) THEN B2S ELSE S2G

Stage(t) ==
  CASE t \in {"check_bronze_freshness", "wait_for_silver_pipeline"}  -> 1
    [] t \in SilverTasks \cup {"run_dbt_snapshots"}                  -> 2
    [] t \in GoldTasks \cup {"test_silver_models"}                   -> 3
    [] t \in {"run_data_quality_checks", "run_marts"}                -> 4
    [] t \in {"update_pipeline_metadata", "test_gold_and_marts"}     -> 5
    [] t = "sync_to_clickhouse"                                      -> 6
    [] t = "refresh_grafana_alerts"                                  -> 7

Upstream(t)   == {u \in TasksOf(DagOf(t)) : Stage(u) + 1 = Stage(t)}
Downstream(t) == {u \in TasksOf(DagOf(t)) : Stage(u) > Stage(t)}
Leaf(d) == IF d = B2S THEN "update_pipeline_metadata" ELSE "refresh_grafana_alerts"

AllDone_MartsToo ==          \* mutant: the marts are built whatever became of Gold
  {"run_marts", "update_pipeline_metadata", "sync_to_clickhouse",
   "refresh_grafana_alerts"}
\* The tasks with trigger_rule="all_done"; the others have all_success.
AllDone ==
  {"update_pipeline_metadata", "sync_to_clickhouse", "refresh_grafana_alerts"}

\* "0 * * * *" and "30 1 * * *".
ScheduledDates(d) ==
  {x \in Slots : IF d = B2S THEN x % 2 = 0 ELSE x % 48 = 3}

Sources == {"orders", "pageviews"}
TaskStates == {"none", "success", "failed", "skipped", "upstream_failed"}
Broken == {"failed", "upstream_failed"}

VARIABLES
  run,        \* per DAG, its latest run: "none", "running", "success", "failed"
  runNo,      \* per DAG: runs so far, the number of the latest one
  date,       \* per DAG: logical date of the latest run
  used,       \* per DAG: the logical dates of all its runs
  ti,         \* per task: state of its instance in the latest run
  tries,      \* per task: failed executions of that instance
  clears,     \* uses of "Clear"
  waited,     \* Silver runs ended while the sensor waits, up to MinSilverRuns
  fresh,      \* XCom bronze_freshness: the sources with new files, {} without it
  silver,     \* per Silver task: run that last wrote its tables
  gold,       \* per Gold task: run that last wrote its table
  mart,       \* run that last wrote the marts
  rows,       \* the table pipeline_runs: numbers of the runs it has a row of
  metaOk,     \* logical dates whose update_pipeline_metadata is "success"
  metaFailed, \* logical dates whose update_pipeline_metadata is "failed"
  alerted,    \* history: tasks of the latest runs on_failure_callback reported
  lostRow     \* history: PostgreSQL failed under the latest run's row

scheduler == <<run, runNo, date, used, clears>>
tables    == <<silver, gold, mart>>
meta      == <<rows, metaOk, metaFailed, lostRow>>
vars      == <<scheduler, ti, tries, waited, fresh, tables, meta, alerted>>

Init ==
  /\ run = [d \in Dags |-> "none"]
  /\ runNo = [d \in Dags |-> 0]
  /\ date = [d \in Dags |-> 0]
  /\ used = [d \in Dags |-> {}]
  /\ ti = [t \in Tasks |-> "none"]
  /\ tries = [t \in Tasks |-> 0]
  /\ clears = 0
  /\ waited = 0
  /\ fresh = {}
  /\ silver = [t \in SilverTasks |-> 0]
  /\ gold = [t \in GoldTasks |-> 0]
  /\ mart = 0
  /\ rows = {}
  /\ metaOk = {}
  /\ metaFailed = {}
  /\ alerted = {}
  /\ lostRow = FALSE

-----------------------------------------------------------------------------
(* Runs: the schedule, a trigger by hand, "Clear" (runbook, Procedure 2).  *)

\* catchup=False: a scheduled run is later than the scheduled runs before it;
\* a DAG has one run per logical date.
LegalDates(d) ==
  {x \in ScheduledDates(d) : \A y \in used[d] \cap ScheduledDates(d) : y < x}
    \cup (HandDates \ used[d])

StartRun(d, x) ==
  /\ run[d] # "running"
  /\ runNo[d] < MaxRuns[d]
  /\ x \in LegalDates(d)
  /\ run' = [run EXCEPT ![d] = "running"]
  /\ runNo' = [runNo EXCEPT ![d] = @ + 1]
  /\ date' = [date EXCEPT ![d] = x]
  /\ used' = [used EXCEPT ![d] = @ \cup {x}]
  /\ ti' = [t \in Tasks |-> IF t \in TasksOf(d) THEN "none" ELSE ti[t]]
  /\ tries' = [t \in Tasks |-> IF t \in TasksOf(d) THEN 0 ELSE tries[t]]
  /\ alerted' = alerted \ TasksOf(d)
  /\ \/ /\ d = B2S
        /\ fresh' = {} /\ lostRow' = FALSE
        /\ UNCHANGED waited
     \/ /\ d = S2G
        /\ waited' = 0
        /\ UNCHANGED <<fresh, lostRow>>
  /\ UNCHANGED <<clears, tables, rows, metaOk, metaFailed>>

\* Clear, with "Downstream", on a failed task of an ended run: its instance and
\* those behind it start afresh in the same run.
ClearTask(t) ==
  LET d == DagOf(t)
      cleared == {t} \cup Downstream(t)
      forgotten == IF d = B2S THEN {date[d]} ELSE {}
  IN  /\ run[d] \in {"success", "failed"}
      /\ ti[t] = "failed"
      /\ clears < MaxClears
      /\ clears' = clears + 1
      /\ run' = [run EXCEPT ![d] = "running"]
      /\ ti' = [u \in Tasks |-> IF u \in cleared THEN "none" ELSE ti[u]]
      /\ tries' = [u \in Tasks |-> IF u \in cleared THEN 0 ELSE tries[u]]
      /\ alerted' = alerted \ cleared
      /\ metaOk' = metaOk \ forgotten
      /\ metaFailed' = metaFailed \ forgotten
      /\ waited' = IF d = S2G THEN 0 ELSE waited
      /\ UNCHANGED <<runNo, date, used, fresh, tables, rows, lostRow>>

\* With every task in an end state, the leaf alone decides the run's state.
FinishRun(d) ==
  /\ run[d] = "running"
  /\ \A t \in TasksOf(d) : ti[t] # "none"
  /\ run' = [run EXCEPT ![d] = IF ti[Leaf(d)] \in Broken THEN "failed" ELSE "success"]
  /\ waited' = IF /\ d = B2S
                  /\ run[S2G] = "running"
                  /\ ti["wait_for_silver_pipeline"] = "none"
                  /\ waited < MinSilverRuns
               THEN waited + 1 ELSE waited
  /\ UNCHANGED <<runNo, date, used, clears, ti, tries, fresh, tables, meta,
                 alerted>>

-----------------------------------------------------------------------------
(* One task instance: trigger rule, outcome, retries.                      *)

Pending(t) == run[DagOf(t)] = "running" /\ ti[t] = "none"

Ready(t) ==
  /\ Pending(t)
  /\ \A u \in Upstream(t) :
       IF t \in AllDone THEN ti[u] # "none" ELSE ti[u] = "success"

\* all_success: the first broken or skipped task upstream settles the matter.
MarkUpstreamFailed(t) ==
  /\ Pending(t)
  /\ t \notin AllDone
  /\ \E u \in Upstream(t) : ti[u] \in Broken
  /\ ti' = [ti EXCEPT ![t] = "upstream_failed"]
  /\ UNCHANGED <<scheduler, tries, waited, fresh, tables, meta, alerted>>

MarkSkipped(t) ==
  /\ Pending(t)
  /\ t \notin AllDone
  /\ \A u \in Upstream(t) : ti[u] \notin Broken
  /\ \E u \in Upstream(t) : ti[u] = "skipped"
  /\ ti' = [ti EXCEPT ![t] = "skipped"]
  /\ UNCHANGED <<scheduler, tries, waited, fresh, tables, meta, alerted>>

NextTry_NotCounted(t) == tries[t]   \* mutant: a failed execution is not counted
NextTry(t) == tries[t] + 1

Reported_Nobody(t) == alerted   \* mutant: DEFAULT_ARGS without on_failure_callback

\* on_failure_callback: called when an instance fails for good, not on a retry.
Reported(t) == alerted \cup {t}

FailForGood(t) ==
  /\ ti' = [ti EXCEPT ![t] = "failed"]
  /\ alerted' = Reported(t)
  /\ UNCHANGED tries

RetriesLeft_OneMore(t) == tries[t] <= Retries[DagOf(t)]   \* mutant: off by one
RetriesLeft(t) == tries[t] < Retries[DagOf(t)]

RetryOrFail(t) ==
  \/ /\ RetriesLeft(t)
     /\ tries' = [tries EXCEPT ![t] = NextTry(t)]
     /\ UNCHANGED <<ti, alerted>>
  \/ /\ ~RetriesLeft(t)
     /\ FailForGood(t)

\* What the dbt tasks leave behind.
WriteTables(t) ==
  /\ silver' = [s \in SilverTasks |-> IF s = t THEN runNo[B2S] ELSE silver[s]]
  /\ gold' = [g \in GoldTasks |-> IF g = t THEN runNo[S2G] ELSE gold[g]]
  /\ mart' = IF t = "run_marts" THEN runNo[S2G] ELSE mart

RowIsJson_Dumped == TRUE   \* mutant: json.dumps(freshness)

\* rows_processed is JSONB and gets str() of the XCom, which is JSON for the
\* empty dict only; dq_status is then the default UNKNOWN.
RowIsJson == fresh = {}

\* The INSERT of _update_pipeline_metadata.
WithRow == IF RowIsJson THEN rows \cup {runNo[B2S]} ELSE rows

\* An execution fails: a dbt command with exit code 1, an exception, a worker
\* killed before or after the task had its effect.
TaskFails(t) ==
  /\ t \in MayFail
  /\ Ready(t)
  /\ RetryOrFail(t)
  /\ WriteTables(t) \/ UNCHANGED tables
  /\ fresh' \in IF t = "check_bronze_freshness" THEN SUBSET Sources ELSE {fresh}
  /\ rows' \in IF t = "update_pipeline_metadata" THEN {rows, WithRow} ELSE {rows}
  /\ metaFailed' = IF t = "update_pipeline_metadata" /\ ti'[t] = "failed"
                   THEN metaFailed \cup {date[B2S]} ELSE metaFailed
  /\ UNCHANGED <<scheduler, waited, metaOk, lostRow>>

-----------------------------------------------------------------------------
(* What a successful execution of each task does.                          *)

\* dbt run, dbt test, dbt snapshot; _run_data_quality_checks and
\* _sync_to_clickhouse, which only read and swallow what goes wrong.
RunsCommand(t) ==
  /\ t \notin {"check_bronze_freshness", "update_pipeline_metadata",
               "wait_for_silver_pipeline", "refresh_grafana_alerts"}
  /\ Ready(t)
  /\ ti' = [ti EXCEPT ![t] = "success"]
  /\ WriteTables(t)
  /\ UNCHANGED <<scheduler, tries, waited, fresh, meta, alerted>>

FreshnessVerdict_LogOnly(f) == "success"   \* mutant: nothing fresh is only logged

\* AirflowSkipException when neither source has a new file.
FreshnessVerdict(f) == IF f = {} THEN "skipped" ELSE "success"

\* _check_bronze_freshness
CheckBronzeFreshness ==
  /\ Ready("check_bronze_freshness")
  /\ \E f \in SUBSET Sources :
       /\ fresh' = f
       /\ ti' = [ti EXCEPT !["check_bronze_freshness"] = FreshnessVerdict(f)]
  /\ UNCHANGED <<scheduler, tries, waited, tables, meta, alerted>>

\* _update_pipeline_metadata: a row that PostgreSQL refuses, or cannot take, is
\* logged; the task succeeds.
UpdatePipelineMetadata ==
  /\ Ready("update_pipeline_metadata")
  /\ ti' = [ti EXCEPT !["update_pipeline_metadata"] = "success"]
  /\ \/ rows' = WithRow /\ UNCHANGED lostRow
     \/ lostRow' = TRUE /\ UNCHANGED rows
  /\ metaOk' = metaOk \cup {date[B2S]}
  /\ UNCHANGED <<scheduler, tries, waited, fresh, tables, metaFailed, alerted>>

SilverDone_AnyRun == metaOk # {}   \* mutant: any Silver run will do
\* ExternalTaskSensor without execution_delta: it looks for the Silver run that
\* has exactly its own logical date.
SilverDone == date[S2G] \in metaOk

WaitForSilverPipeline ==
  /\ Ready("wait_for_silver_pipeline")
  /\ \/ /\ SilverDone
        /\ ti' = [ti EXCEPT !["wait_for_silver_pipeline"] = "success"]
        /\ UNCHANGED <<tries, alerted>>
     \/ /\ date[S2G] \in metaFailed
        /\ RetryOrFail("wait_for_silver_pipeline")
  /\ UNCHANGED <<scheduler, waited, fresh, tables, meta>>

TimeoutSet_No == FALSE   \* mutant: the sensor without timeout=7200
TimeoutSet == waited >= MinSilverRuns

\* timeout=7200: AirflowSensorTimeout is not retried.
SensorTimesOut ==
  /\ Ready("wait_for_silver_pipeline")
  /\ ~SilverDone
  /\ TimeoutSet
  /\ FailForGood("wait_for_silver_pipeline")
  /\ UNCHANGED <<scheduler, waited, fresh, tables, meta>>

\* _refresh_grafana_and_alert: posts "Daily Pipeline Complete" whatever became of
\* the run; a failed post is logged.
RefreshAndAlert ==
  /\ Ready("refresh_grafana_alerts")
  /\ ti' = [ti EXCEPT !["refresh_grafana_alerts"] = "success"]
  /\ UNCHANGED <<scheduler, tries, waited, fresh, tables, meta, alerted>>

TaskStep(t) ==
  \/ MarkUpstreamFailed(t)
  \/ MarkSkipped(t)
  \/ TaskFails(t)
  \/ RunsCommand(t)
  \/ t = "check_bronze_freshness" /\ CheckBronzeFreshness
  \/ t = "update_pipeline_metadata" /\ UpdatePipelineMetadata
  \/ t = "wait_for_silver_pipeline" /\ (WaitForSilverPipeline \/ SensorTimesOut)
  \/ t = "refresh_grafana_alerts" /\ RefreshAndAlert

Next ==
  \/ \E d \in Dags : FinishRun(d) \/ \E x \in Slots \cup HandDates : StartRun(d, x)
  \/ \E t \in Tasks : TaskStep(t) \/ ClearTask(t)

Spec == Init /\ [][Next]_vars

\* The scheduler and its workers serve every task that can go on; nobody is
\* obliged to start a run or to clear a task.
Fairness ==
  /\ \A t \in Tasks : WF_vars(TaskStep(t))
  /\ \A d \in Dags : WF_vars(FinishRun(d))

FairSpec == Spec /\ Fairness
-----------------------------------------------------------------------------
(* Properties.                                                             *)

RunsTyped ==
  /\ run \in [Dags -> {"none", "running", "success", "failed"}]
  /\ runNo \in [Dags -> Nat]
  /\ date \in [Dags -> Nat]
  /\ used \in [Dags -> SUBSET Nat]
  /\ clears \in Nat
  /\ waited \in Nat

TasksTyped ==
  /\ ti \in [Tasks -> TaskStates]
  /\ tries \in [Tasks -> Nat]
  /\ \A t \in Tasks : tries[t] <= Retries[DagOf(t)]
  /\ alerted \in SUBSET Tasks

TablesTyped ==
  /\ silver \in [SilverTasks -> Nat]
  /\ gold \in [GoldTasks -> Nat]
  /\ mart \in Nat
  /\ rows \in SUBSET Nat
  /\ fresh \in SUBSET Sources

MarksTyped ==
  /\ metaOk \in SUBSET Nat
  /\ metaFailed \in SUBSET Nat
  /\ lostRow \in BOOLEAN

TypeOK == RunsTyped /\ TasksTyped /\ TablesTyped /\ MarksTyped

Ended(d) == run[d] \in {"success", "failed"}

\* The marts never hold figures of a later run than a Gold table they are shown
\* with, whatever fails, is retried or cleared.
MartsNeverNewer == \A g \in GoldTasks : mart <= gold[g]

\* Both DAGs implement GatedRefresh: the Silver tables behind the freshness check,
\* the Gold tables and then the marts behind the sensor.  Nothing is written in a
\* run that has not passed its gate, and no mart before every Gold table of the
\* same run, whatever fails, is retried or cleared.
SilverSide == INSTANCE GatedRefresh WITH
  Tables <- SilverTasks, Layer <- Stage, current <- runNo[B2S],
  open <- (ti["check_bronze_freshness"] = "success"), version <- silver

GoldVersion ==
  [t \in GoldTasks \cup {"run_marts"} |-> IF t \in GoldTasks THEN gold[t] ELSE mart]

GoldSide == INSTANCE GatedRefresh WITH
  Tables <- GoldTasks \cup {"run_marts"}, Layer <- Stage, current <- runNo[S2G],
  open <- (ti["wait_for_silver_pipeline"] = "success"), version <- GoldVersion

ImplementsGatedRefresh == SilverSide!RefreshSpec /\ GoldSide!RefreshSpec

\* A Gold run that wrote anything had a Silver run of exactly its logical date
\* to wait for.
GoldFollowsSilver ==
  \A t \in GoldTasks \cup {"run_marts"} :
    runNo[S2G] > 0 /\ GoldVersion[t] = runNo[S2G] => date[S2G] \in used[B2S]

\* README.md "Idempotency": AirflowSkipException prevents redundant runs; a run
\* that found nothing new in Bronze leaves every Silver table alone.
SkipWritesNothing ==
  \A t \in SilverTasks : runNo[B2S] > 0 /\ silver[t] = runNo[B2S] => fresh # {}

\* Although ended runs report success, a table that the run did not rebuild can
\* be traced: the Silver run was skipped, or a task at or before the table's
\* own failed and on_failure_callback reported it.
Explained(d, t) ==
  \E u \in TasksOf(d) :
    /\ Stage(u) <= Stage(t)
    /\ \/ ti[u] = "failed" /\ u \in alerted
       \/ u = "check_bronze_freshness" /\ ti[u] = "skipped"

NoSilentFailure ==
  /\ Ended(B2S) => \A t \in SilverTasks : silver[t] = runNo[B2S] \/ Explained(B2S, t)
  /\ Ended(S2G) => \A t \in GoldTasks : gold[t] = runNo[S2G] \/ Explained(S2G, t)
  /\ Ended(S2G) => mart = runNo[S2G] \/ Explained(S2G, "run_marts")

\* README.md:250, "Pipeline metadata written to PostgreSQL pipeline_runs", holds of the
\* wrong runs only: one that found nothing, or could not look, has its row when it has
\* ended, unless PostgreSQL or the metadata task itself failed; one that found data
\* has none, whatever it refreshed, unless it got one before somebody cleared a task.
OnlyEmptyRunsRecorded ==
  /\ Ended(B2S) /\ fresh = {} =>
       runNo[B2S] \in rows \/ lostRow \/ ti["update_pipeline_metadata"] = "failed"
  /\ fresh # {} /\ runNo[B2S] \in rows => clears > 0

\* Every run ends: retries are finite, the sensor gives up, no trigger rule waits
\* for ever.
RunsEnd == \A d \in Dags : (run[d] = "running") ~> Ended(d)

\* README.md, one order event's journey: the scheduled daily run refreshes the Gold
\* aggregations, when nothing fails and Silver runs hourly.
ScheduledGoldRefreshes ==
  Ended(S2G) /\ date[S2G] \in ScheduledDates(S2G)
    => \A g \in GoldTasks : gold[g] = runNo[S2G]
=============================================================================
