------------------------------ MODULE Monitors ------------------------------
(***************************************************************************)
(* The two monitoring DAGs, airflow/dags/data_quality_monitor.py and       *)
(* infra_health_check.py.  Both have the same shape: independent checks,   *)
(* each of which pushes its verdict as an XCom, and one report task that   *)
(* runs when all of them are done, pulls the verdicts and writes them to   *)
(* PostgreSQL.                                                             *)
(*                                                                         *)
(* They share no task, no XCom and no table, so a behaviour follows one of *)
(* them, and max_active_runs=1 leaves one run at a time: what is recorded  *)
(* here is about the latest run.  A worker may die at any point of a task. *)
(***************************************************************************)
EXTENDS Naturals, FiniteSets

QualityChecks == {"check_kafka_lag", "check_bronze_row_counts",
                  "check_silver_freshness", "check_null_rates",
                  "check_revenue_anomaly"}
HealthChecks  == {"check_kafka_health", "check_minio_health",
                  "check_clickhouse_health", "check_spark_health",
                  "check_debezium_health"}

CONSTANT Watched   \* the sets of checks looked at: the DAG's, or fewer of them

ASSUME WatchedAssumption ==
  Watched \subseteq ((SUBSET QualityChecks) \cup (SUBSET HealthChecks)) \ {{}}

VARIABLES
  checks,   \* the checks of the DAG that is followed
  state,    \* per task: "queued", "running", "looked", "pushed", "retry",
            \* "success", "failed"
  tries,    \* per task: try_number
  found,    \* per check: the status its result holds
  xcom,     \* per check: the status pushed, "none" without one
  report,   \* per check: the status in the report, "none" for no row or NULL
  copies,   \* how often the report was written
  refused,  \* PostgreSQL did not take the report
  alerted,  \* checks whose bad news went to send_pipeline_alert
  called    \* tasks whose on_failure_callback was called

tasks  == <<state, tries>>
told   == <<alerted, called>>
written == <<report, copies, refused>>
vars   == <<checks, tasks, found, xcom, written, told>>

Compile  == "compile"                \* compile_quality_report, compile_health_report
Tasks    == checks \cup {Compile}
Quality  == checks \subseteq QualityChecks
Statuses == {"PASS", "UP", "WARN", "FAIL", "DOWN"}
Bad      == {"FAIL", "DOWN"}

Idle(t)  == state[t] \in {"queued", "retry"}
Active(t) == state[t] \in {"running", "looked", "pushed"}
Over(t)  == state[t] \in {"success", "failed"}
RunEnded == Over(Compile)

NothingFound == [c \in checks |-> "none"]

Init ==
  /\ checks \in Watched
  /\ state = [t \in Tasks |-> "queued"]
  /\ tries = [t \in Tasks |-> 0]
  /\ found = NothingFound
  /\ xcom = NothingFound
  /\ report = NothingFound
  /\ copies = 0
  /\ refused = FALSE
  /\ alerted = {}
  /\ called = {}

-----------------------------------------------------------------------------
(* What a check can make of what it sees: the status of its result, and    *)
(* whether it sends an alert of its own before it pushes the result.       *)

Verdict(status, alerts) == [status |-> status, alerts |-> alerts]

\* Over 500 000 messages, over 100 000, fewer; WARN also when Kafka fails.
CheckKafkaLag ==
  {Verdict("FAIL", TRUE), Verdict("WARN", FALSE), Verdict("PASS", FALSE)}

\* No new file in an hour; some; MinIO fails.
CheckBronzeRowCounts ==
  {Verdict("FAIL", TRUE), Verdict("PASS", FALSE), Verdict("WARN", FALSE)}

\* Older than the threshold of the hour; fresh; no row, or ClickHouse fails.
CheckSilverFreshness ==
  {Verdict("FAIL", TRUE), Verdict("PASS", FALSE), Verdict("WARN", FALSE)}

CheckNullRates_Unannounced ==   \* mutant: the alert is forgotten
  {Verdict("FAIL", FALSE), Verdict("PASS", FALSE), Verdict("WARN", FALSE)}

\* Over 5 %; not; ClickHouse fails, or has no row of the last hour (NaN).
CheckNullRates ==
  {Verdict("FAIL", TRUE), Verdict("PASS", FALSE), Verdict("WARN", FALSE)}

\* An outlier is WARN with an alert; with less than three days of history
\* PASS; ClickHouse fails.
CheckRevenueAnomaly ==
  {Verdict("WARN", TRUE), Verdict("PASS", FALSE), Verdict("WARN", FALSE)}

\* The service answers, answers with something missing, or does not answer.
HealthVerdicts == {Verdict(s, FALSE) : s \in {"UP", "WARN", "DOWN"}}
CheckKafka      == HealthVerdicts   \* a topic is missing
CheckMinio      == HealthVerdicts   \* a bucket is missing
CheckClickhouse == HealthVerdicts   \* not 200, or the answer is not 1
CheckSpark      == HealthVerdicts   \* the master has no worker

\* It asks for a connector name that nothing registers: a Debezium that
\* answers at all answers 404, so it is never UP.
CheckDebezium   == HealthVerdicts \ {Verdict("UP", FALSE)}

Verdicts ==   \* by task_id
  [check_kafka_lag         |-> CheckKafkaLag,
   check_bronze_row_counts |-> CheckBronzeRowCounts,
   check_silver_freshness  |-> CheckSilverFreshness,
   check_null_rates        |-> CheckNullRates,
   check_revenue_anomaly   |-> CheckRevenueAnomaly,
   check_kafka_health      |-> CheckKafka,
   check_minio_health      |-> CheckMinio,
   check_clickhouse_health |-> CheckClickhouse,
   check_spark_health      |-> CheckSpark,
   check_debezium_health   |-> CheckDebezium]

-----------------------------------------------------------------------------
(* Airflow's part: a task is tried, returns, or its worker dies.           *)

\* retries: 1 in data_quality_monitor, 0 in infra_health_check.
MaxTries == IF Quality THEN 2 ELSE 1

ReportReady_AllSuccess == \A c \in checks : state[c] = "success"   \* mutant: the default rule

\* trigger_rule="all_done".
ReportReady == \A c \in checks : Over(c)

\* A try begins without the XCom of the one before.
BeginTry(t) ==
  /\ Idle(t)
  /\ t = Compile => ReportReady
  /\ state' = [state EXCEPT ![t] = "running"]
  /\ tries' = [tries EXCEPT ![t] = @ + 1]
  /\ IF t = Compile THEN UNCHANGED xcom ELSE xcom' = [xcom EXCEPT ![t] = "none"]
  /\ UNCHANGED <<checks, found, written, told>>

Return(t) ==
  /\ state[t] = "pushed"
  /\ state' = [state EXCEPT ![t] = "success"]
  /\ UNCHANGED <<checks, tries, found, xcom, written, told>>

LastTry(t) == tries[t] >= MaxTries

Reported_EveryTry(t) == {t}   \* mutant: on_retry_callback in place of on_failure_callback

\* on_failure_callback is for the last try only.
Reported(t) == IF LastTry(t) THEN {t} ELSE {}

\* The worker dies, or an XCom cannot be pushed or pulled.
WorkerDies(t) ==
  /\ Active(t)
  /\ state' = [state EXCEPT ![t] = IF LastTry(t) THEN "failed" ELSE "retry"]
  /\ called' = called \cup Reported(t)
  /\ UNCHANGED <<checks, tries, found, xcom, written, alerted>>

\* The next run of the schedule, when the last one has ended.
StartRun ==
  /\ RunEnded
  /\ state' = [t \in Tasks |-> "queued"]
  /\ tries' = [t \in Tasks |-> 0]
  /\ found' = NothingFound
  /\ xcom' = NothingFound
  /\ report' = NothingFound
  /\ copies' = 0
  /\ refused' = FALSE
  /\ alerted' = {}
  /\ called' = {}
  /\ UNCHANGED checks

-----------------------------------------------------------------------------
(* The tasks' own code.                                                    *)

\* The try block of a check: it looks, judges and, for some verdicts, alerts.
Look(c) ==
  /\ state[c] = "running"
  /\ \E v \in Verdicts[c] :
       /\ found' = [found EXCEPT ![c] = v.status]
       /\ alerted' = IF v.alerts THEN alerted \cup {c} ELSE alerted
  /\ state' = [state EXCEPT ![c] = "looked"]
  /\ UNCHANGED <<checks, tries, xcom, written, called>>

\* context["ti"].xcom_push
Push(c) ==
  /\ state[c] = "looked"
  /\ xcom' = [xcom EXCEPT ![c] = found[c]]
  /\ state' = [state EXCEPT ![c] = "pushed"]
  /\ UNCHANGED <<checks, tries, found, written, told>>

Pulled_Mistyped(c) ==   \* mutant: one key is not the one that was pushed
  IF c \in {"check_null_rates", "check_minio_health"} THEN "none" ELSE xcom[c]

\* ti.xcom_pull
Pulled(c) == xcom[c]

\* Only infra_health_check knows DOWN.
DownServices == {c \in checks : Pulled(c) = "DOWN"}

\* The report task pulls the verdicts; one alert names the services down.
Announce ==
  /\ state[Compile] = "running"
  /\ alerted' = alerted \cup DownServices
  /\ state' = [state EXCEPT ![Compile] = "looked"]
  /\ UNCHANGED <<checks, tries, found, xcom, written, called>>

\* _write_quality_report, and the insert of _compile_health_report; what
\* PostgreSQL answers is caught and the task goes on to succeed.
WriteReport ==
  /\ state[Compile] = "looked"
  /\ state' = [state EXCEPT ![Compile] = "pushed"]
  /\ \/ /\ report' = [c \in checks |-> Pulled(c)]
        /\ copies' = copies + 1
        /\ UNCHANGED refused
     \/ /\ refused' = TRUE
        /\ UNCHANGED <<report, copies>>
  /\ UNCHANGED <<checks, tries, found, xcom, told>>

CheckStep(c) == Look(c) \/ Push(c)
TaskStep(t)  == BeginTry(t) \/ Return(t)
Work == \/ \E t \in Tasks : TaskStep(t)
        \/ \E c \in checks : CheckStep(c)
        \/ Announce
        \/ WriteReport

Next == StartRun \/ Work \/ \E t \in Tasks : WorkerDies(t)

Spec == Init /\ [][Next]_vars

\* The scheduler and its workers go on with a run; when the next one starts is
\* not assumed.
FairSpec == Spec /\ WF_vars(Work)

-----------------------------------------------------------------------------
(* Properties.                                                             *)

TypeOK ==
  /\ checks \in Watched
  /\ state \in [Tasks -> {"queued", "running", "looked", "pushed", "retry",
                          "success", "failed"}]
  /\ tries \in [Tasks -> 0..MaxTries]
  /\ found \in [checks -> Statuses \cup {"none"}]
  /\ xcom \in [checks -> Statuses \cup {"none"}]
  /\ report \in [checks -> Statuses \cup {"none"}]
  /\ copies \in 0..2 /\ copies <= tries[Compile]
  /\ refused \in BOOLEAN
  /\ alerted \subseteq checks
  /\ called \subseteq {t \in Tasks : state[t] = "failed"}

\* The report in PostgreSQL and the alerts of the same run tell one story: a row
\* that says FAIL or DOWN was announced before it was written, and a check that
\* was announced is not written down as fine, unless it was tried again.
ReportAgreesWithAlerts ==
  \A c \in checks :
    /\ report[c] \in Bad => c \in alerted
    /\ c \in alerted /\ report[c] \in {"PASS", "UP"} => tries[c] > 1

\* Somebody hears of every check of a run that has ended: it is in the report,
\* or the failure of the check or of the report task was called out, or
\* PostgreSQL refused the report, which is only logged.
NoSilentCheck ==
  RunEnded => \A c \in checks :
    report[c] # "none" \/ c \in called \/ Compile \in called \/ refused

\* Every run ends, whatever its checks come to, so that max_active_runs=1 never
\* keeps the next one out.
MonitorRunsEnd == (\E t \in Tasks : tries[t] > 0) ~> RunEnded
=============================================================================
