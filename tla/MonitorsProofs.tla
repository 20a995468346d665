--------------------------- MODULE MonitorsProofs ---------------------------
(***************************************************************************)
(* Proofs about Monitors, for any set of checks that a DAG is followed     *)
(* with.  One invariant carries the three results: what a task has done is *)
(* tied to its state (TasksInv, ChecksInv), and what the report says to    *)
(* the last look of each check (StoryInv).                                 *)
(***************************************************************************)
EXTENDS Monitors, TLAPS

StateNames == {"queued", "running", "looked", "pushed", "retry", "success", "failed"}
StatusOrNone == Statuses \cup {"none"}

\* The types of the tasks, and of what the run has found, written and said.
TasksType ==
  /\ checks \in Watched
  /\ state \in [Tasks -> StateNames]
  /\ tries \in [Tasks -> 0..MaxTries]

FindsType ==
  /\ found \in [checks -> StatusOrNone]
  /\ xcom \in [checks -> StatusOrNone]
  /\ report \in [checks -> StatusOrNone]

ToldType ==
  /\ copies \in 0..2 /\ copies <= tries[Compile]
  /\ refused \in BOOLEAN
  /\ alerted \subseteq checks
  /\ called \subseteq {t \in Tasks : state[t] = "failed"}

\* A state that a task is in tells how often it was tried; a failed one was
\* called out.
TasksInv ==
  \A t \in Tasks :
    /\ state[t] = "queued" <=> tries[t] = 0
    /\ state[t] = "retry" => tries[t] < MaxTries
    /\ state[t] = "failed" => t \in called

\* The report task begins when no check is left to do anything, and writes once
\* in a try.
CompileInv ==
  /\ state[Compile] # "queued" => \A c \in checks : Over(c)
  /\ state[Compile] \in {"running", "looked"} => copies < tries[Compile]

\* A check pushes what it found in its last look, and has pushed when it succeeds.
ChecksInv ==
  \A c \in checks :
    /\ xcom[c] \in {"none", found[c]}
    /\ state[c] \in {"queued", "running", "looked"} => xcom[c] = "none"
    /\ state[c] = "looked" => found[c] # "none"
    /\ state[c] \in {"pushed", "success"} => xcom[c] # "none"

\* What was found, what is reported and what was announced.
StoryInv ==
  \A c \in checks :
    /\ report[c] \in {"none", found[c]}
    /\ report[c] # "none" => state[Compile] # "queued"
    /\ found[c] = "FAIL" => c \in alerted
    /\ report[c] = "DOWN" => c \in alerted
    /\ state[Compile] \in {"looked", "pushed"} /\ xcom[c] = "DOWN" => c \in alerted
    /\ c \in alerted /\ tries[c] <= 1 =>
         found[c] \notin {"PASS", "UP"} /\ state[c] \notin {"queued", "running"}
    /\ state[Compile] \in {"pushed", "success"} =>
         report[c] # "none" \/ c \in called \/ refused

IInv == TasksType /\ FindsType /\ ToldType /\ TasksInv /\ CompileInv /\ ChecksInv /\ StoryInv

\* TypeOK is the conjunction of its named parts.
LEMMA TypeParts == TypeOK <=> TasksType /\ FindsType /\ ToldType
BY DEF TypeOK, TasksType, FindsType, ToldType, StateNames, StatusOrNone

\* The report task is none of the checks.
LEMMA CompileIsNoCheck ==
  ASSUME TasksType
  PROVE  Compile \notin checks /\ Compile \in Tasks /\ checks \subseteq Tasks
BY WatchedAssumption DEF TasksType, Compile, Tasks, QualityChecks, HealthChecks

\* A check that alerts on its own has not found everything in order, and one
\* that finds FAIL alerts.
LEMMA VerdictsOfChecks ==
  ASSUME TasksType, NEW c \in checks, NEW v \in Verdicts[c]
  PROVE  /\ v.status \in Statuses /\ v.alerts \in BOOLEAN
         /\ v.alerts = TRUE => v.status \notin {"PASS", "UP"}
         /\ v.status = "FAIL" => v.alerts = TRUE
<1>1. c \in QualityChecks \cup HealthChecks
  BY WatchedAssumption DEF TasksType
<1>2. \A w \in HealthVerdicts :
        w.status \in {"UP", "WARN", "DOWN"} /\ w.alerts = FALSE
  BY DEF HealthVerdicts, Verdict
<1>3. CASE c \in QualityChecks
  <2>1. /\ Verdicts["check_kafka_lag"] = CheckKafkaLag
        /\ Verdicts["check_bronze_row_counts"] = CheckBronzeRowCounts
        /\ Verdicts["check_silver_freshness"] = CheckSilverFreshness
        /\ Verdicts["check_null_rates"] = CheckNullRates
        /\ Verdicts["check_revenue_anomaly"] = CheckRevenueAnomaly
    BY DEF Verdicts
  <2>2. v \in {Verdict("FAIL", TRUE), Verdict("WARN", FALSE), Verdict("PASS", FALSE),
               Verdict("WARN", TRUE)}
    BY <1>3, <2>1 DEF QualityChecks, CheckKafkaLag, CheckBronzeRowCounts,
                      CheckSilverFreshness, CheckNullRates, CheckRevenueAnomaly
  <2>3. \/ v.status \in {"FAIL", "WARN"} /\ v.alerts = TRUE
        \/ v.status \in {"WARN", "PASS"} /\ v.alerts = FALSE
    BY <2>2 DEF Verdict
  <2> QED
    BY <2>3 DEF Statuses
<1>4. CASE c \in HealthChecks
  <2>1. /\ Verdicts["check_kafka_health"] = CheckKafka
        /\ Verdicts["check_minio_health"] = CheckMinio
        /\ Verdicts["check_clickhouse_health"] = CheckClickhouse
        /\ Verdicts["check_spark_health"] = CheckSpark
        /\ Verdicts["check_debezium_health"] = CheckDebezium
    BY DEF Verdicts
  <2>2. v \in HealthVerdicts
    BY <1>4, <2>1 DEF HealthChecks, CheckKafka, CheckMinio, CheckClickhouse, CheckSpark,
                      CheckDebezium
  <2> QED
    BY <1>2, <2>2 DEF Statuses
<1> QED
  BY <1>1, <1>3, <1>4

\* A run that begins: nothing tried, nothing found, nothing said.
Fresh ==
  /\ checks \in Watched
  /\ state = [t \in Tasks |-> "queued"]
  /\ tries = [t \in Tasks |-> 0]
  /\ found = NothingFound /\ xcom = NothingFound /\ report = NothingFound
  /\ copies = 0 /\ refused = FALSE /\ alerted = {} /\ called = {}

\* That is a state of the invariant.
LEMMA FreshInv == Fresh => IInv
<1> SUFFICES ASSUME Fresh PROVE IInv
  OBVIOUS
<1>1. MaxTries \in 1..2
  BY DEF MaxTries
<1>2. TasksType
  BY <1>1 DEF Fresh, TasksType, StateNames
<1>3. FindsType
  BY DEF Fresh, FindsType, StatusOrNone, NothingFound
<1>4. Compile \in Tasks
  BY DEF Tasks
<1>5. ToldType
  <2>1. tries[Compile] = 0 /\ copies = 0
    BY <1>4 DEF Fresh
  <2>2. alerted = {} /\ called = {} /\ refused = FALSE
    BY DEF Fresh
  <2> QED
    BY <2>1, <2>2, 0 \in 0..2 /\ 0 <= 0 DEF ToldType
<1>6. TasksInv
  BY <1>1 DEF Fresh, TasksInv
<1>7. CompileInv
  BY <1>4 DEF Fresh, CompileInv
<1>8. \A c \in checks : c \in Tasks
  BY DEF Tasks
<1>9. ChecksInv
  BY <1>8 DEF Fresh, ChecksInv, NothingFound
<1>10. StoryInv
  BY <1>4, <1>8 DEF Fresh, StoryInv, NothingFound
<1> QED
  BY <1>2, <1>3, <1>5, <1>6, <1>7, <1>9, <1>10 DEF IInv

-----------------------------------------------------------------------------
(* The steps.                                                              *)

\* A step changes neither what is followed nor how often a task is tried.
LEMMA SameTasks ==
  ASSUME UNCHANGED checks
  PROVE  Tasks' = Tasks /\ MaxTries' = MaxTries
BY DEF Tasks, MaxTries, Quality

\* A try begins.
LEMMA BeginTryStep ==
  ASSUME IInv, NEW t \in Tasks, BeginTry(t)
  PROVE  IInv'
<1>1. /\ checks' = checks /\ Tasks' = Tasks /\ MaxTries' = MaxTries
      /\ MaxTries \in 1..2 /\ Compile \in Tasks /\ Compile \notin checks
      /\ checks \subseteq Tasks
  BY SameTasks, CompileIsNoCheck DEF BeginTry, MaxTries, IInv
<1>2. /\ state[t] \in {"queued", "retry"}
      /\ state' = [state EXCEPT ![t] = "running"]
      /\ tries' = [tries EXCEPT ![t] = @ + 1]
      /\ UNCHANGED <<found, report, copies, refused, alerted, called>>
  BY DEF BeginTry, Idle, written, told
<1>3. tries[t] \in Nat /\ tries[t] < MaxTries /\ (state[t] = "queued" <=> tries[t] = 0)
  BY <1>1, <1>2 DEF IInv, TasksType, TasksInv
<1>4. \A u \in Tasks \ {t} : state'[u] = state[u] /\ tries'[u] = tries[u]
  BY <1>2 DEF IInv, TasksType
<1>5. state'[t] = "running" /\ tries'[t] = tries[t] + 1
  BY <1>2 DEF IInv, TasksType
<1>6. TasksType'
  BY <1>1, <1>2, <1>3 DEF IInv, TasksType, StateNames
<1>7. FindsType'
  BY <1>1, <1>2 DEF BeginTry, IInv, FindsType, StatusOrNone
<1>8. ToldType'
  <2>1. copies <= tries'[Compile]
    BY <1>1, <1>3, <1>4, <1>5 DEF IInv, ToldType, TasksType
  <2>2. called \subseteq {u \in Tasks : state'[u] = "failed"}
    BY <1>2, <1>4 DEF IInv, ToldType
  <2> QED
    BY <1>1, <1>2, <2>1, <2>2 DEF IInv, ToldType
<1>9. TasksInv'
  <2>1. ASSUME NEW u \in Tasks
        PROVE  /\ state'[u] = "queued" <=> tries'[u] = 0
               /\ state'[u] = "retry" => tries'[u] < MaxTries
               /\ state'[u] = "failed" => u \in called
    BY <1>3, <1>4, <1>5 DEF IInv, TasksInv
  <2> QED
    BY <1>1, <1>2, <2>1 DEF TasksInv
<1>10. CompileInv'
  <2>1. ASSUME state'[Compile] # "queued", NEW c \in checks PROVE state'[c] \in {"success", "failed"}
    <3>1. state[c] \in {"success", "failed"}
      BY <1>1, <1>2, <1>4, <2>1 DEF BeginTry, ReportReady, Over, IInv, CompileInv
    <3> QED
      BY <1>2, <1>4, <3>1, <1>1
  <2>2. state'[Compile] \in {"running", "looked"} => copies < tries'[Compile]
    BY <1>1, <1>3, <1>4, <1>5 DEF IInv, CompileInv, ToldType
  <2> QED
    BY <1>1, <1>2, <2>1, <2>2 DEF CompileInv, Over
<1>11. ASSUME NEW c \in checks
       PROVE  xcom'[c] = IF c = t THEN "none" ELSE xcom[c]
  BY <1>1, <1>2 DEF BeginTry, IInv, FindsType
<1>12. ChecksInv'
  BY <1>1, <1>2, <1>4, <1>5, <1>11 DEF IInv, ChecksInv
<1>13. StoryInv'
  <2>1. ASSUME NEW c \in checks, c \in alerted, tries'[c] <= 1
        PROVE  found[c] \notin {"PASS", "UP"} /\ state'[c] \notin {"queued", "running"}
    <3>1. CASE c = t
      BY <1>2, <1>3, <1>5, <2>1, <3>1 DEF IInv, StoryInv
    <3>2. CASE c # t
      BY <1>1, <1>4, <2>1, <3>2 DEF IInv, StoryInv
    <3> QED
      BY <3>1, <3>2
  <2>2. state'[Compile] # "queued" \/ (\A c \in checks : report[c] = "none")
    BY <1>1, <1>4, <1>5 DEF IInv, StoryInv
  <2>3. /\ state'[Compile] \notin {"looked", "pushed", "success"} \/ t # Compile
        /\ t # Compile => state'[Compile] = state[Compile]
    BY <1>1, <1>4, <1>5
  <2>4. ASSUME NEW c \in checks
        PROVE  /\ report[c] \in {"none", found[c]}
               /\ found[c] = "FAIL" => c \in alerted
               /\ report[c] = "DOWN" => c \in alerted
               /\ state'[Compile] \in {"looked", "pushed"} /\ xcom'[c] = "DOWN" => c \in alerted
               /\ state'[Compile] \in {"pushed", "success"} =>
                    report[c] # "none" \/ c \in called \/ refused
    BY <1>11, <2>3, <1>5 DEF IInv, StoryInv
  <2> QED
    BY <1>1, <1>2, <2>1, <2>2, <2>4 DEF StoryInv
<1> QED
  BY <1>6, <1>7, <1>8, <1>9, <1>10, <1>12, <1>13 DEF IInv

\* Steps that leave everything but one task's state as it is.
LEMMA StateStep ==
  ASSUME IInv, NEW t \in Tasks, NEW s \in StateNames,
         state' = [state EXCEPT ![t] = s],
         UNCHANGED checks
  PROVE  /\ Tasks' = Tasks /\ MaxTries' = MaxTries
         /\ Compile \in Tasks /\ Compile \notin checks /\ checks \subseteq Tasks
         /\ state' \in [Tasks -> StateNames]
         /\ state'[t] = s
         /\ \A u \in Tasks \ {t} : state'[u] = state[u]
BY SameTasks, CompileIsNoCheck DEF IInv, TasksType

\* A task returns.
LEMMA ReturnStep ==
  ASSUME IInv, NEW t \in Tasks, Return(t)
  PROVE  IInv'
<1>1. /\ state[t] = "pushed" /\ state' = [state EXCEPT ![t] = "success"]
      /\ UNCHANGED <<checks, tries, found, xcom, report, copies, refused, alerted, called>>
  BY DEF Return, written, told
<1>2. /\ Tasks' = Tasks /\ MaxTries' = MaxTries
      /\ Compile \in Tasks /\ Compile \notin checks /\ checks \subseteq Tasks
      /\ state' \in [Tasks -> StateNames]
      /\ state'[t] = "success"
      /\ \A u \in Tasks \ {t} : state'[u] = state[u]
  BY <1>1, StateStep DEF StateNames
<1>3. TasksType' /\ FindsType'
  BY <1>1, <1>2 DEF IInv, TasksType, FindsType
<1>4. ToldType'
  BY <1>1, <1>2 DEF IInv, ToldType
<1>5. TasksInv'
  BY <1>1, <1>2 DEF IInv, TasksInv
<1>6. CompileInv'
  BY <1>1, <1>2 DEF IInv, CompileInv, Over
<1>7. ChecksInv'
  BY <1>1, <1>2 DEF IInv, ChecksInv
<1>8. StoryInv'
  BY <1>1, <1>2 DEF IInv, StoryInv
<1> QED
  BY <1>3, <1>4, <1>5, <1>6, <1>7, <1>8 DEF IInv

\* A worker dies; the last try is called out.
LEMMA WorkerDiesStep ==
  ASSUME IInv, NEW t \in Tasks, WorkerDies(t)
  PROVE  IInv'
<1> DEFINE s == IF LastTry(t) THEN "failed" ELSE "retry"
<1>1. /\ state[t] \in {"running", "looked", "pushed"}
      /\ state' = [state EXCEPT ![t] = s]
      /\ called' = called \cup (IF LastTry(t) THEN {t} ELSE {})
      /\ UNCHANGED <<checks, tries, found, xcom, report, copies, refused, alerted>>
  BY DEF WorkerDies, Active, Reported, written
<1>2. /\ Tasks' = Tasks /\ MaxTries' = MaxTries
      /\ Compile \in Tasks /\ Compile \notin checks /\ checks \subseteq Tasks
      /\ state' \in [Tasks -> StateNames]
      /\ state'[t] = s
      /\ \A u \in Tasks \ {t} : state'[u] = state[u]
  BY <1>1, StateStep DEF StateNames
<1>3. \/ s = "failed" /\ called' = called \cup {t}
      \/ s = "retry" /\ called' = called /\ tries[t] < MaxTries
  <2>1. tries[t] \in Nat /\ MaxTries \in Nat
    BY DEF IInv, TasksType, MaxTries
  <2> QED
    BY <1>1, <2>1 DEF LastTry
<1> HIDE DEF s
<1>4. TasksType' /\ FindsType'
  BY <1>1, <1>2 DEF IInv, TasksType, FindsType
<1>5. ToldType'
  <2>1. called' \subseteq {u \in Tasks : state'[u] = "failed"}
    BY <1>1, <1>2, <1>3 DEF IInv, ToldType
  <2> QED
    BY <1>1, <1>2, <2>1 DEF IInv, ToldType
<1>6. TasksInv'
  BY <1>1, <1>2, <1>3 DEF IInv, TasksInv
<1>7. CompileInv'
  <2>1. \A c \in checks : state[Compile] # "queued" => c # t
    BY <1>1 DEF IInv, CompileInv, Over
  <2>2. t = Compile => state[Compile] # "queued"
    BY <1>1
  <2> QED
    BY <1>1, <1>2, <1>3, <2>1, <2>2 DEF IInv, CompileInv, Over
<1>8. ChecksInv'
  BY <1>1, <1>2, <1>3 DEF IInv, ChecksInv
<1>9. called \subseteq called'
  BY <1>1
<1>10. StoryInv'
  BY <1>1, <1>2, <1>3, <1>9 DEF IInv, StoryInv
<1> QED
  BY <1>4, <1>5, <1>6, <1>7, <1>8, <1>10 DEF IInv

\* A check looks, judges and alerts.
LEMMA LookStep ==
  ASSUME IInv, NEW c \in checks, Look(c)
  PROVE  IInv'
<1>1. PICK v \in Verdicts[c] :
        /\ found' = [found EXCEPT ![c] = v.status]
        /\ alerted' = IF v.alerts THEN alerted \cup {c} ELSE alerted
  BY DEF Look
<1>2. /\ state[c] = "running" /\ state' = [state EXCEPT ![c] = "looked"]
      /\ UNCHANGED <<checks, tries, xcom, report, copies, refused, called>>
  BY DEF Look, written
<1>3. /\ v.status \in Statuses /\ v.alerts \in BOOLEAN
      /\ v.alerts = TRUE => v.status \notin {"PASS", "UP"}
      /\ v.status = "FAIL" => v.alerts = TRUE
  BY VerdictsOfChecks DEF IInv
<1>4. /\ alerted \subseteq alerted' /\ alerted' \subseteq alerted \cup {c}
      /\ v.alerts = TRUE => c \in alerted'
      /\ v.alerts = FALSE => alerted' = alerted
  BY <1>1, <1>3
<1>5. /\ Tasks' = Tasks /\ MaxTries' = MaxTries
      /\ Compile \in Tasks /\ Compile \notin checks /\ c \in Tasks /\ checks \subseteq Tasks
      /\ state' \in [Tasks -> StateNames]
      /\ state'[c] = "looked"
      /\ \A u \in Tasks \ {c} : state'[u] = state[u]
  BY <1>2, StateStep, CompileIsNoCheck DEF StateNames, IInv
<1>6. state[Compile] = "queued" /\ state'[Compile] = "queued"
  BY <1>2, <1>5 DEF IInv, CompileInv, Over
<1>7. /\ found' \in [checks -> StatusOrNone] /\ found'[c] = v.status
      /\ \A d \in checks \ {c} : found'[d] = found[d]
  BY <1>1, <1>3 DEF IInv, FindsType, StatusOrNone
<1>8. TasksType' /\ FindsType'
  BY <1>2, <1>5, <1>7 DEF IInv, TasksType, FindsType
<1>9. ToldType'
  BY <1>2, <1>4, <1>5 DEF IInv, ToldType
<1>10. TasksInv'
  BY <1>2, <1>5 DEF IInv, TasksInv
<1>11. CompileInv'
  BY <1>6, <1>2 DEF CompileInv
<1>12. v.status # "none" /\ xcom[c] = "none"
  BY <1>2, <1>3 DEF Statuses, IInv, ChecksInv
<1>13. ChecksInv'
  BY <1>2, <1>5, <1>7, <1>12 DEF IInv, ChecksInv
<1>14. \A d \in checks : report[d] = "none"
  BY <1>6 DEF IInv, StoryInv
<1>15. ASSUME NEW d \in checks
       PROVE  /\ found'[d] = "FAIL" => d \in alerted'
              /\ d \in alerted' /\ tries[d] <= 1 =>
                   found'[d] \notin {"PASS", "UP"} /\ state'[d] \notin {"queued", "running"}
  <2>1. CASE d = c
    <3>1. tries[c] <= 1 => c \notin alerted
      BY <1>2 DEF IInv, StoryInv
    <3>2. v.alerts = TRUE \/ v.alerts = FALSE
      BY <1>3
    <3>3. c \in alerted' /\ tries[c] <= 1 => v.alerts = TRUE
      BY <1>4, <3>1, <3>2
    <3> QED
      BY <1>3, <1>4, <1>5, <1>7, <2>1, <3>3
  <2>2. CASE d # c
    <3>1. d \in alerted' <=> d \in alerted
      BY <1>4, <2>2
    <3> QED
      BY <1>5, <1>7, <2>2, <3>1 DEF IInv, StoryInv
  <2> QED
    BY <2>1, <2>2
<1>16. StoryInv'
  BY <1>2, <1>6, <1>14, <1>15 DEF StoryInv
<1> QED
  BY <1>8, <1>9, <1>10, <1>11, <1>13, <1>16 DEF IInv

\* A check pushes.
LEMMA PushStep ==
  ASSUME IInv, NEW c \in checks, Push(c)
  PROVE  IInv'
<1>1. /\ state[c] = "looked" /\ state' = [state EXCEPT ![c] = "pushed"]
      /\ xcom' = [xcom EXCEPT ![c] = found[c]]
      /\ UNCHANGED <<checks, tries, found, report, copies, refused, alerted, called>>
  BY DEF Push, written, told
<1>2. /\ Tasks' = Tasks /\ MaxTries' = MaxTries
      /\ Compile \in Tasks /\ Compile \notin checks /\ c \in Tasks /\ checks \subseteq Tasks
      /\ state' \in [Tasks -> StateNames]
      /\ state'[c] = "pushed"
      /\ \A u \in Tasks \ {c} : state'[u] = state[u]
  BY <1>1, StateStep, CompileIsNoCheck DEF StateNames, IInv
<1>3. state[Compile] = "queued" /\ state'[Compile] = "queued"
  BY <1>1, <1>2 DEF IInv, CompileInv, Over
<1>4. /\ xcom' \in [checks -> StatusOrNone] /\ xcom'[c] = found[c]
      /\ \A d \in checks \ {c} : xcom'[d] = xcom[d]
  BY <1>1 DEF IInv, FindsType
<1>5. TasksType' /\ FindsType'
  BY <1>1, <1>2, <1>4 DEF IInv, TasksType, FindsType
<1>6. ToldType'
  BY <1>1, <1>2 DEF IInv, ToldType
<1>7. TasksInv'
  BY <1>1, <1>2 DEF IInv, TasksInv
<1>8. CompileInv'
  BY <1>1, <1>3 DEF CompileInv
<1>9. ChecksInv'
  BY <1>1, <1>2, <1>4 DEF IInv, ChecksInv
<1>10. StoryInv'
  BY <1>1, <1>2, <1>3 DEF IInv, StoryInv
<1> QED
  BY <1>5, <1>6, <1>7, <1>8, <1>9, <1>10 DEF IInv

\* The report task announces the services that are down.
LEMMA AnnounceStep ==
  ASSUME IInv, Announce
  PROVE  IInv'
<1>1. /\ state[Compile] = "running" /\ state' = [state EXCEPT ![Compile] = "looked"]
      /\ alerted' = alerted \cup {c \in checks : xcom[c] = "DOWN"}
      /\ UNCHANGED <<checks, tries, found, xcom, report, copies, refused, called>>
  BY DEF Announce, DownServices, Pulled, written
<1>2. Compile \in Tasks
  BY DEF Tasks
<1>3. /\ Tasks' = Tasks /\ MaxTries' = MaxTries
      /\ Compile \notin checks /\ checks \subseteq Tasks
      /\ state' \in [Tasks -> StateNames]
      /\ state'[Compile] = "looked"
      /\ \A u \in Tasks \ {Compile} : state'[u] = state[u]
  BY <1>1, <1>2, StateStep DEF StateNames
<1>4. TasksType' /\ FindsType'
  BY <1>1, <1>3 DEF IInv, TasksType, FindsType
<1>5. ToldType'
  BY <1>1, <1>3 DEF IInv, ToldType
<1>6. TasksInv'
  BY <1>1, <1>3 DEF IInv, TasksInv
<1>7. CompileInv'
  BY <1>1, <1>3 DEF IInv, CompileInv, Over
<1>8. ChecksInv'
  BY <1>1, <1>3 DEF IInv, ChecksInv
<1>9. ASSUME NEW c \in checks, c \in alerted', tries[c] <= 1
      PROVE  found[c] \notin {"PASS", "UP"} /\ state'[c] \notin {"queued", "running"}
  <2>1. state'[c] \notin {"queued", "running"}
    BY <1>1, <1>3 DEF IInv, CompileInv, Over
  <2>2. CASE c \in alerted
    BY <1>9, <2>1, <2>2 DEF IInv, StoryInv
  <2>3. CASE xcom[c] = "DOWN"
    BY <2>1, <2>3 DEF IInv, ChecksInv
  <2> QED
    BY <1>1, <1>9, <2>2, <2>3
<1>10. StoryInv'
  BY <1>1, <1>3, <1>9 DEF IInv, StoryInv
<1> QED
  BY <1>4, <1>5, <1>6, <1>7, <1>8, <1>10 DEF IInv

\* The report is written, or refused.
LEMMA WriteReportStep ==
  ASSUME IInv, WriteReport
  PROVE  IInv'
<1>1. /\ state[Compile] = "looked" /\ state' = [state EXCEPT ![Compile] = "pushed"]
      /\ UNCHANGED <<checks, tries, found, xcom, alerted, called>>
  BY DEF WriteReport, told
<1>2. \/ /\ report' = [c \in checks |-> xcom[c]] /\ copies' = copies + 1 /\ refused' = refused
      \/ /\ refused' = TRUE /\ report' = report /\ copies' = copies
  BY DEF WriteReport, Pulled
<1>3. Compile \in Tasks
  BY DEF Tasks
<1>4. /\ Tasks' = Tasks /\ MaxTries' = MaxTries
      /\ Compile \notin checks /\ checks \subseteq Tasks
      /\ state' \in [Tasks -> StateNames]
      /\ state'[Compile] = "pushed"
      /\ \A u \in Tasks \ {Compile} : state'[u] = state[u]
  BY <1>1, <1>3, StateStep DEF StateNames
<1>5. TasksType'
  BY <1>1, <1>4 DEF IInv, TasksType
<1>6. FindsType'
  BY <1>1, <1>2 DEF IInv, FindsType
<1>7. ToldType'
  <2>1. copies \in Nat /\ copies < tries[Compile] /\ tries[Compile] \in 0..MaxTries
    BY <1>1, <1>3 DEF IInv, ToldType, CompileInv, TasksType
  <2>2. copies' \in 0..2 /\ copies' <= tries[Compile]
    BY <1>2, <2>1 DEF IInv, ToldType, MaxTries
  <2>3. refused' \in BOOLEAN
    BY <1>2 DEF IInv, ToldType
  <2> QED
    BY <1>1, <1>4, <2>2, <2>3 DEF IInv, ToldType
<1>8. TasksInv'
  BY <1>1, <1>4 DEF IInv, TasksInv
<1>9. CompileInv'
  BY <1>1, <1>4 DEF IInv, CompileInv, Over
<1>10. ChecksInv'
  BY <1>1, <1>4 DEF IInv, ChecksInv
<1>11. ASSUME NEW c \in checks
       PROVE  report'[c] # "none" \/ c \in called \/ refused'
  <2>1. state[c] \in {"success", "failed"}
    BY <1>1 DEF IInv, CompileInv, Over
  <2>2. xcom[c] # "none" \/ c \in called
    BY <1>4, <2>1 DEF IInv, ChecksInv, TasksInv
  <2> QED
    BY <1>2, <2>2
<1>12. ASSUME NEW c \in checks
       PROVE  /\ report'[c] \in {"none", found[c]}
              /\ report'[c] = "DOWN" => c \in alerted
              /\ xcom[c] = "DOWN" => c \in alerted
  <2>1. xcom[c] \in {"none", found[c]} /\ (xcom[c] = "DOWN" => c \in alerted)
    BY <1>1 DEF IInv, ChecksInv, StoryInv
  <2>2. report'[c] \in {xcom[c], report[c]}
    BY <1>2
  <2> QED
    BY <2>1, <2>2 DEF IInv, StoryInv
<1>13. StoryInv'
  BY <1>1, <1>4, <1>11, <1>12 DEF IInv, StoryInv
<1> QED
  BY <1>5, <1>6, <1>7, <1>8, <1>9, <1>10, <1>13 DEF IInv

\* Every step keeps the invariant or begins a new run.
LEMMA MonitorsStep ==
  ASSUME IInv, [Next]_vars
  PROVE  IInv' \/ Fresh'
<1>1. CASE StartRun
  BY <1>1, SameTasks DEF StartRun, Fresh, NothingFound, IInv, TasksType
<1>2. CASE Work
  BY <1>2, BeginTryStep, ReturnStep, LookStep, PushStep, AnnounceStep, WriteReportStep
  DEF Work, TaskStep, CheckStep
<1>3. CASE \E t \in Tasks : WorkerDies(t)
  BY <1>3, WorkerDiesStep
<1>4. CASE UNCHANGED vars
  BY <1>4 DEF vars, tasks, written, told, IInv, TasksType, FindsType, ToldType, TasksInv, CompileInv,
              ChecksInv, StoryInv, Tasks, MaxTries, Quality, Over
<1> QED
  BY <1>1, <1>2, <1>3, <1>4 DEF Next

\* The invariant of the monitors.
THEOREM MonitorsInvariant == Spec => []IInv
<1>1. Init => IInv
  <2>1. Init => Fresh
    BY DEF Init, Fresh
  <2> QED
    BY <2>1, FreshInv
<1> QED
  BY <1>1, FreshInv, MonitorsStep, PTL DEF Spec

\* The variables keep their types.
THEOREM MonitorsTypeCorrect == Spec => []TypeOK
<1>1. IInv => TypeOK
  BY TypeParts DEF IInv
<1> QED
  BY <1>1, MonitorsInvariant, PTL

\* A row of the report that says FAIL or DOWN was announced, and what was announced
\* is not reported as fine, unless it was tried again.
THEOREM ReportAgrees == Spec => []ReportAgreesWithAlerts
<1>1. IInv => ReportAgreesWithAlerts
  <2> SUFFICES ASSUME IInv, NEW c \in checks
               PROVE  /\ report[c] \in Bad => c \in alerted
                      /\ c \in alerted /\ report[c] \in {"PASS", "UP"} => tries[c] > 1
    BY DEF ReportAgreesWithAlerts
  <2>1. tries[c] \in Nat
    BY CompileIsNoCheck DEF IInv, TasksType, MaxTries
  <2>2. report[c] \in {"none", found[c]}
    BY DEF IInv, StoryInv
  <2>3. report[c] \in Bad => c \in alerted
    BY <2>2 DEF IInv, StoryInv, Bad
  <2>4. c \in alerted /\ report[c] \in {"PASS", "UP"} => ~(tries[c] <= 1)
    BY <2>2 DEF IInv, StoryInv
  <2> QED
    BY <2>1, <2>3, <2>4
<1> QED
  BY <1>1, MonitorsInvariant, PTL

\* When a run has ended, every check is in the report, or its failure or the report's
\* was called out, or PostgreSQL refused the report.
THEOREM NoCheckSilent == Spec => []NoSilentCheck
<1>1. IInv => NoSilentCheck
  <2>1. Compile \in Tasks
    BY DEF Tasks
  <2> QED
    BY <2>1 DEF IInv, StoryInv, TasksInv, NoSilentCheck, RunEnded, Over
<1> QED
  BY <1>1, MonitorsInvariant, PTL

-----------------------------------------------------------------------------
(* The two halves of MonitorRunsEnd that need no fairness: a run that goes   *)
(* on has a step to take, and there is an end to its steps.                  *)

CanGoOn(t) ==
  \/ Active(t)
  \/ Idle(t) /\ (t = Compile => ReportReady)

NeverStuck ==
  /\ ~RunEnded => \E t \in Tasks : CanGoOn(t)
  /\ RunEnded => \A t \in Tasks : Over(t)

\* Steps that a task still has in the run, if no worker dies between them.
StepsOfTry(t) ==
  IF state[t] = "running" THEN 3
  ELSE IF state[t] = "looked" THEN 2
  ELSE IF state[t] = "pushed" THEN 1
  ELSE 0

Left(t) == IF Over(t) THEN 0 ELSE 5 * (MaxTries - tries[t]) + StepsOfTry(t)

\* A step of the run, or the death of a worker, takes from what one task has left
\* and gives nothing to any other.
OneSpent ==
  Work \/ (\E t \in Tasks : WorkerDies(t)) =>
    \E t \in Tasks : Left(t)' < Left(t) /\ \A u \in Tasks \ {t} : Left(u)' = Left(u)

\* infra_health_check.py and data_quality_monitor.py, max_active_runs=1: a run always
\* has a task that can go on, whatever failed or died, and leaves none behind when the
\* report task is over.
THEOREM RunsNeverStuck == Spec => []NeverStuck
<1>1. ASSUME IInv PROVE NeverStuck
  <2>1. \A t \in Tasks : Idle(t) \/ Active(t) \/ Over(t)
    BY <1>1 DEF IInv, TasksType, StateNames, Idle, Active, Over
  <2>2. Compile \in Tasks /\ checks \subseteq Tasks /\ \A t \in Tasks : t \in checks \/ t = Compile
    BY DEF Tasks
  <2>3. ASSUME ~RunEnded PROVE \E t \in Tasks : CanGoOn(t)
    <3>1. CASE ReportReady \/ Active(Compile)
      <4>1. Idle(Compile) \/ Active(Compile)
        BY <2>1, <2>2, <2>3 DEF RunEnded
      <4>2. CanGoOn(Compile)
        BY <3>1, <4>1 DEF CanGoOn
      <4> QED
        BY <2>2, <4>2
    <3>2. CASE ~ReportReady
      <4>1. PICK c \in checks : ~Over(c)
        BY <3>2 DEF ReportReady
      <4>2. c # Compile
        BY <1>1, CompileIsNoCheck DEF IInv
      <4> QED
        BY <2>1, <2>2, <4>1, <4>2 DEF CanGoOn
    <3> QED
      BY <3>1, <3>2
  <2>4. ASSUME RunEnded PROVE \A t \in Tasks : Over(t)
    BY <1>1, <2>2, <2>4 DEF IInv, CompileInv, RunEnded, Over
  <2> QED
    BY <2>3, <2>4 DEF NeverStuck
<1> QED
  BY <1>1, MonitorsInvariant, PTL

\* A task that moves on within a try, begins its next try or gives the try up.
LEMMA TaskMoves ==
  ASSUME IInv, NEW t \in Tasks, UNCHANGED checks,
         \A u \in Tasks \ {t} : state'[u] = state[u] /\ tries'[u] = tries[u],
         \/ /\ state[t] \in {"queued", "retry"} /\ tries[t] < MaxTries
            /\ state'[t] = "running" /\ tries'[t] = tries[t] + 1
         \/ /\ tries'[t] = tries[t]
            /\ \/ state[t] = "running" /\ state'[t] = "looked"
               \/ state[t] = "looked" /\ state'[t] = "pushed"
               \/ /\ state[t] \in {"running", "looked", "pushed"}
                  /\ state'[t] \in {"retry", "success", "failed"}
  PROVE  \E s \in Tasks : Left(s)' < Left(s) /\ \A u \in Tasks \ {s} : Left(u)' = Left(u)
<1>1. MaxTries \in 1..2 /\ MaxTries' = MaxTries /\ tries[t] \in 0..MaxTries
  BY DEF MaxTries, Quality, IInv, TasksType
<1>2. \A u \in Tasks \ {t} : Left(u)' = Left(u)
  BY <1>1 DEF Left, Over, StepsOfTry
<1>3. Left(t)' < Left(t)
  <2>1. CASE /\ state[t] \in {"queued", "retry"} /\ tries[t] < MaxTries
             /\ state'[t] = "running" /\ tries'[t] = tries[t] + 1
    <3>1. Left(t) = 5 * (MaxTries - tries[t])
      BY <1>1, <2>1 DEF Left, Over, StepsOfTry
    <3>2. Left(t)' = 5 * (MaxTries - (tries[t] + 1)) + 3
      BY <1>1, <2>1 DEF Left, Over, StepsOfTry
    <3> QED
      BY <1>1, <2>1, <3>1, <3>2
  <2>2. CASE tries'[t] = tries[t]
    <3> DEFINE rest == 5 * (MaxTries - tries[t])
    <3>1. rest \in Nat
      BY <1>1
    <3>2. /\ state[t] = "running" => Left(t) = rest + 3
          /\ state[t] = "looked" => Left(t) = rest + 2
          /\ state[t] = "pushed" => Left(t) = rest + 1
      BY DEF Left, Over, StepsOfTry
    <3>3. /\ state'[t] = "looked" => Left(t)' = rest + 2
          /\ state'[t] = "pushed" => Left(t)' = rest + 1
          /\ state'[t] = "retry" => Left(t)' = rest + 0
          /\ state'[t] \in {"success", "failed"} => Left(t)' = 0
      BY <1>1, <2>2 DEF Left, Over, StepsOfTry
    <3> HIDE DEF rest
    <3> QED
      BY <1>1, <2>2, <3>1, <3>2, <3>3
  <2> QED
    BY <2>1, <2>2
<1> QED
  BY <1>2, <1>3

\* retries of either DAG: a run is over after at most five steps per try of each task,
\* since nothing but the next run gives a task another try.
THEOREM RunsAreFinite ==
  Spec => /\ [](\A t \in Tasks : Left(t) \in 0..10)
          /\ [][OneSpent]_vars
<1>1. ASSUME IInv PROVE \A t \in Tasks : Left(t) \in 0..10
  <2> SUFFICES ASSUME NEW t \in Tasks PROVE Left(t) \in 0..10
    OBVIOUS
  <2>1. MaxTries \in 1..2 /\ tries[t] \in 0..MaxTries
    BY <1>1 DEF MaxTries, IInv, TasksType
  <2>2. state[t] \in {"running", "looked", "pushed"} => tries[t] >= 1
    BY <1>1, <2>1 DEF IInv, TasksInv
  <2>3. StepsOfTry(t) \in 0..3 /\ (StepsOfTry(t) > 0 => tries[t] >= 1)
    BY <2>2 DEF StepsOfTry
  <2> QED
    BY <2>1, <2>3 DEF Left
<1>2. ASSUME IInv, [Next]_vars PROVE [OneSpent]_vars
  <2>1. checks \subseteq Tasks /\ Compile \in Tasks
    BY DEF Tasks
  <2>2. \A t \in Tasks : tries[t] \in 0..MaxTries /\ MaxTries \in 1..2
    BY <1>2 DEF IInv, TasksType, MaxTries
  <2>3. ASSUME NEW t \in Tasks, BeginTry(t) PROVE OneSpent
    <3>1. tries[t] < MaxTries
      BY <1>2, <2>2, <2>3 DEF BeginTry, Idle, IInv, TasksInv
    <3>2. /\ state[t] \in {"queued", "retry"} /\ state'[t] = "running"
          /\ tries'[t] = tries[t] + 1 /\ UNCHANGED checks
          /\ \A u \in Tasks \ {t} : state'[u] = state[u] /\ tries'[u] = tries[u]
      BY <1>2, <2>3 DEF BeginTry, Idle, IInv, TasksType
    <3> QED
      BY <1>2, <3>1, <3>2, TaskMoves DEF OneSpent
  <2>4. ASSUME NEW t \in Tasks, Return(t) PROVE OneSpent
    <3>1. /\ state[t] = "pushed" /\ state'[t] = "success" /\ UNCHANGED <<checks, tries>>
          /\ \A u \in Tasks \ {t} : state'[u] = state[u]
      BY <1>2, <2>4 DEF Return, IInv, TasksType
    <3> QED
      BY <1>2, <3>1, TaskMoves DEF OneSpent
  <2>5. ASSUME NEW c \in checks, Look(c) PROVE OneSpent
    <3>1. /\ state[c] = "running" /\ state'[c] = "looked" /\ UNCHANGED <<checks, tries>>
          /\ \A u \in Tasks \ {c} : state'[u] = state[u]
      BY <1>2, <2>1, <2>5 DEF Look, IInv, TasksType
    <3> QED
      BY <1>2, <2>1, <3>1, TaskMoves DEF OneSpent
  <2>6. ASSUME NEW c \in checks, Push(c) PROVE OneSpent
    <3>1. /\ state[c] = "looked" /\ state'[c] = "pushed" /\ UNCHANGED <<checks, tries>>
          /\ \A u \in Tasks \ {c} : state'[u] = state[u]
      BY <1>2, <2>1, <2>6 DEF Push, IInv, TasksType
    <3> QED
      BY <1>2, <2>1, <3>1, TaskMoves DEF OneSpent
  <2>7. ASSUME Announce \/ WriteReport PROVE OneSpent
    <3>1. /\ \/ state[Compile] = "running" /\ state'[Compile] = "looked"
             \/ state[Compile] = "looked" /\ state'[Compile] = "pushed"
          /\ UNCHANGED <<checks, tries>>
          /\ \A u \in Tasks \ {Compile} : state'[u] = state[u]
      BY <1>2, <2>1, <2>7 DEF Announce, WriteReport, IInv, TasksType
    <3> QED
      BY <1>2, <2>1, <3>1, TaskMoves DEF OneSpent
  <2>8. ASSUME NEW t \in Tasks, WorkerDies(t) PROVE OneSpent
    <3>1. /\ state[t] \in {"running", "looked", "pushed"}
          /\ state'[t] \in {"retry", "success", "failed"} /\ UNCHANGED <<checks, tries>>
          /\ \A u \in Tasks \ {t} : state'[u] = state[u]
      BY <1>2, <2>8 DEF WorkerDies, Active, IInv, TasksType
    <3> QED
      BY <1>2, <3>1, TaskMoves DEF OneSpent
  <2> QED
    BY <2>3, <2>4, <2>5, <2>6, <2>7, <2>8 DEF Work, TaskStep, CheckStep, OneSpent
<1> QED
  BY <1>1, <1>2, MonitorsInvariant, PTL DEF Spec
=============================================================================
