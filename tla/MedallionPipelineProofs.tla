----------------------- MODULE MedallionPipelineProofs -----------------------
(***************************************************************************)
(* Proofs about MedallionPipeline for any choice of tasks, retries, dates  *)
(* and failures.                                                           *)
(***************************************************************************)
EXTENDS MedallionPipeline, TLAPS

\* No table is of a run that has not started, and a task that succeeded in the
\* latest run has written its tables in it.
TableInv ==
  /\ \A t \in SilverTasks : /\ silver[t] <= runNo[B2S]
                            /\ ti[t] = "success" => silver[t] = runNo[B2S]
  /\ \A g \in GoldTasks : /\ gold[g] <= runNo[S2G]
                          /\ mart <= gold[g]
                          /\ ti[g] = "success" => gold[g] = runNo[S2G]
  /\ ti["run_marts"] = "success" => mart = runNo[S2G]

\* A run's Silver tables are written after its check has found something.
CheckInv ==
  /\ ti["check_bronze_freshness"] = "success" => fresh # {}
  /\ \A t \in SilverTasks : runNo[B2S] > 0 /\ silver[t] = runNo[B2S]
                              => ti["check_bronze_freshness"] = "success"
  /\ \A t \in TasksOf(B2S) : ti[t] # "none" => ti["check_bronze_freshness"] # "none"

\* What a task instance owes its state to.
CauseInv ==
  \A t \in Tasks :
    /\ ti[t] = "failed" => t \in alerted
    /\ ti[t] = "upstream_failed" =>
         \E u \in TasksOf(DagOf(t)) : Stage(u) < Stage(t) /\ ti[u] = "failed"
    /\ ti[t] = "skipped" => /\ DagOf(t) = B2S
                            /\ ti["check_bronze_freshness"] = "skipped"

\* Nothing of an ended run is left to do.
EndInv == \A d \in Dags : Ended(d) => \A t \in TasksOf(d) : ti[t] # "none"

\* What the metadata task has left of a run: its row if it had no data, and no row
\* that was written before the check has looked, unless the check was cleared since.
RecordInv ==
  /\ \A n \in rows : n <= runNo[B2S]
  /\ runNo[B2S] \in rows /\ clears = 0 =>
       fresh = {} /\ ti["check_bronze_freshness"] # "none"
  /\ ti["update_pipeline_metadata"] \in {"none", "success", "failed"}
  /\ ti["update_pipeline_metadata"] = "success" /\ fresh = {}
       => runNo[B2S] \in rows \/ lostRow

IInv == TypeOK /\ TableInv /\ CheckInv /\ CauseInv /\ EndInv /\ RecordInv

-----------------------------------------------------------------------------
(* Facts about the shape of the DAGs.                                      *)

\* The two DAGs have no task in common, and a task's DAG is the one it is in.
LEMMA DagsDisjoint ==
  /\ Tasks = TasksOf(B2S) \cup TasksOf(S2G)
  /\ \A t \in TasksOf(B2S) : t \notin TasksOf(S2G) /\ DagOf(t) = B2S
  /\ \A t \in TasksOf(S2G) : t \notin TasksOf(B2S) /\ DagOf(t) = S2G
BY ConstantsAssumption
   DEF Tasks, TasksOf, DagOf, B2S, S2G, AllSilverTasks, AllGoldTasks

\* Where each task stands.
LEMMA Members ==
  /\ B2S \in Dags /\ S2G \in Dags /\ B2S # S2G
  /\ SilverTasks \subseteq TasksOf(B2S)
  /\ GoldTasks \subseteq TasksOf(S2G)
  /\ "check_bronze_freshness" \in TasksOf(B2S)
  /\ "update_pipeline_metadata" \in TasksOf(B2S)
  /\ "wait_for_silver_pipeline" \in TasksOf(S2G)
  /\ "run_marts" \in TasksOf(S2G)
  /\ "refresh_grafana_alerts" \in TasksOf(S2G)
BY DEF TasksOf, B2S, S2G, Dags

\* The tasks with a body of their own write no table.
LEMMA NoTables ==
  \A t \in {"check_bronze_freshness", "update_pipeline_metadata",
            "wait_for_silver_pipeline", "refresh_grafana_alerts"} :
    t \notin SilverTasks /\ t \notin GoldTasks /\ t # "run_marts"
BY ConstantsAssumption DEF AllSilverTasks, AllGoldTasks

\* The stages of the tasks that the invariants name.
LEMMA Stages ==
  /\ \A t \in Tasks : Stage(t) \in 1..7
  /\ Stage("check_bronze_freshness") = 1
  /\ Stage("wait_for_silver_pipeline") = 1
  /\ \A t \in SilverTasks : Stage(t) = 2
  /\ Stage("run_dbt_snapshots") = 2
  /\ \A t \in GoldTasks : Stage(t) = 3
  /\ Stage("test_silver_models") = 3
  /\ Stage("run_data_quality_checks") = 4
  /\ Stage("run_marts") = 4
  /\ Stage("update_pipeline_metadata") = 5
  /\ Stage("test_gold_and_marts") = 5
  /\ Stage("sync_to_clickhouse") = 6
  /\ Stage("refresh_grafana_alerts") = 7
BY ConstantsAssumption DEF Stage, Tasks, TasksOf, AllSilverTasks, AllGoldTasks

\* What is directly upstream of a task is in its DAG and a stage before it; only
\* the first task of a DAG has nothing upstream.
LEMMA Upstreams ==
  /\ \A t \in Tasks : \A u \in Upstream(t) :
       u \in TasksOf(DagOf(t)) /\ u \in Tasks /\ Stage(u) < Stage(t)
  /\ \A t \in SilverTasks : "check_bronze_freshness" \in Upstream(t)
  /\ GoldTasks \subseteq Upstream("run_marts")
  /\ \A t \in TasksOf(B2S) \ {"check_bronze_freshness"} : Upstream(t) # {}
  /\ \A t \in SilverTasks \cup GoldTasks \cup {"run_marts"} : t \notin AllDone
<1>1. \A t \in Tasks : \A u \in Upstream(t) :
        u \in TasksOf(DagOf(t)) /\ u \in Tasks /\ Stage(u) < Stage(t)
  BY DagsDisjoint, Stages DEF Upstream
<1>2. \A t \in SilverTasks : "check_bronze_freshness" \in Upstream(t)
  BY DagsDisjoint, Members, Stages DEF Upstream
<1>3. GoldTasks \subseteq Upstream("run_marts")
  BY DagsDisjoint, Members, Stages DEF Upstream
<1>4. \A t \in TasksOf(B2S) \ {"check_bronze_freshness"} : Upstream(t) # {}
  <2>1. PICK s \in SilverTasks : TRUE
    BY ConstantsAssumption
  <2>2. /\ "test_silver_models" \in TasksOf(B2S)
        /\ "run_data_quality_checks" \in TasksOf(B2S)
    BY DEF TasksOf
  <2>3. \A t \in SilverTasks : "check_bronze_freshness" \in Upstream(t)
    BY <1>2
  <2>4. s \in Upstream("test_silver_models")
    BY <2>2, DagsDisjoint, Members, Stages DEF Upstream
  <2>5. "test_silver_models" \in Upstream("run_data_quality_checks")
    BY <2>2, DagsDisjoint, Stages DEF Upstream
  <2>6. "run_data_quality_checks" \in Upstream("update_pipeline_metadata")
    BY <2>2, DagsDisjoint, Members, Stages DEF Upstream
  <2> QED
    BY <2>3, <2>4, <2>5, <2>6 DEF TasksOf
<1>5. \A t \in SilverTasks \cup GoldTasks \cup {"run_marts"} : t \notin AllDone
  BY ConstantsAssumption DEF AllDone, AllSilverTasks, AllGoldTasks
<1> QED
  BY <1>1, <1>2, <1>3, <1>4, <1>5

\* The check is the first task of its DAG, and the only first one.
LEMMA OnlyCheckFirst ==
  \A t \in TasksOf(B2S) \ {"check_bronze_freshness"} : Stage(t) > 1
<1>1. \A t \in TasksOf(B2S) \ {"check_bronze_freshness"} :
        t \in SilverTasks \cup {"test_silver_models", "run_data_quality_checks",
                              "update_pipeline_metadata"}
  BY DEF TasksOf
<1> QED
  BY <1>1, Stages

\* The check waits for nothing.
LEMMA NoUpstreamOfCheck == Upstream("check_bronze_freshness") = {}
BY DagsDisjoint, Members, Stages DEF Upstream

-----------------------------------------------------------------------------
(* Type correctness.                                                       *)

\* Every step is one of the module's actions.
LEMMA Cases ==
  ASSUME Next
  PROVE  \/ \E d \in Dags : FinishRun(d)
         \/ \E d \in Dags : \E x \in Slots \cup HandDates : StartRun(d, x)
         \/ \E t \in Tasks : ClearTask(t)
         \/ \E t \in Tasks : MarkUpstreamFailed(t)
         \/ \E t \in Tasks : MarkSkipped(t)
         \/ \E t \in Tasks : TaskFails(t)
         \/ \E t \in Tasks : RunsCommand(t)
         \/ CheckBronzeFreshness
         \/ UpdatePipelineMetadata
         \/ WaitForSilverPipeline
         \/ SensorTimesOut
         \/ RefreshAndAlert
BY DEF Next, TaskStep

\* Each part of the type invariant is kept by every action.
LEMMA TypeStep ==
  ASSUME TypeOK, [Next]_vars
  PROVE  TypeOK'
<1>1. Slots \cup HandDates \subseteq Nat /\ \A t \in Tasks : DagOf(t) \in Dags
  BY ConstantsAssumption DEF DagOf, Dags
<1>2. \A t \in Tasks : Retries[DagOf(t)] \in Nat
  BY <1>1, ConstantsAssumption
<1>3. ASSUME NEW d \in Dags, FinishRun(d) PROVE TypeOK'
  <2>1. RunsTyped'
    BY <1>3 DEF TypeOK, RunsTyped, FinishRun
  <2>2. TasksTyped'
    BY <1>3 DEF TypeOK, TasksTyped, FinishRun
  <2>3. TablesTyped'
    BY <1>3 DEF TypeOK, TablesTyped, FinishRun, tables, meta
  <2>4. MarksTyped'
    BY <1>3 DEF TypeOK, MarksTyped, FinishRun, meta
  <2> QED
    BY <2>1, <2>2, <2>3, <2>4 DEF TypeOK
<1>4. ASSUME NEW d \in Dags, NEW x \in Slots \cup HandDates, StartRun(d, x) PROVE TypeOK'
  <2>1. RunsTyped'
    BY <1>1, <1>4 DEF TypeOK, RunsTyped, StartRun
  <2>2. TasksTyped'
    BY <1>2, <1>4 DEF TypeOK, TasksTyped, StartRun, TaskStates
  <2>3. TablesTyped'
    BY <1>4 DEF TypeOK, TablesTyped, StartRun, tables
  <2>4. MarksTyped'
    BY <1>4 DEF TypeOK, MarksTyped, StartRun
  <2> QED
    BY <2>1, <2>2, <2>3, <2>4 DEF TypeOK
<1>5. ASSUME NEW t \in Tasks, ClearTask(t) PROVE TypeOK'
  <2>1. RunsTyped'
    BY <1>5, Members, DagsDisjoint DEF TypeOK, RunsTyped, ClearTask
  <2>2. TasksTyped'
    BY <1>2, <1>5 DEF TypeOK, TasksTyped, ClearTask, TaskStates
  <2>3. TablesTyped'
    BY <1>5 DEF TypeOK, TablesTyped, ClearTask, tables
  <2>4. MarksTyped'
    BY <1>5 DEF TypeOK, MarksTyped, ClearTask
  <2> QED
    BY <2>1, <2>2, <2>3, <2>4 DEF TypeOK
<1>6. ASSUME NEW t \in Tasks, MarkUpstreamFailed(t) PROVE TypeOK'
  <2>1. RunsTyped'
    BY <1>6 DEF TypeOK, RunsTyped, MarkUpstreamFailed, scheduler
  <2>2. TasksTyped'
    BY <1>6 DEF TypeOK, TasksTyped, MarkUpstreamFailed, TaskStates
  <2>3. TablesTyped'
    BY <1>6 DEF TypeOK, TablesTyped, MarkUpstreamFailed, tables, meta
  <2>4. MarksTyped'
    BY <1>6 DEF TypeOK, MarksTyped, MarkUpstreamFailed, meta
  <2> QED
    BY <2>1, <2>2, <2>3, <2>4 DEF TypeOK
<1>7. ASSUME NEW t \in Tasks, MarkSkipped(t) PROVE TypeOK'
  <2>1. RunsTyped'
    BY <1>7 DEF TypeOK, RunsTyped, MarkSkipped, scheduler
  <2>2. TasksTyped'
    BY <1>7 DEF TypeOK, TasksTyped, MarkSkipped, TaskStates
  <2>3. TablesTyped'
    BY <1>7 DEF TypeOK, TablesTyped, MarkSkipped, tables, meta
  <2>4. MarksTyped'
    BY <1>7 DEF TypeOK, MarksTyped, MarkSkipped, meta
  <2> QED
    BY <2>1, <2>2, <2>3, <2>4 DEF TypeOK
<1>8. ASSUME NEW t \in Tasks, TaskFails(t) PROVE TypeOK'
  <2>1. RunsTyped'
    BY <1>8 DEF TypeOK, RunsTyped, TaskFails, scheduler
  <2>2. TasksTyped'
    BY <1>2, <1>8
       DEF TypeOK, TasksTyped, TaskFails, TaskStates, RetryOrFail, FailForGood,
           RetriesLeft, NextTry, Reported
  <2>3. TablesTyped'
    BY <1>8, Members
       DEF TypeOK, RunsTyped, TablesTyped, TaskFails, tables, WriteTables, WithRow
  <2>4. MarksTyped'
    BY <1>8, Members DEF TypeOK, RunsTyped, MarksTyped, TaskFails
  <2> QED
    BY <2>1, <2>2, <2>3, <2>4 DEF TypeOK
<1>9. ASSUME NEW t \in Tasks, RunsCommand(t) PROVE TypeOK'
  <2>1. RunsTyped'
    BY <1>9 DEF TypeOK, RunsTyped, RunsCommand, scheduler
  <2>2. TasksTyped'
    BY <1>9 DEF TypeOK, TasksTyped, RunsCommand, TaskStates
  <2>3. TablesTyped'
    BY <1>9, Members
       DEF TypeOK, RunsTyped, TablesTyped, RunsCommand, meta, WriteTables
  <2>4. MarksTyped'
    BY <1>9 DEF TypeOK, MarksTyped, RunsCommand, meta
  <2> QED
    BY <2>1, <2>2, <2>3, <2>4 DEF TypeOK
<1>10. ASSUME CheckBronzeFreshness PROVE TypeOK'
  <2>1. RunsTyped'
    BY <1>10 DEF TypeOK, RunsTyped, CheckBronzeFreshness, scheduler
  <2>2. TasksTyped'
    BY <1>10
       DEF TypeOK, TasksTyped, CheckBronzeFreshness, TaskStates, FreshnessVerdict
  <2>3. TablesTyped'
    BY <1>10 DEF TypeOK, TablesTyped, CheckBronzeFreshness, tables, meta
  <2>4. MarksTyped'
    BY <1>10 DEF TypeOK, MarksTyped, CheckBronzeFreshness, meta
  <2> QED
    BY <2>1, <2>2, <2>3, <2>4 DEF TypeOK
<1>11. ASSUME UpdatePipelineMetadata PROVE TypeOK'
  <2>1. RunsTyped'
    BY <1>11 DEF TypeOK, RunsTyped, UpdatePipelineMetadata, scheduler
  <2>2. TasksTyped'
    BY <1>11 DEF TypeOK, TasksTyped, UpdatePipelineMetadata, TaskStates
  <2>3. TablesTyped'
    BY <1>11, Members
       DEF TypeOK, RunsTyped, TablesTyped, UpdatePipelineMetadata, tables, WithRow
  <2>4. MarksTyped'
    BY <1>11, Members DEF TypeOK, RunsTyped, MarksTyped, UpdatePipelineMetadata
  <2> QED
    BY <2>1, <2>2, <2>3, <2>4 DEF TypeOK
<1>12. ASSUME WaitForSilverPipeline PROVE TypeOK'
  <2>1. RunsTyped'
    BY <1>12 DEF TypeOK, RunsTyped, WaitForSilverPipeline, scheduler
  <2>2. TasksTyped'
    BY <1>2, <1>12, Members, DagsDisjoint
       DEF TypeOK, TasksTyped, WaitForSilverPipeline, TaskStates, RetryOrFail,
           FailForGood, RetriesLeft, NextTry, Reported
  <2>3. TablesTyped'
    BY <1>12 DEF TypeOK, TablesTyped, WaitForSilverPipeline, tables, meta
  <2>4. MarksTyped'
    BY <1>12 DEF TypeOK, MarksTyped, WaitForSilverPipeline, meta
  <2> QED
    BY <2>1, <2>2, <2>3, <2>4 DEF TypeOK
<1>13. ASSUME SensorTimesOut PROVE TypeOK'
  <2>1. RunsTyped'
    BY <1>13 DEF TypeOK, RunsTyped, SensorTimesOut, scheduler
  <2>2. TasksTyped'
    BY <1>13, Members, DagsDisjoint
       DEF TypeOK, TasksTyped, SensorTimesOut, TaskStates, FailForGood, Reported
  <2>3. TablesTyped'
    BY <1>13 DEF TypeOK, TablesTyped, SensorTimesOut, tables, meta
  <2>4. MarksTyped'
    BY <1>13 DEF TypeOK, MarksTyped, SensorTimesOut, meta
  <2> QED
    BY <2>1, <2>2, <2>3, <2>4 DEF TypeOK
<1>14. ASSUME RefreshAndAlert PROVE TypeOK'
  <2>1. RunsTyped'
    BY <1>14 DEF TypeOK, RunsTyped, RefreshAndAlert, scheduler
  <2>2. TasksTyped'
    BY <1>14 DEF TypeOK, TasksTyped, RefreshAndAlert, TaskStates
  <2>3. TablesTyped'
    BY <1>14 DEF TypeOK, TablesTyped, RefreshAndAlert, tables, meta
  <2>4. MarksTyped'
    BY <1>14 DEF TypeOK, MarksTyped, RefreshAndAlert, meta
  <2> QED
    BY <2>1, <2>2, <2>3, <2>4 DEF TypeOK
<1>15. ASSUME UNCHANGED vars PROVE TypeOK'
  <2>1. RunsTyped'
    BY <1>15 DEF TypeOK, RunsTyped, vars, scheduler
  <2>2. TasksTyped'
    BY <1>15 DEF TypeOK, TasksTyped, vars
  <2>3. TablesTyped'
    BY <1>15 DEF TypeOK, TablesTyped, vars, tables, meta
  <2>4. MarksTyped'
    BY <1>15 DEF TypeOK, MarksTyped, vars, meta
  <2> QED
    BY <2>1, <2>2, <2>3, <2>4 DEF TypeOK
<1> QED
  BY <1>3, <1>4, <1>5, <1>6, <1>7, <1>8, <1>9, <1>10, <1>11, <1>12, <1>13, <1>14,
     <1>15, Cases

\* The table numbers are kept: a task writes the number of its own run, the marts only
\* after all Gold tasks succeeded in it.
LEMMA TableStep ==
  ASSUME TypeOK, TypeOK', TableInv, [Next]_vars
  PROVE  TableInv'
<1> USE DEF RunsTyped, TasksTyped, TablesTyped
<1>1. ASSUME NEW d \in Dags, FinishRun(d) PROVE TableInv'
  BY <1>1 DEF TableInv, FinishRun, tables
<1>2. ASSUME NEW d \in Dags, NEW x \in Slots \cup HandDates, StartRun(d, x) PROVE TableInv'
  BY <1>2, Members, DagsDisjoint DEF TypeOK, TableInv, StartRun, tables
<1>3. ASSUME NEW t \in Tasks, ClearTask(t) PROVE TableInv'
  BY <1>3, Members, DagsDisjoint DEF TableInv, ClearTask, tables
<1>4. ASSUME NEW t \in Tasks, MarkUpstreamFailed(t) PROVE TableInv'
  BY <1>4 DEF TableInv, MarkUpstreamFailed, scheduler, tables
<1>5. ASSUME NEW t \in Tasks, MarkSkipped(t) PROVE TableInv'
  BY <1>5 DEF TableInv, MarkSkipped, scheduler, tables
<1>6. ASSUME NEW t \in Tasks, TaskFails(t) PROVE TableInv'
  BY <1>6, Members, DagsDisjoint, Upstreams
     DEF TypeOK, TableInv, TaskFails, scheduler, tables, RetryOrFail, FailForGood,
         WriteTables, Ready
<1>7. ASSUME NEW t \in Tasks, RunsCommand(t) PROVE TableInv'
  BY <1>7, Upstreams DEF TypeOK, TableInv, RunsCommand, scheduler, WriteTables, Ready
<1>8. ASSUME CheckBronzeFreshness PROVE TableInv'
  BY <1>8, NoTables DEF TableInv, CheckBronzeFreshness, scheduler, tables
<1>9. ASSUME UpdatePipelineMetadata PROVE TableInv'
  BY <1>9, NoTables DEF TableInv, UpdatePipelineMetadata, scheduler, tables
<1>10. ASSUME WaitForSilverPipeline PROVE TableInv'
  BY <1>10, Members, DagsDisjoint, NoTables
     DEF TypeOK, TableInv, WaitForSilverPipeline, scheduler, tables, RetryOrFail,
         FailForGood
<1>11. ASSUME SensorTimesOut PROVE TableInv'
  BY <1>11 DEF TableInv, SensorTimesOut, scheduler, tables, FailForGood
<1>12. ASSUME RefreshAndAlert PROVE TableInv'
  BY <1>12, NoTables DEF TableInv, RefreshAndAlert, scheduler, tables
<1>13. ASSUME UNCHANGED vars PROVE TableInv'
  BY <1>13 DEF TableInv, vars, scheduler, tables
<1> QED
  BY <1>1, <1>2, <1>3, <1>4, <1>5, <1>6, <1>7, <1>8, <1>9, <1>10, <1>11, <1>12, <1>13,
     Cases

\* Silver is written, and anything of the run begun, only once the check is through.
LEMMA CheckStep ==
  ASSUME TypeOK, TypeOK', TableInv, CheckInv, [Next]_vars
  PROVE  CheckInv'
<1> USE DEF RunsTyped, TasksTyped, TablesTyped
<1>1. ASSUME NEW d \in Dags, FinishRun(d) PROVE CheckInv'
  BY <1>1 DEF CheckInv, FinishRun, tables
<1>2. ASSUME NEW d \in Dags, NEW x \in Slots \cup HandDates, StartRun(d, x) PROVE CheckInv'
  <2>1. runNo'[d] = runNo[d] + 1 /\ silver' = silver
    BY <1>2 DEF StartRun, tables, TypeOK
  <2>2. CASE d = B2S
    <3>1. \A t \in SilverTasks : silver'[t] < runNo'[B2S]
      BY <2>1, <2>2 DEF TableInv, TypeOK
    <3>2. \A t \in TasksOf(B2S) : ti'[t] = "none"
      BY <1>2, <2>2, DagsDisjoint DEF StartRun
    <3> QED
      BY <3>1, <3>2, Members DEF CheckInv, TypeOK
  <2>3. CASE d = S2G
    <3>1. \A t \in TasksOf(B2S) : ti'[t] = ti[t]
      BY <1>2, <2>3, DagsDisjoint DEF StartRun
    <3>2. fresh' = fresh /\ runNo'[B2S] = runNo[B2S]
      BY <1>2, <2>3, Members DEF StartRun
    <3> QED
      BY <2>1, <3>1, <3>2, Members DEF CheckInv
  <2> QED
    BY <2>2, <2>3 DEF Dags
<1>3. ASSUME NEW t \in Tasks, ClearTask(t) PROVE CheckInv'
  <2> DEFINE cleared == {t} \cup Downstream(t)
  <2>1. /\ ti[t] = "failed"
        /\ ti' = [u \in Tasks |-> IF u \in cleared THEN "none" ELSE ti[u]]
        /\ fresh' = fresh /\ silver' = silver /\ runNo' = runNo
    BY <1>3 DEF ClearTask, tables
  <2>2. "check_bronze_freshness" \in cleared
          => t = "check_bronze_freshness"
    BY Stages DEF Downstream
  <2>3. CASE t = "check_bronze_freshness"
    <3>1. \A u \in TasksOf(B2S) : u \in cleared
      BY <2>3, Stages, OnlyCheckFirst, Members, DagsDisjoint DEF Downstream
    <3> QED
      BY <2>1, <2>3, <3>1, DagsDisjoint DEF CheckInv
  <2>4. CASE t # "check_bronze_freshness"
    <3>1. ti'["check_bronze_freshness"] = ti["check_bronze_freshness"]
      BY <2>1, <2>2, <2>4, Members, DagsDisjoint
    <3>2. \A u \in TasksOf(B2S) : ti'[u] # "none" => ti[u] # "none"
      BY <2>1, DagsDisjoint
    <3> QED
      BY <2>1, <3>1, <3>2 DEF CheckInv
  <2> QED
    BY <2>3, <2>4
<1>4. ASSUME NEW t \in Tasks, MarkUpstreamFailed(t) PROVE CheckInv'
  <2>1. ti' = [ti EXCEPT ![t] = "upstream_failed"] /\ t # "check_bronze_freshness"
    BY <1>4, NoUpstreamOfCheck DEF MarkUpstreamFailed
  <2>2. \E u \in Upstream(t) : ti[u] # "none" /\ (t \in TasksOf(B2S) => u \in TasksOf(B2S))
    BY <1>4, Upstreams, DagsDisjoint DEF MarkUpstreamFailed, Broken
  <2>3. fresh' = fresh /\ silver' = silver /\ runNo' = runNo
    BY <1>4 DEF MarkUpstreamFailed, scheduler, tables
  <2> QED
    BY <2>1, <2>2, <2>3 DEF CheckInv
<1>5. ASSUME NEW t \in Tasks, MarkSkipped(t) PROVE CheckInv'
  <2>1. ti' = [ti EXCEPT ![t] = "skipped"] /\ t # "check_bronze_freshness"
    BY <1>5, NoUpstreamOfCheck DEF MarkSkipped
  <2>2. \E u \in Upstream(t) : ti[u] # "none" /\ (t \in TasksOf(B2S) => u \in TasksOf(B2S))
    BY <1>5, Upstreams, DagsDisjoint DEF MarkSkipped
  <2>3. fresh' = fresh /\ silver' = silver /\ runNo' = runNo
    BY <1>5 DEF MarkSkipped, scheduler, tables
  <2> QED
    BY <2>1, <2>2, <2>3 DEF CheckInv
<1>6. ASSUME NEW t \in Tasks, TaskFails(t) PROVE CheckInv'
  <2>1. runNo' = runNo /\ RetryOrFail(t)
    BY <1>6 DEF TaskFails, scheduler
  <2>2. \A u \in Tasks : u # t => ti'[u] = ti[u]
    BY <2>1 DEF RetryOrFail, FailForGood, TypeOK
  <2>3. ti'[t] \in {"none", "failed"}
    BY <1>6 DEF TaskFails, RetryOrFail, FailForGood, Ready, Pending, TypeOK
  <2>4. ti[t] = "none"
    BY <1>6 DEF TaskFails, Ready, Pending
  <2>5. \A s \in SilverTasks : silver'[s] = silver[s] \/ (s = t /\ silver'[s] = runNo[B2S])
    BY <1>6 DEF TaskFails, WriteTables, tables
  <2>6. t # "check_bronze_freshness" => fresh' = fresh
    BY <1>6 DEF TaskFails
  <2>7. t \in SilverTasks => ti["check_bronze_freshness"] = "success"
    BY <1>6, Upstreams DEF TaskFails, Ready
  <2>8. t \in TasksOf(B2S) /\ t # "check_bronze_freshness"
          => ti["check_bronze_freshness"] # "none"
    BY <1>6, Upstreams, DagsDisjoint DEF TaskFails, Ready, CheckInv
  <2>9. \A s \in SilverTasks : s # "check_bronze_freshness"
    BY NoTables
  <2> QED
    BY <2>1, <2>2, <2>3, <2>4, <2>5, <2>6, <2>7, <2>8, Members, DagsDisjoint
       DEF CheckInv
<1>7. ASSUME NEW t \in Tasks, RunsCommand(t) PROVE CheckInv'
  BY <1>7, DagsDisjoint, Upstreams
     DEF CheckInv, RunsCommand, scheduler, WriteTables, Ready
<1>8. ASSUME CheckBronzeFreshness PROVE CheckInv'
  BY <1>8
     DEF CheckInv, CheckBronzeFreshness, scheduler, tables, FreshnessVerdict, Ready,
         Pending
<1>9. ASSUME UpdatePipelineMetadata PROVE CheckInv'
  BY <1>9, DagsDisjoint, Upstreams
     DEF CheckInv, UpdatePipelineMetadata, scheduler, tables, Ready
<1>10. ASSUME WaitForSilverPipeline PROVE CheckInv'
  BY <1>10, Members, DagsDisjoint
     DEF TypeOK, CheckInv, WaitForSilverPipeline, scheduler, tables, RetryOrFail,
         FailForGood
<1>11. ASSUME SensorTimesOut PROVE CheckInv'
  BY <1>11, Members, DagsDisjoint
     DEF CheckInv, SensorTimesOut, scheduler, tables, FailForGood
<1>12. ASSUME RefreshAndAlert PROVE CheckInv'
  BY <1>12, Members, DagsDisjoint DEF CheckInv, RefreshAndAlert, scheduler, tables
<1>13. ASSUME UNCHANGED vars PROVE CheckInv'
  BY <1>13 DEF CheckInv, vars, scheduler, tables
<1> QED
  BY <1>1, <1>2, <1>3, <1>4, <1>5, <1>6, <1>7, <1>8, <1>9, <1>10, <1>11, <1>12, <1>13,
     Cases

\* States keep their causes: Clear takes what hangs on a cleared task along.
LEMMA CauseStep ==
  ASSUME TypeOK, TypeOK', CauseInv, [Next]_vars
  PROVE  CauseInv'
<1> USE DEF RunsTyped, TasksTyped, TablesTyped
<1>1. ASSUME NEW d \in Dags, FinishRun(d) PROVE CauseInv'
  BY <1>1 DEF CauseInv, FinishRun
<1>2. ASSUME NEW d \in Dags, NEW x \in Slots \cup HandDates, StartRun(d, x) PROVE CauseInv'
  BY <1>2, Members, DagsDisjoint DEF CauseInv, StartRun
<1>3. ASSUME NEW t \in Tasks, ClearTask(t) PROVE CauseInv'
  <2> DEFINE cleared == {t} \cup Downstream(t)
  <2>1. /\ ti[t] = "failed"
        /\ ti' = [u \in Tasks |-> IF u \in cleared THEN "none" ELSE ti[u]]
        /\ alerted' = alerted \ cleared
    BY <1>3 DEF ClearTask
  <2>2. cleared \subseteq TasksOf(DagOf(t)) /\ \A u \in cleared : u \in Tasks /\ DagOf(u) = DagOf(t)
    BY DagsDisjoint DEF Downstream
  <2>3. \A u \in cleared : Stage(u) >= Stage(t)
    BY <2>2, Stages DEF Downstream
  <2>4. ti["check_bronze_freshness"] = "skipped" => "check_bronze_freshness" \notin cleared
    BY <2>1, Stages DEF Downstream
  <2> SUFFICES ASSUME NEW u \in Tasks, u \notin cleared
               PROVE  /\ ti[u] = "failed" => u \in alerted'
                      /\ ti[u] = "upstream_failed" =>
                           \E w \in TasksOf(DagOf(u)) : Stage(w) < Stage(u) /\ ti'[w] = "failed"
                      /\ ti[u] = "skipped" =>
                           DagOf(u) = B2S /\ ti'["check_bronze_freshness"] = "skipped"
    BY <2>1 DEF CauseInv
  <2>5. ti[u] = "failed" => u \in alerted'
    BY <2>1 DEF CauseInv
  <2>6. ASSUME ti[u] = "upstream_failed"
        PROVE  \E w \in TasksOf(DagOf(u)) : Stage(w) < Stage(u) /\ ti'[w] = "failed"
    <3>1. PICK w \in TasksOf(DagOf(u)) : Stage(w) < Stage(u) /\ ti[w] = "failed"
      BY <2>6 DEF CauseInv
    <3>2. w \in Tasks /\ DagOf(w) = DagOf(u)
      BY DagsDisjoint
    <3>3. CASE w \in cleared
      <4>1. DagOf(t) = DagOf(u) /\ Stage(u) > Stage(t)
        BY <2>2, <2>3, <3>1, <3>2, <3>3, Stages
      <4>2. u \in TasksOf(DagOf(t))
        BY <4>1, DagsDisjoint
      <4> QED
        BY <4>1, <4>2 DEF Downstream
    <3>4. CASE w \notin cleared
      BY <2>1, <3>1, <3>2, <3>4
    <3> QED
      BY <3>3, <3>4
  <2>7. ti[u] = "skipped" => DagOf(u) = B2S /\ ti'["check_bronze_freshness"] = "skipped"
    BY <2>1, <2>4, Members, DagsDisjoint DEF CauseInv
  <2> QED
    BY <2>5, <2>6, <2>7
<1>4. ASSUME NEW t \in Tasks, MarkUpstreamFailed(t) PROVE CauseInv'
  <2>1. /\ ti[t] = "none"
        /\ ti' = [ti EXCEPT ![t] = "upstream_failed"]
        /\ alerted' = alerted
    BY <1>4 DEF MarkUpstreamFailed, Pending
  <2>2. PICK u \in Upstream(t) : ti[u] \in Broken
    BY <1>4 DEF MarkUpstreamFailed
  <2>3. u \in Tasks /\ u \in TasksOf(DagOf(t)) /\ DagOf(u) = DagOf(t) /\ Stage(u) < Stage(t)
    BY Upstreams, DagsDisjoint
  <2>4. \E w \in TasksOf(DagOf(t)) : Stage(w) < Stage(t) /\ ti[w] = "failed"
    <3>1. CASE ti[u] = "failed"
      BY <2>3, <3>1
    <3>2. CASE ti[u] = "upstream_failed"
      <4>1. PICK w \in TasksOf(DagOf(t)) : Stage(w) < Stage(u) /\ ti[w] = "failed"
        BY <2>3, <3>2 DEF CauseInv
      <4> QED
        BY <2>3, <4>1, Stages, DagsDisjoint
    <3> QED
      BY <2>2, <3>1, <3>2 DEF Broken
  <2>5. \A w \in Tasks : w # t => ti'[w] = ti[w]
    BY <2>1
  <2>6. \A w \in Tasks : ti[w] = "failed" => ti'[w] = "failed"
    BY <2>1
  <2>7. \A d \in Dags : TasksOf(d) \subseteq Tasks
    BY DagsDisjoint DEF Dags
  <2>8. ti'[t] = "upstream_failed"
    BY <2>1 DEF TypeOK
  <2>9. ti["check_bronze_freshness"] = "skipped" => ti'["check_bronze_freshness"] = "skipped"
    BY <2>1
  <2>10. \A w \in Tasks : DagOf(w) \in Dags
    BY DEF DagOf, Dags
  <2>11. \A w \in Tasks : ti'[w] = "upstream_failed" =>
           \E x \in TasksOf(DagOf(w)) : Stage(x) < Stage(w) /\ ti'[x] = "failed"
    BY <2>4, <2>5, <2>6, <2>7, <2>10 DEF CauseInv
  <2> QED
    BY <2>1, <2>11 DEF CauseInv
<1>5. ASSUME NEW t \in Tasks, MarkSkipped(t) PROVE CauseInv'
  BY <1>5, DagsDisjoint, Upstreams DEF CauseInv, MarkSkipped, Pending
<1>6. ASSUME NEW t \in Tasks, TaskFails(t) PROVE CauseInv'
  BY <1>6, Members, DagsDisjoint
     DEF TypeOK, CauseInv, TaskFails, RetryOrFail, FailForGood, Ready, Pending,
         Reported
<1>7. ASSUME NEW t \in Tasks, RunsCommand(t) PROVE CauseInv'
  BY <1>7 DEF CauseInv, RunsCommand, Ready, Pending
<1>8. ASSUME CheckBronzeFreshness PROVE CauseInv'
  BY <1>8, Members, DagsDisjoint
     DEF CauseInv, CheckBronzeFreshness, FreshnessVerdict, Ready, Pending
<1>9. ASSUME UpdatePipelineMetadata PROVE CauseInv'
  BY <1>9 DEF CauseInv, UpdatePipelineMetadata, Ready, Pending
<1>10. ASSUME WaitForSilverPipeline PROVE CauseInv'
  BY <1>10, Members, DagsDisjoint
     DEF TypeOK, CauseInv, WaitForSilverPipeline, RetryOrFail, FailForGood, Reported,
         Ready, Pending
<1>11. ASSUME SensorTimesOut PROVE CauseInv'
  BY <1>11 DEF CauseInv, SensorTimesOut, FailForGood, Reported
<1>12. ASSUME RefreshAndAlert PROVE CauseInv'
  BY <1>12 DEF CauseInv, RefreshAndAlert, Ready, Pending
<1>13. ASSUME UNCHANGED vars PROVE CauseInv'
  BY <1>13 DEF CauseInv, vars
<1> QED
  BY <1>1, <1>2, <1>3, <1>4, <1>5, <1>6, <1>7, <1>8, <1>9, <1>10, <1>11, <1>12, <1>13,
     Cases

\* A run ends with nothing left to do, and only a new or cleared run has work.
LEMMA EndStep ==
  ASSUME TypeOK, TypeOK', EndInv, [Next]_vars
  PROVE  EndInv'
<1> USE DEF RunsTyped, TasksTyped, TablesTyped
<1>1. ASSUME NEW d \in Dags, FinishRun(d) PROVE EndInv'
  BY <1>1 DEF EndInv, FinishRun, Ended
<1>2. ASSUME NEW d \in Dags, NEW x \in Slots \cup HandDates, StartRun(d, x) PROVE EndInv'
  <2>1. run' = [run EXCEPT ![d] = "running"]
    BY <1>2 DEF StartRun
  <2>2. \A e \in Dags : e # d => \A u \in TasksOf(e) : ti'[u] = ti[u]
    BY <1>2, DagsDisjoint DEF StartRun, Dags
  <2> QED
    BY <2>1, <2>2 DEF EndInv, Ended, TypeOK
<1>3. ASSUME NEW t \in Tasks, ClearTask(t) PROVE EndInv'
  <2>1. run' = [run EXCEPT ![DagOf(t)] = "running"]
    BY <1>3 DEF ClearTask
  <2>2. \A e \in Dags : e # DagOf(t) => \A u \in TasksOf(e) : u \notin {t} \cup Downstream(t)
    BY DagsDisjoint DEF Downstream, Dags
  <2>3. \A e \in Dags : e # DagOf(t) => \A u \in TasksOf(e) : ti'[u] = ti[u]
    BY <1>3, <2>2, DagsDisjoint DEF ClearTask, Dags
  <2> QED
    BY <2>1, <2>3 DEF EndInv, Ended, TypeOK
<1>4. ASSUME NEW t \in Tasks, MarkUpstreamFailed(t) PROVE EndInv'
  BY <1>4 DEF EndInv, MarkUpstreamFailed, scheduler, Ended
<1>5. ASSUME NEW t \in Tasks, MarkSkipped(t) PROVE EndInv'
  BY <1>5 DEF EndInv, MarkSkipped, scheduler, Ended
<1>6. ASSUME NEW t \in Tasks, TaskFails(t) PROVE EndInv'
  <2>1. \A u \in Tasks : ti[u] # "none" => ti'[u] # "none"
    BY <1>6 DEF TaskFails, RetryOrFail, FailForGood, TypeOK
  <2>2. run' = run
    BY <1>6 DEF TaskFails, scheduler
  <2> QED
    BY <2>1, <2>2, DagsDisjoint DEF EndInv, Ended, Dags
<1>7. ASSUME NEW t \in Tasks, RunsCommand(t) PROVE EndInv'
  BY <1>7 DEF EndInv, RunsCommand, scheduler, Ended
<1>8. ASSUME CheckBronzeFreshness PROVE EndInv'
  BY <1>8 DEF EndInv, CheckBronzeFreshness, scheduler, Ready, Pending, Ended
<1>9. ASSUME UpdatePipelineMetadata PROVE EndInv'
  BY <1>9 DEF EndInv, UpdatePipelineMetadata, scheduler, Ended
<1>10. ASSUME WaitForSilverPipeline PROVE EndInv'
  <2>1. \A u \in Tasks : ti[u] # "none" => ti'[u] # "none"
    BY <1>10 DEF WaitForSilverPipeline, RetryOrFail, FailForGood, TypeOK
  <2>2. run' = run
    BY <1>10 DEF WaitForSilverPipeline, scheduler
  <2> QED
    BY <2>1, <2>2, DagsDisjoint DEF EndInv, Ended, Dags
<1>11. ASSUME SensorTimesOut PROVE EndInv'
  BY <1>11 DEF EndInv, SensorTimesOut, scheduler, FailForGood, Ended
<1>12. ASSUME RefreshAndAlert PROVE EndInv'
  BY <1>12 DEF EndInv, RefreshAndAlert, scheduler, Ended
<1>13. ASSUME UNCHANGED vars PROVE EndInv'
  BY <1>13 DEF EndInv, vars, scheduler, Ended
<1> QED
  BY <1>1, <1>2, <1>3, <1>4, <1>5, <1>6, <1>7, <1>8, <1>9, <1>10, <1>11, <1>12, <1>13,
     Cases

\* The metadata task runs whatever came before it and inserts the row of an empty run.
LEMMA RecordStep ==
  ASSUME TypeOK, TypeOK', CheckInv, RecordInv, [Next]_vars
  PROVE  RecordInv'
<1> USE DEF RunsTyped, TasksTyped, TablesTyped
<1>0. "check_bronze_freshness" \in Tasks /\ "update_pipeline_metadata" \in Tasks
  BY Members, DagsDisjoint
<1>a. ASSUME Ready("update_pipeline_metadata") PROVE ti["check_bronze_freshness"] # "none"
  <2>1. PICK u \in Upstream("update_pipeline_metadata") : TRUE
    BY Upstreams, Members
  <2>2. u \in TasksOf(B2S) /\ ti[u] # "none"
    BY <1>0, <1>a, <2>1, Upstreams, Members, DagsDisjoint DEF Ready
  <2> QED
    BY <2>2 DEF CheckInv
<1>1. ASSUME NEW d \in Dags, FinishRun(d) PROVE RecordInv'
  BY <1>1 DEF RecordInv, FinishRun, meta
<1>2. ASSUME NEW d \in Dags, NEW x \in Slots \cup HandDates, StartRun(d, x) PROVE RecordInv'
  <2>1. /\ rows' = rows /\ clears' = clears /\ d \in Dags
        /\ runNo' = [runNo EXCEPT ![d] = @ + 1]
    BY <1>2 DEF StartRun
  <2>2. runNo \in [Dags -> Nat] /\ B2S \in Dags /\ S2G \in Dags /\ B2S # S2G
    BY DEF TypeOK, Dags, B2S, S2G
  <2>3. CASE d = B2S
    <3>1. runNo'[B2S] \notin rows' /\ \A n \in rows' : n <= runNo'[B2S]
      <4>1. rows' = rows /\ runNo'[B2S] = runNo[B2S] + 1 /\ runNo[B2S] \in Nat
        BY <2>1, <2>2, <2>3
      <4>2. ASSUME NEW n \in rows PROVE n <= runNo[B2S] /\ n \in Nat
        BY DEF RecordInv, TypeOK
      <4> QED
        BY <4>1, <4>2
    <3>2. ti'["update_pipeline_metadata"] = "none"
      BY <1>0, <1>2, <2>3, Members DEF StartRun
    <3> QED
      BY <3>1, <3>2 DEF RecordInv
  <2>4. CASE d = S2G
    <3>1. runNo'[B2S] = runNo[B2S] /\ fresh' = fresh /\ lostRow' = lostRow
      BY <1>2, <2>1, <2>2, <2>4 DEF StartRun
    <3>2. /\ ti'["update_pipeline_metadata"] = ti["update_pipeline_metadata"]
          /\ ti'["check_bronze_freshness"] = ti["check_bronze_freshness"]
      BY <1>2, <2>4, Members, DagsDisjoint DEF StartRun
    <3> QED
      BY <2>1, <3>1, <3>2 DEF RecordInv
  <2> QED
    BY <2>3, <2>4 DEF Dags
<1>3. ASSUME NEW t \in Tasks, ClearTask(t) PROVE RecordInv'
  <2>1. clears' = clears + 1 /\ clears \in Nat /\ rows' = rows /\ runNo' = runNo
    BY <1>3 DEF ClearTask, TypeOK
  <2>2. clears' # 0
    BY <2>1
  <2> QED
    BY <1>3, <2>1, <2>2, Members, DagsDisjoint DEF RecordInv, ClearTask
<1>4. ASSUME NEW t \in Tasks, MarkUpstreamFailed(t) PROVE RecordInv'
  BY <1>4 DEF RecordInv, MarkUpstreamFailed, scheduler, meta, AllDone
<1>5. ASSUME NEW t \in Tasks, MarkSkipped(t) PROVE RecordInv'
  BY <1>5 DEF RecordInv, MarkSkipped, scheduler, meta, AllDone
<1>6. ASSUME NEW t \in Tasks, TaskFails(t) PROVE RecordInv'
  <2> DEFINE check == "check_bronze_freshness"
             metadata == "update_pipeline_metadata"
  <2>1. /\ UNCHANGED <<runNo, clears, lostRow>>
        /\ Ready(t) /\ ti[t] = "none"
        /\ ti' = ti \/ ti' = [ti EXCEPT ![t] = "failed"]
        /\ rows' \in {rows, WithRow} /\ (t # metadata => rows' = rows)
        /\ t # check => fresh' = fresh
    BY <1>6 DEF TaskFails, scheduler, RetryOrFail, FailForGood, Ready, Pending
  <2>2. ti'[metadata] \in {"none", "failed"} \/ (ti'[metadata] = ti[metadata] /\ t # metadata)
    BY <2>1, <1>0 DEF TypeOK
  <2>3. t = metadata => ti[check] # "none"
    BY <1>a, <2>1
  <2>4. ti[check] # "none" => ti'[check] # "none"
    BY <2>1, <1>0 DEF TypeOK
  <2>5. CASE t = metadata
    <3>1. \A n \in rows' : n \in rows \/ (n = runNo[B2S] /\ fresh = {})
      BY <2>1 DEF WithRow, RowIsJson
    <3>2. ti'[metadata] # "success" /\ fresh' = fresh
      BY <2>1, <2>5, Members DEF TypeOK
    <3>3. runNo[B2S] \in Nat
      BY DEF TypeOK, Dags
    <3> QED
      BY <2>1, <2>2, <2>3, <2>4, <2>5, <3>1, <3>2, <3>3 DEF RecordInv
  <2>6. CASE t = check
    <3>1. rows' = rows /\ ti[check] = "none" /\ ti'[metadata] = ti[metadata]
      BY <2>1, <2>6, <1>0 DEF TypeOK
    <3>2. ti[metadata] = "none"
      BY <3>1, Members DEF CheckInv
    <3> QED
      BY <2>1, <3>1, <3>2 DEF RecordInv
  <2>7. CASE t \notin {check, metadata}
    BY <2>1, <2>2, <2>4, <2>7 DEF RecordInv
  <2> QED
    BY <2>5, <2>6, <2>7
<1>7. ASSUME NEW t \in Tasks, RunsCommand(t) PROVE RecordInv'
  BY <1>7 DEF RecordInv, RunsCommand, scheduler, meta
<1>8. ASSUME CheckBronzeFreshness PROVE RecordInv'
  <2> DEFINE check == "check_bronze_freshness"
  <2>1. /\ UNCHANGED <<runNo, clears, rows, lostRow>>
        /\ ti[check] = "none"
        /\ \A u \in Tasks : u # check => ti'[u] = ti[u]
    BY <1>0, <1>8 DEF CheckBronzeFreshness, Ready, Pending, scheduler, meta, TypeOK
  <2>2. /\ ti["update_pipeline_metadata"] = "none"
        /\ ti'["update_pipeline_metadata"] = "none"
    BY <1>0, <2>1, Members DEF CheckInv
  <2> QED
    BY <2>1, <2>2 DEF RecordInv
<1>9. ASSUME UpdatePipelineMetadata PROVE RecordInv'
  <2> DEFINE check == "check_bronze_freshness"
             metadata == "update_pipeline_metadata"
  <2>1. /\ UNCHANGED <<runNo, clears, fresh>>
        /\ ti' = [ti EXCEPT ![metadata] = "success"]
        /\ \/ rows' = WithRow
           \/ rows' = rows /\ lostRow'
    BY <1>9 DEF UpdatePipelineMetadata, scheduler
  <2>2. ti[check] # "none" /\ ti'[check] # "none"
    BY <1>0, <1>9, <1>a, <2>1 DEF UpdatePipelineMetadata, TypeOK
  <2>3. \A n \in rows' : n \in rows \/ (n = runNo[B2S] /\ fresh = {})
    BY <2>1 DEF WithRow, RowIsJson
  <2>4. fresh = {} => runNo[B2S] \in rows' \/ lostRow'
    BY <2>1 DEF WithRow, RowIsJson
  <2>5. runNo[B2S] \in Nat
    BY DEF TypeOK, Dags
  <2>6. ti'[metadata] = "success"
    BY <2>1, Members DEF TypeOK
  <2> QED
    BY <2>1, <2>2, <2>3, <2>4, <2>5, <2>6 DEF RecordInv
<1>10. ASSUME WaitForSilverPipeline PROVE RecordInv'
  BY <1>10, Members, DagsDisjoint
     DEF TypeOK, RecordInv, WaitForSilverPipeline, scheduler, meta, RetryOrFail,
         FailForGood
<1>11. ASSUME SensorTimesOut PROVE RecordInv'
  BY <1>11 DEF RecordInv, SensorTimesOut, scheduler, meta, FailForGood
<1>12. ASSUME RefreshAndAlert PROVE RecordInv'
  BY <1>12 DEF RecordInv, RefreshAndAlert, scheduler, meta
<1>13. ASSUME UNCHANGED vars PROVE RecordInv'
  BY <1>13 DEF RecordInv, vars, scheduler, meta
<1> QED
  BY <1>1, <1>2, <1>3, <1>4, <1>5, <1>6, <1>7, <1>8, <1>9, <1>10, <1>11, <1>12, <1>13,
     Cases

-----------------------------------------------------------------------------
(* The theorems.                                                           *)

\* The invariant holds at the start and over every step.
LEMMA Initially == Init => IInv
<1> SUFFICES ASSUME Init PROVE IInv
  OBVIOUS
<1>1. RunsTyped /\ TablesTyped /\ MarksTyped
  BY DEF Init, RunsTyped, TablesTyped, MarksTyped
<1>2. TasksTyped
  BY ConstantsAssumption DEF Init, TasksTyped, TaskStates, DagOf, Dags
<1>3. TableInv
  BY Members DEF Init, TableInv
<1>4. CheckInv
  BY Members, DagsDisjoint DEF Init, CheckInv
<1>5. CauseInv
  BY DEF Init, CauseInv
<1>6. EndInv
  BY DEF Init, EndInv, Ended
<1>7. RecordInv
  BY Members, DagsDisjoint DEF Init, RecordInv
<1> QED
  BY <1>1, <1>2, <1>3, <1>4, <1>5, <1>6, <1>7 DEF IInv, TypeOK

\* IInv holds initially and every action keeps it.
THEOREM Inductive == Spec => []IInv
<1>1. IInv /\ [Next]_vars => IInv'
  <2> SUFFICES ASSUME IInv, [Next]_vars PROVE IInv'
    OBVIOUS
  <2>1. TypeOK'
    BY TypeStep DEF IInv
  <2>2. TableInv'
    BY <2>1, TableStep DEF IInv
  <2>3. CheckInv'
    BY <2>1, CheckStep DEF IInv
  <2>4. CauseInv'
    BY <2>1, CauseStep DEF IInv
  <2>5. EndInv'
    BY <2>1, EndStep DEF IInv
  <2>6. RecordInv'
    BY <2>1, RecordStep DEF IInv
  <2> QED
    BY <2>1, <2>2, <2>3, <2>4, <2>5, <2>6 DEF IInv
<1> QED
  BY Initially, <1>1, PTL DEF Spec

\* States, try counts and table numbers stay in range: no task is retried more
\* often than default_args allows.
THEOREM TypeCorrect == Spec => []TypeOK
<1>1. IInv => TypeOK
  BY DEF IInv
<1> QED
  BY Inductive, <1>1, PTL

\* run_marts waits for all Gold tasks: whatever fails, is retried or cleared, the
\* marts are never newer than a Gold table.
THEOREM MartsFollowGold == Spec => []MartsNeverNewer
<1>1. IInv => MartsNeverNewer
  BY DEF IInv, TableInv, MartsNeverNewer
<1> QED
  BY Inductive, <1>1, PTL

\* AirflowSkipException keeps a run without fresh data from writing any Silver
\* table, also when tasks are retried and cleared.
THEOREM SkipIsComplete == Spec => []SkipWritesNothing
<1>1. IInv => SkipWritesNothing
  BY DEF IInv, CheckInv, SkipWritesNothing
<1> QED
  BY Inductive, <1>1, PTL

\* A task of an ended run that did not succeed has a reported failure, or the
\* skipped check, at or before it.
LEMMA Explanation ==
  ASSUME IInv, NEW d \in Dags, Ended(d), NEW t \in TasksOf(d), ti[t] # "success"
  PROVE  Explained(d, t)
<1>1. t \in Tasks /\ DagOf(t) = d /\ Stage(t) \in 1..7
  BY DagsDisjoint, Stages DEF Dags
<1>2. ti[t] \in {"failed", "upstream_failed", "skipped"}
  BY <1>1 DEF IInv, TypeOK, TasksTyped, TaskStates, EndInv
<1>3. CASE ti[t] = "failed"
  BY <1>1, <1>3 DEF IInv, CauseInv, Explained
<1>4. CASE ti[t] = "upstream_failed"
  <2>1. PICK u \in TasksOf(d) : Stage(u) < Stage(t) /\ ti[u] = "failed"
    BY <1>1, <1>4 DEF IInv, CauseInv
  <2>2. u \in Tasks /\ u \in alerted /\ Stage(u) \in 1..7
    BY <2>1, DagsDisjoint, Stages DEF IInv, CauseInv, Dags
  <2> QED
    BY <1>1, <2>1, <2>2 DEF Explained
<1>5. CASE ti[t] = "skipped"
  BY <1>1, <1>5, Members, Stages DEF IInv, CauseInv, Explained
<1> QED
  BY <1>2, <1>3, <1>4, <1>5

\* Though a run with all_done leaves ends as success, no table is left stale
\* without a call of on_failure_callback or a skip that accounts for it.
THEOREM FailuresAreReported == Spec => []NoSilentFailure
<1>1. ASSUME IInv PROVE NoSilentFailure
  <2>1. ASSUME Ended(B2S), NEW t \in SilverTasks
        PROVE  silver[t] = runNo[B2S] \/ Explained(B2S, t)
    BY <1>1, <2>1, Members, Explanation DEF IInv, TableInv
  <2>2. ASSUME Ended(S2G), NEW t \in GoldTasks
        PROVE  gold[t] = runNo[S2G] \/ Explained(S2G, t)
    BY <1>1, <2>2, Members, Explanation DEF IInv, TableInv
  <2>3. ASSUME Ended(S2G)
        PROVE  mart = runNo[S2G] \/ Explained(S2G, "run_marts")
    BY <1>1, <2>3, Members, Explanation DEF IInv, TableInv
  <2> QED
    BY <2>1, <2>2, <2>3 DEF NoSilentFailure
<1> QED
  BY Inductive, <1>1, PTL

\* The metadata task is the one that all_done makes run in every case: a Silver run
\* without data is in pipeline_runs unless PostgreSQL or the task failed; one with data
\* is not, since str() of its XCom is not JSON.
THEOREM RecordsOfEmptyRuns == Spec => []OnlyEmptyRunsRecorded
<1>1. ASSUME IInv PROVE OnlyEmptyRunsRecorded
  BY <1>1, Members
     DEF IInv, TypeOK, RunsTyped, EndInv, RecordInv, OnlyEmptyRunsRecorded
<1> QED
  BY Inductive, <1>1, PTL

-----------------------------------------------------------------------------
(* The schedules never meet: without runs triggered by hand, no Gold table   *)
(* is ever written.                                                          *)

\* The Gold side as it was created.
GoldEmpty == mart = 0 /\ \A g \in GoldTasks : gold[g] = 0

\* Silver runs are of full hours, Gold runs of half past one.
DatesInv ==
  /\ date[B2S] % 2 = 0
  /\ run[S2G] # "none" => date[S2G] % 48 = 3
  /\ \A x \in metaOk \cup metaFailed : x % 2 = 0

\* The sensor has not succeeded, and nothing that waits for it.
StalledInv ==
  \A t \in GoldTasks \cup {"wait_for_silver_pipeline", "run_dbt_snapshots", "run_marts"} :
    ti[t] # "success"

ScheduleInv == DatesInv /\ StalledInv /\ GoldEmpty

\* Half past one is not a full hour.
LEMMA HalfPast == \A x \in Nat : x % 48 = 3 => x % 2 # 0
OBVIOUS

\* The dates of a schedule that nobody adds to.
LEMMA OnlySchedules ==
  ASSUME HandDates = {}, NEW d \in Dags, NEW x \in LegalDates(d)
  PROVE  x \in Nat /\ (d = B2S => x % 2 = 0) /\ (d = S2G => x % 48 = 3)
BY ConstantsAssumption DEF LegalDates, ScheduledDates, B2S, S2G

\* What the Gold tables wait for: the sensor through the snapshots, the marts
\* through the Gold tables.
LEMMA GoldWaits ==
  /\ "wait_for_silver_pipeline" \in Upstream("run_dbt_snapshots")
  /\ \A g \in GoldTasks : "run_dbt_snapshots" \in Upstream(g)
  /\ \E g \in GoldTasks : g \in Upstream("run_marts")
  /\ \A t \in GoldTasks \cup {"run_dbt_snapshots", "run_marts"} : t \notin AllDone
<1>1. "run_dbt_snapshots" \in TasksOf(S2G)
  BY DEF TasksOf, B2S, S2G
<1>2. \A t \in GoldTasks \cup {"run_dbt_snapshots", "run_marts"} : t \notin AllDone
  BY ConstantsAssumption DEF AllDone, AllGoldTasks
<1> QED
  BY <1>1, <1>2, ConstantsAssumption, DagsDisjoint, Members, Stages DEF Upstream

\* Nothing behind the sensor can be executed as long as the sensor has not succeeded.
LEMMA NobodyReady ==
  ASSUME StalledInv,
         NEW t \in GoldTasks \cup {"run_dbt_snapshots", "run_marts"}
  PROVE  ~Ready(t)
BY GoldWaits DEF StalledInv, Ready

\* The dates of runs and marks stay on their schedules.
LEMMA DatesStep ==
  ASSUME HandDates = {}, TypeOK, DatesInv, [Next]_vars
  PROVE  DatesInv'
<1> USE DEF DatesInv
<1>1. ASSUME NEW d \in Dags, FinishRun(d) PROVE DatesInv'
  BY <1>1 DEF FinishRun, meta, TypeOK, RunsTyped
<1>2. ASSUME NEW d \in Dags, NEW x \in Slots \cup HandDates, StartRun(d, x) PROVE DatesInv'
  <2>1. (d = B2S => x % 2 = 0) /\ (d = S2G => x % 48 = 3)
    BY <1>2, OnlySchedules DEF StartRun
  <2> QED
    BY <1>2, <2>1, Members DEF StartRun, TypeOK, RunsTyped, Dags
<1>3. ASSUME NEW t \in Tasks, ClearTask(t) PROVE DatesInv'
  BY <1>3, Members DEF ClearTask, TypeOK, RunsTyped
<1>4. ASSUME NEW t \in Tasks, TaskFails(t) PROVE DatesInv'
  BY <1>4 DEF TaskFails, scheduler
<1>5. ASSUME UpdatePipelineMetadata PROVE DatesInv'
  BY <1>5 DEF UpdatePipelineMetadata, scheduler
<1>6. ASSUME \/ \E t \in Tasks : MarkUpstreamFailed(t) \/ MarkSkipped(t) \/ RunsCommand(t)
             \/ CheckBronzeFreshness \/ WaitForSilverPipeline \/ SensorTimesOut
             \/ RefreshAndAlert \/ UNCHANGED vars
      PROVE  DatesInv'
  BY <1>6
     DEF MarkUpstreamFailed, MarkSkipped, RunsCommand, CheckBronzeFreshness,
         WaitForSilverPipeline, SensorTimesOut, RefreshAndAlert, vars, scheduler, meta
<1> QED
  BY <1>1, <1>2, <1>3, <1>4, <1>5, <1>6, Cases

\* The sensor finds no mark of its date, so that nothing behind it ever succeeds.
LEMMA StalledStep ==
  ASSUME TypeOK, TypeOK', DatesInv, StalledInv, [Next]_vars
  PROVE  StalledInv'
<1> DEFINE behind == GoldTasks \cup {"wait_for_silver_pipeline", "run_dbt_snapshots", "run_marts"}
<1>1. behind \subseteq TasksOf(S2G) /\ behind \subseteq Tasks
  BY DagsDisjoint DEF TasksOf, B2S, S2G
<1>2. "check_bronze_freshness" \notin behind /\ "update_pipeline_metadata" \notin behind
        /\ "refresh_grafana_alerts" \notin behind
  BY NoTables
<1>3. ASSUME NEW d \in Dags, FinishRun(d) PROVE StalledInv'
  BY <1>3 DEF FinishRun, StalledInv
<1>4. ASSUME NEW d \in Dags, NEW x \in Slots \cup HandDates, StartRun(d, x) PROVE StalledInv'
  BY <1>1, <1>4 DEF StartRun, StalledInv
<1>5. ASSUME NEW t \in Tasks, ClearTask(t) PROVE StalledInv'
  BY <1>1, <1>5 DEF ClearTask, StalledInv
<1>6. ASSUME NEW t \in Tasks, MarkUpstreamFailed(t) PROVE StalledInv'
  BY <1>1, <1>6 DEF MarkUpstreamFailed, StalledInv, TypeOK, TasksTyped
<1>7. ASSUME NEW t \in Tasks, MarkSkipped(t) PROVE StalledInv'
  BY <1>1, <1>7 DEF MarkSkipped, StalledInv, TypeOK, TasksTyped
<1>8. ASSUME NEW t \in Tasks, TaskFails(t) PROVE StalledInv'
  BY <1>1, <1>8 DEF TaskFails, RetryOrFail, FailForGood, StalledInv, TypeOK, TasksTyped
<1>9. ASSUME NEW t \in Tasks, RunsCommand(t) PROVE StalledInv'
  <2>1. t \notin behind
    BY <1>9, NobodyReady DEF RunsCommand
  <2> QED
    BY <1>1, <1>9, <2>1 DEF RunsCommand, StalledInv, TypeOK, TasksTyped
<1>10. ASSUME CheckBronzeFreshness PROVE StalledInv'
  BY <1>1, <1>2, <1>10 DEF CheckBronzeFreshness, StalledInv, TypeOK, TasksTyped
<1>11. ASSUME UpdatePipelineMetadata PROVE StalledInv'
  BY <1>1, <1>2, <1>11 DEF UpdatePipelineMetadata, StalledInv, TypeOK, TasksTyped
<1>12. ASSUME WaitForSilverPipeline PROVE StalledInv'
  <2>1. date[S2G] \in Nat /\ date[S2G] % 48 = 3
    BY <1>12, Members, DagsDisjoint
       DEF WaitForSilverPipeline, Ready, Pending, DatesInv, TypeOK, RunsTyped
  <2>2. date[S2G] \notin metaOk
    BY <2>1, HalfPast DEF DatesInv
  <2> QED
    BY <1>1, <1>12, <2>2
       DEF WaitForSilverPipeline, SilverDone, RetryOrFail, FailForGood, StalledInv,
           TypeOK, TasksTyped
<1>13. ASSUME SensorTimesOut PROVE StalledInv'
  BY <1>1, <1>13 DEF SensorTimesOut, FailForGood, StalledInv, TypeOK, TasksTyped
<1>14. ASSUME RefreshAndAlert PROVE StalledInv'
  BY <1>1, <1>2, <1>14 DEF RefreshAndAlert, StalledInv, TypeOK, TasksTyped
<1>15. ASSUME UNCHANGED vars PROVE StalledInv'
  BY <1>15 DEF vars, StalledInv
<1> QED
  BY <1>3, <1>4, <1>5, <1>6, <1>7, <1>8, <1>9, <1>10, <1>11, <1>12, <1>13, <1>14,
     <1>15, Cases

\* No task behind the sensor is executed, so nothing writes a Gold table.
LEMMA GoldEmptyStep ==
  ASSUME StalledInv, GoldEmpty, [Next]_vars
  PROVE  GoldEmpty'
<1>1. ASSUME NEW t \in Tasks, Ready(t), WriteTables(t) PROVE GoldEmpty'
  BY <1>1, NobodyReady DEF WriteTables, GoldEmpty
<1>2. ASSUME NEW t \in Tasks, TaskFails(t) PROVE GoldEmpty'
  BY <1>1, <1>2 DEF TaskFails, tables, GoldEmpty
<1>3. ASSUME NEW t \in Tasks, RunsCommand(t) PROVE GoldEmpty'
  BY <1>1, <1>3 DEF RunsCommand
<1>4. ASSUME \/ \E d \in Dags : FinishRun(d)
             \/ \E d \in Dags : \E x \in Slots \cup HandDates : StartRun(d, x)
             \/ \E t \in Tasks : ClearTask(t) \/ MarkUpstreamFailed(t) \/ MarkSkipped(t)
             \/ CheckBronzeFreshness \/ UpdatePipelineMetadata \/ WaitForSilverPipeline
             \/ SensorTimesOut \/ RefreshAndAlert \/ UNCHANGED vars
      PROVE  UNCHANGED tables
  BY <1>4
     DEF FinishRun, StartRun, ClearTask, MarkUpstreamFailed, MarkSkipped,
         CheckBronzeFreshness, UpdatePipelineMetadata, WaitForSilverPipeline,
         SensorTimesOut, RefreshAndAlert, vars
<1>5. UNCHANGED tables => GoldEmpty'
  BY DEF tables, GoldEmpty
<1> QED
  BY <1>2, <1>3, <1>4, <1>5, Cases

\* silver_to_gold.py:115, README.md:251-252: the sensor asks for the Silver run of
\* 01:30, which the hourly schedule never makes.  As long as nobody triggers a
\* run by hand, no Gold table and no mart is ever written, whatever the dates,
\* retries, failures and Clears.
THEOREM GoldNeverRefreshed ==
  ASSUME HandDates = {}
  PROVE  Spec => []GoldEmpty
<1>1. Init => ScheduleInv
  BY Members, DagsDisjoint, ConstantsAssumption
     DEF Init, ScheduleInv, DatesInv, StalledInv, GoldEmpty, TasksOf
<1>2. TypeOK /\ TypeOK' /\ ScheduleInv /\ [Next]_vars => ScheduleInv'
  BY DatesStep, StalledStep, GoldEmptyStep DEF ScheduleInv
<1>3. ScheduleInv => GoldEmpty
  BY DEF ScheduleInv
<1> QED
  BY <1>1, <1>2, <1>3, TypeCorrect, PTL DEF Spec

-----------------------------------------------------------------------------
(* Both DAGs implement GatedRefresh.                                         *)

\* A command that is executed writes the tables of its task and no others, and finds
\* the tasks directly upstream successful.
LEMMA Writes ==
  ASSUME TypeOK, NEW t \in Tasks, WriteTables(t)
  PROVE  /\ silver' = IF t \in SilverTasks THEN [silver EXCEPT ![t] = runNo[B2S]] ELSE silver
         /\ GoldVersion' = IF t \in GoldTasks \cup {"run_marts"}
                           THEN [GoldVersion EXCEPT ![t] = runNo[S2G]] ELSE GoldVersion
<1>1. silver' = IF t \in SilverTasks THEN [silver EXCEPT ![t] = runNo[B2S]] ELSE silver
  BY DEF WriteTables, TypeOK, TablesTyped
<1>2. "run_marts" \notin GoldTasks
  BY ConstantsAssumption DEF AllGoldTasks
<1>3. GoldVersion' = IF t \in GoldTasks \cup {"run_marts"}
                     THEN [GoldVersion EXCEPT ![t] = runNo[S2G]] ELSE GoldVersion
  BY <1>2 DEF WriteTables, TypeOK, TablesTyped, GoldVersion
<1> QED
  BY <1>1, <1>3

\* A gate that is open stays open for the run: only a failed task is cleared, with
\* what comes behind it.
LEMMA GatesStep ==
  ASSUME TypeOK, [Next]_vars,
         NEW c \in {"check_bronze_freshness", "wait_for_silver_pipeline"},
         ti'[c] # ti[c], ti[c] = "success"
  PROVE  \E x \in Slots \cup HandDates : StartRun(DagOf(c), x)
<1> USE DEF TypeOK, TasksTyped
<1>1. c \in Tasks /\ Stage(c) = 1
  BY Members, DagsDisjoint, Stages
<1>2. ASSUME NEW d \in Dags, FinishRun(d) PROVE FALSE
  BY <1>2 DEF FinishRun
<1>3. ASSUME NEW d \in Dags, NEW x \in Slots \cup HandDates, StartRun(d, x)
      PROVE  d = DagOf(c)
  BY <1>1, <1>3, DagsDisjoint DEF StartRun, Dags
<1>4. ASSUME NEW t \in Tasks, ClearTask(t) PROVE FALSE
  <2>1. Stage(t) \in 1..7 /\ ti[t] = "failed"
    BY <1>4, Stages DEF ClearTask
  <2>2. c \notin {t} \cup Downstream(t)
    BY <1>1, <2>1 DEF Downstream
  <2> QED
    BY <1>1, <1>4, <2>2 DEF ClearTask
<1>5. ASSUME \/ \E t \in Tasks : MarkUpstreamFailed(t) \/ MarkSkipped(t)
             \/ \E t \in Tasks : TaskFails(t) \/ RunsCommand(t)
             \/ CheckBronzeFreshness \/ UpdatePipelineMetadata \/ WaitForSilverPipeline
             \/ SensorTimesOut \/ RefreshAndAlert \/ UNCHANGED vars
      PROVE  FALSE
  BY <1>1, <1>5
     DEF MarkUpstreamFailed, MarkSkipped, TaskFails, RunsCommand, CheckBronzeFreshness,
         UpdatePipelineMetadata, WaitForSilverPipeline, SensorTimesOut, RefreshAndAlert,
         RetryOrFail, FailForGood, Ready, Pending, vars
<1> QED
  BY <1>2, <1>3, <1>4, <1>5, Cases

\* What a step does to the Silver tables and their gate: a new run shuts it, only the
\* check opens it, and behind it each table gets the run's number.
LEMMA SilverStep ==
  ASSUME IInv, [Next]_vars
  PROVE  [SilverSide!RefreshNext]_SilverSide!refreshVars
<1> DEFINE c == "check_bronze_freshness"
           same == UNCHANGED SilverSide!refreshVars
<1> USE DEF IInv, TypeOK
<1>1. c \in Tasks /\ DagOf(c) = B2S /\ B2S \in Dags /\ S2G # B2S /\ c \notin SilverTasks
  BY Members, DagsDisjoint, NoTables
<1>2. ASSUME UNCHANGED <<runNo, silver>>, ti'[c] = "success" <=> ti[c] = "success"
      PROVE  same
  BY <1>2 DEF SilverSide!refreshVars
<1>3. ASSUME UNCHANGED <<runNo, silver>>, ti[c] # "success", ti'[c] = "success"
      PROVE  SilverSide!RefreshNext
  BY <1>3 DEF SilverSide!RefreshNext, SilverSide!PassGate
<1>4. ASSUME NEW t \in Tasks, Ready(t), WriteTables(t), UNCHANGED runNo,
             ti'[c] = "success" <=> ti[c] = "success"
      PROVE  SilverSide!RefreshNext \/ same
  <2>1. CASE t \in SilverTasks
    <3>1. ti[c] = "success"
      BY <1>4, <2>1, Upstreams DEF Ready
    <3>2. silver' = [silver EXCEPT ![t] = runNo[B2S]]
      BY <1>4, <2>1, Writes
    <3>3. \A u \in SilverTasks : ~(Stage(u) < Stage(t))
      BY <2>1, Stages
    <3>4. SilverSide!Refresh(t)
      BY <1>4, <3>1, <3>2, <3>3 DEF SilverSide!Refresh
    <3> QED
      BY <2>1, <3>4 DEF SilverSide!RefreshNext
  <2>2. CASE t \notin SilverTasks
    BY <1>2, <1>4, <2>2, Writes
  <2> QED
    BY <2>1, <2>2
<1>5. ASSUME NEW d \in Dags, FinishRun(d) PROVE same
  BY <1>2, <1>5 DEF FinishRun, tables
<1>6. ASSUME NEW d \in Dags, NEW x \in Slots \cup HandDates, StartRun(d, x)
      PROVE  SilverSide!RefreshNext \/ same
  <2>1. CASE d = B2S
    <3>1. ti'[c] = "none" /\ runNo'[B2S] = runNo[B2S] + 1 /\ silver' = silver
      BY <1>1, <1>6, <2>1, Members DEF StartRun, tables, RunsTyped
    <3> QED
      BY <3>1 DEF SilverSide!RefreshNext, SilverSide!NewRun
  <2>2. CASE d = S2G
    <3>1. ti'[c] = ti[c] /\ runNo'[B2S] = runNo[B2S] /\ silver' = silver
      BY <1>1, <1>6, <2>2, Members, DagsDisjoint DEF StartRun, tables, RunsTyped
    <3> QED
      BY <3>1 DEF SilverSide!refreshVars
  <2> QED
    BY <2>1, <2>2 DEF Dags
<1>7. ASSUME NEW t \in Tasks, ClearTask(t) PROVE same
  <2>1. ti'[c] = "success" => ti[c] = "success"
    BY <1>1, <1>7 DEF ClearTask
  <2>2. ti[c] = "success" => ti'[c] = "success"
    <3>1. runNo' = runNo
      BY <1>7 DEF ClearTask
    <3>2. \A x \in Slots \cup HandDates : ~StartRun(B2S, x)
      BY <1>1, <3>1 DEF StartRun, RunsTyped
    <3> QED
      BY <1>1, <1>7, <3>2, GatesStep DEF Next
  <2> QED
    BY <1>2, <1>7, <2>1, <2>2 DEF ClearTask, tables
<1>8. ASSUME NEW t \in Tasks, MarkUpstreamFailed(t) \/ MarkSkipped(t) PROVE same
  BY <1>1, <1>2, <1>8 DEF MarkUpstreamFailed, MarkSkipped, Pending, scheduler, tables, TasksTyped
<1>9. ASSUME NEW t \in Tasks, TaskFails(t) PROVE SilverSide!RefreshNext \/ same
  <2>1. ti'[c] = "success" <=> ti[c] = "success"
    BY <1>1, <1>9 DEF TaskFails, RetryOrFail, FailForGood, Ready, Pending, TasksTyped
  <2> QED
    BY <1>2, <1>4, <1>9, <2>1 DEF TaskFails, scheduler, tables
<1>10. ASSUME NEW t \in Tasks, RunsCommand(t) PROVE SilverSide!RefreshNext \/ same
  <2>1. ti'[c] = "success" <=> ti[c] = "success"
    BY <1>1, <1>10 DEF RunsCommand, TasksTyped
  <2> QED
    BY <1>4, <1>10, <2>1 DEF RunsCommand, scheduler
<1>11. ASSUME CheckBronzeFreshness PROVE SilverSide!RefreshNext \/ same
  BY <1>2, <1>3, <1>11 DEF CheckBronzeFreshness, Ready, Pending, scheduler, tables
<1>12. ASSUME \/ UpdatePipelineMetadata \/ WaitForSilverPipeline \/ SensorTimesOut
              \/ RefreshAndAlert
       PROVE  same
  <2>1. ti'[c] = ti[c]
    BY <1>1, <1>12, Members, DagsDisjoint
       DEF UpdatePipelineMetadata, WaitForSilverPipeline, SensorTimesOut, RefreshAndAlert,
           RetryOrFail, FailForGood, TasksTyped
  <2> QED
    BY <1>2, <1>12, <2>1
       DEF UpdatePipelineMetadata, WaitForSilverPipeline, SensorTimesOut, RefreshAndAlert,
           scheduler, tables
<1>13. ASSUME UNCHANGED vars PROVE same
  BY <1>2, <1>13 DEF vars, scheduler, tables
<1> QED
  BY <1>5, <1>6, <1>7, <1>8, <1>9, <1>10, <1>11, <1>12, <1>13, Cases

\* What waits for the sensor has not succeeded, or written a table in the run, before it.
SensorInv ==
  /\ \A t \in GoldTasks \cup {"run_dbt_snapshots", "run_marts"} :
       ti[t] = "success" => ti["wait_for_silver_pipeline"] = "success"
  /\ \A t \in GoldTasks \cup {"run_marts"} :
       runNo[S2G] > 0 /\ GoldVersion[t] = runNo[S2G]
         => ti["wait_for_silver_pipeline"] = "success"

\* Who is ready behind the sensor knows that it has succeeded.
LEMMA BehindSensor ==
  ASSUME SensorInv, NEW t \in GoldTasks \cup {"run_dbt_snapshots", "run_marts"}, Ready(t)
  PROVE  ti["wait_for_silver_pipeline"] = "success"
BY GoldWaits DEF SensorInv, Ready

\* The sensor's success, once there, lasts as long as what was built on it.
LEMMA SensorStep ==
  ASSUME IInv, IInv', SensorInv, [Next]_vars
  PROVE  SensorInv'
<1> DEFINE c == "wait_for_silver_pipeline"
           built == GoldTasks \cup {"run_marts"}
           behind == GoldTasks \cup {"run_dbt_snapshots", "run_marts"}
<1> USE DEF IInv, TypeOK, TasksTyped
<1>1. /\ c \in Tasks /\ c \notin behind /\ behind \subseteq TasksOf(S2G) /\ behind \subseteq Tasks
      /\ S2G \in Dags /\ B2S # S2G /\ built \subseteq behind
  BY Members, DagsDisjoint, NoTables DEF TasksOf, B2S, S2G
<1>2. ASSUME UNCHANGED <<runNo, gold, mart>>, ti[c] = "success" => ti'[c] = "success",
             \A t \in behind : ti'[t] = "success" => ti[t] = "success"
      PROVE  SensorInv'
  <2>1. GoldVersion' = GoldVersion
    BY <1>2 DEF GoldVersion
  <2> QED
    BY <1>2, <2>1 DEF SensorInv
<1>3. ASSUME NEW t \in Tasks, Ready(t), WriteTables(t) \/ UNCHANGED tables, UNCHANGED runNo,
             ti[c] = "success" => ti'[c] = "success",
             \A u \in Tasks \ {t} : ti'[u] = ti[u]
      PROVE  SensorInv'
  <2>1. CASE t \in behind
    <3>1. ti'[c] = "success"
      BY <1>3, <2>1, BehindSensor
    <3> QED
      BY <3>1 DEF SensorInv
  <2>2. CASE t \notin behind
    <3>1. GoldVersion' = GoldVersion
      BY <1>1, <1>3, <2>2, Writes DEF tables, GoldVersion
    <3> QED
      BY <1>1, <1>3, <2>2, <3>1 DEF SensorInv
  <2> QED
    BY <2>1, <2>2
<1>4. ASSUME NEW x \in Slots \cup HandDates, StartRun(S2G, x) PROVE SensorInv'
  <2>1. \A t \in behind : ti'[t] = "none"
    BY <1>1, <1>4 DEF StartRun
  <2>2. runNo'[S2G] = runNo[S2G] + 1 /\ GoldVersion' = GoldVersion
    BY <1>1, <1>4 DEF StartRun, tables, GoldVersion, RunsTyped
  <2>3. \A t \in built : GoldVersion[t] \in Nat /\ GoldVersion[t] <= runNo[S2G]
    <3>1. PICK g \in GoldTasks : TRUE
      BY ConstantsAssumption
    <3>2. \A h \in GoldTasks : gold[h] \in Nat /\ gold[h] <= runNo[S2G]
      BY DEF TableInv, TablesTyped
    <3>3. mart \in Nat /\ mart <= runNo[S2G]
      BY <1>1, <3>1, <3>2 DEF TableInv, TablesTyped, RunsTyped
    <3> QED
      BY <3>2, <3>3 DEF GoldVersion
  <2>4. \A t \in built : GoldVersion'[t] # runNo'[S2G]
    BY <1>1, <2>2, <2>3 DEF RunsTyped
  <2> QED
    BY <2>1, <2>4 DEF SensorInv
<1>5. ASSUME NEW x \in Slots \cup HandDates, StartRun(B2S, x) PROVE SensorInv'
  <2>1. ti'[c] = ti[c] /\ (\A t \in behind : ti'[t] = ti[t]) /\ runNo'[S2G] = runNo[S2G]
    BY <1>1, <1>5, Members, DagsDisjoint DEF StartRun, RunsTyped
  <2>2. GoldVersion' = GoldVersion
    BY <1>5 DEF StartRun, tables, GoldVersion
  <2> QED
    BY <2>1, <2>2 DEF SensorInv
<1>6. ASSUME NEW t \in Tasks, ClearTask(t) PROVE SensorInv'
  <2>1. UNCHANGED <<runNo, gold, mart>>
    BY <1>6 DEF ClearTask, tables
  <2>2. ti[c] = "success" => ti'[c] = "success"
    <3>1. \A x \in Slots \cup HandDates : ~StartRun(S2G, x)
      BY <1>1, <2>1 DEF StartRun, RunsTyped
    <3> QED
      BY <1>6, <3>1, Members, DagsDisjoint, GatesStep DEF Next
  <2>3. \A u \in behind : ti'[u] = "success" => ti[u] = "success"
    BY <1>1, <1>6 DEF ClearTask
  <2> QED
    BY <1>2, <2>1, <2>2, <2>3
<1>7. ASSUME NEW t \in Tasks, TaskFails(t) PROVE SensorInv'
  <2>1. ti[t] = "none" /\ Ready(t) /\ runNo' = runNo /\ (WriteTables(t) \/ UNCHANGED tables)
    BY <1>7 DEF TaskFails, Ready, Pending, scheduler
  <2>2. \A u \in Tasks \ {t} : ti'[u] = ti[u]
    BY <1>7 DEF TaskFails, RetryOrFail, FailForGood
  <2>3. ti[c] = "success" => ti'[c] = "success"
    BY <1>1, <2>1, <2>2
  <2> QED
    BY <1>3, <2>1, <2>2, <2>3
<1>8. ASSUME NEW t \in Tasks, RunsCommand(t) PROVE SensorInv'
  <2>1. Ready(t) /\ runNo' = runNo /\ WriteTables(t)
    BY <1>8 DEF RunsCommand, scheduler
  <2>2. (\A u \in Tasks \ {t} : ti'[u] = ti[u]) /\ ti'[t] = "success"
    BY <1>8 DEF RunsCommand
  <2> QED
    BY <1>1, <1>3, <2>1, <2>2
<1>9. ASSUME \/ \E d \in Dags : FinishRun(d)
             \/ \E t \in Tasks : MarkUpstreamFailed(t) \/ MarkSkipped(t)
             \/ UNCHANGED vars
      PROVE  SensorInv'
  BY <1>1, <1>2, <1>9
     DEF FinishRun, MarkUpstreamFailed, MarkSkipped, Pending, vars, scheduler, tables
<1>10. ASSUME \/ CheckBronzeFreshness \/ UpdatePipelineMetadata \/ RefreshAndAlert
       PROVE  SensorInv'
  <2>1. \A u \in behind \cup {c} : ti'[u] = ti[u]
    BY <1>1, <1>10, NoTables, Members, DagsDisjoint
       DEF CheckBronzeFreshness, UpdatePipelineMetadata, RefreshAndAlert
  <2> QED
    BY <1>2, <1>10, <2>1
       DEF CheckBronzeFreshness, UpdatePipelineMetadata, RefreshAndAlert, scheduler, tables
<1>11. ASSUME WaitForSilverPipeline \/ SensorTimesOut PROVE SensorInv'
  <2>1. (\A u \in behind : ti'[u] = ti[u]) /\ ti[c] = "none"
    BY <1>1, <1>11
       DEF WaitForSilverPipeline, SensorTimesOut, RetryOrFail, FailForGood, Ready, Pending
  <2> QED
    BY <1>2, <1>11, <2>1 DEF WaitForSilverPipeline, SensorTimesOut, scheduler, tables
<1> QED
  BY <1>4, <1>5, <1>6, <1>7, <1>8, <1>9, <1>10, <1>11, Cases DEF Dags

\* Marks are of Silver runs there have been, and the sensor has found one of its date.
UsedInv ==
  /\ run[B2S] # "none" => date[B2S] \in used[B2S]
  /\ metaOk \subseteq used[B2S]
  /\ ti["wait_for_silver_pipeline"] = "success" => date[S2G] \in used[B2S]

\* The dates of runs only grow in number, and a mark is set by a run.
LEMMA UsedStep ==
  ASSUME TypeOK, UsedInv, [Next]_vars
  PROVE  UsedInv'
<1> DEFINE c == "wait_for_silver_pipeline"
<1> USE DEF UsedInv, TypeOK, RunsTyped, TasksTyped
<1>1. /\ c \in Tasks /\ c \in TasksOf(S2G) /\ c \notin TasksOf(B2S)
      /\ S2G \in Dags /\ B2S \in Dags /\ B2S # S2G
      /\ DagOf("update_pipeline_metadata") = B2S
  BY Members, DagsDisjoint
<1>2. ASSUME UNCHANGED <<scheduler, metaOk>>, ti'[c] = "success" => ti[c] = "success"
      PROVE  UsedInv'
  BY <1>2 DEF scheduler
<1>3. ASSUME NEW d \in Dags, FinishRun(d) PROVE UsedInv'
  BY <1>1, <1>3 DEF FinishRun, meta
<1>4. ASSUME NEW d \in Dags, NEW x \in Slots \cup HandDates, StartRun(d, x) PROVE UsedInv'
  <2>1. CASE d = B2S
    BY <1>1, <1>4, <2>1 DEF StartRun
  <2>2. CASE d = S2G
    BY <1>1, <1>4, <2>2 DEF StartRun
  <2> QED
    BY <2>1, <2>2 DEF Dags
<1>5. ASSUME NEW t \in Tasks, ClearTask(t) PROVE UsedInv'
  <2>1. /\ date' = date /\ used' = used /\ metaOk' \subseteq metaOk
        /\ ti'[c] = "success" => ti[c] = "success"
    BY <1>1, <1>5 DEF ClearTask
  <2>2. run'[B2S] # "none" => run[B2S] # "none"
    BY <1>1, <1>5, DagsDisjoint DEF ClearTask
  <2> QED
    BY <2>1, <2>2
<1>6. ASSUME NEW t \in Tasks, MarkUpstreamFailed(t) \/ MarkSkipped(t) PROVE UsedInv'
  BY <1>1, <1>2, <1>6 DEF MarkUpstreamFailed, MarkSkipped, meta
<1>7. ASSUME NEW t \in Tasks, TaskFails(t) PROVE UsedInv'
  BY <1>1, <1>2, <1>7 DEF TaskFails, RetryOrFail, FailForGood
<1>8. ASSUME NEW t \in Tasks, RunsCommand(t) PROVE UsedInv'
  BY <1>1, <1>2, <1>8 DEF RunsCommand, meta
<1>9. ASSUME CheckBronzeFreshness \/ RefreshAndAlert PROVE UsedInv'
  BY <1>1, <1>2, <1>9 DEF CheckBronzeFreshness, RefreshAndAlert, meta
<1>10. ASSUME UpdatePipelineMetadata PROVE UsedInv'
  BY <1>1, <1>10 DEF UpdatePipelineMetadata, scheduler, Ready, Pending
<1>11. ASSUME WaitForSilverPipeline PROVE UsedInv'
  BY <1>1, <1>11
     DEF WaitForSilverPipeline, SilverDone, scheduler, meta, RetryOrFail, FailForGood
<1>12. ASSUME SensorTimesOut PROVE UsedInv'
  BY <1>1, <1>12 DEF SensorTimesOut, FailForGood, scheduler, meta
<1>13. ASSUME UNCHANGED vars PROVE UsedInv'
  BY <1>2, <1>13 DEF vars, meta
<1> QED
  BY <1>3, <1>4, <1>5, <1>6, <1>7, <1>8, <1>9, <1>10, <1>11, <1>12, <1>13, Cases

\* Both invariants about the sensor, from the start on.
THEOREM SensorInductive == Spec => [](SensorInv /\ UsedInv)
<1>1. Init => SensorInv /\ UsedInv
  BY Members, DagsDisjoint, ConstantsAssumption
     DEF Init, SensorInv, UsedInv, GoldVersion, TasksOf
<1>2. IInv /\ IInv' /\ SensorInv /\ UsedInv /\ [Next]_vars => SensorInv' /\ UsedInv'
  BY SensorStep, UsedStep DEF IInv
<1> QED
  BY <1>1, <1>2, Inductive, PTL DEF Spec

\* silver_to_gold.py:115: whatever is triggered, retried or cleared, a Gold run that
\* wrote a table had a Silver run of exactly its own logical date to wait for.
THEOREM GoldNeedsSilver == Spec => []GoldFollowsSilver
<1>1. SensorInv /\ UsedInv => GoldFollowsSilver
  BY DEF SensorInv, UsedInv, GoldFollowsSilver
<1> QED
  BY SensorInductive, <1>1, PTL

\* What a step does to the Gold tables, the marts and their gate.
LEMMA GoldStep ==
  ASSUME IInv, SensorInv, [Next]_vars
  PROVE  [GoldSide!RefreshNext]_GoldSide!refreshVars
<1> DEFINE c == "wait_for_silver_pipeline"
           built == GoldTasks \cup {"run_marts"}
           same == UNCHANGED GoldSide!refreshVars
<1> USE DEF IInv, TypeOK
<1>1. /\ c \in Tasks /\ DagOf(c) = S2G /\ S2G \in Dags /\ S2G # B2S /\ c \notin built
      /\ "check_bronze_freshness" # c
  BY Members, DagsDisjoint, NoTables
<1>2. ASSUME UNCHANGED <<runNo, gold, mart>>, ti'[c] = "success" <=> ti[c] = "success"
      PROVE  same
  <2>1. GoldVersion' = GoldVersion
    BY <1>2 DEF GoldVersion
  <2> QED
    BY <1>2, <2>1 DEF GoldSide!refreshVars
<1>3. ASSUME UNCHANGED <<runNo, gold, mart>>, ti[c] # "success", ti'[c] = "success"
      PROVE  GoldSide!RefreshNext
  <2>1. GoldVersion' = GoldVersion
    BY <1>3 DEF GoldVersion
  <2> QED
    BY <1>3, <2>1 DEF GoldSide!RefreshNext, GoldSide!PassGate
<1>4. ASSUME NEW t \in Tasks, Ready(t), WriteTables(t), UNCHANGED runNo,
             ti'[c] = "success" <=> ti[c] = "success"
      PROVE  GoldSide!RefreshNext \/ same
  <2>1. CASE t \in built
    <3>1. ti[c] = "success"
      BY <1>4, <2>1, BehindSensor
    <3>2. GoldVersion' = [GoldVersion EXCEPT ![t] = runNo[S2G]]
      BY <1>4, <2>1, Writes
    <3>3. ASSUME NEW u \in built, Stage(u) < Stage(t) PROVE GoldVersion[u] = runNo[S2G]
      <4>1. t = "run_marts" /\ u \in GoldTasks
        BY <2>1, <3>3, Stages
      <4>2. ti[u] = "success"
        BY <1>4, <4>1, Upstreams DEF Ready
      <4> QED
        BY <4>1, <4>2 DEF TableInv, GoldVersion
    <3>4. GoldSide!Refresh(t)
      BY <1>4, <3>1, <3>2, <3>3 DEF GoldSide!Refresh
    <3> QED
      BY <2>1, <3>4 DEF GoldSide!RefreshNext
  <2>2. CASE t \notin built
    BY <1>4, <2>2, Writes DEF GoldSide!refreshVars
  <2> QED
    BY <2>1, <2>2
<1>5. ASSUME NEW d \in Dags, FinishRun(d) PROVE same
  BY <1>2, <1>5 DEF FinishRun, tables
<1>6. ASSUME NEW d \in Dags, NEW x \in Slots \cup HandDates, StartRun(d, x)
      PROVE  GoldSide!RefreshNext \/ same
  <2>1. GoldVersion' = GoldVersion
    BY <1>6 DEF StartRun, tables, GoldVersion
  <2>2. CASE d = S2G
    <3>1. ti'[c] = "none" /\ runNo'[S2G] = runNo[S2G] + 1
      BY <1>1, <1>6, <2>2, Members DEF StartRun, RunsTyped
    <3> QED
      BY <2>1, <3>1 DEF GoldSide!RefreshNext, GoldSide!NewRun
  <2>3. CASE d = B2S
    <3>1. ti'[c] = ti[c] /\ runNo'[S2G] = runNo[S2G]
      BY <1>1, <1>6, <2>3, Members, DagsDisjoint DEF StartRun, RunsTyped
    <3> QED
      BY <2>1, <3>1 DEF GoldSide!refreshVars
  <2> QED
    BY <2>2, <2>3 DEF Dags
<1>7. ASSUME NEW t \in Tasks, ClearTask(t) PROVE same
  <2>1. ti'[c] = "success" => ti[c] = "success"
    BY <1>1, <1>7 DEF ClearTask
  <2>2. ti[c] = "success" => ti'[c] = "success"
    <3>1. runNo' = runNo
      BY <1>7 DEF ClearTask
    <3>2. \A x \in Slots \cup HandDates : ~StartRun(S2G, x)
      BY <1>1, <3>1 DEF StartRun, RunsTyped
    <3> QED
      BY <1>1, <1>7, <3>2, GatesStep DEF Next
  <2> QED
    BY <1>2, <1>7, <2>1, <2>2 DEF ClearTask, tables
<1>8. ASSUME NEW t \in Tasks, MarkUpstreamFailed(t) \/ MarkSkipped(t) PROVE same
  BY <1>1, <1>2, <1>8 DEF MarkUpstreamFailed, MarkSkipped, Pending, scheduler, tables, TasksTyped
<1>9. ASSUME NEW t \in Tasks, TaskFails(t) PROVE GoldSide!RefreshNext \/ same
  <2>1. ti'[c] = "success" <=> ti[c] = "success"
    BY <1>1, <1>9 DEF TaskFails, RetryOrFail, FailForGood, Ready, Pending, TasksTyped
  <2> QED
    BY <1>2, <1>4, <1>9, <2>1 DEF TaskFails, scheduler, tables
<1>10. ASSUME NEW t \in Tasks, RunsCommand(t) PROVE GoldSide!RefreshNext \/ same
  <2>1. ti'[c] = "success" <=> ti[c] = "success"
    BY <1>1, <1>10 DEF RunsCommand, TasksTyped
  <2> QED
    BY <1>4, <1>10, <2>1 DEF RunsCommand, scheduler
<1>11. ASSUME WaitForSilverPipeline \/ SensorTimesOut PROVE GoldSide!RefreshNext \/ same
  BY <1>2, <1>3, <1>11
     DEF WaitForSilverPipeline, SensorTimesOut, Ready, Pending, scheduler, tables
<1>12. ASSUME CheckBronzeFreshness \/ UpdatePipelineMetadata \/ RefreshAndAlert PROVE same
  <2>1. ti'[c] = ti[c]
    BY <1>1, <1>12, NoTables, Members, DagsDisjoint
       DEF CheckBronzeFreshness, UpdatePipelineMetadata, RefreshAndAlert, TasksTyped
  <2> QED
    BY <1>2, <1>12, <2>1
       DEF CheckBronzeFreshness, UpdatePipelineMetadata, RefreshAndAlert, scheduler, tables
<1>13. ASSUME UNCHANGED vars PROVE same
  BY <1>2, <1>13 DEF vars, scheduler, tables
<1> QED
  BY <1>5, <1>6, <1>7, <1>8, <1>9, <1>10, <1>11, <1>12, <1>13, Cases

\* bronze_to_silver.py and silver_to_gold.py refresh their tables as GatedRefresh says:
\* nothing in a run whose check or sensor has not succeeded, no mart before every
\* Gold table of its run.
THEOREM RefinesGatedRefresh == Spec => ImplementsGatedRefresh
<1>1. Init => SilverSide!RefreshInit /\ GoldSide!RefreshInit
  <2> SUFFICES ASSUME Init PROVE SilverSide!RefreshInit /\ GoldSide!RefreshInit
    OBVIOUS
  <2>1. SilverSide!RefreshInit
    BY Members, DagsDisjoint DEF Init, SilverSide!RefreshInit
  <2>2. GoldVersion = [t \in GoldTasks \cup {"run_marts"} |-> 0]
    BY DEF Init, GoldVersion
  <2>3. GoldSide!RefreshInit
    BY <2>2, Members, DagsDisjoint DEF Init, GoldSide!RefreshInit
  <2> QED
    BY <2>1, <2>3
<1>2. IInv /\ SensorInv /\ [Next]_vars
        => /\ [SilverSide!RefreshNext]_SilverSide!refreshVars
           /\ [GoldSide!RefreshNext]_GoldSide!refreshVars
  BY SilverStep, GoldStep
<1> QED
  BY <1>1, <1>2, Inductive, SensorInductive, PTL
     DEF Spec, ImplementsGatedRefresh, SilverSide!RefreshSpec, GoldSide!RefreshSpec

-----------------------------------------------------------------------------
(* The two halves of RunsEnd that need no fairness: a run that goes on has a *)
(* step to take, and there is an end to its steps.                           *)

\* Some step of the instance is possible: its upstream settles it, or it can be
\* executed; the sensor needs a mark of its date or its time-out.
CanGoOn(t) ==
  \/ /\ Pending(t)
     /\ t \notin AllDone
     /\ \E u \in Upstream(t) : ti[u] \in Broken \cup {"skipped"}
  \/ /\ Ready(t)
     /\ t = "wait_for_silver_pipeline"
          => SilverDone \/ date[S2G] \in metaFailed \/ TimeoutSet

\* The sensor pokes, and its two hours are not over.
SensorPokes == Pending("wait_for_silver_pipeline") /\ ~TimeoutSet

NeverStuck ==
  \A d \in Dags : run[d] = "running" =>
    \/ \A t \in TasksOf(d) : ti[t] # "none"
    \/ \E t \in TasksOf(d) : CanGoOn(t)
    \/ d = S2G /\ SensorPokes

\* Executions that an instance may still have.
Left(t) == IF ti[t] = "none" THEN 1 + Retries[DagOf(t)] - tries[t] ELSE 0

\* While a run goes on, no instance of it gets more executions than it had.
NoneGrows ==
  \A t \in Tasks : run[DagOf(t)] = "running" /\ run'[DagOf(t)] = "running"
                    => Left(t)' <= Left(t)

\* Each step of an instance takes one from it.
OneSpent == \A t \in Tasks : TaskStep(t) => Left(t)' < Left(t)

\* Among the unfinished tasks of a DAG there is one with a finished upstream.
LEMMA FirstPending ==
  ASSUME NEW d \in Dags, NEW t \in TasksOf(d), ti[t] = "none"
  PROVE  \E u \in TasksOf(d) : ti[u] = "none" /\ \A v \in Upstream(u) : ti[v] # "none"
<1> DEFINE at(n) == \E u \in TasksOf(d) : ti[u] = "none" /\ Stage(u) = n
           found(n) == at(n) /\ \A m \in 1..7 : m < n => ~at(m)
<1>1. \A u \in TasksOf(d) : u \in Tasks /\ DagOf(u) = d /\ Stage(u) \in 1..7
  BY DagsDisjoint, Stages DEF Dags
<1>2. at(1) \/ at(2) \/ at(3) \/ at(4) \/ at(5) \/ at(6) \/ at(7)
  BY <1>1
<1>3. PICK n \in 1..7 : found(n)
  <2> HIDE DEF at
  <2> QED
    BY <1>2
<1>4. PICK u \in TasksOf(d) : ti[u] = "none" /\ Stage(u) = n
  BY <1>3
<1>5. ASSUME NEW v \in Upstream(u), ti[v] = "none" PROVE FALSE
  <2>1. v \in TasksOf(d) /\ Stage(v) + 1 = n
    BY <1>1, <1>4 DEF Upstream
  <2>2. at(Stage(v)) /\ Stage(v) \in 1..7 /\ Stage(v) < n
    BY <1>1, <1>5, <2>1
  <2> QED
    BY <1>3, <2>2
<1> QED
  BY <1>4, <1>5

\* bronze_to_silver.py:202, silver_to_gold.py:171: whatever failed, was skipped or was
\* cleared, the trigger rules leave no running run without a task to go on with; only
\* the sensor waits for somebody else, until its time-out.
THEOREM RunsNeverStuck == Spec => []NeverStuck
<1>1. ASSUME TypeOK PROVE NeverStuck
  <2> SUFFICES ASSUME NEW d \in Dags, run[d] = "running",
                      NEW s \in TasksOf(d), ti[s] = "none"
               PROVE  \/ \E t \in TasksOf(d) : CanGoOn(t)
                      \/ d = S2G /\ SensorPokes
    BY DEF NeverStuck
  <2>1. PICK t \in TasksOf(d) : ti[t] = "none" /\ \A u \in Upstream(t) : ti[u] # "none"
    BY FirstPending
  <2>2. t \in Tasks /\ DagOf(t) = d /\ \A u \in Upstream(t) : ti[u] \in TaskStates
    BY <1>1, DagsDisjoint, Upstreams DEF TypeOK, TasksTyped, Dags
  <2>3. Pending(t)
    BY <2>1, <2>2 DEF Pending
  <2>4. CASE t \notin AllDone /\ \E u \in Upstream(t) : ti[u] \in Broken \cup {"skipped"}
    BY <2>3, <2>4 DEF CanGoOn
  <2>5. CASE t \in AllDone \/ \A u \in Upstream(t) : ti[u] \notin Broken \cup {"skipped"}
    <3>1. \A u \in Upstream(t) : t \notin AllDone => ti[u] = "success"
      BY <2>1, <2>2, <2>5 DEF TaskStates, Broken
    <3>2. Ready(t)
      BY <2>1, <2>3, <3>1 DEF Ready
    <3>3. CASE t = "wait_for_silver_pipeline"
      BY <2>2, <2>3, <3>2, <3>3, Members, DagsDisjoint DEF CanGoOn, SensorPokes
    <3>4. CASE t # "wait_for_silver_pipeline"
      BY <3>2, <3>4 DEF CanGoOn
    <3> QED
      BY <3>3, <3>4
  <2> QED
    BY <2>4, <2>5
<1> QED
  BY TypeCorrect, <1>1, PTL

\* How many executions an instance has left, as the state tells it.
LEMMA LeftValue ==
  ASSUME TypeOK, NEW t \in Tasks
  PROVE  /\ Left(t) \in Nat
         /\ ti[t] = "none" => Left(t) = 1 + Retries[DagOf(t)] - tries[t] /\ Left(t) > 0
         /\ ti[t] # "none" => Left(t) = 0
         /\ Retries[DagOf(t)] \in Nat /\ tries[t] \in Nat
BY ConstantsAssumption DEF Left, TypeOK, TasksTyped, DagOf, Dags

\* A step of an instance ends it, or counts a failure; it leaves all others alone.
LEMMA InstanceStep ==
  ASSUME TypeOK, NEW t \in Tasks, TaskStep(t)
  PROVE  /\ ti[t] = "none"
         /\ \/ ti'[t] # "none"
            \/ ti'[t] = "none" /\ tries'[t] = tries[t] + 1
         /\ \A u \in Tasks \ {t} : ti'[u] = ti[u] /\ tries'[u] = tries[u]
<1> USE DEF TypeOK, TasksTyped, Ready, Pending
<1>1. CASE MarkUpstreamFailed(t) \/ MarkSkipped(t)
  BY <1>1 DEF MarkUpstreamFailed, MarkSkipped
<1>2. CASE TaskFails(t)
  BY <1>2 DEF TaskFails, RetryOrFail, FailForGood, NextTry
<1>3. CASE RunsCommand(t)
  BY <1>3 DEF RunsCommand
<1>4. CASE t = "check_bronze_freshness" /\ CheckBronzeFreshness
  BY <1>4 DEF CheckBronzeFreshness, FreshnessVerdict
<1>5. CASE t = "update_pipeline_metadata" /\ UpdatePipelineMetadata
  BY <1>5 DEF UpdatePipelineMetadata
<1>6. CASE t = "wait_for_silver_pipeline" /\ WaitForSilverPipeline
  BY <1>6 DEF WaitForSilverPipeline, RetryOrFail, FailForGood, NextTry
<1>7. CASE t = "wait_for_silver_pipeline" /\ SensorTimesOut
  BY <1>7 DEF SensorTimesOut, FailForGood
<1>8. CASE t = "refresh_grafana_alerts" /\ RefreshAndAlert
  BY <1>8 DEF RefreshAndAlert
<1> QED
  BY <1>1, <1>2, <1>3, <1>4, <1>5, <1>6, <1>7, <1>8 DEF TaskStep

\* default_args["retries"]: a running run is over after a number of executions that
\* its retries bound, since each of them takes one and nothing gives one back
\* before the run has ended and somebody clears a task.
THEOREM RunsAreFinite == Spec => [][NoneGrows /\ OneSpent]_vars
<1>1. ASSUME TypeOK, TypeOK', NEW t \in Tasks, TaskStep(t)
      PROVE  Left(t)' < Left(t) /\ \A u \in Tasks : Left(u)' <= Left(u)
  <2>1. \A u \in Tasks \ {t} : Left(u)' = Left(u)
    BY <1>1, InstanceStep DEF Left
  <2>2. Left(t) \in Nat /\ Left(t) > 0 /\ Left(t) = 1 + Retries[DagOf(t)] - tries[t]
    BY <1>1, InstanceStep, LeftValue
  <2>3. Retries[DagOf(t)] \in Nat /\ tries[t] \in Nat
    BY <1>1, LeftValue
  <2>4. Left(t)' < Left(t)
    BY <1>1, <2>2, <2>3, InstanceStep DEF Left
  <2>5. \A u \in Tasks : Left(u) \in Nat
    BY <1>1, LeftValue
  <2>6. \A u \in Tasks : Left(u)' <= Left(u)
    <3>1. Left(t)' \in Nat
      BY <1>1, <2>2, <2>3 DEF Left, TypeOK, TasksTyped
    <3> QED
      BY <2>1, <2>2, <2>4, <2>5, <3>1
  <2> QED
    BY <2>4, <2>6
<1>2. ASSUME TypeOK, TypeOK', [Next]_vars PROVE [NoneGrows /\ OneSpent]_vars
  <2>1. OneSpent
    BY <1>1, <1>2 DEF OneSpent
  <2>2. NoneGrows
    <3>1. \A t \in Tasks : Left(t) \in Nat /\ DagOf(t) \in Dags
      BY <1>2, LeftValue DEF DagOf, Dags
    <3>2. ASSUME NEW t \in Tasks, TaskStep(t) PROVE NoneGrows
      BY <1>1, <1>2, <3>2 DEF NoneGrows
    <3>3. ASSUME NEW d \in Dags, FinishRun(d) PROVE NoneGrows
      BY <3>1, <3>3 DEF FinishRun, NoneGrows, Left
    <3>4. ASSUME NEW d \in Dags, NEW x \in Slots \cup HandDates, StartRun(d, x)
          PROVE  NoneGrows
      <4> SUFFICES ASSUME NEW t \in Tasks, run[DagOf(t)] = "running" PROVE Left(t)' <= Left(t)
        BY DEF NoneGrows
      <4>1. ti'[t] = ti[t] /\ tries'[t] = tries[t]
        BY <3>4, DagsDisjoint DEF StartRun, Dags
      <4> QED
        BY <3>1, <4>1 DEF Left
    <3>5. ASSUME NEW s \in Tasks, ClearTask(s) PROVE NoneGrows
      <4> SUFFICES ASSUME NEW t \in Tasks, run[DagOf(t)] = "running" PROVE Left(t)' <= Left(t)
        BY DEF NoneGrows
      <4>1. run[DagOf(s)] # "running"
        BY <3>5 DEF ClearTask
      <4>2. t \notin {s} \cup Downstream(s)
        BY <4>1, DagsDisjoint, <3>1 DEF Downstream, Dags
      <4>3. ti'[t] = ti[t] /\ tries'[t] = tries[t]
        BY <3>5, <4>2 DEF ClearTask
      <4> QED
        BY <3>1, <4>3 DEF Left
    <3>6. ASSUME UNCHANGED vars PROVE NoneGrows
      BY <3>1, <3>6 DEF vars, NoneGrows, Left
    <3> QED
      BY <1>2, <3>2, <3>3, <3>4, <3>5, <3>6 DEF Next
  <2> QED
    BY <2>1, <2>2
<1> QED
  BY <1>2, TypeCorrect, PTL DEF Spec
=============================================================================
