----------------------------- MODULE MCMonitors -----------------------------
(* An instance of Monitors and of CheckpointRunner for TLC.  The checks of a  *)
(* DAG meet in its report task only, so two or three of them at a time show   *)
(* what any number does; every check is in one of the sets.  The gate shares  *)
(* nothing with the monitors, so it runs while they have not begun.           *)
EXTENDS Monitors, CheckpointRunner

Samples ==
  {{"check_kafka_lag", "check_null_rates"},
   {"check_bronze_row_counts", "check_silver_freshness", "check_revenue_anomaly"},
   {"check_kafka_health", "check_minio_health", "check_debezium_health"},
   {"check_clickhouse_health", "check_spark_health"}}

Untouched == \A t \in Tasks : tries[t] = 0

WatchInit == Init /\ GateInit

WatchNext ==
  \/ Next /\ program = "none" /\ UNCHANGED gate
  \/ GateNext /\ Untouched /\ UNCHANGED vars

WatchSpec == /\ WatchInit
             /\ [][WatchNext]_<<vars, gate>>
             /\ WF_<<vars, gate>>(Work /\ program = "none" /\ UNCHANGED gate)
=============================================================================
