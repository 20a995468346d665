SPECIFICATION FairSpec
CONSTANTS
  SilverTasks = {"run_dbt_silver_orders"}
  GoldTasks = {"run_gold_users"}
  MayFail = {"check_bronze_freshness", "update_pipeline_metadata"}
  Retries <- OneRetry
  Slots = {2}
  HandDates = {3}
  MaxRuns <- TwoSilver
  MaxClears = 1
  MinSilverRuns = 0
INVARIANTS
  OnlyEmptyRunsRecorded
PROPERTIES
  RunsEnd
CHECK_DEADLOCK FALSE
