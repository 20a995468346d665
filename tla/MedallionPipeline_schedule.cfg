SPECIFICATION Spec
CONSTANTS
  SilverTasks = {"run_dbt_silver_orders"}
  GoldTasks = {"run_gold_users"}
  MayFail = {}
  Retries <- AsCoded
  Slots = {0, 1, 2, 3, 4}
  HandDates = {}
  MaxRuns <- OneEach
  MaxClears = 0
  MinSilverRuns = 1
INVARIANTS
  ScheduledGoldRefreshes
CHECK_DEADLOCK FALSE
