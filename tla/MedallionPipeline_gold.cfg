SPECIFICATION Spec
CONSTANTS
  SilverTasks = {"run_dbt_silver_orders"}
  GoldTasks = {"run_gold_users", "run_gold_funnel"}
  MayFail <- Suspects
  Retries <- OneRetry
  Slots = {3}
  HandDates = {3, 5}
  MaxRuns <- TwoGold
  MaxClears = 1
  MinSilverRuns = 0
INVARIANTS
  TypeOK
  GoldFollowsSilver
  NoSilentFailure
  SkipWritesNothing
PROPERTIES
  ImplementsGatedRefresh
CHECK_DEADLOCK FALSE
