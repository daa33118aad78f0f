SPECIFICATION HealthFairSpec
CONSTANTS
  Jobs = {1, 2}
  Keys = {k1}
  Dead = {k1}
  Configs <- MCConfigs
  MaxChanges = 1
INVARIANTS StatusFitsItem
PROPERTIES ItemsFollowRecords ShutDownCompletes
CHECK_DEADLOCK FALSE
