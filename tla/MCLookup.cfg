SPECIFICATION NetSpec
CONSTANTS
  SNAPSHOT_CAPACITY = 10
  MAX_ROLLBACK_DEPTH = 8
  MaxTick = 4
  World <- MCWorld
  World0 = 0
  Inputs <- MCInputs
  NoInput = 0
  Step <- MCStep
  FROZEN_TIMEOUT_TICKS = 1800
  RETRY_INTERVAL_TICKS = 120
  MAX_RESYNC_RETRIES = 3
  MAX_SKIP = 1
  MaxClock = 0
INVARIANT LookupIsCurrent
CHECK_DEADLOCK FALSE
