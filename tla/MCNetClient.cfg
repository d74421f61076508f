SPECIFICATION NetSpec
CONSTANTS
  SNAPSHOT_CAPACITY = 3
  MAX_ROLLBACK_DEPTH = 1
  MaxTick = 4
  World <- MCWorld
  World0 = 0
  Inputs <- MCInputs
  NoInput = 0
  Step <- MCStep
  FROZEN_TIMEOUT_TICKS = 4
  RETRY_INTERVAL_TICKS = 1
  MAX_RESYNC_RETRIES = 1
  MAX_SKIP = 2
  MaxClock = 0
INVARIANTS NoDanglingRollback ReplayInputsKept NewestIsCurrent DuplicatesAgree OutageBounded
PROPERTIES OutageResolves
CHECK_DEADLOCK FALSE
