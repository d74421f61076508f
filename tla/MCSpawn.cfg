SPECIFICATION BridgeSpec
CONSTANTS
  OPS_LIMIT = 100
  MAX_QUEUE_CAPACITY = 2
  HANDLE_IDS = 2
  MaxFrames = 2
  MaxCalls = 2
INVARIANT PreallocatedIdUsed
CHECK_DEADLOCK FALSE
