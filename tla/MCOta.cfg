SPECIFICATION Spec
CONSTANTS
  Ids <- MCIds
  Priorities <- MCPriorities
  Asts <- MCAsts
  Defines <- MCDefines
  AUTO_DISABLE_THRESHOLD = 1
  FRAME_BUDGET = 0
  MaxDispatch = 0
  Updates <- MCUpdates
  Batches <- MCBatches
  Chunks <- MCChunks
  Target <- MCTarget
  OTA_TIMEOUT = 0
  Clients = {me, other}
  Me = me
  BuildsOf <- MCBuildsOf
  BroadcastIds <- MCUpdates
  BroadcastBuilds <- MCAsts
  Assets <- MCAssets
  AssetVersions <- MCAsts
  SizeOf <- MCSizeOf
  PriorityOf <- MCPriorityOf
  OTA_MEMORY_BUDGET = 5
  MaxQueued = 3
INVARIANTS AckIsTrue CommitIsPrefix DownloadsWithinBudget
CHECK_DEADLOCK FALSE
