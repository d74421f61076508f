SPECIFICATION ScriptsSpec
CONSTANTS
  Ids <- MCIds
  Priorities <- MCPriorities
  Asts <- MCAsts
  Defines <- MCDefines
  AUTO_DISABLE_THRESHOLD = 2
  FRAME_BUDGET = 1
  MaxDispatch = 1
INVARIANT InitHasRun
