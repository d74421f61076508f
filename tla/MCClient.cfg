SPECIFICATION Spec
CONSTANTS
  MaxMessages = 3
  Readers = {r1, r2}
  Keys = {"k1", "k2"}
  L1_CACHE_SIZE = 3
  CIPHERTEXT_MIN_LEN = 2
  WORD = 1
  AssetSizes = {0, 3, 4}
  MaxChunks = 2
  MaxReads = 3
  MaxKeyChanges = 3
  BatchIds = {1, 2}
  ScriptNames = {"a", "b"}
  Bytecodes = {1, 2}
  BATCH_TIMEOUT_FRAMES = 1
  MaxBatchFrames = 1
  OPS_LIMIT = 100
  MAX_QUEUE_CAPACITY = 1
  HANDLE_IDS = 2
  MaxFrames = 3
  MaxCalls = 3
  CLICK_MAX_TICKS = 2
  CLICK_MAX_DISTANCE = 2
  DOUBLE_CLICK_MAX_TICKS = 3
  DOUBLE_CLICK_MAX_DISTANCE = 2
  LONG_PRESS_MIN_TICKS = 3
  DRAG_MIN_TICKS = 1
  DRAG_MIN_DISTANCE = 2
  MAX_CATCH_UP = 3
  POSITIONS = {0, 2}
  MaxInputTicks = 6
  MaxInputFrames = 6
  MaxStateChanges = 2
  CAMERAS = {c1, c2}
  MAIN_CAMERA = c1
  REQUESTED = {0, 1}
  PRIORITIES = {0, 1}
  CINEMATIC_PRIORITY = 1
  DURATIONS = {1}
  TRAUMAS = {2}
  MaxCameraFrames = 2
  MaxCameraCalls = 3
INVARIANTS KeysAgree DeliveredIntact BatchIsWhole EntityMapExact EventsAccounted RecognizerExact FramesDistributedOnce RegistrySound CinematicOwnsItsOverride
PROPERTIES StacksFollowPriority
CHECK_DEADLOCK FALSE
