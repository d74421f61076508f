SPECIFICATION Spec
CONSTANTS
  Members = {p1}
  Seeds = {r1, r2}
  StartTicks = {1}
  MaxRecorded = 3
  MaxSaved = 2
  Thresholds = {0, 1, 2}
  SUSPICIOUS_THRESHOLD = 3
  Accounts = {s1, s2}
  Rates = {0, 2}
  Roll <- MCRoll
  MaxLog = 5
  MaxMismatches = 7
  MaxRolls = 4
  WINDOW_SIZE = 2
  MIN_INTERVAL = 1
  MAX_INTERVAL = 2
  MAX_PENDING_REQUESTS = 2
  MAX_RESTARTS_PER_WINDOW = 2
  RESTART_WINDOW_FRAMES = 4
  CLEANUP_INTERVAL = 2
  MaxTick = 6
  MaxCrashes = 2
INVARIANTS JoinedInThePast VerdictExact SuspicionMatchesHistory SamplingUndisturbed BackpressureExact RequestsFresh
PROPERTIES EscalationOnlyRises QueueDrains
CHECK_DEADLOCK FALSE
