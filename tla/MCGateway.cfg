SPECIFICATION Spec
CONSTANTS
  Conns = {c1, c2}
  OUTBOUND_CAPACITY = 1
  MaxFrames = 3
  Players = {p1, p2}
  MaxPlayers = 2
  MaxRooms = 2
  MaxSessions = 2
INVARIANTS AnsweredOnce ClientAcceptsNext RegistryDrains RoomsSound GameNeedsFreshKeys
PROPERTIES WriterTaskEnds RosterFrozen
CHECK_DEADLOCK FALSE
