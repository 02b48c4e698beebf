SPECIFICATION FairSpec
CONSTANTS
  s1 = s1
  s2 = s2
  s3 = s3
  NoClient = NoClient
  Initial <- OneServer
  Joiners = {j1}
  Updaters = {}
  Pausable = {s1}
  Modes = {"ROUND_ROBIN", "OVERLOAD"}
  ConnectionsMayBreak = FALSE
  MutexesWork = TRUE
  MaxPending = 2
  Window = 4
INVARIANTS
  RequestsSpread
  StalePongBuysOneRound
PROPERTIES
  PausedServerRemoved
CHECK_DEADLOCK FALSE
