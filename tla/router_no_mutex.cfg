SPECIFICATION Spec
CONSTANTS
  s1 = s1
  s2 = s2
  s3 = s3
  NoClient = NoClient
  Initial <- TwoServers
  Joiners = {j1}
  Updaters = {}
  Pausable = {s1}
  Modes = {"ROUND_ROBIN"}
  ConnectionsMayBreak = FALSE
  MutexesWork = FALSE
  MaxPending = 1
  Window = 0
INVARIANTS
  SessionViewStable
CHECK_DEADLOCK FALSE
