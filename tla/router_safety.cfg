SPECIFICATION FairSpec
CONSTANTS
  s1 = s1
  s2 = s2
  s3 = s3
  NoClient = NoClient
  Initial <- OneServer
  Joiners = {j1}
  Updaters = {u1}
  Pausable = {s1}
  Modes = {"ROUND_ROBIN"}
  ConnectionsMayBreak = TRUE
  MutexesWork = TRUE
  MaxPending = 1
  Window = 0
INVARIANTS
  TypeOK
  SessionViewStable
  RequestsSeeWholeRotation
  RemoveAlwaysFinds
  LocksReturned
PROPERTIES
  OnlySilentServersRemoved
  ImplementsDirectory
  SessionsEnd
CHECK_DEADLOCK FALSE
