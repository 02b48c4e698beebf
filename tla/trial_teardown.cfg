SPECIFICATION Spec
CONSTANTS
  s0 = s0
  s1 = s1
  Junk = 7
  Server = {s0, s1}
  Domain <- Domains
  Lookup <- Lookups
  Request = {0}
  Limit = 1
  Initial = {s0, s1}
  Pausable = {s1}
  MaxRepeats = 0
  Probed = {s0, s1}
INVARIANTS
  DestroyKillsThread
CHECK_DEADLOCK FALSE
