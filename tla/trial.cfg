SPECIFICATION FairSpec
CONSTANTS
  s0 = s0
  s1 = s1
  Junk = 7
  Server = {s0, s1}
  Domain <- Domains
  Lookup <- Lookups
  Request = {0, 1}
  Limit = 1
  Initial = {s0}
  Pausable = {s0}
  MaxRepeats = 1
  Probed = {s0}
INVARIANTS
  TypeOK
  RecievedIsTrue
  AnswersCount
  WireIsReadable
  PausedAnswersOnce
  NoEarlyLookup
PROPERTIES
  ImplementsResultsFile
  TestEnds
CHECK_DEADLOCK FALSE
