SPECIFICATION FairSpec
CONSTANTS
  s0 = s0
  s1 = s1
  s2 = s2
  j1 = j1
  u1 = u1
  u2 = u2
  old = old
  new = new
  ip1 = ip1
  ip6 = ip6
  NoClient = NoClient
  Absent = Absent
  Empty = Empty
  Server = {s0, s1, s2, j1}
  Client = {j1, u1, u2}
  Initial <- ThreeServers
  Domain = {old, new}
  HostsFile <- Hosts
  Plans <- AddAndRemove
  Unlucky = {s0}
  Asked = {new}
  Faults = {"late", "list", "version", "update"}
  Garbage = {0, 2}
INVARIANTS
  TypeOK
  UpdateReachesRotation
  Agreement
PROPERTIES
  ClientsFinish
CHECK_DEADLOCK FALSE
