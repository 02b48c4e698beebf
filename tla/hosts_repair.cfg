SPECIFICATION Spec
CONSTANTS
  s0 = s0
  s1 = s1
  s2 = s2
  j1 = j1
  u1 = u1
  u2 = u2
  old = old
  new = new
  ip1 = ip1
  ip6 = ip6
  NoClient = NoClient
  Absent = Absent
  Empty = Empty
  Server = {s0, s1, s2, j1}
  Client = {u1, u2}
  Initial <- ThreeServers
  Domain = {old, new}
  HostsFile <- Hosts
  Plans <- Repairs
  Unlucky = {}
  Asked = {new}
  Faults = {"update"}
  Garbage = {0, 2}
INVARIANTS
  RepairDiagnosis
  WriterAlone
CHECK_DEADLOCK FALSE
