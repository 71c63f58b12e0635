SPECIFICATION StreamSpec
CONSTANTS
  o1 = o1
  o2 = o2
  s1 = s1
  s2 = s2
  m1 = m1
  m2 = m2
  Objects = {o1, s1, s2}
  Streams = {s1, s2}
  Storage = {m1, m2}
  NoStorage = NoStorage
  Allocators = {a1, a2}
  a1 = a1
  a2 = a2
  Fds = {3, 4}
  Hosts = {"127.0.0.1"}
  Names = {}
  Ports = {0}
  Ephemeral = 3
  Modulus = 4
  LeftToRight = {TRUE}
SYMMETRY Symmetry
INVARIANTS
  StorageIsOwn
  StreamTypeOK
  FdOwnership
  PortMeansUse
  HostIsPeer
  ListeningHasPort
CHECK_DEADLOCK FALSE
