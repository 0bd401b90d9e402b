SPECIFICATION MCSpec
CONSTANTS
  m1 = m1
  m2 = m2
  m3 = m3
  m4 = m4
  m5 = m5
  m6 = m6
  NONE = none
  Modules = {m1, m2, m3, m4, m5, m6}
  Shape <- MCShape
  Majors = {240, 241, 255}
  STATIC = 255
  MaxOpen = 2
  Procs = {p1, p2}
  Blocks = {b1, b2}
  Values = {a, b}
  Junk = junk
  NULL = null
  mem_size = 2
  d1 = d1
  d2 = d2
  d3 = d3
  PciDevs = {d1, d2, d3}
  PciId <- MCPciId
  PciRev <- MCPciRev
  PciNone = pcinone
  PCI_ANY_ID = any
  MaxEnable = 2
  NetDevices = {n1, n2, n3, n4, n5}
  NetNull = nil
  MaxFailed = 3
  Payloads <- MCPayloads
  Stale = 99
  ETH_ZLEN = 3
  ETH_HLEN = 1
  MaxFrames = 4
  Callers = {p1, p2}
  Ints = {0, 1, 2}
  Nobody = nobody
  Programs = {p1, p2}
  N = 3
  MINORS = 5
  scull_major = 10
  scull_minor = 1
  Nothing = nothing
INVARIANTS TypeOK DriversTypeOK NumbersFreed LiveNumberReserved CodeStaysForUsers
  AccessValid AloneReadsBack
  BoundOnlyWhileLoaded AccessedEnabled AcceptedRevision MatchesExactly
  RegisteredStructuresLive StructuresFreed NothingStaleSent FramesAccounted CommandsUnique
  ScullRouted OpenDeviceServed
PROPERTIES NothingLeaked WrongDeviceHarmless
CHECK_DEADLOCK FALSE
