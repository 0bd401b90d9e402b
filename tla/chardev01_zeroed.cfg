SPECIFICATION Spec
CONSTANTS
  Procs = {p1, p2}
  Values = {a}
  Junk = junk
  Lens = {1}
  MaxPos = 2
  DEVICE_QSET = 1
  Quantum = 2
  Contents <- MCZeroed
INVARIANTS NoOops
