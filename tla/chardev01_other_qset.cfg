SPECIFICATION Spec
CONSTANTS
  Procs = {p1, p2}
  Values = {a}
  Junk = junk
  Lens = {2}
  MaxPos = 5
  DEVICE_QSET = 1
  Quantum = 3
  Contents <- MCOtherQset
 
PROPERTIES DeadFreezes
CHECK_DEADLOCK FALSE
