SPECIFICATION NetSpec
CONSTANTS
  NetDevices = {n1, n2, n3}
  NetNull = nil
  MaxFailed = 1
INVARIANTS InitialisedWhenRegistered
CHECK_DEADLOCK FALSE
