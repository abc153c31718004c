SPECIFICATION Spec
CONSTANTS
  c1 = c1
  c2 = c2
  c3 = c3
  Calls <- TwoCalls
  Clock <- TwoClocks
  None = None
  Limits = {0, 1, 2}
  TTL = 8
  Beat = 2
  Delay = 1
  Skew = 1
  MaxRetunes = 1
  MaxFaults = 2
INVARIANTS
  TypeOK
  LeaseIsKept
  Capacity
PROPERTIES
  WaitersProceed
CHECK_DEADLOCK FALSE
