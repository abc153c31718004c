SPECIFICATION Spec
CONSTANTS
  r1 = r1
  r2 = r2
  r3 = r3
  s1 = s1
  i1 = i1
  i2 = i2
  u1 = u1
  u2 = u2
  Requests <- MCRequests
  Stops <- MCStops
  Instances <- MCInstances
  Users <- MCUsers
  UserOf <- MCUserOf
  Routes <- MCRoutes
  Gate = Gate
  None = None
  MaxSize = 2
  MaxPerUser = 1
  MaxGlobal = 1
  Workers = 2
  MaxFaults = 1
INVARIANTS
  TypeOK
  CountersExact
  LocalLimits
  GlobalLimits
  
PROPERTIES
  RequestsEnd
CHECK_DEADLOCK FALSE
