SPECIFICATION Spec
CONSTANTS
  r1 = r1
  r2 = r2
  r3 = r3
  d = d
  Resolves <- ThreeResolves
  Deletes <- OneDelete
  None = None
  MaxBoxes = 3
  MaxDeaths = 1
  MaxFaults = 2
SYMMETRY Alike
INVARIANTS
  TypeOK
  InUseIsBound
  NothingLeaks
  QuietDeletion
PROPERTIES
  BoundIsAlone
  CleanupSparesUsers
CHECK_DEADLOCK FALSE
