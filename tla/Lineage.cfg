SPECIFICATION LineageSpec
CONSTANTS
  NumRows = 3
  Region = {r1, r2}
  Name = {n1, n2}
INVARIANTS
  SweepIsExact
  ManifestIsComplete
  DanglingIsExplained
  ChildFollowsItsOwn
PROPERTIES
  LineageEnds
CHECK_DEADLOCK FALSE
