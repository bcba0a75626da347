SPECIFICATION LineageSpec
CONSTANTS
  NumRows = 2
  Region = {r1}
  Name = {n1}
INVARIANTS
  NoChildDanglesInAStack
CHECK_DEADLOCK FALSE
