SPECIFICATION Spec
CONSTANTS
  o = o
  x = x
  y = y
  z = z
  v = v
  w = w
  a = a
  b = b
  u = u
  Lit = {a, b, u}
  NonARN = {u}
  Addr = {o, x, y, z, v, w}
  Operator = {o}
  Unimportable = {v}
  InScope = {o, x, y, z, v}
  Worlds <- OpenWorlds
  MaxIterations = 3
  Omissible = {o, x, z}
  Flaky = TRUE
INVARIANTS
  ProvenanceIsTrue
  DrainedIsDisclosed
  TerminalLookedUpOnce
  CleanExitAccounts
  RoundsSettle
PROPERTIES
  ImplementsContract
CHECK_DEADLOCK FALSE
