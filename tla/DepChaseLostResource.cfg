SPECIFICATION Spec
CONSTANTS
  o = o
  x = x
  y = y
  z = z
  v = v
  w = w
  a = a
  b = b
  u = u
  Lit = {a, b, u}
  NonARN = {u}
  Addr = {o, x, y}
  Operator = {o}
  Unimportable = {}
  InScope = {o, x, y}
  Worlds <- ChainWorld
  MaxIterations = 3
  Omissible = {x, y}
  Flaky = FALSE
INVARIANTS
  ResultHoldsAdopted
CHECK_DEADLOCK FALSE
