SPECIFICATION Spec
CONSTANTS
  east = east
  west = west
  south = south
  e1 = e1
  e2 = e2
  w = w
  s = s
  parent = parent
  Resource = {e1, e2, w, s}
  Region = {east, west, south}
  RegionOf <- Where
  Parent = parent
  Limit = 2
  MaxPasses = 3
INVARIANT MultiRegionIsFixedPerRegion
CHECK_DEADLOCK FALSE
