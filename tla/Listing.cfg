SPECIFICATION ListSpec
CONSTANTS
  a = a
  b = b
  c = c
  p = p
  q = q
  NumRegions = 2
  Item = {a, b, c}
  HomeOf <- Homes
  ParentOf <- Parents
  Matches = {a, c}
  Anywhere = {b}
  GetLimit = 2
INVARIANTS
  NothingLostSilently
  EachItemOnce
  SweptOnlyIfUnknown
PROPERTIES
  ListingEnds
CHECK_DEADLOCK FALSE
