SPECIFICATION Spec
CONSTANTS
  p = p
  c = c
  q = q
  r = r
  u = u
  Addr = {p, c, q, r, u}
  Selectable = {p, q, u}
  Unimportable = {u}
  Children <- ParentAndChild
  Adoptable = {q, r}
  MaxFinalPlanIterations = 2
INVARIANTS
  EverythingAccounted
  ArtifactsAgree
  PublishedPlanImportsOnly
  FailedStaysOut
  RoundsDropResources
CHECK_DEADLOCK FALSE
