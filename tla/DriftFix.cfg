SPECIFICATION FairSpec
CONSTANTS
  Pair = {a, b}
  MaxIterations = 5
INVARIANTS
  ConvergedFileWasPlanned
  DropComesBeforeIgnore
  GivesUpAsTheLastResort
PROPERTIES
  Returns
  SteadyConverges
CHECK_DEADLOCK FALSE
