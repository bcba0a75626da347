SPECIFICATION BatchSpec
CONSTANTS
  NumSubs = 4
  Credless = {3, 4}
  Known = {4}
  BatchLimit = 2
INVARIANTS
  BatchAlwaysAnswers
  ResultsAreTruthful
PROPERTIES
  BatchIsAFanOut
  BatchEnds
CHECK_DEADLOCK FALSE
