SPECIFICATION SurveySpec
CONSTANTS
  NumTypes = 3
  DiscoverLimit = 2
  NumRows = 4
  Row = {1, 2, 3, 4}
  TypeOf <- Kinds
  KindOf <- Kinds
  VpcChild = {1}
  Enrichable = {1, 3}
  EnrichLimit = 2
  MaxAttempts = 2
INVARIANTS
  DiscoveryIsTruthful
  EnrichmentIsTruthful
  SurveyAccounts
PROPERTIES
  ProgressInOrder
  DeliveriesFrozen
  BudgetEndsTheFanOut
  SurveyEnds
CHECK_DEADLOCK FALSE
