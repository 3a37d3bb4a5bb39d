SPECIFICATION Spec
CONSTANTS
  Null = Null
  MinRows = 2
  MinCbpeRows = 2
  ProbaUnit = 2
  NormalMin = 2
  SmallN = 3
  LargeN = 3
  Imbalanced = 1
  Severe = 2
  Discount <- MCDiscount
  Inputs <- MCInputs
INVARIANTS
  ScoresAgree
  EstimatesCalibrated
  RoutedMetricsRun
  ProfileAgrees
  ProfileOrdered
  DistancesAgree
  AdvisedPlanRuns
  InteractionsExact
  RankingRelations
CHECK_DEADLOCK FALSE
