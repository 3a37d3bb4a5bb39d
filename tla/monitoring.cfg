SPECIFICATION Spec
SYMMETRY MCSymmetry
CONSTANTS
  ops = ops
  owner = owner
  Plans <- MCPlans
  Source <- MCSource
  Installed = {"pandas"}
  TableCols = {"ts", "model", "version", "x", "y", "p", "unused"}
  Stamps = {1, 2, 3}
  Models <- MCModels
  Cutoffs <- MCCutoffs
  Width = 1
  Base = {"psi"}
  Extensions <- MCExtensions
  AlertBelow = 2
  Channel <- MCChannel
  MaxRows = 2
  MaxCalls = 2
  MaxCrashes = 1
INVARIANTS
  EvaluatedRowsExact
  PeriodsTile
  ExtensionsOwnTheirs
  RerunsExplainDuplicates
  NothingLostSilently
CHECK_DEADLOCK FALSE
