SPECIFICATION FairSpec
CONSTANTS
  Plan <- MCPlan
  Rules <- MCRules
  Sinks <- MCSinks
  Values <- MCValues
  Registry = {"psi", "auc"}
  NJobs = {1, 2}
  HasStore = TRUE
  Profiling = TRUE
CHECK_DEADLOCK FALSE
INVARIANTS TypeOK EachSpecOnce NoSpecLost AlertsExact AlertsFollowStatus FiredRulesNotify
PROPERTIES RunEnds ReportIsReturned ImplementsContract
