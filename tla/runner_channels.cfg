SPECIFICATION Spec
CONSTANTS
  Plan <- MCPlan
  Rules <- MCRules
  Sinks <- MCSinks
  Values <- MCValues
  Registry = {"psi", "auc"}
  NJobs = {1, 2}
  HasStore = TRUE
  Profiling = TRUE
CHECK_DEADLOCK FALSE
INVARIANTS ChannelsOnlyOfFiredRules
