SPECIFICATION Spec
CONSTANTS
  Reports <- MCReports
  Queries <- MCQueries
  MaxLen = 2
  MaxWrites = 6
  None = None
CHECK_DEADLOCK FALSE
INVARIANTS TypeOK ReportsComeBack  LimitsAgree PageIsOrderFree ChartsMatchTable
