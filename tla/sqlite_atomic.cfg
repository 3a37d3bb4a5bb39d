SPECIFICATION Spec
CONSTANTS
  Stores = {s1}
  Threads = {t1}
  Runs = {r1, r2}
  Unserialisable = {}
  ReportRows <- MCReportRows
  None = None
  MaxCalls = 3
  MaxFaults = 1
  MaxCrashes = 0
  r1 = r1
  r2 = r2
  r3 = r3
CHECK_DEADLOCK FALSE
INVARIANTS WholeReports
