SPECIFICATION FairSpec
CONSTANTS
  Stores = {s1}
  Threads = {t1, t2}
  Runs = {r1, r2, r3}
  Unserialisable = {r3}
  ReportRows <- MCReportRows
  None = None
  MaxCalls = 4
  MaxFaults = 0
  MaxCrashes = 1
  r1 = r1
  r2 = r2
  r3 = r3
CHECK_DEADLOCK FALSE
INVARIANTS AckedIsDurable IdleStoreHoldsNoLock
PROPERTIES ImplementsLog
