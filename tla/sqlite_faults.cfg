SPECIFICATION FairSpec
CONSTANTS
  Stores = {s1, s2}
  Threads = {t1, t2}
  Runs = {r1, r2}
  Unserialisable = {}
  ReportRows <- MCReportRows
  None = None
  MaxCalls = 4
  MaxFaults = 1
  MaxCrashes = 1
  r1 = r1
  r2 = r2
  r3 = r3
CHECK_DEADLOCK FALSE
INVARIANTS TypeOK NoDuplicateRows TornReportsArePrefixes ReadsOneSnapshot OnePendingWriter
PROPERTIES FrozenOnceCommitted EveryCallEnds
