SPECIFICATION Spec
CONSTANTS
  Reports <- MCReports
  Queries <- MCQueries
  MaxLen = 2
  MaxWrites = 5
  None = None
CHECK_DEADLOCK FALSE
INVARIANTS MemoryIsNewestFirst
