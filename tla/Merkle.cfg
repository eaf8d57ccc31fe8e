SPECIFICATION LogsSpec
CONSTANTS
  Entries <- MCEntries
  MaxLeaves = 6
INVARIANTS
  InclusionIsExact
  ConsistencyIsExact
CHECK_DEADLOCK FALSE
