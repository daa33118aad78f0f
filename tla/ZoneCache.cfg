SPECIFICATION CacheLiveSpec
CONSTANTS
  Queries = {q1, q2}
  MaxWrites = 2
  None = None
INVARIANTS MonotoneReads
PROPERTIES CacheEventuallyCurrent
