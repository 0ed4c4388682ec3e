SPECIFICATION Spec
CONSTANTS
  long = long
  two = two
  empty = empty
  s1 = s1
  s2 = s2
  Requests = {two, long, s1}
  Batches = {two, long}
  Queries = 1
  maxBatchConcurrency = 2
  MaxOpenConns = 4
  Files <- MCFiles
INVARIANT PoolIsNotStarved
