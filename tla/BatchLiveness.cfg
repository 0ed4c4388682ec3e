SPECIFICATION FairSpec
CONSTANTS
  long = long
  two = two
  empty = empty
  s1 = s1
  s2 = s2
  Requests = {long, empty, s1, s2}
  Batches = {long, empty}
  Queries = 1
  maxBatchConcurrency = 2
  MaxOpenConns = 3
  Files <- MCFiles
PROPERTY EveryRequestIsAnswered
