SPECIFICATION FairSpec
CONSTANTS
  t1 = t1
  t2 = t2
  h1 = h1
  None = None
  Tasks <- TwoTasks
  Collaborative <- NoTask
  Hashes <- OneHash
  LongReviews = FALSE
  Lag = FALSE
  SlowReads = FALSE
  MaxRounds = 1
  MaxUnsettled = 2
  MaxFaults = 0
PROPERTIES
  PaymentsAreReported
CHECK_DEADLOCK FALSE
