SPECIFICATION FairSpec
CONSTANTS
  t1 = t1
  t2 = t2
  h1 = h1
  None = None
  Tasks <- OneTask
  Collaborative <- NoTask
  Hashes <- OneHash
  LongReviews = FALSE
  Lag = TRUE
  SlowReads = FALSE
  MaxRounds = 2
  MaxUnsettled = 1
  MaxFaults = 2
INVARIANTS
  ResultsAreTracked
  JournalLoads
PROPERTIES
  OpenClaimsEnd
  PaymentsAreReported
CHECK_DEADLOCK FALSE
