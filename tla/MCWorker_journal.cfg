SPECIFICATION Spec
CONSTANTS
  t1 = t1
  t2 = t2
  h1 = h1
  None = None
  Tasks <- TwoTasks
  Collaborative <- TwoTasks
  Hashes <- OneHash
  LongReviews = FALSE
  Lag = FALSE
  SlowReads = FALSE
  MaxRounds = 2
  MaxUnsettled = 2
  MaxFaults = 2
SYMMETRY Symmetry
INVARIANTS
  ClaimsAreTracked
  ResultsAreCurrent
  EarningsBookedOnce
PROPERTIES
  ExecutedOncePerRound
CHECK_DEADLOCK FALSE
