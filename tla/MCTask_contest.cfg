SPECIFICATION FairSpec
CONSTANTS
  Workers <- MCThreeWorkers
  w1 = w1
  w2 = w2
  w3 = w3
  TaskType = "Competitive"
  Hired = FALSE
  InitialMode = "Auto"
  ManualModes = {"CreatorReview"}
  MaxWorkers = 3
  Reward = 33
  EscrowRent = 5
  CleanupReward = 1
  EntryDeposit = 3
  BondAmount = 2
  ProtocolFeeBps = 2000
  OperatorFeeBps = 0
  ReferrerFeeBps = 1000
  ReputationDiscounts <- NoDiscount
  CreditableLegs <- AnyCreditable
  InitialDeadline = 2
  MaxClaimDuration = 2
  CompletionBuffer = 1
  GracePeriod = 1
  ReviewWindow = 2
  SelectionWindow = 4
  MaxRevisionRounds = 2
  ActivityHorizon = 4
  MaxTime = 8
  MaxClaims = 5
INVARIANTS
  NoClaimStranded
  LamportsConserved
PROPERTIES
  NoClawbackAfterGhost
  SubmittedWorkIsJudged
  ClaimsAreReleased
CHECK_DEADLOCK FALSE
