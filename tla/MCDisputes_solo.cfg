SPECIFICATION DisputeSpec
CONSTANTS
  Workers <- OneWorker
  w1 = w1
  w2 = w2
  TaskType = "Exclusive"
  Hired = FALSE
  InitialMode = "Auto"
  ManualModes = {"CreatorReview"}
  MaxWorkers = 1
  Reward = 4
  EscrowRent = 5
  CleanupReward = 0
  EntryDeposit = 3
  BondAmount = 5
  ProtocolFeeBps = 0
  OperatorFeeBps = 0
  ReferrerFeeBps = 0
  ReputationDiscounts <- NoDiscount
  CreditableLegs <- AllCreditable
  InitialDeadline = 0
  MaxClaimDuration = 1
  CompletionBuffer = 1
  GracePeriod = 1
  ReviewWindow = 1
  SelectionWindow = 3
  MaxRevisionRounds = 2
  ActivityHorizon = 2
  MaxTime = 5
  MaxClaims = 1
  Stake = 4
  MinDisputeStake = 1
  SlashPercentage = 50
  VotingPeriod = 1
  VotingGrace = 1
  MaxDisputeDuration = 3
  SlashWindow = 1
  MaxDisputes = 2
  MaxDepartures = 2
INVARIANTS
  ReviewTimeGivenBack
  LamportsAndStakesConserved
PROPERTIES
  BondLostForCause
CHECK_DEADLOCK FALSE
