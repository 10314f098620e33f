SPECIFICATION FairDisputeSpec
CONSTANTS
  Workers <- MCWorkers
  w1 = w1
  w2 = w2
  TaskType = "Collaborative"
  Hired = FALSE
  InitialMode = "Auto"
  ManualModes = {"CreatorReview"}
  MaxWorkers = 2
  Reward = 8
  EscrowRent = 5
  CleanupReward = 1
  EntryDeposit = 3
  BondAmount = 5
  ProtocolFeeBps = 0
  OperatorFeeBps = 0
  ReferrerFeeBps = 0
  ReputationDiscounts <- NoDiscount
  CreditableLegs <- AllCreditable
  InitialDeadline = 0
  MaxClaimDuration = 1
  CompletionBuffer = 1
  GracePeriod = 1
  ReviewWindow = 1
  SelectionWindow = 3
  MaxRevisionRounds = 2
  ActivityHorizon = 1
  MaxTime = 3
  MaxClaims = 3
  Stake = 4
  MinDisputeStake = 1
  SlashPercentage = 50
  VotingPeriod = 1
  VotingGrace = 1
  MaxDisputeDuration = 3
  SlashWindow = 0
  MaxDisputes = 1
  MaxDepartures = 1
INVARIANTS
  CountersAgree
  LiabilitiesAgree
PROPERTIES
  DisputesEnd
CHECK_DEADLOCK FALSE
