SPECIFICATION FairSpec
CONSTANTS
  Workers <- MCWorkers
  w1 = w1
  w2 = w2
  w3 = w3
  TaskType = "Collaborative"
  Hired = FALSE
  InitialMode = "Auto"
  ManualModes = {"CreatorReview", "ExternalAttestation"}
  MaxWorkers = 2
  Reward = 21
  EscrowRent = 5
  CleanupReward = 1
  EntryDeposit = 3
  BondAmount = 2
  ProtocolFeeBps = 2000
  OperatorFeeBps = 0
  ReferrerFeeBps = 0
  ReputationDiscounts <- NoDiscount
  CreditableLegs <- AllCreditable
  InitialDeadline = 2
  MaxClaimDuration = 2
  CompletionBuffer = 1
  GracePeriod = 1
  ReviewWindow = 2
  SelectionWindow = 3
  MaxRevisionRounds = 2
  ActivityHorizon = 3
  MaxTime = 8
  MaxClaims = 3
INVARIANTS
  CountersAgree
  StatusMatchesWork
  EscrowBacked
PROPERTIES
  PromiseKept
  ClaimsAreReleased
CHECK_DEADLOCK FALSE
