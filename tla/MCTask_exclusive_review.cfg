SPECIFICATION FairSpec
CONSTANTS
  Workers <- MCWorkers
  w1 = w1
  w2 = w2
  w3 = w3
  TaskType = "Exclusive"
  Hired = TRUE
  InitialMode = "CreatorReview"
  ManualModes = {"CreatorReview", "ExternalAttestation"}
  MaxWorkers = 1
  Reward = 20
  EscrowRent = 5
  CleanupReward = 1
  EntryDeposit = 3
  BondAmount = 5
  ProtocolFeeBps = 2000
  OperatorFeeBps = 1000
  ReferrerFeeBps = 0
  ReputationDiscounts = {0, 1999}
  CreditableLegs <- AllCreditable
  InitialDeadline = 2
  MaxClaimDuration = 2
  CompletionBuffer = 1
  GracePeriod = 1
  ReviewWindow = 2
  SelectionWindow = 3
  MaxRevisionRounds = 3
  ActivityHorizon = 5
  MaxTime = 10
  MaxClaims = 3
INVARIANTS
  BondsHaveOwners
PROPERTIES
  BondLostOnlyByNoShow
  ResubmitWindowHonoured
  LegsNeverSkipped
  PromiseKept
  SubmissionsAreAnswered
  FreezesEnd
CHECK_DEADLOCK FALSE
