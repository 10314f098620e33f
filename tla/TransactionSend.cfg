SPECIFICATION FairSpec
CONSTANTS
  None = None
  MaxRetries = 2
  Rechecks = 2
  Target = 1
  Transports = {"poll", "notified"}
  StatusLookup = TRUE
INVARIANTS
  AtMostOneBroadcast
  SuccessIsConfirmed
  UnsignedErrorMeansUnsent
  CodedErrorIsFinal
PROPERTIES
  SendReturns
CHECK_DEADLOCK FALSE
