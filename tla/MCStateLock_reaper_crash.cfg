SPECIFICATION Spec
CONSTANTS
  p1 = p1
  p2 = p2
  p3 = p3
  p4 = p4
  None = None
  Processes <- FourProcesses
  Unidentified <- Nobody
  ReaperCrashes = TRUE
  SyncResults <- NeverFails
  MaxAttempts = 3
  MaxCalls = 1
INVARIANTS
  MutualExclusion
SYMMETRY Symmetry
CHECK_DEADLOCK FALSE
