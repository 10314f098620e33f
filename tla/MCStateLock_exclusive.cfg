SPECIFICATION Spec
CONSTANTS
  p1 = p1
  p2 = p2
  p3 = p3
  p4 = p4
  None = None
  Processes <- ThreeProcesses
  Unidentified <- OneReused
  ReaperCrashes = FALSE
  SyncResults = {TRUE, FALSE}
  MaxAttempts = 3
  MaxCalls = 2
INVARIANTS
  MutualExclusion
  OwnersKeepTheirLock
  OnlyStaleLocksAreReaped
CHECK_DEADLOCK FALSE
