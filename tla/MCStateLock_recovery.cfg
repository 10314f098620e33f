SPECIFICATION FairSpec
CONSTANTS
  p1 = p1
  p2 = p2
  p3 = p3
  p4 = p4
  None = None
  Processes <- ThreeProcesses
  Unidentified <- Nobody
  ReaperCrashes = TRUE
  SyncResults <- NeverFails
  MaxAttempts = 4
  MaxCalls = 1
PROPERTIES
  StaleLocksAreReclaimed
CHECK_DEADLOCK FALSE
