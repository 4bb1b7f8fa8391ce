CONSTANTS
  p1 = p1
  p2 = p2
  h1 = h1
  h2 = h2
  Procs <- OneProc
  Contents <- TwoContents
  NumDevices = 2
  MaxEdits = 1
  MaxFaults = 1
  MaxCalls = 2
SPECIFICATION Spec
INVARIANT FailsOnlyIfSourceFails
CHECK_DEADLOCK FALSE
