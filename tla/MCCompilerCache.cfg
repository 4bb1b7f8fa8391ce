CONSTANTS
  p1 = p1
  p2 = p2
  h1 = h1
  h2 = h2
  Procs <- TwoProcs
  Contents <- TwoContents
  NumDevices = 2
  MaxEdits = 1
  MaxFaults = 1
  MaxCalls = 3
SPECIFICATION Spec
INVARIANTS
  TypeOK
  OneWriter
  HitsMatchHeader
  ReadableEntriesWhole
PROPERTIES
  CallsReturn
\* The system stops when the last call has returned.
CHECK_DEADLOCK FALSE
