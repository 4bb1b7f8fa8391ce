\* A call ends, and nothing follows it.
SPECIFICATION KernelsSpec
CONSTANTS
  Inputs <- MCInputs
  NO_SEG_BOUNDARY = 1000
  Devices <- MCDevices
  Reductions <- MCReductions
  Sorts <- MCSorts
  Jobs <- MCJobs
INVARIANTS
  ScanIsSequential
  ChosenSizesFit
  EachElementOnce
  EveryLineIsSorted
  MergeItemsAreDisjoint
  CompactKeepsOrder
  SortedByKey
  ListsAreContiguous
PROPERTY
  EveryCallEnds
CHECK_DEADLOCK FALSE
