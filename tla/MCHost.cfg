SPECIFICATION HostSpec
CONSTANTS
  n_wait = 1
  MaxCommands = 7
  MaxHandles = 3
  ElementwiseCalls <- MCCalls
  max_work_items = 4
  min_work_items = 2
  groups_per_unit = 2
  max_chunk_size = 2
  word = 16
  counter_max = 7
  work_items = 8
  Counters <- MCCounters
  Sizes <- MCSizes
  MaxFills = 3
  Threads = {t1, t2}
  Signatures <- MCSignatures
  max_fp_args = 3
  MaxCalls = 3
  Workers = {w1, w2}
  HostArrays = {a1}
  MaxTransfers = 2
INVARIANTS
  OrderIsKept
  ElementsComputed
  ExpressionsAreTyped
  StreamsDisjoint
  KernelRunsWithItsArguments
  HostMemoryIsKept
SYMMETRY MCSymmetry
CHECK_DEADLOCK FALSE
