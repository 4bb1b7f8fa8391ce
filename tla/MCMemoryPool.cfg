\* Two threads share a pool on a device that takes three small blocks, or a
\* large and a small one, while others use up to two bytes of it.  Leaked
\* objects (lost), which nothing looks at, are left to MCMemoryPoolOOM.cfg.
SPECIFICATION Spec
CONSTANTS
  t1 = t1
  t2 = t2
  h1 = h1
  h2 = h2
  h3 = h3
  b1 = b1
  b2 = b2
  b3 = b3
  NoBlock = NoBlock
  Threads = {t1, t2}
  Handles = {h1, h2, h3}
  Blocks = {b1, b2, b3}
  Requests = {2, 3, 4, 5}
  ByteBits = 2
  LeadingBits = 1
  Bins <- MCBins
  BinNumber <- MCBinNumber
  AllocSize <- MCAllocSize
  Capacity = 7
  OutsideUse = {0, 2}
  MaxLost = 0
SYMMETRY Symmetry
INVARIANTS
  TypeOK
  BlockOwnershipExact
  BinsInterchangeable
  CountersExact
  StoppedPoolHoldsNothing
  NoUsableBlockEvicted
PROPERTIES
  EvictsLargestFirst
  OwnershipPromise
