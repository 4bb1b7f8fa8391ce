\* One thread, and every allocation of the device is made through the pool.
SPECIFICATION Spec
CONSTANTS
  t1 = t1
  h1 = h1
  h2 = h2
  h3 = h3
  b1 = b1
  b2 = b2
  b3 = b3
  NoBlock = NoBlock
  Threads = {t1}
  Handles = {h1, h2, h3}
  Blocks = {b1, b2, b3}
  Requests = {2, 4, 5}
  ByteBits = 2
  LeadingBits = 1
  Bins <- MCBins
  BinNumber <- MCBinNumber
  AllocSize <- MCAllocSize
  Capacity = 7
  OutsideUse = {0}
  MaxLost = 1
SYMMETRY Symmetry
PROPERTY OutOfMemoryIsGenuine
