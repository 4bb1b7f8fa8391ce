\* Requests of the code's 4 GiB and more, with the pool's default of 4 bits.
SPECIFICATION Spec
CONSTANTS
  ByteBits = 2
  LeadingBits = {4}
  SizeLimit = 512
INVARIANT BlocksCoverRequests
CHECK_DEADLOCK FALSE
