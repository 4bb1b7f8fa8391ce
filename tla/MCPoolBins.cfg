\* Requests below the code's 4 GiB: every block size fits an unsigned int.
SPECIFICATION Spec
CONSTANTS
  ByteBits = 3
  LeadingBits = {1, 2, 3, 4, 5}
  SizeLimit = 4096
INVARIANTS
  BlocksCoverRequests
  BlockIsLargestOfBin
  OverheadIsBounded
  NeverFaults
PROPERTY BinsFollowSizes
CHECK_DEADLOCK FALSE
