----------------------------- MODULE MCPoolBins -----------------------------
(***************************************************************************)
(* Walks through every request size below SizeLimit, for every number of   *)
(* leading bits in LeadingBits, and checks the size classes of PoolBins.   *)
(***************************************************************************)
EXTENDS PoolBins

CONSTANTS LeadingBits,  \* the values of leading_bits_in_bin_id to try
          SizeLimit     \* the first size that is not tried

ASSUME WalkAssumption ==
  /\ SizeLimit \in SizeType /\ SizeLimit # 0
  /\ \A m \in LeadingBits : Shiftable(m, SizeLimit - 1)

VARIABLES leading_bits, size

vars == <<leading_bits, size>>

Init == leading_bits \in LeadingBits /\ size = 0

NextSize == size + 1 < SizeLimit /\ size' = size + 1 /\ UNCHANGED leading_bits

Spec == Init /\ [][NextSize]_vars

-----------------------------------------------------------------------------
(* Every request gets a block of at least its size, of its own bin         *)
(* (mempool.hpp:192-208; the assertions of test_wrapper.py:571-572).       *)
BlocksCoverRequests == RoundsUp(leading_bits, size)

(* The block is the largest of its bin, so all blocks of a bin are         *)
(* interchangeable (doc/tools.rst:84-86).                                  *)
BlockIsLargestOfBin == LargestOfBin(leading_bits, size)

(* Rounding wastes less than one part in 2^leading_bits (the bound that    *)
(* test_wrapper.py:573 means to assert).                                   *)
OverheadIsBounded == OverheadBounded(leading_bits, size)

(* The two "fault" exceptions of mempool.hpp:125 and :152 never fire.      *)
NeverFaults == NoFault(leading_bits, size)

(* A larger request never maps to a smaller bin: try_to_free_memory relies *)
(* on it when it walks the bins backwards to "free largest stuff first"    *)
(* (mempool.hpp:302).                                                      *)
BinsFollowSizes ==
  [][bin_number(leading_bits, size) <= bin_number(leading_bits, size')]_vars
=============================================================================
