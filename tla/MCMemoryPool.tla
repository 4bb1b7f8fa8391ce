---------------------------- MODULE MCMemoryPool ----------------------------
(***************************************************************************)
(* Instances of MemoryPool for TLC.  The bins are those of a pool with one *)
(* leading bit: requests of 2 and of 3 bytes get blocks of that size,      *)
(* requests of 4 and of 5 bytes share a bin of blocks of 5.                *)
(***************************************************************************)
EXTENDS MemoryPool, TLC

CONSTANTS ByteBits, LeadingBits

SizeClass == INSTANCE PoolBins

MCBins      == {SizeClass!bin_number(LeadingBits, s) : s \in Requests}
MCBinNumber == [s \in Requests |-> SizeClass!bin_number(LeadingBits, s)]
MCAllocSize == [k \in MCBins |-> SizeClass!alloc_size(LeadingBits, k)]

(* Bound: there are as many block identities as fit on the device at once. *)
ASSUME EnoughBlocks ==
  \A k \in MCBins : MCAllocSize[k] * (Cardinality(Blocks) + 1) > Capacity

Symmetry == Permutations(Threads) \cup Permutations(Handles) \cup Permutations(Blocks)
=============================================================================
