------------------------------ MODULE PoolBins ------------------------------
(***************************************************************************)
(* The size classes of a memory pool: bitlog2 (src/src/bitlog.hpp) and     *)
(* bin_number / alloc_size (src/src/mempool.hpp).                          *)
(*                                                                         *)
(* Machine integers keep their width.  All widths are multiples of the     *)
(* width of a byte, so a small ByteBits scales the whole machine down: a   *)
(* uint16_t has 2 bytes, a uint32_t (and an int) 4, an unsigned long (and  *)
(* a size_t) 8.  "2^UIntBits" below is the code's 4 GiB.                   *)
(***************************************************************************)
EXTENDS Integers, PowersOfTwo

CONSTANT ByteBits   \* 8 in the code; the bits that log_table_8 decodes

ASSUME ByteBitsAssumption == ByteBits \in Nat \ {0}

UShortBits == 2 * ByteBits
UIntBits   == 4 * ByteBits
SizeBits   == 8 * ByteBits

SizeType == 0 .. Pow2[SizeBits] - 1      \* size_type
BinNr    == 0 .. Pow2[UIntBits] - 1      \* bin_nr_t

-----------------------------------------------------------------------------
(* bitlog2: three halvings of the word, then a table look-up.              *)

log_table_8(v) == IF v = 0 THEN 0 ELSE CHOOSE l \in 0 .. ByteBits - 1 : Pow2[l] <= v /\ v < Pow2[l + 1]

(* Mutant: the offset of the upper byte is forgotten. *)
Bitlog16WithoutOffset(v) ==
  LET t == v \div Pow2[ByteBits]
  IN  IF t # 0 THEN log_table_8(t) ELSE log_table_8(v)

bitlog2_16(v) ==
  LET t == v \div Pow2[ByteBits]
  IN  IF t # 0 THEN ByteBits + log_table_8(t) ELSE log_table_8(v)

bitlog2_32(v) ==
  LET t == v \div Pow2[UShortBits]
  IN  IF t # 0 THEN UShortBits + bitlog2_16(t) ELSE bitlog2_16(v)

bitlog2(v) ==
  LET t == v \div Pow2[UIntBits]
  IN  IF t # 0 THEN UIntBits + bitlog2_32(t) ELSE bitlog2_32(v)

-----------------------------------------------------------------------------
(* Shifts of a word of `bits' bits by a signed amount.  A left shift drops *)
(* what leaves the word; amounts of `bits' and more are undefined          *)
(* behaviour and are kept out of the inputs (see Shiftable).               *)

signed_left_shift(x, amount, bits) ==
  IF amount < 0 THEN x \div Pow2[-amount] ELSE (x * Pow2[amount]) % Pow2[bits]

signed_right_shift(x, amount, bits) ==
  IF amount < 0 THEN (x * Pow2[-amount]) % Pow2[bits] ELSE x \div Pow2[amount]

(* m is the pool's m_leading_bits_in_bin_id throughout. *)

(* The bit m and the bits below it of a size shifted right by l - m.       *)
Shifted(m, size) == signed_right_shift(size, bitlog2(size) - m, SizeBits)

(* mempool.hpp:125: throw "bitlog2 fault".                                 *)
BitlogFault(m, size) == size # 0 /\ (Shifted(m, size) \div Pow2[m]) % 2 = 0

(* Mutant: the mantissa is packed above the exponent. *)
BinNumberMantissaFirst(m, size) == (Shifted(m, size) % Pow2[m]) * SizeBits + bitlog2(size)

bin_number(m, size) ==
  LET l       == bitlog2(size)
      chopped == Shifted(m, size) % Pow2[m]
  IN  (l * Pow2[m] + chopped) % Pow2[UIntBits]

(* Mutants: one bit too few or one too many is filled up. *)
OnesTooFew(m, bin)  == signed_left_shift(1, bin \div Pow2[m] - m - 1, UIntBits)
OnesTooMany(m, bin) == signed_left_shift(1, bin \div Pow2[m] - m + 1, UIntBits)

(* `ones' is computed from the int literal 1, `head' in the width of       *)
(* bin_nr_t: only their values are widened to size_type.                   *)
Ones(m, bin) ==
  LET ones == signed_left_shift(1, bin \div Pow2[m] - m, UIntBits)
  IN  IF ones # 0 THEN ones - 1 ELSE ones

Head(m, bin) ==
  LET exponent == bin \div Pow2[m]
      mantissa == bin % Pow2[m]
  IN  signed_left_shift(Pow2[m] + mantissa, exponent - m, UIntBits)

(* mempool.hpp:152: throw "bit-counting fault"; ones is 2^k - 1, so        *)
(* ones & head is head % 2^k.                                              *)
BitCountingFault(m, bin) == Head(m, bin) % (Ones(m, bin) + 1) # 0

(* Mutant: the smallest size of the bin instead of the largest. *)
AllocSizeWithoutOnes(m, bin) == Head(m, bin)

alloc_size(m, bin) == Head(m, bin) + Ones(m, bin)

(* The sizes whose shifts are defined: 1 << k in an int needs k below its  *)
(* sign bit.                                                               *)
Shiftable(m, size) == bitlog2(size) - m <= UIntBits - 2

-----------------------------------------------------------------------------
(* What a caller of the pool relies on, for one size.                      *)

(* The block handed out for `size' is at least that large, and it is the   *)
(* largest size of the same bin: doc/tools.rst:84-86 and the assertions of *)
(* test_wrapper.py:571-572.                                                *)
RoundsUp(m, size) ==
  LET asize == alloc_size(m, bin_number(m, size))
  IN  /\ asize >= size
      /\ bin_number(m, asize) = bin_number(m, size)

LargestOfBin(m, size) ==
  bin_number(m, alloc_size(m, bin_number(m, size)) + 1) # bin_number(m, size)

(* Rounding costs less than one part in 2^m of the request.                *)
OverheadBounded(m, size) ==
  size # 0 => (alloc_size(m, bin_number(m, size)) - size) * Pow2[m] < size

(* Neither of the two consistency checks throws.                           *)
NoFault(m, size) ==
  ~BitlogFault(m, size) /\ ~BitCountingFault(m, bin_number(m, size))
=============================================================================
