--------------------------- MODULE PoolBinsProofs ---------------------------
(***************************************************************************)
(* The size classes for every ByteBits, every number of leading bits and   *)
(* every size.                                                             *)
(***************************************************************************)
EXTENDS MCPoolBins, Induction, TLAPS

-----------------------------------------------------------------------------
(* The position of the highest bit of v.                                   *)
HighBit(v, l) == l \in Nat /\ Pow2[l] <= v /\ v < Pow2[l + 1]

LEMMA HighBitUnique ==
  ASSUME NEW v \in Nat, NEW k, NEW l, HighBit(v, k), HighBit(v, l)
  PROVE  k = l
<1>1. \A x, y \in Nat : HighBit(v, x) /\ HighBit(v, y) => ~(x < y)
  <2> SUFFICES ASSUME NEW x \in Nat, NEW y \in Nat, HighBit(v, x), HighBit(v, y), x < y PROVE FALSE
    OBVIOUS
  <2>1. 2 * Pow2[x] <= Pow2[y] /\ Pow2[x + 1] = 2 * Pow2[x] /\ Pow2[x] \in Nat /\ Pow2[y] \in Nat
    BY Pow2Grows, Pow2Def, Pow2Positive
  <2> QED
    BY <2>1 DEF HighBit
<1> QED
  BY <1>1 DEF HighBit

LEMMA HighBitExists ==
  ASSUME NEW n \in Nat, NEW v \in Nat \ {0}, v < Pow2[n]
  PROVE  \E l \in 0 .. n - 1 : HighBit(v, l)
<1> DEFINE S == {k \in Nat : v < Pow2[k]}
<1>1. PICK k \in S : \A y \in S : k =< y
  BY LeastNat
<1>2. k # 0 /\ k <= n
  BY <1>1, Pow2Def
<1>3. k - 1 \in Nat /\ (k - 1) + 1 = k /\ k - 1 \notin S
  BY <1>1, <1>2
<1>4. Pow2[k - 1] <= v /\ v < Pow2[(k - 1) + 1]
  BY <1>1, <1>3, Pow2Positive
<1>5. HighBit(v, k - 1) /\ k - 1 \in 0 .. n - 1
  BY <1>2, <1>3, <1>4 DEF HighBit
<1> QED
  BY <1>5

-----------------------------------------------------------------------------
(* Division and remainder.                                                 *)
LEMMA DivMod ==
  ASSUME NEW n \in Nat, NEW d \in Nat \ {0}
  PROVE  n \div d \in Nat /\ n % d \in 0 .. d - 1 /\ n = (n \div d) * d + (n % d)
OBVIOUS

LEMMA DivUnique ==
  ASSUME NEW n \in Nat, NEW d \in Nat \ {0}, NEW q \in Nat, NEW r \in 0 .. d - 1, n = q * d + r
  PROVE  n \div d = q /\ n % d = r
<1>1. n \div d \in Nat /\ n % d \in 0 .. d - 1 /\ n = (n \div d) * d + (n % d)
  BY DivMod
<1>2. \A a, b \in Nat : \A x, y \in 0 .. d - 1 : a * d + x = b * d + y => ~(a < b)
  <2> SUFFICES ASSUME NEW a \in Nat, NEW b \in Nat, NEW x \in 0 .. d - 1, NEW y \in 0 .. d - 1,
                      a * d + x = b * d + y, a < b
               PROVE  FALSE
    OBVIOUS
  <2>1. b = (a + (b - a - 1)) + 1 /\ b - a - 1 \in Nat
    OBVIOUS
  <2>2. b * d = a * d + (b - a - 1) * d + d
    BY <2>1
  <2>3. (b - a - 1) * d \in Nat /\ a * d \in Nat
    BY <2>1
  <2> QED
    BY <2>2, <2>3
<1>3. ~(n \div d < q) /\ ~(q < n \div d)
  BY <1>1, <1>2
<1>4. n \div d = q
  BY <1>1, <1>3
<1>5. (n \div d) * d \in Nat
  BY <1>1
<1> QED
  BY <1>1, <1>4, <1>5

(* The bounds of a quotient.                                               *)
LEMMA DivBounds ==
  ASSUME NEW n \in Nat, NEW d \in Nat \ {0}, NEW q \in Nat
  PROVE  (q * d <= n <=> q <= n \div d) /\ (n < q * d <=> n \div d < q)
<1>1. n \div d \in Nat /\ n % d \in 0 .. d - 1 /\ n = (n \div d) * d + (n % d)
  BY DivMod
<1>2. \A a, b \in Nat : a <= b => a * d <= b * d
  <2> SUFFICES ASSUME NEW a \in Nat, NEW b \in Nat, a <= b PROVE a * d <= b * d
    OBVIOUS
  <2>1. b = a + (b - a) /\ b - a \in Nat
    OBVIOUS
  <2>2. b * d = a * d + (b - a) * d /\ (b - a) * d \in Nat /\ a * d \in Nat
    BY <2>1
  <2> QED
    BY <2>2
<1>3. q <= n \div d => q * d <= n
  BY <1>1, <1>2
<1>4. n \div d < q => n < q * d
  <2> SUFFICES ASSUME n \div d < q PROVE n < q * d
    OBVIOUS
  <2>1. (n \div d + 1) * d <= q * d
    BY <1>1, <1>2
  <2>2. (n \div d + 1) * d = (n \div d) * d + d
    BY <1>1
  <2> QED
    BY <1>1, <2>1, <2>2
<1>5. q * d \in Nat
  OBVIOUS
<1> QED
  BY <1>1, <1>3, <1>4, <1>5

-----------------------------------------------------------------------------
(* bitlog2 finds the highest bit.                                          *)
LEMMA LogTable ==
  ASSUME NEW v \in Nat \ {0}, v < Pow2[ByteBits]
  PROVE  HighBit(v, log_table_8(v)) /\ log_table_8(v) \in 0 .. ByteBits - 1
<1>1. \E l \in 0 .. ByteBits - 1 : Pow2[l] <= v /\ v < Pow2[l + 1]
  BY HighBitExists, ByteBitsAssumption DEF HighBit
<1>2. log_table_8(v) = CHOOSE l \in 0 .. ByteBits - 1 : Pow2[l] <= v /\ v < Pow2[l + 1]
  BY DEF log_table_8
<1>3. log_table_8(v) \in 0 .. ByteBits - 1 /\ Pow2[log_table_8(v)] <= v /\ v < Pow2[log_table_8(v) + 1]
  BY <1>1, <1>2
<1> QED
  BY <1>3, ByteBitsAssumption DEF HighBit

(* A halving: the highest bit of the upper part, counted from below.       *)
LEMMA Halving ==
  ASSUME NEW v \in Nat, NEW b \in Nat, NEW c \in Nat, v < Pow2[b + c]
  PROVE  /\ v \div Pow2[b] \in Nat /\ v \div Pow2[b] < Pow2[c]
         /\ v \div Pow2[b] = 0 => v < Pow2[b]
         /\ \A k : HighBit(v \div Pow2[b], k) => HighBit(v, b + k)
<1>1. Pow2[b] \in Nat \ {0} /\ Pow2[c] \in Nat \ {0} /\ Pow2[b + c] = Pow2[c] * Pow2[b]
  BY Pow2Positive, Pow2Sum
<1>2. v \div Pow2[b] \in Nat /\ v \div Pow2[b] < Pow2[c]
  BY <1>1, DivMod, DivBounds
<1>3. v \div Pow2[b] = 0 => v < Pow2[b]
  <2>1. v < 1 * Pow2[b] <=> v \div Pow2[b] < 1
    BY <1>1, DivBounds
  <2> QED
    BY <1>1, <2>1
<1>4. ASSUME NEW k, HighBit(v \div Pow2[b], k) PROVE HighBit(v, b + k)
  <2>1. /\ k \in Nat /\ b + k \in Nat /\ (b + k) + 1 = b + (k + 1)
        /\ Pow2[k] \in Nat /\ Pow2[k + 1] \in Nat
    BY <1>4, Pow2Positive DEF HighBit
  <2>2. Pow2[b + k] = Pow2[k] * Pow2[b] /\ Pow2[(b + k) + 1] = Pow2[k + 1] * Pow2[b]
    <3>1. Pow2[b + k] = Pow2[b] * Pow2[k] /\ Pow2[b + (k + 1)] = Pow2[b] * Pow2[k + 1]
      BY <2>1, Pow2Sum
    <3>2. \A x, y \in Nat : x * y = y * x
      OBVIOUS
    <3> QED
      BY <1>1, <2>1, <3>1, <3>2
  <2>3. Pow2[k] * Pow2[b] <= v /\ v < Pow2[k + 1] * Pow2[b]
    BY <1>1, <1>4, <2>1, DivBounds DEF HighBit
  <2> QED
    BY <2>1, <2>2, <2>3 DEF HighBit
<1> QED
  BY <1>2, <1>3, <1>4

LEMMA Bitlog16 ==
  ASSUME NEW v \in Nat \ {0}, v < Pow2[UShortBits]
  PROVE  HighBit(v, bitlog2_16(v))
<1> DEFINE t == v \div Pow2[ByteBits]
<1>1. ByteBits \in Nat /\ UShortBits = ByteBits + ByteBits
  BY ByteBitsAssumption DEF UShortBits
<1>2. /\ t \in Nat /\ t < Pow2[ByteBits] /\ (t = 0 => v < Pow2[ByteBits])
      /\ \A k : HighBit(t, k) => HighBit(v, ByteBits + k)
  BY <1>1, Halving
<1>3. bitlog2_16(v) = IF t # 0 THEN ByteBits + log_table_8(t) ELSE log_table_8(v)
  BY DEF bitlog2_16
<1> HIDE DEF t
<1> QED
  BY <1>2, <1>3, LogTable

LEMMA Bitlog32 ==
  ASSUME NEW v \in Nat \ {0}, v < Pow2[UIntBits]
  PROVE  HighBit(v, bitlog2_32(v))
<1> DEFINE t == v \div Pow2[UShortBits]
<1>1. UShortBits \in Nat /\ UIntBits = UShortBits + UShortBits
  BY ByteBitsAssumption DEF UShortBits, UIntBits
<1>2. /\ t \in Nat /\ t < Pow2[UShortBits] /\ (t = 0 => v < Pow2[UShortBits])
      /\ \A k : HighBit(t, k) => HighBit(v, UShortBits + k)
  BY <1>1, Halving
<1>3. bitlog2_32(v) = IF t # 0 THEN UShortBits + bitlog2_16(t) ELSE bitlog2_16(v)
  BY DEF bitlog2_32
<1> HIDE DEF t
<1> QED
  BY <1>2, <1>3, Bitlog16

LEMMA Bitlog ==
  ASSUME NEW v \in Nat \ {0}, v < Pow2[SizeBits]
  PROVE  HighBit(v, bitlog2(v))
<1> DEFINE t == v \div Pow2[UIntBits]
<1>1. UIntBits \in Nat /\ SizeBits = UIntBits + UIntBits
  BY ByteBitsAssumption DEF SizeBits, UIntBits
<1>2. /\ t \in Nat /\ t < Pow2[UIntBits] /\ (t = 0 => v < Pow2[UIntBits])
      /\ \A k : HighBit(t, k) => HighBit(v, UIntBits + k)
  BY <1>1, Halving
<1>3. bitlog2(v) = IF t # 0 THEN UIntBits + bitlog2_32(t) ELSE bitlog2_32(v)
  BY DEF bitlog2
<1> HIDE DEF t
<1> QED
  BY <1>2, <1>3, Bitlog32

(* bitlog2(0) is 0.                                                        *)
LEMMA BitlogZero == bitlog2(0) = 0
<1>1. \A n \in Nat : 0 \div Pow2[n] = 0
  <2> SUFFICES ASSUME NEW n \in Nat PROVE 0 \div Pow2[n] = 0
    OBVIOUS
  <2>1. Pow2[n] \in Nat \ {0} /\ 0 = 0 * Pow2[n] + 0
    BY Pow2Positive
  <2> QED
    BY <2>1, DivUnique
<1>2. ByteBits \in Nat /\ UShortBits \in Nat /\ UIntBits \in Nat
  BY ByteBitsAssumption DEF UShortBits, UIntBits
<1>3. bitlog2_16(0) = 0
  BY <1>1, <1>2 DEF bitlog2_16, log_table_8
<1>4. bitlog2_32(0) = 0
  BY <1>1, <1>2, <1>3 DEF bitlog2_32
<1> QED
  BY <1>1, <1>2, <1>4 DEF bitlog2

-----------------------------------------------------------------------------
(* The number of a bin: where the highest bit of the size is, and the      *)
(* leading bits after it.                                                  *)

(* The numbers of all bins fit bin_nr_t.                                   *)
NumbersFit(m) == m \in Nat /\ SizeBits * Pow2[m] <= Pow2[UIntBits]

(* A request of less than the code's 4 GiB whose shifts are defined.       *)
Request(m, sz) == sz \in Nat /\ sz < Pow2[UIntBits] /\ Shiftable(m, sz)

(* The highest bit of a size and the m bits below it.                      *)
Leading(m, l, sz) == IF l >= m THEN sz \div Pow2[l - m] ELSE sz * Pow2[m - l]

LEMMA Widths ==
  /\ ByteBits \in Nat \ {0} /\ UIntBits \in Nat \ {0} /\ SizeBits \in Nat \ {0}
  /\ UIntBits + 1 < SizeBits /\ 2 * Pow2[UIntBits] <= Pow2[SizeBits]
<1>1. /\ ByteBits \in Nat \ {0} /\ UIntBits \in Nat \ {0} /\ SizeBits \in Nat \ {0}
      /\ UIntBits + 1 < SizeBits
  BY ByteBitsAssumption DEF UIntBits, SizeBits
<1> QED
  BY <1>1, Pow2Grows

(* So few leading bits are fewer than the bits of a bin number.            *)
LEMMA FewLeadingBits ==
  ASSUME NEW m, NumbersFit(m)
  PROVE  m \in Nat /\ m + 1 < SizeBits /\ Pow2[m + 1] <= Pow2[UIntBits]
<1>1. m \in Nat /\ SizeBits * Pow2[m] <= Pow2[UIntBits] /\ Pow2[m] \in Nat \ {0}
  BY Pow2Positive DEF NumbersFit
<1>2. \A x \in Nat \ {0}, y \in Nat : 2 <= y => 2 * x <= y * x
  OBVIOUS
<1>3. 2 * Pow2[m] <= Pow2[UIntBits]
  <2>1. 2 * Pow2[m] <= SizeBits * Pow2[m] /\ SizeBits * Pow2[m] \in Nat
    BY <1>1, <1>2, Widths
  <2> QED
    BY <1>1, <2>1, Widths, Pow2Positive
<1>4. m < UIntBits
  <2> SUFFICES ASSUME UIntBits <= m PROVE FALSE
    BY <1>1, Widths
  <2>1. Pow2[UIntBits] <= Pow2[m]
    <3>1. CASE UIntBits = m
      BY <1>1, <3>1
    <3>2. CASE UIntBits < m
      BY <1>1, <3>2, Widths, Pow2Grows, Pow2Positive
    <3> QED
      BY <1>1, <3>1, <3>2, Widths
  <2> QED
    BY <1>1, <1>3, <2>1, Widths, Pow2Positive
<1> QED
  BY <1>1, <1>3, <1>4, Widths, Pow2Def

LEMMA LeadingBounds ==
  ASSUME NEW m \in Nat, NEW sz \in Nat \ {0}, NEW l, HighBit(sz, l)
  PROVE  Leading(m, l, sz) \in Pow2[m] .. 2 * Pow2[m] - 1
<1>1. /\ l \in Nat /\ Pow2[l] <= sz /\ sz < 2 * Pow2[l] /\ Pow2[l] \in Nat \ {0}
      /\ Pow2[m] \in Nat \ {0}
  BY Pow2Def, Pow2Positive DEF HighBit
<1>2. CASE l >= m
  <2>1. l - m \in Nat /\ m + (l - m) = l
    BY <1>1, <1>2
  <2>2. Pow2[l] = Pow2[m] * Pow2[l - m] /\ Pow2[l - m] \in Nat \ {0}
    BY <2>1, Pow2Sum, Pow2Positive
  <2>3. 2 * Pow2[l] = (2 * Pow2[m]) * Pow2[l - m]
    <3>1. \A x, y \in Nat : 2 * (x * y) = (2 * x) * y
      OBVIOUS
    <3> QED
      BY <1>1, <2>2, <3>1
  <2>4. sz \div Pow2[l - m] \in Nat /\ Pow2[m] <= sz \div Pow2[l - m]
    BY <1>1, <2>2, DivMod, DivBounds
  <2>5. sz \div Pow2[l - m] < 2 * Pow2[m]
    <3>1. 2 * Pow2[m] \in Nat /\ sz < (2 * Pow2[m]) * Pow2[l - m]
      BY <1>1, <2>3
    <3> QED
      BY <2>2, <3>1, DivBounds
  <2>6. Leading(m, l, sz) = sz \div Pow2[l - m]
    BY <1>2 DEF Leading
  <2> QED
    BY <1>1, <2>4, <2>5, <2>6
<1>3. CASE l < m
  <2>1. m - l \in Nat /\ l + (m - l) = m
    BY <1>1, <1>3
  <2>2. Pow2[m] = Pow2[l] * Pow2[m - l] /\ Pow2[m - l] \in Nat \ {0}
    BY <1>1, <2>1, Pow2Sum, Pow2Positive
  <2>3. \A x, y, z \in Nat : z # 0 => /\ x <= y => x * z <= y * z
                                      /\ y < 2 * x => y * z < 2 * (x * z)
    <3> SUFFICES ASSUME NEW x \in Nat, NEW y \in Nat, NEW z \in Nat \ {0}
                 PROVE  /\ x <= y => x * z <= y * z
                        /\ y < 2 * x => y * z < 2 * (x * z)
      OBVIOUS
    <3>1. x <= y => x * z <= y * z
      <4> SUFFICES ASSUME x <= y PROVE x * z <= y * z
        OBVIOUS
      <4>1. y = x + (y - x) /\ y - x \in Nat
        OBVIOUS
      <4>2. y * z = x * z + (y - x) * z /\ (y - x) * z \in Nat /\ x * z \in Nat
        BY <4>1
      <4> QED
        BY <4>2
    <3>2. y < 2 * x => y * z < 2 * (x * z)
      <4> SUFFICES ASSUME y < 2 * x PROVE y * z < 2 * (x * z)
        OBVIOUS
      <4>1. 2 * x = y + (2 * x - y - 1) + 1 /\ 2 * x - y - 1 \in Nat
        OBVIOUS
      <4>2. (2 * x) * z = y * z + (2 * x - y - 1) * z + z
        BY <4>1
      <4>3. (2 * x) * z = 2 * (x * z) /\ (2 * x - y - 1) * z \in Nat /\ y * z \in Nat
        BY <4>1
      <4> QED
        BY <4>2, <4>3
    <3> QED
      BY <3>1, <3>2
  <2>4. Pow2[m] <= sz * Pow2[m - l] /\ sz * Pow2[m - l] < 2 * Pow2[m]
    BY <1>1, <2>2, <2>3
  <2>5. Leading(m, l, sz) = sz * Pow2[m - l] /\ sz * Pow2[m - l] \in Nat
    BY <1>1, <1>3, <2>2 DEF Leading
  <2> QED
    BY <1>1, <2>4, <2>5
<1> QED
  BY <1>1, <1>2, <1>3

(* What bin_number shifts and packs.                                       *)
LEMMA ShiftedIs ==
  ASSUME NEW m, NumbersFit(m), NEW sz \in Nat \ {0}, sz <= Pow2[UIntBits]
  PROVE  /\ HighBit(sz, bitlog2(sz)) /\ bitlog2(sz) \in 0 .. UIntBits
         /\ Shifted(m, sz) = Leading(m, bitlog2(sz), sz)
<1> DEFINE l == bitlog2(sz)
<1>1. /\ m \in Nat /\ m + 1 < SizeBits /\ Pow2[m + 1] <= Pow2[UIntBits]
      /\ UIntBits \in Nat /\ SizeBits \in Nat /\ 2 * Pow2[UIntBits] <= Pow2[SizeBits]
      /\ Pow2[UIntBits] \in Nat \ {0} /\ Pow2[SizeBits] \in Nat \ {0}
  BY FewLeadingBits, Widths, Pow2Positive
<1>2. HighBit(sz, l)
  BY <1>1, Bitlog
<1>3. l \in Nat /\ Pow2[l] <= sz /\ Pow2[l] \in Nat
  BY <1>2, Pow2Positive DEF HighBit
<1>4. l <= UIntBits
  <2> SUFFICES ASSUME UIntBits < l PROVE FALSE
    BY <1>1, <1>3
  <2>1. 2 * Pow2[UIntBits] <= Pow2[l]
    BY <1>1, <1>3, Pow2Grows
  <2> QED
    BY <1>1, <1>3, <2>1
<1>5. Shifted(m, sz) = IF l - m < 0 THEN (sz * Pow2[-(l - m)]) % Pow2[SizeBits]
                         ELSE sz \div Pow2[l - m]
  BY DEF Shifted, signed_right_shift
<1> HIDE DEF l
<1>6. ASSUME l >= m PROVE Shifted(m, sz) = Leading(m, l, sz)
  BY <1>1, <1>3, <1>5, <1>6 DEF Leading
<1>7. ASSUME l < m PROVE Shifted(m, sz) = Leading(m, l, sz)
  <2>1. -(l - m) = m - l /\ m - l \in Nat
    BY <1>1, <1>3, <1>7
  <2>2. Leading(m, l, sz) = sz * Pow2[m - l] /\ Shifted(m, sz) = (sz * Pow2[m - l]) % Pow2[SizeBits]
    BY <1>1, <1>3, <1>5, <1>7, <2>1 DEF Leading
  <2>3. Leading(m, l, sz) \in Nat /\ Leading(m, l, sz) < Pow2[SizeBits]
    <3>1. Leading(m, l, sz) \in Pow2[m] .. 2 * Pow2[m] - 1
      BY <1>1, <1>2, LeadingBounds
    <3>2. Pow2[m + 1] = 2 * Pow2[m] /\ Pow2[m] \in Nat
      BY <1>1, Pow2Def, Pow2Positive
    <3> QED
      BY <1>1, <3>1, <3>2
  <2>4. Leading(m, l, sz) % Pow2[SizeBits] = Leading(m, l, sz)
    BY <1>1, <2>3
  <2> QED
    BY <2>2, <2>4
<1>8. l \in 0 .. UIntBits /\ Shifted(m, sz) = Leading(m, l, sz)
  BY <1>1, <1>3, <1>4, <1>6, <1>7
<1> QED
  BY <1>2, <1>8 DEF l

LEMMA BinIs ==
  ASSUME NEW m, NumbersFit(m), NEW sz \in Nat \ {0}, sz <= Pow2[UIntBits],
         NEW l, l = bitlog2(sz), NEW s, s = Leading(m, l, sz), NEW bin, bin = bin_number(m, sz)
  PROVE  /\ HighBit(sz, l) /\ l \in 0 .. UIntBits /\ s \in Pow2[m] .. 2 * Pow2[m] - 1
         /\ Shifted(m, sz) = s
         /\ bin \in Nat /\ bin \div Pow2[m] = l /\ bin % Pow2[m] = s - Pow2[m]
         /\ bin = l * Pow2[m] + (s - Pow2[m])
<1>1. /\ m \in Nat /\ Pow2[m] \in Nat \ {0} /\ SizeBits * Pow2[m] <= Pow2[UIntBits]
      /\ Pow2[UIntBits] \in Nat \ {0} /\ UIntBits \in Nat /\ SizeBits \in Nat /\ UIntBits + 1 < SizeBits
  BY Pow2Positive, Widths DEF NumbersFit
<1>2. HighBit(sz, l) /\ l \in 0 .. UIntBits /\ Shifted(m, sz) = s
  BY ShiftedIs
<1>3. s \in Pow2[m] .. 2 * Pow2[m] - 1
  BY <1>1, <1>2, LeadingBounds
<1>4. s % Pow2[m] = s - Pow2[m]
  <2>1. s = 1 * Pow2[m] + (s - Pow2[m]) /\ s - Pow2[m] \in 0 .. Pow2[m] - 1 /\ s \in Nat
    BY <1>1, <1>3
  <2> QED
    BY <1>1, <2>1, DivUnique
<1> DEFINE b == l * Pow2[m] + (s - Pow2[m])
<1>5. b \in Nat /\ b < Pow2[UIntBits]
  <2>1. l \in Nat /\ l + 1 <= SizeBits
    BY <1>1, <1>2
  <2>2. l * Pow2[m] \in Nat /\ (l + 1) * Pow2[m] = l * Pow2[m] + Pow2[m]
    <3>1. \A x, y \in Nat : x * y \in Nat /\ (x + 1) * y = x * y + y
      OBVIOUS
    <3> QED
      BY <1>1, <2>1, <3>1
  <2>3. (l + 1) * Pow2[m] <= SizeBits * Pow2[m]
    <3>1. SizeBits = (l + 1) + (SizeBits - l - 1) /\ SizeBits - l - 1 \in Nat
      BY <1>1, <2>1
    <3>2. SizeBits * Pow2[m] = (l + 1) * Pow2[m] + (SizeBits - l - 1) * Pow2[m]
      BY <1>1, <2>1, <3>1
    <3>3. (SizeBits - l - 1) * Pow2[m] \in Nat
      BY <1>1, <3>1
    <3> QED
      BY <2>2, <3>2, <3>3, <1>1
  <2>4. SizeBits * Pow2[m] \in Nat
    BY <1>1
  <2> QED
    BY <1>1, <1>3, <2>2, <2>3, <2>4
<1>6. bin = b % Pow2[UIntBits]
  BY <1>2, <1>4 DEF bin_number
<1>7. bin = b
  <2> HIDE DEF b
  <2> QED
    BY <1>1, <1>5, <1>6
<1>8. b \div Pow2[m] = l /\ b % Pow2[m] = s - Pow2[m]
  <2>1. s - Pow2[m] \in 0 .. Pow2[m] - 1 /\ l \in Nat
    BY <1>1, <1>2, <1>3
  <2> QED
    BY <1>1, <1>5, <2>1, DivUnique
<1> QED
  BY <1>2, <1>3, <1>5, <1>7, <1>8

(* The highest bit and the leading bits are what a bin has in common.      *)
LEMMA SameBin ==
  ASSUME NEW m, NumbersFit(m), NEW a \in Nat \ {0}, a <= Pow2[UIntBits], NEW b \in Nat \ {0}, b <= Pow2[UIntBits],
         NEW la, HighBit(a, la), NEW lb, HighBit(b, lb)
  PROVE  bin_number(m, a) = bin_number(m, b) <=> la = lb /\ Leading(m, la, a) = Leading(m, lb, b)
<1>1. HighBit(a, bitlog2(a)) /\ HighBit(b, bitlog2(b))
  BY ShiftedIs
<1>2. la = bitlog2(a) /\ lb = bitlog2(b)
  BY <1>1, HighBitUnique
<1>3. Pow2[m] \in Nat
  BY Pow2Positive DEF NumbersFit
<1>4. /\ bin_number(m, a) \div Pow2[m] = la /\ bin_number(m, a) % Pow2[m] = Leading(m, la, a) - Pow2[m]
      /\ bin_number(m, a) = la * Pow2[m] + (Leading(m, la, a) - Pow2[m])
      /\ Leading(m, la, a) \in Pow2[m] .. 2 * Pow2[m] - 1
  BY <1>2, BinIs
<1>5. /\ bin_number(m, b) \div Pow2[m] = lb /\ bin_number(m, b) % Pow2[m] = Leading(m, lb, b) - Pow2[m]
      /\ bin_number(m, b) = lb * Pow2[m] + (Leading(m, lb, b) - Pow2[m])
      /\ Leading(m, lb, b) \in Pow2[m] .. 2 * Pow2[m] - 1
  BY <1>2, BinIs
<1>6. ASSUME bin_number(m, a) = bin_number(m, b) PROVE la = lb /\ Leading(m, la, a) = Leading(m, lb, b)
  BY <1>3, <1>4, <1>5, <1>6
<1>7. ASSUME la = lb, Leading(m, la, a) = Leading(m, lb, b) PROVE bin_number(m, a) = bin_number(m, b)
  BY <1>4, <1>5, <1>7
<1> QED
  BY <1>6, <1>7

(* What alloc_size shifts back and fills up.                               *)
LEMMA AllocIs ==
  ASSUME NEW m, NumbersFit(m), NEW sz \in Nat \ {0}, Request(m, sz),
         NEW l, l = bitlog2(sz), NEW lead, lead = Leading(m, l, sz), NEW bin, bin = bin_number(m, sz)
  PROVE  /\ l < UIntBits
         /\ l >= m => Head(m, bin) = lead * Pow2[l - m] /\ Ones(m, bin) = Pow2[l - m] - 1
         /\ l < m => Head(m, bin) = sz /\ Ones(m, bin) = 0
<1>1. /\ m \in Nat /\ Pow2[m] \in Nat \ {0} /\ UIntBits \in Nat \ {0} /\ Pow2[UIntBits] \in Nat \ {0}
      /\ sz < Pow2[UIntBits] /\ l - m <= UIntBits - 2
  BY Pow2Positive, Widths DEF NumbersFit, Request, Shiftable
<1>2. /\ HighBit(sz, l) /\ l \in 0 .. UIntBits /\ lead \in Pow2[m] .. 2 * Pow2[m] - 1
      /\ bin \div Pow2[m] = l /\ bin % Pow2[m] = lead - Pow2[m]
  BY <1>1, BinIs
<1>3. l \in Nat /\ l < UIntBits
  <2>1. l # UIntBits
    BY <1>1, <1>2 DEF HighBit
  <2> QED
    BY <1>1, <1>2, <2>1
<1>4. Pow2[m] + (bin % Pow2[m]) = lead /\ lead \in Nat
  BY <1>1, <1>2
<1>5. Head(m, bin) = IF l - m < 0 THEN lead \div Pow2[-(l - m)] ELSE (lead * Pow2[l - m]) % Pow2[UIntBits]
  BY <1>2, <1>4 DEF Head, signed_left_shift
<1> DEFINE ones == IF l - m < 0 THEN 1 \div Pow2[-(l - m)] ELSE (1 * Pow2[l - m]) % Pow2[UIntBits]
<1>6. Ones(m, bin) = IF ones # 0 THEN ones - 1 ELSE ones
  BY <1>2 DEF Ones, signed_left_shift
<1>7. ASSUME l >= m PROVE Head(m, bin) = lead * Pow2[l - m] /\ Ones(m, bin) = Pow2[l - m] - 1
  <2>1. l - m \in Nat /\ Pow2[l - m] \in Nat \ {0} /\ ~(l - m < 0) /\ l - m < UIntBits
    BY <1>1, <1>3, <1>7, Pow2Positive
  <2>2. lead = sz \div Pow2[l - m]
    BY <1>7 DEF Leading
  <2>3. lead * Pow2[l - m] \in Nat /\ lead * Pow2[l - m] <= sz
    <3>1. lead * Pow2[l - m] <= sz <=> lead <= sz \div Pow2[l - m]
      BY <1>4, <2>1, DivBounds
    <3> QED
      BY <1>4, <2>1, <2>2, <3>1
  <2>4. Head(m, bin) = lead * Pow2[l - m]
    <3>1. Head(m, bin) = (lead * Pow2[l - m]) % Pow2[UIntBits]
      BY <1>5, <2>1
    <3>2. \A x, y \in Nat : x < y => x % y = x
      OBVIOUS
    <3> QED
      BY <1>1, <2>3, <3>1, <3>2
  <2>5. ones = Pow2[l - m]
    <3>1. 2 * Pow2[l - m] <= Pow2[UIntBits]
      BY <1>1, <2>1, Pow2Grows
    <3>2. ones = (1 * Pow2[l - m]) % Pow2[UIntBits]
      BY <2>1
    <3>3. Pow2[l - m] < Pow2[UIntBits] /\ 1 * Pow2[l - m] = Pow2[l - m]
      BY <1>1, <2>1, <3>1
    <3> HIDE DEF ones
    <3> QED
      BY <1>1, <2>1, <3>2, <3>3
  <2> HIDE DEF ones
  <2> QED
    BY <1>6, <2>1, <2>4, <2>5
<1>8. ASSUME l < m PROVE Head(m, bin) = sz /\ Ones(m, bin) = 0
  <2>1. m - l \in Nat /\ -(l - m) = m - l /\ l - m < 0 /\ Pow2[m - l] \in Nat \ {0} /\ 2 <= Pow2[m - l]
    <3>1. m - l \in Nat /\ -(l - m) = m - l /\ l - m < 0 /\ 0 < m - l
      BY <1>1, <1>3, <1>8
    <3>2. 2 * Pow2[0] <= Pow2[m - l]
      BY <3>1, Pow2Grows
    <3> QED
      BY <3>1, <3>2, Pow2Def, Pow2Positive
  <2>2. lead = sz * Pow2[m - l]
    BY <1>1, <1>3, <1>8 DEF Leading
  <2>3. lead \div Pow2[m - l] = sz
    <3>1. lead = sz * Pow2[m - l] + 0 /\ 0 \in 0 .. Pow2[m - l] - 1
      BY <1>4, <2>1, <2>2
    <3> QED
      BY <1>4, <2>1, <3>1, DivUnique
  <2>4. 1 \div Pow2[m - l] = 0
    <3>1. 1 = 0 * Pow2[m - l] + 1 /\ 1 \in 0 .. Pow2[m - l] - 1
      BY <2>1
    <3> QED
      BY <2>1, <3>1, DivUnique
  <2>5. ones = 0
    BY <2>1, <2>4
  <2> HIDE DEF ones
  <2> QED
    BY <1>5, <1>6, <2>1, <2>3, <2>5
<1> QED
  BY <1>3, <1>7, <1>8

(* A bin of exponents below m holds blocks of one size.                    *)
LEMMA ExactBins ==
  ASSUME NEW m, NumbersFit(m), NEW sz \in Nat \ {0}, Request(m, sz), bitlog2(sz) < m
  PROVE  alloc_size(m, bin_number(m, sz)) = sz
BY AllocIs DEF alloc_size

(* Otherwise the block is what the leading bits leave, filled up with ones.*)
LEMMA FilledBins ==
  ASSUME NEW m, NumbersFit(m), NEW sz \in Nat \ {0}, Request(m, sz), NEW l, l = bitlog2(sz), l >= m,
         NEW asize, asize = alloc_size(m, bin_number(m, sz)),
         NEW lead, lead = Leading(m, l, sz), NEW K, K = Pow2[l - m]
  PROVE  /\ K \in Nat \ {0} /\ lead \in Pow2[m] .. 2 * Pow2[m] - 1 /\ m \in Nat /\ l \in Nat
         /\ Pow2[l] = Pow2[m] * K /\ HighBit(sz, l)
         /\ asize \in Nat \ {0} /\ asize + 1 = (lead + 1) * K
         /\ sz <= asize /\ asize - sz < K
         /\ asize + 1 <= Pow2[l + 1] /\ Pow2[l + 1] <= Pow2[UIntBits]
         /\ Leading(m, l, asize) = lead
<1>1. /\ m \in Nat /\ Pow2[m] \in Nat \ {0} /\ UIntBits \in Nat \ {0} /\ Pow2[UIntBits] \in Nat \ {0}
      /\ sz < Pow2[UIntBits]
  BY Pow2Positive, Widths DEF NumbersFit, Request
<1>2. HighBit(sz, l) /\ l \in 0 .. UIntBits /\ lead \in Pow2[m] .. 2 * Pow2[m] - 1
  BY <1>1, BinIs
<1>3. l \in Nat /\ l < UIntBits /\ asize = lead * K + (K - 1)
  BY <1>2, AllocIs DEF alloc_size
<1>4. K \in Nat \ {0} /\ Pow2[l] = Pow2[m] * K /\ Pow2[l + 1] = 2 * (Pow2[m] * K)
  <2>1. l - m \in Nat /\ m + (l - m) = l
    BY <1>1, <1>3
  <2>2. K \in Nat \ {0}
    BY <2>1, Pow2Positive
  <2>3. Pow2[m + (l - m)] = Pow2[m] * Pow2[l - m]
    BY <1>1, <2>1, Pow2Sum
  <2>4. Pow2[l] = Pow2[m] * K
    BY <2>1, <2>3
  <2>5. Pow2[l + 1] = 2 * Pow2[l]
    BY <1>3, Pow2Def
  <2> QED
    BY <2>2, <2>4, <2>5
<1>5. Pow2[l + 1] <= Pow2[UIntBits]
  <2>1. 2 * Pow2[l] <= Pow2[UIntBits] /\ Pow2[l + 1] = 2 * Pow2[l]
    BY <1>1, <1>3, Pow2Grows, Pow2Def
  <2> QED
    BY <2>1
<1>6. lead \in Nat /\ lead * K \in Nat /\ (lead + 1) * K = lead * K + K
  <2>1. \A x, y \in Nat : x * y \in Nat /\ (x + 1) * y = x * y + y
    OBVIOUS
  <2> QED
    BY <1>1, <1>2, <1>4, <2>1
<1>7. asize \in Nat /\ asize + 1 = (lead + 1) * K
  BY <1>3, <1>4, <1>6
<1>8. lead = sz \div K
  BY DEF Leading
<1>9. sz = lead * K + (sz % K) /\ sz % K \in 0 .. K - 1
  <2>1. sz % K \in 0 .. K - 1 /\ sz = (sz \div K) * K + (sz % K)
    BY <1>4, DivMod
  <2> QED
    BY <1>8, <2>1
<1>10. sz <= asize /\ asize - sz < K
  BY <1>3, <1>4, <1>6, <1>9
<1>11. (lead + 1) * K <= (2 * Pow2[m]) * K
  <2>1. \A x, y, z \in Nat : x <= y => x * z <= y * z
    <3> SUFFICES ASSUME NEW x \in Nat, NEW y \in Nat, NEW z \in Nat, x <= y PROVE x * z <= y * z
      OBVIOUS
    <3>1. y = x + (y - x) /\ y - x \in Nat
      OBVIOUS
    <3>2. y * z = x * z + (y - x) * z /\ (y - x) * z \in Nat /\ x * z \in Nat
      BY <3>1
    <3> QED
      BY <3>2
  <2>2. lead + 1 \in Nat /\ 2 * Pow2[m] \in Nat /\ lead + 1 <= 2 * Pow2[m]
    BY <1>1, <1>2
  <2> QED
    BY <1>4, <2>1, <2>2
<1>12. (2 * Pow2[m]) * K = 2 * (Pow2[m] * K)
  <2>1. \A x, y \in Nat : (2 * x) * y = 2 * (x * y)
    OBVIOUS
  <2> QED
    BY <1>1, <1>4, <2>1
<1>13. Leading(m, l, asize) = lead
  <2>1. K - 1 \in 0 .. K - 1
    BY <1>4
  <2>2. asize \div K = lead
    <3>1. asize \in Nat /\ lead \in Nat /\ K \in Nat \ {0} /\ asize = lead * K + (K - 1)
      BY <1>3, <1>4, <1>6, <1>7
    <3> HIDE DEF NumbersFit
    <3> QED
      BY <2>1, <3>1, DivUnique
  <2> QED
    BY <2>2 DEF Leading
<1>14. asize + 1 <= Pow2[l + 1]
  BY <1>4, <1>7, <1>11, <1>12
<1>15. asize \in Nat \ {0}
  BY <1>7, <1>10
<1> QED
  BY <1>1, <1>2, <1>3, <1>4, <1>5, <1>7, <1>10, <1>13, <1>14, <1>15

-----------------------------------------------------------------------------
(* One size: what the bin and the block of a request have in common.       *)

(* The largest size of a filled bin: one more changes the leading bits or  *)
(* moves the highest bit.                                                  *)
LEMMA FilledBlocks ==
  ASSUME NEW m, NumbersFit(m), NEW sz \in Nat \ {0}, Request(m, sz), bitlog2(sz) >= m
  PROVE  RoundsUp(m, sz) /\ LargestOfBin(m, sz) /\ OverheadBounded(m, sz)
<1> DEFINE l     == bitlog2(sz)
           asize == alloc_size(m, bin_number(m, sz))
           lead  == Leading(m, l, sz)
           K     == Pow2[l - m]
           n     == asize + 1
<1>1. /\ K \in Nat \ {0} /\ lead \in Pow2[m] .. 2 * Pow2[m] - 1 /\ m \in Nat /\ l \in Nat
      /\ Pow2[l] = Pow2[m] * K /\ HighBit(sz, l)
      /\ asize \in Nat \ {0} /\ asize + 1 = (lead + 1) * K
      /\ sz <= asize /\ asize - sz < K
      /\ asize + 1 <= Pow2[l + 1] /\ Pow2[l + 1] <= Pow2[UIntBits]
      /\ Leading(m, l, asize) = lead
  BY FilledBins
<1>2. Pow2[m] \in Nat \ {0} /\ Pow2[UIntBits] \in Nat /\ Pow2[l] \in Nat /\ Pow2[l + 1] \in Nat
  BY <1>1, Pow2Positive, Widths
<1>3. sz <= Pow2[UIntBits]
  BY <1>2 DEF Request
<1>4. l >= m
  OBVIOUS
<1> HIDE DEF l, asize, lead, K
<1>5. RoundsUp(m, sz)
  <2>1. asize >= sz /\ asize <= Pow2[UIntBits]
    BY <1>1, <1>2
  <2>2. HighBit(asize, l)
    BY <1>1, <1>2 DEF HighBit
  <2>3. bin_number(m, asize) = bin_number(m, sz)
    BY <1>1, <1>3, <2>1, <2>2, SameBin DEF lead
  <2> QED
    BY <2>1, <2>3 DEF RoundsUp, asize
<1>6. LargestOfBin(m, sz)
  <2>1. n \in Nat \ {0} /\ n <= Pow2[UIntBits] /\ Pow2[l] <= n
    BY <1>1, <1>2 DEF HighBit
  <2>2. ASSUME n < Pow2[l + 1] PROVE bin_number(m, n) # bin_number(m, sz)
    <3>1. HighBit(n, l)
      BY <1>1, <2>1, <2>2 DEF HighBit
    <3>2. n \div K = lead + 1
      <4>1. lead + 1 \in Nat /\ 0 \in 0 .. K - 1 /\ n = (lead + 1) * K + 0 /\ n \in Nat /\ K \in Nat \ {0}
        BY <1>1, <1>2, <2>1
      <4> HIDE DEF n
      <4> QED
        BY <4>1, DivUnique
    <3>3. Leading(m, l, n) = lead + 1
      BY <1>4, <3>2 DEF Leading, K
    <3>4. lead + 1 # lead
      BY <1>1, <1>2
    <3> HIDE DEF n
    <3> QED
      BY <1>1, <1>3, <2>1, <3>1, <3>3, <3>4, SameBin DEF lead
  <2>3. ASSUME n = Pow2[l + 1] PROVE bin_number(m, n) # bin_number(m, sz)
    <3>1. l + 1 \in Nat /\ Pow2[(l + 1) + 1] = 2 * Pow2[l + 1] /\ l + 1 # l
      BY <1>1, Pow2Def
    <3>2. HighBit(n, l + 1)
      BY <1>2, <2>1, <2>3, <3>1 DEF HighBit
    <3> HIDE DEF n
    <3> QED
      BY <1>1, <1>3, <2>1, <3>1, <3>2, SameBin
  <2>4. n < Pow2[l + 1] \/ n = Pow2[l + 1]
    BY <1>1, <1>2
  <2> QED
    BY <2>2, <2>3, <2>4 DEF LargestOfBin, asize
<1>7. OverheadBounded(m, sz)
  <2>1. \A x, y, z \in Nat : x < y /\ z # 0 => x * z < z * y
    <3> SUFFICES ASSUME NEW x \in Nat, NEW y \in Nat, NEW z \in Nat, x < y, z # 0 PROVE x * z < z * y
      OBVIOUS
    <3>1. y = x + (y - x - 1) + 1 /\ y - x - 1 \in Nat
      OBVIOUS
    <3>2. z * y = x * z + (y - x - 1) * z + z /\ (y - x - 1) * z \in Nat /\ x * z \in Nat
      BY <3>1
    <3> QED
      BY <3>2
  <2>2. asize - sz \in Nat /\ asize - sz < K
    BY <1>1
  <2>3. (asize - sz) * Pow2[m] < Pow2[m] * K
    BY <1>1, <1>2, <2>1, <2>2
  <2>4. (asize - sz) * Pow2[m] < Pow2[l] /\ Pow2[l] <= sz
    BY <1>1, <2>3 DEF HighBit
  <2>5. (asize - sz) * Pow2[m] \in Nat
    BY <1>2, <2>2
  <2>6. (asize - sz) * Pow2[m] < sz
    BY <1>2, <2>4, <2>5
  <2> QED
    BY <2>6 DEF OverheadBounded, asize
<1> QED
  BY <1>5, <1>6, <1>7

LEMMA ExactBlocks ==
  ASSUME NEW m, NumbersFit(m), NEW sz \in Nat \ {0}, Request(m, sz), bitlog2(sz) < m
  PROVE  RoundsUp(m, sz) /\ LargestOfBin(m, sz) /\ OverheadBounded(m, sz)
<1> DEFINE l == bitlog2(sz)
           J == Pow2[m - l]
           n == sz + 1
<1>1. alloc_size(m, bin_number(m, sz)) = sz
  BY ExactBins
<1>2. Pow2[UIntBits] \in Nat /\ sz < Pow2[UIntBits] /\ m \in Nat /\ Pow2[m] \in Nat
  BY Pow2Positive, Widths DEF Request, NumbersFit
<1>3. HighBit(sz, l) /\ l \in Nat /\ l < m
  BY <1>2, ShiftedIs
<1> HIDE DEF l
<1>4. Pow2[l] \in Nat /\ Pow2[l + 1] \in Nat /\ m - l \in Nat /\ J \in Nat \ {0}
  BY <1>2, <1>3, Pow2Positive
<1>5. n \in Nat \ {0} /\ n <= Pow2[UIntBits] /\ Pow2[l] <= n /\ n <= Pow2[l + 1]
  BY <1>2, <1>3, <1>4 DEF HighBit
<1>6. ASSUME n < Pow2[l + 1] PROVE bin_number(m, n) # bin_number(m, sz)
  <2>1. HighBit(n, l)
    BY <1>3, <1>5, <1>6 DEF HighBit
  <2>2. Leading(m, l, n) = n * J /\ Leading(m, l, sz) = sz * J
    BY <1>2, <1>3 DEF Leading
  <2>3. n * J = sz * J + J /\ sz * J \in Nat
    <3>1. \A x, y \in Nat : (x + 1) * y = x * y + y /\ x * y \in Nat
      OBVIOUS
    <3> QED
      BY <1>4, <3>1
  <2>4. Leading(m, l, n) # Leading(m, l, sz)
    BY <1>4, <2>2, <2>3
  <2> HIDE DEF n
  <2> QED
    BY <1>2, <1>3, <1>5, <2>1, <2>4, SameBin
<1>7. ASSUME n = Pow2[l + 1] PROVE bin_number(m, n) # bin_number(m, sz)
  <2>1. l + 1 \in Nat /\ Pow2[(l + 1) + 1] = 2 * Pow2[l + 1] /\ l + 1 # l
    BY <1>3, Pow2Def
  <2>2. HighBit(n, l + 1)
    BY <1>4, <1>5, <1>7, <2>1 DEF HighBit
  <2> HIDE DEF n
  <2> QED
    BY <1>2, <1>3, <1>5, <2>1, <2>2, SameBin
<1>8. LargestOfBin(m, sz)
  BY <1>1, <1>4, <1>5, <1>6, <1>7 DEF LargestOfBin
<1>9. RoundsUp(m, sz)
  BY <1>1 DEF RoundsUp
<1>10. OverheadBounded(m, sz)
  <2>1. (sz - sz) * Pow2[m] = 0
    BY <1>2
  <2> QED
    BY <1>1, <2>1 DEF OverheadBounded
<1> QED
  BY <1>8, <1>9, <1>10

LEMMA FaultFree ==
  ASSUME NEW m, NumbersFit(m), NEW sz \in Nat \ {0}, Request(m, sz)
  PROVE  NoFault(m, sz)
<1> DEFINE l    == bitlog2(sz)
           lead == Leading(m, l, sz)
           bin  == bin_number(m, sz)
<1>1. Pow2[UIntBits] \in Nat /\ sz <= Pow2[UIntBits] /\ m \in Nat /\ Pow2[m] \in Nat \ {0}
  BY Pow2Positive, Widths DEF Request, NumbersFit
<1>2. /\ HighBit(sz, l) /\ l \in 0 .. UIntBits /\ lead \in Pow2[m] .. 2 * Pow2[m] - 1
      /\ Shifted(m, sz) = lead
  BY <1>1, BinIs
<1>3. /\ l >= m => Head(m, bin) = lead * Pow2[l - m] /\ Ones(m, bin) = Pow2[l - m] - 1
      /\ l < m => Head(m, bin) = sz /\ Ones(m, bin) = 0
  BY AllocIs
<1> HIDE DEF l, lead, bin
<1>4. ~BitlogFault(m, sz)
  <2>1. lead = 1 * Pow2[m] + (lead - Pow2[m]) /\ lead - Pow2[m] \in 0 .. Pow2[m] - 1 /\ lead \in Nat
    BY <1>1, <1>2
  <2>2. lead \div Pow2[m] = 1
    BY <1>1, <2>1, DivUnique
  <2>3. 1 % 2 # 0
    OBVIOUS
  <2> QED
    BY <1>2, <2>2, <2>3 DEF BitlogFault
<1>5. ~BitCountingFault(m, bin)
  <2>1. l \in Nat
    BY <1>2 DEF HighBit
  <2>2. ASSUME l >= m PROVE Head(m, bin) % (Ones(m, bin) + 1) = 0
    <3>1. l - m \in Nat /\ Pow2[l - m] \in Nat \ {0}
      BY <1>1, <2>1, <2>2, Pow2Positive
    <3> DEFINE K == Pow2[l - m]
               h == lead * K
    <3>2. h = lead * K + 0 /\ 0 \in 0 .. K - 1 /\ h \in Nat /\ lead \in Nat
      BY <1>1, <1>2, <3>1
    <3>3. Head(m, bin) = h /\ Ones(m, bin) + 1 = K
      BY <1>3, <2>2, <3>1
    <3> HIDE DEF K, h
    <3>4. h % K = 0
      BY <3>1, <3>2, DivUnique DEF K
    <3> QED
      BY <3>3, <3>4
  <2>3. ASSUME l < m PROVE Head(m, bin) % (Ones(m, bin) + 1) = 0
    <3>1. Head(m, bin) = sz /\ Ones(m, bin) + 1 = 1
      BY <1>3, <2>3
    <3>2. sz % 1 = 0
      OBVIOUS
    <3> QED
      BY <3>1, <3>2
  <2> QED
    BY <1>1, <2>1, <2>2, <2>3 DEF BitCountingFault
<1> QED
  BY <1>4, <1>5 DEF NoFault, bin

(* The empty request has the bin and the block of one byte.                *)
LEMMA EmptyRequest ==
  ASSUME NEW m, NumbersFit(m)
  PROVE  /\ bin_number(m, 0) = 0 /\ alloc_size(m, 0) = 1 /\ bin_number(m, 1) = 0
         /\ RoundsUp(m, 0) /\ LargestOfBin(m, 0) /\ OverheadBounded(m, 0) /\ NoFault(m, 0)
<1>1. /\ m \in Nat /\ Pow2[m] \in Nat \ {0} /\ UIntBits \in Nat \ {0} /\ SizeBits \in Nat \ {0}
      /\ Pow2[UIntBits] \in Nat \ {0} /\ Pow2[SizeBits] \in Nat \ {0}
  BY Pow2Positive, Widths DEF NumbersFit
<1>2. Pow2[0] = 1 /\ Pow2[1] = 2 /\ Pow2[2] = 4
  <2>1. Pow2[0] = 1 /\ Pow2[0 + 1] = 2 * Pow2[0] /\ Pow2[1 + 1] = 2 * Pow2[1]
    BY Pow2Def
  <2> QED
    BY <2>1
<1>3. 2 <= Pow2[UIntBits]
  <2>1. 2 * Pow2[0] <= Pow2[UIntBits]
    BY <1>1, Pow2Grows
  <2> QED
    BY <1>2, <2>1
<1>4. \A d \in Nat \ {0} : 0 \div d = 0 /\ 0 % d = 0 /\ d \div d = 1
  <2> SUFFICES ASSUME NEW d \in Nat \ {0} PROVE 0 \div d = 0 /\ 0 % d = 0 /\ d \div d = 1
    OBVIOUS
  <2>1. 0 = 0 * d + 0 /\ d = 1 * d + 0 /\ 0 \in 0 .. d - 1
    OBVIOUS
  <2> QED
    BY <2>1, DivUnique
<1>5. \A d \in Nat : d >= 2 => 1 \div d = 0 /\ 1 % d = 1
  <2> SUFFICES ASSUME NEW d \in Nat, d >= 2 PROVE 1 \div d = 0 /\ 1 % d = 1
    OBVIOUS
  <2>1. 1 = 0 * d + 1 /\ 1 \in 0 .. d - 1 /\ d \in Nat \ {0}
    OBVIOUS
  <2> QED
    BY <2>1, DivUnique
<1>6. m # 0 => 2 <= Pow2[m]
  <2> SUFFICES ASSUME m # 0 PROVE 2 <= Pow2[m]
    OBVIOUS
  <2>1. 2 * Pow2[0] <= Pow2[m]
    BY <1>1, Pow2Grows
  <2> QED
    BY <1>2, <2>1
<1>7. bin_number(m, 0) = 0
  <2>1. Shifted(m, 0) = IF 0 - m < 0 THEN (0 * Pow2[-(0 - m)]) % Pow2[SizeBits] ELSE 0 \div Pow2[0 - m]
    BY BitlogZero DEF Shifted, signed_right_shift
  <2>2. -(0 - m) = m /\ 0 * Pow2[m] = 0 /\ (~(0 - m < 0) => 0 - m = 0)
    BY <1>1
  <2>3. Shifted(m, 0) = 0
    BY <1>1, <1>2, <1>4, <2>1, <2>2
  <2>4. bin_number(m, 0) = (0 * Pow2[m] + 0) % Pow2[UIntBits]
    BY <1>1, <1>4, <2>3, BitlogZero DEF bin_number
  <2> QED
    BY <1>1, <1>4, <2>2, <2>4
<1>8. Head(m, 0) = 1 /\ Ones(m, 0) = 0
  <2>1. 0 \div Pow2[m] = 0 /\ 0 % Pow2[m] = 0 /\ Pow2[m] + 0 = Pow2[m] /\ -(0 - m) = m
    BY <1>1, <1>4
  <2>2. Head(m, 0) = signed_left_shift(Pow2[m], 0 - m, UIntBits)
    BY <2>1 DEF Head
  <2>3. Ones(m, 0) = IF signed_left_shift(1, 0 - m, UIntBits) # 0
                     THEN signed_left_shift(1, 0 - m, UIntBits) - 1
                     ELSE signed_left_shift(1, 0 - m, UIntBits)
    BY <2>1 DEF Ones
  <2>4. CASE m = 0
    <3>1. signed_left_shift(1, 0, UIntBits) = 1
      <4>1. 1 * Pow2[0] = 1 /\ 1 % Pow2[UIntBits] = 1 /\ ~(0 < 0)
        BY <1>1, <1>2, <1>3, <1>5
      <4> QED
        BY <4>1 DEF signed_left_shift
    <3>2. 0 - m = 0 /\ Pow2[m] = 1
      BY <1>2, <2>4
    <3> QED
      BY <2>2, <2>3, <3>1, <3>2
  <2>5. CASE m # 0
    <3>1. 0 - m < 0
      BY <1>1, <2>5
    <3>2. signed_left_shift(1, 0 - m, UIntBits) = 0 /\ signed_left_shift(Pow2[m], 0 - m, UIntBits) = 1
      BY <1>1, <1>4, <1>5, <1>6, <2>1, <2>5, <3>1 DEF signed_left_shift
    <3> QED
      BY <2>2, <2>3, <3>2
  <2> QED
    BY <2>4, <2>5
<1>9. HighBit(1, 0) /\ HighBit(2, 1) /\ 1 \in Nat \ {0} /\ 2 \in Nat \ {0} /\ 1 <= Pow2[UIntBits]
  BY <1>1, <1>2, <1>3 DEF HighBit
<1>10. bin_number(m, 1) = 0
  <2>1. HighBit(1, bitlog2(1))
    BY <1>9, ShiftedIs
  <2>2. bitlog2(1) = 0
    BY <1>9, <2>1, HighBitUnique
  <2>3. Leading(m, 0, 1) = Pow2[m]
    <3>1. CASE m = 0
      <4>1. 1 \div Pow2[0] = 1 /\ 0 >= m /\ 0 - m = 0 /\ Pow2[m] = 1
        BY <1>2, <1>4, <3>1
      <4> QED
        BY <4>1 DEF Leading
    <3>2. CASE m # 0
      <4>1. ~(0 >= m) /\ m - 0 = m /\ 1 * Pow2[m] = Pow2[m]
        BY <1>1, <3>2
      <4> QED
        BY <4>1 DEF Leading
    <3> QED
      BY <3>1, <3>2
  <2>4. bin_number(m, 1) = 0 * Pow2[m] + (Pow2[m] - Pow2[m])
    BY <1>9, <2>2, <2>3, BinIs
  <2> QED
    BY <1>1, <2>4
<1>11. bin_number(m, 2) # 0
  BY <1>3, <1>9, <1>10, SameBin
<1>12. alloc_size(m, 0) = 1
  BY <1>8 DEF alloc_size
<1>13. RoundsUp(m, 0) /\ OverheadBounded(m, 0)
  BY <1>7, <1>10, <1>12 DEF RoundsUp, OverheadBounded
<1>14. LargestOfBin(m, 0)
  BY <1>7, <1>11, <1>12 DEF LargestOfBin
<1>15. NoFault(m, 0)
  <2>1. Ones(m, 0) + 1 = 1 /\ 1 % 1 = 0
    BY <1>4, <1>8
  <2> QED
    BY <1>7, <1>8, <2>1 DEF NoFault, BitlogFault, BitCountingFault
<1> QED
  BY <1>7, <1>10, <1>12, <1>13, <1>14, <1>15

-----------------------------------------------------------------------------
(* Larger requests have larger bins.                                       *)
LEMMA HighBitGrows ==
  ASSUME NEW a \in Nat, NEW b \in Nat, a <= b, NEW k, NEW l, HighBit(a, k), HighBit(b, l)
  PROVE  k <= l
<1> SUFFICES ASSUME l < k PROVE FALSE
  BY DEF HighBit
<1>1. k \in Nat /\ l \in Nat /\ Pow2[k] \in Nat /\ Pow2[l] \in Nat /\ Pow2[k] <= a /\ b < Pow2[l + 1]
  BY Pow2Positive DEF HighBit
<1>2. 2 * Pow2[l] <= Pow2[k] /\ Pow2[l + 1] = 2 * Pow2[l]
  BY <1>1, Pow2Grows, Pow2Def
<1> QED
  BY <1>1, <1>2

(* So the shifts that are defined for a size are defined for smaller ones. *)
LEMMA ShiftableBelow ==
  ASSUME NEW m, NumbersFit(m), NEW a \in Nat \ {0}, NEW b \in Nat, a <= b, b < Pow2[UIntBits], Shiftable(m, b)
  PROVE  Shiftable(m, a)
<1>1. m \in Nat /\ UIntBits \in Nat \ {0} /\ Pow2[UIntBits] \in Nat
  BY Widths, Pow2Positive DEF NumbersFit
<1>2. b \in Nat \ {0} /\ a <= Pow2[UIntBits] /\ b <= Pow2[UIntBits]
  BY <1>1
<1>3. HighBit(a, bitlog2(a)) /\ HighBit(b, bitlog2(b)) /\ bitlog2(a) \in Nat /\ bitlog2(b) \in Nat
  BY <1>1, <1>2, ShiftedIs
<1>4. bitlog2(a) <= bitlog2(b)
  BY <1>3, HighBitGrows
<1> QED
  BY <1>1, <1>3, <1>4 DEF Shiftable

LEMMA BinsGrow ==
  ASSUME NEW m, NumbersFit(m), NEW a \in Nat, NEW b \in Nat, a <= b, b <= Pow2[UIntBits]
  PROVE  bin_number(m, a) <= bin_number(m, b)
<1>1. m \in Nat /\ Pow2[m] \in Nat \ {0} /\ Pow2[UIntBits] \in Nat
  BY Widths, Pow2Positive DEF NumbersFit
<1>2. CASE a = 0
  <2>1. bin_number(m, a) = 0
    BY <1>2, EmptyRequest
  <2>2. b # 0 => bin_number(m, b) \in Nat
    BY BinIs
  <2>3. b = 0 => bin_number(m, b) = 0
    BY EmptyRequest
  <2> QED
    BY <2>1, <2>2, <2>3
<1>3. CASE a # 0
  <2> DEFINE la == bitlog2(a)
             lb == bitlog2(b)
             sa == Leading(m, la, a)
             sb == Leading(m, lb, b)
  <2>1. a \in Nat \ {0} /\ b \in Nat \ {0} /\ a <= Pow2[UIntBits]
    BY <1>1, <1>3
  <2>2. /\ HighBit(a, la) /\ la \in Nat /\ sa \in Pow2[m] .. 2 * Pow2[m] - 1
        /\ bin_number(m, a) = la * Pow2[m] + (sa - Pow2[m])
    BY <2>1, BinIs DEF HighBit
  <2>3. /\ HighBit(b, lb) /\ lb \in Nat /\ sb \in Pow2[m] .. 2 * Pow2[m] - 1
        /\ bin_number(m, b) = lb * Pow2[m] + (sb - Pow2[m])
    BY <2>1, BinIs DEF HighBit
  <2>4. la <= lb
    BY <2>2, <2>3, HighBitGrows
  <2>5. ASSUME la = lb PROVE sa <= sb
    <3>1. CASE la >= m
      <4> DEFINE K == Pow2[la - m]
      <4>1. la - m \in Nat
        BY <1>1, <2>2, <3>1
      <4>2. K \in Nat \ {0}
        BY <4>1, Pow2Positive
      <4>3. sa = a \div K /\ sb = b \div K
        BY <2>5, <3>1 DEF Leading
      <4> HIDE DEF K, sa, sb
      <4>4. sa \in Nat /\ sa * K <= a /\ sa * K \in Nat
        <5>1. sa \in Nat
          BY <4>2, <4>3, DivMod
        <5>2. sa * K <= a <=> sa <= a \div K
          BY <4>2, <5>1, DivBounds
        <5> QED
          BY <4>2, <4>3, <5>1, <5>2
      <4>5. sa * K <= b
        BY <4>4
      <4> QED
        BY <4>2, <4>3, <4>4, <4>5, DivBounds
    <3>2. CASE la < m
      <4> DEFINE J == Pow2[m - la]
      <4>1. m - la \in Nat
        BY <1>1, <2>2, <3>2
      <4>2. J \in Nat
        BY <4>1, Pow2Positive
      <4>3. sa = a * J /\ sb = b * J
        BY <1>1, <2>2, <2>5, <3>2 DEF Leading
      <4> HIDE DEF J, sa, sb
      <4>4. b = a + (b - a) /\ b - a \in Nat
        OBVIOUS
      <4>5. \A x, y, z \in Nat : (x + y) * z = x * z + y * z /\ y * z \in Nat /\ x * z \in Nat
        OBVIOUS
      <4>6. b * J = a * J + (b - a) * J /\ (b - a) * J \in Nat /\ a * J \in Nat
        BY <4>2, <4>4, <4>5
      <4> QED
        BY <4>3, <4>6
    <3> QED
      BY <1>1, <2>2, <3>1, <3>2
  <2> HIDE DEF la, lb, sa, sb
  <2>6. ASSUME la < lb PROVE la * Pow2[m] + Pow2[m] <= lb * Pow2[m]
    <3>1. lb = (la + (lb - la - 1)) + 1 /\ lb - la - 1 \in Nat
      BY <2>2, <2>3, <2>6
    <3>2. \A x, y, z \in Nat : ((x + y) + 1) * z = x * z + y * z + z /\ y * z \in Nat /\ x * z \in Nat
      OBVIOUS
    <3>3. /\ lb * Pow2[m] = la * Pow2[m] + (lb - la - 1) * Pow2[m] + Pow2[m]
          /\ (lb - la - 1) * Pow2[m] \in Nat /\ la * Pow2[m] \in Nat
      BY <1>1, <2>2, <3>1, <3>2
    <3> QED
      BY <1>1, <3>3
  <2>7. la * Pow2[m] \in Nat /\ lb * Pow2[m] \in Nat
    BY <1>1, <2>2, <2>3
  <2>8. la = lb \/ la < lb
    BY <2>2, <2>3, <2>4
  <2>9. ASSUME la = lb PROVE bin_number(m, a) <= bin_number(m, b)
    BY <1>1, <2>2, <2>3, <2>5, <2>7, <2>9
  <2>10. ASSUME la < lb PROVE bin_number(m, a) <= bin_number(m, b)
    BY <1>1, <2>2, <2>3, <2>6, <2>7, <2>10
  <2> QED
    BY <2>8, <2>9, <2>10
<1> QED
  BY <1>2, <1>3

-----------------------------------------------------------------------------
(* The sizes below the code's 4 GiB, for bin numbers that fit bin_nr_t.    *)
Below4GiB == SizeLimit <= Pow2[UIntBits] /\ \A m \in LeadingBits : NumbersFit(m)

Walk == leading_bits \in LeadingBits /\ size \in Nat /\ size < SizeLimit

LEMMA WalkHolds == Spec => []Walk
<1>1. Init => Walk
  <2>1. SizeLimit \in Nat \ {0}
    BY WalkAssumption, Widths, Pow2Positive DEF SizeType
  <2> QED
    BY <2>1 DEF Init, Walk
<1>2. Walk /\ [NextSize]_vars => Walk'
  BY DEF Walk, NextSize, vars
<1> QED
  BY <1>1, <1>2, PTL DEF Spec

(* All four promises, for one size.                                        *)
LEMMA OneSize ==
  ASSUME Below4GiB, NEW m \in LeadingBits, NEW sz \in Nat, sz < SizeLimit
  PROVE  RoundsUp(m, sz) /\ LargestOfBin(m, sz) /\ OverheadBounded(m, sz) /\ NoFault(m, sz)
<1>1. SizeLimit \in Nat /\ SizeLimit <= Pow2[UIntBits] /\ Pow2[UIntBits] \in Nat
  BY WalkAssumption, Widths, Pow2Positive DEF SizeType, Below4GiB
<1>2. NumbersFit(m) /\ m \in Nat
  BY DEF Below4GiB, NumbersFit
<1>3. CASE sz = 0
  BY <1>2, <1>3, EmptyRequest
<1>4. CASE sz # 0
  <2>1. SizeLimit - 1 \in Nat /\ sz <= SizeLimit - 1 /\ SizeLimit - 1 < Pow2[UIntBits] /\ sz \in Nat \ {0}
    BY <1>1, <1>4
  <2>2. Shiftable(m, SizeLimit - 1)
    BY WalkAssumption
  <2>3. Shiftable(m, sz)
    BY <1>2, <2>1, <2>2, ShiftableBelow
  <2>4. Request(m, sz)
    BY <1>1, <2>1, <2>3 DEF Request
  <2>5. bitlog2(sz) \in Nat
    <3>1. sz <= Pow2[UIntBits] /\ UIntBits \in Nat
      BY <1>1, Widths
    <3> QED
      BY <1>2, <2>1, <3>1, ShiftedIs
  <2>6. bitlog2(sz) >= m \/ bitlog2(sz) < m
    BY <1>2, <2>5
  <2> QED
    BY <1>2, <2>1, <2>4, <2>6, FilledBlocks, ExactBlocks, FaultFree
<1> QED
  BY <1>3, <1>4

(* Every request below 4 GiB gets a block that is large enough and belongs *)
(* to the bin of the request (mempool.hpp:192-208).                        *)
THEOREM RequestsAreCovered ==
  ASSUME Below4GiB
  PROVE  Spec => []BlocksCoverRequests
<1>1. Walk => BlocksCoverRequests
  BY OneSize DEF Walk, BlocksCoverRequests
<1> QED
  BY <1>1, WalkHolds, PTL

(* One byte more would be a block of another bin (mempool.hpp:133-157).    *)
THEOREM BlocksAreLargest ==
  ASSUME Below4GiB
  PROVE  Spec => []BlockIsLargestOfBin
<1>1. Walk => BlockIsLargestOfBin
  BY OneSize DEF Walk, BlockIsLargestOfBin
<1> QED
  BY <1>1, WalkHolds, PTL

(* The block exceeds the request by less than one part in 2^leading_bits.  *)
THEOREM RoundingIsCheap ==
  ASSUME Below4GiB
  PROVE  Spec => []OverheadIsBounded
<1>1. Walk => OverheadIsBounded
  BY OneSize DEF Walk, OverheadIsBounded
<1> QED
  BY <1>1, WalkHolds, PTL

(* Neither consistency check of mempool.hpp:125 and :152 throws.           *)
THEOREM FaultsNeverThrow ==
  ASSUME Below4GiB
  PROVE  Spec => []NeverFaults
<1>1. Walk => NeverFaults
  BY OneSize DEF Walk, NeverFaults
<1> QED
  BY <1>1, WalkHolds, PTL

(* The bins are in the order of the requests, so walking them backwards    *)
(* frees the largest blocks first (mempool.hpp:302).                       *)
THEOREM BinsInOrder ==
  ASSUME Below4GiB
  PROVE  Spec => BinsFollowSizes
<1>1. Walk /\ [NextSize]_vars => [bin_number(leading_bits, size) <= bin_number(leading_bits, size')]_vars
  <2> SUFFICES ASSUME Walk, NextSize
               PROVE  bin_number(leading_bits, size) <= bin_number(leading_bits, size')
    OBVIOUS
  <2>1. SizeLimit \in Nat /\ SizeLimit <= Pow2[UIntBits] /\ Pow2[UIntBits] \in Nat
    BY WalkAssumption, Widths, Pow2Positive DEF SizeType, Below4GiB
  <2>2. NumbersFit(leading_bits) /\ size \in Nat /\ size' \in Nat /\ size <= size' /\ size' <= Pow2[UIntBits]
    BY <2>1 DEF Walk, NextSize, Below4GiB
  <2> QED
    BY <2>2, BinsGrow
<1> QED
  BY <1>1, WalkHolds, PTL DEF Spec, BinsFollowSizes
=============================================================================
