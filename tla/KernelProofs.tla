------------------------------ MODULE KernelProofs ------------------------------
(***************************************************************************)
(* Kernels, for every device and every array: the sizes of a scan, the     *)
(* work items for the elements of an array, those of a bitonic merge, and  *)
(* the stages of a reduction.                                              *)
(***************************************************************************)
EXTENDS ScanSetup, Reduction, ElementwiseKernels, BitonicSort, FiniteSetTheorems, SequenceTheorems, Induction, TLAPS

-----------------------------------------------------------------------------
(* The sizes of a scan.                                                    *)

(* What the record of a device holds.                                      *)
Device(d) ==
  /\ d.local_mem \in Nat /\ d.max_wg \in Nat \ {0} /\ d.itemsize \in Nat \ {0}
  /\ d.index_itemsize \in Nat /\ d.fetched \in Nat /\ d.kernel_max \in [Powers -> Nat \ {0}]

(* From the choice of the sizes on, a group of the largest size fits into  *)
(* local memory with the sizes exchanged.                                  *)
SetupInv ==
  /\ Device(dev)
  /\ setup \in {"build", "done"} =>
       /\ k_group_size \in Nat /\ max_scan_wg_size \in Nat \ {0}
       /\ get_local_mem_use(max_scan_wg_size, k_group_size) <= dev.local_mem
  /\ setup = "done" => wg_size <= dev.kernel_max[wg_size]

(* The work group size is a power of two between 1 and the maximum.        *)
LEMMA RoundsDown ==
  ASSUME NEW m \in 1 .. 256
  PROVE  _round_down_to_power_of_2(m) \in Powers /\ _round_down_to_power_of_2(m) \in 1 .. m
<1> DEFINE P(e) == 2 ^ e <= m /\ m < 2 ^ (e + 1)
           c == CHOOSE e \in 0 .. 16 : P(e)
<1>1. \E e \in 0 .. 16 : P(e)
  <2> SUFFICES ASSUME \A e \in 0 .. 16 : ~P(e) PROVE FALSE
    OBVIOUS
  <2>1. ~P(0) /\ ~P(1) /\ ~P(2) /\ ~P(3) /\ ~P(4) /\ ~P(5) /\ ~P(6) /\ ~P(7) /\ ~P(8)
    OBVIOUS
  <2>2. /\ 0 + 1 = 1 /\ 1 + 1 = 2 /\ 2 + 1 = 3 /\ 3 + 1 = 4 /\ 4 + 1 = 5 /\ 5 + 1 = 6
        /\ 6 + 1 = 7 /\ 7 + 1 = 8 /\ 8 + 1 = 9
    OBVIOUS
  <2> QED
    BY <2>1, <2>2
<1>2. c \in 0 .. 16 /\ 2 ^ c <= m
  BY <1>1
<1>3. c \in 0 .. 8
  <2> HIDE DEF c
  <2>1. \/ c \in 0 .. 8 \/ c = 9 \/ c = 10 \/ c = 11 \/ c = 12 \/ c = 13 \/ c = 14 \/ c = 15 \/ c = 16
    BY <1>2
  <2>2. c \notin 0 .. 8 =>
          2 ^ c \in {2 ^ 9, 2 ^ 10, 2 ^ 11, 2 ^ 12, 2 ^ 13, 2 ^ 14, 2 ^ 15, 2 ^ 16}
    BY <2>1, Zenon
  <2>3. \A x \in {2 ^ 9, 2 ^ 10, 2 ^ 11, 2 ^ 12, 2 ^ 13, 2 ^ 14, 2 ^ 15, 2 ^ 16} : ~(x <= m)
    OBVIOUS
  <2> QED
    BY <1>2, <2>2, <2>3
<1>4. _round_down_to_power_of_2(m) = 2 ^ c
  BY DEF _round_down_to_power_of_2
<1> HIDE DEF c
<1>5. 2 ^ c \in Powers
  BY <1>3 DEF Powers
<1> QED
  BY <1>2, <1>4, <1>5, PowersArePositive

-----------------------------------------------------------------------------
(* A nonempty set of pairs of bounded numbers has a largest one.           *)
LEMMA LargestExists ==
  ASSUME NEW among, among # {}, NEW A \in Nat, NEW B \in Nat, among \subseteq (1 .. A) \X (1 .. B)
  PROVE  Largest(among) \in among
<1> DEFINE Unit(s) == s[1] * s[2]
           C == {n \in Nat : \E s \in among : n = A * B - Unit(s)}
<1>1. \A s \in among : s[1] \in 1 .. A /\ s[2] \in 1 .. B /\ Unit(s) \in Nat /\ A * B - Unit(s) \in Nat
  <2> SUFFICES ASSUME NEW s \in among
               PROVE  s[1] \in 1 .. A /\ s[2] \in 1 .. B /\ Unit(s) \in Nat /\ A * B - Unit(s) \in Nat
    OBVIOUS
  <2>1. s[1] \in 1 .. A /\ s[2] \in 1 .. B
    OBVIOUS
  <2>2. \A x \in 1 .. A, y \in 1 .. B : x * y \in Nat /\ A * B - x * y \in Nat
    <3> SUFFICES ASSUME NEW x \in 1 .. A, NEW y \in 1 .. B PROVE x * y \in Nat /\ A * B - x * y \in Nat
      OBVIOUS
    <3>1. A = x + (A - x) /\ A - x \in Nat /\ B = y + (B - y) /\ B - y \in Nat /\ x \in Nat /\ y \in Nat
      OBVIOUS
    <3>2. A * B = x * B + (A - x) * B /\ (A - x) * B \in Nat
      BY <3>1
    <3>3. x * B = x * y + x * (B - y) /\ x * (B - y) \in Nat /\ x * y \in Nat
      BY <3>1
    <3> QED
      BY <3>2, <3>3
  <2> QED
    BY <2>1, <2>2
<1>2. C # {} /\ C \subseteq Nat
  BY <1>1
<1> HIDE DEF C
<1>3. PICK n \in C : \A k \in C : n =< k
  BY <1>2, LeastNat
<1> DEFINE T == {s \in among : n = A * B - Unit(s)}
           D == {k \in Nat : \E s \in T : k = A - s[1]}
<1>4. T # {}
  BY <1>3 DEF C
<1>5. \A s \in T, o \in among : Unit(o) <= Unit(s)
  <2> SUFFICES ASSUME NEW s \in T, NEW o \in among PROVE Unit(o) <= Unit(s)
    OBVIOUS
  <2>1. A * B - Unit(o) \in C
    BY <1>1 DEF C
  <2>2. A * B \in Nat
    OBVIOUS
  <2>3. n = A * B - Unit(s) /\ n <= A * B - Unit(o) /\ Unit(s) \in Nat /\ Unit(o) \in Nat
    BY <1>1, <1>3, <2>1
  <2> HIDE DEF Unit
  <2> QED
    BY <2>2, <2>3
<1>6. D # {} /\ D \subseteq Nat
  <2>1. PICK q \in T : TRUE
    BY <1>4
  <2>2. q[1] \in 1 .. A
    BY <1>1, <2>1
  <2>3. A - q[1] \in Nat
    BY <2>2
  <2>4. A - q[1] \in D
    BY <2>1, <2>3
  <2> QED
    BY <2>4
<1> HIDE DEF D
<1>7. PICK k \in D : \A j \in D : k =< j
  BY <1>6, LeastNat
<1>8. PICK s \in T : k = A - s[1]
  BY <1>7 DEF D
<1>9. \A o \in among : Unit(s) > Unit(o) \/ (Unit(s) = Unit(o) /\ s[1] >= o[1])
  <2> SUFFICES ASSUME NEW o \in among, Unit(s) <= Unit(o) PROVE Unit(s) = Unit(o) /\ s[1] >= o[1]
    BY <1>1
  <2>1. Unit(s) = Unit(o)
    BY <1>1, <1>5
  <2>2. A - o[1] \in D
    BY <1>1, <2>1 DEF D
  <2>3. k <= A - o[1] /\ s[1] \in 1 .. A /\ o[1] \in 1 .. A
    BY <1>1, <1>7, <2>2
  <2> QED
    BY <1>8, <2>1, <2>3
<1>10. \E c \in among : \A o \in among :
         c[1] * c[2] > o[1] * o[2] \/ (c[1] * c[2] = o[1] * o[2] /\ c[1] >= o[1])
  BY <1>9
<1> QED
  BY <1>10 DEF Largest

(* Exchanging the sizes costs an index per item of the difference; smaller *)
(* groups need less.                                                       *)
LEMMA MemoryUse ==
  ASSUME Device(dev), NEW k \in Nat, NEW g \in Nat, NEW w \in Nat, w <= g
  PROVE  /\ get_local_mem_use(g, k) \in Nat
         /\ get_local_mem_use(k, w) <= get_local_mem_use(g, k) +
              IF w > k THEN dev.index_itemsize * (w - k) ELSE 0
         /\ get_local_mem_use(w, k) <= get_local_mem_use(g, k)
<1> DEFINE b == ItemBytes
           x == dev.index_itemsize
           f == dev.fetched
<1>1. b \in Nat /\ x \in Nat /\ f \in Nat
  BY DEF ItemBytes, Device
<1>2. /\ get_local_mem_use(g, k) = b * (g + 1) * (k + 1) + g * k + x * k + g * k * f
      /\ get_local_mem_use(k, w) = b * (k + 1) * (w + 1) + k * w + x * w + k * w * f
  BY DEF get_local_mem_use
<1> HIDE DEF b, x, f
<1>3. \A n, m \in Nat : n * m = m * n /\ n * m \in Nat
  OBVIOUS
<1>4. \A n, m, l \in Nat : n <= m => l * n <= l * m
  <2> SUFFICES ASSUME NEW n \in Nat, NEW m \in Nat, NEW l \in Nat, n <= m PROVE l * n <= l * m
    OBVIOUS
  <2>1. m = n + (m - n) /\ m - n \in Nat
    OBVIOUS
  <2>2. l * m = l * n + l * (m - n) /\ l * (m - n) \in Nat /\ l * n \in Nat
    BY <2>1
  <2> QED
    BY <2>2
<1>5. b * (g + 1) * (k + 1) \in Nat /\ b * (k + 1) * (w + 1) <= b * (g + 1) * (k + 1)
  <2>1. b * (k + 1) \in Nat /\ b * (g + 1) \in Nat
    BY <1>1, <1>3
  <2>2. b * (k + 1) * (w + 1) <= b * (k + 1) * (g + 1)
    BY <1>4, <2>1
  <2>3. b * (k + 1) * (g + 1) = b * (g + 1) * (k + 1)
    <3>1. \A p, q, r \in Nat : p * q * r = p * r * q
      OBVIOUS
    <3> QED
      BY <1>1, <3>1
  <2>4. b * (g + 1) * (k + 1) \in Nat
    BY <1>3, <2>1
  <2> QED
    BY <2>2, <2>3, <2>4
<1>6. k * w <= g * k /\ k * w \in Nat /\ g * k \in Nat
  <2>1. k * w <= k * g /\ k * g = g * k
    BY <1>3, <1>4
  <2> QED
    BY <1>3, <2>1
<1>7. k * w * f <= g * k * f /\ g * k * f \in Nat /\ k * w * f \in Nat
  <2>1. f * (k * w) <= f * (g * k)
    BY <1>1, <1>4, <1>6
  <2>2. f * (k * w) = k * w * f /\ f * (g * k) = g * k * f
    BY <1>1, <1>3, <1>6
  <2> QED
    BY <1>1, <1>3, <1>6, <2>1, <2>2
<1>8. x * w <= x * k + IF w > k THEN x * (w - k) ELSE 0
  <2>1. CASE w > k
    <3>1. w = k + (w - k) /\ w - k \in Nat
      BY <2>1
    <3>2. x * w = x * k + x * (w - k)
      BY <1>1, <3>1
    <3>3. x * w \in Nat
      BY <1>1, <1>3
    <3> QED
      BY <2>1, <3>2, <3>3
  <2>2. CASE w <= k
    <3>1. x * w <= x * k /\ x * k \in Nat
      BY <1>1, <1>3, <1>4, <2>2
    <3> QED
      BY <2>2, <3>1
  <2> QED
    BY <2>1, <2>2
<1>9. x * k \in Nat /\ x * w \in Nat
  BY <1>1, <1>3
<1>10. w > k => x * (w - k) \in Nat
  BY <1>1, <1>3
<1> DEFINE e == IF w > k THEN x * (w - k) ELSE 0
<1>11. e \in Nat /\ x * w <= x * k + e
  BY <1>8, <1>10
<1> HIDE DEF e
<1>12. get_local_mem_use(k, w) <= get_local_mem_use(g, k) + e /\ get_local_mem_use(g, k) \in Nat
  <2> DEFINE a1 == b * (g + 1) * (k + 1)
             a2 == b * (k + 1) * (w + 1)
             b1 == g * k
             b2 == k * w
             c1 == x * k
             c2 == x * w
             d1 == g * k * f
             d2 == k * w * f
  <2>1. /\ a1 \in Nat /\ b1 \in Nat /\ c1 \in Nat /\ d1 \in Nat
        /\ a2 <= a1 /\ b2 <= b1 /\ c2 <= c1 + e /\ d2 <= d1
    BY <1>5, <1>6, <1>7, <1>9, <1>11
  <2>2. a2 \in Nat /\ b2 \in Nat /\ c2 \in Nat /\ d2 \in Nat
    <3>1. b * (k + 1) \in Nat
      BY <1>1, <1>3
    <3> QED
      BY <1>3, <1>6, <1>7, <1>9, <3>1
  <2>3. get_local_mem_use(g, k) = a1 + b1 + c1 + d1 /\ get_local_mem_use(k, w) = a2 + b2 + c2 + d2
    BY <1>2
  <2> HIDE DEF a1, a2, b1, b2, c1, c2, d1, d2
  <2> QED
    BY <1>11, <2>1, <2>2, <2>3
<1>13. get_local_mem_use(w, k) <= get_local_mem_use(g, k)
  <2> DEFINE a1 == b * (k + 1) * (g + 1)
             a2 == b * (k + 1) * (w + 1)
  <2>1. \A p, q, r \in Nat : p * q * r = p * r * q
    OBVIOUS
  <2>2. b * (g + 1) * (k + 1) = a1 /\ b * (w + 1) * (k + 1) = a2
    BY <1>1, <2>1
  <2>3. a1 \in Nat /\ a2 \in Nat /\ a2 <= a1
    <3>1. b * (k + 1) \in Nat
      BY <1>1, <1>3
    <3> QED
      BY <1>3, <1>4, <3>1
  <2>4. w * k = k * w
    BY <1>3
  <2> DEFINE b1 == g * k
             b2 == k * w
             d1 == g * k * f
             d2 == k * w * f
             c == x * k
  <2>5. /\ get_local_mem_use(g, k) = a1 + b1 + c + d1
        /\ get_local_mem_use(w, k) = a2 + b2 + c + d2
    BY <2>2, <2>4, <1>1 DEF get_local_mem_use, b, x, f
  <2>6. b1 \in Nat /\ b2 \in Nat /\ c \in Nat /\ d1 \in Nat /\ d2 \in Nat /\ b2 <= b1 /\ d2 <= d1
    BY <1>6, <1>7, <1>9
  <2> HIDE DEF a1, a2, b1, b2, c, d1, d2
  <2> QED
    BY <2>3, <2>5, <2>6
<1> QED
  BY <1>12, <1>13 DEF e, x

(* What ChooseSizes takes is one of the sizes that fit.                    *)
LEMMA ChosenFits ==
  ASSUME Device(dev), solutions # {}
  PROVE  /\ Largest(solutions) \in Fitting
         /\ Largest(solutions)[1] \in Nat \ {0} /\ Largest(solutions)[2] \in Nat \ {0}
<1> DEFINE B == IF dev.kind = "cpu" THEN 16 ELSE dev.max_wg
<1>1. B \in Nat
  BY DEF Device
<1>2. solutions \subseteq Fitting
  <2> DEFINE floors == {f \in {256, 192, 128} : dev.kind = "gpu" /\ \E s \in Fitting : s[2] >= f}
             floor  == CHOOSE f \in floors : \A h \in floors : h <= f
  <2>1. solutions = IF floors = {} THEN Fitting ELSE {s \in Fitting : s[2] >= floor}
    BY Zenon DEF solutions
  <2> HIDE DEF floors, floor
  <2> QED
    BY <2>1
<1>3. Fitting \subseteq (1 .. 256) \X (1 .. B)
  <2>1. Fitting \subseteq Powers \X WgSizes
    BY DEF Fitting, Powers
  <2>2. Powers \subseteq 1 .. 256
    <3>1. Powers \subseteq {1, 2, 4, 8, 16, 32, 64, 128, 256}
      <4> SUFFICES ASSUME NEW e \in 0 .. 8 PROVE 2 ^ e \in {1, 2, 4, 8, 16, 32, 64, 128, 256}
        BY DEF Powers
      <4>1. \/ e = 0 \/ e = 1 \/ e = 2 \/ e = 3 \/ e = 4 \/ e = 5 \/ e = 6 \/ e = 7 \/ e = 8
        OBVIOUS
      <4>2. 2 ^ e \in {2 ^ 0, 2 ^ 1, 2 ^ 2, 2 ^ 3, 2 ^ 4, 2 ^ 5, 2 ^ 6, 2 ^ 7, 2 ^ 8}
        BY <4>1, Zenon
      <4>3. {2 ^ 0, 2 ^ 1, 2 ^ 2, 2 ^ 3, 2 ^ 4, 2 ^ 5, 2 ^ 6, 2 ^ 7, 2 ^ 8}
              \subseteq {1, 2, 4, 8, 16, 32, 64, 128, 256}
        OBVIOUS
      <4> QED
        BY <4>2, <4>3
    <3> QED
      BY <3>1
  <2>3. WgSizes \subseteq 1 .. B
    BY DEF WgSizes
  <2> HIDE DEF B
  <2>4. \A P, W, X, Y : P \subseteq X /\ W \subseteq Y => P \X W \subseteq X \X Y
    OBVIOUS
  <2>5. Powers \X WgSizes \subseteq (1 .. 256) \X (1 .. B)
    BY <2>2, <2>3, <2>4
  <2> QED
    BY <2>1, <2>5
<1> HIDE DEF B
<1>4. Largest(solutions) \in solutions
  <2> DEFINE A == 256
             sols == solutions
  <2>1. A \in Nat /\ sols # {}
    OBVIOUS
  <2>2. sols \subseteq (1 .. A) \X (1 .. B)
    BY <1>2, <1>3
  <2> HIDE DEF A, sols
  <2>3. Largest(sols) \in sols
    BY <1>1, <2>1, <2>2, LargestExists
  <2> QED
    BY <2>3 DEF sols
<1> QED
  BY <1>2, <1>3, <1>4

(* The work groups of a kernel are no larger than what was chosen.         *)
LEMMA GroupSize ==
  ASSUME max_scan_wg_size \in Nat \ {0}
  PROVE  wg_size \in Powers /\ wg_size \in Nat \ {0} /\ wg_size <= max_scan_wg_size
<1> DEFINE m == AtMost(max_scan_wg_size, 256)
<1>1. m \in 1 .. 256 /\ m <= max_scan_wg_size
  BY DEF AtMost
<1>2. wg_size = _round_down_to_power_of_2(m)
  BY DEF wg_size
<1> HIDE DEF m
<1>3. wg_size \in Powers /\ wg_size \in 1 .. m
  BY <1>1, <1>2, RoundsDown
<1> QED
  BY <1>1, <1>3

LEMMA MemoryIsANumber ==
  ASSUME Device(dev), NEW k \in Nat, NEW g \in Nat
  PROVE  get_local_mem_use(g, k) \in Nat
<1>1. g <= g
  OBVIOUS
<1> QED
  BY <1>1, MemoryUse

LEMMA SetupInvariant == SetupSpec => []SetupInv
<1>1. SetupInit => SetupInv
  <2> SUFFICES ASSUME SetupInit PROVE SetupInv
    OBVIOUS
  <2>1. dev \in Devices /\ setup = "size"
    BY DEF SetupInit
  <2>2. Device(dev)
    <3>1. dev.local_mem \in Nat /\ dev.max_wg \in Nat \ {0} /\ dev.itemsize \in Nat \ {0}
      BY <2>1, DeviceAssumption
    <3>2. dev.index_itemsize \in {4, 8} /\ dev.fetched \in Nat
      BY <2>1, DeviceAssumption
    <3>3. dev.kernel_max \in [Powers -> Nat \ {0}]
      BY <2>1, DeviceAssumption, Zenon DEF Powers
    <3>4. dev.index_itemsize \in Nat
      BY <3>2
    <3> QED
      BY <3>1, <3>2, <3>3, <3>4 DEF Device
  <2> QED
    BY <2>1, <2>2 DEF SetupInv
<1>2. SetupInv /\ [SetupNext]_setupvars => SetupInv'
  <2> SUFFICES ASSUME SetupInv, [SetupNext]_setupvars PROVE SetupInv'
    OBVIOUS
  <2>1. Device(dev)
    BY DEF SetupInv
  <2>2. CASE ChooseSizes
    <3>1. dev' = dev /\ setup = "size"
      BY <2>2 DEF ChooseSizes
    <3>2. CASE solutions = {}
      <4>1. setup' = "raised"
        BY <2>2, <3>2 DEF ChooseSizes
      <4> QED
        BY <2>1, <3>1, <4>1 DEF SetupInv, Device
    <3>3. CASE solutions # {}
      <4> DEFINE s == Largest(solutions)
      <4>1. setup' = "build" /\ k_group_size' = s[1] /\ max_scan_wg_size' = s[2]
        BY <2>2, <3>3 DEF ChooseSizes
      <4>2. s \in Fitting /\ s[1] \in Nat \ {0} /\ s[2] \in Nat \ {0}
        BY <2>1, <3>3, ChosenFits
      <4> HIDE DEF s
      <4>3. get_local_mem_use(s[2], s[1]) <= dev.local_mem
        BY <4>2 DEF Fitting
      <4>4. get_local_mem_use(max_scan_wg_size, k_group_size)' <= dev'.local_mem
        BY <3>1, <4>1, <4>3 DEF get_local_mem_use, ItemBytes, use_bank_conflict_avoidance
      <4>5. Device(dev)'
        BY <2>1, <3>1 DEF Device
      <4> QED
        BY <4>1, <4>2, <4>4, <4>5 DEF SetupInv
    <3> QED
      BY <3>2, <3>3
  <2>3. CASE Accept
    <3>1. dev' = dev /\ k_group_size' = k_group_size /\ max_scan_wg_size' = max_scan_wg_size
          /\ setup = "build" /\ setup' = "done" /\ wg_size <= dev.kernel_max[wg_size]
      BY <2>3 DEF Accept, kernel_max_wg_size
    <3>2. wg_size' = wg_size
      BY <3>1 DEF wg_size
    <3>3. (Device(dev) <=> Device(dev)')
          /\ get_local_mem_use(max_scan_wg_size, k_group_size)' = get_local_mem_use(max_scan_wg_size, k_group_size)
      BY <3>1 DEF Device, get_local_mem_use, ItemBytes, use_bank_conflict_avoidance
    <3> QED
      BY <3>1, <3>2, <3>3 DEF SetupInv
  <2>4. CASE BuildSmaller
    <3>1. dev' = dev /\ k_group_size' = k_group_size /\ setup = "build" /\ setup' \in {"build", "raised"}
          /\ max_scan_wg_size' = AtMost(kernel_max_wg_size, max_scan_wg_size)
      BY <2>4 DEF BuildSmaller
    <3>2. k_group_size \in Nat /\ max_scan_wg_size \in Nat \ {0}
          /\ get_local_mem_use(max_scan_wg_size, k_group_size) <= dev.local_mem
      BY <3>1 DEF SetupInv
    <3>3. kernel_max_wg_size \in Nat \ {0}
      <4>1. wg_size \in Powers
        BY <3>2, GroupSize
      <4>2. dev.kernel_max \in [Powers -> Nat \ {0}]
        BY <2>1 DEF Device
      <4> QED
        BY <4>1, <4>2 DEF kernel_max_wg_size
    <3> DEFINE g == AtMost(kernel_max_wg_size, max_scan_wg_size)
    <3>4. g \in Nat \ {0} /\ g <= max_scan_wg_size
      BY <3>2, <3>3 DEF AtMost
    <3> HIDE DEF g
    <3>5. get_local_mem_use(g, k_group_size) <= dev.local_mem
      <4>1. /\ get_local_mem_use(g, k_group_size) \in Nat
            /\ get_local_mem_use(max_scan_wg_size, k_group_size) \in Nat
        <5>1. max_scan_wg_size \in Nat /\ k_group_size \in Nat /\ g \in Nat /\ Device(dev)
          BY <2>1, <3>2, <3>4
        <5> QED
          BY <5>1, MemoryIsANumber
      <4>2. get_local_mem_use(g, k_group_size) <= get_local_mem_use(max_scan_wg_size, k_group_size)
        BY <2>1, <3>2, <3>4, MemoryUse
      <4>3. dev.local_mem \in Nat
        BY <2>1 DEF Device
      <4> QED
        BY <3>2, <4>1, <4>2, <4>3
    <3>6. get_local_mem_use(max_scan_wg_size, k_group_size)' <= dev'.local_mem
      BY <3>1, <3>5 DEF get_local_mem_use, ItemBytes, use_bank_conflict_avoidance, g
    <3>7. Device(dev)'
      BY <2>1, <3>1 DEF Device
    <3> QED
      BY <3>1, <3>2, <3>4, <3>6, <3>7 DEF SetupInv, g
  <2>5. CASE UNCHANGED setupvars
    <3>1. dev' = dev /\ k_group_size' = k_group_size /\ max_scan_wg_size' = max_scan_wg_size /\ setup' = setup
      BY <2>5 DEF setupvars
    <3> QED
      BY <3>1 DEF SetupInv, Device, wg_size, get_local_mem_use, ItemBytes, use_bank_conflict_avoidance
  <2> QED
    BY <2>2, <2>3, <2>4, <2>5 DEF SetupNext
<1> QED
  BY <1>1, <1>2, PTL DEF SetupSpec

(* A scan kernel that is used has groups that the device admits, and local *)
(* memory that exceeds the device's by no more than the exchange of the    *)
(* sizes is worth (scan.py:1250-1314).                                     *)
THEOREM ScanKernelsFit == SetupSpec => []ChosenSizesFit
<1>1. SetupInv => ChosenSizesFit
  <2> SUFFICES ASSUME SetupInv, setup = "done" PROVE ChosenSizesFit
    BY DEF ChosenSizesFit
  <2>1. /\ Device(dev) /\ k_group_size \in Nat /\ max_scan_wg_size \in Nat \ {0}
        /\ get_local_mem_use(max_scan_wg_size, k_group_size) <= dev.local_mem
        /\ wg_size <= dev.kernel_max[wg_size]
    BY DEF SetupInv
  <2>2. wg_size \in Nat /\ wg_size <= max_scan_wg_size
    BY <2>1, GroupSize
  <2>3. /\ get_local_mem_use(max_scan_wg_size, k_group_size) \in Nat
        /\ get_local_mem_use(k_group_size, wg_size) <= get_local_mem_use(max_scan_wg_size, k_group_size) +
              IF wg_size > k_group_size THEN dev.index_itemsize * (wg_size - k_group_size) ELSE 0
    BY <2>1, <2>2, MemoryUse
  <2>4. get_local_mem_use(k_group_size, wg_size) \in Nat
    BY <2>1, <2>2, MemoryUse
  <2> DEFINE e == IF wg_size > k_group_size THEN dev.index_itemsize * (wg_size - k_group_size) ELSE 0
  <2>5. e \in Nat
    <3>1. dev.index_itemsize \in Nat
      BY <2>1 DEF Device
    <3>2. \A a, b \in Nat : a * b \in Nat
      OBVIOUS
    <3>3. wg_size > k_group_size => wg_size - k_group_size \in Nat
      BY <2>1, <2>2
    <3> QED
      BY <3>1, <3>2, <3>3
  <2>6. dev.local_mem \in Nat
    BY <2>1 DEF Device
  <2>7. get_local_mem_use(k_group_size, wg_size) <= get_local_mem_use(max_scan_wg_size, k_group_size) + e
    BY <2>3
  <2> HIDE DEF e
  <2>8. get_local_mem_use(k_group_size, wg_size) <= dev.local_mem + e
    BY <2>1, <2>3, <2>4, <2>5, <2>6, <2>7
  <2> QED
    BY <2>1, <2>8 DEF ChosenSizesFit, e
<1> QED
  BY <1>1, SetupInvariant, PTL

-----------------------------------------------------------------------------
(* Elements of arrays: how many work items there are, and what they do.    *)

(* Quotients that are rounded up, as splay does.                           *)
LEMMA RoundedUp ==
  ASSUME NEW a \in Nat, NEW d \in Nat \ {0}, NEW r \in Nat, a <= d * r
  PROVE  Up(a, d) <= r
<1> DEFINE x == a + d - 1
           u == x \div d
           m == x % d
<1>1. x \in Nat
  OBVIOUS
<1>2. x = d * u + m /\ m \in 0 .. d - 1 /\ u \in Nat
  BY <1>1, Division
<1>3. Up(a, d) = u
  BY DEF Up
<1> HIDE DEF x, u, m
<1>4. x = a + d - 1
  BY DEF x
<1>5. ASSUME u > r PROVE FALSE
  <2>1. u = r + 1 + (u - r - 1) /\ u - r - 1 \in Nat
    BY <1>2, <1>5
  <2>2. d * u = d * r + d + d * (u - r - 1) /\ d * (u - r - 1) \in Nat /\ d * r \in Nat
    BY <2>1
  <2> QED
    BY <1>2, <1>4, <2>2
<1> QED
  BY <1>2, <1>3, <1>5

LEMMA RoundedUpIsPositive ==
  ASSUME NEW a \in Nat \ {0}, NEW d \in Nat \ {0}
  PROVE  Up(a, d) \in Nat \ {0}
<1>1. a + d - 1 \in Nat /\ a + d - 1 >= d
  OBVIOUS
<1> DEFINE x == a + d - 1
<1> HIDE DEF x
<1>2. x \div d \in Nat /\ x = d * (x \div d) + (x % d) /\ x % d \in 0 .. d - 1
  BY <1>1, Division DEF x
<1>3. x \div d # 0
  BY <1>1, <1>2 DEF x
<1> QED
  BY <1>2, <1>3 DEF Up, x

(* A multiple is divided without a remainder.                              *)
LEMMA Multiples ==
  ASSUME NEW n \in Nat, NEW s \in Nat \ {0}
  PROVE  (n * s) % s = 0 /\ n * s \in Nat /\ n <= n * s
<1>1. n * s \in Nat /\ n <= n * s
  <2>1. s = 1 + (s - 1) /\ s - 1 \in Nat
    OBVIOUS
  <2>2. n * s = n + n * (s - 1) /\ n * (s - 1) \in Nat
    BY <2>1
  <2> QED
    BY <2>2
<1> DEFINE x == n * s
           q == x \div s
           m == x % s
<1>2. x = s * q + m /\ m \in 0 .. s - 1 /\ q \in Nat
  BY <1>1, Division
<1>3. m + q * s = 0 + n * s
  BY <1>2
<1> HIDE DEF x, q, m
<1>4. m = 0
  BY <1>2, <1>3, OneWorkItem
<1> QED
  BY <1>1, <1>4 DEF x, m

(* splay launches something, and nothing that the device refuses, unless   *)
(* its largest group is not a multiple of min_work_items.                  *)
Refused == ecall.max_wg < max_work_items /\ ecall.max_wg > min_work_items /\ ecall.max_wg % min_work_items # 0

LEMMA SplayIs ==
  ASSUME ecall \in ElementwiseCalls, NEW m \in Int
  PROVE  /\ splay(m).groups \in Nat \ {0} /\ splay(m).items \in Nat \ {0}
         /\ splay(m).items <= ecall.max_wg \/ Refused
<1> DEFINE items  == Smaller(max_work_items, ecall.max_wg)
           least  == Smaller(min_work_items, items)
           groups == ecall.units * groups_per_unit
           n      == Up(Up(m, least), groups) * least
           sizes(count, each) == [groups |-> count, items |-> each]
<1>1. /\ max_work_items \in Nat \ {0} /\ min_work_items \in Nat \ {0} /\ groups_per_unit \in Nat \ {0}
      /\ ecall.max_wg \in Nat \ {0} /\ ecall.units \in Nat \ {0} /\ max_work_items % min_work_items = 0
  BY ElementwiseAssumption
<1>2. items \in Nat \ {0} /\ items <= ecall.max_wg /\ items <= max_work_items
      /\ (items = max_work_items \/ (items = ecall.max_wg /\ ecall.max_wg < max_work_items))
  BY <1>1 DEF Smaller
<1>3. least \in Nat \ {0} /\ least <= items /\ (least = items \/ (least = min_work_items /\ min_work_items < items))
  <2> HIDE DEF items
  <2> QED
    BY <1>1, <1>2 DEF Smaller
<1>4. groups \in Nat \ {0}
  <2>1. \A a, b \in Nat \ {0} : a * b \in Nat \ {0}
    OBVIOUS
  <2> QED
    BY <1>1, <2>1
<1>5. splay(m) = IF m < least THEN sizes(1, least)
                 ELSE IF m < groups * least THEN sizes(Up(m, least), least)
                 ELSE IF m < groups * items THEN sizes(groups, n)
                 ELSE sizes(groups, items)
  BY DEF splay
<1> HIDE DEF items, least, groups
<1>6. ASSUME m >= least PROVE Up(m, least) \in Nat \ {0}
  <2>1. m \in Nat \ {0}
    BY <1>3, <1>6
  <2> QED
    BY <1>3, <2>1, RoundedUpIsPositive
<1>7. ASSUME m >= least PROVE n \in Nat \ {0}
  <2>1. Up(Up(m, least), groups) \in Nat \ {0}
    BY <1>4, <1>6, <1>7, RoundedUpIsPositive
  <2>2. \A a, b \in Nat \ {0} : a * b \in Nat \ {0}
    OBVIOUS
  <2> QED
    BY <1>3, <2>1, <2>2
<1>8. ASSUME m >= least, m < groups * items, NEW r \in Nat, items = least * r PROVE n <= items
  <2>1. \A x, y, z \in Nat : x * (y * z) = y * (x * z) /\ x * z \in Nat
    OBVIOUS
  <2>2. m \in Nat /\ m <= least * (groups * r) /\ groups * r \in Nat
    <3>1. groups * (least * r) = least * (groups * r) /\ groups * r \in Nat
      BY <1>3, <1>4, <2>1
    <3> QED
      BY <1>3, <1>8, <3>1
  <2>3. Up(m, least) <= groups * r /\ Up(m, least) \in Nat \ {0}
    BY <1>3, <1>6, <1>8, <2>2, RoundedUp
  <2>4. Up(Up(m, least), groups) <= r /\ Up(Up(m, least), groups) \in Nat \ {0}
    BY <1>4, <2>3, RoundedUp, RoundedUpIsPositive
  <2>5. \A x, y, z \in Nat : x <= y => x * z <= z * y
    <3> SUFFICES ASSUME NEW x \in Nat, NEW y \in Nat, NEW z \in Nat, x <= y PROVE x * z <= z * y
      OBVIOUS
    <3>1. y = x + (y - x) /\ y - x \in Nat
      OBVIOUS
    <3>2. z * y = x * z + z * (y - x) /\ z * (y - x) \in Nat /\ x * z \in Nat
      BY <3>1
    <3> QED
      BY <3>2
  <2> QED
    BY <1>3, <1>8, <2>4, <2>5
<1>9. ASSUME m >= least, m < groups * items, ~Refused PROVE n <= ecall.max_wg
  <2>1. items % least = 0
    <3>1. CASE least = items
      <4>1. items = 1 * items /\ 1 \in Nat
        BY <1>2
      <4> QED
        BY <1>2, <3>1, <4>1, Multiples
    <3>2. CASE least = min_work_items /\ items = max_work_items
      BY <1>1, <3>2
    <3>3. CASE least = min_work_items /\ min_work_items < items /\ items = ecall.max_wg /\ ecall.max_wg < max_work_items
      BY <1>9, <3>3 DEF Refused
    <3> QED
      BY <1>2, <1>3, <3>1, <3>2, <3>3
  <2>2. items = least * (items \div least) /\ items \div least \in Nat
    <3>1. items = least * (items \div least) + (items % least) /\ items \div least \in Nat
      BY <1>2, <1>3, Division
    <3>2. \A x, y \in Nat : x * y \in Nat
      OBVIOUS
    <3>3. least * (items \div least) \in Nat
      BY <1>3, <3>1, <3>2
    <3> QED
      BY <2>1, <3>1, <3>3
  <2>3. n <= items
    BY <1>8, <1>9, <2>2
  <2>4. n \in Nat
    BY <1>7, <1>9
  <2> QED
    BY <1>1, <1>2, <2>3, <2>4
<1> HIDE DEF n
<1>10. CASE m < least
  <2>1. splay(m) = sizes(1, least)
    BY <1>5, <1>10
  <2> QED
    BY <1>1, <1>2, <1>3, <2>1
<1>11. CASE m >= least /\ m < groups * least
  <2>1. splay(m) = sizes(Up(m, least), least)
    BY <1>3, <1>5, <1>11
  <2> QED
    BY <1>1, <1>2, <1>3, <1>6, <1>11, <2>1
<1>12. CASE m >= least /\ ~(m < groups * least) /\ m < groups * items
  <2>1. splay(m) = sizes(groups, n)
    BY <1>3, <1>5, <1>12
  <2> QED
    BY <1>4, <1>7, <1>9, <1>12, <2>1
<1>13. CASE m >= least /\ ~(m < groups * least) /\ ~(m < groups * items)
  <2>1. splay(m) = sizes(groups, items)
    BY <1>3, <1>5, <1>13
  <2> QED
    BY <1>2, <1>4, <2>1
<1> QED
  BY <1>3, <1>10, <1>11, <1>12, <1>13

(* Bounds as a kernel is given them.                                       *)
BoundsSet == [start : Int, stop : Int, step : Int \ {0}]

LEMMA DistanceIs ==
  ASSUME NEW b \in BoundsSet
  PROVE  /\ b.start \in Int /\ b.stop \in Int /\ b.step \in Int /\ b.step # 0 /\ Distance(b) \in Nat
         /\ b.stop >= b.start => b.stop = b.start + Distance(b)
         /\ b.stop <= b.start => b.stop = b.start - Distance(b)
BY DEF BoundsSet, Distance

(* Before the end, in the direction of the step.                           *)
Within(b, i) == IF b.step < 0 THEN i > b.stop ELSE i < b.stop

(* The loop of a work item, by the steps it takes; no step leads as far    *)
(* as the end.                                                             *)
LEMMA StepsAreFew ==
  ASSUME NEW b \in BoundsSet, NEW n \in Nat, Within(b, b.start + n * b.step)
  PROVE  n <= Distance(b) /\ b.start + n * b.step \in (b.start - Distance(b)) .. (b.start + Distance(b))
<1> DEFINE s == b.step
           D == Distance(b)
           x == n * s
<1>1. b.start \in Int /\ b.stop \in Int /\ s \in Int /\ s # 0 /\ D \in Nat
      /\ (b.stop >= b.start => b.stop = b.start + D) /\ (b.stop <= b.start => b.stop = b.start - D)
  BY DistanceIs
<1>2. CASE s > 0
  <2>1. x \in Nat /\ n <= x
    <3>1. \A z \in Nat \ {0} : n * z \in Nat /\ n <= n * z
      BY Multiples
    <3>2. s \in Nat \ {0}
      BY <1>1, <1>2
    <3> QED
      BY <3>1, <3>2
  <2>2. b.start + x < b.stop
    BY <1>1, <1>2 DEF Within
  <2> HIDE DEF x, D
  <2>3. x < D
    BY <1>1, <2>1, <2>2
  <2>4. n <= D /\ b.start + x \in (b.start - D) .. (b.start + D)
    BY <1>1, <2>1, <2>3
  <2> QED
    BY <2>4 DEF x, D
<1>3. CASE s < 0
  <2> DEFINE y == n * (- s)
  <2>1. - s \in Nat \ {0}
    BY <1>1, <1>3
  <2>2. y \in Nat /\ n <= y
    <3>1. \A z \in Nat \ {0} : n * z \in Nat /\ n <= n * z
      BY Multiples
    <3> QED
      BY <2>1, <3>1
  <2>3. x = - y
    BY <1>1
  <2>4. b.start + x > b.stop
    BY <1>1, <1>3 DEF Within
  <2> HIDE DEF x, y, D
  <2>5. y < D
    BY <1>1, <2>2, <2>3, <2>4
  <2>6. n <= D /\ b.start + x \in (b.start - D) .. (b.start + D)
    BY <1>1, <2>2, <2>3, <2>5
  <2> QED
    BY <2>6 DEF x, D
<1> QED
  BY <1>1, <1>2, <1>3

(* The elements of a range are those that some number of steps leads to.   *)
LEMMA SelectedAre ==
  ASSUME NEW b \in BoundsSet, NEW i
  PROVE  i \in Selected_(b) <=> \E n \in Nat : i = b.start + n * b.step /\ Within(b, i)
<1> DEFINE s == b.step
           D == Distance(b)
<1>1. b.start \in Int /\ b.stop \in Int /\ s \in Int /\ s # 0 /\ D \in Nat
  BY DistanceIs
<1>2. ASSUME i \in Selected_(b) PROVE \E n \in Nat : i = b.start + n * s /\ Within(b, i)
  <2>1. i \in Int
    BY <1>1, <1>2 DEF Selected_
  <2>2. CASE s > 0
    <3> DEFINE x == i - b.start
               q == x \div s
    <3>1. x \in Nat /\ x % s = 0 /\ i < b.stop
      BY <1>1, <1>2, <2>1, <2>2 DEF Selected_
    <3>2. x = s * q + (x % s) /\ q \in Nat
      <4>1. s \in Nat \ {0}
        BY <1>1, <2>2
      <4> HIDE DEF x, s
      <4> QED
        BY <3>1, <4>1, Division
    <3>3. \A a, c \in Int : a * c = c * a /\ a * c \in Int
      OBVIOUS
    <3>4. i = b.start + x /\ Within(b, i)
      BY <1>1, <2>1, <2>2, <3>1 DEF Within
    <3> HIDE DEF x, q
    <3>5. x = q * s
      BY <1>1, <3>1, <3>2, <3>3
    <3> QED
      BY <3>2, <3>4, <3>5
  <2>3. CASE s < 0
    <3> DEFINE r == - s
               x == b.start - i
               q == x \div r
    <3>1. x \in Nat /\ x % r = 0 /\ i > b.stop /\ r \in Nat \ {0} /\ s = - r
      BY <1>1, <1>2, <2>1, <2>3 DEF Selected_
    <3>4. i = b.start - x /\ Within(b, i)
      BY <1>1, <2>1, <2>3, <3>1 DEF Within
    <3> HIDE DEF r
    <3>2. x = r * q + (x % r) /\ q \in Nat
      BY <3>1, Division
    <3>3. \A a, c \in Int : c * (- a) = - (a * c) /\ a * c \in Int
      OBVIOUS
    <3> HIDE DEF x, q
    <3>5. q * s = - x
      <4>1. q * (- r) = - (r * q) /\ r * q \in Int
        BY <3>1, <3>2, <3>3
      <4> QED
        BY <3>1, <3>2, <4>1
    <3>6. i = b.start + q * s
      BY <1>1, <2>1, <3>1, <3>4, <3>5
    <3> QED
      BY <3>2, <3>4, <3>6
  <2> QED
    BY <1>1, <2>2, <2>3
<1>3. ASSUME NEW n \in Nat, i = b.start + n * s, Within(b, i) PROVE i \in Selected_(b)
  <2> DEFINE x == n * s
  <2>1. i = b.start + x /\ x \in Int /\ i \in (b.start - D) .. (b.start + D)
    BY <1>1, <1>3, StepsAreFew
  <2>2. CASE s > 0
    <3>1. x \in Nat /\ x % s = 0
      <4>1. s \in Nat \ {0}
        BY <1>1, <2>2
      <4>2. \A z \in Nat \ {0} : n * z \in Nat /\ (n * z) % z = 0
        BY Multiples
      <4> QED
        BY <4>1, <4>2
    <3>2. i < b.stop
      BY <1>3, <2>2, <1>1 DEF Within
    <3> HIDE DEF x
    <3>3. i >= b.start /\ i - b.start = x
      BY <1>1, <2>1, <3>1
    <3> QED
      BY <1>1, <2>1, <2>2, <3>1, <3>2, <3>3 DEF Selected_
  <2>3. CASE s < 0
    <3> DEFINE y == n * (- s)
    <3>1. y \in Nat /\ y % (- s) = 0
      <4>1. - s \in Nat \ {0}
        BY <1>1, <2>3
      <4>2. \A z \in Nat \ {0} : n * z \in Nat /\ (n * z) % z = 0
        BY Multiples
      <4> QED
        BY <4>1, <4>2
    <3>2. i > b.stop
      BY <1>3, <2>3, <1>1 DEF Within
    <3>3. x = - y
      BY <1>1
    <3> HIDE DEF x, y
    <3>4. i <= b.start /\ b.start - i = y
      BY <1>1, <2>1, <3>1, <3>3
    <3> QED
      BY <1>1, <2>1, <2>3, <3>1, <3>2, <3>4 DEF Selected_
  <2> QED
    BY <1>1, <2>2, <2>3
<1> QED
  BY <1>2, <1>3

(* A work item takes every gsize-th step.                                  *)
LEMMA LoopIs ==
  ASSUME NEW b \in BoundsSet, gsize \in Nat \ {0}, NEW w \in Nat, NEW i
  PROVE  i \in KernelLoop(w, b) <=>
           \E k \in Nat : i = b.start + (w + k * gsize) * b.step /\ Within(b, i)
<1> DEFINE D == Distance(b)
<1>1. D \in Nat /\ b.start \in Int /\ b.step \in Int /\ b.step # 0
  BY DistanceIs
<1>2. ASSUME NEW k \in Nat, i = b.start + (w + k * gsize) * b.step, Within(b, i)
      PROVE  i \in KernelLoop(w, b)
  <2> DEFINE x == k * gsize
             n == w + x
  <2>1. x \in Nat /\ k <= x
    BY Multiples
  <2>2. n \in Nat /\ k <= n
    <3> HIDE DEF x
    <3> QED
      BY <2>1
  <2>3. i = b.start + n * b.step
    BY <1>2
  <2> HIDE DEF n, x
  <2>4. n <= D /\ i \in (b.start - D) .. (b.start + D)
    BY <1>2, <2>2, <2>3, StepsAreFew
  <2>5. k \in 0 .. D
    BY <1>1, <2>2, <2>4
  <2> HIDE DEF D
  <2> QED
    BY <1>2, <2>4, <2>5 DEF KernelLoop, Within, D
<1>3. ASSUME i \in KernelLoop(w, b)
      PROVE  \E k \in Nat : i = b.start + (w + k * gsize) * b.step /\ Within(b, i)
  <2>1. PICK k \in 0 .. D : i = b.start + (w + k * gsize) * b.step /\ Within(b, i)
    BY <1>3 DEF KernelLoop, Within
  <2>2. k \in Nat
    BY <1>1
  <2> QED
    BY <2>1, <2>2
<1> QED
  BY <1>2, <1>3

(* All work items together reach every element, and no two the same.       *)
LEMMA EachElementHasOneWorkItem ==
  ASSUME NEW b \in BoundsSet, gsize \in Nat \ {0}, NEW i
  PROVE  /\ i \in Selected_(b) <=> \E w \in 0 .. gsize - 1 : i \in KernelLoop(w, b)
         /\ \A v, w \in 0 .. gsize - 1 : i \in KernelLoop(v, b) /\ i \in KernelLoop(w, b) => v = w
<1> DEFINE G == gsize
           s == b.step
<1>1. b.start \in Int /\ s \in Int /\ s # 0
  BY DistanceIs
<1>2. ASSUME i \in Selected_(b) PROVE \E w \in 0 .. G - 1 : i \in KernelLoop(w, b)
  <2>1. PICK n \in Nat : i = b.start + n * s /\ Within(b, i)
    BY <1>2, SelectedAre
  <2> DEFINE w == n % G
             k == n \div G
  <2>2. n = G * k + w /\ w \in 0 .. G - 1 /\ k \in Nat
    BY Division
  <2>3. G * k = k * G /\ k * G \in Nat
    BY <2>2
  <2> HIDE DEF w, k
  <2>4. n = w + k * G
    BY <2>2, <2>3
  <2>5. i \in KernelLoop(w, b)
    <3>1. w \in Nat
      BY <2>2
    <3> QED
      BY <2>1, <2>2, <2>4, <3>1, LoopIs
  <2> QED
    BY <2>2, <2>5
<1>3. ASSUME NEW w \in 0 .. G - 1, i \in KernelLoop(w, b) PROVE i \in Selected_(b)
  <2>0. w \in Nat
    OBVIOUS
  <2>1. PICK k \in Nat : i = b.start + (w + k * G) * s /\ Within(b, i)
    BY <1>3, <2>0, LoopIs
  <2>2. w + k * G \in Nat
    <3>1. k * G \in Nat
      OBVIOUS
    <3> QED
      BY <3>1
  <2> QED
    BY <2>1, <2>2, SelectedAre
<1>4. ASSUME NEW v \in 0 .. G - 1, NEW w \in 0 .. G - 1, i \in KernelLoop(v, b), i \in KernelLoop(w, b) PROVE v = w
  <2>0. v \in Nat /\ w \in Nat
    OBVIOUS
  <2>1. PICK k \in Nat : i = b.start + (v + k * G) * s /\ Within(b, i)
    BY <1>4, <2>0, LoopIs
  <2>2. PICK l \in Nat : i = b.start + (w + l * G) * s /\ Within(b, i)
    BY <1>4, <2>0, LoopIs
  <2>3. k * G \in Nat /\ l * G \in Nat
    OBVIOUS
  <2> DEFINE x == v + k * G
             y == w + l * G
  <2>4. x \in Nat /\ y \in Nat
    BY <2>3
  <2> HIDE DEF x, y
  <2>5. x * s = y * s
    <3>1. b.start + x * s = b.start + y * s
      BY <2>1, <2>2 DEF x, y
    <3>2. x * s \in Int /\ y * s \in Int
      BY <1>1, <2>4
    <3> QED
      BY <1>1, <3>1, <3>2
  <2>6. x = y
    <3>1. \A a, c, d \in Int : d # 0 /\ a * d = c * d => a = c
      OBVIOUS
    <3> QED
      BY <1>1, <2>4, <2>5, <3>1
  <2> QED
    BY <2>6, OneWorkItem DEF x, y
<1> QED
  BY <1>2, <1>3, <1>4

(* What a call stores for index i of its array v, and for many of both.    *)
Store(c, v, i) ==
  CASE c.op \in {"map", "slice", "range"} -> <<0, i, <<0, i>>>>
    [] c.op = "reverse" -> <<0, i, <<0, c.size - 1 - i>>>>
    [] c.op = "diff" -> <<0, i, <<<<0, i + 1>>, <<0, i>>>>>>
    [] c.op = "take" -> <<v, i, <<v, c.src[i + 1]>>>>
    [] c.op = "put" -> <<v, c.dest[i + 1], <<v, IF c.sources[v + 1] = 1 THEN 0 ELSE i % c.sources[v + 1]>>>>
    [] c.op = "take_put" -> <<v, c.dest[i + 1], <<v, c.src[i + 1] + c.offset>>>>
Stores(c, V, I) == {Store(c, v, i) : v \in V, i \in I}

(* The elements to compute, those that the work items have reached, and    *)
(* the first n arrays.                                                     *)
ToCompute == Selected_(Bounds)
Reached  == UNION {KernelLoop(w, Bounds) : w \in ran}
First(n) == 0 .. Smaller(n, Len(ecall.sources)) - 1

(* While a kernel runs: each element that was reached was reached once,    *)
(* and the statement was carried out for it and the arrays of the chunk.   *)
Running ==
  /\ gsize \in Nat \ {0} /\ ran \subseteq 0 .. gsize - 1
  /\ DOMAIN visits = Reached
  /\ \A i \in DOMAIN visits : visits[i] = 1
  /\ \A v \in Chunk : lengths[v - start_i] = ecall.sources[v + 1]
  /\ dest = Stores(ecall, First(start_i), ToCompute) \cup Stores(ecall, Chunk, Reached)

EInv ==
  /\ ecall \in ElementwiseCalls /\ start_i \in Nat /\ DOMAIN lengths = 0 .. chunk_size - 1
  /\ estate \in {"host", "kernel", "done", "raised"}
  /\ estate = "raised" => Refused
  /\ estate \in {"host", "kernel"} => start_i < Len(ecall.sources)
  /\ estate = "host" => dest = Stores(ecall, First(start_i), ToCompute)
  /\ estate = "kernel" => Running
  /\ estate = "done" =>
       /\ dest = Stores(ecall, 0 .. Len(ecall.sources) - 1, ToCompute)
       /\ \A i \in DOMAIN visits : visits[i] = 1

LEMMA CallIs ==
  ASSUME ecall \in ElementwiseCalls
  PROVE  /\ ecall.op \in Ops /\ ecall.size \in Nat /\ Bounds \in BoundsSet
         /\ Len(ecall.sources) \in Nat \ {0} /\ chunk_size \in Nat \ {0} /\ ecall.sources \in Seq(Nat \ {0})
         /\ ecall.op \notin {"map", "slice", "range", "diff"} => Bounds = [start |-> 0, stop |-> ecall.size, step |-> 1]
         /\ ecall.op = "diff" => ecall.size > 0
<1>1. /\ ecall.op \in Ops /\ ecall.size \in Nat /\ ecall.start \in Int /\ ecall.stop \in Int
      /\ ecall.step \in Int \ {0}
      /\ ecall.op = "diff" => ecall.size > 0
  BY ElementwiseAssumption
<1>2. ecall.sources \in Seq(Nat \ {0}) /\ ecall.sources # << >> /\ max_chunk_size \in Nat \ {0}
  BY ElementwiseAssumption
<1>3. Len(ecall.sources) \in Nat \ {0}
  BY <1>2, EmptySeq, LenProperties
<1>4. chunk_size \in Nat \ {0}
  BY <1>2, <1>3 DEF chunk_size, Smaller
<1>5. Bounds \in BoundsSet
  <2>1. CASE ecall.op = "range"
    BY <1>1, <2>1 DEF Bounds, BoundsSet
  <2>2. CASE ecall.op = "slice"
    BY <1>1, <2>2 DEF Bounds, BoundsSet, Indices, Smaller
  <2>3. CASE ecall.op = "diff"
    BY <1>1, <2>3 DEF Bounds, BoundsSet
  <2>4. CASE ecall.op \notin {"range", "slice", "diff"}
    BY <1>1, <2>4 DEF Bounds, BoundsSet
  <2> QED
    BY <2>1, <2>2, <2>3, <2>4
<1>6. ecall.op \notin {"map", "slice", "range", "diff"} => Bounds = [start |-> 0, stop |-> ecall.size, step |-> 1]
  BY DEF Bounds
<1> QED
  BY <1>1, <1>2, <1>3, <1>4, <1>5, <1>6

LEMMA FromZero ==
  ASSUME NEW n \in Nat
  PROVE  Selected_([start |-> 0, stop |-> n, step |-> 1]) = 0 .. n - 1
<1>1. \A i \in Int : (i - 0) % 1 = 0
  OBVIOUS
<1> QED
  BY <1>1 DEF Selected_, Distance

(* What the functions are to store is what their statement stores.         *)
LEMMA ExpectedIs ==
  ASSUME ecall \in ElementwiseCalls
  PROVE  Expected = Stores(ecall, 0 .. Len(ecall.sources) - 1, ToCompute)
<1> DEFINE all_v == 0 .. Len(ecall.sources) - 1
<1>1. ecall.op \in Ops /\ ecall.size \in Nat /\ Len(ecall.sources) \in Nat \ {0} /\ 0 \in all_v
  BY CallIs
<1>2. CASE ecall.op \in {"map", "slice", "range"}
  <2>1. Expected = {<<0, i, <<0, i>>>> : i \in ToCompute}
    BY <1>2 DEF Expected, ToCompute
  <2>2. \A v, i : Store(ecall, v, i) = <<0, i, <<0, i>>>>
    BY <1>2 DEF Store
  <2> QED
    BY <1>1, <2>1, <2>2 DEF Stores
<1>3. CASE ecall.op = "diff"
  <2>1. ToCompute = 0 .. ecall.size - 2
    <3>1. Bounds = [start |-> 0, stop |-> ecall.size - 1, step |-> 1] /\ ecall.size - 1 \in Nat
      BY <1>1, <1>3, CallIs DEF Bounds
    <3> QED
      BY <1>1, <3>1, FromZero DEF ToCompute
  <2>2. Expected = {<<0, p - 2, <<<<0, p - 1>>, <<0, p - 2>>>>>> : p \in (1 .. ecall.size) \ {1}}
    BY <1>3 DEF Expected
  <2>3. \A v, i : Store(ecall, v, i) = <<0, i, <<<<0, i + 1>>, <<0, i>>>>>>
    BY <1>3 DEF Store
  <2>4. \A p \in (1 .. ecall.size) \ {1} : p - 2 \in ToCompute /\ p - 1 = (p - 2) + 1
    BY <1>1, <2>1
  <2>5. \A i \in ToCompute : i + 2 \in (1 .. ecall.size) \ {1} /\ (i + 2) - 2 = i /\ (i + 2) - 1 = i + 1
    BY <1>1, <2>1
  <2>6. Expected = {Store(ecall, 0, p - 2) : p \in (1 .. ecall.size) \ {1}}
    BY <2>2, <2>3, <2>4
  <2>7. Expected = {Store(ecall, 0, i) : i \in ToCompute}
    BY <2>4, <2>5, <2>6
  <2>8. \A v, i : Store(ecall, v, i) = Store(ecall, 0, i)
    BY <2>3
  <2> QED
    BY <1>1, <2>7, <2>8 DEF Stores
<1>4. CASE ecall.op \in {"reverse", "take", "put", "take_put"}
  <2>1. ToCompute = 0 .. ecall.size - 1
    BY <1>1, <1>4, CallIs, FromZero DEF ToCompute
  <2>2. CASE ecall.op = "reverse"
    <3>1. Expected = {<<0, p - 1, <<0, ecall.size - p>>>> : p \in 1 .. ecall.size}
      BY <2>2 DEF Expected
    <3>2. \A v, i : Store(ecall, v, i) = <<0, i, <<0, ecall.size - 1 - i>>>>
      BY <2>2 DEF Store
    <3>3. \A p \in 1 .. ecall.size : p - 1 \in ToCompute /\ ecall.size - p = ecall.size - 1 - (p - 1)
      BY <1>1, <2>1
    <3>4. \A i \in ToCompute : i + 1 \in 1 .. ecall.size /\ (i + 1) - 1 = i
      BY <1>1, <2>1
    <3>5. Expected = {Store(ecall, 0, p - 1) : p \in 1 .. ecall.size}
      BY <3>1, <3>2, <3>3
    <3>6. Expected = {Store(ecall, 0, i) : i \in ToCompute}
      BY <3>3, <3>4, <3>5
    <3>7. \A v, i : Store(ecall, v, i) = Store(ecall, 0, i)
      BY <3>2
    <3> QED
      BY <1>1, <3>6, <3>7 DEF Stores
  <2>3. CASE ecall.op # "reverse"
    <3>1. Expected = {Store(ecall, v, p - 1) : p \in 1 .. ecall.size, v \in all_v}
      <4>1. \A p \in 1 .. ecall.size : (p - 1) + 1 = p
        BY <1>1
      <4>2. CASE ecall.op = "take"
        BY <4>1, <4>2 DEF Expected, Store
      <4>3. CASE ecall.op = "put"
        BY <4>1, <4>3 DEF Expected, Store
      <4>4. CASE ecall.op = "take_put"
        BY <4>1, <4>4 DEF Expected, Store
      <4> QED
        BY <1>4, <2>3, <4>2, <4>3, <4>4
    <3>2. \A p \in 1 .. ecall.size : p - 1 \in ToCompute
      BY <1>1, <2>1
    <3>3. \A i \in ToCompute : i + 1 \in 1 .. ecall.size /\ (i + 1) - 1 = i
      BY <1>1, <2>1
    <3> QED
      BY <3>1, <3>2, <3>3 DEF Stores
  <2> QED
    BY <2>2, <2>3
<1> QED
  BY <1>1, <1>2, <1>3, <1>4 DEF Ops

(* The arrays of a chunk, and those of the chunks before it.               *)
LEMMA ChunkIs ==
  ASSUME ecall \in ElementwiseCalls, start_i \in Nat, start_i < Len(ecall.sources)
  PROVE  /\ start_i \in Chunk
         /\ \A v \in Chunk : v - start_i \in 0 .. chunk_size - 1 /\ start_i + (v - start_i) = v
         /\ First(start_i + chunk_size) = First(start_i) \cup Chunk
         /\ start_i + chunk_size >= Len(ecall.sources) =>
              First(start_i + chunk_size) = 0 .. Len(ecall.sources) - 1
<1> DEFINE n == Len(ecall.sources)
           c == chunk_size
<1>1. n \in Nat \ {0} /\ c \in Nat \ {0}
  BY CallIs
<1>2. Chunk = start_i .. Smaller(start_i + c, n) - 1
  BY DEF Chunk
<1>3. First(start_i + c) = 0 .. Smaller(start_i + c, n) - 1 /\ First(start_i) = 0 .. Smaller(start_i, n) - 1
  BY DEF First
<1> HIDE DEF n, c
<1>4. start_i < n
  BY DEF n
<1>5. start_i \in Chunk /\ \A v \in Chunk : v - start_i \in 0 .. c - 1 /\ start_i + (v - start_i) = v
  BY <1>1, <1>2, <1>4 DEF Smaller
<1>6. First(start_i) = 0 .. start_i - 1
  BY <1>1, <1>3, <1>4 DEF Smaller
<1>7. First(start_i + c) = First(start_i) \cup Chunk
  BY <1>1, <1>2, <1>3, <1>4, <1>6 DEF Smaller
<1>8. start_i + c >= n => First(start_i + c) = 0 .. n - 1
  BY <1>1, <1>3 DEF Smaller
<1> QED
  BY <1>5, <1>7, <1>8 DEF n, c

LEMMA StatementIs ==
  ASSUME ecall \in ElementwiseCalls, start_i \in Nat, start_i < Len(ecall.sources), Running, NEW i
  PROVE  Statement(i) = {Store(ecall, v, i) : v \in Chunk}
<1>1. ecall.op \in Ops /\ start_i \in Chunk
  BY CallIs, ChunkIs
<1>2. \A v \in Chunk : lengths[v - start_i] = ecall.sources[v + 1]
  BY DEF Running
<1>3. CASE ecall.op \in {"map", "slice", "range"}
  BY <1>1, <1>3 DEF Statement, Store
<1>4. CASE ecall.op = "reverse"
  BY <1>1, <1>4 DEF Statement, Store
<1>5. CASE ecall.op = "diff"
  BY <1>1, <1>5 DEF Statement, Store
<1>6. CASE ecall.op = "take"
  BY <1>6 DEF Statement, Store
<1>7. CASE ecall.op = "put"
  BY <1>2, <1>7 DEF Statement, Store, Put_
<1>8. CASE ecall.op = "take_put"
  BY <1>8 DEF Statement, Store
<1> QED
  BY <1>1, <1>3, <1>4, <1>5, <1>6, <1>7, <1>8 DEF Ops

LEMMA ElementsAtTheStart ==
  ASSUME ElementInit
  PROVE  EInv
<1>1. /\ ecall \in ElementwiseCalls /\ estate = "host" /\ start_i = 0 /\ dest = {}
      /\ DOMAIN lengths = 0 .. chunk_size - 1
  BY DEF ElementInit
<1>2. Len(ecall.sources) \in Nat \ {0}
  BY <1>1, CallIs
<1>3. First(0) = {}
  BY <1>2 DEF First, Smaller
<1>4. Stores(ecall, First(0), ToCompute) = {}
  BY <1>3 DEF Stores
<1> QED
  BY <1>1, <1>2, <1>4 DEF EInv

(* What a step leaves as it was, as long as the call stays.                *)
LEMMA CallStays ==
  ASSUME ecall' = ecall
  PROVE  /\ Bounds' = Bounds /\ ToCompute' = ToCompute /\ chunk_size' = chunk_size /\ (Refused' <=> Refused)
         /\ start_i' = start_i => Chunk' = Chunk /\ First(start_i)' = First(start_i)
<1>1. Bounds' = Bounds
  BY DEF Bounds, Indices, Smaller
<1>2. ToCompute' = ToCompute
  BY <1>1 DEF ToCompute
<1>3. chunk_size' = chunk_size
  BY DEF chunk_size
<1>4. start_i' = start_i => Chunk' = Chunk /\ First(start_i)' = First(start_i)
  BY <1>3 DEF Chunk, First
<1> QED
  BY <1>1, <1>2, <1>3, <1>4 DEF Refused

LEMMA LaunchedForIs ==
  ASSUME NEW b \in BoundsSet
  PROVE  LaunchedFor(b) \in Int
<1> DEFINE d == Distance(b)
           s == b.step
<1>1. d \in Nat /\ s \in Int /\ s # 0
  BY DistanceIs
<1>2. LaunchedFor(b) = IF s > 0 THEN d \div s ELSE - Up(d, - s)
  BY DEF LaunchedFor
<1> HIDE DEF d, s
<1>3. CASE s > 0
  BY <1>1, <1>2, <1>3
<1>4. CASE s < 0
  <2>1. \A x \in Int, y \in Nat \ {0} : x \div y \in Int
    OBVIOUS
  <2>2. - s \in Nat \ {0} /\ d + (- s) - 1 \in Int
    BY <1>1, <1>4
  <2>3. Up(d, - s) \in Int
    BY <2>1, <2>2 DEF Up
  <2> QED
    BY <1>1, <1>2, <1>4, <2>3
<1> QED
  BY <1>1, <1>3, <1>4

LEMMA LaunchStep ==
  ASSUME EInv, LaunchKernel
  PROVE  EInv'
<1> DEFINE sizes == splay(LaunchedFor(Bounds))
<1>1. /\ ecall \in ElementwiseCalls /\ start_i \in Nat /\ start_i < Len(ecall.sources)
      /\ DOMAIN lengths = 0 .. chunk_size - 1 /\ dest = Stores(ecall, First(start_i), ToCompute)
  BY DEF EInv, LaunchKernel
<1>2. /\ ecall' = ecall /\ start_i' = start_i /\ dest' = dest /\ ran' = {} /\ visits' = << >>
      /\ gsize' = sizes.groups * sizes.items /\ lengths' = ChunkLengths
      /\ estate' = IF sizes.items <= ecall.max_wg THEN "kernel" ELSE "raised"
  BY DEF LaunchKernel
<1>3. /\ ToCompute' = ToCompute /\ chunk_size' = chunk_size /\ (Refused' <=> Refused)
      /\ Chunk' = Chunk /\ First(start_i)' = First(start_i)
  BY <1>2, CallStays
<1>4. LaunchedFor(Bounds) \in Int
  BY <1>1, CallIs, LaunchedForIs
<1>5. /\ sizes.groups \in Nat \ {0} /\ sizes.items \in Nat \ {0}
      /\ sizes.items <= ecall.max_wg \/ Refused
  BY <1>1, <1>4, SplayIs
<1>6. gsize' \in Nat \ {0}
  <2>1. \A x, y \in Nat \ {0} : x * y \in Nat \ {0}
    OBVIOUS
  <2> QED
    BY <1>2, <1>5, <2>1
<1> HIDE DEF sizes
<1>7. DOMAIN lengths' = (0 .. chunk_size - 1)
  BY <1>1, <1>2 DEF ChunkLengths
<1>8. ASSUME NEW v \in Chunk PROVE lengths'[v - start_i] = ecall.sources[v + 1]
  <2>1. v - start_i \in DOMAIN lengths /\ start_i + (v - start_i) = v
    BY <1>1, ChunkIs
  <2> QED
    BY <1>2, <2>1 DEF ChunkLengths
<1>9. Reached' = {}
  BY <1>2 DEF Reached
<1>10. DOMAIN visits' = {}
  BY <1>2
<1>11. dest' = Stores(ecall, First(start_i), ToCompute) \cup Stores(ecall, Chunk, {})
  BY <1>1, <1>2 DEF Stores
<1>12. Running'
  BY <1>2, <1>3, <1>6, <1>8, <1>9, <1>10, <1>11 DEF Running
<1>13. estate' \in {"kernel", "raised"} /\ (estate' = "raised" => Refused)
  BY <1>2, <1>5
<1> QED
  BY <1>1, <1>2, <1>3, <1>7, <1>12, <1>13 DEF EInv

(* A work item reaches what no other has reached.                          *)
LEMMA WorkItemStep ==
  ASSUME EInv, NEW w \in 0 .. gsize - 1, RunWorkItem(w)
  PROVE  EInv'
<1> DEFINE mine == KernelLoop(w, Bounds)
<1>1. /\ ecall \in ElementwiseCalls /\ start_i \in Nat /\ start_i < Len(ecall.sources)
      /\ DOMAIN lengths = 0 .. chunk_size - 1 /\ estate = "kernel" /\ Running
  BY DEF EInv, RunWorkItem
<1>2. /\ ecall' = ecall /\ start_i' = start_i /\ estate' = estate /\ lengths' = lengths /\ gsize' = gsize
      /\ ran' = ran \cup {w} /\ ran = 0 .. w - 1
      /\ visits' = [i \in DOMAIN visits \cup mine |->
                      (IF i \in DOMAIN visits THEN visits[i] ELSE 0) + IF i \in mine THEN 1 ELSE 0]
      /\ dest' = dest \cup UNION {Statement(i) : i \in mine}
  BY DEF RunWorkItem
<1>3. /\ gsize \in Nat \ {0} /\ ran \subseteq 0 .. gsize - 1 /\ DOMAIN visits = Reached
      /\ \A i \in DOMAIN visits : visits[i] = 1
      /\ \A v \in Chunk : lengths[v - start_i] = ecall.sources[v + 1]
      /\ dest = Stores(ecall, First(start_i), ToCompute) \cup Stores(ecall, Chunk, Reached)
  BY <1>1 DEF Running
<1>4. /\ Bounds' = Bounds /\ ToCompute' = ToCompute /\ chunk_size' = chunk_size
      /\ Chunk' = Chunk /\ First(start_i)' = First(start_i)
  BY <1>2, CallStays
<1>5. Bounds \in BoundsSet
  BY <1>1, CallIs
<1>6. Reached' = Reached \cup mine
  <2>1. Reached' = UNION {KernelLoop(v, Bounds) : v \in ran'}
    BY <1>2, <1>4 DEF Reached, KernelLoop
  <2> QED
    BY <1>2, <2>1 DEF Reached
<1>7. ASSUME NEW i \in mine PROVE i \notin Reached
  <2>1. SUFFICES ASSUME NEW v \in ran, i \in KernelLoop(v, Bounds) PROVE FALSE
    BY DEF Reached
  <2>2. v \in 0 .. gsize - 1 /\ v # w
    BY <1>2, <1>3
  <2> QED
    BY <1>3, <1>5, <2>1, <2>2, EachElementHasOneWorkItem
<1>8. UNION {Statement(i) : i \in mine} = Stores(ecall, Chunk, mine)
  <2>1. \A i \in mine : Statement(i) = {Store(ecall, v, i) : v \in Chunk}
    BY <1>1, StatementIs
  <2> HIDE DEF mine
  <2> QED
    BY <2>1 DEF Stores
<1> HIDE DEF mine
<1>9. DOMAIN visits' = Reached \cup mine
  BY <1>2, <1>3
<1>10. ASSUME NEW i \in DOMAIN visits' PROVE visits'[i] = 1
  <2>1. CASE i \in mine
    BY <1>2, <1>3, <1>7, <1>9, <2>1
  <2>2. CASE i \notin mine
    BY <1>2, <1>3, <1>9, <2>2
  <2> QED
    BY <2>1, <2>2
<1>11. dest' = Stores(ecall, First(start_i), ToCompute) \cup Stores(ecall, Chunk, Reached \cup mine)
  BY <1>2, <1>3, <1>8 DEF Stores
<1>12. Running'
  BY <1>2, <1>3, <1>4, <1>6, <1>9, <1>10, <1>11 DEF Running
<1> QED
  BY <1>1, <1>2, <1>4, <1>12 DEF EInv

LEMMA KernelEndsStep ==
  ASSUME EInv, KernelEnds
  PROVE  EInv'
<1>1. /\ ecall \in ElementwiseCalls /\ start_i \in Nat /\ start_i < Len(ecall.sources)
      /\ DOMAIN lengths = 0 .. chunk_size - 1 /\ Running
  BY DEF EInv, KernelEnds
<1>2. /\ ecall' = ecall /\ lengths' = lengths /\ visits' = visits /\ dest' = dest
      /\ start_i' = start_i + chunk_size /\ ran = 0 .. gsize - 1
      /\ estate' = IF start_i' < Len(ecall.sources) THEN "host" ELSE "done"
  BY DEF KernelEnds
<1>3. /\ gsize \in Nat \ {0} /\ \A i \in DOMAIN visits : visits[i] = 1
      /\ dest = Stores(ecall, First(start_i), ToCompute) \cup Stores(ecall, Chunk, Reached)
  BY <1>1 DEF Running
<1>4. ToCompute' = ToCompute /\ chunk_size' = chunk_size /\ chunk_size \in Nat \ {0} /\ Len(ecall.sources) \in Nat
  BY <1>1, <1>2, CallIs, CallStays
<1>5. Reached = ToCompute
  <2>1. Bounds \in BoundsSet
    BY <1>1, CallIs
  <2>2. \A i : i \in Selected_(Bounds) <=> \E w \in 0 .. gsize - 1 : i \in KernelLoop(w, Bounds)
    BY <1>3, <2>1, EachElementHasOneWorkItem
  <2> QED
    BY <1>2, <2>2 DEF Reached, ToCompute
<1>6. dest = Stores(ecall, First(start_i) \cup Chunk, ToCompute)
  BY <1>3, <1>5 DEF Stores
<1>7. dest = Stores(ecall, First(start_i + chunk_size), ToCompute)
  BY <1>1, <1>6, ChunkIs
<1>8. First(start_i)' = First(start_i + chunk_size)
  BY <1>2 DEF First
<1>9. start_i' \in Nat
  BY <1>1, <1>2, <1>4
<1>10. CASE start_i' < Len(ecall.sources)
  BY <1>1, <1>2, <1>4, <1>7, <1>8, <1>9, <1>10 DEF EInv
<1>11. CASE ~(start_i' < Len(ecall.sources))
  <2>1. start_i + chunk_size >= Len(ecall.sources)
    BY <1>2, <1>4, <1>9, <1>11
  <2>2. dest = Stores(ecall, 0 .. Len(ecall.sources) - 1, ToCompute)
    BY <1>1, <1>7, <2>1, ChunkIs
  <2>3. estate' = "done"
    BY <1>2, <1>11
  <2> QED
    BY <1>1, <1>2, <1>3, <1>4, <1>9, <2>2, <2>3 DEF EInv
<1> QED
  BY <1>10, <1>11

LEMMA ElementsStutter ==
  ASSUME EInv, UNCHANGED elementvars
  PROVE  EInv'
<1>1. /\ ecall' = ecall /\ estate' = estate /\ start_i' = start_i /\ lengths' = lengths
      /\ gsize' = gsize /\ ran' = ran /\ visits' = visits /\ dest' = dest
  BY DEF elementvars
<1>2. /\ Bounds' = Bounds /\ ToCompute' = ToCompute /\ chunk_size' = chunk_size /\ (Refused' <=> Refused)
      /\ Chunk' = Chunk /\ First(start_i)' = First(start_i)
  BY <1>1, CallStays
<1>3. Reached' = Reached
  BY <1>1, <1>2 DEF Reached, KernelLoop
<1>4. Running' <=> Running
  BY <1>1, <1>2, <1>3 DEF Running
<1> QED
  BY <1>1, <1>2, <1>4 DEF EInv

(* Every element of an array, slice or range is computed once, however     *)
(* many work items splay launches for it, and the functions of array.py    *)
(* store what they promise through all chunks of arrays; a launch that the *)
(* device refuses is one whose largest group is no multiple of             *)
(* min_work_items.                                                         *)
THEOREM EachElementIsComputed == ElementSpec => []ElementsComputed
<1>1. ElementInit => EInv
  BY ElementsAtTheStart
<1>2. EInv /\ [ElementNext]_elementvars => EInv'
  BY LaunchStep, WorkItemStep, KernelEndsStep, ElementsStutter DEF ElementNext
<1>3. EInv => ElementsComputed
  <2> SUFFICES ASSUME EInv PROVE ElementsComputed
    OBVIOUS
  <2>1. Expected = Stores(ecall, 0 .. Len(ecall.sources) - 1, ToCompute)
    BY ExpectedIs DEF EInv
  <2> QED
    BY <2>1 DEF EInv, ElementsComputed, Refused
<1> QED
  BY <1>1, <1>2, <1>3, PTL DEF ElementSpec

-----------------------------------------------------------------------------
(* Merges of a bitonic sort: where the elements of a work item are.        *)

(* c blocks of n lines with d elements each.                               *)
Place(n, d, gt, i) == (gt \div n) * n * d + (gt % n) + i * n

LinesFit(n, d, G, N)   == \A gt \in 0 .. G - 1, i \in 0 .. d - 1 : Place(n, d, gt, i) \in 0 .. N - 1
LinesCover(n, d, G, N) ==
  \A p \in 0 .. N - 1 : \E gt \in 0 .. G - 1, i \in 0 .. d - 1 : p = Place(n, d, gt, i)

LEMMA LinePlaces ==
  ASSUME NEW c \in Nat, NEW d \in Nat \ {0}, NEW n \in Nat \ {0},
         NEW G, G = c * n, NEW N, N = c * (d * n)
  PROVE  LinesFit(n, d, G, N) /\ LinesCover(n, d, G, N)
<1>1. d * n \in Nat \ {0} /\ c * n \in Nat /\ c * (d * n) \in Nat
  OBVIOUS
<1>2. ASSUME NEW gt \in 0 .. c * n - 1, NEW i \in 0 .. d - 1
      PROVE  Place(n, d, gt, i) \in 0 .. c * (d * n) - 1
  <2> DEFINE u == gt \div n
             v == gt % n
  <2>1. u \in 0 .. c - 1 /\ v \in 0 .. n - 1
    <3>1. gt \in Nat /\ gt < c * n
      BY <1>1
    <3> QED
      BY <3>1, DigitsOf
  <2> HIDE DEF u, v
  <2>2. i * n + v \in 0 .. d * n - 1
    BY <2>1, TwoDigits
  <2>3. u * (d * n) + (i * n + v) \in 0 .. c * (d * n) - 1
    <3> DEFINE B == d * n
               b == i * n + v
    <3>1. B \in Nat \ {0} /\ b \in 0 .. B - 1
      BY <1>1, <2>2
    <3> HIDE DEF B, b
    <3>2. u * B + b \in 0 .. c * B - 1
      BY <2>1, <3>1, TwoDigits
    <3> QED
      BY <3>2 DEF B, b
  <2>4. u * n * d + v + i * n = u * (d * n) + (i * n + v)
    BY <2>1
  <2> QED
    BY <2>3, <2>4 DEF Place, u, v
<1>3. ASSUME NEW p \in 0 .. c * (d * n) - 1
      PROVE  \E gt \in 0 .. c * n - 1, i \in 0 .. d - 1 : p = Place(n, d, gt, i)
  <2> DEFINE B == d * n
             u == p \div B
             y == p % B
             i == y \div n
             v == y % n
             gt == u * n + v
  <2>1. u \in 0 .. c - 1 /\ y \in 0 .. B - 1 /\ p = u * B + y
    <3>1. B \in Nat \ {0} /\ c * B \in Nat /\ p \in 0 .. c * B - 1
      BY <1>1
    <3> HIDE DEF B
    <3>2. p \in Nat /\ p < c * B
      BY <3>1
    <3> QED
      BY <3>1, <3>2, DigitsOf
  <2> HIDE DEF u, y
  <2>2. y \in Nat /\ y < d * n
    BY <1>1, <2>1
  <2>3. i \in 0 .. d - 1 /\ v \in 0 .. n - 1 /\ y = i * n + v
    BY <2>2, DigitsOf
  <2> HIDE DEF i, v
  <2>4. gt \in 0 .. c * n - 1 /\ gt \div n = u /\ gt % n = v
    BY <2>1, <2>3, TwoDigits
  <2>5. p = u * n * d + v + i * n
    BY <2>1, <2>3
  <2> HIDE DEF gt
  <2>6. p = Place(n, d, gt, i)
    BY <2>4, <2>5 DEF Place
  <2> QED
    BY <2>3, <2>4, <2>6
<1> QED
  BY <1>2, <1>3 DEF LinesFit, LinesCover

(* A line of q times S * B elements: work item t has B of them, S apart.   *)
Spaced(S, B, t, k) == (t - (t % S)) * B + (t % S) + k * S
ItemsFit(S, B, W, d)   == \A t \in 0 .. W - 1, k \in 0 .. B - 1 : Spaced(S, B, t, k) \in 0 .. d - 1
ItemsCover(S, B, W, d) == \A i \in 0 .. d - 1 : \E t \in 0 .. W - 1, k \in 0 .. B - 1 : i = Spaced(S, B, t, k)

LEMMA ItemPlaces ==
  ASSUME NEW q \in Nat, NEW S \in Nat \ {0}, NEW B \in Nat \ {0},
         NEW W, W = q * S, NEW d, d = q * (B * S)
  PROVE  ItemsFit(S, B, W, d) /\ ItemsCover(S, B, W, d)
<1>1. B * S \in Nat \ {0} /\ q * S \in Nat /\ q * (B * S) \in Nat
  OBVIOUS
<1>2. ASSUME NEW t \in 0 .. q * S - 1, NEW k \in 0 .. B - 1
      PROVE  (t - (t % S)) * B + (t % S) + k * S \in 0 .. q * (B * S) - 1
  <2> DEFINE a == t \div S
             r == t % S
             C == B * S
             z == k * S + r
  <2>1. a \in 0 .. q - 1 /\ r \in 0 .. S - 1 /\ t = a * S + r
    <3>1. t \in Nat /\ t < q * S
      BY <1>1
    <3> QED
      BY <3>1, DigitsOf
  <2> HIDE DEF a, r
  <2>2. z \in 0 .. C - 1 /\ C \in Nat \ {0}
    BY <1>1, <2>1, TwoDigits
  <2>3. (t - r) * B + r + k * S = a * C + z
    <3>1. t - r = a * S /\ a * S \in Nat
      BY <2>1
    <3> QED
      BY <2>1, <3>1
  <2> HIDE DEF C, z
  <2>4. a * C + z \in 0 .. q * C - 1
    BY <2>1, <2>2, TwoDigits
  <2> QED
    BY <2>3, <2>4 DEF r, C
<1>3. ASSUME NEW i \in 0 .. q * (B * S) - 1
      PROVE  \E t \in 0 .. q * S - 1, k \in 0 .. B - 1 : i = (t - (t % S)) * B + (t % S) + k * S
  <2> DEFINE C == B * S
             a == i \div C
             z == i % C
             k == z \div S
             r == z % S
             t == a * S + r
  <2>1. a \in 0 .. q - 1 /\ z \in 0 .. C - 1 /\ i = a * C + z
    <3>1. C \in Nat \ {0} /\ q * C \in Nat /\ i \in 0 .. q * C - 1
      BY <1>1
    <3> HIDE DEF C
    <3>2. i \in Nat /\ i < q * C
      BY <3>1
    <3> QED
      BY <3>1, <3>2, DigitsOf
  <2> HIDE DEF a, z
  <2>2. z \in Nat /\ z < B * S
    BY <1>1, <2>1
  <2>3. k \in 0 .. B - 1 /\ r \in 0 .. S - 1 /\ z = k * S + r
    BY <2>2, DigitsOf
  <2> HIDE DEF k, r
  <2>4. t \in 0 .. q * S - 1 /\ t % S = r
    BY <2>1, <2>3, TwoDigits
  <2>5. (t - r) * B + r + k * S = i
    <3>1. t - r = a * S /\ a * S \in Nat
      BY <2>1, <2>3
    <3> QED
      BY <2>1, <2>3, <3>1
  <2> HIDE DEF t
  <2> QED
    BY <2>3, <2>4, <2>5
<1> QED
  BY <1>2, <1>3 DEF ItemsFit, ItemsCover, Spaced

(* Both together: N elements in G lines, each of d elements; B elements of *)
(* a work item, W work items of a line and M of all lines.                 *)
MergeParts(N, d, n, q, s, B, c, G, M, W) ==
  /\ N \in Nat /\ d \in Nat \ {0} /\ n \in Nat \ {0}
  /\ q \in Nat \ {0} /\ s \in Nat \ {0} /\ B \in Nat \ {0} /\ d = q * (B * s)
  /\ c \in Nat /\ N = c * (d * n) /\ G \in Nat /\ G = c * n
  /\ W \in Nat \ {0} /\ W = q * s /\ M \in Nat /\ M = G * W
  /\ d \div B = W /\ N = M * B /\ N \div B = M
ItemPlace(n, d, W, s, B, id, k) == Place(n, d, id \div W, Spaced(s, B, id % W, k))

LEMMA MergePlaces ==
  ASSUME NEW N, NEW d, NEW n, NEW q, NEW s, NEW B, NEW c, NEW G, NEW M, NEW W,
         MergeParts(N, d, n, q, s, B, c, G, M, W)
  PROVE  {ItemPlace(n, d, W, s, B, id, k) : id \in 0 .. M - 1, k \in 0 .. B - 1} = 0 .. N - 1
<1>1. /\ N \in Nat /\ d \in Nat \ {0} /\ n \in Nat \ {0} /\ c \in Nat /\ G = c * n /\ N = c * (d * n)
      /\ q \in Nat /\ s \in Nat \ {0} /\ B \in Nat \ {0} /\ W = q * s /\ d = q * (B * s)
      /\ G \in Nat /\ W \in Nat \ {0} /\ M \in Nat /\ M = G * W
  BY DEF MergeParts
<1>2. LinesFit(n, d, G, N) /\ LinesCover(n, d, G, N)
  BY <1>1, LinePlaces, Zenon
<1>3. ItemsFit(s, B, W, d) /\ ItemsCover(s, B, W, d)
  BY <1>1, ItemPlaces, Zenon
<1>4. ASSUME NEW id \in 0 .. M - 1, NEW k \in 0 .. B - 1 PROVE ItemPlace(n, d, W, s, B, id, k) \in 0 .. N - 1
  <2> DEFINE t == id % W
             gt == id \div W
  <2>1. gt \in 0 .. G - 1 /\ t \in 0 .. W - 1
    <3>1. id \in Nat /\ id < G * W
      BY <1>1
    <3> QED
      BY <1>1, <3>1, DigitsOf
  <2> HIDE DEF t, gt
  <2>2. Spaced(s, B, t, k) \in 0 .. d - 1
    BY <1>3, <2>1 DEF ItemsFit
  <2>3. Place(n, d, gt, Spaced(s, B, t, k)) \in 0 .. N - 1
    BY <1>2, <2>1, <2>2 DEF LinesFit
  <2> QED
    BY <2>3 DEF ItemPlace, t, gt
<1>5. ASSUME NEW p \in 0 .. N - 1
      PROVE  \E id \in 0 .. M - 1, k \in 0 .. B - 1 : p = ItemPlace(n, d, W, s, B, id, k)
  <2>1. PICK gt \in 0 .. G - 1, i \in 0 .. d - 1 : p = Place(n, d, gt, i)
    BY <1>2 DEF LinesCover
  <2>2. PICK t \in 0 .. W - 1, k \in 0 .. B - 1 : i = Spaced(s, B, t, k)
    BY <1>3 DEF ItemsCover
  <2> DEFINE id == gt * W + t
  <2>3. id \in 0 .. M - 1 /\ id \div W = gt /\ id % W = t
    BY <1>1, TwoDigits
  <2> HIDE DEF id
  <2>4. p = ItemPlace(n, d, W, s, B, id, k)
    BY <2>1, <2>2, <2>3 DEF ItemPlace
  <2> QED
    BY <2>3, <2>4
<1> QED
  BY <1>4, <1>5

LEMMA QuotientOfProduct ==
  ASSUME NEW x \in Nat, NEW y \in Nat \ {0}
  PROVE  (x * y) \div y = x
<1>1. x \in 0 .. (x + 1) - 1 /\ 0 \in 0 .. y - 1 /\ x + 1 \in Nat
  OBVIOUS
<1>2. (x * y + 0) \div y = x
  BY <1>1, TwoDigits
<1>3. x * y + 0 = x * y
  OBVIOUS
<1> QED
  BY <1>2, <1>3

LEMMA MergeShape ==
  ASSUME NEW N \in Nat, NEW d \in Nat \ {0}, NEW n \in Nat \ {0}, N % (d * n) = 0,
         NEW q \in Nat \ {0}, NEW s \in Nat \ {0}, NEW B \in Nat \ {0}, d = q * (B * s)
  PROVE  \E c, G, M, W : MergeParts(N, d, n, q, s, B, c, G, M, W)
<1> DEFINE e == d * n
           c == N \div e
           G == c * n
           W == q * s
           M == G * W
<1>1. \A x, y \in Nat \ {0} : x * y \in Nat \ {0}
  OBVIOUS
<1>2. \A x, y \in Nat : x * y \in Nat
  OBVIOUS
<1>3. e \in Nat \ {0} /\ W \in Nat \ {0}
  BY <1>1
<1>4. c \in Nat /\ N = c * e
  <2> HIDE DEF e
  <2>1. N % e = 0
    BY DEF e
  <2>2. N = e * (N \div e) + (N % e) /\ N \div e \in Nat
    BY <1>3, Division
  <2> HIDE DEF c
  <2>3. e * c = c * e /\ e * c \in Nat
    BY <1>3, <2>2 DEF c
  <2> QED
    BY <2>1, <2>2, <2>3 DEF c
<1> HIDE DEF c
<1>5. G \in Nat
  BY <1>2, <1>4
<1>6. M \in Nat
  <2> HIDE DEF G, W
  <2> QED
    BY <1>2, <1>3, <1>5
<1>7. d = W * B
  OBVIOUS
<1>8. N = M * B
  <2>1. N = c * ((W * B) * n)
    BY <1>4, <1>7
  <2> HIDE DEF W
  <2> QED
    BY <1>3, <1>4, <2>1
<1>9. d \div B = W
  <2> HIDE DEF W
  <2> QED
    BY <1>3, <1>7, QuotientOfProduct
<1>10. N \div B = M
  <2> HIDE DEF M
  <2> QED
    BY <1>6, <1>8, QuotientOfProduct
<1> HIDE DEF G, W, M, e
<1>11. G = c * n /\ W = q * s /\ M = G * W /\ N = c * (d * n)
  BY <1>4 DEF G, W, M, e
<1>12. MergeParts(N, d, n, q, s, B, c, G, M, W)
  BY <1>3, <1>4, <1>5, <1>6, <1>8, <1>9, <1>10, <1>11 DEF MergeParts
<1> QED
  BY <1>12

(* The items of a merge, cut out of the index bits of an axis: a work item *)
(* has 2^bits elements, s apart, and a line has q times s work items.      *)
GoodMerge(m) ==
  \E q \in Nat \ {0}, s \in Nat \ {0} :
    m.inc = s * 2 ^ (m.bits - 1) /\ dsize = q * (2 ^ m.bits * s)
MergeSet == [bits : 1 .. 4, inc : Nat, dir : Nat]

LEMMA BitsAre ==
  ASSUME NEW b \in 1 .. 4
  PROVE  /\ 2 ^ b \in Nat \ {0} /\ 2 ^ (b - 1) \in Nat \ {0} /\ 2 ^ b = 2 * 2 ^ (b - 1)
         /\ b = 1 => 2 ^ b = 2 /\ 2 ^ (b - 1) = 1
         /\ b = 2 => 2 ^ b = 4 /\ 2 ^ (b - 1) = 2
         /\ b = 3 => 2 ^ b = 8 /\ 2 ^ (b - 1) = 4
         /\ b = 4 => 2 ^ b = 16 /\ 2 ^ (b - 1) = 8
<1>1. 2 ^ 0 = 1 /\ 2 ^ 1 = 2 /\ 2 ^ 2 = 4 /\ 2 ^ 3 = 8 /\ 2 ^ 4 = 16
  OBVIOUS
<1>2. 1 - 1 = 0 /\ 2 - 1 = 1 /\ 3 - 1 = 2 /\ 4 - 1 = 3
  OBVIOUS
<1>3. b = 1 \/ b = 2 \/ b = 3 \/ b = 4
  OBVIOUS
<1>4. /\ b = 1 => 2 ^ b = 2 /\ 2 ^ (b - 1) = 1
      /\ b = 2 => 2 ^ b = 4 /\ 2 ^ (b - 1) = 2
      /\ b = 3 => 2 ^ b = 8 /\ 2 ^ (b - 1) = 4
      /\ b = 4 => 2 ^ b = 16 /\ 2 ^ (b - 1) = 8
  BY <1>1, <1>2, Zenon
<1> DEFINE x == 2 ^ b
           y == 2 ^ (b - 1)
<1> HIDE DEF x, y
<1>5. x \in Nat \ {0} /\ y \in Nat \ {0} /\ x = 2 * y
  <2>1. (x = 2 /\ y = 1) \/ (x = 4 /\ y = 2) \/ (x = 8 /\ y = 4) \/ (x = 16 /\ y = 8)
    BY <1>3, <1>4 DEF x, y
  <2> QED
    BY <2>1
<1> QED
  BY <1>4, <1>5 DEF x, y

(* A merge goes through all elements, each in one work item.               *)
LEMMA OneMerge ==
  ASSUME srt \in Sorts, DOMAIN elements = DOMAIN srt.keys, dsize # 0, NEW m \in MergeSet, GoodMerge(m)
  PROVE  /\ UNION {LET at == ItemElements(m, id) IN {at[k] : k \in DOMAIN at} : id \in MergeItems(m)}
              = DOMAIN elements
         /\ Cardinality(MergeItems(m)) * 2 ^ m.bits = Size
<1> DEFINE N == Size
           d == dsize
           n == nsize
           B == 2 ^ m.bits
           H == 2 ^ (m.bits - 1)
           All == UNION {LET at == ItemElements(m, id) IN {at[k] : k \in DOMAIN at} : id \in MergeItems(m)}
<1>1. N \in Nat /\ DOMAIN elements = 0 .. N - 1 /\ d \in Nat \ {0} /\ n \in Nat \ {0} /\ N % (d * n) = 0
  <2> DEFINE D == DOMAIN srt.keys
  <2>1. IsFiniteSet(D) /\ srt.keys \in [0 .. Cardinality(D) - 1 -> Int]
    BY SortAssumption, Zenon
  <2>2. srt.dsize \in Nat /\ srt.nsize \in Nat \ {0} /\ (srt.dsize = 0 \/ Cardinality(D) % (srt.dsize * srt.nsize) = 0)
    BY SortAssumption, Zenon
  <2>3. D = 0 .. Cardinality(D) - 1
    BY <2>1, Zenon
  <2> HIDE DEF D
  <2>4. Cardinality(D) \in Nat
    BY <2>1, FS_CardinalityType, Zenon
  <2>5. N = Cardinality(D) /\ d = srt.dsize /\ n = srt.nsize /\ DOMAIN elements = D
    BY DEF Size, dsize, nsize, D
  <2> HIDE DEF N, d, n
  <2>6. d # 0
    BY DEF d
  <2> QED
    BY <2>2, <2>3, <2>4, <2>5, <2>6
<1>2. m.bits \in 1 .. 4 /\ B \in Nat \ {0} /\ H \in Nat \ {0}
  BY BitsAre DEF MergeSet
<1>3. PICK q \in Nat \ {0}, s \in Nat \ {0} : m.inc = s * H /\ d = q * (B * s)
  BY DEF GoodMerge
<1>4. \A id : ItemElements(m, id) =
         [k \in 0 .. B - 1 |-> ItemPlace(n, d, d \div B, m.inc \div H, B, id, k)]
  BY DEF ItemLine, ItemFirst, ItemIndex, ItemElements, Position, Place, ItemPlace, Spaced
<1>5. MergeItems(m) = 0 .. (N \div B) - 1
  BY DEF MergeItems
<1> HIDE DEF N, d, n, B, H
<1>6. \E c, G, M, W : MergeParts(N, d, n, q, s, B, c, G, M, W)
  <2>1. q \in Nat \ {0} /\ s \in Nat \ {0} /\ d = q * (B * s)
    BY <1>3
  <2> QED
    BY <1>1, <1>2, <2>1, MergeShape, Zenon
<1>7. PICK c, G, M, W : MergeParts(N, d, n, q, s, B, c, G, M, W)
  BY <1>6
<1>14. d \div B = W /\ N \div B = M /\ N = M * B /\ M \in Nat
  BY <1>7 DEF MergeParts
<1>8. m.inc \div H = s
  BY <1>2, <1>3, QuotientOfProduct
<1>9. \A id : ItemElements(m, id) = [k \in 0 .. B - 1 |-> ItemPlace(n, d, W, s, B, id, k)]
  BY <1>4, <1>8, <1>14
<1>10. MergeItems(m) = 0 .. M - 1
  BY <1>5, <1>14
<1>11. All = {ItemPlace(n, d, W, s, B, id, k) : id \in 0 .. M - 1, k \in 0 .. B - 1}
  <2>1. ASSUME NEW id
        PROVE  (LET at == ItemElements(m, id) IN {at[k] : k \in DOMAIN at})
                  = {ItemPlace(n, d, W, s, B, id, k) : k \in 0 .. B - 1}
    <3> DEFINE at == ItemElements(m, id)
    <3>1. at = [k \in 0 .. B - 1 |-> ItemPlace(n, d, W, s, B, id, k)]
      BY <1>9
    <3> HIDE DEF at
    <3>2. DOMAIN at = 0 .. B - 1 /\ \A k \in 0 .. B - 1 : at[k] = ItemPlace(n, d, W, s, B, id, k)
      BY <3>1
    <3>3. {at[k] : k \in DOMAIN at} = {ItemPlace(n, d, W, s, B, id, k) : k \in 0 .. B - 1}
      BY <3>2
    <3> QED
      BY <3>3 DEF at
  <2> DEFINE of(id) == LET at == ItemElements(m, id) IN {at[k] : k \in DOMAIN at}
  <2>2. \A id : of(id) = {ItemPlace(n, d, W, s, B, id, k) : k \in 0 .. B - 1}
    BY <2>1
  <2>3. All = UNION {of(id) : id \in 0 .. M - 1}
    BY <1>10
  <2> HIDE DEF of, All
  <2> QED
    BY <2>2, <2>3
<1> HIDE DEF All
<1>12. All = 0 .. N - 1
  BY <1>7, <1>11, MergePlaces
<1>13. Cardinality(0 .. M - 1) = M
  <2>1. 0 \in Int /\ M - 1 \in Int
    BY <1>14
  <2>2. Cardinality(0 .. M - 1) = IF 0 > M - 1 THEN 0 ELSE M - 1 - 0 + 1
    BY <2>1, FS_Interval
  <2> QED
    BY <1>14, <2>2
<1> QED
  BY <1>1, <1>10, <1>12, <1>13, <1>14 DEF All, N, B

-----------------------------------------------------------------------------
(* The queue of merges: every one of them cuts the axis evenly.            *)
PowersOf2 == {Pow2[e] : e \in Nat}

LEMMA IsAPower ==
  ASSUME NEW n \in Nat, IsPowerOf2(n)
  PROVE  n \in PowersOf2
BY DEF IsPowerOf2, PowersOf2

LEMMA PowersAreNumbers == PowersOf2 \subseteq Nat \ {0}
BY Pow2Positive DEF PowersOf2

LEMMA HalfIsAPower ==
  ASSUME NEW x \in PowersOf2 \cup {0}
  PROVE  x \in Nat /\ x \div 2 \in PowersOf2 \cup {0} /\ x \div 2 <= x
<1>1. CASE x = 0
  BY <1>1
<1>2. CASE x # 0
  <2>1. PICK e \in Nat : x = Pow2[e]
    BY <1>2 DEF PowersOf2
  <2>2. CASE e = 0
    BY <2>1, <2>2, Pow2Def
  <2>3. CASE e # 0
    <3>1. e - 1 \in Nat /\ (e - 1) + 1 = e
      BY <2>3
    <3>2. x = 2 * Pow2[e - 1] /\ Pow2[e - 1] \in Nat /\ Pow2[e - 1] \in PowersOf2
      BY <2>1, <3>1, Pow2Def DEF PowersOf2
    <3> QED
      BY <3>2
  <2> QED
    BY <2>2, <2>3
<1> QED
  BY <1>1, <1>2

LEMMA DoubleIsAPower ==
  ASSUME NEW x \in PowersOf2 \cup {0}
  PROVE  2 * x \in PowersOf2 \cup {0}
<1>1. CASE x = 0
  BY <1>1
<1>2. CASE x # 0
  <2>1. PICK e \in Nat : x = Pow2[e]
    BY <1>2 DEF PowersOf2
  <2>2. 2 * x = Pow2[e + 1] /\ e + 1 \in Nat
    BY <2>1, Pow2Def
  <2> QED
    BY <2>2 DEF PowersOf2
<1> QED
  BY <1>1, <1>2

(* An axis whose length is a power of two holds an even number of blocks   *)
(* of any smaller power of two.                                            *)
LEMMA EvenBlocks ==
  ASSUME NEW x \in PowersOf2, NEW d \in PowersOf2, x < d
  PROVE  \E q \in Nat \ {0} : d = q * (2 * x)
<1>1. PICK a \in Nat : x = Pow2[a]
  BY DEF PowersOf2
<1>2. PICK b \in Nat : d = Pow2[b]
  BY DEF PowersOf2
<1>3. a < b
  <2>1. ~(b < a)
    <3> SUFFICES ASSUME b < a PROVE FALSE
      OBVIOUS
    <3>1. 2 * Pow2[b] <= Pow2[a] /\ Pow2[a] \in Nat /\ Pow2[b] \in Nat
      BY Pow2Grows, Pow2Positive
    <3> QED
      BY <1>1, <1>2, <3>1
  <2>2. a # b
    BY <1>1, <1>2, PowersAreNumbers
  <2> QED
    BY <2>1, <2>2
<1> DEFINE c == b - (a + 1)
<1>4. c \in Nat /\ a + 1 \in Nat /\ b = c + (a + 1)
  BY <1>3
<1> HIDE DEF c
<1>5. d = Pow2[c] * Pow2[a + 1]
  BY <1>2, <1>4, Pow2Sum
<1>6. Pow2[a + 1] = 2 * x /\ Pow2[c] \in Nat \ {0}
  BY <1>1, <1>4, Pow2Def, Pow2Positive
<1> QED
  BY <1>5, <1>6

LEMMA SmallPowers == Pow2[0] = 1 /\ Pow2[1] = 2 /\ Pow2[2] = 4 /\ Pow2[3] = 8
<1>1. Pow2[0] = 1 /\ Pow2[0 + 1] = 2 * Pow2[0] /\ Pow2[1 + 1] = 2 * Pow2[1] /\ Pow2[2 + 1] = 2 * Pow2[2]
  BY Pow2Def
<1> QED
  BY <1>1

(* What a merge leaves of inc, and how far apart the elements of its items *)
(* are.                                                                    *)
LEMMA IncIsCut ==
  ASSUME inc \in PowersOf2
  PROVE  /\ ninc \in 1 .. 4
         /\ inc \div (2 ^ ninc) \in PowersOf2 \cup {0} /\ inc \div (2 ^ ninc) <= inc
         /\ \E s \in Nat \ {0} : inc = s * 2 ^ (ninc - 1) /\ 2 ^ ninc * s = 2 * inc
<1> DEFINE b == ninc
           B == 2 ^ b
           H == 2 ^ (b - 1)
           s == inc \div H
<1>1. PICK e \in Nat : inc = Pow2[e]
  BY DEF PowersOf2
<1>2. \/ inc = 1 \/ inc = 2 \/ inc = 4
      \/ \E r \in PowersOf2 : inc = 8 * r
  <2>1. CASE e \in 0 .. 2
    BY <1>1, <2>1, SmallPowers
  <2>2. CASE e \notin 0 .. 2
    <3>1. e - 3 \in Nat /\ e = 3 + (e - 3)
      BY <2>2
    <3>2. Pow2[e] = Pow2[3] * Pow2[e - 3]
      BY <3>1, Pow2Sum
    <3>3. inc = 8 * Pow2[e - 3] /\ Pow2[e - 3] \in PowersOf2
      BY <1>1, <3>1, <3>2, SmallPowers DEF PowersOf2
    <3> QED
      BY <3>3
  <2> QED
    BY <2>1, <2>2
<1>3. CASE \E r \in PowersOf2 : inc = 8 * r
  <2>1. PICK r \in PowersOf2 : inc = 8 * r
    BY <1>3
  <2>2. r \in Nat \ {0} /\ inc >= 8 /\ inc \in Nat
    BY <2>1, PowersAreNumbers
  <2>3. b = 4
    BY <2>2 DEF ninc
  <2> HIDE DEF b
  <2>4. B = 16 /\ H = 8
    BY <2>3, BitsAre
  <2> HIDE DEF B, H
  <2>5. r \div 2 \in PowersOf2 \cup {0} /\ r \div 2 <= r
    BY HalfIsAPower
  <2>6. inc \div B = r \div 2
    BY <2>1, <2>2, <2>4
  <2>7. s = r /\ inc = r * H /\ B * r = 2 * inc
    BY <2>1, <2>2, <2>4
  <2>8. b \in 1 .. 4 /\ inc \div B \in PowersOf2 \cup {0} /\ inc \div B <= inc
    <3>1. r \div 2 <= 8 * r
      BY <2>2
    <3> QED
      BY <2>1, <2>3, <2>5, <2>6, <3>1
  <2> QED
    BY <2>2, <2>7, <2>8 DEF b, B, H
<1>4. CASE inc = 1 \/ inc = 2 \/ inc = 4
  <2>1. b = (IF inc = 1 THEN 1 ELSE IF inc = 2 THEN 2 ELSE 3)
    BY <1>4 DEF ninc
  <2> HIDE DEF b
  <2>2. (inc = 1 /\ B = 2 /\ H = 1) \/ (inc = 2 /\ B = 4 /\ H = 2) \/ (inc = 4 /\ B = 8 /\ H = 4)
    BY <1>4, <2>1, BitsAre
  <2>3. b \in 1 .. 4
    BY <1>4, <2>1
  <2> HIDE DEF B, H
  <2>4. inc \div B = 0 /\ 1 \in Nat \ {0} /\ inc = 1 * H /\ B * 1 = 2 * inc
    BY <2>2
  <2>5. inc \div B \in PowersOf2 \cup {0} /\ inc \div B <= inc
    BY <1>4, <2>4
  <2> QED
    BY <2>3, <2>4, <2>5 DEF b, B, H
<1> QED
  BY <1>2, <1>3, <1>4

LEMMA AppendedMerge ==
  ASSUME inc \in PowersOf2, dsize \in PowersOf2, inc < dsize, NEW dir \in Nat
  PROVE  LET m == [bits |-> ninc, inc |-> inc, dir |-> dir] IN m \in MergeSet /\ GoodMerge(m)
<1> DEFINE m == [bits |-> ninc, inc |-> inc, dir |-> dir]
<1>1. m.bits = ninc /\ m.inc = inc
  OBVIOUS
<1>2. inc \in Nat
  BY PowersAreNumbers
<1>3. m \in MergeSet
  BY <1>2, IncIsCut DEF MergeSet
<1> HIDE DEF m
<1>4. PICK s \in Nat \ {0} : inc = s * 2 ^ (ninc - 1) /\ 2 ^ ninc * s = 2 * inc
  BY IncIsCut
<1>5. PICK q \in Nat \ {0} : dsize = q * (2 * inc)
  BY EvenBlocks
<1>6. dsize = q * (2 ^ ninc * s)
  BY <1>4, <1>5
<1>7. GoodMerge(m)
  BY <1>1, <1>4, <1>6, Zenon DEF GoodMerge
<1> QED
  BY <1>3, <1>7 DEF m

(* The lengths are halves of powers of two, and what is queued is good.    *)
QueueInv ==
  /\ run_queue \in Seq(MergeSet)
  /\ \A i \in 1 .. Len(run_queue) : GoodMerge(run_queue[i])

SortInv ==
  /\ srt \in Sorts /\ DOMAIN elements = DOMAIN srt.keys
  /\ bphase \in {"start", "size", "prepare", "blocks", "merges", "done", "raised"}
  /\ QueueInv
  /\ bphase = "start" => wg = Lower(dsize, srt.max_wg)
  /\ bphase \in {"size", "prepare", "blocks", "merges"} => dsize \in PowersOf2
  /\ bphase = "size" => wg \in PowersOf2
  /\ bphase = "prepare" => length \in PowersOf2 \cup {0} /\ inc \in PowersOf2 \cup {0} /\ inc <= length

LEMMA SortBegins == SortInit => SortInv
<1> SUFFICES ASSUME SortInit PROVE SortInv
  OBVIOUS
<1>1. QueueInv
  BY DEF SortInit, QueueInv
<1>2. DOMAIN elements = DOMAIN srt.keys
  BY DEF SortInit
<1> QED
  BY <1>1, <1>2 DEF SortInit, SortInv

(* Steps that leave the queue and the sizes of the host as they are.       *)
HostIsIdle ==
  /\ srt' = srt /\ wg' = wg /\ length' = length /\ inc' = inc /\ run_queue' = run_queue
  /\ DOMAIN elements' = DOMAIN elements
  /\ \/ bphase' = bphase
     \/ bphase' \in {"done", "raised"}
     \/ bphase \in {"prepare", "blocks"} /\ bphase' \in {"blocks", "merges"}

LEMMA HostKeeps == SortInv /\ HostIsIdle => SortInv'
<1> SUFFICES ASSUME SortInv, HostIsIdle PROVE SortInv'
  OBVIOUS
<1> USE DEF HostIsIdle
<1>1. dsize' = dsize
  BY DEF dsize
<1>2. QueueInv'
  BY DEF SortInv, QueueInv, GoodMerge, dsize
<1>3. bphase' = "start" => wg' = Lower(dsize, srt.max_wg)'
  BY <1>1 DEF SortInv, Lower
<1> QED
  BY <1>1, <1>2, <1>3 DEF SortInv

LEMMA SortStep == SortInv /\ [SortNext]_sortvars => SortInv'
<1> SUFFICES ASSUME SortInv, [SortNext]_sortvars PROVE SortInv'
  OBVIOUS
<1> DEFINE Rest == UNCHANGED <<elements, group, loop, bat, barrived, aux, iData>>
<1>1. CASE CheckLength /\ Rest
  <2>1. bphase = "start" /\ UNCHANGED <<srt, wg, length, inc, run_queue, elements>>
    BY <1>1 DEF CheckLength
  <2>2. CASE bphase' \in {"done", "raised"}
    <3>1. HostIsIdle
      BY <2>1, <2>2 DEF HostIsIdle
    <3> QED
      BY <3>1, HostKeeps
  <2>3. CASE bphase' \notin {"done", "raised"}
    <3>1. bphase' = "size" /\ IsPowerOf2(dsize)
      BY <1>1, <2>3 DEF CheckLength
    <3>2. srt.max_wg \in Nat /\ IsPowerOf2(srt.max_wg) /\ dsize \in Nat
      BY SortAssumption, Zenon DEF SortInv, dsize
    <3>5. srt.max_wg \in PowersOf2 /\ dsize \in PowersOf2
      BY <3>1, <3>2, IsAPower
    <3>3. wg' \in PowersOf2
      BY <2>1, <3>1, <3>5 DEF SortInv, Lower
    <3>4. QueueInv'
      BY <2>1 DEF SortInv, QueueInv, GoodMerge, dsize
    <3> QED
      BY <2>1, <3>1, <3>3, <3>4, <3>5 DEF SortInv, dsize
  <2> QED
    BY <2>2, <2>3
<1>2. CASE FindWorkgroupSize /\ Rest
  <2>1. bphase = "size" /\ UNCHANGED <<srt, run_queue, elements>> /\ wg \in PowersOf2 /\ dsize \in PowersOf2
    BY <1>2 DEF FindWorkgroupSize, SortInv
  <2>2. wg \div 2 \in PowersOf2 \cup {0}
    BY <2>1, HalfIsAPower
  <2>3. QueueInv'
    BY <2>1 DEF SortInv, QueueInv, GoodMerge, dsize
  <2>4. wg \div 2 <= wg \div 2
    BY <2>1, HalfIsAPower
  <2>5. CASE wg > srt.lmem_wg
    <3>1. wg' = wg \div 2 /\ bphase' = IF wg' = 0 THEN "raised" ELSE "size"
      BY <1>2, <2>5 DEF FindWorkgroupSize
    <3> QED
      BY <2>1, <2>2, <2>3, <3>1 DEF SortInv, dsize
  <2>6. CASE ~(wg > srt.lmem_wg)
    <3>1. bphase' = "prepare" /\ length' = wg \div 2 /\ inc' = wg \div 2
      BY <1>2, <2>6 DEF FindWorkgroupSize
    <3>2. inc' <= length'
      BY <2>4, <3>1
    <3> QED
      BY <2>1, <2>2, <2>3, <3>1, <3>2 DEF SortInv, dsize
  <2> QED
    BY <2>5, <2>6
<1>3. CASE AppendMerge /\ Rest
  <2> DEFINE m == [bits |-> ninc, inc |-> inc, dir |-> 2 * length]
  <2>1. /\ bphase = "prepare" /\ length < dsize /\ inc > 0
        /\ run_queue' = Append(run_queue, m) /\ inc' = inc \div (2 ^ ninc)
        /\ UNCHANGED <<srt, bphase, wg, length, elements>>
    BY <1>3 DEF AppendMerge
  <2>2. length \in PowersOf2 \cup {0} /\ inc \in PowersOf2 \cup {0} /\ inc <= length /\ dsize \in PowersOf2
    BY <2>1 DEF SortInv
  <2>3. inc \in PowersOf2 /\ inc < dsize /\ 2 * length \in Nat
    BY <2>1, <2>2, PowersAreNumbers
  <2>4. m \in MergeSet /\ GoodMerge(m)
    BY <2>2, <2>3, AppendedMerge
  <2>5. inc' \in PowersOf2 \cup {0} /\ inc' <= inc
    BY <2>1, <2>3, IncIsCut
  <2>6. inc' <= length'
    BY <2>1, <2>2, <2>5, PowersAreNumbers
  <2> HIDE DEF m
  <2>7. QueueInv'
    <3>1. dsize' = dsize
      BY <2>1 DEF dsize
    <3>2. run_queue \in Seq(MergeSet) /\ \A i \in 1 .. Len(run_queue) : GoodMerge(run_queue[i])
      BY DEF SortInv, QueueInv
    <3>3. /\ run_queue' \in Seq(MergeSet) /\ Len(run_queue') = Len(run_queue) + 1
          /\ \A i \in 1 .. Len(run_queue) : run_queue'[i] = run_queue[i]
          /\ run_queue'[Len(run_queue) + 1] = m
      BY <2>1, <2>4, <3>2, AppendProperties
    <3>4. \A i \in 1 .. Len(run_queue) + 1 : GoodMerge(run_queue'[i])
      BY <2>4, <3>2, <3>3
    <3> QED
      BY <3>1, <3>3, <3>4 DEF QueueInv, GoodMerge
  <2> QED
    BY <2>1, <2>2, <2>5, <2>6, <2>7 DEF SortInv, dsize
<1>4. CASE NextLength /\ Rest
  <2>1. /\ bphase = "prepare" /\ length < dsize
        /\ length' = 2 * length /\ inc' = 2 * length
        /\ UNCHANGED <<srt, bphase, wg, run_queue, elements>>
    BY <1>4 DEF NextLength
  <2>2. length \in PowersOf2 \cup {0} /\ dsize \in PowersOf2
    BY <2>1 DEF SortInv
  <2>3. 2 * length \in PowersOf2 \cup {0}
    BY <2>1, <2>2, DoubleIsAPower
  <2>4. inc' <= length'
    BY <2>1, <2>3, PowersAreNumbers
  <2>5. QueueInv'
    BY <2>1 DEF SortInv, QueueInv, GoodMerge, dsize
  <2> QED
    BY <2>1, <2>2, <2>3, <2>4, <2>5 DEF SortInv, dsize
<1>5. CASE QueuePrepared /\ Rest
  <2>1. HostIsIdle
    BY <1>5 DEF QueuePrepared, HostIsIdle
  <2> QED
    BY <2>1, HostKeeps
<1>6. CASE LocalBarrier
  <2>1. HostIsIdle
    BY <1>6 DEF LocalBarrier, hostvars, HostIsIdle
  <2> QED
    BY <2>1, HostKeeps
<1>7. CASE WriteBlock
  <2>1. /\ UNCHANGED <<srt, wg, length, inc, run_queue>>
        /\ bphase = "blocks" /\ bphase' \in {"blocks", "merges"}
    BY <1>7 DEF WriteBlock
  <2>2. DOMAIN elements' = DOMAIN elements
    BY <1>7 DEF WriteBlock
  <2>3. HostIsIdle
    BY <2>1, <2>2 DEF HostIsIdle
  <2> QED
    BY <2>3, HostKeeps
<1>8. CASE RunMerge
  <2>1. /\ bphase = "merges" /\ run_queue # << >> /\ run_queue' = Tail(run_queue)
        /\ UNCHANGED <<srt, bphase, wg, length, inc>>
        /\ DOMAIN elements' = DOMAIN elements
    BY <1>8 DEF RunMerge
  <2>2. run_queue \in Seq(MergeSet) /\ \A i \in 1 .. Len(run_queue) : GoodMerge(run_queue[i])
    BY DEF SortInv, QueueInv
  <2>3. /\ run_queue' \in Seq(MergeSet) /\ Len(run_queue') = Len(run_queue) - 1 /\ Len(run_queue) \in Nat
        /\ \A i \in 1 .. Len(run_queue') : run_queue'[i] = run_queue[i + 1]
    BY <2>1, <2>2, HeadTailProperties, LenProperties
  <2>4. \A i \in 1 .. Len(run_queue') : GoodMerge(run_queue'[i])
    BY <2>2, <2>3
  <2>5. QueueInv'
    BY <2>1, <2>3, <2>4 DEF QueueInv, GoodMerge, dsize
  <2> QED
    BY <2>1, <2>5 DEF SortInv, dsize
<1>9. CASE SortDone
  <2>1. HostIsIdle
    BY <1>9 DEF SortDone, HostIsIdle
  <2> QED
    BY <2>1, HostKeeps
<1>10. CASE \E i \in 0 .. wg - 1 : LoadElement(i) \/ CompareElement(i) \/ StoreElement(i)
  <2>1. UNCHANGED <<srt, bphase, wg, length, inc, run_queue, elements>>
    BY <1>10 DEF LoadElement, CompareElement, StoreElement, SortExecutes, hostvars
  <2>2. HostIsIdle
    BY <2>1 DEF HostIsIdle
  <2> QED
    BY <2>2, HostKeeps
<1>11. CASE UNCHANGED sortvars
  <2>1. HostIsIdle
    BY <1>11 DEF sortvars, hostvars, HostIsIdle
  <2> QED
    BY <2>1, HostKeeps
<1> QED
  BY <1>1, <1>2, <1>3, <1>4, <1>5, <1>6, <1>7, <1>8, <1>9, <1>10, <1>11 DEF SortNext, Host

(* The work items of a merge need no barrier, and leave no element out:    *)
(* whatever the length of the axis, the axes around it, the work group and *)
(* the local memory, every merge that sort_b_prepare_wl queues (2, 4, 8 or *)
(* 16 elements per item) gives each element to exactly one of its items.   *)
THEOREM MergesAreDisjoint == SortSpec => []MergeItemsAreDisjoint
<1>1. SortInv => MergeItemsAreDisjoint
  <2> SUFFICES ASSUME SortInv, bphase = "merges", run_queue # << >> PROVE MergeItemsAreDisjoint
    BY DEF MergeItemsAreDisjoint
  <2> DEFINE m == Head(run_queue)
  <2>1. run_queue \in Seq(MergeSet) /\ \A i \in 1 .. Len(run_queue) : GoodMerge(run_queue[i])
    BY DEF SortInv, QueueInv
  <2>2. m \in MergeSet /\ m = run_queue[1] /\ 1 \in 1 .. Len(run_queue)
    BY <2>1, HeadTailProperties, LenProperties, EmptySeq
  <2>3. GoodMerge(m)
    BY <2>1, <2>2
  <2>4. srt \in Sorts /\ DOMAIN elements = DOMAIN srt.keys /\ dsize # 0
    BY PowersAreNumbers DEF SortInv
  <2> HIDE DEF m
  <2>5. /\ UNION {LET at == ItemElements(m, id) IN {at[k] : k \in DOMAIN at} : id \in MergeItems(m)}
             = DOMAIN elements
        /\ Cardinality(MergeItems(m)) * 2 ^ m.bits = Size
    BY <2>2, <2>3, <2>4, OneMerge, Zenon
  <2> QED
    BY <2>5, Zenon DEF MergeItemsAreDisjoint, m
<1>2. SortSpec => []SortInv
  BY SortBegins, SortStep, PTL DEF SortSpec
<1> QED
  BY <1>1, <1>2, PTL


-----------------------------------------------------------------------------
(* Reductions: which elements a value stands for.                          *)

(* The value that counts the elements of S once, and those that v counts   *)
(* once.                                                                   *)
Once(S)   == [e \in Elements |-> IF e \in S THEN 1 ELSE 0]
OnceIn(v) == {e \in Elements : v[e] = 1}

LEMMA OnceSum ==
  ASSUME NEW A, NEW B, A \cap B = {}
  PROVE  PCL_REDUCE(Once(A), Once(B)) = Once(A \cup B)
<1>1. \A e \in Elements : Once(A)[e] + Once(B)[e] = Once(A \cup B)[e]
  BY DEF Once
<1>2. Once(A \cup B) = [e \in Elements |-> Once(A \cup B)[e]]
  BY DEF Once
<1> QED
  BY <1>1, <1>2 DEF PCL_REDUCE

LEMMA OnceInOnce ==
  ASSUME NEW A, A \subseteq Elements
  PROVE  OnceIn(Once(A)) = A
BY DEF OnceIn, Once

(* Element k of the slice that a stage reduces, and what the elements with *)
(* numbers in K stand for.                                                 *)
ElementAt(k) == size_args.start + k * size_args.step
InSlice(k)   == k \in Nat /\ ElementAt(k) < size_args.stop
Held(K)      == UNION {OnceIn(vec[ElementAt(k)]) : k \in {j \in K : InSlice(j)}}

(* The values of a stage stand for different elements.                     *)
VecInv ==
  /\ size_args \in [start : Nat, step : Nat \ {0}, stop : Nat, seq_count : Nat]
  /\ \A i \in 0 .. size_args.stop - 1 : vec[i] = Once(OnceIn(vec[i]))
  /\ \A i, j \in 0 .. size_args.stop - 1 : i # j => OnceIn(vec[i]) \cap OnceIn(vec[j]) = {}

LEMMA SliceIsInVec ==
  ASSUME VecInv, NEW k, InSlice(k)
  PROVE  ElementAt(k) \in 0 .. size_args.stop - 1
<1>1. k \in Nat /\ size_args.start \in Nat /\ size_args.step \in Nat /\ size_args.stop \in Nat
  BY DEF VecInv, InSlice
<1>2. k * size_args.step \in Nat
  BY <1>1
<1> QED
  BY <1>1, <1>2 DEF InSlice, ElementAt

LEMMA PlacesDiffer ==
  ASSUME VecInv, NEW k, NEW l, InSlice(k), InSlice(l), ElementAt(k) = ElementAt(l)
  PROVE  k = l
<1> DEFINE s == size_args.start
           t == size_args.step
<1>1. k \in Nat /\ l \in Nat /\ s \in Nat /\ t \in Nat \ {0} /\ s + k * t = s + l * t
  BY DEF VecInv, InSlice, ElementAt
<1> HIDE DEF s, t
<1>2. k * t \in Nat /\ l * t \in Nat
  BY <1>1
<1>3. k * t = l * t
  BY <1>1, <1>2
<1>4. \A c, d \in Nat, b \in Nat \ {0} : c * b = d * b => c = d
  OBVIOUS
<1> QED
  BY <1>1, <1>3, <1>4

LEMMA HeldDisjoint ==
  ASSUME VecInv, NEW K, NEW L, K \cap L = {}
  PROVE  Held(K) \cap Held(L) = {}
<1> SUFFICES ASSUME NEW k \in K, InSlice(k), NEW l \in L, InSlice(l)
             PROVE  OnceIn(vec[ElementAt(k)]) \cap OnceIn(vec[ElementAt(l)]) = {}
  BY DEF Held
<1>1. ElementAt(k) \in 0 .. size_args.stop - 1 /\ ElementAt(l) \in 0 .. size_args.stop - 1
  BY SliceIsInVec
<1>2. ElementAt(k) # ElementAt(l)
  BY PlacesDiffer
<1> QED
  BY <1>1, <1>2 DEF VecInv

LEMMA HeldUnion == \A K, L : Held(K \cup L) = Held(K) \cup Held(L)
BY DEF Held

LEMMA HeldAreElements == \A K : Held(K) \subseteq Elements
BY DEF Held, OnceIn

LEMMA HeldByOne ==
  ASSUME VecInv, NEW k
  PROVE  /\ InSlice(k) => vec[ElementAt(k)] = Once(Held({k}))
         /\ ~InSlice(k) => Held({k}) = {}
<1>1. ASSUME InSlice(k) PROVE vec[ElementAt(k)] = Once(Held({k}))
  <2>1. Held({k}) = OnceIn(vec[ElementAt(k)])
    BY <1>1 DEF Held
  <2> QED
    BY <1>1, <2>1, SliceIsInVec DEF VecInv
<1>2. ASSUME ~InSlice(k) PROVE Held({k}) = {}
  BY <1>2 DEF Held
<1> QED
  BY <1>1, <1>2

(* A number has three digits: the group, the round and the work item.      *)
Number(g, s, l)   == (g * size_args.seq_count + s) * group_size + l
InGroup(g)        == {k \in Nat : (k \div group_size) \div size_args.seq_count = g}
OfItem(g, c, l)   == {k \in InGroup(g) : (k % group_size) % c = l}
Share(g, c, l)    == Once(Held(OfItem(g, c, l)))
GroupShare(g)     == Once(Held(InGroup(g)))

(* The numbers that a work item has gone through after some rounds.        *)
Rounds(g, l, s) == {Number(g, t, l) : t \in 0 .. s - 1}

LEMMA DigitsAre ==
  ASSUME NEW a \in Nat, NEW B \in Nat \ {0}, NEW b \in 0 .. B - 1
  PROVE  a * B + b \in Nat /\ (a * B + b) \div B = a /\ (a * B + b) % B = b
<1> DEFINE A == a + 1
<1>1. A \in Nat /\ a \in 0 .. A - 1
  OBVIOUS
<1> HIDE DEF A
<1>2. a * B + b \in 0 .. A * B - 1 /\ (a * B + b) \div B = a /\ (a * B + b) % B = b
  BY <1>1, TwoDigits
<1>3. A * B \in Nat
  BY <1>1
<1> QED
  BY <1>2, <1>3

Digits(g, s, l) ==
  /\ size_args.seq_count \in Nat \ {0} /\ group_size \in Nat \ {0}
  /\ g \in Nat /\ s \in 0 .. size_args.seq_count - 1 /\ l \in 0 .. group_size - 1

LEMMA NumberIsUnique ==
  ASSUME NEW g, NEW s, NEW l, Digits(g, s, l)
  PROVE  /\ Number(g, s, l) \in Nat
         /\ Number(g, s, l) % group_size = l
         /\ (Number(g, s, l) \div group_size) \div size_args.seq_count = g
         /\ (Number(g, s, l) \div group_size) % size_args.seq_count = s
<1> DEFINE S == size_args.seq_count
           G == group_size
           u == g * S + s
<1>1. S \in Nat \ {0} /\ G \in Nat \ {0} /\ g \in Nat /\ s \in 0 .. S - 1 /\ l \in 0 .. G - 1
  BY DEF Digits
<1>5. Number(g, s, l) = u * G + l
  BY DEF Number
<1> HIDE DEF S, G
<1>2. u \div S = g /\ u % S = s /\ u \in Nat
  BY <1>1, DigitsAre
<1> HIDE DEF u
<1>4. u * G + l \in Nat /\ (u * G + l) \div G = u /\ (u * G + l) % G = l
  BY <1>1, <1>2, DigitsAre
<1> QED
  BY <1>2, <1>4, <1>5 DEF S, G

LEMMA ItemNumbers ==
  ASSUME NEW g, NEW l, Digits(g, 0, l)
  PROVE  Rounds(g, l, size_args.seq_count) = OfItem(g, group_size, l)
<1> DEFINE S == size_args.seq_count
           G == group_size
<1>0. S \in Nat \ {0} /\ G \in Nat \ {0} /\ g \in Nat /\ l \in 0 .. G - 1
  BY DEF Digits
<1>1. ASSUME NEW s \in 0 .. S - 1 PROVE Number(g, s, l) \in OfItem(g, G, l)
  <2> DEFINE k == Number(g, s, l)
  <2>0. Digits(g, s, l)
    BY <1>0 DEF Digits
  <2>1. k \in Nat /\ k % G = l /\ (k \div G) \div S = g
    BY <2>0, NumberIsUnique
  <2> HIDE DEF k
  <2>2. (k % G) % G = l
    <3>1. \A x \in 0 .. G - 1 : x % G = x
      BY <1>0
    <3> QED
      BY <1>0, <2>1, <3>1
  <2>3. k \in OfItem(g, G, l)
    BY <2>1, <2>2 DEF OfItem, InGroup
  <2> QED
    BY <2>3 DEF k
<1>2. ASSUME NEW k \in OfItem(g, G, l) PROVE \E s \in 0 .. S - 1 : k = Number(g, s, l)
  <2> DEFINE u == k \div G
             v == k % G
             s == u % S
  <2>1. k \in Nat /\ u \div S = g /\ v % G = l
    BY DEF OfItem, InGroup
  <2>2. k = G * u + v /\ v \in 0 .. G - 1 /\ u \in Nat
    BY <1>0, <2>1, Division
  <2> HIDE DEF v
  <2>3. v = l
    <3>1. \A x \in 0 .. G - 1 : x % G = x
      BY <1>0
    <3> QED
      BY <2>1, <2>2, <3>1
  <2> HIDE DEF u
  <2>4. u = S * g + s /\ s \in 0 .. S - 1
    BY <1>0, <2>1, <2>2, Division
  <2> HIDE DEF s
  <2>5. k = (g * S + s) * G + l
    <3>1. \A x, y \in Nat : x * y = y * x
      OBVIOUS
    <3>2. S * g = g * S /\ G * u = u * G
      BY <1>0, <2>2, <3>1
    <3> QED
      BY <1>0, <2>2, <2>3, <2>4, <3>2
  <2> QED
    BY <2>4, <2>5 DEF Number
<1> HIDE DEF S, G
<1>3. Rounds(g, l, S) = {Number(g, t, l) : t \in 0 .. S - 1}
  BY DEF Rounds
<1>4. Rounds(g, l, S) = OfItem(g, G, l)
  <2>1. OfItem(g, G, l) \subseteq Rounds(g, l, S)
    BY <1>2, <1>3
  <2>2. Rounds(g, l, S) \subseteq OfItem(g, G, l)
    BY <1>1, <1>3
  <2> QED
    BY <2>1, <2>2
<1> QED
  BY <1>4 DEF S, G

(* What a work item has accumulated after s rounds.                        *)
AfterRounds(g, l, s) == Once(Held(Rounds(g, l, s)))

LEMMA OneRound ==
  ASSUME VecInv, NEW g, NEW l, Digits(g, 0, l), NEW s \in 1 .. size_args.seq_count
  PROVE  LET k == Number(g, s - 1, l) IN
         AfterRounds(g, l, s) = IF ElementAt(k) < size_args.stop
                                  THEN PCL_REDUCE(AfterRounds(g, l, s - 1), vec[ElementAt(k)])
                                  ELSE AfterRounds(g, l, s - 1)
<1> DEFINE k == Number(g, s - 1, l)
           K == Rounds(g, l, s - 1)
<1>0. size_args.seq_count \in Nat /\ s - 1 \in Nat /\ s - 1 \in 0 .. size_args.seq_count - 1
  BY DEF Digits
<1>1. Rounds(g, l, s) = K \cup {k}
  <2>1. 0 .. s - 1 = (0 .. (s - 1) - 1) \cup {s - 1}
    BY <1>0
  <2> QED
    BY <2>1 DEF Rounds
<1>2. k \in Nat /\ k \notin K
  <2>1. ASSUME NEW t \in 0 .. size_args.seq_count - 1
        PROVE  /\ Number(g, t, l) \in Nat
               /\ (Number(g, t, l) \div group_size) % size_args.seq_count = t
    <3>1. Digits(g, t, l)
      BY DEF Digits
    <3> QED
      BY <3>1, NumberIsUnique
  <2>2. k \in Nat /\ (k \div group_size) % size_args.seq_count = s - 1
    BY <1>0, <2>1
  <2>3. ASSUME NEW t \in 0 .. (s - 1) - 1 PROVE k # Number(g, t, l)
    <3>1. t \in 0 .. size_args.seq_count - 1 /\ t # s - 1
      BY <1>0
    <3>2. (Number(g, t, l) \div group_size) % size_args.seq_count = t
      BY <2>1, <3>1
    <3> HIDE DEF k
    <3> QED
      BY <2>2, <3>1, <3>2
  <2> HIDE DEF k
  <2> QED
    BY <2>2, <2>3 DEF Rounds
<1> HIDE DEF k, K
<1>3. Held(K \cup {k}) = Held(K) \cup Held({k})
  BY HeldUnion
<1>4. Held(K) \cap Held({k}) = {}
  BY <1>2, HeldDisjoint
<1>5. CASE ElementAt(k) < size_args.stop
  <2>1. InSlice(k)
    BY <1>2, <1>5 DEF InSlice
  <2>2. vec[ElementAt(k)] = Once(Held({k}))
    BY <2>1, HeldByOne
  <2>3. PCL_REDUCE(Once(Held(K)), Once(Held({k}))) = Once(Held(K) \cup Held({k}))
    BY <1>4, OnceSum
  <2>4. AfterRounds(g, l, s) = PCL_REDUCE(AfterRounds(g, l, s - 1), vec[ElementAt(k)])
    BY <1>1, <1>3, <2>2, <2>3, Zenon DEF AfterRounds, K
  <2> QED
    BY <1>5, <2>4 DEF k
<1>6. CASE ~(ElementAt(k) < size_args.stop)
  <2>1. Held({k}) = {}
    BY <1>6, HeldByOne DEF InSlice
  <2>2. Held(K \cup {k}) = Held(K)
    BY <1>3, <2>1
  <2>3. AfterRounds(g, l, s) = AfterRounds(g, l, s - 1)
    BY <1>1, <2>2, Zenon DEF AfterRounds, K
  <2> QED
    BY <1>6, <2>3 DEF k
<1> QED
  BY <1>5, <1>6

LEMMA AccumulatedIs ==
  ASSUME VecInv, NEW g, NEW l, Digits(g, 0, l)
  PROVE  Accumulated(g, l) = Share(g, group_size, l)
<1> DEFINE S == size_args.seq_count
           base == g * group_size * size_args.seq_count + l
           at(s) == size_args.start + (base + (s - 1) * group_size) * size_args.step
           step(s, before) == IF at(s) < size_args.stop THEN PCL_REDUCE(before, vec[at(s)]) ELSE before
           expected == [s \in 0 .. S |-> AfterRounds(g, l, s)]
           acc == CHOOSE f : f = [s \in 0 .. S |-> IF s = 0 THEN rneutral ELSE step(s, f[s - 1])]
<1>0. S \in Nat /\ S # 0
  BY DEF Digits
<1>1. Accumulated(g, l) = acc[S]
  BY DEF Accumulated
<1>2. ASSUME NEW s \in 1 .. S PROVE AfterRounds(g, l, s) = step(s, AfterRounds(g, l, s - 1))
  <2>1. at(s) = ElementAt(Number(g, s - 1, l))
    <3> DEFINE u == s - 1
               A == group_size
               B == size_args.seq_count
    <3>1. u \in Nat /\ A \in Nat /\ B \in Nat /\ g \in Nat /\ l \in Nat
      BY DEF Digits
    <3> HIDE DEF u, A, B
    <3>2. g * A * B + l + u * A = (g * B + u) * A + l
      BY <3>1
    <3> QED
      BY <3>2 DEF ElementAt, Number, u, A, B
  <2> HIDE DEF at
  <2>2. LET k == Number(g, s - 1, l) IN
         AfterRounds(g, l, s) = IF ElementAt(k) < size_args.stop
                                  THEN PCL_REDUCE(AfterRounds(g, l, s - 1), vec[ElementAt(k)])
                                  ELSE AfterRounds(g, l, s - 1)
    BY OneRound
  <2> QED
    BY <2>1, <2>2
<1>3. AfterRounds(g, l, 0) = rneutral
  <2>1. Rounds(g, l, 0) = {}
    BY DEF Rounds
  <2>2. Held({}) = {}
    BY DEF Held
  <2> QED
    BY <2>1, <2>2 DEF AfterRounds, Once, rneutral
<1> HIDE DEF S, step
<1>4. expected = [s \in 0 .. S |-> IF s = 0 THEN rneutral ELSE step(s, expected[s - 1])]
  <2>1. \A s \in 0 .. S : s # 0 => s \in 1 .. S /\ s - 1 \in 0 .. S
    BY <1>0
  <2>2. \A s \in 0 .. S : expected[s] = IF s = 0 THEN rneutral ELSE step(s, expected[s - 1])
    BY <1>2, <1>3, <2>1
  <2> QED
    BY <2>2
<1>5. acc = [s \in 0 .. S |-> IF s = 0 THEN rneutral ELSE step(s, acc[s - 1])]
  <2> HIDE DEF expected
  <2> QED
    BY <1>4
<1> HIDE DEF acc
<1> DEFINE D == {s \in 0 .. S : acc[s] = AfterRounds(g, l, s)}
<1>6. 0 \in D
  BY <1>0, <1>3, <1>5
<1>7. \A s \in 1 .. S : s - 1 \in D => s \in D
  <2> SUFFICES ASSUME NEW s \in 1 .. S, s - 1 \in D PROVE acc[s] = AfterRounds(g, l, s) /\ s \in 0 .. S
    OBVIOUS
  <2>1. s \in 0 .. S /\ s # 0
    BY <1>0
  <2>2. acc[s] = step(s, acc[s - 1])
    BY <1>5, <2>1
  <2> QED
    BY <1>2, <2>1, <2>2
<1> HIDE DEF D
<1>8. \A s \in 0 .. S : s \in D
  BY <1>0, <1>6, <1>7, BoundedInduction
<1>9. acc[S] = AfterRounds(g, l, S)
  BY <1>0, <1>8 DEF D
<1>10. AfterRounds(g, l, S) = Share(g, group_size, l)
  BY ItemNumbers DEF AfterRounds, Share, S
<1> QED
  BY <1>1, <1>9, <1>10

(* The two halves of a share: item l takes over from item l + c.           *)
LEMMA HalvesOf ==
  ASSUME NEW x \in Nat, NEW c \in Nat \ {0}, NEW l \in 0 .. c - 1
  PROVE  x % c = l <=> x % (2 * c) \in {l, l + c}
<1> DEFINE y == x % (2 * c)
           q == x \div (2 * c)
<1>1. 2 * c \in Nat \ {0}
  OBVIOUS
<1>2. x = (2 * c) * q + y /\ y \in 0 .. 2 * c - 1 /\ q \in Nat
  <2> DEFINE d == 2 * c
  <2> HIDE DEF d
  <2>1. x = d * (x \div d) + (x % d) /\ x % d \in 0 .. d - 1 /\ x \div d \in Nat
    BY <1>1, Division DEF d
  <2> QED
    BY <2>1 DEF d
<1> HIDE DEF y, q
<1>3. CASE y < c
  <2>1. y \in 0 .. c - 1 /\ 2 * q \in Nat
    BY <1>2, <1>3
  <2>2. x = (2 * q) * c + y
    BY <1>2
  <2> DEFINE a == 2 * q
  <2> HIDE DEF a
  <2>3. (a * c + y) % c = y
    BY <2>1, DigitsAre DEF a
  <2>4. x % c = y
    BY <2>2, <2>3 DEF a
  <2> QED
    BY <1>3, <2>1, <2>4 DEF y
<1>4. CASE y >= c
  <2>1. y - c \in 0 .. c - 1 /\ 2 * q + 1 \in Nat
    BY <1>2, <1>4
  <2>2. x = (2 * q + 1) * c + (y - c)
    BY <1>2, <1>4
  <2> DEFINE a == 2 * q + 1
             z == y - c
  <2> HIDE DEF a, z
  <2>3. (a * c + z) % c = z
    BY <2>1, DigitsAre DEF a, z
  <2>4. x % c = z
    BY <2>2, <2>3 DEF a, z
  <2>5. x % c = l <=> y = l + c
    BY <1>2, <2>4 DEF z
  <2>6. y # l
    BY <1>4
  <2> QED
    BY <2>5, <2>6 DEF y
<1> QED
  BY <1>2, <1>3, <1>4

LEMMA SharesAreHalved ==
  ASSUME VecInv, NEW g, NEW c \in Nat \ {0}, NEW l \in 0 .. c - 1, group_size \in Nat \ {0}
  PROVE  PCL_REDUCE(Share(g, 2 * c, l), Share(g, 2 * c, l + c)) = Share(g, c, l)
<1> DEFINE A == OfItem(g, 2 * c, l)
           B == OfItem(g, 2 * c, l + c)
<1>1. OfItem(g, c, l) = A \cup B
  <2>1. \A k \in Nat : k % group_size \in Nat
    BY Division
  <2>2. \A x \in Nat : x % c = l <=> x % (2 * c) \in {l, l + c}
    BY HalvesOf
  <2>3. \A k \in InGroup(g) : (k % group_size) % c = l <=> (k % group_size) % (2 * c) \in {l, l + c}
    BY <2>1, <2>2 DEF InGroup
  <2> QED
    BY <2>3 DEF OfItem
<1>2. A \cap B = {}
  BY DEF OfItem
<1>3. Held(A) \cap Held(B) = {}
  BY <1>2, HeldDisjoint
<1>4. Held(A \cup B) = Held(A) \cup Held(B)
  BY HeldUnion
<1>5. PCL_REDUCE(Once(Held(A)), Once(Held(B))) = Once(Held(A) \cup Held(B))
  BY <1>3, OnceSum
<1> QED
  BY <1>1, <1>4, <1>5, Zenon DEF Share

LEMMA LastShare ==
  ASSUME NEW g, group_size \in Nat \ {0}
  PROVE  Share(g, 1, 0) = GroupShare(g)
<1>1. \A x \in Nat : x % 1 = 0
  OBVIOUS
<1>2. \A k \in Nat : k % group_size \in Nat
  BY Division
<1>3. OfItem(g, 1, 0) = InGroup(g)
  BY <1>1, <1>2 DEF OfItem, InGroup
<1> QED
  BY <1>3 DEF Share, GroupShare

-----------------------------------------------------------------------------
(* A stage: what its vector stands for, and what its items have.           *)

(* The slice ends with a whole step, and the vector has all elements.      *)
Exact == (red.stop - red.start) % red.step = 0
VecCovers ==
  Exact => /\ (size_args.stop - size_args.start) % size_args.step = 0
           /\ Held(Nat) = Sliced

(* While it runs.  An item that has taken over is done with its half.      *)
Width(g, l) == IF l \in rarrived[g] /\ l < cur_size[g] \div 2 THEN cur_size[g] \div 2 ELSE cur_size[g]

ItemInv(g, l) ==
  /\ cur_size[g] = 0 /\ l \in rarrived[g] => pcl_ldata[g][l] = Share(g, group_size, l)
  /\ cur_size[g] # 0 /\ l < Width(g, l) => pcl_ldata[g][l] = Share(g, Width(g, l), l)

GroupInv(g) ==
  /\ cur_size[g] = 0 \/ (cur_size[g] \in PowersOf2 /\ cur_size[g] <= group_size)
  /\ DOMAIN pcl_ldata[g] = Items
  /\ cur_size[g] \in {1, 2} /\ 0 \in rarrived[g] => rresult[g] = GroupShare(g)
  /\ \A l \in Items : ItemInv(g, l)

LaunchInv(n) ==
  /\ DOMAIN cur_size = 0 .. n - 1 /\ DOMAIN rarrived = 0 .. n - 1
  /\ DOMAIN pcl_ldata = 0 .. n - 1 /\ DOMAIN rresult = 0 .. n - 1
  /\ Exact => \A k : InSlice(k) => (k \div group_size) \div size_args.seq_count < n

RunInv ==
  /\ size_args.seq_count # 0
  /\ \E n \in Nat \ {0} : LaunchInv(n)
  /\ \A g \in DOMAIN cur_size : GroupInv(g)

ReductionInv ==
  /\ red \in Reductions
  /\ rphase \in {"build", "host", "runs", "done", "raised"}
  /\ VecInv /\ VecCovers
  /\ rphase = "build" => group_size = red.group_size
  /\ rphase \in {"host", "runs"} => group_size \in PowersOf2
  /\ rphase = "runs" => RunInv
  /\ rphase = "done" /\ Exact => rresult[0] = Once(Sliced)

(* What is not written during a stage.                                     *)
StageFixed == red' = red /\ rphase' = rphase /\ group_size' = group_size /\ vec' = vec /\ size_args' = size_args

LEMMA FixedIs ==
  ASSUME StageFixed
  PROVE  /\ (VecInv => VecInv') /\ (VecCovers => VecCovers') /\ (Exact' <=> Exact) /\ Items' = Items
         /\ \A g, c, l : Share(g, c, l)' = Share(g, c, l)
         /\ \A g : GroupShare(g)' = GroupShare(g)
         /\ \A k : InSlice(k)' <=> InSlice(k)
<1> USE DEF StageFixed
<1>1. \A K : Once(K)' = Once(K) /\ OnceIn(K)' = OnceIn(K)
  BY DEF Once, OnceIn, Elements
<1>2. \A k : ElementAt(k)' = ElementAt(k) /\ (InSlice(k)' <=> InSlice(k))
  BY DEF ElementAt, InSlice
<1>3. \A K : Held(K)' = Held(K)
  BY DEF Held, OnceIn, ElementAt, InSlice, Elements
<1>4. \A g : InGroup(g)' = InGroup(g)
  BY DEF InGroup
<1>5. \A g, c, l : OfItem(g, c, l)' = OfItem(g, c, l)
  BY DEF OfItem, InGroup
<1>6. \A g, c, l : Share(g, c, l)' = Share(g, c, l)
  BY DEF Share, Once, Held, OnceIn, OfItem, InGroup, Elements, ElementAt, InSlice
<1>7. \A g : GroupShare(g)' = GroupShare(g)
  BY DEF GroupShare, Once, Held, OnceIn, InGroup, Elements, ElementAt, InSlice
<1>8. VecInv => VecInv'
  BY DEF VecInv, Once, OnceIn, Elements
<1>9. (Exact' <=> Exact) /\ Items' = Items
  BY DEF Exact, Items
<1>10. VecCovers => VecCovers'
  BY DEF VecCovers, Exact, Sliced, Held, OnceIn, ElementAt, InSlice, Elements
<1> QED
  BY <1>2, <1>6, <1>7, <1>8, <1>9, <1>10

(* A step of one work item or of the barrier of one group: the others stay *)
(* as they are.                                                            *)
OnlyGroup(g) ==
  /\ StageFixed /\ rphase = "runs" /\ g \in DOMAIN cur_size
  /\ DOMAIN cur_size' = DOMAIN cur_size /\ DOMAIN rarrived' = DOMAIN rarrived
  /\ DOMAIN pcl_ldata' = DOMAIN pcl_ldata /\ DOMAIN rresult' = DOMAIN rresult
  /\ \A f \in DOMAIN cur_size \ {g} :
       cur_size'[f] = cur_size[f] /\ rarrived'[f] = rarrived[f]
         /\ pcl_ldata'[f] = pcl_ldata[f] /\ rresult'[f] = rresult[f]

LEMMA GroupStep ==
  ASSUME ReductionInv, NEW g, OnlyGroup(g), GroupInv(g)'
  PROVE  ReductionInv'
<1>1. StageFixed /\ rphase = "runs" /\ RunInv
  BY DEF OnlyGroup, ReductionInv
<1>2. \E n \in Nat \ {0} : LaunchInv(n)'
  <2>1. PICK n \in Nat \ {0} : LaunchInv(n)
    BY <1>1 DEF RunInv
  <2>2. \A k : InSlice(k)' <=> InSlice(k)
    BY <1>1, FixedIs
  <2>3. Exact' <=> Exact
    BY <1>1, FixedIs
  <2>4. LaunchInv(n)'
    BY <2>1, <2>2, <2>3 DEF LaunchInv, OnlyGroup, StageFixed
  <2> QED
    BY <2>4
<1>3. ASSUME NEW f \in DOMAIN cur_size, f # g PROVE GroupInv(f)'
  <2>1. GroupInv(f)
    BY <1>1 DEF RunInv
  <2>2. /\ cur_size'[f] = cur_size[f] /\ rarrived'[f] = rarrived[f]
        /\ pcl_ldata'[f] = pcl_ldata[f] /\ rresult'[f] = rresult[f]
    BY <1>3 DEF OnlyGroup
  <2>3. /\ Items' = Items /\ group_size' = group_size
        /\ \A h, c, l : Share(h, c, l)' = Share(h, c, l)
        /\ \A h : GroupShare(h)' = GroupShare(h)
    BY <1>1, FixedIs DEF StageFixed
  <2>4. \A l : Width(f, l)' = Width(f, l)
    BY <2>2 DEF Width
  <2>5. ASSUME NEW l \in Items PROVE ItemInv(f, l)'
    <3>1. ItemInv(f, l)
      BY <2>1 DEF GroupInv
    <3> DEFINE w == Width(f, l)
    <3>2. Width(f, l)' = w
      BY <2>4
    <3>3. Share(f, w, l)' = Share(f, w, l)
      BY <1>1, <3>2 DEF Share, Once, Held, OnceIn, OfItem, InGroup, Elements, ElementAt, InSlice, StageFixed
    <3>4. Share(f, group_size, l)' = Share(f, group_size, l)
      BY <1>1 DEF Share, Once, Held, OnceIn, OfItem, InGroup, Elements, ElementAt, InSlice, StageFixed
    <3> QED
      BY <2>2, <2>3, <3>1, <3>2, <3>3, <3>4 DEF ItemInv
  <2> QED
    BY <2>1, <2>2, <2>3, <2>5 DEF GroupInv
<1>4. RunInv'
  <2>1. DOMAIN cur_size' = DOMAIN cur_size
    BY DEF OnlyGroup
  <2>2. \A f \in DOMAIN cur_size' : GroupInv(f)'
    BY <1>3, <2>1
  <2> QED
    BY <1>1, <1>2, <2>2 DEF RunInv, StageFixed
<1>5. VecInv' /\ VecCovers'
  BY <1>1, FixedIs DEF ReductionInv
<1> QED
  BY <1>1, <1>4, <1>5 DEF ReductionInv, StageFixed

LEMMA RunningGroup ==
  ASSUME ReductionInv, rphase = "runs", NEW g \in DOMAIN cur_size
  PROVE  /\ g \in Nat /\ GroupInv(g) /\ VecInv
         /\ g \in DOMAIN rarrived /\ g \in DOMAIN pcl_ldata /\ g \in DOMAIN rresult
         /\ group_size \in PowersOf2 /\ group_size \in Nat \ {0}
         /\ size_args.seq_count \in Nat \ {0}
<1>1. RunInv /\ VecInv /\ group_size \in PowersOf2
  BY DEF ReductionInv
<1>2. PICK n \in Nat \ {0} : LaunchInv(n)
  BY <1>1 DEF RunInv
<1>3. g \in 0 .. n - 1 /\ g \in DOMAIN rarrived /\ g \in DOMAIN pcl_ldata /\ g \in DOMAIN rresult
  BY <1>2 DEF LaunchInv
<1>4. group_size \in Nat \ {0}
  BY <1>1, PowersAreNumbers
<1>5. size_args.seq_count \in Nat \ {0}
  BY <1>1 DEF RunInv, VecInv
<1> QED
  BY <1>1, <1>3, <1>4, <1>5 DEF RunInv

LEMMA AccumulateStep ==
  ASSUME ReductionInv, NEW g \in DOMAIN cur_size, NEW l \in Items, Accumulate(g, l)
  PROVE  ReductionInv'
<1>1. /\ rphase = "runs" /\ l \notin rarrived[g] /\ cur_size[g] = 0 /\ StageFixed /\ cur_size' = cur_size
      /\ rarrived' = [rarrived EXCEPT ![g] = @ \cup {l}]
      /\ pcl_ldata' = [pcl_ldata EXCEPT ![g][l] = Accumulated(g, l)] /\ rresult' = rresult
  BY DEF Accumulate, RExecutes, StageFixed
<1>2. /\ g \in Nat /\ GroupInv(g) /\ VecInv
      /\ g \in DOMAIN rarrived /\ g \in DOMAIN pcl_ldata /\ group_size \in Nat \ {0}
      /\ size_args.seq_count \in Nat \ {0}
  BY <1>1, RunningGroup
<1>3. Accumulated(g, l) = Share(g, group_size, l)
  <2>1. l \in 0 .. group_size - 1
    BY DEF Items
  <2>2. Digits(g, 0, l)
    BY <1>2, <2>1 DEF Digits
  <2> QED
    BY <1>2, <2>2, AccumulatedIs
<1>4. OnlyGroup(g)
  BY <1>1 DEF OnlyGroup
<1>5. /\ Items' = Items /\ group_size' = group_size
      /\ \A h, c, i : Share(h, c, i)' = Share(h, c, i)
  BY <1>1, FixedIs DEF StageFixed
<1>6. /\ rarrived'[g] = rarrived[g] \cup {l}
      /\ DOMAIN pcl_ldata[g] = Items /\ DOMAIN pcl_ldata'[g] = Items
      /\ pcl_ldata'[g][l] = Accumulated(g, l)
      /\ \A i \in Items \ {l} : pcl_ldata'[g][i] = pcl_ldata[g][i]
  BY <1>1, <1>2 DEF GroupInv
<1>7. ASSUME NEW i \in Items PROVE ItemInv(g, i)'
  <2>1. ItemInv(g, i)
    BY <1>2 DEF GroupInv
  <2>2. Share(g, group_size, i)' = Share(g, group_size, i)
    BY <1>1 DEF Share, Once, Held, OnceIn, OfItem, InGroup, Elements, ElementAt, InSlice, StageFixed
  <2> QED
    BY <1>1, <1>3, <1>6, <2>1, <2>2 DEF ItemInv
<1>8. GroupInv(g)'
  BY <1>1, <1>5, <1>6, <1>7 DEF GroupInv
<1> QED
  BY <1>4, <1>8, GroupStep

(* When a width is halved, there are two of the halves.                    *)
LEMMA WidthsAreEven ==
  ASSUME NEW c \in PowersOf2
  PROVE  c \in Nat \ {0} /\ (c = 1 \/ (c \div 2 \in PowersOf2 /\ c = 2 * (c \div 2)))
<1>1. PICK e \in Nat : c = Pow2[e]
  BY DEF PowersOf2
<1>2. CASE e = 0
  BY <1>1, <1>2, Pow2Def
<1>3. CASE e # 0
  <2>1. e - 1 \in Nat /\ (e - 1) + 1 = e
    BY <1>3
  <2>2. c = 2 * Pow2[e - 1] /\ Pow2[e - 1] \in Nat \ {0} /\ Pow2[e - 1] \in PowersOf2
    BY <1>1, <2>1, Pow2Def, Pow2Positive DEF PowersOf2
  <2> QED
    BY <2>2
<1> QED
  BY <1>2, <1>3

LEMMA ReduceTreeStep ==
  ASSUME ReductionInv, NEW g \in DOMAIN cur_size, NEW l \in Items, ReduceTree(g, l)
  PROVE  ReductionInv'
<1> DEFINE c == cur_size[g]
           h == c \div 2
<1>1. /\ rphase = "runs" /\ l \notin rarrived[g] /\ c > 0 /\ StageFixed /\ cur_size' = cur_size
      /\ rarrived' = [rarrived EXCEPT ![g] = @ \cup {l}]
      /\ pcl_ldata' = IF l < h THEN [pcl_ldata EXCEPT ![g][l] = PCL_REDUCE(@, pcl_ldata[g][l + h])] ELSE pcl_ldata
      /\ rresult' = IF l = 0 /\ h <= 1 THEN [rresult EXCEPT ![g] = pcl_ldata'[g][0]] ELSE rresult
  BY DEF ReduceTree, RExecutes, StageFixed
<1>2. /\ g \in Nat /\ GroupInv(g) /\ VecInv
      /\ g \in DOMAIN rarrived /\ g \in DOMAIN pcl_ldata /\ g \in DOMAIN rresult /\ group_size \in Nat \ {0}
  BY <1>1, RunningGroup
<1>3. c \in PowersOf2 /\ c <= group_size /\ DOMAIN pcl_ldata[g] = Items /\ \A i \in Items : ItemInv(g, i)
  BY <1>1, <1>2 DEF GroupInv
<1>4. c \in Nat \ {0} /\ (c = 1 \/ (h \in PowersOf2 /\ c = 2 * h)) /\ h \in Nat
  <2> HIDE DEF c
  <2>1. c \in Nat \ {0} /\ (c = 1 \/ (c \div 2 \in PowersOf2 /\ c = 2 * (c \div 2)))
    BY <1>3, WidthsAreEven
  <2> QED
    BY <2>1
<1>5. /\ Items' = Items /\ group_size' = group_size /\ c' = c /\ h' = h
      /\ \A f, w, i : Share(f, w, i)' = Share(f, w, i)
      /\ \A f : GroupShare(f)' = GroupShare(f)
  BY <1>1, FixedIs DEF StageFixed
<1>6. OnlyGroup(g)
  BY <1>1 DEF OnlyGroup
<1>7. /\ rarrived'[g] = rarrived[g] \cup {l}
      /\ DOMAIN pcl_ldata'[g] = Items
      /\ \A i \in Items \ {l} : pcl_ldata'[g][i] = pcl_ldata[g][i]
      /\ ~(l < h) => pcl_ldata'[g][l] = pcl_ldata[g][l]
      /\ l < h => pcl_ldata'[g][l] = PCL_REDUCE(pcl_ldata[g][l], pcl_ldata[g][l + h])
  BY <1>1, <1>2, <1>3
<1>8. l \in Nat /\ l < group_size
  BY <1>2 DEF Items
<1>9. ASSUME l < h PROVE pcl_ldata'[g][l] = Share(g, h, l)
  <2>1. h \in Nat \ {0} /\ c = 2 * h /\ l \in 0 .. h - 1 /\ l + h \in Items
    BY <1>2, <1>3, <1>4, <1>8, <1>9 DEF Items
  <2>2. Width(g, l) = c /\ l < c
    BY <1>1, <2>1 DEF Width
  <2>3. pcl_ldata[g][l] = Share(g, c, l)
    BY <1>1, <1>3, <2>2 DEF ItemInv
  <2>4. Width(g, l + h) = c /\ l + h < c
    BY <2>1 DEF Width
  <2>5. pcl_ldata[g][l + h] = Share(g, c, l + h)
    BY <1>1, <1>3, <2>1, <2>4 DEF ItemInv
  <2> HIDE DEF h, c
  <2>6. PCL_REDUCE(Share(g, 2 * h, l), Share(g, 2 * h, l + h)) = Share(g, h, l)
    BY <1>2, <2>1, SharesAreHalved
  <2> QED
    BY <1>7, <1>9, <2>1, <2>3, <2>5, <2>6
<1>10. ASSUME NEW i \in Items PROVE ItemInv(g, i)'
  <2>1. ItemInv(g, i)
    BY <1>3
  <2>2. CASE i # l
    <3>1. Width(g, i)' = Width(g, i)
      BY <1>1, <1>7, <2>2 DEF Width
    <3> DEFINE w == Width(g, i)
    <3>2. Share(g, w, i)' = Share(g, w, i)
      BY <1>1, <3>1 DEF Share, Once, Held, OnceIn, OfItem, InGroup, Elements, ElementAt, InSlice, StageFixed
    <3> QED
      BY <1>1, <1>7, <2>1, <2>2, <3>1, <3>2 DEF ItemInv
  <2>3. CASE i = l /\ l < h
    <3>1. Width(g, i)' = h
      BY <1>1, <1>7, <2>3 DEF Width
    <3>2. Share(g, h, i)' = Share(g, h, i)
      BY <1>1 DEF Share, Once, Held, OnceIn, OfItem, InGroup, Elements, ElementAt, InSlice, StageFixed
    <3>3. pcl_ldata'[g][i] = Share(g, h, i)
      BY <1>9, <2>3
    <3>4. cur_size'[g] # 0
      BY <1>1, <1>4
    <3> QED
      BY <1>1, <3>1, <3>2, <3>3, <3>4 DEF ItemInv
  <2>4. CASE i = l /\ ~(l < h)
    <3>1. Width(g, i)' = c /\ Width(g, i) = c
      BY <1>1, <1>7, <2>4 DEF Width
    <3>2. Share(g, c, i)' = Share(g, c, i)
      BY <1>1 DEF Share, Once, Held, OnceIn, OfItem, InGroup, Elements, ElementAt, InSlice, StageFixed
    <3>3. cur_size'[g] # 0 /\ cur_size[g] # 0 /\ pcl_ldata'[g][i] = pcl_ldata[g][i]
      BY <1>1, <1>4, <1>7, <2>4
    <3> QED
      BY <1>1, <2>1, <3>1, <3>2, <3>3 DEF ItemInv
  <2> QED
    BY <2>2, <2>3, <2>4
<1>11. ASSUME c \in {1, 2}, l = 0 PROVE rresult'[g] = GroupShare(g)
  <2>1. h <= 1
    BY <1>11
  <2>2. rresult'[g] = pcl_ldata'[g][0]
    BY <1>1, <1>2, <1>11, <2>1
  <2>3. pcl_ldata'[g][0] = Share(g, 1, 0)
    <3>1. CASE c = 2
      BY <1>9, <1>11, <3>1
    <3>2. CASE c = 1
      <4>1. h = 0 /\ Width(g, 0) = 1 /\ pcl_ldata'[g][0] = pcl_ldata[g][0]
        BY <1>1, <1>7, <1>11, <3>2 DEF Width
      <4>2. ItemInv(g, 0)
        BY <1>3, <1>11
      <4> QED
        BY <3>2, <4>1, <4>2 DEF ItemInv
    <3> QED
      BY <1>11, <3>1, <3>2
  <2> QED
    BY <1>2, <2>2, <2>3, LastShare
<1>12. cur_size'[g] \in {1, 2} /\ 0 \in rarrived'[g] => rresult'[g] = GroupShare(g)
  <2> SUFFICES ASSUME c \in {1, 2}, 0 \in rarrived'[g] PROVE rresult'[g] = GroupShare(g)
    BY <1>1
  <2>1. CASE l = 0
    BY <1>11, <2>1
  <2>2. CASE l # 0
    <3>1. 0 \in rarrived[g] /\ rresult' = rresult
      BY <1>1, <1>7, <2>2
    <3> QED
      BY <1>2, <3>1 DEF GroupInv
  <2> QED
    BY <2>1, <2>2
<1>13. GroupInv(g)'
  BY <1>1, <1>3, <1>5, <1>7, <1>10, <1>12 DEF GroupInv
<1> QED
  BY <1>6, <1>13, GroupStep

LEMMA BarrierStep ==
  ASSUME ReductionInv, NEW g \in DOMAIN cur_size, ReductionBarrier(g)
  PROVE  ReductionInv'
<1> DEFINE c == cur_size[g]
           next == IF c = 0 THEN group_size ELSE c \div 2
<1>1. /\ rphase = "runs" /\ rarrived[g] = Items /\ c \notin {1, 2} /\ StageFixed
      /\ rarrived' = [rarrived EXCEPT ![g] = {}]
      /\ cur_size' = [cur_size EXCEPT ![g] = next]
      /\ pcl_ldata' = pcl_ldata /\ rresult' = rresult
  BY DEF ReductionBarrier, StageFixed
<1>2. /\ g \in Nat /\ GroupInv(g) /\ VecInv /\ g \in DOMAIN rarrived
      /\ group_size \in PowersOf2 /\ group_size \in Nat \ {0}
  BY <1>1, RunningGroup
<1>3. OnlyGroup(g)
  BY <1>1 DEF OnlyGroup
<1>4. rarrived'[g] = {} /\ cur_size'[g] = next
  BY <1>1, <1>2
<1>5. next \in PowersOf2 /\ next <= group_size /\ next # 0
  <2>1. CASE c = 0
    BY <1>2, <2>1
  <2>2. CASE c # 0
    <3>1. c \in PowersOf2 /\ c <= group_size
      BY <1>2, <2>2 DEF GroupInv
    <3> HIDE DEF c
    <3>2. c \in Nat \ {0} /\ (c = 1 \/ (c \div 2 \in PowersOf2 /\ c = 2 * (c \div 2)))
      BY <3>1, WidthsAreEven
    <3>3. c \div 2 \in Nat /\ c \div 2 <= c /\ c \div 2 # 0 /\ c \div 2 \in PowersOf2
      BY <1>1, <3>2
    <3>4. next = c \div 2
      BY <2>2
    <3> HIDE DEF next
    <3> QED
      BY <1>2, <3>1, <3>2, <3>3, <3>4
  <2> QED
    BY <2>1, <2>2
<1>6. Items' = Items /\ group_size' = group_size
  BY <1>1, FixedIs DEF StageFixed
<1>7. ASSUME NEW l \in Items PROVE ItemInv(g, l)'
  <2>1. ItemInv(g, l)
    BY <1>2 DEF GroupInv
  <2>2. Width(g, l)' = next
    BY <1>4 DEF Width
  <2>3. l < next => pcl_ldata[g][l] = Share(g, next, l)
    <3>1. CASE c = 0
      BY <1>1, <2>1, <3>1 DEF ItemInv
    <3>2. CASE c # 0
      <4>1. l < next => Width(g, l) = next
        BY <1>1, <3>2 DEF Width
      <4> QED
        BY <2>1, <3>2, <4>1 DEF ItemInv
    <3> QED
      BY <3>1, <3>2
  <2> DEFINE w == Width(g, l)'
  <2>4. \A x \in Nat : Share(g, x, l)' = Share(g, x, l)
    BY <1>1, FixedIs
  <2>5. next \in Nat
    BY <1>5, PowersAreNumbers
  <2> HIDE DEF next
  <2>6. Share(g, Width(g, l), l)' = Share(g, next, l)
    BY <1>1, <2>2 DEF Share, Once, Held, OnceIn, OfItem, InGroup, Elements, ElementAt, InSlice, StageFixed
  <2> QED
    BY <1>1, <1>4, <1>5, <2>2, <2>3, <2>6 DEF ItemInv
<1> HIDE DEF next
<1>8. GroupInv(g)'
  BY <1>1, <1>2, <1>4, <1>5, <1>6, <1>7 DEF GroupInv
<1> QED
  BY <1>3, <1>8, GroupStep

-----------------------------------------------------------------------------
(* How a stage is split: the groups have a number for every element.       *)
LEMMA RoundsSuffice ==
  ASSUME NEW a \in Nat, NEW d \in Nat \ {0}
  PROVE  /\ RCeilDiv(a, d) \in Nat /\ a <= RCeilDiv(a, d) * d
         /\ a # 0 => RCeilDiv(a, d) # 0
<1> DEFINE x == a + d - 1
           u == x \div d
           v == x % d
<1>1. x \in Nat /\ x = a + d - 1
  OBVIOUS
<1> HIDE DEF x
<1>2. x = d * u + v /\ v \in 0 .. d - 1 /\ u \in Nat
  BY <1>1, Division
<1> HIDE DEF u, v
<1>3. d * u = u * d /\ u * d \in Nat
  BY <1>2
<1>4. a <= u * d
  BY <1>1, <1>2, <1>3
<1>5. a # 0 => u # 0
  BY <1>1, <1>2, <1>3
<1>6. RCeilDiv(a, d) = u
  BY DEF RCeilDiv, u, x
<1> QED
  BY <1>2, <1>4, <1>5, <1>6

LEMMA StageIsSplit ==
  ASSUME ReductionInv, group_size \in Nat \ {0}
  PROVE  /\ sz \in Nat /\ group_count \in Nat /\ seq_count \in Nat \ {0}
         /\ sz <= group_count * (seq_count * group_size)
<1> DEFINE G == group_size
           A == red.SMALL_SEQ_COUNT
           M == red.MAX_GROUP_COUNT
           z == sz
<1>1. A \in Nat \ {0} /\ M \in Nat \ {0} /\ G \in Nat \ {0}
  BY ReductionAssumption DEF ReductionInv, ReductionType
<1>2. z \in Nat
  <2> DEFINE d == IF size_args.stop >= size_args.start THEN size_args.stop - size_args.start
                                                       ELSE size_args.start - size_args.stop
  <2>1. d \in Nat /\ size_args.step \in Nat \ {0}
    BY DEF ReductionInv, VecInv
  <2> HIDE DEF d
  <2>2. d \div size_args.step \in Nat
    BY <2>1, Division
  <2> QED
    BY <2>2 DEF sz, d
<1> HIDE DEF z
<1>3. A * G \in Nat \ {0} /\ M * G \in Nat \ {0} /\ G * A * M \in Nat
  <2>1. \A x, y \in Nat \ {0} : x * y \in Nat \ {0}
    OBVIOUS
  <2>2. A * G \in Nat \ {0} /\ M * G \in Nat \ {0} /\ G * A \in Nat \ {0}
    BY <1>1, <2>1
  <2>3. G * A * M \in Nat \ {0}
    BY <1>1, <2>1, <2>2
  <2> QED
    BY <2>2, <2>3
<1>4. CASE SmallStage
  <2>1. group_count = RCeilDiv(z, A * G) /\ seq_count = A
    BY <1>4 DEF group_count, seq_count, z
  <2> DEFINE d == A * G
  <2>2. d \in Nat \ {0}
    BY <1>3
  <2> HIDE DEF d
  <2>3. RCeilDiv(z, d) \in Nat /\ z <= RCeilDiv(z, d) * d
    BY <1>2, <2>2, RoundsSuffice
  <2> QED
    BY <1>1, <1>2, <2>1, <2>3 DEF d, z
<1>5. CASE ~SmallStage
  <2>1. group_count = M /\ seq_count = RCeilDiv(z, M * G)
    BY <1>5 DEF group_count, seq_count, z
  <2>2. z # 0
    BY <1>2, <1>3, <1>5 DEF SmallStage, z
  <2> DEFINE d == M * G
             u == RCeilDiv(z, d)
  <2>3. d \in Nat \ {0}
    BY <1>3
  <2> HIDE DEF d
  <2>4. u \in Nat /\ z <= u * d /\ u # 0
    BY <1>2, <2>2, <2>3, RoundsSuffice
  <2> HIDE DEF u
  <2>5. u * d = M * (u * G)
    BY <1>1, <2>4 DEF d
  <2>6. seq_count = u
    BY <2>1 DEF u, d
  <2> QED
    BY <1>1, <1>2, <2>1, <2>4, <2>5, <2>6 DEF z
<1> QED
  BY <1>4, <1>5

(* A number below n * (S * G) has a first digit below n.                   *)
LEMMA FirstDigit ==
  ASSUME NEW n \in Nat, NEW S \in Nat \ {0}, NEW G \in Nat \ {0}, NEW k \in Nat, k < n * (S * G)
  PROVE  (k \div G) \div S < n
<1> DEFINE A == n * S
<1>1. A \in Nat /\ A * G = n * (S * G)
  OBVIOUS
<1> HIDE DEF A
<1>2. k \div G \in 0 .. A - 1
  BY <1>1, DigitsOf
<1> DEFINE x == k \div G
<1> HIDE DEF x
<1>3. x \in Nat /\ x < n * S
  BY <1>1, <1>2 DEF x, A
<1>4. x \div S \in 0 .. n - 1
  BY <1>3, DigitsOf
<1> QED
  BY <1>4 DEF x

LEMMA SliceIsCounted ==
  ASSUME VecInv, (size_args.stop - size_args.start) % size_args.step = 0, NEW k, InSlice(k)
  PROVE  k \in Nat /\ k < sz
<1> DEFINE a == size_args.start
           s == size_args.step
           b == size_args.stop
           d == b - a
           q == d \div s
<1>1. k \in Nat /\ a \in Nat /\ b \in Nat /\ s \in Nat \ {0} /\ a + k * s < b /\ d % s = 0
  BY DEF VecInv, InSlice, ElementAt
<1>2. k * s \in Nat
  BY <1>1
<1>3. b >= a /\ d \in Nat /\ k * s < d
  BY <1>1, <1>2
<1>4. sz = q
  BY <1>3 DEF sz
<1> HIDE DEF d
<1>5. d = s * q /\ q \in Nat
  <2>1. s \in Nat \ {0} /\ d % s = 0
    BY <1>1 DEF d
  <2> HIDE DEF s
  <2>2. d = s * q + (d % s) /\ q \in Nat
    BY <1>3, <2>1, Division
  <2> HIDE DEF q
  <2>3. s * q \in Nat
    BY <2>1, <2>2
  <2> QED
    BY <2>1, <2>2, <2>3
<1> HIDE DEF q, a, b, s
<1>6. ~(k >= q)
  <2> SUFFICES ASSUME k >= q PROVE FALSE
    OBVIOUS
  <2>1. k = q + (k - q) /\ k - q \in Nat
    BY <1>1, <1>5
  <2>2. k * s = s * q + (k - q) * s /\ (k - q) * s \in Nat /\ s * q \in Nat
    BY <1>1, <1>5, <2>1
  <2> QED
    BY <1>3, <1>5, <2>2
<1> QED
  BY <1>1, <1>4, <1>5, <1>6

LEMMA StageLaunched ==
  ASSUME ReductionInv, LaunchStage
  PROVE  ReductionInv'
<1>a. PICK n, S, G : n = group_count /\ S = seq_count /\ G = group_size
  OBVIOUS
<1>1. /\ rphase = "host" /\ n > 0 /\ rphase' = "runs"
      /\ size_args' = [size_args EXCEPT !.seq_count = S]
      /\ cur_size' = [g \in 0 .. n - 1 |-> 0]
      /\ rarrived' = [g \in 0 .. n - 1 |-> {}]
      /\ pcl_ldata' = [g \in 0 .. n - 1 |-> [l \in Items |-> << >>]]
      /\ rresult' = [g \in 0 .. n - 1 |-> << >>]
      /\ red' = red /\ group_size' = group_size /\ vec' = vec
  BY <1>a DEF LaunchStage
<1>2. G \in PowersOf2 /\ G \in Nat \ {0} /\ VecInv /\ VecCovers
  BY <1>a, <1>1, PowersAreNumbers DEF ReductionInv
<1>3. sz \in Nat /\ n \in Nat /\ S \in Nat \ {0} /\ sz <= n * (S * G)
  BY <1>a, <1>2, StageIsSplit
<1>4. /\ size_args'.start = size_args.start /\ size_args'.step = size_args.step
      /\ size_args'.stop = size_args.stop /\ size_args'.seq_count = S
      /\ size_args' \in [start : Nat, step : Nat \ {0}, stop : Nat, seq_count : Nat]
  BY <1>1, <1>2, <1>3 DEF VecInv
<1>5. VecInv'
  <2>1. Elements' = Elements /\ vec' = vec /\ size_args'.stop = size_args.stop
    BY <1>1, <1>4 DEF Elements
  <2>2. /\ \A i \in 0 .. size_args.stop - 1 : vec[i] = Once(OnceIn(vec[i]))
        /\ \A i, j \in 0 .. size_args.stop - 1 : i # j => OnceIn(vec[i]) \cap OnceIn(vec[j]) = {}
    BY <1>2 DEF VecInv
  <2>3. \A i \in 0 .. size_args'.stop - 1 : vec'[i] = Once(OnceIn(vec[i]))'
    BY <2>1, <2>2 DEF Once, OnceIn
  <2>4. \A i, j \in 0 .. size_args'.stop - 1 : i # j => (OnceIn(vec[i]) \cap OnceIn(vec[j]))' = {}
    BY <2>1, <2>2 DEF OnceIn
  <2> QED
    BY <1>4, <2>3, <2>4 DEF VecInv
<1>6. \A k : InSlice(k)' <=> InSlice(k)
  BY <1>4 DEF InSlice, ElementAt
<1>7. VecCovers'
  <2>1. \A k : ElementAt(k)' = ElementAt(k)
    BY <1>4 DEF ElementAt
  <2>2. Held(Nat)' = Held(Nat)
    BY <1>1, <1>4 DEF Held, OnceIn, Elements, InSlice, ElementAt
  <2>3. Sliced' = Sliced /\ (Exact' <=> Exact)
    BY <1>1 DEF Sliced, Exact, Elements
  <2> QED
    BY <1>2, <1>4, <2>2, <2>3 DEF VecCovers
<1>8. LaunchInv(n)'
  <2>1. /\ DOMAIN cur_size' = 0 .. n - 1 /\ DOMAIN rarrived' = 0 .. n - 1
        /\ DOMAIN pcl_ldata' = 0 .. n - 1 /\ DOMAIN rresult' = 0 .. n - 1
    BY <1>1
  <2>2. ASSUME Exact, NEW k, InSlice(k) PROVE (k \div G) \div S < n
    <3>1. k \in Nat /\ k < sz
      BY <1>2, <2>2, SliceIsCounted DEF VecCovers
    <3>2. n * (S * G) \in Nat
      <4>1. \A x, y \in Nat : x * y \in Nat
        OBVIOUS
      <4> QED
        BY <1>2, <1>3, <4>1
    <3>3. k < n * (S * G)
      BY <1>3, <3>1, <3>2
    <3> QED
      BY <1>2, <1>3, <3>1, <3>3, FirstDigit
  <2>3. Exact' => Exact
    BY <1>1 DEF Exact
  <2> QED
    BY <1>a, <1>1, <1>4, <1>6, <2>1, <2>2, <2>3 DEF LaunchInv
<1>9. ASSUME NEW g \in 0 .. n - 1 PROVE GroupInv(g)'
  <2>1. cur_size'[g] = 0 /\ rarrived'[g] = {} /\ pcl_ldata'[g] = [l \in Items |-> << >>] /\ Items' = Items
    BY <1>1 DEF Items
  <2>2. \A l \in Items' : ItemInv(g, l)'
    BY <2>1 DEF ItemInv
  <2> QED
    BY <2>1, <2>2 DEF GroupInv
<1>10. RunInv'
  <2>1. n \in Nat \ {0} /\ size_args'.seq_count # 0
    BY <1>1, <1>3, <1>4
  <2>2. DOMAIN cur_size' = 0 .. n - 1
    BY <1>1
  <2> QED
    BY <1>8, <1>9, <2>1, <2>2 DEF RunInv
<1> QED
  BY <1>a, <1>1, <1>2, <1>5, <1>7, <1>10 DEF ReductionInv

-----------------------------------------------------------------------------
(* What the groups of a finished stage have written.                       *)
LEMMA StageResults ==
  ASSUME ReductionInv, StageDone
  PROVE  \E n \in Nat \ {0} :
           /\ DOMAIN rresult = 0 .. n - 1
           /\ \A g \in 0 .. n - 1 : rresult[g] = GroupShare(g)
           /\ Exact => Sliced = UNION {Held(InGroup(g)) : g \in 0 .. n - 1}
<1>1. RunInv /\ VecInv /\ VecCovers /\ group_size \in Nat \ {0}
  BY PowersAreNumbers DEF ReductionInv, StageDone
<1>2. PICK n \in Nat \ {0} : LaunchInv(n)
  BY <1>1 DEF RunInv
<1>3. ASSUME NEW g \in 0 .. n - 1 PROVE rresult[g] = GroupShare(g)
  <2>1. g \in DOMAIN cur_size
    BY <1>2 DEF LaunchInv
  <2>2. GroupInv(g) /\ cur_size[g] \in {1, 2} /\ rarrived[g] = Items
    BY <1>1, <2>1 DEF RunInv, StageDone
  <2>3. 0 \in Items
    BY <1>1 DEF Items
  <2> QED
    BY <2>2, <2>3 DEF GroupInv
<1>4. ASSUME Exact PROVE Sliced = UNION {Held(InGroup(g)) : g \in 0 .. n - 1}
  <2>1. Sliced = Held(Nat)
    BY <1>1, <1>4 DEF VecCovers
  <2>2. ASSUME NEW e \in Held(Nat) PROVE \E g \in 0 .. n - 1 : e \in Held(InGroup(g))
    <3>1. PICK k \in Nat : InSlice(k) /\ e \in OnceIn(vec[ElementAt(k)])
      BY DEF Held
    <3> DEFINE x == k \div group_size
               g == x \div size_args.seq_count
    <3>2. g < n
      BY <1>2, <1>4, <3>1 DEF LaunchInv
    <3>3. size_args.seq_count \in Nat \ {0}
      BY <1>1 DEF RunInv, VecInv
    <3>4. x \in Nat
      BY <1>1, Division
    <3> HIDE DEF x
    <3>5. g \in Nat
      BY <3>3, <3>4, Division
    <3>6. k \in InGroup(g)
      BY DEF InGroup, x
    <3> HIDE DEF g
    <3>7. e \in Held(InGroup(g))
      BY <3>1, <3>6 DEF Held
    <3> QED
      BY <3>2, <3>5, <3>7
  <2>3. ASSUME NEW g \in 0 .. n - 1 PROVE Held(InGroup(g)) \subseteq Held(Nat)
    BY DEF Held, InGroup
  <2> QED
    BY <2>1, <2>2, <2>3
<1>5. DOMAIN rresult = 0 .. n - 1
  BY <1>2 DEF LaunchInv
<1> QED
  BY <1>3, <1>4, <1>5

LEMMA GroupsDiffer ==
  ASSUME VecInv, NEW g, NEW h, g # h
  PROVE  Held(InGroup(g)) \cap Held(InGroup(h)) = {}
<1>1. InGroup(g) \cap InGroup(h) = {}
  BY DEF InGroup
<1> QED
  BY <1>1, HeldDisjoint

LEMMA StageFollows ==
  ASSUME ReductionInv, NextStage
  PROVE  ReductionInv'
<1>1. /\ StageDone /\ rphase = "runs" /\ rphase' = "host" /\ vec' = rresult
      /\ size_args' = [start |-> 0, step |-> 1, stop |-> Cardinality(DOMAIN rresult), seq_count |-> 0]
      /\ red' = red /\ group_size' = group_size
  BY DEF NextStage, StageDone
<1>2. PICK n \in Nat \ {0} :
           /\ DOMAIN rresult = 0 .. n - 1
           /\ \A g \in 0 .. n - 1 : rresult[g] = GroupShare(g)
           /\ Exact => Sliced = UNION {Held(InGroup(g)) : g \in 0 .. n - 1}
  BY <1>1, StageResults
<1>3. size_args' = [start |-> 0, step |-> 1, stop |-> n, seq_count |-> 0]
  <2>1. Cardinality(0 .. n - 1) = n
    BY FS_Interval
  <2> QED
    BY <1>1, <1>2, <2>1
<1>4. VecInv /\ red \in Reductions /\ group_size \in PowersOf2
  BY <1>1 DEF ReductionInv
<1>5. Elements' = Elements /\ (\A K : Once(K)' = Once(K)) /\ (Exact' <=> Exact) /\ Sliced' = Sliced
  BY <1>1 DEF Elements, Once, Exact, Sliced
<1>6. ASSUME NEW g \in 0 .. n - 1 PROVE vec'[g] = Once(Held(InGroup(g))) /\ OnceIn(vec'[g]) = Held(InGroup(g))
  <2>1. vec'[g] = Once(Held(InGroup(g)))
    BY <1>1, <1>2 DEF GroupShare
  <2> QED
    BY <2>1, HeldAreElements, OnceInOnce
<1>7. ASSUME NEW g \in 0 .. n - 1 PROVE OnceIn(vec[g])' = Held(InGroup(g))
  BY <1>5, <1>6 DEF OnceIn
<1>8. VecInv'
  <2>1. size_args' \in [start : Nat, step : Nat \ {0}, stop : Nat, seq_count : Nat]
    BY <1>3
  <2>2. \A i \in 0 .. n - 1 : vec'[i] = Once(OnceIn(vec[i]))'
    BY <1>1, <1>6, <1>7 DEF Once, Elements
  <2>3. \A i, j \in 0 .. n - 1 : i # j => OnceIn(vec[i])' \cap OnceIn(vec[j])' = {}
    BY <1>4, <1>7, GroupsDiffer
  <2>4. size_args'.stop = n
    BY <1>3
  <2> QED
    BY <2>1, <2>2, <2>3, <2>4 DEF VecInv
<1>9. VecCovers'
  <2>1. (size_args'.stop - size_args'.start) % size_args'.step = 0
    BY <1>3
  <2>2. \A k \in Nat : (ElementAt(k)' = k) /\ (InSlice(k)' <=> k \in 0 .. n - 1)
    BY <1>3 DEF ElementAt, InSlice
  <2>3. Held(Nat)' = UNION {Held(InGroup(g)) : g \in 0 .. n - 1}
    <3>1. {j \in Nat : InSlice(j)'} = 0 .. n - 1
      BY <2>2
    <3>2. \A k \in 0 .. n - 1 : OnceIn(vec[ElementAt(k)])' = Held(InGroup(k))
      BY <1>5, <1>6, <2>2 DEF OnceIn
    <3>3. Held(Nat)' = UNION {OnceIn(vec[ElementAt(k)])' : k \in {j \in Nat : InSlice(j)'}}
      BY DEF Held
    <3> HIDE DEF Held
    <3> QED
      BY <3>1, <3>2, <3>3
  <2> QED
    BY <1>2, <1>5, <2>1, <2>3 DEF VecCovers
<1> QED
  BY <1>1, <1>4, <1>8, <1>9 DEF ReductionInv

LEMMA LastStage ==
  ASSUME ReductionInv, ReturnResult
  PROVE  ReductionInv'
<1>1. StageDone /\ DOMAIN rresult = {0} /\ rphase' = "done" /\ UNCHANGED <<red, group_size, vec, size_args, rresult>>
  BY DEF ReturnResult
<1>2. PICK n \in Nat \ {0} :
           /\ DOMAIN rresult = 0 .. n - 1
           /\ \A g \in 0 .. n - 1 : rresult[g] = GroupShare(g)
           /\ Exact => Sliced = UNION {Held(InGroup(g)) : g \in 0 .. n - 1}
  BY <1>1, StageResults
<1>3. Exact => rresult[0] = Once(Sliced)
  <2>1. 0 .. n - 1 = {0}
    BY <1>1, <1>2
  <2>2. Exact => Sliced = Held(InGroup(0))
    BY <1>2, <2>1
  <2> QED
    BY <1>2, <2>1, <2>2 DEF GroupShare
<1>4. (Exact' <=> Exact) /\ Once(Sliced)' = Once(Sliced)
  BY <1>1 DEF Exact, Once, Sliced, Elements
<1>5. VecInv' /\ VecCovers'
  <2>1. VecInv /\ VecCovers
    BY DEF ReductionInv
  <2>2. VecInv'
    BY <1>1, <2>1 DEF VecInv, Once, OnceIn, Elements
  <2>3. VecCovers'
    BY <1>1, <2>1 DEF VecCovers, Exact, Sliced, Held, OnceIn, ElementAt, InSlice, Elements
  <2> QED
    BY <2>2, <2>3
<1> QED
  BY <1>1, <1>3, <1>4, <1>5 DEF ReductionInv

LEMMA FirstStage ==
  ASSUME ReductionInit
  PROVE  ReductionInv
<1>1. /\ red \in Reductions /\ rphase = "build" /\ group_size = red.group_size
      /\ vec = [i \in Elements |-> single(i)]
      /\ size_args = [start |-> red.start, step |-> red.step, stop |-> red.stop, seq_count |-> 0]
  BY DEF ReductionInit
<1>2. /\ red.n \in Nat /\ red.start \in Nat /\ red.stop \in Nat /\ red.step \in Nat \ {0} /\ red.stop <= red.n
  BY <1>1, ReductionAssumption DEF ReductionType
<1>3. ASSUME NEW i \in 0 .. red.stop - 1 PROVE i \in Elements /\ OnceIn(vec[i]) = {i} /\ vec[i] = Once({i})
  <2>1. i \in Elements
    BY <1>2 DEF Elements
  <2>2. vec[i] = single(i)
    BY <1>1, <2>1
  <2>3. vec[i] = Once({i})
    BY <2>2 DEF single, Once
  <2>4. OnceIn(Once({i})) = {i}
    BY <2>1, OnceInOnce
  <2> QED
    BY <2>1, <2>3, <2>4
<1>4. VecInv
  <2>1. size_args \in [start : Nat, step : Nat \ {0}, stop : Nat, seq_count : Nat] /\ size_args.stop = red.stop
    BY <1>1, <1>2
  <2> QED
    BY <1>3, <2>1 DEF VecInv
<1>5. VecCovers
  <2> DEFINE a == red.start
             b == red.stop
             s == red.step
  <2>0. a \in Nat /\ b \in Nat /\ s \in Nat \ {0} /\ b <= red.n
    BY <1>2
  <2>1. size_args.start = a /\ size_args.stop = b /\ size_args.step = s
    BY <1>1
  <2>2. ASSUME NEW k, InSlice(k) PROVE OnceIn(vec[ElementAt(k)]) = {a + k * s} /\ a + k * s \in Sliced
    <3>1. ElementAt(k) = a + k * s
      BY <2>1 DEF ElementAt
    <3>2. ElementAt(k) \in 0 .. red.stop - 1
      BY <1>4, <2>1, <2>2, SliceIsInVec
    <3>3. k \in Nat /\ a + k * s < b
      BY <2>1, <2>2, <3>1 DEF InSlice
    <3>4. k * s \in Nat /\ (k * s) % s = 0
      <4> HIDE DEF s
      <4>1. \A x \in Nat, d \in Nat \ {0} : x * d \in Nat /\ (x * d) % d = 0
        <5> SUFFICES ASSUME NEW x \in Nat, NEW d \in Nat \ {0}, NEW z, z = 0
                     PROVE  x * d \in Nat /\ (x * d) % d = z
          OBVIOUS
        <5>1. z \in 0 .. d - 1
          OBVIOUS
        <5>2. (x * d + z) % d = z
          BY <5>1, DigitsAre
        <5>3. x * d \in Nat /\ x * d + z = x * d
          OBVIOUS
        <5> QED
          BY <5>2, <5>3
      <4> QED
        BY <2>0, <3>3, <4>1
    <3>5. (a + k * s) - a = k * s
      BY <2>0, <3>4
    <3>6. OnceIn(vec[a + k * s]) = {a + k * s} /\ a + k * s \in Elements
      BY <1>3, <3>1, <3>2
    <3>7. a <= a + k * s
      BY <2>0, <3>4
    <3> HIDE DEF a, b, s
    <3>8. a + k * s \in Sliced
      BY <3>3, <3>4, <3>5, <3>6, <3>7 DEF Sliced, a, b, s
    <3> QED
      BY <3>1, <3>6, <3>8
  <2>3. ASSUME NEW e \in Sliced PROVE e \in Held(Nat)
    <3> DEFINE d == e - a
               k == d \div s
    <3>1. e \in Nat /\ e < b /\ d \in Nat /\ d % s = 0
      BY <2>0 DEF Sliced, Elements
    <3> HIDE DEF s
    <3> HIDE DEF d
    <3>2. d = s * k /\ k \in Nat
      <4>1. d = s * k + (d % s) /\ k \in Nat
        BY <2>0, <3>1, Division
      <4>2. s * k \in Nat
        BY <2>0, <4>1
      <4> HIDE DEF k
      <4> QED
        BY <3>1, <4>1, <4>2
    <3> HIDE DEF k
    <3>3. a + k * s = e
      <4>1. s * k = k * s /\ e = a + d
        BY <2>0, <3>1, <3>2 DEF d
      <4> QED
        BY <3>2, <4>1
    <3>4. InSlice(k)
      BY <2>1, <3>1, <3>2, <3>3 DEF InSlice, ElementAt
    <3>5. e \in OnceIn(vec[ElementAt(k)])
      <4>1. OnceIn(vec[ElementAt(k)]) = {e}
        <5>1. ElementAt(k) = e
          BY <2>1, <3>3 DEF ElementAt
        <5>2. e \in 0 .. red.stop - 1
          BY <3>1, <2>0
        <5> QED
          BY <1>3, <5>1, <5>2
      <4> QED
        BY <4>1
    <3> QED
      BY <3>2, <3>4, <3>5 DEF Held
  <2>4. Held(Nat) \subseteq Sliced
    BY <2>2 DEF Held
  <2>5. Held(Nat) = Sliced
    BY <2>3, <2>4
  <2> QED
    BY <2>1, <2>5 DEF VecCovers, Exact
<1> QED
  BY <1>1, <1>4, <1>5 DEF ReductionInv

LEMMA BuildStep ==
  ASSUME ReductionInv, BuildStages
  PROVE  ReductionInv'
<1>1. /\ rphase = "build" /\ group_size' = RMin(group_size, red.kernel_max_wg_size)
      /\ rphase' = IF IsPowerOf2(group_size') THEN "host" ELSE "raised"
      /\ UNCHANGED <<red, vec, size_args>>
  BY DEF BuildStages
<1>2. group_size \in Nat /\ red.kernel_max_wg_size \in Nat
  BY <1>1, ReductionAssumption DEF ReductionInv, ReductionType
<1>3. group_size' \in Nat
  BY <1>1, <1>2 DEF RMin
<1>4. rphase' = "host" => group_size' \in PowersOf2
  BY <1>1, <1>3 DEF IsPowerOf2, PowersOf2
<1>5. rphase' \in {"host", "raised"}
  BY <1>1
<1>6. VecInv' /\ VecCovers'
  <2>1. VecInv /\ VecCovers
    BY DEF ReductionInv
  <2>2. VecInv'
    BY <1>1, <2>1 DEF VecInv, Once, OnceIn, Elements
  <2>3. VecCovers'
    BY <1>1, <2>1 DEF VecCovers, Exact, Sliced, Held, OnceIn, ElementAt, InSlice, Elements
  <2> QED
    BY <2>2, <2>3
<1>7. red' \in Reductions
  BY <1>1 DEF ReductionInv
<1> QED
  BY <1>4, <1>5, <1>6, <1>7 DEF ReductionInv

LEMMA ReductionStutters ==
  ASSUME ReductionInv, UNCHANGED <<red, group_size, vec, size_args, cur_size, rarrived, pcl_ldata, rresult>>,
         rphase' = rphase \/ rphase' = "raised"
  PROVE  ReductionInv'
<1>1. VecInv /\ VecCovers /\ (rphase = "runs" => RunInv)
  BY DEF ReductionInv
<1>2. VecInv'
  BY <1>1 DEF VecInv, Once, OnceIn, Elements
<1>3. VecCovers'
  BY <1>1 DEF VecCovers, Exact, Sliced, Held, OnceIn, ElementAt, InSlice, Elements
<1>4. rphase' = "runs" => RunInv'
  <2> SUFFICES ASSUME rphase' = "runs" PROVE RunInv'
    OBVIOUS
  <2>1. RunInv /\ StageFixed
    BY <1>1 DEF StageFixed
  <2>2. PICK n \in Nat \ {0} : LaunchInv(n)
    BY <2>1 DEF RunInv
  <2>3. \A k : InSlice(k)' <=> InSlice(k)
    BY <2>1, FixedIs
  <2>4. (Exact' <=> Exact) /\ Items' = Items
    BY <2>1, FixedIs
  <2>5. LaunchInv(n)'
    BY <2>2, <2>3, <2>4 DEF LaunchInv
  <2>6. ASSUME NEW g \in DOMAIN cur_size PROVE GroupInv(g)'
    <3>1. GroupInv(g)
      BY <2>1 DEF RunInv
    <3>2. \A h : GroupShare(h)' = GroupShare(h)
      BY <2>1, FixedIs
    <3>3. ASSUME NEW l \in Items PROVE ItemInv(g, l)'
      <4>1. ItemInv(g, l)
        BY <3>1 DEF GroupInv
      <4>2. Width(g, l)' = Width(g, l)
        BY DEF Width
      <4> DEFINE w == Width(g, l)
      <4>3. Share(g, w, l)' = Share(g, w, l)
        BY <2>1, <4>2 DEF Share, Once, Held, OnceIn, OfItem, InGroup, Elements, ElementAt, InSlice, StageFixed
      <4>4. Share(g, group_size, l)' = Share(g, group_size, l)
        BY <2>1 DEF Share, Once, Held, OnceIn, OfItem, InGroup, Elements, ElementAt, InSlice, StageFixed
      <4> QED
        BY <4>1, <4>2, <4>3, <4>4 DEF ItemInv
    <3> QED
      BY <2>4, <3>1, <3>2, <3>3 DEF GroupInv
  <2> QED
    BY <2>1, <2>5, <2>6 DEF RunInv
<1>5. rphase' = "done" /\ Exact' => rresult'[0] = Once(Sliced)'
  BY DEF ReductionInv, Exact, Once, Sliced, Elements
<1> QED
  BY <1>2, <1>3, <1>4, <1>5 DEF ReductionInv

(* Whatever the size, the slice, the group size and the two limits, a      *)
(* reduction that returns has put every element of its slice into the      *)
(* result once and no other, if the slice ends with a whole step.          *)
THEOREM EveryElementIsReducedOnce == ReductionSpec => []EachElementOnce
<1>1. ReductionInit => ReductionInv
  BY FirstStage
<1>2. ReductionInv /\ [ReductionNext]_redvars => ReductionInv'
  <2> SUFFICES ASSUME ReductionInv, [ReductionNext]_redvars PROVE ReductionInv'
    OBVIOUS
  <2>1. CASE BuildStages
    BY <2>1, BuildStep
  <2>2. CASE LaunchStage
    BY <2>2, StageLaunched
  <2>3. CASE NothingToReduce
    BY <2>3, ReductionStutters DEF NothingToReduce
  <2>4. CASE NextStage
    BY <2>4, StageFollows
  <2>5. CASE ReturnResult
    BY <2>5, LastStage
  <2>6. ASSUME NEW g \in DOMAIN cur_size, NEW l \in Items, Accumulate(g, l) PROVE ReductionInv'
    BY <2>6, AccumulateStep
  <2>7. ASSUME NEW g \in DOMAIN cur_size, NEW l \in Items, ReduceTree(g, l) PROVE ReductionInv'
    BY <2>7, ReduceTreeStep
  <2>8. ASSUME NEW g \in DOMAIN cur_size, ReductionBarrier(g) PROVE ReductionInv'
    BY <2>8, BarrierStep
  <2>9. CASE UNCHANGED redvars
    BY <2>9, ReductionStutters DEF redvars
  <2> QED
    BY <2>1, <2>2, <2>3, <2>4, <2>5, <2>6, <2>7, <2>8, <2>9 DEF ReductionNext
<1>3. ReductionInv => EachElementOnce
  BY DEF ReductionInv, EachElementOnce, Exact, Once
<1> QED
  BY <1>1, <1>2, <1>3, PTL DEF ReductionSpec
====
