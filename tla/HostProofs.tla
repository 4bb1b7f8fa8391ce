------------------------------- MODULE HostProofs -------------------------------
(***************************************************************************)
(* What the host promises while threads take turns, for any number of      *)
(* threads: the arguments of a kernel that several of them may use, and    *)
(* the memory that transfers use.                                          *)
(***************************************************************************)
EXTENDS Programs, Transfers, SequenceTheorems, Induction, TLAPS

-----------------------------------------------------------------------------
(* The arguments of a kernel.                                              *)

Dtypes == {"None", "vector", "vector_offset", "other", "int", "float", "complex64", "complex128"}
Part == Nat \X {"all", "real", "imag"}

(* f holds the beginnings of what FlattenSeq makes of parts.               *)
Joins(f, parts, A) ==
  /\ f \in [0 .. Len(parts) -> Seq(A)] /\ f[0] = << >>
  /\ \A i \in 1 .. Len(parts) : f[i] = f[i - 1] \o parts[i]

LEMMA FlattenIs ==
  ASSUME NEW A, NEW parts \in Seq(Seq(A))
  PROVE  \E f : Joins(f, parts, A) /\ FlattenSeq(parts) = f[Len(parts)]
<1> DEFINE n == Len(parts)
<1>1. n \in Nat /\ \A i \in 1 .. n : parts[i] \in Seq(A)
  BY LenProperties
<1> DEFINE G == [x \in Nat \X Seq(A) |-> IF x[1] + 1 \in 1 .. n THEN x[2] \o parts[x[1] + 1] ELSE x[2]]
<1>2. \A x \in Nat \X Seq(A) : (IF x[1] + 1 \in 1 .. n THEN x[2] \o parts[x[1] + 1] ELSE x[2]) \in Seq(A)
  <2> SUFFICES ASSUME NEW x \in Nat \X Seq(A), x[1] + 1 \in 1 .. n PROVE x[2] \o parts[x[1] + 1] \in Seq(A)
    OBVIOUS
  <2>1. x[2] \in Seq(A) /\ parts[x[1] + 1] \in Seq(A)
    BY <1>1
  <2> HIDE DEF n
  <2> QED
    BY <2>1, ConcatProperties
<1>3. /\ G \in [Nat \X Seq(A) -> Seq(A)]
      /\ \A i \in 1 .. n, s \in Seq(A) : G[<<i - 1, s>>] = s \o parts[i]
  <2>1. G \in [Nat \X Seq(A) -> Seq(A)]
    BY <1>2
  <2>2. ASSUME NEW i \in 1 .. n, NEW s \in Seq(A) PROVE G[<<i - 1, s>>] = s \o parts[i]
    <3>1. (i - 1) + 1 = i /\ <<i - 1, s>> \in Nat \X Seq(A) /\ <<i - 1, s>>[1] = i - 1 /\ <<i - 1, s>>[2] = s
      BY <1>1
    <3> HIDE DEF n
    <3> QED
      BY <3>1
  <2> QED
    BY <2>1, <2>2
<1> HIDE DEF G
<1>4. PICK f \in [0 .. n -> Seq(A)] : f[0] = << >> /\ \A i \in 1 .. n : f[i] = G[<<i - 1, f[i - 1]>>]
  <2>1. << >> \in Seq(A)
    OBVIOUS
  <2> DEFINE Q == Seq(A)
             e == << >>
  <2>2. Iterable(Q, e, G)
    BY <1>3, <2>1 DEF Iterable
  <2> HIDE DEF n, Q, e
  <2>3. PICK f : IteratesTo(n, f, Q, e, G)
    BY <1>1, <2>2, BoundedIteration
  <2> QED
    BY <2>3 DEF IteratesTo, Q, e
<1>5. \A i \in 1 .. n : f[i] = f[i - 1] \o parts[i]
  <2> SUFFICES ASSUME NEW i \in 1 .. n PROVE f[i] = f[i - 1] \o parts[i]
    OBVIOUS
  <2>1. i - 1 \in 0 .. n
    BY <1>1
  <2>2. f[i - 1] \in Seq(A)
    BY <2>1
  <2> HIDE DEF n
  <2> QED
    BY <1>3, <1>4, <2>2
<1> DEFINE Flat(h) == h = [i \in 1 .. n |-> IF i = 1 THEN parts[i] ELSE h[i - 1] \o parts[i]]
           h0 == [i \in 1 .. n |-> f[i]]
<1>6. Flat(h0)
  <2>1. ASSUME NEW i \in 1 .. n PROVE f[i] = IF i = 1 THEN parts[i] ELSE h0[i - 1] \o parts[i]
    <3>1. CASE i = 1
      <4>1. f[1] = << >> \o parts[1] /\ parts[1] \in Seq(A)
        <5>1. 1 \in 1 .. n /\ 1 - 1 = 0
          BY <1>1, <3>1
        <5> HIDE DEF n
        <5>2. f[1] = f[1 - 1] \o parts[1]
          BY <1>5, <5>1
        <5> QED
          BY <1>1, <1>4, <5>1, <5>2
      <4>2. << >> \o parts[1] = parts[1]
        BY <4>1, ConcatEmptySeq
      <4> QED
        BY <3>1, <4>1, <4>2
    <3>2. CASE i # 1
      <4>1. i - 1 \in 1 .. n
        BY <1>1, <3>2
      <4>2. h0[i - 1] = f[i - 1]
        BY <4>1
      <4> HIDE DEF h0
      <4> QED
        BY <1>5, <3>2, <4>2
    <3> QED
      BY <3>1, <3>2
  <2>2. h0 = [i \in 1 .. n |-> IF i = 1 THEN parts[i] ELSE h0[i - 1] \o parts[i]]
    BY <2>1
  <2> QED
    BY <2>2
<1> DEFINE h == CHOOSE k : Flat(k)
<1>7. Flat(h)
  <2> HIDE DEF Flat, h0
  <2> QED
    BY <1>6
<1>8. FlattenSeq(parts) = IF n = 0 THEN parts ELSE h[n]
  BY DEF FlattenSeq
<1> HIDE DEF h
<1>9. \A i \in 1 .. n : h[i] = f[i]
  <2> DEFINE S == {i \in 0 .. n : i # 0 => h[i] = f[i]}
  <2>1. 0 \in S
    BY <1>1
  <2>2. ASSUME NEW i \in 1 .. n, i - 1 \in S PROVE i \in S
    <3>1. h[i] = IF i = 1 THEN parts[i] ELSE h[i - 1] \o parts[i]
      BY <1>7
    <3>2. h0[i] = IF i = 1 THEN parts[i] ELSE h0[i - 1] \o parts[i]
      BY <1>6
    <3>3. h0[i] = f[i] /\ (i # 1 => h0[i - 1] = f[i - 1] /\ h[i - 1] = f[i - 1])
      BY <1>1, <2>2
    <3>4. h[i] = f[i]
      BY <3>1, <3>2, <3>3, Zenon
    <3> QED
      BY <1>1, <3>4
  <2> HIDE DEF S, n
  <2>3. \A i \in 0 .. n : i \in S
    BY <1>1, <2>1, <2>2, BoundedInduction
  <2>4. \A i \in 1 .. n : i \in 0 .. n /\ i # 0
    BY <1>1
  <2> QED
    BY <2>3, <2>4 DEF S
<1>10. FlattenSeq(parts) = f[n]
  <2>1. CASE n = 0
    <3>1. parts = << >>
      BY <2>1
    <3> QED
      BY <1>4, <1>8, <2>1, <3>1
  <2>2. CASE n # 0
    <3>1. n \in 1 .. n
      BY <1>1, <2>2
    <3> QED
      BY <1>8, <1>9, <2>2, <3>1
  <2> QED
    BY <2>1, <2>2
<1> QED
  BY <1>4, <1>5, <1>10 DEF Joins

(* Two lists of parts, the second splitting whatever the first one splits: *)
(* as many slots are the same slots.                                       *)
LEMMA SplitsTell ==
  ASSUME NEW A, NEW p \in Seq(Seq(A)), NEW q \in Seq(Seq(A)), Len(p) = Len(q),
         \A i \in 1 .. Len(p) : p[i] = q[i] \/ Len(p[i]) < Len(q[i]),
         Len(FlattenSeq(p)) = Len(FlattenSeq(q))
  PROVE  FlattenSeq(p) = FlattenSeq(q)
<1> DEFINE n == Len(p)
<1>1. n \in Nat /\ \A i \in 1 .. n : p[i] \in Seq(A) /\ q[i] \in Seq(A)
  BY LenProperties
<1>2. PICK f : Joins(f, p, A) /\ FlattenSeq(p) = f[n]
  BY FlattenIs
<1>3. PICK g : Joins(g, q, A) /\ FlattenSeq(q) = g[n]
  BY FlattenIs
<1>4. /\ \A i \in 0 .. n : f[i] \in Seq(A) /\ g[i] \in Seq(A)
      /\ f[0] = << >> /\ g[0] = << >>
      /\ \A i \in 1 .. n : f[i] = f[i - 1] \o p[i] /\ g[i] = g[i - 1] \o q[i]
  BY <1>2, <1>3 DEF Joins
<1>5. \A i \in 1 .. n : p[i] = q[i] \/ Len(p[i]) < Len(q[i])
  OBVIOUS
<1> HIDE DEF n
<1> DEFINE S == {i \in 0 .. n : Len(f[i]) <= Len(g[i]) /\ (Len(f[i]) = Len(g[i]) => f[i] = g[i])}
<1>6. 0 \in S
  <2>1. Len(f[0]) = 0 /\ Len(g[0]) = 0
    BY <1>4
  <2> QED
    BY <1>1, <1>4, <2>1
<1>7. ASSUME NEW i \in 1 .. n, i - 1 \in S PROVE i \in S
  <2> DEFINE f0 == f[i - 1]
             g0 == g[i - 1]
             a  == p[i]
             b  == q[i]
  <2>1. f0 \in Seq(A) /\ g0 \in Seq(A) /\ a \in Seq(A) /\ b \in Seq(A)
    <3>1. i - 1 \in 0 .. n
      BY <1>1
    <3> QED
      BY <1>1, <1>4, <3>1
  <2>2. f[i] = f0 \o a /\ g[i] = g0 \o b /\ (a = b \/ Len(a) < Len(b))
    BY <1>4, <1>5
  <2>3. Len(f0) <= Len(g0) /\ (Len(f0) = Len(g0) => f0 = g0)
    BY <1>7
  <2> HIDE DEF f0, g0, a, b
  <2>4. Len(f[i]) = Len(f0) + Len(a) /\ Len(g[i]) = Len(g0) + Len(b)
    BY <2>1, <2>2, ConcatProperties
  <2>5. Len(f0) \in Nat /\ Len(g0) \in Nat /\ Len(a) \in Nat /\ Len(b) \in Nat
    BY <2>1, LenProperties
  <2>6. Len(f[i]) <= Len(g[i])
    BY <2>2, <2>3, <2>4, <2>5
  <2>7. ASSUME Len(f[i]) = Len(g[i]) PROVE f[i] = g[i]
    <3>1. Len(f0) = Len(g0) /\ ~(Len(a) < Len(b))
      BY <2>2, <2>3, <2>4, <2>5, <2>7
    <3> QED
      BY <2>2, <2>3, <3>1
  <2>8. i \in 0 .. n
    BY <1>1
  <2> QED
    BY <2>6, <2>7, <2>8
<1> HIDE DEF S
<1>8. \A i \in 0 .. n : i \in S
  BY <1>1, <1>6, <1>7, BoundedInduction
<1>9. n \in 0 .. n
  BY <1>1
<1> QED
  BY <1>2, <1>3, <1>8, <1>9 DEF S

(* The parts of arguments that are not split.                              *)
LEMMA WholeParts ==
  ASSUME NEW n \in Nat, NEW p \in Seq(Seq(Part)), Len(p) = n, \A i \in 1 .. n : p[i] = Whole(i)
  PROVE  FlattenSeq(p) = GenericBody(n)
<1>1. PICK f : Joins(f, p, Part) /\ FlattenSeq(p) = f[n]
  BY FlattenIs
<1>2. /\ \A i \in 0 .. n : f[i] \in Seq(Part)
      /\ f[0] = << >> /\ \A i \in 1 .. n : f[i] = f[i - 1] \o Whole(i)
  BY <1>1 DEF Joins
<1> DEFINE S == {i \in 0 .. n : Len(f[i]) = i /\ \A j \in 1 .. i : f[i][j] = <<j, "all">>}
<1>3. 0 \in S
  BY <1>2
<1>4. ASSUME NEW i \in 1 .. n, i - 1 \in S PROVE i \in S
  <2> DEFINE f0 == f[i - 1]
             w  == Whole(i)
             k  == i - 1
  <2>1. f[i] = f0 \o w /\ f0 \in Seq(Part) /\ Len(f0) = k /\ k \in Nat /\ i = k + 1
    <3>1. i - 1 \in 0 .. n /\ k \in Nat /\ i = k + 1
      OBVIOUS
    <3>2. Len(f0) = k
      BY <1>4
    <3>3. f[i] = f[i - 1] \o Whole(i) /\ f[i - 1] \in Seq(Part)
      BY <1>2, <3>1
    <3> QED
      BY <3>1, <3>2, <3>3
  <2>2. w \in Seq(Part) /\ Len(w) = 1 /\ w[1] = <<i, "all">>
    BY DEF Whole, Part
  <2>3. \A j \in 1 .. k : f0[j] = <<j, "all">>
    BY <1>4
  <2> HIDE DEF f0, w, k
  <2>4. /\ Len(f0 \o w) = Len(f0) + Len(w)
        /\ \A j \in 1 .. Len(f0) + Len(w) : (f0 \o w)[j] = IF j <= Len(f0) THEN f0[j] ELSE w[j - Len(f0)]
    BY <2>1, <2>2, ConcatProperties
  <2>5. Len(f[i]) = i /\ \A j \in 1 .. k + 1 : f[i][j] = IF j <= k THEN f0[j] ELSE w[j - k]
    BY <2>1, <2>2, <2>4
  <2>6. ASSUME NEW j \in 1 .. i PROVE f[i][j] = <<j, "all">>
    <3>1. j \in 1 .. k + 1 /\ (j <= k \/ j = k + 1)
      BY <2>1
    <3>2. CASE j <= k
      BY <2>3, <2>5, <3>1, <3>2
    <3>3. CASE j = k + 1
      <4>1. j - k = 1 /\ ~(j <= k) /\ j = i
        BY <2>1, <3>3
      <4> QED
        BY <2>2, <2>5, <3>1, <4>1
    <3> QED
      BY <3>1, <3>2, <3>3
  <2>7. i \in 0 .. n
    OBVIOUS
  <2> QED
    BY <2>5, <2>6, <2>7
<1> HIDE DEF S
<1>5. \A i \in 0 .. n : i \in S
  BY <1>3, <1>4, BoundedInduction
<1>6. Len(f[n]) = n /\ f[n] \in Seq(Part) /\ \A j \in 1 .. n : f[n][j] = <<j, "all">>
  BY <1>2, <1>5 DEF S
<1>7. f[n] = [j \in 1 .. n |-> f[n][j]]
  BY <1>6, LenProperties
<1> QED
  BY <1>1, <1>6, <1>7 DEF GenericBody

-----------------------------------------------------------------------------
(* Registers before each argument, counted by the device and by the code.  *)
DeviceTakes(dtypes, i, used) ==
  IF Fits(dtypes, i, used) THEN 2 ELSE IF dtypes[i] \in {"float", "complex64"} THEN 1 ELSE 0
CodeCounts(dtypes, i) ==
  CASE dtypes[i] \in {"complex64", "complex128"} -> 2
    [] dtypes[i] = "float" -> 1
    [] OTHER -> 0

LEMMA CodeCountsIs ==
  ASSUME NEW dtypes, NEW i, NEW used
  PROVE  CodeCounts(dtypes, i) \in {0, 1, 2} /\ DeviceTakes(dtypes, i, used) \in {0, 1, 2}
         /\ DeviceTakes(dtypes, i, used) <= CodeCounts(dtypes, i)
<1>1. CASE dtypes[i] = "complex128"
  BY <1>1 DEF CodeCounts, DeviceTakes
<1>2. CASE dtypes[i] = "complex64"
  BY <1>2 DEF CodeCounts, DeviceTakes, Fits
<1>3. CASE dtypes[i] = "float"
  BY <1>3 DEF CodeCounts, DeviceTakes, Fits
<1>4. CASE dtypes[i] \notin {"complex128", "complex64", "float"}
  BY <1>4 DEF CodeCounts, DeviceTakes, Fits
<1> QED
  BY <1>1, <1>2, <1>3, <1>4

LEMMA DeviceRegistersAre ==
  ASSUME NEW dtypes, NEW n \in Nat, Len(dtypes) = n
  PROVE  /\ DeviceRegisters(dtypes) \in [0 .. n -> Nat] /\ DeviceRegisters(dtypes)[0] = 0
         /\ \A i \in 1 .. n : DeviceRegisters(dtypes)[i] =
              DeviceRegisters(dtypes)[i - 1] + DeviceTakes(dtypes, i, DeviceRegisters(dtypes)[i - 1])
<1> DEFINE G == [x \in Nat \X Nat |-> x[2] + DeviceTakes(dtypes, x[1] + 1, x[2])]
           Eq(r) == r = [i \in 0 .. n |-> IF i = 0 THEN 0 ELSE r[i - 1] + DeviceTakes(dtypes, i, r[i - 1])]
           R == CHOOSE r : Eq(r)
<1>1. \A i, u \in Nat : u + DeviceTakes(dtypes, i + 1, u) \in Nat
  <2> SUFFICES ASSUME NEW i \in Nat, NEW u \in Nat PROVE u + DeviceTakes(dtypes, i + 1, u) \in Nat
    OBVIOUS
  <2>1. DeviceTakes(dtypes, i + 1, u) \in Nat
    BY CodeCountsIs
  <2> QED
    BY <2>1
<1>2. G \in [Nat \X Nat -> Nat] /\ \A i, u \in Nat : G[<<i, u>>] = u + DeviceTakes(dtypes, i + 1, u)
  BY <1>1
<1> HIDE DEF G
<1>3. PICK f : IteratesTo(n, f, Nat, 0, G)
  <2>1. Iterable(Nat, 0, G)
    BY <1>2 DEF Iterable
  <2> QED
    BY <2>1, BoundedIteration
<1>4. f \in [0 .. n -> Nat] /\ f[0] = 0 /\ \A i \in 1 .. n : f[i] = f[i - 1] + DeviceTakes(dtypes, i, f[i - 1])
  <2>1. f \in [0 .. n -> Nat] /\ f[0] = 0 /\ \A i \in 1 .. n : f[i] = G[<<i - 1, f[i - 1]>>]
    BY <1>3 DEF IteratesTo
  <2>2. ASSUME NEW i \in 1 .. n PROVE f[i] = f[i - 1] + DeviceTakes(dtypes, i, f[i - 1])
    <3>1. i - 1 \in Nat /\ i - 1 \in 0 .. n /\ (i - 1) + 1 = i
      OBVIOUS
    <3>2. f[i - 1] \in Nat
      BY <2>1, <3>1
    <3>3. G[<<i - 1, f[i - 1]>>] = f[i - 1] + DeviceTakes(dtypes, (i - 1) + 1, f[i - 1])
      BY <1>2, <3>1, <3>2
    <3> QED
      BY <2>1, <3>1, <3>3
  <2> QED
    BY <2>1, <2>2
<1>5. Eq(f)
  <2>1. \A i \in 0 .. n : f[i] = IF i = 0 THEN 0 ELSE f[i - 1] + DeviceTakes(dtypes, i, f[i - 1])
    BY <1>4
  <2>2. f = [i \in 0 .. n |-> f[i]]
    BY <1>4
  <2> QED
    BY <2>1, <2>2
<1>6. Eq(R)
  <2> HIDE DEF Eq
  <2> QED
    BY <1>5
<1>7. DeviceRegisters(dtypes) = R
  BY DEF DeviceRegisters, DeviceTakes
<1> HIDE DEF R
<1>8. /\ R = [i \in 0 .. n |-> R[i]] /\ R[0] = 0
      /\ \A i \in 1 .. n : R[i] = R[i - 1] + DeviceTakes(dtypes, i, R[i - 1])
  <2>1. R = [i \in 0 .. n |-> IF i = 0 THEN 0 ELSE R[i - 1] + DeviceTakes(dtypes, i, R[i - 1])]
    BY <1>6
  <2>2. \A i \in 0 .. n : R[i] = IF i = 0 THEN 0 ELSE R[i - 1] + DeviceTakes(dtypes, i, R[i - 1])
    BY <2>1
  <2>3. DOMAIN R = 0 .. n
    BY <2>1
  <2>4. R = [i \in 0 .. n |-> R[i]]
    BY <2>1, <2>3
  <2>5. 0 \in 0 .. n /\ \A i \in 1 .. n : i \in 0 .. n /\ i # 0
    OBVIOUS
  <2> HIDE DEF Eq
  <2>6. R[0] = 0
    BY <2>2, <2>5
  <2> QED
    BY <2>2, <2>4, <2>5, <2>6
<1> DEFINE S == {i \in 0 .. n : R[i] \in Nat}
<1>9. \A i \in 0 .. n : i \in S
  <2>1. 0 \in S
    BY <1>8
  <2>2. ASSUME NEW i \in 1 .. n, i - 1 \in S PROVE i \in S
    <3>1. DeviceTakes(dtypes, i, R[i - 1]) \in Nat
      BY CodeCountsIs
    <3>2. R[i - 1] \in Nat /\ i \in 0 .. n
      BY <2>2
    <3>3. R[i] = R[i - 1] + DeviceTakes(dtypes, i, R[i - 1])
      BY <1>8
    <3>4. R[i] \in Nat
      BY <3>1, <3>2, <3>3
    <3> QED
      BY <3>2, <3>4
  <2> HIDE DEF S
  <2> QED
    BY <2>1, <2>2, BoundedInduction
<1> QED
  BY <1>7, <1>8, <1>9

LEMMA FpArgCountIs ==
  ASSUME NEW dtypes, NEW n \in Nat, Len(dtypes) = n
  PROVE  /\ fp_arg_count(dtypes) \in [0 .. n -> Nat] /\ fp_arg_count(dtypes)[0] = 0
         /\ \A i \in 1 .. n : fp_arg_count(dtypes)[i] = fp_arg_count(dtypes)[i - 1] + CodeCounts(dtypes, i)
<1> DEFINE G == [x \in Nat \X Nat |-> x[2] + CodeCounts(dtypes, x[1] + 1)]
           Eq(r) == r = [i \in 0 .. n |-> IF i = 0 THEN 0 ELSE r[i - 1] + CodeCounts(dtypes, i)]
           R == CHOOSE r : Eq(r)
<1>1. \A i, u \in Nat : u + CodeCounts(dtypes, i + 1) \in Nat
  <2> SUFFICES ASSUME NEW i \in Nat, NEW u \in Nat PROVE u + CodeCounts(dtypes, i + 1) \in Nat
    OBVIOUS
  <2>1. CodeCounts(dtypes, i + 1) \in Nat
    BY CodeCountsIs
  <2> QED
    BY <2>1
<1>2. G \in [Nat \X Nat -> Nat] /\ \A i, u \in Nat : G[<<i, u>>] = u + CodeCounts(dtypes, i + 1)
  BY <1>1
<1> HIDE DEF G
<1>3. PICK f : IteratesTo(n, f, Nat, 0, G)
  <2>1. Iterable(Nat, 0, G)
    BY <1>2 DEF Iterable
  <2> QED
    BY <2>1, BoundedIteration
<1>4. f \in [0 .. n -> Nat] /\ f[0] = 0 /\ \A i \in 1 .. n : f[i] = f[i - 1] + CodeCounts(dtypes, i)
  <2>1. f \in [0 .. n -> Nat] /\ f[0] = 0 /\ \A i \in 1 .. n : f[i] = G[<<i - 1, f[i - 1]>>]
    BY <1>3 DEF IteratesTo
  <2>2. ASSUME NEW i \in 1 .. n PROVE f[i] = f[i - 1] + CodeCounts(dtypes, i)
    <3>1. i - 1 \in Nat /\ i - 1 \in 0 .. n /\ (i - 1) + 1 = i
      OBVIOUS
    <3>2. f[i - 1] \in Nat
      BY <2>1, <3>1
    <3>3. G[<<i - 1, f[i - 1]>>] = f[i - 1] + CodeCounts(dtypes, (i - 1) + 1)
      BY <1>2, <3>1, <3>2
    <3> QED
      BY <2>1, <3>1, <3>3
  <2> QED
    BY <2>1, <2>2
<1>5. Eq(f)
  <2>1. \A i \in 0 .. n : f[i] = IF i = 0 THEN 0 ELSE f[i - 1] + CodeCounts(dtypes, i)
    BY <1>4
  <2>2. f = [i \in 0 .. n |-> f[i]]
    BY <1>4
  <2> QED
    BY <2>1, <2>2
<1>6. Eq(R)
  <2> HIDE DEF Eq
  <2> QED
    BY <1>5
<1>7. fp_arg_count(dtypes) = R
  BY DEF fp_arg_count, CodeCounts
<1> HIDE DEF R
<1>8. /\ R = [i \in 0 .. n |-> R[i]] /\ R[0] = 0
      /\ \A i \in 1 .. n : R[i] = R[i - 1] + CodeCounts(dtypes, i)
  <2>1. R = [i \in 0 .. n |-> IF i = 0 THEN 0 ELSE R[i - 1] + CodeCounts(dtypes, i)]
    BY <1>6
  <2>2. \A i \in 0 .. n : R[i] = IF i = 0 THEN 0 ELSE R[i - 1] + CodeCounts(dtypes, i)
    BY <2>1
  <2>3. DOMAIN R = 0 .. n
    BY <2>1
  <2>4. R = [i \in 0 .. n |-> R[i]]
    BY <2>1, <2>3
  <2>5. 0 \in 0 .. n /\ \A i \in 1 .. n : i \in 0 .. n /\ i # 0
    OBVIOUS
  <2> HIDE DEF Eq
  <2>6. R[0] = 0
    BY <2>2, <2>5
  <2> QED
    BY <2>2, <2>4, <2>5, <2>6
<1> DEFINE S == {i \in 0 .. n : R[i] \in Nat}
<1>9. \A i \in 0 .. n : i \in S
  <2>1. 0 \in S
    BY <1>8
  <2>2. ASSUME NEW i \in 1 .. n, i - 1 \in S PROVE i \in S
    <3>1. CodeCounts(dtypes, i) \in Nat
      BY CodeCountsIs
    <3>2. R[i - 1] \in Nat /\ i \in 0 .. n
      BY <2>2
    <3>3. R[i] = R[i - 1] + CodeCounts(dtypes, i)
      BY <1>8
    <3>4. R[i] \in Nat
      BY <3>1, <3>2, <3>3
    <3> QED
      BY <3>2, <3>4
  <2> HIDE DEF S
  <2> QED
    BY <2>1, <2>2, BoundedInduction
<1> QED
  BY <1>7, <1>8, <1>9

(* The code counts at least as many registers as the device takes, so it   *)
(* splits no argument that the device takes whole.                         *)
LEMMA CodeCountsMore ==
  ASSUME NEW dtypes, NEW n \in Nat, Len(dtypes) = n
  PROVE  \A i \in 0 .. n : DeviceRegisters(dtypes)[i] <= fp_arg_count(dtypes)[i]
<1> DEFINE r == DeviceRegisters(dtypes)
           c == fp_arg_count(dtypes)
           S == {i \in 0 .. n : r[i] <= c[i]}
<1>1. /\ r \in [0 .. n -> Nat] /\ r[0] = 0
      /\ \A i \in 1 .. n : r[i] = r[i - 1] + DeviceTakes(dtypes, i, r[i - 1])
  BY DeviceRegistersAre
<1>2. /\ c \in [0 .. n -> Nat] /\ c[0] = 0
      /\ \A i \in 1 .. n : c[i] = c[i - 1] + CodeCounts(dtypes, i)
  BY FpArgCountIs
<1> HIDE DEF r, c
<1>3. 0 \in S
  BY <1>1, <1>2
<1>4. ASSUME NEW i \in 1 .. n, i - 1 \in S PROVE i \in S
  <2> DEFINE a == DeviceTakes(dtypes, i, r[i - 1])
             b == CodeCounts(dtypes, i)
  <2>1. a \in {0, 1, 2} /\ b \in {0, 1, 2} /\ a <= b
    BY CodeCountsIs
  <2>2. r[i] = r[i - 1] + a /\ c[i] = c[i - 1] + b
    BY <1>1, <1>2
  <2>3. r[i - 1] <= c[i - 1] /\ r[i - 1] \in Nat /\ c[i - 1] \in Nat /\ i \in 0 .. n
    BY <1>1, <1>2, <1>4
  <2> HIDE DEF a, b
  <2>4. r[i] <= c[i]
    <3>1. a \in Nat /\ b \in Nat
      BY <2>1
    <3>2. \A w, x, y, z \in Nat : w <= x /\ y <= z => w + y <= x + z
      OBVIOUS
    <3> QED
      BY <2>1, <2>2, <2>3, <3>1, <3>2
  <2> QED
    BY <2>3, <2>4
<1> HIDE DEF S
<1>5. \A i \in 0 .. n : i \in S
  BY <1>3, <1>4, BoundedInduction
<1> QED
  BY <1>5 DEF S, r, c

LEMMA PartsAre ==
  ASSUME NEW dtypes \in Seq(Dtypes), NEW used
  PROVE  /\ Parts(dtypes, used) \in Seq(Seq(Part)) /\ Len(Parts(dtypes, used)) = Len(dtypes)
         /\ \A i \in 1 .. Len(dtypes) : Parts(dtypes, used)[i] =
              IF bug = "pocl" /\ Fits(dtypes, i, used[i - 1]) THEN Split(i) ELSE Whole(i)
<1> DEFINE n == Len(dtypes)
           p(i) == IF bug = "pocl" /\ Fits(dtypes, i, used[i - 1]) THEN Split(i) ELSE Whole(i)
<1>1. n \in Nat /\ DOMAIN dtypes = 1 .. n
  BY LenProperties
<1>2. \A i \in 1 .. n : p(i) \in Seq(Part)
  <2>1. \A i \in 1 .. n : Whole(i) \in Seq(Part) /\ Split(i) \in Seq(Part)
    BY DEF Whole, Split, Part
  <2> QED
    BY <2>1
<1>3. Parts(dtypes, used) = [i \in 1 .. n |-> p(i)]
  BY <1>1 DEF Parts
<1> HIDE DEF n, p
<1>4. [i \in 1 .. n |-> p(i)] \in Seq(Seq(Part))
  BY <1>1, <1>2
<1>5. Len([i \in 1 .. n |-> p(i)]) = n
  BY <1>1
<1>6. \A i \in 1 .. n : Parts(dtypes, used)[i] = p(i)
  BY <1>3
<1> QED
  BY <1>3, <1>4, <1>5, <1>6 DEF n, p

(* A body that was generated agrees with the device in the number of       *)
(* arguments.                                                              *)
LEMMA BodyAgrees ==
  ASSUME NEW sig
  PROVE  /\ HandlingBody(sig, TRUE).setters = SpecificBody(ArgDtypes(sig)).setters
         /\ HandlingBody(sig, FALSE).setters = GenericBody(Len(DeviceSlots(ArgDtypes(sig))))
         /\ ~HandlingBody(sig, TRUE).raised =>
              Len(SpecificBody(ArgDtypes(sig)).setters) = Len(DeviceSlots(ArgDtypes(sig)))
         /\ ~HandlingBody(sig, FALSE).raised =>
              Len(DeviceSlots(ArgDtypes(sig))) = Len(ArgDtypes(sig))
BY DEF HandlingBody

(* What is set are the slots that the device has.                          *)
LEMMA BodySetsSlots ==
  ASSUME NEW sig, ArgDtypes(sig) \in Seq(Dtypes), NEW specific \in BOOLEAN,
         ~HandlingBody(sig, specific).raised
  PROVE  HandlingBody(sig, specific).setters = DeviceSlots(ArgDtypes(sig))
<1> DEFINE d == ArgDtypes(sig)
           n == Len(d)
           r == DeviceRegisters(d)
           c == fp_arg_count(d)
           p == Parts(d, c)
           q == Parts(d, r)
<1>1. n \in Nat /\ d \in Seq(Dtypes)
  BY LenProperties
<1>2. \A i \in 1 .. n : r[i - 1] <= c[i - 1] /\ r[i - 1] \in Nat /\ c[i - 1] \in Nat
  <2>1. \A i \in 0 .. n : r[i] <= c[i]
    BY <1>1, CodeCountsMore
  <2>2. r \in [0 .. n -> Nat]
    BY <1>1, DeviceRegistersAre
  <2>3. c \in [0 .. n -> Nat]
    BY <1>1, FpArgCountIs
  <2> HIDE DEF n, r, c
  <2> SUFFICES ASSUME NEW i \in 1 .. n PROVE r[i - 1] <= c[i - 1] /\ r[i - 1] \in Nat /\ c[i - 1] \in Nat
    OBVIOUS
  <2>4. i - 1 \in 0 .. n
    BY <1>1
  <2> QED
    BY <2>1, <2>2, <2>3, <2>4
<1>3. /\ p \in Seq(Seq(Part)) /\ Len(p) = n
      /\ \A i \in 1 .. n : p[i] = IF bug = "pocl" /\ Fits(d, i, c[i - 1]) THEN Split(i) ELSE Whole(i)
  BY <1>1, PartsAre
<1>4. /\ q \in Seq(Seq(Part)) /\ Len(q) = n
      /\ \A i \in 1 .. n : q[i] = IF bug = "pocl" /\ Fits(d, i, r[i - 1]) THEN Split(i) ELSE Whole(i)
  BY <1>1, PartsAre
<1>5. DeviceSlots(d) = FlattenSeq(q)
  BY DEF DeviceSlots
<1>6. \A i : Len(Whole(i)) = 1 /\ Len(Split(i)) = 2
  BY DEF Whole, Split
<1>7. /\ HandlingBody(sig, TRUE).setters = SpecificBody(d).setters
      /\ HandlingBody(sig, FALSE).setters = GenericBody(Len(DeviceSlots(d)))
      /\ ~HandlingBody(sig, TRUE).raised => Len(SpecificBody(d).setters) = Len(DeviceSlots(d))
      /\ ~HandlingBody(sig, FALSE).raised => Len(DeviceSlots(d)) = n
  BY BodyAgrees
<1>8. SpecificBody(d).setters = FlattenSeq(p)
  BY DEF SpecificBody
<1> HIDE DEF n, r, c, p, q, d
<1>9. CASE specific = TRUE
  <2>1. Len(SpecificBody(d).setters) = Len(DeviceSlots(d)) /\ HandlingBody(sig, specific).setters = FlattenSeq(p)
    <3>1. ~HandlingBody(sig, TRUE).raised
      BY <1>9, Zenon
    <3>2. Len(SpecificBody(d).setters) = Len(DeviceSlots(d))
      BY <1>7, <3>1
    <3> QED
      BY <1>7, <1>8, <1>9, <3>2, Zenon
  <2>2. \A i \in 1 .. n : p[i] = q[i] \/ Len(p[i]) < Len(q[i])
    <3> SUFFICES ASSUME NEW i \in 1 .. n PROVE p[i] = q[i] \/ Len(p[i]) < Len(q[i])
      OBVIOUS
    <3> DEFINE ci == c[i - 1]
               ri == r[i - 1]
    <3>1. ri <= ci /\ ri \in Nat /\ ci \in Nat /\ max_fp_args \in Nat
      BY <1>2, ProgramsAssumption
    <3>2. /\ p[i] = IF bug = "pocl" /\ Fits(d, i, ci) THEN Split(i) ELSE Whole(i)
          /\ q[i] = IF bug = "pocl" /\ Fits(d, i, ri) THEN Split(i) ELSE Whole(i)
      BY <1>3, <1>4
    <3>3. Len(Whole(i)) = 1 /\ Len(Split(i)) = 2
      BY <1>6
    <3> HIDE DEF ci, ri
    <3>4. Fits(d, i, ci) => Fits(d, i, ri)
      BY <3>1 DEF Fits
    <3>5. p[i] = q[i] \/ (p[i] = Whole(i) /\ q[i] = Split(i))
      BY <3>2, <3>4, Zenon
    <3>6. 1 < 2
      OBVIOUS
    <3> QED
      BY <3>3, <3>5, <3>6, Zenon
  <2>3. FlattenSeq(p) = FlattenSeq(q)
    BY <1>3, <1>4, <1>5, <1>8, <2>1, <2>2, SplitsTell
  <2> QED
    BY <1>5, <2>1, <2>3 DEF d
<1>10. CASE specific = FALSE
  <2>1. Len(DeviceSlots(d)) = n /\ HandlingBody(sig, specific).setters = GenericBody(n)
    <3>1. ~HandlingBody(sig, FALSE).raised
      BY <1>10, Zenon
    <3>2. Len(DeviceSlots(d)) = n
      BY <1>7, <3>1
    <3> QED
      BY <1>7, <1>10, <3>2, Zenon
  <2> DEFINE w == [i \in 1 .. n |-> Whole(i)]
  <2>2. w \in Seq(Seq(Part)) /\ Len(w) = n /\ \A i \in 1 .. n : w[i] = Whole(i)
    <3>1. \A i \in 1 .. n : Whole(i) \in Seq(Part)
      BY DEF Whole, Part
    <3>2. w \in [1 .. n -> Seq(Part)]
      BY <3>1
    <3> QED
      BY <1>1, <3>2
  <2> HIDE DEF w
  <2>3. FlattenSeq(w) = GenericBody(n)
    BY <1>1, <2>2, WholeParts
  <2>4. Len(GenericBody(n)) = n
    BY <1>1 DEF GenericBody
  <2>5. \A i \in 1 .. n : w[i] = q[i] \/ Len(w[i]) < Len(q[i])
    <3> SUFFICES ASSUME NEW i \in 1 .. n PROVE w[i] = q[i] \/ Len(w[i]) < Len(q[i])
      OBVIOUS
    <3>1. w[i] = Whole(i) /\ q[i] \in {Whole(i), Split(i)}
      BY <1>4, <2>2
    <3>2. Len(Whole(i)) = 1 /\ Len(Split(i)) = 2
      BY <1>6
    <3>3. 1 < 2
      OBVIOUS
    <3> QED
      BY <3>1, <3>2, <3>3, Zenon
  <2>6. FlattenSeq(w) = FlattenSeq(q)
    <3>1. Len(FlattenSeq(w)) = Len(FlattenSeq(q))
      BY <1>5, <2>1, <2>3, <2>4
    <3>2. \A i \in 1 .. Len(w) : w[i] = q[i] \/ Len(w[i]) < Len(q[i])
      BY <2>2, <2>5
    <3>3. w \in Seq(Seq(Part)) /\ q \in Seq(Seq(Part)) /\ Len(w) = Len(q)
      BY <1>4, <2>2
    <3> HIDE DEF Part
    <3> QED
      BY <3>1, <3>2, <3>3, SplitsTell
  <2> QED
    BY <1>5, <2>1, <2>3, <2>6 DEF d
<1> QED
  BY <1>9, <1>10

(* The arguments of a call are of known types.                             *)
LEMMA ArgDtypesAre ==
  ASSUME NEW sig \in Seq(Kinds)
  PROVE  ArgDtypes(sig) \in Seq(Dtypes)
<1> DEFINE n == Len(sig)
           p(i) == CASE sig[i] = "vector" -> <<"None">>
                     [] sig[i] = "vector_offset" -> <<"None", "int">>
                     [] OTHER -> <<sig[i]>>
           parts == [i \in 1 .. n |-> p(i)]
<1>1. n \in Nat /\ DOMAIN sig = 1 .. n /\ \A i \in 1 .. n : sig[i] \in Kinds
  BY LenProperties
<1>2. ArgDtypes(sig) = FlattenSeq(parts)
  BY <1>1 DEF ArgDtypes
<1>3. \A i \in 1 .. n : p(i) \in Seq(Dtypes)
  <2> SUFFICES ASSUME NEW i \in 1 .. n PROVE p(i) \in Seq(Dtypes)
    OBVIOUS
  <2>1. sig[i] \in Dtypes
    BY <1>1 DEF Kinds, Dtypes
  <2>2. "None" \in Dtypes /\ "int" \in Dtypes
    BY DEF Dtypes
  <2> HIDE DEF n
  <2>3. <<"None">> \in Seq(Dtypes) /\ <<"None", "int">> \in Seq(Dtypes) /\ <<sig[i]>> \in Seq(Dtypes)
    BY <2>1, <2>2
  <2> QED
    BY <2>3
<1>4. parts \in Seq(Seq(Dtypes)) /\ Len(parts) = n
  <2>1. parts \in [1 .. n -> Seq(Dtypes)]
    BY <1>3
  <2> HIDE DEF n, p
  <2> QED
    BY <1>1, <2>1
<1> HIDE DEF parts
<1>5. PICK f : Joins(f, parts, Dtypes) /\ FlattenSeq(parts) = f[n]
  BY <1>4, FlattenIs
<1>6. n \in 0 .. n
  BY <1>1
<1> QED
  BY <1>2, <1>4, <1>5, <1>6 DEF Joins

-----------------------------------------------------------------------------
(* Programs, kernels and threads.                                          *)

(* What a slot of a kernel holds: nothing, or a part of an argument.       *)
Filled(call, part) == <<call>> \o part
Contents == {<< >>} \cup {Filled(call, part) : call \in Nat, part \in Part}
SlotLists == UNION {[1 .. n -> Contents] : n \in Nat}

KernelSet == [sig : Signatures, setters : Seq(Part), slots : SlotLists]
InCall == [at : {"args"}, knl : Nat, sig : Signatures, call : Nat, next : Nat \ {0}, alone : BOOLEAN]
ThreadSet ==
  {Idle} \cup InCall \cup [at : {"function"}, sig : Signatures, call : Nat, cleared : Nat]
         \cup [at : {"build"}, cached : BOOLEAN]

Want(sig) == DeviceSlots(ArgDtypes(sig))

(* A kernel sets what the device wants.                                    *)
Good(knl) == knl.setters = Want(knl.sig) /\ knl.slots \in [1 .. Len(knl.setters) -> Contents]

(* A thread that has the kernel to itself has set the slots up to the next.*)
HasSet(me, knl) ==
  /\ me.sig = knl.sig /\ me.next <= Len(knl.setters) + 1
  /\ me.alone => \A p \in 1 .. me.next - 1 : knl.slots[p] = Filled(me.call, knl.setters[p])

Types ==
  /\ kernels \in Seq(KernelSet) /\ thread \in [Threads -> ThreadSet]
  /\ memo \in [Signatures -> Nat] /\ calls \in Nat /\ cleared \in Nat
ContextInv ==
  /\ program \in [_prg : {"none", "raw", "compiled", "built"}, _context : BOOLEAN, attached : BOOLEAN]
  /\ ~program._context => program._prg = "built"
KernelsInv == \A k \in 1 .. Len(kernels) : Good(kernels[k])
MemoInv ==
  \A s \in Signatures : memo[s] # 0 => memo[s] \in 1 .. Len(kernels) /\ kernels[memo[s]].sig = s
ThreadsInv ==
  \A t \in Threads : thread[t].at = "args" =>
    thread[t].knl \in 1 .. Len(kernels) /\ HasSet(thread[t], kernels[thread[t].knl])
Right(run) ==
  run.alone => run.slots = [p \in DOMAIN Want(run.sig) |-> Filled(run.call, Want(run.sig)[p])]
LaunchInv == launched # << >> => Right(launched[1])

ProgramsInv == Types /\ ContextInv /\ KernelsInv /\ MemoInv /\ ThreadsInv /\ LaunchInv

(* The device does not change, so neither does what it wants.              *)
LEMMA WantStays ==
  ASSUME NEW sig, bug' = bug
  PROVE  Want(sig)' = Want(sig)
BY DEF Want, DeviceSlots, Parts

LEMMA WantIsASeq ==
  ASSUME NEW sig \in Signatures
  PROVE  Want(sig) \in Seq(Part)
<1> DEFINE d == ArgDtypes(sig)
           q == Parts(d, DeviceRegisters(d))
<1>1. d \in Seq(Dtypes)
  BY ArgDtypesAre, ProgramsAssumption
<1>2. q \in Seq(Seq(Part))
  BY <1>1, PartsAre
<1>3. Want(sig) = FlattenSeq(q)
  BY DEF Want, DeviceSlots
<1> HIDE DEF q, d
<1>4. PICK f : Joins(f, q, Part) /\ FlattenSeq(q) = f[Len(q)]
  BY <1>2, FlattenIs
<1>5. Len(q) \in 0 .. Len(q)
  BY <1>2, LenProperties
<1> QED
  BY <1>3, <1>4, <1>5 DEF Joins

(* A kernel that is made sets what the device wants, and nothing is set.   *)
LEMMA NewKernelIsGood ==
  ASSUME NEW sig \in Signatures, NEW specific \in BOOLEAN, ~HandlingBody(sig, specific).raised,
         NEW knl, knl = NewKernel(sig, HandlingBody(sig, specific))
  PROVE  knl \in KernelSet /\ knl.sig = sig /\ Good(knl)
<1>1. HandlingBody(sig, specific).setters = Want(sig)
  <2>1. ArgDtypes(sig) \in Seq(Dtypes)
    BY ArgDtypesAre, ProgramsAssumption
  <2> QED
    BY <2>1, BodySetsSlots DEF Want
<1> DEFINE w == Want(sig)
<1>2. w \in Seq(Part)
  BY WantIsASeq
<1>3. knl = [sig |-> sig, setters |-> w, slots |-> [p \in DOMAIN w |-> << >>]]
  BY <1>1 DEF NewKernel
<1> HIDE DEF w
<1>4. Len(w) \in Nat /\ DOMAIN w = 1 .. Len(w)
  BY <1>2, LenProperties
<1>5. [p \in DOMAIN w |-> << >>] \in [1 .. Len(w) -> Contents]
  BY <1>4 DEF Contents
<1> DEFINE e == [p \in DOMAIN w |-> << >>]
<1>7. e \in [1 .. Len(w) -> Contents]
  BY <1>5
<1>6. e \in SlotLists
  <2> HIDE DEF e
  <2>1. [1 .. Len(w) -> Contents] \in {[1 .. n -> Contents] : n \in Nat}
    BY <1>4
  <2> QED
    BY <1>7, <2>1 DEF SlotLists
<1>8. knl = [sig |-> sig, setters |-> w, slots |-> e]
  BY <1>3
<1> HIDE DEF e
<1>9. knl \in KernelSet
  BY <1>2, <1>6, <1>8 DEF KernelSet
<1>10. knl.sig = sig /\ knl.setters = w /\ knl.slots = e
  BY <1>8
<1> QED
  BY <1>7, <1>9, <1>10 DEF Good, w

-----------------------------------------------------------------------------
(* Kernels are only added.                                                 *)
More ==
  /\ kernels' \in Seq(KernelSet) /\ Len(kernels) <= Len(kernels')
  /\ \A k \in 1 .. Len(kernels) : kernels'[k] = kernels[k]
  /\ \A k \in 1 .. Len(kernels') : k > Len(kernels) => Good(kernels'[k])

LEMMA SameKernels ==
  ASSUME Types, UNCHANGED kernels
  PROVE  More
<1>1. kernels \in Seq(KernelSet) /\ Len(kernels) \in Nat
  BY LenProperties DEF Types
<1> QED
  BY <1>1 DEF More

LEMMA AddedKernel ==
  ASSUME Types, NEW knl \in KernelSet, Good(knl), kernels' = Append(kernels, knl)
  PROVE  More /\ Len(kernels') = Len(kernels) + 1 /\ Len(kernels') \in Nat \ {0} /\ kernels'[Len(kernels')] = knl
<1>1. kernels \in Seq(KernelSet) /\ Len(kernels) \in Nat
  BY LenProperties DEF Types
<1>2. /\ kernels' \in Seq(KernelSet) /\ Len(kernels') = Len(kernels) + 1
      /\ \A k \in 1 .. Len(kernels) : kernels'[k] = kernels[k]
      /\ kernels'[Len(kernels) + 1] = knl
  BY <1>1
<1>3. \A k \in 1 .. Len(kernels') : k > Len(kernels) => k = Len(kernels) + 1
  BY <1>1, <1>2
<1> QED
  BY <1>1, <1>2, <1>3 DEF More

LEMMA KernelsStayGood ==
  ASSUME Types, KernelsInv, bug' = bug, More
  PROVE  KernelsInv'
<1>1. \A knl : Good(knl)' <=> Good(knl)
  <2> SUFFICES ASSUME NEW CONSTANT knl PROVE Good(knl)' <=> Good(knl)
    OBVIOUS
  <2>1. Want(knl.sig)' = Want(knl.sig)
    BY WantStays
  <2> QED
    BY <2>1 DEF Good
<1> QED
  BY <1>1 DEF KernelsInv, More

(* What a thread in a call knows stays true of a kernel that stays.        *)
LEMMA ThreadsStay ==
  ASSUME Types, ThreadsInv, More, UNCHANGED thread
  PROVE  ThreadsInv' /\ thread' \in [Threads -> ThreadSet]
<1>1. Len(kernels) \in Nat /\ Len(kernels') \in Nat /\ Len(kernels) <= Len(kernels')
  BY LenProperties DEF Types, More
<1>2. ASSUME NEW t \in Threads, thread[t].at = "args"
      PROVE  thread[t].knl \in 1 .. Len(kernels') /\ HasSet(thread[t], kernels'[thread[t].knl])
  <2>1. thread[t].knl \in 1 .. Len(kernels) /\ HasSet(thread[t], kernels[thread[t].knl])
    BY <1>2 DEF ThreadsInv
  <2>2. kernels'[thread[t].knl] = kernels[thread[t].knl]
    BY <2>1 DEF More
  <2> QED
    BY <1>1, <2>1, <2>2
<1>3. thread' = thread /\ thread \in [Threads -> ThreadSet]
  BY DEF Types
<1>4. ThreadsInv'
  BY <1>2, <1>3 DEF ThreadsInv, HasSet
<1> QED
  BY <1>3, <1>4

(* A thread goes on to something else, or into a call whose kernel it has. *)
LEMMA ThreadBecomes ==
  ASSUME Types, ThreadsInv, More, NEW t \in Threads, NEW m \in ThreadSet, Becomes(t, m),
         m.at = "args" => m.knl \in 1 .. Len(kernels') /\ HasSet(m, kernels'[m.knl])
  PROVE  ThreadsInv' /\ thread' \in [Threads -> ThreadSet]
<1>1. Len(kernels) \in Nat /\ Len(kernels') \in Nat /\ Len(kernels) <= Len(kernels')
  BY LenProperties DEF Types, More
<1>2. thread \in [Threads -> ThreadSet] /\ thread' = [thread EXCEPT ![t] = m]
  BY DEF Types, Becomes
<1>3. thread'[t] = m /\ \A u \in Threads \ {t} : thread'[u] = thread[u]
  BY <1>2
<1>4. ASSUME NEW u \in Threads, thread'[u].at = "args"
      PROVE  thread'[u].knl \in 1 .. Len(kernels') /\ HasSet(thread'[u], kernels'[thread'[u].knl])
  <2>1. CASE u = t
    BY <1>3, <1>4, <2>1
  <2>2. CASE u # t
    <3>1. thread'[u] = thread[u]
      BY <1>3, <2>2
    <3>2. thread[u].knl \in 1 .. Len(kernels) /\ HasSet(thread[u], kernels[thread[u].knl])
      BY <1>4, <3>1 DEF ThreadsInv
    <3>3. kernels'[thread[u].knl] = kernels[thread[u].knl]
      BY <3>2 DEF More
    <3> QED
      BY <1>1, <3>1, <3>2, <3>3
  <2> QED
    BY <2>1, <2>2
<1>5. ThreadsInv'
  BY <1>4 DEF ThreadsInv, HasSet
<1>6. thread' \in [Threads -> ThreadSet]
  BY <1>2
<1> QED
  BY <1>5, <1>6

(* A call begins with no argument set.                                     *)
LEMMA CallBegins ==
  ASSUME NEW t, NEW k \in Nat, NEW sig \in Signatures, NEW call \in Nat,
         NEW knl, knl.sig = sig, Len(knl.setters) \in Nat
  PROVE  /\ Calling(t, k, sig, call) \in ThreadSet /\ Calling(t, k, sig, call).knl = k
         /\ HasSet(Calling(t, k, sig, call), knl)
<1> DEFINE m == Calling(t, k, sig, call)
<1>1. m = [at |-> "args", knl |-> k, sig |-> sig, call |-> call, next |-> 1, alone |-> TRUE]
  BY DEF Calling
<1>2. m \in InCall
  BY <1>1 DEF InCall
<1>3. m.knl = k /\ m.sig = sig /\ m.next = 1
  BY <1>1
<1> HIDE DEF m
<1>4. m.next <= Len(knl.setters) + 1 /\ \A p \in 1 .. m.next - 1 : FALSE
  BY <1>3
<1>5. HasSet(m, knl)
  BY <1>3, <1>4 DEF HasSet
<1>6. m \in ThreadSet
  BY <1>2 DEF ThreadSet
<1> QED
  BY <1>3, <1>5, <1>6 DEF m

LEMMA MemoStays ==
  ASSUME Types, MemoInv, More, UNCHANGED memo
  PROVE  MemoInv' /\ memo' \in [Signatures -> Nat]
<1>1. Len(kernels) \in Nat /\ Len(kernels') \in Nat /\ Len(kernels) <= Len(kernels')
  BY LenProperties DEF Types, More
<1> QED
  BY <1>1 DEF MemoInv, More, Types

(* What is right for a launch stays right.                                 *)
LEMMA RightStays ==
  ASSUME bug' = bug
  PROVE  \A run : Right(run)' <=> Right(run)
<1> SUFFICES ASSUME NEW CONSTANT run PROVE Right(run)' <=> Right(run)
  OBVIOUS
<1>1. Want(run.sig)' = Want(run.sig)
  BY WantStays
<1> QED
  BY <1>1 DEF Right

LEMMA LaunchStays ==
  ASSUME LaunchInv, UNCHANGED launched, bug' = bug
  PROVE  LaunchInv'
<1>1. \A run : Right(run)' <=> Right(run)
  BY RightStays
<1> QED
  BY <1>1 DEF LaunchInv

-----------------------------------------------------------------------------
LEMMA GetKernelStep ==
  ASSUME ProgramsInv, NEW t \in Threads, NEW sig \in Signatures, GetKernel(t, sig)
  PROVE  ProgramsInv'
<1>1. /\ bug' = bug /\ memo' = memo /\ cleared' = cleared /\ program' = program /\ kernels' = kernels
      /\ launched' = launched /\ calls' = calls + 1
  BY DEF GetKernel, Begin
<1>2. Types /\ KernelsInv /\ MemoInv /\ ThreadsInv /\ LaunchInv /\ ContextInv
  BY DEF ProgramsInv
<1>3. More
  BY <1>1, <1>2, SameKernels
<1>4. calls' \in Nat /\ cleared \in Nat /\ memo \in [Signatures -> Nat]
  BY <1>1, <1>2 DEF Types
<1>5. ThreadsInv' /\ thread' \in [Threads -> ThreadSet]
  <2>1. CASE memo[sig] # No
    <3> DEFINE k == memo[sig]
               m == Calling(t, k, sig, calls')
    <3>1. Becomes(t, m)
      BY <2>1 DEF GetKernel
    <3>2. k \in 1 .. Len(kernels) /\ kernels[k].sig = sig /\ k \in Nat
      BY <1>2, <1>4, <2>1 DEF MemoInv, No
    <3>3. Len(kernels[k].setters) \in Nat
      <4>1. kernels[k] \in KernelSet
        BY <1>2, <3>2, ElementOfSeq DEF Types
      <4>2. kernels[k].setters \in Seq(Part)
        BY <4>1 DEF KernelSet
      <4> QED
        BY <4>2, LenProperties
    <3> DEFINE knl == kernels[k]
               c   == calls'
    <3>5. knl.sig = sig /\ Len(knl.setters) \in Nat /\ c \in Nat /\ k \in Nat
      BY <1>4, <3>2, <3>3
    <3> HIDE DEF k, knl, c
    <3>6. Calling(t, k, sig, c) \in ThreadSet /\ Calling(t, k, sig, c).knl = k /\ HasSet(Calling(t, k, sig, c), knl)
      BY <3>5, CallBegins
    <3>4. m \in ThreadSet /\ m.knl = k /\ HasSet(m, kernels[k])
      BY <3>6 DEF c, knl
    <3> HIDE DEF m
    <3> QED
      BY <1>1, <1>2, <1>3, <3>1, <3>2, <3>4, ThreadBecomes
  <2>2. CASE memo[sig] = No
    <3> DEFINE m == [at |-> "function", sig |-> sig, call |-> calls', cleared |-> cleared]
    <3>1. Becomes(t, m)
      BY <2>2 DEF GetKernel
    <3>2. m \in ThreadSet /\ m.at # "args"
      BY <1>4 DEF ThreadSet
    <3> HIDE DEF m
    <3> QED
      BY <1>2, <1>3, <3>1, <3>2, ThreadBecomes
  <2> QED
    BY <2>1, <2>2
<1>6. KernelsInv'
  BY <1>1, <1>2, <1>3, KernelsStayGood
<1>7. MemoInv'
  BY <1>1, <1>2, <1>3, MemoStays
<1>8. LaunchInv'
  BY <1>1, <1>2, LaunchStays
<1>9. Types' /\ ContextInv'
  BY <1>1, <1>2, <1>4, <1>5 DEF Types, ContextInv
<1> QED
  BY <1>5, <1>6, <1>7, <1>8, <1>9 DEF ProgramsInv

(* A step that leaves kernels and what is remembered of them alone.        *)
LEMMA AsideStep ==
  ASSUME ProgramsInv, UNCHANGED <<bug, memo, cleared, kernels, launched>>, calls' \in Nat, ContextInv',
         ThreadsInv' /\ thread' \in [Threads -> ThreadSet]
  PROVE  ProgramsInv'
<1>1. /\ bug' = bug /\ memo' = memo /\ cleared' = cleared /\ kernels' = kernels /\ launched' = launched
  OBVIOUS
<1>2. Types /\ KernelsInv /\ MemoInv /\ ThreadsInv /\ LaunchInv
  BY DEF ProgramsInv
<1>3. More
  BY <1>1, <1>2, SameKernels
<1>4. KernelsInv' /\ MemoInv' /\ LaunchInv'
  BY <1>1, <1>2, <1>3, KernelsStayGood, MemoStays, LaunchStays
<1>5. Types'
  BY <1>1, <1>2 DEF Types
<1> QED
  BY <1>4, <1>5 DEF ProgramsInv

LEMMA AsideBecomes ==
  ASSUME ProgramsInv, UNCHANGED <<bug, memo, cleared, kernels, launched>>, calls' \in Nat, ContextInv',
         NEW t \in Threads, NEW m \in ThreadSet, m.at # "args", Becomes(t, m)
  PROVE  ProgramsInv'
<1>1. Types /\ ThreadsInv /\ kernels' = kernels
  BY DEF ProgramsInv
<1>2. More
  BY <1>1, SameKernels
<1>3. ThreadsInv' /\ thread' \in [Threads -> ThreadSet]
  BY <1>1, <1>2, ThreadBecomes
<1> QED
  BY <1>3, AsideStep

LEMMA AsideStays ==
  ASSUME ProgramsInv, UNCHANGED <<bug, memo, cleared, kernels, launched, thread>>, calls' \in Nat, ContextInv'
  PROVE  ProgramsInv'
<1>1. Types /\ ThreadsInv /\ kernels' = kernels /\ thread' = thread
  BY DEF ProgramsInv
<1>2. More
  BY <1>1, SameKernels
<1>3. ThreadsInv' /\ thread' \in [Threads -> ThreadSet]
  BY <1>1, <1>2, ThreadsStay
<1> QED
  BY <1>3, AsideStep

LEMMA IdleIs == Idle \in ThreadSet /\ Idle.at = "idle"
BY DEF Idle, ThreadSet

LEMMA FailureSteps ==
  ASSUME ProgramsInv, NEW t \in Threads, FunctionFails(t) \/ ArgFails(t)
  PROVE  ProgramsInv'
<1>1. UNCHANGED <<bug, memo, cleared, program, kernels, calls, launched>> /\ Becomes(t, Idle)
  BY DEF FunctionFails, ArgFails
<1>2. calls' \in Nat /\ ContextInv'
  BY <1>1 DEF ProgramsInv, Types, ContextInv
<1> QED
  BY <1>1, <1>2, IdleIs, AsideBecomes

-----------------------------------------------------------------------------
(* What programs do.                                                       *)
ProgramSet == [_prg : {"none", "raw", "compiled", "built"}, _context : BOOLEAN, attached : BOOLEAN]

LEMMA GetPrgIs ==
  ASSUME ContextInv
  PROVE  _get_prg \in ProgramSet /\ (~_get_prg._context => _get_prg._prg = "built") /\ _get_prg._context = program._context
<1>0. program \in ProgramSet /\ (~program._context => program._prg = "built")
  BY DEF ContextInv, ProgramSet
<1>1. CASE program._prg = "none"
  <2>1. _get_prg = [program EXCEPT !._prg = "raw"]
    BY <1>1 DEF _get_prg
  <2>2. program._context = TRUE
    BY <1>0, <1>1 DEF ProgramSet
  <2>4. _get_prg._context = program._context
    BY <1>0, <2>1 DEF ProgramSet
  <2>3. _get_prg \in ProgramSet
    <3>1. "raw" \in {"none", "raw", "compiled", "built"}
      OBVIOUS
    <3>2. \A s \in {"raw"} : [program EXCEPT !._prg = s] \in ProgramSet
      BY <1>0 DEF ProgramSet
    <3> QED
      BY <2>1, <3>2
  <2> QED
    BY <2>2, <2>3, <2>4, Zenon
<1>2. CASE program._prg # "none"
  BY <1>0, <1>2 DEF _get_prg
<1> QED
  BY <1>1, <1>2

LEMMA ContextIs ==
  ASSUME program' \in ProgramSet, ~program'._context => program'._prg = "built"
  PROVE  ContextInv'
BY DEF ContextInv, ProgramSet

LEMMA BuildSteps ==
  ASSUME ProgramsInv, NEW t \in Threads, NEW b \in BOOLEAN, BuildProgram(t, b) \/ BuildEnds(t, b)
  PROVE  ProgramsInv'
<1>1. ContextInv /\ program \in ProgramSet /\ calls \in Nat
  BY DEF ProgramsInv, ContextInv, ProgramSet, Types
<1>2. CASE BuildProgram(t, b)
  <2>1. UNCHANGED <<bug, memo, cleared, kernels, launched>> /\ calls' \in Nat
    BY <1>1, <1>2 DEF BuildProgram, Begin
  <2>2. program' = program \/ program' = _get_prg
    BY <1>2 DEF BuildProgram
  <2>3. ContextInv'
    BY <1>1, <2>2, GetPrgIs, ContextIs DEF ContextInv
  <2> DEFINE m == [at |-> "build", cached |-> program'._prg = "none"]
  <2>4. Becomes(t, m)
    BY <1>2 DEF BuildProgram
  <2>5. m \in ThreadSet /\ m.at # "args"
    BY DEF ThreadSet
  <2> HIDE DEF m
  <2> QED
    BY <2>1, <2>3, <2>4, <2>5, AsideBecomes
<1>3. CASE BuildEnds(t, b)
  <2>1. UNCHANGED <<bug, memo, cleared, kernels, calls, launched>> /\ Becomes(t, Idle)
    BY <1>3 DEF BuildEnds
  <2>2. \/ program' = program
        \/ program' = [_prg |-> "built", _context |-> FALSE, attached |-> FALSE]
        \/ /\ program._context = TRUE
           /\ \E s \in {"built", "raw"} : program' = [program EXCEPT !._prg = s]
    <3>1. program._context \in BOOLEAN
      BY <1>1 DEF ProgramSet
    <3> QED
      BY <1>3, <3>1 DEF BuildEnds
  <2>3. CASE program' = program
    <3>1. ContextInv'
      BY <1>1, <2>3 DEF ContextInv
    <3> QED
      BY <1>1, <2>1, <3>1, IdleIs, AsideBecomes
  <2>4. CASE program' = [_prg |-> "built", _context |-> FALSE, attached |-> FALSE]
    <3>1. program' \in ProgramSet /\ program'._prg = "built"
      BY <2>4 DEF ProgramSet
    <3>2. ContextInv'
      BY <3>1, ContextIs
    <3> QED
      BY <1>1, <2>1, <3>2, IdleIs, AsideBecomes
  <2>5. ASSUME program._context = TRUE, NEW s \in {"built", "raw"}, program' = [program EXCEPT !._prg = s]
        PROVE  ProgramsInv'
    <3>1. program' \in ProgramSet /\ program'._context = TRUE
      BY <1>1, <2>5 DEF ProgramSet
    <3>2. ContextInv'
      BY <3>1, ContextIs
    <3> QED
      BY <1>1, <2>1, <3>2, IdleIs, AsideBecomes
  <2> QED
    BY <2>2, <2>3, <2>4, <2>5
<1> QED
  BY <1>2, <1>3

LEMMA CompileSteps ==
  ASSUME ProgramsInv, NEW t \in Threads, CompileProgram(t) \/ LinkProgram(t)
  PROVE  ProgramsInv'
<1>1. program \in ProgramSet /\ calls \in Nat
  BY DEF ProgramsInv, ContextInv, ProgramSet, Types
<1>2. UNCHANGED <<bug, memo, cleared, kernels, thread, launched>> /\ calls' \in Nat
  BY <1>1 DEF CompileProgram, LinkProgram, Begin
<1>3. CASE CompileProgram(t)
  <2>1. program._context = TRUE /\ program' = [program EXCEPT !._prg = "compiled"]
    BY <1>1, <1>3 DEF CompileProgram, ProgramSet
  <2>2. program' \in ProgramSet /\ program'._context = TRUE
    BY <1>1, <2>1 DEF ProgramSet
  <2>3. ContextInv'
    BY <2>2, ContextIs
  <2> QED
    BY <1>2, <2>3, AsideStays
<1>4. CASE LinkProgram(t)
  <2>1. program' = [_prg |-> "built", _context |-> TRUE, attached |-> FALSE]
    BY <1>4 DEF LinkProgram
  <2>2. program' \in ProgramSet /\ program'._prg = "built"
    BY <2>1 DEF ProgramSet
  <2>3. ContextInv'
    BY <2>2, ContextIs
  <2> QED
    BY <1>2, <2>3, AsideStays
<1> QED
  BY <1>3, <1>4

LEMMA ClearStep ==
  ASSUME ProgramsInv, ClearCaches
  PROVE  ProgramsInv'
<1>1. /\ bug' = bug /\ kernels' = kernels /\ launched' = launched /\ thread' = thread /\ calls' = calls
      /\ program' = program /\ cleared' = 1 /\ memo' = [s \in Signatures |-> No]
  BY DEF ClearCaches
<1>2. Types /\ KernelsInv /\ ThreadsInv /\ LaunchInv /\ ContextInv
  BY DEF ProgramsInv
<1>3. More
  BY <1>1, <1>2, SameKernels
<1>4. KernelsInv' /\ LaunchInv'
  BY <1>1, <1>2, <1>3, KernelsStayGood, LaunchStays
<1>5. ThreadsInv' /\ thread' \in [Threads -> ThreadSet]
  BY <1>1, <1>2, <1>3, ThreadsStay
<1>6. MemoInv' /\ memo' \in [Signatures -> Nat]
  BY <1>1 DEF MemoInv, No
<1>7. Types' /\ ContextInv'
  BY <1>1, <1>2, <1>5, <1>6 DEF Types, ContextInv
<1> QED
  BY <1>4, <1>5, <1>6, <1>7 DEF ProgramsInv

-----------------------------------------------------------------------------
(* A thread that makes a kernel begins its call with it.                   *)
LEMMA NewCall ==
  ASSUME ProgramsInv, NEW t \in Threads, NEW sig \in Signatures, NEW specific \in BOOLEAN, NEW call \in Nat,
         ~HandlingBody(sig, specific).raised, bug' = bug,
         kernels' = Append(kernels, NewKernel(sig, HandlingBody(sig, specific))),
         Becomes(t, Calling(t, Len(kernels'), sig, call))
  PROVE  /\ More /\ KernelsInv' /\ ThreadsInv' /\ thread' \in [Threads -> ThreadSet]
         /\ kernels' \in Seq(KernelSet) /\ Len(kernels') \in Nat \ {0} /\ kernels'[Len(kernels')].sig = sig
<1>1. Types /\ KernelsInv /\ ThreadsInv
  BY DEF ProgramsInv
<1> DEFINE knl == NewKernel(sig, HandlingBody(sig, specific))
           k   == Len(kernels')
           m   == Calling(t, k, sig, call)
<1>2. kernels' = Append(kernels, knl) /\ Becomes(t, m)
  OBVIOUS
<1>3. knl \in KernelSet /\ knl.sig = sig /\ Good(knl)
  <2> DEFINE kn == knl
  <2>1. kn = NewKernel(sig, HandlingBody(sig, specific))
    OBVIOUS
  <2> HIDE DEF kn
  <2>2. kn \in KernelSet /\ kn.sig = sig /\ Good(kn)
    BY <2>1, NewKernelIsGood
  <2> QED
    BY <2>2 DEF kn
<1> HIDE DEF knl
<1>4. More /\ k \in Nat \ {0} /\ kernels'[k] = knl
  BY <1>1, <1>2, <1>3, AddedKernel
<1>5. Len(knl.setters) \in Nat
  <2>1. knl.setters \in Seq(Part)
    BY <1>3 DEF KernelSet
  <2> QED
    BY <2>1, LenProperties
<1>6. m \in ThreadSet /\ m.knl = k /\ HasSet(m, knl)
  <2>1. k \in Nat /\ knl.sig = sig
    BY <1>3, <1>4
  <2> HIDE DEF k
  <2>2. /\ Calling(t, k, sig, call) \in ThreadSet /\ Calling(t, k, sig, call).knl = k
        /\ HasSet(Calling(t, k, sig, call), knl)
    BY <1>5, <2>1, CallBegins
  <2> QED
    BY <2>2
<1>7. k \in 1 .. Len(kernels')
  BY <1>4
<1>8. KernelsInv'
  BY <1>1, <1>4, KernelsStayGood
<1>9. ThreadsInv' /\ thread' \in [Threads -> ThreadSet]
  <2> HIDE DEF m
  <2>1. m.knl \in 1 .. Len(kernels') /\ HasSet(m, kernels'[m.knl])
    <3> HIDE DEF k
    <3> QED
      BY <1>4, <1>6, <1>7
  <2> QED
    BY <1>1, <1>2, <1>4, <1>6, <2>1, ThreadBecomes
<1>10. kernels' \in Seq(KernelSet)
  BY <1>4 DEF More
<1> QED
  BY <1>3, <1>4, <1>8, <1>9, <1>10

LEMMA MakeKernelStep ==
  ASSUME ProgramsInv, NEW t \in Threads, MakeKernel(t)
  PROVE  ProgramsInv'
<1> DEFINE me == thread[t]
<1>1. Types /\ LaunchInv /\ MemoInv /\ ContextInv
  BY DEF ProgramsInv
<1>2. me.at = "function" /\ bug' = bug /\ cleared' = cleared /\ program' = program /\ calls' = calls /\ launched' = launched
  BY DEF MakeKernel
<1>3. me.sig \in Signatures /\ me.call \in Nat
  <2>1. me \in ThreadSet
    BY <1>1 DEF Types
  <2>2. me \in [at : {"function"}, sig : Signatures, call : Nat, cleared : Nat]
    BY <1>2, <2>1 DEF ThreadSet, Idle, InCall
  <2> QED
    BY <2>2
<1>4. ContextInv' /\ calls' \in Nat
  BY <1>1, <1>2 DEF ContextInv, Types
<1> DEFINE body == HandlingBody(me.sig, TRUE)
<1>5. CASE body.raised
  <2>1. Becomes(t, Idle) /\ kernels' = kernels /\ memo' = memo
    BY <1>5 DEF MakeKernel
  <2> QED
    BY <1>2, <1>4, <2>1, IdleIs, AsideBecomes
<1>6. CASE ~body.raised
  <2>1. /\ kernels' = Append(kernels, NewKernel(me.sig, body))
        /\ memo' = IF me.cleared = cleared THEN [memo EXCEPT ![me.sig] = Len(kernels')] ELSE memo
        /\ Becomes(t, Calling(t, Len(kernels'), me.sig, me.call))
    BY <1>6 DEF MakeKernel
  <2> DEFINE sig  == me.sig
             call == me.call
  <2>2. /\ More /\ KernelsInv' /\ ThreadsInv' /\ thread' \in [Threads -> ThreadSet]
        /\ kernels' \in Seq(KernelSet) /\ Len(kernels') \in Nat \ {0} /\ kernels'[Len(kernels')].sig = sig
    <3>1. sig \in Signatures /\ call \in Nat /\ TRUE \in BOOLEAN /\ ~HandlingBody(sig, TRUE).raised
      BY <1>3, <1>6
    <3>2. kernels' = Append(kernels, NewKernel(sig, HandlingBody(sig, TRUE)))
      BY <2>1
    <3>3. Becomes(t, Calling(t, Len(kernels'), sig, call))
      BY <2>1
    <3> HIDE DEF sig, call, me
    <3> QED
      BY <1>2, <3>1, <3>2, <3>3, NewCall
  <2> DEFINE k == Len(kernels')
  <2>3. MemoInv' /\ memo' \in [Signatures -> Nat]
    <3>1. memo' = memo \/ memo' = [memo EXCEPT ![sig] = k]
      BY <2>1
    <3>2. sig \in Signatures /\ k \in Nat \ {0} /\ k \in 1 .. k /\ kernels'[k].sig = sig
      BY <1>3, <2>2
    <3>3. CASE memo' = memo
      BY <1>1, <2>2, <3>3, MemoStays
    <3>4. CASE memo' = [memo EXCEPT ![sig] = k]
      <4> HIDE DEF sig
      <4>1. memo \in [Signatures -> Nat] /\ Len(kernels) \in Nat /\ Len(kernels) <= k
        BY <1>1, <2>2, LenProperties DEF Types, More
      <4>2. memo' \in [Signatures -> Nat]
        BY <3>2, <3>4, <4>1
      <4>3. ASSUME NEW s \in Signatures, memo'[s] # 0
            PROVE  memo'[s] \in 1 .. Len(kernels') /\ kernels'[memo'[s]].sig = s
        <5>1. CASE s = sig
          <6>1. memo'[s] = k
            BY <3>4, <4>1, <5>1
          <6> QED
            BY <3>2, <5>1, <6>1
        <5>2. CASE s # sig
          <6>1. memo'[s] = memo[s]
            BY <3>4, <4>1, <5>2
          <6>2. memo[s] \in 1 .. Len(kernels) /\ kernels[memo[s]].sig = s
            BY <1>1, <4>3, <6>1 DEF MemoInv
          <6>3. kernels'[memo[s]] = kernels[memo[s]]
            BY <2>2, <6>2 DEF More
          <6> QED
            BY <3>2, <4>1, <6>1, <6>2, <6>3
        <5> QED
          BY <5>1, <5>2
      <4> QED
        BY <4>2, <4>3 DEF MemoInv
    <3> QED
      BY <3>1, <3>3, <3>4
  <2>4. LaunchInv'
    BY <1>1, <1>2, LaunchStays
  <2>5. Types'
    BY <1>1, <1>2, <1>4, <2>2, <2>3 DEF Types
  <2> QED
    BY <1>4, <2>2, <2>3, <2>4, <2>5 DEF ProgramsInv
<1> QED
  BY <1>5, <1>6

LEMMA KernelOfProgramStep ==
  ASSUME ProgramsInv, NEW t \in Threads, NEW sig \in Signatures, KernelOfProgram(t, sig)
  PROVE  ProgramsInv'
<1>1. Types /\ LaunchInv /\ MemoInv /\ ContextInv /\ program \in ProgramSet /\ calls \in Nat
  BY DEF ProgramsInv, ContextInv, ProgramSet, Types
<1>2. bug' = bug /\ memo' = memo /\ cleared' = cleared /\ launched' = launched /\ calls' = calls + 1 /\ calls' \in Nat
  BY <1>1 DEF KernelOfProgram, Begin
<1> DEFINE body == HandlingBody(sig, FALSE)
<1>3. CASE program._prg # "built"
  <2>1. program' = _get_prg /\ kernels' = kernels /\ thread' = thread
    BY <1>3 DEF KernelOfProgram
  <2>2. ContextInv'
    BY <1>1, <2>1, GetPrgIs, ContextIs
  <2> QED
    BY <1>2, <2>1, <2>2, AsideStays
<1>4. CASE program._prg = "built"
  <2>1. /\ program' = [program EXCEPT !.attached = TRUE]
        /\ IF body.raised THEN UNCHANGED <<kernels, thread>>
           ELSE /\ kernels' = Append(kernels, NewKernel(sig, body))
                /\ Becomes(t, Calling(t, Len(kernels'), sig, calls'))
    BY <1>4 DEF KernelOfProgram
  <2>2. program' \in ProgramSet /\ program'._prg = "built"
    BY <1>1, <1>4, <2>1 DEF ProgramSet
  <2>3. ContextInv'
    BY <2>2, ContextIs
  <2>4. CASE body.raised
    <3>1. kernels' = kernels /\ thread' = thread
      BY <2>1, <2>4
    <3> QED
      BY <1>2, <2>3, <3>1, AsideStays
  <2>5. CASE ~body.raised
    <3> DEFINE call == calls'
    <3>1. /\ kernels' = Append(kernels, NewKernel(sig, HandlingBody(sig, FALSE)))
          /\ Becomes(t, Calling(t, Len(kernels'), sig, call))
      BY <2>1, <2>5
    <3>2. ~HandlingBody(sig, FALSE).raised /\ call \in Nat /\ FALSE \in BOOLEAN
      BY <1>2, <2>5
    <3>3. /\ More /\ KernelsInv' /\ ThreadsInv' /\ thread' \in [Threads -> ThreadSet]
          /\ kernels' \in Seq(KernelSet)
      <4> HIDE DEF call
      <4> QED
        BY <1>2, <3>1, <3>2, NewCall
    <3>4. MemoInv' /\ memo' \in [Signatures -> Nat]
      BY <1>1, <1>2, <3>3, MemoStays
    <3>5. LaunchInv'
      BY <1>1, <1>2, LaunchStays
    <3>6. Types'
      BY <1>1, <1>2, <3>3, <3>4 DEF Types
    <3> QED
      BY <2>3, <3>3, <3>4, <3>5, <3>6 DEF ProgramsInv
  <2> QED
    BY <2>4, <2>5
<1> QED
  BY <1>3, <1>4

-----------------------------------------------------------------------------
(* One slot of a kernel is set, by a thread that goes on to the next.      *)
SlotSet(new, knl, i, v) == new = [knl EXCEPT !.slots[i] = v]
WentOn(m, me, al) == m = [me EXCEPT !.next = me.next + 1, !.alone = al]

LEMMA SlotIsSet ==
  ASSUME NEW knl \in KernelSet, Good(knl), NEW i \in 1 .. Len(knl.setters), NEW v \in Contents,
         NEW new, SlotSet(new, knl, i, v)
  PROVE  /\ new \in KernelSet /\ Good(new) /\ new.sig = knl.sig /\ new.setters = knl.setters
         /\ new.slots[i] = v
         /\ \A p \in 1 .. Len(knl.setters) : p # i => new.slots[p] = knl.slots[p]
<1> DEFINE s == knl.slots
           z == [s EXCEPT ![i] = v]
           n == Len(knl.setters)
<1>1. n \in Nat
  BY LenProperties DEF KernelSet
<1>2. s \in [1 .. n -> Contents]
  BY DEF Good
<1>3. z \in [1 .. n -> Contents] /\ z[i] = v /\ \A p \in 1 .. n : p # i => z[p] = s[p]
  BY <1>2
<1>4. knl.sig \in Signatures /\ knl.setters \in Seq(Part)
  BY DEF KernelSet
<1>5. new = [sig |-> knl.sig, setters |-> knl.setters, slots |-> z]
  BY DEF KernelSet, SlotSet
<1> HIDE DEF z
<1>6. new.sig = knl.sig /\ new.setters = knl.setters /\ new.slots = z
  BY <1>5
<1>7. z \in SlotLists
  <2>1. [1 .. n -> Contents] \in {[1 .. j -> Contents] : j \in Nat}
    BY <1>1
  <2> QED
    BY <1>3, <2>1 DEF SlotLists
<1>8. new \in KernelSet
  BY <1>4, <1>5, <1>7 DEF KernelSet
<1>9. Good(new)
  BY <1>3, <1>6 DEF Good
<1> QED
  BY <1>3, <1>6, <1>8, <1>9

(* The thread that set it has one more slot set.                           *)
LEMMA ArgIsSet ==
  ASSUME NEW me \in InCall, NEW knl, HasSet(me, knl), Len(knl.setters) \in Nat, me.next <= Len(knl.setters),
         NEW new, new.sig = knl.sig, new.setters = knl.setters,
         new.slots[me.next] = Filled(me.call, knl.setters[me.next]),
         \A p \in 1 .. Len(knl.setters) : p # me.next => new.slots[p] = knl.slots[p],
         NEW al \in BOOLEAN, al = TRUE => me.alone = TRUE,
         NEW m, WentOn(m, me, al)
  PROVE  m \in InCall /\ m.knl = me.knl /\ HasSet(m, new)
<1> DEFINE n == Len(knl.setters)
           i == me.next
<1>1. /\ me.at = "args" /\ me.knl \in Nat /\ me.sig \in Signatures /\ me.call \in Nat
      /\ i \in Nat \ {0} /\ me.alone \in BOOLEAN
  BY DEF InCall
<1>2. m = [at |-> "args", knl |-> me.knl, sig |-> me.sig, call |-> me.call, next |-> i + 1, alone |-> al]
  BY <1>1 DEF InCall, WentOn
<1>3. m \in InCall
  <2>1. i + 1 \in Nat \ {0}
    BY <1>1
  <2> HIDE DEF i
  <2> QED
    BY <1>1, <1>2, <2>1 DEF InCall
<1>4. m.knl = me.knl /\ m.sig = me.sig /\ m.call = me.call /\ m.next = i + 1 /\ m.alone = al
  BY <1>2
<1>5. me.sig = knl.sig /\ (me.alone = TRUE => \A p \in 1 .. i - 1 : knl.slots[p] = Filled(me.call, knl.setters[p]))
  BY DEF HasSet
<1>6. ASSUME m.alone PROVE \A p \in 1 .. m.next - 1 : new.slots[p] = Filled(m.call, new.setters[p])
  <2> SUFFICES ASSUME NEW p \in 1 .. i PROVE new.slots[p] = Filled(me.call, knl.setters[p])
    BY <1>1, <1>4
  <2>1. me.alone = TRUE
    BY <1>4, <1>6
  <2>2. CASE p = i
    BY <2>2
  <2>3. CASE p # i
    <3>1. p \in 1 .. i - 1 /\ p \in 1 .. n
      BY <1>1, <2>3
    <3> QED
      BY <1>5, <2>1, <2>3, <3>1
  <2> QED
    BY <2>2, <2>3
<1>7. m.sig = new.sig /\ m.next <= Len(new.setters) + 1
  BY <1>1, <1>4, <1>5
<1>8. HasSet(m, new)
  BY <1>6, <1>7 DEF HasSet
<1> QED
  BY <1>3, <1>4, <1>8

(* Another thread in a call of that kernel no longer relies on it.         *)
LEMMA NoLongerAlone ==
  ASSUME NEW me \in InCall, NEW knl, HasSet(me, knl),
         NEW new, new.sig = knl.sig, new.setters = knl.setters,
         NEW m, m = [me EXCEPT !.alone = FALSE]
  PROVE  m \in InCall /\ m.knl = me.knl /\ HasSet(m, new)
<1>1. m = [at |-> "args", knl |-> me.knl, sig |-> me.sig, call |-> me.call, next |-> me.next, alone |-> FALSE]
  BY DEF InCall
<1>2. m \in InCall
  BY <1>1 DEF InCall
<1>3. m.knl = me.knl /\ m.sig = me.sig /\ m.next = me.next /\ m.alone = FALSE
  BY <1>1
<1> QED
  BY <1>2, <1>3 DEF HasSet

(* All slots set by a thread that is alone: they are those of its call.    *)
LEMMA AllIsSet ==
  ASSUME NEW me \in InCall, NEW knl \in KernelSet, Good(knl), HasSet(me, knl), me.next = Len(knl.setters) + 1,
         NEW run, run = [slots |-> knl.slots, sig |-> me.sig, call |-> me.call, alone |-> me.alone]
  PROVE  Right(run)
<1> DEFINE n == Len(knl.setters)
           s == knl.slots
           w == Want(run.sig)
<1>1. n \in Nat /\ DOMAIN knl.setters = 1 .. n
  BY LenProperties DEF KernelSet
<1>2. run.slots = s /\ run.sig = me.sig /\ run.call = me.call /\ run.alone = me.alone
  OBVIOUS
<1>3. knl.setters = w /\ s \in [1 .. n -> Contents]
  BY <1>2 DEF Good, HasSet
<1>4. ASSUME run.alone PROVE s = [p \in DOMAIN w |-> Filled(run.call, w[p])]
  <2>1. \A p \in 1 .. n : s[p] = Filled(run.call, w[p])
    <3>1. me.alone
      BY <1>2, <1>4
    <3>2. \A p \in 1 .. me.next - 1 : s[p] = Filled(me.call, knl.setters[p])
      BY <3>1 DEF HasSet
    <3>3. me.next - 1 = n
      BY <1>1
    <3> QED
      BY <1>2, <1>3, <3>2, <3>3
  <2>2. DOMAIN w = 1 .. n
    BY <1>1, <1>3
  <2> HIDE DEF w, s, n
  <2> QED
    BY <1>3, <2>1, <2>2
<1> QED
  BY <1>2, <1>4 DEF Right

(* A thread in a call: its kernel, and what it knows of it.                *)
LEMMA InCallIs ==
  ASSUME ProgramsInv, NEW t \in Threads, thread[t].at = "args"
  PROVE  /\ thread[t] \in InCall /\ thread[t].knl \in 1 .. Len(kernels)
         /\ kernels[thread[t].knl] \in KernelSet /\ Good(kernels[thread[t].knl])
         /\ HasSet(thread[t], kernels[thread[t].knl])
         /\ Len(kernels[thread[t].knl].setters) \in Nat
<1>1. Types /\ ThreadsInv /\ KernelsInv
  BY DEF ProgramsInv
<1>2. thread[t] \in ThreadSet /\ kernels \in Seq(KernelSet)
  BY <1>1 DEF Types
<1>3. thread[t] \in InCall
  BY <1>2 DEF ThreadSet, Idle
<1>4. thread[t].knl \in 1 .. Len(kernels) /\ HasSet(thread[t], kernels[thread[t].knl])
  BY <1>1 DEF ThreadsInv
<1>5. kernels[thread[t].knl] \in KernelSet /\ Good(kernels[thread[t].knl])
  BY <1>1, <1>2, <1>4, ElementOfSeq DEF KernelsInv
<1>6. Len(kernels[thread[t].knl].setters) \in Nat
  <2>1. kernels[thread[t].knl].setters \in Seq(Part)
    BY <1>5 DEF KernelSet
  <2> QED
    BY <2>1, LenProperties
<1> QED
  BY <1>3, <1>4, <1>5, <1>6

LEMMA SetArgStep ==
  ASSUME ProgramsInv, NEW t \in Threads, SetArg(t)
  PROVE  ProgramsInv'
<1> DEFINE me  == thread[t]
           k   == me.knl
           knl == kernels[k]
           i   == me.next
           v   == Filled(me.call, knl.setters[i])
           new == [knl EXCEPT !.slots[i] = v]
           others == {u \in Threads \ {t} : thread[u].at = "args" /\ thread[u].knl = me.knl}
           al  == me.alone /\ others = {}
           m   == [me EXCEPT !.next = me.next + 1, !.alone = al]
<1>1. Types /\ KernelsInv /\ ThreadsInv /\ MemoInv /\ LaunchInv /\ ContextInv
  BY DEF ProgramsInv
<1> DEFINE Kernels == kernels' = [kernels EXCEPT ![k].slots[i] = v]
           Threads2 == thread' = [u \in Threads |-> IF u = t THEN m
                         ELSE IF u \in others THEN [thread[u] EXCEPT !.alone = FALSE] ELSE thread[u]]
           Same == UNCHANGED <<bug, memo, cleared, program, calls, launched>>
<1>0. me.at = "args" /\ me.next <= Len(knl.setters) /\ Kernels /\ Threads2 /\ Same
  BY Zenon DEF SetArg, Filled
<1> HIDE DEF Kernels, Threads2
<1>2. /\ bug' = bug /\ memo' = memo /\ cleared' = cleared /\ program' = program /\ calls' = calls /\ launched' = launched
      /\ me.at = "args" /\ me.next <= Len(knl.setters)
  BY <1>0
<1>3. kernels' = [kernels EXCEPT ![k] = new]
  BY <1>0 DEF Kernels
<1>4. thread' = [u \in Threads |-> IF u = t THEN m
                   ELSE IF u \in others THEN [thread[u] EXCEPT !.alone = FALSE] ELSE thread[u]]
  BY <1>0, Zenon DEF Threads2
<1>5. /\ me \in InCall /\ k \in 1 .. Len(kernels) /\ knl \in KernelSet /\ Good(knl)
      /\ HasSet(me, knl) /\ Len(knl.setters) \in Nat
  BY <1>2, InCallIs
<1>6. i \in 1 .. Len(knl.setters) /\ me.call \in Nat /\ me.alone \in BOOLEAN /\ me.knl = k
  BY <1>2, <1>5 DEF InCall
<1>7. v \in Contents
  <2>1. knl.setters[i] \in Part
    <3>1. knl.setters \in Seq(Part)
      BY <1>5 DEF KernelSet
    <3> HIDE DEF knl, i
    <3> QED
      BY <1>6, <3>1, ElementOfSeq
  <2> HIDE DEF knl, i, me
  <2> QED
    BY <1>6, <2>1 DEF Contents
<1>8. /\ new \in KernelSet /\ Good(new) /\ new.sig = knl.sig /\ new.setters = knl.setters
      /\ new.slots[i] = v
      /\ \A p \in 1 .. Len(knl.setters) : p # i => new.slots[p] = knl.slots[p]
  <2> DEFINE nw == new
  <2>1. SlotSet(nw, knl, i, v)
    BY DEF SlotSet
  <2> HIDE DEF nw, knl, i, v
  <2>2. /\ nw \in KernelSet /\ Good(nw) /\ nw.sig = knl.sig /\ nw.setters = knl.setters
        /\ nw.slots[i] = v
        /\ \A p \in 1 .. Len(knl.setters) : p # i => nw.slots[p] = knl.slots[p]
    BY <1>5, <1>6, <1>7, <2>1, SlotIsSet
  <2> QED
    BY <2>2 DEF nw
<1>9. al \in BOOLEAN /\ (al = TRUE => me.alone = TRUE)
  <2>1. me.alone = TRUE \/ me.alone = FALSE
    BY <1>6
  <2> HIDE DEF me, others
  <2> QED
    BY <2>1
<1> HIDE DEF new
<1>10. m \in InCall /\ m.knl = k /\ HasSet(m, new)
  <2> DEFINE mm == m
  <2>1. WentOn(mm, me, al)
    BY DEF WentOn
  <2>2. me.next <= Len(knl.setters)
    BY <1>2
  <2> HIDE DEF mm, al, knl, me
  <2>3. mm \in InCall /\ mm.knl = me.knl /\ HasSet(mm, new)
    BY <1>5, <1>6, <1>8, <1>9, <2>1, <2>2, ArgIsSet
  <2> QED
    BY <2>3 DEF mm
<1> HIDE DEF m
<1>11. /\ kernels' \in Seq(KernelSet) /\ Len(kernels') = Len(kernels) /\ kernels'[k] = new
       /\ \A j \in 1 .. Len(kernels) : j # k => kernels'[j] = kernels[j]
  <2>1. kernels \in Seq(KernelSet)
    BY <1>1 DEF Types
  <2> HIDE DEF k
  <2> QED
    BY <1>3, <1>5, <1>8, <2>1, ExceptSeq
<1>12. KernelsInv'
  <2>1. \A kn : Good(kn)' <=> Good(kn)
    <3> SUFFICES ASSUME NEW CONSTANT kn PROVE Good(kn)' <=> Good(kn)
      OBVIOUS
    <3>1. Want(kn.sig)' = Want(kn.sig)
      BY <1>2, WantStays
    <3> QED
      BY <3>1 DEF Good
  <2>2. \A j \in 1 .. Len(kernels') : Good(kernels'[j])
    <3> HIDE DEF k
    <3> QED
      BY <1>1, <1>8, <1>11 DEF KernelsInv
  <2> QED
    BY <2>1, <2>2 DEF KernelsInv
<1>13. MemoInv'
  <2> SUFFICES ASSUME NEW s \in Signatures, memo[s] # 0
               PROVE  memo[s] \in 1 .. Len(kernels') /\ kernels'[memo[s]].sig = s
    BY <1>2 DEF MemoInv
  <2>1. memo[s] \in 1 .. Len(kernels) /\ kernels[memo[s]].sig = s
    BY <1>1 DEF MemoInv
  <2>2. CASE memo[s] = k
    <3> HIDE DEF k
    <3>1. new.sig = s
      BY <1>8, <2>1, <2>2
    <3> QED
      BY <1>11, <2>1, <2>2, <3>1
  <2>3. CASE memo[s] # k
    <3> HIDE DEF k
    <3> QED
      BY <1>11, <2>1, <2>3
  <2> QED
    BY <2>2, <2>3
<1>14. ASSUME NEW u \in Threads
       PROVE  /\ thread'[u] \in ThreadSet
              /\ thread'[u].at = "args" =>
                   thread'[u].knl \in 1 .. Len(kernels') /\ HasSet(thread'[u], kernels'[thread'[u].knl])
  <2>1. thread[u] \in ThreadSet
    BY <1>1 DEF Types
  <2>2. CASE u = t
    <3>1. thread'[u] = m
      BY <1>4, <2>2
    <3>2. m \in ThreadSet
      BY <1>10 DEF ThreadSet
    <3> HIDE DEF k
    <3> QED
      BY <1>5, <1>10, <1>11, <3>1, <3>2
  <2>3. CASE u \in others
    <3> DEFINE w == [thread[u] EXCEPT !.alone = FALSE]
               th == thread[u]
    <3>1. u # t /\ thread[u].at = "args" /\ thread[u].knl = k
      BY <2>3
    <3>2. thread'[u] = w
      BY <1>4, <2>3, <3>1
    <3>3. th \in InCall /\ HasSet(th, knl)
      BY <3>1, InCallIs
    <3>4. w \in InCall /\ w.knl = k /\ HasSet(w, new)
      <4> DEFINE ww == w
      <4>1. ww = [th EXCEPT !.alone = FALSE] /\ th.knl = k
        BY <3>1
      <4> HIDE DEF ww, th, knl, k
      <4>2. ww \in InCall /\ ww.knl = th.knl /\ HasSet(ww, new)
        BY <1>8, <3>3, <4>1, NoLongerAlone
      <4> QED
        BY <4>1, <4>2 DEF ww
    <3>5. w \in ThreadSet
      BY <3>4 DEF ThreadSet
    <3> HIDE DEF w, k
    <3> QED
      BY <1>5, <1>11, <3>2, <3>4, <3>5
  <2>4. CASE u # t /\ u \notin others
    <3>1. thread'[u] = thread[u]
      BY <1>4, <2>4
    <3>2. ASSUME thread[u].at = "args"
          PROVE  thread[u].knl \in 1 .. Len(kernels') /\ HasSet(thread[u], kernels'[thread[u].knl])
      <4>1. thread[u].knl # k
        BY <2>4, <3>2
      <4>2. thread[u].knl \in 1 .. Len(kernels) /\ HasSet(thread[u], kernels[thread[u].knl])
        BY <1>1, <3>2 DEF ThreadsInv
      <4>3. kernels'[thread[u].knl] = kernels[thread[u].knl]
        <5> HIDE DEF k
        <5> QED
          BY <1>11, <4>1, <4>2
      <4> HIDE DEF k
      <4> QED
        BY <1>11, <4>2, <4>3
    <3> QED
      BY <2>1, <3>1, <3>2
  <2> QED
    BY <2>2, <2>3, <2>4
<1>15. thread' \in [Threads -> ThreadSet]
  <2>1. \A u \in Threads : thread'[u] \in ThreadSet
    BY <1>14
  <2>2. DOMAIN thread' = Threads /\ thread' = [u \in Threads |-> thread'[u]]
    BY <1>4
  <2> QED
    BY <2>1, <2>2
<1>16. ThreadsInv'
  BY <1>14 DEF ThreadsInv, HasSet
<1>17. LaunchInv'
  BY <1>1, <1>2, LaunchStays
<1>18. Types' /\ ContextInv'
  BY <1>1, <1>2, <1>11, <1>15 DEF Types, ContextInv
<1> QED
  BY <1>12, <1>13, <1>16, <1>17, <1>18 DEF ProgramsInv

LEMMA EnqueueStep ==
  ASSUME ProgramsInv, NEW t \in Threads, Enqueue(t)
  PROVE  ProgramsInv'
<1> DEFINE me  == thread[t]
           knl == kernels[me.knl]
           run == [slots |-> knl.slots, sig |-> me.sig, call |-> me.call, alone |-> me.alone]
<1>1. Types /\ KernelsInv /\ ThreadsInv /\ MemoInv /\ ContextInv
  BY DEF ProgramsInv
<1>2. /\ bug' = bug /\ memo' = memo /\ cleared' = cleared /\ program' = program /\ calls' = calls /\ kernels' = kernels
      /\ me.at = "args" /\ me.next = Len(knl.setters) + 1 /\ launched' = <<run>> /\ Becomes(t, Idle)
  BY DEF Enqueue
<1>3. More
  BY <1>1, <1>2, SameKernels
<1>4. KernelsInv' /\ MemoInv'
  BY <1>1, <1>2, <1>3, KernelsStayGood, MemoStays
<1>5. ThreadsInv' /\ thread' \in [Threads -> ThreadSet]
  BY <1>1, <1>2, <1>3, IdleIs, ThreadBecomes
<1>6. LaunchInv'
  <2> DEFINE r == run
  <2>1. me \in InCall /\ knl \in KernelSet /\ Good(knl) /\ HasSet(me, knl)
    BY <1>2, InCallIs
  <2>2. r = [slots |-> knl.slots, sig |-> me.sig, call |-> me.call, alone |-> me.alone]
    OBVIOUS
  <2>3. launched'[1] = r /\ me.next = Len(knl.setters) + 1
    BY <1>2
  <2> HIDE DEF r, me, knl
  <2>4. Right(r)
    BY <2>1, <2>2, <2>3, AllIsSet
  <2>5. \A x : Right(x)' <=> Right(x)
    BY <1>2, RightStays
  <2> QED
    BY <2>3, <2>4, <2>5 DEF LaunchInv
<1>7. Types' /\ ContextInv'
  BY <1>1, <1>2, <1>5 DEF Types, ContextInv
<1> QED
  BY <1>4, <1>5, <1>6, <1>7 DEF ProgramsInv

LEMMA ProgramsBegin ==
  ASSUME ProgramsInit
  PROVE  ProgramsInv
<1> USE DEF ProgramsInit
<1>1. Types
  <2>1. kernels \in Seq(KernelSet)
    OBVIOUS
  <2>2. thread \in [Threads -> ThreadSet]
    BY IdleIs
  <2> QED
    BY <2>1, <2>2 DEF Types, No
<1>2. ContextInv
  BY DEF ContextInv
<1>3. KernelsInv
  BY DEF KernelsInv
<1>4. MemoInv /\ LaunchInv
  BY DEF MemoInv, LaunchInv, No
<1>5. ThreadsInv
  BY IdleIs DEF ThreadsInv
<1> QED
  BY <1>1, <1>2, <1>3, <1>4, <1>5 DEF ProgramsInv

(* A state that does not change.                                           *)
LEMMA ProgramsStutter ==
  ASSUME ProgramsInv, UNCHANGED programvars
  PROVE  ProgramsInv'
<1>1. UNCHANGED <<bug, memo, cleared, program, kernels, thread, calls, launched>>
  BY DEF programvars
<1>2. calls' \in Nat /\ ContextInv'
  BY <1>1 DEF ProgramsInv, Types, ContextInv
<1> QED
  BY <1>1, <1>2, AsideStays

(* The invariant: every kernel sets what the device takes and no more, the *)
(* kernel remembered of an argument list was made for it, and a thread     *)
(* that has a kernel to itself finds the arguments it set before.          *)
LEMMA ProgramsInvariant == ProgramsSpec => []ProgramsInv
<1>1. ProgramsInit => ProgramsInv
  BY ProgramsBegin
<1>2. ProgramsInv /\ [ProgramsNext]_programvars => ProgramsInv'
  <2> SUFFICES ASSUME ProgramsInv, [ProgramsNext]_programvars PROVE ProgramsInv'
    OBVIOUS
  <2>1. CASE ClearCaches
    BY <2>1, ClearStep
  <2>2. ASSUME NEW t \in Threads, NEW sig \in Signatures, GetKernel(t, sig) \/ KernelOfProgram(t, sig)
        PROVE  ProgramsInv'
    BY <2>2, GetKernelStep, KernelOfProgramStep
  <2>3. ASSUME NEW t \in Threads, MakeKernel(t) \/ FunctionFails(t) \/ ArgFails(t)
        PROVE  ProgramsInv'
    BY <2>3, MakeKernelStep, FailureSteps
  <2>4. ASSUME NEW t \in Threads, NEW b \in BOOLEAN, BuildProgram(t, b) \/ BuildEnds(t, b)
        PROVE  ProgramsInv'
    BY <2>4, BuildSteps
  <2>5. ASSUME NEW t \in Threads, CompileProgram(t) \/ LinkProgram(t)
        PROVE  ProgramsInv'
    BY <2>5, CompileSteps
  <2>6. ASSUME NEW t \in Threads, SetArg(t) \/ Enqueue(t)
        PROVE  ProgramsInv'
    BY <2>6, SetArgStep, EnqueueStep
  <2>7. CASE UNCHANGED programvars
    BY <2>7, ProgramsStutter
  <2> QED
    BY <2>1, <2>2, <2>3, <2>4, <2>5, <2>6, <2>7 DEF ProgramsNext
<1> QED
  BY <1>1, <1>2, PTL DEF ProgramsSpec

(* Whatever the threads do and wherever they are interrupted, a kernel     *)
(* that is enqueued by a thread that had it to itself runs with the        *)
(* arguments of its own call, each where the device takes it; and a        *)
(* program that gave up its context is built.                              *)
THEOREM ArgumentsAreThoseOfTheCall == ProgramsSpec => []KernelRunsWithItsArguments
<1>1. ProgramsInv => KernelRunsWithItsArguments
  <2> SUFFICES ASSUME ProgramsInv PROVE KernelRunsWithItsArguments
    OBVIOUS
  <2>1. ~program._context => program._prg = "built"
    BY DEF ProgramsInv, ContextInv
  <2>2. launched # << >> => Right(launched[1])
    BY DEF ProgramsInv, LaunchInv
  <2> QED
    BY <2>1, <2>2 DEF KernelRunsWithItsArguments, Right, Want, Filled
<1> QED
  BY <1>1, ProgramsInvariant, PTL

-----------------------------------------------------------------------------
(* Transfers between arrays and host memory.                               *)
Transfer ==
  [nanny : BOOLEAN, array : HostArrays, ward : BOOLEAN, waits : BOOLEAN,
   status : {"queued", "done"}, event : {"driver", "user", "garbage", "dying", "gone"}]

CopyShape ==
  /\ transfers \in Seq(Transfer)
  /\ map \in [svm : BOOLEAN, object : {"user", "failed", "gone"}, unmapped : {0, 1}]

(* A ward is let go only after its copy; the program's own references do   *)
(* not matter.                                                             *)
WardInv == \A i \in DOMAIN transfers : transfers[i].nanny /\ ~IsDone(i) => transfers[i].ward

(* svm is forgotten by the unmapping, and only by it.                      *)
MapInv == /\ map.svm <=> map.unmapped = 0
          /\ map.object = "gone" => ~map.svm

TransfersInv == CopyShape /\ WardInv /\ MapInv

-----------------------------------------------------------------------------
(* What is appended to the copies has its ward, and they stay as they are. *)
LEMMA AppendKeepsWards ==
  ASSUME CopyShape, WardInv, NEW t \in Transfer, t.nanny => t.ward,
         transfers' = Append(transfers, t)
  PROVE  transfers' \in Seq(Transfer) /\ WardInv'
<1>1. transfers' \in Seq(Transfer) BY DEF CopyShape
<1>2. WardInv'
  <2> SUFFICES ASSUME NEW i \in DOMAIN transfers', transfers'[i].nanny, ~IsDone(i)'
               PROVE  transfers'[i].ward
    BY DEF WardInv
  <2>1. CASE i \in DOMAIN transfers
    <3>1. transfers'[i] = transfers[i] BY <2>1 DEF CopyShape
    <3> QED BY <2>1, <3>1 DEF WardInv, IsDone
  <2>2. CASE i \notin DOMAIN transfers
    <3>1. transfers'[i] = t BY <2>2 DEF CopyShape
    <3> QED BY <3>1
  <2> QED BY <2>1, <2>2
<1> QED BY <1>1, <1>2

(* A step of one copy keeps its array; it lets the ward go only when the   *)
(* copy is done.                                                           *)
LEMMA UpdateKeepsWards ==
  ASSUME CopyShape, WardInv, NEW i, NEW t,
         i \in DOMAIN transfers =>
           /\ t \in Transfer
           /\ t.nanny = transfers[i].nanny
           /\ t.ward = transfers[i].ward \/ t.status = "done"
           /\ t.status = transfers[i].status \/ t.status = "done",
         transfers' = [transfers EXCEPT ![i] = t]
  PROVE  transfers' \in Seq(Transfer) /\ WardInv'
<1>1. CASE i \notin DOMAIN transfers
  <2>1. transfers' = transfers BY <1>1 DEF CopyShape
  <2> QED BY <2>1 DEF CopyShape, WardInv, IsDone
<1>2. CASE i \in DOMAIN transfers
  <2>1. transfers' \in Seq(Transfer) BY <1>2 DEF CopyShape
  <2>2. WardInv'
    <3>1. DOMAIN transfers' = DOMAIN transfers BY DEF CopyShape
    <3> SUFFICES ASSUME NEW j \in DOMAIN transfers, transfers'[j].nanny, ~IsDone(j)'
                 PROVE  transfers'[j].ward
      BY <3>1 DEF WardInv
    <3>2. CASE j = i
      <4>1. transfers'[j] = t BY <3>2 DEF CopyShape
      <4> QED BY <1>2, <3>2, <4>1 DEF WardInv, IsDone
    <3>3. CASE j # i
      <4>1. transfers'[j] = transfers[j] BY <3>3 DEF CopyShape
      <4> QED BY <4>1 DEF WardInv, IsDone
    <3> QED BY <3>2, <3>3
  <2> QED BY <2>1, <2>2
<1> QED BY <1>1, <1>2

(* Nothing else of the invariant can be disturbed by a step that keeps map. *)
LEMMA SameMap ==
  ASSUME TransfersInv, map' = map, transfers' \in Seq(Transfer) /\ WardInv'
  PROVE  TransfersInv'
BY DEF TransfersInv, CopyShape, MapInv

LEMMA SameTransfers ==
  ASSUME TransfersInv, transfers' = transfers
  PROVE  transfers' \in Seq(Transfer) /\ WardInv'
BY DEF TransfersInv, CopyShape, WardInv, IsDone

LEMMA ElementsAreTransfers ==
  ASSUME CopyShape, NEW i \in DOMAIN transfers
  PROVE  transfers[i] \in Transfer
BY DEF CopyShape

-----------------------------------------------------------------------------
LEMMA TransfersBegin == TransfersInit => TransfersInv
<1> SUFFICES ASSUME TransfersInit PROVE TransfersInv OBVIOUS
<1>1. CopyShape BY DEF TransfersInit, CopyShape
<1>2. WardInv BY DEF TransfersInit, WardInv
<1>3. MapInv BY DEF TransfersInit, MapInv
<1> QED BY <1>1, <1>2, <1>3 DEF TransfersInv

LEMMA CopyBegins ==
  ASSUME TransfersInv, NEW w, NEW dest, NEW src, NEW a \in HostArrays,
         NEW b \in BOOLEAN, NEW c \in BOOLEAN, BeginCopy(w, dest, src, a, b, c)
  PROVE  TransfersInv'
<1> DEFINE nanny == Dispatch(dest, src) \in Nannies
           t == [nanny |-> nanny, array |-> a, ward |-> nanny, waits |-> c,
                 status |-> "queued", event |-> IF b THEN "driver" ELSE "user"]
<1>1. transfers' = Append(transfers, t) /\ map' = map BY DEF BeginCopy
<1>2. nanny \in BOOLEAN BY DEF Nannies
<1> HIDE DEF nanny
<1>3. t \in Transfer BY <1>2 DEF Transfer
<1>4. t.nanny => t.ward OBVIOUS
<1> HIDE DEF t
<1>5. transfers' \in Seq(Transfer) /\ WardInv' BY <1>1, <1>3, <1>4, AppendKeepsWards DEF TransfersInv
<1> QED BY <1>1, <1>5, SameMap

(* The steps that change one copy: what each sets, and why it may.         *)
LEMMA BlockingEnds ==
  ASSUME TransfersInv, NEW w, BlockingCopyEnds(w)
  PROVE  TransfersInv'
<1> DEFINE i == worker[w].of
           t == [transfers[i] EXCEPT !.event = "user"]
<1>1. transfers' = [transfers EXCEPT ![i] = t] /\ map' = map BY DEF BlockingCopyEnds
<1>2. CopyShape /\ WardInv BY DEF TransfersInv
<1> HIDE DEF i
<1>3. ASSUME i \in DOMAIN transfers
      PROVE  /\ t \in Transfer
             /\ t.nanny = transfers[i].nanny
             /\ t.ward = transfers[i].ward \/ t.status = "done"
             /\ t.status = transfers[i].status \/ t.status = "done"
  BY <1>2, <1>3, ElementsAreTransfers DEF Transfer
<1> HIDE DEF t
<1>4. transfers' \in Seq(Transfer) /\ WardInv' BY <1>1, <1>2, <1>3, UpdateKeepsWards
<1> QED BY <1>1, <1>4, SameMap

LEMMA DeviceCompletes ==
  ASSUME TransfersInv, NEW i \in DOMAIN transfers, CompleteCopy(i)
  PROVE  TransfersInv'
<1> DEFINE t == [transfers[i] EXCEPT !.status = "done"]
<1>1. transfers' = [transfers EXCEPT ![i] = t] /\ map' = map BY DEF CompleteCopy
<1>2. CopyShape /\ WardInv BY DEF TransfersInv
<1>3. /\ t \in Transfer
      /\ t.nanny = transfers[i].nanny
      /\ t.ward = transfers[i].ward \/ t.status = "done"
      /\ t.status = transfers[i].status \/ t.status = "done"
  BY <1>2, ElementsAreTransfers DEF Transfer
<1> HIDE DEF t
<1>4. transfers' \in Seq(Transfer) /\ WardInv' BY <1>1, <1>2, <1>3, UpdateKeepsWards
<1> QED BY <1>1, <1>4, SameMap

(* wait lets the ward go after the driver has returned.                    *)
LEMMA WaitReturns ==
  ASSUME TransfersInv, NEW w, WaitEnds(w)
  PROVE  TransfersInv'
<1> DEFINE i == worker[w].of
           t == [transfers[i] EXCEPT !.ward = FALSE]
<1>1. transfers' = [transfers EXCEPT ![i] = t] /\ map' = map /\ transfers[i].status = "done"
  BY DEF WaitEnds, IsDone
<1>2. CopyShape /\ WardInv BY DEF TransfersInv
<1> HIDE DEF i
<1>3. ASSUME i \in DOMAIN transfers
      PROVE  /\ t \in Transfer
             /\ t.nanny = transfers[i].nanny
             /\ t.ward = transfers[i].ward \/ t.status = "done"
             /\ t.status = transfers[i].status \/ t.status = "done"
  BY <1>1, <1>2, <1>3, ElementsAreTransfers DEF Transfer
<1> HIDE DEF t
<1>4. transfers' \in Seq(Transfer) /\ WardInv' BY <1>1, <1>2, <1>3, UpdateKeepsWards
<1> QED BY <1>1, <1>4, SameMap

(* The destructor of a nanny event begins to wait and keeps the ward; one  *)
(* of a plain event goes, which had none.                                  *)
LEMMA EventDropped ==
  ASSUME TransfersInv, NEW w, NEW i \in DOMAIN transfers, DropEvent(w, i)
  PROVE  TransfersInv'
<1> DEFINE t(e) == [transfers[i] EXCEPT !.event = e]
<1>1. PICK e \in {"dying", "gone"} : transfers' = [transfers EXCEPT ![i] = t(e)]
  BY DEF DropEvent
<1>2. map' = map BY DEF DropEvent
<1>3. CopyShape /\ WardInv BY DEF TransfersInv
<1>4. /\ t(e) \in Transfer
      /\ t(e).nanny = transfers[i].nanny
      /\ t(e).ward = transfers[i].ward \/ t(e).status = "done"
      /\ t(e).status = transfers[i].status \/ t(e).status = "done"
  BY <1>3, ElementsAreTransfers DEF Transfer
<1> HIDE DEF t
<1>5. transfers' \in Seq(Transfer) /\ WardInv' BY <1>1, <1>3, <1>4, UpdateKeepsWards
<1> QED BY <1>2, <1>5, SameMap

LEMMA CleanupReturns ==
  ASSUME TransfersInv, NEW w, CleanupEnds(w)
  PROVE  TransfersInv'
<1> DEFINE i == worker[w].of
           t == [transfers[i] EXCEPT !.event = "gone", !.ward = FALSE]
<1>1. transfers' = [transfers EXCEPT ![i] = t] /\ map' = map /\ transfers[i].status = "done"
  BY DEF CleanupEnds, IsDone
<1>2. CopyShape /\ WardInv BY DEF TransfersInv
<1> HIDE DEF i
<1>3. ASSUME i \in DOMAIN transfers
      PROVE  /\ t \in Transfer
             /\ t.nanny = transfers[i].nanny
             /\ t.ward = transfers[i].ward \/ t.status = "done"
             /\ t.status = transfers[i].status \/ t.status = "done"
  BY <1>1, <1>2, <1>3, ElementsAreTransfers DEF Transfer
<1> HIDE DEF t
<1>4. transfers' \in Seq(Transfer) /\ WardInv' BY <1>1, <1>2, <1>3, UpdateKeepsWards
<1> QED BY <1>1, <1>4, SameMap

LEMMA EventLost ==
  ASSUME TransfersInv, NEW w, NEW i \in DOMAIN transfers, LoseEvent(w, i)
  PROVE  TransfersInv'
<1> DEFINE t == [transfers[i] EXCEPT !.event = "garbage"]
<1>1. transfers' = [transfers EXCEPT ![i] = t] /\ map' = map BY DEF LoseEvent
<1>2. CopyShape /\ WardInv BY DEF TransfersInv
<1>3. /\ t \in Transfer
      /\ t.nanny = transfers[i].nanny
      /\ t.ward = transfers[i].ward \/ t.status = "done"
      /\ t.status = transfers[i].status \/ t.status = "done"
  BY <1>2, ElementsAreTransfers DEF Transfer
<1> HIDE DEF t
<1>4. transfers' \in Seq(Transfer) /\ WardInv' BY <1>1, <1>2, <1>3, UpdateKeepsWards
<1> QED BY <1>1, <1>4, SameMap

(* The two ways to end a map.                                              *)
LEMMA MapReleased ==
  ASSUME TransfersInv, NEW w, NEW e \in BOOLEAN, ReleaseMap(w, e) \/ DropMap(w, e)
  PROVE  TransfersInv'
<1>1. transfers' = transfers BY DEF ReleaseMap, DropMap
<1>2. transfers' \in Seq(Transfer) /\ WardInv' BY <1>1, SameTransfers
<1>3. /\ map \in [svm : BOOLEAN, object : {"user", "failed", "gone"}, unmapped : {0, 1}]
      /\ map.svm <=> map.unmapped = 0
  BY DEF TransfersInv, CopyShape, MapInv
<1>4. map.object = "user" BY DEF ReleaseMap, DropMap
<1>5. /\ Released(map, e) \in [svm : BOOLEAN, object : {"user", "failed", "gone"}, unmapped : {0, 1}]
      /\ Released(map, e).svm <=> Released(map, e).unmapped = 0
      /\ Released(map, e).object = "user"
      /\ Released(map, e).svm => map.svm /\ ~e
  <2>1. CASE map.svm /\ e
    <3>1. map = [svm |-> TRUE, object |-> "user", unmapped |-> 0] BY <1>3, <1>4, <2>1
    <3>2. Released(map, e) = [map EXCEPT !.svm = FALSE, !.unmapped = 0 + 1]
      BY <2>1, <3>1 DEF Released
    <3>3. Released(map, e) = [svm |-> FALSE, object |-> "user", unmapped |-> 0 + 1]
      BY <3>1, <3>2
    <3>4. 0 + 1 = 1 OBVIOUS
    <3> QED BY <3>3, <3>4
  <2>2. CASE ~(map.svm /\ e)
    <3>1. Released(map, e) = map BY <2>2 DEF Released
    <3> QED BY <1>3, <1>4, <2>2, <3>1
  <2> QED BY <2>1, <2>2
<1>6. CASE ReleaseMap(w, e)
  BY <1>2, <1>5, <1>6 DEF ReleaseMap, TransfersInv, CopyShape, MapInv
<1>7. CASE DropMap(w, e)
  BY <1>2, <1>3, <1>5, <1>7 DEF DropMap, TransfersInv, CopyShape, MapInv
<1> QED BY <1>6, <1>7

-----------------------------------------------------------------------------
LEMMA TransfersStep == TransfersInv /\ [TransfersNext]_transfervars => TransfersInv'
<1> SUFFICES ASSUME TransfersInv, [TransfersNext]_transfervars PROVE TransfersInv' OBVIOUS
<1>1. ASSUME NEW w \in Workers, NEW dest \in Parties, NEW src \in Parties, NEW a \in HostArrays,
             NEW b \in BOOLEAN, NEW c \in BOOLEAN, BeginCopy(w, dest, src, a, b, c)
      PROVE  TransfersInv'
  BY <1>1, CopyBegins
<1>2. ASSUME NEW w \in Workers, BlockingCopyEnds(w) PROVE TransfersInv' BY <1>2, BlockingEnds
<1>3. ASSUME NEW w \in Workers, WaitEnds(w) PROVE TransfersInv' BY <1>3, WaitReturns
<1>4. ASSUME NEW w \in Workers, CleanupEnds(w) PROVE TransfersInv' BY <1>4, CleanupReturns
<1>5. ASSUME NEW w \in Workers, NEW i \in DOMAIN transfers, DropEvent(w, i) PROVE TransfersInv'
  BY <1>5, EventDropped
<1>6. ASSUME NEW w \in Workers, NEW i \in DOMAIN transfers, LoseEvent(w, i) PROVE TransfersInv'
  BY <1>6, EventLost
<1>7. ASSUME NEW w \in Workers, NEW e \in BOOLEAN, ReleaseMap(w, e) \/ DropMap(w, e) PROVE TransfersInv'
  BY <1>7, MapReleased
<1>8. ASSUME NEW i \in DOMAIN transfers, CompleteCopy(i) PROVE TransfersInv' BY <1>8, DeviceCompletes
<1>9. ASSUME transfers' = transfers, map' = map PROVE TransfersInv'
  BY <1>9, SameTransfers, SameMap
<1>10. ASSUME NEW w \in Workers, SetUserEvent(w) PROVE TransfersInv'
  BY <1>9, <1>10 DEF SetUserEvent
<1>11. ASSUME NEW w \in Workers, NEW i \in DOMAIN transfers, BeginWait(w, i) PROVE TransfersInv'
  BY <1>9, <1>11 DEF BeginWait
<1>12. ASSUME NEW w \in Workers, NEW a \in HostArrays, DropArray(w, a) PROVE TransfersInv'
  BY <1>9, <1>12 DEF DropArray
<1>13. CASE UNCHANGED transfervars
  BY <1>9, <1>13 DEF transfervars
<1> QED
  BY <1>1, <1>2, <1>3, <1>4, <1>5, <1>6, <1>7, <1>8, <1>10, <1>11, <1>12, <1>13 DEF TransfersNext

(* For any number of threads, arrays and copies: the memory of a copy with *)
(* a nanny event is kept until the device is done, and shared memory is    *)
(* unmapped once (wrap_cl.hpp, nanny_event; __init__.py, SVMMap).          *)
THEOREM MemoryIsKept == TransfersSpec => []HostMemoryIsKept
<1>1. TransfersInv => HostMemoryIsKept
  <2> SUFFICES ASSUME TransfersInv PROVE HostMemoryIsKept OBVIOUS
  <2>1. \A i \in DOMAIN transfers :
          transfers[i].nanny /\ ~IsDone(i) => transfers[i].ward \/ transfers[i].array \in held
    BY DEF TransfersInv, WardInv
  <2>2. map.unmapped <= 1 /\ (map.object = "gone" => map.unmapped = 1)
    BY DEF TransfersInv, CopyShape, MapInv
  <2> QED BY <2>1, <2>2 DEF HostMemoryIsKept
<1> QED BY <1>1, TransfersBegin, TransfersStep, PTL DEF TransfersSpec
=============================================================================
