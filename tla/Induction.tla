----------------------------- MODULE Induction -----------------------------
(***************************************************************************)
(* Induction over the natural numbers, stated with sets of numbers where   *)
(* the theorems of NaturalsInduction take an operator.  A fact P(n) is     *)
(* proved for every n by citing NatSetInduction for {n \in Nat : P(n)}.    *)
(* And the arithmetic of quotients that the proofs about kernels share.    *)
(***************************************************************************)
EXTENDS Integers, PowersOfTwo, WellFoundedInduction, TLAPS

(* A set of natural numbers that is not empty has a least element.         *)
LEMMA LeastNat ==
  ASSUME NEW S, S \subseteq Nat, S # {}
  PROVE  \E x \in S : \A y \in S : x =< y
<1> DEFINE R == {ss \in Nat \X Nat : ss[1] < ss[2]}
<1>1. IsWellFoundedOn(R, Nat)
  BY NatLessThanWellFounded DEF OpToRel
<1> HIDE DEF R
<1>2. PICK x \in S : \A y \in S : ~ (<<y, x>> \in R)
  BY <1>1, WFMin
<1>3. \A y \in S : x =< y
  <2> SUFFICES ASSUME NEW y \in S, y < x PROVE FALSE
    OBVIOUS
  <2>1. <<y, x>> \in Nat \X Nat /\ <<y, x>>[1] < <<y, x>>[2]
    OBVIOUS
  <2> QED
    BY <1>2, <2>1 DEF R
<1> QED
  BY <1>3

(* A set that contains 0 and with every number its successor contains all  *)
(* numbers.                                                                *)
LEMMA NatSetInduction ==
  ASSUME NEW S, 0 \in S, \A n \in Nat : n \in S => n + 1 \in S
  PROVE  Nat \subseteq S
<1> SUFFICES ASSUME Nat \ S # {} PROVE FALSE
  OBVIOUS
<1>1. PICK x \in Nat \ S : \A y \in Nat \ S : x =< y
  BY LeastNat
<1>2. x # 0 /\ x - 1 \in Nat /\ x = (x - 1) + 1
  BY <1>1
<1>3. x - 1 \in S
  BY <1>1, <1>2
<1> QED
  BY <1>1, <1>2, <1>3

-----------------------------------------------------------------------------
(* Definition by recursion: f begins with b, and every value of it follows *)
(* by G from its number and the one before it.                             *)
Iterable(S, b, G)    == b \in S /\ G \in [Nat \X S -> S]
Iterates(f, S, b, G) == f \in [Nat -> S] /\ f[0] = b /\ \A n \in Nat : f[n + 1] = G[<<n, f[n]>>]

(* There is such a function.  (What a recursive function computes is a     *)
(* CHOOSE until one is known to exist.)                                    *)
LEMMA Iteration ==
  ASSUME NEW S, NEW b, NEW G, Iterable(S, b, G)
  PROVE  \E f : Iterates(f, S, b, G)
<1> b \in S /\ G \in [Nat \X S -> S]
  BY DEF Iterable
<1> DEFINE Starts(n, p) == /\ p \in [0 .. n -> S] /\ p[0] = b
                           /\ \A i \in 0 .. n - 1 : p[i + 1] = G[<<i, p[i]>>]
           Reached == {n \in Nat : \E p \in [0 .. n -> S] : Starts(n, p)}
<1>1. 0 \in Reached
  <2> DEFINE p == [i \in 0 .. 0 |-> b]
  <2>1. p \in [0 .. 0 -> S] /\ p[0] = b
    OBVIOUS
  <2> HIDE DEF p
  <2>2. Starts(0, p)
    BY <2>1
  <2> QED
    BY <2>1, <2>2
<1>2. ASSUME NEW n \in Nat, n \in Reached PROVE n + 1 \in Reached
  <2>1. PICK p \in [0 .. n -> S] : Starts(n, p)
    BY <1>2
  <2> DEFINE q == [i \in 0 .. n + 1 |-> IF i <= n THEN p[i] ELSE G[<<n, p[n]>>]]
  <2>2. /\ \A i \in 0 .. n : q[i] = p[i]
        /\ q[n + 1] = G[<<n, p[n]>>]
    OBVIOUS
  <2>3. q \in [0 .. n + 1 -> S]
    <3>1. \A i \in 0 .. n + 1 : (IF i <= n THEN p[i] ELSE G[<<n, p[n]>>]) \in S
      <4>1. \A i \in 0 .. n + 1 : i <= n => i \in 0 .. n
        OBVIOUS
      <4>2. n \in 0 .. n /\ p[n] \in S
        OBVIOUS
      <4>3. G[<<n, p[n]>>] \in S
        BY <4>2
      <4> QED
        BY <4>1, <4>3
    <3> QED
      BY <3>1
  <2> HIDE DEF q
  <2>4. \A i \in 0 .. n : q[i + 1] = G[<<i, q[i]>>]
    <3> SUFFICES ASSUME NEW i \in 0 .. n PROVE q[i + 1] = G[<<i, q[i]>>]
      OBVIOUS
    <3>1. CASE i = n
      BY <2>2, <3>1
    <3>2. CASE i # n
      <4>1. i \in 0 .. n - 1 /\ i + 1 \in 0 .. n
        BY <3>2
      <4> QED
        BY <2>1, <2>2, <4>1
    <3> QED
      BY <3>1, <3>2
  <2>5. q[0] = b
    BY <2>1, <2>2
  <2>6. Starts(n + 1, q)
    BY <2>3, <2>4, <2>5
  <2> HIDE DEF Starts
  <2> QED
    BY <2>3, <2>6
<1>3. Nat \subseteq Reached
  <2> HIDE DEF Reached
  <2> QED
    BY <1>1, <1>2, NatSetInduction
<1> DEFINE P(n) == CHOOSE p \in [0 .. n -> S] : Starts(n, p)
<1>4. \A n \in Nat : P(n) \in [0 .. n -> S] /\ Starts(n, P(n))
  BY <1>3
<1> HIDE DEF P, Reached
<1>5. \A n \in Nat : \A i \in Nat : i <= n => P(n + 1)[i] = P(n)[i]
  <2> SUFFICES ASSUME NEW n \in Nat PROVE \A i \in Nat : i <= n => P(n + 1)[i] = P(n)[i]
    OBVIOUS
  <2> DEFINE Agree == {i \in Nat : i <= n => P(n + 1)[i] = P(n)[i]}
  <2>0. Starts(n, P(n)) /\ Starts(n + 1, P(n + 1))
    BY <1>4
  <2>1. 0 \in Agree
    BY <2>0
  <2>2. ASSUME NEW i \in Nat, i \in Agree PROVE i + 1 \in Agree
    <3> SUFFICES ASSUME i + 1 <= n PROVE P(n + 1)[i + 1] = P(n)[i + 1]
      OBVIOUS
    <3>1. i \in 0 .. n - 1 /\ i \in 0 .. n + 1 - 1 /\ i <= n
      OBVIOUS
    <3>2. P(n)[i + 1] = G[<<i, P(n)[i]>>]
      BY <2>0, <3>1
    <3>3. P(n + 1)[i + 1] = G[<<i, P(n + 1)[i]>>]
      BY <2>0, <3>1
    <3>4. P(n + 1)[i] = P(n)[i]
      BY <2>2, <3>1
    <3> QED
      BY <3>2, <3>3, <3>4
  <2>3. Nat \subseteq Agree
    <3> HIDE DEF Agree
    <3> QED
      BY <2>1, <2>2, NatSetInduction
  <2> QED
    BY <2>3
<1> DEFINE f == [n \in Nat |-> P(n)[n]]
<1>6. f \in [Nat -> S]
  <2>1. \A n \in Nat : P(n)[n] \in S
    <3> SUFFICES ASSUME NEW n \in Nat PROVE P(n)[n] \in S
      OBVIOUS
    <3>1. P(n) \in [0 .. n -> S] /\ n \in 0 .. n
      BY <1>4
    <3> QED
      BY <3>1
  <2> QED
    BY <2>1
<1>7. f[0] = b
  <2>1. Starts(0, P(0))
    BY <1>4
  <2> QED
    BY <2>1
<1>8. ASSUME NEW n \in Nat PROVE f[n + 1] = G[<<n, f[n]>>]
  <2>1. Starts(n + 1, P(n + 1)) /\ n \in 0 .. n + 1 - 1
    BY <1>4
  <2>2. P(n + 1)[n + 1] = G[<<n, P(n + 1)[n]>>]
    BY <2>1
  <2>3. P(n + 1)[n] = P(n)[n]
    BY <1>5
  <2> QED
    BY <2>2, <2>3
<1> HIDE DEF f
<1> QED
  BY <1>6, <1>7, <1>8 DEF Iterates

-----------------------------------------------------------------------------
(* The same up to a bound.                                                 *)
LEMMA BoundedInduction ==
  ASSUME NEW n \in Nat, NEW S, 0 \in S, \A i \in 1 .. n : i - 1 \in S => i \in S
  PROVE  \A i \in 0 .. n : i \in S
<1> DEFINE T == {i \in Nat : i <= n => i \in S}
<1>1. ASSUME NEW i \in Nat, i \in T PROVE i + 1 \in T
  <2> SUFFICES ASSUME i + 1 <= n PROVE i + 1 \in S
    OBVIOUS
  <2>1. i + 1 \in 1 .. n /\ (i + 1) - 1 = i /\ i \in S
    BY <1>1
  <2> QED
    BY <2>1
<1>2. 0 \in T
  OBVIOUS
<1> HIDE DEF T
<1>3. Nat \subseteq T
  BY <1>1, <1>2, NatSetInduction
<1> QED
  BY <1>3 DEF T

IteratesTo(n, f, S, b, G) ==
  f \in [0 .. n -> S] /\ f[0] = b /\ \A i \in 1 .. n : f[i] = G[<<i - 1, f[i - 1]>>]

LEMMA BoundedIteration ==
  ASSUME NEW n \in Nat, NEW S, NEW b, NEW G, Iterable(S, b, G)
  PROVE  \E f : IteratesTo(n, f, S, b, G)
<1>1. PICK g : Iterates(g, S, b, G)
  BY Iteration
<1>2. g \in [Nat -> S] /\ g[0] = b
  BY <1>1 DEF Iterates
<1>3. \A i \in 1 .. n : g[i] = G[<<i - 1, g[i - 1]>>]
  <2> SUFFICES ASSUME NEW i \in 1 .. n PROVE g[i] = G[<<i - 1, g[i - 1]>>]
    OBVIOUS
  <2>1. i - 1 \in Nat /\ (i - 1) + 1 = i
    OBVIOUS
  <2>2. g[(i - 1) + 1] = G[<<i - 1, g[i - 1]>>]
    BY <1>1, <2>1 DEF Iterates
  <2> QED
    BY <2>1, <2>2
<1> DEFINE f == [i \in 0 .. n |-> g[i]]
<1>4. \A i \in 0 .. n : f[i] = g[i]
  OBVIOUS
<1>5. f \in [0 .. n -> S]
  BY <1>2
<1> HIDE DEF f
<1>6. \A i \in 1 .. n : f[i] = G[<<i - 1, f[i - 1]>>]
  <2>1. \A i \in 1 .. n : i \in 0 .. n /\ i - 1 \in 0 .. n
    OBVIOUS
  <2> QED
    BY <1>3, <1>4, <2>1
<1> QED
  BY <1>2, <1>4, <1>5, <1>6 DEF IteratesTo

-----------------------------------------------------------------------------
(* Powers of two.                                                          *)
LEMMA Pow2Def ==
  /\ Pow2 \in [Nat -> Nat] /\ Pow2[0] = 1
  /\ \A n \in Nat : Pow2[n + 1] = 2 * Pow2[n]
<1> DEFINE G == [x \in Nat \X Nat |-> 2 * x[2]]
<1>1. G \in [Nat \X Nat -> Nat] /\ \A n, y \in Nat : G[<<n, y>>] = 2 * y
  OBVIOUS
<1> HIDE DEF G
<1>2. PICK f \in [Nat -> Nat] : f[0] = 1 /\ \A n \in Nat : f[n + 1] = G[<<n, f[n]>>]
  <2>1. Iterable(Nat, 1, G)
    BY <1>1 DEF Iterable
  <2> QED
    BY <2>1, Iteration DEF Iterates
<1>3. \A n \in Nat : f[n] = IF n = 0 THEN 1 ELSE 2 * f[n - 1]
  <2> SUFFICES ASSUME NEW n \in Nat \ {0} PROVE f[n] = 2 * f[n - 1]
    BY <1>2
  <2>1. n - 1 \in Nat /\ (n - 1) + 1 = n
    OBVIOUS
  <2>2. f[n] = G[<<n - 1, f[n - 1]>>]
    BY <1>2, <2>1
  <2> QED
    BY <1>1, <2>1, <2>2
<1>4. f = [n \in Nat |-> IF n = 0 THEN 1 ELSE 2 * f[n - 1]]
  BY <1>3
<1>5. Pow2 = [n \in Nat |-> IF n = 0 THEN 1 ELSE 2 * Pow2[n - 1]]
  BY <1>4 DEF Pow2
<1> DEFINE D == {n \in Nat : Pow2[n] \in Nat}
<1> HIDE DEF D
<1>6. Pow2[0] = 1 /\ \A n \in Nat : Pow2[n + 1] = 2 * Pow2[n]
  <2>1. 0 \in Nat /\ \A n \in Nat : n + 1 \in Nat /\ n + 1 # 0 /\ (n + 1) - 1 = n
    OBVIOUS
  <2>2. \A n \in Nat : Pow2[n] = IF n = 0 THEN 1 ELSE 2 * Pow2[n - 1]
    BY <1>5, Zenon
  <2> QED
    BY <2>1, <2>2
<1>7. Nat \subseteq D
  <2>1. 0 \in D /\ \A n \in Nat : n \in D => n + 1 \in D
    BY <1>6 DEF D
  <2> QED
    BY <2>1, NatSetInduction
<1>8. DOMAIN Pow2 = Nat /\ \A n \in Nat : Pow2[n] \in Nat
  BY <1>5, <1>7 DEF D
<1>9. Pow2 \in [Nat -> Nat]
  BY <1>5, <1>8
<1> QED
  BY <1>6, <1>9

LEMMA Pow2Positive == \A n \in Nat : Pow2[n] \in Nat \ {0}
<1> DEFINE D == {n \in Nat : Pow2[n] \in Nat \ {0}}
<1>1. 0 \in D /\ \A n \in Nat : n \in D => n + 1 \in D
  BY Pow2Def
<1> HIDE DEF D
<1>2. Nat \subseteq D
  BY <1>1, NatSetInduction
<1> QED
  BY <1>2 DEF D

(* 2^(a + b) = 2^a 2^b                                                     *)
LEMMA Pow2Sum ==
  ASSUME NEW a \in Nat, NEW b \in Nat
  PROVE  Pow2[a + b] = Pow2[a] * Pow2[b]
<1> DEFINE D == {n \in Nat : Pow2[a + n] = Pow2[a] * Pow2[n]}
<1>1. 0 \in D
  BY Pow2Def, Pow2Positive
<1>2. ASSUME NEW n \in Nat, n \in D PROVE n + 1 \in D
  <2>1. Pow2[a + (n + 1)] = 2 * Pow2[a + n]
    <3>1. a + n \in Nat /\ a + (n + 1) = (a + n) + 1
      OBVIOUS
    <3> QED
      BY <3>1, Pow2Def
  <2>2. Pow2[n + 1] = 2 * Pow2[n] /\ Pow2[a + n] = Pow2[a] * Pow2[n]
    BY <1>2, Pow2Def
  <2>3. Pow2[a] \in Nat /\ Pow2[n] \in Nat
    BY Pow2Positive
  <2>4. \A x, y \in Nat : 2 * (x * y) = x * (2 * y)
    OBVIOUS
  <2>5. 2 * (Pow2[a] * Pow2[n]) = Pow2[a] * (2 * Pow2[n])
    BY <2>3, <2>4
  <2> QED
    BY <2>1, <2>2, <2>5
<1> HIDE DEF D
<1>3. Nat \subseteq D
  BY <1>1, <1>2, NatSetInduction
<1> QED
  BY <1>3 DEF D

(* A larger exponent makes the power at least twice as large.              *)
LEMMA Pow2Grows ==
  ASSUME NEW a \in Nat, NEW b \in Nat, a < b
  PROVE  2 * Pow2[a] <= Pow2[b]
<1>1. b - (a + 1) \in Nat /\ a + 1 \in Nat /\ (a + 1) + (b - (a + 1)) = b
  OBVIOUS
<1>2. Pow2[b] = Pow2[a + 1] * Pow2[b - (a + 1)]
  BY <1>1, Pow2Sum
<1>3. Pow2[a + 1] = 2 * Pow2[a] /\ Pow2[a] \in Nat \ {0} /\ Pow2[b - (a + 1)] \in Nat \ {0}
  BY <1>1, Pow2Def, Pow2Positive
<1>4. \A x, y \in Nat \ {0} : x <= x * y
  OBVIOUS
<1>5. Pow2[a + 1] <= Pow2[a + 1] * Pow2[b - (a + 1)]
  BY <1>1, <1>4, Pow2Positive
<1> QED
  BY <1>2, <1>3, <1>5

-----------------------------------------------------------------------------
(* Quotients and remainders.                                               *)

(* Division with a remainder.                                             *)
LEMMA Division ==
  \A a \in Nat, d \in Nat \ {0} : a = d * (a \div d) + (a % d) /\ a % d \in 0 .. d - 1 /\ a \div d \in Nat
OBVIOUS

(* The distance to the first element of its group of G tells the work item.*)
LEMMA OneWorkItem ==
  ASSUME NEW a \in Nat, NEW b \in Nat, NEW k \in Nat, NEW l \in Nat, NEW G \in Nat, a < G, b < G, a + k * G = b + l * G
  PROVE  a = b
<1>1. CASE k > l
  <2>1. k = l + 1 + (k - l - 1) /\ k - l - 1 \in Nat
    BY <1>1
  <2>2. k * G = l * G + G + (k - l - 1) * G /\ (k - l - 1) * G \in Nat /\ l * G \in Nat /\ k * G \in Nat
    BY <2>1
  <2> QED
    BY <2>2
<1>2. CASE l > k
  <2>1. l = k + 1 + (l - k - 1) /\ l - k - 1 \in Nat
    BY <1>2
  <2>2. l * G = k * G + G + (l - k - 1) * G /\ (l - k - 1) * G \in Nat /\ k * G \in Nat /\ l * G \in Nat
    BY <2>1
  <2> QED
    BY <2>2
<1>3. CASE k = l
  <2>1. k * G \in Nat
    OBVIOUS
  <2> QED
    BY <1>3, <2>1
<1> QED
  BY <1>1, <1>2, <1>3

(* Numbers of two digits, the lower one to base B.                         *)
LEMMA TwoDigits ==
  ASSUME NEW A \in Nat, NEW B \in Nat \ {0}, NEW a \in 0 .. A - 1, NEW b \in 0 .. B - 1
  PROVE  a * B + b \in 0 .. A * B - 1 /\ (a * B + b) \div B = a /\ (a * B + b) % B = b
<1> DEFINE x == a * B + b
           u == x \div B
           v == x % B
<1>1. a \in Nat /\ b \in Nat /\ b < B /\ a * B \in Nat /\ A * B \in Nat
  OBVIOUS
<1>2. x \in Nat /\ x = a * B + b
  BY <1>1
<1>3. x = B * u + v /\ v \in 0 .. B - 1 /\ u \in Nat
  BY <1>2, Division
<1>4. x < A * B
  <2>1. A = a + 1 + (A - a - 1) /\ A - a - 1 \in Nat
    OBVIOUS
  <2>2. A * B = a * B + B + (A - a - 1) * B /\ (A - a - 1) * B \in Nat
    BY <2>1
  <2> HIDE DEF x
  <2> QED
    BY <1>1, <1>2, <2>2
<1> HIDE DEF x, u, v
<1>5. u * B \in Nat /\ v + u * B = b + a * B /\ v \in Nat /\ v < B
  BY <1>1, <1>2, <1>3
<1>6. v = b
  BY <1>1, <1>3, <1>5, OneWorkItem
<1>7. u * B = a * B
  BY <1>1, <1>5, <1>6
<1>8. \A c, d \in Nat : c * B = d * B => c = d
  OBVIOUS
<1>9. u = a
  BY <1>1, <1>3, <1>7, <1>8
<1> QED
  BY <1>1, <1>2, <1>4, <1>6, <1>9 DEF x, u, v

(* A number below A * B has two such digits.                               *)
LEMMA DigitsOf ==
  ASSUME NEW A \in Nat, NEW B \in Nat \ {0}, NEW x \in Nat, x < A * B
  PROVE  x \div B \in 0 .. A - 1 /\ x % B \in 0 .. B - 1 /\ x = (x \div B) * B + (x % B)
<1> DEFINE u == x \div B
           v == x % B
<1>1. x = B * u + v /\ v \in 0 .. B - 1 /\ u \in Nat
  BY Division
<1> HIDE DEF u, v
<1>2. B * u = u * B /\ u * B \in Nat /\ A * B \in Nat
  BY <1>1
<1>3. ASSUME u >= A PROVE FALSE
  <2>1. u = A + (u - A) /\ u - A \in Nat
    BY <1>1, <1>3
  <2>2. u * B = A * B + (u - A) * B /\ (u - A) * B \in Nat
    BY <2>1
  <2> QED
    BY <1>1, <1>2, <2>2
<1>4. u \in 0 .. A - 1
  BY <1>1, <1>3
<1>5. x = u * B + v
  BY <1>1, <1>2
<1> QED
  BY <1>1, <1>4, <1>5 DEF u, v

(* The sizes of work groups.                                              *)
Powers == {2 ^ e : e \in 0 .. 8}

LEMMA PowersArePositive == Powers \subseteq Nat \ {0}
<1> SUFFICES ASSUME NEW e \in 0 .. 8 PROVE 2 ^ e \in Nat \ {0}
  BY DEF Powers
<1>1. \/ e = 0 \/ e = 1 \/ e = 2 \/ e = 3 \/ e = 4 \/ e = 5 \/ e = 6 \/ e = 7 \/ e = 8
  OBVIOUS
<1>2. 2 ^ e \in {2 ^ 0, 2 ^ 1, 2 ^ 2, 2 ^ 3, 2 ^ 4, 2 ^ 5, 2 ^ 6, 2 ^ 7, 2 ^ 8}
  BY <1>1, Zenon
<1>3. {2 ^ 0, 2 ^ 1, 2 ^ 2, 2 ^ 3, 2 ^ 4, 2 ^ 5, 2 ^ 6, 2 ^ 7, 2 ^ 8} \subseteq Nat \ {0}
  OBVIOUS
<1> QED
  BY <1>2, <1>3
=============================================================================
