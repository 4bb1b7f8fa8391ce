---------------------------- MODULE PowersOfTwo ----------------------------
EXTENDS Integers

(* 1 << n, for a word as wide as it takes.                                 *)
Pow2[n \in Nat] == IF n = 0 THEN 1 ELSE 2 * Pow2[n - 1]

(* 2 ** bitlog2(n) == n; 0 is not asked for.                               *)
IsPowerOf2(n) == \E e \in 0 .. n : n = Pow2[e]
=============================================================================
