--------------------------------- MODULE Random ---------------------------------
(***************************************************************************)
(* PhiloxGenerator and ThreefryGenerator (src/pyopencl/clrandom.py): a     *)
(* number is a function of a key, which holds the number of the work item, *)
(* and a counter, which the device counts up in words of 32 bits while a   *)
(* kernel runs, and the host, in its own way, after it was enqueued.       *)
(*                                                                         *)
(* Words are smaller here, so that a counter comes to their ends; all else *)
(* is to scale: a kernel draws far fewer numbers than a word counts.       *)
(***************************************************************************)
EXTENDS Integers, Sequences, FiniteSets

CONSTANTS
  word,           \* 2^32: of the counters on the device
  counter_max,    \* 2^31 - 1: of those on the host
  work_items,     \* of splay: how many work items a kernel has at most
  Counters,       \* the counters that a generator may be made with
  Sizes,          \* sizes of the arrays to fill
  MaxFills        \* bound: kernels

ASSUME RandomAssumption ==
  /\ word \in Nat \ {0} /\ counter_max \in 1 .. word /\ work_items \in Nat \ {0}
  /\ Counters \subseteq Int \X Int \X Int
  /\ Sizes \subseteq Nat /\ MaxFills \in Nat

VARIABLES
  counter,  \* self.counter, without the fourth, which never changes
  fills     \* what work item 0 of each kernel drew, a sequence of counters

randomvars == <<counter, fills>>

(* get_gen_kernel: calls of gen_bits per four numbers, and numbers per     *)
(* element.                                                                *)
Distributions ==
  [float32 |-> [counter_multiplier |-> 1, size_multiplier |-> 1],
   float2  |-> [counter_multiplier |-> 1, size_multiplier |-> 2],
   float3  |-> [counter_multiplier |-> 1, size_multiplier |-> 3],
   float4  |-> [counter_multiplier |-> 1, size_multiplier |-> 4],
   float64 |-> [counter_multiplier |-> 2, size_multiplier |-> 1],
   int32   |-> [counter_multiplier |-> 1, size_multiplier |-> 1],
   int64   |-> [counter_multiplier |-> 2, size_multiplier |-> 1]]

(* __init__: key and counter are given, or random.                         *)
RandomInit == counter \in Counters /\ fills = << >>

(* gen_bits: ++ with a carry into the next word.                           *)
Incremented(c) ==
  LET up(x) == (x + 1) % word IN
  IF up(c[1]) # 0 THEN <<up(c[1]), c[2], c[3]>>
  ELSE IF up(c[2]) # 0 THEN <<0, up(c[2]), c[3]>>
  ELSE <<0, 0, up(c[3])>>

(* The int arguments c0, c1 and c2 as the words of the counter.            *)
AsWords(c) == <<c[1] % word, c[2] % word, c[3] % word>>

(* splay, on a device with few work items.                                 *)
global_size(n_) == IF n_ = 0 THEN 1 ELSE IF n_ < work_items THEN n_ ELSE work_items

(* The kernel: four numbers at a time while more than four are left, then  *)
(* a tail; draws of which nothing is stored do not count.                  *)
DrawsOf(out_size, gsize_, multiplier) ==
  LET rounds == Cardinality({r \in 0 .. out_size : 4 * gsize_ * r + 4 < out_size})
      tail   == IF 4 * gsize_ * rounds < out_size THEN 1 ELSE 0
  IN  (rounds + tail) * multiplier

Drawn(from, draws) ==
  LET c[i \in 1 .. draws] == IF i = 1 THEN AsWords(from) ELSE Incremented(c[i - 1]) IN c

(* Mutant: the counter advances by the calls of gen_bits of four numbers. *)
AdvancedByQuarter(c, n_, multiplier) ==
  LET sum == c[1] + (n_ * multiplier) \div 4
      c1_incr == sum \div counter_max
  IN  IF c1_incr = 0 THEN <<sum, c[2], c[3]>>
      ELSE <<sum % counter_max, (c[2] + c1_incr) % counter_max, c[3] + (c[2] + c1_incr) \div counter_max>>

(* _fill, after the kernel was enqueued: divmod rounds down.               *)
Advanced(c, n_, multiplier) ==
  LET sum     == c[1] + n_ * multiplier
      c1_incr == sum \div counter_max
      c1      == c[2] + c1_incr
  IN  IF c1_incr = 0 THEN <<sum % counter_max, c[2], c[3]>>
      ELSE <<sum % counter_max, c1 % counter_max, c[3] + c1 \div counter_max>>

(* _fill: of fill_uniform, uniform, fill_normal, normal, rand, fill_rand.  *)
FillRandom(n_, dtype) ==
  LET d == Distributions[dtype] IN
  /\ Len(fills) < MaxFills
  /\ fills' = Append(fills, Drawn(counter, DrawsOf(n_ * d.size_multiplier, global_size(n_), d.counter_multiplier)))
  /\ counter' = Advanced(counter, n_, d.counter_multiplier)

RandomNext == \E n_ \in Sizes, dtype \in DOMAIN Distributions : FillRandom(n_, dtype)
RandomSpec == RandomInit /\ [][RandomNext]_randomvars

-----------------------------------------------------------------------------
DrawnIn(f) == {fills[f][i] : i \in DOMAIN fills[f]}

(* Half of all random counters begin below zero, which the device takes    *)
(* for the upper half of its words, but only for the first kernel: it may  *)
(* carry as it comes to zero, where the host does not, and a later kernel  *)
(* may go past counter_max and into what it used.                          *)
Goes(f, from, to) == fills[f] # << >> /\ fills[f][1][1] \in from /\ fills[f][Len(fills[f])][1] \in to
Low  == 0 .. counter_max
High == counter_max + 1 .. word - 1
MeetBelowZero(g, f) == Goes(g, High, Low) \/ (Goes(g, High, High) /\ Goes(f, Low, High))

(* No counter is used twice with the same key, by one fill or by two, so   *)
(* that no numbers repeat, wherever the counters' carries fall, on the     *)
(* host and on the device.  (Work item 0 draws the most; those of the      *)
(* others are a part of what it would draw, with other keys.)  Except      *)
(* where a first kernel below zero meets the others.                       *)
StreamsDisjoint ==
  \A f \in DOMAIN fills :
    /\ Cardinality(DrawnIn(f)) = Len(fills[f])
    /\ \A g \in 1 .. f - 1 : MeetBelowZero(g, f) \/ DrawnIn(f) \cap DrawnIn(g) = {}
=============================================================================
