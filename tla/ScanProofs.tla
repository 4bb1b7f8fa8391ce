------------------------------ MODULE ScanProofs ------------------------------
(***************************************************************************)
(* GenericScanKernel, for every length, every choice of the sizes, every   *)
(* set of segment starts and every interleaving: what it gives the output  *)
(* statement is what the sequential scan gives.                            *)
(*                                                                         *)
(* The argument: a kernel scans elements that obey one law (Law): the sum  *)
(* of x .. z is that of x .. y followed by that of y + 1 .. z, or only the *)
(* latter when a segment starts there.  The first kernel and the second    *)
(* are two instances of it, the elements of the second being the intervals *)
(* of the first; so one invariant (UnitInv) says for both, at each barrier *)
(* and for the work items on either side of it, which sum every cell of    *)
(* local memory holds, and where the first segment start is.  A work item  *)
(* is then described by its effect on the state of its group alone         *)
(* (GroupState): what it does to its group keeps UnitInv, and what it      *)
(* writes to global memory does not touch the other groups.                *)
(***************************************************************************)
EXTENDS Scan, SequenceTheorems, Induction, TLAPS

-----------------------------------------------------------------------------
(* A scan.                                                                 *)

(* What the sizes of scan c come to.                                       *)
UnitOf(c) == c.wg * c.k
SizeOf(c) ==
  LET units == CeilDiv(c.n, UnitOf(c))
  IN  IF units <= c.max_intervals THEN UnitOf(c) ELSE CeilDiv(units, c.max_intervals) * UnitOf(c)
CountOf(c) == CeilDiv(c.n, SizeOf(c))

SegStarts(c) == IF c.segmented THEN c.starts ELSE {}
LastStart(c, i) ==
  LET before == {q \in SegStarts(c) : q <= i} IN
  IF before # {} THEN CHOOSE q \in before : \A p \in before : p <= q ELSE 0

(* The sum of the elements x .. y, as far as they are in the segment of y. *)
SumOf(c, x, y) == SequentialScan(IF x < LastStart(c, y) THEN LastStart(c, y) ELSE x, y)

(* The last element of interval p. *)
LastOf(c, p) == Least(SizeOf(c) * (p + 1), c.n) - 1

(* What a kernel scans: n elements, of which the first m matter, with      *)
(* segment starts H; W[<<x, y>>] is the sum of the elements x .. y.        *)
Kernel1(c) ==
  [wg |-> c.wg, k |-> c.k, seg |-> c.segmented, size |-> SizeOf(c), n |-> c.n, m |-> c.n,
   H |-> SegStarts(c),
   W |-> [r \in (0 .. c.n - 1) \X (0 .. c.n - 1) |-> SumOf(c, r[1], r[2])]]
Kernel2(c) ==
  [wg |-> c.wg, k |-> c.k, seg |-> c.segmented, size |-> SizeOf(c), n |-> CountOf(c),
   m |-> IF c.segmented THEN CountOf(c) - 1 ELSE CountOf(c),
   H |-> {p \in 0 .. CountOf(c) - 1 : \E q \in SegStarts(c) : SizeOf(c) * p <= q /\ q <= LastOf(c, p)},
   W |-> [r \in (0 .. CountOf(c) - 1) \X (0 .. CountOf(c) - 1) |->
            SumOf(c, SizeOf(c) * r[1], LastOf(c, r[2]))]]

Law(j) ==
  \A x, y, z \in Nat : x <= y /\ y < z /\ z < j.n =>
    /\ (\E q \in y + 1 .. z : q \in j.H) => j.W[<<x, z>>] = j.W[<<y + 1, z>>]
    /\ ~(\E q \in y + 1 .. z : q \in j.H) => j.W[<<x, z>>] = j.W[<<x, y>>] \o j.W[<<y + 1, z>>]

GoodKernel(j) ==
  /\ j.wg \in Nat \ {0} /\ j.k \in Nat \ {0} /\ j.size \in Nat \ {0} /\ j.n \in Nat /\ j.m \in 0 .. j.n
  /\ j.H \subseteq Nat /\ j.n <= NO_SEG_BOUNDARY
  /\ \E u \in Nat : j.size = (j.wg * j.k) * u
  /\ Law(j)

-----------------------------------------------------------------------------
(* A work group in a unit.                                                 *)
Begin(j, g) == j.size * g
End(j, g) == Least(Begin(j, g) + j.size, j.n)
Limit(j, g) == Least(Begin(j, g) + j.size, j.m)

Items(j) == 0 .. j.wg - 1
Rows(j) == 0 .. j.k - 1
Unit(j) == j.wg * j.k

(* The element of row k of item l in the unit at b.                        *)
Elem(j, b, k, l) == b + (j.k * l + k)
LastElem(j, b, l) == Elem(j, b, j.k - 1, l)

(* x is the first segment start in lo .. hi, as far as there is one that matters. *)
Finds(j, g, x, lo, hi) ==
  /\ x = NO_SEG_BOUNDARY \/ x \in lo .. hi
  /\ \A i \in lo .. hi : i < Limit(j, g) => (x <= i <=> \E q \in lo .. i : q \in j.H)

(* Where the sum begins that item l holds when it has looked o items to the left. *)
Behind(j, a, b, l, o) == IF l < o THEN a ELSE Elem(j, b, 0, l - o + 1)

GroupState(g) ==
  [s |-> at[g], A |-> arrived[g], b |-> base[g], o |-> offset[g], x |-> lfetch[g], d |-> ldata[g],
   f |-> lflags[g], t |-> lfirst[g], v |-> priv[g]]

Stages == {"fetch", "load", "carry", "along_k", "tree_read", "tree_write", "update_local", "write",
           "interval_sum", "end"}

UnitShape(j, g, r) ==
  /\ r.s \in Stages /\ r.A \subseteq Items(j)
  /\ \E u \in Nat : r.b = Begin(j, g) + Unit(j) * u
  /\ r.b <= Begin(j, g) + j.size
  /\ r.s \notin {"interval_sum", "end"} => r.b < End(j, g)
  /\ r.s \in {"interval_sum", "end"} => End(j, g) <= r.b
  /\ r.o \in Nat \ {0}
  /\ r.s \in {"carry", "along_k"} => r.o = 1
  /\ r.s \in {"update_local", "write"} => j.wg < r.o
  /\ DOMAIN r.d = (0 .. j.k) \X Items(j) /\ DOMAIN r.f = Rows(j) \X Items(j)
  /\ DOMAIN r.t = Items(j) /\ DOMAIN r.v = Items(j)
  /\ \A l \in Items(j) : DOMAIN r.v[l] = {"sum", "val", "k_group", "subtree", "interval"}
  /\ r.s = "carry" => j.seg
  /\ ~j.seg => \A l \in Items(j) : r.v[l].k_group = NO_SEG_BOUNDARY

(* Row k of item l holds the sum from x on, and its flag is right.         *)
CellIs(j, g, r, k, l, x) ==
  Elem(j, r.b, k, l) < Limit(j, g) => r.d[<<k, l>>] = j.W[<<x, Elem(j, r.b, k, l)>>]
FlagIs(j, g, r, k, l) ==
  Elem(j, r.b, k, l) < Limit(j, g) => (j.seg /\ r.f[<<k, l>>] <=> Elem(j, r.b, k, l) \in j.H)

(* Before the sums: the first row from x on, the others their element.     *)
Raw(j, g, r, l, x) ==
  \A k \in Rows(j) : CellIs(j, g, r, k, l, IF k = 0 THEN x ELSE Elem(j, r.b, k, l)) /\ FlagIs(j, g, r, k, l)
Cells(j, g, r, l, x) == \A k \in Rows(j) : CellIs(j, g, r, k, l, x)
KGroup(j, g, r, l, hi) == Finds(j, g, r.v[l].k_group, Elem(j, r.b, 0, l), hi)

Summed(j, g, r, l) ==
  Cells(j, g, r, l, Behind(j, Begin(j, g), r.b, l, 1)) /\ KGroup(j, g, r, l, LastElem(j, r.b, l))

Padded(j, g, r, l, o) ==
  /\ LastElem(j, r.b, l) < Limit(j, g) =>
       r.d[<<j.k, l>>] = j.W[<<Behind(j, Begin(j, g), r.b, l, o), LastElem(j, r.b, l)>>]
  /\ Finds(j, g, r.t[l], Behind(j, r.b, r.b, l, o), LastElem(j, r.b, l))
Valued(j, g, r, l, o) ==
  LastElem(j, r.b, l) < Limit(j, g) =>
    r.v[l].val = j.W[<<Behind(j, Begin(j, g), r.b, l, o), LastElem(j, r.b, l)>>]
Subtree(j, g, r, l, o) == Finds(j, g, r.v[l].subtree, Behind(j, r.b, r.b, l, o), LastElem(j, r.b, l))

LoadInv(j, g, r) ==
  \A l \in Items(j), k \in Rows(j) : (j.k * l + k) % j.wg \in r.A =>
    /\ CellIs(j, g, r, k, l, IF k = 0 /\ l = 0 /\ ~j.seg THEN Begin(j, g) ELSE Elem(j, r.b, k, l))
    /\ FlagIs(j, g, r, k, l)
CarryInv(j, g, r) ==
  \A l \in Items(j) :
    IF l \in r.A THEN Raw(j, g, r, l, Behind(j, Begin(j, g), r.b, l, 1)) /\ KGroup(j, g, r, l, Elem(j, r.b, 0, l))
    ELSE Raw(j, g, r, l, Elem(j, r.b, 0, l))
AlongInv(j, g, r) ==
  \A l \in Items(j) :
    IF l \in r.A THEN Summed(j, g, r, l) /\ Padded(j, g, r, l, 1) /\ Valued(j, g, r, l, 1)
    ELSE Raw(j, g, r, l, Behind(j, Begin(j, g), r.b, l, 1)) /\ KGroup(j, g, r, l, Elem(j, r.b, 0, l))
ReadInv(j, g, r) ==
  \A l \in Items(j) :
    /\ Summed(j, g, r, l) /\ Padded(j, g, r, l, r.o)
    /\ IF l \in r.A THEN Valued(j, g, r, l, 2 * r.o) /\ Subtree(j, g, r, l, 2 * r.o) ELSE Valued(j, g, r, l, r.o)
WriteInv(j, g, r) ==
  \A l \in Items(j) :
    /\ Summed(j, g, r, l) /\ Valued(j, g, r, l, 2 * r.o) /\ Subtree(j, g, r, l, 2 * r.o)
    /\ l \in r.A => Padded(j, g, r, l, 2 * r.o)
UpdateInv(j, g, r) ==
  \A l \in Items(j) :
    /\ Padded(j, g, r, l, r.o)
    /\ IF l \in r.A THEN Cells(j, g, r, l, Begin(j, g)) ELSE Summed(j, g, r, l)
DataInv(j, g, r) ==
  \A l \in Items(j) : Padded(j, g, r, l, r.o) /\ Cells(j, g, r, l, Begin(j, g))

(* What came before the unit is in the padding of the last item.           *)
Carried(j, g, r) ==
  r.b # Begin(j, g) /\ r.b <= Limit(j, g) => r.d[<<j.k, j.wg - 1>>] = j.W[<<Begin(j, g), r.b - 1>>]

Interval(j, g, r) ==
  Finds(j, g, r.v[0].interval, Begin(j, g),
        IF r.s = "write" \/ (r.s = "update_local" /\ 0 \in r.A) THEN r.b + Unit(j) - 1 ELSE r.b - 1)

UnitInv(j, g, r) ==
  /\ UnitShape(j, g, r)
  /\ r.s \in {"fetch", "load", "carry"} => Carried(j, g, r)
  /\ r.s = "load" => LoadInv(j, g, r)
  /\ r.s = "carry" => CarryInv(j, g, r)
  /\ r.s = "along_k" => AlongInv(j, g, r)
  /\ r.s = "tree_read" => ReadInv(j, g, r)
  /\ r.s = "tree_write" => WriteInv(j, g, r)
  /\ r.s = "update_local" => UpdateInv(j, g, r)
  /\ r.s = "write" => DataInv(j, g, r)
  /\ Interval(j, g, r)

-----------------------------------------------------------------------------
(* What the group has left in global memory.                               *)
Span(j, g) == Begin(j, g) .. Limit(j, g) - 1

IsWritten(j, r, i) == i < r.b \/ (r.s = "write" /\ i < r.b + Unit(j) /\ (i - r.b) % j.wg \in r.A)
OutInv(j, g, r, out) == \A i \in Span(j, g) : IsWritten(j, r, i) => out[i] = j.W[<<Begin(j, g), i>>]

IsRead(j, r, i) == i < r.b \/ (i < r.b + Unit(j) /\ (r.s \notin {"fetch", "load"} \/ (r.s = "load" /\ (i - r.b) % j.wg \in r.A)))
FlagsInv(j, g, r, flags) == \A i \in Span(j, g) : IsRead(j, r, i) => (flags[i] <=> i \in j.H)

InputInv(j, g, r, in) ==
  \A i \in Span(j, g) : r.b <= i /\ (i < r.b + Unit(j) => r.s \in {"fetch", "load"}) => in[i] = j.W[<<i, i>>]

FetchInv(j, g, r) ==
  \A o \in 0 .. Unit(j) - 1 : r.b + o < End(j, g) /\ (r.s = "load" \/ (r.s = "fetch" /\ o % j.wg \in r.A)) => r.x[o] = r.b + o

(* What the interval says of its first segment start.  The last interval  *)
(* may have looked past the end, where nothing is.                         *)
FirstSeg(j, g, x) ==
  j.seg => \E hi \in Nat : /\ End(j, g) - 1 <= hi /\ Finds(j, g, x, Begin(j, g), hi)
                           /\ Begin(j, g) + j.size <= j.n => hi = End(j, g) - 1

SumInv(j, g, r, sum, first) ==
  r.s = "end" \/ (r.s = "interval_sum" /\ 0 \in r.A) =>
    sum = j.W[<<Begin(j, g), End(j, g) - 1>>] /\ FirstSeg(j, g, first)

Groups1(c) == 0 .. CountOf(c) - 1

IntervalsKept(c) ==
  LET j == Kernel1(c) IN
  \A g \in Groups1(c) :
    /\ \A i \in Span(j, g) : partial[i] = j.W[<<Begin(j, g), i>>]
    /\ c.segmented /\ c.lookbehind => \A i \in Span(j, g) : gflags[i] <=> i \in j.H
    /\ FirstSeg(j, g, first_seg[g])

Lev1Group(c, g) ==
  LET j == Kernel1(c) IN
  /\ UnitInv(j, g, GroupState(g)) /\ OutInv(j, g, GroupState(g), partial) /\ SumInv(j, g, GroupState(g), results[g], first_seg[g])
  /\ DOMAIN lfetch[g] = 0 .. Unit(j) - 1
  /\ c.stencil => FetchInv(j, g, GroupState(g))
  /\ c.segmented /\ c.lookbehind => FlagsInv(j, g, GroupState(g), gflags)
Lev1Inv(c) == \A g \in Groups1(c) : Lev1Group(c, g)
Lev2Inv(c) ==
  LET j == Kernel2(c) IN
  /\ IntervalsKept(c) /\ CountOf(c) <= SizeOf(c) /\ c.n > 0
  /\ UnitInv(j, 0, GroupState(0)) /\ OutInv(j, 0, GroupState(0), results)
  /\ InputInv(j, 0, GroupState(0), results)
  /\ at[0] # "fetch"

Right(c, i, out) ==
  /\ out.item = SumOf(c, 0, i)
  /\ c.lookbehind => out.prev = IF i = 0 \/ i \in SegStarts(c) THEN neutral ELSE SumOf(c, 0, i - 1)
  /\ ~c.segmented => out.last = SumOf(c, 0, c.n - 1)

Before(c, b) == IF b = 0 THEN neutral ELSE SumOf(c, 0, b - 1)

PlainGroup(c, g) ==
  LET j == Kernel1(c) IN
  /\ at[g] \in {"load", "end"} /\ base[g] = Begin(j, g) /\ arrived[g] \subseteq 0 .. c.update_wg - 1
  /\ \A i \in Span(j, g) :
       at[g] = "end" \/ (i - Begin(j, g)) % c.update_wg \in arrived[g] => Right(c, i, output[i])
BehindGroup(c, g) ==
  LET j == Kernel1(c) IN
  /\ at[g] \in {"load", "output", "end"} /\ arrived[g] \subseteq 0 .. c.update_wg - 1
  /\ base[g] \in Nat /\ Begin(j, g) <= base[g]
  /\ at[g] # "end" => base[g] < End(j, g)
  /\ at[g] = "end" => End(j, g) <= base[g]
  /\ DOMAIN ldata[g] = (0 .. c.k) \X (0 .. c.update_wg - 1) /\ DOMAIN lflags[g] = Rows(j) \X (0 .. c.update_wg - 1)
  /\ DOMAIN priv[g] = 0 .. c.update_wg - 1 /\ \A l \in 0 .. c.update_wg - 1 : DOMAIN priv[g][l] = {"prev_item"}
  /\ base[g] < End(j, g) /\ (at[g] = "load" \/ 0 \notin arrived[g]) => priv[g][0].prev_item = Before(c, base[g])
  /\ at[g] = "output" /\ 0 \in arrived[g] => priv[g][0].prev_item = ldata[g][<<0, c.update_wg - 1>>]
  /\ \A l \in 0 .. c.update_wg - 1 :
       base[g] + l < End(j, g) /\ (at[g] = "output" \/ l \in arrived[g]) =>
         /\ ldata[g][<<0, l>>] = SumOf(c, 0, base[g] + l)
         /\ lflags[g][<<0, l>>] <=> base[g] + l \in SegStarts(c)
  /\ \A i \in Span(j, g) :
       i < base[g] \/ (at[g] = "output" /\ i < base[g] + c.update_wg /\ i - base[g] \in arrived[g])
         => Right(c, i, output[i])
PlainInv(c) == \A g \in Groups1(c) : PlainGroup(c, g)
BehindInv(c) == \A g \in Groups1(c) : BehindGroup(c, g)
LastUpdateInv(c) ==
  /\ IntervalsKept(c) /\ CountOf(c) <= SizeOf(c) /\ c.n > 0
  /\ \A p \in 0 .. Kernel2(c).m - 1 : results[p] = SumOf(c, 0, LastOf(c, p))
  /\ IF c.lookbehind THEN BehindInv(c) ELSE PlainInv(c)

Phases == {"lev1", "lev2", "update", "debug", "done", "raised"}
ScanShape ==
  /\ inp \in Inputs /\ phase \in Phases
  /\ phase = "debug" => inp.debug
  /\ phase \in {"lev1", "lev2", "update"} =>
       /\ ~inp.debug
       /\ DOMAIN at = Groups(phase) /\ DOMAIN arrived = Groups(phase) /\ DOMAIN base = Groups(phase)
       /\ DOMAIN offset = Groups(phase) /\ DOMAIN lfetch = Groups(phase) /\ DOMAIN ldata = Groups(phase)
       /\ DOMAIN lflags = Groups(phase) /\ DOMAIN lfirst = Groups(phase) /\ DOMAIN priv = Groups(phase)
  /\ phase = "done" => inp.debug \/ \A g \in DOMAIN at : at[g] = "end"
  /\ DOMAIN partial = 0 .. inp.n - 1 /\ DOMAIN gflags = 0 .. inp.n - 1 /\ DOMAIN output = 0 .. inp.n - 1
  /\ DOMAIN results = Groups1(inp) /\ DOMAIN first_seg = Groups1(inp)

DoneInv ==
  \A i \in 0 .. inp.n - 1 :
    /\ output[i].item = SumOf(inp, 0, i)
    /\ inp.lookbehind /\ ~(inp.debug /\ inp.segmented) =>
         output[i].prev = IF i = 0 \/ i \in SegStarts(inp) THEN neutral ELSE SumOf(inp, 0, i - 1)
    /\ ~inp.segmented => output[i].last = SumOf(inp, 0, inp.n - 1)

PhaseInv(c) ==
  /\ phase = "lev1" => Lev1Inv(c)
  /\ phase = "lev2" => Lev2Inv(c)
  /\ phase = "update" => LastUpdateInv(c)
ScanInv ==
  /\ ScanShape
  /\ \E c \in Inputs : inp = c /\ PhaseInv(c)
  /\ phase = "done" => DoneInv

-----------------------------------------------------------------------------
(* Numbers.                                                                *)
LEMMA KernelNumbers ==
  ASSUME NEW j, GoodKernel(j), NEW g \in Nat
  PROVE  /\ j.wg \in Nat \ {0} /\ j.k \in Nat \ {0} /\ j.size \in Nat \ {0} /\ j.n \in Nat /\ j.m \in 0 .. j.n
         /\ Unit(j) \in Nat \ {0} /\ Begin(j, g) \in Nat /\ End(j, g) \in Nat /\ Limit(j, g) \in Nat
         /\ Limit(j, g) <= End(j, g) /\ End(j, g) <= j.n /\ Limit(j, g) <= j.m /\ End(j, g) <= Begin(j, g) + j.size
         /\ NO_SEG_BOUNDARY \in Nat /\ j.n <= NO_SEG_BOUNDARY /\ j.H \subseteq Nat
<1>1. j.wg \in Nat \ {0} /\ j.k \in Nat \ {0} /\ j.size \in Nat \ {0} /\ j.n \in Nat /\ j.m \in 0 .. j.n
  BY DEF GoodKernel
<1>2. \A x, y \in Nat \ {0} : x * y \in Nat \ {0}
  OBVIOUS
<1>3. \A x, y \in Nat : x * y \in Nat
  OBVIOUS
<1>4. Unit(j) \in Nat \ {0} /\ Begin(j, g) \in Nat
  BY <1>1, <1>2, <1>3 DEF Unit, Begin
<1>5. NO_SEG_BOUNDARY \in Nat /\ j.n <= NO_SEG_BOUNDARY /\ j.H \subseteq Nat
  BY ScanAssumption DEF GoodKernel
<1> QED
  BY <1>1, <1>4, <1>5 DEF End, Limit, Least

LEMMA ElemIs ==
  ASSUME NEW j, GoodKernel(j), NEW b \in Nat, NEW l \in Nat, NEW k \in Rows(j)
  PROVE  /\ Elem(j, b, k, l) \in Nat /\ b <= Elem(j, b, k, l) /\ LastElem(j, b, l) \in Nat
         /\ Elem(j, b, 0, l) <= Elem(j, b, k, l) /\ Elem(j, b, k, l) <= LastElem(j, b, l)
         /\ Elem(j, b, k, l) = Elem(j, b, 0, l) + k
         /\ Elem(j, b, 0, l) \in Nat /\ Elem(j, b, 0, 0) = b /\ 0 \in Rows(j) /\ j.k - 1 \in Rows(j)
         /\ b <= Elem(j, b, 0, l)
<1>1. j.k \in Nat \ {0}
  BY DEF GoodKernel
<1> DEFINE p == j.k * l
<1>2. p \in Nat /\ j.k * (l + 1) = p + j.k /\ j.k * 0 = 0
  BY <1>1
<1>3. k \in Nat /\ k <= j.k - 1
  BY <1>1 DEF Rows
<1> HIDE DEF p
<1>4. /\ Elem(j, b, k, l) = b + (p + k) /\ Elem(j, b, 0, l) = b + (p + 0)
      /\ LastElem(j, b, l) = b + (p + (j.k - 1)) /\ Elem(j, b, 0, 0) = b + (0 + 0)
  BY <1>2 DEF Elem, LastElem, p
<1> QED
  BY <1>1, <1>2, <1>3, <1>4 DEF Rows

(* The items of a unit follow each other.                                  *)
Follows(i, l) == i = l + 1

LEMMA NextItem ==
  ASSUME NEW j, GoodKernel(j), NEW b \in Nat, NEW l \in Nat, NEW i \in Nat, Follows(i, l)
  PROVE  LastElem(j, b, l) + 1 = Elem(j, b, 0, i)
<1>1. j.k \in Nat \ {0}
  BY DEF GoodKernel
<1> DEFINE p == j.k * l
<1>2. p \in Nat /\ j.k * i = p + j.k
  BY <1>1 DEF Follows
<1> HIDE DEF p
<1>3. LastElem(j, b, l) = b + (p + (j.k - 1)) /\ Elem(j, b, 0, i) = b + ((p + j.k) + 0)
  BY <1>2 DEF Elem, LastElem, p
<1> QED
  BY <1>1, <1>2, <1>3

(* The elements of an item follow those of the item before it.             *)
LEMMA ElemGrows ==
  ASSUME NEW j, GoodKernel(j), NEW b \in Nat, NEW l \in Nat, NEW i \in Nat, l <= i
  PROVE  Elem(j, b, 0, l) <= Elem(j, b, 0, i) /\ LastElem(j, b, l) <= LastElem(j, b, i)
<1>1. j.k \in Nat \ {0}
  BY DEF GoodKernel
<1>2. PICK c \in Nat : i = l + c
  <2>1. i - l \in Nat /\ i = l + (i - l)
    OBVIOUS
  <2> QED
    BY <2>1
<1>3. j.k * l \in Nat /\ j.k * c \in Nat /\ j.k * (l + c) = j.k * l + j.k * c
  BY <1>1
<1> DEFINE p == j.k * l
           q == j.k * c
<1>4. /\ Elem(j, b, 0, l) = b + (p + 0) /\ Elem(j, b, 0, i) = b + ((p + q) + 0)
      /\ LastElem(j, b, l) = b + (p + (j.k - 1)) /\ LastElem(j, b, i) = b + ((p + q) + (j.k - 1))
  BY <1>2, <1>3 DEF Elem, LastElem
<1>5. p \in Nat /\ q \in Nat
  BY <1>3
<1> HIDE DEF p, q
<1> QED
  BY <1>1, <1>4, <1>5

LEMMA UnitEnds ==
  ASSUME NEW j, GoodKernel(j), NEW b \in Nat
  PROVE  /\ LastElem(j, b, j.wg - 1) = b + Unit(j) - 1 /\ j.wg - 1 \in Items(j) /\ 0 \in Items(j)
         /\ \A l \in Items(j) : l \in Nat /\ LastElem(j, b, l) <= b + Unit(j) - 1
<1>1. j.k \in Nat \ {0} /\ j.wg \in Nat \ {0}
  BY DEF GoodKernel
<1>2. j.wg - 1 \in Items(j) /\ 0 \in Items(j) /\ j.wg - 1 \in Nat /\ \A l \in Items(j) : l \in Nat /\ l <= j.wg - 1
  BY <1>1 DEF Items
<1>3. LastElem(j, b, j.wg - 1) \in Nat
  <2>1. 0 \in Rows(j)
    BY <1>1 DEF Rows
  <2> QED
    BY <1>2, <2>1, ElemIs
<1>4. LastElem(j, b, j.wg - 1) + 1 = Elem(j, b, 0, j.wg)
  BY <1>1, <1>2, NextItem DEF Follows
<1>5. Elem(j, b, 0, j.wg) = b + Unit(j)
  <2>1. j.k * j.wg = j.wg * j.k /\ j.wg * j.k \in Nat
    BY <1>1
  <2> QED
    BY <2>1 DEF Elem, Unit
<1>6. Unit(j) \in Nat
  BY <1>1 DEF Unit
<1>7. LastElem(j, b, j.wg - 1) = b + Unit(j) - 1
  BY <1>3, <1>4, <1>5, <1>6
<1>8. ASSUME NEW l \in Items(j) PROVE LastElem(j, b, l) <= b + Unit(j) - 1
  BY <1>2, <1>7, ElemGrows
<1> QED
  BY <1>2, <1>7, <1>8

-----------------------------------------------------------------------------
(* Segment starts found, and sums.                                         *)
LEMMA FindsNone ==
  ASSUME NEW j, NEW g, NEW lo \in Nat
  PROVE  Finds(j, g, NO_SEG_BOUNDARY, lo, lo - 1)
BY DEF Finds

(* The first start of two adjacent ranges is the lesser of theirs.         *)
LEMMA FindsJoin ==
  ASSUME NEW j, GoodKernel(j), NEW g \in Nat, NEW x, NEW y, NEW lo \in Nat, NEW mid \in Nat, NEW hi \in Nat,
         lo <= mid, mid <= hi + 1, Finds(j, g, x, lo, mid - 1), Finds(j, g, y, mid, hi)
  PROVE  Finds(j, g, Least(x, y), lo, hi)
<1> DEFINE L == Limit(j, g)
<1>1. L \in Nat /\ NO_SEG_BOUNDARY \in Nat /\ L <= NO_SEG_BOUNDARY
  BY KernelNumbers
<1> HIDE DEF L
<1>2. x \in Nat /\ y \in Nat /\ (x = NO_SEG_BOUNDARY \/ x \in lo .. mid - 1) /\ (y = NO_SEG_BOUNDARY \/ y \in mid .. hi)
  BY <1>1 DEF Finds
<1>3. Least(x, y) = NO_SEG_BOUNDARY \/ Least(x, y) \in lo .. hi
  BY <1>2 DEF Least
<1>4. ASSUME NEW i \in lo .. hi, i < L PROVE Least(x, y) <= i <=> \E q \in lo .. i : q \in j.H
  <2>1. Least(x, y) <= i <=> x <= i \/ y <= i
    BY <1>2 DEF Least
  <2>2. CASE i < mid
    <3>1. ~(y <= i)
      BY <1>1, <1>2, <1>4, <2>2
    <3>2. i \in lo .. mid - 1
      BY <2>2
    <3>3. x <= i <=> \E q \in lo .. i : q \in j.H
      BY <3>2, <1>4 DEF Finds, L
    <3> QED
      BY <2>1, <3>1, <3>3
  <2>3. CASE mid <= i
    <3>1. i \in mid .. hi
      BY <2>3
    <3>2. y <= i <=> \E q \in mid .. i : q \in j.H
      BY <3>1, <1>4 DEF Finds, L
    <3>3. x <= i <=> \E q \in lo .. mid - 1 : q \in j.H
      <4>1. ASSUME x <= i PROVE \E q \in lo .. mid - 1 : q \in j.H
        <5>1. x \in lo .. mid - 1
          BY <4>1, <1>1, <1>2, <1>4
        <5>2. x < L /\ x <= x
          BY <4>1, <1>1, <1>2, <1>4
        <5>3. \E q \in lo .. x : q \in j.H
          BY <5>1, <5>2 DEF Finds, L
        <5> QED
          BY <5>1, <5>3
      <4>2. ASSUME NEW q \in lo .. mid - 1, q \in j.H PROVE x <= i
        <5>1. q < L /\ q <= i
          BY <2>3, <1>1, <1>4
        <5>2. x <= q
          BY <4>2, <5>1 DEF Finds, L
        <5> QED
          BY <5>1, <5>2, <1>2
      <4> QED
        BY <4>1, <4>2
    <3>4. (\E q \in lo .. i : q \in j.H) <=> (\E q \in lo .. mid - 1 : q \in j.H) \/ (\E q \in mid .. i : q \in j.H)
      BY <2>3
    <3> QED
      BY <2>1, <3>2, <3>3, <3>4
  <2> QED
    BY <2>2, <2>3
<1> QED
  BY <1>3, <1>4 DEF Finds, L

(* It says whether there is one.                                           *)
LEMMA FindsTells ==
  ASSUME NEW j, GoodKernel(j), NEW g \in Nat, NEW x, NEW lo \in Nat, NEW hi \in Nat,
         lo <= hi, hi < Limit(j, g), Finds(j, g, x, lo, hi)
  PROVE  x # NO_SEG_BOUNDARY <=> \E q \in lo .. hi : q \in j.H
<1>1. Limit(j, g) \in Nat /\ NO_SEG_BOUNDARY \in Nat /\ Limit(j, g) <= NO_SEG_BOUNDARY
  BY KernelNumbers
<1>2. x \in Nat /\ (x = NO_SEG_BOUNDARY \/ x \in lo .. hi)
  BY <1>1 DEF Finds
<1>3. x <= hi <=> \E q \in lo .. hi : q \in j.H
  BY DEF Finds
<1> QED
  BY <1>1, <1>2, <1>3

(* Two adjacent sums make one, by the law of the kernel.                   *)
LEMMA SumsUp ==
  ASSUME NEW j, GoodKernel(j), NEW x \in Nat, NEW y \in Nat, NEW z \in Nat, x <= y, y < z, z < j.n,
         NEW across, across <=> \E q \in y + 1 .. z : q \in j.H
  PROVE  SCAN_EXPR(j.W[<<x, y>>], j.W[<<y + 1, z>>], across) = j.W[<<x, z>>]
<1>1. /\ (\E q \in y + 1 .. z : q \in j.H) => j.W[<<x, z>>] = j.W[<<y + 1, z>>]
      /\ ~(\E q \in y + 1 .. z : q \in j.H) => j.W[<<x, z>>] = j.W[<<x, y>>] \o j.W[<<y + 1, z>>]
  <2>1. Law(j)
    BY DEF GoodKernel
  <2> QED
    BY <2>1, Zenon DEF Law
<1>2. CASE across
  BY <1>1, <1>2, Zenon DEF SCAN_EXPR
<1>3. CASE ~across
  BY <1>1, <1>3, Zenon DEF SCAN_EXPR
<1> QED
  BY <1>2, <1>3

-----------------------------------------------------------------------------
(* A work item executes a segment: r becomes q.                            *)
Arrives(r, q, l) ==
  /\ l \notin r.A /\ q.A = r.A \cup {l} /\ q.s = r.s /\ q.b = r.b /\ q.o = r.o
  /\ DOMAIN q.d = DOMAIN r.d /\ DOMAIN q.f = DOMAIN r.f /\ DOMAIN q.t = DOMAIN r.t /\ DOMAIN q.v = DOMAIN r.v
  /\ \A i \in DOMAIN r.v : DOMAIN q.v[i] = DOMAIN r.v[i]

LEMMA UnitNumbers ==
  ASSUME NEW j, GoodKernel(j), NEW g \in Nat, NEW r, UnitShape(j, g, r)
  PROVE  /\ r.b \in Nat /\ Begin(j, g) <= r.b /\ r.o \in Nat \ {0} /\ r.A \subseteq Items(j)
         /\ \A l \in Items(j) : l \in Nat
<1>1. PICK u \in Nat : r.b = Begin(j, g) + Unit(j) * u
  BY DEF UnitShape
<1>2. Unit(j) \in Nat /\ Begin(j, g) \in Nat
  BY KernelNumbers
<1>3. \A x, y \in Nat : x * y \in Nat
  OBVIOUS
<1>4. Unit(j) * u \in Nat
  BY <1>2, <1>3
<1>5. r.o \in Nat \ {0} /\ r.A \subseteq Items(j)
  BY DEF UnitShape
<1>6. \A l \in Items(j) : l \in Nat
  BY KernelNumbers DEF Items
<1> QED
  BY <1>1, <1>2, <1>4, <1>5, <1>6

(* A work item that arrives changes nothing else of the shape.             *)
LEMMA ShapeStays ==
  ASSUME NEW j, NEW g, NEW r, NEW q, NEW l \in Items(j), UnitShape(j, g, r), Arrives(r, q, l),
         ~j.seg => \A i \in Items(j) : q.v[i].k_group = r.v[i].k_group
  PROVE  UnitShape(j, g, q)
<1>1. DOMAIN r.v = Items(j)
  BY DEF UnitShape
<1>2. /\ q.s \in Stages /\ q.A \subseteq Items(j) /\ (\E u \in Nat : q.b = Begin(j, g) + Unit(j) * u)
      /\ q.b <= Begin(j, g) + j.size /\ (q.s \notin {"interval_sum", "end"} => q.b < End(j, g))
      /\ (q.s \in {"interval_sum", "end"} => End(j, g) <= q.b)
  BY Zenon DEF UnitShape, Arrives
<1>3. /\ q.o \in Nat \ {0} /\ (q.s \in {"carry", "along_k"} => q.o = 1)
      /\ (q.s \in {"update_local", "write"} => j.wg < q.o) /\ (q.s = "carry" => j.seg)
  BY DEF UnitShape, Arrives
<1>4. /\ DOMAIN q.d = (0 .. j.k) \X Items(j) /\ DOMAIN q.f = Rows(j) \X Items(j)
      /\ DOMAIN q.t = Items(j) /\ DOMAIN q.v = Items(j)
      /\ \A i \in Items(j) : DOMAIN q.v[i] = {"sum", "val", "k_group", "subtree", "interval"}
  BY <1>1 DEF UnitShape, Arrives
<1>5. ~j.seg => \A i \in Items(j) : q.v[i].k_group = NO_SEG_BOUNDARY
  BY DEF UnitShape
<1> QED
  BY <1>2, <1>3, <1>4, <1>5 DEF UnitShape

LEMMA IntervalStays ==
  ASSUME NEW j, NEW g, NEW r, NEW q, NEW l, Interval(j, g, r), Arrives(r, q, l),
         r.s # "update_local", q.v[0].interval = r.v[0].interval
  PROVE  Interval(j, g, q)
<1>1. q.s = r.s /\ q.b = r.b
  BY DEF Arrives
<1> QED
  BY <1>1 DEF Interval

(* Nothing in local memory changes that the next segments look at.         *)
LEMMA NothingStep ==
  ASSUME NEW j, NEW g, NEW r, NEW q, NEW l \in Items(j), UnitInv(j, g, r), Arrives(r, q, l),
         r.s \in {"fetch", "write", "interval_sum"}, q.d = r.d, q.f = r.f, q.t = r.t, q.v = r.v
  PROVE  UnitInv(j, g, q)
<1>1. UnitShape(j, g, q) /\ Interval(j, g, q)
  BY ShapeStays, IntervalStays DEF UnitInv
<1>2. q.s = r.s /\ q.b = r.b /\ q.o = r.o
  BY DEF Arrives
<1>3. Carried(j, g, r) => Carried(j, g, q)
  BY <1>2 DEF Carried
<1>4. ASSUME DataInv(j, g, r) PROVE DataInv(j, g, q)
  BY <1>2, <1>4 DEF DataInv, Padded, Cells, CellIs
<1> QED
  BY <1>1, <1>2, <1>3, <1>4 DEF UnitInv

(* Item l carries in, if it is the first, and looks at its first flag.     *)
CarryEffect(j, g, r, q, l) ==
  /\ q.f = r.f /\ q.t = r.t
  /\ q.v = [r.v EXCEPT ![l].k_group = IF r.f[<<0, l>>] THEN r.b + j.k * l ELSE NO_SEG_BOUNDARY]
  /\ q.d = IF l = 0 /\ r.b # Begin(j, g)
             THEN [r.d EXCEPT ![<<0, 0>>] = SCAN_EXPR(r.d[<<j.k, j.wg - 1>>], @, j.seg /\ r.f[<<0, 0>>])]
             ELSE r.d

LEMMA FoundAtOnce ==
  ASSUME NEW j, GoodKernel(j), NEW g \in Nat, NEW p \in Nat, NEW flag,
         p < Limit(j, g) => (flag <=> p \in j.H)
  PROVE  Finds(j, g, IF flag THEN p ELSE NO_SEG_BOUNDARY, p, p)
<1>1. Limit(j, g) \in Nat /\ NO_SEG_BOUNDARY \in Nat /\ Limit(j, g) <= NO_SEG_BOUNDARY
  BY KernelNumbers
<1>2. \A i \in p .. p : i = p
  OBVIOUS
<1>3. (\E q \in p .. p : q \in j.H) <=> p \in j.H
  BY <1>2
<1>4. CASE flag
  <2>1. Finds(j, g, p, p, p)
    BY <1>1, <1>2, <1>3, <1>4 DEF Finds
  <2> QED
    BY <1>4, <2>1, Zenon
<1>5. CASE ~flag
  <2>1. Finds(j, g, NO_SEG_BOUNDARY, p, p)
    BY <1>1, <1>2, <1>3, <1>5 DEF Finds
  <2> QED
    BY <1>5, <2>1, Zenon
<1> QED
  BY <1>4, <1>5

(* Each effect of a work item keeps what UnitInv says of its segment.      *)
LEMMA CarryStep ==
  ASSUME NEW j, GoodKernel(j), NEW g \in Nat, NEW r, NEW q, NEW l \in Items(j), UnitInv(j, g, r), Arrives(r, q, l),
         r.s = "carry", CarryEffect(j, g, r, q, l)
  PROVE  UnitInv(j, g, q)
<1> DEFINE a == Begin(j, g)
           b == r.b
           K == j.k
           m == Limit(j, g)
<1>1. UnitShape(j, g, r) /\ CarryInv(j, g, r) /\ Carried(j, g, r) /\ Interval(j, g, r)
  BY DEF UnitInv
<1>2. q.s = "carry" /\ q.b = b /\ q.A = r.A \cup {l} /\ l \notin r.A /\ j.seg
  BY <1>1 DEF Arrives, UnitShape
<1>3. b \in Nat /\ a \in Nat /\ a <= b /\ l \in Nat /\ m \in Nat /\ m <= j.n /\ j.n \in Nat /\ K \in Nat \ {0} /\ j.wg \in Nat \ {0}
  BY <1>1, UnitNumbers, KernelNumbers
<1>4. /\ DOMAIN r.d = (0 .. K) \X Items(j) /\ DOMAIN r.v = Items(j)
      /\ \A i \in Items(j) : DOMAIN r.v[i] = {"sum", "val", "k_group", "subtree", "interval"}
  BY <1>1 DEF UnitShape
<1>5. 0 \in Rows(j) /\ 0 \in Items(j) /\ j.wg - 1 \in Items(j) /\ Elem(j, b, 0, 0) = b
  <2>1. 0 \in Rows(j)
    BY <1>3 DEF Rows
  <2>2. Elem(j, b, 0, 0) = b
    BY <1>3, <2>1, ElemIs
  <2> QED
    BY <1>3, <2>1, <2>2, UnitEnds
<1>6. /\ q.v[l].k_group = (IF r.f[<<0, l>>] THEN b + K * l ELSE NO_SEG_BOUNDARY)
      /\ \A i \in Items(j) : q.v[i].interval = r.v[i].interval /\ (i # l => q.v[i] = r.v[i])
  BY <1>4 DEF CarryEffect
<1>7. \A c \in DOMAIN r.d : c # <<0, 0>> => q.d[c] = r.d[c]
  BY DEF CarryEffect
<1>8. Raw(j, g, r, l, Elem(j, b, 0, l))
  BY <1>1, <1>2 DEF CarryInv
<1>9. Finds(j, g, q.v[l].k_group, Elem(j, b, 0, l), Elem(j, b, 0, l))
  <2>1. Elem(j, b, 0, l) = b + K * l /\ Elem(j, b, 0, l) \in Nat
    <3>1. K * l \in Nat
      BY <1>3
    <3> QED
      BY <1>3, <3>1 DEF Elem
  <2>2. Elem(j, b, 0, l) < m => (r.f[<<0, l>>] <=> Elem(j, b, 0, l) \in j.H)
    BY <1>2, <1>5, <1>8 DEF Raw, FlagIs
  <2>3. Finds(j, g, IF r.f[<<0, l>>] THEN Elem(j, b, 0, l) ELSE NO_SEG_BOUNDARY, Elem(j, b, 0, l), Elem(j, b, 0, l))
    BY <2>1, <2>2, FoundAtOnce
  <2> QED
    BY <1>6, <2>1, <2>3, Zenon
<1>10. CellIs(j, g, q, 0, l, Behind(j, a, b, l, 1))
  <2>1. CASE l # 0
    <3>1. Behind(j, a, b, l, 1) = Elem(j, b, 0, l)
      BY <1>3, <2>1 DEF Behind
    <3>2. <<0, l>> \in DOMAIN r.d /\ <<0, l>> # <<0, 0>>
      BY <1>3, <1>4, <2>1
    <3>3. CellIs(j, g, r, 0, l, Elem(j, b, 0, l))
      BY <1>5, <1>8 DEF Raw
    <3> QED
      BY <1>2, <1>7, <3>1, <3>2, <3>3 DEF CellIs
  <2>2. CASE l = 0
    <3>1. Behind(j, a, b, l, 1) = a
      BY <2>2 DEF Behind
    <3>2. CellIs(j, g, r, 0, 0, b) /\ FlagIs(j, g, r, 0, 0)
      BY <1>5, <1>8, <2>2 DEF Raw
    <3>3. CASE b = a
      <4>1. q.d = r.d
        BY <3>3 DEF CarryEffect
      <4> QED
        BY <1>2, <2>2, <3>1, <3>2, <3>3, <4>1 DEF CellIs
    <3>4. CASE b # a
      <4>1. SUFFICES ASSUME b < m PROVE q.d[<<0, 0>>] = j.W[<<a, b>>]
        BY <1>2, <1>5, <2>2, <3>1 DEF CellIs
      <4>2. r.d[<<0, 0>>] = j.W[<<b, b>>] /\ (j.seg /\ r.f[<<0, 0>>] <=> b \in j.H)
        BY <1>5, <3>2, <4>1 DEF CellIs, FlagIs
      <4>3. r.d[<<K, j.wg - 1>>] = j.W[<<a, b - 1>>]
        BY <1>1, <1>3, <3>4, <4>1 DEF Carried
      <4>4. <<0, 0>> \in DOMAIN r.d
        BY <1>3, <1>4, <1>5
      <4> DEFINE across == j.seg /\ r.f[<<0, 0>>]
      <4>5. q.d[<<0, 0>>] = SCAN_EXPR(j.W[<<a, b - 1>>], j.W[<<b, b>>], across)
        BY <2>2, <3>4, <4>2, <4>3, <4>4 DEF CarryEffect
      <4>6. across <=> \E p \in (b - 1) + 1 .. b : p \in j.H
        <5>1. (b - 1) + 1 = b /\ \A p \in b .. b : p = b
          BY <1>3
        <5> QED
          BY <1>3, <4>2, <5>1
      <4> HIDE DEF across
      <4>7. SCAN_EXPR(j.W[<<a, b - 1>>], j.W[<<(b - 1) + 1, b>>], across) = j.W[<<a, b>>]
        <5>1. b - 1 \in Nat /\ a <= b - 1 /\ b - 1 < b /\ b < j.n
          BY <1>3, <3>4, <4>1
        <5> HIDE DEF a, b
        <5>2. \A ac : (ac <=> \E p \in (b - 1) + 1 .. b : p \in j.H)
                         => SCAN_EXPR(j.W[<<a, b - 1>>], j.W[<<(b - 1) + 1, b>>], ac) = j.W[<<a, b>>]
          BY <1>3, <5>1, SumsUp
        <5> QED
          BY <4>6, <5>2
      <4>8. (b - 1) + 1 = b
        BY <1>3
      <4> QED
        BY <4>5, <4>7, <4>8
    <3> QED
      BY <3>3, <3>4
  <2> QED
    BY <2>1, <2>2
<1>11. q.f = r.f
  BY DEF CarryEffect
<1>12. ASSUME NEW i \in Items(j), NEW k \in Rows(j), NEW x, CellIs(j, g, r, k, i, x), k # 0 \/ i # 0
       PROVE  CellIs(j, g, q, k, i, x)
  <2>1. <<k, i>> \in DOMAIN r.d /\ <<k, i>> # <<0, 0>>
    BY <1>3, <1>4, <1>12 DEF Rows
  <2> QED
    BY <1>2, <1>7, <1>12, <2>1 DEF CellIs
<1>13. \A i \in Items(j), k \in Rows(j) : FlagIs(j, g, r, k, i) => FlagIs(j, g, q, k, i)
  BY <1>2, <1>11 DEF FlagIs
<1>14. ASSUME NEW i \in Items(j), i \in q.A
       PROVE  Raw(j, g, q, i, Behind(j, a, b, i, 1)) /\ KGroup(j, g, q, i, Elem(j, b, 0, i))
  <2>1. CASE i = l
    <3>1. ASSUME NEW k \in Rows(j)
          PROVE  CellIs(j, g, q, k, l, IF k = 0 THEN Behind(j, a, b, l, 1) ELSE Elem(j, b, k, l)) /\ FlagIs(j, g, q, k, l)
      BY <1>2, <1>8, <1>10, <1>12, <1>13 DEF Raw
    <3> QED
      BY <1>2, <1>9, <2>1, <3>1 DEF Raw, KGroup
  <2>2. CASE i # l
    <3>1. i \in r.A
      BY <1>2, <1>14, <2>2
    <3>2. Raw(j, g, r, i, Behind(j, a, b, i, 1)) /\ KGroup(j, g, r, i, Elem(j, b, 0, i))
      BY <1>1, <3>1 DEF CarryInv
    <3>3. KGroup(j, g, q, i, Elem(j, b, 0, i))
      BY <1>2, <1>6, <2>2, <3>2 DEF KGroup
    <3>4. ASSUME NEW k \in Rows(j), k # 0 \/ i # 0
          PROVE  CellIs(j, g, q, k, i, IF k = 0 THEN Behind(j, a, b, i, 1) ELSE Elem(j, b, k, i))
      BY <3>2, <3>4, <1>2, <1>12 DEF Raw
    <3>5. ASSUME i = 0 PROVE CellIs(j, g, q, 0, i, Behind(j, a, b, i, 1))
      <4>1. q.d = r.d
        BY <3>5, <2>2 DEF CarryEffect
      <4> QED
        BY <3>2, <4>1, <1>2, <1>5 DEF Raw, CellIs
    <3> QED
      BY <1>2, <1>13, <3>2, <3>3, <3>4, <3>5 DEF Raw
  <2> QED
    BY <2>1, <2>2
<1>15. ASSUME NEW i \in Items(j), i \notin q.A PROVE Raw(j, g, q, i, Elem(j, b, 0, i))
  <2>1. i # l /\ i \notin r.A
    BY <1>2, <1>15
  <2>2. Raw(j, g, r, i, Elem(j, b, 0, i))
    BY <1>1, <2>1 DEF CarryInv
  <2>3. ASSUME NEW k \in Rows(j), k # 0 \/ i # 0
        PROVE  CellIs(j, g, q, k, i, IF k = 0 THEN Elem(j, b, 0, i) ELSE Elem(j, b, k, i))
    BY <2>2, <2>3, <1>2, <1>12 DEF Raw
  <2>4. ASSUME i = 0 PROVE CellIs(j, g, q, 0, i, Elem(j, b, 0, i))
    <3>1. q.d = r.d
      BY <2>1, <2>4 DEF CarryEffect
    <3> QED
      BY <2>2, <3>1, <1>2, <1>5 DEF Raw, CellIs
  <2> QED
    BY <1>2, <1>13, <2>2, <2>3, <2>4 DEF Raw
<1>16. CarryInv(j, g, q)
  BY <1>2, <1>14, <1>15 DEF CarryInv
<1>17. Carried(j, g, q)
  <2>1. <<K, j.wg - 1>> \in DOMAIN r.d /\ <<K, j.wg - 1>> # <<0, 0>>
    BY <1>3, <1>4, <1>5
  <2> QED
    BY <1>1, <1>2, <1>7, <2>1 DEF Carried
<1>18. UnitShape(j, g, q)
  BY <1>1, <1>2, ShapeStays
<1>19. Interval(j, g, q)
  BY <1>1, <1>5, <1>6, IntervalStays
<1> QED
  BY <1>2, <1>16, <1>17, <1>18, <1>19 DEF UnitInv

(* Item l sums up its rows, and looks for the first flag among them.       *)
RowSums(j, g, r, l, sum) ==
  /\ sum[0] = r.d[<<0, l>>]
  /\ \A k \in Rows(j) \ {0} :
       sum[k] = IF Elem(j, r.b, k, l) < End(j, g)
                  THEN SCAN_EXPR(sum[k - 1], r.d[<<k, l>>], j.seg /\ r.f[<<k, l>>]) ELSE sum[k - 1]
FirstFlag(j, g, r, l, first) ==
  LET found == {Elem(j, r.b, k, l) : k \in {i \in Rows(j) \ {0} : Elem(j, r.b, i, l) < End(j, g) /\ j.seg /\ r.f[<<i, l>>]}}
               \cup {r.v[l].k_group}
  IN  first \in found /\ \A i \in found : first <= i

AlongEffect(j, g, r, q, l, sum, first) ==
  /\ q.f = r.f /\ RowSums(j, g, r, l, sum) /\ FirstFlag(j, g, r, l, first)
  /\ \A i \in Items(j), k \in 0 .. j.k : i # l => q.d[<<k, i>>] = r.d[<<k, i>>]
  /\ \A k \in Rows(j) : Elem(j, r.b, k, l) < End(j, g) => q.d[<<k, l>>] = sum[k]
  /\ q.d[<<j.k, l>>] = sum[j.k - 1]
  /\ \A i \in Items(j) : /\ q.v[i].interval = r.v[i].interval
                         /\ i # l => q.v[i] = r.v[i] /\ q.t[i] = r.t[i]
  /\ q.v[l].k_group = first /\ q.v[l].val = sum[j.k - 1] /\ q.t[l] = first

LEMMA RowElems ==
  ASSUME NEW j, GoodKernel(j), NEW b \in Nat, NEW l \in Nat
  PROVE  \A k \in Rows(j) :
           /\ Elem(j, b, k, l) \in Nat /\ Elem(j, b, 0, l) <= Elem(j, b, k, l)
           /\ Elem(j, b, k, l) = Elem(j, b, 0, l) + k /\ Elem(j, b, k, l) <= LastElem(j, b, l)
           /\ b <= Elem(j, b, k, l)
BY ElemIs

LEMMA RowNumbers ==
  ASSUME NEW j, GoodKernel(j)
  PROVE  \A k \in Rows(j) : k \in Nat /\ k <= j.k - 1
BY DEF GoodKernel, Rows

(* The sums along k, from the first row on.                                *)
LEMMA RowSumsAre ==
  ASSUME NEW j, GoodKernel(j), NEW g \in Nat, NEW r, UnitShape(j, g, r), NEW l \in Items(j), NEW x \in Nat,
         x <= Elem(j, r.b, 0, l), Raw(j, g, r, l, x), NEW sum, RowSums(j, g, r, l, sum)
  PROVE  \A k \in Rows(j) : Elem(j, r.b, k, l) < Limit(j, g) => sum[k] = j.W[<<x, Elem(j, r.b, k, l)>>]
<1> DEFINE b == r.b
           m == Limit(j, g)
           E(k) == Elem(j, b, k, l)
           S == {k \in Rows(j) : E(k) < m => sum[k] = j.W[<<x, E(k)>>]}
<1>1. /\ b \in Nat /\ l \in Nat /\ m \in Nat /\ m <= j.n /\ j.n \in Nat /\ j.k \in Nat \ {0} /\ m <= End(j, g)
      /\ End(j, g) \in Nat
  BY UnitNumbers, KernelNumbers
<1>2. \A k \in Rows(j) : k \in Nat /\ E(k) \in Nat /\ E(0) <= E(k) /\ E(k) = E(0) + k
  <2>0. b \in Nat /\ l \in Nat
    BY <1>1
  <2>1. \A k \in Rows(j) : E(k) \in Nat /\ E(0) <= E(k) /\ E(k) = E(0) + k /\ E(k) <= LastElem(j, b, l)
    BY <2>0, RowElems
  <2> HIDE DEF E
  <2> QED
    BY <2>1, RowNumbers
<1>3. 0 \in S
  <2>1. 0 \in Rows(j)
    BY <1>1 DEF Rows
  <2>2. CellIs(j, g, r, 0, l, x)
    BY <2>1 DEF Raw
  <2> QED
    BY <2>1, <2>2 DEF CellIs, RowSums
<1>4. ASSUME NEW k \in 1 .. j.k - 1, k - 1 \in S PROVE k \in S
  <2>1. k \in Rows(j) \ {0} /\ k - 1 \in Rows(j) /\ E(k) = E(k - 1) + 1 /\ E(k - 1) \in Nat /\ x <= E(k - 1)
    <3>1. k \in Rows(j) \ {0} /\ k - 1 \in Rows(j)
      BY <1>1 DEF Rows
    <3>2. k \in Nat /\ E(0) \in Nat /\ E(k) = E(0) + k /\ E(k - 1) = E(0) + (k - 1) /\ x <= E(0)
      BY <1>2, <1>3, <3>1
    <3> HIDE DEF E
    <3> QED
      BY <3>1, <3>2
  <2>2. SUFFICES ASSUME E(k) < m PROVE sum[k] = j.W[<<x, E(k)>>]
    BY <2>1
  <2>3. CellIs(j, g, r, k, l, E(k)) /\ FlagIs(j, g, r, k, l)
    BY <2>1 DEF Raw
  <2>4. r.d[<<k, l>>] = j.W[<<E(k), E(k)>>] /\ (j.seg /\ r.f[<<k, l>>] <=> E(k) \in j.H)
    BY <2>2, <2>3 DEF CellIs, FlagIs
  <2> DEFINE e == E(k)
             p == E(k - 1)
             across == j.seg /\ r.f[<<k, l>>]
  <2>5. p \in Nat /\ e = p + 1 /\ x <= p /\ e < m /\ p < e /\ e \in Nat
    BY <1>1, <2>1, <2>2
  <2>6. sum[k] = SCAN_EXPR(sum[k - 1], j.W[<<e, e>>], across)
    <3>1. E(k) < End(j, g)
      BY <1>1, <1>2, <2>1, <2>2
    <3>2. sum[k] = SCAN_EXPR(sum[k - 1], r.d[<<k, l>>], j.seg /\ r.f[<<k, l>>])
      BY <2>1, <3>1 DEF RowSums
    <3> QED
      BY <2>4, <3>2
  <2>7. sum[k - 1] = j.W[<<x, p>>]
    BY <1>1, <1>4, <2>5
  <2>8. across <=> e \in j.H
    BY <2>4
  <2> HIDE DEF e, p, across
  <2>9. across <=> \E i \in p + 1 .. e : i \in j.H
    BY <2>5, <2>8
  <2>10. \A ac : (ac <=> \E i \in p + 1 .. e : i \in j.H) => SCAN_EXPR(j.W[<<x, p>>], j.W[<<p + 1, e>>], ac) = j.W[<<x, e>>]
    <3>1. e < j.n
      BY <1>1, <2>5
    <3> QED
      BY <2>5, <3>1, SumsUp
  <2>11. sum[k] = j.W[<<x, e>>]
    BY <2>5, <2>6, <2>7, <2>9, <2>10
  <2> QED
    BY <2>11 DEF e
<1>5. j.k - 1 \in Nat
  BY <1>1
<1> HIDE DEF S
<1>6. \A k \in 0 .. j.k - 1 : k \in S
  BY <1>3, <1>4, <1>5, BoundedInduction
<1> QED
  BY <1>6 DEF S, Rows

(* The least of the starts found along k.                                  *)
LEMMA FirstFlagIs ==
  ASSUME NEW j, GoodKernel(j), NEW g \in Nat, NEW r, UnitShape(j, g, r), NEW l \in Items(j), NEW x,
         Raw(j, g, r, l, x), KGroup(j, g, r, l, Elem(j, r.b, 0, l)), NEW first, FirstFlag(j, g, r, l, first)
  PROVE  Finds(j, g, first, Elem(j, r.b, 0, l), LastElem(j, r.b, l))
<1> DEFINE b == r.b
           m == Limit(j, g)
           E(k) == Elem(j, b, k, l)
           kg == r.v[l].k_group
           hi == LastElem(j, b, l)
           Flagged == {i \in Rows(j) \ {0} : E(i) < End(j, g) /\ j.seg /\ r.f[<<i, l>>]}
           lo == E(0)
<1>1. /\ b \in Nat /\ l \in Nat /\ m \in Nat /\ m <= j.n /\ j.n \in Nat /\ j.k \in Nat \ {0} /\ m <= End(j, g)
      /\ End(j, g) \in Nat /\ NO_SEG_BOUNDARY \in Nat /\ j.n <= NO_SEG_BOUNDARY
  BY UnitNumbers, KernelNumbers
<1>2. \A k \in Rows(j) : k \in Nat /\ E(k) \in Nat /\ E(0) <= E(k) /\ E(k) = E(0) + k /\ E(k) <= hi
  <2>0. b \in Nat /\ l \in Nat
    BY <1>1
  <2>1. \A k \in Rows(j) : E(k) \in Nat /\ E(0) <= E(k) /\ E(k) = E(0) + k /\ E(k) <= LastElem(j, b, l)
    BY <2>0, RowElems
  <2> HIDE DEF E
  <2> QED
    BY <2>1, RowNumbers
<1>3. 0 \in Rows(j) /\ lo \in Nat /\ hi \in Nat /\ lo <= hi /\ j.k - 1 \in Rows(j) /\ hi = E(j.k - 1)
  <2>1. 0 \in Rows(j) /\ j.k - 1 \in Rows(j)
    BY <1>1 DEF Rows
  <2>2. hi = E(j.k - 1)
    BY DEF LastElem
  <2> QED
    BY <1>2, <2>1, <2>2
<1>4. Finds(j, g, kg, lo, lo)
  BY DEF KGroup
<1>5. kg = NO_SEG_BOUNDARY \/ kg = lo
  BY <1>3, <1>4 DEF Finds
<1>6. lo < m => (kg <= lo <=> lo \in j.H)
  <2>1. \A i \in lo .. lo : i = lo
    BY <1>3
  <2> QED
    BY <1>3, <1>4, <2>1 DEF Finds
<1>7. /\ first = kg \/ \E k \in Flagged : first = E(k)
      /\ first <= kg /\ \A k \in Flagged : first <= E(k)
  BY DEF FirstFlag
<1>8. ASSUME NEW k \in Rows(j) \ {0}, E(k) < m PROVE k \in Flagged <=> E(k) \in j.H
  <2>1. FlagIs(j, g, r, k, l)
    BY DEF Raw
  <2>2. E(k) < End(j, g)
    BY <1>1, <1>2, <1>8
  <2> QED
    BY <1>8, <2>1, <2>2 DEF FlagIs
<1>9. \A k \in Flagged : k \in Rows(j) \ {0}
  OBVIOUS
<1>10. ASSUME NEW i \in lo .. hi PROVE \E k \in Rows(j) : i = E(k)
  <2>1. i - lo \in Nat /\ i - lo <= j.k - 1
    BY <1>1, <1>2, <1>3, <1>10
  <2>2. i - lo \in Rows(j)
    BY <1>1, <2>1 DEF Rows
  <2>3. E(i - lo) = lo + (i - lo)
    BY <1>2, <2>2
  <2>4. lo + (i - lo) = i
    BY <1>3, <1>10
  <2> QED
    BY <2>2, <2>3, <2>4
<1> HIDE DEF E, kg, hi, Flagged, lo, m
<1>11. first = NO_SEG_BOUNDARY \/ first \in lo .. hi
  <2>1. CASE first = kg
    BY <1>3, <1>5, <2>1
  <2>2. CASE \E k \in Flagged : first = E(k)
    BY <1>2, <1>3, <1>9, <2>2 DEF lo
  <2> QED
    BY <1>7, <2>1, <2>2
<1>12. ASSUME NEW i \in lo .. hi, i < m PROVE first <= i <=> \E q \in lo .. i : q \in j.H
  <2>1. lo < m
    BY <1>1, <1>3, <1>12
  <2>2. ASSUME first <= i PROVE \E q \in lo .. i : q \in j.H
    <3>1. CASE first = kg
      <4>1. kg = lo
        BY <1>1, <1>3, <1>5, <1>12, <2>2, <3>1
      <4>2. lo \in j.H
        BY <1>3, <1>6, <2>1, <4>1
      <4> QED
        BY <1>3, <1>12, <4>2
    <3>2. CASE \E k \in Flagged : first = E(k)
      <4>1. PICK k \in Flagged : first = E(k)
        BY <3>2
      <4>2. E(k) \in Nat /\ E(k) < m /\ lo <= E(k)
        BY <1>1, <1>2, <1>3, <1>9, <1>12, <2>2, <4>1 DEF lo
      <4>3. E(k) \in j.H
        BY <1>8, <1>9, <4>2
      <4> QED
        BY <1>3, <1>12, <2>2, <4>1, <4>2, <4>3
    <3> QED
      BY <1>7, <3>1, <3>2
  <2>3. ASSUME NEW q \in lo .. i, q \in j.H PROVE first <= i
    <3>1. q \in lo .. hi /\ q < m
      BY <1>1, <1>3, <1>12
    <3>2. PICK k \in Rows(j) : q = E(k)
      BY <1>10, <3>1
    <3>3. CASE k = 0
      <4>1. kg <= lo
        BY <1>6, <2>1, <2>3, <3>2, <3>3 DEF lo
      <4>2. kg = lo /\ q = lo
        BY <1>1, <1>3, <1>5, <2>1, <3>2, <3>3, <4>1 DEF lo
      <4> QED
        BY <1>2, <1>3, <1>7, <1>9, <1>12, <4>2
    <3>4. CASE k # 0
      <4>1. k \in Flagged
        BY <1>8, <2>3, <3>1, <3>2, <3>4
      <4>2. first <= q
        BY <1>7, <3>2, <4>1
      <4>3. first \in Nat
        BY <1>1, <1>3, <1>11
      <4> QED
        BY <1>3, <1>12, <4>2, <4>3
    <3> QED
      BY <3>3, <3>4
  <2> QED
    BY <2>2, <2>3
<1> QED
  BY <1>11, <1>12 DEF Finds, lo, hi, E, m

(* Where the sum of an item begins after it has looked o items to the      *)
(* left.                                                                   *)
LEMMA BehindIs ==
  ASSUME NEW j, GoodKernel(j), NEW a \in Nat, NEW b \in Nat, a <= b, NEW l \in Nat, NEW o \in Nat \ {0}
  PROVE  /\ Behind(j, a, b, l, o) \in Nat /\ Behind(j, a, b, l, o) <= Elem(j, b, 0, l)
         /\ a <= Behind(j, a, b, l, o) /\ Elem(j, b, 0, l) \in Nat
         /\ l < o => Behind(j, a, b, l, o) = a
         /\ o <= l => Behind(j, a, b, l, o) = Elem(j, b, 0, (l - o) + 1) /\ b <= Behind(j, a, b, l, o)
<1>1. 0 \in Rows(j)
  BY DEF GoodKernel, Rows
<1>2. Elem(j, b, 0, l) \in Nat /\ b <= Elem(j, b, 0, l)
  BY <1>1, ElemIs
<1>3. CASE l < o
  BY <1>2, <1>3 DEF Behind
<1>4. CASE o <= l
  <2> DEFINE i == (l - o) + 1
  <2>1. i \in Nat /\ i <= l /\ l - o + 1 = i
    BY <1>4
  <2>2. Behind(j, a, b, l, o) = Elem(j, b, 0, i)
    BY <1>4, <2>1 DEF Behind
  <2> HIDE DEF i
  <2>3. Elem(j, b, 0, i) \in Nat /\ b <= Elem(j, b, 0, i)
    BY <1>1, <2>1, ElemIs
  <2>4. Elem(j, b, 0, i) <= Elem(j, b, 0, l)
    BY <2>1, ElemGrows
  <2> QED
    BY <1>2, <1>4, <2>1, <2>2, <2>3, <2>4 DEF i
<1> QED
  BY <1>3, <1>4

LEMMA BehindOne ==
  ASSUME NEW j, GoodKernel(j), NEW b \in Nat, NEW l \in Nat
  PROVE  Behind(j, b, b, l, 1) = Elem(j, b, 0, l) /\ \A a : l # 0 => Behind(j, a, b, l, 1) = Elem(j, b, 0, l)
<1>1. 0 \in Rows(j)
  BY DEF GoodKernel, Rows
<1>2. Elem(j, b, 0, 0) = b
  BY <1>1, ElemIs
<1>3. l - 1 + 1 = l /\ (l < 1 <=> l = 0)
  OBVIOUS
<1> QED
  BY <1>2, <1>3 DEF Behind

(* Nothing of item i changes.                                              *)
ItemSame(j, r, q, i) ==
  /\ q.b = r.b /\ q.v[i] = r.v[i] /\ q.t[i] = r.t[i] /\ q.d[<<j.k, i>>] = r.d[<<j.k, i>>]
  /\ \A k \in Rows(j) : q.d[<<k, i>>] = r.d[<<k, i>>] /\ q.f[<<k, i>>] = r.f[<<k, i>>]

LEMMA CellsKept ==
  ASSUME NEW j, NEW g, NEW r, NEW q, NEW i, q.b = r.b, NEW k, q.d[<<k, i>>] = r.d[<<k, i>>]
  PROVE  \A x : CellIs(j, g, r, k, i, x) => CellIs(j, g, q, k, i, x)
BY DEF CellIs

LEMMA ItemKept ==
  ASSUME NEW j, NEW g, NEW r, NEW q, NEW i, ItemSame(j, r, q, i)
  PROVE  /\ \A x : Raw(j, g, r, i, x) => Raw(j, g, q, i, x)
         /\ \A x : Cells(j, g, r, i, x) => Cells(j, g, q, i, x)
         /\ \A hi : KGroup(j, g, r, i, hi) => KGroup(j, g, q, i, hi)
         /\ Summed(j, g, r, i) => Summed(j, g, q, i)
         /\ \A o : Padded(j, g, r, i, o) => Padded(j, g, q, i, o)
         /\ \A o : Valued(j, g, r, i, o) => Valued(j, g, q, i, o)
         /\ \A o : Subtree(j, g, r, i, o) => Subtree(j, g, q, i, o)
<1>1. /\ q.b = r.b /\ q.v[i] = r.v[i] /\ q.t[i] = r.t[i] /\ q.d[<<j.k, i>>] = r.d[<<j.k, i>>]
      /\ \A k \in Rows(j) : q.d[<<k, i>>] = r.d[<<k, i>>] /\ q.f[<<k, i>>] = r.f[<<k, i>>]
  BY DEF ItemSame
<1>2. \A k \in Rows(j) : \A x : CellIs(j, g, r, k, i, x) => CellIs(j, g, q, k, i, x)
  BY <1>1, CellsKept
<1>3. \A k \in Rows(j) : FlagIs(j, g, r, k, i) => FlagIs(j, g, q, k, i)
  BY <1>1 DEF FlagIs
<1>4. \A x : Raw(j, g, r, i, x) => Raw(j, g, q, i, x)
  BY <1>1, <1>2, <1>3 DEF Raw
<1>5. \A x : Cells(j, g, r, i, x) => Cells(j, g, q, i, x)
  BY <1>2 DEF Cells
<1>6. \A hi : KGroup(j, g, r, i, hi) => KGroup(j, g, q, i, hi)
  BY <1>1 DEF KGroup
<1>7. Summed(j, g, r, i) => Summed(j, g, q, i)
  BY <1>1, <1>5, <1>6 DEF Summed
<1>8. \A o : Padded(j, g, r, i, o) => Padded(j, g, q, i, o)
  BY <1>1 DEF Padded
<1>9. \A o : Valued(j, g, r, i, o) => Valued(j, g, q, i, o)
  BY <1>1 DEF Valued
<1>10. \A o : Subtree(j, g, r, i, o) => Subtree(j, g, q, i, o)
  BY <1>1 DEF Subtree
<1> QED
  BY <1>4, <1>5, <1>6, <1>7, <1>8, <1>9, <1>10

LEMMA AlongStep ==
  ASSUME NEW j, GoodKernel(j), NEW g \in Nat, NEW r, NEW q, NEW l \in Items(j), UnitInv(j, g, r), Arrives(r, q, l),
         r.s = "along_k", NEW sum, NEW first, AlongEffect(j, g, r, q, l, sum, first)
  PROVE  UnitInv(j, g, q)
<1> DEFINE a == Begin(j, g)
           b == r.b
           m == Limit(j, g)
           x == Behind(j, a, b, l, 1)
           hi == LastElem(j, b, l)
<1>1. UnitShape(j, g, r) /\ AlongInv(j, g, r) /\ Interval(j, g, r)
  BY DEF UnitInv
<1>2. q.s = "along_k" /\ q.b = b /\ q.A = r.A \cup {l} /\ l \notin r.A
  BY DEF Arrives
<1>3. b \in Nat /\ a \in Nat /\ a <= b /\ l \in Nat /\ m \in Nat /\ End(j, g) \in Nat /\ m <= End(j, g)
  BY <1>1, UnitNumbers, KernelNumbers
<1>4. x \in Nat /\ x <= Elem(j, b, 0, l)
  BY <1>3, BehindIs
<1>5. Raw(j, g, r, l, x) /\ KGroup(j, g, r, l, Elem(j, b, 0, l))
  BY <1>1, <1>2 DEF AlongInv
<1>6. RowSums(j, g, r, l, sum) /\ FirstFlag(j, g, r, l, first)
  BY DEF AlongEffect
<1>7. \A k \in Rows(j) : Elem(j, b, k, l) < m => sum[k] = j.W[<<x, Elem(j, b, k, l)>>]
  BY <1>1, <1>4, <1>5, <1>6, RowSumsAre
<1>8. Finds(j, g, first, Elem(j, b, 0, l), hi)
  BY <1>1, <1>5, <1>6, FirstFlagIs
<1>9. j.k - 1 \in Rows(j) /\ 0 \in Rows(j)
  BY DEF GoodKernel, Rows
<1>10. \A k \in Rows(j) : Elem(j, b, k, l) \in Nat
  BY <1>3, RowElems
<1>11. Summed(j, g, q, l)
  <2>1. ASSUME NEW k \in Rows(j) PROVE CellIs(j, g, q, k, l, x)
    <3>1. SUFFICES ASSUME Elem(j, b, k, l) < m PROVE q.d[<<k, l>>] = j.W[<<x, Elem(j, b, k, l)>>]
      BY <1>2 DEF CellIs
    <3>2. Elem(j, b, k, l) < End(j, g)
      BY <1>3, <1>10, <3>1
    <3> QED
      BY <1>7, <3>1, <3>2 DEF AlongEffect
  <2>2. q.v[l].k_group = first
    BY DEF AlongEffect
  <2> QED
    BY <1>2, <1>8, <2>1, <2>2 DEF Summed, Cells, KGroup
<1>12. hi < m => sum[j.k - 1] = j.W[<<x, hi>>]
  BY <1>7, <1>9 DEF LastElem
<1>13. Padded(j, g, q, l, 1)
  <2>1. q.d[<<j.k, l>>] = sum[j.k - 1] /\ q.t[l] = first
    BY DEF AlongEffect
  <2>2. Behind(j, b, b, l, 1) = Elem(j, b, 0, l)
    BY <1>3, BehindOne
  <2> QED
    BY <1>2, <1>8, <1>12, <2>1, <2>2 DEF Padded
<1>14. Valued(j, g, q, l, 1)
  <2>1. q.v[l].val = sum[j.k - 1]
    BY DEF AlongEffect
  <2> QED
    BY <1>2, <1>12, <2>1 DEF Valued
<1>15. ASSUME NEW i \in Items(j), i # l PROVE ItemSame(j, r, q, i)
  <2>1. \A k \in 0 .. j.k : q.d[<<k, i>>] = r.d[<<k, i>>]
    BY <1>15 DEF AlongEffect
  <2>2. j.k \in 0 .. j.k /\ \A k \in Rows(j) : k \in 0 .. j.k
    BY DEF GoodKernel, Rows
  <2>3. q.f = r.f /\ q.v[i] = r.v[i] /\ q.t[i] = r.t[i]
    BY <1>15 DEF AlongEffect
  <2> QED
    BY <1>2, <2>1, <2>2, <2>3 DEF ItemSame
<1>16. AlongInv(j, g, q)
  <2>1. ASSUME NEW i \in Items(j), i # l
        PROVE  IF i \in q.A THEN Summed(j, g, q, i) /\ Padded(j, g, q, i, 1) /\ Valued(j, g, q, i, 1)
               ELSE Raw(j, g, q, i, Behind(j, a, q.b, i, 1)) /\ KGroup(j, g, q, i, Elem(j, q.b, 0, i))
    <3>1. i \in q.A <=> i \in r.A
      BY <1>2, <2>1
    <3>2. IF i \in r.A THEN Summed(j, g, r, i) /\ Padded(j, g, r, i, 1) /\ Valued(j, g, r, i, 1)
          ELSE Raw(j, g, r, i, Behind(j, a, b, i, 1)) /\ KGroup(j, g, r, i, Elem(j, b, 0, i))
      BY <1>1 DEF AlongInv
    <3>3. ItemSame(j, r, q, i)
      BY <1>15, <2>1
    <3> QED
      BY <1>2, <3>1, <3>2, <3>3, ItemKept
  <2>2. l \in q.A
    BY <1>2
  <2> QED
    BY <1>11, <1>13, <1>14, <2>1, <2>2 DEF AlongInv
<1>17. UnitShape(j, g, q)
  <2>1. ASSUME ~j.seg PROVE \A i \in Items(j) : q.v[i].k_group = r.v[i].k_group
    <3>1. first = r.v[l].k_group
      BY <1>6, <2>1 DEF FirstFlag
    <3> QED
      BY <3>1 DEF AlongEffect
  <2> QED
    BY <1>1, <2>1, ShapeStays
<1>18. Interval(j, g, q)
  <2>1. 0 \in Items(j)
    BY <1>3, UnitEnds
  <2>2. q.v[0].interval = r.v[0].interval
    BY <2>1 DEF AlongEffect
  <2> QED
    BY <1>1, <2>2, IntervalStays
<1> QED
  BY <1>2, <1>16, <1>17, <1>18 DEF UnitInv

(* Item l adds the sum that item l - offset has published, and takes over  *)
(* the first segment start that it knows.                                  *)
ReadEffect(j, g, r, q, l) ==
  /\ q.d = r.d /\ q.f = r.f /\ q.t = r.t
  /\ \A i \in Items(j) : /\ q.v[i].interval = r.v[i].interval /\ q.v[i].k_group = r.v[i].k_group
                         /\ i # l => q.v[i] = r.v[i]
  /\ q.v[l].val = IF l - r.o >= 0 /\ Elem(j, r.b, 0, l) < End(j, g)
                    THEN SCAN_EXPR(r.d[<<j.k, l - r.o>>], r.v[l].val, r.t[l] # NO_SEG_BOUNDARY) ELSE r.v[l].val
  /\ q.v[l].subtree = IF l - r.o >= 0 THEN Least(r.t[l], r.t[l - r.o]) ELSE r.t[l]

IsLeft(i, o, l) == l = i + o

LEMMA LeftOf ==
  ASSUME NEW j, GoodKernel(j), NEW a \in Nat, NEW b \in Nat, a <= b, NEW l \in Nat, NEW i \in Nat, NEW o \in Nat \ {0},
         IsLeft(i, o, l)
  PROVE  /\ LastElem(j, b, i) \in Nat /\ LastElem(j, b, l) \in Nat
         /\ Behind(j, a, b, l, o) = LastElem(j, b, i) + 1
         /\ LastElem(j, b, i) < LastElem(j, b, l)
         /\ Behind(j, a, b, i, o) \in Nat /\ Behind(j, a, b, i, o) <= LastElem(j, b, i)
<1>1. 0 \in Rows(j)
  BY DEF GoodKernel, Rows
<1>2. LastElem(j, b, i) + 1 = Elem(j, b, 0, i + 1) /\ LastElem(j, b, i) \in Nat /\ Elem(j, b, 0, i) <= LastElem(j, b, i)
  <2>1. LastElem(j, b, i) \in Nat /\ Elem(j, b, 0, i) <= LastElem(j, b, i)
    BY <1>1, ElemIs
  <2>2. i + 1 \in Nat /\ Follows(i + 1, i)
    BY DEF Follows
  <2>3. LastElem(j, b, i) + 1 = Elem(j, b, 0, i + 1)
    BY <2>2, NextItem
  <2> QED
    BY <2>1, <2>3
<1>3. LastElem(j, b, l) \in Nat /\ Elem(j, b, 0, l) <= LastElem(j, b, l) /\ Elem(j, b, 0, l) \in Nat
  BY <1>1, ElemIs
<1>0. l = i + o
  BY DEF IsLeft
<1>4. Behind(j, a, b, l, o) = Elem(j, b, 0, i + 1)
  <2>1. ~(l < o) /\ l - o + 1 = i + 1
    BY <1>0
  <2> QED
    BY <2>1, Zenon DEF Behind
<1>5. Elem(j, b, 0, i + 1) <= Elem(j, b, 0, l) /\ Elem(j, b, 0, i + 1) \in Nat
  <2>1. i + 1 \in Nat /\ i + 1 <= l
    BY <1>0
  <2> QED
    BY <1>2, <2>1, ElemGrows
<1>7. Behind(j, a, b, i, o) \in Nat /\ Behind(j, a, b, i, o) <= Elem(j, b, 0, i) /\ Elem(j, b, 0, i) \in Nat
  BY BehindIs
<1> QED
  BY <1>2, <1>3, <1>4, <1>5, <1>7

LEMMA LeftTwice ==
  ASSUME NEW j, NEW a, NEW b, NEW l \in Nat, NEW i \in Nat, NEW o \in Nat \ {0}, IsLeft(i, o, l)
  PROVE  Behind(j, a, b, i, o) = Behind(j, a, b, l, 2 * o)
<1>1. (i < o <=> l < 2 * o) /\ i - o + 1 = l - 2 * o + 1
  BY DEF IsLeft
<1> QED
  BY <1>1, Zenon DEF Behind

(* The item to the left, and what it has published.                        *)
LEMMA LeftItem ==
  ASSUME NEW j, GoodKernel(j), NEW a \in Nat, NEW b \in Nat, a <= b, NEW l \in Nat, NEW i \in Nat, NEW o \in Nat \ {0},
         IsLeft(i, o, l)
  PROVE  /\ LastElem(j, b, i) \in Nat /\ LastElem(j, b, i) < LastElem(j, b, l)
         /\ Behind(j, a, b, l, o) = LastElem(j, b, i) + 1
         /\ Behind(j, a, b, i, o) = Behind(j, a, b, l, 2 * o)
         /\ Behind(j, a, b, i, o) \in Nat /\ Behind(j, a, b, i, o) <= LastElem(j, b, i)
<1>1. /\ LastElem(j, b, i) \in Nat /\ LastElem(j, b, i) < LastElem(j, b, l)
      /\ Behind(j, a, b, l, o) = LastElem(j, b, i) + 1
      /\ Behind(j, a, b, i, o) \in Nat /\ Behind(j, a, b, i, o) <= LastElem(j, b, i)
  BY LeftOf
<1>2. Behind(j, a, b, i, o) = Behind(j, a, b, l, 2 * o)
  BY LeftTwice
<1> QED
  BY <1>1, <1>2

LEMMA ReadItem ==
  ASSUME NEW j, GoodKernel(j), NEW g \in Nat, NEW r, NEW q, NEW l \in Items(j), UnitInv(j, g, r), q.b = r.b,
         r.s = "tree_read", ReadEffect(j, g, r, q, l), l \notin r.A
  PROVE  Valued(j, g, q, l, 2 * r.o) /\ Subtree(j, g, q, l, 2 * r.o)
<1> DEFINE a == Begin(j, g)
           b == r.b
           m == Limit(j, g)
           o == r.o
           hi == LastElem(j, b, l)
           lo == Behind(j, a, b, l, o)
           mid == Behind(j, b, b, l, o)
           first == Elem(j, b, 0, l)
<1>1. UnitShape(j, g, r) /\ ReadInv(j, g, r)
  BY DEF UnitInv
<1>2. /\ b \in Nat /\ a \in Nat /\ a <= b /\ l \in Nat /\ m \in Nat /\ End(j, g) \in Nat /\ m <= End(j, g)
      /\ o \in Nat \ {0} /\ m <= j.n /\ j.n \in Nat
  BY <1>1, UnitNumbers, KernelNumbers
<1>3. Padded(j, g, r, l, o) /\ Valued(j, g, r, l, o)
  BY <1>1 DEF ReadInv
<1>4. 0 \in Rows(j) /\ hi \in Nat /\ first \in Nat /\ first <= hi
  <2>1. 0 \in Rows(j)
    BY DEF GoodKernel, Rows
  <2> QED
    BY <1>2, <2>1, ElemIs
<1>5. CASE l < o
  <2>1. l < 2 * o /\ ~(l - o >= 0) /\ 2 * o \in Nat \ {0}
    BY <1>2, <1>5
  <2>2. q.v[l].val = r.v[l].val /\ q.v[l].subtree = r.t[l]
    BY <2>1 DEF ReadEffect
  <2>3. /\ Behind(j, a, b, l, o) = a /\ Behind(j, a, b, l, 2 * o) = a
        /\ Behind(j, b, b, l, o) = b /\ Behind(j, b, b, l, 2 * o) = b
    BY <1>2, <1>5, <2>1 DEF Behind
  <2> QED
    BY <1>3, <2>2, <2>3 DEF Valued, Subtree, Padded
<1>6. CASE o <= l
  <2>0. PICK i \in Nat : l = i + o
    <3>1. l - o \in Nat /\ l = (l - o) + o
      BY <1>2, <1>6
    <3> QED
      BY <3>1
  <2> DEFINE lo2 == Behind(j, a, b, i, o)
             mid2 == Behind(j, b, b, i, o)
             hi2 == LastElem(j, b, i)
  <2>1. i \in Items(j) /\ l - o >= 0 /\ l - o = i
    <3>1. i \in 0 .. j.wg - 1
      BY <1>2, <2>0, KernelNumbers DEF Items
    <3> QED
      BY <1>2, <2>0, <3>1 DEF Items
  <2>2. Padded(j, g, r, i, o)
    BY <1>1, <2>1 DEF ReadInv
  <2>3. /\ hi2 \in Nat /\ hi2 < hi /\ lo = hi2 + 1 /\ lo2 = Behind(j, a, b, l, 2 * o) /\ lo2 \in Nat /\ lo2 <= hi2
        /\ mid = hi2 + 1 /\ mid2 = Behind(j, b, b, l, 2 * o) /\ mid2 \in Nat /\ mid2 <= hi2
    <3>1. IsLeft(i, o, l)
      BY <2>0 DEF IsLeft
    <3>2. ASSUME NEW aa \in Nat, NEW bb \in Nat, NEW oo \in Nat \ {0}, NEW ll \in Nat, aa <= bb, IsLeft(i, oo, ll)
          PROVE  /\ LastElem(j, bb, i) \in Nat /\ LastElem(j, bb, i) < LastElem(j, bb, ll)
                 /\ Behind(j, aa, bb, ll, oo) = LastElem(j, bb, i) + 1
                 /\ Behind(j, aa, bb, i, oo) = Behind(j, aa, bb, ll, 2 * oo)
                 /\ Behind(j, aa, bb, i, oo) \in Nat /\ Behind(j, aa, bb, i, oo) <= LastElem(j, bb, i)
      BY <3>2, LeftItem
    <3>0. b <= b
      BY <1>2
    <3>3. b \in Nat /\ a \in Nat /\ a <= b /\ o \in Nat \ {0} /\ l \in Nat
      BY <1>2
    <3> HIDE DEF a, b, o
    <3>4. ASSUME NEW aa \in Nat, aa <= b
          PROVE  /\ LastElem(j, b, i) \in Nat /\ LastElem(j, b, i) < LastElem(j, b, l)
                 /\ Behind(j, aa, b, l, o) = LastElem(j, b, i) + 1
                 /\ Behind(j, aa, b, i, o) = Behind(j, aa, b, l, 2 * o)
                 /\ Behind(j, aa, b, i, o) \in Nat /\ Behind(j, aa, b, i, o) <= LastElem(j, b, i)
      BY <3>1, <3>2, <3>3, <3>4
    <3>5. hi2 \in Nat /\ hi2 < hi /\ lo = hi2 + 1 /\ lo2 = Behind(j, a, b, l, 2 * o) /\ lo2 \in Nat /\ lo2 <= hi2
      BY <3>3, <3>4, Zenon DEF hi2, hi, lo, lo2
    <3>6. mid = hi2 + 1 /\ mid2 = Behind(j, b, b, l, 2 * o) /\ mid2 \in Nat /\ mid2 <= hi2
      BY <3>0, <3>3, <3>4, Zenon DEF hi2, mid, mid2
    <3> QED
      BY <3>5, <3>6
  <2>4. mid = hi2 + 1 /\ lo = hi2 + 1 /\ mid \in Nat /\ lo \in Nat /\ lo <= hi /\ mid <= hi
    BY <1>4, <2>3
  <2>8. Subtree(j, g, q, l, 2 * o)
    <3>1. q.v[l].subtree = Least(r.t[l], r.t[i])
      BY <2>1 DEF ReadEffect
    <3>2. Finds(j, g, r.t[l], mid, hi) /\ Finds(j, g, r.t[i], mid2, hi2)
      BY <1>3, <2>2 DEF Padded
    <3> HIDE DEF mid, hi, mid2, hi2, lo, lo2
    <3>3. mid \in Nat /\ hi2 = mid - 1 /\ mid2 <= mid /\ mid <= hi + 1
      BY <1>4, <2>3, <2>4
    <3>4. Finds(j, g, r.t[i], mid2, mid - 1)
      BY <3>2, <3>3
    <3>5. \A x, y : Finds(j, g, x, mid2, mid - 1) /\ Finds(j, g, y, mid, hi) => Finds(j, g, Least(x, y), mid2, hi)
      BY <1>4, <2>3, <3>3, FindsJoin
    <3>6. Finds(j, g, Least(r.t[i], r.t[l]), mid2, hi)
      BY <3>2, <3>4, <3>5
    <3>7. r.t[i] \in Nat /\ r.t[l] \in Nat
      <4>1. NO_SEG_BOUNDARY \in Nat
        BY ScanAssumption
      <4> QED
        BY <3>2, <3>3, <2>3, <4>1 DEF Finds
    <3>8. Least(r.t[i], r.t[l]) = Least(r.t[l], r.t[i])
      BY <3>7 DEF Least
    <3>9. Finds(j, g, q.v[l].subtree, mid2, hi)
      BY <3>1, <3>6, <3>8
    <3> QED
      BY <2>3, <3>9 DEF Subtree, mid2, hi
  <2>9. Valued(j, g, q, l, 2 * o)
    <3>1. SUFFICES ASSUME hi < m PROVE q.v[l].val = j.W[<<lo2, hi>>]
      BY <2>3 DEF Valued
    <3>2. r.v[l].val = j.W[<<lo, hi>>] /\ Finds(j, g, r.t[l], mid, hi)
      BY <1>3, <3>1 DEF Valued, Padded
    <3>3. r.d[<<j.k, i>>] = j.W[<<lo2, hi2>>]
      <4>1. hi2 < m
        BY <1>2, <1>4, <2>3, <3>1
      <4> QED
        BY <2>2, <4>1 DEF Padded
    <3> DEFINE across == r.t[l] # NO_SEG_BOUNDARY
    <3>4. q.v[l].val = SCAN_EXPR(r.d[<<j.k, i>>], r.v[l].val, across)
      <4>1. first < End(j, g)
        BY <1>2, <1>4, <3>1
      <4> QED
        BY <2>1, <4>1 DEF ReadEffect
    <3>5. across <=> \E p \in mid .. hi : p \in j.H
      <4>1. \A x : Finds(j, g, x, mid, hi) => (x # NO_SEG_BOUNDARY <=> \E p \in mid .. hi : p \in j.H)
        <5>1. mid \in Nat /\ mid <= hi /\ hi \in Nat
          BY <1>4, <2>4
        <5> HIDE DEF mid, hi
        <5> QED
          BY <3>1, <5>1, FindsTells DEF hi
      <4> QED
        BY <3>2, <4>1
    <3> HIDE DEF across, mid, hi, lo, lo2, hi2
    <3>6. across <=> \E p \in hi2 + 1 .. hi : p \in j.H
      BY <2>4, <3>5
    <3>7. \A ac : (ac <=> \E p \in hi2 + 1 .. hi : p \in j.H)
                    => SCAN_EXPR(j.W[<<lo2, hi2>>], j.W[<<hi2 + 1, hi>>], ac) = j.W[<<lo2, hi>>]
      <4>1. hi < j.n
        BY <1>2, <1>4, <3>1
      <4> QED
        BY <1>4, <2>3, <4>1, SumsUp
    <3>8. SCAN_EXPR(j.W[<<lo2, hi2>>], j.W[<<lo, hi>>], across) = j.W[<<lo2, hi>>]
      BY <2>4, <3>6, <3>7
    <3> QED
      BY <3>2, <3>3, <3>4, <3>8
  <2> QED
    BY <2>8, <2>9
<1> QED
  BY <1>2, <1>5, <1>6

(* A round of the tree reads: an item joins its sum to that of its left.   *)
LEMMA ReadStep ==
  ASSUME NEW j, GoodKernel(j), NEW g \in Nat, NEW r, NEW q, NEW l \in Items(j), UnitInv(j, g, r), Arrives(r, q, l),
         r.s = "tree_read", ReadEffect(j, g, r, q, l)
  PROVE  UnitInv(j, g, q)
<1>1. UnitShape(j, g, r) /\ ReadInv(j, g, r) /\ Interval(j, g, r)
  BY DEF UnitInv
<1>2. q.s = "tree_read" /\ q.b = r.b /\ q.A = r.A \cup {l} /\ l \notin r.A /\ q.o = r.o
  BY DEF Arrives
<1>3. Valued(j, g, q, l, 2 * r.o) /\ Subtree(j, g, q, l, 2 * r.o)
  BY <1>2, ReadItem
<1>4. q.d = r.d /\ q.t = r.t /\ q.f = r.f /\ \A i \in Items(j) : q.v[i].k_group = r.v[i].k_group /\ (i # l => q.v[i] = r.v[i])
  BY DEF ReadEffect
<1>5. ASSUME NEW i \in Items(j) PROVE Summed(j, g, q, i) /\ Padded(j, g, q, i, q.o)
  <2>1. Summed(j, g, r, i) /\ Padded(j, g, r, i, r.o)
    BY <1>1 DEF ReadInv
  <2>2. Padded(j, g, q, i, q.o)
    BY <1>2, <1>4, <2>1 DEF Padded
  <2>3. \A x : Cells(j, g, r, i, x) => Cells(j, g, q, i, x)
    BY <1>2, <1>4 DEF Cells, CellIs
  <2>4. Summed(j, g, q, i)
    BY <1>2, <1>4, <2>1, <2>3 DEF Summed, KGroup
  <2> QED
    BY <2>2, <2>4
<1>6. ASSUME NEW i \in Items(j), i # l
      PROVE  IF i \in q.A THEN Valued(j, g, q, i, 2 * q.o) /\ Subtree(j, g, q, i, 2 * q.o) ELSE Valued(j, g, q, i, q.o)
  <2>1. i \in q.A <=> i \in r.A
    BY <1>2, <1>6
  <2>2. IF i \in r.A THEN Valued(j, g, r, i, 2 * r.o) /\ Subtree(j, g, r, i, 2 * r.o) ELSE Valued(j, g, r, i, r.o)
    BY <1>1 DEF ReadInv
  <2>3. ItemSame(j, r, q, i)
    BY <1>2, <1>4, <1>6 DEF ItemSame
  <2> QED
    BY <1>2, <2>1, <2>2, <2>3, ItemKept
<1>7. ReadInv(j, g, q)
  BY <1>2, <1>3, <1>5, <1>6 DEF ReadInv
<1>8. UnitShape(j, g, q)
  BY <1>1, <1>4, ShapeStays
<1>9. Interval(j, g, q)
  <2>1. q.v[0].interval = r.v[0].interval
    BY UnitEnds DEF ReadEffect, GoodKernel, Items
  <2> QED
    BY <1>1, <2>1, IntervalStays
<1> QED
  BY <1>2, <1>7, <1>8, <1>9 DEF UnitInv

(* Item l publishes its sum.                                               *)
WriteEffect(j, g, r, q, l) ==
  /\ q.f = r.f /\ q.v = r.v
  /\ \A i \in Items(j), k \in 0 .. j.k : i # l \/ k # j.k => q.d[<<k, i>>] = r.d[<<k, i>>]
  /\ \A i \in Items(j) : i # l => q.t[i] = r.t[i]
  /\ q.d[<<j.k, l>>] = r.v[l].val /\ q.t[l] = r.v[l].subtree

(* And writes: what the items hold goes into the padding.                  *)
LEMMA WriteStep ==
  ASSUME NEW j, GoodKernel(j), NEW g \in Nat, NEW r, NEW q, NEW l \in Items(j), UnitInv(j, g, r), Arrives(r, q, l),
         r.s = "tree_write", WriteEffect(j, g, r, q, l)
  PROVE  UnitInv(j, g, q)
<1>1. UnitShape(j, g, r) /\ WriteInv(j, g, r) /\ Interval(j, g, r)
  BY DEF UnitInv
<1>2. q.s = "tree_write" /\ q.b = r.b /\ q.A = r.A \cup {l} /\ l \notin r.A /\ q.o = r.o /\ q.v = r.v /\ q.f = r.f
  BY DEF Arrives, WriteEffect
<1>3. j.k \in 0 .. j.k /\ \A k \in Rows(j) : k \in 0 .. j.k /\ k # j.k
  BY DEF GoodKernel, Rows
<1>4. \A i \in Items(j), k \in Rows(j) : q.d[<<k, i>>] = r.d[<<k, i>>]
  <2>1. ASSUME NEW i \in Items(j), NEW k \in Rows(j) PROVE q.d[<<k, i>>] = r.d[<<k, i>>]
    <3>1. k \in 0 .. j.k /\ k # j.k
      BY <1>3
    <3> QED
      BY <3>1, Zenon DEF WriteEffect
  <2> QED
    BY <2>1, Zenon
<1>5. ASSUME NEW i \in Items(j)
      PROVE  Summed(j, g, q, i) /\ Valued(j, g, q, i, 2 * q.o) /\ Subtree(j, g, q, i, 2 * q.o)
  <2>1. Summed(j, g, r, i) /\ Valued(j, g, r, i, 2 * r.o) /\ Subtree(j, g, r, i, 2 * r.o)
    BY <1>1 DEF WriteInv
  <2>2. \A x : Cells(j, g, r, i, x) => Cells(j, g, q, i, x)
    BY <1>2, <1>4 DEF Cells, CellIs
  <2>3. Summed(j, g, q, i)
    BY <1>2, <2>1, <2>2 DEF Summed, KGroup
  <2> QED
    BY <1>2, <2>1, <2>3 DEF Valued, Subtree
<1>6. ASSUME NEW i \in Items(j), i \in q.A PROVE Padded(j, g, q, i, 2 * q.o)
  <2>1. CASE i = l
    <3>1. Valued(j, g, r, l, 2 * r.o) /\ Subtree(j, g, r, l, 2 * r.o)
      BY <1>1 DEF WriteInv
    <3>2. q.d[<<j.k, l>>] = r.v[l].val /\ q.t[l] = r.v[l].subtree
      BY DEF WriteEffect
    <3> QED
      BY <1>2, <2>1, <3>1, <3>2 DEF Padded, Valued, Subtree
  <2>2. CASE i # l
    <3>1. Padded(j, g, r, i, 2 * r.o)
      BY <1>1, <1>2, <1>6, <2>2 DEF WriteInv
    <3>2. q.d[<<j.k, i>>] = r.d[<<j.k, i>>] /\ q.t[i] = r.t[i]
      BY <1>3, <2>2 DEF WriteEffect
    <3> QED
      BY <1>2, <3>1, <3>2 DEF Padded
  <2> QED
    BY <2>1, <2>2
<1>7. WriteInv(j, g, q)
  BY <1>5, <1>6 DEF WriteInv
<1>8. UnitShape(j, g, q)
  BY <1>1, <1>2, ShapeStays
<1>9. Interval(j, g, q)
  BY <1>1, <1>2, IntervalStays
<1> QED
  BY <1>2, <1>7, <1>8, <1>9 DEF UnitInv

(* Item l adds the sum of everything to its left; item 0 notes the first   *)
(* segment start of the unit.                                              *)
UpdateEffect(j, g, r, q, l) ==
  /\ q.f = r.f /\ q.t = r.t
  /\ \A i \in Items(j), k \in 0 .. j.k : i # l \/ k = j.k \/ l = 0 => q.d[<<k, i>>] = r.d[<<k, i>>]
  /\ l # 0 =>
       \A k \in Rows(j) :
         q.d[<<k, l>>] = IF Elem(j, r.b, k, l) < End(j, g)
                           THEN SCAN_EXPR(r.d[<<j.k, l - 1>>], r.d[<<k, l>>], j.seg /\ Elem(j, r.b, k, l) >= r.v[l].k_group)
                           ELSE r.d[<<k, l>>]
  /\ \A i \in Items(j) : q.v[i].k_group = r.v[i].k_group /\ (i # 0 => q.v[i] = r.v[i])
  /\ l # 0 => q.v = r.v
  /\ q.v[0].interval = IF l = 0 THEN Least(r.v[0].interval, r.t[j.wg - 1]) ELSE r.v[0].interval

(* The sum of the rows to the left, and of those up to row k.              *)
LEMMA UpdateItem ==
  ASSUME NEW j, GoodKernel(j), NEW g \in Nat, NEW r, NEW l \in Items(j), l # 0, UnitShape(j, g, r),
         r.s = "update_local", Padded(j, g, r, l - 1, r.o), Summed(j, g, r, l), NEW k \in Rows(j),
         Elem(j, r.b, k, l) < Limit(j, g)
  PROVE  SCAN_EXPR(r.d[<<j.k, l - 1>>], r.d[<<k, l>>], j.seg /\ Elem(j, r.b, k, l) >= r.v[l].k_group)
           = j.W[<<Begin(j, g), Elem(j, r.b, k, l)>>]
<1> DEFINE a == Begin(j, g)
           b == r.b
           m == Limit(j, g)
           e == Elem(j, b, k, l)
           first == Elem(j, b, 0, l)
           p == LastElem(j, b, l - 1)
           across == j.seg /\ e >= r.v[l].k_group
<1>1. /\ b \in Nat /\ a \in Nat /\ a <= b /\ l \in Nat /\ m \in Nat /\ m <= j.n /\ j.n \in Nat /\ r.o \in Nat \ {0}
      /\ j.wg \in Nat \ {0} /\ NO_SEG_BOUNDARY \in Nat /\ j.n <= NO_SEG_BOUNDARY
  BY UnitNumbers, KernelNumbers
<1>2. l - 1 \in Nat /\ l - 1 < r.o
  <2>1. l <= j.wg - 1 /\ j.wg < r.o
    BY DEF Items, UnitShape
  <2> QED
    BY <1>1, <2>1
<1>3. e \in Nat /\ first \in Nat /\ first <= e /\ e <= LastElem(j, b, l)
  <2>1. 0 \in Rows(j)
    BY DEF GoodKernel, Rows
  <2>2. \A i \in Rows(j) : Elem(j, b, i, l) \in Nat /\ first <= Elem(j, b, i, l) /\ Elem(j, b, i, l) <= LastElem(j, b, l)
    BY <1>1, RowElems
  <2> QED
    BY <2>1, <2>2
<1>4. p \in Nat /\ b <= p /\ p + 1 = first
  <2>1. 0 \in Rows(j)
    BY DEF GoodKernel, Rows
  <2>2. p \in Nat
    BY <1>1, <1>2, <2>1, ElemIs
  <2>3. b <= Elem(j, b, 0, l - 1) /\ Elem(j, b, 0, l - 1) <= p /\ Elem(j, b, 0, l - 1) \in Nat
    BY <1>1, <1>2, <2>1, ElemIs
  <2>4. Follows(l, l - 1)
    BY <1>1 DEF Follows
  <2>5. p + 1 = first
    BY <1>1, <1>2, <2>4, NextItem
  <2> QED
    BY <1>1, <2>2, <2>3, <2>5
<1>5. r.d[<<j.k, l - 1>>] = j.W[<<a, p>>]
  <2>1. Behind(j, a, b, l - 1, r.o) = a
    BY <1>2 DEF Behind
  <2>2. p < m
    BY <1>1, <1>3, <1>4
  <2> QED
    BY <2>1, <2>2 DEF Padded
<1>6. r.d[<<k, l>>] = j.W[<<first, e>>]
  <2>1. Behind(j, a, b, l, 1) = first
    BY <1>1, BehindOne
  <2>2. CellIs(j, g, r, k, l, Behind(j, a, b, l, 1))
    BY DEF Summed, Cells
  <2> QED
    BY <2>1, <2>2 DEF CellIs
<1>7. across <=> \E i \in first .. e : i \in j.H
  <2>1. Finds(j, g, r.v[l].k_group, first, LastElem(j, b, l))
    BY DEF Summed, KGroup
  <2>2. LastElem(j, b, l) \in Nat /\ e \in first .. LastElem(j, b, l)
    <3>1. LastElem(j, b, l) \in Nat
      BY <1>1, ElemIs
    <3> QED
      BY <1>3, <3>1
  <2>3. r.v[l].k_group <= e <=> \E i \in first .. e : i \in j.H
    BY <2>1, <2>2 DEF Finds
  <2>4. r.v[l].k_group \in Nat
    BY <1>1, <1>3, <2>1, <2>2 DEF Finds
  <2>5. ~j.seg => r.v[l].k_group = NO_SEG_BOUNDARY
    BY DEF UnitShape
  <2> QED
    BY <1>1, <1>3, <2>3, <2>4, <2>5
<1> HIDE DEF a, b, m, e, first, p, across
<1>8. \A ac : (ac <=> \E i \in p + 1 .. e : i \in j.H) => SCAN_EXPR(j.W[<<a, p>>], j.W[<<p + 1, e>>], ac) = j.W[<<a, e>>]
  <2>1. a <= p /\ p < e /\ e < j.n
    BY <1>1, <1>3, <1>4 DEF e, m, b
  <2> QED
    BY <1>1, <1>3, <1>4, <2>1, SumsUp
<1>9. SCAN_EXPR(j.W[<<a, p>>], j.W[<<first, e>>], across) = j.W[<<a, e>>]
  BY <1>4, <1>7, <1>8
<1> QED
  BY <1>5, <1>6, <1>9 DEF a, b, e, across, first

(* Every item adds the sum to its left, up to its first segment start.     *)
LEMMA UpdateStep ==
  ASSUME NEW j, GoodKernel(j), NEW g \in Nat, NEW r, NEW q, NEW l \in Items(j), UnitInv(j, g, r), Arrives(r, q, l),
         r.s = "update_local", UpdateEffect(j, g, r, q, l)
  PROVE  UnitInv(j, g, q)
<1> DEFINE a == Begin(j, g)
           b == r.b
           m == Limit(j, g)
<1>1. UnitShape(j, g, r) /\ UpdateInv(j, g, r) /\ Interval(j, g, r)
  BY DEF UnitInv
<1>2. q.s = "update_local" /\ q.b = b /\ q.A = r.A \cup {l} /\ l \notin r.A /\ q.o = r.o
  BY DEF Arrives
<1>3. /\ b \in Nat /\ a \in Nat /\ a <= b /\ l \in Nat /\ m \in Nat /\ End(j, g) \in Nat /\ m <= End(j, g)
      /\ r.o \in Nat \ {0} /\ j.wg \in Nat \ {0} /\ j.k \in Nat \ {0}
  BY <1>1, UnitNumbers, KernelNumbers
<1>4. j.k \in 0 .. j.k /\ \A k \in Rows(j) : k \in 0 .. j.k
  BY <1>3 DEF Rows
<1>5. \A i \in Items(j) : Padded(j, g, q, i, q.o)
  <2>1. ASSUME NEW i \in Items(j) PROVE Padded(j, g, q, i, q.o)
    <3>1. Padded(j, g, r, i, r.o)
      BY <1>1 DEF UpdateInv
    <3>2. q.d[<<j.k, i>>] = r.d[<<j.k, i>>] /\ q.t = r.t
      BY <1>4 DEF UpdateEffect
    <3> QED
      BY <1>2, <3>1, <3>2 DEF Padded
  <2> QED
    BY <2>1
<1>6. Summed(j, g, r, l)
  BY <1>1, <1>2 DEF UpdateInv
<1>7. Cells(j, g, q, l, a)
  <2>1. CASE l = 0
    <3>1. Behind(j, a, b, l, 1) = a
      BY <2>1 DEF Behind
    <3>2. Cells(j, g, r, l, a)
      BY <1>6, <3>1 DEF Summed
    <3>3. \A k \in Rows(j) : q.d[<<k, l>>] = r.d[<<k, l>>]
      BY <1>4, <2>1 DEF UpdateEffect
    <3> QED
      BY <1>2, <3>2, <3>3 DEF Cells, CellIs
  <2>2. CASE l # 0
    <3>1. l - 1 \in Items(j)
      BY <1>3, <2>2 DEF Items
    <3>2. Padded(j, g, r, l - 1, r.o)
      BY <1>1, <3>1 DEF UpdateInv
    <3>3. ASSUME NEW k \in Rows(j), Elem(j, b, k, l) < m PROVE q.d[<<k, l>>] = j.W[<<a, Elem(j, b, k, l)>>]
      <4>1. SCAN_EXPR(r.d[<<j.k, l - 1>>], r.d[<<k, l>>], j.seg /\ Elem(j, r.b, k, l) >= r.v[l].k_group)
              = j.W[<<a, Elem(j, b, k, l)>>]
        BY <1>1, <1>6, <2>2, <3>2, <3>3, UpdateItem
      <4>2. Elem(j, b, k, l) < End(j, g)
        <5>1. Elem(j, b, k, l) \in Nat
          BY <1>3, RowElems
        <5> QED
          BY <1>3, <3>3, <5>1
      <4> QED
        BY <2>2, <4>1, <4>2 DEF UpdateEffect
    <3> QED
      BY <1>2, <3>3 DEF Cells, CellIs
  <2> QED
    BY <2>1, <2>2
<1>8. ASSUME NEW i \in Items(j), i # l
      PROVE  IF i \in q.A THEN Cells(j, g, q, i, a) ELSE Summed(j, g, q, i)
  <2>1. i \in q.A <=> i \in r.A
    BY <1>2, <1>8
  <2>2. IF i \in r.A THEN Cells(j, g, r, i, a) ELSE Summed(j, g, r, i)
    BY <1>1 DEF UpdateInv
  <2>3. \A k \in Rows(j) : q.d[<<k, i>>] = r.d[<<k, i>>]
    BY <1>4, <1>8 DEF UpdateEffect
  <2>4. \A x : Cells(j, g, r, i, x) => Cells(j, g, q, i, x)
    BY <1>2, <2>3 DEF Cells, CellIs
  <2>5. q.v[i].k_group = r.v[i].k_group
    BY DEF UpdateEffect
  <2>6. Summed(j, g, r, i) => Summed(j, g, q, i)
    BY <1>2, <2>4, <2>5 DEF Summed, KGroup
  <2> QED
    BY <2>1, <2>2, <2>4, <2>6
<1>9. UpdateInv(j, g, q)
  <2>1. l \in q.A
    BY <1>2
  <2>2. \A i \in Items(j) : IF i \in q.A THEN Cells(j, g, q, i, a) ELSE Summed(j, g, q, i)
    BY <1>7, <1>8, <2>1
  <2> QED
    BY <1>5, <2>2 DEF UpdateInv
<1>10. UnitShape(j, g, q)
  <2>1. \A i \in Items(j) : q.v[i].k_group = r.v[i].k_group
    BY DEF UpdateEffect
  <2> QED
    BY <1>1, <2>1, ShapeStays
<1>11. Interval(j, g, q)
  <2>1. CASE l = 0
    <3>1. Finds(j, g, r.v[0].interval, a, b - 1)
      BY <1>1, <1>2, <2>1 DEF Interval
    <3>2. j.wg - 1 \in Items(j) /\ LastElem(j, b, j.wg - 1) = b + Unit(j) - 1
      BY <1>3, UnitEnds
    <3>3. Finds(j, g, r.t[j.wg - 1], Behind(j, b, b, j.wg - 1, r.o), b + Unit(j) - 1)
      BY <1>1, <3>2 DEF UpdateInv, Padded
    <3>4. Behind(j, b, b, j.wg - 1, r.o) = b
      <4>1. j.wg < r.o
        BY <1>1 DEF UnitShape
      <4>2. j.wg - 1 < r.o
        BY <1>3, <4>1
      <4> QED
        BY <4>2 DEF Behind
    <3>5. Unit(j) \in Nat \ {0}
      BY KernelNumbers
    <3> DEFINE hi == b + Unit(j) - 1
    <3>6. hi \in Nat /\ b <= hi + 1
      BY <1>3, <3>5
    <3> HIDE DEF hi, a, b
    <3>7. Finds(j, g, r.t[j.wg - 1], b, hi)
      BY <3>3, <3>4 DEF hi, b
    <3>8. \A x, y : Finds(j, g, x, a, b - 1) /\ Finds(j, g, y, b, hi) => Finds(j, g, Least(x, y), a, hi)
      BY <1>3, <3>6, FindsJoin
    <3>9. Finds(j, g, Least(r.v[0].interval, r.t[j.wg - 1]), a, hi)
      BY <3>1, <3>7, <3>8
    <3>10. q.v[0].interval = Least(r.v[0].interval, r.t[j.wg - 1])
      BY <2>1 DEF UpdateEffect
    <3>11. 0 \in q.A
      BY <1>2, <2>1
    <3> QED
      BY <1>2, <3>9, <3>10, <3>11 DEF Interval, a, hi, b
  <2>2. CASE l # 0
    <3>1. q.v[0].interval = r.v[0].interval
      BY <2>2 DEF UpdateEffect
    <3>2. 0 \in q.A <=> 0 \in r.A
      BY <1>2, <2>2
    <3> QED
      BY <1>1, <1>2, <3>1, <3>2 DEF Interval
  <2> QED
    BY <2>1, <2>2
<1> QED
  BY <1>2, <1>9, <1>10, <1>11 DEF UnitInv

(* Item l loads every j.wg-th element of the unit, and carries in if it is *)
(* the first and there are no segments.                                    *)
IsMine(j, k, i, l) == (j.k * i + k) % j.wg = l
LoadEffect(j, g, r, q, l) ==
  /\ q.t = r.t /\ q.v = r.v
  /\ \A i \in Items(j) : q.d[<<j.k, i>>] = r.d[<<j.k, i>>]
  /\ \A i \in Items(j), k \in Rows(j) :
       IF IsMine(j, k, i, l)
       THEN Elem(j, r.b, k, i) < Limit(j, g) =>
              /\ j.seg /\ q.f[<<k, i>>] <=> Elem(j, r.b, k, i) \in j.H
              /\ q.d[<<k, i>>] =
                   IF k = 0 /\ i = 0 /\ ~j.seg /\ r.b # Begin(j, g)
                     THEN SCAN_EXPR(r.d[<<j.k, j.wg - 1>>], j.W[<<Elem(j, r.b, k, i), Elem(j, r.b, k, i)>>], FALSE)
                     ELSE j.W[<<Elem(j, r.b, k, i), Elem(j, r.b, k, i)>>]
       ELSE q.d[<<k, i>>] = r.d[<<k, i>>] /\ q.f[<<k, i>>] = r.f[<<k, i>>]

LEMMA LoadItem ==
  ASSUME NEW j, GoodKernel(j), NEW g \in Nat, NEW r, NEW q, NEW l \in Items(j), UnitShape(j, g, r), Carried(j, g, r),
         q.b = r.b, LoadEffect(j, g, r, q, l), NEW i \in Items(j), NEW k \in Rows(j), IsMine(j, k, i, l)
  PROVE  /\ CellIs(j, g, q, k, i, IF k = 0 /\ i = 0 /\ ~j.seg THEN Begin(j, g) ELSE Elem(j, r.b, k, i))
         /\ FlagIs(j, g, q, k, i)
<1> DEFINE a == Begin(j, g)
           b == r.b
           m == Limit(j, g)
           e == Elem(j, b, k, i)
           x == IF k = 0 /\ i = 0 /\ ~j.seg THEN a ELSE e
<1>1. b \in Nat /\ a \in Nat /\ a <= b /\ i \in Nat /\ m \in Nat /\ m <= j.n /\ j.n \in Nat
  BY UnitNumbers, KernelNumbers
<1>2. SUFFICES ASSUME e < m PROVE q.d[<<k, i>>] = j.W[<<x, e>>] /\ (j.seg /\ q.f[<<k, i>>] <=> e \in j.H)
  BY DEF CellIs, FlagIs
<1>3. /\ j.seg /\ q.f[<<k, i>>] <=> e \in j.H
      /\ q.d[<<k, i>>] = IF k = 0 /\ i = 0 /\ ~j.seg /\ b # a
                           THEN SCAN_EXPR(r.d[<<j.k, j.wg - 1>>], j.W[<<e, e>>], FALSE) ELSE j.W[<<e, e>>]
  BY <1>2, Zenon DEF LoadEffect
<1>4. CASE ~(k = 0 /\ i = 0 /\ ~j.seg)
  BY <1>3, <1>4
<1>5. CASE k = 0 /\ i = 0 /\ ~j.seg
  <2>1. e = b /\ x = a
    <3>1. 0 \in Rows(j)
      BY <1>5
    <3>2. Elem(j, b, 0, 0) = b
      BY <1>1, <3>1, ElemIs
    <3> QED
      BY <1>5, <3>2
  <2>2. CASE b = a
    BY <1>3, <2>1, <2>2
  <2>3. CASE b # a
    <3>1. r.d[<<j.k, j.wg - 1>>] = j.W[<<a, b - 1>>]
      BY <1>1, <1>2, <2>1, <2>3 DEF Carried
    <3>2. q.d[<<k, i>>] = SCAN_EXPR(j.W[<<a, b - 1>>], j.W[<<b, b>>], FALSE)
      BY <1>3, <1>5, <2>1, <2>3, <3>1
    <3>3. b \notin j.H
      BY <1>3, <1>5, <2>1
    <3>4. b - 1 \in Nat /\ a <= b - 1 /\ b - 1 < b /\ b < j.n /\ (b - 1) + 1 = b
      BY <1>1, <1>2, <2>1, <2>3
    <3> HIDE DEF a, b
    <3>5. ~ \E p \in (b - 1) + 1 .. b : p \in j.H
      <4>1. \A p \in b .. b : p = b
        BY <1>1
      <4> QED
        BY <3>3, <3>4, <4>1
    <3>6. \A ac : (ac <=> \E p \in (b - 1) + 1 .. b : p \in j.H)
                    => SCAN_EXPR(j.W[<<a, b - 1>>], j.W[<<(b - 1) + 1, b>>], ac) = j.W[<<a, b>>]
      BY <1>1, <3>4, SumsUp
    <3>7. SCAN_EXPR(j.W[<<a, b - 1>>], j.W[<<(b - 1) + 1, b>>], FALSE) = j.W[<<a, b>>]
      BY <3>5, <3>6
    <3> QED
      BY <1>3, <2>1, <3>2, <3>4, <3>7
  <2> QED
    BY <2>2, <2>3
<1> QED
  BY <1>4, <1>5

(* An element that is read is in the cell of its row and item.             *)
LEMMA LoadStep ==
  ASSUME NEW j, GoodKernel(j), NEW g \in Nat, NEW r, NEW q, NEW l \in Items(j), UnitInv(j, g, r), Arrives(r, q, l),
         r.s = "load", LoadEffect(j, g, r, q, l)
  PROVE  UnitInv(j, g, q)
<1> DEFINE a == Begin(j, g)
           b == r.b
<1>1. UnitShape(j, g, r) /\ LoadInv(j, g, r) /\ Interval(j, g, r) /\ Carried(j, g, r)
  BY DEF UnitInv
<1>2. q.s = "load" /\ q.b = b /\ q.A = r.A \cup {l} /\ l \notin r.A /\ q.o = r.o /\ q.v = r.v
  BY DEF Arrives, LoadEffect
<1>3. ASSUME NEW i \in Items(j), NEW k \in Rows(j), (j.k * i + k) % j.wg \in q.A
      PROVE  /\ CellIs(j, g, q, k, i, IF k = 0 /\ i = 0 /\ ~j.seg THEN a ELSE Elem(j, q.b, k, i))
             /\ FlagIs(j, g, q, k, i)
  <2>1. CASE IsMine(j, k, i, l)
    BY <1>1, <1>2, <2>1, LoadItem
  <2>2. CASE ~IsMine(j, k, i, l)
    <3>1. (j.k * i + k) % j.wg \in r.A
      BY <1>2, <1>3, <2>2 DEF IsMine
    <3>2. /\ CellIs(j, g, r, k, i, IF k = 0 /\ i = 0 /\ ~j.seg THEN a ELSE Elem(j, b, k, i))
          /\ FlagIs(j, g, r, k, i)
      BY <1>1, <3>1 DEF LoadInv
    <3>3. q.d[<<k, i>>] = r.d[<<k, i>>] /\ q.f[<<k, i>>] = r.f[<<k, i>>]
      BY <2>2 DEF LoadEffect
    <3> QED
      BY <1>2, <3>2, <3>3 DEF CellIs, FlagIs
  <2> QED
    BY <2>1, <2>2
<1>4. LoadInv(j, g, q)
  BY <1>3 DEF LoadInv
<1>5. UnitShape(j, g, q)
  BY <1>1, <1>2, ShapeStays
<1>6. Interval(j, g, q)
  BY <1>1, <1>2, IntervalStays
<1>7. Carried(j, g, q)
  <2>1. j.wg - 1 \in Items(j)
    BY <1>1, UnitNumbers, UnitEnds
  <2>2. q.d[<<j.k, j.wg - 1>>] = r.d[<<j.k, j.wg - 1>>]
    BY <2>1 DEF LoadEffect
  <2> QED
    BY <1>1, <1>2, <2>2 DEF Carried
<1> QED
  BY <1>2, <1>4, <1>5, <1>6, <1>7 DEF UnitInv

-----------------------------------------------------------------------------
(* A barrier: the group goes on, and local memory stays as it is.          *)
GoesOn(j, r, q, s, o, b) ==
  /\ r.A = Items(j) /\ q.A = {} /\ q.s = s /\ q.o = o /\ q.b = b
  /\ q.d = r.d /\ q.f = r.f /\ q.t = r.t /\ q.v = r.v

(* The barriers: all items have arrived, and the group goes on.            *)
LEMMA ShapeGoesOn ==
  ASSUME NEW j, GoodKernel(j), NEW g \in Nat, NEW r, NEW q, UnitShape(j, g, r), NEW s \in Stages, NEW o \in Nat \ {0},
         GoesOn(j, r, q, s, o, r.b), r.s \notin {"interval_sum", "end"}, s \notin {"interval_sum", "end"},
         s \in {"carry", "along_k"} => o = 1, s \in {"update_local", "write"} => j.wg < o, s = "carry" => j.seg
  PROVE  UnitShape(j, g, q)
<1>1. q.A \subseteq Items(j) /\ q.s = s /\ q.o = o /\ q.b = r.b
  BY DEF GoesOn
<1>2. /\ (\E u \in Nat : q.b = Begin(j, g) + Unit(j) * u) /\ q.b <= Begin(j, g) + j.size /\ q.b < End(j, g)
  BY <1>1, Zenon DEF UnitShape
<1>3. /\ DOMAIN q.d = (0 .. j.k) \X Items(j) /\ DOMAIN q.f = Rows(j) \X Items(j)
      /\ DOMAIN q.t = Items(j) /\ DOMAIN q.v = Items(j)
      /\ (\A l \in Items(j) : DOMAIN q.v[l] = {"sum", "val", "k_group", "subtree", "interval"})
      /\ (~j.seg => \A l \in Items(j) : q.v[l].k_group = NO_SEG_BOUNDARY)
  BY DEF UnitShape, GoesOn
<1> QED
  BY <1>1, <1>2, <1>3 DEF UnitShape

LEMMA IntervalGoesOn ==
  ASSUME NEW j, GoodKernel(j), NEW g \in Nat, NEW r, NEW q, Interval(j, g, r), NEW s, NEW o, GoesOn(j, r, q, s, o, r.b),
         r.s # "write", r.s = "update_local" <=> s = "write"
  PROVE  Interval(j, g, q)
<1>1. q.s = s /\ q.b = r.b /\ q.v = r.v /\ q.A = {} /\ r.A = Items(j) /\ 0 \in Items(j)
  BY DEF GoesOn, GoodKernel, Items
<1>2. CASE r.s = "update_local"
  BY <1>1, <1>2 DEF Interval
<1>3. CASE r.s # "update_local"
  BY <1>1, <1>3 DEF Interval
<1> QED
  BY <1>2, <1>3

LEMMA FetchBarrier ==
  ASSUME NEW j, GoodKernel(j), NEW g \in Nat, NEW r, NEW q, UnitInv(j, g, r), r.s = "fetch", GoesOn(j, r, q, "load", r.o, r.b)
  PROVE  UnitInv(j, g, q)
<1>1. UnitShape(j, g, q) /\ Interval(j, g, q)
  <2>1. UnitShape(j, g, r) /\ Interval(j, g, r) /\ r.o \in Nat \ {0}
    BY DEF UnitInv, UnitShape
  <2>2. UnitShape(j, g, q)
    BY <2>1, ShapeGoesOn DEF Stages
  <2>3. Interval(j, g, q)
    BY <2>1, IntervalGoesOn
  <2> QED
    BY <2>2, <2>3
<1>2. q.s = "load" /\ q.A = {} /\ q.b = r.b /\ q.d = r.d
  BY DEF GoesOn
<1>3. Carried(j, g, q)
  BY <1>2 DEF UnitInv, Carried
<1>4. LoadInv(j, g, q)
  BY <1>2 DEF LoadInv
<1> QED
  BY <1>1, <1>2, <1>3, <1>4 DEF UnitInv

(* The unit has been loaded. *)
LEMMA Loaded ==
  ASSUME NEW j, GoodKernel(j), NEW g \in Nat, NEW r, NEW q, UnitInv(j, g, r), r.s = "load", NEW s, NEW o,
         GoesOn(j, r, q, s, o, r.b)
  PROVE  \A l \in Items(j), k \in Rows(j) :
           /\ CellIs(j, g, q, k, l, IF k = 0 /\ l = 0 /\ ~j.seg THEN Begin(j, g) ELSE Elem(j, r.b, k, l))
           /\ FlagIs(j, g, q, k, l)
<1>1. q.b = r.b /\ q.d = r.d /\ q.f = r.f /\ r.A = Items(j)
  BY DEF GoesOn
<1>2. LoadInv(j, g, r)
  BY DEF UnitInv
<1>3. ASSUME NEW l \in Items(j), NEW k \in Rows(j) PROVE (j.k * l + k) % j.wg \in r.A
  <2>1. l \in Nat /\ j.k \in Nat /\ k \in Nat /\ j.wg \in Nat \ {0}
    BY DEF GoodKernel, Items, Rows
  <2>2. \A x, y, z \in Nat : x * y + z \in Nat
    OBVIOUS
  <2>3. j.k * l + k \in Nat
    BY <2>1, <2>2
  <2>4. \A x \in Nat : x % j.wg \in 0 .. j.wg - 1
    BY <2>1
  <2> QED
    BY <1>1, <2>3, <2>4 DEF Items
<1>4. ASSUME NEW l \in Items(j), NEW k \in Rows(j)
      PROVE  /\ CellIs(j, g, r, k, l, IF k = 0 /\ l = 0 /\ ~j.seg THEN Begin(j, g) ELSE Elem(j, r.b, k, l))
             /\ FlagIs(j, g, r, k, l)
  BY <1>2, <1>3, Zenon DEF LoadInv
<1>5. \A k, l, x : CellIs(j, g, r, k, l, x) => CellIs(j, g, q, k, l, x)
  BY <1>1, Zenon DEF CellIs
<1>6. \A k, l : FlagIs(j, g, r, k, l) => FlagIs(j, g, q, k, l)
  BY <1>1, Zenon DEF FlagIs
<1> QED
  BY <1>4, <1>5, <1>6, Zenon

LEMMA LoadBarrierSegmented ==
  ASSUME NEW j, GoodKernel(j), NEW g \in Nat, NEW r, NEW q, UnitInv(j, g, r), r.s = "load", j.seg,
         GoesOn(j, r, q, "carry", 1, r.b)
  PROVE  UnitInv(j, g, q)
<1>1. UnitShape(j, g, q) /\ Interval(j, g, q)
  <2>1. UnitShape(j, g, r) /\ Interval(j, g, r)
    BY DEF UnitInv
  <2>2. UnitShape(j, g, q)
    BY <2>1, ShapeGoesOn DEF Stages
  <2>3. Interval(j, g, q)
    BY <2>1, IntervalGoesOn
  <2> QED
    BY <2>2, <2>3
<1>2. q.s = "carry" /\ q.A = {} /\ q.b = r.b /\ q.d = r.d
  BY DEF GoesOn
<1>3. Carried(j, g, q)
  BY <1>2 DEF UnitInv, Carried
<1>4. \A l \in Items(j), k \in Rows(j) : CellIs(j, g, q, k, l, Elem(j, r.b, k, l)) /\ FlagIs(j, g, q, k, l)
  BY Loaded, Zenon
<1>5. CarryInv(j, g, q)
  <2>1. ASSUME NEW l \in Items(j) PROVE Raw(j, g, q, l, Elem(j, q.b, 0, l))
    BY <1>2, <1>4, Zenon DEF Raw
  <2> QED
    BY <1>2, <2>1 DEF CarryInv
<1> QED
  BY <1>1, <1>2, <1>3, <1>5 DEF UnitInv

LEMMA LoadBarrierPlain ==
  ASSUME NEW j, GoodKernel(j), NEW g \in Nat, NEW r, NEW q, UnitInv(j, g, r), r.s = "load", ~j.seg,
         GoesOn(j, r, q, "along_k", 1, r.b)
  PROVE  UnitInv(j, g, q)
<1>1. UnitShape(j, g, q) /\ Interval(j, g, q)
  <2>1. UnitShape(j, g, r) /\ Interval(j, g, r)
    BY DEF UnitInv
  <2>2. UnitShape(j, g, q)
    BY <2>1, ShapeGoesOn DEF Stages
  <2>3. Interval(j, g, q)
    BY <2>1, IntervalGoesOn
  <2> QED
    BY <2>2, <2>3
<1>2. q.s = "along_k" /\ q.A = {} /\ q.b = r.b /\ q.d = r.d /\ q.v = r.v
  BY DEF GoesOn
<1>3. \A l \in Items(j), k \in Rows(j) :
        /\ CellIs(j, g, q, k, l, IF k = 0 /\ l = 0 THEN Begin(j, g) ELSE Elem(j, r.b, k, l))
        /\ FlagIs(j, g, q, k, l)
  BY Loaded, Zenon
<1>4. r.b \in Nat /\ \A l \in Items(j) : l \in Nat
  BY UnitNumbers DEF UnitInv
<1>5. 0 \in Rows(j)
  BY DEF GoodKernel, Rows
<1>6. ASSUME NEW l \in Items(j)
      PROVE  Raw(j, g, q, l, Behind(j, Begin(j, g), q.b, l, 1)) /\ KGroup(j, g, q, l, Elem(j, q.b, 0, l))
  <2>1. l # 0 => Behind(j, Begin(j, g), r.b, l, 1) = Elem(j, r.b, 0, l)
    BY <1>4, BehindOne
  <2>2. l = 0 => Behind(j, Begin(j, g), r.b, l, 1) = Begin(j, g)
    BY DEF Behind
  <2>3. ASSUME NEW k \in Rows(j)
        PROVE  /\ CellIs(j, g, q, k, l, IF k = 0 THEN Behind(j, Begin(j, g), r.b, l, 1) ELSE Elem(j, r.b, k, l))
               /\ FlagIs(j, g, q, k, l)
    <3>1. CASE l = 0
      BY <1>3, <2>2, <3>1
    <3>2. CASE l # 0
      BY <1>3, <2>1, <3>2
    <3> QED
      BY <3>1, <3>2
  <2>4. Raw(j, g, q, l, Behind(j, Begin(j, g), q.b, l, 1))
    BY <1>2, <2>3, Zenon DEF Raw
  <2>5. FlagIs(j, g, q, 0, l)
    BY <1>3, <1>5
  <2>6. Elem(j, r.b, 0, l) \in Nat
    BY <1>4, <1>5, ElemIs
  <2>7. Elem(j, r.b, 0, l) < Limit(j, g) => (FALSE <=> Elem(j, r.b, 0, l) \in j.H)
    BY <1>2, <2>5 DEF FlagIs
  <2>8. Finds(j, g, NO_SEG_BOUNDARY, Elem(j, r.b, 0, l), Elem(j, r.b, 0, l))
    <3> DEFINE p == Elem(j, r.b, 0, l)
    <3> HIDE DEF p
    <3>1. Finds(j, g, IF FALSE THEN p ELSE NO_SEG_BOUNDARY, p, p)
      BY <2>6, <2>7, FoundAtOnce DEF p
    <3> QED
      BY <3>1, Zenon DEF p
  <2>9. q.v[l].k_group = NO_SEG_BOUNDARY
    BY <1>1 DEF UnitShape
  <2> QED
    BY <1>2, <2>4, <2>8, <2>9 DEF KGroup
<1>7. AlongInv(j, g, q)
  BY <1>2, <1>6 DEF AlongInv
<1> QED
  BY <1>1, <1>2, <1>7 DEF UnitInv

LEMMA CarryBarrier ==
  ASSUME NEW j, GoodKernel(j), NEW g \in Nat, NEW r, NEW q, UnitInv(j, g, r), r.s = "carry", GoesOn(j, r, q, "along_k", r.o, r.b)
  PROVE  UnitInv(j, g, q)
<1>1. UnitShape(j, g, r) /\ Interval(j, g, r) /\ CarryInv(j, g, r) /\ r.o = 1
  BY DEF UnitInv, UnitShape
<1>2. UnitShape(j, g, q)
  BY <1>1, ShapeGoesOn DEF Stages
<1>3. Interval(j, g, q)
  BY <1>1, IntervalGoesOn
<1>4. q.s = "along_k" /\ q.A = {} /\ r.A = Items(j) /\ q.b = r.b /\ q.d = r.d /\ q.f = r.f /\ q.t = r.t /\ q.v = r.v
  BY DEF GoesOn
<1>5. ASSUME NEW l \in Items(j)
      PROVE  Raw(j, g, q, l, Behind(j, Begin(j, g), q.b, l, 1)) /\ KGroup(j, g, q, l, Elem(j, q.b, 0, l))
  <2>1. Raw(j, g, r, l, Behind(j, Begin(j, g), r.b, l, 1)) /\ KGroup(j, g, r, l, Elem(j, r.b, 0, l))
    BY <1>1, <1>4 DEF CarryInv
  <2>2. ItemSame(j, r, q, l)
    BY <1>4 DEF ItemSame
  <2> QED
    BY <1>4, <2>1, <2>2, ItemKept
<1>6. AlongInv(j, g, q)
  BY <1>4, <1>5 DEF AlongInv
<1> QED
  BY <1>2, <1>3, <1>4, <1>6 DEF UnitInv

LEMMA AlongBarrier ==
  ASSUME NEW j, GoodKernel(j), NEW g \in Nat, NEW r, NEW q, UnitInv(j, g, r), r.s = "along_k",
         GoesOn(j, r, q, "tree_read", r.o, r.b)
  PROVE  UnitInv(j, g, q)
<1>1. UnitShape(j, g, r) /\ Interval(j, g, r) /\ AlongInv(j, g, r) /\ r.o = 1
  BY DEF UnitInv, UnitShape
<1>2. UnitShape(j, g, q)
  BY <1>1, ShapeGoesOn DEF Stages
<1>3. Interval(j, g, q)
  BY <1>1, IntervalGoesOn
<1>4. /\ q.s = "tree_read" /\ q.A = {} /\ r.A = Items(j) /\ q.b = r.b /\ q.d = r.d /\ q.f = r.f /\ q.t = r.t /\ q.v = r.v
      /\ q.o = 1
  BY <1>1 DEF GoesOn
<1>5. ASSUME NEW l \in Items(j) PROVE Summed(j, g, q, l) /\ Padded(j, g, q, l, q.o) /\ Valued(j, g, q, l, q.o)
  <2>1. Summed(j, g, r, l) /\ Padded(j, g, r, l, 1) /\ Valued(j, g, r, l, 1)
    BY <1>1, <1>4 DEF AlongInv
  <2>2. ItemSame(j, r, q, l)
    BY <1>4 DEF ItemSame
  <2> QED
    BY <1>4, <2>1, <2>2, ItemKept
<1>6. ReadInv(j, g, q)
  BY <1>4, <1>5 DEF ReadInv
<1> QED
  BY <1>2, <1>3, <1>4, <1>6 DEF UnitInv

LEMMA ReadBarrier ==
  ASSUME NEW j, GoodKernel(j), NEW g \in Nat, NEW r, NEW q, UnitInv(j, g, r), r.s = "tree_read",
         GoesOn(j, r, q, "tree_write", r.o, r.b)
  PROVE  UnitInv(j, g, q)
<1>1. UnitShape(j, g, r) /\ Interval(j, g, r) /\ ReadInv(j, g, r) /\ r.o \in Nat \ {0}
  BY DEF UnitInv, UnitShape
<1>2. UnitShape(j, g, q)
  BY <1>1, ShapeGoesOn DEF Stages
<1>3. Interval(j, g, q)
  BY <1>1, IntervalGoesOn
<1>4. /\ q.s = "tree_write" /\ q.A = {} /\ r.A = Items(j) /\ q.b = r.b /\ q.d = r.d /\ q.f = r.f /\ q.t = r.t /\ q.v = r.v
      /\ q.o = r.o
  BY DEF GoesOn
<1>5. ASSUME NEW l \in Items(j) PROVE Summed(j, g, q, l) /\ Valued(j, g, q, l, 2 * q.o) /\ Subtree(j, g, q, l, 2 * q.o)
  <2>1. Summed(j, g, r, l) /\ Valued(j, g, r, l, 2 * r.o) /\ Subtree(j, g, r, l, 2 * r.o)
    BY <1>1, <1>4 DEF ReadInv
  <2>2. ItemSame(j, r, q, l)
    BY <1>4 DEF ItemSame
  <2> QED
    BY <1>4, <2>1, <2>2, ItemKept
<1>6. WriteInv(j, g, q)
  BY <1>4, <1>5 DEF WriteInv
<1> QED
  BY <1>2, <1>3, <1>4, <1>6 DEF UnitInv

LEMMA WriteBarrier ==
  ASSUME NEW j, GoodKernel(j), NEW g \in Nat, NEW r, NEW q, UnitInv(j, g, r), r.s = "tree_write", NEW s,
         s = IF 2 * r.o <= j.wg THEN "tree_read" ELSE "update_local", GoesOn(j, r, q, s, 2 * r.o, r.b)
  PROVE  UnitInv(j, g, q)
<1>1. UnitShape(j, g, r) /\ Interval(j, g, r) /\ WriteInv(j, g, r) /\ r.o \in Nat \ {0}
  BY DEF UnitInv, UnitShape
<1>2. 2 * r.o \in Nat \ {0} /\ s \in Stages /\ s \in {"tree_read", "update_local"} /\ (s = "update_local" => j.wg < 2 * r.o)
  <2>1. j.wg \in Nat
    BY DEF GoodKernel
  <2> QED
    BY <1>1, <2>1 DEF Stages
<1>3. UnitShape(j, g, q)
  BY <1>1, <1>2, ShapeGoesOn
<1>4. Interval(j, g, q)
  BY <1>1, <1>2, IntervalGoesOn
<1>5. /\ q.s = s /\ q.A = {} /\ r.A = Items(j) /\ q.b = r.b /\ q.d = r.d /\ q.f = r.f /\ q.t = r.t /\ q.v = r.v
      /\ q.o = 2 * r.o
  BY DEF GoesOn
<1>6. ASSUME NEW l \in Items(j) PROVE Summed(j, g, q, l) /\ Padded(j, g, q, l, q.o) /\ Valued(j, g, q, l, q.o)
  <2>1. Summed(j, g, r, l) /\ Padded(j, g, r, l, 2 * r.o) /\ Valued(j, g, r, l, 2 * r.o)
    BY <1>1, <1>5 DEF WriteInv
  <2>2. ItemSame(j, r, q, l)
    BY <1>5 DEF ItemSame
  <2>3. /\ Summed(j, g, r, l) => Summed(j, g, q, l)
        /\ \A o : Padded(j, g, r, l, o) => Padded(j, g, q, l, o)
        /\ \A o : Valued(j, g, r, l, o) => Valued(j, g, q, l, o)
    BY <2>2, ItemKept, Zenon
  <2> QED
    BY <1>5, <2>1, <2>3, Zenon
<1>7. s = "tree_read" => ReadInv(j, g, q)
  BY <1>5, <1>6 DEF ReadInv
<1>8. s = "update_local" => UpdateInv(j, g, q)
  BY <1>5, <1>6 DEF UpdateInv
<1> QED
  BY <1>2, <1>3, <1>4, <1>5, <1>7, <1>8 DEF UnitInv

LEMMA UpdateBarrierGoesOn ==
  ASSUME NEW j, GoodKernel(j), NEW g \in Nat, NEW r, NEW q, UnitInv(j, g, r), r.s = "update_local",
         GoesOn(j, r, q, "write", r.o, r.b)
  PROVE  UnitInv(j, g, q)
<1>1. UnitShape(j, g, r) /\ Interval(j, g, r) /\ UpdateInv(j, g, r) /\ r.o \in Nat \ {0} /\ j.wg < r.o
  BY DEF UnitInv, UnitShape
<1>2. UnitShape(j, g, q)
  BY <1>1, ShapeGoesOn DEF Stages
<1>3. Interval(j, g, q)
  BY <1>1, IntervalGoesOn
<1>4. /\ q.s = "write" /\ q.A = {} /\ r.A = Items(j) /\ q.b = r.b /\ q.d = r.d /\ q.f = r.f /\ q.t = r.t /\ q.v = r.v
      /\ q.o = r.o
  BY DEF GoesOn
<1>5. ASSUME NEW l \in Items(j) PROVE Padded(j, g, q, l, q.o) /\ Cells(j, g, q, l, Begin(j, g))
  <2>1. Padded(j, g, r, l, r.o) /\ Cells(j, g, r, l, Begin(j, g))
    BY <1>1, <1>4 DEF UpdateInv
  <2>2. ItemSame(j, r, q, l)
    BY <1>4 DEF ItemSame
  <2> QED
    BY <1>4, <2>1, <2>2, ItemKept
<1>6. DataInv(j, g, q)
  BY <1>5 DEF DataInv
<1> QED
  BY <1>2, <1>3, <1>4, <1>6 DEF UnitInv

(* The units of an interval.                                               *)
LEMMA NextUnit ==
  ASSUME NEW j, GoodKernel(j), NEW g \in Nat, NEW b, NEW u \in Nat, b = Begin(j, g) + Unit(j) * u, b < Begin(j, g) + j.size
  PROVE  /\ b + Unit(j) = Begin(j, g) + Unit(j) * (u + 1)
         /\ b + Unit(j) <= Begin(j, g) + j.size
<1> DEFINE a == Begin(j, g)
           n == Unit(j)
<1>1. a \in Nat /\ n \in Nat \ {0} /\ j.size \in Nat
  BY KernelNumbers
<1>2. PICK w \in Nat : j.size = n * w
  BY DEF GoodKernel, Unit
<1> HIDE DEF a, n
<1>3. n * (u + 1) = n * u + n /\ n * u \in Nat
  BY <1>1
<1>4. b + n = a + n * (u + 1)
  BY <1>1, <1>3 DEF a, n
<1>5. n * u < n * w
  BY <1>1, <1>2, <1>3 DEF a, n
<1>6. u + 1 <= w
  <2>1. \A x, y \in Nat : y <= x => n * y <= n * x
    BY <1>1
  <2>2. n * w \in Nat
    BY <1>1
  <2>3. ~(w <= u)
    BY <1>3, <1>5, <2>1, <2>2
  <2> QED
    BY <2>3
<1>7. n * (u + 1) <= n * w
  <2>1. \A x, y \in Nat : y <= x => n * y <= n * x
    BY <1>1
  <2>2. u + 1 \in Nat
    OBVIOUS
  <2> HIDE DEF n
  <2> QED
    BY <1>6, <2>1, <2>2
<1>8. n * w \in Nat
  BY <1>1
<1> QED
  BY <1>1, <1>2, <1>3, <1>4, <1>7, <1>8 DEF a, n

(* After a unit is written, the next one begins or the interval ends.      *)
LEMMA UnitBarrier ==
  ASSUME NEW j, GoodKernel(j), NEW g \in Nat, NEW r, NEW q, UnitInv(j, g, r), r.s = "write", NEW s,
         IF r.b + Unit(j) < End(j, g) THEN s \in {"fetch", "load"} ELSE s = "interval_sum",
         GoesOn(j, r, q, s, r.o, r.b + Unit(j))
  PROVE  UnitInv(j, g, q)
<1> DEFINE a == Begin(j, g)
           b == r.b + Unit(j)
<1>1. UnitShape(j, g, r) /\ Interval(j, g, r) /\ DataInv(j, g, r) /\ r.o \in Nat \ {0} /\ j.wg < r.o /\ r.b < End(j, g)
  BY DEF UnitInv, UnitShape
<1>2. /\ r.b \in Nat /\ a \in Nat /\ Unit(j) \in Nat \ {0} /\ End(j, g) \in Nat /\ End(j, g) <= a + j.size /\ j.size \in Nat
      /\ Limit(j, g) \in Nat /\ j.wg \in Nat \ {0}
  BY <1>1, UnitNumbers, KernelNumbers
<1>3. b \in Nat /\ b - 1 \in Nat
  BY <1>2
<1>4. q.s = s /\ q.A = {} /\ r.A = Items(j) /\ q.b = b /\ q.o = r.o /\ q.d = r.d /\ q.f = r.f /\ q.t = r.t /\ q.v = r.v
  BY DEF GoesOn
<1>5. s \in {"fetch", "load", "interval_sum"} /\ (s \in {"fetch", "load"} <=> b < End(j, g))
  OBVIOUS
<1>6. UnitShape(j, g, q)
  <2>1. PICK u \in Nat : r.b = a + Unit(j) * u
    BY <1>1 DEF UnitShape
  <2>2. r.b < a + j.size
    BY <1>1, <1>2
  <2>3. b = a + Unit(j) * (u + 1) /\ b <= a + j.size
    BY <2>1, <2>2, NextUnit
  <2>4. u + 1 \in Nat
    OBVIOUS
  <2>5. /\ DOMAIN q.d = (0 .. j.k) \X Items(j) /\ DOMAIN q.f = Rows(j) \X Items(j)
        /\ DOMAIN q.t = Items(j) /\ DOMAIN q.v = Items(j)
        /\ (\A l \in Items(j) : DOMAIN q.v[l] = {"sum", "val", "k_group", "subtree", "interval"})
        /\ (~j.seg => \A l \in Items(j) : q.v[l].k_group = NO_SEG_BOUNDARY)
    BY <1>1, <1>4 DEF UnitShape
  <2>6. q.s \in Stages /\ q.A \subseteq Items(j) /\ q.s \notin {"carry", "along_k", "update_local", "write", "end"}
    BY <1>4, <1>5 DEF Stages
  <2>7. /\ q.s \notin {"interval_sum", "end"} => q.b < End(j, g)
        /\ q.s \in {"interval_sum", "end"} => End(j, g) <= q.b
    BY <1>2, <1>3, <1>4, <1>5
  <2>8. (\E x \in Nat : q.b = Begin(j, g) + Unit(j) * x) /\ q.b <= Begin(j, g) + j.size
    BY <1>4, <2>3, <2>4
  <2> QED
    BY <1>1, <1>4, <2>5, <2>6, <2>7, <2>8 DEF UnitShape
<1>7. Interval(j, g, q)
  <2>1. Finds(j, g, r.v[0].interval, a, b - 1)
    <3>1. Finds(j, g, r.v[0].interval, a, r.b + Unit(j) - 1)
      <4>1. (IF r.s = "write" \/ (r.s = "update_local" /\ 0 \in r.A) THEN r.b + Unit(j) - 1 ELSE r.b - 1) = r.b + Unit(j) - 1
        OBVIOUS
      <4> QED
        BY <1>1, <4>1, Zenon DEF Interval
    <3>2. r.b + Unit(j) - 1 = b - 1
      BY <1>2
    <3> QED
      BY <3>1, <3>2
  <2>2. q.s # "write" /\ q.s # "update_local" /\ q.b - 1 = b - 1 /\ q.v[0].interval = r.v[0].interval
    BY <1>4, <1>5
  <2> QED
    BY <2>1, <2>2, Zenon DEF Interval
<1>8. Carried(j, g, q)
  <2>1. SUFFICES ASSUME b <= Limit(j, g) PROVE r.d[<<j.k, j.wg - 1>>] = j.W[<<a, b - 1>>]
    BY <1>4 DEF Carried
  <2>2. j.wg - 1 \in Items(j) /\ LastElem(j, r.b, j.wg - 1) = b - 1
    BY <1>2, UnitEnds
  <2>3. Padded(j, g, r, j.wg - 1, r.o)
    BY <1>1, <2>2 DEF DataInv
  <2>4. b - 1 < Limit(j, g)
    BY <1>2, <1>3, <2>1
  <2>5. Behind(j, a, r.b, j.wg - 1, r.o) = a
    <3>1. j.wg - 1 < r.o
      BY <1>1, <1>2
    <3> QED
      BY <3>1 DEF Behind
  <2> QED
    BY <2>2, <2>3, <2>4, <2>5 DEF Padded
<1>9. LoadInv(j, g, q)
  BY <1>4 DEF LoadInv
<1> QED
  BY <1>4, <1>5, <1>6, <1>7, <1>8, <1>9 DEF UnitInv

LEMMA SumBarrier ==
  ASSUME NEW j, GoodKernel(j), NEW g \in Nat, NEW r, NEW q, UnitInv(j, g, r), r.s = "interval_sum",
         GoesOn(j, r, q, "end", r.o, r.b)
  PROVE  UnitInv(j, g, q)
<1>1. UnitShape(j, g, r) /\ Interval(j, g, r)
  BY DEF UnitInv
<1>2. q.s = "end" /\ q.A = {} /\ r.A = Items(j) /\ q.b = r.b /\ q.o = r.o /\ q.d = r.d /\ q.f = r.f /\ q.t = r.t /\ q.v = r.v
  BY DEF GoesOn
<1>3. UnitShape(j, g, q)
  <2>1. /\ DOMAIN q.d = (0 .. j.k) \X Items(j) /\ DOMAIN q.f = Rows(j) \X Items(j)
        /\ DOMAIN q.t = Items(j) /\ DOMAIN q.v = Items(j)
        /\ (\A l \in Items(j) : DOMAIN q.v[l] = {"sum", "val", "k_group", "subtree", "interval"})
        /\ (~j.seg => \A l \in Items(j) : q.v[l].k_group = NO_SEG_BOUNDARY)
    BY <1>1, <1>2 DEF UnitShape
  <2>2. (\E x \in Nat : q.b = Begin(j, g) + Unit(j) * x) /\ q.b <= Begin(j, g) + j.size /\ End(j, g) <= q.b /\ q.o \in Nat \ {0}
    BY <1>1, <1>2 DEF UnitShape
  <2> QED
    BY <1>2, <2>1, <2>2 DEF UnitShape, Stages
<1>4. Interval(j, g, q)
  BY <1>1, <1>2 DEF Interval
<1> QED
  BY <1>2, <1>3, <1>4 DEF UnitInv

-----------------------------------------------------------------------------
(* Global memory.                                                          *)
InUnit(j, r, i) == r.b <= i /\ i < r.b + Unit(j)
Same(j, g, m, m2) == \A i \in Span(j, g) : m2[i] = m[i]

(* Different groups have different intervals.                              *)
LEMMA IntervalsApart ==
  ASSUME NEW j, GoodKernel(j), NEW g \in Nat, NEW h \in Nat, g # h, NEW i \in Span(j, h)
  PROVE  ~(Begin(j, g) <= i /\ i < Begin(j, g) + j.size)
<1> DEFINE n == j.size
<1>1. n \in Nat \ {0} /\ Begin(j, h) \in Nat /\ Limit(j, h) \in Nat /\ Limit(j, h) <= Begin(j, h) + n
  <2>1. n \in Nat \ {0} /\ Begin(j, h) \in Nat /\ Limit(j, h) \in Nat /\ Limit(j, h) <= End(j, h) /\ End(j, h) <= Begin(j, h) + n
        /\ End(j, h) \in Nat
    BY KernelNumbers
  <2> HIDE DEF n
  <2> QED
    BY <2>1
<1>2. i \in Nat /\ Begin(j, h) <= i /\ i < Begin(j, h) + n
  BY <1>1 DEF Span
<1>3. Begin(j, g) = n * g /\ Begin(j, h) = n * h
  BY DEF Begin
<1>0. SUFFICES ~(Begin(j, g) <= i /\ i < Begin(j, g) + n)
  OBVIOUS
<1> HIDE DEF n
<1>4. \A x, y \in Nat : x < y => n * x + n <= n * y
  <2>1. ASSUME NEW x \in Nat, NEW y \in Nat, x < y PROVE n * x + n <= n * y
    <3>1. PICK c \in Nat : y = x + 1 + c
      <4>1. y - x - 1 \in Nat /\ y = x + 1 + (y - x - 1)
        BY <2>1
      <4> QED
        BY <4>1
    <3>2. n * y = n * x + n + n * c /\ n * c \in Nat /\ n * x \in Nat
      BY <1>1, <3>1
    <3> QED
      BY <1>1, <3>2
  <2> QED
    BY <2>1
<1>5. n * g \in Nat /\ n * h \in Nat
  BY <1>1
<1>6. CASE g < h
  <2>1. n * g + n <= n * h
    BY <1>4, <1>6
  <2> QED
    BY <1>1, <1>2, <1>3, <1>5, <2>1
<1>7. CASE h < g
  <2>1. n * h + n <= n * g
    BY <1>4, <1>7
  <2> QED
    BY <1>1, <1>2, <1>3, <1>5, <2>1
<1> QED
  BY <1>6, <1>7

(* An index of the unit is a row of an item.                               *)
LEMMA CellOf ==
  ASSUME NEW j, GoodKernel(j), NEW b \in Nat, NEW o \in 0 .. Unit(j) - 1
  PROVE  /\ (o % j.k) \in Rows(j) /\ (o \div j.k) \in Items(j)
         /\ j.k * (o \div j.k) + (o % j.k) = o /\ Elem(j, b, o % j.k, o \div j.k) = b + o
<1>1. j.k \in Nat \ {0} /\ j.wg \in Nat \ {0} /\ o \in Nat /\ o < j.wg * j.k
  BY DEF GoodKernel, Unit
<1> DEFINE q == o \div j.k
           k == o % j.k
<1>2. q \in Nat /\ k \in 0 .. j.k - 1 /\ o = j.k * q + k
  BY <1>1, Division
<1> HIDE DEF q, k
<1>3. q < j.wg
  <2>1. SUFFICES ASSUME j.wg <= q PROVE FALSE
    BY <1>1, <1>2
  <2>2. \A x \in Nat : j.wg <= x => j.k * j.wg <= j.k * x
    BY <1>1
  <2>3. j.k * j.wg <= j.k * q /\ j.k * j.wg = j.wg * j.k
    BY <1>1, <1>2, <2>1, <2>2
  <2>4. \A x \in Nat : j.k * x \in Nat
    BY <1>1
  <2>5. j.k * q \in Nat /\ j.k * j.wg \in Nat
    BY <1>1, <1>2, <2>4
  <2> QED
    BY <1>1, <1>2, <2>3, <2>5
<1>4. k \in Rows(j) /\ q \in Items(j)
  BY <1>1, <1>2, <1>3 DEF Rows, Items
<1>5. Elem(j, b, k, q) = b + o
  BY <1>2 DEF Elem
<1> QED
  BY <1>2, <1>4, <1>5 DEF q, k

(* What a group has written, read, fetched and summed up.                  *)
LEMMA OutStays ==
  ASSUME NEW j, NEW g, NEW r, NEW q, NEW l, NEW out, NEW out2, Arrives(r, q, l), r.s # "write", OutInv(j, g, r, out),
         Same(j, g, out, out2)
  PROVE  OutInv(j, g, q, out2)
BY DEF Arrives, OutInv, IsWritten, Same

(* Item l writes its part of the unit.                                     *)
WrittenEffect(j, g, r, l, out, out2) ==
  \A i \in Span(j, g) :
    out2[i] = IF InUnit(j, r, i) /\ (i - r.b) % j.wg = l THEN r.d[<<(i - r.b) % j.k, (i - r.b) \div j.k>>] ELSE out[i]

LEMMA OutWritten ==
  ASSUME NEW j, GoodKernel(j), NEW g \in Nat, NEW r, NEW q, NEW l, NEW out, NEW out2, UnitInv(j, g, r), Arrives(r, q, l),
         r.s = "write", OutInv(j, g, r, out), WrittenEffect(j, g, r, l, out, out2)
  PROVE  OutInv(j, g, q, out2)
<1>1. UnitShape(j, g, r) /\ DataInv(j, g, r)
  BY DEF UnitInv
<1>2. r.b \in Nat /\ Begin(j, g) \in Nat /\ Limit(j, g) \in Nat /\ Unit(j) \in Nat
  BY <1>1, UnitNumbers, KernelNumbers
<1>3. SUFFICES ASSUME NEW i \in Span(j, g), IsWritten(j, q, i) PROVE out2[i] = j.W[<<Begin(j, g), i>>]
  BY DEF OutInv
<1>4. q.s = "write" /\ q.b = r.b /\ q.A = r.A \cup {l}
  BY DEF Arrives
<1>5. i \in Nat /\ i < Limit(j, g)
  BY <1>2 DEF Span
<1>6. CASE InUnit(j, r, i) /\ (i - r.b) % j.wg = l
  <2> DEFINE o == i - r.b
             k == o % j.k
             t == o \div j.k
  <2>1. o \in 0 .. Unit(j) - 1 /\ r.b + o = i
    BY <1>2, <1>5, <1>6 DEF InUnit
  <2>2. k \in Rows(j) /\ t \in Items(j) /\ Elem(j, r.b, k, t) = i
    <3> HIDE DEF o
    <3>1. (o % j.k) \in Rows(j) /\ (o \div j.k) \in Items(j) /\ Elem(j, r.b, o % j.k, o \div j.k) = r.b + o
      BY <1>2, <2>1, CellOf
    <3> QED
      BY <2>1, <3>1
  <2> HIDE DEF k, t
  <2>3. CellIs(j, g, r, k, t, Begin(j, g))
    BY <1>1, <2>2 DEF DataInv, Cells
  <2>4. r.d[<<k, t>>] = j.W[<<Begin(j, g), i>>]
    BY <1>5, <2>2, <2>3 DEF CellIs
  <2>5. out2[i] = r.d[<<k, t>>]
    BY <1>6, Zenon DEF WrittenEffect, k, t
  <2> QED
    BY <2>4, <2>5
<1>7. CASE ~(InUnit(j, r, i) /\ (i - r.b) % j.wg = l)
  <2>1. out2[i] = out[i]
    BY <1>7, Zenon DEF WrittenEffect
  <2>2. IsWritten(j, r, i)
    BY <1>2, <1>3, <1>4, <1>5, <1>7 DEF IsWritten, InUnit
  <2> QED
    BY <2>1, <2>2 DEF OutInv
<1> QED
  BY <1>6, <1>7

LEMMA InItems ==
  ASSUME NEW j, GoodKernel(j), NEW x \in Nat
  PROVE  (x % j.wg) \in Items(j)
BY DEF GoodKernel, Items

LEMMA OutGoesOn ==
  ASSUME NEW j, GoodKernel(j), NEW g \in Nat, NEW r, NEW q, NEW s, NEW o, NEW b, NEW out, UnitShape(j, g, r),
         GoesOn(j, r, q, s, o, b), b = IF r.s = "write" THEN r.b + Unit(j) ELSE r.b, ~(r.s = "write" /\ s = "write"), OutInv(j, g, r, out)
  PROVE  OutInv(j, g, q, out)
<1>1. r.b \in Nat /\ Begin(j, g) \in Nat /\ Limit(j, g) \in Nat /\ Unit(j) \in Nat
  BY UnitNumbers, KernelNumbers
<1>2. SUFFICES ASSUME NEW i \in Span(j, g), IsWritten(j, q, i) PROVE IsWritten(j, r, i)
  BY DEF OutInv
<1>3. q.s = s /\ q.A = {} /\ q.b = b /\ r.A = Items(j)
  BY DEF GoesOn
<1>4. i \in Nat
  BY <1>1 DEF Span
<1>5. i < b
  BY <1>2, <1>3 DEF IsWritten
<1>6. CASE r.s # "write"
  BY <1>5, <1>6 DEF IsWritten
<1>7. CASE r.s = "write"
  <2>1. CASE i < r.b
    BY <2>1 DEF IsWritten
  <2>2. CASE r.b <= i
    <3>1. i - r.b \in Nat
      BY <1>1, <1>4, <2>2
    <3>2. (i - r.b) % j.wg \in r.A
      BY <1>3, <3>1, InItems
    <3>3. i < r.b + Unit(j)
      BY <1>5, <1>7
    <3> QED
      BY <1>7, <3>2, <3>3 DEF IsWritten
  <2> QED
    BY <1>1, <1>4, <2>1, <2>2
<1> QED
  BY <1>6, <1>7

LEMMA FlagsStay ==
  ASSUME NEW j, NEW g, NEW r, NEW q, NEW l, NEW flags, NEW flags2, Arrives(r, q, l), r.s # "load", FlagsInv(j, g, r, flags),
         Same(j, g, flags, flags2)
  PROVE  FlagsInv(j, g, q, flags2)
<1>1. q.s = r.s /\ q.b = r.b
  BY DEF Arrives
<1>2. ASSUME NEW i, IsRead(j, q, i) PROVE IsRead(j, r, i)
  BY <1>1, <1>2 DEF IsRead
<1> QED
  BY <1>2 DEF FlagsInv, Same

FlagsEffect(j, g, r, l, flags, flags2) ==
  \A i \in Span(j, g) :
    IF InUnit(j, r, i) /\ (i - r.b) % j.wg = l THEN flags2[i] <=> i \in j.H ELSE flags2[i] = flags[i]

(* Global flags are written as the elements are read.                      *)
LEMMA FlagsLoaded ==
  ASSUME NEW j, GoodKernel(j), NEW g \in Nat, NEW r, NEW q, NEW l, NEW flags, NEW flags2, UnitShape(j, g, r), Arrives(r, q, l),
         r.s = "load", FlagsInv(j, g, r, flags), FlagsEffect(j, g, r, l, flags, flags2)
  PROVE  FlagsInv(j, g, q, flags2)
<1>1. r.b \in Nat /\ Begin(j, g) \in Nat /\ Limit(j, g) \in Nat /\ Unit(j) \in Nat
  BY UnitNumbers, KernelNumbers
<1>2. SUFFICES ASSUME NEW i \in Span(j, g), IsRead(j, q, i) PROVE flags2[i] <=> i \in j.H
  BY DEF FlagsInv
<1>3. q.s = "load" /\ q.b = r.b /\ q.A = r.A \cup {l}
  BY DEF Arrives
<1>4. i \in Nat
  BY <1>1 DEF Span
<1>5. CASE InUnit(j, r, i) /\ (i - r.b) % j.wg = l
  BY <1>5 DEF FlagsEffect
<1>6. CASE ~(InUnit(j, r, i) /\ (i - r.b) % j.wg = l)
  <2>1. flags2[i] = flags[i]
    BY <1>6, Zenon DEF FlagsEffect
  <2>2. IsRead(j, r, i)
    BY <1>1, <1>2, <1>3, <1>4, <1>6 DEF IsRead, InUnit
  <2> QED
    BY <2>1, <2>2 DEF FlagsInv
<1> QED
  BY <1>5, <1>6

LEMMA FlagsGoOn ==
  ASSUME NEW j, GoodKernel(j), NEW g \in Nat, NEW r, NEW q, NEW s, NEW o, NEW b, NEW flags, UnitShape(j, g, r),
         GoesOn(j, r, q, s, o, b), b = IF r.s = "write" THEN r.b + Unit(j) ELSE r.b,
         r.s = "write" => s \in {"fetch", "load"} \/ End(j, g) <= b, r.s = "fetch" => s = "load", FlagsInv(j, g, r, flags)
  PROVE  FlagsInv(j, g, q, flags)
<1>1. /\ r.b \in Nat /\ Begin(j, g) \in Nat /\ Limit(j, g) \in Nat /\ Unit(j) \in Nat /\ End(j, g) \in Nat
      /\ Limit(j, g) <= End(j, g)
  BY UnitNumbers, KernelNumbers
<1>2. SUFFICES ASSUME NEW i \in Span(j, g), IsRead(j, q, i) PROVE IsRead(j, r, i)
  BY DEF FlagsInv
<1>3. q.s = s /\ q.A = {} /\ q.b = b /\ r.A = Items(j)
  BY DEF GoesOn
<1>4. i \in Nat /\ i < Limit(j, g)
  BY <1>1 DEF Span
<1>5. CASE r.s = "write"
  <2>1. i < b
    BY <1>1, <1>2, <1>3, <1>4, <1>5 DEF IsRead
  <2> QED
    BY <1>5, <2>1 DEF IsRead
<1>6. CASE r.s = "fetch"
  BY <1>2, <1>3, <1>6 DEF IsRead
<1>7. CASE r.s \notin {"write", "fetch"}
  <2>1. i < r.b + Unit(j)
    BY <1>1, <1>2, <1>3, <1>4, <1>7 DEF IsRead
  <2>2. CASE i < r.b
    BY <2>2 DEF IsRead
  <2>3. CASE r.b <= i
    <3>1. i - r.b \in Nat
      BY <1>1, <1>4, <2>3
    <3>2. (i - r.b) % j.wg \in r.A
      BY <1>3, <3>1, InItems
    <3> QED
      BY <1>7, <2>1, <3>2 DEF IsRead
  <2> QED
    BY <1>1, <1>4, <2>2, <2>3
<1> QED
  BY <1>5, <1>6, <1>7

LEMMA InputStays ==
  ASSUME NEW j, NEW g, NEW r, NEW q, NEW l, NEW in, NEW in2, Arrives(r, q, l), InputInv(j, g, r, in),
         \A i \in Span(j, g) : (r.s = "write" /\ InUnit(j, r, i)) \/ in2[i] = in[i]
  PROVE  InputInv(j, g, q, in2)
<1>1. q.s = r.s /\ q.b = r.b
  BY DEF Arrives
<1>2. SUFFICES ASSUME NEW i \in Span(j, g), r.b <= i, i < r.b + Unit(j) => r.s \in {"fetch", "load"}
               PROVE  in2[i] = j.W[<<i, i>>]
  BY <1>1 DEF InputInv
<1>3. in[i] = j.W[<<i, i>>]
  BY <1>2 DEF InputInv
<1>4. in2[i] = in[i]
  BY <1>2 DEF InUnit
<1> QED
  BY <1>3, <1>4

LEMMA InputGoesOn ==
  ASSUME NEW j, GoodKernel(j), NEW g \in Nat, NEW r, NEW q, NEW s, NEW o, NEW b, NEW in, UnitShape(j, g, r),
         GoesOn(j, r, q, s, o, b), b = IF r.s = "write" THEN r.b + Unit(j) ELSE r.b,
         s \in {"fetch", "load"} => r.s \in {"fetch", "write"}, InputInv(j, g, r, in)
  PROVE  InputInv(j, g, q, in)
<1>1. r.b \in Nat /\ Begin(j, g) \in Nat /\ Limit(j, g) \in Nat /\ Unit(j) \in Nat
  BY UnitNumbers, KernelNumbers
<1>2. q.s = s /\ q.b = b
  BY DEF GoesOn
<1>3. SUFFICES ASSUME NEW i \in Span(j, g), b <= i, i < b + Unit(j) => s \in {"fetch", "load"}
               PROVE  r.b <= i /\ (i < r.b + Unit(j) => r.s \in {"fetch", "load"})
  BY <1>2 DEF InputInv
<1>4. i \in Nat
  BY <1>1 DEF Span
<1> QED
  BY <1>1, <1>3, <1>4

FetchEffect(j, g, r, q, l) ==
  \A o \in 0 .. Unit(j) - 1 : q.x[o] = IF (o % j.wg) = l /\ r.b + o < End(j, g) THEN r.b + o ELSE r.x[o]

(* The local copy that input_fetch_exprs reads.                            *)
LEMMA FetchedStep ==
  ASSUME NEW j, NEW g, NEW r, NEW q, NEW l, Arrives(r, q, l), FetchInv(j, g, r),
         IF r.s = "fetch" THEN FetchEffect(j, g, r, q, l) ELSE q.x = r.x
  PROVE  FetchInv(j, g, q)
<1>1. q.s = r.s /\ q.b = r.b /\ q.A = r.A \cup {l}
  BY DEF Arrives
<1>2. CASE r.s = "fetch"
  <2>1. SUFFICES ASSUME NEW o \in 0 .. Unit(j) - 1, r.b + o < End(j, g), (o % j.wg) \in r.A \cup {l} PROVE q.x[o] = r.b + o
    BY <1>1, <1>2 DEF FetchInv
  <2>2. q.x[o] = IF (o % j.wg) = l /\ r.b + o < End(j, g) THEN r.b + o ELSE r.x[o]
    BY <1>2, Zenon DEF FetchEffect
  <2>3. (o % j.wg) # l => r.x[o] = r.b + o
    BY <1>2, <2>1 DEF FetchInv
  <2> QED
    BY <2>1, <2>2, <2>3, Zenon
<1>3. CASE r.s # "fetch"
  BY <1>1, <1>3 DEF FetchInv
<1> QED
  BY <1>2, <1>3

LEMMA FetchGoesOn ==
  ASSUME NEW j, GoodKernel(j), NEW g, NEW r, NEW q, NEW s, NEW o, NEW b, GoesOn(j, r, q, s, o, b), q.x = r.x,
         s = "load" => r.s = "fetch" /\ b = r.b, FetchInv(j, g, r)
  PROVE  FetchInv(j, g, q)
<1>1. q.s = s /\ q.b = b /\ q.A = {} /\ r.A = Items(j)
  BY DEF GoesOn
<1>2. SUFFICES ASSUME NEW e \in 0 .. Unit(j) - 1, r.b + e < End(j, g), r.s = "fetch", b = r.b PROVE r.x[e] = r.b + e
  BY <1>1 DEF FetchInv
<1>3. (e % j.wg) \in r.A
  <2>1. e \in Nat
    OBVIOUS
  <2> QED
    BY <1>1, <2>1, InItems
<1> QED
  BY <1>2, <1>3 DEF FetchInv

LEMMA SumStays ==
  ASSUME NEW j, NEW g, NEW r, NEW q, NEW l, Arrives(r, q, l), NEW sum, NEW first, SumInv(j, g, r, sum, first),
         r.s # "interval_sum" \/ l # 0
  PROVE  SumInv(j, g, q, sum, first)
<1>1. q.s = r.s /\ q.A = r.A \cup {l}
  BY DEF Arrives
<1> QED
  BY <1>1 DEF SumInv

(* Work item 0 writes the sum of the interval and its first start.         *)
LEMMA SumWritten ==
  ASSUME NEW j, GoodKernel(j), NEW g \in Nat, NEW r, NEW q, NEW out, NEW sum, NEW first, UnitInv(j, g, r),
         Begin(j, g) < End(j, g), Limit(j, g) = End(j, g),
         OutInv(j, g, r, out), r.s = "interval_sum", sum = out[End(j, g) - 1], j.seg => first = r.v[0].interval
  PROVE  SumInv(j, g, q, sum, first)
<1>1. UnitShape(j, g, r) /\ Interval(j, g, r)
  BY DEF UnitInv
<1>2. /\ r.b \in Nat /\ Begin(j, g) \in Nat /\ End(j, g) \in Nat /\ j.size \in Nat \ {0} /\ j.n \in Nat
      /\ End(j, g) <= Begin(j, g) + j.size
  BY <1>1, UnitNumbers, KernelNumbers
<1>3. End(j, g) <= r.b /\ r.b <= Begin(j, g) + j.size
  BY <1>1 DEF UnitShape
<1>4. sum = j.W[<<Begin(j, g), End(j, g) - 1>>]
  <2> DEFINE e == End(j, g) - 1
  <2>1. e \in Span(j, g) /\ e < r.b
    BY <1>2, <1>3 DEF Span
  <2> HIDE DEF e
  <2>2. out[e] = j.W[<<Begin(j, g), e>>]
    BY <2>1 DEF OutInv, IsWritten
  <2> QED
    BY <2>2 DEF e
<1>5. ASSUME j.seg PROVE FirstSeg(j, g, first)
  <2>1. Finds(j, g, first, Begin(j, g), r.b - 1)
    BY <1>1, <1>5 DEF Interval
  <2>2. r.b - 1 \in Nat /\ End(j, g) - 1 <= r.b - 1
    BY <1>2, <1>3
  <2>3. Begin(j, g) + j.size <= j.n => r.b - 1 = End(j, g) - 1
    BY <1>2, <1>3 DEF End, Least
  <2> QED
    BY <2>1, <2>2, <2>3 DEF FirstSeg
<1> QED
  BY <1>4, <1>5 DEF SumInv, FirstSeg

LEMMA SumGoesOn ==
  ASSUME NEW j, GoodKernel(j), NEW g, NEW r, NEW q, NEW s, NEW o, NEW b, GoesOn(j, r, q, s, o, b),
         s = "end" => r.s = "interval_sum", NEW sum, NEW first, SumInv(j, g, r, sum, first)
  PROVE  SumInv(j, g, q, sum, first)
<1>1. q.s = s /\ q.A = {} /\ r.A = Items(j) /\ 0 \in Items(j)
  BY DEF GoesOn, GoodKernel, Items
<1> QED
  BY <1>1 DEF SumInv

-----------------------------------------------------------------------------
(* The actions of the kernels, in these terms.                             *)
Runs(c, j) ==
  /\ inp = c /\ ScanShape
  /\ \/ phase = "lev1" /\ j = Kernel1(c)
     \/ phase = "lev2" /\ j = Kernel2(c)

(* The sizes of the model are those of the record.                         *)
LEMMA SizesAre ==
  ASSUME NEW c, inp = c
  PROVE  interval_size = SizeOf(c) /\ num_intervals = CountOf(c) /\ WG = c.wg /\ unit_size = UnitOf(c)
<1>1. interval_size = SizeOf(c)
  BY DEF interval_size, SizeOf, UnitOf, WG
<1> QED
  BY <1>1 DEF num_intervals, CountOf, WG, unit_size, UnitOf

LEMMA KernelFields ==
  ASSUME NEW c
  PROVE  /\ Kernel1(c).wg = c.wg /\ Kernel1(c).k = c.k /\ Kernel1(c).seg = c.segmented /\ Kernel1(c).size = SizeOf(c)
         /\ Kernel1(c).n = c.n /\ Kernel1(c).m = c.n /\ Kernel1(c).H = SegStarts(c)
         /\ Kernel2(c).wg = c.wg /\ Kernel2(c).k = c.k /\ Kernel2(c).seg = c.segmented /\ Kernel2(c).size = SizeOf(c)
         /\ Kernel2(c).n = CountOf(c)
         /\ Kernel2(c).m = IF c.segmented THEN CountOf(c) - 1 ELSE CountOf(c)
         /\ Kernel2(c).H = {p \in 0 .. CountOf(c) - 1 : \E q \in SegStarts(c) : SizeOf(c) * p <= q /\ q <= LastOf(c, p)}
BY DEF Kernel1, Kernel2

LEMMA RunTerms ==
  ASSUME NEW c, NEW j, Runs(c, j)
  PROVE  /\ WG = j.wg /\ inp.k = j.k /\ inp.segmented = j.seg /\ Ks = Rows(j) /\ Lids(phase) = Items(j)
         /\ unit_size = Unit(j) /\ WG * inp.k = Unit(j) /\ N = j.n
         /\ \A g : interval_begin(g) = Begin(j, g) /\ interval_end(g) = End(j, g)
         /\ \A g, i : InRange(g, i) <=> base[g] + i < End(j, g)
<1>1. j.wg = c.wg /\ j.k = c.k /\ j.seg = c.segmented /\ j.size = SizeOf(c)
  BY KernelFields DEF Runs
<1>2. inp = c /\ phase \in {"lev1", "lev2"}
  BY DEF Runs
<1>3. interval_size = SizeOf(c) /\ num_intervals = CountOf(c) /\ WG = c.wg /\ unit_size = UnitOf(c)
  BY <1>2, SizesAre
<1>4. N = j.n
  BY <1>3, KernelFields DEF Runs, N
<1>5. \A g : interval_begin(g) = Begin(j, g)
  BY <1>1, <1>3, Zenon DEF interval_begin, Begin
<1>6. \A g : interval_end(g) = End(j, g)
  BY <1>1, <1>3, <1>4, <1>5, Zenon DEF interval_end, End
<1>7. \A g, i : InRange(g, i) <=> base[g] + i < End(j, g)
  BY <1>6, Zenon DEF InRange
<1>8. Ks = Rows(j) /\ Lids(phase) = Items(j)
  BY <1>1, <1>2 DEF Ks, Rows, Lids, Items, WG
<1>9. unit_size = Unit(j) /\ WG * inp.k = Unit(j)
  BY <1>1, <1>2, <1>3, Zenon DEF UnitOf, Unit
<1> QED
  BY <1>1, <1>2, <1>3, <1>4, <1>5, <1>6, <1>7, <1>8, <1>9

(* Offsets with local ids along the index.                                 *)
LEMMA MineIs ==
  ASSUME NEW c, NEW j, Runs(c, j), GoodKernel(j), NEW g, NEW l \in Items(j)
  PROVE  \A o : o \in Mine(g, l) <=> /\ o \in 0 .. Unit(j) - 1 /\ (o % j.wg) = l /\ base[g] + o < End(j, g)
<1>1. j.wg \in Nat \ {0} /\ j.k \in Nat \ {0} /\ l \in 0 .. j.wg - 1 /\ j.k * j.wg = Unit(j)
  <2>1. j.wg \in Nat \ {0} /\ j.k \in Nat \ {0}
    BY DEF GoodKernel
  <2>2. \A x, y \in Nat : x * y = y * x
    OBVIOUS
  <2> QED
    BY <2>1, <2>2 DEF Items, Unit
<1>2. Mine(g, l) = {k * j.wg + l : k \in {i \in Rows(j) : base[g] + (i * j.wg + l) < End(j, g)}}
  BY RunTerms, Zenon DEF Mine
<1>3. ASSUME NEW k \in Rows(j)
      PROVE  k * j.wg + l \in 0 .. Unit(j) - 1 /\ (k * j.wg + l) % j.wg = l
  <2>1. k \in 0 .. j.k - 1 /\ j.k \in Nat
    BY <1>1 DEF Rows
  <2>2. k * j.wg + l \in 0 .. j.k * j.wg - 1 /\ (k * j.wg + l) % j.wg = l
    <3>1. ASSUME NEW A \in Nat, NEW B \in Nat \ {0}, k \in 0 .. A - 1, l \in 0 .. B - 1
          PROVE  k * B + l \in 0 .. A * B - 1 /\ (k * B + l) % B = l
      BY <3>1, TwoDigits
    <3> QED
      BY <1>1, <2>1, <3>1, Zenon
  <2> QED
    BY <1>1, <2>2
<1>4. ASSUME NEW o \in 0 .. Unit(j) - 1, (o % j.wg) = l
      PROVE  \E k \in Rows(j) : o = k * j.wg + l
  <2>1. o \in Nat /\ o < j.k * j.wg /\ j.k \in Nat
    <3>1. Unit(j) \in Nat
      BY KernelNumbers
    <3> QED
      BY <1>1, <3>1
  <2>2. o \div j.wg \in 0 .. j.k - 1 /\ o = (o \div j.wg) * j.wg + (o % j.wg)
    BY <1>1, <2>1, DigitsOf
  <2> QED
    BY <1>4, <2>2 DEF Rows
<1>5. ASSUME NEW o, o \in Mine(g, l)
      PROVE  o \in 0 .. Unit(j) - 1 /\ (o % j.wg) = l /\ base[g] + o < End(j, g)
  <2>1. PICK k \in Rows(j) : o = k * j.wg + l /\ base[g] + (k * j.wg + l) < End(j, g)
    BY <1>2, <1>5, Zenon
  <2> QED
    BY <1>3, <2>1
<1>6. ASSUME NEW o, o \in 0 .. Unit(j) - 1, (o % j.wg) = l, base[g] + o < End(j, g) PROVE o \in Mine(g, l)
  <2>1. PICK k \in Rows(j) : o = k * j.wg + l
    BY <1>4, <1>6
  <2> QED
    BY <1>2, <1>6, <2>1, Zenon
<1> QED
  BY <1>5, <1>6

(* A cell <<k, i>> is loaded by item l: the element exists and is its own. *)
LEMMA MineCells ==
  ASSUME NEW c, NEW j, Runs(c, j), GoodKernel(j), NEW g, base[g] \in Nat, NEW l \in Items(j),
         NEW k \in Rows(j), NEW i \in Items(j)
  PROVE  /\ <<k, i>> \in {<<o % inp.k, o \div inp.k>> : o \in Mine(g, l)} <=> IsMine(j, k, i, l) /\ Elem(j, base[g], k, i) < End(j, g)
         /\ base[g] + (i * inp.k + k) = Elem(j, base[g], k, i)
         /\ i * inp.k + k \in 0 .. Unit(j) - 1 /\ (IsMine(j, k, i, l) <=> ((i * inp.k + k) % j.wg) = l)
<1>1. j.wg \in Nat \ {0} /\ j.k \in Nat \ {0} /\ i \in 0 .. j.wg - 1 /\ k \in 0 .. j.k - 1 /\ j.wg * j.k = Unit(j)
  BY DEF Items, Rows, Unit, GoodKernel
<1>2. inp.k = j.k
  BY RunTerms
<1> DEFINE e == i * j.k + k
<1>3. e \in 0 .. j.wg * j.k - 1 /\ e \div j.k = i /\ (e % j.k) = k
  <2>1. j.wg \in Nat
    BY <1>1
  <2> QED
    <3>1. ASSUME NEW A \in Nat, NEW B \in Nat \ {0}, i \in 0 .. A - 1, k \in 0 .. B - 1
          PROVE  i * B + k \in 0 .. A * B - 1 /\ (i * B + k) \div B = i /\ (i * B + k) % B = k
      BY <3>1, TwoDigits
    <3> QED
      BY <1>1, <2>1, <3>1, Zenon
<1>4. e = j.k * i + k
  <2>1. \A x, y \in Nat : x * y = y * x
    OBVIOUS
  <2>2. i \in Nat /\ j.k \in Nat
    BY <1>1
  <2> QED
    BY <2>1, <2>2
<1>5. base[g] + e = Elem(j, base[g], k, i) /\ (IsMine(j, k, i, l) <=> (e % j.wg) = l)
  BY <1>4, Zenon DEF Elem, IsMine
<1>6. e \in 0 .. Unit(j) - 1
  BY <1>1, <1>3
<1> HIDE DEF e
<1>7. e \in Mine(g, l) <=> IsMine(j, k, i, l) /\ Elem(j, base[g], k, i) < End(j, g)
  <2>1. e \in Mine(g, l) <=> /\ e \in 0 .. Unit(j) - 1 /\ (e % j.wg) = l /\ base[g] + e < End(j, g)
    BY MineIs, Zenon
  <2> QED
    BY <1>5, <1>6, <2>1
<1>8. \A o \in Mine(g, l) : <<k, i>> = <<o % j.k, o \div j.k>> => o = e
  <2>1. ASSUME NEW o \in Mine(g, l), k = (o % j.k), i = o \div j.k PROVE o = e
    <3>1. o \in 0 .. Unit(j) - 1
      BY MineIs
    <3>2. o \in Nat
      BY <3>1
    <3>3. o = j.k * (o \div j.k) + (o % j.k)
      BY <1>1, <3>2, Division
    <3> QED
      BY <1>4, <2>1, <3>3 DEF e
  <2> QED
    BY <2>1
<1>9. <<k, i>> \in {<<o % j.k, o \div j.k>> : o \in Mine(g, l)} <=> e \in Mine(g, l)
  <2>1. ASSUME <<k, i>> \in {<<o % j.k, o \div j.k>> : o \in Mine(g, l)} PROVE e \in Mine(g, l)
    <3>1. PICK o \in Mine(g, l) : <<k, i>> = <<o % j.k, o \div j.k>>
      BY <2>1
    <3> QED
      BY <1>8, <3>1
  <2>2. ASSUME e \in Mine(g, l) PROVE <<k, i>> \in {<<o % j.k, o \div j.k>> : o \in Mine(g, l)}
    <3>1. <<k, i>> = <<e % j.k, e \div j.k>>
      BY <1>3 DEF e
    <3> QED
      BY <2>2, <3>1
  <2> QED
    BY <2>1, <2>2
<1> QED
  BY <1>2, <1>5, <1>6, <1>7, <1>9 DEF e

OthersStay(g) == \A h \in DOMAIN at : h # g => GroupState(h)' = GroupState(h)
DomainsKept ==
  /\ inp' = inp /\ phase' = phase
  /\ DOMAIN at' = DOMAIN at /\ DOMAIN arrived' = DOMAIN arrived /\ DOMAIN base' = DOMAIN base /\ DOMAIN offset' = DOMAIN offset
  /\ DOMAIN lfetch' = DOMAIN lfetch /\ DOMAIN ldata' = DOMAIN ldata /\ DOMAIN lflags' = DOMAIN lflags
  /\ DOMAIN lfirst' = DOMAIN lfirst /\ DOMAIN priv' = DOMAIN priv
  /\ DOMAIN partial' = DOMAIN partial /\ DOMAIN gflags' = DOMAIN gflags /\ DOMAIN output' = DOMAIN output
  /\ DOMAIN results' = DOMAIN results /\ DOMAIN first_seg' = DOMAIN first_seg

LEMMA ScanShapeKept ==
  ASSUME ScanShape, DomainsKept, phase \notin {"done", "debug"}
  PROVE  ScanShape'
<1>1. Groups(phase)' = Groups(phase) /\ Groups1(inp)' = Groups1(inp)
  BY DEF DomainsKept, Groups, num_intervals, interval_size, WG, Groups1
<1>2. inp' = inp /\ phase' = phase
  BY DEF DomainsKept
<1>3. phase' \in Phases /\ inp' \in Inputs /\ (phase' = "debug" => inp'.debug)
  BY <1>2 DEF ScanShape
<1>4. phase \in {"lev1", "lev2", "update"} =>
       /\ ~inp'.debug
       /\ DOMAIN at' = Groups(phase) /\ DOMAIN arrived' = Groups(phase) /\ DOMAIN base' = Groups(phase)
       /\ DOMAIN offset' = Groups(phase) /\ DOMAIN lfetch' = Groups(phase) /\ DOMAIN ldata' = Groups(phase)
       /\ DOMAIN lflags' = Groups(phase) /\ DOMAIN lfirst' = Groups(phase) /\ DOMAIN priv' = Groups(phase)
  BY <1>2 DEF ScanShape, DomainsKept
<1>5. /\ DOMAIN partial' = 0 .. inp.n - 1 /\ DOMAIN gflags' = 0 .. inp.n - 1 /\ DOMAIN output' = 0 .. inp.n - 1
      /\ DOMAIN results' = Groups1(inp) /\ DOMAIN first_seg' = Groups1(inp)
  BY DEF ScanShape, DomainsKept
<1> QED
  BY <1>1, <1>2, <1>3, <1>4, <1>5 DEF ScanShape

LEMMA RunShape ==
  ASSUME NEW c, NEW j, Runs(c, j)
  PROVE  /\ DOMAIN at = Groups(phase) /\ DOMAIN arrived = DOMAIN at /\ DOMAIN base = DOMAIN at /\ DOMAIN offset = DOMAIN at
         /\ DOMAIN lfetch = DOMAIN at /\ DOMAIN ldata = DOMAIN at /\ DOMAIN lflags = DOMAIN at
         /\ DOMAIN lfirst = DOMAIN at /\ DOMAIN priv = DOMAIN at
         /\ DOMAIN partial = 0 .. inp.n - 1 /\ DOMAIN gflags = 0 .. inp.n - 1 /\ DOMAIN output = 0 .. inp.n - 1
         /\ DOMAIN results = Groups1(inp) /\ DOMAIN first_seg = Groups1(inp)
BY DEF Runs, ScanShape

(* The fields of the state of a group, now and in the next state.          *)
LEMMA StateFields ==
  ASSUME NEW g
  PROVE  LET r == GroupState(g) IN
           /\ r.s = at[g] /\ r.A = arrived[g] /\ r.b = base[g] /\ r.o = offset[g] /\ r.x = lfetch[g] /\ r.d = ldata[g]
           /\ r.f = lflags[g] /\ r.t = lfirst[g] /\ r.v = priv[g]
BY DEF GroupState

LEMMA StateFieldsNext ==
  ASSUME NEW g
  PROVE  LET q == GroupState(g)' IN
           /\ q.s = at'[g] /\ q.A = arrived'[g] /\ q.b = base'[g] /\ q.o = offset'[g] /\ q.x = lfetch'[g] /\ q.d = ldata'[g]
           /\ q.f = lflags'[g] /\ q.t = lfirst'[g] /\ q.v = priv'[g]
BY DEF GroupState

(* What every segment does to the barrier.                                 *)
LEMMA ExecutesIs ==
  ASSUME NEW g \in DOMAIN at, NEW l, NEW segment, Executes(g, l, segment), DOMAIN arrived = DOMAIN at
  PROVE  /\ at[g] = segment /\ l \notin arrived[g] /\ arrived'[g] = arrived[g] \cup {l} /\ DOMAIN arrived' = DOMAIN arrived
         /\ inp' = inp /\ phase' = phase /\ at' = at /\ base' = base /\ offset' = offset
         /\ \A h \in DOMAIN at : h # g => arrived'[h] = arrived[h]
BY DEF Executes, control

LEMMA FetchIs ==
  ASSUME NEW c, NEW j, Runs(c, j), GoodKernel(j), NEW g \in DOMAIN at, NEW l \in Items(j), Fetch(g, l),
         DOMAIN lfetch[g] = 0 .. Unit(j) - 1
  PROVE  LET r == GroupState(g)
             q == GroupState(g)'
         IN  /\ r.s = "fetch" /\ Arrives(r, q, l) /\ q.d = r.d /\ q.f = r.f /\ q.t = r.t /\ q.v = r.v
             /\ FetchEffect(j, g, r, q, l) /\ OthersStay(g) /\ DomainsKept /\ DOMAIN lfetch'[g] = 0 .. Unit(j) - 1
             /\ partial' = partial /\ results' = results /\ first_seg' = first_seg /\ gflags' = gflags
<1> DEFINE r == GroupState(g)
           q == GroupState(g)'
           mine == [o \in Mine(g, l) |-> base[g] + o]
<1>1. Executes(g, l, "fetch") /\ lfetch' = [lfetch EXCEPT ![g] = Override(@, mine)]
  BY DEF Fetch
<1>2. /\ ldata' = ldata /\ lflags' = lflags /\ lfirst' = lfirst /\ priv' = priv
      /\ partial' = partial /\ results' = results /\ first_seg' = first_seg /\ gflags' = gflags /\ output' = output
  BY DEF Fetch, global
<1>3. DOMAIN lfetch = DOMAIN at /\ DOMAIN arrived = DOMAIN at
  BY RunShape
<1>4. lfetch'[g] = Override(lfetch[g], mine) /\ DOMAIN lfetch' = DOMAIN lfetch
      /\ \A h \in DOMAIN at : h # g => lfetch'[h] = lfetch[h]
  BY <1>1, <1>3
<1>5. DomainsKept
  BY <1>1, <1>2, <1>3, <1>4, ExecutesIs DEF DomainsKept
<1>6. OthersStay(g)
  BY <1>1, <1>2, <1>3, <1>4, ExecutesIs DEF OthersStay, GroupState
<1>7. r.s = "fetch" /\ Arrives(r, q, l) /\ q.d = r.d /\ q.f = r.f /\ q.t = r.t /\ q.v = r.v
  BY <1>1, <1>2, <1>3, ExecutesIs, StateFields, StateFieldsNext DEF Arrives
<1>8. DOMAIN lfetch'[g] = 0 .. Unit(j) - 1
  BY <1>4 DEF Override
<1>9. FetchEffect(j, g, r, q, l)
  <2>1. ASSUME NEW o \in 0 .. Unit(j) - 1
        PROVE  lfetch'[g][o] = IF (o % j.wg) = l /\ base[g] + o < End(j, g) THEN base[g] + o ELSE lfetch[g][o]
    <3>1. o \in Mine(g, l) <=> (o % j.wg) = l /\ base[g] + o < End(j, g)
      BY MineIs
    <3> DEFINE M == Mine(g, l)
    <3> HIDE DEF M
    <3>2. lfetch'[g][o] = IF o \in M THEN base[g] + o ELSE lfetch[g][o]
      BY <1>4 DEF Override, M
    <3> QED
      BY <3>1, <3>2 DEF M
  <2>2. q.x = lfetch'[g] /\ r.x = lfetch[g] /\ r.b = base[g]
    BY StateFields, StateFieldsNext
  <2> QED
    BY <2>1, <2>2, Zenon DEF FetchEffect
<1> QED
  BY <1>2, <1>5, <1>6, <1>7, <1>8, <1>9

LEMMA ShapeFacts ==
  ASSUME NEW j, GoodKernel(j), NEW g \in Nat, UnitShape(j, g, GroupState(g))
  PROVE  /\ base[g] \in Nat /\ Begin(j, g) <= base[g] /\ offset[g] \in Nat \ {0} /\ arrived[g] \subseteq Items(j)
         /\ DOMAIN ldata[g] = (0 .. j.k) \X Items(j) /\ DOMAIN lflags[g] = Rows(j) \X Items(j)
         /\ DOMAIN lfirst[g] = Items(j) /\ DOMAIN priv[g] = Items(j)
         /\ \A l \in Items(j) : DOMAIN priv[g][l] = {"sum", "val", "k_group", "subtree", "interval"}
<1>1. LET r == GroupState(g) IN
        /\ r.b \in Nat /\ Begin(j, g) <= r.b /\ r.o \in Nat \ {0} /\ r.A \subseteq Items(j)
        /\ DOMAIN r.d = (0 .. j.k) \X Items(j) /\ DOMAIN r.f = Rows(j) \X Items(j)
        /\ DOMAIN r.t = Items(j) /\ DOMAIN r.v = Items(j)
        /\ \A l \in Items(j) : DOMAIN r.v[l] = {"sum", "val", "k_group", "subtree", "interval"}
  BY UnitNumbers DEF UnitShape
<1> QED
  BY <1>1, StateFields

(* What every segment leaves alone.                                        *)
Acts(g, l, segment) ==
  /\ GroupState(g).s = segment /\ Arrives(GroupState(g), GroupState(g)', l) /\ OthersStay(g) /\ DomainsKept
  /\ first_seg' = first_seg

LEMMA ActsIf ==
  ASSUME NEW c, NEW j, Runs(c, j), NEW g \in DOMAIN at, NEW l, NEW segment, Executes(g, l, segment),
         \A h \in DOMAIN at : h # g => /\ lfetch'[h] = lfetch[h] /\ ldata'[h] = ldata[h] /\ lflags'[h] = lflags[h]
                                       /\ lfirst'[h] = lfirst[h] /\ priv'[h] = priv[h],
         DOMAIN lfetch' = DOMAIN lfetch, DOMAIN ldata' = DOMAIN ldata, DOMAIN lflags' = DOMAIN lflags,
         DOMAIN lfirst' = DOMAIN lfirst, DOMAIN priv' = DOMAIN priv,
         DOMAIN ldata'[g] = DOMAIN ldata[g], DOMAIN lflags'[g] = DOMAIN lflags[g], DOMAIN lfirst'[g] = DOMAIN lfirst[g],
         DOMAIN priv'[g] = DOMAIN priv[g], \A i \in DOMAIN priv[g] : DOMAIN priv'[g][i] = DOMAIN priv[g][i],
         DOMAIN partial' = DOMAIN partial, DOMAIN results' = DOMAIN results, DOMAIN gflags' = DOMAIN gflags,
         first_seg' = first_seg, output' = output
  PROVE  Acts(g, l, segment)
<1>1. DOMAIN arrived = DOMAIN at
  BY RunShape
<1>2. DomainsKept
  BY <1>1, ExecutesIs DEF DomainsKept
<1>3. OthersStay(g)
  BY <1>1, ExecutesIs DEF OthersStay, GroupState
<1>4. GroupState(g).s = segment /\ Arrives(GroupState(g), GroupState(g)', l)
  BY <1>1, ExecutesIs, StateFields, StateFieldsNext DEF Arrives
<1> QED
  BY <1>2, <1>3, <1>4 DEF Acts

(* Every action has its effect on the state of the group.                  *)
LEMMA CarryIs ==
  ASSUME NEW c, NEW j, Runs(c, j), GoodKernel(j), NEW g \in DOMAIN at, g \in Nat, NEW l \in Items(j), UnitShape(j, g, GroupState(g)),
         CarryInSegmented(g, l)
  PROVE  /\ Acts(g, l, "carry") /\ CarryEffect(j, g, GroupState(g), GroupState(g)', l)
         /\ GroupState(g)'.x = GroupState(g).x /\ partial' = partial /\ results' = results /\ gflags' = gflags
<1>1. Executes(g, l, "carry")
  BY DEF CarryInSegmented
<1>2. /\ lfetch' = lfetch /\ lflags' = lflags /\ lfirst' = lfirst
      /\ partial' = partial /\ results' = results /\ first_seg' = first_seg /\ gflags' = gflags /\ output' = output
  BY DEF CarryInSegmented, global
<1>3. DOMAIN ldata = DOMAIN at /\ DOMAIN priv = DOMAIN at
  BY RunShape
<1>4. /\ DOMAIN priv[g] = Items(j)
      /\ \A i \in Items(j) : DOMAIN priv[g][i] = {"sum", "val", "k_group", "subtree", "interval"}
  BY ShapeFacts
<1>5. inp.k = j.k /\ WG = j.wg /\ inp.segmented = j.seg /\ interval_begin(g) = Begin(j, g)
  BY RunTerms
<1>6. priv' = [priv EXCEPT ![g][l].k_group = IF lflags[g][<<0, l>>] THEN base[g] + j.k * l ELSE NO_SEG_BOUNDARY]
  BY <1>5 DEF CarryInSegmented
<1>7. /\ priv'[g] = [priv[g] EXCEPT ![l].k_group = IF lflags[g][<<0, l>>] THEN base[g] + j.k * l ELSE NO_SEG_BOUNDARY]
      /\ DOMAIN priv' = DOMAIN priv /\ \A h \in DOMAIN at : h # g => priv'[h] = priv[h]
  BY <1>3, <1>6
<1>8. DOMAIN priv'[g] = DOMAIN priv[g] /\ \A i \in DOMAIN priv[g] : DOMAIN priv'[g][i] = DOMAIN priv[g][i]
  BY <1>4, <1>7
<1>9. ldata' = [ldata EXCEPT ![g] = CarryIn(g, l, @)]
  BY DEF CarryInSegmented
<1>10. ldata'[g] = CarryIn(g, l, ldata[g]) /\ DOMAIN ldata' = DOMAIN ldata /\ \A h \in DOMAIN at : h # g => ldata'[h] = ldata[h]
  BY <1>3, <1>9
<1>11. ldata'[g] = IF l = 0 /\ base[g] # Begin(j, g)
                     THEN [ldata[g] EXCEPT ![<<0, 0>>] =
                             SCAN_EXPR(ldata[g][<<j.k, j.wg - 1>>], @, j.seg /\ lflags[g][<<0, 0>>])]
                     ELSE ldata[g]
  BY <1>5, <1>10, Zenon DEF CarryIn
<1>12. DOMAIN ldata'[g] = DOMAIN ldata[g]
  BY <1>11
<1>13. Acts(g, l, "carry")
  BY <1>1, <1>2, <1>7, <1>8, <1>10, <1>12, ActsIf
<1>14. CarryEffect(j, g, GroupState(g), GroupState(g)', l)
  <2> DEFINE r == GroupState(g)
             q == GroupState(g)'
  <2>1. r.b = base[g] /\ r.o = offset[g] /\ r.d = ldata[g] /\ r.f = lflags[g] /\ r.t = lfirst[g] /\ r.v = priv[g]
    BY StateFields
  <2>2. q.d = ldata'[g] /\ q.f = lflags'[g] /\ q.t = lfirst'[g] /\ q.v = priv'[g]
    BY StateFieldsNext
  <2>3. SUFFICES CarryEffect(j, g, r, q, l)
    OBVIOUS
  <2> HIDE DEF r, q
  <2> QED
    BY <1>2, <1>7, <1>11, <2>1, <2>2 DEF CarryEffect
<1>15. GroupState(g)'.x = GroupState(g).x
  BY <1>2, StateFields, StateFieldsNext
<1> QED
  BY <1>2, <1>13, <1>14, <1>15

LEMMA FirstElem ==
  ASSUME NEW j, GoodKernel(j), NEW b \in Nat, NEW l \in Nat
  PROVE  b + j.k * l = Elem(j, b, 0, l) /\ \A k \in Rows(j) : b + (j.k * l + k) = Elem(j, b, k, l) /\ b + j.k * l + k = Elem(j, b, k, l)
<1>1. j.k \in Nat
  BY DEF GoodKernel
<1> DEFINE p == j.k * l
<1>2. p \in Nat
  BY <1>1
<1>3. \A k \in Rows(j) : k \in Nat
  BY RowNumbers
<1> HIDE DEF p
<1>4. b + p = b + (p + 0) /\ \A k \in Rows(j) : b + p + k = b + (p + k)
  BY <1>2, <1>3
<1> QED
  BY <1>4 DEF p, Elem

LEMMA ReadIs ==
  ASSUME NEW c, NEW j, Runs(c, j), GoodKernel(j), NEW g \in DOMAIN at, g \in Nat, NEW l \in Items(j), UnitShape(j, g, GroupState(g)),
         TreeRead(g, l)
  PROVE  /\ Acts(g, l, "tree_read") /\ ReadEffect(j, g, GroupState(g), GroupState(g)', l)
         /\ GroupState(g)'.x = GroupState(g).x /\ partial' = partial /\ results' = results /\ gflags' = gflags
<1>1. Executes(g, l, "tree_read")
  BY DEF TreeRead
<1>2. /\ lfetch' = lfetch /\ ldata' = ldata /\ lflags' = lflags /\ lfirst' = lfirst
      /\ partial' = partial /\ results' = results /\ first_seg' = first_seg /\ gflags' = gflags /\ output' = output
  BY DEF TreeRead, global
<1>3. DOMAIN priv = DOMAIN at
  BY RunShape
<1>4. /\ DOMAIN priv[g] = Items(j) /\ base[g] \in Nat
      /\ \A i \in Items(j) : DOMAIN priv[g][i] = {"sum", "val", "k_group", "subtree", "interval"}
  BY ShapeFacts
<1>5. inp.k = j.k /\ (InRange(g, inp.k * l) <=> Elem(j, base[g], 0, l) < End(j, g))
  <2>1. inp.k = j.k /\ (InRange(g, inp.k * l) <=> base[g] + inp.k * l < End(j, g))
    BY RunTerms
  <2>2. l \in Nat
    BY UnitNumbers
  <2>3. base[g] + j.k * l = Elem(j, base[g], 0, l)
    BY <1>4, <2>2, FirstElem
  <2> QED
    BY <2>1, <2>3
<1> DEFINE x == IF l - offset[g] >= 0 /\ Elem(j, base[g], 0, l) < End(j, g)
                  THEN SCAN_EXPR(ldata[g][<<j.k, l - offset[g]>>], priv[g][l].val, lfirst[g][l] # NO_SEG_BOUNDARY) ELSE priv[g][l].val
           y == IF l - offset[g] >= 0 THEN Least(lfirst[g][l], lfirst[g][l - offset[g]]) ELSE lfirst[g][l]
<1>6. priv' = [priv EXCEPT ![g][l].val = x, ![g][l].subtree = y]
  BY <1>3, <1>4, <1>5 DEF TreeRead
<1> HIDE DEF x, y
<1>7. /\ priv'[g] = [priv[g] EXCEPT ![l] = [priv[g][l] EXCEPT !.val = x, !.subtree = y]]
      /\ DOMAIN priv' = DOMAIN priv /\ \A h \in DOMAIN at : h # g => priv'[h] = priv[h]
  BY <1>3, <1>4, <1>6
<1>8. /\ \A i \in Items(j) : i # l => priv'[g][i] = priv[g][i]
      /\ priv'[g][l].val = x /\ priv'[g][l].subtree = y
      /\ priv'[g][l].interval = priv[g][l].interval /\ priv'[g][l].k_group = priv[g][l].k_group
      /\ DOMAIN priv'[g] = DOMAIN priv[g] /\ DOMAIN priv'[g][l] = DOMAIN priv[g][l]
  BY <1>4, <1>7
<1>9. DOMAIN priv'[g] = DOMAIN priv[g] /\ \A i \in DOMAIN priv[g] : DOMAIN priv'[g][i] = DOMAIN priv[g][i]
  BY <1>4, <1>8
<1>13. Acts(g, l, "tree_read")
  BY <1>1, <1>2, <1>7, <1>9, ActsIf
<1>14. ReadEffect(j, g, GroupState(g), GroupState(g)', l)
  <2> DEFINE r == GroupState(g)
             q == GroupState(g)'
  <2>1. r.b = base[g] /\ r.o = offset[g] /\ r.d = ldata[g] /\ r.f = lflags[g] /\ r.t = lfirst[g] /\ r.v = priv[g]
    BY StateFields
  <2>2. q.d = ldata'[g] /\ q.f = lflags'[g] /\ q.t = lfirst'[g] /\ q.v = priv'[g]
    BY StateFieldsNext
  <2>3. SUFFICES ReadEffect(j, g, r, q, l)
    OBVIOUS
  <2> HIDE DEF r, q
  <2> QED
    BY <1>2, <1>8, <2>1, <2>2 DEF ReadEffect, x, y
<1>15. GroupState(g)'.x = GroupState(g).x
  BY <1>2, StateFields, StateFieldsNext
<1> QED
  BY <1>2, <1>13, <1>14, <1>15

LEMMA WriteIs ==
  ASSUME NEW c, NEW j, Runs(c, j), GoodKernel(j), NEW g \in DOMAIN at, g \in Nat, NEW l \in Items(j), UnitShape(j, g, GroupState(g)),
         TreeWrite(g, l)
  PROVE  /\ Acts(g, l, "tree_write") /\ WriteEffect(j, g, GroupState(g), GroupState(g)', l)
         /\ GroupState(g)'.x = GroupState(g).x /\ partial' = partial /\ results' = results /\ gflags' = gflags
<1>1. Executes(g, l, "tree_write")
  BY DEF TreeWrite
<1>2. /\ lfetch' = lfetch /\ lflags' = lflags /\ priv' = priv
      /\ partial' = partial /\ results' = results /\ first_seg' = first_seg /\ gflags' = gflags /\ output' = output
  BY DEF TreeWrite, global
<1>3. DOMAIN ldata = DOMAIN at /\ DOMAIN lfirst = DOMAIN at
  BY RunShape
<1>4. DOMAIN ldata[g] = (0 .. j.k) \X Items(j) /\ DOMAIN lfirst[g] = Items(j) /\ j.k \in 0 .. j.k
  BY ShapeFacts DEF GoodKernel
<1>5. inp.k = j.k
  BY RunTerms
<1>6. ldata' = [ldata EXCEPT ![g][<<j.k, l>>] = priv[g][l].val] /\ lfirst' = [lfirst EXCEPT ![g][l] = priv[g][l].subtree]
  BY <1>5 DEF TreeWrite
<1>7. /\ ldata'[g] = [ldata[g] EXCEPT ![<<j.k, l>>] = priv[g][l].val]
      /\ DOMAIN ldata' = DOMAIN ldata /\ \A h \in DOMAIN at : h # g => ldata'[h] = ldata[h]
      /\ lfirst'[g] = [lfirst[g] EXCEPT ![l] = priv[g][l].subtree]
      /\ DOMAIN lfirst' = DOMAIN lfirst /\ \A h \in DOMAIN at : h # g => lfirst'[h] = lfirst[h]
  BY <1>3, <1>6
<1>8. /\ \A i \in Items(j), k \in 0 .. j.k : i # l \/ k # j.k => ldata'[g][<<k, i>>] = ldata[g][<<k, i>>]
      /\ \A i \in Items(j) : i # l => lfirst'[g][i] = lfirst[g][i]
      /\ ldata'[g][<<j.k, l>>] = priv[g][l].val /\ lfirst'[g][l] = priv[g][l].subtree
      /\ DOMAIN ldata'[g] = DOMAIN ldata[g] /\ DOMAIN lfirst'[g] = DOMAIN lfirst[g]
  BY <1>4, <1>7
<1>13. Acts(g, l, "tree_write")
  BY <1>1, <1>2, <1>7, <1>8, ActsIf
<1>14. WriteEffect(j, g, GroupState(g), GroupState(g)', l)
  BY <1>2, <1>8, StateFields, StateFieldsNext DEF WriteEffect
<1>15. GroupState(g)'.x = GroupState(g).x
  BY <1>2, StateFields, StateFieldsNext
<1> QED
  BY <1>2, <1>13, <1>14, <1>15

(* The recursion of ScanAlongK has a solution.                             *)
SumRow(p, n, dat, flg, sg, l, valid) ==
  p = [k \in 0 .. n |->
         IF k = 0 THEN dat[<<0, l>>]
         ELSE IF k \in valid THEN SCAN_EXPR(p[k - 1], dat[<<k, l>>], sg /\ flg[<<k, l>>]) ELSE p[k - 1]]

LEMMA AlongSum ==
  ASSUME NEW dat, NEW flg, NEW sg, NEW l, NEW valid, NEW n \in Nat
  PROVE  \E p : SumRow(p, n, dat, flg, sg, l, valid)
<1> DEFINE D == {i \in Nat : \E p : SumRow(p, i, dat, flg, sg, l, valid)}
<1>1. 0 \in D
  <2> DEFINE p == [k \in 0 .. 0 |-> dat[<<0, l>>]]
  <2>1. SumRow(p, 0, dat, flg, sg, l, valid)
    BY DEF SumRow
  <2> QED
    BY <2>1
<1>2. ASSUME NEW i \in Nat, i \in D PROVE i + 1 \in D
  <2>1. PICK p : SumRow(p, i, dat, flg, sg, l, valid)
    BY <1>2
  <2> DEFINE new(v) == IF i + 1 \in valid THEN SCAN_EXPR(v, dat[<<i + 1, l>>], sg /\ flg[<<i + 1, l>>]) ELSE v
             p2 == [k \in 0 .. i + 1 |-> IF k = i + 1 THEN new(p[i]) ELSE p[k]]
             body(f, k) == IF k = 0 THEN dat[<<0, l>>]
                           ELSE IF k \in valid THEN SCAN_EXPR(f[k - 1], dat[<<k, l>>], sg /\ flg[<<k, l>>]) ELSE f[k - 1]
  <2>2. \A k \in 0 .. i : p2[k] = p[k]
    OBVIOUS
  <2>3. \A k \in 0 .. i : p[k] = body(p, k)
    BY <2>1 DEF SumRow
  <2>4. \A k \in 0 .. i : body(p2, k) = body(p, k)
    <3>1. \A k \in 0 .. i : k = 0 \/ p2[k - 1] = p[k - 1]
      BY <2>2
    <3> HIDE DEF p2
    <3> QED
      BY <3>1, Zenon
  <2>5. p2[i + 1] = body(p2, i + 1)
    <3>1. p2[i] = p[i] /\ i + 1 # 0 /\ (i + 1) - 1 = i /\ p2[i + 1] = new(p[i])
      OBVIOUS
    <3> HIDE DEF p2
    <3> QED
      BY <3>1, Zenon
  <2>6. \A k \in 0 .. i + 1 : p2[k] = body(p2, k)
    <3>1. \A k \in 0 .. i + 1 : k \in 0 .. i \/ k = i + 1
      OBVIOUS
    <3>2. \A k \in 0 .. i : p2[k] = body(p2, k)
      <4> HIDE DEF p2, body
      <4> QED
        BY <2>2, <2>3, <2>4, Zenon
    <3> HIDE DEF p2, body
    <3> QED
      BY <2>5, <3>1, <3>2, Zenon
  <2>7. p2 = [k \in 0 .. i + 1 |-> p2[k]]
    OBVIOUS
  <2>8. p2 = [k \in 0 .. i + 1 |-> body(p2, k)]
    <3> HIDE DEF p2, body
    <3> QED
      BY <2>6, <2>7
  <2>9. SumRow(p2, i + 1, dat, flg, sg, l, valid)
    <3> HIDE DEF p2
    <3> QED
      BY <2>8 DEF SumRow
  <2> QED
    BY <2>9
<1> HIDE DEF D
<1>3. Nat \subseteq D
  BY <1>1, <1>2, NatSetInduction
<1> QED
  BY <1>3 DEF D

LEMMA KGroupNumber ==
  ASSUME NEW j, GoodKernel(j), NEW g \in Nat, NEW l \in Items(j), UnitInv(j, g, GroupState(g)), at[g] = "along_k", l \notin arrived[g]
  PROVE  priv[g][l].k_group \in Nat
<1> DEFINE r == GroupState(g)
<1>1. r.s = at[g] /\ r.A = arrived[g] /\ r.v = priv[g]
  BY StateFields
<1>2. UnitInv(j, g, r) /\ l \notin r.A /\ r.s = "along_k"
  BY <1>1
<1> SUFFICES r.v[l].k_group \in Nat
  BY <1>1
<1> HIDE DEF r
<1>3. AlongInv(j, g, r) /\ UnitShape(j, g, r)
  BY <1>2 DEF UnitInv
<1>4. KGroup(j, g, r, l, Elem(j, r.b, 0, l))
  BY <1>2, <1>3 DEF AlongInv
<1>5. r.b \in Nat /\ l \in Nat
  BY <1>3, UnitNumbers
<1>6. Elem(j, r.b, 0, l) \in Nat /\ NO_SEG_BOUNDARY \in Nat
  <2>1. NO_SEG_BOUNDARY \in Nat
    BY KernelNumbers
  <2>2. 0 \in Rows(j)
    BY DEF Rows, GoodKernel
  <2> QED
    BY <1>5, <2>1, <2>2, ElemIs, Zenon
<1> QED
  BY <1>4, <1>6 DEF KGroup, Finds

LEMMA AlongIs ==
  ASSUME NEW c, NEW j, Runs(c, j), GoodKernel(j), NEW g \in DOMAIN at, g \in Nat, NEW l \in Items(j), UnitInv(j, g, GroupState(g)),
         ScanAlongK(g, l)
  PROVE  /\ Acts(g, l, "along_k") /\ \E sum, first : AlongEffect(j, g, GroupState(g), GroupState(g)', l, sum, first)
         /\ GroupState(g)'.x = GroupState(g).x /\ partial' = partial /\ results' = results /\ gflags' = gflags
<1>1. Executes(g, l, "along_k")
  BY Zenon DEF ScanAlongK
<1>2. /\ lfetch' = lfetch /\ lflags' = lflags
      /\ partial' = partial /\ results' = results /\ first_seg' = first_seg /\ gflags' = gflags /\ output' = output
  BY Zenon DEF ScanAlongK, global
<1>3. DOMAIN ldata = DOMAIN at /\ DOMAIN priv = DOMAIN at /\ DOMAIN lfirst = DOMAIN at /\ DOMAIN arrived = DOMAIN at
  BY RunShape
<1>4. /\ DOMAIN priv[g] = Items(j) /\ base[g] \in Nat /\ DOMAIN lfirst[g] = Items(j)
      /\ \A i \in Items(j) : DOMAIN priv[g][i] = {"sum", "val", "k_group", "subtree", "interval"}
      /\ DOMAIN ldata[g] = (0 .. j.k) \X Items(j)
  <2>1. UnitShape(j, g, GroupState(g))
    BY DEF UnitInv
  <2> QED
    BY <2>1, ShapeFacts
<1>5. inp.k = j.k /\ Ks = Rows(j) /\ inp.segmented = j.seg /\ \A i : InRange(g, i) <=> base[g] + i < End(j, g)
  BY RunTerms
<1>6. l \in Nat /\ j.k \in Nat \ {0}
  BY DEF Items, GoodKernel
<1>7. \A k \in Rows(j) : base[g] + (j.k * l + k) = Elem(j, base[g], k, l) /\ base[g] + j.k * l + k = Elem(j, base[g], k, l)
                         /\ Elem(j, base[g], k, l) \in Nat
  <2>1. \A k \in Rows(j) : base[g] + (j.k * l + k) = Elem(j, base[g], k, l) /\ base[g] + j.k * l + k = Elem(j, base[g], k, l)
    BY <1>4, <1>6, FirstElem, Zenon
  <2>2. \A k \in Rows(j) : Elem(j, base[g], k, l) \in Nat
    BY <1>4, <1>6, RowElems, Zenon
  <2> QED
    BY <2>1, <2>2
<1> DEFINE E(k) == Elem(j, base[g], k, l)
           valid == {k \in Ks : k > 0 /\ InRange(g, inp.k * l + k)}
           p == CHOOSE f : f = [k \in Ks |->
                  IF k = 0 THEN ldata[g][<<0, l>>]
                  ELSE IF k \in valid
                         THEN SCAN_EXPR(f[k - 1], ldata[g][<<k, l>>], inp.segmented /\ lflags[g][<<k, l>>])
                         ELSE f[k - 1]]
           total == p[inp.k - 1]
           found == {base[g] + inp.k * l + k : k \in {i \in valid : inp.segmented /\ lflags[g][<<i, l>>]}} \cup {priv[g][l].k_group}
           first == CHOOSE i \in found : \A e \in found : i <= e
<1>10. /\ ldata' = [ldata EXCEPT ![g] = Override(@, [d \in (valid \X {l}) \cup {<<inp.k, l>>} |-> IF d[1] = inp.k THEN total ELSE p[d[1]]])]
       /\ lfirst' = [lfirst EXCEPT ![g][l] = first]
       /\ priv' = [priv EXCEPT ![g][l].k_group = first, ![g][l].sum = total, ![g][l].val = total]
  BY Zenon DEF ScanAlongK
<1> DEFINE Solves(f) == f = [k \in Ks |->
                          IF k = 0 THEN ldata[g][<<0, l>>]
                          ELSE IF k \in valid
                                 THEN SCAN_EXPR(f[k - 1], ldata[g][<<k, l>>], inp.segmented /\ lflags[g][<<k, l>>])
                                 ELSE f[k - 1]]
<1>11. Solves(p)
  <2> HIDE DEF valid
  <2>1. inp.k - 1 \in Nat
    BY <1>5, <1>6
  <2>2. PICK f : SumRow(f, inp.k - 1, ldata[g], lflags[g], inp.segmented, l, valid)
    BY <2>1, AlongSum
  <2>3. Solves(f)
    BY <2>2, Zenon DEF SumRow, Ks
  <2>4. p = CHOOSE h : Solves(h)
    OBVIOUS
  <2> HIDE DEF p, Solves
  <2> QED
    BY <2>3, <2>4
<1>12. valid = {k \in Rows(j) : k > 0 /\ E(k) < End(j, g)}
  BY <1>5, <1>7
<1> HIDE DEF p, valid
<1>13. /\ p[0] = ldata[g][<<0, l>>] /\ 0 \in Rows(j)
       /\ \A k \in Rows(j) \ {0} :
            p[k] = IF E(k) < End(j, g) THEN SCAN_EXPR(p[k - 1], ldata[g][<<k, l>>], j.seg /\ lflags[g][<<k, l>>]) ELSE p[k - 1]
  <2>1. 0 \in Rows(j)
    BY <1>6 DEF Rows
  <2>2. \A k \in Rows(j) \ {0} : k \in valid <=> E(k) < End(j, g)
    BY <1>12, RowNumbers
  <2>3. \A k \in Ks : p[k] = IF k = 0 THEN ldata[g][<<0, l>>]
                             ELSE IF k \in valid
                                    THEN SCAN_EXPR(p[k - 1], ldata[g][<<k, l>>], inp.segmented /\ lflags[g][<<k, l>>])
                                    ELSE p[k - 1]
    BY <1>11
  <2> HIDE DEF E
  <2> QED
    BY <1>5, <2>1, <2>2, <2>3
<1>14. found = {E(k) : k \in {i \in Rows(j) \ {0} : E(i) < End(j, g) /\ j.seg /\ lflags[g][<<i, l>>]}} \cup {priv[g][l].k_group}
  <2>1. \A k \in Rows(j) : base[g] + inp.k * l + k = E(k)
    BY <1>5, <1>7, Zenon
  <2>2. \A k \in Rows(j) \ {0} : k \in valid <=> E(k) < End(j, g)
    BY <1>12, RowNumbers
  <2>3. valid \subseteq Rows(j) \ {0}
    BY <1>12, RowNumbers
  <2>4. {i \in valid : inp.segmented /\ lflags[g][<<i, l>>]}
          = {i \in Rows(j) \ {0} : E(i) < End(j, g) /\ j.seg /\ lflags[g][<<i, l>>]}
    <3> HIDE DEF E
    <3> QED
      BY <1>5, <2>2, <2>3
  <2> DEFINE V == {i \in valid : inp.segmented /\ lflags[g][<<i, l>>]}
  <2>5. \A k \in V : base[g] + inp.k * l + k = E(k)
    BY <2>1, <2>3
  <2>6. {base[g] + inp.k * l + k : k \in V} = {E(k) : k \in V}
    <3> HIDE DEF V, E
    <3> QED
      BY <2>5
  <2> QED
    BY <2>4, <2>6, Zenon
<1>15. found \subseteq Nat /\ found # {}
  <2>1. priv[g][l].k_group \in Nat
    BY <1>1, <1>3, ExecutesIs, KGroupNumber
  <2> HIDE DEF E
  <2>2. \A k \in Rows(j) : E(k) \in Nat
    BY <1>7 DEF E
  <2> HIDE DEF found
  <2> QED
    BY <1>14, <2>1, <2>2
<1>16. first \in found /\ \A i \in found : first <= i
  <2> HIDE DEF found
  <2>1. \E i \in found : \A e \in found : i <= e
    BY <1>15, LeastNat
  <2> QED
    BY <2>1
<1> HIDE DEF found
<1> HIDE DEF first
<1>17. /\ \A i \in Items(j), k \in 0 .. j.k : i # l => ldata'[g][<<k, i>>] = ldata[g][<<k, i>>]
       /\ \A k \in Rows(j) : E(k) < End(j, g) => ldata'[g][<<k, l>>] = p[k]
       /\ ldata'[g][<<j.k, l>>] = p[j.k - 1]
       /\ DOMAIN ldata' = DOMAIN ldata /\ \A h \in DOMAIN at : h # g => ldata'[h] = ldata[h]
       /\ DOMAIN ldata'[g] = DOMAIN ldata[g]
  <2> DEFINE cells == (valid \X {l}) \cup {<<j.k, l>>}
             val == [d \in cells |-> IF d[1] = j.k THEN total ELSE p[d[1]]]
  <2>1. ldata'[g] = Override(ldata[g], val) /\ DOMAIN ldata' = DOMAIN ldata /\ \A h \in DOMAIN at : h # g => ldata'[h] = ldata[h]
    <3> HIDE DEF cells
    <3>1. ldata' = [ldata EXCEPT ![g] = Override(@, val)]
      BY <1>5, <1>10 DEF cells
    <3> QED
      BY <1>3, <3>1
  <2>2. DOMAIN val = cells /\ \A d \in cells : val[d] = IF d[1] = j.k THEN total ELSE p[d[1]]
    <3> HIDE DEF cells
    <3> QED
      OBVIOUS
  <2>3. ldata'[g] = [x \in DOMAIN ldata[g] |-> IF x \in cells THEN val[x] ELSE ldata[g][x]]
    <3> HIDE DEF val
    <3> QED
      BY <2>1, <2>2 DEF Override
  <2>4. \A k, i : <<k, i>> \in cells <=> i = l /\ (k = j.k \/ k \in valid)
    OBVIOUS
  <2>5. \A i \in Items(j), k \in 0 .. j.k : ldata'[g][<<k, i>>] = IF <<k, i>> \in cells THEN val[<<k, i>>] ELSE ldata[g][<<k, i>>]
    <3> HIDE DEF val, cells
    <3> QED
      BY <1>4, <2>3
  <2> HIDE DEF cells, val
  <2>6. \A i \in Items(j), k \in 0 .. j.k : i # l => ldata'[g][<<k, i>>] = ldata[g][<<k, i>>]
    BY <2>4, <2>5
  <2>7. ASSUME NEW k \in Rows(j), E(k) < End(j, g) PROVE ldata'[g][<<k, l>>] = p[k]
    <3>1. k \in 0 .. j.k /\ k # j.k
      BY <1>6 DEF Rows
    <3> HIDE DEF E
    <3>2. CASE k = 0
      <4>1. <<0, l>> \notin cells
        BY <1>6, <1>12, <2>4
      <4> QED
        BY <1>13, <2>5, <3>1, <3>2, <4>1
    <3>3. CASE k # 0
      <4>1. k \in valid
        BY <1>12, <2>7, <3>3, RowNumbers
      <4>2. <<k, l>> \in cells /\ <<k, l>>[1] = k
        BY <2>4, <4>1
      <4> QED
        BY <2>2, <2>5, <3>1, <4>2
    <3> QED
      BY <3>2, <3>3
  <2>8. ldata'[g][<<j.k, l>>] = p[j.k - 1]
    <3>1. <<j.k, l>> \in cells /\ <<j.k, l>>[1] = j.k /\ j.k \in 0 .. j.k
      BY <1>6, <2>4
    <3>2. val[<<j.k, l>>] = total
      BY <2>2, <3>1
    <3> QED
      BY <1>5, <2>5, <3>1, <3>2
  <2>9. DOMAIN ldata'[g] = DOMAIN ldata[g]
    BY <2>3
  <2> QED
    BY <2>1, <2>6, <2>7, <2>8, <2>9
<1> HIDE DEF total
<1>18. /\ lfirst'[g] = [lfirst[g] EXCEPT ![l] = first]
       /\ DOMAIN lfirst' = DOMAIN lfirst /\ \A h \in DOMAIN at : h # g => lfirst'[h] = lfirst[h]
       /\ priv'[g] = [priv[g] EXCEPT ![l] = [priv[g][l] EXCEPT !.k_group = first, !.sum = total, !.val = total]]
       /\ DOMAIN priv' = DOMAIN priv /\ \A h \in DOMAIN at : h # g => priv'[h] = priv[h]
  BY <1>3, <1>4, <1>10
<1>19. /\ \A i \in Items(j) : i # l => priv'[g][i] = priv[g][i] /\ lfirst'[g][i] = lfirst[g][i]
       /\ lfirst'[g][l] = first /\ priv'[g][l].k_group = first /\ priv'[g][l].val = total
       /\ priv'[g][l].interval = priv[g][l].interval
       /\ DOMAIN priv'[g] = DOMAIN priv[g] /\ DOMAIN priv'[g][l] = DOMAIN priv[g][l] /\ DOMAIN lfirst'[g] = DOMAIN lfirst[g]
  BY <1>4, <1>18
<1>20. \A i \in DOMAIN priv[g] : DOMAIN priv'[g][i] = DOMAIN priv[g][i]
  BY <1>4, <1>19
<1>21. Acts(g, l, "along_k")
  BY <1>1, <1>2, <1>17, <1>18, <1>19, <1>20, ActsIf
<1>22. AlongEffect(j, g, GroupState(g), GroupState(g)', l, p, first)
  <2> DEFINE r == GroupState(g)
             q == GroupState(g)'
  <2>1. r.b = base[g] /\ r.o = offset[g] /\ r.d = ldata[g] /\ r.f = lflags[g] /\ r.t = lfirst[g] /\ r.v = priv[g]
    BY StateFields
  <2>2. q.d = ldata'[g] /\ q.f = lflags'[g] /\ q.t = lfirst'[g] /\ q.v = priv'[g]
    BY StateFieldsNext
  <2>3. SUFFICES AlongEffect(j, g, r, q, l, p, first)
    OBVIOUS
  <2> HIDE DEF r, q
  <2>4. RowSums(j, g, r, l, p)
    BY <1>13, <2>1, Zenon DEF RowSums
  <2>5. FirstFlag(j, g, r, l, first)
    BY <1>14, <1>16, <2>1, Zenon DEF FirstFlag
  <2>6. total = p[j.k - 1]
    BY <1>5 DEF total
  <2>7. \A i \in Items(j) : /\ q.v[i].interval = r.v[i].interval
                            /\ i # l => q.v[i] = r.v[i] /\ q.t[i] = r.t[i]
    BY <1>19, <2>1, <2>2
  <2> QED
    BY <1>2, <1>17, <1>19, <2>1, <2>2, <2>4, <2>5, <2>6, <2>7 DEF AlongEffect
<1>23. GroupState(g)'.x = GroupState(g).x
  BY <1>2, StateFields, StateFieldsNext
<1> QED
  BY <1>2, <1>21, <1>22, <1>23

LEMMA UpdateIs ==
  ASSUME NEW c, NEW j, Runs(c, j), GoodKernel(j), NEW g \in DOMAIN at, g \in Nat, NEW l \in Items(j), UnitShape(j, g, GroupState(g)),
         UpdateLocal(g, l)
  PROVE  /\ Acts(g, l, "update_local") /\ UpdateEffect(j, g, GroupState(g), GroupState(g)', l)
         /\ GroupState(g)'.x = GroupState(g).x /\ partial' = partial /\ results' = results /\ gflags' = gflags
<1>1. Executes(g, l, "update_local")
  BY Zenon DEF UpdateLocal
<1>2. /\ lfetch' = lfetch /\ lflags' = lflags /\ lfirst' = lfirst
      /\ partial' = partial /\ results' = results /\ first_seg' = first_seg /\ gflags' = gflags /\ output' = output
  BY Zenon DEF UpdateLocal, global
<1>3. DOMAIN ldata = DOMAIN at /\ DOMAIN priv = DOMAIN at
  BY RunShape
<1>4. /\ DOMAIN priv[g] = Items(j) /\ base[g] \in Nat
      /\ \A i \in Items(j) : DOMAIN priv[g][i] = {"sum", "val", "k_group", "subtree", "interval"}
      /\ DOMAIN ldata[g] = (0 .. j.k) \X Items(j)
  BY ShapeFacts
<1>5. inp.k = j.k /\ Ks = Rows(j) /\ inp.segmented = j.seg /\ WG = j.wg /\ \A i : InRange(g, i) <=> base[g] + i < End(j, g)
  BY RunTerms
<1>6. l \in Nat /\ j.k \in Nat \ {0} /\ 0 \in Items(j)
  BY DEF Items, GoodKernel
<1> DEFINE E(k) == Elem(j, base[g], k, l)
           sum == ldata[g][<<j.k, l - 1>>]
           valid == {k \in Ks : InRange(g, inp.k * l + k)}
           new == [d \in valid \X {l} |-> SCAN_EXPR(sum, ldata[g][d], inp.segmented /\ base[g] + inp.k * l + d[1] >= priv[g][l].k_group)]
<1>7. \A k \in Rows(j) : base[g] + (inp.k * l + k) = E(k) /\ base[g] + inp.k * l + k = E(k)
  <2>1. \A k \in Rows(j) : base[g] + (j.k * l + k) = Elem(j, base[g], k, l) /\ base[g] + j.k * l + k = Elem(j, base[g], k, l)
    BY <1>4, <1>6, FirstElem, Zenon
  <2> QED
    BY <1>5, <2>1
<1>8. /\ ldata' = IF l = 0 THEN ldata ELSE [ldata EXCEPT ![g] = Override(@, new)]
      /\ priv' = IF l = 0 THEN [priv EXCEPT ![g][0].interval = Least(@, lfirst[g][j.wg - 1])] ELSE priv
  BY <1>5, Zenon DEF UpdateLocal
<1>9. \A k : k \in valid <=> k \in Rows(j) /\ E(k) < End(j, g)
  BY <1>5, <1>7
<1> HIDE DEF valid
<1>10. /\ \A i \in Items(j), k \in 0 .. j.k : i # l \/ k = j.k \/ l = 0 => ldata'[g][<<k, i>>] = ldata[g][<<k, i>>]
       /\ l # 0 => \A k \in Rows(j) : ldata'[g][<<k, l>>] =
                      IF E(k) < End(j, g) THEN SCAN_EXPR(sum, ldata[g][<<k, l>>], j.seg /\ E(k) >= priv[g][l].k_group)
                      ELSE ldata[g][<<k, l>>]
       /\ DOMAIN ldata' = DOMAIN ldata /\ \A h \in DOMAIN at : h # g => ldata'[h] = ldata[h]
       /\ DOMAIN ldata'[g] = DOMAIN ldata[g]
  <2>1. CASE l = 0
    BY <1>8, <2>1
  <2>2. CASE l # 0
    <3> DEFINE cells == valid \X {l}
    <3>1. DOMAIN new = cells /\ \A d \in cells : new[d] = SCAN_EXPR(sum, ldata[g][d], inp.segmented /\ base[g] + inp.k * l + d[1] >= priv[g][l].k_group)
      <4> HIDE DEF sum
      <4> QED
        OBVIOUS
    <3>2. \A k, i : <<k, i>> \in cells <=> i = l /\ k \in valid
      OBVIOUS
    <3> HIDE DEF new
    <3>3. ldata'[g] = Override(ldata[g], new) /\ DOMAIN ldata' = DOMAIN ldata /\ \A h \in DOMAIN at : h # g => ldata'[h] = ldata[h]
      BY <1>3, <1>8, <2>2
    <3> HIDE DEF cells
    <3>4. ldata'[g] = [x \in DOMAIN ldata[g] |-> IF x \in cells THEN new[x] ELSE ldata[g][x]]
      BY <3>1, <3>3 DEF Override
    <3>5. \A i \in Items(j), k \in 0 .. j.k : ldata'[g][<<k, i>>] = IF <<k, i>> \in cells THEN new[<<k, i>>] ELSE ldata[g][<<k, i>>]
      BY <1>4, <3>4
    <3>6. j.k \notin Rows(j)
      BY <1>6 DEF Rows
    <3>7. \A i \in Items(j), k \in 0 .. j.k : i # l \/ k = j.k => ldata'[g][<<k, i>>] = ldata[g][<<k, i>>]
      BY <1>9, <3>2, <3>5, <3>6
    <3>8. ASSUME NEW k \in Rows(j)
          PROVE  ldata'[g][<<k, l>>] =
                      IF E(k) < End(j, g) THEN SCAN_EXPR(sum, ldata[g][<<k, l>>], j.seg /\ E(k) >= priv[g][l].k_group)
                      ELSE ldata[g][<<k, l>>]
      <4>1. k \in 0 .. j.k
        BY <1>6 DEF Rows
      <4>2. ldata'[g][<<k, l>>] = IF <<k, l>> \in cells THEN new[<<k, l>>] ELSE ldata[g][<<k, l>>]
        BY <3>5, <4>1
      <4>3. base[g] + inp.k * l + k = E(k)
        BY <1>7
      <4>4. <<k, l>> \in cells <=> E(k) < End(j, g)
        BY <1>9, <3>2
      <4>5. <<k, l>> \in cells => new[<<k, l>>] = SCAN_EXPR(sum, ldata[g][<<k, l>>], inp.segmented /\ base[g] + inp.k * l + k >= priv[g][l].k_group)
        <5>1. <<k, l>>[1] = k
          OBVIOUS
        <5> HIDE DEF sum
        <5> QED
          BY <3>1, <5>1
      <4>6. <<k, l>> \in cells => new[<<k, l>>] = SCAN_EXPR(sum, ldata[g][<<k, l>>], j.seg /\ E(k) >= priv[g][l].k_group)
        <5> HIDE DEF sum, E
        <5> QED
          BY <1>5, <4>3, <4>5
      <4> HIDE DEF sum, E
      <4> QED
        BY <4>2, <4>4, <4>6
    <3>9. DOMAIN ldata'[g] = DOMAIN ldata[g]
      BY <3>4
    <3> HIDE DEF sum, E
    <3> QED
      BY <2>2, <3>3, <3>7, <3>8, <3>9
  <2> QED
    BY <2>1, <2>2
<1>11. /\ DOMAIN priv' = DOMAIN priv /\ \A h \in DOMAIN at : h # g => priv'[h] = priv[h]
       /\ \A i \in Items(j) : priv'[g][i].k_group = priv[g][i].k_group /\ (i # 0 => priv'[g][i] = priv[g][i])
       /\ l # 0 => priv'[g] = priv[g]
       /\ priv'[g][0].interval = IF l = 0 THEN Least(priv[g][0].interval, lfirst[g][j.wg - 1]) ELSE priv[g][0].interval
       /\ DOMAIN priv'[g] = DOMAIN priv[g] /\ \A i \in Items(j) : DOMAIN priv'[g][i] = DOMAIN priv[g][i]
  <2>1. CASE l # 0
    BY <1>8, <2>1
  <2>2. CASE l = 0
    <3> DEFINE x == Least(priv[g][0].interval, lfirst[g][j.wg - 1])
    <3>1. priv' = [priv EXCEPT ![g][0].interval = x]
      BY <1>3, <1>4, <1>6, <1>8, <2>2
    <3> HIDE DEF x
    <3>2. /\ priv'[g] = [priv[g] EXCEPT ![0] = [priv[g][0] EXCEPT !.interval = x]]
          /\ DOMAIN priv' = DOMAIN priv /\ \A h \in DOMAIN at : h # g => priv'[h] = priv[h]
      BY <1>3, <3>1
    <3>3. /\ \A i \in Items(j) : i # 0 => priv'[g][i] = priv[g][i]
          /\ priv'[g][0] = [priv[g][0] EXCEPT !.interval = x] /\ DOMAIN priv'[g] = DOMAIN priv[g]
      BY <1>4, <1>6, <3>2
    <3>4. priv'[g][0].interval = x /\ priv'[g][0].k_group = priv[g][0].k_group /\ DOMAIN priv'[g][0] = DOMAIN priv[g][0]
      BY <1>4, <1>6, <3>3
    <3> QED
      BY <2>2, <3>2, <3>3, <3>4 DEF x
  <2> QED
    BY <2>1, <2>2
<1>13. Acts(g, l, "update_local")
  BY <1>1, <1>2, <1>4, <1>10, <1>11, ActsIf
<1>14. UpdateEffect(j, g, GroupState(g), GroupState(g)', l)
  <2> DEFINE r == GroupState(g)
             q == GroupState(g)'
  <2>1. r.b = base[g] /\ r.o = offset[g] /\ r.d = ldata[g] /\ r.f = lflags[g] /\ r.t = lfirst[g] /\ r.v = priv[g]
    BY StateFields
  <2>2. q.d = ldata'[g] /\ q.f = lflags'[g] /\ q.t = lfirst'[g] /\ q.v = priv'[g]
    BY StateFieldsNext
  <2>3. SUFFICES UpdateEffect(j, g, r, q, l)
    OBVIOUS
  <2> HIDE DEF r, q
  <2> QED
    BY <1>2, <1>10, <1>11, <2>1, <2>2 DEF UpdateEffect
<1>15. GroupState(g)'.x = GroupState(g).x
  BY <1>2, StateFields, StateFieldsNext
<1> QED
  BY <1>2, <1>13, <1>14, <1>15

(* The indices that item l goes through, in global memory.                 *)
LEMMA MineInGlobal ==
  ASSUME NEW c, NEW j, Runs(c, j), GoodKernel(j), NEW g \in Nat, base[g] \in Nat, Begin(j, g) <= base[g], NEW l \in Items(j)
  PROVE  /\ \A i \in Span(j, g) : i \in {base[g] + o : o \in Mine(g, l)} <=> InUnit(j, GroupState(g), i) /\ ((i - base[g]) % j.wg) = l
         /\ \A h \in Nat : h # g => \A i \in Span(j, h) : i \notin {base[g] + o : o \in Mine(g, l)}
<1> DEFINE b == base[g]
           S == {b + o : o \in Mine(g, l)}
<1>1. Unit(j) \in Nat /\ \A h \in Nat : Begin(j, h) \in Nat /\ Limit(j, h) \in Nat /\ End(j, h) \in Nat /\ Limit(j, h) <= End(j, h)
                                        /\ End(j, h) <= Begin(j, h) + j.size /\ j.size \in Nat
  BY KernelNumbers
<1>2. \A i : i \in S <=> \E o \in 0 .. Unit(j) - 1 : (o % j.wg) = l /\ b + o < End(j, g) /\ i = b + o
  <2>1. \A o : o \in Mine(g, l) <=> /\ o \in 0 .. Unit(j) - 1 /\ (o % j.wg) = l /\ b + o < End(j, g)
    BY MineIs, Zenon
  <2> HIDE DEF b
  <2> QED
    BY <2>1
<1>3. GroupState(g).b = b
  BY StateFields
<1>4. b \in Nat /\ Begin(j, g) <= b
  OBVIOUS
<1> HIDE DEF S
<1> HIDE DEF b
<1>5. ASSUME NEW i \in Span(j, g)
      PROVE  i \in S <=> InUnit(j, GroupState(g), i) /\ ((i - b) % j.wg) = l
  <2>1. i \in Nat /\ i < End(j, g)
    BY <1>1 DEF Span
  <2>2. ASSUME i \in S PROVE InUnit(j, GroupState(g), i) /\ ((i - b) % j.wg) = l
    <3>1. PICK o \in 0 .. Unit(j) - 1 : (o % j.wg) = l /\ i = b + o
      BY <1>2, <2>2
    <3>2. i - b = o /\ b <= i /\ i < b + Unit(j)
      BY <1>1, <1>4, <3>1
    <3> QED
      BY <1>3, <3>1, <3>2 DEF InUnit
  <2>3. ASSUME InUnit(j, GroupState(g), i), ((i - b) % j.wg) = l PROVE i \in S
    <3>1. i - b \in 0 .. Unit(j) - 1 /\ b + (i - b) = i
      BY <1>1, <1>3, <1>4, <2>1, <2>3 DEF InUnit
    <3> QED
      BY <1>2, <2>1, <2>3, <3>1
  <2> QED
    BY <2>2, <2>3
<1>6. ASSUME NEW h \in Nat, h # g, NEW i \in Span(j, h) PROVE i \notin S
  <2>1. ~(Begin(j, g) <= i /\ i < Begin(j, g) + j.size)
    BY <1>6, IntervalsApart
  <2>2. ASSUME i \in S PROVE FALSE
    <3>1. PICK o \in 0 .. Unit(j) - 1 : b + o < End(j, g) /\ i = b + o
      BY <1>2, <2>2
    <3>2. Begin(j, g) \in Nat /\ End(j, g) \in Nat /\ End(j, g) <= Begin(j, g) + j.size /\ j.size \in Nat
      BY <1>1
    <3> QED
      BY <1>1, <1>4, <2>1, <3>1, <3>2
  <2> QED
    BY <2>2
<1> QED
  BY <1>5, <1>6 DEF S, b

LEMMA InGlobal ==
  ASSUME NEW j, GoodKernel(j), NEW h \in Nat
  PROVE  \A i \in Span(j, h) : i \in 0 .. j.n - 1
BY KernelNumbers DEF Span

Written(g, l) ==
  [i \in {base[g] + o : o \in Mine(g, l)} |-> LET o == i - base[g] IN ldata[g][<<o % inp.k, o \div inp.k>>]]

LEMMA WrittenIs ==
  ASSUME NEW c, NEW j, Runs(c, j), GoodKernel(j), NEW g \in Nat, base[g] \in Nat, Begin(j, g) <= base[g], NEW l \in Items(j),
         NEW out, DOMAIN out = 0 .. j.n - 1, NEW out2,
         out2 = Override(out, Written(g, l))
  PROVE  /\ WrittenEffect(j, g, GroupState(g), l, out, out2) /\ DOMAIN out2 = DOMAIN out
         /\ \A h \in Nat : h # g => Same(j, h, out, out2)
<1> DEFINE S == {base[g] + o : o \in Mine(g, l)}
           new == [i \in S |-> ldata[g][<<(i - base[g]) % inp.k, (i - base[g]) \div inp.k>>]]
<1>1. inp.k = j.k
  BY RunTerms
<1>2. GroupState(g).b = base[g] /\ GroupState(g).d = ldata[g]
  BY StateFields
<1>3. out2 = Override(out, new)
  BY DEF Written
<1>4. /\ \A i \in Span(j, g) : i \in S <=> InUnit(j, GroupState(g), i) /\ ((i - base[g]) % j.wg) = l
      /\ \A h \in Nat : h # g => \A i \in Span(j, h) : i \notin S
  BY MineInGlobal, Zenon
<1> HIDE DEF S
<1>5. DOMAIN new = S /\ \A i \in S : new[i] = ldata[g][<<(i - base[g]) % j.k, (i - base[g]) \div j.k>>]
  BY <1>1
<1> HIDE DEF new
<1>6. DOMAIN out2 = DOMAIN out /\ \A i \in 0 .. j.n - 1 : out2[i] = IF i \in S THEN new[i] ELSE out[i]
  BY <1>3, <1>5 DEF Override
<1>7. \A h \in Nat : \A i \in Span(j, h) : i \in 0 .. j.n - 1
  BY InGlobal
<1>8. \A h \in Nat : h # g => Same(j, h, out, out2)
  BY <1>4, <1>6, <1>7 DEF Same
<1>9. WrittenEffect(j, g, GroupState(g), l, out, out2)
  <2>1. ASSUME NEW i \in Span(j, g)
        PROVE  out2[i] = IF InUnit(j, GroupState(g), i) /\ ((i - base[g]) % j.wg) = l
                           THEN ldata[g][<<(i - base[g]) % j.k, (i - base[g]) \div j.k>>] ELSE out[i]
    <3>1. i \in S <=> InUnit(j, GroupState(g), i) /\ ((i - base[g]) % j.wg) = l
      BY <1>4
    <3>2. out2[i] = IF i \in S THEN new[i] ELSE out[i]
      BY <1>6, <1>7
    <3>3. i \in S => new[i] = ldata[g][<<(i - base[g]) % j.k, (i - base[g]) \div j.k>>]
      BY <1>5
    <3> QED
      BY <3>1, <3>2, <3>3, Zenon
  <2> QED
    BY <1>2, <2>1, Zenon DEF WrittenEffect
<1> QED
  BY <1>6, <1>8, <1>9

LEMMA WriteDataIs ==
  ASSUME NEW c, NEW j, Runs(c, j), GoodKernel(j), NEW g \in DOMAIN at, g \in Nat, NEW l \in Items(j), UnitShape(j, g, GroupState(g)),
         WriteData(g, l)
  PROVE  LET r == GroupState(g)
             q == GroupState(g)'
         IN  /\ Acts(g, l, "write") /\ q.d = r.d /\ q.f = r.f /\ q.t = r.t /\ q.v = r.v /\ q.x = r.x /\ gflags' = gflags
             /\ phase = "lev1" => /\ results' = results /\ WrittenEffect(j, g, r, l, partial, partial')
                                  /\ \A h \in Nat : h # g => Same(j, h, partial, partial')
             /\ phase = "lev2" => partial' = partial /\ WrittenEffect(j, g, r, l, results, results')
<1>1. Executes(g, l, "write")
  BY Zenon DEF WriteData
<1>2. /\ lfetch' = lfetch /\ ldata' = ldata /\ lflags' = lflags /\ lfirst' = lfirst /\ priv' = priv
      /\ first_seg' = first_seg /\ gflags' = gflags /\ output' = output
  BY Zenon DEF WriteData
<1>3. /\ phase = "lev1" => partial' = Override(partial, Written(g, l)) /\ results' = results
      /\ phase # "lev1" => results' = Override(results, Written(g, l)) /\ partial' = partial
  BY Zenon DEF WriteData, Written
<1>4. phase \in {"lev1", "lev2"} /\ (phase = "lev1" => j.n = inp.n) /\ (phase = "lev2" => j.n = CountOf(inp))
  BY KernelFields DEF Runs
<1>5. DOMAIN partial = 0 .. inp.n - 1 /\ DOMAIN results = 0 .. CountOf(inp) - 1
  BY RunShape DEF Groups1
<1>6. base[g] \in Nat /\ Begin(j, g) <= base[g]
  BY ShapeFacts
<1>0. ASSUME NEW out, NEW out2, DOMAIN out = 0 .. j.n - 1, out2 = Override(out, Written(g, l))
      PROVE  /\ WrittenEffect(j, g, GroupState(g), l, out, out2) /\ DOMAIN out2 = DOMAIN out
             /\ \A h \in Nat : h # g => Same(j, h, out, out2)
  BY <1>0, <1>6, WrittenIs
<1>7. phase = "lev1" => /\ WrittenEffect(j, g, GroupState(g), l, partial, partial') /\ DOMAIN partial' = DOMAIN partial
                        /\ \A h \in Nat : h # g => Same(j, h, partial, partial')
  BY <1>0, <1>3, <1>4, <1>5, Zenon
<1>8. phase = "lev2" => WrittenEffect(j, g, GroupState(g), l, results, results') /\ DOMAIN results' = DOMAIN results
  <2> SUFFICES ASSUME phase = "lev2"
               PROVE  WrittenEffect(j, g, GroupState(g), l, results, results') /\ DOMAIN results' = DOMAIN results
    OBVIOUS
  <2>1. DOMAIN results = 0 .. j.n - 1
    BY <1>4, <1>5
  <2>2. results' = Override(results, Written(g, l))
    BY <1>3
  <2> QED
    BY <1>0, <2>1, <2>2, Zenon
<1>9. DOMAIN partial' = DOMAIN partial /\ DOMAIN results' = DOMAIN results
  BY <1>3, <1>4, <1>7, <1>8
<1>10. Acts(g, l, "write")
  BY <1>1, <1>2, <1>9, ActsIf
<1>11. LET r == GroupState(g)
           q == GroupState(g)'
       IN  q.d = r.d /\ q.f = r.f /\ q.t = r.t /\ q.v = r.v /\ q.x = r.x
  BY <1>2, StateFields, StateFieldsNext
<1> QED
  BY <1>2, <1>3, <1>4, <1>7, <1>8, <1>10, <1>11

LEMMA SumIs ==
  ASSUME NEW c, NEW j, Runs(c, j), GoodKernel(j), NEW g \in DOMAIN at, g \in Nat, NEW l \in Items(j), UnitShape(j, g, GroupState(g)),
         WriteIntervalSum(g, l)
  PROVE  LET r == GroupState(g)
             q == GroupState(g)'
         IN  /\ r.s = "interval_sum" /\ Arrives(r, q, l) /\ OthersStay(g) /\ DomainsKept
             /\ q.d = r.d /\ q.f = r.f /\ q.t = r.t /\ q.v = r.v /\ q.x = r.x /\ gflags' = gflags /\ partial' = partial
             /\ phase = "lev2" \/ l # 0 => results' = results /\ first_seg' = first_seg
             /\ phase = "lev1" => /\ \A h \in DOMAIN at : h # g => results'[h] = results[h] /\ first_seg'[h] = first_seg[h]
                                  /\ l = 0 => results'[g] = partial[End(j, g) - 1] /\ (j.seg => first_seg'[g] = r.v[0].interval)
<1>1. Executes(g, l, "interval_sum")
  BY Zenon DEF WriteIntervalSum
<1>2. /\ lfetch' = lfetch /\ ldata' = ldata /\ lflags' = lflags /\ lfirst' = lfirst /\ priv' = priv
      /\ partial' = partial /\ gflags' = gflags /\ output' = output
  BY Zenon DEF WriteIntervalSum
<1>3. /\ phase = "lev1" /\ l = 0 =>
           /\ results' = [results EXCEPT ![g] = partial[interval_end(g) - 1]]
           /\ first_seg' = [first_seg EXCEPT ![g] = IF inp.segmented THEN priv[g][0].interval ELSE @]
      /\ ~(phase = "lev1" /\ l = 0) => results' = results /\ first_seg' = first_seg
  BY Zenon DEF WriteIntervalSum
<1>4. phase \in {"lev1", "lev2"}
  BY DEF Runs
<1>5. /\ DOMAIN results = Groups1(inp) /\ DOMAIN first_seg = Groups1(inp) /\ DOMAIN at = Groups(phase) /\ DOMAIN arrived = DOMAIN at
  BY RunShape
<1>6. phase = "lev1" => DOMAIN at = Groups1(inp)
  <2>1. num_intervals = CountOf(inp)
    BY SizesAre
  <2> QED
    BY <1>5, <2>1 DEF Groups, Groups1
<1>7. DOMAIN results' = DOMAIN results /\ DOMAIN first_seg' = DOMAIN first_seg
  BY <1>3
<1>8. DomainsKept
  BY <1>1, <1>2, <1>5, <1>7, ExecutesIs DEF DomainsKept
<1>9. OthersStay(g)
  BY <1>1, <1>2, <1>5, ExecutesIs DEF OthersStay, GroupState
<1>10. GroupState(g).s = "interval_sum" /\ Arrives(GroupState(g), GroupState(g)', l)
  BY <1>1, <1>2, <1>5, ExecutesIs, StateFields, StateFieldsNext DEF Arrives
<1>11. LET r == GroupState(g)
           q == GroupState(g)'
       IN  q.d = r.d /\ q.f = r.f /\ q.t = r.t /\ q.v = r.v /\ q.x = r.x
  BY <1>2, StateFields, StateFieldsNext
<1>12. inp.segmented = j.seg /\ interval_end(g) = End(j, g)
  BY RunTerms
<1>13. phase = "lev1" => /\ \A h \in DOMAIN at : h # g => results'[h] = results[h] /\ first_seg'[h] = first_seg[h]
                         /\ l = 0 => results'[g] = partial[End(j, g) - 1] /\ (j.seg => first_seg'[g] = priv[g][0].interval)
  BY <1>3, <1>5, <1>6, <1>12
<1>14. phase = "lev2" => phase # "lev1"
  OBVIOUS
<1> QED
  BY <1>2, <1>3, <1>8, <1>9, <1>10, <1>11, <1>13, <1>14, StateFields

LoadCells(g, l) == {<<o % inp.k, o \div inp.k>> : o \in Mine(g, l)}
LoadedCells(g, l) ==
  [d \in LoadCells(g, l) |-> INPUT_EXPR(base[g] + (d[2] * inp.k + d[1]), Fetched(g, d[2] * inp.k + d[1]))]
LoadedFlags(g, l) == [d \in LoadCells(g, l) |-> IS_SEG_START(base[g] + (d[2] * inp.k + d[1]))]

LEMMA LoadUnfolds ==
  ASSUME NEW g, NEW l, Load(g, l)
  PROVE  /\ Executes(g, l, "load")
         /\ ldata' = [ldata EXCEPT ![g] = IF inp.segmented THEN Override(ldata[g], LoadedCells(g, l))
                                          ELSE CarryIn(g, l, Override(ldata[g], LoadedCells(g, l)))]
         /\ IF inp.segmented THEN lflags' = [lflags EXCEPT ![g] = Override(@, LoadedFlags(g, l))] ELSE lflags' = lflags
         /\ IF phase = "lev1" /\ inp.segmented /\ inp.lookbehind
              THEN gflags' = Override(gflags, [i \in {base[g] + o : o \in Mine(g, l)} |-> IS_SEG_START(i)])
              ELSE gflags' = gflags
         /\ lfetch' = lfetch /\ lfirst' = lfirst /\ priv' = priv
         /\ partial' = partial /\ results' = results /\ first_seg' = first_seg /\ output' = output
BY Zenon DEF Load, LoadCells, LoadedCells, LoadedFlags

LEMMA LoadCellsAre ==
  ASSUME NEW c, NEW j, Runs(c, j), GoodKernel(j), NEW g, base[g] \in Nat, NEW l \in Items(j)
  PROVE  /\ \A i \in Items(j) : <<j.k, i>> \notin LoadCells(g, l)
         /\ DOMAIN LoadedCells(g, l) = LoadCells(g, l) /\ DOMAIN LoadedFlags(g, l) = LoadCells(g, l)
         /\ \A k \in Rows(j), i \in Items(j) :
              /\ <<k, i>> \in LoadCells(g, l) <=> IsMine(j, k, i, l) /\ Elem(j, base[g], k, i) < End(j, g)
              /\ base[g] + (i * inp.k + k) = Elem(j, base[g], k, i) /\ i * inp.k + k \in 0 .. Unit(j) - 1
              /\ <<k, i>> \in LoadCells(g, l) =>
                   /\ LoadedCells(g, l)[<<k, i>>] = INPUT_EXPR(Elem(j, base[g], k, i), Fetched(g, i * inp.k + k))
                   /\ LoadedFlags(g, l)[<<k, i>>] = IS_SEG_START(Elem(j, base[g], k, i))
<1>1. DOMAIN LoadedCells(g, l) = LoadCells(g, l) /\ DOMAIN LoadedFlags(g, l) = LoadCells(g, l)
  BY DEF LoadedCells, LoadedFlags
<1>2. ASSUME NEW i, <<j.k, i>> \in LoadCells(g, l) PROVE FALSE
  <2>1. inp.k = j.k /\ j.k \in Nat \ {0}
    BY RunTerms DEF GoodKernel
  <2>2. PICK o \in Mine(g, l) : <<j.k, i>> = <<o % inp.k, o \div inp.k>>
    BY <1>2 DEF LoadCells
  <2>3. o \in 0 .. Unit(j) - 1
    BY MineIs
  <2>4. o \in Nat
    BY <2>3
  <2>5. (o % j.k) \in 0 .. j.k - 1
    BY <2>1, <2>4, Division
  <2> QED
    BY <2>1, <2>2, <2>5
<1>3. ASSUME NEW k \in Rows(j), NEW i \in Items(j)
      PROVE  /\ <<k, i>> \in LoadCells(g, l) <=> IsMine(j, k, i, l) /\ Elem(j, base[g], k, i) < End(j, g)
             /\ base[g] + (i * inp.k + k) = Elem(j, base[g], k, i) /\ i * inp.k + k \in 0 .. Unit(j) - 1
  BY MineCells DEF LoadCells
<1>4. ASSUME NEW k \in Rows(j), NEW i \in Items(j), <<k, i>> \in LoadCells(g, l)
      PROVE  /\ LoadedCells(g, l)[<<k, i>>] = INPUT_EXPR(Elem(j, base[g], k, i), Fetched(g, i * inp.k + k))
             /\ LoadedFlags(g, l)[<<k, i>>] = IS_SEG_START(Elem(j, base[g], k, i))
  <2>1. /\ LoadedCells(g, l)[<<k, i>>] = INPUT_EXPR(base[g] + (<<k, i>>[2] * inp.k + <<k, i>>[1]), Fetched(g, <<k, i>>[2] * inp.k + <<k, i>>[1]))
        /\ LoadedFlags(g, l)[<<k, i>>] = IS_SEG_START(base[g] + (<<k, i>>[2] * inp.k + <<k, i>>[1]))
    BY <1>4, Zenon DEF LoadedCells, LoadedFlags
  <2>2. <<k, i>>[1] = k /\ <<k, i>>[2] = i
    OBVIOUS
  <2>3. base[g] + (i * inp.k + k) = Elem(j, base[g], k, i)
    BY <1>3
  <2> QED
    BY <2>1, <2>2, <2>3, Zenon
<1> QED
  BY <1>1, <1>2, <1>3, <1>4

LEMMA LoadIs ==
  ASSUME NEW c, NEW j, Runs(c, j), GoodKernel(j), NEW g \in DOMAIN at, g \in Nat, NEW l \in Items(j), UnitShape(j, g, GroupState(g)),
         Load(g, l), base[g] < End(j, g),
         \A o \in 0 .. Unit(j) - 1 : base[g] + o < Limit(j, g) =>
            INPUT_EXPR(base[g] + o, Fetched(g, o)) = j.W[<<base[g] + o, base[g] + o>>],
         \A i \in Span(j, g) : IS_SEG_START(i) <=> i \in j.H
  PROVE  /\ Acts(g, l, "load") /\ LoadEffect(j, g, GroupState(g), GroupState(g)', l)
         /\ GroupState(g)'.x = GroupState(g).x /\ partial' = partial /\ results' = results
         /\ IF phase = "lev1" /\ inp.segmented /\ inp.lookbehind
              THEN /\ FlagsEffect(j, g, GroupState(g), l, gflags, gflags')
                   /\ \A h \in Nat : h # g => Same(j, h, gflags, gflags')
              ELSE gflags' = gflags
<1> DEFINE L == Override(ldata[g], LoadedCells(g, l))
           S == {base[g] + o : o \in Mine(g, l)}
<1>1. /\ Executes(g, l, "load")
      /\ lfetch' = lfetch /\ lfirst' = lfirst /\ priv' = priv
      /\ partial' = partial /\ results' = results /\ first_seg' = first_seg /\ output' = output
  BY LoadUnfolds
<1>2. DOMAIN ldata = DOMAIN at /\ DOMAIN lflags = DOMAIN at /\ DOMAIN gflags = 0 .. inp.n - 1
  BY RunShape
<1>3. /\ base[g] \in Nat /\ Begin(j, g) <= base[g] /\ DOMAIN ldata[g] = (0 .. j.k) \X Items(j) /\ DOMAIN lflags[g] = Rows(j) \X Items(j)
  BY ShapeFacts
<1>4. inp.k = j.k /\ WG = j.wg /\ inp.segmented = j.seg /\ interval_begin(g) = Begin(j, g)
  BY RunTerms
<1>5. ldata'[g] = (IF j.seg THEN L ELSE CarryIn(g, l, L)) /\ DOMAIN ldata' = DOMAIN ldata
      /\ \A h \in DOMAIN at : h # g => ldata'[h] = ldata[h]
  <2>1. ldata' = [ldata EXCEPT ![g] = IF inp.segmented THEN L ELSE CarryIn(g, l, L)]
    BY LoadUnfolds
  <2> HIDE DEF L
  <2> QED
    BY <1>2, <1>4, <2>1
<1>6. lflags'[g] = (IF j.seg THEN Override(lflags[g], LoadedFlags(g, l)) ELSE lflags[g]) /\ DOMAIN lflags' = DOMAIN lflags
      /\ \A h \in DOMAIN at : h # g => lflags'[h] = lflags[h]
  <2>1. IF inp.segmented THEN lflags' = [lflags EXCEPT ![g] = Override(@, LoadedFlags(g, l))] ELSE lflags' = lflags
    BY LoadUnfolds
  <2> QED
    BY <1>2, <1>4, <2>1
<1> DEFINE B == LoadCells(g, l)
<1>7. /\ \A i \in Items(j) : <<j.k, i>> \notin B
      /\ DOMAIN LoadedCells(g, l) = B /\ DOMAIN LoadedFlags(g, l) = B
      /\ \A k \in Rows(j), i \in Items(j) :
              /\ <<k, i>> \in B <=> IsMine(j, k, i, l) /\ Elem(j, base[g], k, i) < End(j, g)
              /\ base[g] + (i * inp.k + k) = Elem(j, base[g], k, i) /\ i * inp.k + k \in 0 .. Unit(j) - 1
              /\ <<k, i>> \in B =>
                   /\ LoadedCells(g, l)[<<k, i>>] = INPUT_EXPR(Elem(j, base[g], k, i), Fetched(g, i * inp.k + k))
                   /\ LoadedFlags(g, l)[<<k, i>>] = IS_SEG_START(Elem(j, base[g], k, i))
  <2>1. base[g] \in Nat
    BY <1>3
  <2> QED
    BY <2>1, LoadCellsAre
<1> HIDE DEF B
<1>8. L = [d \in DOMAIN ldata[g] |-> IF d \in B THEN LoadedCells(g, l)[d] ELSE ldata[g][d]]
  BY <1>7 DEF Override
<1>9. /\ DOMAIN L = DOMAIN ldata[g]
      /\ \A k \in 0 .. j.k, i \in Items(j) : L[<<k, i>>] = IF <<k, i>> \in B THEN LoadedCells(g, l)[<<k, i>>] ELSE ldata[g][<<k, i>>]
  <2> HIDE DEF L
  <2> QED
    BY <1>3, <1>8
<1> HIDE DEF L
<1>10. /\ \A i \in Items(j) : ldata'[g][<<j.k, i>>] = ldata[g][<<j.k, i>>]
       /\ DOMAIN ldata'[g] = DOMAIN ldata[g]
       /\ \A k \in Rows(j), i \in Items(j) :
            ldata'[g][<<k, i>>] = IF <<k, i>> = <<0, 0>> /\ l = 0 /\ ~j.seg /\ base[g] # Begin(j, g)
                                    THEN SCAN_EXPR(ldata[g][<<j.k, j.wg - 1>>], L[<<0, 0>>], FALSE) ELSE L[<<k, i>>]
  <2>1. j.k \in Nat \ {0} /\ j.wg \in Nat \ {0} /\ j.wg - 1 \in Items(j) /\ 0 \in Items(j) /\ 0 \in Rows(j)
    BY DEF GoodKernel, Items, Rows
  <2>2. \A k \in Rows(j) : k \in 0 .. j.k /\ k # j.k
    BY <2>1 DEF Rows
  <2>3. \A i \in Items(j) : L[<<j.k, i>>] = ldata[g][<<j.k, i>>]
    BY <1>7, <1>9, <2>1
  <2>4. CASE j.seg \/ ~(l = 0 /\ base[g] # Begin(j, g))
    <3>1. ldata'[g] = L
      BY <1>4, <1>5, <2>4 DEF CarryIn
    <3> QED
      BY <1>9, <2>3, <2>4, <3>1
  <2>5. CASE ~j.seg /\ l = 0 /\ base[g] # Begin(j, g)
    <3> DEFINE v == SCAN_EXPR(L[<<j.k, j.wg - 1>>], L[<<0, 0>>], FALSE)
    <3>1. SCAN_EXPR(L[<<j.k, j.wg - 1>>], L[<<0, 0>>], inp.segmented /\ lflags[g][<<0, 0>>]) = v
      BY <1>4, <2>5 DEF SCAN_EXPR
    <3>2. ldata'[g] = [L EXCEPT ![<<0, 0>>] = v]
      <4>1. ldata'[g] = [L EXCEPT ![<<0, 0>>] = SCAN_EXPR(L[<<j.k, j.wg - 1>>], @, inp.segmented /\ lflags[g][<<0, 0>>])]
        BY <1>4, <1>5, <2>5 DEF CarryIn
      <4> HIDE DEF v
      <4> QED
        BY <3>1, <4>1
    <3>3. v = SCAN_EXPR(ldata[g][<<j.k, j.wg - 1>>], L[<<0, 0>>], FALSE)
      BY <2>1, <2>3
    <3> HIDE DEF v
    <3>4. \A k \in 0 .. j.k, i \in Items(j) : <<k, i>> \in DOMAIN L
      BY <1>3, <1>9
    <3>5. \A k \in 0 .. j.k, i \in Items(j) : ldata'[g][<<k, i>>] = IF <<k, i>> = <<0, 0>> THEN v ELSE L[<<k, i>>]
      BY <3>2, <3>4
    <3>6. \A i \in Items(j) : ldata'[g][<<j.k, i>>] = ldata[g][<<j.k, i>>]
      <4>1. \A i : <<j.k, i>> # <<0, 0>>
        BY <2>1
      <4>2. j.k \in 0 .. j.k
        BY <2>1
      <4> QED
        BY <2>3, <3>5, <4>1, <4>2
    <3>7. DOMAIN ldata'[g] = DOMAIN ldata[g]
      BY <1>9, <3>2
    <3> QED
      BY <2>2, <2>5, <3>3, <3>5, <3>6, <3>7
  <2> QED
    BY <2>4, <2>5
<1>11. /\ DOMAIN lflags'[g] = DOMAIN lflags[g]
       /\ \A k \in Rows(j), i \in Items(j) :
            lflags'[g][<<k, i>>] = IF j.seg /\ <<k, i>> \in B THEN LoadedFlags(g, l)[<<k, i>>] ELSE lflags[g][<<k, i>>]
  <2>1. CASE j.seg
    <3>1. lflags'[g] = [d \in DOMAIN lflags[g] |-> IF d \in B THEN LoadedFlags(g, l)[d] ELSE lflags[g][d]]
      BY <1>6, <1>7, <2>1 DEF Override
    <3> QED
      BY <1>3, <2>1, <3>1
  <2>2. CASE ~j.seg
    BY <1>6, <2>2
  <2> QED
    BY <2>1, <2>2
<1>12. Acts(g, l, "load")
  <2>1. DOMAIN gflags' = DOMAIN gflags
    <3>1. gflags' = gflags \/ gflags' = Override(gflags, [i \in S |-> IS_SEG_START(i)])
      BY LoadUnfolds
    <3> HIDE DEF S
    <3> QED
      BY <3>1 DEF Override
  <2>2. DOMAIN ldata'[g] = DOMAIN ldata[g] /\ DOMAIN lflags'[g] = DOMAIN lflags[g]
    BY <1>10, <1>11
  <2> QED
    BY <1>1, <1>5, <1>6, <2>1, <2>2, ActsIf
<1>13. LoadEffect(j, g, GroupState(g), GroupState(g)', l)
  <2> DEFINE r == GroupState(g)
             q == GroupState(g)'
  <2>1. r.b = base[g] /\ r.o = offset[g] /\ r.d = ldata[g] /\ r.f = lflags[g] /\ r.t = lfirst[g] /\ r.v = priv[g]
    BY StateFields
  <2>2. q.d = ldata'[g] /\ q.f = lflags'[g] /\ q.t = lfirst'[g] /\ q.v = priv'[g]
    BY StateFieldsNext
  <2>3. SUFFICES LoadEffect(j, g, r, q, l)
    OBVIOUS
  <2> HIDE DEF r, q
  <2> DEFINE E(k, i) == Elem(j, base[g], k, i)
  <2>4. \A k \in Rows(j), i \in Items(j) : k \in 0 .. j.k
    BY DEF Rows, GoodKernel
  <2>5. ASSUME NEW k \in Rows(j), NEW i \in Items(j), IsMine(j, k, i, l), E(k, i) < Limit(j, g)
        PROVE  /\ <<k, i>> \in B /\ L[<<k, i>>] = j.W[<<E(k, i), E(k, i)>>]
               /\ LoadedFlags(g, l)[<<k, i>>] <=> E(k, i) \in j.H
               /\ ~j.seg => E(k, i) \notin j.H
    <3>1. E(k, i) \in Nat /\ base[g] <= E(k, i) /\ Limit(j, g) <= End(j, g) /\ Limit(j, g) \in Nat /\ End(j, g) \in Nat /\ Begin(j, g) \in Nat
      <4>1. i \in Nat
        BY DEF Items
      <4> QED
        BY <1>3, <4>1, ElemIs, KernelNumbers
    <3>2. /\ base[g] + (i * inp.k + k) = E(k, i) /\ i * inp.k + k \in 0 .. Unit(j) - 1
      BY <1>7
    <3> HIDE DEF E
    <3>3. E(k, i) < End(j, g)
      BY <2>5, <3>1
    <3>4. <<k, i>> \in B
      BY <1>7, <2>5, <3>3 DEF E
    <3>5. L[<<k, i>>] = INPUT_EXPR(E(k, i), Fetched(g, i * inp.k + k))
      BY <1>7, <1>9, <2>4, <3>4 DEF E
    <3>6. INPUT_EXPR(E(k, i), Fetched(g, i * inp.k + k)) = j.W[<<E(k, i), E(k, i)>>]
      <4>1. base[g] + (i * inp.k + k) < Limit(j, g)
        BY <2>5, <3>2
      <4> QED
        BY <3>2, <4>1, Zenon
    <3>7. E(k, i) \in Span(j, g)
      BY <1>3, <2>5, <3>1 DEF Span
    <3>8. IS_SEG_START(E(k, i)) <=> E(k, i) \in j.H
      BY <3>7, Zenon
    <3>9. LoadedFlags(g, l)[<<k, i>>] = IS_SEG_START(E(k, i))
      BY <1>7, <3>4 DEF E
    <3>10. ~j.seg => ~IS_SEG_START(E(k, i))
      BY <1>4 DEF IS_SEG_START
    <3> QED
      BY <3>4, <3>5, <3>6, <3>8, <3>9, <3>10
  <2>6. ASSUME NEW k \in Rows(j), NEW i \in Items(j), IsMine(j, k, i, l), E(k, i) < Limit(j, g)
        PROVE  /\ j.seg /\ q.f[<<k, i>>] <=> E(k, i) \in j.H
               /\ q.d[<<k, i>>] =
                   IF k = 0 /\ i = 0 /\ ~j.seg /\ r.b # Begin(j, g)
                     THEN SCAN_EXPR(r.d[<<j.k, j.wg - 1>>], j.W[<<E(k, i), E(k, i)>>], FALSE)
                     ELSE j.W[<<E(k, i), E(k, i)>>]
    <3>1. /\ <<k, i>> \in B /\ L[<<k, i>>] = j.W[<<E(k, i), E(k, i)>>]
          /\ LoadedFlags(g, l)[<<k, i>>] <=> E(k, i) \in j.H
          /\ ~j.seg => E(k, i) \notin j.H
      BY <2>5, <2>6
    <3>2. k = 0 /\ i = 0 => l = 0
      <4>1. k = 0 /\ i = 0 => (j.k * 0 + 0) % j.wg = l
        BY <2>6, Zenon DEF IsMine
      <4>2. j.k \in Nat /\ j.wg \in Nat \ {0}
        BY DEF GoodKernel
      <4> QED
        BY <4>1, <4>2
    <3> HIDE DEF E
    <3>3. lflags'[g][<<k, i>>] = IF j.seg /\ <<k, i>> \in B THEN LoadedFlags(g, l)[<<k, i>>] ELSE lflags[g][<<k, i>>]
      BY <1>11
    <3>4. ldata'[g][<<k, i>>] = IF k = 0 /\ i = 0 /\ l = 0 /\ ~j.seg /\ base[g] # Begin(j, g)
                                    THEN SCAN_EXPR(ldata[g][<<j.k, j.wg - 1>>], L[<<k, i>>], FALSE) ELSE L[<<k, i>>]
      BY <1>10
    <3> QED
      BY <2>1, <2>2, <3>1, <3>2, <3>3, <3>4
  <2>7. ASSUME NEW k \in Rows(j), NEW i \in Items(j), ~IsMine(j, k, i, l)
        PROVE  q.d[<<k, i>>] = r.d[<<k, i>>] /\ q.f[<<k, i>>] = r.f[<<k, i>>]
    <3>1. <<k, i>> \notin B
      BY <1>7, <2>7
    <3>2. ~(k = 0 /\ i = 0 /\ l = 0)
      <4>1. k = 0 /\ i = 0 /\ l = 0 => (j.k * 0 + 0) % j.wg # 0
        BY <2>7, Zenon DEF IsMine
      <4>2. j.k \in Nat /\ j.wg \in Nat \ {0}
        BY DEF GoodKernel
      <4> QED
        BY <4>1, <4>2
    <3>3. ldata'[g][<<k, i>>] = L[<<k, i>>] /\ lflags'[g][<<k, i>>] = lflags[g][<<k, i>>]
      BY <1>10, <1>11, <3>1, <3>2
    <3> QED
      BY <1>9, <2>1, <2>2, <2>4, <3>1, <3>3
  <2>8. q.t = r.t /\ q.v = r.v /\ \A i \in Items(j) : q.d[<<j.k, i>>] = r.d[<<j.k, i>>]
    BY <1>1, <1>10, <2>1, <2>2
  <2> QED
    BY <2>1, <2>6, <2>7, <2>8, Zenon DEF LoadEffect
<1>14. IF phase = "lev1" /\ inp.segmented /\ inp.lookbehind
              THEN /\ FlagsEffect(j, g, GroupState(g), l, gflags, gflags')
                   /\ \A h \in Nat : h # g => Same(j, h, gflags, gflags')
              ELSE gflags' = gflags
  <2>1. ASSUME phase = "lev1", inp.segmented, inp.lookbehind
        PROVE  /\ FlagsEffect(j, g, GroupState(g), l, gflags, gflags')
               /\ \A h \in Nat : h # g => Same(j, h, gflags, gflags')
    <3>1. gflags' = Override(gflags, [i \in S |-> IS_SEG_START(i)])
      BY <2>1, LoadUnfolds
    <3>2. /\ \A i \in Span(j, g) : i \in S <=> InUnit(j, GroupState(g), i) /\ ((i - base[g]) % j.wg) = l
          /\ \A h \in Nat : h # g => \A i \in Span(j, h) : i \notin S
      BY <1>3, MineInGlobal, Zenon
    <3> HIDE DEF S
    <3>3. \A i \in DOMAIN gflags : gflags'[i] = IF i \in S THEN IS_SEG_START(i) ELSE gflags[i]
      BY <3>1 DEF Override
    <3>4. DOMAIN gflags = 0 .. j.n - 1
      BY <1>2, <2>1, KernelFields DEF Runs
    <3>5. \A h \in Nat : \A i \in Span(j, h) : i \in DOMAIN gflags
      BY <3>4, InGlobal
    <3>6. \A h \in Nat : h # g => Same(j, h, gflags, gflags')
      BY <3>2, <3>3, <3>5 DEF Same
    <3>7. GroupState(g).b = base[g]
      BY StateFields
    <3>8. ASSUME NEW i \in Span(j, g)
          PROVE  IF InUnit(j, GroupState(g), i) /\ ((i - base[g]) % j.wg) = l THEN gflags'[i] <=> i \in j.H ELSE gflags'[i] = gflags[i]
      <4>1. gflags'[i] = IF i \in S THEN IS_SEG_START(i) ELSE gflags[i]
        BY <3>3, <3>5
      <4>2. IS_SEG_START(i) <=> i \in j.H
        OBVIOUS
      <4>3. i \in S <=> InUnit(j, GroupState(g), i) /\ ((i - base[g]) % j.wg) = l
        BY <3>2
      <4> QED
        BY <4>1, <4>2, <4>3, Zenon
    <3> QED
      BY <3>6, <3>7, <3>8, Zenon DEF FlagsEffect
  <2>2. ~(phase = "lev1" /\ inp.segmented /\ inp.lookbehind) => gflags' = gflags
    BY LoadUnfolds
  <2> QED
    BY <2>1, <2>2
<1>15. GroupState(g)'.x = GroupState(g).x
  BY <1>1, StateFields, StateFieldsNext
<1> QED
  BY <1>1, <1>12, <1>13, <1>14, <1>15

(* What a work item does, whichever segment it is in.                      *)
Effects(j, g, l) ==
  LET r == GroupState(g)
      q == GroupState(g)'
  IN  /\ UnitInv(j, g, q) /\ Arrives(r, q, l) /\ OthersStay(g) /\ DomainsKept
      /\ IF r.s = "fetch" THEN FetchEffect(j, g, r, q, l) /\ DOMAIN q.x = 0 .. Unit(j) - 1 ELSE q.x = r.x
      /\ IF r.s = "load" /\ phase = "lev1" /\ inp.segmented /\ inp.lookbehind
           THEN FlagsEffect(j, g, r, l, gflags, gflags') /\ \A h \in Nat : h # g => Same(j, h, gflags, gflags')
           ELSE gflags' = gflags
      /\ IF r.s = "write" /\ phase = "lev1"
           THEN WrittenEffect(j, g, r, l, partial, partial') /\ \A h \in Nat : h # g => Same(j, h, partial, partial')
           ELSE partial' = partial
      /\ IF r.s = "write" /\ phase = "lev2" THEN WrittenEffect(j, g, r, l, results, results')
         ELSE IF r.s = "interval_sum" /\ phase = "lev1"
           THEN /\ \A h \in DOMAIN at : h # g => results'[h] = results[h] /\ first_seg'[h] = first_seg[h]
                /\ IF l = 0 THEN results'[g] = partial[End(j, g) - 1] /\ (j.seg => first_seg'[g] = r.v[0].interval)
                   ELSE results' = results /\ first_seg' = first_seg
           ELSE results' = results
      /\ (r.s = "interval_sum" /\ phase = "lev1") \/ first_seg' = first_seg

(* The actions that leave global memory alone.                             *)
LEMMA QuietEffects ==
  ASSUME NEW j, NEW g, NEW l, NEW segment, segment \in {"carry", "along_k", "tree_read", "tree_write", "update_local"},
         Acts(g, l, segment), UnitInv(j, g, GroupState(g)'), GroupState(g)'.x = GroupState(g).x,
         partial' = partial, results' = results, gflags' = gflags
  PROVE  Effects(j, g, l)
<1>1. GroupState(g).s = segment /\ Arrives(GroupState(g), GroupState(g)', l) /\ OthersStay(g) /\ DomainsKept /\ first_seg' = first_seg
  BY DEF Acts
<1>2. segment # "fetch" /\ segment # "load" /\ segment # "write" /\ segment # "interval_sum"
  OBVIOUS
<1> QED
  BY <1>1, <1>2, Zenon DEF Effects

(* Every work item of the scan kernels has one of the effects.             *)
LEMMA WorkItemIs ==
  ASSUME NEW c, NEW j, Runs(c, j), GoodKernel(j), NEW g \in DOMAIN at, g \in Nat, NEW l \in Items(j), UnitInv(j, g, GroupState(g)),
         at[g] = "fetch" => DOMAIN lfetch[g] = 0 .. Unit(j) - 1,
         at[g] = "load" => \A o \in 0 .. Unit(j) - 1 : base[g] + o < Limit(j, g) =>
            INPUT_EXPR(base[g] + o, Fetched(g, o)) = j.W[<<base[g] + o, base[g] + o>>],
         at[g] = "load" => \A i \in Span(j, g) : IS_SEG_START(i) <=> i \in j.H,
         WorkItem(g, l)
  PROVE  Effects(j, g, l)
<1> DEFINE r == GroupState(g)
           q == GroupState(g)'
<1>1. UnitShape(j, g, r) /\ UnitInv(j, g, r)
  BY DEF UnitInv
<1>2. phase \in {"lev1", "lev2"}
  BY DEF Runs
<1>3. r.s = at[g] /\ r.s \in Stages /\ r.b = base[g]
  BY <1>1, StateFields DEF UnitShape
<1>4. CASE Fetch(g, l)
  <2>1. at[g] = "fetch"
    BY <1>4 DEF Fetch, Executes
  <2>2. /\ r.s = "fetch" /\ Arrives(r, q, l) /\ q.d = r.d /\ q.f = r.f /\ q.t = r.t /\ q.v = r.v
        /\ FetchEffect(j, g, r, q, l) /\ OthersStay(g) /\ DomainsKept /\ DOMAIN lfetch'[g] = 0 .. Unit(j) - 1
        /\ partial' = partial /\ results' = results /\ first_seg' = first_seg /\ gflags' = gflags
    BY <1>4, <2>1, FetchIs
  <2>3. UnitInv(j, g, q)
    BY <1>1, <2>2, NothingStep
  <2>4. DOMAIN q.x = 0 .. Unit(j) - 1
    BY <2>2, StateFieldsNext
  <2>5. r.s # "load" /\ r.s # "write" /\ r.s # "interval_sum"
    BY <2>2
  <2> QED
    BY <2>2, <2>3, <2>4, <2>5, Zenon DEF Effects
<1>5. CASE Load(g, l)
  <2>1. at[g] = "load"
    BY <1>5, LoadUnfolds DEF Executes
  <2>2. base[g] < End(j, g)
    BY <1>1, <1>3, <2>1 DEF UnitShape
  <2>3. /\ Acts(g, l, "load") /\ LoadEffect(j, g, r, q, l)
        /\ q.x = r.x /\ partial' = partial /\ results' = results
        /\ IF phase = "lev1" /\ inp.segmented /\ inp.lookbehind
             THEN /\ FlagsEffect(j, g, r, l, gflags, gflags')
                  /\ \A h \in Nat : h # g => Same(j, h, gflags, gflags')
             ELSE gflags' = gflags
    BY <1>1, <1>5, <2>1, <2>2, LoadIs
  <2>4. r.s = "load" /\ Arrives(r, q, l) /\ OthersStay(g) /\ DomainsKept /\ first_seg' = first_seg
    BY <2>3 DEF Acts
  <2>5. UnitInv(j, g, q)
    BY <1>1, <2>3, <2>4, LoadStep
  <2>6. r.s # "fetch" /\ r.s # "write" /\ r.s # "interval_sum"
    BY <2>4
  <2> HIDE DEF r, q
  <2>7. IF r.s = "load" /\ phase = "lev1" /\ inp.segmented /\ inp.lookbehind
           THEN FlagsEffect(j, g, r, l, gflags, gflags') /\ \A h \in Nat : h # g => Same(j, h, gflags, gflags')
           ELSE gflags' = gflags
    BY <2>3, <2>4
  <2> QED
    BY <2>3, <2>4, <2>5, <2>6, <2>7, Zenon DEF Effects, r, q
<1>6. CASE CarryInSegmented(g, l)
  <2>1. /\ Acts(g, l, "carry") /\ CarryEffect(j, g, r, q, l)
        /\ q.x = r.x /\ partial' = partial /\ results' = results /\ gflags' = gflags
    BY <1>1, <1>6, CarryIs
  <2>2. r.s = "carry" /\ Arrives(r, q, l)
    BY <2>1 DEF Acts
  <2>3. UnitInv(j, g, q)
    BY <1>1, <2>1, <2>2, CarryStep
  <2> QED
    BY <2>1, <2>3, QuietEffects
<1>7. CASE ScanAlongK(g, l)
  <2>1. /\ Acts(g, l, "along_k") /\ \E sum, first : AlongEffect(j, g, r, q, l, sum, first)
        /\ q.x = r.x /\ partial' = partial /\ results' = results /\ gflags' = gflags
    BY <1>1, <1>7, AlongIs
  <2>2. r.s = "along_k" /\ Arrives(r, q, l)
    BY <2>1 DEF Acts
  <2>3. UnitInv(j, g, q)
    <3>1. PICK sum, first : AlongEffect(j, g, r, q, l, sum, first)
      BY <2>1
    <3> QED
      BY <1>1, <2>2, <3>1, AlongStep
  <2> QED
    BY <2>1, <2>3, QuietEffects
<1>8. CASE TreeRead(g, l)
  <2>1. /\ Acts(g, l, "tree_read") /\ ReadEffect(j, g, r, q, l)
        /\ q.x = r.x /\ partial' = partial /\ results' = results /\ gflags' = gflags
    BY <1>1, <1>8, ReadIs
  <2>2. r.s = "tree_read" /\ Arrives(r, q, l)
    BY <2>1 DEF Acts
  <2>3. UnitInv(j, g, q)
    BY <1>1, <2>1, <2>2, ReadStep
  <2> QED
    BY <2>1, <2>3, QuietEffects
<1>9. CASE TreeWrite(g, l)
  <2>1. /\ Acts(g, l, "tree_write") /\ WriteEffect(j, g, r, q, l)
        /\ q.x = r.x /\ partial' = partial /\ results' = results /\ gflags' = gflags
    BY <1>1, <1>9, WriteIs
  <2>2. r.s = "tree_write" /\ Arrives(r, q, l)
    BY <2>1 DEF Acts
  <2>3. UnitInv(j, g, q)
    BY <1>1, <2>1, <2>2, WriteStep
  <2> QED
    BY <2>1, <2>3, QuietEffects
<1>10. CASE UpdateLocal(g, l)
  <2>1. /\ Acts(g, l, "update_local") /\ UpdateEffect(j, g, r, q, l)
        /\ q.x = r.x /\ partial' = partial /\ results' = results /\ gflags' = gflags
    BY <1>1, <1>10, UpdateIs
  <2>2. r.s = "update_local" /\ Arrives(r, q, l)
    BY <2>1 DEF Acts
  <2>3. UnitInv(j, g, q)
    BY <1>1, <2>1, <2>2, UpdateStep
  <2> QED
    BY <2>1, <2>3, QuietEffects
<1>11. CASE WriteData(g, l)
  <2>1. /\ Acts(g, l, "write") /\ q.d = r.d /\ q.f = r.f /\ q.t = r.t /\ q.v = r.v /\ q.x = r.x /\ gflags' = gflags
        /\ phase = "lev1" => /\ results' = results /\ WrittenEffect(j, g, r, l, partial, partial')
                             /\ \A h \in Nat : h # g => Same(j, h, partial, partial')
        /\ phase = "lev2" => partial' = partial /\ WrittenEffect(j, g, r, l, results, results')
    BY <1>1, <1>11, WriteDataIs
  <2>2. r.s = "write" /\ Arrives(r, q, l) /\ OthersStay(g) /\ DomainsKept /\ first_seg' = first_seg
    BY <2>1 DEF Acts
  <2>3. UnitInv(j, g, q)
    BY <1>1, <2>1, <2>2, NothingStep
  <2>4. r.s # "fetch" /\ r.s # "load" /\ r.s # "interval_sum"
    BY <2>2
  <2> HIDE DEF r, q
  <2>5. /\ IF r.s = "write" /\ phase = "lev1"
             THEN WrittenEffect(j, g, r, l, partial, partial') /\ \A h \in Nat : h # g => Same(j, h, partial, partial')
             ELSE partial' = partial
        /\ IF r.s = "write" /\ phase = "lev2" THEN WrittenEffect(j, g, r, l, results, results') ELSE results' = results
    BY <1>2, <2>1, <2>2
  <2> QED
    BY <2>1, <2>2, <2>3, <2>4, <2>5, Zenon DEF Effects, r, q
<1>12. CASE WriteIntervalSum(g, l)
  <2>1. /\ r.s = "interval_sum" /\ Arrives(r, q, l) /\ OthersStay(g) /\ DomainsKept
        /\ q.d = r.d /\ q.f = r.f /\ q.t = r.t /\ q.v = r.v /\ q.x = r.x /\ gflags' = gflags /\ partial' = partial
        /\ phase = "lev2" \/ l # 0 => results' = results /\ first_seg' = first_seg
        /\ phase = "lev1" => /\ \A h \in DOMAIN at : h # g => results'[h] = results[h] /\ first_seg'[h] = first_seg[h]
                             /\ l = 0 => results'[g] = partial[End(j, g) - 1] /\ (j.seg => first_seg'[g] = r.v[0].interval)
    BY <1>1, <1>12, SumIs
  <2>2. UnitInv(j, g, q)
    BY <1>1, <2>1, NothingStep
  <2>3. r.s # "fetch" /\ r.s # "load" /\ r.s # "write"
    BY <2>1
  <2> HIDE DEF r, q
  <2>4. /\ IF r.s = "interval_sum" /\ phase = "lev1"
             THEN /\ \A h \in DOMAIN at : h # g => results'[h] = results[h] /\ first_seg'[h] = first_seg[h]
                  /\ IF l = 0 THEN results'[g] = partial[End(j, g) - 1] /\ (j.seg => first_seg'[g] = r.v[0].interval)
                     ELSE results' = results /\ first_seg' = first_seg
             ELSE results' = results
        /\ (r.s = "interval_sum" /\ phase = "lev1") \/ first_seg' = first_seg
    BY <1>2, <2>1
  <2> QED
    BY <2>1, <2>2, <2>3, <2>4, Zenon DEF Effects, r, q
<1>13. CASE UpdatePlain(g, l)
  BY <1>2, <1>13 DEF UpdatePlain
<1>14. CASE UpdateLoad(g, l)
  BY <1>2, <1>14 DEF UpdateLoad
<1>15. CASE UpdateOutput(g, l)
  <2>1. at[g] = "output"
    BY <1>15, Zenon DEF UpdateOutput, Executes
  <2> QED
    BY <1>3, <2>1 DEF Stages
<1> QED
  BY <1>4, <1>5, <1>6, <1>7, <1>8, <1>9, <1>10, <1>11, <1>12, <1>13, <1>14, <1>15 DEF WorkItem

(* What a barrier does.                                                    *)
BarrierEffects(j, g) ==
  LET r == GroupState(g)
      q == GroupState(g)'
  IN  /\ UnitInv(j, g, q) /\ OthersStay(g) /\ DomainsKept /\ q.x = r.x
      /\ partial' = partial /\ results' = results /\ first_seg' = first_seg /\ gflags' = gflags
      /\ \E s, o, b :
           /\ GoesOn(j, r, q, s, o, b) /\ b = IF r.s = "write" THEN r.b + Unit(j) ELSE r.b
           /\ s # "write" \/ r.s # "write"
           /\ r.s = "write" => s \in {"fetch", "load"} \/ End(j, g) <= b
           /\ r.s = "fetch" => s = "load"
           /\ s \in {"fetch", "load"} => r.s \in {"fetch", "write"}
           /\ phase = "lev1" /\ inp.stencil /\ s = "load" => r.s = "fetch" /\ b = r.b
           /\ s = "end" => r.s = "interval_sum"
           /\ phase = "lev2" /\ s = "fetch" => r.s = "fetch"

LEMMA BarrierUnfolds ==
  ASSUME NEW c, NEW j, Runs(c, j), GoodKernel(j), NEW g \in DOMAIN at, g \in Nat, Barrier(g)
  PROVE  /\ OthersStay(g) /\ DomainsKept /\ GroupState(g)'.x = GroupState(g).x
         /\ partial' = partial /\ results' = results /\ first_seg' = first_seg /\ gflags' = gflags
         /\ GoesOn(j, GroupState(g), GroupState(g)', After(g),
                   IF at[g] = "tree_write" THEN 2 * offset[g] ELSE IF at[g] = "load" THEN 1 ELSE offset[g],
                   IF at[g] = "write" THEN base[g] + Unit(j) ELSE base[g])
         /\ at[g] # "end"
<1>1. /\ DOMAIN arrived = DOMAIN at /\ DOMAIN base = DOMAIN at /\ DOMAIN offset = DOMAIN at
  BY RunShape
<1>2. unit_size = Unit(j) /\ Lids(phase) = Items(j)
  BY RunTerms
<1>3. /\ at[g] # "end" /\ arrived[g] = Items(j) /\ inp' = inp /\ phase' = phase
      /\ lfetch' = lfetch /\ ldata' = ldata /\ lflags' = lflags /\ lfirst' = lfirst /\ priv' = priv
      /\ partial' = partial /\ results' = results /\ first_seg' = first_seg /\ gflags' = gflags /\ output' = output
  BY <1>2 DEF Barrier, global
<1> DEFINE o == IF at[g] = "tree_write" THEN 2 * offset[g] ELSE IF at[g] = "load" THEN 1 ELSE offset[g]
           b == IF at[g] = "write" THEN base[g] + Unit(j) ELSE base[g]
<1>4. /\ at' = [at EXCEPT ![g] = After(g)] /\ arrived' = [arrived EXCEPT ![g] = {}]
      /\ offset' = [offset EXCEPT ![g] = o] /\ base' = [base EXCEPT ![g] = b]
  BY <1>2 DEF Barrier
<1> HIDE DEF o, b
<1>5. /\ at'[g] = After(g) /\ arrived'[g] = {} /\ offset'[g] = o /\ base'[g] = b
      /\ DOMAIN at' = DOMAIN at /\ DOMAIN arrived' = DOMAIN arrived /\ DOMAIN offset' = DOMAIN offset /\ DOMAIN base' = DOMAIN base
      /\ \A h \in DOMAIN at : h # g => at'[h] = at[h] /\ arrived'[h] = arrived[h] /\ offset'[h] = offset[h] /\ base'[h] = base[h]
  BY <1>1, <1>4
<1>6. DomainsKept
  BY <1>3, <1>5 DEF DomainsKept
<1>7. OthersStay(g)
  BY <1>3, <1>5 DEF OthersStay, GroupState
<1>8. GoesOn(j, GroupState(g), GroupState(g)', After(g), o, b)
  BY <1>3, <1>5, StateFields, StateFieldsNext DEF GoesOn
<1>9. GroupState(g)'.x = GroupState(g).x
  BY <1>3, StateFields, StateFieldsNext
<1> QED
  BY <1>3, <1>6, <1>7, <1>8, <1>9 DEF o, b

LEMMA BarrierIs ==
  ASSUME NEW c, NEW j, Runs(c, j), GoodKernel(j), NEW g \in DOMAIN at, g \in Nat, UnitInv(j, g, GroupState(g)), Barrier(g)
  PROVE  BarrierEffects(j, g)
<1> DEFINE r == GroupState(g)
           q == GroupState(g)'
           o == IF at[g] = "tree_write" THEN 2 * offset[g] ELSE IF at[g] = "load" THEN 1 ELSE offset[g]
           b == IF at[g] = "write" THEN base[g] + Unit(j) ELSE base[g]
           s == After(g)
<1>1. /\ OthersStay(g) /\ DomainsKept /\ q.x = r.x
      /\ partial' = partial /\ results' = results /\ first_seg' = first_seg /\ gflags' = gflags
      /\ GoesOn(j, r, q, s, o, b) /\ at[g] # "end"
  BY BarrierUnfolds
<1>2. r.s = at[g] /\ r.o = offset[g] /\ r.b = base[g]
  BY StateFields
<1>3. UnitInv(j, g, r) /\ r.s \in Stages
  BY DEF UnitInv, UnitShape
<1>4. inp.segmented = j.seg /\ WG = j.wg /\ unit_size = Unit(j) /\ interval_end(g) = End(j, g)
  BY RunTerms
<1>5. phase \in {"lev1", "lev2"}
  BY DEF Runs
<1>6. /\ at[g] = "fetch" => s = "load"
      /\ at[g] = "load" => s = (IF j.seg THEN "carry" ELSE "along_k")
      /\ at[g] = "carry" => s = "along_k"
      /\ at[g] = "along_k" => s = "tree_read"
      /\ at[g] = "tree_read" => s = "tree_write"
      /\ at[g] = "tree_write" => s = (IF 2 * offset[g] <= j.wg THEN "tree_read" ELSE "update_local")
      /\ at[g] = "update_local" => s = "write"
      /\ at[g] = "write" => s = (IF base[g] + Unit(j) < End(j, g) THEN First(phase) ELSE "interval_sum")
      /\ at[g] = "interval_sum" => s = "end"
  BY <1>4 DEF After
<1>7. First(phase) \in {"fetch", "load"} /\ (phase = "lev1" /\ inp.stencil => First(phase) = "fetch") /\ (phase = "lev2" => First(phase) = "load")
  BY <1>5 DEF First
<1> HIDE DEF r, q, s
<1>8. base[g] \in Nat /\ Unit(j) \in Nat /\ End(j, g) \in Nat
  BY <1>2, <1>3, KernelNumbers, UnitNumbers DEF UnitInv
<1> DEFINE Goal == /\ UnitInv(j, g, q) /\ b = IF r.s = "write" THEN r.b + Unit(j) ELSE r.b
                   /\ s # "write" \/ r.s # "write"
                   /\ r.s = "write" => s \in {"fetch", "load"} \/ End(j, g) <= b
                   /\ r.s = "fetch" => s = "load"
                   /\ s \in {"fetch", "load"} => r.s \in {"fetch", "write"}
                   /\ phase = "lev1" /\ inp.stencil /\ s = "load" => r.s = "fetch" /\ b = r.b
                   /\ s = "end" => r.s = "interval_sum"
                   /\ phase = "lev2" /\ s = "fetch" => r.s = "fetch"
<1>0. SUFFICES Goal
  <2> HIDE DEF o, b
  <2> QED
    BY <1>1, Zenon DEF BarrierEffects, r, q
<1>9. CASE at[g] = "fetch"
  <2>1. o = r.o /\ b = r.b /\ s = "load" /\ r.s = "fetch"
    BY <1>2, <1>6, <1>9
  <2> HIDE DEF o, b
  <2>2. UnitInv(j, g, q)
    BY <1>1, <1>3, <2>1, FetchBarrier
  <2> QED
    BY <2>1, <2>2
<1>10. CASE at[g] = "load"
  <2>1. o = 1 /\ b = r.b /\ r.s = "load" /\ s = (IF j.seg THEN "carry" ELSE "along_k")
    BY <1>2, <1>6, <1>10
  <2> HIDE DEF o, b
  <2>2. CASE j.seg
    <3>1. UnitInv(j, g, q)
      BY <1>1, <1>3, <2>1, <2>2, LoadBarrierSegmented
    <3> QED
      BY <2>1, <2>2, <3>1
  <2>3. CASE ~j.seg
    <3>1. UnitInv(j, g, q)
      BY <1>1, <1>3, <2>1, <2>3, LoadBarrierPlain
    <3> QED
      BY <2>1, <2>3, <3>1
  <2> QED
    BY <2>2, <2>3
<1>11. CASE at[g] = "carry"
  <2>1. o = r.o /\ b = r.b /\ s = "along_k" /\ r.s = "carry"
    BY <1>2, <1>6, <1>11
  <2> HIDE DEF o, b
  <2>2. UnitInv(j, g, q)
    BY <1>1, <1>3, <2>1, CarryBarrier
  <2> QED
    BY <2>1, <2>2
<1>12. CASE at[g] = "along_k"
  <2>1. o = r.o /\ b = r.b /\ s = "tree_read" /\ r.s = "along_k"
    BY <1>2, <1>6, <1>12
  <2> HIDE DEF o, b
  <2>2. UnitInv(j, g, q)
    BY <1>1, <1>3, <2>1, AlongBarrier
  <2> QED
    BY <2>1, <2>2
<1>13. CASE at[g] = "tree_read"
  <2>1. o = r.o /\ b = r.b /\ s = "tree_write" /\ r.s = "tree_read"
    BY <1>2, <1>6, <1>13
  <2> HIDE DEF o, b
  <2>2. UnitInv(j, g, q)
    BY <1>1, <1>3, <2>1, ReadBarrier
  <2> QED
    BY <2>1, <2>2
<1>14. CASE at[g] = "tree_write"
  <2>1. o = 2 * r.o /\ b = r.b /\ r.s = "tree_write" /\ s = IF 2 * r.o <= j.wg THEN "tree_read" ELSE "update_local"
    BY <1>2, <1>6, <1>14
  <2> HIDE DEF o, b
  <2>2. UnitInv(j, g, q)
    BY <1>1, <1>3, <2>1, WriteBarrier, Zenon
  <2>3. s = "tree_read" \/ s = "update_local"
    BY <2>1
  <2> QED
    BY <2>1, <2>2, <2>3
<1>15. CASE at[g] = "update_local"
  <2>1. o = r.o /\ b = r.b /\ s = "write" /\ r.s = "update_local"
    BY <1>2, <1>6, <1>15
  <2> HIDE DEF o, b
  <2>2. UnitInv(j, g, q)
    BY <1>1, <1>3, <2>1, UpdateBarrierGoesOn
  <2> QED
    BY <2>1, <2>2
<1>16. CASE at[g] = "write"
  <2>1. o = r.o /\ b = r.b + Unit(j) /\ r.s = "write" /\ s = IF r.b + Unit(j) < End(j, g) THEN First(phase) ELSE "interval_sum"
    BY <1>2, <1>6, <1>16
  <2> HIDE DEF o, b
  <2>2. IF r.b + Unit(j) < End(j, g) THEN s \in {"fetch", "load"} ELSE s = "interval_sum"
    BY <1>7, <2>1
  <2>3. GoesOn(j, r, q, s, r.o, r.b + Unit(j))
    BY <1>1, <2>1
  <2>4. UnitInv(j, g, q)
    BY <1>3, <2>1, <2>2, <2>3, UnitBarrier, Zenon
  <2>5. s \in {"fetch", "load"} \/ End(j, g) <= b
    BY <1>2, <1>8, <2>1, <2>2
  <2>6. s \in {"fetch", "load"} \/ s = "interval_sum"
    BY <2>2
  <2>7. (phase = "lev1" /\ inp.stencil => s # "load") /\ (phase = "lev2" => s # "fetch")
    BY <1>7, <2>1
  <2> QED
    BY <2>1, <2>4, <2>5, <2>6, <2>7
<1>17. CASE at[g] = "interval_sum"
  <2>1. o = r.o /\ b = r.b /\ s = "end" /\ r.s = "interval_sum"
    BY <1>2, <1>6, <1>17
  <2> HIDE DEF o, b
  <2>2. UnitInv(j, g, q)
    BY <1>1, <1>3, <2>1, SumBarrier
  <2> QED
    BY <2>1, <2>2
<1> QED
  <2> HIDE DEF Goal
  <2> QED
    BY <1>1, <1>2, <1>3, <1>9, <1>10, <1>11, <1>12, <1>13, <1>14, <1>15, <1>16, <1>17 DEF Stages

-----------------------------------------------------------------------------
(* The sums that the kernels are to compute obey the law of scans.         *)
LEMMA Multiples ==
  ASSUME NEW s \in Nat \ {0}, NEW a \in Nat, NEW b \in Nat
  PROVE  /\ s * a \in Nat /\ s * (a + 1) = s * a + s /\ (a < b => s * a < s * b /\ s * (a + 1) <= s * b) /\ (a <= b => s * a <= s * b)
         /\ s * a < s * b => a < b
         /\ a <= s * a
<1>1. s * a \in Nat /\ s * (a + 1) = s * a + s
  OBVIOUS
<1>2. ASSUME NEW x \in Nat, NEW y \in Nat, x < y PROVE s * x + s <= s * y
  <2>1. PICK d \in Nat : y = x + 1 + d
    <3>1. y - (x + 1) \in Nat /\ y = x + 1 + (y - (x + 1))
      BY <1>2
    <3> QED
      BY <3>1
  <2>2. s * y = s * x + s + s * d /\ s * d \in Nat /\ s * x \in Nat
    BY <2>1
  <2> QED
    BY <2>2
<1>3. s * a \in Nat /\ s * b \in Nat
  OBVIOUS
<1>4. a < b => s * a + s <= s * b
  BY <1>2
<1>5. b < a => s * b + s <= s * a
  BY <1>2
<1>6. a <= s * a
  <2>1. PICK t \in Nat : s = t + 1
    <3>1. s - 1 \in Nat /\ s = (s - 1) + 1
      OBVIOUS
    <3> QED
      BY <3>1
  <2>2. s * a = t * a + a /\ t * a \in Nat
    BY <2>1
  <2> QED
    BY <2>2
<1> QED
  BY <1>1, <1>3, <1>4, <1>5, <1>6

(* Quotients rounded up.                                                   *)
LEMMA CeilDivIs ==
  ASSUME NEW a \in Nat, NEW b \in Nat \ {0}
  PROVE  LET q == CeilDiv(a, b) IN
           q \in Nat /\ a <= b * q /\ (q > 0 => b * (q - 1) < a) /\ (a = 0 <=> q = 0) /\ q <= a
<1> DEFINE x == a + (b - 1)
           q == x \div b
           d == x % b
<1>1. x \in Nat
  OBVIOUS
<1>2. x = b * q + d /\ d \in 0 .. b - 1 /\ q \in Nat
  BY <1>1, Division
<1>3. CeilDiv(a, b) = q
  BY DEF CeilDiv
<1> HIDE DEF q
<1> HIDE DEF d
<1> DEFINE p == b * q
<1>4. p \in Nat /\ a + (b - 1) = p + d
  BY <1>2
<1>5. a <= p /\ p < a + b
  BY <1>2, <1>4
<1>6. q > 0 => b * (q - 1) = p - b
  <2>1. \A t \in Nat : b * (t + 1) = b * t + b
    OBVIOUS
  <2> SUFFICES ASSUME q > 0 PROVE b * (q - 1) = p - b
    OBVIOUS
  <2>2. q - 1 \in Nat /\ (q - 1) + 1 = q
    BY <1>2
  <2> DEFINE u == b * (q - 1)
  <2>3. p = u + b
    BY <2>1, <2>2
  <2>4. u \in Nat
    BY <2>2
  <2> HIDE DEF u, p
  <2>5. u = p - b
    BY <2>3, <2>4
  <2> QED
    BY <2>5 DEF u
<1>7. q = 0 => p = 0
  BY <1>2
<1>8. q <= p /\ (q > 0 => q - 1 <= b * (q - 1))
  <2>1. q <= b * q
    BY <1>2, Multiples
  <2>2. q > 0 => q - 1 \in Nat
    BY <1>2
  <2>3. q > 0 => q - 1 <= b * (q - 1)
    BY <2>2, Multiples
  <2> QED
    BY <2>1, <2>3
<1>9. q > 0 => b <= p
  <2>1. q > 0 => b <= b * q
    <3>1. \A t \in Nat : b * (t + 1) = b * t + b /\ b * t \in Nat
      OBVIOUS
    <3>2. q > 0 => q - 1 \in Nat /\ (q - 1) + 1 = q
      BY <1>2
    <3> QED
      BY <3>1, <3>2
  <2> QED
    BY <2>1
<1> DEFINE w == b * (q - 1)
<1> HIDE DEF p, w
<1>10. /\ a <= p /\ (q > 0 => w < a) /\ (a = 0 <=> q = 0) /\ q <= a
  <2>1. q > 0 => w = p - b /\ q - 1 <= w
    BY <1>6, <1>8 DEF w
  <2>2. q > 0 => p - b < a
    BY <1>4, <1>5
  <2>3. q > 0 => w < a
    BY <2>1, <2>2
  <2>4. a = 0 => q = 0
    BY <1>2, <1>4, <1>5, <1>9
  <2>5. q = 0 => a = 0
    BY <1>5, <1>7
  <2>6. q <= a
    BY <1>2, <2>1, <2>3, <2>5, <1>4
  <2> QED
    BY <1>5, <2>3, <2>4, <2>5, <2>6
<1> QED
  BY <1>2, <1>3, <1>10 DEF p, w

(* What the sizes of a scan come to.                                       *)
LEMMA InputNumbers ==
  ASSUME NEW c \in Inputs
  PROVE  /\ c.n \in Nat /\ c.n <= NO_SEG_BOUNDARY /\ NO_SEG_BOUNDARY \in Nat
         /\ c.wg \in Nat \ {0} /\ c.k \in Nat \ {0} /\ c.update_wg \in Nat \ {0} /\ c.max_intervals \in Nat \ {0}
         /\ c.segmented \in BOOLEAN /\ c.starts \subseteq Nat /\ SegStarts(c) \subseteq Nat
         /\ c.stencil \in BOOLEAN /\ c.lookbehind \in BOOLEAN /\ c.debug \in BOOLEAN
         /\ UnitOf(c) \in Nat \ {0} /\ SizeOf(c) \in Nat \ {0} /\ (\E u \in Nat : SizeOf(c) = UnitOf(c) * u)
         /\ CountOf(c) \in Nat /\ c.n <= SizeOf(c) * CountOf(c) /\ CountOf(c) <= c.n
         /\ c.n = 0 <=> CountOf(c) = 0
         /\ CountOf(c) > 0 => SizeOf(c) * (CountOf(c) - 1) < c.n
<1>1. c \in InputType /\ NO_SEG_BOUNDARY \in Nat /\ c.n <= NO_SEG_BOUNDARY
  BY ScanAssumption
<1>2. /\ c.n \in Nat /\ c.wg \in Powers /\ c.k \in Nat \ {0} /\ c.update_wg \in Nat \ {0} /\ c.max_intervals \in Nat \ {0}
      /\ c.segmented \in BOOLEAN /\ c.starts \subseteq Nat
      /\ c.stencil \in BOOLEAN /\ c.lookbehind \in BOOLEAN /\ c.debug \in BOOLEAN
  BY <1>1 DEF InputType, Powers
<1>3. c.wg \in Nat \ {0}
  BY <1>2, PowersArePositive
<1>4. SegStarts(c) \subseteq Nat
  BY <1>2 DEF SegStarts
<1>5. \A x, y \in Nat \ {0} : x * y \in Nat \ {0}
  OBVIOUS
<1>6. UnitOf(c) \in Nat \ {0}
  BY <1>2, <1>3, <1>5 DEF UnitOf
<1> DEFINE U == UnitOf(c)
           units == CeilDiv(c.n, U)
<1> HIDE DEF U
<1>7. units \in Nat
  BY <1>2, <1>6, CeilDivIs DEF U
<1>8. SizeOf(c) \in Nat \ {0} /\ \E u \in Nat : SizeOf(c) = UnitOf(c) * u
  <2>1. SizeOf(c) = IF units <= c.max_intervals THEN U ELSE CeilDiv(units, c.max_intervals) * U
    BY DEF SizeOf, U
  <2> HIDE DEF units
  <2>2. CASE units <= c.max_intervals
    <3>1. U = U * 1
      BY <1>6 DEF U
    <3> QED
      BY <1>6, <2>1, <2>2, <3>1 DEF U
  <2>3. CASE ~(units <= c.max_intervals)
    <3> DEFINE v == CeilDiv(units, c.max_intervals)
    <3>1. v \in Nat /\ (units = 0 <=> v = 0)
      BY <1>2, <1>7, CeilDivIs
    <3> HIDE DEF v
    <3>2. v \in Nat \ {0} /\ SizeOf(c) = v * U
      BY <1>2, <1>7, <2>1, <2>3, <3>1 DEF v
    <3>3. v * U \in Nat \ {0} /\ v * U = U * v
      <4>1. \A x, y \in Nat : x * y = y * x
        OBVIOUS
      <4> QED
        BY <1>5, <1>6, <3>2, <4>1 DEF U
    <3> QED
      BY <3>2, <3>3 DEF U
  <2> QED
    BY <2>2, <2>3
<1>9. /\ CountOf(c) \in Nat /\ c.n <= SizeOf(c) * CountOf(c) /\ CountOf(c) <= c.n
      /\ c.n = 0 <=> CountOf(c) = 0
      /\ CountOf(c) > 0 => SizeOf(c) * (CountOf(c) - 1) < c.n
  BY <1>2, <1>8, CeilDivIs DEF CountOf
<1> QED
  BY <1>1, <1>2, <1>3, <1>4, <1>6, <1>8, <1>9

(* LastStart: the last segment start up to i.                              *)
LEMMA LastStartIs ==
  ASSUME NEW c, SegStarts(c) \subseteq Nat, NEW i \in Nat
  PROVE  /\ LastStart(c, i) \in 0 .. i /\ (LastStart(c, i) # 0 => LastStart(c, i) \in SegStarts(c))
         /\ \A q \in SegStarts(c) : q <= i => q <= LastStart(c, i)
<1> DEFINE before == {q \in SegStarts(c) : q <= i}
<1>1. CASE before = {}
  <2>1. LastStart(c, i) = 0
    BY <1>1 DEF LastStart
  <2> QED
    BY <1>1, <2>1
<1>2. CASE before # {}
  <2> DEFINE D == {i - q : q \in before}
  <2>1. D \subseteq Nat /\ D # {}
    BY <1>2
  <2>2. PICK x \in D : \A y \in D : x <= y
    BY <2>1, LeastNat
  <2>3. PICK q \in before : x = i - q
    BY <2>2
  <2>4. \A p \in before : p <= q
    <3>1. \A p \in before : i - q <= i - p
      BY <2>2, <2>3
    <3> QED
      BY <3>1
  <2> DEFINE s == LastStart(c, i)
  <2>5. s = CHOOSE t \in before : \A p \in before : p <= t
    BY <1>2 DEF LastStart
  <2>6. s \in before /\ \A p \in before : p <= s
    BY <2>3, <2>4, <2>5
  <2> HIDE DEF s
  <2> QED
    BY <2>6 DEF s
<1> QED
  BY <1>1, <1>2

LEMMA ScansJoin ==
  ASSUME NEW a \in Nat, NEW y \in Nat, NEW z \in Nat, a <= y, y < z
  PROVE  SequentialScan(a, y) \o SequentialScan(y + 1, z) = SequentialScan(a, z)
<1> DEFINE s == SequentialScan(a, y)
           t == SequentialScan(y + 1, z)
           u == SequentialScan(a, z)
           m == (y - a) + 1
           n == z - y
<1>1. m \in Nat /\ n \in Nat /\ m + n = (z - a) + 1
  OBVIOUS
<1>2. s = [i \in 1 .. m |-> a + (i - 1)]
  BY DEF SequentialScan
<1>3. t = [i \in 1 .. n |-> (y + 1) + (i - 1)]
  BY DEF SequentialScan
<1>4. u = [i \in 1 .. m + n |-> a + (i - 1)]
  BY DEF SequentialScan
<1> HIDE DEF s, t, u
<1>5. s \in Seq(Nat) /\ Len(s) = m /\ t \in Seq(Nat) /\ Len(t) = n
  BY <1>1, <1>2, <1>3
<1>6. /\ s \o t \in Seq(Nat) /\ Len(s \o t) = m + n
      /\ \A i \in 1 .. m + n : (s \o t)[i] = IF i <= m THEN s[i] ELSE t[i - m]
  <2>1. /\ s \o t \in Seq(Nat) /\ Len(s \o t) = Len(s) + Len(t)
        /\ \A i \in 1 .. Len(s) + Len(t) : (s \o t)[i] = IF i <= Len(s) THEN s[i] ELSE t[i - Len(s)]
    BY <1>5, ConcatProperties
  <2> HIDE DEF m, n
  <2> QED
    BY <1>5, <2>1
<1>7. ASSUME NEW i \in 1 .. m + n
      PROVE  (IF i <= m THEN s[i] ELSE t[i - m]) = a + (i - 1)
  <2>1. CASE i <= m
    <3>1. i \in 1 .. m
      BY <1>1, <2>1
    <3> QED
      BY <1>2, <2>1, <3>1
  <2>2. CASE ~(i <= m)
    <3>1. i - m \in 1 .. n
      BY <1>1, <2>2
    <3>2. t[i - m] = (y + 1) + ((i - m) - 1)
      BY <1>3, <3>1
    <3>3. (y + 1) + ((i - m) - 1) = a + (i - 1)
      OBVIOUS
    <3> QED
      BY <2>2, <3>2, <3>3
  <2> QED
    BY <2>1, <2>2
<1> HIDE DEF m, n
<1>8. u \in Seq(Nat) /\ Len(u) = m + n /\ \A i \in 1 .. m + n : u[i] = a + (i - 1)
  <2>1. m + n \in Nat /\ \A i \in 1 .. m + n : a + (i - 1) \in Nat
    BY <1>1 DEF m, n
  <2> DEFINE p == m + n
  <2> HIDE DEF p
  <2> QED
    BY <1>4, <2>1 DEF p
<1>9. s \o t = u
  BY <1>6, <1>7, <1>8, SeqEqual
<1> QED
  BY <1>9 DEF s, t, u

(* The sum of one element.                                                 *)
LEMMA OneElement ==
  ASSUME NEW c, SegStarts(c) \subseteq Nat, NEW i \in Nat
  PROVE  SumOf(c, i, i) = <<i>>
<1>1. LastStart(c, i) \in 0 .. i
  BY LastStartIs
<1>2. SumOf(c, i, i) = SequentialScan(i, i)
  BY <1>1 DEF SumOf
<1>3. SequentialScan(i, i) = [m \in 1 .. 1 |-> i]
  BY DEF SequentialScan
<1>4. <<i>> = [m \in 1 .. 1 |-> i]
  OBVIOUS
<1> QED
  BY <1>2, <1>3, <1>4

(* A sum of x .. z is made of those of x .. y and of y + 1 .. z.           *)
LEMMA SumsJoin ==
  ASSUME NEW c, SegStarts(c) \subseteq Nat, NEW x \in Nat, NEW y \in Nat, NEW z \in Nat, x <= y, y < z
  PROVE  /\ (\E q \in y + 1 .. z : q \in SegStarts(c)) => SumOf(c, x, z) = SumOf(c, y + 1, z)
         /\ ~(\E q \in y + 1 .. z : q \in SegStarts(c)) => SumOf(c, x, z) = SumOf(c, x, y) \o SumOf(c, y + 1, z)
<1> DEFINE s == LastStart(c, z)
           t == LastStart(c, y)
<1>1. s \in 0 .. z /\ (s # 0 => s \in SegStarts(c)) /\ \A q \in SegStarts(c) : q <= z => q <= s
  BY LastStartIs
<1>2. t \in 0 .. y /\ (t # 0 => t \in SegStarts(c)) /\ \A q \in SegStarts(c) : q <= y => q <= t
  BY LastStartIs
<1>3. /\ SumOf(c, x, z) = SequentialScan(IF x < s THEN s ELSE x, z)
      /\ SumOf(c, y + 1, z) = SequentialScan(IF y + 1 < s THEN s ELSE y + 1, z)
      /\ SumOf(c, x, y) = SequentialScan(IF x < t THEN t ELSE x, y)
  BY DEF SumOf
<1> HIDE DEF s, t
<1>4. ASSUME NEW q \in y + 1 .. z, q \in SegStarts(c) PROVE SumOf(c, x, z) = SumOf(c, y + 1, z)
  <2>1. y + 1 <= s
    BY <1>1, <1>4
  <2>2. (IF x < s THEN s ELSE x) = s /\ (IF y + 1 < s THEN s ELSE y + 1) = s
    BY <1>1, <2>1
  <2> QED
    BY <1>3, <2>2
<1>5. ASSUME ~(\E q \in y + 1 .. z : q \in SegStarts(c)) PROVE SumOf(c, x, z) = SumOf(c, x, y) \o SumOf(c, y + 1, z)
  <2>1. s <= y
    BY <1>1, <1>5
  <2>2. s = t
    <3>1. s <= t
      BY <1>1, <1>2, <2>1
    <3>2. t <= s
      BY <1>1, <1>2
    <3> QED
      BY <1>1, <1>2, <3>1, <3>2
  <2> DEFINE a == IF x < s THEN s ELSE x
  <2>3. a \in Nat /\ a <= y /\ (IF y + 1 < s THEN s ELSE y + 1) = y + 1
    BY <1>1, <2>1
  <2>4. SumOf(c, x, z) = SequentialScan(a, z) /\ SumOf(c, y + 1, z) = SequentialScan(y + 1, z) /\ SumOf(c, x, y) = SequentialScan(a, y)
    BY <1>3, <2>2, <2>3
  <2> HIDE DEF a
  <2>5. SequentialScan(a, y) \o SequentialScan(y + 1, z) = SequentialScan(a, z)
    BY <2>3, ScansJoin
  <2> QED
    BY <2>4, <2>5, Zenon
<1> QED
  BY <1>4, <1>5

(* The sums of elements obey the law,                                      *)
LEMMA Law1 ==
  ASSUME NEW c \in Inputs
  PROVE  Law(Kernel1(c))
<1> DEFINE j == Kernel1(c)
<1>1. c.n \in Nat /\ SegStarts(c) \subseteq Nat
  BY InputNumbers
<1>2. j.n = c.n /\ j.H = SegStarts(c)
  BY KernelFields
<1>3. \A x, y \in 0 .. c.n - 1 : j.W[<<x, y>>] = SumOf(c, x, y)
  BY DEF Kernel1
<1> HIDE DEF j
<1>4. ASSUME NEW x \in Nat, NEW y \in Nat, NEW z \in Nat, x <= y, y < z, z < c.n
      PROVE  /\ (\E q \in y + 1 .. z : q \in SegStarts(c)) => j.W[<<x, z>>] = j.W[<<y + 1, z>>]
             /\ ~(\E q \in y + 1 .. z : q \in SegStarts(c)) => j.W[<<x, z>>] = j.W[<<x, y>>] \o j.W[<<y + 1, z>>]
  <2>1. x \in 0 .. c.n - 1 /\ y \in 0 .. c.n - 1 /\ z \in 0 .. c.n - 1 /\ y + 1 \in 0 .. c.n - 1
    BY <1>1, <1>4
  <2>2. j.W[<<x, z>>] = SumOf(c, x, z) /\ j.W[<<x, y>>] = SumOf(c, x, y) /\ j.W[<<y + 1, z>>] = SumOf(c, y + 1, z)
    BY <1>3, <2>1
  <2>3. /\ (\E q \in y + 1 .. z : q \in SegStarts(c)) => SumOf(c, x, z) = SumOf(c, y + 1, z)
        /\ ~(\E q \in y + 1 .. z : q \in SegStarts(c)) => SumOf(c, x, z) = SumOf(c, x, y) \o SumOf(c, y + 1, z)
    BY <1>1, <1>4, SumsJoin, Zenon
  <2> QED
    BY <2>2, <2>3, Zenon
<1>5. Law(j)
  BY <1>2, <1>4 DEF Law
<1> QED
  BY <1>5 DEF j

(* The intervals of the first level.                                       *)
LEMMA LastOfIs ==
  ASSUME NEW c \in Inputs, NEW p \in 0 .. CountOf(c) - 1
  PROVE  /\ LastOf(c, p) \in Nat /\ SizeOf(c) * p \in Nat /\ SizeOf(c) * p <= LastOf(c, p) /\ LastOf(c, p) < c.n
         /\ LastOf(c, p) < SizeOf(c) * p + SizeOf(c)
         /\ p < CountOf(c) - 1 => LastOf(c, p) + 1 = SizeOf(c) * (p + 1)
         /\ p = CountOf(c) - 1 => LastOf(c, p) = c.n - 1
         /\ \A t \in Nat : t < c.n /\ t < SizeOf(c) * p + SizeOf(c) => t <= LastOf(c, p)
         /\ LastOf(c, p) = Least(SizeOf(c) * p + SizeOf(c), c.n) - 1
<1> DEFINE s == SizeOf(c)
           q == CountOf(c)
<1>1. s \in Nat \ {0} /\ q \in Nat /\ c.n \in Nat /\ c.n <= s * q /\ (q > 0 => s * (q - 1) < c.n)
  BY InputNumbers
<1>2. p \in Nat /\ q - 1 \in Nat /\ p <= q - 1 /\ q > 0 /\ p + 1 \in Nat
  BY <1>1
<1>3. s * p \in Nat /\ s * (p + 1) = s * p + s /\ s * p <= s * (q - 1) /\ (p < q - 1 => s * (p + 1) <= s * (q - 1))
  <2> HIDE DEF s, q
  <2> QED
    BY <1>1, <1>2, Multiples
<1>4. LastOf(c, p) = (IF s * p + s < c.n THEN s * p + s ELSE c.n) - 1
  BY <1>3 DEF LastOf, Least
<1>5. p = q - 1 => s * p + s = s * q
  <2>1. p = q - 1 => p + 1 = q
    BY <1>1, <1>2
  <2> QED
    BY <1>3, <2>1
<1> DEFINE b == s * p
<1>6. b \in Nat /\ b < c.n /\ (p = q - 1 => c.n <= b + s) /\ (p < q - 1 => b + s < c.n)
  <2> DEFINE d == s * (q - 1)
             e == s * q
             f == s * (p + 1)
  <2>1. d < c.n /\ c.n <= e /\ b <= d /\ (p < q - 1 => f <= d) /\ f = b + s /\ (p = q - 1 => b + s = e) /\ b \in Nat
    BY <1>1, <1>2, <1>3, <1>5
  <2>2. d \in Nat /\ e \in Nat
    <3> HIDE DEF s, q
    <3> QED
      BY <1>1, <1>2, Multiples
  <2> HIDE DEF d, e, f, b
  <2> QED
    BY <1>1, <2>1, <2>2
<1>7. LastOf(c, p) = (IF b + s < c.n THEN b + s ELSE c.n) - 1 /\ s * (p + 1) = b + s
  BY <1>3, <1>4
<1>8. LastOf(c, p) = Least(b + s, c.n) - 1
  BY <1>7 DEF Least
<1> DEFINE f == s * (p + 1)
<1>9. f = b + s /\ LastOf(c, p) = (IF b + s < c.n THEN b + s ELSE c.n) - 1
  BY <1>7
<1> HIDE DEF b, s, f, q
<1>10. /\ LastOf(c, p) \in Nat /\ b \in Nat /\ b <= LastOf(c, p) /\ LastOf(c, p) < c.n
       /\ LastOf(c, p) < b + s
       /\ p < q - 1 => LastOf(c, p) + 1 = f
       /\ p = q - 1 => LastOf(c, p) = c.n - 1
       /\ \A t \in Nat : t < c.n /\ t < b + s => t <= LastOf(c, p)
  BY <1>1, <1>2, <1>6, <1>9
<1> QED
  BY <1>8, <1>10 DEF b, s, f, q

(* Segment starts in the intervals y + 1 .. z.                             *)
LEMMA StartsInIntervals ==
  ASSUME NEW c \in Inputs, NEW y \in Nat, NEW z \in Nat, y < z, z < CountOf(c)
  PROVE  (\E q \in y + 1 .. z : q \in Kernel2(c).H) <=> \E t \in LastOf(c, y) + 1 .. LastOf(c, z) : t \in SegStarts(c)
<1> DEFINE s == SizeOf(c)
           w == CountOf(c)
           H == Kernel2(c).H
           L(p) == LastOf(c, p)
<1>1. s \in Nat \ {0} /\ w \in Nat /\ c.n \in Nat /\ SegStarts(c) \subseteq Nat
  BY InputNumbers
<1>2. H = {p \in 0 .. w - 1 : \E q \in SegStarts(c) : s * p <= q /\ q <= L(p)}
  BY KernelFields
<1>3. \A p \in 0 .. w - 1 : /\ L(p) \in Nat /\ s * p \in Nat /\ L(p) < c.n /\ L(p) < s * p + s
                            /\ \A t \in Nat : t < c.n /\ t < s * p + s => t <= L(p)
  BY LastOfIs
<1>4. y \in 0 .. w - 1 /\ z \in 0 .. w - 1 /\ y < w - 1
  BY <1>1
<1>10. ASSUME NEW p \in Nat, p <= z PROVE p \in 0 .. w - 1
  <2>1. w \in Nat /\ z < w
    BY <1>1
  <2> HIDE DEF w
  <2> QED
    BY <1>10, <2>1
<1>5. L(y) + 1 = s * (y + 1)
  BY <1>4, LastOfIs
<1>6. \A p \in 0 .. z : L(p) <= L(z)
  <2>1. ASSUME NEW p \in 0 .. z PROVE L(p) <= L(z)
    <3>1. p \in 0 .. w - 1 /\ p \in Nat /\ p <= z
      BY <1>10
    <3>2. s * p <= s * z
      <4> HIDE DEF s
      <4> QED
        BY <1>1, <3>1, Multiples
    <3>3. L(p) \in Nat /\ L(p) < c.n /\ L(p) < s * p + s /\ s * p \in Nat /\ s * z \in Nat
      BY <1>3, <1>4, <3>1
    <3>4. L(p) < s * z + s
      <4> DEFINE a == s * p
                 b == s * z
      <4>1. a <= b /\ a \in Nat /\ b \in Nat /\ L(p) < a + s
        BY <3>2, <3>3
      <4> HIDE DEF a, b, s, L
      <4> QED
        <5>1. L(p) < b + s
          BY <1>1, <3>3, <4>1
        <5> QED
          BY <5>1 DEF b
    <3> QED
      BY <1>3, <1>4, <3>3, <3>4
  <2> QED
    BY <2>1
<1> HIDE DEF H
<1> HIDE DEF L
<1>7. ASSUME NEW q \in y + 1 .. z, q \in H PROVE \E t \in L(y) + 1 .. L(z) : t \in SegStarts(c)
  <2>1. PICK t \in SegStarts(c) : s * q <= t /\ t <= L(q)
    BY <1>2, <1>7
  <2>2. s * (y + 1) <= s * q
    <3>1. y + 1 \in Nat /\ q \in Nat /\ y + 1 <= q
      OBVIOUS
    <3> HIDE DEF s
    <3> QED
      BY <1>1, <3>1, Multiples
  <2>3. L(q) <= L(z)
    BY <1>6
  <2>4. t \in Nat /\ s * q \in Nat /\ L(q) \in Nat /\ L(z) \in Nat /\ L(y) \in Nat
    <3>1. q \in 0 .. w - 1
      BY <1>10
    <3> QED
      BY <1>1, <1>3, <1>4, <3>1
  <2> DEFINE a == s * q
             b == s * (y + 1)
  <2>5. b <= a /\ a <= t /\ t <= L(q) /\ L(q) <= L(z) /\ L(y) + 1 = b /\ a \in Nat
    BY <1>5, <2>1, <2>2, <2>3, <2>4
  <2> HIDE DEF a, b
  <2>6. t \in L(y) + 1 .. L(z)
    BY <2>4, <2>5
  <2> QED
    BY <2>1, <2>6
<1>8. ASSUME NEW t \in L(y) + 1 .. L(z), t \in SegStarts(c) PROVE \E q \in y + 1 .. z : q \in H
  <2>1. t \in Nat /\ t < c.n /\ L(y) \in Nat /\ L(z) \in Nat /\ L(y) < t /\ t <= L(z)
    BY <1>1, <1>3, <1>4, <1>8
  <2> DEFINE q == t \div s
  <2>2. q \in Nat /\ s * q <= t /\ t < s * q + s
    <3> HIDE DEF s
    <3>1. t = s * q + (t % s) /\ t % s \in 0 .. s - 1 /\ q \in Nat
      BY <1>1, <2>1, Division
    <3>2. s * q \in Nat
      BY <1>1, <3>1
    <3> DEFINE a == s * q
               d == t % s
    <3>3. t = a + d /\ d \in 0 .. s - 1 /\ a \in Nat
      BY <3>1, <3>2
    <3>4. a <= t /\ t < a + s
      <4> HIDE DEF a, d
      <4> QED
        BY <1>1, <3>3
    <3> QED
      BY <3>1, <3>4
  <2> HIDE DEF q
  <2>3. y + 1 <= q
    <3>1. s * (q + 1) = s * q + s /\ s * (y + 1) \in Nat
      BY <1>1, <2>2
    <3>2. s * (y + 1) < s * (q + 1)
      <4> DEFINE a == s * (q + 1)
                 b == s * (y + 1)
                 e == s * q
      <4>1. a = e + s /\ t < e + s /\ L(y) + 1 = b
        BY <1>5, <2>2, <3>1
      <4>2. e \in Nat
        BY <1>1, <2>2
      <4> HIDE DEF a, b, e, s
      <4>3. b < a
        BY <1>1, <2>1, <4>1, <4>2
      <4> QED
        BY <4>3 DEF a, b
    <3>3. y + 1 < q + 1
      <4>1. y + 1 \in Nat /\ q + 1 \in Nat
        BY <2>2
      <4> HIDE DEF s
      <4> QED
        BY <1>1, <3>2, <4>1, Multiples
    <3> QED
      BY <2>2, <3>3
  <2>4. q <= z
    <3>1. L(z) < s * z + s /\ s * z \in Nat
      BY <1>3, <1>4
    <3>2. s * q < s * (z + 1)
      <4> DEFINE a == s * q
                 b == s * (z + 1)
                 e == s * z
      <4>1. b = e + s /\ a <= t /\ L(z) < e + s /\ e \in Nat /\ a \in Nat
        BY <1>1, <2>2, <3>1
      <4> HIDE DEF a, b, e, s
      <4>2. a < b
        BY <1>1, <2>1, <4>1
      <4> QED
        BY <4>2 DEF a, b
    <3>3. q < z + 1
      <4> HIDE DEF s
      <4> QED
        BY <1>1, <2>2, <3>2, Multiples
    <3> QED
      BY <2>2, <3>3
  <2>5. q \in 0 .. w - 1 /\ q \in y + 1 .. z
    BY <1>10, <2>2, <2>3, <2>4
  <2>6. t <= L(q)
    BY <1>3, <2>1, <2>2, <2>5
  <2>7. q \in H
    BY <1>2, <1>8, <2>2, <2>5, <2>6
  <2> QED
    BY <2>5, <2>7
<1> QED
  BY <1>7, <1>8 DEF H, L

Joins(c, x, y, z) ==
  /\ (\E q \in y + 1 .. z : q \in SegStarts(c)) => SumOf(c, x, z) = SumOf(c, y + 1, z)
  /\ ~(\E q \in y + 1 .. z : q \in SegStarts(c)) => SumOf(c, x, z) = SumOf(c, x, y) \o SumOf(c, y + 1, z)
LEMMA SumsJoinHere ==
  ASSUME NEW c, SegStarts(c) \subseteq Nat, NEW x \in Nat, NEW y \in Nat, NEW z \in Nat, x <= y, y < z
  PROVE  Joins(c, x, y, z)
BY SumsJoin, Zenon DEF Joins

(* and so do the sums of intervals.                                        *)
LEMMA Law2 ==
  ASSUME NEW c \in Inputs
  PROVE  Law(Kernel2(c))
<1> DEFINE j == Kernel2(c)
           w == CountOf(c)
           X(p) == SizeOf(c) * p
           L(p) == LastOf(c, p)
<1>1. SegStarts(c) \subseteq Nat /\ w \in Nat
  BY InputNumbers
<1>2. j.n = w
  BY KernelFields
<1>3. \A x, y \in 0 .. w - 1 : j.W[<<x, y>>] = SumOf(c, X(x), L(y))
  BY DEF Kernel2
<1>4. ASSUME NEW x \in Nat, NEW y \in Nat, NEW z \in Nat, x <= y, y < z, z < w
      PROVE  /\ (\E q \in y + 1 .. z : q \in j.H) => j.W[<<x, z>>] = j.W[<<y + 1, z>>]
             /\ ~(\E q \in y + 1 .. z : q \in j.H) => j.W[<<x, z>>] = j.W[<<x, y>>] \o j.W[<<y + 1, z>>]
  <2>1. x \in 0 .. w - 1 /\ y \in 0 .. w - 1 /\ z \in 0 .. w - 1 /\ y + 1 \in 0 .. w - 1 /\ y < w - 1
    BY <1>1, <1>4
  <2>2. /\ L(y) \in Nat /\ X(y) <= L(y) /\ L(y) + 1 = X(y + 1) /\ X(y) \in Nat
        /\ L(z) \in Nat /\ X(z) <= L(z) /\ X(z) \in Nat
    BY <2>1, LastOfIs
  <2>3. X(x) \in Nat /\ X(x) <= X(y) /\ X(y + 1) \in Nat /\ X(y + 1) <= X(z)
    <3>1. SizeOf(c) \in Nat \ {0} /\ y + 1 \in Nat /\ y + 1 <= z
      BY <1>4, InputNumbers
    <3>2. X(x) <= X(y) /\ X(x) \in Nat
      BY <1>4, <3>1, Multiples
    <3>3. X(y + 1) <= X(z) /\ X(y + 1) \in Nat
      BY <3>1, Multiples
    <3> QED
      BY <3>2, <3>3
  <2>4. (\E q \in y + 1 .. z : q \in j.H) <=> \E t \in L(y) + 1 .. L(z) : t \in SegStarts(c)
    BY <1>4, StartsInIntervals
  <2>5. j.W[<<x, z>>] = SumOf(c, X(x), L(z)) /\ j.W[<<x, y>>] = SumOf(c, X(x), L(y)) /\ j.W[<<y + 1, z>>] = SumOf(c, X(y + 1), L(z))
    BY <1>3, <2>1
  <2> HIDE DEF X, L, j
  <2>6. X(x) <= L(y) /\ L(y) < L(z)
    BY <2>2, <2>3
  <2>7. /\ (\E q \in L(y) + 1 .. L(z) : q \in SegStarts(c)) => SumOf(c, X(x), L(z)) = SumOf(c, L(y) + 1, L(z))
        /\ ~(\E q \in L(y) + 1 .. L(z) : q \in SegStarts(c)) => SumOf(c, X(x), L(z)) = SumOf(c, X(x), L(y)) \o SumOf(c, L(y) + 1, L(z))
    <3>1. Joins(c, X(x), L(y), L(z))
      BY <1>1, <2>2, <2>3, <2>6, SumsJoinHere
    <3> QED
      BY <3>1 DEF Joins
  <2>8. SumOf(c, L(y) + 1, L(z)) = SumOf(c, X(y + 1), L(z))
    BY <2>2
  <2> QED
    BY <2>4, <2>5, <2>7, <2>8, Zenon
<1> HIDE DEF j
<1>5. Law(j)
  BY <1>2, <1>4 DEF Law
<1> QED
  BY <1>5 DEF j

LEMMA GoodKernels ==
  ASSUME NEW c \in Inputs
  PROVE  /\ GoodKernel(Kernel1(c))
         /\ c.n > 0 => GoodKernel(Kernel2(c))
<1>1. /\ c.n \in Nat /\ c.n <= NO_SEG_BOUNDARY /\ NO_SEG_BOUNDARY \in Nat
      /\ c.wg \in Nat \ {0} /\ c.k \in Nat \ {0} /\ SegStarts(c) \subseteq Nat
      /\ SizeOf(c) \in Nat \ {0} /\ (\E u \in Nat : SizeOf(c) = UnitOf(c) * u)
      /\ CountOf(c) \in Nat /\ CountOf(c) <= c.n /\ (c.n = 0 <=> CountOf(c) = 0)
  BY InputNumbers
<1>2. \E u \in Nat : SizeOf(c) = (c.wg * c.k) * u
  BY <1>1 DEF UnitOf
<1>3. GoodKernel(Kernel1(c))
  <2> DEFINE j == Kernel1(c)
  <2>1. j.wg = c.wg /\ j.k = c.k /\ j.size = SizeOf(c) /\ j.n = c.n /\ j.m = c.n /\ j.H = SegStarts(c)
    BY KernelFields
  <2>2. Law(j)
    BY Law1
  <2> HIDE DEF j
  <2> QED
    <3>1. GoodKernel(j)
      BY <1>1, <1>2, <2>1, <2>2 DEF GoodKernel
    <3> QED
      BY <3>1 DEF j
<1>4. ASSUME c.n > 0 PROVE GoodKernel(Kernel2(c))
  <2> DEFINE j == Kernel2(c)
  <2>1. j.wg = c.wg /\ j.k = c.k /\ j.size = SizeOf(c) /\ j.n = CountOf(c)
    BY KernelFields
  <2>2. j.m = (IF c.segmented THEN CountOf(c) - 1 ELSE CountOf(c)) /\ j.H \subseteq 0 .. CountOf(c) - 1
    BY KernelFields
  <2>3. Law(j)
    BY Law2
  <2> HIDE DEF j
  <2>4. j.m \in 0 .. j.n /\ j.H \subseteq Nat /\ j.n <= NO_SEG_BOUNDARY
    BY <1>1, <1>4, <2>1, <2>2
  <2> QED
    <3>1. GoodKernel(j)
      BY <1>1, <1>2, <2>1, <2>3, <2>4 DEF GoodKernel
    <3> QED
      BY <3>1 DEF j
<1> QED
  BY <1>3, <1>4

-----------------------------------------------------------------------------
(* What the kernels read.                                                  *)
LEMMA Kernel1Sums ==
  ASSUME NEW c
  PROVE  \A x, y \in 0 .. c.n - 1 : Kernel1(c).W[<<x, y>>] = SumOf(c, x, y)
BY DEF Kernel1

LEMMA Kernel2Sums ==
  ASSUME NEW c
  PROVE  \A x, y \in 0 .. CountOf(c) - 1 : Kernel2(c).W[<<x, y>>] = SumOf(c, SizeOf(c) * x, LastOf(c, y))
BY DEF Kernel2

(* What the first kernel reads is its elements,                            *)
LEMMA FirstInput ==
  ASSUME NEW c \in Inputs, NEW j, j = Kernel1(c), inp = c, phase = "lev1", NEW g \in Nat, base[g] \in Nat, at[g] = "load",
         c.stencil => FetchInv(j, g, GroupState(g))
  PROVE  \A o \in 0 .. Unit(j) - 1 : base[g] + o < Limit(j, g) =>
            INPUT_EXPR(base[g] + o, Fetched(g, o)) = j.W[<<base[g] + o, base[g] + o>>]
<1>1. GoodKernel(j)
  BY GoodKernels
<1>2. /\ Limit(j, g) <= End(j, g) /\ Limit(j, g) \in Nat /\ End(j, g) \in Nat /\ End(j, g) <= j.n /\ j.n \in Nat /\ Unit(j) \in Nat
  BY <1>1, KernelNumbers
<1>3. j.n = c.n /\ SegStarts(c) \subseteq Nat
  BY KernelFields, InputNumbers
<1>4. GroupState(g).s = "load" /\ GroupState(g).b = base[g] /\ GroupState(g).x = lfetch[g]
  BY StateFields
<1>5. c.stencil => \A p \in 0 .. Unit(j) - 1 : base[g] + p < End(j, g) => lfetch[g][p] = base[g] + p
  BY <1>4 DEF FetchInv
<1>6. \A x, y \in 0 .. c.n - 1 : j.W[<<x, y>>] = SumOf(c, x, y)
  BY Kernel1Sums
<1>7. SUFFICES ASSUME NEW o \in 0 .. Unit(j) - 1, base[g] + o < Limit(j, g)
               PROVE  INPUT_EXPR(base[g] + o, Fetched(g, o)) = j.W[<<base[g] + o, base[g] + o>>]
  OBVIOUS
<1>8. o \in Nat /\ o < Unit(j)
  BY <1>2
<1>9. base[g] + o \in 0 .. c.n - 1 /\ base[g] + o \in Nat
  BY <1>2, <1>3, <1>7, <1>8
<1>10. j.W[<<base[g] + o, base[g] + o>>] = <<base[g] + o>>
  <2>1. SumOf(c, base[g] + o, base[g] + o) = <<base[g] + o>>
    BY <1>3, <1>9, OneElement
  <2> QED
    BY <1>6, <1>9, <2>1
<1>11. c.stencil /\ base[g] + o > 0 => Fetched(g, o) = (base[g] + o) - 1
  <2>1. CASE o > 0
    <3>1. o - 1 \in 0 .. Unit(j) - 1 /\ base[g] + (o - 1) < End(j, g) /\ base[g] + (o - 1) = (base[g] + o) - 1
      BY <1>2, <1>7, <1>8, <2>1
    <3> QED
      BY <1>5, <2>1, <3>1 DEF Fetched
  <2>2. CASE ~(o > 0)
    <3>1. o = 0
      BY <1>8, <2>2
    <3> QED
      BY <2>2, <3>1 DEF Fetched
  <2> QED
    BY <2>1, <2>2
<1> QED
  BY <1>10, <1>11 DEF INPUT_EXPR

LEMMA FirstStarts ==
  ASSUME NEW c \in Inputs, NEW j, j = Kernel1(c), inp = c, phase = "lev1"
  PROVE  \A i : IS_SEG_START(i) <=> i \in j.H
<1>1. j.H = SegStarts(c)
  BY KernelFields
<1> QED
  BY <1>1 DEF IS_SEG_START, SegStarts

(* and what the second reads is the sums of the intervals.                 *)
LEMMA SecondInput ==
  ASSUME NEW c \in Inputs, NEW j, j = Kernel2(c), inp = c, phase = "lev2", c.n > 0, base[0] \in Nat, at[0] = "load",
         Begin(j, 0) <= base[0], InputInv(j, 0, GroupState(0), results)
  PROVE  \A o \in 0 .. Unit(j) - 1 : base[0] + o < Limit(j, 0) =>
            INPUT_EXPR(base[0] + o, Fetched(0, o)) = j.W[<<base[0] + o, base[0] + o>>]
<1>1. GoodKernel(j)
  BY GoodKernels
<1>2. Limit(j, 0) \in Nat /\ Unit(j) \in Nat /\ Begin(j, 0) \in Nat
  BY <1>1, KernelNumbers
<1>3. GroupState(0).s = "load" /\ GroupState(0).b = base[0]
  BY StateFields
<1>4. \A i \in Span(j, 0) : base[0] <= i => results[i] = j.W[<<i, i>>]
  BY <1>3 DEF InputInv
<1>5. SUFFICES ASSUME NEW o \in 0 .. Unit(j) - 1, base[0] + o < Limit(j, 0)
               PROVE  INPUT_EXPR(base[0] + o, Fetched(0, o)) = j.W[<<base[0] + o, base[0] + o>>]
  OBVIOUS
<1>6. base[0] + o \in Span(j, 0) /\ base[0] <= base[0] + o
  BY <1>2, <1>5 DEF Span
<1>7. INPUT_EXPR(base[0] + o, Fetched(0, o)) = results[base[0] + o]
  BY DEF INPUT_EXPR
<1> QED
  BY <1>4, <1>6, <1>7

(* An interval that other ones follow is full, so its first segment start  *)
(* is exact.                                                               *)
LEMMA SecondStarts ==
  ASSUME NEW c \in Inputs, NEW j, j = Kernel2(c), inp = c, phase = "lev2", c.n > 0, IntervalsKept(c)
  PROVE  \A i \in Span(j, 0) : IS_SEG_START(i) <=> i \in j.H
<1> DEFINE w == CountOf(c)
           e == Kernel1(c)
<1>1. /\ j.n = w /\ j.m = (IF c.segmented THEN w - 1 ELSE w)
      /\ j.H = {p \in 0 .. w - 1 : \E q \in SegStarts(c) : SizeOf(c) * p <= q /\ q <= LastOf(c, p)}
  BY KernelFields
<1>2. c.segmented \in BOOLEAN /\ w \in Nat /\ SizeOf(c) \in Nat \ {0} /\ c.n \in Nat
  BY InputNumbers
<1>3. GoodKernel(j) /\ GoodKernel(e)
  BY GoodKernels
<1>4. Limit(j, 0) <= j.m /\ Begin(j, 0) \in Nat
  BY <1>3, KernelNumbers
<1>5. SUFFICES ASSUME NEW i \in Span(j, 0) PROVE IS_SEG_START(i) <=> i \in j.H
  OBVIOUS
<1>6. CASE ~c.segmented
  <2>1. SegStarts(c) = {}
    BY <1>6 DEF SegStarts
  <2>2. i \notin j.H
    BY <1>1, <2>1
  <2> QED
    BY <1>6, <2>2 DEF IS_SEG_START
<1>7. CASE c.segmented
  <2>1. i \in 0 .. w - 1 /\ i < w - 1 /\ i \in Nat
    <3>1. i \in Begin(j, 0) .. Limit(j, 0) - 1 /\ Limit(j, 0) \in Nat
      BY <1>3, KernelNumbers DEF Span
    <3>2. j.m = w - 1
      BY <1>1, <1>7
    <3> HIDE DEF w
    <3> QED
      BY <1>2, <1>4, <3>1, <3>2
  <2>2. e.seg = c.segmented /\ e.size = SizeOf(c) /\ e.n = c.n /\ e.m = c.n /\ e.H = SegStarts(c)
    BY KernelFields
  <2>3. /\ LastOf(c, i) \in Nat /\ LastOf(c, i) < c.n /\ SizeOf(c) * i \in Nat /\ SizeOf(c) * i <= LastOf(c, i)
        /\ LastOf(c, i) = Least(SizeOf(c) * i + SizeOf(c), c.n) - 1
        /\ LastOf(c, i) < SizeOf(c) * i + SizeOf(c)
        /\ LastOf(c, i) + 1 = SizeOf(c) * (i + 1)
    BY <2>1, LastOfIs
  <2>4. Begin(e, i) = SizeOf(c) * i
    BY <2>2 DEF Begin
  <2>5. End(e, i) = Least(SizeOf(c) * i + SizeOf(c), c.n) /\ Limit(e, i) = Least(SizeOf(c) * i + SizeOf(c), c.n)
    BY <2>2, <2>4 DEF End, Limit
  <2>6. End(e, i) \in Nat
    BY <1>3, <2>1, KernelNumbers
  <2>7. SizeOf(c) * (i + 1) = SizeOf(c) * i + SizeOf(c)
    BY <1>2, <2>1
  <2>8. Begin(e, i) + e.size <= e.n /\ End(e, i) - 1 = LastOf(c, i)
    <3> DEFINE b == SizeOf(c) * i
               f == SizeOf(c) * (i + 1)
    <3>1. f = b + SizeOf(c) /\ LastOf(c, i) + 1 = f /\ LastOf(c, i) < c.n /\ LastOf(c, i) \in Nat /\ b \in Nat
      BY <2>3, <2>7
    <3>2. Begin(e, i) = b
      BY <2>4
    <3> HIDE DEF b, f
    <3>3. b + SizeOf(c) <= c.n
      BY <1>2, <3>1
    <3> QED
      BY <2>2, <2>3, <2>5, <3>2, <3>3
  <2>9. FirstSeg(e, i, first_seg[i])
    <3>1. i \in Groups1(c)
      BY <2>1 DEF Groups1
    <3> QED
      BY <3>1 DEF IntervalsKept
  <2>10. Finds(e, i, first_seg[i], Begin(e, i), LastOf(c, i))
    <3> HIDE DEF e
    <3> QED
      BY <1>7, <2>2, <2>8, <2>9 DEF FirstSeg
  <2>11. LastOf(c, i) < Limit(e, i)
    <3>1. Limit(e, i) = End(e, i)
      BY <2>5
    <3> QED
      BY <2>3, <2>6, <2>8, <3>1
  <2>12. first_seg[i] # NO_SEG_BOUNDARY <=> \E q \in Begin(e, i) .. LastOf(c, i) : q \in e.H
    <3>1. ASSUME NEW x \in Nat, NEW y \in Nat, x <= y, y < Limit(e, i), Finds(e, i, first_seg[i], x, y)
          PROVE  first_seg[i] # NO_SEG_BOUNDARY <=> \E q \in x .. y : q \in e.H
      <4> HIDE DEF e
      <4> QED
        BY <1>3, <2>1, <3>1, FindsTells
    <3>2. Begin(e, i) \in Nat /\ Begin(e, i) <= LastOf(c, i)
      BY <2>3, <2>4
    <3> HIDE DEF e
    <3> QED
      BY <2>3, <2>10, <2>11, <3>1, <3>2
  <2>13. (\E q \in Begin(e, i) .. LastOf(c, i) : q \in e.H) <=> i \in j.H
    <3>1. i \in j.H <=> \E q \in SegStarts(c) : SizeOf(c) * i <= q /\ q <= LastOf(c, i)
      BY <1>1, <2>1
    <3>2. SegStarts(c) \subseteq Nat
      BY InputNumbers
    <3> DEFINE b == SizeOf(c) * i
    <3>3. b \in Nat /\ Begin(e, i) = b /\ (i \in j.H <=> \E q \in SegStarts(c) : b <= q /\ q <= LastOf(c, i))
      BY <2>3, <2>4, <3>1
    <3> HIDE DEF b, e
    <3> QED
      BY <2>2, <2>3, <3>2, <3>3
  <2> HIDE DEF e
  <2> QED
    BY <1>7, <2>12, <2>13 DEF IS_SEG_START
<1> QED
  BY <1>2, <1>6, <1>7

-----------------------------------------------------------------------------
(* The first level.                                                        *)
LEMMA OutSame ==
  ASSUME NEW j, NEW g, NEW r, NEW out, NEW out2, OutInv(j, g, r, out), Same(j, g, out, out2)
  PROVE  OutInv(j, g, r, out2)
BY DEF OutInv, Same

LEMMA FlagsSame ==
  ASSUME NEW j, NEW g, NEW r, NEW flags, NEW flags2, FlagsInv(j, g, r, flags), Same(j, g, flags, flags2)
  PROVE  FlagsInv(j, g, r, flags2)
BY DEF FlagsInv, Same

LEMMA FirstIntervals ==
  ASSUME NEW c \in Inputs, NEW g \in Groups1(c)
  PROVE  LET j == Kernel1(c) IN
           /\ g \in Nat /\ g \in 0 .. CountOf(c) - 1
           /\ Begin(j, g) < End(j, g) /\ Limit(j, g) = End(j, g) /\ End(j, g) - 1 = LastOf(c, g) /\ Begin(j, g) = SizeOf(c) * g
           /\ Begin(j, g) \in Nat /\ End(j, g) \in Nat
<1> DEFINE j == Kernel1(c)
<1>1. j.size = SizeOf(c) /\ j.n = c.n /\ j.m = c.n
  BY KernelFields
<1>2. g \in 0 .. CountOf(c) - 1 /\ g \in Nat
  <2>1. CountOf(c) \in Nat
    BY InputNumbers
  <2> QED
    BY <2>1 DEF Groups1
<1>3. LastOf(c, g) = Least(SizeOf(c) * g + SizeOf(c), c.n) - 1 /\ SizeOf(c) * g \in Nat /\ SizeOf(c) * g <= LastOf(c, g) /\ LastOf(c, g) \in Nat
  BY <1>2, LastOfIs
<1>4. GoodKernel(j)
  BY GoodKernels
<1>5. Begin(j, g) = SizeOf(c) * g
  BY <1>1 DEF Begin
<1>6. End(j, g) = Least(SizeOf(c) * g + SizeOf(c), c.n) /\ Limit(j, g) = Least(SizeOf(c) * g + SizeOf(c), c.n)
  BY <1>1, <1>5 DEF End, Limit
<1>7. End(j, g) \in Nat
  BY <1>2, <1>4, KernelNumbers
<1> HIDE DEF j
<1>8. End(j, g) - 1 = LastOf(c, g) /\ Limit(j, g) = End(j, g)
  BY <1>3, <1>6
<1> DEFINE b == SizeOf(c) * g
<1>9. b \in Nat /\ b <= LastOf(c, g) /\ Begin(j, g) = b
  BY <1>3, <1>5
<1> HIDE DEF b
<1>10. Begin(j, g) < End(j, g)
  BY <1>3, <1>7, <1>8, <1>9
<1> QED
  BY <1>2, <1>5, <1>7, <1>8, <1>9, <1>10 DEF j

(* A run of the first level.                                               *)
InLev1(c) == c \in Inputs /\ inp = c /\ phase = "lev1" /\ ScanShape /\ Lev1Inv(c)

(* The first level: every step of a group keeps what is known of all       *)
(* groups.                                                                 *)
LEMMA Lev1Runs ==
  ASSUME NEW c, InLev1(c)
  PROVE  /\ Runs(c, Kernel1(c)) /\ GoodKernel(Kernel1(c)) /\ DOMAIN at = Groups1(c)
         /\ DOMAIN results = Groups1(c) /\ DOMAIN first_seg = Groups1(c)
         /\ Lids(phase) = Items(Kernel1(c))
<1>1. Runs(c, Kernel1(c))
  BY DEF InLev1, Runs
<1>2. GoodKernel(Kernel1(c))
  BY GoodKernels DEF InLev1
<1>3. DOMAIN at = Groups("lev1")
  BY DEF InLev1, ScanShape
<1>4. Groups("lev1") = Groups1(c)
  BY SizesAre DEF InLev1, Groups, Groups1
<1>5. Lids(phase) = Items(Kernel1(c))
  BY <1>1, RunTerms
<1> QED
  BY <1>1, <1>2, <1>3, <1>4, <1>5 DEF InLev1, ScanShape

LEMMA Lev1Effects ==
  ASSUME NEW c, InLev1(c), NEW g \in Groups1(c), NEW l \in Items(Kernel1(c)), WorkItem(g, l)
  PROVE  Effects(Kernel1(c), g, l)
<1> DEFINE j == Kernel1(c)
<1>1. Runs(c, j) /\ GoodKernel(j) /\ g \in DOMAIN at
  BY Lev1Runs
<1>2. c \in Inputs /\ inp = c /\ phase = "lev1"
  BY DEF InLev1
<1>3. g \in Nat
  BY <1>2, FirstIntervals
<1>4. UnitInv(j, g, GroupState(g)) /\ DOMAIN lfetch[g] = 0 .. Unit(j) - 1 /\ (c.stencil => FetchInv(j, g, GroupState(g)))
  BY DEF InLev1, Lev1Inv, Lev1Group
<1>5. base[g] \in Nat
  <2>1. UnitShape(j, g, GroupState(g))
    BY <1>4 DEF UnitInv
  <2> QED
    BY <1>1, <1>3, <2>1, ShapeFacts
<1>6. at[g] = "load" => \A o \in 0 .. Unit(j) - 1 : base[g] + o < Limit(j, g) =>
            INPUT_EXPR(base[g] + o, Fetched(g, o)) = j.W[<<base[g] + o, base[g] + o>>]
  BY <1>2, <1>3, <1>4, <1>5, FirstInput
<1>7. \A i : IS_SEG_START(i) <=> i \in j.H
  BY <1>2, FirstStarts
<1> HIDE DEF j
<1>8. Effects(j, g, l)
  <2>1. l \in Items(j)
    BY DEF j
  <2> QED
    BY <1>1, <1>3, <1>4, <1>6, <1>7, <2>1, WorkItemIs
<1> QED
  BY <1>8 DEF j

(* A work item keeps what is known of its group,                           *)
LEMMA Lev1Own ==
  ASSUME NEW c, InLev1(c), NEW g \in Groups1(c), NEW l \in Items(Kernel1(c)), Effects(Kernel1(c), g, l)
  PROVE  Lev1Group(c, g)'
<1> DEFINE j == Kernel1(c)
           r == GroupState(g)
           q == GroupState(g)'
<1>1. GoodKernel(j)
  BY Lev1Runs
<1>2. c \in Inputs /\ inp = c /\ phase = "lev1"
  BY DEF InLev1
<1>3. g \in Nat /\ Begin(j, g) < End(j, g) /\ Limit(j, g) = End(j, g)
  BY <1>2, FirstIntervals
<1>4. /\ UnitInv(j, g, r) /\ OutInv(j, g, r, partial) /\ SumInv(j, g, r, results[g], first_seg[g])
      /\ DOMAIN lfetch[g] = 0 .. Unit(j) - 1
      /\ c.stencil => FetchInv(j, g, r)
      /\ c.segmented /\ c.lookbehind => FlagsInv(j, g, r, gflags)
  BY DEF InLev1, Lev1Inv, Lev1Group
<1>5. r.x = lfetch[g] /\ q.x = lfetch'[g]
  BY StateFields, StateFieldsNext
<1>6. /\ UnitInv(j, g, q) /\ Arrives(r, q, l)
      /\ IF r.s = "fetch" THEN FetchEffect(j, g, r, q, l) /\ DOMAIN q.x = 0 .. Unit(j) - 1 ELSE q.x = r.x
      /\ IF r.s = "load" /\ c.segmented /\ c.lookbehind THEN FlagsEffect(j, g, r, l, gflags, gflags') ELSE gflags' = gflags
      /\ IF r.s = "write" THEN WrittenEffect(j, g, r, l, partial, partial') ELSE partial' = partial
      /\ IF r.s = "interval_sum"
           THEN IF l = 0 THEN results'[g] = partial[End(j, g) - 1] /\ (j.seg => first_seg'[g] = r.v[0].interval)
                ELSE results' = results /\ first_seg' = first_seg
           ELSE results' = results /\ first_seg' = first_seg
  BY <1>2 DEF Effects
<1> HIDE DEF j, r, q
<1>7. UnitShape(j, g, r)
  BY <1>4 DEF UnitInv
<1>8. OutInv(j, g, q, partial')
  <2>1. CASE r.s = "write"
    BY <1>1, <1>3, <1>4, <1>6, <2>1, OutWritten
  <2>2. CASE r.s # "write"
    <3>1. Same(j, g, partial, partial')
      BY <1>6, <2>2 DEF Same
    <3> QED
      BY <1>4, <1>6, <2>2, <3>1, OutStays
  <2> QED
    BY <2>1, <2>2
<1>9. SumInv(j, g, q, results'[g], first_seg'[g])
  <2>1. CASE r.s = "interval_sum" /\ l = 0
    BY <1>1, <1>3, <1>4, <1>6, <2>1, SumWritten
  <2>2. CASE r.s # "interval_sum" \/ l # 0
    <3>1. results' = results /\ first_seg' = first_seg
      BY <1>6, <2>2
    <3>2. SumInv(j, g, q, results[g], first_seg[g])
      BY <1>4, <1>6, <2>2, SumStays
    <3> QED
      BY <3>1, <3>2
  <2> QED
    BY <2>1, <2>2
<1>10. DOMAIN lfetch'[g] = 0 .. Unit(j) - 1
  BY <1>4, <1>5, <1>6
<1>11. c.stencil => FetchInv(j, g, q)
  <2>1. IF r.s = "fetch" THEN FetchEffect(j, g, r, q, l) ELSE q.x = r.x
    BY <1>6
  <2> QED
    BY <1>4, <1>6, <2>1, FetchedStep
<1>12. c.segmented /\ c.lookbehind => FlagsInv(j, g, q, gflags')
  <2> SUFFICES ASSUME c.segmented, c.lookbehind PROVE FlagsInv(j, g, q, gflags')
    OBVIOUS
  <2>1. CASE r.s = "load"
    BY <1>1, <1>3, <1>4, <1>6, <1>7, <2>1, FlagsLoaded
  <2>2. CASE r.s # "load"
    <3>1. Same(j, g, gflags, gflags')
      BY <1>6, <2>2 DEF Same
    <3> QED
      BY <1>4, <1>6, <2>2, <3>1, FlagsStay
  <2> QED
    BY <2>1, <2>2
<1> QED
  BY <1>6, <1>8, <1>9, <1>10, <1>11, <1>12 DEF Lev1Group, j, q

(* and of the others.                                                      *)
LEMMA Lev1Other ==
  ASSUME NEW c, InLev1(c), NEW g \in Groups1(c), NEW l, Effects(Kernel1(c), g, l), NEW h \in Groups1(c), h # g
  PROVE  Lev1Group(c, h)'
<1> DEFINE j == Kernel1(c)
           r == GroupState(h)
           q == GroupState(h)'
<1>1. DOMAIN at = Groups1(c)
  BY Lev1Runs
<1>2. c \in Inputs /\ inp = c /\ phase = "lev1"
  BY DEF InLev1
<1>3. h \in Nat
  BY <1>2, FirstIntervals
<1>4. /\ UnitInv(j, h, r) /\ OutInv(j, h, r, partial) /\ SumInv(j, h, r, results[h], first_seg[h])
      /\ DOMAIN lfetch[h] = 0 .. Unit(j) - 1
      /\ c.stencil => FetchInv(j, h, r)
      /\ c.segmented /\ c.lookbehind => FlagsInv(j, h, r, gflags)
  BY DEF InLev1, Lev1Inv, Lev1Group
<1>5. r.x = lfetch[h] /\ q.x = lfetch'[h]
  BY StateFields, StateFieldsNext
<1>6. q = r
  BY <1>1 DEF Effects, OthersStay
<1>7. Same(j, h, partial, partial')
  BY <1>3 DEF Effects, Same
<1>8. Same(j, h, gflags, gflags')
  BY <1>3 DEF Effects, Same
<1>9. results'[h] = results[h] /\ first_seg'[h] = first_seg[h]
  BY <1>1, <1>2 DEF Effects
<1> HIDE DEF j, r, q
<1>10. OutInv(j, h, q, partial')
  BY <1>4, <1>6, <1>7, OutSame
<1>11. c.segmented /\ c.lookbehind => FlagsInv(j, h, q, gflags')
  BY <1>4, <1>6, <1>8, FlagsSame
<1>12. UnitInv(j, h, q) /\ SumInv(j, h, q, results'[h], first_seg'[h]) /\ (c.stencil => FetchInv(j, h, q))
  BY <1>4, <1>6, <1>9
<1>13. DOMAIN lfetch'[h] = 0 .. Unit(j) - 1
  BY <1>4, <1>5, <1>6
<1> QED
  BY <1>10, <1>11, <1>12, <1>13 DEF Lev1Group, j, q

LEMMA Lev1WorkItem ==
  ASSUME NEW c, InLev1(c), NEW g \in Groups1(c), NEW l \in Lids(phase), WorkItem(g, l)
  PROVE  ScanShape' /\ Lev1Inv(c)' /\ phase' = phase /\ inp' = inp
<1>1. l \in Items(Kernel1(c))
  BY Lev1Runs
<1>2. Effects(Kernel1(c), g, l)
  BY <1>1, Lev1Effects
<1>3. DomainsKept
  BY <1>2 DEF Effects
<1>4. ScanShape'
  BY <1>3, ScanShapeKept DEF InLev1
<1>5. Lev1Group(c, g)'
  BY <1>1, <1>2, Lev1Own
<1>6. ASSUME NEW h \in Groups1(c), h # g PROVE Lev1Group(c, h)'
  BY <1>2, <1>6, Lev1Other
<1>7. Lev1Inv(c)'
  BY <1>5, <1>6 DEF Lev1Inv
<1> QED
  BY <1>3, <1>4, <1>7 DEF DomainsKept

LEMMA Lev1Barrier ==
  ASSUME NEW c, InLev1(c), NEW g \in Groups1(c), Barrier(g)
  PROVE  ScanShape' /\ Lev1Inv(c)' /\ phase' = phase /\ inp' = inp
<1> DEFINE j == Kernel1(c)
<1>1. Runs(c, j) /\ GoodKernel(j) /\ DOMAIN at = Groups1(c)
  BY Lev1Runs
<1>2. c \in Inputs /\ inp = c /\ phase = "lev1"
  BY DEF InLev1
<1>3. \A h \in Groups1(c) : Lev1Group(c, h)
  BY DEF InLev1, Lev1Inv
<1>4. BarrierEffects(j, g)
  <2>1. UnitInv(j, g, GroupState(g)) /\ g \in Nat
    BY <1>2, <1>3, FirstIntervals DEF Lev1Group
  <2> HIDE DEF j
  <2> QED
    BY <1>1, <2>1, BarrierIs
<1>5. DomainsKept /\ partial' = partial /\ results' = results /\ first_seg' = first_seg /\ gflags' = gflags /\ OthersStay(g)
  BY <1>4 DEF BarrierEffects
<1>6. ScanShape'
  BY <1>5, ScanShapeKept DEF InLev1
<1>7. Lev1Group(c, g)'
  <2> DEFINE r == GroupState(g)
             q == GroupState(g)'
  <2>1. /\ UnitInv(j, g, r) /\ OutInv(j, g, r, partial) /\ SumInv(j, g, r, results[g], first_seg[g])
        /\ DOMAIN lfetch[g] = 0 .. Unit(j) - 1
        /\ c.stencil => FetchInv(j, g, r)
        /\ c.segmented /\ c.lookbehind => FlagsInv(j, g, r, gflags)
    BY <1>3 DEF Lev1Group
  <2>2. r.x = lfetch[g] /\ q.x = lfetch'[g]
    BY StateFields, StateFieldsNext
  <2>3. UnitInv(j, g, q) /\ q.x = r.x
    BY <1>4 DEF BarrierEffects
  <2>4. PICK s, o, b :
           /\ GoesOn(j, r, q, s, o, b) /\ b = IF r.s = "write" THEN r.b + Unit(j) ELSE r.b
           /\ s # "write" \/ r.s # "write"
           /\ r.s = "write" => s \in {"fetch", "load"} \/ End(j, g) <= b
           /\ r.s = "fetch" => s = "load"
           /\ c.stencil /\ s = "load" => r.s = "fetch" /\ b = r.b
           /\ s = "end" => r.s = "interval_sum"
    BY <1>2, <1>4 DEF BarrierEffects
  <2>5. g \in Nat
    BY <1>2, FirstIntervals
  <2> HIDE DEF j, r, q
  <2>6. UnitShape(j, g, r)
    BY <2>1 DEF UnitInv
  <2>7. OutInv(j, g, q, partial')
    <3>1. OutInv(j, g, q, partial)
      BY <1>1, <2>1, <2>4, <2>5, <2>6, OutGoesOn
    <3> QED
      BY <1>5, <3>1
  <2>8. SumInv(j, g, q, results'[g], first_seg'[g])
    <3>1. SumInv(j, g, q, results[g], first_seg[g])
      BY <1>1, <2>1, <2>4, SumGoesOn
    <3> QED
      BY <1>5, <3>1
  <2>9. c.stencil => FetchInv(j, g, q)
    BY <1>1, <2>1, <2>3, <2>4, FetchGoesOn
  <2>10. c.segmented /\ c.lookbehind => FlagsInv(j, g, q, gflags')
    <3>1. c.segmented /\ c.lookbehind => FlagsInv(j, g, q, gflags)
      BY <1>1, <2>1, <2>4, <2>5, <2>6, FlagsGoOn
    <3> QED
      BY <1>5, <3>1
  <2>11. DOMAIN lfetch'[g] = 0 .. Unit(j) - 1
    BY <2>1, <2>2, <2>3
  <2> QED
    BY <2>3, <2>7, <2>8, <2>9, <2>10, <2>11 DEF Lev1Group, j, q
<1>8. ASSUME NEW h \in Groups1(c), h # g PROVE Lev1Group(c, h)'
  <2>1. GroupState(h)' = GroupState(h)
    BY <1>1, <1>5, <1>8 DEF OthersStay
  <2>2. lfetch'[h] = lfetch[h]
    <3>1. GroupState(h)'.x = lfetch'[h] /\ GroupState(h).x = lfetch[h]
      BY StateFields, StateFieldsNext
    <3> QED
      BY <2>1, <3>1
  <2> QED
    BY <1>3, <1>5, <2>1, <2>2 DEF Lev1Group
<1>9. Lev1Inv(c)'
  BY <1>7, <1>8 DEF Lev1Inv
<1> QED
  BY <1>5, <1>6, <1>9 DEF DomainsKept

-----------------------------------------------------------------------------
(* The second level: one group.                                            *)
InLev2(c) == c \in Inputs /\ inp = c /\ phase = "lev2" /\ ScanShape /\ Lev2Inv(c)

(* The second level has one group.                                         *)
LEMMA Lev2Runs ==
  ASSUME NEW c, InLev2(c)
  PROVE  /\ Runs(c, Kernel2(c)) /\ GoodKernel(Kernel2(c)) /\ DOMAIN at = {0}
         /\ Lids(phase) = Items(Kernel2(c)) /\ c.n > 0
<1>1. Runs(c, Kernel2(c))
  BY DEF InLev2, Runs
<1>2. GoodKernel(Kernel2(c)) /\ c.n > 0
  BY GoodKernels DEF InLev2, Lev2Inv
<1>3. DOMAIN at = Groups("lev2")
  BY DEF InLev2, ScanShape
<1>4. Groups("lev2") = {0}
  BY DEF Groups
<1>5. Lids(phase) = Items(Kernel2(c))
  BY <1>1, RunTerms
<1> QED
  BY <1>1, <1>2, <1>3, <1>4, <1>5

LEMMA Lev2Effects ==
  ASSUME NEW c, InLev2(c), NEW l \in Items(Kernel2(c)), WorkItem(0, l)
  PROVE  Effects(Kernel2(c), 0, l)
<1> DEFINE j == Kernel2(c)
<1>1. Runs(c, j) /\ GoodKernel(j) /\ 0 \in DOMAIN at /\ c.n > 0
  BY Lev2Runs
<1>2. c \in Inputs /\ inp = c /\ phase = "lev2"
  BY DEF InLev2
<1>3. UnitInv(j, 0, GroupState(0)) /\ InputInv(j, 0, GroupState(0), results) /\ at[0] # "fetch" /\ IntervalsKept(c)
  BY DEF InLev2, Lev2Inv
<1>4. base[0] \in Nat /\ Begin(j, 0) <= base[0]
  <2>1. UnitShape(j, 0, GroupState(0))
    BY <1>3 DEF UnitInv
  <2> QED
    BY <1>1, <2>1, ShapeFacts
<1>5. at[0] = "load" => \A o \in 0 .. Unit(j) - 1 : base[0] + o < Limit(j, 0) =>
            INPUT_EXPR(base[0] + o, Fetched(0, o)) = j.W[<<base[0] + o, base[0] + o>>]
  BY <1>1, <1>2, <1>3, <1>4, SecondInput
<1>6. \A i \in Span(j, 0) : IS_SEG_START(i) <=> i \in j.H
  BY <1>1, <1>2, <1>3, SecondStarts
<1> HIDE DEF j
<1>7. Effects(j, 0, l)
  <2>1. l \in Items(j)
    BY DEF j
  <2> QED
    BY <1>1, <1>3, <1>5, <1>6, <2>1, WorkItemIs
<1> QED
  BY <1>7 DEF j

LEMMA IntervalsStay ==
  ASSUME NEW c, IntervalsKept(c), partial' = partial, gflags' = gflags, first_seg' = first_seg
  PROVE  IntervalsKept(c)'
BY DEF IntervalsKept

LEMMA Lev2WorkItem ==
  ASSUME NEW c, InLev2(c), NEW g \in DOMAIN at, NEW l \in Lids(phase), WorkItem(g, l)
  PROVE  ScanShape' /\ Lev2Inv(c)' /\ phase' = phase /\ inp' = inp
<1> DEFINE j == Kernel2(c)
           r == GroupState(0)
           q == GroupState(0)'
<1>1. g = 0 /\ l \in Items(j) /\ GoodKernel(j)
  BY Lev2Runs
<1>2. Effects(j, 0, l)
  BY <1>1, Lev2Effects
<1>3. c \in Inputs /\ inp = c /\ phase = "lev2"
  BY DEF InLev2
<1>4. /\ IntervalsKept(c) /\ CountOf(c) <= SizeOf(c) /\ c.n > 0
      /\ UnitInv(j, 0, r) /\ OutInv(j, 0, r, results) /\ InputInv(j, 0, r, results) /\ at[0] # "fetch"
  BY DEF InLev2, Lev2Inv
<1>5. /\ UnitInv(j, 0, q) /\ Arrives(r, q, l) /\ DomainsKept
      /\ partial' = partial /\ gflags' = gflags /\ first_seg' = first_seg
      /\ IF r.s = "write" THEN WrittenEffect(j, 0, r, l, results, results') ELSE results' = results
  BY <1>2, <1>3 DEF Effects
<1>6. r.s = at[0] /\ q.s = at'[0]
  BY StateFields, StateFieldsNext
<1>7. ScanShape'
  BY <1>5, ScanShapeKept DEF InLev2
<1>8. IntervalsKept(c)'
  BY <1>4, <1>5, IntervalsStay
<1> HIDE DEF j, r, q
<1>9. OutInv(j, 0, q, results')
  <2>1. CASE r.s = "write"
    BY <1>1, <1>4, <1>5, <2>1, OutWritten
  <2>2. CASE r.s # "write"
    <3>1. Same(j, 0, results, results')
      BY <1>5, <2>2 DEF Same
    <3> QED
      BY <1>4, <1>5, <2>2, <3>1, OutStays
  <2> QED
    BY <2>1, <2>2
<1>10. InputInv(j, 0, q, results')
  <2>1. \A i \in Span(j, 0) : (r.s = "write" /\ InUnit(j, r, i)) \/ results'[i] = results[i]
    BY <1>5 DEF WrittenEffect
  <2> QED
    BY <1>4, <1>5, <2>1, InputStays
<1>11. at'[0] # "fetch"
  BY <1>4, <1>5, <1>6 DEF Arrives
<1>12. Lev2Inv(c)'
  BY <1>4, <1>5, <1>8, <1>9, <1>10, <1>11 DEF Lev2Inv, j, q
<1> QED
  BY <1>5, <1>7, <1>12 DEF DomainsKept

LEMMA Lev2Barrier ==
  ASSUME NEW c, InLev2(c), NEW g \in DOMAIN at, Barrier(g)
  PROVE  ScanShape' /\ Lev2Inv(c)' /\ phase' = phase /\ inp' = inp
<1> DEFINE j == Kernel2(c)
           r == GroupState(0)
           q == GroupState(0)'
<1>1. g = 0 /\ GoodKernel(j) /\ Runs(c, j) /\ 0 \in DOMAIN at
  BY Lev2Runs
<1>2. c \in Inputs /\ inp = c /\ phase = "lev2"
  BY DEF InLev2
<1>3. /\ IntervalsKept(c) /\ CountOf(c) <= SizeOf(c) /\ c.n > 0
      /\ UnitInv(j, 0, r) /\ OutInv(j, 0, r, results) /\ InputInv(j, 0, r, results) /\ at[0] # "fetch"
  BY DEF InLev2, Lev2Inv
<1>4. BarrierEffects(j, 0)
  <2> HIDE DEF j
  <2> QED
    BY <1>1, <1>3, BarrierIs
<1>5. /\ UnitInv(j, 0, q) /\ DomainsKept
      /\ partial' = partial /\ gflags' = gflags /\ first_seg' = first_seg /\ results' = results
  BY <1>4 DEF BarrierEffects
<1>6. PICK s, o, b :
           /\ GoesOn(j, r, q, s, o, b) /\ b = IF r.s = "write" THEN r.b + Unit(j) ELSE r.b
           /\ s # "write" \/ r.s # "write"
           /\ s \in {"fetch", "load"} => r.s \in {"fetch", "write"}
           /\ s = "fetch" => r.s = "fetch"
  BY <1>2, <1>4 DEF BarrierEffects
<1>7. r.s = at[0] /\ q.s = at'[0]
  BY StateFields, StateFieldsNext
<1>8. ScanShape'
  BY <1>5, ScanShapeKept DEF InLev2
<1>9. IntervalsKept(c)'
  BY <1>3, <1>5, IntervalsStay
<1> HIDE DEF j, r, q
<1>10. UnitShape(j, 0, r)
  BY <1>3 DEF UnitInv
<1>11. OutInv(j, 0, q, results')
  <2>1. OutInv(j, 0, q, results)
    BY <1>1, <1>3, <1>6, <1>10, OutGoesOn
  <2> QED
    BY <1>5, <2>1
<1>12. InputInv(j, 0, q, results')
  <2>1. InputInv(j, 0, q, results)
    BY <1>1, <1>3, <1>6, <1>10, InputGoesOn
  <2> QED
    BY <1>5, <2>1
<1>13. at'[0] # "fetch"
  BY <1>3, <1>6, <1>7 DEF GoesOn
<1>14. Lev2Inv(c)'
  BY <1>3, <1>5, <1>9, <1>11, <1>12, <1>13 DEF Lev2Inv, j, q
<1> QED
  BY <1>5, <1>8, <1>14 DEF DomainsKept

-----------------------------------------------------------------------------
(* A kernel begins.                                                        *)
FreshUnit(j, g, r) ==
  /\ r.s \in {"fetch", "load"} /\ r.A = {} /\ r.b = Begin(j, g) /\ r.o = 1
  /\ DOMAIN r.d = (0 .. j.k) \X Items(j) /\ DOMAIN r.f = Rows(j) \X Items(j)
  /\ DOMAIN r.t = Items(j) /\ DOMAIN r.v = Items(j)
  /\ \A l \in Items(j) : r.v[l] = FreshItem

LEMMA FreshUnitIs ==
  ASSUME NEW j, GoodKernel(j), NEW g \in Nat, NEW r, FreshUnit(j, g, r), Begin(j, g) < End(j, g)
  PROVE  /\ UnitInv(j, g, r)
         /\ \A out : OutInv(j, g, r, out)
         /\ \A flags : FlagsInv(j, g, r, flags)
         /\ \A sum, first : SumInv(j, g, r, sum, first)
         /\ r.s = "fetch" => FetchInv(j, g, r)
<1>1. /\ Unit(j) \in Nat \ {0} /\ Begin(j, g) \in Nat /\ End(j, g) \in Nat /\ Limit(j, g) \in Nat /\ j.size \in Nat \ {0}
      /\ j.wg \in Nat \ {0}
  BY KernelNumbers
<1>2. r.s \in {"fetch", "load"} /\ r.A = {} /\ r.b = Begin(j, g) /\ r.o = 1
  BY DEF FreshUnit
<1>3. UnitShape(j, g, r)
  <2>1. \E u \in Nat : r.b = Begin(j, g) + Unit(j) * u
    <3>1. Unit(j) * 0 = 0
      BY <1>1
    <3>2. r.b = Begin(j, g) + Unit(j) * 0
      BY <1>1, <1>2, <3>1
    <3> QED
      BY <3>2
  <2>2. r.b <= Begin(j, g) + j.size /\ r.b < End(j, g) /\ r.o \in Nat \ {0}
    BY <1>1, <1>2
  <2>3. /\ DOMAIN r.d = (0 .. j.k) \X Items(j) /\ DOMAIN r.f = Rows(j) \X Items(j)
        /\ DOMAIN r.t = Items(j) /\ DOMAIN r.v = Items(j)
    BY DEF FreshUnit
  <2>4. \A l \in Items(j) : DOMAIN r.v[l] = {"sum", "val", "k_group", "subtree", "interval"} /\ r.v[l].k_group = NO_SEG_BOUNDARY
    BY DEF FreshUnit, FreshItem
  <2> QED
    BY <1>2, <2>1, <2>2, <2>3, <2>4 DEF UnitShape, Stages
<1>4. Carried(j, g, r)
  BY <1>2 DEF Carried
<1>5. LoadInv(j, g, r)
  BY <1>2 DEF LoadInv
<1>6. Interval(j, g, r)
  <2>1. 0 \in Items(j)
    BY <1>1 DEF Items
  <2>2. r.v[0].interval = NO_SEG_BOUNDARY
    BY <2>1 DEF FreshUnit, FreshItem
  <2>3. Finds(j, g, NO_SEG_BOUNDARY, Begin(j, g), Begin(j, g) - 1)
    BY <1>1, FindsNone
  <2> QED
    BY <1>2, <2>2, <2>3 DEF Interval
<1>7. UnitInv(j, g, r)
  BY <1>2, <1>3, <1>4, <1>5, <1>6 DEF UnitInv
<1>8. \A i \in Span(j, g) : ~IsWritten(j, r, i) /\ ~IsRead(j, r, i)
  BY <1>1, <1>2 DEF Span, IsWritten, IsRead
<1>9. \A out : OutInv(j, g, r, out)
  BY <1>8 DEF OutInv
<1>10. \A flags : FlagsInv(j, g, r, flags)
  BY <1>8 DEF FlagsInv
<1>11. \A sum, first : SumInv(j, g, r, sum, first)
  BY <1>2 DEF SumInv
<1>12. r.s = "fetch" => FetchInv(j, g, r)
  BY <1>2 DEF FetchInv
<1> QED
  BY <1>7, <1>9, <1>10, <1>11, <1>12

(* __call__ begins.                                                        *)
LEMMA InitIs ==
  ASSUME Init
  PROVE  ScanInv
<1> DEFINE c == inp
           j == Kernel1(c)
<1>1. c \in Inputs
  BY DEF Init
<1>2. interval_size = SizeOf(c) /\ num_intervals = CountOf(c) /\ WG = c.wg
  BY SizesAre
<1>3. Groups("lev1") = Groups1(c)
  BY <1>2 DEF Groups, Groups1
<1>4. j.wg = c.wg /\ j.k = c.k /\ j.size = SizeOf(c)
  BY KernelFields
<1>5. Lids("lev1") = Items(j) /\ Ks = Rows(j) /\ WG * inp.k = Unit(j) /\ \A g : interval_begin(g) = Begin(j, g)
  BY <1>2, <1>4 DEF Lids, Items, Ks, Rows, Unit, interval_begin, Begin
<1>6. c.debug \in BOOLEAN /\ GoodKernel(j)
  BY <1>1, InputNumbers, GoodKernels
<1>7. ScanShape
  <2>1. phase = IF inp.debug THEN "debug" ELSE "lev1"
    BY DEF Init
  <2>2. /\ DOMAIN at = Groups("lev1") /\ DOMAIN arrived = Groups("lev1") /\ DOMAIN base = Groups("lev1")
        /\ DOMAIN offset = Groups("lev1") /\ DOMAIN lfetch = Groups("lev1") /\ DOMAIN ldata = Groups("lev1")
        /\ DOMAIN lflags = Groups("lev1") /\ DOMAIN lfirst = Groups("lev1") /\ DOMAIN priv = Groups("lev1")
    BY DEF Init
  <2>3. DOMAIN partial = 0 .. inp.n - 1 /\ DOMAIN gflags = 0 .. inp.n - 1 /\ DOMAIN output = 0 .. inp.n - 1
    BY DEF Init
  <2>4. DOMAIN results = Groups1(inp) /\ DOMAIN first_seg = Groups1(inp)
    BY <1>2 DEF Init, Groups1
  <2> QED
    BY <1>1, <1>6, <2>1, <2>2, <2>3, <2>4 DEF ScanShape, Phases
<1>8. Lev1Inv(c)
  <2>1. SUFFICES ASSUME NEW g \in Groups1(c) PROVE Lev1Group(c, g)
    BY DEF Lev1Inv
  <2>2. g \in Nat /\ Begin(j, g) < End(j, g)
    BY <1>1, FirstIntervals
  <2>3. at[g] = First("lev1") /\ arrived[g] = {} /\ base[g] = Begin(j, g) /\ offset[g] = 1
    BY <1>3, <1>5 DEF Init
  <2>4. /\ DOMAIN ldata[g] = (0 .. inp.k) \X Lids("lev1") /\ DOMAIN lflags[g] = Ks \X Lids("lev1")
        /\ DOMAIN lfirst[g] = Lids("lev1") /\ DOMAIN priv[g] = Lids("lev1")
        /\ \A l \in Lids("lev1") : priv[g][l] = FreshItem
        /\ DOMAIN lfetch[g] = 0 .. WG * inp.k - 1
    <3>1. ldata[g] = [d \in (0 .. inp.k) \X Lids("lev1") |-> Garbage]
      BY <1>3 DEF Init
    <3>2. lflags[g] = [d \in Ks \X Lids("lev1") |-> inp.junk]
      BY <1>3 DEF Init
    <3>3. lfirst[g] = [l \in Lids("lev1") |-> NO_SEG_BOUNDARY]
      BY <1>3 DEF Init
    <3>4. priv[g] = [l \in Lids("lev1") |-> FreshItem]
      BY <1>3 DEF Init
    <3>5. lfetch[g] = [o \in 0 .. WG * inp.k - 1 |-> NO_SEG_BOUNDARY]
      BY <1>3 DEF Init
    <3> QED
      BY <3>1, <3>2, <3>3, <3>4, <3>5
  <2>5. First("lev1") = IF c.stencil THEN "fetch" ELSE "load"
    BY DEF First
  <2> DEFINE r == GroupState(g)
  <2>6. FreshUnit(j, g, r)
    <3>1. /\ r.s = at[g] /\ r.A = arrived[g] /\ r.b = base[g] /\ r.o = offset[g] /\ r.d = ldata[g]
          /\ r.f = lflags[g] /\ r.t = lfirst[g] /\ r.v = priv[g]
      BY StateFields
    <3> HIDE DEF r
    <3> QED
      BY <1>4, <1>5, <2>3, <2>4, <2>5, <3>1 DEF FreshUnit
  <2>7. r.s = at[g]
    BY StateFields
  <2>8. /\ UnitInv(j, g, r) /\ OutInv(j, g, r, partial) /\ FlagsInv(j, g, r, gflags) /\ SumInv(j, g, r, results[g], first_seg[g])
        /\ r.s = "fetch" => FetchInv(j, g, r)
    <3> HIDE DEF j, r
    <3> QED
      BY <1>6, <2>2, <2>6, FreshUnitIs
  <2> QED
    BY <1>5, <2>3, <2>4, <2>5, <2>7, <2>8 DEF Lev1Group
<1>9. phase \in {"debug", "lev1"}
  BY <1>6 DEF Init
<1>10. inp \in Inputs /\ inp = inp /\ PhaseInv(inp)
  BY <1>1, <1>8, <1>9 DEF PhaseInv
<1>11. \E e \in Inputs : inp = e /\ PhaseInv(e)
  BY <1>10, Zenon
<1> QED
  BY <1>7, <1>9, <1>11 DEF ScanInv

(* The next kernel is enqueued.                                            *)
LEMMA EnqueueShape ==
  ASSUME ScanShape, phase \in {"lev1", "lev2"}, NEW kernel \in {"lev2", "update"}, Enqueue(kernel)
  PROVE  ScanShape'
<1>1. inp' = inp /\ phase' = kernel /\ partial' = partial /\ results' = results /\ first_seg' = first_seg /\ gflags' = gflags
      /\ output' = output
  BY DEF Enqueue, global
<1>2. Groups(phase)' = Groups(kernel)
  BY <1>1 DEF Groups, num_intervals, interval_size, WG
<1>3. /\ DOMAIN at' = Groups(kernel) /\ DOMAIN arrived' = Groups(kernel) /\ DOMAIN base' = Groups(kernel)
      /\ DOMAIN offset' = Groups(kernel) /\ DOMAIN lfetch' = Groups(kernel) /\ DOMAIN ldata' = Groups(kernel)
      /\ DOMAIN lflags' = Groups(kernel) /\ DOMAIN lfirst' = Groups(kernel) /\ DOMAIN priv' = Groups(kernel)
  BY DEF Enqueue
<1>4. /\ inp \in Inputs /\ ~inp.debug
      /\ DOMAIN partial = 0 .. inp.n - 1 /\ DOMAIN gflags = 0 .. inp.n - 1 /\ DOMAIN output = 0 .. inp.n - 1
      /\ DOMAIN results = Groups1(inp) /\ DOMAIN first_seg = Groups1(inp)
  BY DEF ScanShape
<1> QED
  BY <1>1, <1>2, <1>3, <1>4 DEF ScanShape, Phases

(* What the first level leaves is what the second begins with,             *)
LEMMA SecondLevelIs ==
  ASSUME NEW c, InLev1(c), EnqueueSecondLevel
  PROVE  ScanShape' /\ Lev2Inv(c)' /\ phase' = "lev2" /\ inp' = inp
<1> DEFINE j == Kernel1(c)
           e == Kernel2(c)
           w == CountOf(c)
           r == GroupState(0)'
<1>1. c \in Inputs /\ inp = c /\ phase = "lev1" /\ ScanShape
  BY DEF InLev1
<1>2. c.n > 0 /\ KernelDone /\ interval_size >= num_intervals /\ Enqueue("lev2")
  BY <1>1 DEF EnqueueSecondLevel
<1>3. interval_size = SizeOf(c) /\ num_intervals = w /\ WG = c.wg
  BY <1>1, SizesAre
<1>4. c.n \in Nat /\ w \in Nat /\ SizeOf(c) \in Nat \ {0} /\ (c.n = 0 <=> w = 0)
  BY <1>1, InputNumbers
<1>5. w > 0 /\ w <= SizeOf(c)
  BY <1>2, <1>3, <1>4
<1>6. GoodKernel(j) /\ GoodKernel(e)
  BY <1>1, <1>2, GoodKernels
<1>7. inp' = inp /\ phase' = "lev2" /\ partial' = partial /\ results' = results /\ first_seg' = first_seg /\ gflags' = gflags
  BY <1>2 DEF Enqueue, global
<1>8. ScanShape'
  BY <1>1, <1>2, EnqueueShape
<1>9. ASSUME NEW g \in Groups1(c)
      PROVE  /\ OutInv(j, g, GroupState(g), partial) /\ SumInv(j, g, GroupState(g), results[g], first_seg[g])
             /\ c.segmented /\ c.lookbehind => FlagsInv(j, g, GroupState(g), gflags)
             /\ GroupState(g).s = "end" /\ \A i \in Span(j, g) : i < GroupState(g).b
  <2>1. Lev1Group(c, g)
    BY DEF InLev1, Lev1Inv
  <2>2. at[g] = "end"
    BY <1>2, Lev1Runs DEF KernelDone
  <2>3. GroupState(g).s = at[g]
    BY StateFields
  <2>4. UnitShape(j, g, GroupState(g))
    BY <2>1 DEF Lev1Group, UnitInv
  <2>5. g \in Nat
    BY <1>1, FirstIntervals
  <2>6. End(j, g) <= GroupState(g).b /\ GroupState(g).b \in Nat
    <3> DEFINE p == GroupState(g)
    <3> HIDE DEF j, p
    <3>1. p.s = "end" /\ UnitShape(j, g, p)
      BY <2>2, <2>3, <2>4 DEF p
    <3>2. p.b \in Nat
      BY <1>6, <2>5, <3>1, UnitNumbers
    <3>3. End(j, g) <= p.b
      BY <3>1 DEF UnitShape
    <3> QED
      BY <3>2, <3>3 DEF p
  <2>7. Limit(j, g) <= End(j, g) /\ Limit(j, g) \in Nat /\ End(j, g) \in Nat /\ Begin(j, g) \in Nat
    BY <1>6, <2>5, KernelNumbers
  <2>8. \A i \in Span(j, g) : i < GroupState(g).b
    BY <2>6, <2>7 DEF Span
  <2> QED
    BY <2>1, <2>2, <2>3, <2>8 DEF Lev1Group
<1>10. IntervalsKept(c)
  <2>1. SUFFICES ASSUME NEW g \in Groups1(c)
                 PROVE  /\ \A i \in Span(j, g) : partial[i] = j.W[<<Begin(j, g), i>>]
                        /\ c.segmented /\ c.lookbehind => \A i \in Span(j, g) : gflags[i] <=> i \in j.H
                        /\ FirstSeg(j, g, first_seg[g])
    BY DEF IntervalsKept
  <2>2. \A i \in Span(j, g) : IsWritten(j, GroupState(g), i) /\ IsRead(j, GroupState(g), i)
    BY <1>9 DEF IsWritten, IsRead
  <2>3. \A i \in Span(j, g) : partial[i] = j.W[<<Begin(j, g), i>>]
    BY <1>9, <2>2 DEF OutInv
  <2>4. c.segmented /\ c.lookbehind => \A i \in Span(j, g) : gflags[i] <=> i \in j.H
    BY <1>9, <2>2 DEF FlagsInv
  <2>5. FirstSeg(j, g, first_seg[g])
    BY <1>9 DEF SumInv
  <2> QED
    BY <2>3, <2>4, <2>5
<1>11. \A g \in Groups1(c) : results[g] = SumOf(c, SizeOf(c) * g, LastOf(c, g))
  <2>1. SUFFICES ASSUME NEW g \in Groups1(c) PROVE results[g] = SumOf(c, SizeOf(c) * g, LastOf(c, g))
    OBVIOUS
  <2>2. results[g] = j.W[<<Begin(j, g), End(j, g) - 1>>]
    BY <1>9 DEF SumInv
  <2>3. Begin(j, g) = SizeOf(c) * g /\ End(j, g) - 1 = LastOf(c, g) /\ g \in 0 .. w - 1
    BY <1>1, FirstIntervals
  <2>4. SizeOf(c) * g \in 0 .. c.n - 1 /\ LastOf(c, g) \in 0 .. c.n - 1
    <3>1. /\ LastOf(c, g) \in Nat /\ SizeOf(c) * g \in Nat /\ SizeOf(c) * g <= LastOf(c, g) /\ LastOf(c, g) < c.n
      BY <1>1, <2>3, LastOfIs
    <3> DEFINE b == SizeOf(c) * g
    <3>2. b \in Nat /\ b <= LastOf(c, g)
      BY <3>1
    <3> HIDE DEF b
    <3>3. b \in 0 .. c.n - 1 /\ LastOf(c, g) \in 0 .. c.n - 1
      BY <1>4, <3>1, <3>2
    <3> QED
      BY <3>3 DEF b
  <2>5. j.W[<<SizeOf(c) * g, LastOf(c, g)>>] = SumOf(c, SizeOf(c) * g, LastOf(c, g))
    BY <2>4, Kernel1Sums
  <2> QED
    BY <2>2, <2>3, <2>5
<1>12. e.wg = c.wg /\ e.k = c.k /\ e.size = SizeOf(c) /\ e.n = w /\ e.m \in 0 .. w
  <2>1. e.wg = c.wg /\ e.k = c.k /\ e.size = SizeOf(c) /\ e.n = w
    BY KernelFields
  <2> QED
    BY <1>6, <2>1 DEF GoodKernel
<1>13. Begin(e, 0) = 0 /\ 0 < End(e, 0)
  <2>1. Begin(e, 0) = 0
    BY <1>4, <1>12 DEF Begin
  <2>2. End(e, 0) = Least(SizeOf(c), w)
    BY <1>4, <1>12, <2>1 DEF End
  <2> QED
    BY <1>4, <1>5, <2>1, <2>2 DEF Least
<1>14. /\ at'[0] = "load" /\ arrived'[0] = {} /\ base'[0] = 0 /\ offset'[0] = 1
       /\ DOMAIN ldata'[0] = (0 .. inp.k) \X Lids("lev2") /\ DOMAIN lflags'[0] = Ks \X Lids("lev2")
       /\ DOMAIN lfirst'[0] = Lids("lev2") /\ DOMAIN priv'[0] = Lids("lev2")
       /\ \A l \in Lids("lev2") : priv'[0][l] = FreshItem
  <2>1. 0 \in Groups("lev2")
    BY DEF Groups
  <2>2. interval_begin(0) = 0
    BY <1>3, <1>4 DEF interval_begin
  <2>3. First("lev2") = "load"
    BY DEF First
  <2>4. at'[0] = "load" /\ arrived'[0] = {} /\ base'[0] = 0 /\ offset'[0] = 1
    BY <1>2, <2>1, <2>2, <2>3 DEF Enqueue
  <2>5. ldata'[0] = [d \in (0 .. inp.k) \X Lids("lev2") |-> Garbage]
    BY <1>2, <2>1 DEF Enqueue
  <2>6. lflags'[0] = [d \in Ks \X Lids("lev2") |-> inp.junk]
    BY <1>2, <2>1 DEF Enqueue
  <2>7. lfirst'[0] = [l \in Lids("lev2") |-> NO_SEG_BOUNDARY]
    BY <1>2, <2>1 DEF Enqueue
  <2>8. priv'[0] = [l \in Lids("lev2") |-> FreshItem]
    BY <1>2, <2>1 DEF Enqueue
  <2> QED
    BY <2>4, <2>5, <2>6, <2>7, <2>8
<1>15. Lids("lev2") = Items(e) /\ Ks = Rows(e) /\ inp.k = e.k
  BY <1>1, <1>3, <1>12 DEF Lids, Items, Ks, Rows
<1>16. FreshUnit(e, 0, r)
  <2>1. /\ r.s = at'[0] /\ r.A = arrived'[0] /\ r.b = base'[0] /\ r.o = offset'[0] /\ r.d = ldata'[0]
        /\ r.f = lflags'[0] /\ r.t = lfirst'[0] /\ r.v = priv'[0]
    BY StateFieldsNext
  <2> HIDE DEF r, e
  <2> QED
    BY <1>13, <1>14, <1>15, <2>1 DEF FreshUnit
<1>17. UnitInv(e, 0, r) /\ OutInv(e, 0, r, results')
  <2> HIDE DEF r, e
  <2> QED
    BY <1>6, <1>13, <1>16, FreshUnitIs
<1>18. InputInv(e, 0, r, results')
  <2>1. ASSUME NEW i \in Span(e, 0) PROVE results'[i] = e.W[<<i, i>>]
    <3>1. i \in 0 .. w - 1
      <4>1. Limit(e, 0) <= e.m /\ Limit(e, 0) \in Nat
        BY <1>6, KernelNumbers
      <4>2. i \in 0 .. Limit(e, 0) - 1
        BY <1>13 DEF Span
      <4> HIDE DEF w, e
      <4> QED
        BY <1>4, <1>12, <4>1, <4>2
    <3>2. i \in Groups1(c)
      BY <3>1 DEF Groups1
    <3>3. e.W[<<i, i>>] = SumOf(c, SizeOf(c) * i, LastOf(c, i))
      BY <3>1, Kernel2Sums
    <3> QED
      BY <1>7, <1>11, <3>2, <3>3
  <2> QED
    BY <2>1 DEF InputInv
<1>19. IntervalsKept(c)'
  BY <1>7, <1>10, IntervalsStay
<1>20. Lev2Inv(c)'
  BY <1>2, <1>5, <1>14, <1>17, <1>18, <1>19 DEF Lev2Inv
<1> QED
  BY <1>7, <1>8, <1>20

-----------------------------------------------------------------------------
(* The final update.                                                       *)
LEMMA SumsDone ==
  ASSUME NEW c, InLev2(c), KernelDone
  PROVE  \A p \in 0 .. Kernel2(c).m - 1 : results[p] = SumOf(c, 0, LastOf(c, p))
<1> DEFINE e == Kernel2(c)
           w == CountOf(c)
           r == GroupState(0)
<1>1. GoodKernel(e) /\ 0 \in DOMAIN at /\ c \in Inputs
  BY Lev2Runs DEF InLev2
<1>2. e.size = SizeOf(c) /\ e.n = w /\ e.m \in 0 .. w /\ w \in Nat /\ w <= SizeOf(c) /\ SizeOf(c) \in Nat \ {0}
  <2>1. e.size = SizeOf(c) /\ e.n = w
    BY KernelFields
  <2>2. w \in Nat /\ SizeOf(c) \in Nat \ {0}
    BY <1>1, InputNumbers
  <2>3. w <= SizeOf(c)
    BY DEF InLev2, Lev2Inv
  <2> QED
    BY <1>1, <2>1, <2>2, <2>3 DEF GoodKernel
<1>3. Begin(e, 0) = 0
  BY <1>2 DEF Begin
<1>4. Limit(e, 0) = e.m
  BY <1>2, <1>3 DEF Limit, Least
<1>5. UnitInv(e, 0, r) /\ OutInv(e, 0, r, results)
  BY DEF InLev2, Lev2Inv
<1>6. r.s = "end"
  BY <1>1, StateFields DEF KernelDone
<1>7. r.b \in Nat /\ End(e, 0) <= r.b /\ e.m <= End(e, 0) /\ End(e, 0) \in Nat
  <2> HIDE DEF e, r
  <2>1. UnitShape(e, 0, r)
    BY <1>5 DEF UnitInv
  <2>2. r.b \in Nat
    BY <1>1, <2>1, UnitNumbers
  <2>3. End(e, 0) <= r.b
    BY <1>6, <2>1 DEF UnitShape
  <2>4. e.m <= End(e, 0) /\ End(e, 0) \in Nat
    BY <1>1, <1>4, KernelNumbers
  <2> QED
    BY <2>2, <2>3, <2>4
<1>8. SUFFICES ASSUME NEW p \in 0 .. e.m - 1 PROVE results[p] = SumOf(c, 0, LastOf(c, p))
  OBVIOUS
<1>9. p \in 0 .. w - 1 /\ p \in Nat /\ p < e.m /\ 0 \in 0 .. w - 1
  <2> HIDE DEF e, w
  <2> QED
    BY <1>2, <1>8
<1>10. p \in Span(e, 0) /\ IsWritten(e, r, p)
  <2> HIDE DEF e, r, w
  <2>1. p \in Span(e, 0)
    BY <1>3, <1>4 DEF Span
  <2>2. p < r.b
    BY <1>2, <1>7, <1>9
  <2> QED
    BY <2>1, <2>2 DEF IsWritten
<1>11. results[p] = e.W[<<0, p>>]
  BY <1>3, <1>5, <1>10 DEF OutInv
<1>12. e.W[<<0, p>>] = SumOf(c, SizeOf(c) * 0, LastOf(c, p))
  BY <1>9, Kernel2Sums
<1>13. SizeOf(c) * 0 = 0
  BY <1>2
<1> QED
  BY <1>11, <1>12, <1>13

InUpdate(c) == c \in Inputs /\ inp = c /\ phase = "update" /\ ScanShape /\ LastUpdateInv(c)

(* The sum of what comes before interval g.                                *)
LEMMA BeforeInterval ==
  ASSUME NEW c \in Inputs, NEW g \in Groups1(c),
         \A p \in 0 .. Kernel2(c).m - 1 : results[p] = SumOf(c, 0, LastOf(c, p))
  PROVE  /\ (IF g = 0 THEN neutral ELSE results[g - 1]) = Before(c, Begin(Kernel1(c), g))
         /\ g = 0 <=> Begin(Kernel1(c), g) = 0
<1> DEFINE w == CountOf(c)
           b == SizeOf(c) * g
<1>1. w \in Nat /\ SizeOf(c) \in Nat \ {0} /\ c.segmented \in BOOLEAN
  BY InputNumbers
<1>2. g \in Nat /\ g \in 0 .. w - 1 /\ Begin(Kernel1(c), g) = b
  BY FirstIntervals
<1>3. CASE g = 0
  <2>1. b = 0
    BY <1>1, <1>3
  <2> QED
    BY <1>2, <1>3, <2>1 DEF Before
<1>4. CASE g # 0
  <2>1. g - 1 \in 0 .. w - 1 /\ g - 1 < w - 1 /\ (g - 1) + 1 = g
    <3> HIDE DEF w
    <3> QED
      BY <1>1, <1>2, <1>4
  <2>2. LastOf(c, g - 1) + 1 = SizeOf(c) * ((g - 1) + 1) /\ LastOf(c, g - 1) \in Nat
    BY <2>1, LastOfIs
  <2>3. LastOf(c, g - 1) + 1 = b
    BY <2>1, <2>2
  <2>4. Kernel2(c).m = IF c.segmented THEN w - 1 ELSE w
    BY KernelFields
  <2>5. g - 1 \in 0 .. Kernel2(c).m - 1
    <3> HIDE DEF w
    <3> QED
      BY <1>1, <1>2, <2>1, <2>4
  <2> HIDE DEF b
  <2>6. b # 0 /\ b - 1 = LastOf(c, g - 1)
    BY <2>2, <2>3
  <2> QED
    BY <1>2, <1>4, <2>5, <2>6 DEF Before
<1> QED
  BY <1>3, <1>4

(* and the update begins with the sums of all intervals.                   *)
LEMMA FinalUpdateIs ==
  ASSUME NEW c, InLev2(c), EnqueueFinalUpdate
  PROVE  ScanShape' /\ LastUpdateInv(c)' /\ phase' = "update" /\ inp' = inp
<1> DEFINE j == Kernel1(c)
<1>1. c \in Inputs /\ inp = c /\ phase = "lev2" /\ ScanShape
  BY DEF InLev2
<1>2. KernelDone /\ Enqueue("update")
  BY DEF EnqueueFinalUpdate
<1>3. inp' = inp /\ phase' = "update" /\ partial' = partial /\ results' = results /\ first_seg' = first_seg /\ gflags' = gflags
  BY <1>2 DEF Enqueue, global
<1>4. ScanShape'
  BY <1>1, <1>2, EnqueueShape
<1>5. IntervalsKept(c) /\ CountOf(c) <= SizeOf(c) /\ c.n > 0
  BY DEF InLev2, Lev2Inv
<1>6. IntervalsKept(c)'
  BY <1>3, <1>5, IntervalsStay
<1>7. \A p \in 0 .. Kernel2(c).m - 1 : results[p] = SumOf(c, 0, LastOf(c, p))
  BY <1>2, SumsDone
<1>8. Groups("update") = Groups1(c) /\ Lids("update") = 0 .. c.update_wg - 1 /\ Ks = Rows(j) /\ inp.k = c.k
  <2>1. num_intervals = CountOf(c)
    BY <1>1, SizesAre
  <2>2. j.k = c.k
    BY KernelFields
  <2> QED
    BY <1>1, <2>1, <2>2 DEF Groups, Groups1, Lids, UpdateWG, Ks, Rows
<1>9. \A g \in Groups1(c) : interval_begin(g) = Begin(j, g)
  <2>1. interval_size = SizeOf(c)
    BY <1>1, SizesAre
  <2>2. j.size = SizeOf(c)
    BY KernelFields
  <2> QED
    BY <2>1, <2>2 DEF interval_begin, Begin
<1>10. c.update_wg \in Nat \ {0}
  BY <1>1, InputNumbers
<1>11. ASSUME NEW g \in Groups1(c)
       PROVE  /\ at'[g] = "load" /\ arrived'[g] = {} /\ base'[g] = Begin(j, g)
              /\ DOMAIN ldata'[g] = (0 .. c.k) \X (0 .. c.update_wg - 1)
              /\ DOMAIN lflags'[g] = Rows(j) \X (0 .. c.update_wg - 1)
              /\ DOMAIN priv'[g] = 0 .. c.update_wg - 1
              /\ \A l \in 0 .. c.update_wg - 1 :
                   /\ DOMAIN priv'[g][l] = {"prev_item"}
                   /\ priv'[g][l].prev_item = IF g = 0 THEN neutral ELSE results[g - 1]
  <2>1. g \in Groups("update")
    BY <1>8
  <2>2. First("update") = "load"
    BY DEF First
  <2>3. at'[g] = "load" /\ arrived'[g] = {} /\ base'[g] = Begin(j, g)
    BY <1>2, <1>9, <2>1, <2>2 DEF Enqueue
  <2>4. ldata'[g] = [d \in (0 .. inp.k) \X Lids("update") |-> Garbage]
    BY <1>2, <2>1 DEF Enqueue
  <2>5. lflags'[g] = [d \in Ks \X Lids("update") |-> inp.junk]
    BY <1>2, <2>1 DEF Enqueue
  <2>6. priv'[g] = [l \in Lids("update") |-> [prev_item |-> IF g = 0 THEN neutral ELSE results[g - 1]]]
    BY <1>2, <2>1 DEF Enqueue
  <2>7. ASSUME NEW l \in 0 .. c.update_wg - 1
        PROVE  DOMAIN priv'[g][l] = {"prev_item"} /\ priv'[g][l].prev_item = IF g = 0 THEN neutral ELSE results[g - 1]
    <3> DEFINE x == IF g = 0 THEN neutral ELSE results[g - 1]
    <3> HIDE DEF x
    <3>1. priv'[g][l] = [prev_item |-> x]
      BY <1>8, <2>6 DEF x
    <3>2. DOMAIN priv'[g][l] = {"prev_item"} /\ priv'[g][l].prev_item = x
      BY <3>1
    <3> QED
      BY <3>2 DEF x
  <2> QED
    BY <1>8, <2>3, <2>4, <2>5, <2>6, <2>7
<1>12. ASSUME NEW g \in Groups1(c) PROVE PlainGroup(c, g)'
  BY <1>11 DEF PlainGroup
<1>13. ASSUME NEW g \in Groups1(c) PROVE BehindGroup(c, g)'
  <2>1. Begin(j, g) < End(j, g) /\ Begin(j, g) \in Nat /\ End(j, g) \in Nat /\ Limit(j, g) = End(j, g)
    BY <1>1, FirstIntervals
  <2>2. /\ at'[g] = "load" /\ arrived'[g] = {} /\ base'[g] = Begin(j, g)
        /\ DOMAIN ldata'[g] = (0 .. c.k) \X (0 .. c.update_wg - 1)
        /\ DOMAIN lflags'[g] = Rows(j) \X (0 .. c.update_wg - 1)
        /\ DOMAIN priv'[g] = 0 .. c.update_wg - 1
    BY <1>11
  <2>3. \A l \in 0 .. c.update_wg - 1 : DOMAIN priv'[g][l] = {"prev_item"}
    BY <1>11
  <2>4. priv'[g][0].prev_item = Before(c, Begin(j, g))
    <3>1. 0 \in 0 .. c.update_wg - 1
      BY <1>10
    <3>2. priv'[g][0].prev_item = IF g = 0 THEN neutral ELSE results[g - 1]
      BY <1>11, <3>1
    <3> QED
      BY <1>1, <1>7, <3>2, BeforeInterval
  <2>5. \A i \in Span(j, g) : ~(i < Begin(j, g))
    BY <2>1 DEF Span
  <2> HIDE DEF j
  <2> QED
    BY <2>1, <2>2, <2>3, <2>4, <2>5 DEF BehindGroup, j
<1>14. LastUpdateInv(c)'
  <2>1. \A p \in 0 .. Kernel2(c).m - 1 : results'[p] = SumOf(c, 0, LastOf(c, p))
    BY <1>3, <1>7
  <2> QED
    BY <1>5, <1>6, <1>12, <1>13, <2>1 DEF LastUpdateInv, PlainInv, BehindInv
<1> QED
  BY <1>3, <1>4, <1>14

LEMMA UpdateRuns ==
  ASSUME NEW c, InUpdate(c)
  PROVE  LET j == Kernel1(c) IN
           /\ GoodKernel(j) /\ DOMAIN at = Groups1(c) /\ Lids(phase) = 0 .. c.update_wg - 1 /\ UpdateWG = c.update_wg
           /\ c.update_wg \in Nat \ {0} /\ c.segmented \in BOOLEAN /\ SegStarts(c) \subseteq Nat
           /\ num_intervals = CountOf(c)
           /\ \A g : interval_begin(g) = Begin(j, g) /\ interval_end(g) = End(j, g)
           /\ \A g, i : InRange(g, i) <=> base[g] + i < End(j, g)
           /\ DOMAIN output = 0 .. c.n - 1
           /\ DOMAIN arrived = DOMAIN at /\ DOMAIN base = DOMAIN at /\ DOMAIN ldata = DOMAIN at
           /\ DOMAIN lflags = DOMAIN at /\ DOMAIN priv = DOMAIN at
<1> DEFINE j == Kernel1(c)
<1>1. c \in Inputs /\ inp = c /\ phase = "update"
  BY DEF InUpdate
<1>2. /\ DOMAIN at = Groups(phase) /\ DOMAIN output = 0 .. c.n - 1
      /\ DOMAIN arrived = DOMAIN at /\ DOMAIN base = DOMAIN at /\ DOMAIN ldata = DOMAIN at
      /\ DOMAIN lflags = DOMAIN at /\ DOMAIN priv = DOMAIN at
  BY DEF InUpdate, ScanShape
<1>3. interval_size = SizeOf(c) /\ num_intervals = CountOf(c)
  BY <1>1, SizesAre
<1>4. Groups(phase) = Groups1(c) /\ Lids(phase) = 0 .. c.update_wg - 1 /\ UpdateWG = c.update_wg
  BY <1>1, <1>3 DEF Groups, Groups1, Lids, UpdateWG
<1>5. GoodKernel(j)
  BY <1>1, GoodKernels
<1>6. c.update_wg \in Nat \ {0} /\ c.segmented \in BOOLEAN /\ SegStarts(c) \subseteq Nat
  BY <1>1, InputNumbers
<1>7. j.size = SizeOf(c) /\ j.n = c.n
  BY KernelFields
<1>8. N = c.n
  BY <1>1 DEF N
<1>9. \A g : interval_begin(g) = Begin(j, g)
  BY <1>3, <1>7 DEF interval_begin, Begin
<1>10. \A g : interval_end(g) = End(j, g)
  <2> HIDE DEF j
  <2> QED
    BY <1>3, <1>7, <1>8, <1>9 DEF interval_end, End
<1>11. \A g, i : InRange(g, i) <=> base[g] + i < End(j, g)
  BY <1>10 DEF InRange
<1> QED
  BY <1>2, <1>3, <1>4, <1>5, <1>6, <1>9, <1>10, <1>11

(* Item: everything up to i.                                               *)
LEMMA ItemIs ==
  ASSUME NEW c, InUpdate(c), NEW g \in Groups1(c), NEW i \in Span(Kernel1(c), g)
  PROVE  Item(g, i) = SumOf(c, 0, i)
<1> DEFINE j == Kernel1(c)
           b == Begin(j, g)
<1>1. c \in Inputs /\ inp = c /\ phase = "update" /\ IntervalsKept(c)
  BY DEF InUpdate, LastUpdateInv
<1>2. \A p \in 0 .. Kernel2(c).m - 1 : results[p] = SumOf(c, 0, LastOf(c, p))
  BY DEF InUpdate, LastUpdateInv
<1>3. SegStarts(c) \subseteq Nat /\ c.segmented \in BOOLEAN
  BY UpdateRuns
<1>4. /\ b \in Nat /\ i \in Nat /\ b <= i /\ i < End(j, g) /\ i < Limit(j, g) /\ End(j, g) \in Nat /\ End(j, g) <= c.n /\ c.n \in Nat
      /\ i \in 0 .. c.n - 1 /\ b \in 0 .. c.n - 1
  <2>1. b \in Nat /\ End(j, g) \in Nat /\ Limit(j, g) = End(j, g) /\ g \in Nat
    BY <1>1, FirstIntervals
  <2>2. j.n = c.n
    BY KernelFields
  <2>3. End(j, g) <= c.n /\ c.n \in Nat
    <3>1. GoodKernel(j)
      BY UpdateRuns
    <3> HIDE DEF j
    <3> QED
      BY <2>1, <2>2, <3>1, KernelNumbers
  <2>4. i \in b .. Limit(j, g) - 1
    BY DEF Span
  <2> HIDE DEF b, j
  <2> QED
    BY <2>1, <2>3, <2>4
<1>5. partial[i] = SumOf(c, b, i)
  <2>1. partial[i] = j.W[<<b, i>>]
    BY <1>1 DEF IntervalsKept
  <2> QED
    BY <1>4, <2>1, Kernel1Sums
<1>6. Carry(g) = Before(c, b) /\ (g = 0 <=> b = 0)
  <2>1. Carry(g) = IF g = 0 THEN neutral ELSE results[g - 1]
    BY DEF Carry
  <2> QED
    BY <1>1, <1>2, <2>1, BeforeInterval
<1> DEFINE across == inp.segmented /\ i >= first_seg[g]
<1>7. across <=> \E q \in b .. i : q \in SegStarts(c)
  <2>1. CASE ~c.segmented
    <3>1. SegStarts(c) = {}
      BY <2>1 DEF SegStarts
    <3> QED
      BY <1>1, <2>1, <3>1
  <2>2. CASE c.segmented
    <3>1. j.seg = c.segmented /\ j.H = SegStarts(c)
      BY KernelFields
    <3>2. FirstSeg(j, g, first_seg[g])
      BY <1>1 DEF IntervalsKept
    <3>3. PICK hi \in Nat : End(j, g) - 1 <= hi /\ Finds(j, g, first_seg[g], Begin(j, g), hi)
      BY <2>2, <3>1, <3>2 DEF FirstSeg
    <3> HIDE DEF j
    <3>4. i \in b .. hi
      BY <1>4, <3>3
    <3>5. first_seg[g] <= i <=> \E q \in b .. i : q \in j.H
      BY <1>4, <3>3, <3>4 DEF Finds
    <3> HIDE DEF b
    <3> QED
      BY <1>1, <2>2, <3>1, <3>5
  <2> QED
    BY <1>3, <2>1, <2>2
<1>8. Item(g, i) = IF across THEN SumOf(c, b, i) ELSE Before(c, b) \o SumOf(c, b, i)
  BY <1>5, <1>6 DEF Item, SCAN_EXPR
<1>9. CASE b = 0
  <2>1. Before(c, b) = << >>
    BY <1>9 DEF Before, neutral
  <2>2. SumOf(c, b, i) \in Seq(Nat)
    <3>1. LastStart(c, i) \in 0 .. i
      BY <1>3, <1>4, LastStartIs
    <3> DEFINE a == IF 0 < LastStart(c, i) THEN LastStart(c, i) ELSE 0
    <3>2. a \in Nat /\ a <= i
      BY <3>1
    <3>3. SumOf(c, b, i) = SequentialScan(a, i)
      BY <1>9 DEF SumOf
    <3> HIDE DEF a
    <3>4. SequentialScan(a, i) = [m \in 1 .. (i - a) + 1 |-> a + (m - 1)]
      BY DEF SequentialScan
    <3>5. (i - a) + 1 \in Nat /\ \A m \in 1 .. (i - a) + 1 : a + (m - 1) \in Nat
      BY <1>4, <3>2
    <3> DEFINE n == (i - a) + 1
    <3> HIDE DEF n
    <3>6. SequentialScan(a, i) \in Seq(Nat)
      BY <3>4, <3>5 DEF n
    <3> QED
      BY <3>3, <3>6
  <2>3. << >> \o SumOf(c, b, i) = SumOf(c, b, i)
    <3> DEFINE t == SumOf(c, b, i)
    <3> HIDE DEF t
    <3>1. << >> \o t = t
      BY <2>2, ConcatEmptySeq DEF t
    <3> QED
      BY <3>1 DEF t
  <2>4. Item(g, i) = SumOf(c, b, i)
    <3> HIDE DEF across
    <3> QED
      BY <1>8, <2>1, <2>3
  <2> QED
    BY <1>9, <2>4
<1>10. CASE b # 0
  <2>1. b - 1 \in Nat /\ (b - 1) + 1 = b /\ b - 1 < i
    BY <1>4, <1>10
  <2>2. Before(c, b) = SumOf(c, 0, b - 1)
    BY <1>10 DEF Before
  <2>3. Joins(c, 0, b - 1, i)
    BY <1>3, <1>4, <2>1, SumsJoinHere
  <2> HIDE DEF across
  <2>4. /\ across => SumOf(c, 0, i) = SumOf(c, b, i)
        /\ ~across => SumOf(c, 0, i) = SumOf(c, 0, b - 1) \o SumOf(c, b, i)
    <3> HIDE DEF b
    <3> QED
      BY <1>7, <2>1, <2>3 DEF Joins
  <2> QED
    BY <1>8, <2>2, <2>4
<1> QED
  BY <1>9, <1>10

(* last_item is the sum of all elements.                                   *)
LEMMA LastItemIs ==
  ASSUME NEW c, InUpdate(c), ~c.segmented
  PROVE  last_item = SumOf(c, 0, c.n - 1)
<1> DEFINE w == CountOf(c)
<1>1. c \in Inputs /\ inp = c /\ c.n > 0 /\ \A p \in 0 .. Kernel2(c).m - 1 : results[p] = SumOf(c, 0, LastOf(c, p))
  BY DEF InUpdate, LastUpdateInv
<1>2. w \in Nat /\ w # 0
  BY <1>1, InputNumbers
<1>3. Kernel2(c).m = w
  BY KernelFields
<1>4. LastOf(c, w - 1) = c.n - 1
  <2>1. w - 1 \in 0 .. CountOf(c) - 1
    BY <1>2
  <2> QED
    BY <1>1, <2>1, LastOfIs
<1>5. last_item = results[w - 1]
  BY <1>1, UpdateRuns DEF last_item
<1>6. w - 1 \in 0 .. w - 1
  <2> HIDE DEF w
  <2> QED
    BY <1>2
<1> QED
  BY <1>1, <1>3, <1>4, <1>5, <1>6

LEMMA IndexIsInOutput ==
  ASSUME NEW c \in Inputs, NEW g \in Groups1(c)
  PROVE  \A i \in Span(Kernel1(c), g) : i \in 0 .. c.n - 1 /\ i \in Nat /\ Begin(Kernel1(c), g) <= i /\ i < End(Kernel1(c), g)
<1> DEFINE j == Kernel1(c)
<1>1. Begin(j, g) \in Nat /\ End(j, g) \in Nat /\ Limit(j, g) = End(j, g) /\ g \in Nat
  BY FirstIntervals
<1>2. GoodKernel(j) /\ j.n = c.n /\ c.n \in Nat
  BY GoodKernels, KernelFields, InputNumbers
<1>3. End(j, g) <= c.n
  <2> HIDE DEF j
  <2> QED
    BY <1>1, <1>2, KernelNumbers
<1> HIDE DEF j
<1>4. \A i \in Span(j, g) : i \in 0 .. c.n - 1 /\ i \in Nat /\ Begin(j, g) <= i /\ i < End(j, g)
  BY <1>1, <1>2, <1>3 DEF Span
<1> QED
  BY <1>4 DEF j

LEMMA UpdateStays ==
  ASSUME NEW c, InUpdate(c), DomainsKept,
         partial' = partial, results' = results, first_seg' = first_seg, gflags' = gflags,
         \A h \in Groups1(c) : IF c.lookbehind THEN BehindGroup(c, h)' ELSE PlainGroup(c, h)'
  PROVE  ScanShape' /\ LastUpdateInv(c)' /\ phase' = phase /\ inp' = inp
<1>1. ScanShape'
  BY ScanShapeKept DEF InUpdate
<1>2. IntervalsKept(c)'
  BY IntervalsStay DEF InUpdate, LastUpdateInv
<1>3. \A p \in 0 .. Kernel2(c).m - 1 : results'[p] = SumOf(c, 0, LastOf(c, p))
  BY DEF InUpdate, LastUpdateInv
<1>4. (IF c.lookbehind THEN BehindInv(c) ELSE PlainInv(c))'
  BY DEF BehindInv, PlainInv
<1>5. CountOf(c) <= SizeOf(c) /\ c.n > 0
  BY DEF InUpdate, LastUpdateInv
<1>6. LastUpdateInv(c)'
  BY <1>2, <1>3, <1>4, <1>5 DEF LastUpdateInv
<1> QED
  BY <1>1, <1>6 DEF DomainsKept

(* The update without look-behind stores what is right.                    *)
LEMMA UpdatePlainIs ==
  ASSUME NEW c, InUpdate(c), NEW g \in Groups1(c), NEW l \in Lids(phase), UpdatePlain(g, l)
  PROVE  ScanShape' /\ LastUpdateInv(c)' /\ phase' = phase /\ inp' = inp
<1> DEFINE j == Kernel1(c)
           mine == {i \in interval_begin(g) .. interval_end(g) - 1 : (i - interval_begin(g)) % UpdateWG = l}
           new == [i \in mine |-> [item |-> Item(g, i), prev |-> Garbage, last |-> last_item]]
<1>1. c \in Inputs /\ inp = c
  BY DEF InUpdate
<1>2. /\ GoodKernel(j) /\ DOMAIN at = Groups1(c) /\ Lids(phase) = 0 .. c.update_wg - 1 /\ UpdateWG = c.update_wg
      /\ interval_begin(g) = Begin(j, g) /\ interval_end(g) = End(j, g)
      /\ DOMAIN output = 0 .. c.n - 1 /\ DOMAIN arrived = DOMAIN at
  BY UpdateRuns
<1>3. /\ ~inp.lookbehind /\ Executes(g, l, "load") /\ output' = Override(output, new)
      /\ lfetch' = lfetch /\ ldata' = ldata /\ lflags' = lflags /\ lfirst' = lfirst /\ priv' = priv
      /\ partial' = partial /\ results' = results /\ first_seg' = first_seg /\ gflags' = gflags
  <2>1. ~inp.lookbehind /\ Executes(g, l, "load") /\ output' = Override(output, new)
        /\ UNCHANGED <<lfetch, ldata, lflags, lfirst, priv, partial, results, first_seg, gflags>>
    BY Zenon DEF UpdatePlain
  <2> QED
    BY <2>1
<1>4. /\ at[g] = "load" /\ l \notin arrived[g] /\ arrived'[g] = arrived[g] \cup {l} /\ DOMAIN arrived' = DOMAIN arrived
      /\ inp' = inp /\ phase' = phase /\ at' = at /\ base' = base /\ offset' = offset
      /\ \A h \in DOMAIN at : h # g => arrived'[h] = arrived[h]
  BY <1>2, <1>3, ExecutesIs
<1>5. DOMAIN output' = DOMAIN output /\ \A i \in DOMAIN output : output'[i] = IF i \in mine THEN new[i] ELSE output[i]
  <2> HIDE DEF mine
  <2>1. DOMAIN new = mine
    OBVIOUS
  <2> HIDE DEF new
  <2> QED
    BY <1>3, <2>1 DEF Override
<1>6. DomainsKept
  BY <1>3, <1>4, <1>5 DEF DomainsKept
<1>7. \A i : i \in mine <=> i \in Begin(j, g) .. End(j, g) - 1 /\ (i - Begin(j, g)) % c.update_wg = l
  BY <1>2
<1>8. ASSUME NEW i \in Span(j, g), i \in mine PROVE Right(c, i, new[i])
  <2>1. new[i] = [item |-> Item(g, i), prev |-> Garbage, last |-> last_item]
    BY <1>8
  <2>2. Item(g, i) = SumOf(c, 0, i)
    BY ItemIs
  <2>3. ~c.segmented => last_item = SumOf(c, 0, c.n - 1)
    BY LastItemIs
  <2> HIDE DEF new, mine
  <2> QED
    BY <1>1, <1>3, <2>1, <2>2, <2>3 DEF Right
<1> HIDE DEF mine, new
<1>9. ASSUME NEW h \in Groups1(c) PROVE PlainGroup(c, h)'
  <2>1. PlainGroup(c, h)
    BY <1>1, <1>3 DEF InUpdate, LastUpdateInv, PlainInv
  <2>2. /\ at[h] \in {"load", "end"} /\ base[h] = Begin(j, h) /\ arrived[h] \subseteq 0 .. c.update_wg - 1
        /\ \A i \in Span(j, h) :
             at[h] = "end" \/ (i - Begin(j, h)) % c.update_wg \in arrived[h] => Right(c, i, output[i])
    BY <2>1 DEF PlainGroup
  <2>3. at'[h] \in {"load", "end"} /\ base'[h] = Begin(j, h) /\ arrived'[h] \subseteq 0 .. c.update_wg - 1
    BY <1>2, <1>4, <2>2
  <2>4. ASSUME NEW i \in Span(j, h), at[h] = "end" \/ (i - Begin(j, h)) % c.update_wg \in arrived'[h]
        PROVE  Right(c, i, output'[i])
    <3>1. i \in DOMAIN output /\ i \in Begin(j, h) .. End(j, h) - 1
      <4>1. i \in 0 .. c.n - 1 /\ i \in Nat /\ Begin(j, h) <= i /\ i < End(j, h) /\ Begin(j, h) \in Nat /\ End(j, h) \in Nat
        BY <1>1, IndexIsInOutput, FirstIntervals
      <4> HIDE DEF j
      <4> QED
        BY <1>2, <4>1
    <3>2. CASE i \in mine
      <4>1. h = g
        <5>1. g \in Nat /\ h \in Nat /\ Begin(j, g) \in Nat /\ End(j, g) \in Nat
          BY <1>1, FirstIntervals
        <5>2. Begin(j, g) <= i /\ i < End(j, g)
          BY <1>7, <3>2, <5>1
        <5>3. End(j, g) <= Begin(j, g) + j.size
          BY <1>2, <5>1, KernelNumbers
        <5>4. j.size \in Nat
          BY <1>2, <5>1, KernelNumbers
        <5> HIDE DEF j
        <5>5. i \in Nat
          BY <5>1, <1>7, <3>2
        <5>6. i < Begin(j, g) + j.size
          BY <5>1, <5>2, <5>3, <5>4, <5>5
        <5> QED
          BY <1>2, <5>1, <5>2, <5>6, IntervalsApart
      <4>2. i \in Span(j, g)
        BY <4>1
      <4>3. Right(c, i, new[i])
        BY <1>8, <3>2, <4>2
      <4> QED
        BY <1>5, <3>1, <3>2, <4>3
    <3>3. CASE i \notin mine
      <4>1. output'[i] = output[i]
        BY <1>5, <3>1, <3>3
      <4>2. at[h] = "end" \/ (i - Begin(j, h)) % c.update_wg \in arrived[h]
        <5>1. CASE h = g
          <6>1. (i - Begin(j, h)) % c.update_wg # l
            BY <1>7, <3>1, <3>3, <5>1
          <6> QED
            BY <1>4, <2>4, <5>1, <6>1
        <5>2. CASE h # g
          BY <1>2, <1>4, <2>4, <5>2
        <5> QED
          BY <5>1, <5>2
      <4> QED
        BY <2>2, <4>1, <4>2
    <3> QED
      BY <3>2, <3>3
  <2> QED
    BY <1>4, <2>3, <2>4 DEF PlainGroup
<1>10. \A h \in Groups1(c) : IF c.lookbehind THEN BehindGroup(c, h)' ELSE PlainGroup(c, h)'
  BY <1>1, <1>3, <1>9
<1> QED
  BY <1>3, <1>6, <1>10, UpdateStays

LEMMA BehindOther ==
  ASSUME NEW c, NEW h, BehindGroup(c, h), at'[h] = at[h], arrived'[h] = arrived[h], base'[h] = base[h],
         ldata'[h] = ldata[h], lflags'[h] = lflags[h], priv'[h] = priv[h],
         \A i \in Span(Kernel1(c), h) : output'[i] = output[i]
  PROVE  BehindGroup(c, h)'
<1>1. \A i \in Span(Kernel1(c), h) : Right(c, i, output'[i]) <=> Right(c, i, output[i])
  OBVIOUS
<1> QED
  BY <1>1 DEF BehindGroup

(* The update with look-behind: a round of items is loaded,                *)
LEMMA UpdateLoadIs ==
  ASSUME NEW c, InUpdate(c), NEW g \in Groups1(c), NEW l \in Lids(phase), UpdateLoad(g, l)
  PROVE  ScanShape' /\ LastUpdateInv(c)' /\ phase' = phase /\ inp' = inp
<1> DEFINE j == Kernel1(c)
           i == base[g] + l
<1>1. c \in Inputs /\ inp = c
  BY DEF InUpdate
<1>2. /\ GoodKernel(j) /\ DOMAIN at = Groups1(c) /\ Lids(phase) = 0 .. c.update_wg - 1 /\ c.update_wg \in Nat \ {0}
      /\ c.segmented \in BOOLEAN
      /\ DOMAIN arrived = DOMAIN at /\ DOMAIN ldata = DOMAIN at /\ DOMAIN lflags = DOMAIN at
      /\ (InRange(g, l) <=> base[g] + l < End(j, g))
  BY UpdateRuns
<1>3. /\ c.lookbehind /\ Executes(g, l, "load")
      /\ IF InRange(g, l)
           THEN /\ ldata' = [ldata EXCEPT ![g][<<0, l>>] = Item(g, i)]
                /\ lflags' = [lflags EXCEPT ![g][<<0, l>>] = inp.segmented /\ gflags[i]]
           ELSE ldata' = ldata /\ lflags' = lflags
      /\ lfetch' = lfetch /\ lfirst' = lfirst /\ priv' = priv
      /\ partial' = partial /\ results' = results /\ first_seg' = first_seg /\ gflags' = gflags /\ output' = output
  <2>1. /\ inp.lookbehind /\ Executes(g, l, "load")
        /\ IF InRange(g, l)
             THEN /\ ldata' = [ldata EXCEPT ![g][<<0, l>>] = Item(g, i)]
                  /\ lflags' = [lflags EXCEPT ![g][<<0, l>>] = inp.segmented /\ gflags[i]]
             ELSE UNCHANGED <<ldata, lflags>>
        /\ UNCHANGED <<lfetch, lfirst, priv, global>>
    BY Zenon DEF UpdateLoad
  <2> HIDE DEF i
  <2> QED
    BY <1>1, <2>1 DEF global
<1>4. /\ at[g] = "load" /\ l \notin arrived[g] /\ arrived'[g] = arrived[g] \cup {l} /\ DOMAIN arrived' = DOMAIN arrived
      /\ inp' = inp /\ phase' = phase /\ at' = at /\ base' = base /\ offset' = offset
      /\ \A h \in DOMAIN at : h # g => arrived'[h] = arrived[h]
  BY <1>2, <1>3, ExecutesIs
<1>5. \A h \in Groups1(c) : BehindGroup(c, h)
  BY <1>3 DEF InUpdate, LastUpdateInv, BehindInv
<1>6. /\ arrived[g] \subseteq 0 .. c.update_wg - 1
      /\ base[g] \in Nat /\ Begin(j, g) <= base[g] /\ base[g] < End(j, g)
      /\ DOMAIN ldata[g] = (0 .. c.k) \X (0 .. c.update_wg - 1) /\ DOMAIN lflags[g] = Rows(j) \X (0 .. c.update_wg - 1)
      /\ DOMAIN priv[g] = 0 .. c.update_wg - 1 /\ \A m \in 0 .. c.update_wg - 1 : DOMAIN priv[g][m] = {"prev_item"}
      /\ priv[g][0].prev_item = Before(c, base[g])
      /\ \A m \in 0 .. c.update_wg - 1 :
           base[g] + m < End(j, g) /\ m \in arrived[g] =>
             /\ ldata[g][<<0, m>>] = SumOf(c, 0, base[g] + m)
             /\ lflags[g][<<0, m>>] <=> base[g] + m \in SegStarts(c)
      /\ \A p \in Span(j, g) : p < base[g] => Right(c, p, output[p])
  <2>1. BehindGroup(c, g)
    BY <1>5
  <2> QED
    BY <1>4, <2>1 DEF BehindGroup
<1>7. /\ DOMAIN ldata' = DOMAIN ldata /\ DOMAIN lflags' = DOMAIN lflags
      /\ DOMAIN ldata'[g] = DOMAIN ldata[g] /\ DOMAIN lflags'[g] = DOMAIN lflags[g]
      /\ \A h \in DOMAIN at : h # g => ldata'[h] = ldata[h] /\ lflags'[h] = lflags[h]
  <2> HIDE DEF i
  <2> QED
    BY <1>2, <1>3
<1>8. DomainsKept
  BY <1>3, <1>4, <1>7 DEF DomainsKept
<1>9. <<0, l>> \in DOMAIN ldata[g] /\ <<0, l>> \in DOMAIN lflags[g]
  <2>1. 0 \in 0 .. c.k /\ 0 \in Rows(j) /\ l \in 0 .. c.update_wg - 1
    <3>1. c.k \in Nat \ {0} /\ j.k = c.k
      BY <1>1, InputNumbers, KernelFields
    <3> HIDE DEF j
    <3> QED
      BY <1>2, <3>1 DEF Rows
  <2> QED
    BY <1>6, <2>1
<1>10. InRange(g, l) =>
         /\ ldata'[g][<<0, l>>] = Item(g, i) /\ lflags'[g][<<0, l>>] = (inp.segmented /\ gflags[i])
  <2> DEFINE x == Item(g, i)
             y == inp.segmented /\ gflags[i]
  <2> SUFFICES ASSUME InRange(g, l) PROVE ldata'[g][<<0, l>>] = x /\ lflags'[g][<<0, l>>] = y
    OBVIOUS
  <2>1. ldata' = [ldata EXCEPT ![g][<<0, l>>] = x] /\ lflags' = [lflags EXCEPT ![g][<<0, l>>] = y]
    BY <1>3
  <2> HIDE DEF x, y
  <2>2. ldata'[g][<<0, l>>] = x
    BY <1>2, <1>9, <2>1
  <2>3. lflags'[g][<<0, l>>] = y
    BY <1>2, <1>9, <2>1, Zenon
  <2> QED
    BY <2>2, <2>3
<1>11. \A m \in 0 .. c.update_wg - 1 : m # l =>
         ldata'[g][<<0, m>>] = ldata[g][<<0, m>>] /\ lflags'[g][<<0, m>>] = lflags[g][<<0, m>>]
  <2>1. ASSUME NEW m \in 0 .. c.update_wg - 1, m # l
        PROVE  ldata'[g][<<0, m>>] = ldata[g][<<0, m>>] /\ lflags'[g][<<0, m>>] = lflags[g][<<0, m>>]
    <3> DEFINE x == Item(g, i)
               y == inp.segmented /\ gflags[i]
    <3>1. IF InRange(g, l)
           THEN /\ ldata' = [ldata EXCEPT ![g][<<0, l>>] = x] /\ lflags' = [lflags EXCEPT ![g][<<0, l>>] = y]
           ELSE ldata' = ldata /\ lflags' = lflags
      BY <1>3
    <3> HIDE DEF x, y
    <3>2. <<0, m>> # <<0, l>>
      BY <2>1
    <3>3. <<0, m>> \in DOMAIN ldata[g] /\ <<0, m>> \in DOMAIN lflags[g]
      <4>1. 0 \in 0 .. c.k /\ 0 \in Rows(j)
        <5>1. c.k \in Nat \ {0} /\ j.k = c.k
          BY <1>1, InputNumbers, KernelFields
        <5> HIDE DEF j
        <5> QED
          BY <5>1 DEF Rows
      <4> QED
        BY <1>6, <4>1
    <3> QED
      BY <1>2, <3>1, <3>2, <3>3
  <2> QED
    BY <2>1
<1>12. InRange(g, l) => Item(g, i) = SumOf(c, 0, i) /\ (inp.segmented /\ gflags[i] <=> i \in SegStarts(c))
  <2> SUFFICES ASSUME InRange(g, l)
               PROVE  Item(g, i) = SumOf(c, 0, i) /\ (inp.segmented /\ gflags[i] <=> i \in SegStarts(c))
    OBVIOUS
  <2>1. i \in Span(j, g)
    <3>1. Begin(j, g) \in Nat /\ End(j, g) \in Nat /\ Limit(j, g) = End(j, g)
      BY <1>1, FirstIntervals
    <3>2. l \in Nat
      BY <1>2
    <3> HIDE DEF j
    <3> QED
      BY <1>2, <1>6, <3>1, <3>2 DEF Span
  <2>2. Item(g, i) = SumOf(c, 0, i)
    BY <2>1, ItemIs
  <2> HIDE DEF i
  <2>3. inp.segmented /\ gflags[i] <=> i \in SegStarts(c)
    <3>1. CASE ~c.segmented
      BY <1>1, <3>1 DEF SegStarts
    <3>2. CASE c.segmented
      <4>1. gflags[i] <=> i \in j.H
        BY <1>3, <2>1, <3>2 DEF InUpdate, LastUpdateInv, IntervalsKept
      <4>2. j.H = SegStarts(c)
        BY KernelFields
      <4> QED
        BY <1>1, <3>2, <4>1, <4>2
    <3> QED
      BY <1>2, <3>1, <3>2
  <2> QED
    BY <2>2, <2>3
<1>13. \A m \in 0 .. c.update_wg - 1 :
         base[g] + m < End(j, g) /\ m \in arrived'[g] =>
           /\ ldata'[g][<<0, m>>] = SumOf(c, 0, base[g] + m)
           /\ lflags'[g][<<0, m>>] <=> base[g] + m \in SegStarts(c)
  <2>1. ASSUME NEW m \in 0 .. c.update_wg - 1, base[g] + m < End(j, g), m \in arrived'[g]
        PROVE  /\ ldata'[g][<<0, m>>] = SumOf(c, 0, base[g] + m)
               /\ lflags'[g][<<0, m>>] <=> base[g] + m \in SegStarts(c)
    <3>1. CASE m = l
      <4>1. InRange(g, l)
        BY <1>2, <2>1, <3>1
      <4> QED
        BY <1>10, <1>12, <3>1, <4>1
    <3>2. CASE m # l
      <4>1. m \in arrived[g]
        BY <1>4, <2>1, <3>2
      <4> QED
        BY <1>6, <1>11, <2>1, <3>2, <4>1
    <3> QED
      BY <3>1, <3>2
  <2> QED
    BY <2>1
<1>14. BehindGroup(c, g)'
  <2>1. arrived'[g] \subseteq 0 .. c.update_wg - 1
    BY <1>2, <1>4, <1>6
  <2>2. at'[g] = "load" /\ base'[g] = base[g] /\ priv'[g] = priv[g] /\ output' = output
    BY <1>3, <1>4
  <2> HIDE DEF i, j
  <2> QED
    BY <1>6, <1>7, <1>13, <2>1, <2>2 DEF BehindGroup, j
<1>15. ASSUME NEW h \in Groups1(c), h # g PROVE BehindGroup(c, h)'
  BY <1>2, <1>3, <1>4, <1>5, <1>7, <1>15, BehindOther
<1>16. \A h \in Groups1(c) : IF c.lookbehind THEN BehindGroup(c, h)' ELSE PlainGroup(c, h)'
  BY <1>3, <1>14, <1>15
<1> QED
  BY <1>3, <1>8, <1>16, UpdateStays

(* and each is stored with the one to its left.                            *)
LEMMA UpdateOutputIs ==
  ASSUME NEW c, InUpdate(c), c.lookbehind, NEW g \in Groups1(c), NEW l \in Lids(phase), UpdateOutput(g, l)
  PROVE  ScanShape' /\ LastUpdateInv(c)' /\ phase' = phase /\ inp' = inp
<1> DEFINE j == Kernel1(c)
           i == base[g] + l
           left == IF l # 0 THEN ldata[g][<<0, l - 1>>] ELSE priv[g][0].prev_item
           prev == IF InRange(g, l) /\ inp.segmented /\ lflags[g][<<0, l>>] THEN neutral ELSE left
           kept == IF l = 0 THEN ldata[g][<<0, UpdateWG - 1>>] ELSE prev
           out == [item |-> ldata[g][<<0, l>>], prev |-> prev, last |-> last_item]
<1>1. c \in Inputs /\ inp = c
  BY DEF InUpdate
<1>2. /\ GoodKernel(j) /\ DOMAIN at = Groups1(c) /\ Lids(phase) = 0 .. c.update_wg - 1 /\ c.update_wg \in Nat \ {0}
      /\ c.segmented \in BOOLEAN /\ UpdateWG = c.update_wg /\ DOMAIN output = 0 .. c.n - 1
      /\ DOMAIN arrived = DOMAIN at /\ DOMAIN priv = DOMAIN at
      /\ (InRange(g, l) <=> base[g] + l < End(j, g))
  BY UpdateRuns
<1>3. /\ Executes(g, l, "output")
      /\ priv' = [priv EXCEPT ![g][l].prev_item = kept]
      /\ output' = IF InRange(g, l) THEN [output EXCEPT ![i] = out] ELSE output
      /\ ldata' = ldata /\ lflags' = lflags /\ lfetch' = lfetch /\ lfirst' = lfirst
      /\ partial' = partial /\ results' = results /\ first_seg' = first_seg /\ gflags' = gflags
  <2>1. /\ Executes(g, l, "output")
        /\ priv' = [priv EXCEPT ![g][l].prev_item = kept]
        /\ output' = IF InRange(g, l) THEN [output EXCEPT ![i] = out] ELSE output
        /\ UNCHANGED <<lfetch, ldata, lflags, lfirst, partial, results, first_seg, gflags>>
    BY Zenon DEF UpdateOutput
  <2> HIDE DEF i, left, prev, kept, out
  <2> QED
    BY <2>1
<1>4. /\ at[g] = "output" /\ l \notin arrived[g] /\ arrived'[g] = arrived[g] \cup {l} /\ DOMAIN arrived' = DOMAIN arrived
      /\ inp' = inp /\ phase' = phase /\ at' = at /\ base' = base /\ offset' = offset
      /\ \A h \in DOMAIN at : h # g => arrived'[h] = arrived[h]
  BY <1>2, <1>3, ExecutesIs
<1>5. \A h \in Groups1(c) : BehindGroup(c, h)
  BY DEF InUpdate, LastUpdateInv, BehindInv
<1>6. /\ arrived[g] \subseteq 0 .. c.update_wg - 1
      /\ base[g] \in Nat /\ Begin(j, g) <= base[g] /\ base[g] < End(j, g)
      /\ DOMAIN ldata[g] = (0 .. c.k) \X (0 .. c.update_wg - 1) /\ DOMAIN lflags[g] = Rows(j) \X (0 .. c.update_wg - 1)
      /\ DOMAIN priv[g] = 0 .. c.update_wg - 1 /\ \A m \in 0 .. c.update_wg - 1 : DOMAIN priv[g][m] = {"prev_item"}
      /\ 0 \notin arrived[g] => priv[g][0].prev_item = Before(c, base[g])
      /\ 0 \in arrived[g] => priv[g][0].prev_item = ldata[g][<<0, c.update_wg - 1>>]
      /\ \A m \in 0 .. c.update_wg - 1 :
           base[g] + m < End(j, g) =>
             /\ ldata[g][<<0, m>>] = SumOf(c, 0, base[g] + m)
             /\ lflags[g][<<0, m>>] <=> base[g] + m \in SegStarts(c)
      /\ \A p \in Span(j, g) :
           p < base[g] \/ (p < base[g] + c.update_wg /\ p - base[g] \in arrived[g]) => Right(c, p, output[p])
  <2>1. BehindGroup(c, g)
    BY <1>5
  <2> QED
    BY <1>4, <2>1 DEF BehindGroup
<1>7. l \in Nat /\ l \in 0 .. c.update_wg - 1
  BY <1>2
<1>8. /\ DOMAIN priv' = DOMAIN priv /\ DOMAIN priv'[g] = DOMAIN priv[g]
      /\ \A m \in 0 .. c.update_wg - 1 : DOMAIN priv'[g][m] = {"prev_item"}
      /\ \A m \in 0 .. c.update_wg - 1 : m # l => priv'[g][m] = priv[g][m]
      /\ priv'[g][l].prev_item = kept
      /\ \A h \in DOMAIN at : h # g => priv'[h] = priv[h]
  <2>1. DOMAIN priv[g][l] = {"prev_item"}
    BY <1>6, <1>7
  <2> HIDE DEF kept
  <2>2. DOMAIN priv' = DOMAIN priv /\ DOMAIN priv'[g] = DOMAIN priv[g]
    BY <1>2, <1>3
  <2>3. priv'[g][l] = [priv[g][l] EXCEPT !.prev_item = kept]
    BY <1>2, <1>3, <1>6, <1>7
  <2>4. \A m \in 0 .. c.update_wg - 1 : m # l => priv'[g][m] = priv[g][m]
    BY <1>2, <1>3, <1>6
  <2>5. priv'[g][l].prev_item = kept /\ DOMAIN priv'[g][l] = {"prev_item"}
    BY <2>1, <2>3
  <2>6. \A h \in DOMAIN at : h # g => priv'[h] = priv[h]
    BY <1>2, <1>3
  <2>7. \A m \in 0 .. c.update_wg - 1 : DOMAIN priv'[g][m] = {"prev_item"}
    BY <1>6, <2>4, <2>5
  <2> QED
    BY <2>2, <2>4, <2>5, <2>6, <2>7
<1>9. InRange(g, l) => i \in Span(j, g) /\ i \in DOMAIN output
  <2>1. Begin(j, g) \in Nat /\ End(j, g) \in Nat /\ Limit(j, g) = End(j, g)
    BY <1>1, FirstIntervals
  <2>2. InRange(g, l) => i \in Span(j, g)
    <3> HIDE DEF j
    <3> QED
      BY <1>2, <1>6, <1>7, <2>1 DEF Span
  <2> QED
    BY <1>1, <1>2, <2>2, IndexIsInOutput
<1>10. /\ DOMAIN output' = DOMAIN output
       /\ InRange(g, l) => output'[i] = out
       /\ \A p \in DOMAIN output : ~(InRange(g, l) /\ p = i) => output'[p] = output[p]
  <2> HIDE DEF i, out
  <2> QED
    BY <1>3, <1>9
<1>11. DomainsKept
  BY <1>3, <1>4, <1>8, <1>10 DEF DomainsKept
<1>12. InRange(g, l) => Right(c, i, out)
  <2> SUFFICES ASSUME InRange(g, l) PROVE Right(c, i, out)
    OBVIOUS
  <2>1. base[g] + l < End(j, g)
    BY <1>2
  <2>2. ldata[g][<<0, l>>] = SumOf(c, 0, i) /\ (lflags[g][<<0, l>>] <=> i \in SegStarts(c))
    BY <1>6, <1>7, <2>1
  <2>3. ~c.segmented => last_item = SumOf(c, 0, c.n - 1)
    BY LastItemIs
  <2>4. i \in Nat /\ (i = 0 => l = 0)
    BY <1>6, <1>7
  <2>5. prev = IF i \in SegStarts(c) THEN neutral ELSE left
    <3>1. ~c.segmented => i \notin SegStarts(c)
      BY DEF SegStarts
    <3> HIDE DEF i, left
    <3> QED
      BY <1>1, <1>2, <2>2, <3>1
  <2>6. left = IF i = 0 THEN neutral ELSE SumOf(c, 0, i - 1)
    <3>1. CASE l # 0
      <4>1. l - 1 \in 0 .. c.update_wg - 1 /\ base[g] + (l - 1) = i - 1 /\ base[g] + (l - 1) < End(j, g)
        <5>1. End(j, g) \in Nat
          BY <1>1, FirstIntervals
        <5> HIDE DEF j
        <5> QED
          BY <1>2, <1>6, <1>7, <2>1, <3>1, <5>1
      <4>2. ldata[g][<<0, l - 1>>] = SumOf(c, 0, base[g] + (l - 1))
        BY <1>6, <4>1
      <4> QED
        BY <2>4, <3>1, <4>1, <4>2
    <3>2. CASE l = 0
      <4>1. i = base[g]
        BY <1>6, <3>2
      <4>2. left = Before(c, base[g])
        BY <1>4, <1>6, <3>2
      <4> QED
        BY <4>1, <4>2 DEF Before
    <3> QED
      BY <3>1, <3>2
  <2>7. out.item = SumOf(c, 0, i) /\ out.last = last_item /\ out.prev = prev
    BY <2>2
  <2>8. prev = IF i = 0 \/ i \in SegStarts(c) THEN neutral ELSE SumOf(c, 0, i - 1)
    <3> HIDE DEF i, left, prev
    <3> QED
      BY <2>5, <2>6
  <2> HIDE DEF i, out, prev
  <2> QED
    BY <2>3, <2>7, <2>8 DEF Right
<1> HIDE DEF out
<1>13. \A p \in Span(j, g) :
         p < base[g] \/ (p < base[g] + c.update_wg /\ p - base[g] \in arrived'[g]) => Right(c, p, output'[p])
  <2>1. ASSUME NEW p \in Span(j, g), p < base[g] \/ (p < base[g] + c.update_wg /\ p - base[g] \in arrived'[g])
        PROVE  Right(c, p, output'[p])
    <3>1. p \in Nat /\ p \in DOMAIN output /\ p < End(j, g)
      BY <1>1, <1>2, IndexIsInOutput
    <3>2. CASE p = i
      <4>1. InRange(g, l)
        BY <1>2, <3>1, <3>2
      <4> QED
        BY <1>10, <1>12, <3>2, <4>1
    <3>3. CASE p # i
      <4>1. output'[p] = output[p]
        BY <1>10, <3>1, <3>3
      <4>2. p - base[g] # l
        BY <1>6, <1>7, <3>1, <3>3
      <4>3. p < base[g] \/ (p < base[g] + c.update_wg /\ p - base[g] \in arrived[g])
        BY <1>4, <2>1, <4>2
      <4> QED
        BY <1>6, <4>1, <4>3
    <3> QED
      BY <3>2, <3>3
  <2> QED
    BY <2>1
<1>14. 0 \in 0 .. c.update_wg - 1
  BY <1>2
<1>15. 0 \notin arrived'[g] => priv'[g][0].prev_item = Before(c, base[g])
  <2>1. 0 \notin arrived'[g] => 0 # l /\ 0 \notin arrived[g]
    BY <1>4
  <2> QED
    BY <1>6, <1>8, <1>14, <2>1
<1>16. 0 \in arrived'[g] => priv'[g][0].prev_item = ldata[g][<<0, c.update_wg - 1>>]
  <2>1. CASE l = 0
    BY <1>2, <1>8, <2>1
  <2>2. CASE l # 0
    <3>1. 0 \in arrived'[g] => 0 \in arrived[g]
      BY <1>4, <2>2
    <3> QED
      BY <1>6, <1>8, <1>14, <2>2, <3>1
  <2> QED
    BY <2>1, <2>2
<1>17. BehindGroup(c, g)'
  <2>1. arrived'[g] \subseteq 0 .. c.update_wg - 1
    BY <1>2, <1>4, <1>6
  <2>2. at'[g] = "output" /\ base'[g] = base[g] /\ ldata'[g] = ldata[g] /\ lflags'[g] = lflags[g]
    BY <1>3, <1>4
  <2> HIDE DEF i, j, left, prev, kept
  <2> QED
    BY <1>6, <1>8, <1>13, <1>15, <1>16, <2>1, <2>2 DEF BehindGroup, j
<1>18. ASSUME NEW h \in Groups1(c), h # g PROVE BehindGroup(c, h)'
  <2>1. \A p \in Span(j, h) : output'[p] = output[p]
    <3>1. ASSUME NEW p \in Span(j, h) PROVE output'[p] = output[p]
      <4>1. g \in Nat /\ h \in Nat /\ p \in DOMAIN output
        BY <1>1, <1>2, IndexIsInOutput, FirstIntervals
      <4>2. ~(Begin(j, g) <= p /\ p < Begin(j, g) + j.size)
        BY <1>2, <1>18, <4>1, IntervalsApart
      <4>3. End(j, g) <= Begin(j, g) + j.size /\ j.size \in Nat /\ Begin(j, g) \in Nat /\ End(j, g) \in Nat
        BY <1>2, <4>1, KernelNumbers
      <4>4. ~(InRange(g, l) /\ p = i)
        <5> HIDE DEF j
        <5> QED
          BY <1>2, <1>6, <1>7, <4>2, <4>3
      <4> QED
        BY <1>10, <4>1, <4>4
    <3> QED
      BY <3>1
  <2>2. at'[h] = at[h] /\ arrived'[h] = arrived[h] /\ base'[h] = base[h] /\ ldata'[h] = ldata[h] /\ lflags'[h] = lflags[h]
        /\ priv'[h] = priv[h]
    BY <1>2, <1>3, <1>4, <1>8, <1>18
  <2> QED
    BY <1>5, <2>1, <2>2, BehindOther
<1>19. \A h \in Groups1(c) : IF c.lookbehind THEN BehindGroup(c, h)' ELSE PlainGroup(c, h)'
  BY <1>17, <1>18
<1> QED
  BY <1>3, <1>11, <1>19, UpdateStays

LEMMA UpdateWorkItemIs ==
  ASSUME NEW c, InUpdate(c), NEW g \in Groups1(c), NEW l \in Lids(phase), WorkItem(g, l)
  PROVE  ScanShape' /\ LastUpdateInv(c)' /\ phase' = phase /\ inp' = inp
<1>1. phase = "update"
  BY DEF InUpdate
<1>2. at[g] \in {"load", "output", "end"} /\ (at[g] = "output" => c.lookbehind)
  BY DEF InUpdate, LastUpdateInv, PlainInv, PlainGroup, BehindInv, BehindGroup
<1>3. ~Fetch(g, l) /\ ~CarryInSegmented(g, l)
  BY <1>2 DEF Fetch, CarryInSegmented, Executes
<1>4. ~TreeRead(g, l) /\ ~TreeWrite(g, l)
  BY <1>2 DEF TreeRead, TreeWrite, Executes
<1>5. ~UpdateLocal(g, l) /\ ~WriteData(g, l) /\ ~WriteIntervalSum(g, l)
  BY <1>2 DEF UpdateLocal, WriteData, WriteIntervalSum, Executes
<1>6. ~ScanAlongK(g, l)
  BY <1>2 DEF ScanAlongK, Executes
<1>7. ~Load(g, l)
  BY <1>1 DEF Load
<1>8. UpdatePlain(g, l) \/ UpdateLoad(g, l) \/ UpdateOutput(g, l)
  BY <1>3, <1>4, <1>5, <1>6, <1>7 DEF WorkItem
<1>9. CASE UpdatePlain(g, l)
  BY <1>9, UpdatePlainIs
<1>10. CASE UpdateLoad(g, l)
  BY <1>10, UpdateLoadIs
<1>11. CASE UpdateOutput(g, l)
  <2>1. at[g] = "output"
    BY <1>11 DEF UpdateOutput, Executes
  <2> QED
    BY <1>2, <1>11, <2>1, UpdateOutputIs
<1> QED
  BY <1>8, <1>9, <1>10, <1>11

LEMMA UpdateBarrierIs ==
  ASSUME NEW c, InUpdate(c), NEW g \in Groups1(c), UpdateBarrier(g)
  PROVE  ScanShape' /\ LastUpdateInv(c)' /\ phase' = phase /\ inp' = inp
<1> DEFINE j == Kernel1(c)
           W == c.update_wg
           s == IF at[g] = "load" /\ c.lookbehind THEN "output"
                ELSE IF at[g] = "output" /\ base[g] + W < End(j, g) THEN "load" ELSE "end"
           b == IF at[g] = "output" THEN base[g] + W ELSE base[g]
<1>1. c \in Inputs /\ inp = c
  BY DEF InUpdate
<1>2. /\ GoodKernel(j) /\ DOMAIN at = Groups1(c) /\ Lids(phase) = 0 .. W - 1 /\ W \in Nat \ {0}
      /\ UpdateWG = W /\ interval_end(g) = End(j, g)
      /\ DOMAIN arrived = DOMAIN at /\ DOMAIN base = DOMAIN at
  BY UpdateRuns
<1>3. /\ at[g] # "end" /\ arrived[g] = 0 .. W - 1
      /\ at' = [at EXCEPT ![g] = s] /\ base' = [base EXCEPT ![g] = b] /\ arrived' = [arrived EXCEPT ![g] = {}]
      /\ inp' = inp /\ phase' = phase /\ offset' = offset /\ lfetch' = lfetch /\ ldata' = ldata /\ lflags' = lflags
      /\ lfirst' = lfirst /\ priv' = priv
      /\ partial' = partial /\ results' = results /\ first_seg' = first_seg /\ gflags' = gflags /\ output' = output
  <2>1. /\ at[g] # "end" /\ arrived[g] = Lids(phase)
        /\ at' = [at EXCEPT ![g] = IF @ = "load" /\ inp.lookbehind THEN "output"
                                   ELSE IF @ = "output" /\ base[g] + UpdateWG < interval_end(g) THEN "load" ELSE "end"]
        /\ base' = [base EXCEPT ![g] = IF at[g] = "output" THEN @ + UpdateWG ELSE @]
        /\ arrived' = [arrived EXCEPT ![g] = {}]
        /\ UNCHANGED <<inp, phase, offset, lfetch, ldata, lflags, lfirst, priv, global>>
    BY DEF UpdateBarrier
  <2>2. at' = [at EXCEPT ![g] = s] /\ base' = [base EXCEPT ![g] = b]
    <3> HIDE DEF j
    <3> QED
      BY <1>1, <1>2, <2>1
  <2> HIDE DEF s, b
  <2> QED
    BY <1>2, <2>1, <2>2 DEF global
<1>4. /\ at'[g] = s /\ base'[g] = b /\ arrived'[g] = {}
      /\ DOMAIN at' = DOMAIN at /\ DOMAIN base' = DOMAIN base /\ DOMAIN arrived' = DOMAIN arrived
      /\ \A h \in DOMAIN at : h # g => at'[h] = at[h] /\ base'[h] = base[h] /\ arrived'[h] = arrived[h]
  <2> HIDE DEF s, b
  <2> QED
    BY <1>2, <1>3
<1>5. DomainsKept
  BY <1>3, <1>4 DEF DomainsKept
<1>6. Begin(j, g) \in Nat /\ End(j, g) \in Nat /\ \A i \in Span(j, g) : i \in Nat /\ Begin(j, g) <= i /\ i < End(j, g)
  BY <1>1, FirstIntervals, IndexIsInOutput
<1>7. CASE ~c.lookbehind
  <2>1. \A h \in Groups1(c) : PlainGroup(c, h)
    BY <1>7 DEF InUpdate, LastUpdateInv, PlainInv
  <2>2. /\ at[g] \in {"load", "end"} /\ base[g] = Begin(j, g)
        /\ \A i \in Span(j, g) : (i - Begin(j, g)) % W \in arrived[g] => Right(c, i, output[i])
    BY <2>1 DEF PlainGroup
  <2>3. at[g] = "load" /\ s = "end" /\ b = Begin(j, g)
    BY <1>3, <1>7, <2>2
  <2>4. \A i \in Span(j, g) : Right(c, i, output[i])
    <3>1. ASSUME NEW i \in Span(j, g) PROVE (i - Begin(j, g)) % W \in 0 .. W - 1
      <4>1. i - Begin(j, g) \in Nat
        BY <1>6
      <4> DEFINE a == i - Begin(j, g)
      <4> HIDE DEF a, W
      <4>2. a % W \in 0 .. W - 1
        BY <1>2, <4>1, Division DEF a
      <4> QED
        BY <4>2 DEF a
    <3> QED
      BY <1>3, <2>2, <3>1
  <2>5. PlainGroup(c, g)'
    <3>1. at'[g] = "end" /\ base'[g] = Begin(j, g) /\ arrived'[g] = {}
      BY <1>4, <2>3
    <3> HIDE DEF s, b
    <3> QED
      BY <1>3, <2>4, <3>1 DEF PlainGroup
  <2>6. ASSUME NEW h \in Groups1(c), h # g PROVE PlainGroup(c, h)'
    <3>1. at'[h] = at[h] /\ base'[h] = base[h] /\ arrived'[h] = arrived[h] /\ PlainGroup(c, h)
      BY <1>2, <1>4, <2>1, <2>6
    <3> QED
      BY <1>3, <3>1 DEF PlainGroup
  <2>7. \A h \in Groups1(c) : IF c.lookbehind THEN BehindGroup(c, h)' ELSE PlainGroup(c, h)'
    BY <1>7, <2>5, <2>6
  <2> QED
    BY <1>3, <1>5, <2>7, UpdateStays
<1>8. CASE c.lookbehind
  <2>1. \A h \in Groups1(c) : BehindGroup(c, h)
    BY <1>8 DEF InUpdate, LastUpdateInv, BehindInv
  <2>2. /\ at[g] \in {"load", "output"}
        /\ base[g] \in Nat /\ Begin(j, g) <= base[g] /\ base[g] < End(j, g)
        /\ DOMAIN ldata[g] = (0 .. c.k) \X (0 .. W - 1) /\ DOMAIN lflags[g] = Rows(j) \X (0 .. W - 1)
        /\ DOMAIN priv[g] = 0 .. W - 1 /\ \A m \in 0 .. W - 1 : DOMAIN priv[g][m] = {"prev_item"}
        /\ at[g] = "load" => priv[g][0].prev_item = Before(c, base[g])
        /\ at[g] = "output" => priv[g][0].prev_item = ldata[g][<<0, W - 1>>]
        /\ \A m \in 0 .. W - 1 :
             base[g] + m < End(j, g) =>
               /\ ldata[g][<<0, m>>] = SumOf(c, 0, base[g] + m)
               /\ lflags[g][<<0, m>>] <=> base[g] + m \in SegStarts(c)
        /\ \A p \in Span(j, g) :
             p < base[g] \/ (at[g] = "output" /\ p < base[g] + W /\ p - base[g] \in 0 .. W - 1) => Right(c, p, output[p])
    <3>1. BehindGroup(c, g)
      BY <2>1
    <3>2. 0 \in arrived[g]
      BY <1>2, <1>3
    <3> QED
      BY <1>3, <3>1, <3>2 DEF BehindGroup
  <2>3. CASE at[g] = "load"
    <3>1. s = "output" /\ b = base[g]
      BY <1>8, <2>3
    <3>2. at'[g] = "output" /\ base'[g] = base[g] /\ arrived'[g] = {}
      BY <1>4, <3>1
    <3>3. BehindGroup(c, g)'
      <4> HIDE DEF s, b, j
      <4> QED
        BY <1>3, <2>2, <2>3, <3>2 DEF BehindGroup, j
    <3> QED
      <4>1. ASSUME NEW h \in Groups1(c), h # g PROVE BehindGroup(c, h)'
        BY <1>2, <1>3, <1>4, <2>1, <4>1, BehindOther
      <4>2. \A h \in Groups1(c) : IF c.lookbehind THEN BehindGroup(c, h)' ELSE PlainGroup(c, h)'
        BY <1>8, <3>3, <4>1
      <4> QED
        BY <1>3, <1>5, <4>2, UpdateStays
  <2>4. CASE at[g] = "output"
    <3>1. b = base[g] + W /\ b \in Nat /\ base[g] < b
      BY <1>2, <2>2, <2>4
    <3>2. at'[g] = s /\ base'[g] = b /\ arrived'[g] = {} /\ s \in {"load", "end"} /\ (s = "load" <=> b < End(j, g))
      BY <1>4, <2>4, <3>1
    <3>3. b < End(j, g) => priv[g][0].prev_item = Before(c, b)
      <4>0. SUFFICES ASSUME b < End(j, g) PROVE priv[g][0].prev_item = Before(c, b)
        OBVIOUS
      <4>1. W - 1 \in 0 .. W - 1 /\ base[g] + (W - 1) = b - 1 /\ base[g] + (W - 1) < End(j, g) /\ b # 0
        <5>1. W \in Nat \ {0} /\ base[g] \in Nat /\ b = base[g] + W /\ End(j, g) \in Nat
          BY <1>2, <1>6, <2>2, <3>1
        <5> HIDE DEF j, W, s, b
        <5> QED
          BY <4>0, <5>1
      <4>2. ldata[g][<<0, W - 1>>] = SumOf(c, 0, base[g] + (W - 1))
        BY <2>2, <4>1
      <4> HIDE DEF b
      <4> QED
        BY <2>2, <2>4, <4>1, <4>2 DEF Before
    <3>4. \A p \in Span(j, g) : p < b => Right(c, p, output[p])
      <4>1. ASSUME NEW p \in Span(j, g), p < b PROVE p < base[g] \/ (p < base[g] + W /\ p - base[g] \in 0 .. W - 1)
        <5>1. p \in Nat
          BY <1>6
        <5> HIDE DEF j, W, s
        <5> QED
          BY <1>2, <2>2, <3>1, <4>1, <5>1
      <4> QED
        BY <2>2, <2>4, <4>1
    <3>5. BehindGroup(c, g)'
      <4>1. Begin(j, g) <= b
        BY <1>6, <2>2, <3>1
      <4>2. s = "end" => End(j, g) <= b
        <5> HIDE DEF j
        <5> QED
          BY <1>6, <3>1, <3>2
      <4> HIDE DEF s, b, j
      <4> QED
        BY <1>3, <2>2, <3>1, <3>2, <3>3, <3>4, <4>1, <4>2 DEF BehindGroup, j
    <3> QED
      <4>1. ASSUME NEW h \in Groups1(c), h # g PROVE BehindGroup(c, h)'
        BY <1>2, <1>3, <1>4, <2>1, <4>1, BehindOther
      <4>2. \A h \in Groups1(c) : IF c.lookbehind THEN BehindGroup(c, h)' ELSE PlainGroup(c, h)'
        BY <1>8, <3>5, <4>1
      <4> QED
        BY <1>3, <1>5, <4>2, UpdateStays
  <2> QED
    BY <2>2, <2>3, <2>4
<1> QED
  BY <1>7, <1>8

-----------------------------------------------------------------------------
(* The end of a scan.                                                      *)
LEMMA IntervalOf ==
  ASSUME NEW c \in Inputs, NEW i \in 0 .. c.n - 1
  PROVE  \E g \in Groups1(c) : i \in Span(Kernel1(c), g)
<1> DEFINE s == SizeOf(c)
           w == CountOf(c)
           g == i \div s
           j == Kernel1(c)
<1>1. c.n \in Nat /\ s \in Nat \ {0} /\ w \in Nat /\ c.n <= s * w /\ i \in Nat /\ i < c.n
  BY InputNumbers
<1>2. g \in Nat /\ s * g <= i /\ i < s * g + s
  <2> HIDE DEF s
  <2>1. i = s * g + (i % s) /\ i % s \in 0 .. s - 1 /\ g \in Nat
    BY <1>1, Division
  <2> DEFINE a == s * g
             d == i % s
  <2>2. i = a + d /\ d \in 0 .. s - 1 /\ a \in Nat
    BY <1>1, <2>1
  <2>3. a <= i /\ i < a + s
    <3> HIDE DEF a, d
    <3> QED
      BY <1>1, <2>2
  <2> QED
    BY <2>1, <2>3
<1> HIDE DEF g
<1>3. g < w
  <2>1. s * g < s * w
    <3> DEFINE a == s * g
               b == s * w
    <3>1. a \in Nat /\ b \in Nat /\ a <= i /\ c.n <= b
      BY <1>1, <1>2
    <3> HIDE DEF a, b, s, w
    <3>2. a < b
      BY <1>1, <3>1
    <3> QED
      BY <3>2 DEF a, b
  <2> HIDE DEF s, w
  <2> QED
    BY <1>1, <1>2, <2>1, Multiples
<1>4. g \in Groups1(c)
  BY <1>1, <1>2, <1>3 DEF Groups1
<1>5. Begin(j, g) = s * g /\ Limit(j, g) = End(j, g) /\ End(j, g) - 1 = LastOf(c, g) /\ g \in 0 .. w - 1 /\ End(j, g) \in Nat
  BY <1>4, FirstIntervals
<1>6. i <= LastOf(c, g) /\ LastOf(c, g) \in Nat /\ s * g \in Nat
  BY <1>1, <1>2, <1>5, LastOfIs
<1>7. i \in Span(j, g)
  <2> DEFINE a == s * g
  <2>1. a \in Nat /\ a <= i /\ Begin(j, g) = a
    BY <1>2, <1>5, <1>6
  <2> HIDE DEF a, s, j
  <2> QED
    BY <1>1, <1>5, <1>6, <2>1 DEF Span
<1> QED
  BY <1>4, <1>7

LEMMA CompletesIs ==
  ASSUME NEW c, InUpdate(c), Completes
  PROVE  ScanShape' /\ DoneInv' /\ phase' = "done"
<1> DEFINE j == Kernel1(c)
<1>1. c \in Inputs /\ inp = c /\ phase = "update" /\ ScanShape
  BY DEF InUpdate
<1>2. /\ KernelDone /\ phase' = "done" /\ inp' = inp /\ at' = at /\ partial' = partial /\ results' = results
      /\ first_seg' = first_seg /\ gflags' = gflags /\ output' = output
  BY DEF Completes, global
<1>3. ScanShape'
  BY <1>1, <1>2 DEF ScanShape, Phases, Groups1, CountOf, KernelDone
<1>4. DOMAIN at = Groups1(c)
  BY UpdateRuns
<1>5. ASSUME NEW i \in 0 .. c.n - 1 PROVE Right(c, i, output[i])
  <2>1. PICK g \in Groups1(c) : i \in Span(j, g)
    BY <1>1, IntervalOf
  <2>2. at[g] = "end"
    BY <1>2, <1>4 DEF KernelDone
  <2>3. CASE c.lookbehind
    <3>1. BehindGroup(c, g)
      BY <2>3 DEF InUpdate, LastUpdateInv, BehindInv
    <3>2. End(j, g) <= base[g] /\ base[g] \in Nat /\ (i < base[g] => Right(c, i, output[i]))
      BY <2>1, <2>2, <3>1 DEF BehindGroup
    <3>3. i \in Nat /\ i < End(j, g) /\ End(j, g) \in Nat
      BY <1>1, <2>1, IndexIsInOutput, FirstIntervals
    <3> HIDE DEF j
    <3> QED
      BY <3>2, <3>3
  <2>4. CASE ~c.lookbehind
    BY <2>1, <2>2, <2>4 DEF InUpdate, LastUpdateInv, PlainInv, PlainGroup
  <2> QED
    BY <2>3, <2>4
<1>6. DoneInv'
  BY <1>1, <1>2, <1>5 DEF DoneInv, Right
<1> QED
  BY <1>2, <1>3, <1>6

LEMMA NothingToScanIs ==
  ASSUME NEW c, InLev1(c), NothingToScan
  PROVE  ScanShape' /\ DoneInv' /\ phase' = "done"
<1>1. c \in Inputs /\ inp = c /\ phase = "lev1" /\ ScanShape
  BY DEF InLev1
<1>2. /\ c.n = 0 /\ phase' = "done" /\ inp' = inp /\ at' = at /\ partial' = partial /\ results' = results
      /\ first_seg' = first_seg /\ gflags' = gflags /\ output' = output
  BY <1>1 DEF NothingToScan, global
<1>3. DOMAIN at = {}
  <2>1. DOMAIN at = Groups1(c)
    BY Lev1Runs
  <2>2. CountOf(c) = 0
    BY <1>1, <1>2, InputNumbers
  <2> QED
    BY <2>1, <2>2 DEF Groups1
<1>4. ScanShape'
  BY <1>1, <1>2, <1>3 DEF ScanShape, Phases, Groups1, CountOf
<1>5. DoneInv'
  BY <1>1, <1>2 DEF DoneInv
<1> QED
  BY <1>2, <1>4, <1>5

LEMMA AssertionFailsIs ==
  ASSUME NEW c, InLev1(c), AssertionFails
  PROVE  ScanShape' /\ phase' = "raised"
<1>1. phase' = "raised" /\ inp' = inp /\ partial' = partial /\ results' = results
      /\ first_seg' = first_seg /\ gflags' = gflags /\ output' = output
  BY DEF AssertionFails, global
<1>2. ScanShape
  BY DEF InLev1
<1> QED
  BY <1>1, <1>2 DEF ScanShape, Phases, Groups1, CountOf

(* The kernel of the first level goes on after the assertion failed.       *)
LEMMA RaisedStays ==
  ASSUME ScanShape, phase = "raised", NEW g, NEW l, WorkItem(g, l) \/ Barrier(g) \/ UpdateBarrier(g)
  PROVE  ScanShape' /\ phase' = "raised"
<1>1. ~Barrier(g)
  BY DEF Barrier
<1>2. ~UpdateBarrier(g)
  BY DEF UpdateBarrier
<1>3. WorkItem(g, l)
  BY <1>1, <1>2
<1> DEFINE Quiet == /\ inp' = inp /\ phase' = phase
                    /\ DOMAIN partial' = DOMAIN partial /\ DOMAIN gflags' = DOMAIN gflags /\ DOMAIN output' = DOMAIN output
                    /\ DOMAIN results' = DOMAIN results /\ DOMAIN first_seg' = DOMAIN first_seg
<1>16. SUFFICES Quiet
  <2>1. ASSUME Quiet PROVE ScanShape' /\ phase' = "raised"
    BY <2>1 DEF ScanShape, Phases, Groups1, CountOf
  <2> QED
    BY <2>1
<1>4. CASE Fetch(g, l)
  BY <1>4 DEF Fetch, Executes, control, global
<1>5. CASE Load(g, l)
  BY <1>5, Zenon DEF Load
<1>6. CASE CarryInSegmented(g, l)
  BY <1>6 DEF CarryInSegmented, Executes, control, global
<1>7. CASE ScanAlongK(g, l)
  <2>1. Executes(g, l, "along_k") /\ UNCHANGED <<lfetch, lflags, global>>
    BY <1>7, Zenon DEF ScanAlongK
  <2> QED
    BY <2>1 DEF Executes, control, global
<1>8. CASE TreeRead(g, l)
  BY <1>8 DEF TreeRead, Executes, control, global
<1>9. CASE TreeWrite(g, l)
  BY <1>9 DEF TreeWrite, Executes, control, global
<1>10. CASE UpdateLocal(g, l)
  <2>1. Executes(g, l, "update_local") /\ UNCHANGED <<lfetch, lflags, lfirst, global>>
    BY <1>10, Zenon DEF UpdateLocal
  <2> QED
    BY <2>1 DEF Executes, control, global
<1>11. CASE WriteData(g, l)
  <2>1. Executes(g, l, "write") /\ results' = Override(results, Written(g, l)) /\ partial' = partial
        /\ UNCHANGED <<lfetch, ldata, lflags, lfirst, priv, first_seg, gflags, output>>
    BY <1>11, Zenon DEF WriteData, Written
  <2>2. DOMAIN results' = DOMAIN results
    <3> DEFINE new == Written(g, l)
    <3> HIDE DEF new
    <3>1. results' = Override(results, new)
      BY <2>1 DEF new
    <3> QED
      BY <3>1 DEF Override
  <2> QED
    BY <2>1, <2>2 DEF Executes, control
<1>12. CASE WriteIntervalSum(g, l)
  BY <1>12 DEF WriteIntervalSum, Executes, control, global
<1>13. CASE UpdatePlain(g, l)
  BY <1>13, Zenon DEF UpdatePlain
<1>14. CASE UpdateLoad(g, l)
  BY <1>14, Zenon DEF UpdateLoad
<1>15. CASE UpdateOutput(g, l)
  BY <1>15 DEF UpdateOutput, Executes, control, global
<1> QED
  BY <1>3, <1>4, <1>5, <1>6, <1>7, <1>8, <1>9, <1>10, <1>11, <1>12, <1>13, <1>14, <1>15 DEF WorkItem

-----------------------------------------------------------------------------
(* GenericDebugScanKernel: its recursion has one solution.                 *)
DebugStep(c, f, i) ==
  SCAN_EXPR(IF i = 0 THEN neutral ELSE f[i - 1], INPUT_EXPR(i, i - 1), c.segmented /\ i \in c.starts)
DebugSums(c, f) == f = [i \in 0 .. c.n - 1 |-> DebugStep(c, f, i)]

(* The sum with one more element.                                          *)
LEMMA NextSum ==
  ASSUME NEW c \in Inputs, NEW i \in Nat, i > 0
  PROVE  SumOf(c, 0, i) = SCAN_EXPR(SumOf(c, 0, i - 1), <<i>>, c.segmented /\ i \in c.starts)
<1>1. SegStarts(c) \subseteq Nat
  BY InputNumbers
<1>2. i - 1 \in Nat /\ 0 \in Nat /\ 0 <= i - 1 /\ i - 1 < i /\ (i - 1) + 1 = i
  OBVIOUS
<1>3. Joins(c, 0, i - 1, i)
  BY <1>1, <1>2, SumsJoinHere
<1>4. SumOf(c, i, i) = <<i>>
  BY <1>1, OneElement
<1>5. (\E q \in (i - 1) + 1 .. i : q \in SegStarts(c)) <=> i \in SegStarts(c)
  BY <1>2
<1>6. i \in SegStarts(c) <=> c.segmented /\ i \in c.starts
  BY DEF SegStarts
<1> QED
  BY <1>2, <1>3, <1>4, <1>5, <1>6 DEF Joins, SCAN_EXPR

LEMMA FirstSum ==
  ASSUME NEW c \in Inputs, NEW b
  PROVE  SumOf(c, 0, 0) = SCAN_EXPR(neutral, <<0>>, b)
<1>1. SumOf(c, 0, 0) = <<0>>
  BY InputNumbers, OneElement
<1>2. << >> \o <<0>> = <<0>>
  <2>1. <<0>> \in Seq(Nat)
    OBVIOUS
  <2> QED
    BY <2>1, ConcatEmptySeq
<1> QED
  BY <1>1, <1>2 DEF SCAN_EXPR, neutral

LEMMA DebugStepIs ==
  ASSUME NEW c \in Inputs, inp = c, phase = "debug", NEW f, NEW i \in Nat, i > 0 => f[i - 1] = SumOf(c, 0, i - 1)
  PROVE  DebugStep(c, f, i) = SumOf(c, 0, i)
<1>1. INPUT_EXPR(i, i - 1) = <<i>>
  BY DEF INPUT_EXPR
<1>2. CASE i = 0
  <2>1. DebugStep(c, f, 0) = SCAN_EXPR(neutral, <<0>>, c.segmented /\ 0 \in c.starts)
    BY <1>1, <1>2 DEF DebugStep
  <2> QED
    BY <1>2, <2>1, FirstSum
<1>3. CASE i > 0
  <2>1. DebugStep(c, f, i) = SCAN_EXPR(SumOf(c, 0, i - 1), <<i>>, c.segmented /\ i \in c.starts)
    BY <1>1, <1>3 DEF DebugStep
  <2> QED
    BY <1>3, <2>1, NextSum
<1> QED
  BY <1>2, <1>3

LEMMA DebugSumsAre ==
  ASSUME NEW c \in Inputs, inp = c, phase = "debug"
  PROVE  /\ \E f : DebugSums(c, f)
         /\ \A f : DebugSums(c, f) => \A i \in 0 .. c.n - 1 : f[i] = SumOf(c, 0, i)
<1>1. \E f : DebugSums(c, f)
  <2> DEFINE p == [i \in 0 .. c.n - 1 |-> SumOf(c, 0, i)]
  <2>1. \A i \in 0 .. c.n - 1 : p[i] = DebugStep(c, p, i)
    <3>1. SUFFICES ASSUME NEW i \in 0 .. c.n - 1 PROVE p[i] = DebugStep(c, p, i)
      OBVIOUS
    <3>2. i \in Nat /\ p[i] = SumOf(c, 0, i) /\ (i > 0 => p[i - 1] = SumOf(c, 0, i - 1))
      <4>1. c.n \in Nat
        BY InputNumbers
      <4>2. i > 0 => i - 1 \in 0 .. c.n - 1
        BY <4>1
      <4> QED
        BY <4>1, <4>2
    <3> HIDE DEF p
    <3>3. DebugStep(c, p, i) = SumOf(c, 0, i)
      BY <3>2, DebugStepIs
    <3> QED
      BY <3>2, <3>3
  <2>2. p = [i \in 0 .. c.n - 1 |-> p[i]]
    OBVIOUS
  <2> HIDE DEF p
  <2>3. p = [i \in 0 .. c.n - 1 |-> DebugStep(c, p, i)]
    BY <2>1, <2>2
  <2> QED
    BY <2>3 DEF DebugSums
<1>2. ASSUME NEW f, DebugSums(c, f) PROVE \A i \in 0 .. c.n - 1 : f[i] = SumOf(c, 0, i)
  <2>1. c.n \in Nat
    BY InputNumbers
  <2>2. \A i \in 0 .. c.n - 1 : f[i] = DebugStep(c, f, i)
    BY <1>2 DEF DebugSums
  <2> DEFINE D == {i \in Nat : i < c.n => f[i] = SumOf(c, 0, i)}
  <2>3. 0 \in D
    <3>1. ASSUME 0 < c.n PROVE f[0] = SumOf(c, 0, 0)
      <4>1. DebugStep(c, f, 0) = SumOf(c, 0, 0)
        BY DebugStepIs
      <4>2. 0 \in 0 .. c.n - 1
        BY <2>1, <3>1
      <4> QED
        BY <2>2, <4>1, <4>2
    <3> QED
      BY <3>1
  <2>4. ASSUME NEW i \in Nat, i \in D PROVE i + 1 \in D
    <3>1. ASSUME i + 1 < c.n PROVE f[i + 1] = SumOf(c, 0, i + 1)
      <4>1. f[(i + 1) - 1] = SumOf(c, 0, (i + 1) - 1) /\ i + 1 \in Nat /\ i + 1 \in 0 .. c.n - 1
        BY <2>1, <2>4, <3>1
      <4>2. DebugStep(c, f, i + 1) = SumOf(c, 0, i + 1)
        <5> DEFINE x == i + 1
        <5>1. x \in Nat /\ f[x - 1] = SumOf(c, 0, x - 1)
          BY <4>1
        <5> HIDE DEF x
        <5>2. DebugStep(c, f, x) = SumOf(c, 0, x)
          BY <5>1, DebugStepIs
        <5> QED
          BY <5>2 DEF x
      <4> QED
        BY <2>2, <4>1, <4>2
    <3> QED
      BY <3>1
  <2> HIDE DEF D
  <2>5. Nat \subseteq D
    BY <2>3, <2>4, NatSetInduction
  <2>6. \A i \in 0 .. c.n - 1 : i \in Nat /\ i < c.n
    BY <2>1
  <2> QED
    BY <2>5, <2>6 DEF D
<1> QED
  BY <1>1, <1>2

LEMMA DebugScanIs ==
  ASSUME ScanShape, phase = "debug", DebugScan
  PROVE  ScanShape' /\ DoneInv' /\ phase' = "done"
<1> DEFINE f == CHOOSE p : p = [i \in 0 .. inp.n - 1 |->
                  SCAN_EXPR(IF i = 0 THEN neutral ELSE p[i - 1], INPUT_EXPR(i, i - 1),
                            inp.segmented /\ i \in inp.starts)]
<1>1. /\ output' = [i \in 0 .. inp.n - 1 |->
                      [item |-> f[i], last |-> f[inp.n - 1], prev |-> IF i = 0 THEN neutral ELSE f[i - 1]]]
      /\ phase' = "done"
      /\ UNCHANGED <<inp, at, base, offset, arrived, lfetch, ldata, lflags, lfirst, priv,
                     partial, results, first_seg, gflags>>
  BY Zenon DEF DebugScan
<1>2. inp \in Inputs /\ inp.debug
  BY DEF ScanShape
<1>3. DebugSums(inp, f)
  <2>1. \E p : DebugSums(inp, p)
    BY <1>2, DebugSumsAre
  <2>2. f = CHOOSE p : DebugSums(inp, p)
    BY Zenon DEF DebugSums, DebugStep
  <2> HIDE DEF f
  <2> QED
    BY <2>1, <2>2
<1> HIDE DEF f
<1>4. \A i \in 0 .. inp.n - 1 : f[i] = SumOf(inp, 0, i)
  BY <1>2, <1>3, DebugSumsAre
<1>5. inp.n \in Nat
  BY <1>2, InputNumbers
<1>6. ScanShape'
  <2>1. DOMAIN output' = 0 .. inp.n - 1
    BY <1>1
  <2> QED
    BY <1>1, <1>2, <2>1 DEF ScanShape, Phases, Groups1, CountOf
<1>7. inp' = inp /\ \A i \in 0 .. inp.n - 1 :
        output'[i] = [item |-> f[i], last |-> f[inp.n - 1], prev |-> IF i = 0 THEN neutral ELSE f[i - 1]]
  BY <1>1
<1>8. ~inp.segmented => SegStarts(inp) = {}
  BY DEF SegStarts
<1>9. DoneInv'
  <2>1. SUFFICES ASSUME NEW i \in 0 .. inp.n - 1
                 PROVE  /\ output'[i].item = SumOf(inp, 0, i)
                        /\ inp.lookbehind /\ ~(inp.debug /\ inp.segmented) =>
                             output'[i].prev = IF i = 0 \/ i \in SegStarts(inp) THEN neutral ELSE SumOf(inp, 0, i - 1)
                        /\ ~inp.segmented => output'[i].last = SumOf(inp, 0, inp.n - 1)
    BY <1>7 DEF DoneInv
  <2>2. inp.n - 1 \in 0 .. inp.n - 1 /\ (i # 0 => i - 1 \in 0 .. inp.n - 1)
    BY <1>5
  <2>3. output'[i].item = f[i] /\ output'[i].last = f[inp.n - 1] /\ output'[i].prev = IF i = 0 THEN neutral ELSE f[i - 1]
    <3> DEFINE x == f[i]
               y == f[inp.n - 1]
               z == IF i = 0 THEN neutral ELSE f[i - 1]
    <3>1. output'[i] = [item |-> x, last |-> y, prev |-> z]
      BY <1>7
    <3> HIDE DEF x, y, z
    <3>2. output'[i].item = x /\ output'[i].last = y /\ output'[i].prev = z
      BY <3>1
    <3> QED
      BY <3>2 DEF x, y, z
  <2> QED
    BY <1>2, <1>4, <1>8, <2>2, <2>3
<1> QED
  BY <1>1, <1>6, <1>9

-----------------------------------------------------------------------------
(* Every step keeps the invariant.                                         *)
LEMMA AfterLev1 ==
  ASSUME NEW c, InLev1(c), Next
  PROVE  ScanInv'
<1>1. c \in Inputs /\ inp = c /\ phase = "lev1" /\ ~inp.debug /\ DOMAIN at = Groups1(c)
  BY Lev1Runs DEF InLev1, ScanShape
<1>2. ASSUME NEW g \in DOMAIN at, (\E l \in Lids(phase) : WorkItem(g, l)) \/ Barrier(g) \/ UpdateBarrier(g) PROVE ScanInv'
  <2>1. ~UpdateBarrier(g)
    BY <1>1 DEF UpdateBarrier
  <2>2. ScanShape' /\ Lev1Inv(c)' /\ phase' = phase /\ inp' = inp
    BY <1>1, <1>2, <2>1, Lev1WorkItem, Lev1Barrier
  <2> QED
    BY <1>1, <2>2 DEF ScanInv, PhaseInv
<1>3. CASE EnqueueSecondLevel
  <2>1. ScanShape' /\ Lev2Inv(c)' /\ phase' = "lev2" /\ inp' = inp
    BY <1>3, SecondLevelIs
  <2> QED
    BY <1>1, <2>1 DEF ScanInv, PhaseInv
<1>4. CASE AssertionFails
  <2>1. ScanShape' /\ phase' = "raised"
    BY <1>4, AssertionFailsIs
  <2>2. inp' = inp
    BY <1>4 DEF AssertionFails
  <2> QED
    BY <1>1, <2>1, <2>2 DEF ScanInv, PhaseInv
<1>5. CASE NothingToScan
  <2>1. ScanShape' /\ DoneInv' /\ phase' = "done"
    BY <1>5, NothingToScanIs
  <2>2. inp' = inp
    BY <1>5 DEF NothingToScan
  <2> QED
    BY <1>1, <2>1, <2>2 DEF ScanInv, PhaseInv
<1>6. ~EnqueueFinalUpdate /\ ~Completes /\ ~DebugScan
  <2>1. ~DebugScan
    BY <1>1, Zenon DEF DebugScan
  <2> QED
    BY <1>1, <2>1 DEF EnqueueFinalUpdate, Completes
<1> QED
  BY <1>1, <1>2, <1>3, <1>4, <1>5, <1>6 DEF Next

LEMMA AfterLev2 ==
  ASSUME NEW c, InLev2(c), Next
  PROVE  ScanInv'
<1>1. c \in Inputs /\ inp = c /\ phase = "lev2" /\ ~inp.debug
  BY DEF InLev2, ScanShape
<1>2. ASSUME NEW g \in DOMAIN at, (\E l \in Lids(phase) : WorkItem(g, l)) \/ Barrier(g) \/ UpdateBarrier(g) PROVE ScanInv'
  <2>1. ~UpdateBarrier(g)
    BY <1>1 DEF UpdateBarrier
  <2>2. ScanShape' /\ Lev2Inv(c)' /\ phase' = phase /\ inp' = inp
    BY <1>2, <2>1, Lev2WorkItem, Lev2Barrier
  <2> QED
    BY <1>1, <2>2 DEF ScanInv, PhaseInv
<1>3. CASE EnqueueFinalUpdate
  <2>1. ScanShape' /\ LastUpdateInv(c)' /\ phase' = "update" /\ inp' = inp
    BY <1>3, FinalUpdateIs
  <2> QED
    BY <1>1, <2>1 DEF ScanInv, PhaseInv
<1>4. ~EnqueueSecondLevel /\ ~AssertionFails /\ ~Completes /\ ~NothingToScan /\ ~DebugScan
  <2>1. ~DebugScan
    BY <1>1, Zenon DEF DebugScan
  <2> QED
    BY <1>1, <2>1 DEF EnqueueSecondLevel, AssertionFails, Completes, NothingToScan
<1> QED
  BY <1>1, <1>2, <1>3, <1>4 DEF Next

LEMMA AfterUpdate ==
  ASSUME NEW c, InUpdate(c), Next
  PROVE  ScanInv'
<1>1. c \in Inputs /\ inp = c /\ phase = "update" /\ ~inp.debug /\ DOMAIN at = Groups1(c)
  BY UpdateRuns DEF InUpdate, ScanShape
<1>2. ASSUME NEW g \in DOMAIN at, (\E l \in Lids(phase) : WorkItem(g, l)) \/ Barrier(g) \/ UpdateBarrier(g) PROVE ScanInv'
  <2>1. ~Barrier(g)
    BY <1>1 DEF Barrier
  <2>2. ScanShape' /\ LastUpdateInv(c)' /\ phase' = phase /\ inp' = inp
    BY <1>1, <1>2, <2>1, UpdateWorkItemIs, UpdateBarrierIs
  <2> QED
    BY <1>1, <2>2 DEF ScanInv, PhaseInv
<1>3. CASE Completes
  <2>1. ScanShape' /\ DoneInv' /\ phase' = "done"
    BY <1>3, CompletesIs
  <2>2. inp' = inp
    BY <1>3 DEF Completes
  <2> QED
    BY <1>1, <2>1, <2>2 DEF ScanInv, PhaseInv
<1>4. ~EnqueueSecondLevel /\ ~AssertionFails /\ ~EnqueueFinalUpdate /\ ~NothingToScan /\ ~DebugScan
  <2>1. ~DebugScan
    BY <1>1, Zenon DEF DebugScan
  <2> QED
    BY <1>1, <2>1 DEF EnqueueSecondLevel, AssertionFails, EnqueueFinalUpdate, NothingToScan
<1> QED
  BY <1>1, <1>2, <1>3, <1>4 DEF Next

LEMMA AfterRaised ==
  ASSUME NEW c \in Inputs, inp = c, ScanShape, phase = "raised", Next
  PROVE  ScanInv'
<1>1. PICK g : \E l : WorkItem(g, l) \/ Barrier(g) \/ UpdateBarrier(g)
  <2>1. ~DebugScan
    BY Zenon DEF DebugScan
  <2> QED
    BY <2>1 DEF Next, EnqueueSecondLevel, AssertionFails, EnqueueFinalUpdate, Completes, NothingToScan
<1>2. ScanShape' /\ phase' = "raised"
  BY <1>1, RaisedStays
<1>3. inp' = inp
  <2>1. ASSUME NEW l, WorkItem(g, l) PROVE inp' = inp
    <3>1. \A s : Executes(g, l, s) => inp' = inp
      BY DEF Executes, control
    <3>2. \E s : Executes(g, l, s)
      <4>1. Load(g, l) => Executes(g, l, "load")
        BY Zenon DEF Load
      <4>2. ScanAlongK(g, l) => Executes(g, l, "along_k")
        BY Zenon DEF ScanAlongK
      <4>3. UpdateLocal(g, l) => Executes(g, l, "update_local")
        BY Zenon DEF UpdateLocal
      <4>4. WriteData(g, l) => Executes(g, l, "write")
        BY Zenon DEF WriteData
      <4>5. UpdatePlain(g, l) => Executes(g, l, "load")
        BY Zenon DEF UpdatePlain
      <4>6. UpdateLoad(g, l) => Executes(g, l, "load")
        BY Zenon DEF UpdateLoad
      <4>7. UpdateOutput(g, l) => Executes(g, l, "output")
        BY Zenon DEF UpdateOutput
      <4>8. TreeRead(g, l) => Executes(g, l, "tree_read")
        BY Zenon DEF TreeRead
      <4>9. /\ Fetch(g, l) => Executes(g, l, "fetch")
            /\ CarryInSegmented(g, l) => Executes(g, l, "carry")
            /\ TreeWrite(g, l) => Executes(g, l, "tree_write")
            /\ WriteIntervalSum(g, l) => Executes(g, l, "interval_sum")
        BY Zenon DEF Fetch, CarryInSegmented, TreeWrite, WriteIntervalSum
      <4> QED
        BY <2>1, <4>1, <4>2, <4>3, <4>4, <4>5, <4>6, <4>7, <4>8, <4>9, Zenon DEF WorkItem
    <3> QED
      BY <3>1, <3>2, Zenon
  <2> QED
    BY <1>1, <2>1 DEF Barrier, UpdateBarrier
<1> QED
  BY <1>2, <1>3 DEF ScanInv, PhaseInv

(* Nothing follows the end.                                                *)
LEMMA NoneAfterDone ==
  ASSUME ScanShape, phase = "done"
  PROVE  ~Next
<1>1. ~(EnqueueSecondLevel \/ AssertionFails \/ EnqueueFinalUpdate \/ Completes \/ NothingToScan \/ DebugScan)
  <2>1. ~DebugScan
    BY Zenon DEF DebugScan
  <2> QED
    BY <2>1 DEF EnqueueSecondLevel, AssertionFails, EnqueueFinalUpdate, Completes, NothingToScan
<1>2. ASSUME ~inp.debug, NEW g \in DOMAIN at, NEW l PROVE ~WorkItem(g, l) /\ ~Barrier(g) /\ ~UpdateBarrier(g)
  <2>1. at[g] = "end"
    BY <1>2 DEF ScanShape
  <2>2. ~Barrier(g) /\ ~UpdateBarrier(g)
    BY DEF Barrier, UpdateBarrier
  <2>3. \A s : s # "end" => ~Executes(g, l, s)
    BY <2>1 DEF Executes
  <2>4. ~Load(g, l)
    BY <2>3, Zenon DEF Load
  <2>5. ~ScanAlongK(g, l)
    <3>1. ~Executes(g, l, "along_k")
      BY <2>3
    <3> QED
      BY <3>1, Zenon DEF ScanAlongK
  <2>6. ~UpdateLocal(g, l)
    <3>1. ~Executes(g, l, "update_local")
      BY <2>3
    <3> QED
      BY <3>1, Zenon DEF UpdateLocal
  <2>7. ~WriteData(g, l)
    <3>1. ~Executes(g, l, "write")
      BY <2>3
    <3> QED
      BY <3>1, Zenon DEF WriteData
  <2>8. ~UpdatePlain(g, l) /\ ~UpdateLoad(g, l) /\ ~UpdateOutput(g, l)
    <3>1. ~Executes(g, l, "load") /\ ~Executes(g, l, "output")
      BY <2>3
    <3> QED
      BY <3>1, Zenon DEF UpdatePlain, UpdateLoad, UpdateOutput
  <2>9. ~Fetch(g, l) /\ ~CarryInSegmented(g, l) /\ ~TreeRead(g, l) /\ ~TreeWrite(g, l) /\ ~WriteIntervalSum(g, l)
    BY <2>3 DEF Fetch, CarryInSegmented, TreeRead, TreeWrite, WriteIntervalSum
  <2> QED
    BY <2>2, <2>4, <2>5, <2>6, <2>7, <2>8, <2>9 DEF WorkItem
<1> QED
  BY <1>1, <1>2 DEF Next

(* The invariant is inductive.                                             *)
LEMMA NextIs ==
  ASSUME ScanInv, [Next]_vars
  PROVE  ScanInv'
<1>1. PICK c \in Inputs : inp = c /\ PhaseInv(c)
  BY DEF ScanInv
<1>2. ScanShape /\ phase \in {"lev1", "lev2", "update", "debug", "done", "raised"}
  BY DEF ScanInv, ScanShape, Phases
<1>3. CASE UNCHANGED vars
  <2>1. /\ inp' = inp /\ phase' = phase /\ at' = at /\ base' = base /\ offset' = offset /\ arrived' = arrived
        /\ lfetch' = lfetch /\ ldata' = ldata /\ lflags' = lflags /\ lfirst' = lfirst /\ priv' = priv
        /\ partial' = partial /\ results' = results /\ first_seg' = first_seg /\ gflags' = gflags /\ output' = output
    BY <1>3 DEF vars, control, global
  <2>2. ScanShape'
    BY <1>2, <2>1 DEF ScanShape, Groups, num_intervals, interval_size, WG, Groups1, CountOf
  <2>3. phase = "done" => DoneInv'
    BY <2>1 DEF ScanInv, DoneInv
  <2>4. \A g : GroupState(g)' = GroupState(g)
    BY <2>1 DEF GroupState
  <2>5. IntervalsKept(c) => IntervalsKept(c)'
    BY <2>1, IntervalsStay
  <2>6. Lev1Inv(c) => Lev1Inv(c)'
    BY <2>1, <2>4 DEF Lev1Inv, Lev1Group
  <2>7. Lev2Inv(c) => Lev2Inv(c)'
    BY <2>1, <2>4, <2>5 DEF Lev2Inv
  <2>8. PlainInv(c) => PlainInv(c)'
    BY <2>1 DEF PlainInv, PlainGroup
  <2>9. BehindInv(c) => BehindInv(c)'
    BY <2>1 DEF BehindInv, BehindGroup
  <2>10. LastUpdateInv(c) => LastUpdateInv(c)'
    BY <2>1, <2>5, <2>8, <2>9 DEF LastUpdateInv
  <2>11. PhaseInv(c)'
    BY <1>1, <2>1, <2>6, <2>7, <2>10 DEF PhaseInv
  <2> QED
    BY <1>1, <2>1, <2>2, <2>3, <2>11 DEF ScanInv
<1>4. CASE Next
  <2>1. phase = "lev1" => InLev1(c)
    BY <1>1, <1>2 DEF InLev1, PhaseInv
  <2>2. phase = "lev2" => InLev2(c)
    BY <1>1, <1>2 DEF InLev2, PhaseInv
  <2>3. phase = "update" => InUpdate(c)
    BY <1>1, <1>2 DEF InUpdate, PhaseInv
  <2>4. phase = "done" => ScanInv'
    BY <1>2, <1>4, NoneAfterDone
  <2>5. CASE phase = "debug"
    <3>1. inp.debug
      BY <1>2, <2>5 DEF ScanShape
    <3>2. DebugScan
      BY <1>4, <2>5, <3>1 DEF Next, EnqueueSecondLevel, AssertionFails, EnqueueFinalUpdate, Completes, NothingToScan
    <3>3. ScanShape' /\ DoneInv' /\ phase' = "done"
      BY <1>2, <2>5, <3>2, DebugScanIs
    <3>4. inp' = inp
      BY <3>2, Zenon DEF DebugScan
    <3> QED
      BY <1>1, <3>3, <3>4 DEF ScanInv, PhaseInv
  <2> QED
    BY <1>1, <1>2, <1>4, <2>1, <2>2, <2>3, <2>4, <2>5, AfterLev1, AfterLev2, AfterUpdate, AfterRaised
<1> QED
  BY <1>3, <1>4

-----------------------------------------------------------------------------
(* What the invariant says of the output.                                  *)
LEMMA SegmentStartIs ==
  ASSUME NEW i
  PROVE  SegmentStart(i) = LastStart(inp, i)
<1>1. CASE inp.segmented
  BY <1>1 DEF SegmentStart, LastStart, SegStarts
<1>2. CASE ~inp.segmented
  <2>1. {q \in SegStarts(inp) : q <= i} = {}
    BY <1>2 DEF SegStarts
  <2> QED
    BY <1>2, <2>1 DEF SegmentStart, LastStart
<1> QED
  BY <1>1, <1>2

(* The sum up to i begins where its segment does.                          *)
LEMMA SumFromStart ==
  ASSUME NEW c \in Inputs, NEW i \in Nat
  PROVE  /\ SumOf(c, 0, i) = SequentialScan(LastStart(c, i), i)
         /\ LastStart(c, i) = i <=> (i = 0 \/ i \in SegStarts(c))
         /\ LastStart(c, i) # i => i > 0 /\ SumOf(c, 0, i - 1) = SequentialScan(LastStart(c, i), i - 1)
         /\ ~c.segmented => LastStart(c, i) = 0
<1>1. SegStarts(c) \subseteq Nat
  BY InputNumbers
<1>2. /\ LastStart(c, i) \in 0 .. i /\ (LastStart(c, i) # 0 => LastStart(c, i) \in SegStarts(c))
      /\ \A q \in SegStarts(c) : q <= i => q <= LastStart(c, i)
  BY <1>1, LastStartIs
<1>3. \A y \in Nat : SumOf(c, 0, y) = SequentialScan(LastStart(c, y), y)
  <2>1. SUFFICES ASSUME NEW y \in Nat PROVE SumOf(c, 0, y) = SequentialScan(LastStart(c, y), y)
    OBVIOUS
  <2>2. LastStart(c, y) \in 0 .. y
    BY <1>1, LastStartIs
  <2>3. (IF 0 < LastStart(c, y) THEN LastStart(c, y) ELSE 0) = LastStart(c, y)
    BY <2>2
  <2> QED
    BY <2>3, Zenon DEF SumOf
<1>4. LastStart(c, i) = i <=> (i = 0 \/ i \in SegStarts(c))
  BY <1>1, <1>2
<1>5. ASSUME LastStart(c, i) # i PROVE i > 0 /\ LastStart(c, i - 1) = LastStart(c, i)
  <2>1. i > 0 /\ i - 1 \in Nat /\ LastStart(c, i) <= i - 1
    BY <1>2, <1>5
  <2>2. /\ LastStart(c, i - 1) \in 0 .. i - 1 /\ (LastStart(c, i - 1) # 0 => LastStart(c, i - 1) \in SegStarts(c))
        /\ \A q \in SegStarts(c) : q <= i - 1 => q <= LastStart(c, i - 1)
    BY <1>1, <2>1, LastStartIs
  <2> DEFINE a == LastStart(c, i)
             b == LastStart(c, i - 1)
  <2>3. a \in Nat /\ b \in Nat /\ a <= i - 1 /\ b <= i - 1 /\ (a # 0 => a <= b) /\ (b # 0 => b <= a)
    BY <1>1, <1>2, <2>1, <2>2
  <2> HIDE DEF a, b
  <2>4. a = b
    BY <2>3
  <2> QED
    BY <2>1, <2>4 DEF a, b
<1>6. LastStart(c, i) # i => SumOf(c, 0, i - 1) = SequentialScan(LastStart(c, i), i - 1)
  <2>1. i > 0 => i - 1 \in Nat
    OBVIOUS
  <2> QED
    BY <1>3, <1>5, <2>1
<1>7. ~c.segmented => LastStart(c, i) = 0
  BY <1>2 DEF SegStarts
<1> QED
  BY <1>3, <1>4, <1>5, <1>6, <1>7

(* At the end the output is that of the sequential scan.                   *)
LEMMA InvIsSequential == ScanInv => ScanIsSequential
<1>1. SUFFICES ASSUME ScanInv, phase = "done", NEW i \in 0 .. inp.n - 1
               PROVE  /\ output[i].item = SequentialScan(SegmentStart(i), i)
                      /\ inp.lookbehind /\ ~(inp.debug /\ inp.segmented) =>
                           output[i].prev = IF i = 0 \/ SegmentStart(i) = i THEN neutral
                                            ELSE SequentialScan(SegmentStart(i), i - 1)
                      /\ ~inp.segmented => output[i].last = SequentialScan(0, inp.n - 1)
  BY DEF ScanIsSequential
<1>2. inp \in Inputs /\ DoneInv
  BY <1>1 DEF ScanInv, ScanShape
<1>3. /\ output[i].item = SumOf(inp, 0, i)
      /\ inp.lookbehind /\ ~(inp.debug /\ inp.segmented) =>
           output[i].prev = IF i = 0 \/ i \in SegStarts(inp) THEN neutral ELSE SumOf(inp, 0, i - 1)
      /\ ~inp.segmented => output[i].last = SumOf(inp, 0, inp.n - 1)
  BY <1>2 DEF DoneInv
<1>4. i \in Nat /\ inp.n - 1 \in Nat
  <2>1. inp.n \in Nat
    BY <1>2, InputNumbers
  <2> QED
    BY <2>1
<1>5. SegmentStart(i) = LastStart(inp, i)
  BY SegmentStartIs
<1>6. /\ SumOf(inp, 0, i) = SequentialScan(LastStart(inp, i), i)
      /\ LastStart(inp, i) = i <=> (i = 0 \/ i \in SegStarts(inp))
      /\ LastStart(inp, i) # i => SumOf(inp, 0, i - 1) = SequentialScan(LastStart(inp, i), i - 1)
  BY <1>2, <1>4, SumFromStart
<1>7. ~inp.segmented => SumOf(inp, 0, inp.n - 1) = SequentialScan(0, inp.n - 1)
  <2>1. ~inp.segmented => LastStart(inp, inp.n - 1) = 0
    BY <1>2, <1>4, SumFromStart
  <2>2. SumOf(inp, 0, inp.n - 1) = SequentialScan(LastStart(inp, inp.n - 1), inp.n - 1)
    BY <1>2, <1>4, SumFromStart
  <2> QED
    BY <2>1, <2>2
<1> QED
  BY <1>3, <1>5, <1>6, <1>7

(* Whatever the sizes, the segments and the interleaving of the work items *)
(* and work groups, and whatever local memory holds when a kernel begins:  *)
(* when GenericScanKernel.__call__ is done, the output statement has been  *)
(* given what the sequential scan gives.                                   *)
THEOREM ScanIsRight == Spec => []ScanIsSequential
<1>1. Init => ScanInv
  BY InitIs
<1>2. ScanInv /\ [Next]_vars => ScanInv'
  BY NextIs
<1>3. ScanInv => ScanIsSequential
  BY InvIsSequential
<1> QED
  BY <1>1, <1>2, <1>3, PTL DEF Spec
===============================================================================
