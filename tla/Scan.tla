-------------------------------- MODULE Scan --------------------------------
(***************************************************************************)
(* GenericScanKernel (src/pyopencl/scan.py): a prefix sum over an array,   *)
(* carried out by three kernels.  The first scans intervals of the array,  *)
(* one per work group; the second scans the interval sums in one group;    *)
(* the third adds the sum of what comes before to every interval and runs  *)
(* the output statement.                                                   *)
(*                                                                         *)
(* A step is what one work item does between two barriers.  The scan       *)
(* operation is concatenation, the freest associative operation: a value   *)
(* is the sequence of the indices that were added up, so one run stands    *)
(* for every input array and every operation.                              *)
(***************************************************************************)
EXTENDS Integers, Sequences, FiniteSets

CONSTANTS
  Inputs,           \* the scans to carry out, a set of InputType
  NO_SEG_BOUNDARY   \* the largest index that the index type represents

(* n elements; stencil, input_fetch_exprs asks for ary[i-1]; debug, the    *)
(* single-threaded GenericDebugScanKernel is used; wg and update_wg, the   *)
(* sizes of the work groups; k, the k_group_size; max_intervals, 3 per     *)
(* compute unit; the starts, where is_segment_start_expr holds (of a       *)
(* segmented scan); lookbehind, the output statement uses prev_item; junk, *)
(* what the uninitialized flags in local memory happen to be.              *)
InputType ==
  [n : Nat, stencil : BOOLEAN, debug : BOOLEAN, wg : {2 ^ e : e \in 0 .. 8}, update_wg : Nat \ {0}, k : Nat \ {0},
   max_intervals : Nat \ {0}, segmented : BOOLEAN, starts : SUBSET Nat,
   lookbehind : BOOLEAN, junk : BOOLEAN]

ASSUME ScanAssumption ==
  /\ Inputs \subseteq InputType
  /\ NO_SEG_BOUNDARY \in Nat /\ \A i \in Inputs : i.n <= NO_SEG_BOUNDARY

VARIABLES
  inp,        \* the scan that is carried out
  phase,      \* the kernel that runs: lev1, lev2, update; then done or raised
  at,         \* [group -> the code between two barriers that it executes]
  arrived,    \* [group -> the work items that wait at the barrier]
  base,       \* [group -> unit_base, or group_base in the update]
  offset,     \* [group -> scan_offset]
  lfetch,     \* [group -> local copy of the array that is fetched from]
  ldata,      \* [group -> local memory of values]
  lflags,     \* [group -> l_segment_start_flags]
  lfirst,     \* [group -> l_first_segment_start_in_subtree]
  priv,       \* [group -> [item -> its private variables]]
  partial,    \* partial_scan_buffer
  results,    \* interval_results
  first_seg,  \* g_first_segment_start_in_interval
  gflags,     \* g_segment_start_flags
  output      \* [index -> what the output statement was given]

control == <<inp, phase, at, base, offset>>
global  == <<partial, results, first_seg, gflags, output>>
vars    == <<control, arrived, lfetch, ldata, lflags, lfirst, priv, global>>

WG == inp.wg
UpdateWG == inp.update_wg

Override(f, g) == [x \in DOMAIN f |-> IF x \in DOMAIN g THEN g[x] ELSE f[x]]
CeilDiv(a, b) == (a + b - 1) \div b
Least(a, b) == IF a < b THEN a ELSE b

(* pytools.uniform_interval_splitting: whole units, at most max_intervals. *)
interval_size ==
  LET unit  == WG * inp.k
      units == CeilDiv(inp.n, unit)
  IN  IF units <= inp.max_intervals THEN unit ELSE CeilDiv(units, inp.max_intervals) * unit
num_intervals == CeilDiv(inp.n, interval_size)

-----------------------------------------------------------------------------
(* What the kernel of a phase works on.                                    *)
Lids(kernel)   == 0 .. (IF kernel = "update" THEN UpdateWG ELSE WG) - 1
Groups(kernel) == 0 .. (IF kernel = "lev2" THEN 1 ELSE num_intervals) - 1
N == IF phase = "lev2" THEN num_intervals ELSE inp.n
interval_begin(g) == interval_size * g
interval_end(g) == Least(interval_begin(g) + interval_size, N)
unit_size == WG * inp.k
Ks == 0 .. inp.k - 1

Garbage == << -1 >>
neutral == << >>

(* SCAN_EXPR: the operation has to implement segmentation itself.          *)
SCAN_EXPR(a, b, across_seg_boundary) == IF across_seg_boundary THEN b ELSE a \o b

(* The input expression; one that looks at ary[i-1] is wrong where it was  *)
(* given anything else (at i = 0 it must not look).                        *)
INPUT_EXPR(i, fetched) ==
  IF phase = "lev2" THEN results[i]
  ELSE IF inp.stencil /\ i > 0 /\ fetched # i - 1 THEN Garbage ELSE <<i>>
IS_SEG_START(i) ==
  inp.segmented /\ (IF phase = "lev2" THEN first_seg[i] # NO_SEG_BOUNDARY ELSE i \in inp.starts)

(* Only a tail unit has indices past the end; their work is skipped.       *)
InRange(g, i) == base[g] + i < interval_end(g)

(* A work item at the start of a kernel.                                   *)
FreshItem == [sum |-> Garbage, val |-> Garbage, k_group |-> NO_SEG_BOUNDARY,
              subtree |-> NO_SEG_BOUNDARY, interval |-> NO_SEG_BOUNDARY]

(* The code before the first barrier of a unit.                            *)
First(kernel) == IF kernel = "lev1" /\ inp.stencil THEN "fetch" ELSE "load"

(* The kernel of the next phase: local memory has any content.             *)
Enqueue(kernel) ==
  /\ phase' = kernel
  /\ at' = [g \in Groups(kernel) |-> First(kernel)]
  /\ arrived' = [g \in Groups(kernel) |-> {}]
  /\ base' = [g \in Groups(kernel) |-> interval_begin(g)]
  /\ offset' = [g \in Groups(kernel) |-> 1]
  /\ lfetch' = [g \in Groups(kernel) |-> [o \in 0 .. WG * inp.k - 1 |-> NO_SEG_BOUNDARY]]
  /\ ldata' = [g \in Groups(kernel) |-> [c \in (0 .. inp.k) \X Lids(kernel) |-> Garbage]]
  /\ lflags' = [g \in Groups(kernel) |-> [c \in Ks \X Lids(kernel) |-> inp.junk]]
  /\ lfirst' = [g \in Groups(kernel) |-> [l \in Lids(kernel) |-> NO_SEG_BOUNDARY]]
  /\ priv' = [g \in Groups(kernel) |-> [l \in Lids(kernel) |->
                IF kernel # "update" THEN FreshItem
                ELSE [prev_item |-> IF g = 0 THEN neutral ELSE results[g - 1]]]]
  /\ UNCHANGED <<inp, global>>

(* __call__: the buffers, and the first level with a group per interval.   *)
Init ==
  /\ inp \in Inputs
  /\ phase = IF inp.debug THEN "debug" ELSE "lev1"
  /\ at = [g \in Groups("lev1") |-> First("lev1")]
  /\ arrived = [g \in Groups("lev1") |-> {}]
  /\ base = [g \in Groups("lev1") |-> interval_begin(g)]
  /\ offset = [g \in Groups("lev1") |-> 1]
  /\ lfetch = [g \in Groups("lev1") |-> [o \in 0 .. WG * inp.k - 1 |-> NO_SEG_BOUNDARY]]
  /\ ldata = [g \in Groups("lev1") |-> [c \in (0 .. inp.k) \X Lids("lev1") |-> Garbage]]
  /\ lflags = [g \in Groups("lev1") |-> [c \in Ks \X Lids("lev1") |-> inp.junk]]
  /\ lfirst = [g \in Groups("lev1") |-> [l \in Lids("lev1") |-> NO_SEG_BOUNDARY]]
  /\ priv = [g \in Groups("lev1") |-> [l \in Lids("lev1") |-> FreshItem]]
  /\ partial = [i \in 0 .. inp.n - 1 |-> Garbage]
  /\ results = [g \in 0 .. num_intervals - 1 |-> Garbage]
  /\ first_seg = [g \in 0 .. num_intervals - 1 |-> NO_SEG_BOUNDARY]
  /\ gflags = [i \in 0 .. inp.n - 1 |-> inp.junk]
  /\ output = [i \in 0 .. inp.n - 1 |-> [item |-> Garbage, prev |-> Garbage, last |-> Garbage]]

(* Work item l of group g executes a segment and arrives at its barrier.   *)
Executes(g, l, segment) ==
  /\ at[g] = segment /\ l \notin arrived[g]
  /\ arrived' = [arrived EXCEPT ![g] = @ \cup {l}]
  /\ UNCHANGED control

-----------------------------------------------------------------------------
(* The scan kernel, first and second level.                                *)

(* Mutant: the carry-in crosses a segment boundary. *)
CarryInAcrossBoundary(g, l, values) ==
  IF l = 0 /\ base[g] # interval_begin(g)
    THEN [values EXCEPT ![<<0, 0>>] = SCAN_EXPR(values[<<inp.k, WG - 1>>], @, FALSE)]
    ELSE values

(* Carry in from the previous unit: work item 0 adds the last sum.         *)
CarryIn(g, l, values) ==
  IF l = 0 /\ base[g] # interval_begin(g)
    THEN [values EXCEPT ![<<0, 0>>] =
            SCAN_EXPR(values[<<inp.k, WG - 1>>], @, inp.segmented /\ lflags[g][<<0, 0>>])]
    ELSE values

(* Offsets in the unit of group g that item l goes through, with local ids *)
(* along the index.                                                        *)
Mine(g, l) == {k * WG + l : k \in {j \in Ks : InRange(g, j * WG + l)}}

(* Carry out input_fetch_exprs: copy the unit into local memory.           *)
Fetch(g, l) ==
  /\ Executes(g, l, "fetch")
  /\ lfetch' = [lfetch EXCEPT ![g] = Override(@, [o \in Mine(g, l) |-> base[g] + o])]
  /\ UNCHANGED <<ldata, lflags, lfirst, priv, global>>

(* ary[i-1]: from local memory, or from global memory before the unit.     *)
Fetched(g, o) == IF o > 0 THEN lfetch[g][o - 1] ELSE base[g] - 1

(* Read a unit's worth of data.  It is read with local ids along the       *)
(* index and stored with k along it.  Without segments there is no barrier *)
(* before the carry-in.                                                    *)
Load(g, l) ==
  LET mine == Mine(g, l)
      cell(o) == <<o % inp.k, o \div inp.k>>
      cells == {cell(o) : o \in mine}
      offset_of(c) == c[2] * inp.k + c[1]
      index(c) == base[g] + offset_of(c)
      loaded == Override(ldata[g],
                  [c \in cells |-> INPUT_EXPR(index(c), Fetched(g, offset_of(c)))])
  IN  /\ phase \in {"lev1", "lev2"} /\ Executes(g, l, "load")
      /\ ldata' = [ldata EXCEPT ![g] = IF inp.segmented THEN loaded ELSE CarryIn(g, l, loaded)]
      /\ IF inp.segmented
           THEN lflags' = [lflags EXCEPT ![g] =
                             Override(@, [c \in cells |-> IS_SEG_START(index(c))])]
           ELSE UNCHANGED lflags
      /\ IF phase = "lev1" /\ inp.segmented /\ inp.lookbehind
           THEN gflags' = Override(gflags, [i \in {base[g] + o : o \in mine} |-> IS_SEG_START(i)])
           ELSE UNCHANGED gflags
      /\ UNCHANGED <<lfetch, lfirst, priv, partial, results, first_seg, output>>

CarryInSegmented(g, l) ==
  /\ Executes(g, l, "carry")
  /\ priv' = [priv EXCEPT ![g][l].k_group =
                IF lflags[g][<<0, l>>] THEN base[g] + inp.k * l ELSE NO_SEG_BOUNDARY]
  /\ ldata' = [ldata EXCEPT ![g] = CarryIn(g, l, @)]
  /\ UNCHANGED <<lfetch, lflags, lfirst, global>>

(* Scan along k, sequentially in each work item; the sum goes into the     *)
(* padding row k = K.                                                      *)
ScanAlongK(g, l) ==
  LET valid == {k \in Ks : k > 0 /\ InRange(g, inp.k * l + k)}
      sum[k \in Ks] ==
        IF k = 0 THEN ldata[g][<<0, l>>]
        ELSE IF k \in valid
               THEN SCAN_EXPR(sum[k - 1], ldata[g][<<k, l>>], inp.segmented /\ lflags[g][<<k, l>>])
               ELSE sum[k - 1]
      total == sum[inp.k - 1]
      found == {base[g] + inp.k * l + k : k \in {j \in valid : inp.segmented /\ lflags[g][<<j, l>>]}}
               \cup {priv[g][l].k_group}
      first == CHOOSE i \in found : \A j \in found : i <= j
  IN  /\ Executes(g, l, "along_k")
      /\ ldata' = [ldata EXCEPT ![g] =
                     Override(@, [c \in (valid \X {l}) \cup {<<inp.k, l>>} |->
                                    IF c[1] = inp.k THEN total ELSE sum[c[1]]])]
      /\ lfirst' = [lfirst EXCEPT ![g][l] = first]
      /\ priv' = [priv EXCEPT ![g][l].k_group = first, ![g][l].sum = total, ![g][l].val = total]
      /\ UNCHANGED <<lfetch, lflags, global>>

(* Tree-based scan across the k groups.  Reads from local memory allowed,  *)
(* writes not allowed ...                                                  *)
TreeRead(g, l) ==
  LET left == l - offset[g] IN
  /\ Executes(g, l, "tree_read")
  /\ priv' = [priv EXCEPT
       ![g][l].val =
          IF left >= 0 /\ InRange(g, inp.k * l)
            THEN SCAN_EXPR(ldata[g][<<inp.k, left>>], @, lfirst[g][l] # NO_SEG_BOUNDARY)
            ELSE @,
       ![g][l].subtree =
          IF left >= 0 THEN Least(lfirst[g][l], lfirst[g][left]) ELSE lfirst[g][l]]
  /\ UNCHANGED <<lfetch, ldata, lflags, lfirst, global>>

(* ... writes allowed, reads not allowed.                                  *)
TreeWrite(g, l) ==
  /\ Executes(g, l, "tree_write")
  /\ ldata' = [ldata EXCEPT ![g][<<inp.k, l>>] = priv[g][l].val]
  /\ lfirst' = [lfirst EXCEPT ![g][l] = priv[g][l].subtree]
  /\ UNCHANGED <<lfetch, lflags, priv, global>>

(* Every work item but the first adds the sum to its left, up to the first *)
(* segment boundary of its k group.                                        *)
UpdateLocal(g, l) ==
  LET sum == ldata[g][<<inp.k, l - 1>>]
      valid == {k \in Ks : InRange(g, inp.k * l + k)}
      across(k) == base[g] + inp.k * l + k >= priv[g][l].k_group
  IN  /\ Executes(g, l, "update_local")
      /\ ldata' = IF l = 0 THEN ldata
                  ELSE [ldata EXCEPT ![g] = Override(@, [c \in valid \X {l} |->
                          SCAN_EXPR(sum, ldata[g][c], inp.segmented /\ across(c[1]))])]
      /\ priv' = IF l = 0 THEN [priv EXCEPT ![g][0].interval = Least(@, lfirst[g][WG - 1])]
                 ELSE priv
      /\ UNCHANGED <<lfetch, lflags, lfirst, global>>

(* Write the unit, again with local ids along the index.                   *)
WriteData(g, l) ==
  LET written == [i \in {base[g] + o : o \in Mine(g, l)} |->
                    LET o == i - base[g] IN ldata[g][<<o % inp.k, o \div inp.k>>]]
  IN  /\ Executes(g, l, "write")
      /\ IF phase = "lev1" THEN partial' = Override(partial, written) /\ UNCHANGED results
                           ELSE results' = Override(results, written) /\ UNCHANGED partial
      /\ UNCHANGED <<lfetch, ldata, lflags, lfirst, priv, first_seg, gflags, output>>

(* Work item 0 writes the interval sum.                                    *)
WriteIntervalSum(g, l) ==
  /\ Executes(g, l, "interval_sum")
  /\ IF phase = "lev1" /\ l = 0
       THEN /\ results' = [results EXCEPT ![g] = partial[interval_end(g) - 1]]
            /\ first_seg' = [first_seg EXCEPT ![g] =
                               IF inp.segmented THEN priv[g][0].interval ELSE @]
       ELSE UNCHANGED <<results, first_seg>>
  /\ UNCHANGED <<lfetch, ldata, lflags, lfirst, priv, partial, gflags, output>>

(* The barrier: when all work items have arrived, the group goes on.       *)
After(g) ==
  CASE at[g] = "fetch" -> "load"
    [] at[g] = "load" -> IF inp.segmented THEN "carry" ELSE "along_k"
    [] at[g] = "carry" -> "along_k"
    [] at[g] = "along_k" -> "tree_read"
    [] at[g] = "tree_read" -> "tree_write"
    [] at[g] = "tree_write" -> IF 2 * offset[g] <= WG THEN "tree_read" ELSE "update_local"
    [] at[g] = "update_local" -> "write"
    [] at[g] = "write" -> IF base[g] + unit_size < interval_end(g) THEN First(phase) ELSE "interval_sum"
    [] at[g] = "interval_sum" -> "end"

Barrier(g) ==
  /\ phase \in {"lev1", "lev2"} /\ at[g] # "end" /\ arrived[g] = Lids(phase)
  /\ at' = [at EXCEPT ![g] = After(g)]
  /\ arrived' = [arrived EXCEPT ![g] = {}]
  /\ offset' = [offset EXCEPT ![g] = IF at[g] = "tree_write" THEN 2 * @
                                     ELSE IF at[g] = "load" THEN 1 ELSE @]
  /\ base' = [base EXCEPT ![g] = IF at[g] = "write" THEN @ + unit_size ELSE @]
  /\ UNCHANGED <<inp, phase, lfetch, ldata, lflags, lfirst, priv, global>>

-----------------------------------------------------------------------------
(* The final update.                                                       *)
Carry(g) == IF g = 0 THEN neutral ELSE results[g - 1]
Item(g, i) == SCAN_EXPR(Carry(g), partial[i], inp.segmented /\ i >= first_seg[g])
last_item == IF inp.segmented THEN neutral ELSE results[num_intervals - 1]

(* Without look-behind: no barriers, a loop over the interval.             *)
UpdatePlain(g, l) ==
  LET mine == {i \in interval_begin(g) .. interval_end(g) - 1 : (i - interval_begin(g)) % UpdateWG = l}
  IN  /\ phase = "update" /\ ~inp.lookbehind /\ Executes(g, l, "load")
      /\ output' = Override(output, [i \in mine |-> [item |-> Item(g, i), prev |-> Garbage, last |-> last_item]])
      /\ UNCHANGED <<lfetch, ldata, lflags, lfirst, priv, partial, results, first_seg, gflags>>

(* With look-behind: load a group's worth of items ...                     *)
UpdateLoad(g, l) ==
  LET i == base[g] + l IN
  /\ phase = "update" /\ inp.lookbehind /\ Executes(g, l, "load")
  /\ IF InRange(g, l)
       THEN /\ ldata' = [ldata EXCEPT ![g][<<0, l>>] = Item(g, i)]
            /\ lflags' = [lflags EXCEPT ![g][<<0, l>>] = inp.segmented /\ gflags[i]]
       ELSE UNCHANGED <<ldata, lflags>>
  /\ UNCHANGED <<lfetch, lfirst, priv, global>>

(* ... and look at the neighbour's.  Work item 0 keeps the last one for    *)
(* the next round.                                                         *)
UpdateOutput(g, l) ==
  LET i    == base[g] + l
      left == IF l # 0 THEN ldata[g][<<0, l - 1>>] ELSE priv[g][0].prev_item
      prev == IF InRange(g, l) /\ inp.segmented /\ lflags[g][<<0, l>>] THEN neutral ELSE left
  IN  /\ Executes(g, l, "output")
      /\ priv' = [priv EXCEPT ![g][l].prev_item =
                    IF l = 0 THEN ldata[g][<<0, UpdateWG - 1>>] ELSE prev]
      /\ output' = IF InRange(g, l)
                     THEN [output EXCEPT ![i] = [item |-> ldata[g][<<0, l>>], prev |-> prev,
                                                 last |-> last_item]]
                     ELSE output
      /\ UNCHANGED <<lfetch, ldata, lflags, lfirst, partial, results, first_seg, gflags>>

UpdateBarrier(g) ==
  /\ phase = "update" /\ at[g] # "end" /\ arrived[g] = Lids(phase)
  /\ at' = [at EXCEPT ![g] =
              IF @ = "load" /\ inp.lookbehind THEN "output"
              ELSE IF @ = "output" /\ base[g] + UpdateWG < interval_end(g) THEN "load"
              ELSE "end"]
  /\ base' = [base EXCEPT ![g] = IF at[g] = "output" THEN @ + UpdateWG ELSE @]
  /\ arrived' = [arrived EXCEPT ![g] = {}]
  /\ UNCHANGED <<inp, phase, offset, lfetch, ldata, lflags, lfirst, priv, global>>

-----------------------------------------------------------------------------
(* __call__: each kernel waits for the event of the one before.            *)
KernelDone == \A g \in DOMAIN at : at[g] = "end"

(* Mutant: one interval sum fewer is scanned than the assertion admits. *)
EnqueueSecondLevelOfFewer ==
  /\ phase = "lev1" /\ inp.n > 0 /\ KernelDone
  /\ interval_size > num_intervals
  /\ Enqueue("lev2")

(* "can scan at most one interval": assert interval_size >= num_intervals. *)
EnqueueSecondLevel ==
  /\ phase = "lev1" /\ inp.n > 0 /\ KernelDone
  /\ interval_size >= num_intervals
  /\ Enqueue("lev2")

AssertionFails ==
  /\ phase = "lev1" /\ inp.n > 0 /\ interval_size < num_intervals
  /\ phase' = "raised"
  /\ UNCHANGED <<inp, at, base, offset, arrived, lfetch, ldata, lflags, lfirst, priv, global>>

EnqueueFinalUpdate == phase = "lev2" /\ KernelDone /\ Enqueue("update")

Completes ==
  /\ phase = "update" /\ KernelDone
  /\ phase' = "done"
  /\ UNCHANGED <<inp, at, base, offset, arrived, lfetch, ldata, lflags, lfirst, priv, global>>

(* "We're done here. (But pretend to return an event.)"                    *)
NothingToScan ==
  /\ phase = "lev1" /\ inp.n = 0
  /\ phase' = "done"
  /\ UNCHANGED <<inp, at, base, offset, arrived, lfetch, ldata, lflags, lfirst, priv, global>>

(* GenericDebugScanKernel: one work item, one loop for the scan, one for   *)
(* the output statement.  Its prev_item ignores the segments.              *)
DebugScan ==
  LET scan_tmp[i \in 0 .. inp.n - 1] ==
        SCAN_EXPR(IF i = 0 THEN neutral ELSE scan_tmp[i - 1], INPUT_EXPR(i, i - 1),
                  inp.segmented /\ i \in inp.starts)
  IN  /\ phase = "debug"
      /\ output' = [i \in 0 .. inp.n - 1 |->
                      [item |-> scan_tmp[i], last |-> scan_tmp[inp.n - 1],
                       prev |-> IF i = 0 THEN neutral ELSE scan_tmp[i - 1]]]
      /\ phase' = "done"
      /\ UNCHANGED <<inp, at, base, offset, arrived, lfetch, ldata, lflags, lfirst, priv,
                     partial, results, first_seg, gflags>>

WorkItem(g, l) ==
  \/ Fetch(g, l) \/ Load(g, l) \/ CarryInSegmented(g, l) \/ ScanAlongK(g, l)
  \/ TreeRead(g, l) \/ TreeWrite(g, l) \/ UpdateLocal(g, l)
  \/ WriteData(g, l) \/ WriteIntervalSum(g, l)
  \/ UpdatePlain(g, l) \/ UpdateLoad(g, l) \/ UpdateOutput(g, l)

Next ==
  \/ \E g \in (IF inp.debug THEN {} ELSE DOMAIN at) :
       \/ \E l \in Lids(phase) : WorkItem(g, l)
       \/ Barrier(g) \/ UpdateBarrier(g)
  \/ EnqueueSecondLevel \/ AssertionFails \/ EnqueueFinalUpdate \/ Completes
  \/ NothingToScan \/ DebugScan

(* The device executes every work item and every command.                  *)
Spec == Init /\ [][Next]_vars /\ WF_vars(Next)

-----------------------------------------------------------------------------
(* The sequential scan: the sum of what precedes in the segment of i.      *)
SegmentStart(i) ==
  LET before == {j \in inp.starts : j <= i} IN
  IF inp.segmented /\ before # {} THEN CHOOSE j \in before : \A m \in before : m <= j ELSE 0
SequentialScan(from, i) == [m \in 1 .. i - from + 1 |-> from + m - 1]

(* The output statement is given, for each index, the sum of its segment   *)
(* up to it, and as prev_item the sum before it, neutral at a segment      *)
(* boundary: whatever the interleaving, and whatever local memory held.    *)
(* (The debug kernel's prev_item does not look at the boundaries.)         *)
ScanIsSequential ==
  phase = "done" =>
    \A i \in 0 .. inp.n - 1 :
      /\ output[i].item = SequentialScan(SegmentStart(i), i)
      /\ inp.lookbehind /\ ~(inp.debug /\ inp.segmented) =>
           output[i].prev = IF i = 0 \/ SegmentStart(i) = i THEN neutral
                            ELSE SequentialScan(SegmentStart(i), i - 1)
      /\ ~inp.segmented => output[i].last = SequentialScan(0, inp.n - 1)

(* A scan ends, unless there are more interval sums than one group scans.  *)
ScanEnded ==
  phase = IF inp.debug \/ inp.n = 0 \/ interval_size >= num_intervals THEN "done" ELSE "raised"
=============================================================================
