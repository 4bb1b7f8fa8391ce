--------------------------- MODULE ElementwiseKernels ---------------------------
(***************************************************************************)
(* Kernels that carry out a statement for every element of an array        *)
(* (src/pyopencl/elementwise.py), and the functions of array.py that call  *)
(* them: how many work items and groups are launched, which elements each  *)
(* work item goes through, and what the statement stores.                  *)
(*                                                                         *)
(* A step is one launch, or all that one work item does.  Element j of     *)
(* source array v holds <<v, j>>.                                          *)
(***************************************************************************)
EXTENDS Integers, Sequences, FiniteSets

CONSTANTS
  ElementwiseCalls,  \* the calls, a set of records
  max_work_items,    \* of splay: 128,
  min_work_items,    \* 32,
  groups_per_unit,   \* 4 * 8
  max_chunk_size     \* of multi_put and multi_take_put: 10

(* op; size, of the array that the sizes are found for; range, a slice of  *)
(* it, or a range; sources, the lengths of the source arrays; dest and src,*)
(* the index arrays; the offset of each source.  The device: the largest   *)
(* group that both the device and the kernel admit, and its compute units. *)
Ops == {"map", "slice", "range", "reverse", "diff", "take", "put", "take_put"}
ASSUME ElementwiseAssumption ==
  /\ max_work_items \in Nat \ {0} /\ min_work_items \in Nat \ {0}
  /\ groups_per_unit \in Nat \ {0} /\ max_chunk_size \in Nat \ {0}
  /\ max_work_items % min_work_items = 0
  /\ \A c \in ElementwiseCalls :
       /\ c.op \in Ops /\ c.size \in Nat /\ c.max_wg \in Nat \ {0} /\ c.units \in Nat \ {0}
       /\ c.start \in Int /\ c.stop \in Int /\ c.step \in Int \ {0}
       /\ c.sources \in Seq(Nat \ {0}) /\ c.sources # << >> /\ c.offset \in Nat
       /\ c.op \in {"put", "take_put"} =>
            Len(c.dest) = c.size /\ Cardinality({c.dest[i] : i \in 1 .. c.size}) = c.size
       /\ c.op \in {"take", "take_put"} => c.src \in Seq(Nat) /\ Len(c.src) = c.size
       /\ c.op = "diff" => c.size > 0

VARIABLES
  ecall,     \* the call
  estate,    \* "host", "kernel", then "done" or "raised"
  start_i,   \* of the loop over chunks of arrays
  lengths,   \* array_lengths (use_fill is where they are one), kept from chunk to chunk
  gsize,     \* number of work items launched
  ran,       \* the work items that are done
  visits,    \* [index -> how often the statement was carried out for it]
  dest       \* set of <<array, index, value>>, what was stored

elementvars == <<ecall, estate, start_i, lengths, gsize, ran, visits, dest>>

Smaller(a, b) == IF a < b THEN a ELSE b
Up(a, b) == (a + b - 1) \div b

(* splay: how many work items and groups for m elements.                   *)
splay(m) ==
  LET items    == Smaller(max_work_items, ecall.max_wg)
      least    == Smaller(min_work_items, items)
      groups   == ecall.units * groups_per_unit
      sizes(count, each) == [groups |-> count, items |-> each]
  IN  IF m < least THEN sizes(1, least)
      ELSE IF m < groups * least THEN sizes(Up(m, least), least)
      ELSE IF m < groups * items THEN sizes(groups, Up(Up(m, least), groups) * least)
      ELSE sizes(groups, items)

(* slice.indices(size), of Python: negative bounds count from the end, and *)
(* all are clipped.                                                        *)
Indices ==
  LET lower == IF ecall.step < 0 THEN -1 ELSE 0
      upper == IF ecall.step < 0 THEN ecall.size - 1 ELSE ecall.size
      clip(b) == LET c == IF b < 0 THEN b + ecall.size ELSE b
                 IN  IF c < lower THEN lower ELSE Smaller(c, upper)
  IN  [start |-> clip(ecall.start), stop |-> clip(ecall.stop), step |-> ecall.step]

(* __call__: the range that the kernel goes through, or all of the array.  *)
Bounds ==
  CASE ecall.op = "range" -> [start |-> ecall.start, stop |-> ecall.stop, step |-> ecall.step]
    [] ecall.op = "slice" -> Indices
    [] ecall.op = "diff" -> [start |-> 0, stop |-> ecall.size - 1, step |-> 1]
    [] OTHER -> [start |-> 0, stop |-> ecall.size, step |-> 1]
Distance(b) == IF b.stop < b.start THEN b.start - b.stop ELSE b.stop - b.start
(* abs(stop-start)//step, rounded down, below zero for a negative step.    *)
LaunchedFor(b) ==
  IF b.step > 0 THEN Distance(b) \div b.step ELSE - Up(Distance(b), - b.step)

(* Mutant: every work item starts at the beginning of its group. *)
KernelLoopFromGroup(w, b) ==
  LET group_start == w - (w % splay(LaunchedFor(b)).items)
  IN  {i \in (b.start - Distance(b)) .. (b.start + Distance(b)) :
         \E k \in 0 .. Distance(b) : i = b.start + (group_start + k * gsize) * b.step
         /\ IF b.step < 0 THEN i > b.stop ELSE i < b.stop}

(* get_elwise_program: the loop of work item w; without a range, step is 1.*)
KernelLoop(w, b) ==
  {i \in (b.start - Distance(b)) .. (b.start + Distance(b)) :
     \E k \in 0 .. Distance(b) : i = b.start + (w + k * gsize) * b.step
     /\ IF b.step < 0 THEN i > b.stop ELSE i < b.stop}

-----------------------------------------------------------------------------
(* multi_put and multi_take_put go through the arrays in chunks.           *)
chunk_size == Smaller(Len(ecall.sources), max_chunk_size)
Chunk == start_i .. Smaller(start_i + chunk_size, Len(ecall.sources)) - 1

(* What the statement stores for index i: reverse, diff, take, put and     *)
(* take_put; any other statement stores what it makes of element i.        *)
Put_(v, i) == LET len == lengths[v - start_i] IN <<v, IF len = 1 THEN 0 ELSE i % len>>
Statement(i) ==
  CASE ecall.op \in {"map", "slice", "range"} -> {<<0, i, <<0, i>>>>}
    [] ecall.op = "reverse" -> {<<0, i, <<0, ecall.size - 1 - i>>>>}
    [] ecall.op = "diff" -> {<<0, i, <<<<0, i + 1>>, <<0, i>>>>>>}
    [] ecall.op = "take" -> {<<v, i, <<v, ecall.src[i + 1]>>>> : v \in Chunk}
    [] ecall.op = "put" -> {<<v, ecall.dest[i + 1], Put_(v, i)>> : v \in Chunk}
    [] ecall.op = "take_put" ->
         {<<v, ecall.dest[i + 1], <<v, ecall.src[i + 1] + ecall.offset>>>> : v \in Chunk}

ElementInit ==
  /\ ecall \in ElementwiseCalls
  /\ estate = "host" /\ start_i = 0 /\ gsize = 0 /\ ran = {} /\ dest = {}
  /\ lengths = [j \in 0 .. chunk_size - 1 |-> 0]
  /\ visits = << >>

(* use_fill and array_lengths: only the chunk's entries are written.       *)
ChunkLengths ==
  [j \in DOMAIN lengths |-> IF start_i + j \in Chunk THEN ecall.sources[start_i + j + 1] ELSE lengths[j]]

(* The device refuses a group that is larger than what it admits.          *)
LaunchKernel ==
  LET sizes == splay(LaunchedFor(Bounds)) IN
  /\ estate = "host"
  /\ estate' = IF sizes.items <= ecall.max_wg THEN "kernel" ELSE "raised"
  /\ gsize' = sizes.groups * sizes.items
  /\ lengths' = ChunkLengths
  /\ ran' = {} /\ visits' = << >>
  /\ UNCHANGED <<ecall, start_i, dest>>

(* Work items share nothing: they run in order.                            *)
RunWorkItem(w) ==
  LET mine == KernelLoop(w, Bounds) IN
  /\ estate = "kernel" /\ ran = 0 .. w - 1
  /\ ran' = ran \cup {w}
  /\ visits' = [i \in DOMAIN visits \cup mine |->
                  (IF i \in DOMAIN visits THEN visits[i] ELSE 0) + IF i \in mine THEN 1 ELSE 0]
  /\ dest' = dest \cup UNION {Statement(i) : i \in mine}
  /\ UNCHANGED <<ecall, estate, start_i, lengths, gsize>>

(* The loop over the chunks.  Each kernel is enqueued before the one       *)
(* before it is complete, but they write other arrays.                     *)
KernelEnds ==
  /\ estate = "kernel" /\ ran = 0 .. gsize - 1
  /\ start_i' = start_i + chunk_size
  /\ estate' = IF start_i' < Len(ecall.sources) THEN "host" ELSE "done"
  /\ UNCHANGED <<ecall, lengths, gsize, ran, visits, dest>>

ElementNext ==
  \/ LaunchKernel \/ KernelEnds
  \/ \E w \in 0 .. gsize - 1 : RunWorkItem(w)

ElementSpec == ElementInit /\ [][ElementNext]_elementvars

-----------------------------------------------------------------------------
(* numpy's a[start:stop:step], and range(start, stop, step).               *)
Selected_(b) ==
  {i \in (b.start - Distance(b)) .. (b.start + Distance(b)) :
     IF b.step > 0 THEN i >= b.start /\ i < b.stop /\ (i - b.start) % b.step = 0
                   ELSE i <= b.start /\ i > b.stop /\ (b.start - i) % (- b.step) = 0}

(* What the functions are to store.                                        *)
Expected ==
  LET all_v == 0 .. Len(ecall.sources) - 1
      place == 1 .. ecall.size
      from(v, p) == <<v, IF ecall.sources[v + 1] = 1 THEN 0 ELSE (p - 1) % ecall.sources[v + 1]>>
  IN CASE ecall.op \in {"map", "slice", "range"} -> {<<0, i, <<0, i>>>> : i \in Selected_(Bounds)}
       [] ecall.op = "reverse" -> {<<0, p - 1, <<0, ecall.size - p>>>> : p \in place}
       [] ecall.op = "diff" -> {<<0, p - 2, <<<<0, p - 1>>, <<0, p - 2>>>>>> : p \in place \ {1}}
       [] ecall.op = "take" -> {<<v, p - 1, <<v, ecall.src[p]>>>> : p \in place, v \in all_v}
       [] ecall.op = "put" -> {<<v, ecall.dest[p], from(v, p)>> : p \in place, v \in all_v}
       [] ecall.op = "take_put" ->
            {<<v, ecall.dest[p], <<v, ecall.src[p] + ecall.offset>>>> : p \in place, v \in all_v}

(* Every element of the array, slice or range is computed once and no      *)
(* other is, whatever the number of work items, and the functions store    *)
(* what they promise, through all chunks of arrays.  A launch is refused   *)
(* only where the largest group is not a multiple of min_work_items, for   *)
(* splay rounds the size of a group up to such a multiple.                 *)
ElementsComputed ==
  /\ estate = "raised" =>
       ecall.max_wg < max_work_items /\ ecall.max_wg > min_work_items /\ ecall.max_wg % min_work_items # 0
  /\ estate = "done" =>
       dest = Expected /\ \A i \in DOMAIN visits : visits[i] = 1
=============================================================================
