------------------------------ MODULE BitonicSort ------------------------------
(***************************************************************************)
(* BitonicSort (src/pyopencl/bitonic_sort.py): the host prepares a queue   *)
(* of kernels from the templates of bitonic_sort_templates.py, then runs   *)
(* them one after the other.  The first one sorts a block per work group   *)
(* in local memory, the others merge, 2, 4, 8 or 16 elements per item.     *)
(*                                                                         *)
(* An element is a pair <<key, index>>: the array and the array of indices *)
(* that is tracked along with it.                                          *)
(***************************************************************************)
EXTENDS Integers, Sequences, FiniteSets, PowersOfTwo

CONSTANT Sorts   \* the sorts to carry out

(* keys, by position; dsize, the length of the axis; nsize, the size of    *)
(* the axes after it; the device's max_work_group_size and the largest     *)
(* work group whose elements fit into its local memory.                    *)
ASSUME SortAssumption ==
  \A s \in Sorts :
    /\ IsFiniteSet(DOMAIN s.keys)
    /\ s.keys \in [0 .. Cardinality(DOMAIN s.keys) - 1 -> Int]
    /\ s.dsize \in Nat /\ s.nsize \in Nat \ {0} /\ s.lmem_wg \in Nat
    /\ s.dsize = 0 \/ Cardinality(DOMAIN s.keys) % (s.dsize * s.nsize) = 0
    /\ s.max_wg \in Nat /\ IsPowerOf2(s.max_wg)

VARIABLES
  srt,        \* the sort that is carried out
  bphase,     \* "start", "size", "prepare", "blocks", "merges", "done" or "raised"
  wg,         \* size of the work groups of the local kernel
  length, inc,\* of the loops that prepare the queue
  run_queue,  \* the merges: how many elements an item takes, inc and dir
  elements,   \* [position -> element], the array
  group,      \* the work group that sorts its block
  loop,       \* pwg, length and pinc of the local kernel
  bat,        \* what its items execute: "load", "compare" or "store"
  barrived,   \* the items that wait at the barrier
  aux, iData  \* local memory, and the items' private element

hostvars == <<srt, bphase, wg, length, inc, run_queue>>
sortvars == <<hostvars, elements, group, loop, bat, barrived, aux, iData>>

Size  == Cardinality(DOMAIN srt.keys)
dsize == srt.dsize
nsize == srt.nsize
Lower(a, b) == IF a < b THEN a ELSE b

(* Where line gt along the axis has its element i.                         *)
Position(gt, i) == (gt \div nsize) * nsize * dsize + (gt % nsize) + i * nsize

FirstLoop == [pwg |-> 2, length |-> 1, pinc |-> 1]

SortInit ==
  /\ srt \in Sorts
  /\ bphase = "start" /\ wg = Lower(dsize, srt.max_wg)
  /\ length = 0 /\ inc = 0 /\ run_queue = << >>
  /\ elements = [p \in DOMAIN srt.keys |-> <<srt.keys[p], p>>]
  /\ group = 0 /\ loop = FirstLoop /\ bat = "load" /\ barrived = {}
  /\ aux = << >> /\ iData = << >>

-----------------------------------------------------------------------------
(* The host: sort_b_prepare_wl.                                            *)
CheckLength ==
  /\ bphase = "start"
  /\ bphase' = IF dsize = 0 THEN "done" ELSE IF ~IsPowerOf2(dsize) THEN "raised" ELSE "size"
  /\ UNCHANGED <<srt, wg, length, inc, run_queue>>

FindWorkgroupSize ==
  /\ bphase = "size"
  /\ IF wg > srt.lmem_wg
       THEN /\ wg' = wg \div 2
            /\ bphase' = IF wg' = 0 THEN "raised" ELSE "size"
            /\ UNCHANGED <<length, inc>>
       ELSE /\ bphase' = "prepare" /\ length' = wg \div 2 /\ inc' = wg \div 2
            /\ UNCHANGED wg
  /\ UNCHANGED <<srt, run_queue>>

(* The letter: how many bits of the index an item goes through.            *)
ninc == CASE inc >= 8 -> 4 [] inc >= 4 /\ inc < 8 -> 3 [] inc >= 2 /\ inc < 4 -> 2 [] inc = 1 -> 1

AppendMerge ==
  /\ bphase = "prepare" /\ length < dsize /\ inc > 0
  /\ run_queue' = Append(run_queue, [bits |-> ninc, inc |-> inc, dir |-> 2 * length])
  /\ inc' = inc \div (2 ^ ninc)
  /\ UNCHANGED <<srt, bphase, wg, length>>

NextLength ==
  /\ bphase = "prepare" /\ length < dsize /\ inc = 0
  /\ length' = 2 * length /\ inc' = 2 * length
  /\ UNCHANGED <<srt, bphase, wg, run_queue>>

QueuePrepared ==
  /\ bphase = "prepare" /\ length >= dsize
  /\ bphase' = "blocks"
  /\ UNCHANGED <<srt, wg, length, inc, run_queue>>

Host ==
  /\ CheckLength \/ FindWorkgroupSize \/ AppendMerge \/ NextLength \/ QueuePrepared
  /\ UNCHANGED <<elements, group, loop, bat, barrived, aux, iData>>

-----------------------------------------------------------------------------
(* ParallelBitonic_Local_Optim.  Groups share nothing: they run in order.  *)
ItemPosition(i) ==
  LET global_id == group * wg + i IN Position(global_id \div dsize, global_id % dsize)

SortExecutes(i, segment) ==
  /\ bphase = "blocks" /\ bat = segment /\ i \notin barrived
  /\ barrived' = barrived \cup {i}
  /\ UNCHANGED <<hostvars, group, loop, bat>>

LoadElement(i) ==
  /\ SortExecutes(i, "load")
  /\ iData' = [j \in DOMAIN iData \cup {i} |-> IF j = i THEN elements[ItemPosition(i)] ELSE iData[j]]
  /\ aux' = [j \in DOMAIN aux \cup {i} |-> IF j = i THEN elements[ItemPosition(i)] ELSE aux[j]]
  /\ UNCHANGED elements

(* ii ^ pinc, and whether the item takes its sibling's element.            *)
CompareElement(i) ==
  LET loffset == loop.pwg * (i \div loop.pwg)
      ii  == i % loop.pwg
      bit(b, x) == (x \div b) % 2
      j   == IF bit(loop.pinc, ii) = 0 THEN ii + loop.pinc ELSE ii - loop.pinc
      other     == aux[loffset + j]
      direction == 2 * loop.length < loop.pwg /\ bit(2 * loop.length, ii) = 1
      smaller   == other[1] < iData[i][1] \/ (other[1] = iData[i][1] /\ j < ii)
      swap      == (smaller # (ii > j)) # direction
  IN  /\ SortExecutes(i, "compare")
      /\ iData' = IF swap THEN [iData EXCEPT ![i] = other] ELSE iData
      /\ UNCHANGED <<aux, elements>>

StoreElement(i) ==
  /\ SortExecutes(i, "store")
  /\ aux' = [aux EXCEPT ![i] = iData[i]]
  /\ UNCHANGED <<iData, elements>>

(* The barrier, with the three loops of the kernel.                        *)
LocalBarrier ==
  /\ bphase = "blocks" /\ barrived = 0 .. wg - 1 /\ (bat = "load" => wg > 1)
  /\ barrived' = {}
  /\ bat' = IF bat = "compare" THEN "store" ELSE "compare"
  /\ loop' = CASE bat # "store" -> loop
               [] bat = "store" /\ loop.pinc > 1 -> [loop EXCEPT !.pinc = @ \div 2]
               [] bat = "store" /\ loop.pinc = 1 /\ 2 * loop.length < loop.pwg ->
                    [loop EXCEPT !.length = 2 * @, !.pinc = 2 * loop.length]
               [] OTHER -> [pwg |-> 2 * loop.pwg, length |-> 1, pinc |-> 1]
  /\ loop'.pwg <= wg
  /\ UNCHANGED <<hostvars, elements, group, aux, iData>>

(* After the last barrier the items write their elements.                  *)
WriteBlock ==
  /\ bphase = "blocks" /\ barrived = 0 .. wg - 1
  /\ bat = "store" /\ 2 * loop.pwg > wg /\ 2 * loop.length >= loop.pwg /\ loop.pinc = 1
  /\ elements' = [p \in DOMAIN elements |->
                    LET mine == {i \in 0 .. wg - 1 : ItemPosition(i) = p}
                    IN  IF mine = {} THEN elements[p] ELSE iData[CHOOSE i \in mine : TRUE]]
  /\ bphase' = IF (group + 1) * wg < Size THEN "blocks" ELSE "merges"
  /\ group' = group + 1 /\ loop' = FirstLoop /\ bat' = "load" /\ barrived' = {}
  /\ aux' = << >> /\ iData' = << >>
  /\ UNCHANGED <<srt, wg, length, inc, run_queue>>

-----------------------------------------------------------------------------
(* ParallelBitonic_B2, B4, B8 and B16.  The elements of one work item.     *)
MergeItems(m) == 0 .. Size \div 2 ^ m.bits - 1
(* Mutant: the index is shifted by one bit, for two elements per item. *)
ItemIndexOfTwo(m, t) == LET step == m.inc \div 2 ^ (m.bits - 1)
                        IN  (t - (t % step)) * 2 + (t % step)

(* The first element of work item t: the high bits of t are shifted, to    *)
(* leave room for the bits that the item goes through.                     *)
ItemIndex(m, t) == LET step == m.inc \div 2 ^ (m.bits - 1)
                   IN  (t - (t % step)) * 2 ^ m.bits + (t % step)
ItemLine(m, id) == id \div (dsize \div 2 ^ m.bits)
ItemFirst(m, id) == ItemIndex(m, id % (dsize \div 2 ^ m.bits))
ItemElements(m, id) ==
  [k \in 0 .. 2 ^ m.bits - 1 |->
     Position(ItemLine(m, id), ItemFirst(m, id) + k * (m.inc \div 2 ^ (m.bits - 1)))]

(* ORDERV on all pairs at distance d: swap = reverse ^ (x[a] < x[b]).      *)
Ordered(x, d, reverse) ==
  [a \in DOMAIN x |->
     LET low == IF (a \div d) % 2 = 0 THEN a ELSE a - d
         swap == reverse # (x[low][1] < x[low + d][1])
     IN  IF ~swap THEN x[a] ELSE IF a = low THEN x[low + d] ELSE x[low]]

(* Mutant: pairs at distance one first. *)
MergedFromNear(x, bits, reverse) ==
  LET net[e \in 0 .. bits] == IF e = 0 THEN x ELSE Ordered(net[e - 1], 2 ^ (e - 1), reverse)
  IN  net[bits]

(* B2V ... B16V: pairs at half the distance, then in each half.            *)
Merged(x, bits, reverse) ==
  LET net[e \in 0 .. bits] ==
        IF e = 0 THEN x ELSE LET before == net[e - 1] IN Ordered(before, 2 ^ (bits - e), reverse)
  IN  net[bits]

RunMerge ==
  LET m == Head(run_queue)
      loaded(id) == LET at == ItemElements(m, id) IN [k \in DOMAIN at |-> elements[at[k]]]
      reverse(id) == (ItemFirst(m, id) \div m.dir) % 2 = 0
      stores == UNION {LET at == ItemElements(m, id)
                           x  == Merged(loaded(id), m.bits, reverse(id))
                       IN  {<<at[k], x[k]>> : k \in DOMAIN at} : id \in MergeItems(m)}
  IN  /\ bphase = "merges" /\ run_queue # << >>
      /\ elements' = [p \in DOMAIN elements |-> (CHOOSE s \in stores : s[1] = p)[2]]
      /\ run_queue' = Tail(run_queue)
      /\ UNCHANGED <<srt, bphase, wg, length, inc, group, loop, bat, barrived, aux, iData>>

SortDone ==
  /\ bphase = "merges" /\ run_queue = << >>
  /\ bphase' = "done"
  /\ UNCHANGED <<srt, wg, length, inc, run_queue, elements, group, loop, bat, barrived, aux, iData>>

SortNext ==
  \/ Host \/ LocalBarrier \/ WriteBlock \/ RunMerge \/ SortDone
  \/ \E i \in 0 .. wg - 1 : LoadElement(i) \/ CompareElement(i) \/ StoreElement(i)

(* The host's loops go on, and the device executes what was enqueued.      *)
SortSpec == SortInit /\ [][SortNext]_sortvars /\ WF_sortvars(SortNext)

-----------------------------------------------------------------------------
(* A sorting network sorts every line of the axis, and the indices still   *)
(* tell where each key was, whatever the letters the merges were cut into. *)
EveryLineIsSorted ==
  bphase = "done" /\ dsize > 0 =>
    \A gt \in 0 .. Size \div dsize - 1 :
      LET at(i) == elements[Position(gt, i)] IN
      /\ \A i \in 0 .. dsize - 2 : at(i)[1] <= at(i + 1)[1]
      /\ {at(i)[2] : i \in 0 .. dsize - 1} = {Position(gt, i) : i \in 0 .. dsize - 1}
      /\ \A i \in 0 .. dsize - 1 : srt.keys[at(i)[2]] = at(i)[1]

(* No element belongs to two work items of a merge, and none to no item:   *)
(* the merges have no barriers and need none.                              *)
MergeItemsAreDisjoint ==
  bphase = "merges" /\ run_queue # << >> =>
    LET m == Head(run_queue) IN
    /\ UNION {LET at == ItemElements(m, id) IN {at[k] : k \in DOMAIN at} : id \in MergeItems(m)}
         = DOMAIN elements
    /\ Cardinality(MergeItems(m)) * 2 ^ m.bits = Size

(* A sort returns or raises, if a work group holds more than one element:  *)
(* with one (an axis of length one, or little local memory), length starts *)
(* at zero, and doubling it does not bring it up to the axis.              *)
SortEnded ==
  bphase \in {"done", "raised"} \/ Lower(Lower(dsize, srt.max_wg), srt.lmem_wg) = 1
=============================================================================
