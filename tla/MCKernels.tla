------------------------------- MODULE MCKernels -------------------------------
(* The kernels and the algorithms on top of them, one call at a time: a scan,  *)
(* the setup of a scan, a reduction, a bitonic sort or one of the algorithms.  *)
EXTENDS Scan, ScanSetup, Reduction, BitonicSort, Algorithms

VARIABLE call   \* which one it is

all == <<call, vars, setupvars, redvars, sortvars, algvars>>

-----------------------------------------------------------------------------
(* Scans: none, partial and whole units, one interval or several, several  *)
(* units in an interval, a tree of one and of two levels, an update group  *)
(* smaller or larger than the scan's, every set of segment starts.         *)
\* n, wg, update_wg, k, max_intervals; the last one has too many intervals
Shapes == {<<0, 2, 2, 1, 1>>, <<1, 1, 1, 1, 1>>, <<5, 2, 3, 2, 3>>, <<6, 2, 2, 2, 1>>,
           <<5, 4, 4, 1, 1>>, <<2, 1, 1, 1, 2>>}

ScansOf(s, segmented, starts, lookbehind, junk, stencil, debug) ==
  [n : {s[1]}, wg : {s[2]}, update_wg : {s[3]}, k : {s[4]}, max_intervals : {s[5]},
   segmented : segmented, starts : starts, lookbehind : lookbehind, junk : junk,
   stencil : stencil, debug : debug]

Plain(s)     == ScansOf(s, {FALSE}, {{}}, BOOLEAN, {FALSE}, BOOLEAN, {FALSE})
Segmented(s) == ScansOf(s, {TRUE}, SUBSET (0 .. s[1] - 1), {FALSE}, {FALSE}, {FALSE}, {FALSE})
Junk(s)      == ScansOf(s, {TRUE}, SUBSET (0 .. s[1] - 1), {TRUE}, {TRUE}, {FALSE}, {FALSE})
Debug        == ScansOf(<<4, 1, 1, 1, 1>>, BOOLEAN, SUBSET (0 .. 3), {TRUE}, {FALSE}, {TRUE}, {TRUE})

MCInputs == UNION {Plain(s) \cup Segmented(s) \cup Junk(s) : s \in Shapes} \cup Debug

(* Setups: local memory for nothing, for little and for much; devices that *)
(* admit what was built, less, or ever less.                               *)
Limits == {[w \in {2 ^ e : e \in 0 .. 8} |-> 256], [w \in {2 ^ e : e \in 0 .. 8} |-> 100],
           [w \in {2 ^ e : e \in 0 .. 8} |-> IF w > 16 THEN w \div 2 ELSE w]}
MCDevices ==
  [local_mem : {64, 3000, 16384, 49152}, max_wg : {64, 256, 512}, kind : {"cpu", "gpu", "other"},
   itemsize : {4, 16}, index_itemsize : {4}, fetched : {0, 8}, kernel_max : Limits]

(* Reductions: none, one and several stages, whole and partial groups,     *)
(* slices with and without a step, one that ends before it starts, more    *)
(* elements than small stages take.                                        *)
Slices == {<<5, 0, 5, 1>>, <<5, 1, 4, 1>>, <<7, 0, 6, 2>>, <<0, 0, 0, 1>>, <<9, 0, 9, 1>>, <<8, 0, 8, 1>>,
           <<5, 4, 2, 1>>}
MCReductions ==
  {[n |-> s[1], start |-> s[2], stop |-> s[3], step |-> s[4], group_size |-> g,
    kernel_max_wg_size |-> m, SMALL_SEQ_COUNT |-> c, MAX_GROUP_COUNT |-> 2]
     : s \in Slices, g \in {1, 2, 4}, m \in {3, 4}, c \in {2, 3}}

(* Sorts: every array of zeros and ones of up to 8 elements, along either  *)
(* axis; some of 16 elements, merged by all kinds of kernels; lengths that *)
(* are refused, and a device without enough local memory.                  *)
ZeroOne(size) == [0 .. size - 1 -> {0, 1}]
SortsOf(keys, d, s, m, l) == [keys : keys, dsize : {d}, nsize : {s}, max_wg : {m}, lmem_wg : {l}]
MCSorts ==
  SortsOf(ZeroOne(4), 4, 1, 4, 4) \cup SortsOf(ZeroOne(4), 2, 1, 2, 4)
  \cup SortsOf({k \in ZeroOne(8) : k[0] = 1 /\ k[7] = 0}, 4, 2, 2, 2)
  \cup SortsOf({[i \in 0 .. 15 |-> (i * a + 5) % 16] : a \in {1, 3, 15}}, 16, 1, 4, 3)
  \cup SortsOf({[i \in 0 .. 2 |-> 0]}, 3, 1, 4, 4) \cup SortsOf({<< >>}, 0, 1, 4, 4)
  \cup SortsOf({[i \in 0 .. 1 |-> 0]}, 2, 1, 4, 0) \cup SortsOf({[i \in 0 .. 1 |-> 0]}, 1, 1, 4, 4)

(* Algorithms: all short arrays.                                           *)
Sequences_(max, size) == UNION {[1 .. k -> 0 .. max] : k \in 0 .. size}
JobsOf(kind, ary, bits, eliminate) ==
  [kind : kind, ary : ary, satisfying : {{1}}, sort_arg_names : {<<"values", "keys">>},
   bits_at_a_time : bits, key_bits : {2}, eliminate : eliminate]
MCJobs ==
  JobsOf({"copy_if", "remove_if", "partition"}, Sequences_(1, 4), {1}, {FALSE})
  \cup JobsOf({"unique"}, Sequences_(2, 4), {1}, {FALSE})
  \cup JobsOf({"radix", "kvsort"}, Sequences_(3, 3), {1, 2}, {FALSE})
  \cup JobsOf({"lists"}, Sequences_(2, 3), {1}, BOOLEAN)

-----------------------------------------------------------------------------
NoScan ==
  /\ inp = CHOOSE i \in Inputs : TRUE
  /\ phase = "idle"
  /\ at = << >> /\ arrived = << >> /\ base = << >> /\ offset = << >> /\ lfetch = << >>
  /\ ldata = << >> /\ lflags = << >> /\ lfirst = << >> /\ priv = << >> /\ partial = << >>
  /\ results = << >> /\ first_seg = << >> /\ gflags = << >> /\ output = << >>
NoSetup ==
  /\ dev = CHOOSE d \in Devices : TRUE
  /\ setup = "idle" /\ max_scan_wg_size = 0 /\ k_group_size = 0 /\ trip_count = 0
NoReduction ==
  /\ red = CHOOSE r \in Reductions : TRUE
  /\ rphase = "idle" /\ group_size = 1 /\ vec = << >> /\ size_args = << >>
  /\ cur_size = << >> /\ rarrived = << >> /\ pcl_ldata = << >> /\ rresult = << >>
NoSort ==
  /\ srt = CHOOSE s \in Sorts : TRUE
  /\ bphase = "idle" /\ wg = 1 /\ length = 0 /\ inc = 0 /\ run_queue = << >> /\ elements = << >>
  /\ group = 0 /\ loop = << >> /\ bat = "idle" /\ barrived = {} /\ aux = << >> /\ iData = << >>
NoAlgorithm ==
  /\ alg = CHOOSE j \in Jobs : TRUE
  /\ kernel = "idle" /\ written = {} /\ items = << >> /\ arrays = << >> /\ base_bit = 0

KernelsInit ==
  \/ call = "scan" /\ Init /\ NoSetup /\ NoReduction /\ NoSort /\ NoAlgorithm
  \/ call = "setup" /\ SetupInit /\ NoScan /\ NoReduction /\ NoSort /\ NoAlgorithm
  \/ call = "reduction" /\ ReductionInit /\ NoScan /\ NoSetup /\ NoSort /\ NoAlgorithm
  \/ call = "sort" /\ SortInit /\ NoScan /\ NoSetup /\ NoReduction /\ NoAlgorithm
  \/ call = "algorithm" /\ AlgInit /\ NoScan /\ NoSetup /\ NoReduction /\ NoSort

KernelsNext ==
  /\ UNCHANGED call
  /\ \/ call = "scan" /\ Next /\ UNCHANGED <<setupvars, redvars, sortvars, algvars>>
     \/ call = "setup" /\ SetupNext /\ UNCHANGED <<vars, redvars, sortvars, algvars>>
     \/ call = "reduction" /\ ReductionNext /\ UNCHANGED <<vars, setupvars, sortvars, algvars>>
     \/ call = "sort" /\ SortNext /\ UNCHANGED <<vars, setupvars, redvars, algvars>>
     \/ call = "algorithm" /\ AlgNext /\ UNCHANGED <<vars, setupvars, redvars, sortvars>>

(* The host goes on and the device executes what was enqueued.             *)
KernelsSpec == KernelsInit /\ [][KernelsNext]_all /\ WF_all(KernelsNext)

(* Every call ends, as the modules say.  The device executes what was      *)
(* enqueued, and the host's loops go on.                                   *)
EveryCallEnds ==
  <>(\/ call = "scan" /\ ScanEnded
     \/ call = "setup" /\ SetupEnded
     \/ call = "reduction" /\ ReductionEnded
     \/ call = "sort" /\ SortEnded
     \/ call = "algorithm" /\ AlgorithmEnded)
=============================================================================
