------------------------------- MODULE ScanSetup -------------------------------
(***************************************************************************)
(* GenericScanKernel._finish_setup_impl (src/pyopencl/scan.py): which      *)
(* k_group_size and work group size a scan gets on a device, found by what *)
(* fits into local memory and then by building, with ever smaller groups,  *)
(* until the device admits the kernel.                                     *)
(***************************************************************************)
EXTENDS Integers, FiniteSets

CONSTANT Devices   \* devices and scans to set up, a set of records

(* local_mem and max_wg of the device, and what it is; the sizes of an     *)
(* item, an index and the elements kept for input_fetch_exprs; kernel_max, *)
(* the work group size at which the device admits a kernel built for one.  *)
ASSUME DeviceAssumption ==
  \A d \in Devices :
    /\ d.local_mem \in Nat /\ d.max_wg \in Nat \ {0} /\ d.kind \in {"cpu", "gpu", "other"}
    /\ d.itemsize \in Nat \ {0} /\ d.index_itemsize \in {4, 8} /\ d.fetched \in Nat
    /\ d.kernel_max \in [{2 ^ e : e \in 0 .. 8} -> Nat \ {0}]

VARIABLES
  dev,              \* the device and the scan
  setup,            \* "size", "build", then "done" or "raised"
  max_scan_wg_size, \* as in the code
  k_group_size,
  trip_count

setupvars == <<dev, setup, max_scan_wg_size, k_group_size, trip_count>>

AtMost(a, b) == IF a < b THEN a ELSE b
_round_down_to_power_of_2(m) == 2 ^ (CHOOSE e \in 0 .. 16 : 2 ^ e <= m /\ m < 2 ^ (e + 1))

(* Without the packed values' padding, doubles would share a memory bank.  *)
use_bank_conflict_avoidance == dev.itemsize > 4 /\ dev.itemsize % 8 = 0 /\ dev.kind = "gpu"
ItemBytes == dev.itemsize + IF use_bank_conflict_avoidance THEN 4 ELSE 0

get_local_mem_use(k, wg_) ==
  ItemBytes * (k + 1) * (wg_ + 1) + k * wg_ + dev.index_itemsize * wg_ + k * wg_ * dev.fetched

wg_size_multiples == IF dev.kind = "cpu" THEN 4 ELSE 64
WgSizes == {m \in 1 .. (IF dev.kind = "cpu" THEN 16 ELSE dev.max_wg) : m % wg_size_multiples = 0}

(* The sizes are handed to get_local_mem_use in the other order.           *)
Fitting == {s \in {2 ^ e : e \in 0 .. 8} \X WgSizes : get_local_mem_use(s[2], s[1]) <= dev.local_mem}

(* On a GPU, groups of at least 256, or 192, or 128 if there are any.      *)
solutions ==
  LET floors == {f \in {256, 192, 128} : dev.kind = "gpu" /\ \E s \in Fitting : s[2] >= f}
      floor  == CHOOSE f \in floors : \A h \in floors : h <= f
  IN  IF floors = {} THEN Fitting ELSE {s \in Fitting : s[2] >= floor}

(* max(solutions): the largest unit, then the largest k_group_size.        *)
Largest(among) ==
  CHOOSE s \in among : \A o \in among :
    s[1] * s[2] > o[1] * o[2] \/ (s[1] * s[2] = o[1] * o[2] /\ s[1] >= o[1])

SetupInit ==
  /\ dev \in Devices
  /\ setup = "size" /\ max_scan_wg_size = 0 /\ k_group_size = 0 /\ trip_count = 0

ChooseSizes ==
  /\ setup = "size"
  /\ \E among \in {solutions} :
     IF among = {} THEN setup' = "raised" /\ UNCHANGED <<max_scan_wg_size, k_group_size>>
     ELSE /\ setup' = "build"
          /\ \E s \in {Largest(among)} : k_group_size' = s[1] /\ max_scan_wg_size' = s[2]
  /\ UNCHANGED <<dev, trip_count>>

(* generate_scan_kernel: "no need to be bigger than this size".            *)
wg_size == _round_down_to_power_of_2(AtMost(max_scan_wg_size, 256))
kernel_max_wg_size == dev.kernel_max[wg_size]

(* Mutant: the kernel is used without a look at what the device admits. *)
AcceptUnchecked ==
  /\ setup = "build" /\ setup' = "done"
  /\ UNCHANGED <<dev, max_scan_wg_size, k_group_size, trip_count>>

(* The kernel is used if the device admits its work groups, and else built *)
(* again for smaller ones.                                                 *)
Accept ==
  /\ setup = "build" /\ wg_size <= kernel_max_wg_size
  /\ setup' = "done"
  /\ UNCHANGED <<dev, max_scan_wg_size, k_group_size, trip_count>>

BuildSmaller ==
  /\ setup = "build" /\ wg_size > kernel_max_wg_size
  /\ max_scan_wg_size' = AtMost(kernel_max_wg_size, max_scan_wg_size)
  /\ trip_count' = trip_count + 1
  /\ setup' = IF trip_count' <= 20 THEN "build" ELSE "raised"
  /\ UNCHANGED <<dev, k_group_size>>

SetupNext == ChooseSizes \/ Accept \/ BuildSmaller
SetupSpec == SetupInit /\ [][SetupNext]_setupvars /\ WF_setupvars(SetupNext)

-----------------------------------------------------------------------------
(* The kernel that is used fits: its groups are what the device admits,    *)
(* and its local memory exceeds the device's by at most what the exchange  *)
(* of the sizes is worth, an index for each item of a group beyond k.      *)
ChosenSizesFit ==
  setup = "done" =>
    /\ wg_size <= dev.kernel_max[wg_size]
    /\ get_local_mem_use(k_group_size, wg_size)
         <= dev.local_mem + (IF wg_size > k_group_size
                               THEN dev.index_itemsize * (wg_size - k_group_size) ELSE 0)

(* The search ends before the assertion on trip_count, with a kernel or,   *)
(* if nothing fits into local memory, with an error.                       *)
SetupEnded == setup = "done" \/ (setup = "raised" /\ trip_count = 0)
=============================================================================
