-------------------------------- MODULE MCHost --------------------------------
(* What the host does around the kernels, one part at a time: arrays and their *)
(* events, kernels for elements of arrays, the expressions in those kernels,   *)
(* random numbers, programs and their kernels, and copies.                     *)
EXTENDS Arrays, ElementwiseKernels, ElementwiseTypes, Random, Programs, Transfers

LOCAL INSTANCE TLC

VARIABLE part   \* which one it is

host == <<part, arrayvars, elementvars, typevars, randomvars, programvars, transfervars>>

-----------------------------------------------------------------------------
(* Kernels over elements: sizes around every boundary of splay; slices and     *)
(* ranges of either direction, empty, within and beyond the array; several     *)
(* arrays, in one chunk and in more, some of a single element.                 *)
CallsOf(op, size, start, stop, step, sources, d, s, offset, wg, units) ==
  [op : op, size : {size}, start : start, stop : stop, step : step, sources : sources,
   dest : d, src : s, offset : offset, max_wg : wg, units : units]
MCCalls ==
  UNION {CallsOf({"map"}, m, {0}, {0}, {1}, {<<m + 1>>}, {<< >>}, {<< >>}, {0}, {1, 2, 3, 8}, {1, 2}) : m \in 0 .. 13}
  \cup UNION {CallsOf({"slice"}, m, {-9, -2, 0, 3}, {-9, -1, 2, 9}, {-3, -1, 1, 2}, {<<m + 1>>}, {<< >>}, {<< >>}, {0}, {2}, {1}) : m \in {0, 1, 5}}
  \cup CallsOf({"range"}, 9, {0, 2, 8}, {0, 2, 7}, {-2, -1, 1, 3}, {<<9>>}, {<< >>}, {<< >>}, {0}, {2}, {1})
  \cup UNION {CallsOf({"reverse", "diff"}, m, {0}, {0}, {1}, {<<m>>}, {<< >>}, {<< >>}, {0}, {8}, {1}) : m \in {1, 5}}
  \cup CallsOf({"take"}, 5, {0}, {0}, {1}, {<<3>>}, {<< >>}, {<<2, 0, 2, 1, 0>>}, {0}, {4}, {1})
  \cup CallsOf({"put"}, 3, {0}, {0}, {1}, {<<3>>, <<1, 3, 2, 1, 3>>, <<3, 1, 3>>}, {<<4, 0, 2>>}, {<< >>}, {0}, {8}, {1})
  \cup CallsOf({"take_put"}, 3, {0}, {0}, {1}, {<<5>>, <<4, 4, 4>>}, {<<4, 0, 2>>}, {<<1, 1, 2>>}, {0, 1}, {8}, {1})

(* Random numbers: counters around the host's bounds and the device's, below   *)
(* zero too; arrays that leave work items without an element and that do not.  *)
MCCounters == (-8 .. 7) \X {-1, 6} \X {-8, 0}
MCSizes    == {0, 1, 6, 20}

(* Kernels: arguments that pocl splits while there are registers and that it   *)
(* does not, counted as the device counts and not.                             *)
MCSignatures == {<<"complex64", "complex128">>, <<"vector_offset", "float", "complex128">>}

MCSymmetry == Permutations(Threads) \cup Permutations(Workers)

-----------------------------------------------------------------------------
AnyOf(S) == CHOOSE x \in S : TRUE
HostInit ==
  /\ part \in {"arrays", "elementwise", "types", "random", "programs", "transfers"}
  /\ ArraysInit /\ TransfersInit
  /\ ProgramsInit /\ (part # "programs" => bug = "none")
  /\ ElementInit /\ (part # "elementwise" => ecall = AnyOf(ElementwiseCalls))
  /\ TypesInit /\ (part # "types" => operation = [op |-> "neg", x |-> AnyOf(Dtypes), other |-> AnyOf(Operands)])
  /\ RandomInit /\ (part # "random" => counter = AnyOf(Counters))

HostNext ==
  /\ UNCHANGED part
  /\ \/ part = "arrays" /\ ArraysNext
        /\ UNCHANGED <<elementvars, typevars, randomvars, programvars, transfervars>>
     \/ part = "elementwise" /\ ElementNext
        /\ UNCHANGED <<arrayvars, typevars, randomvars, programvars, transfervars>>
     \/ part = "types" /\ TypesNext
        /\ UNCHANGED <<arrayvars, elementvars, randomvars, programvars, transfervars>>
     \/ part = "random" /\ RandomNext
        /\ UNCHANGED <<arrayvars, elementvars, typevars, programvars, transfervars>>
     \/ part = "programs" /\ ProgramsNext
        /\ UNCHANGED <<arrayvars, elementvars, typevars, randomvars, transfervars>>
     \/ part = "transfers" /\ TransfersNext
        /\ UNCHANGED <<arrayvars, elementvars, typevars, randomvars, programvars>>

HostSpec == HostInit /\ [][HostNext]_host
=============================================================================
