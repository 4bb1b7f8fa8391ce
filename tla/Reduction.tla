------------------------------- MODULE Reduction -------------------------------
(***************************************************************************)
(* ReductionKernel (src/pyopencl/reduction.py): the group size found by    *)
(* building, then stages of kernels, each of which leaves one value per    *)
(* work group, until a stage has a single group.                           *)
(*                                                                         *)
(* A value counts how often each element went into it, the freest          *)
(* commutative and associative operation, so one run stands for every      *)
(* reduce_expr and every map_expr.  A step is what one work item does      *)
(* between two barriers.                                                   *)
(***************************************************************************)
EXTENDS Integers, FiniteSets, PowersOfTwo

CONSTANT Reductions   \* the reductions to carry out, a set of ReductionType

(* n elements, of which the slice's; the group size the device suggests,   *)
(* and what the built kernel admits; SMALL_SEQ_COUNT and MAX_GROUP_COUNT.  *)
ReductionType ==
  [n : Nat, start : Nat, stop : Nat, step : Nat \ {0},
   group_size : Nat, kernel_max_wg_size : Nat \ {0},
   SMALL_SEQ_COUNT : Nat \ {0, 1}, MAX_GROUP_COUNT : Nat \ {0}]

ASSUME ReductionAssumption ==
  \A r \in Reductions : r \in ReductionType /\ r.stop <= r.n /\ IsPowerOf2(r.group_size)

VARIABLES
  red,        \* the reduction that is carried out
  rphase,     \* "build", "host", a kernel "runs", then "done" or "raised"
  group_size, \* PCL_GROUP_SIZE of the kernels
  vec,        \* the vector that this stage reduces: [0 .. size-1 -> value]
  size_args,  \* start, step, stop and pcl_seq_count of this stage
  cur_size,   \* [group -> cur_size; 0 in the loop over the elements]
  rarrived,   \* [group -> the work items that wait at the barrier]
  pcl_ldata,  \* [group -> [item -> value]]
  rresult     \* [group -> pcl_out]

redvars == <<red, rphase, group_size, vec, size_args, cur_size, rarrived, pcl_ldata, rresult>>

Elements == 0 .. red.n - 1
PCL_REDUCE(a, b) == [e \in Elements |-> a[e] + b[e]]
rneutral == [e \in Elements |-> 0]
single(i) == [e \in Elements |-> IF e = i THEN 1 ELSE 0]
RMin(a, b) == IF a < b THEN a ELSE b
RCeilDiv(a, b) == (a + b - 1) \div b
Items == 0 .. group_size - 1

ReductionInit ==
  /\ red \in Reductions
  /\ rphase = "build" /\ group_size = red.group_size
  /\ vec = [i \in Elements |-> single(i)]
  /\ size_args = [start |-> red.start, step |-> red.step, stop |-> red.stop, seq_count |-> 0]
  /\ cur_size = << >> /\ rarrived = << >> /\ pcl_ldata = << >> /\ rresult = << >>

-----------------------------------------------------------------------------
(* __init__: build, and build again with the size the kernel admits; the   *)
(* template asserts that it is a power of two.                             *)
BuildStages ==
  /\ rphase = "build"
  /\ group_size' = RMin(group_size, red.kernel_max_wg_size)
  /\ rphase' = IF IsPowerOf2(group_size') THEN "host" ELSE "raised"
  /\ UNCHANGED <<red, vec, size_args, cur_size, rarrived, pcl_ldata, rresult>>

(* How a stage is split: sz as the code counts it.                         *)
sz == (IF size_args.stop >= size_args.start THEN size_args.stop - size_args.start
                                            ELSE size_args.start - size_args.stop) \div size_args.step
SmallStage == sz <= group_size * red.SMALL_SEQ_COUNT * red.MAX_GROUP_COUNT
group_count == IF SmallStage THEN RCeilDiv(sz, red.SMALL_SEQ_COUNT * group_size)
                             ELSE red.MAX_GROUP_COUNT
(* Mutant: the share of a work item is rounded down. *)
seq_count_rounded_down ==
  IF SmallStage THEN red.SMALL_SEQ_COUNT ELSE sz \div (red.MAX_GROUP_COUNT * group_size)

(* How many elements a work item goes through.                             *)
seq_count   == IF SmallStage THEN red.SMALL_SEQ_COUNT
                             ELSE RCeilDiv(sz, red.MAX_GROUP_COUNT * group_size)

(* __call__: an OpenCL before 2.1 rejects a kernel without work items.     *)
LaunchStage ==
  /\ rphase = "host" /\ group_count > 0
  /\ rphase' = "runs"
  /\ size_args' = [size_args EXCEPT !.seq_count = seq_count]
  /\ cur_size' = [g \in 0 .. group_count - 1 |-> 0]
  /\ rarrived' = [g \in 0 .. group_count - 1 |-> {}]
  /\ pcl_ldata' = [g \in 0 .. group_count - 1 |-> [l \in Items |-> << >>]]
  /\ rresult' = [g \in 0 .. group_count - 1 |-> << >>]
  /\ UNCHANGED <<red, group_size, vec>>

NothingToReduce ==
  /\ rphase = "host" /\ group_count = 0
  /\ rphase' = "raised"
  /\ UNCHANGED <<red, group_size, vec, size_args, cur_size, rarrived, pcl_ldata, rresult>>

-----------------------------------------------------------------------------
RExecutes(g, l) ==
  /\ rphase = "runs" /\ l \notin rarrived[g]
  /\ rarrived' = [rarrived EXCEPT ![g] = @ \cup {l}]
  /\ UNCHANGED <<red, rphase, group_size, vec, size_args, cur_size>>

(* Up to pcl_seq_count elements, group_size steps apart.                   *)
Accumulated(g, l) ==
  LET pcl_base_idx == g * group_size * size_args.seq_count + l
      i(s) == size_args.start + (pcl_base_idx + (s - 1) * group_size) * size_args.step
      pcl_acc[s \in 0 .. size_args.seq_count] ==
        IF s = 0 THEN rneutral
        ELSE IF i(s) < size_args.stop THEN PCL_REDUCE(pcl_acc[s - 1], vec[i(s)]) ELSE pcl_acc[s - 1]
  IN  pcl_acc[size_args.seq_count]

Accumulate(g, l) ==
  /\ RExecutes(g, l) /\ cur_size[g] = 0
  /\ pcl_ldata' = [pcl_ldata EXCEPT ![g][l] = Accumulated(g, l)]
  /\ UNCHANGED rresult

(* One halving; when a single value is left, item 0 writes it.             *)
ReduceTree(g, l) ==
  LET new_size == cur_size[g] \div 2 IN
  /\ RExecutes(g, l) /\ cur_size[g] > 0
  /\ pcl_ldata' = IF l < new_size
                    THEN [pcl_ldata EXCEPT ![g][l] = PCL_REDUCE(@, pcl_ldata[g][l + new_size])]
                    ELSE pcl_ldata
  /\ rresult' = IF l = 0 /\ new_size <= 1 THEN [rresult EXCEPT ![g] = pcl_ldata'[g][0]]
                                          ELSE rresult

(* There is no barrier after the last halving.                             *)
ReductionBarrier(g) ==
  /\ rphase = "runs" /\ rarrived[g] = Items /\ cur_size[g] \notin {1, 2}
  /\ rarrived' = [rarrived EXCEPT ![g] = {}]
  /\ cur_size' = [cur_size EXCEPT ![g] = IF @ = 0 THEN group_size ELSE @ \div 2]
  /\ UNCHANGED <<red, rphase, group_size, vec, size_args, pcl_ldata, rresult>>

-----------------------------------------------------------------------------
StageDone == rphase = "runs" /\ \A g \in DOMAIN cur_size : cur_size[g] \in {1, 2} /\ rarrived[g] = Items

(* The result of a stage is the vector of the next, all of it.             *)
NextStage ==
  /\ StageDone /\ DOMAIN rresult # {0}
  /\ rphase' = "host"
  /\ vec' = rresult
  /\ size_args' = [start |-> 0, step |-> 1, stop |-> Cardinality(DOMAIN rresult), seq_count |-> 0]
  /\ UNCHANGED <<red, group_size, cur_size, rarrived, pcl_ldata, rresult>>

ReturnResult ==
  /\ StageDone /\ DOMAIN rresult = {0}
  /\ rphase' = "done"
  /\ UNCHANGED <<red, group_size, vec, size_args, cur_size, rarrived, pcl_ldata, rresult>>

ReductionNext ==
  \/ BuildStages \/ LaunchStage \/ NothingToReduce \/ NextStage \/ ReturnResult
  \/ \E g \in DOMAIN cur_size :
       \/ \E l \in Items : Accumulate(g, l) \/ ReduceTree(g, l)
       \/ ReductionBarrier(g)

(* The host loop goes on, and the device executes what was enqueued.       *)
ReductionSpec == ReductionInit /\ [][ReductionNext]_redvars /\ WF_redvars(ReductionNext)

-----------------------------------------------------------------------------
Sliced == {i \in Elements : red.start <= i /\ i < red.stop /\ (i - red.start) % red.step = 0}

(* Every element of the slice goes into the result once and no other does, *)
(* whatever the number of stages and groups.  (sz is rounded down, so that *)
(* a slice which ends in part of a step may lose its last element.)        *)
EachElementOnce ==
  rphase = "done" /\ (red.stop - red.start) % red.step = 0 =>
    rresult[0] = [e \in Elements |-> IF e \in Sliced THEN 1 ELSE 0]

(* A reduction returns, or raises where there is nothing to reduce or the  *)
(* kernel admits no group whose size is a power of two.                    *)
ReductionEnded == rphase \in {"done", "raised"}
=============================================================================
