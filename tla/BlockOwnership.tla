--------------------------- MODULE BlockOwnership ---------------------------
(***************************************************************************)
(* What a memory pool promises its clients, without bins, counters or the  *)
(* retry loop: a device block is granted to at most one handle at a time,  *)
(* is at least as large as was asked for, and goes back to the device only *)
(* when no handle owns it.  MemoryPool implements this specification.      *)
(***************************************************************************)
EXTENDS Naturals

CONSTANTS Handles,    \* the PooledBuffer objects of the program
          Blocks,     \* the device allocations (cl_mem)
          Requests,   \* the sizes clients ask for
          BlockSizes, \* the sizes of device allocations
          NoBlock     \* a handle that owns nothing

VARIABLES bytes,      \* [Blocks -> Nat]: size of a live block, 0 if not live
          grant,      \* [Handles -> Blocks \cup {NoBlock}]
          stopped     \* stop_holding() was called

vars == <<bytes, grant, stopped>>

Owned == {b \in Blocks : \E h \in Handles : grant[h] = b}
Idle  == {b \in Blocks : bytes[b] > 0} \ Owned

Init == /\ bytes = [b \in Blocks |-> 0]
        /\ grant = [h \in Handles |-> NoBlock]
        /\ stopped = FALSE

(* A handle gets an idle block that is large enough ...                    *)
GrantIdle(h, s) ==
  /\ grant[h] = NoBlock
  /\ \E b \in Idle : bytes[b] >= s /\ grant' = [grant EXCEPT ![h] = b]
  /\ UNCHANGED <<bytes, stopped>>

(* ... or one that is new on the device.                                   *)
GrantNew(h, s) ==
  /\ grant[h] = NoBlock
  /\ \E b \in Blocks, n \in BlockSizes :
       /\ bytes[b] = 0 /\ n >= s
       /\ bytes' = [bytes EXCEPT ![b] = n]
       /\ grant' = [grant EXCEPT ![h] = b]
  /\ UNCHANGED stopped

(* A returned block is kept, until the pool is told to stop holding.       *)
Return(h) ==
  /\ grant[h] # NoBlock
  /\ grant' = [grant EXCEPT ![h] = NoBlock]
  /\ bytes' = IF stopped THEN [bytes EXCEPT ![grant[h]] = 0] ELSE bytes
  /\ UNCHANGED stopped

(* Idle blocks may go back to the device, blocks in use may not.           *)
Evict ==
  /\ \E S \in SUBSET Idle :
       bytes' = [b \in Blocks |-> IF b \in S THEN 0 ELSE bytes[b]]
  /\ UNCHANGED <<grant, stopped>>

Stop ==
  /\ bytes' = [b \in Blocks |-> IF b \in Idle THEN 0 ELSE bytes[b]]
  /\ stopped' = TRUE
  /\ UNCHANGED grant

Next == \/ \E h \in Handles, s \in Requests : GrantIdle(h, s) \/ GrantNew(h, s)
        \/ \E h \in Handles : Return(h)
        \/ Evict
        \/ Stop

Spec == Init /\ [][Next]_vars
=============================================================================
