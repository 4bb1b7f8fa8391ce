----------------------------- MODULE MemoryPool -----------------------------
(***************************************************************************)
(* memory_pool and pooled_allocation (src/src/mempool.hpp) over the        *)
(* immediate allocator (src/src/wrap_mempool.cpp), used by several Python  *)
(* threads.                                                                *)
(*                                                                         *)
(* None of this code releases the GIL, so a call runs without interference *)
(* except where it runs Python code: the garbage collection that allocate  *)
(* starts when the allocator is out of memory (try_release_blocks).  There *)
(* finalizers and other threads use the same pool.  A call is therefore    *)
(* one step up to that collection; after it, the retry loop is one step    *)
(* per iteration, with the GIL held (call[t].pc = "evict" or "retry").     *)
(***************************************************************************)
EXTENDS Integers, Sequences, FiniteSets, SequencesExt

CONSTANTS Threads,     \* Python threads that use the pool
          Handles,     \* pooled_allocation objects
          Blocks,      \* identities of device allocations (cl_mem)
          Requests,    \* the sizes that are asked for
          Bins,        \* the bin numbers of those sizes
          BinNumber,   \* [Requests -> Bins]: bin_number
          AllocSize,   \* [Bins -> Nat]: alloc_size
          Capacity,    \* bytes the device can provide
          OutsideUse,  \* bytes others may have allocated on the device
          MaxLost,     \* bound: leaked cl_mem objects that are counted
          NoBlock      \* the pointer of a handle before it is constructed

ASSUME BinAssumption ==
  /\ Bins \subseteq Nat
  /\ BinNumber \in [Requests -> Bins]
  /\ AllocSize \in [Bins -> Nat \ {0}]
  /\ Requests \subseteq Nat
  /\ \A s \in Requests : AllocSize[BinNumber[s]] >= s
  /\ \A j, k \in Bins : j <= k => AllocSize[j] <= AllocSize[k]

ASSUME BlockAssumption ==
  NoBlock \notin Blocks /\ MaxLost \in Nat /\ Capacity \in Nat

VARIABLES
  m_container,      \* [Bins -> Seq(Blocks)]: the held blocks of each bin
  m_held_blocks,    \* counter: blocks in all bins
  m_active_blocks,  \* counter: blocks in use by the application
  m_stop_holding,   \* free blocks at once instead of holding them
  bytes,            \* [Blocks -> Nat]: size of each live cl_mem, 0 if none
  lost,             \* cl_mem objects that allocate created and forgot
  outside,          \* bytes of the device used by others than the pool
  handle,           \* [Handles -> m_ptr, m_size and the object's state]
  call              \* [Threads -> where its call of allocate is]

vars == <<m_container, m_held_blocks, m_active_blocks, m_stop_holding,
          bytes, lost, outside, handle, call>>

-----------------------------------------------------------------------------
InBin(k)  == {m_container[k][i] : i \in DOMAIN m_container[k]}
HeldSet   == UNION {InBin(k) : k \in Bins}
Entries   == UNION {{k} \X DOMAIN m_container[k] : k \in Bins}
ValidSet  == {h \in Handles : handle[h].state = "valid"}
OwnedSet  == {handle[h].m_ptr : h \in ValidSet}

Used == outside + FoldFunctionOnSet(+, 0, bytes, Blocks)
Fits(n) == Used + n <= Capacity

(* A thread inside the retry loop holds the GIL; one in the garbage        *)
(* collection lets others run.                                             *)
GilFree == \A t \in Threads : call[t].pc \in {"idle", "gc"}

Idle == [pc |-> "idle", size |-> 0, raised |-> "no"]
Raised(e) == [pc |-> "idle", size |-> 0, raised |-> e]
NoObject == [state |-> "none", m_ptr |-> NoBlock, m_size |-> 0]

Init ==
  /\ m_container = [k \in Bins |-> <<>>]
  /\ m_held_blocks = 0
  /\ m_active_blocks = 0
  /\ m_stop_holding = FALSE
  /\ bytes = [b \in Blocks |-> 0]
  /\ lost = 0
  /\ outside = 0
  /\ handle = [h \in Handles |-> NoObject]
  /\ call = [t \in Threads |-> Idle]

-----------------------------------------------------------------------------
(* The allocator.  A lazy OpenCL runtime creates the cl_mem at once and    *)
(* reports the lack of memory only for the first write to it.              *)

(* cl_immediate_allocator::allocate succeeds with the new block b.         *)
AllocatorGives(b, n) ==
  /\ Fits(n)
  /\ bytes[b] = 0
  /\ bytes' = [bytes EXCEPT ![b] = n]
  /\ UNCHANGED lost

(* It throws: create_buffer failed, or the write that follows it did and   *)
(* nobody releases the cl_mem.                                             *)
AllocatorThrows ==
  /\ lost' \in {lost, lost + 1} /\ lost' <= MaxLost
  /\ UNCHANGED bytes

OutOfMemory(n) == ~Fits(n) /\ AllocatorThrows

-----------------------------------------------------------------------------
(* A pooled_allocation for a request of s bytes now owns block b.          *)
Construct(s, b) ==
  \E h \in Handles :
    /\ handle[h].state = "none"
    /\ handle' = [handle EXCEPT ![h] = [state |-> "valid", m_ptr |-> b, m_size |-> s]]

(* Mutant: dec_held_blocks is forgotten. *)
PopBlockUncounted(s) ==
  LET k == BinNumber[s] IN
  /\ m_container[k] # <<>>
  /\ Construct(s, Last(m_container[k]))
  /\ m_container' = [m_container EXCEPT ![k] = Front(@)]
  /\ m_active_blocks' = m_active_blocks + 1
  /\ UNCHANGED <<m_held_blocks, m_stop_holding, bytes, lost>>

(* pop_block_from_bin *)
PopBlockFromBin(s) ==
  LET k == BinNumber[s] IN
  /\ m_container[k] # <<>>
  /\ Construct(s, Last(m_container[k]))
  /\ m_container' = [m_container EXCEPT ![k] = Front(@)]
  /\ m_held_blocks' = m_held_blocks - 1
  /\ m_active_blocks' = m_active_blocks + 1
  /\ UNCHANGED <<m_stop_holding, bytes, lost>>

(* Mutant: the size that was asked for instead of the size of the bin. *)
GetExactFromAllocator(s) ==
  /\ \E b \in Blocks : AllocatorGives(b, s) /\ Construct(s, b)
  /\ m_active_blocks' = m_active_blocks + 1
  /\ UNCHANGED <<m_container, m_held_blocks, m_stop_holding>>

(* get_from_allocator *)
GetFromAllocator(s) ==
  /\ \E b \in Blocks : AllocatorGives(b, AllocSize[BinNumber[s]]) /\ Construct(s, b)
  /\ m_active_blocks' = m_active_blocks + 1
  /\ UNCHANGED <<m_container, m_held_blocks, m_stop_holding>>

-----------------------------------------------------------------------------
(* allocate, up to the garbage collection.                                 *)

(* Bound: every pending call can still construct its handle.               *)
CanStart(t) ==
  /\ GilFree
  /\ call[t].pc = "idle"
  /\ Cardinality({h \in Handles : handle[h].state = "none"})
       > Cardinality({u \in Threads : call[u].pc = "gc"})

Return(t)   == call' = [call EXCEPT ![t] = Idle]
Raise(t, e) == call' = [call EXCEPT ![t] = Raised(e)]

(* mempool.hpp:197: the bin has a block.                                   *)
AllocateFromBin(t, s) ==
  CanStart(t) /\ PopBlockFromBin(s) /\ Return(t) /\ UNCHANGED outside

(* mempool.hpp:213: it has none, the allocator delivers.                   *)
AllocateNew(t, s) ==
  /\ CanStart(t) /\ m_container[BinNumber[s]] = <<>>
  /\ GetFromAllocator(s)
  /\ Return(t) /\ UNCHANGED outside

(* mempool.hpp:214-223: it is out of memory; a collection begins.          *)
AllocateOutOfMemory(t, s) ==
  /\ CanStart(t) /\ m_container[BinNumber[s]] = <<>>
  /\ OutOfMemory(AllocSize[BinNumber[s]])
  /\ call' = [call EXCEPT ![t] = [pc |-> "gc", size |-> s, raised |-> "no"]]
  /\ UNCHANGED <<m_container, m_held_blocks, m_active_blocks, m_stop_holding, outside, handle>>

(* mempool.hpp:217: any other error of the allocator is the caller's.      *)
AllocateFails(t, s) ==
  /\ CanStart(t) /\ m_container[BinNumber[s]] = <<>>
  /\ AllocatorThrows
  /\ Raise(t, "error")
  /\ UNCHANGED <<m_container, m_held_blocks, m_active_blocks, m_stop_holding, outside, handle>>

-----------------------------------------------------------------------------
(* allocate, after the collection.                                         *)

(* mempool.hpp:224: the collection or another thread filled the bin.       *)
CollectedIntoBin(t) ==
  /\ GilFree /\ call[t].pc = "gc"
  /\ PopBlockFromBin(call[t].size)
  /\ Return(t) /\ UNCHANGED outside

(* Mutant: the bin is not looked at again. *)
CollectedUnchecked(t) ==
  /\ GilFree /\ call[t].pc = "gc"
  /\ call' = [call EXCEPT ![t].pc = "evict"]
  /\ UNCHANGED <<m_container, m_held_blocks, m_active_blocks, m_stop_holding,
                 bytes, lost, outside, handle>>

CollectedElsewhere(t) ==
  /\ GilFree /\ call[t].pc = "gc"
  /\ m_container[BinNumber[call[t].size]] = <<>>
  /\ call' = [call EXCEPT ![t].pc = "evict"]
  /\ UNCHANGED <<m_container, m_held_blocks, m_active_blocks, m_stop_holding,
                 bytes, lost, outside, handle>>

(* Mutant: the bins are walked in ascending order. *)
SmallestFirst(k) ==
  m_container[k] # <<>> /\ \A j \in Bins : m_container[j] # <<>> => k <= j

(* try_to_free_memory: one block of the largest bin that has any.          *)
Largest(k) ==
  m_container[k] # <<>> /\ \A j \in Bins : m_container[j] # <<>> => j <= k

TryToFreeMemory(t) ==
  /\ call[t].pc = "evict"
  /\ \E k \in Bins :
       /\ Largest(k)
       /\ bytes' = [bytes EXCEPT ![Last(m_container[k])] = 0]
       /\ m_container' = [m_container EXCEPT ![k] = Front(@)]
  /\ m_held_blocks' = m_held_blocks - 1
  /\ call' = [call EXCEPT ![t].pc = "retry"]
  /\ UNCHANGED <<m_active_blocks, m_stop_holding, lost, outside, handle>>

(* mempool.hpp:232, the three outcomes of a retry.                         *)
RetryNew(t) ==
  /\ call[t].pc = "retry"
  /\ GetFromAllocator(call[t].size)
  /\ Return(t) /\ UNCHANGED outside

RetryOutOfMemory(t) ==
  /\ call[t].pc = "retry"
  /\ OutOfMemory(AllocSize[BinNumber[call[t].size]])
  /\ call' = [call EXCEPT ![t].pc = "evict"]
  /\ UNCHANGED <<m_container, m_held_blocks, m_active_blocks, m_stop_holding, outside, handle>>

RetryFails(t) ==
  /\ call[t].pc = "retry"
  /\ AllocatorThrows
  /\ Raise(t, "error")
  /\ UNCHANGED <<m_container, m_held_blocks, m_active_blocks, m_stop_holding, outside, handle>>

(* mempool.hpp:240: nothing is left to free.                               *)
GiveUp(t) ==
  /\ call[t].pc = "evict"
  /\ \A k \in Bins : m_container[k] = <<>>
  /\ Raise(t, "oom")
  /\ UNCHANGED <<m_container, m_held_blocks, m_active_blocks, m_stop_holding,
                 bytes, lost, outside, handle>>

-----------------------------------------------------------------------------

(* Mutant: m_stop_holding is not looked at. *)
FreeIgnoresStop(b, s) ==
  /\ m_active_blocks' = m_active_blocks - 1
  /\ m_container' = [m_container EXCEPT ![BinNumber[s]] = Append(@, b)]
  /\ m_held_blocks' = m_held_blocks + 1
  /\ UNCHANGED <<bytes, m_stop_holding, lost, outside, call>>

(* Mutant: inc_held_blocks is forgotten. *)
FreeUncounted(b, s) ==
  /\ m_active_blocks' = m_active_blocks - 1
  /\ IF m_stop_holding
     THEN bytes' = [bytes EXCEPT ![b] = 0] /\ UNCHANGED m_container
     ELSE /\ m_container' = [m_container EXCEPT ![BinNumber[s]] = Append(@, b)]
          /\ UNCHANGED bytes
  /\ UNCHANGED <<m_held_blocks, m_stop_holding, lost, outside, call>>

(* memory_pool::free: to the bin of the size that was asked for, or to the *)
(* device once the pool has stopped holding.                               *)
Free(b, s) ==
  /\ m_active_blocks' = m_active_blocks - 1
  /\ IF m_stop_holding
     THEN /\ bytes' = [bytes EXCEPT ![b] = 0]
          /\ UNCHANGED <<m_container, m_held_blocks>>
     ELSE /\ m_container' = [m_container EXCEPT ![BinNumber[s]] = Append(@, b)]
          /\ m_held_blocks' = m_held_blocks + 1
          /\ UNCHANGED bytes
  /\ UNCHANGED <<m_stop_holding, lost, outside, call>>

(* Mutant: m_valid stays true. *)
ReleaseStaysValid(h) ==
  /\ GilFree
  /\ handle[h].state = "valid"
  /\ Free(handle[h].m_ptr, handle[h].m_size)
  /\ UNCHANGED handle

(* pooled_allocation::free (PooledBuffer.release).  Of a handle that is    *)
(* not valid it throws and changes nothing.                                *)
Release(h) ==
  /\ GilFree
  /\ handle[h].state = "valid"
  /\ Free(handle[h].m_ptr, handle[h].m_size)
  /\ handle' = [handle EXCEPT ![h].state = "released"]

(* ~pooled_allocation, of the reference count or of the collector.         *)
DestroyValid(h) ==
  /\ GilFree
  /\ handle[h].state = "valid"
  /\ Free(handle[h].m_ptr, handle[h].m_size)
  /\ handle' = [handle EXCEPT ![h] = NoObject]

DestroyReleased(h) ==
  /\ GilFree
  /\ handle[h].state = "released"
  /\ handle' = [handle EXCEPT ![h] = NoObject]
  /\ UNCHANGED <<m_container, m_held_blocks, m_active_blocks, m_stop_holding,
                 bytes, lost, outside, call>>

-----------------------------------------------------------------------------

(* Mutant: the bins keep the blocks that were freed. *)
FreeAllHeldKeepsBins ==
  /\ bytes' = [b \in Blocks |-> IF b \in HeldSet THEN 0 ELSE bytes[b]]
  /\ m_held_blocks' = m_held_blocks - Cardinality(Entries)
  /\ UNCHANGED <<m_container, m_active_blocks, lost, outside, handle, call>>

(* free_held, also run by ~memory_pool when no handle is left.             *)
FreeAllHeld ==
  /\ bytes' = [b \in Blocks |-> IF b \in HeldSet THEN 0 ELSE bytes[b]]
  /\ m_container' = [k \in Bins |-> <<>>]
  /\ m_held_blocks' = m_held_blocks - Cardinality(Entries)
  /\ UNCHANGED <<m_active_blocks, lost, outside, handle, call>>

FreeHeld == GilFree /\ FreeAllHeld /\ UNCHANGED m_stop_holding

StopHolding == GilFree /\ m_stop_holding' = TRUE /\ FreeAllHeld

(* Other users of the device.                                              *)
UseOutside ==
  /\ GilFree
  /\ \E n \in OutsideUse : n # outside /\ Fits(n - outside) /\ outside' = n
  /\ UNCHANGED <<m_container, m_held_blocks, m_active_blocks, m_stop_holding,
                 bytes, lost, handle, call>>

CallStep(t) ==
  \/ \E s \in Requests : \/ AllocateFromBin(t, s)
                         \/ AllocateNew(t, s)
                         \/ AllocateOutOfMemory(t, s)
                         \/ AllocateFails(t, s)
  \/ CollectedIntoBin(t)
  \/ CollectedElsewhere(t)
  \/ TryToFreeMemory(t)
  \/ RetryNew(t)
  \/ RetryOutOfMemory(t)
  \/ RetryFails(t)
  \/ GiveUp(t)

Next ==
  \/ \E t \in Threads : CallStep(t)
  \/ \E h \in Handles : Release(h) \/ DestroyValid(h) \/ DestroyReleased(h)
  \/ FreeHeld
  \/ StopHolding
  \/ UseOutside

Spec == Init /\ [][Next]_vars

-----------------------------------------------------------------------------
TypeOK ==
  /\ m_container \in [Bins -> Seq(Blocks)]
  /\ m_held_blocks \in Nat
  /\ m_active_blocks \in Nat
  /\ m_stop_holding \in BOOLEAN
  /\ bytes \in [Blocks -> Nat]
  /\ lost \in 0 .. MaxLost
  /\ outside \in OutsideUse \cup {0}
  /\ handle \in [Handles -> [state : {"none", "valid", "released"},
                             m_ptr : Blocks \cup {NoBlock}, m_size : Requests \cup {0}]]
  /\ call \in [Threads -> [pc : {"idle", "gc", "evict", "retry"},
                           size : Requests \cup {0}, raised : {"no", "oom", "error"}]]

(* No block is in two places of the bins, in the hands of two handles, or  *)
(* both held and in use.                                                   *)
NoBlockTwice ==
  /\ \A e, f \in Entries : m_container[e[1]][e[2]] = m_container[f[1]][f[2]] => e = f
  /\ \A g, h \in ValidSet : handle[g].m_ptr = handle[h].m_ptr => g = h
  /\ HeldSet \cap OwnedSet = {}

(* The device allocations of the pool are exactly the blocks it holds and  *)
(* those in use: none is freed while in use, none is forgotten.            *)
LiveBlocksAccountedFor == {b \in Blocks : bytes[b] > 0} = HeldSet \cup OwnedSet

BlockOwnershipExact == NoBlockTwice /\ LiveBlocksAccountedFor

(* Blocks of a bin are interchangeable, and a block in use has the size of *)
(* the bin of its request, so it is as large as the request: what free     *)
(* (mempool.hpp:254) relies on when it recomputes the bin from m_size.     *)
BinsInterchangeable ==
  /\ \A k \in Bins : \A b \in InBin(k) : bytes[b] = AllocSize[k]
  /\ \A h \in ValidSet : /\ bytes[handle[h].m_ptr] = AllocSize[BinNumber[handle[h].m_size]]
                         /\ bytes[handle[h].m_ptr] >= handle[h].m_size

(* held_blocks and active_blocks (doc/tools.rst, the attributes of         *)
(* MemoryPool) count what they say; mempool.hpp:285 asserts a part of it.  *)
CountersExact ==
  /\ m_held_blocks = Cardinality(Entries)
  /\ m_active_blocks = Cardinality(ValidSet)

(* After stop_holding nothing is held, whatever calls were under way.      *)
StoppedPoolHoldsNothing == m_stop_holding => HeldSet = {}

(* The retry loop destroys held blocks only while none of them could have  *)
(* served the request: the bin is looked at again after the collection     *)
(* (mempool.hpp:224), and nobody fills it during the loop.                 *)
NoUsableBlockEvicted ==
  \A t \in Threads : call[t].pc \in {"evict", "retry"} =>
     m_container[BinNumber[call[t].size]] = <<>>

(* "free largest stuff first" (mempool.hpp:302).                           *)
EvictsLargestFirst ==
  [][\A b \in HeldSet \ HeldSet' :
       (\E t \in Threads : call[t].pc = "evict") => \A c \in HeldSet : bytes[c] <= bytes[b]]_vars

(* The abstract promise.                                                   *)
Promise == INSTANCE BlockOwnership WITH
  BlockSizes <- {AllocSize[k] : k \in Bins},
  grant      <- [h \in Handles |-> IF handle[h].state = "valid" THEN handle[h].m_ptr ELSE NoBlock],
  stopped    <- m_stop_holding

OwnershipPromise == Promise!Spec

(* doc/tools.rst:20-22: "The pool reacts appropriately to out-of-memory    *)
(* conditions as long as all memory allocations are made through it": an   *)
(* allocation is refused only if the device has no room for it.            *)
OutOfMemoryIsGenuine ==
  [][\A t \in Threads :
       (call[t].pc = "evict" /\ call'[t].raised = "oom")
          => ~Fits(AllocSize[BinNumber[call[t].size]])]_vars
=============================================================================
