------------------------------- MODULE Transfers -------------------------------
(***************************************************************************)
(* enqueue_copy and the life of the host memory that it copies from or to: *)
(* which function of the wrapper does a copy, the nanny events that keep a *)
(* ward until the copy is done, and the mapping of shared memory.          *)
(*                                                                         *)
(* Threads run Python one at a time; a call of the driver lets another     *)
(* thread run, unless its caller keeps the interpreter lock.               *)
(***************************************************************************)
EXTENDS Integers, Sequences, FiniteSets

CONSTANTS
  Workers,        \* threads of the program
  HostArrays,     \* arrays in host memory
  MaxTransfers    \* bound on the copies that are enqueued
ASSUME TransfersAssumption == MaxTransfers \in Nat

Parties == {"buffer", "image", "other_mem", "svm", "host"}
Mems    == {"buffer", "image", "other_mem"}

VARIABLES
  held,        \* the arrays that the program refers to
  transfers,   \* sequence of the copies enqueued
  user_event,  \* a UserEvent that copies may wait for: is it complete?
  lock,        \* the worker that keeps the interpreter lock in a driver's call, if any
  worker,      \* workers -> what each does
  map          \* a map of shared memory: its object and what was enqueued

transfervars == <<held, transfers, user_event, lock, worker, map>>

Free_ == [at |-> "free"]

-----------------------------------------------------------------------------
(* enqueue_copy: the function that copies from src to dest.                *)
Dispatch(dest, src) ==
  CASE dest = "buffer" /\ src = "buffer" -> "_enqueue_copy_buffer"
    [] dest = "buffer" /\ src = "image"  -> "_enqueue_copy_image_to_buffer"
    [] dest = "buffer" /\ src \notin Mems -> "_enqueue_write_buffer"
    [] dest = "image" /\ src = "buffer"  -> "_enqueue_copy_buffer_to_image"
    [] dest = "image" /\ src = "image"   -> "_enqueue_copy_image"
    [] dest = "image" /\ src \notin Mems -> "_enqueue_write_image"
    [] dest = "svm" /\ src \notin Mems   -> "_enqueue_svm_memcpy"
    [] dest = "host" /\ src = "buffer"   -> "_enqueue_read_buffer"
    [] dest = "host" /\ src = "image"    -> "_enqueue_read_image"
    [] dest = "host" /\ src = "svm"      -> "_enqueue_svm_memcpy"
    [] OTHER -> "raised"   \* between two host arrays, and other memory objects

(* Of the host's memory, these functions have a py_buffer_wrapper.         *)
Nannies == {"_enqueue_write_buffer", "_enqueue_write_image",
            "_enqueue_read_buffer", "_enqueue_read_image"}
(* These can wait for the copy before they return; the other copies        *)
(* between memory objects have no is_blocking.                             *)
MayBlock == Nannies \cup {"_enqueue_svm_memcpy"}
(* Copies of buffers wait without the interpreter lock; copies of images   *)
(* and of shared memory keep it.                                           *)
CallsThreaded == {"_enqueue_write_buffer", "_enqueue_read_buffer"}

-----------------------------------------------------------------------------
TransfersInit ==
  /\ held = HostArrays /\ transfers = << >> /\ user_event = FALSE /\ lock = {}
  /\ worker = [w \in Workers |-> Free_]
  /\ map = [svm |-> TRUE, object |-> "user", unmapped |-> 0]

Python(w) == lock = {} /\ worker[w].at = "free"
IsDone(i) == transfers[i].status = "done"

(* A copy begins: the ward is taken, the driver is asked.  A copy that     *)
(* needs memory the driver has not is tried again after garbage collection *)
(* (PYOPENCL_RETRY_IF_MEM_ERROR).                                          *)
BeginCopy(w, dest, src, array, is_blocking, waits) ==
  LET function == Dispatch(dest, src)
      nanny    == function \in Nannies
  IN
  /\ Python(w) /\ Len(transfers) < MaxTransfers /\ function # "raised"
  /\ array \in held /\ (is_blocking => function \in MayBlock)
  /\ transfers' = Append(transfers,
       [nanny |-> nanny, array |-> array, ward |-> nanny, waits |-> waits,
        status |-> "queued", event |-> IF is_blocking THEN "driver" ELSE "user"])
  /\ worker' = IF is_blocking THEN [worker EXCEPT ![w] = [at |-> "driver", of |-> Len(transfers')]] ELSE worker
  /\ lock' = IF is_blocking /\ function \notin CallsThreaded THEN {w} ELSE {}
  /\ UNCHANGED <<held, user_event, map>>

BlockingCopyEnds(w) ==
  LET i == worker[w].of IN
  /\ worker[w].at = "driver" /\ IsDone(i) /\ lock \subseteq {w}
  /\ transfers' = [transfers EXCEPT ![i].event = "user"]
  /\ worker' = [worker EXCEPT ![w] = Free_]
  /\ lock' = {}
  /\ UNCHANGED <<held, user_event, map>>

(* The device executes a copy, in any order.                               *)
CompleteCopy(i) ==
  /\ transfers[i].status = "queued" /\ (transfers[i].waits => user_event)
  /\ transfers' = [transfers EXCEPT ![i].status = "done"]
  /\ UNCHANGED <<held, user_event, lock, worker, map>>

SetUserEvent(w) ==
  /\ Python(w) /\ ~user_event /\ user_event' = TRUE
  /\ UNCHANGED <<held, transfers, lock, worker, map>>

-----------------------------------------------------------------------------
(* nanny_event::wait: without the lock, then the ward is let go.           *)
BeginWait(w, i) ==
  /\ Python(w) /\ transfers[i].event = "user"
  /\ worker' = [worker EXCEPT ![w] = [at |-> "wait", of |-> i]]
  /\ UNCHANGED <<held, transfers, user_event, lock, map>>
WaitEnds(w) ==
  LET i == worker[w].of IN
  /\ worker[w].at = "wait" /\ IsDone(i) /\ lock = {}
  /\ transfers' = [transfers EXCEPT ![i].ward = FALSE]
  /\ worker' = [worker EXCEPT ![w] = Free_]
  /\ UNCHANGED <<held, user_event, lock, map>>

(* Mutant: the destructor does not wait for the copy. *)
DropEventWithoutWait(w, i) ==
  /\ Python(w) /\ transfers[i].event \in {"user", "garbage"}
  /\ \A u \in Workers : worker[u].at = "wait" => worker[u].of # i
  /\ transfers' = [transfers EXCEPT ![i].event = "gone", ![i].ward = FALSE]
  /\ UNCHANGED <<held, user_event, lock, worker, map>>

(* The last reference to an event goes, or the garbage collector finds it: *)
(* ~nanny_event waits with the lock.  A thread that waits for the event    *)
(* refers to it.                                                           *)
DropEvent(w, i) ==
  /\ Python(w) /\ transfers[i].event \in {"user", "garbage"}
  /\ \A u \in Workers : worker[u].at = "wait" => worker[u].of # i
  /\ IF transfers[i].nanny
     THEN /\ lock' = {w}
          /\ worker' = [worker EXCEPT ![w] = [at |-> "cleanup", of |-> i]]
          /\ transfers' = [transfers EXCEPT ![i].event = "dying"]
     ELSE /\ transfers' = [transfers EXCEPT ![i].event = "gone"]
          /\ UNCHANGED <<lock, worker>>
  /\ UNCHANGED <<held, user_event, map>>
CleanupEnds(w) ==
  LET i == worker[w].of IN
  /\ worker[w].at = "cleanup" /\ IsDone(i)
  /\ transfers' = [transfers EXCEPT ![i].event = "gone", ![i].ward = FALSE]
  /\ worker' = [worker EXCEPT ![w] = Free_] /\ lock' = {}
  /\ UNCHANGED <<held, user_event, map>>

(* An event that is part of a cycle lives on, unreachable.                 *)
LoseEvent(w, i) ==
  /\ Python(w) /\ transfers[i].event = "user"
  /\ \A u \in Workers : worker[u].at = "wait" => worker[u].of # i
  /\ transfers' = [transfers EXCEPT ![i].event = "garbage"]
  /\ UNCHANGED <<held, user_event, lock, worker, map>>

DropArray(w, a) ==
  /\ Python(w) /\ a \in held
  /\ held' = held \ {a}
  /\ UNCHANGED <<transfers, user_event, lock, worker, map>>

-----------------------------------------------------------------------------
(* SVMMap.release: the unmapping is enqueued, then svm is forgotten, so    *)
(* that a second release (of __exit__) raises.  It may fail before.        *)
Released(m, enqueued) ==
  IF m.svm /\ enqueued THEN [m EXCEPT !.svm = FALSE, !.unmapped = @ + 1] ELSE m
ReleaseMap(w, enqueued) ==
  /\ Python(w) /\ map.object = "user"
  /\ map' = Released(map, enqueued)
  /\ UNCHANGED <<held, transfers, user_event, lock, worker>>
(* __del__ releases what has not been released, and cannot try again.      *)
DropMap(w, enqueued) ==
  /\ Python(w) /\ map.object = "user"
  /\ map' = [Released(map, enqueued) EXCEPT !.object = IF map.svm /\ ~enqueued THEN "failed" ELSE "gone"]
  /\ UNCHANGED <<held, transfers, user_event, lock, worker>>

TransfersNext ==
  \/ \E w \in Workers :
       \/ \E dest, src \in Parties, a \in HostArrays, b, c \in BOOLEAN : BeginCopy(w, dest, src, a, b, c)
       \/ BlockingCopyEnds(w) \/ SetUserEvent(w) \/ WaitEnds(w) \/ CleanupEnds(w)
       \/ \E i \in DOMAIN transfers : BeginWait(w, i) \/ DropEvent(w, i) \/ LoseEvent(w, i)
       \/ \E a \in HostArrays : DropArray(w, a)
       \/ \E e \in BOOLEAN : ReleaseMap(w, e) \/ DropMap(w, e)
  \/ \E i \in DOMAIN transfers : CompleteCopy(i)

TransfersSpec == TransfersInit /\ [][TransfersNext]_transfervars

-----------------------------------------------------------------------------
(* The memory of an array that a copy with a nanny event reads or writes   *)
(* is alive until the device is done, whatever the program lets go of, in  *)
(* whatever order, while other threads wait for the same event.  A map     *)
(* of shared memory is unmapped once, when it is released or dropped, and  *)
(* stays mapped only where the driver refused.  Copies of shared memory    *)
(* return a plain event and have no ward: for them the program keeps the   *)
(* array.                                                                  *)
HostMemoryIsKept ==
  /\ \A i \in DOMAIN transfers :
       transfers[i].nanny /\ ~IsDone(i) => transfers[i].ward \/ transfers[i].array \in held
  /\ map.unmapped <= 1
  /\ map.object = "gone" => map.unmapped = 1
=============================================================================
