--------------------------- MODULE EventCallback ---------------------------
(***************************************************************************)
(* event::set_callback (src/src/wrap_cl.hpp): how a Python callable is run *)
(* when an OpenCL event completes.                                         *)
(*                                                                         *)
(* Every call c of set_callback involves three threads.  The registering   *)
(* Python thread (reg) starts a notification thread (ntf) and then hands   *)
(* evt_callback to the OpenCL runtime.  When the event is complete, the    *)
(* runtime runs evt_callback (drv), which wakes up the notification        *)
(* thread, which takes the GIL, runs the Python callable and deletes       *)
(* cb_info.  The runtime may run evt_callback on a thread of its own or on *)
(* a Python thread that is inside clSetEventCallback or                    *)
(* clSetUserEventStatus and holds the GIL: neither call releases it.       *)
(***************************************************************************)
EXTENDS Naturals, FiniteSets

CONSTANT Callbacks   \* the calls of set_callback on one event

VARIABLES
  gil,        \* who holds the GIL
  complete,   \* the event is complete
  setter,     \* the Python thread that may call UserEvent.set_status
  reg,        \* [Callbacks -> where the registering thread is]
  drv,        \* [Callbacks -> where the runtime's evt_callback is]
  host,       \* [Callbacks -> the thread that runs it]
  ntf,        \* [Callbacks -> where the notification thread is]
  info,       \* [Callbacks -> life of cb_info]
  m_mutex,    \* [Callbacks -> who holds cb_info->m_mutex]
  genuine,    \* [Callbacks -> m_notify_thread_wakeup_is_genuine]
  succeeded,  \* [Callbacks -> m_set_callback_suceeded]
  status,     \* [Callbacks -> m_command_exec_status]
  calls,      \* [Callbacks -> how often the Python callable was called]
  crashed     \* the process died of a use of freed memory

vars == <<gil, complete, setter, reg, drv, host, ntf, info, m_mutex,
          genuine, succeeded, status, calls, crashed>>

Free      == <<"free">>
Py(c)     == <<"py", c>>       \* the thread that registers c
Notif(c)  == <<"notif", c>>    \* the notification thread of c
SetterThr == <<"setter">>

GilFree == gil = Free

Init ==
  /\ gil = Free
  /\ complete = FALSE
  /\ setter = "idle"
  /\ reg = [c \in Callbacks |-> "idle"]
  /\ drv = [c \in Callbacks |-> "idle"]
  /\ host = [c \in Callbacks |-> "none"]
  /\ ntf = [c \in Callbacks |-> "none"]
  /\ info = [c \in Callbacks |-> "none"]
  /\ m_mutex = [c \in Callbacks |-> "free"]
  /\ genuine = [c \in Callbacks |-> FALSE]
  /\ succeeded = [c \in Callbacks |-> TRUE]
  /\ status = [c \in Callbacks |-> "unset"]
  /\ calls = [c \in Callbacks |-> 0]
  /\ crashed = FALSE

-----------------------------------------------------------------------------
(* The registering thread; it holds the GIL from Spawn to its last step.   *)

(* Lines 1615-1660: cb_info, the notification thread, its detachment.      *)
Spawn(c) ==
  /\ reg[c] = "idle" /\ GilFree
  /\ gil' = Py(c)
  /\ reg' = [reg EXCEPT ![c] = "spawned"]
  /\ info' = [info EXCEPT ![c] = "alive"]
  /\ ntf' = [ntf EXCEPT ![c] = "locking"]
  /\ UNCHANGED <<complete, setter, drv, host, m_mutex, genuine, succeeded, status, calls, crashed>>

(* clSetEventCallback takes the callback.  If the event is complete the    *)
(* runtime may run evt_callback before it returns.                         *)
Register(c) ==
  /\ reg[c] = "spawned"
  /\ reg' = [reg EXCEPT ![c] = "in_call"]
  /\ drv' = [drv EXCEPT ![c] = "registered"]
  /\ \/ host' = [host EXCEPT ![c] = "runtime"]
     \/ complete /\ host' = [host EXCEPT ![c] = "reg"]
  /\ UNCHANGED <<gil, complete, setter, ntf, info, m_mutex, genuine, succeeded, status, calls, crashed>>

RegisterReturns(c) ==
  /\ reg[c] = "in_call"
  /\ host[c] = "reg" => drv[c] = "done"
  /\ reg' = [reg EXCEPT ![c] = "returned"]
  /\ gil' = Free
  /\ UNCHANGED <<complete, setter, drv, host, ntf, info, m_mutex, genuine, succeeded, status, calls, crashed>>

(* clSetEventCallback reports an error: lines 1667-1677.                   *)
RegisterFails(c) ==
  /\ reg[c] = "spawned"
  /\ reg' = [reg EXCEPT ![c] = "failed"]
  /\ UNCHANGED <<gil, complete, setter, drv, host, ntf, info, m_mutex, genuine, succeeded, status, calls, crashed>>

(* Mutant: m_notify_thread_wakeup_is_genuine is not set. *)
FailureStoresUnflagged(c) ==
  /\ reg[c] = "failed" /\ m_mutex[c] = "free"
  /\ succeeded' = [succeeded EXCEPT ![c] = FALSE]
  /\ reg' = [reg EXCEPT ![c] = "notifying"]
  /\ UNCHANGED <<gil, complete, setter, drv, host, ntf, info, m_mutex, genuine, status, calls, crashed>>

(* Mutant: the GIL is given back before the handler has notified. *)
FailureStoresDroppingGil(c) ==
  /\ reg[c] = "failed" /\ m_mutex[c] = "free"
  /\ succeeded' = [succeeded EXCEPT ![c] = FALSE]
  /\ genuine' = [genuine EXCEPT ![c] = TRUE]
  /\ reg' = [reg EXCEPT ![c] = "notifying"]
  /\ gil' = Free
  /\ UNCHANGED <<complete, setter, drv, host, ntf, info, m_mutex, status, calls, crashed>>

FailureStores(c) ==
  /\ reg[c] = "failed" /\ m_mutex[c] = "free"
  /\ succeeded' = [succeeded EXCEPT ![c] = FALSE]
  /\ genuine' = [genuine EXCEPT ![c] = TRUE]
  /\ reg' = [reg EXCEPT ![c] = "notifying"]
  /\ UNCHANGED <<gil, complete, setter, drv, host, ntf, info, m_mutex, status, calls, crashed>>

(* m_condvar.notify_one(): wakes the notification thread if it waits.      *)
NotifyOne(c) == ntf' = [ntf EXCEPT ![c] = IF @ = "waiting" THEN "locking" ELSE @]

FailureNotifies(c) ==
  /\ reg[c] = "notifying"
  /\ NotifyOne(c)
  /\ reg' = [reg EXCEPT ![c] = "threw"]
  /\ gil' = Free
  /\ UNCHANGED <<complete, setter, drv, host, info, m_mutex, genuine, succeeded, status, calls, crashed>>

-----------------------------------------------------------------------------
(* The event completes on the device, or a Python thread sets the status   *)
(* of a user event and the runtime runs some callbacks in that call.       *)
DeviceCompletes ==
  /\ ~complete
  /\ complete' = TRUE
  /\ UNCHANGED <<gil, setter, reg, drv, host, ntf, info, m_mutex, genuine, succeeded, status, calls, crashed>>

SetStatus ==
  /\ setter = "idle" /\ GilFree /\ ~complete
  /\ complete' = TRUE
  /\ setter' = "in_call"
  /\ gil' = SetterThr
  /\ \E S \in SUBSET {c \in Callbacks : drv[c] = "registered"} :
       host' = [c \in Callbacks |-> IF c \in S THEN "setter" ELSE host[c]]
  /\ UNCHANGED <<reg, drv, ntf, info, m_mutex, genuine, succeeded, status, calls, crashed>>

SetStatusReturns ==
  /\ setter = "in_call"
  /\ \A c \in Callbacks : host[c] = "setter" => drv[c] = "done"
  /\ setter' = "returned"
  /\ gil' = Free
  /\ UNCHANGED <<complete, reg, drv, host, ntf, info, m_mutex, genuine, succeeded, status, calls, crashed>>

-----------------------------------------------------------------------------

(* Mutant: m_notify_thread_wakeup_is_genuine is not set. *)
DriverStoresUnflagged(c) ==
  /\ drv[c] = "registered" /\ complete /\ m_mutex[c] = "free"
  /\ status' = [status EXCEPT ![c] = "complete"]
  /\ drv' = [drv EXCEPT ![c] = "notifying"]
  /\ UNCHANGED <<gil, complete, setter, reg, host, ntf, info, m_mutex, genuine, succeeded, calls, crashed>>

(* Mutant: evt_callback waits for the GIL. *)
DriverStoresUnderGil(c) ==
  /\ drv[c] = "registered" /\ complete /\ m_mutex[c] = "free" /\ GilFree
  /\ status' = [status EXCEPT ![c] = "complete"]
  /\ genuine' = [genuine EXCEPT ![c] = TRUE]
  /\ drv' = [drv EXCEPT ![c] = "notifying"]
  /\ UNCHANGED <<gil, complete, setter, reg, host, ntf, info, m_mutex, succeeded, calls, crashed>>

(* evt_callback, lines 1596-1607, on whatever thread hosts it.             *)
DriverStores(c) ==
  /\ drv[c] = "registered" /\ complete /\ m_mutex[c] = "free"
  /\ status' = [status EXCEPT ![c] = "complete"]
  /\ genuine' = [genuine EXCEPT ![c] = TRUE]
  /\ drv' = [drv EXCEPT ![c] = "notifying"]
  /\ UNCHANGED <<gil, complete, setter, reg, host, ntf, info, m_mutex, succeeded, calls, crashed>>

(* The mutex is free again here, so cb_info may be gone by now.           *)
DriverNotifies(c) ==
  /\ drv[c] = "notifying" /\ info[c] = "alive"
  /\ NotifyOne(c)
  /\ drv' = [drv EXCEPT ![c] = "done"]
  /\ UNCHANGED <<gil, complete, setter, reg, host, info, m_mutex, genuine, succeeded, status, calls, crashed>>

(* notify_one on a deleted cb_info is undefined: nothing happens, or the   *)
(* process dies, or another condition variable that took the memory is     *)
(* notified, which SpuriousWakeup covers.                                  *)
DriverNotifiesFreed(c) ==
  /\ drv[c] = "notifying" /\ info[c] = "deleted"
  /\ drv' = [drv EXCEPT ![c] = "done"]
  /\ crashed' \in BOOLEAN
  /\ UNCHANGED <<gil, complete, setter, reg, host, ntf, info, m_mutex, genuine, succeeded, status, calls>>

-----------------------------------------------------------------------------
(* The notification thread, lines 1621-1655.                               *)
NotifLocks(c) ==
  /\ ntf[c] = "locking" /\ m_mutex[c] = "free"
  /\ m_mutex' = [m_mutex EXCEPT ![c] = "notif"]
  /\ ntf' = [ntf EXCEPT ![c] = "testing"]
  /\ UNCHANGED <<gil, complete, setter, reg, drv, host, info, genuine, succeeded, status, calls, crashed>>

(* The predicate of m_condvar.wait: wait with the mutex released ...       *)
NotifWaits(c) ==
  /\ ntf[c] = "testing" /\ ~genuine[c]
  /\ m_mutex' = [m_mutex EXCEPT ![c] = "free"]
  /\ ntf' = [ntf EXCEPT ![c] = "waiting"]
  /\ UNCHANGED <<gil, complete, setter, reg, drv, host, info, genuine, succeeded, status, calls, crashed>>

(* Mutant: m_condvar.wait without its predicate. *)
NotifProceedsAnyway(c) ==
  /\ ntf[c] = "testing"
  /\ m_mutex' = [m_mutex EXCEPT ![c] = "free"]
  /\ ntf' = [ntf EXCEPT ![c] = "woken"]
  /\ UNCHANGED <<gil, complete, setter, reg, drv, host, info, genuine, succeeded, status, calls, crashed>>

(* ... or go on, releasing the mutex before the GIL is asked for.          *)
NotifProceeds(c) ==
  /\ ntf[c] = "testing" /\ genuine[c]
  /\ m_mutex' = [m_mutex EXCEPT ![c] = "free"]
  /\ ntf' = [ntf EXCEPT ![c] = "woken"]
  /\ UNCHANGED <<gil, complete, setter, reg, drv, host, info, genuine, succeeded, status, calls, crashed>>

SpuriousWakeup(c) ==
  /\ ntf[c] = "waiting"
  /\ ntf' = [ntf EXCEPT ![c] = "locking"]
  /\ UNCHANGED <<gil, complete, setter, reg, drv, host, info, m_mutex, genuine, succeeded, status, calls, crashed>>

NotifTakesGil(c) ==
  /\ ntf[c] = "woken" /\ GilFree
  /\ gil' = Notif(c)
  /\ ntf' = [ntf EXCEPT ![c] = "in_python"]
  /\ UNCHANGED <<complete, setter, reg, drv, host, info, m_mutex, genuine, succeeded, status, calls, crashed>>

(* Mutant: the GIL is given back before cb_info is deleted. *)
NotifCallsDroppingGil(c) ==
  /\ ntf[c] = "in_python"
  /\ calls' = IF succeeded[c] THEN [calls EXCEPT ![c] = @ + 1] ELSE calls
  /\ ntf' = [ntf EXCEPT ![c] = "deleting"]
  /\ gil' = Free
  /\ UNCHANGED <<complete, setter, reg, drv, host, info, m_mutex, genuine, succeeded, status, crashed>>

(* Mutant: a callable that raises is called again. *)
NotifCallsAgain(c) ==
  /\ ntf[c] = "in_python"
  /\ calls' = IF succeeded[c] THEN [calls EXCEPT ![c] = @ + 1] ELSE calls
  /\ ntf' \in {ntf, [ntf EXCEPT ![c] = "deleting"]}
  /\ UNCHANGED <<gil, complete, setter, reg, drv, host, info, m_mutex, genuine, succeeded, status, crashed>>

(* The callable runs unless registering failed; an exception of it is      *)
(* printed and ignored.                                                    *)
NotifCalls(c) ==
  /\ ntf[c] = "in_python"
  /\ calls' = IF succeeded[c] THEN [calls EXCEPT ![c] = @ + 1] ELSE calls
  /\ ntf' = [ntf EXCEPT ![c] = "deleting"]
  /\ UNCHANGED <<gil, complete, setter, reg, drv, host, info, m_mutex, genuine, succeeded, status, crashed>>

NotifDeletes(c) ==
  /\ ntf[c] = "deleting"
  /\ info' = [info EXCEPT ![c] = "deleted"]
  /\ gil' = Free
  /\ ntf' = [ntf EXCEPT ![c] = "gone"]
  /\ UNCHANGED <<complete, setter, reg, drv, host, m_mutex, genuine, succeeded, status, calls, crashed>>

-----------------------------------------------------------------------------
RegStep(c) == Register(c) \/ RegisterReturns(c) \/ RegisterFails(c) \/ FailureNotifies(c)
NotifStep(c) == \/ NotifLocks(c) \/ NotifWaits(c) \/ NotifProceeds(c)
                \/ NotifTakesGil(c) \/ NotifCalls(c) \/ NotifDeletes(c)
DriverEnds(c) == DriverNotifies(c) \/ DriverNotifiesFreed(c)

Next ==
  /\ ~crashed
  /\ \/ \E c \in Callbacks :
          \/ Spawn(c) \/ RegStep(c) \/ FailureStores(c)
          \/ DriverStores(c) \/ DriverEnds(c)
          \/ NotifStep(c) \/ SpuriousWakeup(c)
     \/ DeviceCompletes
     \/ SetStatus
     \/ SetStatusReturns

(* A thread that can go on does.  The two critical sections compete for    *)
(* m_mutex with a notification thread that the operating system may wake   *)
(* spuriously any number of times: they get strong fairness (a mutex that  *)
(* is released again and again is obtained).  Nothing says that set_callback *)
(* or set_status is called or that the device ever completes the event.    *)
Fairness ==
  /\ \A c \in Callbacks :
       /\ WF_vars(~crashed /\ RegStep(c))
       /\ WF_vars(~crashed /\ DriverEnds(c))
       /\ WF_vars(~crashed /\ NotifStep(c))
       /\ SF_vars(~crashed /\ FailureStores(c))
       /\ SF_vars(~crashed /\ DriverStores(c))
  /\ WF_vars(~crashed /\ SetStatusReturns)

Spec == Init /\ [][Next]_vars /\ Fairness

-----------------------------------------------------------------------------
(* Every variable keeps its type, and a thread holds the GIL exactly while *)
(* it is where the code runs under it: the registering thread from the     *)
(* start of set_callback until it returns or has thrown, the setter inside *)
(* set_status, and a notification thread between gil_scoped_acquire and    *)
(* the deletion of cb_info.                                                *)
TypeOK ==
  /\ gil \in {Free, SetterThr} \cup {Py(c) : c \in Callbacks} \cup {Notif(c) : c \in Callbacks}
  /\ complete \in BOOLEAN /\ crashed \in BOOLEAN
  /\ setter \in {"idle", "in_call", "returned"}
  /\ reg \in [Callbacks -> {"idle", "spawned", "in_call", "returned", "failed", "notifying", "threw"}]
  /\ drv \in [Callbacks -> {"idle", "registered", "notifying", "done"}]
  /\ host \in [Callbacks -> {"none", "runtime", "reg", "setter"}]
  /\ ntf \in [Callbacks -> {"none", "locking", "testing", "waiting", "woken",
                            "in_python", "deleting", "gone"}]
  /\ info \in [Callbacks -> {"none", "alive", "deleted"}]
  /\ m_mutex \in [Callbacks -> {"free", "notif"}]
  /\ genuine \in [Callbacks -> BOOLEAN]
  /\ succeeded \in [Callbacks -> BOOLEAN]
  /\ status \in [Callbacks -> {"unset", "complete"}]
  /\ calls \in [Callbacks -> 0..1]
  /\ setter = "in_call" <=> gil = SetterThr
  /\ \A c \in Callbacks :
       /\ reg[c] \in {"spawned", "in_call", "failed", "notifying"} <=> gil = Py(c)
       /\ ntf[c] \in {"in_python", "deleting"} <=> gil = Notif(c)

(* The callable of a set_callback runs at most once, only after the event  *)
(* completed, with the status that the runtime delivered, and never when   *)
(* clSetEventCallback failed: whatever spurious wakeups and whichever of   *)
(* completion and registration comes first (lines 1624-1649, 1663-1677).   *)
CalledOnceWhenComplete ==
  \A c \in Callbacks :
    calls[c] # 0 => /\ calls[c] = 1
                    /\ complete
                    /\ status[c] = "complete"
                    /\ reg[c] \in {"in_call", "returned"}

(* cb_info is not deleted while the registering thread may still touch it  *)
(* (it does so after the thread was detached, lines 1667-1676) nor before  *)
(* the runtime's callback, once accepted, has run its critical section.    *)
InfoOutlivesRegistration ==
  \A c \in Callbacks :
    info[c] = "deleted" => /\ reg[c] \notin {"spawned", "failed", "notifying"}
                           /\ drv[c] # "registered"

(* The Python references in cb_info are dropped, and the callable is run,  *)
(* by the notification thread while it holds the GIL (lines 1633-1653).   *)
PythonOnlyUnderGil ==
  [][\A c \in Callbacks :
       (info[c] = "alive" /\ info'[c] = "deleted") \/ calls'[c] # calls[c] => gil = Notif(c)]_vars

(* An accepted callback of a completed event is eventually called: no      *)
(* wakeup is lost between the notification thread's test and its wait      *)
(* (lines 1624-1627 against 1599-1606).                                    *)
CompletionIsReported ==
  \A c \in Callbacks : (complete /\ drv[c] = "registered") ~> (calls[c] = 1 \/ crashed)

(* A set_callback that throws does not leave its thread and the Python     *)
(* references behind (lines 1667-1676).                                    *)
FailureReclaimsThread ==
  \A c \in Callbacks : reg[c] = "failed" ~> (info[c] = "deleted" \/ crashed)

(* Whoever holds the GIL gives it back: running evt_callback inside        *)
(* clSetEventCallback or clSetUserEventStatus, by a thread that holds the  *)
(* GIL, cannot deadlock (a thread is used because "we're able to wait on   *)
(* acquiring the GIL. (which we can't in the callback)", lines 1612-1613). *)
GilComesBack == (gil # Free) ~> (gil = Free \/ crashed)

(* "cb_info ready for deletion" (line 1629): when the notification thread  *)
(* has left m_condvar.wait, nobody uses cb_info any more.  evt_callback    *)
(* still calls m_condvar.notify_one() after it gave the mutex back.        *)
DeletedWhenUnused ==
  \A c \in Callbacks : info[c] = "deleted" => drv[c] # "notifying" /\ reg[c] # "notifying"
=============================================================================
