--------------------------- MODULE CompilerCache ---------------------------
(***************************************************************************)
(* The on-disk cache of built programs (src/pyopencl/cache.py): processes  *)
(* that build the same source for the same devices, sharing a cache        *)
(* directory that is guarded by a lock file.                               *)
(*                                                                         *)
(* The source includes one header.  Editors change the header at any time; *)
(* processes die (and leave their lock file behind) or are interrupted by  *)
(* the user (KeyboardInterrupt is no Exception: the lock is released, but  *)
(* error_clean_up is skipped) at any step.  Everything a step does under   *)
(* the lock is visible to the others only if the process stops there, so a *)
(* step ends wherever stopping leaves other files behind.                  *)
(***************************************************************************)
EXTENDS Naturals, FiniteSets, FiniteSetsExt

CONSTANTS Procs,       \* processes
          NumDevices,  \* devices of the context, one cache key each
          Contents,    \* what the header may contain
          MaxEdits,    \* bound: changes of the header
          MaxFaults,   \* bound: failing writes, processes that crash or are interrupted
          MaxCalls     \* bound: calls of create_built_program_from_source_cached

ASSUME CacheAssumption ==
  /\ NumDevices \in Nat \ {0}
  /\ Contents # {}
  /\ {"none", "cut"} \cap Contents = {}
  /\ {"free", "dead"} \cap Procs = {}
  /\ MaxEdits \in Nat /\ MaxFaults \in Nat /\ MaxCalls \in Nat

VARIABLES
  lock,    \* the lock file: "free", its owner, or "dead" if the owner died
  entry,   \* [Keys -> the directory of the key and its two files]
  header,  \* the header file: content and st_mtime
  call,    \* [Procs -> the call in progress, or the outcome of the last]
  tainted, \* history: some entry may hold files that do not belong together
  used     \* how much of each bound was used

vars == <<lock, entry, header, call, tainted, used>>

Keys == 1..NumDevices

Info(content, mtime) == [state |-> "ok", content |-> content, mtime |-> mtime]
NoInfo == [state |-> "none"]
Absent == [dir |-> FALSE, binary |-> "none", info |-> NoInfo]

(* out: how the call ended; source_failed: a build from source failed in   *)
(* it; seen: what the header contained since it began.                     *)
Quiet == [pc |-> "idle", k |-> 1, todo |-> {}, built |-> "none", hash |-> "none", created |-> {},
          got |-> [k \in Keys |-> "none"], raced |-> FALSE, seen |-> {},
          source_failed |-> FALSE, out |-> "none"]

Init ==
  /\ lock = "free"
  /\ entry = [k \in Keys |-> Absent]
  /\ \E x \in Contents : header = [content |-> x, mtime |-> 0]
  /\ call = [p \in Procs |-> Quiet]
  /\ tainted = FALSE
  /\ used = [edits |-> 0, faults |-> 0, calls |-> 0]

At(p, l) == call[p].pc = l
Goto(p, l) == call' = [call EXCEPT ![p].pc = l]

(* A call ends; what the history variables hold of it is kept only if its  *)
(* result came from the cache.  LeaveCache: an exception reaches the       *)
(* handler that compiles the source without the cache.                     *)
Ended(c, out, failed) ==
  IF out \in {"hit", "mixed"}
  THEN [Quiet EXCEPT !.out = out, !.got = c.got, !.seen = c.seen]
  ELSE [Quiet EXCEPT !.out = out, !.source_failed = failed]
Return(p, out) == call' = [call EXCEPT ![p] = Ended(@, out, FALSE)]
SourceFails(p) == call' = [call EXCEPT ![p] = Ended(@, "raised", TRUE)]
LeaveCache(p)  == call' = [call EXCEPT ![p] = [Quiet EXCEPT !.pc = "fallback", !.seen = call[p].seen]]

(* create_built_program_from_source_cached starts.                         *)
Begin(p) ==
  /\ At(p, "idle") /\ used.calls < MaxCalls
  /\ call' = [call EXCEPT ![p] = [Quiet EXCEPT !.pc = "isdir", !.seen = {header.content}]]
  /\ used' = [used EXCEPT !.calls = @ + 1]
  /\ UNCHANGED <<lock, entry, header, tainted>>

-----------------------------------------------------------------------------
(* CacheLockManager.  After about three minutes of trying it gives up with *)
(* a RuntimeError, and the caller compiles without the cache.              *)
TakeLock(p, from, to) ==
  /\ At(p, from) /\ lock = "free"
  /\ lock' = p
  /\ Goto(p, to)
  /\ UNCHANGED <<entry, header, tainted, used>>

(* Mutant: giving up removes the lock file, whoever owns it. *)
LockTimesOutUnlinking(p) ==
  /\ (At(p, "lock_r") \/ At(p, "lock_w")) /\ lock # "free"
  /\ LeaveCache(p)
  /\ lock' = "free"
  /\ UNCHANGED <<entry, header, tainted, used>>

(* Mutant: the lock of a process that died is waited for without end. *)
LockTimesOutIfLive(p) ==
  /\ (At(p, "lock_r") \/ At(p, "lock_w")) /\ lock \in Procs
  /\ LeaveCache(p)
  /\ UNCHANGED <<lock, entry, header, tainted, used>>

LockTimesOut(p) ==
  /\ (At(p, "lock_r") \/ At(p, "lock_w")) /\ lock # "free"
  /\ LeaveCache(p)
  /\ UNCHANGED <<lock, entry, header, tainted, used>>

Unlock == lock' = "free"

-----------------------------------------------------------------------------
(* retrieve_from_cache for key k = call[p].k                               *)

(* The loop over the devices goes on with the next key.                    *)
NextKey(c) ==
  IF c.k < NumDevices THEN [c EXCEPT !.k = @ + 1, !.pc = "isdir"]
  ELSE [c EXCEPT !.pc = IF c.todo = {} THEN "all_hit" ELSE "build"]

Miss(c) == NextKey([c EXCEPT !.todo = @ \cup {c.k}])
Hit(c)  == NextKey([c EXCEPT !.got[c.k] = entry[c.k].binary])

(* The directory is looked for before the lock is asked for.               *)
IsDir(p) ==
  /\ At(p, "isdir")
  /\ IF entry[call[p].k].dir THEN Goto(p, "lock_r")
     ELSE call' = [call EXCEPT ![p] = Miss(@)]
  /\ UNCHANGED <<lock, entry, header, tainted, used>>

(* An info file that is missing or empty is invalid and the directory is   *)
(* reset; any other trouble with the two files is an exception.            *)
Load(p) ==
  LET k == call[p].k
      e == entry[k]
      Raises == \/ e.info.state = "cut"
                \/ e.info.state = "ok" /\ e.binary = "none"
  IN
  /\ At(p, "load")
  /\ entry' = [entry EXCEPT ![k].dir = TRUE]
  /\ \/ e.info.state \in {"none", "empty"} /\ Goto(p, "reset") /\ UNCHANGED lock
     \/ Raises /\ LeaveCache(p) /\ Unlock
     \/ e.info.state = "ok" /\ e.binary # "none" /\ Goto(p, "check") /\ UNCHANGED lock
  /\ UNCHANGED <<header, tainted, used>>

(* Mutant: any file that is not older than it was passes. *)
DependenciesNotOlder(info) == header.mtime >= info.mtime

(* check_dependencies: an equal st_mtime is believed, otherwise the        *)
(* contents are compared.                                                  *)
DependenciesHold(info) ==
  header.mtime = info.mtime \/ header.content = info.content

(* Mutant: the lock is released before the directory is reset. *)
CheckDependenciesUnlocksEarly(p) ==
  LET k == call[p].k IN
  /\ At(p, "check")
  /\ \/ DependenciesHold(entry[k].info) /\ call' = [call EXCEPT ![p] = Hit(@)]
     \/ ~DependenciesHold(entry[k].info) /\ Goto(p, "reset")
  /\ Unlock
  /\ UNCHANGED <<entry, header, tainted, used>>

CheckDependencies(p) ==
  LET k == call[p].k IN
  /\ At(p, "check")
  /\ \/ /\ DependenciesHold(entry[k].info)
        /\ call' = [call EXCEPT ![p] = Hit(@)]
        /\ Unlock
     \/ /\ ~DependenciesHold(entry[k].info)
        /\ Goto(p, "reset")
        /\ UNCHANGED lock
  /\ UNCHANGED <<entry, header, tainted, used>>

(* ModuleCacheDirManager.reset: the files go one by one, in the order of   *)
(* the directory, then the directory; a new one is made.                   *)
ResetUnlinks(p) ==
  LET k == call[p].k IN
  /\ At(p, "reset")
  /\ \/ entry[k].binary # "none" /\ entry' = [entry EXCEPT ![k].binary = "none"]
     \/ entry[k].info # NoInfo /\ entry' = [entry EXCEPT ![k].info = NoInfo]
  /\ UNCHANGED <<lock, header, call, tainted, used>>

ResetRemovesDir(p) ==
  LET k == call[p].k IN
  /\ At(p, "reset") /\ entry[k] = [Absent EXCEPT !.dir = TRUE]
  /\ entry' = [entry EXCEPT ![k] = Absent]
  /\ Goto(p, "mkdir")
  /\ UNCHANGED <<lock, header, tainted, used>>

ResetMakesDir(p) ==
  /\ At(p, "mkdir")
  /\ entry' = [entry EXCEPT ![call[p].k].dir = TRUE]
  /\ call' = [call EXCEPT ![p] = Miss(@)]
  /\ Unlock
  /\ UNCHANGED <<header, tainted, used>>

-----------------------------------------------------------------------------
(* _create_built_program_from_source_cached after the lookups              *)

(* All binaries came from the cache: the program made of them is built.    *)
(* If the driver refuses them, the source is compiled (lines 479-508).     *)
BuildFromCache(p) ==
  /\ At(p, "all_hit")
  /\ \/ LeaveCache(p)
     \/ (\A k \in Keys : call[p].got[k] # "cut") /\ Return(p, "hit")
  /\ UNCHANGED <<lock, entry, header, tainted, used>>

(* Mutant: the store starts with the first device, built or not. *)
BuildFromSourceStoresAll(p) ==
  /\ At(p, "build")
  /\ call' = [call EXCEPT ![p].built = header.content, ![p].k = 1, ![p].pc = "lock_w"]
  /\ UNCHANGED <<lock, entry, header, tainted, used>>

(* The missing ones are compiled; a program made of these and of the       *)
(* cached binaries may be refused at once.                                 *)
BuildFromSource(p) ==
  /\ At(p, "build")
  /\ \/ call' = [call EXCEPT ![p].built = header.content,
                            ![p].got = [k \in Keys |-> IF k \in call[p].todo THEN header.content ELSE @[k]],
                            ![p].k = Min(call[p].todo),
                            ![p].pc = "lock_w"]
     \/ call[p].todo # Keys /\ LeaveCache(p)
     \/ SourceFails(p)
  /\ UNCHANGED <<lock, entry, header, tainted, used>>

(* The store, under the lock, for one key after the other.                 *)
Storing(p) == call[p].pc \in {"store", "bin", "open_info", "deps", "dump"}

StoreOpensBinary(p) ==
  LET k == call[p].k IN
  /\ At(p, "store")
  /\ entry' = [entry EXCEPT ![k].dir = TRUE, ![k].binary = "cut"]
  /\ call' = [call EXCEPT ![p].pc = "bin",
                          ![p].created = IF entry[k].dir THEN @ ELSE @ \cup {k}]
  /\ UNCHANGED <<lock, header, tainted, used>>

StoreWritesBinary(p) ==
  /\ At(p, "bin")
  /\ entry' = [entry EXCEPT ![call[p].k].binary = call[p].built]
  /\ Goto(p, "open_info")
  /\ UNCHANGED <<lock, header, tainted, used>>

StoreOpensInfo(p) ==
  /\ At(p, "open_info")
  /\ entry' = [entry EXCEPT ![call[p].k].info = [state |-> "empty"]]
  /\ Goto(p, "deps")
  /\ UNCHANGED <<lock, header, tainted, used>>

(* get_dependencies reads the header for its checksum ...                  *)
StoreReadsHeader(p) ==
  /\ At(p, "deps")
  /\ call' = [call EXCEPT ![p].hash = header.content, ![p].pc = "dump"]
  /\ UNCHANGED <<lock, entry, header, tainted, used>>

(* ... asks for its st_mtime afterwards, and the info file is written.     *)
StoreDumpsInfo(p) ==
  LET k == call[p].k
      later == {j \in call[p].todo : j > k} IN
  /\ At(p, "dump")
  /\ entry' = [entry EXCEPT ![k].info = Info(call[p].hash, header.mtime)]
  /\ tainted' = (tainted \/ call[p].raced)
  /\ IF later # {}
     THEN call' = [call EXCEPT ![p].k = Min(later), ![p].pc = "store"] /\ UNCHANGED lock
     ELSE Goto(p, "stored") /\ Unlock
  /\ UNCHANGED <<header, used>>

(* What stopping at this point leaves: a half-written file, and possibly a *)
(* new binary beside the info file of another one.                         *)
Truncated(p) ==
  LET k == call[p].k IN
  IF call[p].pc = "dump"
  THEN {[entry EXCEPT ![k].info = [state |-> s]] : s \in {"empty", "cut"}}
  ELSE {entry}
Torn(p) == call[p].pc \in {"bin", "open_info"} /\ entry[call[p].k].info.state = "ok"

(* A write fails: error_clean_up erases the directories that this store    *)
(* made, and the source is compiled without the cache.                     *)
StoreRaises(p) ==
  /\ Storing(p) /\ used.faults < MaxFaults
  /\ \E e \in Truncated(p) :
       entry' = [k \in Keys |-> IF k \in call[p].created THEN Absent ELSE e[k]]
  /\ tainted' = (tainted \/ Torn(p))
  /\ Unlock
  /\ LeaveCache(p)
  /\ used' = [used EXCEPT !.faults = @ + 1]
  /\ UNCHANGED header

(* After the store: the program just compiled is the result, or, if some   *)
(* binaries came from the cache, the program of all binaries is built, out *)
(* of reach of the handler that would fall back to the source.             *)
Finish(p) ==
  /\ At(p, "stored")
  /\ \/ call[p].todo = Keys /\ Return(p, "built")
     \/ call[p].todo # Keys /\ (\A k \in Keys : call[p].got[k] # "cut") /\ Return(p, "mixed")
     \/ call[p].todo # Keys /\ Return(p, "raised")
  /\ UNCHANGED <<lock, entry, header, tainted, used>>

(* The handler in create_built_program_from_source_cached: lines 485-508.  *)
Fallback(p) ==
  /\ At(p, "fallback")
  /\ Return(p, "built") \/ SourceFails(p)
  /\ UNCHANGED <<lock, entry, header, tainted, used>>

-----------------------------------------------------------------------------
(* The environment.                                                        *)

(* Somebody writes the header, with other contents or the same.            *)
Edit ==
  /\ used.edits < MaxEdits
  /\ \E x \in Contents :
       /\ header' = [content |-> x, mtime |-> header.mtime + 1]
       /\ call' = [p \in Procs |->
            IF At(p, "idle") THEN call[p]
            ELSE [call[p] EXCEPT !.seen = @ \cup {x},
                                 !.raced = @ \/ (call[p].built # "none" /\ x # header.content)]]
  /\ used' = [used EXCEPT !.edits = @ + 1]
  /\ UNCHANGED <<lock, entry, tainted>>

(* A process dies, with its lock file left behind, or is interrupted, with *)
(* the lock released.                                                      *)
Stop(p) ==
  /\ ~At(p, "idle") /\ used.faults < MaxFaults
  /\ entry' \in Truncated(p)
  /\ tainted' = (tainted \/ Torn(p))
  /\ lock' \in IF lock = p THEN {"free", "dead"} ELSE {lock}
  /\ call' = [call EXCEPT ![p] = Quiet]
  /\ used' = [used EXCEPT !.faults = @ + 1]
  /\ UNCHANGED header

(* "could not obtain cache lock--delete '%s' if necessary"                 *)
UserDeletesLock ==
  /\ lock = "dead"
  /\ Unlock
  /\ UNCHANGED <<entry, header, call, tainted, used>>

-----------------------------------------------------------------------------
Retrieve(p) ==
  \/ IsDir(p) \/ TakeLock(p, "lock_r", "load") \/ Load(p) \/ CheckDependencies(p)
  \/ ResetUnlinks(p) \/ ResetRemovesDir(p) \/ ResetMakesDir(p)
Store(p) ==
  \/ TakeLock(p, "lock_w", "store") \/ StoreOpensBinary(p) \/ StoreWritesBinary(p)
  \/ StoreOpensInfo(p) \/ StoreReadsHeader(p) \/ StoreDumpsInfo(p)
Step(p) ==
  \/ Retrieve(p) \/ Store(p) \/ LockTimesOut(p)
  \/ BuildFromCache(p) \/ BuildFromSource(p) \/ Finish(p) \/ Fallback(p)

Next ==
  \/ \E p \in Procs : Begin(p) \/ Step(p) \/ StoreRaises(p) \/ Stop(p)
  \/ Edit
  \/ UserDeletesLock

(* A running process goes on.  Nobody has to call, edit, die or delete a   *)
(* lock file.                                                              *)
Spec == Init /\ [][Next]_vars /\ \A p \in Procs : WF_vars(Step(p))

-----------------------------------------------------------------------------
(* Every variable keeps its type, and a process that is past the lookups   *)
(* of all keys stores only keys that it missed.                            *)
TypeOK ==
  /\ lock \in Procs \cup {"free", "dead"}
  /\ entry \in [Keys -> [dir : BOOLEAN,
                         binary : Contents \cup {"none", "cut"},
                         info : {[state |-> s] : s \in {"none", "empty", "cut"}}
                                \cup {Info(x, m) : x \in Contents, m \in 0..MaxEdits}]]
  /\ header \in [content : Contents, mtime : 0..MaxEdits]
  /\ tainted \in BOOLEAN
  /\ \A p \in Procs :
       /\ call[p].k \in Keys /\ call[p].todo \subseteq Keys /\ call[p].created \subseteq call[p].todo
       /\ call[p].built \in Contents \cup {"none"} /\ call[p].seen \subseteq Contents
       /\ Storing(p) => call[p].k \in call[p].todo

InSection(p) == Storing(p) \/ call[p].pc \in {"load", "check", "reset", "mkdir"}

(* The cache directory has one writer: whoever is between CacheLockManager *)
(* and clean_up owns the lock file, whichever lock files of dead processes *)
(* were deleted and whoever timed out (lines 80-117).                      *)
OneWriter == \A p \in Procs : InSection(p) => lock = p

(* A binary that came from the cache was compiled with the header as it    *)
(* was at some moment of the call that got it, however lookups, resets,    *)
(* stores, failing writes and dying processes interleave -- unless the     *)
(* header changed between a build and its store (which records the         *)
(* dependencies as they are then, lines 453-455), or a store stopped       *)
(* between its binary and its info file over an older entry.               *)
HitsMatchHeader ==
  ~tainted => \A p \in Procs : call[p].out \in {"hit", "mixed"} =>
                \A k \in Keys : call[p].got[k] \in call[p].seen

(* A readable entry that nobody is working on has a whole binary, unless a *)
(* process died or a write failed: a reader of the info file need not      *)
(* expect an IOError for the binary (lines 300-304).                       *)
ReadableEntriesWhole ==
  (lock = "free" /\ used.faults = 0) =>
    \A k \in Keys : entry[k].info.state = "ok" => entry[k].binary \in Contents

(* Every call returns although lock files of dead processes stay behind:   *)
(* the wait for the lock ends (lines 85-107).                              *)
CallsReturn == \A p \in Procs : call[p].pc # "idle" ~> call[p].pc = "idle"

(* "If we get a build_program_failure from the cached version then build   *)
(* from source instead, otherwise report the failure" (lines 491-492): a   *)
(* call fails only if the source does not compile.                         *)
FailsOnlyIfSourceFails ==
  \A p \in Procs : call[p].out = "raised" => call[p].source_failed
=============================================================================
