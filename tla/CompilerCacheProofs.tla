------------------------ MODULE CompilerCacheProofs ------------------------
(***************************************************************************)
(* CompilerCache for every number of processes, devices, contents, edits   *)
(* of the header, faults and calls.                                        *)
(***************************************************************************)
EXTENDS CompilerCache, Induction, TLAPS

Lookup   == {"isdir", "lock_r", "load", "check", "reset", "mkdir"}
StorePcs == {"store", "bin", "open_info", "deps", "dump"}
Pcs == Lookup \cup StorePcs \cup {"idle", "all_hit", "build", "lock_w", "stored", "fallback"}

Binaries == Contents \cup {"none", "cut"}
Infos == {[state |-> s] : s \in {"none", "empty", "cut"}}
         \cup {Info(x, m) : x \in Contents, m \in 0..MaxEdits}
Entries == [dir : BOOLEAN, binary : Binaries, info : Infos]
Calls == [pc : Pcs, k : Keys, todo : SUBSET Keys,
          built : Contents \cup {"none"}, hash : Contents \cup {"none"},
          created : SUBSET Keys, got : [Keys -> Binaries], raced : BOOLEAN,
          seen : SUBSET Contents, source_failed : BOOLEAN,
          out : {"none", "hit", "mixed", "built", "raised"}]

Shape ==
  /\ lock \in Procs \cup {"free", "dead"}
  /\ entry \in [Keys -> Entries]
  /\ header \in [content : Contents, mtime : 0..MaxEdits]
  /\ call \in [Procs -> Calls]
  /\ tainted \in BOOLEAN
  /\ used \in [edits : 0..MaxEdits, faults : Nat, calls : Nat]
  /\ header.mtime = used.edits

(* A call by itself: what is stored was missed, and has been compiled.     *)
WellFormed(c) ==
  /\ c.created \subseteq c.todo
  /\ c.pc = "idle" => c.built = "none"
  /\ c.pc = "build" => c.todo # {}
  /\ c.pc = "all_hit" => c.todo = {}
  /\ c.pc \in StorePcs \cup {"lock_w"} => c.k \in c.todo /\ c.built \in Contents
  /\ c.pc = "dump" => c.hash \in Contents
  /\ c.out \in {"hit", "mixed"} => c.pc = "idle"

(* A call and the header: a running call has seen what the header contains *)
(* now, and what it compiled is what the header contains until that        *)
(* changes, which "raced" records.                                         *)
UpToDate(c) ==
  /\ c.pc # "idle" => header.content \in c.seen
  /\ c.built # "none" /\ ~c.raced => c.built = header.content
  /\ c.pc = "dump" /\ ~c.raced => c.hash = c.built

(* A call and its answers: each was seen, and the keys that are not to be  *)
(* compiled have one.                                                      *)
HasAnswer(c, j) ==
  \/ c.pc \in Lookup /\ (j >= c.k \/ j \in c.todo)
  \/ c.pc \in {"all_hit", "build"} /\ j \in c.todo
  \/ c.pc \in {"idle", "fallback"} /\ c.out \notin {"hit", "mixed"}
  \/ c.got[j] # "none"
Answers(c) == \A j \in Keys : HasAnswer(c, j) /\ c.got[j] \in c.seen \cup {"none"}

(* A call and the files it works on.                                       *)
AtItsFiles(c) ==
  /\ c.pc = "check" => entry[c.k].info.state = "ok" /\ entry[c.k].binary # "none"
  /\ c.pc \in {"open_info", "deps", "dump"} => entry[c.k].binary = c.built

CallsInv ==
  \A p \in Procs : /\ WellFormed(call[p])
                   /\ UpToDate(call[p])
                   /\ ~tainted => Answers(call[p])
                   /\ AtItsFiles(call[p])

(* The two files of a key belong together except while a process that owns *)
(* the lock replaces the binary, or takes the entry apart.                 *)
WorkedOn(k, pcs) == \E p \in Procs : call[p].pc \in pcs /\ call[p].k = k
EntryInv(k) ==
  LET e == entry[k] IN
  e.info.state = "ok" =>
    /\ e.info.mtime <= header.mtime
    /\ ~tainted /\ e.info.mtime = header.mtime => e.info.content = header.content
    /\ tainted \/ WorkedOn(k, {"bin", "open_info"}) \/ e.binary \in {"none", e.info.content}
    /\ used.faults > 0 \/ WorkedOn(k, {"bin", "open_info", "reset"}) \/ e.binary \in Contents

IInv == Shape /\ OneWriter /\ CallsInv /\ \A k \in Keys : EntryInv(k)

-----------------------------------------------------------------------------
(* What an info file is, by its state.                                     *)
LEMMA InfoKinds ==
  /\ \A i \in Infos : /\ i.state \in {"none", "empty", "cut", "ok"}
                      /\ i.state = "ok" => i.content \in Contents /\ i.mtime \in 0..MaxEdits
  /\ \A s \in {"none", "empty", "cut"} : [state |-> s] \in Infos
  /\ \A x \in Contents, m \in 0..MaxEdits :
       /\ Info(x, m) \in Infos /\ Info(x, m).state = "ok"
       /\ Info(x, m).content = x /\ Info(x, m).mtime = m
<1>1. ASSUME NEW i \in Infos
      PROVE  /\ i.state \in {"none", "empty", "cut", "ok"}
             /\ i.state = "ok" => i.content \in Contents /\ i.mtime \in 0..MaxEdits
  <2>1. CASE \E s \in {"none", "empty", "cut"} : i = [state |-> s]
    BY <2>1
  <2>2. CASE \E x \in Contents, m \in 0..MaxEdits : i = [state |-> "ok", content |-> x, mtime |-> m]
    BY <2>2
  <2> QED
    BY <2>1, <2>2 DEF Infos, Info
<1>2. \A s \in {"none", "empty", "cut"} : [state |-> s] \in Infos
  BY DEF Infos
<1>3. \A x \in Contents, m \in 0..MaxEdits :
       /\ Info(x, m) \in Infos /\ Info(x, m).state = "ok"
       /\ Info(x, m).content = x /\ Info(x, m).mtime = m
  <2> SUFFICES ASSUME NEW x \in Contents, NEW m \in 0..MaxEdits
               PROVE  /\ Info(x, m) \in Infos /\ Info(x, m).state = "ok"
                      /\ Info(x, m).content = x /\ Info(x, m).mtime = m
    OBVIOUS
  <2>1. Info(x, m) \in {Info(y, n) : y \in Contents, n \in 0..MaxEdits}
    OBVIOUS
  <2> QED
    BY <2>1 DEF Infos, Info
<1> QED
  BY <1>1, <1>2, <1>3

LEMMA AbsentEntry ==
  /\ Absent \in Entries /\ Absent.info.state = "none" /\ Absent.binary = "none"
  /\ Absent.info = NoInfo /\ NoInfo.state = "none" /\ NoInfo \in Infos
BY InfoKinds DEF Absent, NoInfo, Entries, Binaries

(* The least of the keys that are to be compiled is one of them.           *)
LEMMA LeastKey ==
  ASSUME NEW S, S \subseteq Keys, S # {}
  PROVE  Min(S) \in S
<1>1. \E x \in S : \A y \in S : x =< y
  <2>1. S \subseteq Nat
    BY CacheAssumption DEF Keys
  <2> QED
    BY <2>1, LeastNat
<1> QED
  BY <1>1 DEF Min

(* What the loop over the devices changes: the key and the place.          *)
LEMMA NextKeyFields ==
  ASSUME NEW c \in Calls
  PROVE  /\ NextKey(c) \in Calls
         /\ NextKey(c) = [c EXCEPT !.k = NextKey(c).k, !.pc = NextKey(c).pc]
         /\ \/ NextKey(c).pc = "isdir" /\ NextKey(c).k = c.k + 1
            \/ /\ NextKey(c).k = c.k /\ c.k = NumDevices
               /\ NextKey(c).pc = IF c.todo = {} THEN "all_hit" ELSE "build"
<1>1. CASE c.k < NumDevices
  <2>1. c.k + 1 \in Keys
    BY <1>1, CacheAssumption DEF Calls, Keys
  <2>2. NextKey(c) = [c EXCEPT !.k = c.k + 1, !.pc = "isdir"]
    BY <1>1 DEF NextKey
  <2> QED
    BY <2>1, <2>2 DEF Calls, Pcs, Lookup
<1>2. CASE ~(c.k < NumDevices)
  <2>1. c.k = NumDevices
    BY <1>2, CacheAssumption DEF Calls, Keys
  <2>2. NextKey(c) = [c EXCEPT !.pc = IF c.todo = {} THEN "all_hit" ELSE "build"]
    BY <1>2 DEF NextKey
  <2> QED
    BY <2>1, <2>2 DEF Calls, Pcs
<1> QED
  BY <1>1, <1>2

SectionPcs == StorePcs \cup {"load", "check", "reset", "mkdir"}

LEMMA Sections == \A p \in Procs : InSection(p) <=> call[p].pc \in SectionPcs
BY DEF InSection, Storing, SectionPcs, StorePcs

(* The lock file is taken by a process when nobody else owns it.           *)
LockPassed(p, c) ==
  /\ lock' \in Procs \cup {"free", "dead"}
  /\ lock' = lock \/ lock = p \/ lock \notin Procs
  /\ c.pc \in SectionPcs => lock' = p

LEMMA LockStep ==
  ASSUME Shape, OneWriter, NEW p \in Procs, NEW c \in Calls,
         call' = [call EXCEPT ![p] = c], LockPassed(p, c)
  PROVE  OneWriter'
<1> SUFFICES ASSUME NEW q \in Procs, InSection(q)' PROVE lock' = q
  BY DEF OneWriter
<1>1. CASE q = p
  BY <1>1 DEF Shape, LockPassed, InSection, Storing, SectionPcs, StorePcs
<1>2. CASE q # p
  <2>1. lock = q
    BY <1>2 DEF Shape, OneWriter, InSection, Storing
  <2> QED
    BY <1>2, <2>1 DEF LockPassed
<1> QED
  BY <1>1, <1>2

(* A step of one call that leaves the files and the header alone, and does *)
(* not take the process away from an entry it works on.                    *)
LEMMA CallStep ==
  ASSUME IInv, NEW p \in Procs, NEW c \in Calls,
         call' = [call EXCEPT ![p] = c], LockPassed(p, c),
         UNCHANGED <<entry, header, tainted>>,
         used' \in [edits : 0..MaxEdits, faults : Nat, calls : Nat],
         used'.edits = used.edits, used'.faults = used.faults,
         call[p].pc \notin {"bin", "open_info", "reset"},
         WellFormed(c), UpToDate(c), ~tainted => Answers(c), AtItsFiles(c)
  PROVE  IInv'
<1>1. Shape'
  BY DEF IInv, Shape, LockPassed
<1>2. OneWriter'
  BY LockStep DEF IInv
<1>3. CallsInv'
  <2> SUFFICES ASSUME NEW q \in Procs
               PROVE  (/\ WellFormed(call[q])
                       /\ UpToDate(call[q])
                       /\ ~tainted => Answers(call[q])
                       /\ AtItsFiles(call[q]))'
    BY DEF CallsInv
  <2>1. call'[q] = IF q = p THEN c ELSE call[q]
    BY DEF IInv, Shape
  <2>2. /\ WellFormed(call'[q])
        /\ UpToDate(call'[q])
        /\ ~tainted => Answers(call'[q])
        /\ AtItsFiles(call'[q])
    BY <2>1 DEF IInv, CallsInv
  <2> QED
    BY <2>2 DEF WellFormed, UpToDate, Answers, HasAnswer, AtItsFiles
<1>4. ASSUME NEW k \in Keys PROVE EntryInv(k)'
  <2>1. WorkedOn(k, {"bin", "open_info"}) => WorkedOn(k, {"bin", "open_info"})'
    BY DEF WorkedOn, IInv, Shape
  <2>2. WorkedOn(k, {"bin", "open_info", "reset"}) => WorkedOn(k, {"bin", "open_info", "reset"})'
    BY DEF WorkedOn, IInv, Shape
  <2>3. EntryInv(k)
    BY DEF IInv
  <2> QED
    BY <2>1, <2>2, <2>3 DEF EntryInv
<1> QED
  BY <1>1, <1>2, <1>3, <1>4 DEF IInv

(* What the two files of an entry must say, once process p has changed it  *)
(* and its call to c.                                                      *)
EntryLeft(e, c, taint) ==
  e.info.state = "ok" =>
    /\ e.info.mtime <= header.mtime
    /\ ~taint /\ e.info.mtime = header.mtime => e.info.content = header.content
    /\ taint \/ c.pc \in {"bin", "open_info"} \/ e.binary \in {"none", e.info.content}
    /\ used.faults > 0 \/ c.pc \in {"bin", "open_info", "reset"} \/ e.binary \in Contents
FilesLeft(e, c) ==
  /\ c.pc = "check" => e.info.state = "ok" /\ e.binary # "none"
  /\ c.pc \in {"open_info", "deps", "dump"} => e.binary = c.built

(* A step of a process that owns the lock, on the entry of its key.        *)
LEMMA FileStep ==
  ASSUME IInv, NEW p \in Procs, NEW c \in Calls, NEW e \in Entries,
         InSection(p), call' = [call EXCEPT ![p] = c], LockPassed(p, c),
         entry' = [entry EXCEPT ![call[p].k] = e],
         UNCHANGED <<header, used>>,
         tainted' \in BOOLEAN, tainted => tainted',
         WellFormed(c), UpToDate(c), ~tainted' => Answers(c),
         c.pc \in {"check", "bin", "open_info", "deps", "dump", "reset"} => c.k = call[p].k,
         FilesLeft(e, c),
         EntryLeft(e, c, tainted') \/ (e = entry[call[p].k] /\ c.pc = call[p].pc)
  PROVE  IInv'
<1> DEFINE k == call[p].k
<1>0. k \in Keys /\ call[p] \in Calls
  BY DEF IInv, Shape, Calls
<1>1. Shape'
  BY <1>0 DEF IInv, Shape, LockPassed
<1>2. OneWriter'
  BY LockStep DEF IInv
<1>5. \A q \in Procs : q # p => ~InSection(q)
  BY DEF IInv, OneWriter
<1>3. CallsInv'
  <2> SUFFICES ASSUME NEW q \in Procs
               PROVE  (/\ WellFormed(call[q])
                       /\ UpToDate(call[q])
                       /\ ~tainted => Answers(call[q])
                       /\ AtItsFiles(call[q]))'
    BY DEF CallsInv
  <2>1. call'[q] = IF q = p THEN c ELSE call[q]
    BY DEF IInv, Shape
  <2>2. /\ WellFormed(call'[q])
        /\ UpToDate(call'[q])
        /\ ~tainted' => Answers(call'[q])
    BY <2>1 DEF IInv, CallsInv, Shape
  <2>3. AtItsFiles(call[q])'
    <3>1. CASE q = p
      <4>1. c.pc \in {"check", "open_info", "deps", "dump"} => entry'[c.k] = e
        BY <1>0 DEF IInv, Shape
      <4> QED
        BY <3>1, <2>1, <4>1 DEF AtItsFiles, FilesLeft
    <3>2. CASE q # p
      BY <3>2, <2>1, <1>5, Sections DEF AtItsFiles, SectionPcs, StorePcs
    <3> QED
      BY <3>1, <3>2
  <2> QED
    BY <2>2, <2>3 DEF WellFormed, UpToDate, Answers, HasAnswer
<1>4. ASSUME NEW j \in Keys PROVE EntryInv(j)'
  <2>1. EntryInv(j)
    BY DEF IInv
  <2>2. CASE j # k
    <3>1. entry'[j] = entry[j]
      BY <2>2 DEF IInv, Shape
    <3>2. ~WorkedOn(j, {"bin", "open_info", "reset"}) /\ ~WorkedOn(j, {"bin", "open_info"})
      BY <2>2, <1>5, Sections DEF WorkedOn, SectionPcs, StorePcs
    <3> QED
      BY <2>1, <3>1, <3>2 DEF EntryInv, IInv, Shape
  <2>3. CASE j = k
    <3>1. entry'[j] = e
      BY <2>3, <1>0 DEF IInv, Shape
    <3>2. \A pcs : (c.k = k /\ c.pc \in pcs) => WorkedOn(j, pcs)'
      BY <2>3 DEF WorkedOn, IInv, Shape
    <3>3. CASE EntryLeft(e, c, tainted')
      BY <3>1, <3>2, <3>3 DEF EntryInv, EntryLeft
    <3>4. CASE e = entry[k] /\ c.pc = call[p].pc
      <4>1. WorkedOn(j, {"bin", "open_info"}) => WorkedOn(j, {"bin", "open_info"})'
        BY <3>2, <3>4, <2>3, <1>5, Sections DEF WorkedOn, SectionPcs, StorePcs
      <4>2. WorkedOn(j, {"bin", "open_info", "reset"}) => WorkedOn(j, {"bin", "open_info", "reset"})'
        BY <3>2, <3>4, <2>3, <1>5, Sections DEF WorkedOn, SectionPcs, StorePcs
      <4> QED
        BY <2>1, <2>3, <3>1, <3>4, <4>1, <4>2 DEF EntryInv, IInv, Shape
    <3> QED
      BY <3>3, <3>4
  <2> QED
    BY <2>2, <2>3
<1> QED
  BY <1>1, <1>2, <1>3, <1>4 DEF IInv

-----------------------------------------------------------------------------
(* A call whose place alone changes.                                       *)
LEMMA PcFields ==
  ASSUME NEW c \in Calls, NEW l \in Pcs, NEW d, d = [c EXCEPT !.pc = l]
  PROVE  /\ d \in Calls /\ d.pc = l
         /\ d.k = c.k /\ d.todo = c.todo /\ d.built = c.built /\ d.hash = c.hash
         /\ d.created = c.created /\ d.got = c.got /\ d.raced = c.raced
         /\ d.seen = c.seen /\ d.out = c.out
BY DEF Calls

(* The loop over the devices goes on: what it found, or will compile, for  *)
(* the keys so far is what "build" and "all_hit" start from.               *)
LEMMA LoopGoesOn ==
  ASSUME NEW c \in Calls, c.pc \in Lookup, WellFormed(c), UpToDate(c),
         c.k \in c.todo \/ c.got[c.k] # "none"
  PROVE  /\ NextKey(c) \in Calls /\ WellFormed(NextKey(c)) /\ UpToDate(NextKey(c))
         /\ NextKey(c).pc \in {"isdir", "all_hit", "build"}
         /\ Answers(c) => Answers(NextKey(c))
<1> DEFINE d == NextKey(c)
<1>1. /\ d \in Calls
      /\ d.todo = c.todo /\ d.built = c.built /\ d.hash = c.hash
      /\ d.created = c.created /\ d.got = c.got /\ d.raced = c.raced
      /\ d.seen = c.seen /\ d.out = c.out
      /\ \/ d.pc = "isdir" /\ d.k = c.k + 1
         \/ d.k = c.k /\ c.k = NumDevices /\ d.pc = IF c.todo = {} THEN "all_hit" ELSE "build"
  <2>1. /\ d \in Calls /\ d = [c EXCEPT !.k = d.k, !.pc = d.pc]
        /\ \/ d.pc = "isdir" /\ d.k = c.k + 1
           \/ d.k = c.k /\ c.k = NumDevices /\ d.pc = IF c.todo = {} THEN "all_hit" ELSE "build"
    BY NextKeyFields
  <2> HIDE DEF d
  <2>2. /\ d.todo = c.todo /\ d.built = c.built /\ d.hash = c.hash
        /\ d.created = c.created /\ d.got = c.got /\ d.raced = c.raced
        /\ d.seen = c.seen /\ d.out = c.out
    BY <2>1 DEF Calls
  <2> QED
    BY <2>1, <2>2
<1> HIDE DEF d
<1>2. WellFormed(d)
  BY <1>1 DEF WellFormed, StorePcs, Lookup
<1>3. UpToDate(d)
  BY <1>1 DEF UpToDate, Lookup
<1>4. ASSUME Answers(c), NEW j \in Keys PROVE HasAnswer(d, j)
  <2>1. HasAnswer(c, j)
    BY <1>4 DEF Answers
  <2>2. j \in Int /\ c.k \in Int /\ NumDevices \in Int /\ j <= NumDevices
    BY CacheAssumption DEF Keys, Calls
  <2>3. j < c.k => j \in c.todo \/ c.got[j] # "none"
    BY <2>1, <2>2 DEF HasAnswer, Lookup
  <2>4. j = c.k => j \in c.todo \/ c.got[j] # "none"
    OBVIOUS
  <2>5. CASE d.pc = "isdir" /\ d.k = c.k + 1
    BY <2>2, <2>3, <2>4, <2>5, <1>1 DEF HasAnswer, Lookup
  <2>6. CASE c.k = NumDevices /\ d.pc \in {"all_hit", "build"}
    BY <2>2, <2>3, <2>4, <2>6, <1>1 DEF HasAnswer
  <2> QED
    BY <1>1, <2>5, <2>6
<1>5. Answers(c) => Answers(d)
  BY <1>1, <1>4 DEF Answers
<1>6. d.pc \in {"isdir", "all_hit", "build"}
  BY <1>1
<1> QED
  BY <1>1, <1>2, <1>3, <1>5, <1>6 DEF d

LEMMA MissGoesOn ==
  ASSUME NEW c \in Calls, c.pc \in Lookup, WellFormed(c), UpToDate(c)
  PROVE  /\ Miss(c) \in Calls /\ WellFormed(Miss(c)) /\ UpToDate(Miss(c))
         /\ Miss(c).pc \in {"isdir", "all_hit", "build"}
         /\ Answers(c) => Answers(Miss(c))
<1> DEFINE d == [c EXCEPT !.todo = @ \cup {c.k}]
<1>1. /\ d \in Calls /\ d.todo = c.todo \cup {c.k} /\ d.k = c.k /\ d.pc = c.pc
      /\ d.built = c.built /\ d.hash = c.hash /\ d.created = c.created /\ d.got = c.got
      /\ d.raced = c.raced /\ d.seen = c.seen /\ d.out = c.out
  BY DEF Calls
<1>2. Miss(c) = NextKey(d)
  BY DEF Miss
<1> HIDE DEF d
<1>3. WellFormed(d) /\ UpToDate(d)
  BY <1>1 DEF WellFormed, UpToDate, Lookup, StorePcs
<1>4. Answers(c) => Answers(d)
  BY <1>1 DEF Answers, HasAnswer
<1> QED
  BY <1>1, <1>2, <1>3, <1>4, LoopGoesOn

LEMMA HitGoesOn ==
  ASSUME NEW c \in Calls, c.pc \in Lookup, WellFormed(c), UpToDate(c), Shape,
         entry[c.k].binary # "none"
  PROVE  /\ Hit(c) \in Calls /\ WellFormed(Hit(c)) /\ UpToDate(Hit(c))
         /\ Hit(c).pc \in {"isdir", "all_hit", "build"}
         /\ Answers(c) /\ entry[c.k].binary \in c.seen => Answers(Hit(c))
<1> DEFINE d == [c EXCEPT !.got[c.k] = entry[c.k].binary]
<1>0. c.k \in Keys /\ entry[c.k].binary \in Binaries /\ c.got \in [Keys -> Binaries]
  BY DEF Shape, Entries, Calls
<1>1. /\ d \in Calls /\ d.todo = c.todo /\ d.k = c.k /\ d.pc = c.pc
      /\ d.built = c.built /\ d.hash = c.hash /\ d.created = c.created
      /\ d.got = [c.got EXCEPT ![c.k] = entry[c.k].binary]
      /\ d.raced = c.raced /\ d.seen = c.seen /\ d.out = c.out
  BY <1>0 DEF Calls
<1>2. Hit(c) = NextKey(d)
  BY DEF Hit
<1> HIDE DEF d
<1>3. WellFormed(d) /\ UpToDate(d)
  BY <1>1 DEF WellFormed, UpToDate, Lookup, StorePcs
<1>4. Answers(c) /\ entry[c.k].binary \in c.seen => Answers(d)
  BY <1>0, <1>1 DEF Answers, HasAnswer
<1>5. d.got[d.k] # "none"
  BY <1>0, <1>1
<1> QED
  BY <1>1, <1>2, <1>3, <1>4, <1>5, LoopGoesOn

(* A call that starts, ends, or leaves the cache holds nothing of a store. *)
QuietLike(c) ==
  /\ c \in Calls /\ c.pc \in {"idle", "isdir", "fallback"}
  /\ c.k = 1 /\ c.todo = {} /\ c.created = {} /\ c.built = "none"
  /\ c.pc # "idle" => c.out \notin {"hit", "mixed"} /\ header.content \in c.seen
  /\ c.out \notin {"hit", "mixed"} => c.got = [k \in Keys |-> "none"]

LEMMA QuietLikeIsFine ==
  ASSUME NEW c, QuietLike(c)
  PROVE  /\ WellFormed(c) /\ UpToDate(c) /\ AtItsFiles(c)
         /\ c.out \notin {"hit", "mixed"} => Answers(c)
<1>1. WellFormed(c) /\ UpToDate(c) /\ AtItsFiles(c)
  BY DEF QuietLike, WellFormed, UpToDate, AtItsFiles, StorePcs
<1>2. ASSUME c.out \notin {"hit", "mixed"}, NEW j \in Keys
      PROVE  HasAnswer(c, j) /\ c.got[j] = "none"
  <2>1. j >= c.k
    BY DEF QuietLike, Keys
  <2> QED
    BY <1>2, <2>1 DEF QuietLike, HasAnswer, Lookup
<1> QED
  BY <1>1, <1>2 DEF Answers

LEMMA QuietFields ==
  /\ Quiet \in Calls /\ QuietLike(Quiet)
  /\ Quiet.pc = "idle" /\ Quiet.out = "none"
BY CacheAssumption DEF Quiet, Calls, Pcs, Keys, Binaries, QuietLike

IsEnd(e, c, out) == e = Ended(c, out, FALSE) \/ e = Ended(c, out, TRUE)

LEMMA EndedFields ==
  ASSUME NEW c \in Calls, NEW out \in {"hit", "mixed", "built", "raised"},
         NEW e, IsEnd(e, c, out)
  PROVE  /\ e \in Calls /\ QuietLike(e) /\ e.pc = "idle" /\ e.out = out
         /\ out \in {"hit", "mixed"} => e.got = c.got /\ e.seen = c.seen
<1>1. CASE out \in {"hit", "mixed"}
  <2>1. e = [Quiet EXCEPT !.out = out, !.got = c.got, !.seen = c.seen]
    BY <1>1 DEF Ended, IsEnd
  <2>2. /\ e \in Calls /\ e.pc = "idle" /\ e.out = out /\ e.got = c.got /\ e.seen = c.seen
        /\ e.k = Quiet.k /\ e.todo = Quiet.todo /\ e.created = Quiet.created /\ e.built = Quiet.built
    BY <2>1, QuietFields DEF Calls
  <2> QED
    BY <1>1, <2>2, QuietFields DEF QuietLike
<1>2. CASE out \notin {"hit", "mixed"}
  <2>1. \/ e = [Quiet EXCEPT !.out = out, !.source_failed = FALSE]
        \/ e = [Quiet EXCEPT !.out = out, !.source_failed = TRUE]
    BY <1>2 DEF Ended, IsEnd
  <2>2. /\ e \in Calls /\ e.pc = "idle" /\ e.out = out /\ e.got = Quiet.got
        /\ e.k = Quiet.k /\ e.todo = Quiet.todo /\ e.created = Quiet.created /\ e.built = Quiet.built
    BY <2>1, QuietFields DEF Calls
  <2> QED
    BY <1>2, <2>2, QuietFields DEF QuietLike
<1> QED
  BY <1>1, <1>2

LEMMA EndedIsFine ==
  ASSUME NEW c \in Calls, NEW out \in {"hit", "mixed", "built", "raised"},
         NEW e, IsEnd(e, c, out),
         ~tainted /\ out \in {"hit", "mixed"} => \A j \in Keys : c.got[j] \in c.seen
  PROVE  /\ e \in Calls /\ e.pc = "idle"
         /\ WellFormed(e) /\ UpToDate(e) /\ AtItsFiles(e)
         /\ ~tainted => Answers(e)
<1>1. /\ e \in Calls /\ QuietLike(e) /\ e.pc = "idle" /\ e.out = out
      /\ out \in {"hit", "mixed"} => e.got = c.got /\ e.seen = c.seen
  BY EndedFields
<1>2. WellFormed(e) /\ UpToDate(e) /\ AtItsFiles(e) /\ (out \notin {"hit", "mixed"} => Answers(e))
  BY <1>1, QuietLikeIsFine
<1>3. out \in {"hit", "mixed"} /\ ~tainted => Answers(e)
  <2> SUFFICES ASSUME out \in {"hit", "mixed"}, ~tainted, NEW j \in Keys
               PROVE  HasAnswer(e, j) /\ e.got[j] \in e.seen \cup {"none"}
    BY DEF Answers
  <2>1. e.got[j] \in e.seen /\ e.seen \subseteq Contents
    BY <1>1 DEF Calls
  <2>2. e.got[j] # "none"
    BY <2>1, CacheAssumption
  <2> QED
    BY <2>1, <2>2 DEF HasAnswer
<1> QED
  BY <1>1, <1>2, <1>3

(* What LeaveCache makes of a call.                                        *)
Left(c) == [Quiet EXCEPT !.pc = "fallback", !.seen = c.seen]

LEMMA LeftIsFine ==
  ASSUME NEW c \in Calls, c.pc # "idle", UpToDate(c)
  PROVE  /\ Left(c) \in Calls /\ Left(c).pc = "fallback" /\ QuietLike(Left(c))
         /\ WellFormed(Left(c)) /\ UpToDate(Left(c)) /\ AtItsFiles(Left(c)) /\ Answers(Left(c))
<1> DEFINE e == Left(c)
<1>1. /\ e \in Calls /\ e.pc = "fallback" /\ e.seen = c.seen /\ e.got = Quiet.got /\ e.out = Quiet.out
      /\ e.k = Quiet.k /\ e.todo = Quiet.todo /\ e.created = Quiet.created /\ e.built = Quiet.built
  BY QuietFields DEF Left, Calls, Pcs
<1> HIDE DEF e
<1>2. QuietLike(e) /\ e.out \notin {"hit", "mixed"}
  BY <1>1, QuietFields DEF QuietLike, UpToDate
<1>3. WellFormed(e) /\ UpToDate(e) /\ AtItsFiles(e) /\ Answers(e)
  BY <1>2, QuietLikeIsFine
<1> QED
  BY <1>1, <1>2, <1>3 DEF e

(* What the invariant says of one call.                                    *)
LEMMA OneCall ==
  ASSUME IInv, NEW p \in Procs
  PROVE  /\ call[p] \in Calls /\ call[p].k \in Keys
         /\ WellFormed(call[p]) /\ UpToDate(call[p])
         /\ ~tainted => Answers(call[p])
         /\ AtItsFiles(call[p])
         /\ entry[call[p].k] \in Entries
BY DEF IInv, Shape, CallsInv, Calls

-----------------------------------------------------------------------------
(* The actions, one by one.                                                *)
LEMMA BeginKeeps ==
  ASSUME IInv, NEW p \in Procs, Begin(p) PROVE IInv'
<1> DEFINE c == [Quiet EXCEPT !.pc = "isdir", !.seen = {header.content}]
<1>1. call' = [call EXCEPT ![p] = c] /\ call[p].pc = "idle"
  BY DEF Begin, At
<1>2. /\ c \in Calls /\ c.pc = "isdir" /\ c.seen = {header.content} /\ c.got = Quiet.got
      /\ c.out = Quiet.out /\ c.k = Quiet.k /\ c.todo = Quiet.todo /\ c.created = Quiet.created
      /\ c.built = Quiet.built
  <2>1. header.content \in Contents
    BY DEF IInv, Shape
  <2> QED
    BY <2>1, QuietFields DEF Calls, Pcs, Lookup
<1>3. /\ UNCHANGED <<lock, entry, header, tainted>>
      /\ used' \in [edits : 0..MaxEdits, faults : Nat, calls : Nat]
      /\ used'.edits = used.edits /\ used'.faults = used.faults
  BY DEF Begin, IInv, Shape
<1> HIDE DEF c
<1>4. QuietLike(c) /\ c.out \notin {"hit", "mixed"}
  BY <1>2, QuietFields DEF QuietLike
<1>5. WellFormed(c) /\ UpToDate(c) /\ AtItsFiles(c) /\ Answers(c)
  BY <1>4, QuietLikeIsFine
<1>6. LockPassed(p, c)
  BY <1>2, <1>3 DEF LockPassed, IInv, Shape, SectionPcs, StorePcs
<1> QED
  BY <1>1, <1>2, <1>3, <1>5, <1>6, CallStep

LEMMA TakeLockKeeps ==
  ASSUME IInv, NEW p \in Procs, NEW from, NEW to,
         TakeLock(p, from, to), <<from, to>> \in {<<"lock_r", "load">>, <<"lock_w", "store">>}
  PROVE  IInv'
<1> DEFINE c == [call[p] EXCEPT !.pc = to]
<1>1. call' = [call EXCEPT ![p] = c] /\ call[p].pc = from /\ lock = "free" /\ lock' = p
  BY DEF TakeLock, At, Goto
<1>2. /\ c \in Calls /\ c.pc = to
      /\ c.k = call[p].k /\ c.todo = call[p].todo /\ c.built = call[p].built /\ c.hash = call[p].hash
      /\ c.created = call[p].created /\ c.got = call[p].got /\ c.raced = call[p].raced
      /\ c.seen = call[p].seen /\ c.out = call[p].out
  BY OneCall, PcFields DEF Pcs, Lookup, StorePcs
<1>3. UNCHANGED <<entry, header, tainted, used>>
  BY DEF TakeLock
<1> HIDE DEF c
<1>4. WellFormed(c) /\ UpToDate(c) /\ AtItsFiles(c)
  BY <1>1, <1>2, OneCall DEF WellFormed, UpToDate, AtItsFiles, StorePcs
<1>5. ~tainted => Answers(c)
  BY <1>1, <1>2, OneCall DEF Answers, HasAnswer, Lookup
<1>6. LockPassed(p, c)
  BY <1>1, CacheAssumption DEF LockPassed
<1>7. used' \in [edits : 0..MaxEdits, faults : Nat, calls : Nat]
  BY <1>3 DEF IInv, Shape
<1> QED
  BY <1>1, <1>2, <1>3, <1>4, <1>5, <1>6, <1>7, CallStep

(* Steps that leave the lock file alone too, outside the locked section.   *)
LEMMA QuickStep ==
  ASSUME IInv, NEW p \in Procs, NEW c \in Calls, call' = [call EXCEPT ![p] = c],
         c.pc \notin SectionPcs, call[p].pc \notin SectionPcs,
         UNCHANGED <<lock, entry, header, tainted, used>>,
         WellFormed(c), UpToDate(c), ~tainted => Answers(c), AtItsFiles(c)
  PROVE  IInv'
<1>1. LockPassed(p, c)
  BY DEF LockPassed, IInv, Shape
<1>2. used' \in [edits : 0..MaxEdits, faults : Nat, calls : Nat]
  BY DEF IInv, Shape
<1> QED
  BY <1>1, <1>2, CallStep DEF SectionPcs, StorePcs

LEMMA LockTimesOutKeeps ==
  ASSUME IInv, NEW p \in Procs, LockTimesOut(p) PROVE IInv'
<1>1. /\ call' = [call EXCEPT ![p] = Left(call[p])] /\ call[p].pc \in {"lock_r", "lock_w"}
      /\ UNCHANGED <<lock, entry, header, tainted, used>>
  BY DEF LockTimesOut, LeaveCache, Left, At
<1> QED
  BY <1>1, OneCall, LeftIsFine, QuickStep DEF SectionPcs, StorePcs

LEMMA IsDirKeeps ==
  ASSUME IInv, NEW p \in Procs, IsDir(p) PROVE IInv'
<1> DEFINE d == [call[p] EXCEPT !.pc = "lock_r"]
<1>1. /\ call[p].pc = "isdir"
      /\ call' = [call EXCEPT ![p] = d] \/ call' = [call EXCEPT ![p] = Miss(call[p])]
      /\ UNCHANGED <<lock, entry, header, tainted, used>>
  BY DEF IsDir, At, Goto
<1>2. CASE call' = [call EXCEPT ![p] = d]
  <2>1. /\ d \in Calls /\ d.pc = "lock_r"
        /\ d.k = call[p].k /\ d.todo = call[p].todo /\ d.built = call[p].built /\ d.hash = call[p].hash
        /\ d.created = call[p].created /\ d.got = call[p].got /\ d.raced = call[p].raced
        /\ d.seen = call[p].seen /\ d.out = call[p].out
    BY OneCall, PcFields DEF Pcs, Lookup
  <2> HIDE DEF d
  <2>2. WellFormed(d) /\ UpToDate(d) /\ AtItsFiles(d)
    BY <1>1, <2>1, OneCall DEF WellFormed, UpToDate, AtItsFiles, StorePcs
  <2>3. ~tainted => Answers(d)
    BY <1>1, <2>1, OneCall DEF Answers, HasAnswer, Lookup
  <2> QED
    BY <1>1, <1>2, <2>1, <2>2, <2>3, QuickStep DEF SectionPcs, StorePcs
<1>3. CASE call' = [call EXCEPT ![p] = Miss(call[p])]
  <2> DEFINE m == Miss(call[p])
  <2>1. /\ m \in Calls /\ WellFormed(m) /\ UpToDate(m)
        /\ m.pc \in {"isdir", "all_hit", "build"}
        /\ ~tainted => Answers(m)
    BY <1>1, OneCall, MissGoesOn DEF Lookup
  <2> HIDE DEF m
  <2>2. AtItsFiles(m)
    BY <2>1 DEF AtItsFiles
  <2> QED
    BY <1>1, <1>3, <2>1, <2>2, QuickStep DEF SectionPcs, StorePcs, m
<1> QED
  BY <1>1, <1>2, <1>3

LEMMA BuildFromCacheKeeps ==
  ASSUME IInv, NEW p \in Procs, BuildFromCache(p) PROVE IInv'
<1>1. /\ call[p].pc = "all_hit"
      /\ \/ call' = [call EXCEPT ![p] = Left(call[p])]
         \/ call' = [call EXCEPT ![p] = Ended(call[p], "hit", FALSE)]
      /\ UNCHANGED <<lock, entry, header, tainted, used>>
  BY DEF BuildFromCache, At, LeaveCache, Left, Return
<1>2. CASE call' = [call EXCEPT ![p] = Left(call[p])]
  BY <1>1, <1>2, OneCall, LeftIsFine, QuickStep DEF SectionPcs, StorePcs
<1>3. CASE call' = [call EXCEPT ![p] = Ended(call[p], "hit", FALSE)]
  <2>1. ~tainted => \A j \in Keys : call[p].got[j] \in call[p].seen
    BY <1>1, OneCall DEF Answers, HasAnswer, WellFormed, Lookup
  <2> DEFINE e == Ended(call[p], "hit", FALSE)
  <2>2. IsEnd(e, call[p], "hit")
    BY DEF IsEnd
  <2> HIDE DEF e
  <2>3. /\ e \in Calls /\ e.pc = "idle"
        /\ WellFormed(e) /\ UpToDate(e) /\ AtItsFiles(e)
        /\ ~tainted => Answers(e)
    BY <2>1, <2>2, OneCall, EndedIsFine
  <2>4. call' = [call EXCEPT ![p] = e]
    BY <1>3 DEF e
  <2> QED
    BY <1>1, <2>3, <2>4, QuickStep DEF SectionPcs, StorePcs
<1> QED
  BY <1>1, <1>2, <1>3

(* A call that ends without an answer from the cache.                      *)
LEMMA EndKeeps ==
  ASSUME IInv, NEW p \in Procs, NEW out \in {"built", "raised"}, NEW e,
         IsEnd(e, call[p], out), call' = [call EXCEPT ![p] = e],
         call[p].pc \notin SectionPcs, UNCHANGED <<lock, entry, header, tainted, used>>
  PROVE  IInv'
<1>1. /\ e \in Calls /\ e.pc = "idle"
      /\ WellFormed(e) /\ UpToDate(e) /\ AtItsFiles(e)
      /\ ~tainted => Answers(e)
  BY OneCall, EndedIsFine
<1> QED
  BY <1>1, QuickStep DEF SectionPcs, StorePcs

LEMMA BuildFromSourceKeeps ==
  ASSUME IInv, NEW p \in Procs, BuildFromSource(p) PROVE IInv'
<1> DEFINE d == [call[p] EXCEPT !.built = header.content,
                   !.got = [k \in Keys |-> IF k \in call[p].todo THEN header.content ELSE call[p].got[k]],
                   !.k = Min(call[p].todo), !.pc = "lock_w"]
           e == Ended(call[p], "raised", TRUE)
<1>0. /\ call[p].pc = "build" /\ call[p] \in Calls /\ call \in [Procs -> Calls]
      /\ UNCHANGED <<lock, entry, header, tainted, used>>
  BY OneCall DEF BuildFromSource, At, IInv, Shape
<1>1. \/ call' = [call EXCEPT ![p] = d]
      \/ call' = [call EXCEPT ![p] = Left(call[p])]
      \/ call' = [call EXCEPT ![p] = e]
  BY <1>0 DEF BuildFromSource, LeaveCache, Left, SourceFails
<1>2. CASE call' = [call EXCEPT ![p] = d]
  <2>1. /\ header.content \in Contents /\ header.content # "none"
        /\ Min(call[p].todo) \in call[p].todo /\ call[p].todo \subseteq Keys
    BY <1>0, OneCall, LeastKey, CacheAssumption DEF WellFormed, Calls, IInv, Shape
  <2> DEFINE g == [k \in Keys |-> IF k \in call[p].todo THEN header.content ELSE call[p].got[k]]
  <2>2. g \in [Keys -> Binaries]
    BY <1>0, <2>1 DEF Calls, Binaries
  <2>3. \A j \in Keys : g[j] = IF j \in call[p].todo THEN header.content ELSE call[p].got[j]
    OBVIOUS
  <2> HIDE DEF g
  <2>4. d = [call[p] EXCEPT !.built = header.content, !.got = g, !.k = Min(call[p].todo), !.pc = "lock_w"]
    BY DEF g
  <2> HIDE DEF d
  <2>5. /\ d \in Calls /\ d.pc = "lock_w" /\ d.k = Min(call[p].todo) /\ d.built = header.content
        /\ d.got = g /\ d.todo = call[p].todo /\ d.created = call[p].created
        /\ d.seen = call[p].seen /\ d.out = call[p].out
    BY <1>0, <2>1, <2>2, <2>4 DEF Calls, Pcs
  <2>6. WellFormed(d) /\ UpToDate(d) /\ AtItsFiles(d)
    BY <1>0, <2>1, <2>5, OneCall DEF WellFormed, UpToDate, AtItsFiles, StorePcs
  <2>7. ASSUME ~tainted, NEW j \in Keys PROVE HasAnswer(d, j) /\ d.got[j] \in d.seen \cup {"none"}
    BY <1>0, <2>1, <2>3, <2>5, <2>7, OneCall DEF Answers, HasAnswer, UpToDate, Lookup
  <2> QED
    BY <1>0, <1>2, <2>5, <2>6, <2>7, QuickStep DEF SectionPcs, StorePcs, Answers
<1>3. CASE call' = [call EXCEPT ![p] = Left(call[p])]
  BY <1>0, <1>3, OneCall, LeftIsFine, QuickStep DEF SectionPcs, StorePcs
<1>4. CASE call' = [call EXCEPT ![p] = e]
  <2>1. IsEnd(e, call[p], "raised")
    BY DEF IsEnd
  <2> HIDE DEF e
  <2> QED
    BY <1>0, <1>4, <2>1, EndKeeps DEF SectionPcs, StorePcs
<1> QED
  BY <1>1, <1>2, <1>3, <1>4

LEMMA LoadKeeps ==
  ASSUME IInv, NEW p \in Procs, Load(p) PROVE IInv'
<1> DEFINE k == call[p].k
           e == [entry[k] EXCEPT !.dir = TRUE]
<1>1. /\ call[p].pc = "load" /\ entry' = [entry EXCEPT ![k] = e]
      /\ UNCHANGED <<header, tainted, used>>
      /\ call[p] \in Calls /\ lock = p /\ InSection(p)
  BY OneCall, Sections DEF Load, At, IInv, OneWriter, SectionPcs
<1>2. /\ e \in Entries /\ e.binary = entry[k].binary /\ e.info = entry[k].info
  BY OneCall DEF Entries
<1>3. EntryInv(k) /\ ~WorkedOn(k, {"bin", "open_info", "reset"}) /\ ~WorkedOn(k, {"bin", "open_info"})
  <2>1. \A q \in Procs : q # p => ~InSection(q)
    BY <1>1 DEF IInv, OneWriter
  <2>2. EntryInv(k)
    BY OneCall DEF IInv
  <2> QED
    BY <1>1, <2>1, <2>2, Sections DEF WorkedOn, SectionPcs, StorePcs
<1>4. \A c : EntryLeft(e, c, tainted)
  BY <1>2, <1>3 DEF EntryInv, EntryLeft
<1>5. tainted \in BOOLEAN /\ lock \in Procs
  BY <1>1 DEF IInv, Shape
<1> HIDE DEF e
<1>6. ASSUME NEW l \in {"reset", "check"}, call' = [call EXCEPT ![p].pc = l], lock' = lock,
             l = "check" => e.info.state = "ok" /\ e.binary # "none"
      PROVE  IInv'
  <2> DEFINE d == [call[p] EXCEPT !.pc = l]
  <2>1. /\ d \in Calls /\ d.pc = l
        /\ d.k = call[p].k /\ d.todo = call[p].todo /\ d.built = call[p].built /\ d.hash = call[p].hash
        /\ d.created = call[p].created /\ d.got = call[p].got /\ d.raced = call[p].raced
        /\ d.seen = call[p].seen /\ d.out = call[p].out
    <3>1. l \in Pcs
      BY DEF Pcs, Lookup
    <3> QED
      BY <1>1, <3>1, PcFields
  <2>2. call' = [call EXCEPT ![p] = d]
    BY <1>6
  <2> HIDE DEF d
  <2>3. WellFormed(d) /\ UpToDate(d) /\ FilesLeft(e, d)
    BY <1>1, <1>6, <2>1, OneCall DEF WellFormed, UpToDate, FilesLeft, StorePcs
  <2>4. ~tainted => Answers(d)
    BY <1>1, <2>1, OneCall DEF Answers, HasAnswer, Lookup
  <2>5. LockPassed(p, d)
    BY <1>1, <1>6 DEF LockPassed
  <2> QED
    BY <1>1, <1>2, <1>4, <1>5, <2>1, <2>2, <2>3, <2>4, <2>5, FileStep
<1>7. ASSUME LeaveCache(p), lock' = "free" PROVE IInv'
  <2> DEFINE d == Left(call[p])
  <2>1. /\ d \in Calls /\ d.pc = "fallback" /\ WellFormed(d) /\ UpToDate(d) /\ Answers(d)
    BY <1>1, OneCall, LeftIsFine
  <2>2. call' = [call EXCEPT ![p] = d]
    BY <1>7 DEF LeaveCache, Left
  <2> HIDE DEF d
  <2>3. LockPassed(p, d) /\ FilesLeft(e, d)
    BY <1>1, <1>7, <2>1 DEF LockPassed, FilesLeft, SectionPcs, StorePcs
  <2> QED
    BY <1>1, <1>2, <1>4, <1>5, <2>1, <2>2, <2>3, FileStep
<1> QED
  BY <1>2, <1>6, <1>7 DEF Load, Goto, Unlock

(* An entry whose info file agrees with the header holds a binary that was *)
(* compiled with what the header contains now.                             *)
LEMMA HitIsCurrent ==
  ASSUME IInv, NEW p \in Procs, call[p].pc = "check", ~tainted,
         DependenciesHold(entry[call[p].k].info)
  PROVE  entry[call[p].k].binary = header.content
<1> DEFINE k == call[p].k
<1>1. \A q \in Procs : q # p => ~InSection(q)
  BY Sections DEF IInv, OneWriter, SectionPcs
<1>2. EntryInv(k) /\ ~WorkedOn(k, {"bin", "open_info"})
  BY <1>1, OneCall, Sections DEF IInv, WorkedOn, SectionPcs, StorePcs
<1>3. entry[k].info.state = "ok" /\ entry[k].binary # "none"
  BY OneCall DEF AtItsFiles
<1> QED
  BY <1>2, <1>3 DEF EntryInv, DependenciesHold

LEMMA CheckDependenciesKeeps ==
  ASSUME IInv, NEW p \in Procs, CheckDependencies(p) PROVE IInv'
<1> DEFINE k == call[p].k
           e == entry[k]
<1>1. /\ call[p].pc = "check" /\ UNCHANGED <<entry, header, tainted, used>>
      /\ call[p] \in Calls /\ lock = p /\ InSection(p)
      /\ tainted \in BOOLEAN /\ Shape /\ entry' = [entry EXCEPT ![k] = e] /\ e \in Entries
  BY OneCall, Sections DEF CheckDependencies, At, IInv, OneWriter, SectionPcs, Shape
<1>2. EntryInv(k) /\ ~WorkedOn(k, {"bin", "open_info", "reset"}) /\ ~WorkedOn(k, {"bin", "open_info"})
  <2>1. \A q \in Procs : q # p => ~InSection(q)
    BY <1>1 DEF IInv, OneWriter
  <2>2. EntryInv(k)
    BY OneCall DEF IInv
  <2> QED
    BY <1>1, <2>1, <2>2, Sections DEF WorkedOn, SectionPcs, StorePcs
<1>3. \A c : EntryLeft(e, c, tainted)
  BY <1>2 DEF EntryInv, EntryLeft
<1>4. CASE DependenciesHold(e.info) /\ call' = [call EXCEPT ![p] = Hit(call[p])] /\ lock' = "free"
  <2> DEFINE d == Hit(call[p])
  <2>1. e.binary # "none"
    BY <1>1, OneCall DEF AtItsFiles
  <2>2. ~tainted => e.binary \in call[p].seen
    BY <1>1, <1>4, HitIsCurrent, OneCall DEF UpToDate
  <2>3. /\ d \in Calls /\ WellFormed(d) /\ UpToDate(d)
        /\ d.pc \in {"isdir", "all_hit", "build"}
        /\ ~tainted => Answers(d)
    BY <1>1, <2>1, <2>2, OneCall, HitGoesOn DEF Lookup
  <2> HIDE DEF d
  <2>4. LockPassed(p, d) /\ FilesLeft(e, d)
    BY <1>1, <1>4, <2>3 DEF LockPassed, FilesLeft, SectionPcs, StorePcs
  <2>5. call' = [call EXCEPT ![p] = d]
    BY <1>4 DEF d
  <2> HIDE DEF e
  <2> QED
    BY <1>1, <1>3, <2>3, <2>4, <2>5, FileStep
<1>5. CASE call' = [call EXCEPT ![p].pc = "reset"] /\ lock' = lock
  <2> DEFINE d == [call[p] EXCEPT !.pc = "reset"]
  <2>1. /\ d \in Calls /\ d.pc = "reset"
        /\ d.k = call[p].k /\ d.todo = call[p].todo /\ d.built = call[p].built /\ d.hash = call[p].hash
        /\ d.created = call[p].created /\ d.got = call[p].got /\ d.raced = call[p].raced
        /\ d.seen = call[p].seen /\ d.out = call[p].out
    BY OneCall, PcFields DEF Pcs, Lookup
  <2>2. call' = [call EXCEPT ![p] = d]
    BY <1>5
  <2> HIDE DEF d
  <2>3. WellFormed(d) /\ UpToDate(d) /\ FilesLeft(e, d)
    BY <1>1, <2>1, OneCall DEF WellFormed, UpToDate, FilesLeft, StorePcs
  <2>4. ~tainted => Answers(d)
    BY <1>1, <2>1, OneCall DEF Answers, HasAnswer, Lookup
  <2>5. LockPassed(p, d)
    BY <1>1, <1>5 DEF LockPassed
  <2> HIDE DEF e
  <2> QED
    BY <1>1, <1>3, <2>1, <2>2, <2>3, <2>4, <2>5, FileStep
<1> QED
  BY <1>4, <1>5 DEF CheckDependencies, Goto, Unlock

LEMMA ResetUnlinksKeeps ==
  ASSUME IInv, NEW p \in Procs, ResetUnlinks(p) PROVE IInv'
<1> DEFINE k == call[p].k
<1>1. /\ call[p].pc = "reset" /\ UNCHANGED <<lock, header, call, tainted, used>>
      /\ lock = p /\ InSection(p)
      /\ tainted \in BOOLEAN /\ call' = [call EXCEPT ![p] = call[p]]
  BY OneCall, Sections DEF ResetUnlinks, At, IInv, OneWriter, SectionPcs, Shape
<1>2. EntryInv(k) /\ ~WorkedOn(k, {"bin", "open_info"})
  <2>1. \A q \in Procs : q # p => ~InSection(q)
    BY <1>1 DEF IInv, OneWriter
  <2>2. EntryInv(k)
    BY OneCall DEF IInv
  <2> QED
    BY <1>1, <2>1, <2>2, Sections DEF WorkedOn, SectionPcs, StorePcs
<1>3. LockPassed(p, call[p])
  BY <1>1 DEF LockPassed
<1>4. ASSUME NEW e \in Entries, entry' = [entry EXCEPT ![k] = e], EntryLeft(e, call[p], tainted)
      PROVE  IInv'
  <2>1. FilesLeft(e, call[p])
    BY <1>1 DEF FilesLeft
  <2> QED
    BY <1>1, <1>3, <1>4, <2>1, OneCall, FileStep
<1>5. CASE entry' = [entry EXCEPT ![k].binary = "none"]
  <2> DEFINE e == [entry[k] EXCEPT !.binary = "none"]
  <2>1. /\ entry' = [entry EXCEPT ![k] = e]
        /\ e \in Entries /\ e.info = entry[k].info /\ e.binary = "none"
    BY <1>5, OneCall DEF Entries, Binaries
  <2> HIDE DEF e
  <2>2. EntryLeft(e, call[p], tainted)
    BY <1>1, <1>2, <2>1 DEF EntryInv, EntryLeft
  <2> QED
    BY <1>4, <2>1, <2>2
<1>6. CASE entry' = [entry EXCEPT ![k].info = NoInfo]
  <2> DEFINE e == [entry[k] EXCEPT !.info = NoInfo]
  <2>1. /\ entry' = [entry EXCEPT ![k] = e]
        /\ e \in Entries /\ e.info = NoInfo
    BY <1>6, OneCall, AbsentEntry DEF Entries
  <2> HIDE DEF e
  <2>2. EntryLeft(e, call[p], tainted)
    BY <2>1, AbsentEntry DEF EntryLeft
  <2> QED
    BY <1>4, <2>1, <2>2
<1> QED
  BY <1>5, <1>6 DEF ResetUnlinks

LEMMA ResetRemovesDirKeeps ==
  ASSUME IInv, NEW p \in Procs, ResetRemovesDir(p) PROVE IInv'
<1> DEFINE k == call[p].k
           d == [call[p] EXCEPT !.pc = "mkdir"]
<1>1. /\ call[p].pc = "reset" /\ UNCHANGED <<lock, header, tainted, used>>
      /\ lock = p /\ InSection(p) /\ tainted \in BOOLEAN
      /\ call' = [call EXCEPT ![p] = d] /\ entry' = [entry EXCEPT ![k] = Absent]
  BY OneCall, Sections DEF ResetRemovesDir, Goto, At, IInv, OneWriter, SectionPcs, Shape
<1>2. /\ d \in Calls /\ d.pc = "mkdir"
      /\ d.k = call[p].k /\ d.todo = call[p].todo /\ d.built = call[p].built /\ d.hash = call[p].hash
      /\ d.created = call[p].created /\ d.got = call[p].got /\ d.raced = call[p].raced
      /\ d.seen = call[p].seen /\ d.out = call[p].out
  BY OneCall, PcFields DEF Pcs, Lookup
<1> HIDE DEF d
<1>3. WellFormed(d) /\ UpToDate(d) /\ FilesLeft(Absent, d) /\ EntryLeft(Absent, d, tainted)
  BY <1>1, <1>2, OneCall, AbsentEntry DEF WellFormed, UpToDate, FilesLeft, EntryLeft, StorePcs
<1>4. ~tainted => Answers(d)
  BY <1>1, <1>2, OneCall DEF Answers, HasAnswer, Lookup
<1>5. LockPassed(p, d)
  BY <1>1 DEF LockPassed
<1> QED
  BY <1>1, <1>2, <1>3, <1>4, <1>5, AbsentEntry, FileStep

LEMMA ResetMakesDirKeeps ==
  ASSUME IInv, NEW p \in Procs, ResetMakesDir(p) PROVE IInv'
<1> DEFINE k == call[p].k
           e == [entry[k] EXCEPT !.dir = TRUE]
           d == Miss(call[p])
<1>1. /\ call[p].pc = "mkdir" /\ UNCHANGED <<header, tainted, used>>
      /\ lock = p /\ InSection(p) /\ tainted \in BOOLEAN /\ lock' = "free"
      /\ call' = [call EXCEPT ![p] = d] /\ entry' = [entry EXCEPT ![k] = e]
  BY OneCall, Sections DEF ResetMakesDir, Unlock, At, IInv, OneWriter, SectionPcs, Shape
<1>2. EntryInv(k) /\ ~WorkedOn(k, {"bin", "open_info", "reset"}) /\ ~WorkedOn(k, {"bin", "open_info"})
  <2>1. \A q \in Procs : q # p => ~InSection(q)
    BY <1>1 DEF IInv, OneWriter
  <2>2. EntryInv(k)
    BY OneCall DEF IInv
  <2> QED
    BY <1>1, <2>1, <2>2, Sections DEF WorkedOn, SectionPcs, StorePcs
<1>3. /\ e \in Entries /\ e.binary = entry[k].binary /\ e.info = entry[k].info
  BY OneCall DEF Entries
<1>4. EntryLeft(e, d, tainted)
  BY <1>2, <1>3 DEF EntryInv, EntryLeft
<1>5. /\ d \in Calls /\ WellFormed(d) /\ UpToDate(d)
      /\ d.pc \in {"isdir", "all_hit", "build"}
      /\ ~tainted => Answers(d)
  BY <1>1, OneCall, MissGoesOn DEF Lookup
<1> HIDE DEF d, e
<1>6. LockPassed(p, d) /\ FilesLeft(e, d)
  BY <1>1, <1>5 DEF LockPassed, FilesLeft, SectionPcs, StorePcs
<1> QED
  BY <1>1, <1>3, <1>4, <1>5, <1>6, FileStep

(* A process that stores owns the lock.                                    *)
LEMMA StoringOwns ==
  ASSUME IInv, NEW p \in Procs, call[p].pc \in StorePcs
  PROVE  /\ InSection(p) /\ lock = p /\ tainted \in BOOLEAN
         /\ EntryInv(call[p].k)
         /\ \A k, pcs : pcs \subseteq SectionPcs /\ WorkedOn(k, pcs)
                          => call[p].pc \in pcs /\ call[p].k = k
<1>1. InSection(p) /\ lock = p /\ tainted \in BOOLEAN
  BY Sections DEF SectionPcs, IInv, OneWriter, Shape
<1>2. \A q \in Procs : q # p => call[q].pc \notin SectionPcs
  BY <1>1, Sections DEF IInv, OneWriter
<1>3. EntryInv(call[p].k)
  BY OneCall DEF IInv
<1> QED
  BY <1>1, <1>2, <1>3 DEF WorkedOn

(* A call that goes on to place l of the store, with the same key.         *)
LEMMA StoreGoesOn ==
  ASSUME IInv, NEW p \in Procs, call[p].pc \in StorePcs, NEW d \in Calls,
         d.pc \in StorePcs, d.pc # "dump",
         d.k = call[p].k /\ d.todo = call[p].todo /\ d.built = call[p].built
         /\ d.created \subseteq call[p].created \cup {call[p].k} /\ d.got = call[p].got
         /\ d.raced = call[p].raced /\ d.seen = call[p].seen /\ d.out = call[p].out,
         lock' = lock
  PROVE  WellFormed(d) /\ UpToDate(d) /\ (~tainted => Answers(d)) /\ LockPassed(p, d)
<1>1. WellFormed(d) /\ UpToDate(d)
  BY OneCall DEF WellFormed, UpToDate, StorePcs
<1>2. ~tainted => Answers(d)
  BY OneCall DEF Answers, HasAnswer, Lookup, StorePcs
<1>3. LockPassed(p, d)
  BY StoringOwns DEF LockPassed
<1> QED
  BY <1>1, <1>2, <1>3

LEMMA StoreOpensBinaryKeeps ==
  ASSUME IInv, NEW p \in Procs, StoreOpensBinary(p) PROVE IInv'
<1> DEFINE k == call[p].k
           e == [entry[k] EXCEPT !.dir = TRUE, !.binary = "cut"]
           made == IF entry[k].dir THEN call[p].created ELSE call[p].created \cup {k}
           d == [call[p] EXCEPT !.pc = "bin", !.created = made]
<1>1. /\ call[p].pc = "store" /\ call[p].pc \in StorePcs
      /\ UNCHANGED <<lock, header, tainted, used>>
      /\ entry' = [entry EXCEPT ![k] = e]
      /\ call' = [call EXCEPT ![p] = d]
  BY OneCall DEF StoreOpensBinary, At, IInv, Shape, StorePcs
<1>2. e \in Entries /\ e.info = entry[k].info /\ e.binary = "cut"
  BY OneCall DEF Entries, Binaries
<1>3. made \subseteq Keys /\ made \subseteq call[p].created \cup {k}
  BY OneCall DEF Calls
<1> HIDE DEF made
<1>4. /\ d \in Calls /\ d.pc = "bin" /\ d.k = k /\ d.todo = call[p].todo /\ d.built = call[p].built
      /\ d.created = made /\ d.got = call[p].got /\ d.raced = call[p].raced
      /\ d.seen = call[p].seen /\ d.out = call[p].out
  BY <1>3, OneCall DEF Calls, Pcs, StorePcs
<1> HIDE DEF d, e
<1>5. WellFormed(d) /\ UpToDate(d) /\ (~tainted => Answers(d)) /\ LockPassed(p, d)
  BY <1>1, <1>3, <1>4, StoreGoesOn DEF StorePcs
<1>6. FilesLeft(e, d)
  BY <1>4 DEF FilesLeft
<1>7. EntryLeft(e, d, tainted)
  BY <1>2, <1>4, StoringOwns, <1>1 DEF EntryLeft, EntryInv
<1> QED
  BY <1>1, <1>2, <1>4, <1>5, <1>6, <1>7, StoringOwns, FileStep

LEMMA StoreWritesBinaryKeeps ==
  ASSUME IInv, NEW p \in Procs, StoreWritesBinary(p) PROVE IInv'
<1> DEFINE k == call[p].k
           e == [entry[k] EXCEPT !.binary = call[p].built]
           d == [call[p] EXCEPT !.pc = "open_info"]
<1>1. /\ call[p].pc = "bin" /\ call[p].pc \in StorePcs
      /\ UNCHANGED <<lock, header, tainted, used>>
      /\ entry' = [entry EXCEPT ![k] = e]
      /\ call' = [call EXCEPT ![p] = d]
  BY OneCall DEF StoreWritesBinary, Goto, At, StorePcs
<1>2. e \in Entries /\ e.info = entry[k].info /\ e.binary = call[p].built
  BY OneCall DEF Entries, Binaries, Calls
<1>3. /\ d \in Calls /\ d.pc = "open_info" /\ d.k = k /\ d.todo = call[p].todo /\ d.built = call[p].built
      /\ d.created = call[p].created /\ d.got = call[p].got /\ d.raced = call[p].raced
      /\ d.seen = call[p].seen /\ d.out = call[p].out
  BY OneCall, PcFields DEF Pcs, StorePcs
<1> HIDE DEF d, e
<1>4. WellFormed(d) /\ UpToDate(d) /\ (~tainted => Answers(d)) /\ LockPassed(p, d)
  BY <1>1, <1>3, StoreGoesOn DEF StorePcs
<1>5. FilesLeft(e, d)
  BY <1>2, <1>3 DEF FilesLeft
<1>6. EntryLeft(e, d, tainted)
  BY <1>1, <1>2, <1>3, StoringOwns DEF EntryLeft, EntryInv
<1> QED
  BY <1>1, <1>2, <1>3, <1>4, <1>5, <1>6, StoringOwns, FileStep

LEMMA StoreOpensInfoKeeps ==
  ASSUME IInv, NEW p \in Procs, StoreOpensInfo(p) PROVE IInv'
<1> DEFINE k == call[p].k
           e == [entry[k] EXCEPT !.info = [state |-> "empty"]]
           d == [call[p] EXCEPT !.pc = "deps"]
<1>1. /\ call[p].pc = "open_info" /\ call[p].pc \in StorePcs
      /\ UNCHANGED <<lock, header, tainted, used>>
      /\ entry' = [entry EXCEPT ![k] = e]
      /\ call' = [call EXCEPT ![p] = d]
  BY OneCall DEF StoreOpensInfo, Goto, At, StorePcs
<1>2. e \in Entries /\ e.info.state = "empty" /\ e.binary = entry[k].binary
  BY OneCall, InfoKinds DEF Entries
<1>3. /\ d \in Calls /\ d.pc = "deps" /\ d.k = k /\ d.todo = call[p].todo /\ d.built = call[p].built
      /\ d.created = call[p].created /\ d.got = call[p].got /\ d.raced = call[p].raced
      /\ d.seen = call[p].seen /\ d.out = call[p].out
  <2>1. call[p] \in Calls /\ "deps" \in Pcs
    BY OneCall DEF Pcs, StorePcs
  <2> QED
    BY <2>1, PcFields
<1> HIDE DEF d, e
<1>4. WellFormed(d) /\ UpToDate(d) /\ (~tainted => Answers(d)) /\ LockPassed(p, d)
  BY <1>1, <1>3, StoreGoesOn DEF StorePcs
<1>5. FilesLeft(e, d)
  BY <1>1, <1>2, <1>3, OneCall DEF FilesLeft, AtItsFiles
<1>6. EntryLeft(e, d, tainted)
  BY <1>2 DEF EntryLeft
<1> QED
  BY <1>1, <1>2, <1>3, <1>4, <1>5, <1>6, StoringOwns, FileStep

LEMMA StoreReadsHeaderKeeps ==
  ASSUME IInv, NEW p \in Procs, StoreReadsHeader(p) PROVE IInv'
<1> DEFINE k == call[p].k
           d == [call[p] EXCEPT !.hash = header.content, !.pc = "dump"]
<1>1. /\ call[p].pc = "deps" /\ call[p].pc \in StorePcs
      /\ UNCHANGED <<lock, entry, header, tainted, used>>
      /\ call' = [call EXCEPT ![p] = d] /\ entry' = [entry EXCEPT ![k] = entry[k]]
  BY OneCall DEF StoreReadsHeader, At, StorePcs, IInv, Shape
<1>2. header.content \in Contents
  BY DEF IInv, Shape
<1>3. /\ d \in Calls /\ d.pc = "dump" /\ d.hash = header.content
      /\ d.k = k /\ d.todo = call[p].todo /\ d.built = call[p].built
      /\ d.created = call[p].created /\ d.got = call[p].got /\ d.raced = call[p].raced
      /\ d.seen = call[p].seen /\ d.out = call[p].out
  BY <1>2, OneCall DEF Calls, Pcs, StorePcs
<1> HIDE DEF d
<1>4. WellFormed(d)
  BY <1>1, <1>2, <1>3, OneCall DEF WellFormed, StorePcs
<1>5. UpToDate(d)
  BY <1>1, <1>3, OneCall, CacheAssumption DEF UpToDate, WellFormed
<1>6. ~tainted => Answers(d)
  BY <1>1, <1>3, OneCall DEF Answers, HasAnswer, Lookup
<1>7. LockPassed(p, d)
  BY <1>1, StoringOwns DEF LockPassed
<1>8. FilesLeft(entry[k], d)
  BY <1>1, <1>3, OneCall DEF FilesLeft, AtItsFiles
<1>9. EntryLeft(entry[k], d, tainted)
  <2>1. ~WorkedOn(k, {"bin", "open_info"}) /\ ~WorkedOn(k, {"bin", "open_info", "reset"})
    BY <1>1, StoringOwns DEF SectionPcs, StorePcs
  <2> QED
    BY <1>1, <2>1, StoringOwns DEF EntryLeft, EntryInv
<1> QED
  BY <1>1, <1>3, <1>4, <1>5, <1>6, <1>7, <1>8, <1>9, OneCall, StoringOwns, FileStep

LEMMA StoreDumpsInfoKeeps ==
  ASSUME IInv, NEW p \in Procs, StoreDumpsInfo(p) PROVE IInv'
<1> DEFINE k == call[p].k
           later == {j \in call[p].todo : j > k}
           info == Info(call[p].hash, header.mtime)
           e == [entry[k] EXCEPT !.info = info]
           d == [call[p] EXCEPT !.k = Min(later), !.pc = "store"]
           f == [call[p] EXCEPT !.pc = "stored"]
<1>1. /\ call[p].pc = "dump" /\ call[p].pc \in StorePcs
      /\ UNCHANGED <<header, used>>
      /\ entry' = [entry EXCEPT ![k] = e] /\ tainted' = (tainted \/ call[p].raced)
      /\ \/ later # {} /\ call' = [call EXCEPT ![p] = d] /\ lock' = lock
         \/ call' = [call EXCEPT ![p] = f] /\ lock' = "free"
  BY OneCall DEF StoreDumpsInfo, Goto, Unlock, At, StorePcs, IInv, Shape
<1>2. /\ info \in Infos /\ info.state = "ok"
      /\ info.content = call[p].hash /\ info.mtime = header.mtime
  <2>1. call[p].hash \in Contents /\ header.mtime \in 0..MaxEdits
    BY <1>1, OneCall DEF WellFormed, IInv, Shape
  <2> QED
    BY <2>1, InfoKinds
<1> HIDE DEF info
<1>3. e \in Entries /\ e.info = info /\ e.binary = entry[k].binary
  BY <1>2, OneCall DEF Entries
<1> HIDE DEF e
<1>4. /\ tainted' \in BOOLEAN /\ (tainted => tainted') /\ (call[p].raced => tainted')
  BY <1>1, OneCall, StoringOwns DEF Calls
<1>5. /\ call[p].built \in Contents /\ entry[k].binary = call[p].built
      /\ ~call[p].raced => call[p].hash = call[p].built /\ call[p].built = header.content
  BY <1>1, OneCall, CacheAssumption DEF WellFormed, UpToDate, AtItsFiles, StorePcs
<1>6. header.mtime \in Nat
  BY CacheAssumption DEF IInv, Shape
<1>7. \A c : EntryLeft(e, c, tainted')
  BY <1>1, <1>2, <1>3, <1>4, <1>5, <1>6 DEF EntryLeft
<1>8. CASE later # {} /\ call' = [call EXCEPT ![p] = d] /\ lock' = lock
  <2>1. later \subseteq Keys /\ later \subseteq call[p].todo
    BY OneCall DEF Calls
  <2>2. Min(later) \in later
    BY <1>8, <2>1, LeastKey
  <2>3. Min(later) \in Keys /\ Min(later) \in call[p].todo
    BY <2>1, <2>2
  <2>4. /\ d \in Calls /\ d.pc = "store" /\ d.k = Min(later)
        /\ d.todo = call[p].todo /\ d.built = call[p].built /\ d.created = call[p].created
        /\ d.got = call[p].got /\ d.raced = call[p].raced
        /\ d.seen = call[p].seen /\ d.out = call[p].out
    BY <2>3, OneCall DEF Calls, Pcs, StorePcs
  <2> HIDE DEF d, later
  <2>5. WellFormed(d) /\ UpToDate(d) /\ FilesLeft(e, d)
    BY <1>1, <1>5, <2>3, <2>4, OneCall DEF WellFormed, UpToDate, FilesLeft
  <2>6. ~tainted' => Answers(d)
    BY <1>1, <1>4, <2>4, OneCall DEF Answers, HasAnswer, Lookup
  <2>7. LockPassed(p, d)
    BY <1>1, <1>8, StoringOwns DEF LockPassed
  <2> QED
    BY <1>1, <1>3, <1>4, <1>7, <1>8, <2>4, <2>5, <2>6, <2>7, StoringOwns, FileStep
<1>9. CASE call' = [call EXCEPT ![p] = f] /\ lock' = "free"
  <2>1. /\ f \in Calls /\ f.pc = "stored" /\ f.k = k /\ f.todo = call[p].todo /\ f.built = call[p].built
        /\ f.created = call[p].created /\ f.got = call[p].got /\ f.raced = call[p].raced
        /\ f.seen = call[p].seen /\ f.out = call[p].out
    BY OneCall, PcFields DEF Pcs
  <2> HIDE DEF f
  <2>2. WellFormed(f) /\ UpToDate(f) /\ FilesLeft(e, f)
    BY <1>1, <2>1, OneCall DEF WellFormed, UpToDate, FilesLeft, StorePcs
  <2>3. ~tainted' => Answers(f)
    BY <1>1, <1>4, <2>1, OneCall DEF Answers, HasAnswer, Lookup
  <2>4. LockPassed(p, f)
    BY <1>1, <1>9, <2>1, StoringOwns DEF LockPassed, SectionPcs, StorePcs
  <2> QED
    BY <1>1, <1>3, <1>4, <1>7, <1>9, <2>1, <2>2, <2>3, <2>4, StoringOwns, FileStep
<1> QED
  BY <1>1, <1>8, <1>9

LEMMA FinishKeeps ==
  ASSUME IInv, NEW p \in Procs, Finish(p) PROVE IInv'
<1>1. call[p].pc = "stored" /\ UNCHANGED <<lock, entry, header, tainted, used>>
  BY DEF Finish, At
<1>2. \A out : IsEnd(Ended(call[p], out, FALSE), call[p], out)
  BY DEF IsEnd
<1>3. ASSUME NEW out \in {"built", "raised"}, Return(p, out) PROVE IInv'
  <2> DEFINE e == Ended(call[p], out, FALSE)
  <2>1. call' = [call EXCEPT ![p] = e] /\ IsEnd(e, call[p], out)
    BY <1>2, <1>3 DEF Return
  <2> HIDE DEF e
  <2> QED
    BY <1>1, <2>1, EndKeeps DEF SectionPcs, StorePcs
<1>4. ASSUME Return(p, "mixed") PROVE IInv'
  <2> DEFINE e == Ended(call[p], "mixed", FALSE)
  <2>1. call' = [call EXCEPT ![p] = e] /\ IsEnd(e, call[p], "mixed")
    BY <1>2, <1>4 DEF Return
  <2>2. ~tainted => \A j \in Keys : call[p].got[j] \in call[p].seen
    BY <1>1, OneCall DEF Answers, HasAnswer, Lookup
  <2> HIDE DEF e
  <2>3. /\ e \in Calls /\ e.pc = "idle"
        /\ WellFormed(e) /\ UpToDate(e) /\ AtItsFiles(e)
        /\ ~tainted => Answers(e)
    BY <2>1, <2>2, OneCall, EndedIsFine
  <2> QED
    BY <1>1, <2>1, <2>3, QuickStep DEF SectionPcs, StorePcs
<1> QED
  BY <1>3, <1>4 DEF Finish

LEMMA FallbackKeeps ==
  ASSUME IInv, NEW p \in Procs, Fallback(p) PROVE IInv'
<1>1. call[p].pc = "fallback" /\ UNCHANGED <<lock, entry, header, tainted, used>>
  BY DEF Fallback, At
<1>2. PICK out \in {"built", "raised"} :
        \/ call' = [call EXCEPT ![p] = Ended(call[p], out, FALSE)]
        \/ call' = [call EXCEPT ![p] = Ended(call[p], out, TRUE)]
  BY DEF Fallback, Return, SourceFails
<1>3. PICK e : call' = [call EXCEPT ![p] = e] /\ IsEnd(e, call[p], out)
  BY <1>2 DEF IsEnd
<1> QED
  BY <1>1, <1>3, EndKeeps DEF SectionPcs, StorePcs

-----------------------------------------------------------------------------
(* A store that raises and a process that stops.                           *)
LEMMA StopStep ==
  ASSUME IInv, NEW p \in Procs, NEW c \in Calls, call' = [call EXCEPT ![p] = c],
         c.pc \in {"idle", "fallback"}, LockPassed(p, c),
         UNCHANGED header, used' = [used EXCEPT !.faults = @ + 1],
         WellFormed(c), UpToDate(c), Answers(c),
         entry' \in [Keys -> Entries],
         \A k \in Keys : entry'[k] = entry[k] \/ entry'[k].info.state # "ok",
         entry' # entry => InSection(p),
         tainted' = (tainted \/ Torn(p))
  PROVE  IInv'
<1>1. /\ tainted' \in BOOLEAN /\ (tainted => tainted') /\ (Torn(p) => tainted')
      /\ used' \in [edits : 0..MaxEdits, faults : Nat, calls : Nat]
      /\ used'.edits = used.edits /\ used'.faults > 0 /\ tainted \in BOOLEAN
      /\ call \in [Procs -> Calls] /\ call[p].k \in Keys
  <2>1. tainted \in BOOLEAN /\ call \in [Procs -> Calls] /\ call[p].k \in Keys
    BY OneCall DEF IInv, Shape
  <2>2. tainted' \in BOOLEAN /\ (tainted => tainted') /\ (Torn(p) => tainted')
    BY <2>1, Zenon
  <2>3. /\ used' \in [edits : 0..MaxEdits, faults : Nat, calls : Nat]
        /\ used'.edits = used.edits /\ used'.faults > 0
    BY DEF IInv, Shape
  <2> QED
    BY <2>1, <2>2, <2>3
<1>2. Shape'
  BY <1>1 DEF IInv, Shape, LockPassed
<1>3. OneWriter'
  BY LockStep DEF IInv
<1>4. CallsInv'
  <2> SUFFICES ASSUME NEW q \in Procs
               PROVE  (/\ WellFormed(call[q])
                       /\ UpToDate(call[q])
                       /\ ~tainted => Answers(call[q])
                       /\ AtItsFiles(call[q]))'
    BY DEF CallsInv
  <2>1. call'[q] = IF q = p THEN c ELSE call[q]
    BY <1>1
  <2>2. /\ WellFormed(call'[q])
        /\ UpToDate(call'[q])
        /\ ~tainted' => Answers(call'[q])
    BY <1>1, <2>1 DEF IInv, CallsInv
  <2>3. AtItsFiles(call[q])'
    <3>1. CASE q = p
      BY <2>1, <3>1 DEF AtItsFiles
    <3>2. CASE q # p /\ entry' = entry
      BY <2>1, <3>2, OneCall DEF AtItsFiles
    <3>3. CASE q # p /\ entry' # entry
      <4>1. ~InSection(q)
        BY <3>3 DEF IInv, OneWriter
      <4> QED
        BY <2>1, <3>3, <4>1, Sections DEF AtItsFiles, SectionPcs, StorePcs
    <3> QED
      BY <3>1, <3>2, <3>3
  <2> QED
    BY <2>2, <2>3 DEF WellFormed, UpToDate, Answers, HasAnswer
<1>5. ASSUME NEW k \in Keys PROVE EntryInv(k)'
  <2> SUFFICES ASSUME entry'[k].info.state = "ok"
               PROVE  EntryInv(k)'
    BY DEF EntryInv
  <2>1. entry'[k] = entry[k]
    OBVIOUS
  <2>2. EntryInv(k)
    BY DEF IInv
  <2>3. WorkedOn(k, {"bin", "open_info"}) => tainted' \/ WorkedOn(k, {"bin", "open_info"})'
    <3> SUFFICES ASSUME NEW q \in Procs, call[q].pc \in {"bin", "open_info"}, call[q].k = k
                 PROVE  tainted' \/ WorkedOn(k, {"bin", "open_info"})'
      BY DEF WorkedOn
    <3>1. CASE q = p
      BY <1>1, <2>1, <3>1 DEF Torn
    <3>2. CASE q # p
      BY <1>1, <3>2 DEF WorkedOn
    <3> QED
      BY <3>1, <3>2
  <2> QED
    BY <1>1, <2>1, <2>2, <2>3 DEF EntryInv
<1> QED
  BY <1>2, <1>3, <1>4, <1>5 DEF IInv

(* A file that is cut off in the middle is that of the process' own entry. *)
LEMMA TruncatedEntry ==
  ASSUME IInv, NEW p \in Procs, NEW e \in Truncated(p)
  PROVE  /\ e \in [Keys -> Entries]
         /\ \A k \in Keys : e[k] = entry[k] \/ e[k].info.state # "ok"
         /\ e # entry => InSection(p)
<1> DEFINE k == call[p].k
<1>1. entry \in [Keys -> Entries] /\ k \in Keys
  BY OneCall DEF IInv, Shape
<1>2. CASE call[p].pc = "dump"
  <2>1. PICK s \in {"empty", "cut"} : e = [entry EXCEPT ![k].info = [state |-> s]]
    BY <1>2 DEF Truncated
  <2>2. [state |-> s] \in Infos
    BY InfoKinds
  <2>3. e = [entry EXCEPT ![k] = [entry[k] EXCEPT !.info = [state |-> s]]]
    BY <2>1
  <2>4. [entry[k] EXCEPT !.info = [state |-> s]] \in Entries
    BY <1>1, <2>2 DEF Entries
  <2>5. [entry[k] EXCEPT !.info = [state |-> s]].info.state = s
    BY <1>1 DEF Entries
  <2>6. InSection(p)
    BY <1>2, Sections DEF SectionPcs, StorePcs
  <2> QED
    BY <1>1, <2>3, <2>4, <2>5, <2>6
<1>3. CASE call[p].pc # "dump"
  BY <1>1, <1>3 DEF Truncated
<1> QED
  BY <1>2, <1>3

LEMMA StopKeeps ==
  ASSUME IInv, NEW p \in Procs, Stop(p) PROVE IInv'
<1>1. /\ call' = [call EXCEPT ![p] = Quiet] /\ UNCHANGED header
      /\ used' = [used EXCEPT !.faults = @ + 1]
      /\ entry' \in Truncated(p) /\ tainted' = (tainted \/ Torn(p))
  BY DEF Stop
<1>2. LockPassed(p, Quiet)
  <2>1. lock' \in (IF lock = p THEN {"free", "dead"} ELSE {lock}) /\ lock \in Procs \cup {"free", "dead"}
    BY DEF Stop, IInv, Shape
  <2> QED
    BY <2>1, QuietFields DEF LockPassed, SectionPcs, StorePcs
<1>3. WellFormed(Quiet) /\ UpToDate(Quiet) /\ Answers(Quiet)
  BY QuietFields, QuietLikeIsFine
<1> QED
  BY <1>1, <1>2, <1>3, QuietFields, TruncatedEntry, StopStep

LEMMA StoreRaisesKeeps ==
  ASSUME IInv, NEW p \in Procs, StoreRaises(p) PROVE IInv'
<1>1. /\ call[p].pc \in StorePcs
      /\ call' = [call EXCEPT ![p] = Left(call[p])] /\ UNCHANGED header
      /\ used' = [used EXCEPT !.faults = @ + 1] /\ lock' = "free"
      /\ tainted' = (tainted \/ Torn(p))
  BY DEF StoreRaises, Storing, StorePcs, LeaveCache, Left, Unlock
<1>2. PICK e \in Truncated(p) :
        entry' = [k \in Keys |-> IF k \in call[p].created THEN Absent ELSE e[k]]
  BY DEF StoreRaises
<1>3. /\ e \in [Keys -> Entries]
      /\ \A k \in Keys : e[k] = entry[k] \/ e[k].info.state # "ok"
  BY TruncatedEntry
<1>4. /\ entry' \in [Keys -> Entries]
      /\ \A k \in Keys : entry'[k] = entry[k] \/ entry'[k].info.state # "ok"
  BY <1>2, <1>3, AbsentEntry
<1>5. LockPassed(p, Left(call[p])) /\ InSection(p)
  BY <1>1, StoringOwns, OneCall, LeftIsFine DEF LockPassed, SectionPcs, StorePcs
<1>6. /\ Left(call[p]) \in Calls /\ Left(call[p]).pc = "fallback"
      /\ WellFormed(Left(call[p])) /\ UpToDate(Left(call[p])) /\ Answers(Left(call[p]))
  BY <1>1, OneCall, LeftIsFine DEF StorePcs
<1> DEFINE c == Left(call[p])
<1> HIDE DEF c
<1> QED
  BY <1>1, <1>4, <1>5, <1>6, StopStep

LEMMA EditKeeps ==
  ASSUME IInv, Edit PROVE IInv'
<1>0. PICK x \in Contents :
      /\ header' = [content |-> x, mtime |-> header.mtime + 1]
      /\ call' = [p \in Procs |->
           IF At(p, "idle") THEN call[p]
           ELSE [call[p] EXCEPT !.seen = @ \cup {x},
                                !.raced = @ \/ (call[p].built # "none" /\ x # header.content)]]
  BY DEF Edit
<1>1. /\ used.edits < MaxEdits /\ used' = [used EXCEPT !.edits = @ + 1]
      /\ UNCHANGED <<lock, entry, tainted>>
  BY DEF Edit
<1>2. /\ header' \in [content : Contents, mtime : 0..MaxEdits]
      /\ header'.content = x /\ header'.mtime = header.mtime + 1
      /\ used' \in [edits : 0..MaxEdits, faults : Nat, calls : Nat]
      /\ header'.mtime = used'.edits /\ used'.faults = used.faults
      /\ header.mtime \in Nat
  <2>1. /\ header.mtime \in 0..MaxEdits /\ header.mtime = used.edits
        /\ used \in [edits : 0..MaxEdits, faults : Nat, calls : Nat]
    BY DEF IInv, Shape
  <2>0. header' = [content |-> x, mtime |-> header.mtime + 1]
    BY <1>0
  <2>2. header.mtime + 1 \in 0..MaxEdits /\ header.mtime \in Nat
    <3>1. MaxEdits \in Nat
      BY CacheAssumption
    <3>2. used.edits \in 0..MaxEdits
      BY <2>1
    <3>3. used.edits + 1 \in 0..MaxEdits /\ used.edits \in Nat
      BY <1>1, <3>1, <3>2
    <3> QED
      BY <2>1, <3>3
  <2>3. /\ used' \in [edits : 0..MaxEdits, faults : Nat, calls : Nat]
        /\ used'.edits = used.edits + 1 /\ used'.faults = used.faults
    BY <1>1, <2>1, <2>2
  <2> QED
    BY <2>0, <2>1, <2>2, <2>3
<1>3. ASSUME NEW p \in Procs
      PROVE  LET c == call'[p] IN
             /\ c \in Calls /\ c.pc = call[p].pc /\ c.k = call[p].k /\ c.todo = call[p].todo
             /\ c.built = call[p].built /\ c.hash = call[p].hash /\ c.created = call[p].created
             /\ c.got = call[p].got /\ c.out = call[p].out
             /\ call[p].seen \subseteq c.seen
             /\ c.pc # "idle" => x \in c.seen
             /\ c.pc # "idle" /\ ~c.raced => ~call[p].raced /\ (c.built = "none" \/ x = header.content)
  <2>1. call[p] \in Calls
    BY OneCall
  <2>2. CASE call[p].pc = "idle"
    <3>1. call'[p] = call[p]
      BY <1>0, <2>2 DEF At
    <3> QED
      BY <2>1, <2>2, <3>1
  <2>3. CASE call[p].pc # "idle"
    <3> DEFINE now == call[p].raced \/ (call[p].built # "none" /\ x # header.content)
               s == call[p].seen \cup {x}
    <3>1. call'[p] = [call[p] EXCEPT !.seen = s, !.raced = now]
      BY <1>0, <2>3 DEF At
    <3>2. now \in BOOLEAN /\ s \subseteq Contents
      BY <2>1 DEF Calls
    <3>3. ~now => ~call[p].raced /\ (call[p].built = "none" \/ x = header.content)
      OBVIOUS
    <3> HIDE DEF now
    <3>4. /\ call'[p] \in Calls /\ call'[p].seen = s /\ call'[p].raced = now
          /\ call'[p].pc = call[p].pc /\ call'[p].k = call[p].k /\ call'[p].todo = call[p].todo
          /\ call'[p].built = call[p].built /\ call'[p].hash = call[p].hash
          /\ call'[p].created = call[p].created
          /\ call'[p].got = call[p].got /\ call'[p].out = call[p].out
      BY <2>1, <3>1, <3>2 DEF Calls
    <3> QED
      BY <2>3, <3>3, <3>4
  <2> QED
    BY <2>2, <2>3
<1>4. call' \in [Procs -> Calls]
  BY <1>0, <1>3
<1>5. Shape'
  BY <1>1, <1>2, <1>4 DEF IInv, Shape
<1>6. OneWriter'
  BY <1>1, <1>3 DEF IInv, OneWriter, InSection, Storing
<1>7. CallsInv'
  <2> SUFFICES ASSUME NEW p \in Procs
               PROVE  (/\ WellFormed(call[p])
                       /\ UpToDate(call[p])
                       /\ ~tainted => Answers(call[p])
                       /\ AtItsFiles(call[p]))'
    BY DEF CallsInv
  <2>1. WellFormed(call[p])'
    <3>1. WellFormed(call[p])
      BY OneCall
    <3>2. /\ call'[p].pc = call[p].pc /\ call'[p].k = call[p].k /\ call'[p].todo = call[p].todo
          /\ call'[p].built = call[p].built /\ call'[p].hash = call[p].hash
          /\ call'[p].created = call[p].created /\ call'[p].out = call[p].out
      BY <1>3
    <3> QED
      BY <3>1, <3>2 DEF WellFormed
  <2>2. UpToDate(call[p])'
    <3>1. WellFormed(call[p]) /\ UpToDate(call[p])
      BY OneCall
    <3>2. CASE call[p].pc = "idle"
      BY <1>3, <3>1, <3>2 DEF UpToDate, WellFormed
    <3>3. CASE call[p].pc # "idle"
      BY <1>2, <1>3, <3>1, <3>3 DEF UpToDate
    <3> QED
      BY <3>2, <3>3
  <2>3. (~tainted => Answers(call[p]))'
    <3> SUFFICES ASSUME ~tainted, NEW j \in Keys
                 PROVE  HasAnswer(call[p], j)' /\ (call[p].got[j] \in call[p].seen \cup {"none"})'
      BY <1>1 DEF Answers
    <3>1. HasAnswer(call[p], j) /\ call[p].got[j] \in call[p].seen \cup {"none"}
      BY OneCall DEF Answers
    <3> QED
      BY <1>3, <3>1 DEF HasAnswer
  <2>4. AtItsFiles(call[p])'
    BY <1>1, <1>3, OneCall DEF AtItsFiles
  <2> QED
    BY <2>1, <2>2, <2>3, <2>4
<1>8. ASSUME NEW k \in Keys PROVE EntryInv(k)'
  <2>1. \A pcs : WorkedOn(k, pcs)' <=> WorkedOn(k, pcs)
    BY <1>3 DEF WorkedOn
  <2>2. EntryInv(k) /\ entry[k].info \in Infos
    BY DEF IInv, Shape, Entries
  <2> SUFFICES ASSUME entry[k].info.state = "ok" PROVE EntryInv(k)'
    BY <1>1 DEF EntryInv
  <2>3. entry[k].info.mtime \in 0..MaxEdits
    BY <2>2, InfoKinds
  <2>4. entry[k].info.mtime \in Int /\ header.mtime \in Int
    <3>1. \A m \in 0..MaxEdits : m \in Int
      OBVIOUS
    <3>2. header.mtime \in Int
      BY <1>2
    <3> QED
      BY <2>3, <3>1, <3>2
  <2>5. entry[k].info.mtime <= header.mtime
    BY <2>2 DEF EntryInv
  <2>6. entry[k].info.mtime <= header'.mtime /\ entry[k].info.mtime # header'.mtime
    BY <1>2, <2>4, <2>5
  <2> QED
    BY <1>1, <1>2, <2>1, <2>2, <2>6 DEF EntryInv
<1> QED
  BY <1>5, <1>6, <1>7, <1>8 DEF IInv

LEMMA UserDeletesLockKeeps ==
  ASSUME IInv, UserDeletesLock PROVE IInv'
<1>1. lock = "dead" /\ lock' = "free" /\ UNCHANGED <<entry, header, call, tainted, used>>
  BY DEF UserDeletesLock, Unlock
<1>2. OneWriter'
  BY <1>1, CacheAssumption DEF IInv, OneWriter, InSection, Storing
<1>3. Shape'
  BY <1>1 DEF IInv, Shape
<1>4. CallsInv'
  BY <1>1 DEF IInv, CallsInv, WellFormed, UpToDate, Answers, HasAnswer, AtItsFiles
<1>5. \A k \in Keys : EntryInv(k)'
  BY <1>1 DEF IInv, EntryInv, WorkedOn
<1> QED
  BY <1>2, <1>3, <1>4, <1>5 DEF IInv

LEMMA IInvStutters ==
  ASSUME IInv, UNCHANGED vars PROVE IInv'
BY DEF vars, IInv, Shape, OneWriter, InSection, Storing, CallsInv, WellFormed, UpToDate, Answers,
       HasAnswer, AtItsFiles, EntryInv, WorkedOn

-----------------------------------------------------------------------------
LEMMA IInvInit == Init => IInv
<1> SUFFICES ASSUME Init PROVE IInv
  OBVIOUS
<1>1. Shape
  <2>1. header \in [content : Contents, mtime : 0..MaxEdits] /\ header.mtime = 0
    BY CacheAssumption DEF Init
  <2>2. used \in [edits : 0..MaxEdits, faults : Nat, calls : Nat] /\ used.edits = 0
    BY CacheAssumption DEF Init
  <2>3. call \in [Procs -> Calls] /\ entry \in [Keys -> Entries] /\ tainted \in BOOLEAN
    BY QuietFields, AbsentEntry DEF Init
  <2> QED
    BY <2>1, <2>2, <2>3 DEF Init, Shape
<1>2. OneWriter
  BY QuietFields DEF Init, OneWriter, InSection, Storing
<1>3. CallsInv
  BY QuietFields, QuietLikeIsFine DEF Init, CallsInv
<1>4. \A k \in Keys : EntryInv(k)
  BY AbsentEntry DEF Init, EntryInv
<1> QED
  BY <1>1, <1>2, <1>3, <1>4 DEF IInv

LEMMA IInvNext == IInv /\ [Next]_vars => IInv'
<1> SUFFICES ASSUME IInv, [Next]_vars PROVE IInv'
  OBVIOUS
<1>1. ASSUME NEW p \in Procs, Begin(p) PROVE IInv'
  BY <1>1, BeginKeeps
<1>2. ASSUME NEW p \in Procs, Retrieve(p) PROVE IInv'
  <2>1. CASE TakeLock(p, "lock_r", "load")
    BY <2>1, TakeLockKeeps
  <2>2. CASE IsDir(p)
    BY <2>2, IsDirKeeps
  <2>3. CASE Load(p)
    BY <2>3, LoadKeeps
  <2>4. CASE CheckDependencies(p)
    BY <2>4, CheckDependenciesKeeps
  <2>5. CASE ResetUnlinks(p) \/ ResetRemovesDir(p) \/ ResetMakesDir(p)
    BY <2>5, ResetUnlinksKeeps, ResetRemovesDirKeeps, ResetMakesDirKeeps
  <2> QED
    BY <1>2, <2>1, <2>2, <2>3, <2>4, <2>5 DEF Retrieve
<1>3. ASSUME NEW p \in Procs, Store(p) PROVE IInv'
  <2>1. CASE TakeLock(p, "lock_w", "store")
    BY <2>1, TakeLockKeeps
  <2>2. CASE StoreOpensBinary(p) \/ StoreWritesBinary(p) \/ StoreOpensInfo(p)
    BY <2>2, StoreOpensBinaryKeeps, StoreWritesBinaryKeeps, StoreOpensInfoKeeps
  <2>3. CASE StoreReadsHeader(p) \/ StoreDumpsInfo(p)
    BY <2>3, StoreReadsHeaderKeeps, StoreDumpsInfoKeeps
  <2> QED
    BY <1>3, <2>1, <2>2, <2>3 DEF Store
<1>4. ASSUME NEW p \in Procs,
             LockTimesOut(p) \/ BuildFromCache(p) \/ BuildFromSource(p) \/ Finish(p) \/ Fallback(p)
      PROVE  IInv'
  BY <1>4, LockTimesOutKeeps, BuildFromCacheKeeps, BuildFromSourceKeeps, FinishKeeps, FallbackKeeps
<1>5. ASSUME NEW p \in Procs, StoreRaises(p) \/ Stop(p) PROVE IInv'
  BY <1>5, StoreRaisesKeeps, StopKeeps
<1>6. CASE Edit \/ UserDeletesLock
  BY <1>6, EditKeeps, UserDeletesLockKeeps
<1>7. CASE UNCHANGED vars
  BY <1>7, IInvStutters
<1> QED
  BY <1>1, <1>2, <1>3, <1>4, <1>5, <1>6, <1>7 DEF Next, Step

LEMMA SpecIInv == Spec => []IInv
BY IInvInit, IInvNext, PTL DEF Spec

(* Every variable has its type, and a store works on keys that its call    *)
(* missed, whatever the numbers of processes, devices and faults.          *)
THEOREM TypeCorrect == Spec => []TypeOK
<1>1. IInv => TypeOK
  <2> SUFFICES ASSUME IInv PROVE TypeOK
    OBVIOUS
  <2>1. /\ lock \in Procs \cup {"free", "dead"}
        /\ header \in [content : Contents, mtime : 0..MaxEdits]
        /\ tainted \in BOOLEAN
    BY DEF IInv, Shape
  <2>2. entry \in [Keys -> [dir : BOOLEAN,
                            binary : Contents \cup {"none", "cut"},
                            info : {[state |-> s] : s \in {"none", "empty", "cut"}}
                                   \cup {Info(x, m) : x \in Contents, m \in 0..MaxEdits}]]
    BY DEF IInv, Shape, Entries, Binaries, Infos
  <2>3. ASSUME NEW p \in Procs
        PROVE  /\ call[p].k \in Keys /\ call[p].todo \subseteq Keys /\ call[p].created \subseteq call[p].todo
               /\ call[p].built \in Contents \cup {"none"} /\ call[p].seen \subseteq Contents
               /\ Storing(p) => call[p].k \in call[p].todo
    BY <2>3, OneCall DEF Calls, WellFormed, Storing, StorePcs
  <2> QED
    BY <2>1, <2>2, <2>3 DEF TypeOK
<1> QED
  BY <1>1, SpecIInv, PTL

(* Whoever works on the files owns the lock, so the cache directory never  *)
(* has two writers: TakeLock waits for "free", and every way out of the    *)
(* locked section is taken by the owner.                                   *)
THEOREM OneWriterHolds == Spec => []OneWriter
<1>1. IInv => OneWriter
  BY DEF IInv
<1> QED
  BY <1>1, SpecIInv, PTL

(* A binary from the cache was compiled with the header as it was during   *)
(* the call, as long as no build was overtaken by an edit and no store     *)
(* stopped between its two files: an info file then describes the binary   *)
(* beside it, and agrees with the header if its st_mtime does (EntryInv).  *)
THEOREM HitsAreCurrent == Spec => []HitsMatchHeader
<1>1. IInv => HitsMatchHeader
  <2> SUFFICES ASSUME IInv, ~tainted, NEW p \in Procs, call[p].out \in {"hit", "mixed"}, NEW k \in Keys
               PROVE  call[p].got[k] \in call[p].seen
    BY DEF HitsMatchHeader
  <2>1. HasAnswer(call[p], k) /\ call[p].got[k] \in call[p].seen \cup {"none"} /\ call[p].pc = "idle"
    BY OneCall DEF Answers, WellFormed
  <2> QED
    BY <2>1 DEF HasAnswer, Lookup
<1> QED
  BY <1>1, SpecIInv, PTL

(* The files of an entry that can be read and that nobody works on: before *)
(* the first fault only a process between "bin" and "open_info", or one    *)
(* that takes the entry apart, leaves a readable info file without its     *)
(* whole binary, and that process owns the lock.                           *)
THEOREM ReadableEntriesAreWhole == Spec => []ReadableEntriesWhole
<1>1. IInv => ReadableEntriesWhole
  <2> SUFFICES ASSUME IInv, lock = "free", used.faults = 0, NEW k \in Keys,
                      entry[k].info.state = "ok"
               PROVE  entry[k].binary \in Contents
    BY DEF ReadableEntriesWhole
  <2>1. \A p \in Procs : ~InSection(p)
    BY CacheAssumption DEF IInv, OneWriter
  <2>2. ~WorkedOn(k, {"bin", "open_info", "reset"})
    BY <2>1, Sections DEF WorkedOn, SectionPcs, StorePcs
  <2>3. EntryInv(k)
    BY DEF IInv
  <2> QED
    BY <2>2, <2>3 DEF EntryInv
<1> QED
  BY <1>1, SpecIInv, PTL
=============================================================================
