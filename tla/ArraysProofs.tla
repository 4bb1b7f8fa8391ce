----------------------------- MODULE ArraysProofs -----------------------------
(***************************************************************************)
(* Arrays for every n_wait and any number of commands and arrays: the      *)
(* lists of events order what has to be ordered.  And the algorithms on    *)
(* arrays that are built on scans, for every array: compaction, lists of   *)
(* lists and sorting by keys.  And event callbacks, for every set of calls *)
(* of set_callback.  The three parts share no state.                       *)
(***************************************************************************)
EXTENDS Arrays, Algorithms, EventCallback, SequenceTheorems, FiniteSetTheorems, Induction, TLAPS

(* Buffers are numbered by the commands that fill them.                    *)
Used == (1 .. Len(commands)) \cup (MaxCommands + 1 .. MaxCommands + Len(commands))

How         == {"plain", "unrecorded", "user", "get", "blind"}
Cell        == Nat \X Int
HandleType  == [buf : Nat, cells : SUBSET Int, evs : Nat, strided : BOOLEAN]
CommandType == [reads : SUBSET Cell, writes : SUBSET Cell, after : SUBSET Int, how : How]

Shape ==
  /\ handles \in Seq(HandleType)
  /\ events \in Seq(Seq(Int))
  /\ commands \in Seq(CommandType)
  /\ known \subseteq Int
  /\ \A h \in Arrays : handles[h].evs \in 1 .. Len(events) /\ handles[h].buf \in Used
  /\ \A l \in 1 .. Len(events) : \A i \in 1 .. Len(events[l]) : events[l][i] \in 1 .. Len(commands)
  /\ \A c \in 1 .. Len(commands) : \A x \in commands[c].reads \cup commands[c].writes : x[1] \in Used

(* Arrays of the same buffer have the same list, except those that         *)
(* as_strided made.                                                        *)
SharedLists ==
  \A g, h \in Arrays :
    handles[g].buf = handles[h].buf /\ ~handles[g].strided /\ ~handles[h].strided
      => handles[g].evs = handles[h].evs

(* What a later command that writes may have to wait for, by buffer: the   *)
(* writes of w, and what w copies to the host.                             *)
Touches(w, b) ==
  \/ \E x \in commands[w].writes : x[1] = b
  \/ commands[w].how = "get" /\ \E x \in commands[w].reads : x[1] = b
Recorded(w) == commands[w].how \notin {"unrecorded", "user"} /\ ~Strided(w)

(* What is complete once the events of h are.                              *)
Awaited(h) == Closed(EventsOf(h)) \cup known

(* Why the order is kept: whoever waits for the events of an array waits   *)
(* for every recorded command on its buffer.                               *)
ListsAreComplete ==
  \A h \in Arrays : \A w \in 1 .. Len(commands) :
    Recorded(w) /\ Touches(w, handles[h].buf) => w \in Awaited(h)

Ordered(w, c) ==
  Conflict(w, c) /\ Recorded(w) /\ commands[c].how # "blind" => w \in commands[c].after
InOrder == \A c \in 1 .. Len(commands) : \A w \in 1 .. c - 1 : Ordered(w, c)

IInv == Shape /\ SharedLists /\ ListsAreComplete /\ InOrder

-----------------------------------------------------------------------------
(* What the types of the variables give.                                   *)
LEMMA Basics ==
  ASSUME Shape
  PROVE  /\ Len(handles) \in Nat /\ Len(events) \in Nat /\ Len(commands) \in Nat
         /\ DOMAIN commands = 1 .. Len(commands)
         /\ \A h \in Arrays : handles[h] \in HandleType
         /\ \A c \in 1 .. Len(commands) : commands[c] \in CommandType
         /\ \A l \in 1 .. Len(events) : /\ events[l] \in Seq(Int) /\ Len(events[l]) \in Nat
                                        /\ DOMAIN events[l] = 1 .. Len(events[l])
<1>1. /\ handles \in Seq(HandleType) /\ events \in Seq(Seq(Int)) /\ commands \in Seq(CommandType)
  BY DEF Shape
<1>2. /\ Len(handles) \in Nat /\ \A h \in Arrays : handles[h] \in HandleType
  BY <1>1, LenProperties DEF Arrays
<1>3. /\ Len(commands) \in Nat /\ DOMAIN commands = 1 .. Len(commands)
      /\ \A c \in 1 .. Len(commands) : commands[c] \in CommandType
  BY <1>1, LenProperties
<1>4. Len(events) \in Nat /\ \A l \in 1 .. Len(events) : events[l] \in Seq(Int)
  BY <1>1, LenProperties
<1>5. \A l \in 1 .. Len(events) : Len(events[l]) \in Nat /\ DOMAIN events[l] = 1 .. Len(events[l])
  BY <1>4, LenProperties
<1> QED
  BY <1>2, <1>3, <1>4, <1>5

(* The events of an array are commands, and what they complete.            *)
LEMMA EventsAreCommands ==
  ASSUME Shape, NEW h \in Arrays
  PROVE  /\ EventsOf(h) \subseteq 1 .. Len(commands)
         /\ \A e : e \in EventsOf(h) <=>
                     \E i \in 1 .. Len(events[handles[h].evs]) : e = events[handles[h].evs][i]
BY Basics DEF EventsOf, Shape

LEMMA ClosedDef ==
  ASSUME Shape, NEW evts \in SUBSET (1 .. Len(commands))
  PROVE  /\ \A w : w \in Closed(evts) <=> w \in evts \/ \E e \in evts : w \in commands[e].after
         /\ Closed(evts) \subseteq Int
<1>1. \A w : w \in Closed(evts) <=> w \in evts \/ \E e \in evts : w \in commands[e].after
  BY Basics DEF Closed
<1>2. \A e \in evts : commands[e].after \subseteq Int
  BY Basics DEF CommandType
<1>3. evts \subseteq Int
  BY Basics
<1> HIDE DEF Closed
<1>4. ASSUME NEW w \in Closed(evts) PROVE w \in Int
  BY <1>1, <1>2, <1>3
<1> QED
  BY <1>1, <1>4

LEMMA AwaitedDef ==
  ASSUME Shape, NEW h \in Arrays
  PROVE  \A w : w \in Awaited(h) <=>
                  \/ w \in known
                  \/ \E i \in 1 .. Len(events[handles[h].evs]) :
                       \/ w = events[handles[h].evs][i]
                       \/ w \in commands[events[handles[h].evs][i]].after
<1>1. /\ EventsOf(h) \subseteq 1 .. Len(commands)
      /\ \A e : e \in EventsOf(h) <=>
                  \E i \in 1 .. Len(events[handles[h].evs]) : e = events[handles[h].evs][i]
  BY EventsAreCommands
<1>2. \A w : w \in Closed(EventsOf(h)) <=>
               w \in EventsOf(h) \/ \E e \in EventsOf(h) : w \in commands[e].after
  BY <1>1, ClosedDef
<1>3. \A w : w \in Awaited(h) <=>
               w \in known \/ w \in EventsOf(h) \/ \E e \in EventsOf(h) : w \in commands[e].after
  BY <1>2 DEF Awaited
<1> QED
  BY <1>1, <1>3

(* A command that waits for the events of the arrays it goes through waits *)
(* for every recorded command it conflicts with.                           *)
LEMMA NewIsOrdered ==
  ASSUME Shape, ListsAreComplete, NEW hs \in SUBSET Arrays,
         NEW reads, NEW writes, NEW after, NEW w \in 1 .. Len(commands),
         \A x \in reads \cup writes : x \in CellsOf(hs) \/ x[1] \notin Used,
         Closed(EventsOfAll(hs)) \cup known \subseteq after,
         Recorded(w),
         \/ commands[w].writes \cap (reads \cup writes) # {}
         \/ commands[w].how = "get" /\ commands[w].reads \cap writes # {}
  PROVE  w \in after
<1>1. PICK x \in reads \cup writes :
        /\ x \in commands[w].reads \cup commands[w].writes
        /\ x \in commands[w].writes \/ (commands[w].how = "get" /\ x \in commands[w].reads)
  OBVIOUS
<1>2. x[1] \in Used
  BY <1>1 DEF Shape
<1>3. PICK h \in hs : x \in Cells(h)
  BY <1>1, <1>2 DEF CellsOf
<1>4. x[1] = handles[h].buf
  BY <1>3 DEF Cells
<1>5. w \in Awaited(h)
  BY <1>1, <1>4 DEF ListsAreComplete, Touches
<1>6. Awaited(h) \subseteq Closed(EventsOfAll(hs)) \cup known
  BY DEF Awaited, Closed, EventsOfAll
<1> QED
  BY <1>5, <1>6

-----------------------------------------------------------------------------
(* What every step does: nothing that was enqueued changes, arrays stay    *)
(* what they are.                                                          *)
Grows ==
  /\ Len(commands) <= Len(commands')
  /\ \A c \in 1 .. Len(commands) : commands'[c] = commands[c]
  /\ Len(handles) <= Len(handles')
  /\ \A h \in Arrays : handles'[h] = handles[h]

Complete(h, w) == Recorded(w) /\ Touches(w, handles[h].buf) => w \in Awaited(h)

(* It then suffices to look at the lists of the old arrays, at the arrays  *)
(* and commands that are new, and at the order of the new commands.        *)
LEMMA Preserved ==
  ASSUME IInv, Shape', SharedLists', Grows,
         \A h \in Arrays : Awaited(h) \subseteq Awaited(h)',
         \A h \in 1 .. Len(handles'), w \in 1 .. Len(commands') :
           h > Len(handles) \/ w > Len(commands) => Complete(h, w)',
         \A c \in 1 .. Len(commands') : c > Len(commands) => \A w \in 1 .. c - 1 : Ordered(w, c)'
  PROVE  IInv'
<1>1. /\ Len(handles) \in Nat /\ Len(commands) \in Nat /\ Arrays = 1 .. Len(handles)
      /\ Len(handles') \in Nat /\ Len(commands') \in Nat /\ Arrays' = 1 .. Len(handles')
      /\ Arrays \subseteq Arrays'
  BY Basics, LenProperties DEF IInv, Shape, Arrays, Grows
<1>2. ASSUME NEW w \in 1 .. Len(commands), Recorded(w)' PROVE Recorded(w)
  <2>1. commands'[w] = commands[w]
    BY DEF Grows
  <2>2. Strided(w) => Strided(w)'
    BY <1>1, <2>1 DEF Strided, Grows
  <2> QED
    BY <1>2, <2>1, <2>2 DEF Recorded
<1>3. ASSUME NEW h \in Arrays, NEW w \in 1 .. Len(commands) PROVE Complete(h, w)'
  <2>1. commands'[w] = commands[w] /\ handles'[h] = handles[h]
    BY DEF Grows
  <2>2. Touches(w, handles[h].buf)' => Touches(w, handles[h].buf)
    BY <2>1 DEF Touches
  <2> QED
    BY <1>2, <2>2 DEF Complete, IInv, ListsAreComplete
<1>4. ListsAreComplete'
  <2> SUFFICES ASSUME NEW h \in 1 .. Len(handles'), NEW w \in 1 .. Len(commands')
               PROVE  Complete(h, w)'
    BY <1>1 DEF ListsAreComplete, Complete
  <2> QED
    BY <1>1, <1>3
<1>5. ASSUME NEW c \in 1 .. Len(commands), NEW w \in 1 .. c - 1 PROVE Ordered(w, c)'
  <2>1. w \in 1 .. Len(commands) /\ Ordered(w, c)
    BY <1>1 DEF IInv, InOrder
  <2>2. commands'[w] = commands[w] /\ commands'[c] = commands[c]
    BY <2>1 DEF Grows
  <2> QED
    BY <1>2, <2>1, <2>2 DEF Ordered, Conflict
<1>6. InOrder'
  BY <1>1, <1>5 DEF InOrder
<1> QED
  BY <1>4, <1>6 DEF IInv

-----------------------------------------------------------------------------
(* Enqueueing one command.                                                 *)
LEMMA OneCommand ==
  ASSUME Shape, NEW r \in CommandType, commands' = Append(commands, r)
  PROVE  /\ commands' \in Seq(CommandType)
         /\ Len(commands') = Len(commands) + 1
         /\ commands'[Next_] = r
         /\ Next_ \in Nat \ {0}
         /\ \A c \in 1 .. Len(commands) : commands'[c] = commands[c]
BY Basics, AppendProperties DEF Shape, Next_

(* The cells of arrays, and what waiting for their events completes.       *)
LEMMA CellsAndEvents ==
  ASSUME Shape, NEW hs \in SUBSET Arrays
  PROVE  /\ CellsOf(hs) \subseteq Cell
         /\ \A x \in CellsOf(hs) : x[1] \in Used
         /\ EventsOfAll(hs) \subseteq 1 .. Len(commands)
         /\ Closed(EventsOfAll(hs)) \cup known \subseteq Int
<1>1. \A h \in hs : handles[h].buf \in Nat /\ handles[h].cells \subseteq Int /\ handles[h].buf \in Used
  BY Basics DEF HandleType, Shape
<1>2. /\ CellsOf(hs) \subseteq Cell
      /\ \A x \in CellsOf(hs) : x[1] \in Used
  BY <1>1 DEF CellsOf, Cells, Cell
<1>3. EventsOfAll(hs) \subseteq 1 .. Len(commands)
  BY EventsAreCommands DEF EventsOfAll
<1>4. known \subseteq Int
  BY DEF Shape
<1> QED
  BY <1>2, <1>3, <1>4, ClosedDef

AwaitedAre == \A h \in Arrays : \A w : w \in Awaited(h) <=>
                  \/ w \in known
                  \/ \E i \in 1 .. Len(events[handles[h].evs]) :
                       \/ w = events[handles[h].evs][i]
                       \/ w \in commands[events[handles[h].evs][i]].after

LEMMA AwaitedNow == Shape => AwaitedAre
BY AwaitedDef DEF AwaitedAre
LEMMA AwaitedThen == Shape' => AwaitedAre'
BY AwaitedNow, PTL

(* A list that does not change loses nothing.                              *)
LEMMA ListKept ==
  ASSUME Shape, Shape', Grows, known \subseteq known', NEW h \in Arrays,
         events'[handles[h].evs] = events[handles[h].evs]
  PROVE  Awaited(h) \subseteq Awaited(h)'
<1>1. handles'[h] = handles[h] /\ h \in Arrays'
  BY Basics, LenProperties DEF Grows, Arrays, Shape
<1>2. \A i \in 1 .. Len(events[handles[h].evs]) :
        commands'[events[handles[h].evs][i]] = commands[events[handles[h].evs][i]]
  BY DEF Shape, Grows
<1>3. \A w : w \in Awaited(h)' <=>
               \/ w \in known'
               \/ \E i \in 1 .. Len(events[handles[h].evs]) :
                    \/ w = events[handles[h].evs][i]
                    \/ w \in commands[events[handles[h].evs][i]].after
  <2>1. \A w : w \in Awaited(h)' <=>
               \/ w \in known'
               \/ \E i \in 1 .. Len(events'[handles'[h].evs]) :
                    \/ w = events'[handles'[h].evs][i]
                    \/ w \in commands'[events'[handles'[h].evs][i]].after
    BY <1>1, AwaitedThen DEF AwaitedAre
  <2> QED
    BY <1>1, <1>2, <2>1
<1> QED
  BY <1>3, AwaitedNow DEF AwaitedAre

(* What was excused stays excused.                                         *)
LEMMA RecordedKept ==
  ASSUME Shape, Grows, Len(handles') \in Nat, NEW w \in 1 .. Len(commands), Recorded(w)'
  PROVE  Recorded(w)
<1>1. commands'[w] = commands[w]
  BY DEF Grows
<1>2. Strided(w) => Strided(w)'
  <2> SUFFICES ASSUME NEW h \in Arrays, handles[h].strided,
                      handles[h].buf \in {x[1] : x \in commands[w].writes \cup commands[w].reads}
               PROVE  Strided(w)'
    BY DEF Strided
  <2>1. h \in Arrays' /\ handles'[h] = handles[h]
    <3>1. h \in 1 .. Len(handles) /\ Len(handles) <= Len(handles') /\ Len(handles) \in Nat
      BY Basics DEF Grows, Arrays
    <3> QED
      BY <3>1 DEF Grows, Arrays
  <2> QED
    BY <1>1, <2>1 DEF Strided
<1> QED
  BY <1>1, <1>2 DEF Recorded

(* The command r goes through the arrays hs, or through new buffers, and   *)
(* waits for their events.                                                 *)
WaitsFor(r, hs) ==
  r.how # "blind" =>
    /\ \A x \in r.reads \cup r.writes : x \in CellsOf(hs) \/ x[1] \notin Used
    /\ Closed(EventsOfAll(hs)) \cup known \subseteq r.after

LEMMA OneOrdered ==
  ASSUME IInv, Grows, Len(handles') \in Nat, NEW hs \in SUBSET Arrays, NEW r, WaitsFor(r, hs),
         NEW c, commands'[c] = r, NEW w \in 1 .. Len(commands)
  PROVE  Ordered(w, c)'
<1> SUFFICES ASSUME Conflict(w, c)', Recorded(w)', r.how # "blind" PROVE w \in r.after
  BY DEF Ordered
<1>1. commands'[w] = commands[w]
  BY DEF Grows
<1>2. Recorded(w)
  BY RecordedKept DEF IInv
<1>3. \/ commands[w].writes \cap (r.reads \cup r.writes) # {}
      \/ commands[w].how = "get" /\ commands[w].reads \cap r.writes # {}
  BY <1>1 DEF Conflict
<1>4. /\ \A x \in r.reads \cup r.writes : x \in CellsOf(hs) \/ x[1] \notin Used
      /\ Closed(EventsOfAll(hs)) \cup known \subseteq r.after
  BY DEF WaitsFor
<1>5. Shape /\ ListsAreComplete
  BY DEF IInv
<1> QED
  BY <1>2, <1>3, <1>4, <1>5, NewIsOrdered

-----------------------------------------------------------------------------
(* The steps, by what they do to commands, lists and arrays.               *)

(* A command whose event no list gets.                                     *)
Unrecorded(hs, r) ==
  /\ r \in CommandType /\ r.how \in {"unrecorded", "user"}
  /\ \A x \in r.reads \cup r.writes : x \in CellsOf(hs)
  /\ Closed(EventsOfAll(hs)) \cup known \subseteq r.after
  /\ commands' = Append(commands, r)
  /\ known \subseteq known' /\ known' \subseteq Int
  /\ UNCHANGED <<handles, events>>

LEMMA UnrecordedStep ==
  ASSUME IInv, NEW hs \in SUBSET Arrays, NEW r, Unrecorded(hs, r)
  PROVE  IInv'
<1>1. /\ commands' \in Seq(CommandType) /\ Len(commands') = Len(commands) + 1
      /\ commands'[Next_] = r /\ Next_ \in Nat \ {0}
      /\ \A c \in 1 .. Len(commands) : commands'[c] = commands[c]
  BY OneCommand DEF Unrecorded, IInv
<1>2. Grows /\ Len(commands) \in Nat /\ Len(handles) \in Nat
  BY <1>1, Basics DEF Grows, Unrecorded, IInv
<1>3. Used \subseteq Used' /\ \A x \in r.reads \cup r.writes : x[1] \in Used
  BY <1>1, <1>2, CellsAndEvents, ArraysAssumption DEF Used, Unrecorded, IInv
<1>4. Shape'
  <2>1. \A c \in 1 .. Len(commands') : c \in 1 .. Len(commands) \/ c = Next_
    BY <1>1, <1>2 DEF Next_
  <2>2. \A c \in 1 .. Len(commands') :
          \A x \in commands'[c].reads \cup commands'[c].writes : x[1] \in Used'
    BY <1>1, <1>3, <2>1 DEF IInv, Shape
  <2>3. \A h \in Arrays : handles[h].evs \in 1 .. Len(events) /\ handles[h].buf \in Used'
    BY <1>3 DEF IInv, Shape
  <2>4. \A l \in 1 .. Len(events) : \A i \in 1 .. Len(events[l]) :
          events[l][i] \in 1 .. Len(commands')
    BY <1>1, <1>2 DEF IInv, Shape
  <2> QED
    BY <1>1, <2>2, <2>3, <2>4 DEF Unrecorded, IInv, Shape, Arrays
<1>5. \A h \in Arrays : Awaited(h) \subseteq Awaited(h)'
  BY <1>2, <1>4, ListKept DEF Unrecorded, IInv
<1>6. SharedLists'
  BY DEF Unrecorded, IInv, SharedLists, Arrays
<1>7. \A h \in 1 .. Len(handles'), w \in 1 .. Len(commands') :
        h > Len(handles) \/ w > Len(commands) => Complete(h, w)'
  <2> SUFFICES ASSUME NEW h \in 1 .. Len(handles'), NEW w \in 1 .. Len(commands'), w > Len(commands)
               PROVE  Complete(h, w)'
    BY <1>2 DEF Unrecorded
  <2>1. w = Next_
    BY <1>1, <1>2 DEF Next_
  <2> QED
    BY <1>1, <2>1 DEF Unrecorded, Complete, Recorded
<1>8. ASSUME NEW c \in 1 .. Len(commands'), c > Len(commands), NEW w \in 1 .. c - 1
      PROVE  Ordered(w, c)'
  <2>1. c = Next_ /\ w \in 1 .. Len(commands)
    BY <1>1, <1>2, <1>8 DEF Next_
  <2>2. WaitsFor(r, hs) /\ Len(handles') \in Nat
    BY <1>2 DEF Unrecorded, WaitsFor
  <2> QED
    BY <1>1, <1>2, <2>1, <2>2, OneOrdered
<1> QED
  BY <1>2, <1>4, <1>5, <1>6, <1>7, <1>8, Preserved

(* What add_event keeps in a list, and what the host waits for.            *)
Kept(list, evt) == AddEvent(list, evt).list
Left(list, evt) == AddEvent(list, evt).wait

KeepsAll(list, evt, kept, wait) ==
  /\ kept \in Seq(Int)
  /\ Len(kept) \in Nat
  /\ \A i \in 1 .. Len(kept) : kept[i] = evt \/ \E j \in 1 .. Len(list) : kept[i] = list[j]
  /\ \E i \in 1 .. Len(kept) : kept[i] = evt
  /\ \A j \in 1 .. Len(list) : list[j] \in wait \/ \E i \in 1 .. Len(kept) : kept[i] = list[j]
  /\ \A e \in wait : \E j \in 1 .. Len(list) : e = list[j]

(* add_event loses no event: one that leaves the list was waited for.      *)
LEMMA AddEventKeeps ==
  ASSUME NEW list \in Seq(Int), NEW evt \in Int, NEW kept, NEW wait,
         kept = Kept(list, evt), wait = Left(list, evt)
  PROVE  KeepsAll(list, evt, kept, wait)
<1> DEFINE longer == Append(list, evt)
           q == Len(list)
<1>1. /\ q \in Nat /\ longer \in Seq(Int) /\ Len(longer) = q + 1
      /\ \A i \in 1 .. q : longer[i] = list[i]
      /\ longer[q + 1] = evt
      /\ \A i \in 1 .. q + 1 : longer[i] \in Int
  BY AppendProperties, LenProperties
<1>2. n_wait \in Nat \ {0}
  BY ArraysAssumption
<1>3. /\ Len(longer) <= 3 * n_wait => kept = longer /\ wait = {}
      /\ ~(Len(longer) <= 3 * n_wait) => /\ kept = SubSeq(longer, n_wait + 1, Len(longer))
                                         /\ wait = {longer[i] : i \in 1 .. n_wait}
  BY DEF AddEvent, Kept, Left
<1> HIDE DEF longer, q
<1>4. CASE Len(longer) <= 3 * n_wait
  <2>1. kept = longer /\ wait = {}
    BY <1>3, <1>4
  <2>2. q + 1 \in 1 .. Len(longer) /\ \A j \in 1 .. q : j \in 1 .. Len(longer)
    BY <1>1
  <2> QED
    BY <1>1, <2>1, <2>2 DEF q, KeepsAll
<1>5. CASE ~(Len(longer) <= 3 * n_wait)
  <2>1. kept = SubSeq(longer, n_wait + 1, q + 1) /\ wait = {longer[i] : i \in 1 .. n_wait}
    BY <1>1, <1>3, <1>5
  <2>2. /\ kept \in Seq(Int) /\ Len(kept) = q + 1 - n_wait
        /\ \A i \in 1 .. q + 1 - n_wait : kept[i] = longer[n_wait + i]
    <3>1. \A i \in n_wait + 1 .. q + 1 : longer[i] \in Int
      BY <1>1, <1>2
    <3>2. /\ SubSeq(longer, n_wait + 1, q + 1) \in Seq(Int)
          /\ Len(SubSeq(longer, n_wait + 1, q + 1))
               = IF n_wait + 1 <= q + 1 THEN q + 1 - (n_wait + 1) + 1 ELSE 0
          /\ \A i \in 1 .. q + 1 - (n_wait + 1) + 1 :
               SubSeq(longer, n_wait + 1, q + 1)[i] = longer[n_wait + 1 + i - 1]
      BY <1>1, <1>2, <3>1, SubSeqProperties
    <3>3. n_wait + 1 <= q + 1
      BY <1>1, <1>2, <1>5
    <3> QED
      BY <1>1, <1>2, <2>1, <3>2, <3>3
  <2>3. n_wait <= q /\ Len(kept) \in Nat \ {0}
    BY <1>1, <1>2, <1>5, <2>2
  <2>4. ASSUME NEW i \in 1 .. Len(kept)
        PROVE  kept[i] = evt \/ \E j \in 1 .. q : kept[i] = list[j]
    <3>1. kept[i] = longer[n_wait + i] /\ n_wait + i \in 1 .. q + 1
      BY <1>1, <1>2, <2>2, <2>3
    <3> QED
      BY <1>1, <3>1
  <2>5. \E i \in 1 .. Len(kept) : kept[i] = evt
    <3>1. q + 1 - n_wait \in 1 .. Len(kept) /\ n_wait + (q + 1 - n_wait) = q + 1
      BY <1>1, <1>2, <2>2, <2>3
    <3>2. kept[q + 1 - n_wait] = longer[q + 1]
      BY <2>2, <3>1
    <3> QED
      BY <1>1, <3>1, <3>2
  <2>6. ASSUME NEW j \in 1 .. q, list[j] \notin wait
        PROVE  \E i \in 1 .. Len(kept) : kept[i] = list[j]
    <3>1. j \notin 1 .. n_wait
      BY <1>1, <2>1, <2>6
    <3>2. j - n_wait \in 1 .. Len(kept) /\ n_wait + (j - n_wait) = j
      BY <1>1, <1>2, <2>2, <3>1
    <3>3. kept[j - n_wait] = longer[j]
      BY <2>2, <3>2
    <3> QED
      BY <1>1, <3>2, <3>3
  <2>7. ASSUME NEW e \in wait PROVE \E j \in 1 .. q : e = list[j]
    <3>1. PICK j \in 1 .. n_wait : e = longer[j]
      BY <2>1
    <3>2. j \in 1 .. q
      BY <1>1, <1>2, <2>3
    <3> QED
      BY <1>1, <3>1, <3>2
  <2> QED
    BY <2>2, <2>3, <2>4, <2>5, <2>6, <2>7 DEF q, KeepsAll
<1> QED
  BY <1>4, <1>5

(* A command on the buffer of h, whose event the list of h gets.           *)
Recording(h, hs, r) ==
  /\ r \in CommandType
  /\ r.writes \subseteq Cells(h)
  /\ r.how = "get" => r.reads \subseteq Cells(h)
  /\ \A x \in r.reads \cup r.writes : x \in CellsOf(hs)
  /\ WaitsFor(r, hs)
  /\ commands' = Append(commands, r)
  /\ events' = [events EXCEPT ![handles[h].evs] = Kept(events[handles[h].evs], Next_)]
  /\ Closed(Left(events[handles[h].evs], Next_)) \cup known \subseteq known'
  /\ known' \subseteq Int
  /\ UNCHANGED handles

LEMMA RecordingStep ==
  ASSUME IInv, NEW h \in Arrays, NEW hs \in SUBSET Arrays, NEW r, Recording(h, hs, r)
  PROVE  IInv'
<1> DEFINE k == handles[h].evs
           kept == Kept(events[k], Next_)
           wait == Left(events[k], Next_)
<1>1. /\ commands' \in Seq(CommandType) /\ Len(commands') = Len(commands) + 1
      /\ commands'[Next_] = r /\ Next_ \in Nat \ {0}
      /\ \A c \in 1 .. Len(commands) : commands'[c] = commands[c]
  BY OneCommand DEF Recording, IInv
<1>2. Grows /\ Len(commands) \in Nat /\ Len(handles) \in Nat /\ Len(events) \in Nat
  BY <1>1, Basics DEF Grows, Recording, IInv
<1>3. Used \subseteq Used' /\ \A x \in r.reads \cup r.writes : x[1] \in Used
  <2>1. Used \subseteq Used'
    BY <1>1, <1>2, ArraysAssumption DEF Used
  <2> QED
    BY <2>1, CellsAndEvents DEF Recording, IInv
<1>4. k \in 1 .. Len(events) /\ events[k] \in Seq(Int) /\ events \in Seq(Seq(Int))
  BY Basics DEF IInv, Shape
<1>5. /\ kept \in Seq(Int) /\ Len(kept) \in Nat
      /\ \A i \in 1 .. Len(kept) :
           kept[i] = Next_ \/ \E j \in 1 .. Len(events[k]) : kept[i] = events[k][j]
      /\ \E i \in 1 .. Len(kept) : kept[i] = Next_
      /\ \A j \in 1 .. Len(events[k]) :
           events[k][j] \in wait \/ \E i \in 1 .. Len(kept) : kept[i] = events[k][j]
      /\ \A e \in wait : \E j \in 1 .. Len(events[k]) : e = events[k][j]
  <2>1. Next_ \in Int
    BY <1>1
  <2>2. kept = Kept(events[k], Next_) /\ wait = Left(events[k], Next_)
    OBVIOUS
  <2> HIDE DEF k, kept, wait
  <2>3. KeepsAll(events[k], Next_, kept, wait)
    BY <1>4, <2>1, <2>2, AddEventKeeps
  <2> QED
    BY <2>3 DEF KeepsAll
<1>6. /\ events' \in Seq(Seq(Int)) /\ Len(events') = Len(events)
      /\ events'[k] = kept
      /\ \A l \in 1 .. Len(events) : l # k => events'[l] = events[l]
  <2>1. events' = [events EXCEPT ![k] = kept]
    BY DEF Recording, kept, k
  <2> HIDE DEF kept, k
  <2> QED
    BY <1>4, <1>5, <2>1, ExceptSeq
<1>7. \A c \in 1 .. Len(commands') : c \in 1 .. Len(commands) \/ c = Next_
  BY <1>1, <1>2 DEF Next_
<1>8. Next_ \in 1 .. Len(commands')
  BY <1>1, <1>2 DEF Next_
<1>9. Closed(wait) \cup known \subseteq known' /\ known' \subseteq Int /\ handles' = handles
  BY DEF Recording, wait, k
<1> HIDE DEF kept, wait, k
<1>10. Shape'
  <2>0. \A m \in 1 .. Len(events) : \A j \in 1 .. Len(events[m]) :
          events[m][j] \in 1 .. Len(commands)
    BY DEF IInv, Shape
  <2>1. \A c \in 1 .. Len(commands') :
          \A x \in commands'[c].reads \cup commands'[c].writes : x[1] \in Used'
    BY <1>1, <1>3, <1>7 DEF IInv, Shape
  <2>2. \A g \in Arrays : handles[g].evs \in 1 .. Len(events') /\ handles[g].buf \in Used'
    BY <1>3, <1>6 DEF IInv, Shape
  <2>3. ASSUME NEW l \in 1 .. Len(events'), NEW i \in 1 .. Len(events'[l])
        PROVE  events'[l][i] \in 1 .. Len(commands')
    <3>1. \A m \in 1 .. Len(events) : \A j \in 1 .. Len(events[m]) :
            events[m][j] \in 1 .. Len(commands')
      BY <1>1, <1>2, <2>0
    <3>2. CASE l = k
      BY <1>4, <1>5, <1>6, <1>8, <3>1, <3>2
    <3>3. CASE l # k
      BY <1>6, <3>1, <3>3
    <3> QED
      BY <3>2, <3>3
  <2> QED
    BY <1>1, <1>6, <1>9, <2>1, <2>2, <2>3 DEF IInv, Shape, Arrays
<1>11. ASSUME NEW g \in Arrays PROVE Awaited(g) \subseteq Awaited(g)'
  <2>1. CASE handles[g].evs # k
    <3>1. events'[handles[g].evs] = events[handles[g].evs]
      BY <1>6, <2>1 DEF IInv, Shape
    <3> QED
      BY <1>2, <1>9, <1>10, <3>1, ListKept DEF IInv
  <2>2. CASE handles[g].evs = k
    <3>1. \A j \in 1 .. Len(events[k]) : commands'[events[k][j]] = commands[events[k][j]]
      BY <1>1, <1>4 DEF IInv, Shape
    <3>2. \A w : w \in Awaited(g) <=>
             \/ w \in known
             \/ \E j \in 1 .. Len(events[k]) : w = events[k][j] \/ w \in commands[events[k][j]].after
      BY <2>2, AwaitedNow DEF AwaitedAre, IInv
    <3>3. \A w : w \in Awaited(g)' <=>
             \/ w \in known'
             \/ \E i \in 1 .. Len(kept) :
                  w = kept[i] \/ w \in commands'[kept[i]].after
      <4>1. g \in Arrays' /\ handles'[g].evs = k
        BY <1>9, <2>2 DEF Arrays
      <4> QED
        BY <1>6, <1>10, <4>1, AwaitedThen DEF AwaitedAre
    <3>4. ASSUME NEW j \in 1 .. Len(events[k]), events[k][j] \in wait
          PROVE  events[k][j] \in known' /\ commands[events[k][j]].after \subseteq known'
      <4>1. wait \subseteq 1 .. Len(commands)
        BY <1>4, <1>5 DEF IInv, Shape
      <4> QED
        BY <1>9, <3>4, <4>1, ClosedDef DEF IInv
    <3>5. ASSUME NEW w, NEW j \in 1 .. Len(events[k]),
                 w = events[k][j] \/ w \in commands[events[k][j]].after
          PROVE  w \in Awaited(g)'
      <4>1. CASE events[k][j] \in wait
        BY <3>3, <3>4, <3>5, <4>1
      <4>2. CASE \E i \in 1 .. Len(kept) : kept[i] = events[k][j]
        BY <3>1, <3>3, <3>5, <4>2
      <4> QED
        BY <1>5, <4>1, <4>2
    <3> QED
      BY <1>9, <3>2, <3>3, <3>5
  <2> QED
    BY <2>1, <2>2
<1>12. SharedLists'
  BY <1>9 DEF IInv, SharedLists, Arrays
<1>13. ASSUME NEW g \in 1 .. Len(handles'), NEW w \in 1 .. Len(commands'),
              g > Len(handles) \/ w > Len(commands)
       PROVE  Complete(g, w)'
  <2>1. w = Next_ /\ g \in Arrays /\ handles'[g] = handles[g] /\ commands'[w] = r
    BY <1>1, <1>2, <1>7, <1>9, <1>13 DEF Arrays
  <2> SUFFICES ASSUME Recorded(w)', Touches(w, handles[g].buf)' PROVE w \in Awaited(g)'
    BY DEF Complete
  <2>2. handles[g].buf = handles[h].buf
    BY <2>1 DEF Touches, Recording, Cells
  <2>3. ~handles[g].strided /\ ~handles[h].strided
    <3>1. handles[g].buf \in {x[1] : x \in commands'[w].writes \cup commands'[w].reads}
      BY <2>1 DEF Touches
    <3>2. ~Strided(w)'
      BY DEF Recorded
    <3>3. Arrays' = Arrays /\ handles' = handles
      BY <1>9 DEF Arrays
    <3> QED
      BY <2>1, <2>2, <3>1, <3>2, <3>3 DEF Strided
  <2>4. handles[g].evs = k
    BY <2>1, <2>2, <2>3 DEF IInv, SharedLists, k
  <2>5. g \in Arrays' /\ handles'[g].evs = k
    BY <1>9, <2>1, <2>4 DEF Arrays
  <2> QED
    BY <1>5, <1>6, <1>10, <2>1, <2>5, AwaitedThen DEF AwaitedAre
<1>14. ASSUME NEW c \in 1 .. Len(commands'), c > Len(commands), NEW w \in 1 .. c - 1
      PROVE  Ordered(w, c)'
  <2>1. c = Next_ /\ w \in 1 .. Len(commands)
    BY <1>1, <1>2, <1>14 DEF Next_
  <2>2. WaitsFor(r, hs) /\ Len(handles') \in Nat
    BY <1>2, <1>9 DEF Recording
  <2> QED
    BY <1>1, <1>2, <2>1, <2>2, OneOrdered
<1> QED
  BY <1>2, <1>10, <1>11, <1>12, <1>13, <1>14, Preserved

(* Commands that fill new arrays, whose lists get their events.            *)
NewCommands == {c \in 1 .. Len(commands') : c > Len(commands)}
NewArrays   == {h \in 1 .. Len(handles') : h > Len(handles)}
ListOf(h)   == events'[handles'[h].evs]

Filling(hs) ==
  /\ Grows
  /\ commands' \in Seq(CommandType) /\ handles' \in Seq(HandleType) /\ events' \in Seq(Seq(Int))
  /\ Len(events) <= Len(events') /\ \A l \in 1 .. Len(events) : events'[l] = events[l]
  /\ known \subseteq known' /\ known' \subseteq Int
  /\ \A l \in 1 .. Len(events') : l > Len(events) =>
       \A i \in 1 .. Len(events'[l]) : events'[l][i] \in NewCommands
  /\ \A h \in NewArrays : /\ handles'[h].evs \in 1 .. Len(events')
                          /\ handles'[h].buf \in Used' \ Used
                          /\ \A g \in NewArrays : handles'[g].buf = handles'[h].buf => g = h
  /\ \A c \in NewCommands :
       LET r == commands'[c] IN
       /\ r.how # "get"
       /\ \E gs \in SUBSET hs : WaitsFor(r, gs)
       /\ \A x \in r.reads : x \in CellsOf(hs) \/ x[1] \in Used' \ Used
       /\ \A x \in r.writes : x[1] \in Used' \ Used
       /\ \A w \in NewCommands : w < c => w \in r.after
       /\ \A h \in NewArrays :
            r.how \notin {"unrecorded", "user"} /\ (\E x \in r.writes : x[1] = handles'[h].buf)
              => \E i \in 1 .. Len(ListOf(h)) : ListOf(h)[i] = c

LEMMA FillingStep ==
  ASSUME IInv, NEW hs \in SUBSET Arrays, Filling(hs)
  PROVE  IInv'
<1>1. /\ Len(commands) \in Nat /\ Len(handles) \in Nat /\ Len(events) \in Nat
      /\ Len(commands') \in Nat /\ Len(handles') \in Nat /\ Len(events') \in Nat
      /\ Len(commands) <= Len(commands') /\ Len(handles) <= Len(handles')
      /\ Len(events) <= Len(events')
      /\ Grows
  BY Basics, LenProperties DEF IInv, Filling, Grows
<1>2. /\ \A c \in 1 .. Len(commands) : commands'[c] = commands[c]
      /\ \A h \in Arrays : handles'[h] = handles[h]
      /\ \A l \in 1 .. Len(events) : events'[l] = events[l]
  BY DEF Filling, Grows
<1>3. Used \subseteq Used'
  BY <1>1, ArraysAssumption DEF Used
<1>4. /\ \A c \in 1 .. Len(commands') : c \in 1 .. Len(commands) \/ c \in NewCommands
      /\ \A h \in 1 .. Len(handles') : h \in Arrays \/ h \in NewArrays
      /\ \A l \in 1 .. Len(events') : l \in 1 .. Len(events) \/ l > Len(events)
  BY <1>1 DEF NewCommands, NewArrays, Arrays
<1>5. Shape'
  <2>1. ASSUME NEW c \in 1 .. Len(commands')
        PROVE  \A x \in commands'[c].reads \cup commands'[c].writes : x[1] \in Used'
    <3>1. CASE c \in 1 .. Len(commands)
      BY <1>2, <1>3, <3>1 DEF IInv, Shape
    <3>2. CASE c \in NewCommands
      BY <1>3, <3>2, CellsAndEvents DEF IInv, Filling
    <3> QED
      BY <1>4, <3>1, <3>2
  <2>2. ASSUME NEW h \in 1 .. Len(handles')
        PROVE  handles'[h].evs \in 1 .. Len(events') /\ handles'[h].buf \in Used'
    <3>1. CASE h \in Arrays
      BY <1>1, <1>2, <1>3, <3>1 DEF IInv, Shape
    <3>2. CASE h \in NewArrays
      BY <3>2 DEF Filling
    <3> QED
      BY <1>4, <3>1, <3>2
  <2>3. ASSUME NEW l \in 1 .. Len(events'), NEW i \in 1 .. Len(events'[l])
        PROVE  events'[l][i] \in 1 .. Len(commands')
    <3>1. CASE l \in 1 .. Len(events)
      <4>1. events[l][i] \in 1 .. Len(commands)
        BY <1>2, <3>1 DEF IInv, Shape
      <4> QED
        BY <1>1, <1>2, <3>1, <4>1
    <3>2. CASE l > Len(events)
      BY <3>2 DEF Filling, NewCommands
    <3> QED
      BY <1>4, <3>1, <3>2
  <2> QED
    BY <2>1, <2>2, <2>3 DEF Filling, Shape, Arrays
<1>6. SharedLists'
  <2> SUFFICES ASSUME NEW g \in 1 .. Len(handles'), NEW h \in 1 .. Len(handles'),
                      handles'[g].buf = handles'[h].buf, ~handles'[g].strided, ~handles'[h].strided
               PROVE  handles'[g].evs = handles'[h].evs
    BY DEF SharedLists, Arrays
  <2>1. CASE g \in Arrays /\ h \in Arrays
    BY <1>2, <2>1 DEF IInv, SharedLists
  <2>2. \A f \in Arrays : handles'[f].buf \in Used
    BY <1>2 DEF IInv, Shape
  <2>3. \A f \in NewArrays : handles'[f].buf \notin Used
    BY DEF Filling
  <2>4. CASE g \in NewArrays /\ h \in NewArrays
    BY <2>4 DEF Filling
  <2> QED
    BY <1>4, <2>1, <2>2, <2>3, <2>4
<1>7. ASSUME NEW h \in Arrays PROVE Awaited(h) \subseteq Awaited(h)'
  <2>1. events'[handles[h].evs] = events[handles[h].evs]
    BY <1>2 DEF IInv, Shape
  <2> QED
    BY <1>1, <1>5, <2>1, ListKept DEF IInv, Filling
<1>8. ASSUME NEW h \in 1 .. Len(handles'), NEW w \in 1 .. Len(commands'),
             h > Len(handles) \/ w > Len(commands)
      PROVE  Complete(h, w)'
  <2> SUFFICES ASSUME Recorded(w)', Touches(w, handles[h].buf)' PROVE w \in Awaited(h)'
    BY DEF Complete
  <2>1. CASE w \in 1 .. Len(commands)
    <3>1. h \in NewArrays /\ handles'[h].buf \notin Used
      BY <1>1, <1>8, <2>1 DEF NewArrays, Filling
    <3>2. \A x \in commands'[w].reads \cup commands'[w].writes : x[1] \in Used
      BY <1>2, <2>1 DEF IInv, Shape
    <3> QED
      BY <3>1, <3>2 DEF Touches
  <2>2. CASE w \in NewCommands
    <3>1. commands'[w].how \notin {"unrecorded", "user"} /\ \E x \in commands'[w].writes : x[1] = handles'[h].buf
      BY <2>2 DEF Filling, Touches, Recorded
    <3>2. handles'[h].buf \notin Used
      BY <2>2, <3>1 DEF Filling
    <3>3. h \in NewArrays
      <4>1. h \notin Arrays
        BY <1>2, <3>2 DEF IInv, Shape
      <4> QED
        BY <1>4, <4>1
    <3>4. \E i \in 1 .. Len(ListOf(h)) : ListOf(h)[i] = w
      BY <2>2, <3>1, <3>3 DEF Filling
    <3> QED
      BY <1>5, <3>4, AwaitedThen DEF AwaitedAre, ListOf, Arrays
  <2> QED
    BY <1>4, <2>1, <2>2
<1>9. ASSUME NEW c \in 1 .. Len(commands'), c > Len(commands), NEW w \in 1 .. c - 1
      PROVE  Ordered(w, c)'
  <2>1. c \in NewCommands /\ w \in 1 .. Len(commands') /\ w < c
    BY <1>1, <1>9 DEF NewCommands
  <2>2. CASE w \in NewCommands
    BY <2>1, <2>2 DEF Filling, Ordered
  <2>3. CASE w \in 1 .. Len(commands)
    <3>1. PICK gs \in SUBSET hs : WaitsFor(commands'[c], gs)
      BY <2>1 DEF Filling
    <3>2. gs \in SUBSET Arrays
      OBVIOUS
    <3> QED
      BY <1>1, <2>3, <3>1, <3>2, OneOrdered
  <2> QED
    BY <1>4, <2>1, <2>2, <2>3
<1> QED
  BY <1>1, <1>5, <1>6, <1>7, <1>8, <1>9, Preserved

(* The host waits for a list, which becomes empty.                         *)
Finishes(h) ==
  /\ HostWaits(EventsOf(h))
  /\ events' = [events EXCEPT ![handles[h].evs] = << >>]
  /\ UNCHANGED <<handles, commands>>

LEMMA FinishStep ==
  ASSUME IInv, NEW h \in Arrays, Finishes(h)
  PROVE  IInv'
<1> DEFINE k == handles[h].evs
           none == << >>
<1>1. k \in 1 .. Len(events) /\ events \in Seq(Seq(Int)) /\ none \in Seq(Int) /\ Len(none) = 0
  BY EmptySeq DEF IInv, Shape
<1>2. /\ events' \in Seq(Seq(Int)) /\ Len(events') = Len(events) /\ events'[k] = none
      /\ \A l \in 1 .. Len(events) : l # k => events'[l] = events[l]
  <2>1. events' = [events EXCEPT ![k] = none]
    BY DEF Finishes
  <2> HIDE DEF k, none
  <2> QED
    BY <1>1, <2>1, ExceptSeq
<1>3. /\ known \subseteq known' /\ known' \subseteq Int /\ Closed(EventsOf(h)) \subseteq known'
      /\ handles' = handles /\ commands' = commands
      /\ Arrays' = Arrays /\ Used' = Used
  BY EventsAreCommands, ClosedDef DEF Finishes, HostWaits, IInv, Shape, Arrays, Used
<1>4. Grows /\ Len(handles') \in Nat /\ Len(commands') \in Nat
  BY <1>3, Basics DEF IInv, Grows
<1> HIDE DEF k, none
<1>5. Shape'
  <2>0. \A l \in 1 .. Len(events) : \A i \in 1 .. Len(events[l]) : events[l][i] \in 1 .. Len(commands)
    BY DEF IInv, Shape
  <2>1. \A l \in 1 .. Len(events') : \A i \in 1 .. Len(events'[l]) : events'[l][i] \in 1 .. Len(commands)
    <3> SUFFICES ASSUME NEW l \in 1 .. Len(events'), NEW i \in 1 .. Len(events'[l])
                 PROVE  events'[l][i] \in 1 .. Len(commands)
      OBVIOUS
    <3>1. l # k
      BY <1>1, <1>2
    <3> QED
      BY <1>2, <2>0, <3>1
  <2> QED
    BY <1>2, <1>3, <2>1 DEF IInv, Shape
<1>6. ASSUME NEW g \in Arrays PROVE Awaited(g) \subseteq Awaited(g)'
  <2>1. CASE handles[g].evs # k
    <3>1. events'[handles[g].evs] = events[handles[g].evs]
      BY <1>2, <2>1 DEF IInv, Shape
    <3> QED
      BY <1>3, <1>4, <1>5, <3>1, ListKept DEF IInv
  <2>2. CASE handles[g].evs = k
    <3>1. EventsOf(g) = EventsOf(h)
      BY <2>2 DEF EventsOf, k
    <3> QED
      BY <1>3, <3>1 DEF Awaited
  <2> QED
    BY <2>1, <2>2
<1>7. SharedLists'
  BY <1>3 DEF IInv, SharedLists
<1>8. ~(\E g \in 1 .. Len(handles') : g > Len(handles)) /\ ~(\E w \in 1 .. Len(commands') : w > Len(commands))
  BY <1>3, <1>4
<1> QED
  BY <1>4, <1>5, <1>6, <1>7, <1>8, Preserved

(* An array that shows cells of h: with the list of h, or strided, with a  *)
(* list of its own.                                                        *)
ShowsWithList(h, g) ==
  /\ g.evs = handles[h].evs /\ g.strided = handles[h].strided
  /\ events' = events
ShowsStrided(g) ==
  /\ g.evs = Len(events) + 1 /\ g.strided
  /\ events' = Append(events, << >>)

LEMMA ViewStep ==
  ASSUME IInv, NEW h \in Arrays, NEW g \in HandleType, g.buf = handles[h].buf,
         ShowsWithList(h, g) \/ ShowsStrided(g),
         handles' = Append(handles, g), UNCHANGED <<commands, known>>
  PROVE  IInv'
<1> DEFINE q == Len(handles) + 1
<1>1. /\ handles' \in Seq(HandleType) /\ Len(handles') = q /\ handles'[q] = g
      /\ Len(handles) \in Nat /\ Len(commands) \in Nat /\ Len(events) \in Nat
      /\ \A f \in Arrays : handles'[f] = handles[f]
  BY Basics, AppendProperties DEF IInv, Shape, Arrays
<1>2. /\ events' \in Seq(Seq(Int)) /\ Len(events) <= Len(events')
      /\ \A l \in 1 .. Len(events) : events'[l] = events[l]
      /\ \A l \in 1 .. Len(events') : l > Len(events) => Len(events'[l]) = 0
      /\ g.evs \in 1 .. Len(events')
  <2>1. CASE ShowsWithList(h, g)
    BY <1>1, <2>1 DEF ShowsWithList, IInv, Shape
  <2>2. CASE ShowsStrided(g)
    <3>1. << >> \in Seq(Int) /\ Len(<< >>) = 0 /\ events \in Seq(Seq(Int))
      BY EmptySeq DEF IInv, Shape
    <3>2. /\ events' \in Seq(Seq(Int)) /\ Len(events') = Len(events) + 1
          /\ \A l \in 1 .. Len(events) : events'[l] = events[l]
          /\ events'[Len(events) + 1] = << >>
      BY <2>2, <3>1, AppendProperties DEF ShowsStrided
    <3> QED
      BY <1>1, <2>2, <3>1, <3>2 DEF ShowsStrided
  <2> QED
    BY <2>1, <2>2
<1>5. Used' = Used /\ known' = known /\ commands' = commands
  BY DEF Used
<1>3. Grows /\ Len(handles') \in Nat
  <2>1. Len(handles') \in Nat /\ Len(handles) <= Len(handles') /\ Len(commands) <= Len(commands')
    BY <1>1, <1>5
  <2> QED
    BY <1>1, <1>5, <2>1 DEF Grows
<1>4. \A f \in 1 .. Len(handles') : f \in Arrays \/ f = q
  BY <1>1 DEF Arrays
<1>6. Shape'
  <2>1. \A l \in 1 .. Len(events') : \A i \in 1 .. Len(events'[l]) : events'[l][i] \in 1 .. Len(commands)
    <3> SUFFICES ASSUME NEW l \in 1 .. Len(events'), NEW i \in 1 .. Len(events'[l])
                 PROVE  events'[l][i] \in 1 .. Len(commands)
      OBVIOUS
    <3>1. CASE l \in 1 .. Len(events)
      BY <1>2, <3>1 DEF IInv, Shape
    <3>2. CASE l > Len(events)
      BY <1>2, <3>2
    <3> QED
      BY <1>1, <3>1, <3>2
  <2>2. ASSUME NEW f \in 1 .. Len(handles')
        PROVE  handles'[f].evs \in 1 .. Len(events') /\ handles'[f].buf \in Used
    <3>1. CASE f \in Arrays
      <4>1. handles[f].evs \in 1 .. Len(events) /\ handles[f].buf \in Used
        BY <3>1 DEF IInv, Shape
      <4>2. Len(events') \in Nat
        BY <1>2, LenProperties
      <4> QED
        BY <1>1, <1>2, <3>1, <4>1, <4>2
    <3>2. CASE f = q
      BY <1>1, <1>2, <3>2 DEF IInv, Shape
    <3> QED
      BY <1>4, <3>1, <3>2
  <2> QED
    BY <1>1, <1>2, <1>5, <2>1, <2>2 DEF IInv, Shape, Arrays
<1>7. ASSUME NEW f \in Arrays PROVE Awaited(f) \subseteq Awaited(f)'
  <2>1. events'[handles[f].evs] = events[handles[f].evs]
    BY <1>2 DEF IInv, Shape
  <2> QED
    BY <1>3, <1>5, <1>6, <2>1, ListKept DEF IInv
<1>8. SharedLists'
  <2> SUFFICES ASSUME NEW e \in 1 .. Len(handles'), NEW f \in 1 .. Len(handles'),
                      handles'[e].buf = handles'[f].buf, ~handles'[e].strided, ~handles'[f].strided
               PROVE  handles'[e].evs = handles'[f].evs
    BY DEF SharedLists, Arrays
  <2>1. g.strided \/ ShowsWithList(h, g)
    BY DEF ShowsStrided
  <2>2. CASE g.strided
    BY <1>1, <1>4, <2>2 DEF IInv, SharedLists
  <2>3. CASE ShowsWithList(h, g)
    BY <1>1, <1>4, <2>3 DEF IInv, SharedLists, ShowsWithList
  <2> QED
    BY <2>1, <2>2, <2>3
<1>9. ASSUME NEW f \in 1 .. Len(handles'), NEW w \in 1 .. Len(commands'),
             f > Len(handles) \/ w > Len(commands)
      PROVE  Complete(f, w)'
  <2> SUFFICES ASSUME Recorded(w)', Touches(w, handles[f].buf)' PROVE w \in Awaited(f)'
    BY DEF Complete
  <2>1. f = q /\ w \in 1 .. Len(commands) /\ f \in Arrays' /\ handles'[f] = g
    BY <1>1, <1>4, <1>5, <1>9 DEF Arrays
  <2>2. Touches(w, handles[h].buf)
    BY <1>5, <2>1 DEF Touches
  <2>3. ~g.strided
    BY <1>5, <2>1 DEF Recorded, Strided, Touches
  <2>4. ShowsWithList(h, g)
    BY <2>3 DEF ShowsStrided
  <2>5. w \in Awaited(h)
    BY <1>1, <1>3, <2>1, <2>2, RecordedKept DEF IInv, ListsAreComplete
  <2>6. Awaited(f)' = Awaited(h)
    BY <1>5, <2>1, <2>4 DEF Awaited, Closed, EventsOf, ShowsWithList
  <2> QED
    BY <2>5, <2>6
<1>10. ~(\E c \in 1 .. Len(commands') : c > Len(commands))
  BY <1>1, <1>5
<1> QED
  BY <1>3, <1>6, <1>7, <1>8, <1>9, <1>10, Preserved

-----------------------------------------------------------------------------
(* The operations that the actions are made of.                            *)
LEMMA RecordsStep ==
  ASSUME IInv, NEW h \in Arrays, NEW hs \in SUBSET Arrays, NEW reads, NEW writes, NEW waits, NEW how \in How,
         reads \subseteq CellsOf(hs), writes \subseteq Cells(h), h \in hs,
         how = "get" => reads \subseteq Cells(h),
         waits = EventsOfAll(hs) \/ (how = "blind" /\ waits = {}),
         NEW blocking, Records(h, reads, writes, waits, how, blocking)
  PROVE  IInv'
<1> DEFINE r == [reads |-> reads, writes |-> writes, after |-> Closed(waits) \cup known, how |-> how]
<1>1. waits \subseteq 1 .. Len(commands) /\ Closed(waits) \subseteq Int /\ known \subseteq Int
  <2>1. waits \subseteq 1 .. Len(commands)
    BY CellsAndEvents DEF IInv
  <2> QED
    BY <2>1, ClosedDef DEF IInv, Shape
<1>2. reads \subseteq Cell /\ writes \subseteq Cell
  <2>1. Cells(h) \subseteq CellsOf(hs)
    BY DEF CellsOf
  <2> QED
    BY <2>1, CellsAndEvents DEF IInv
<1>3. r \in CommandType
  BY <1>1, <1>2 DEF CommandType
<1>4. WaitsFor(r, hs)
  BY DEF WaitsFor, CellsOf
<1>5. \A x \in r.reads \cup r.writes : x \in CellsOf(hs)
  BY DEF CellsOf
<1>6. commands' = Append(commands, r)
  BY DEF Records, Enqueued
<1>7. /\ events' = [events EXCEPT ![handles[h].evs] = Kept(events[handles[h].evs], Next_)]
      /\ known' = known \cup Closed(Left(events[handles[h].evs], Next_))
                    \cup IF blocking THEN {Next_} \cup Closed(waits) ELSE {}
      /\ UNCHANGED handles
  BY DEF Records, Kept, Left
<1>8. known' \subseteq Int
  <2>1. handles[h].evs \in 1 .. Len(events) /\ events[handles[h].evs] \in Seq(Int) /\ Next_ \in Int
    BY Basics DEF IInv, Shape, Next_
  <2>2. KeepsAll(events[handles[h].evs], Next_, Kept(events[handles[h].evs], Next_), Left(events[handles[h].evs], Next_))
    BY <2>1, AddEventKeeps
  <2>3. Left(events[handles[h].evs], Next_) \subseteq 1 .. Len(commands)
    BY <2>1, <2>2 DEF KeepsAll, IInv, Shape
  <2>4. Closed(Left(events[handles[h].evs], Next_)) \subseteq Int
    BY <2>3, ClosedDef DEF IInv
  <2> QED
    BY <1>1, <1>7, <2>1, <2>4
<1>9. r.writes \subseteq Cells(h) /\ (r.how = "get" => r.reads \subseteq Cells(h))
  OBVIOUS
<1> HIDE DEF r
<1>10. Recording(h, hs, r)
  BY <1>3, <1>4, <1>5, <1>6, <1>7, <1>8, <1>9 DEF Recording
<1> QED
  BY <1>10, RecordingStep

LEMMA EnqueuedStep ==
  ASSUME IInv, NEW hs \in SUBSET Arrays, NEW reads, NEW writes, NEW how \in {"unrecorded", "user"},
         reads \subseteq CellsOf(hs), writes \subseteq CellsOf(hs),
         Enqueued(reads, writes, EventsOfAll(hs), how),
         known \subseteq known', known' \subseteq Int, handles' = handles, events' = events
  PROVE  IInv'
<1> DEFINE r == [reads |-> reads, writes |-> writes, after |-> Closed(EventsOfAll(hs)) \cup known, how |-> how]
<1>1. r \in CommandType
  <2>1. CellsOf(hs) \subseteq Cell /\ Closed(EventsOfAll(hs)) \cup known \subseteq Int
    BY CellsAndEvents DEF IInv
  <2>2. reads \subseteq Cell /\ writes \subseteq Cell
    BY <2>1
  <2>3. how \in How
    BY DEF How
  <2> QED
    BY <2>1, <2>2, <2>3 DEF CommandType
<1>2. commands' = Append(commands, r)
  BY DEF Enqueued
<1>3. /\ \A x \in r.reads \cup r.writes : x \in CellsOf(hs)
      /\ Closed(EventsOfAll(hs)) \cup known \subseteq r.after /\ r.how \in {"unrecorded", "user"}
  OBVIOUS
<1> HIDE DEF r
<1>4. Unrecorded(hs, r)
  BY <1>1, <1>2, <1>3 DEF Unrecorded
<1> QED
  BY <1>4, UnrecordedStep

LEMMA FunctionSeq ==
  ASSUME NEW S, NEW q \in Nat, NEW f \in [1 .. q -> S]
  PROVE  f \in Seq(S) /\ Len(f) = q
<1>1. f \in Seq(S)
  BY SeqDef
<1>2. Len(f) \in Nat /\ DOMAIN f = 1 .. Len(f) /\ DOMAIN f = 1 .. q
  BY <1>1, LenProperties
<1> QED
  BY <1>1, <1>2

(* Room leaves a number for one or two more buffers.                       *)
LEMMA FreshBuffers ==
  ASSUME Shape, Len(commands) + 1 <= MaxCommands, Len(commands') > Len(commands), Len(commands') \in Nat
  PROVE  /\ Next_ \in Used' \ Used
         /\ Next_ + MaxCommands \in Used' \ Used
         /\ Next_ # Next_ + MaxCommands
BY Basics, ArraysAssumption DEF Used, Next_

LEMMA FillsStep ==
  ASSUME IInv, NEW hs \in SUBSET Arrays, NEW shapes \in Seq(SUBSET Int), Len(shapes) \in {1, 2},
         NEW reads, NEW how \in How \ {"get"},
         reads \subseteq CellsOf(hs), Fills(shapes, reads, EventsOfAll(hs), how),
         known \subseteq known', known' \subseteq Int
  PROVE  IInv'
<1> DEFINE q == Len(shapes)
           buf(i) == Next_ + (i - 1) * MaxCommands
           writes == UNION {{buf(i)} \X shapes[i] : i \in DOMAIN shapes}
           r == [reads |-> reads, writes |-> writes,
                 after |-> Closed(EventsOfAll(hs)) \cup known, how |-> how]
           newh == [i \in DOMAIN shapes |->
                      [buf |-> buf(i), cells |-> shapes[i], evs |-> Len(events) + i, strided |-> FALSE]]
           newl == [i \in DOMAIN shapes |-> IF how = "unrecorded" THEN << >> ELSE <<Next_>>]
<1>1. /\ Room(1, q) /\ commands' = Append(commands, r)
      /\ handles' = handles \o newh /\ events' = events \o newl
  BY DEF Fills, Enqueued
<1>2. /\ q \in Nat /\ DOMAIN shapes = 1 .. q /\ \A i \in 1 .. q : shapes[i] \subseteq Int
      /\ \A i \in 1 .. q : i = 1 \/ i = 2
  <2>1. q \in Nat /\ DOMAIN shapes = 1 .. q /\ \A i \in 1 .. q : shapes[i] \in SUBSET Int
    BY LenProperties
  <2>2. q = 1 \/ q = 2
    OBVIOUS
  <2> HIDE DEF q
  <2>3. \A i \in 1 .. q : i = 1 \/ i = 2
    BY <2>1, <2>2
  <2> QED
    BY <2>1, <2>3
<1>3. /\ Len(handles) \in Nat /\ Len(events) \in Nat /\ Len(commands) \in Nat /\ MaxCommands \in Nat
      /\ Next_ \in Nat
  BY Basics, ArraysAssumption DEF IInv, Next_
<1>4. /\ \A i \in 1 .. q : buf(i) \in Nat
      /\ \A i \in 1 .. q : buf(i) = Next_ \/ buf(i) = Next_ + MaxCommands
      /\ \A i, j \in 1 .. q : buf(i) = buf(j) /\ MaxCommands # 0 => i = j
  <2>1. buf(1) = Next_ /\ buf(2) = Next_ + MaxCommands
    BY <1>3
  <2> HIDE DEF buf, q
  <2>2. \A i \in 1 .. q : buf(i) = Next_ \/ buf(i) = Next_ + MaxCommands
    BY <1>2, <2>1
  <2>3. \A i, j \in 1 .. q : buf(i) = buf(j) /\ MaxCommands # 0 => i = j
    BY <1>2, <1>3, <2>1
  <2> QED
    BY <1>3, <2>2, <2>3
<1> HIDE DEF buf, q
<1>5. /\ newh \in Seq(HandleType) /\ Len(newh) = q
      /\ \A i \in 1 .. q : newh[i] = [buf |-> buf(i), cells |-> shapes[i], evs |-> Len(events) + i,
                                       strided |-> FALSE]
  <2>1. newh \in [1 .. q -> HandleType]
    BY <1>2, <1>3, <1>4 DEF HandleType
  <2> HIDE DEF newh
  <2>2. newh \in Seq(HandleType) /\ Len(newh) = q
    BY <1>2, <2>1, FunctionSeq
  <2> QED
    BY <1>2, <2>2 DEF newh
<1>6. /\ newl \in Seq(Seq(Int)) /\ Len(newl) = q
      /\ \A i \in 1 .. q : /\ how = "unrecorded" => Len(newl[i]) = 0
                           /\ how # "unrecorded" => Len(newl[i]) = 1 /\ newl[i][1] = Next_
  <2>1. << >> \in Seq(Int) /\ Len(<< >>) = 0 /\ <<Next_>> \in Seq(Int) /\ Len(<<Next_>>) = 1 /\ <<Next_>>[1] = Next_
    BY <1>3, EmptySeq
  <2>2. newl \in [1 .. q -> Seq(Int)]
    BY <1>2, <2>1
  <2>3. \A i \in 1 .. q : newl[i] = IF how = "unrecorded" THEN << >> ELSE <<Next_>>
    BY <1>2
  <2> HIDE DEF newl
  <2> QED
    BY <1>2, <2>1, <2>2, <2>3, FunctionSeq
<1>7. \A x \in writes : \E i \in 1 .. q : x[1] = buf(i) /\ x \in Nat \X Int
  BY <1>2, <1>4
<1>8. r \in CommandType
  <2>1. CellsOf(hs) \subseteq Cell /\ Closed(EventsOfAll(hs)) \cup known \subseteq Int
    BY CellsAndEvents DEF IInv
  <2> HIDE DEF writes
  <2> QED
    BY <1>7, <2>1 DEF CommandType, Cell
<1>9. r.reads = reads /\ r.writes = writes /\ r.after = Closed(EventsOfAll(hs)) \cup known /\ r.how = how
  OBVIOUS
<1> HIDE DEF r, writes, newh, newl
<1>10. /\ commands' \in Seq(CommandType) /\ Len(commands') = Len(commands) + 1
       /\ commands'[Next_] = r
       /\ \A c \in 1 .. Len(commands) : commands'[c] = commands[c]
  BY <1>1, <1>8, OneCommand DEF IInv
<1>11. /\ handles' \in Seq(HandleType) /\ Len(handles') = Len(handles) + q
       /\ \A i \in 1 .. Len(handles) + q :
            handles'[i] = IF i <= Len(handles) THEN handles[i] ELSE newh[i - Len(handles)]
  <2>1. handles \in Seq(HandleType) /\ newh \in Seq(HandleType) /\ Len(newh) = q
    BY <1>5 DEF IInv, Shape
  <2>2. handles' = handles \o newh
    BY <1>1
  <2> DEFINE all_ == handles \o newh
  <2>3. /\ all_ \in Seq(HandleType) /\ Len(all_) = Len(handles) + q
        /\ \A i \in 1 .. Len(handles) + q : all_[i] = IF i <= Len(handles) THEN handles[i] ELSE newh[i - Len(handles)]
    BY <2>1, ConcatProperties
  <2> HIDE DEF all_
  <2>4. handles' = all_
    BY <2>2 DEF all_
  <2> QED
    BY <2>3, <2>4
<1>12. /\ events' \in Seq(Seq(Int)) /\ Len(events') = Len(events) + q
       /\ \A i \in 1 .. Len(events) + q :
            events'[i] = IF i <= Len(events) THEN events[i] ELSE newl[i - Len(events)]
  <2>1. events \in Seq(Seq(Int)) /\ newl \in Seq(Seq(Int)) /\ Len(newl) = q
    BY <1>6 DEF IInv, Shape
  <2>2. events' = events \o newl
    BY <1>1
  <2> QED
    BY <2>1, <2>2, ConcatProperties
<1>13. \A i \in 1 .. q : buf(i) \in Used' \ Used
  <2>1. Len(commands) + 1 <= MaxCommands
    BY <1>1 DEF Room
  <2> QED
    BY <1>3, <1>4, <1>10, <2>1, FreshBuffers DEF IInv
<1>14. NewCommands = {Next_}
  BY <1>3, <1>10 DEF NewCommands, Next_
<1>15. \A h \in NewArrays : \E i \in 1 .. q : h = Len(handles) + i /\ handles'[h] = newh[i]
                             /\ events'[Len(events) + i] = newl[i] /\ Len(events) + i \in 1 .. Len(events')
  <2> SUFFICES ASSUME NEW h \in NewArrays
               PROVE  \E i \in 1 .. q : h = Len(handles) + i /\ handles'[h] = newh[i]
                        /\ events'[Len(events) + i] = newl[i] /\ Len(events) + i \in 1 .. Len(events')
    OBVIOUS
  <2>1. PICK i \in 1 .. q : h = Len(handles) + i /\ handles'[h] = newh[i]
    <3>1. h - Len(handles) \in 1 .. q /\ h = Len(handles) + (h - Len(handles))
          /\ handles'[h] = newh[h - Len(handles)]
      BY <1>2, <1>3, <1>11 DEF NewArrays
    <3> QED
      BY <3>1
  <2>2. Len(events) + i \in 1 .. Len(events) + q /\ ~(Len(events) + i <= Len(events))
        /\ Len(events) + i - Len(events) = i
    BY <1>2, <1>3, <2>1
  <2>3. events'[Len(events) + i] = newl[i] /\ Len(events) + i \in 1 .. Len(events')
    BY <1>12, <2>2
  <2> QED
    BY <2>1, <2>3
<1>16. \A l \in 1 .. Len(events') : l > Len(events) => \E i \in 1 .. q : events'[l] = newl[i]
  <2> SUFFICES ASSUME NEW l \in 1 .. Len(events'), l > Len(events)
               PROVE  \E i \in 1 .. q : events'[l] = newl[i]
    OBVIOUS
  <2>1. l - Len(events) \in 1 .. q /\ events'[l] = newl[l - Len(events)]
    BY <1>2, <1>3, <1>12
  <2> QED
    BY <2>1
<1>17. Grows
  <2>1. Len(commands) <= Len(commands') /\ Len(handles) <= Len(handles')
    BY <1>2, <1>3, <1>10, <1>11
  <2>2. \A h \in Arrays : handles'[h] = handles[h]
    BY <1>2, <1>3, <1>11 DEF Arrays
  <2> QED
    BY <1>10, <2>1, <2>2 DEF Grows
<1>18. Len(events) <= Len(events') /\ \A l \in 1 .. Len(events) : events'[l] = events[l]
  BY <1>2, <1>3, <1>12
<1>19. \A l \in 1 .. Len(events') : l > Len(events) =>
         \A i \in 1 .. Len(events'[l]) : events'[l][i] \in NewCommands
  BY <1>6, <1>14, <1>16
<1>20. ASSUME NEW h \in NewArrays
       PROVE  /\ handles'[h].evs \in 1 .. Len(events')
              /\ handles'[h].buf \in Used' \ Used
              /\ \A g \in NewArrays : handles'[g].buf = handles'[h].buf => g = h
  <2>0. MaxCommands # 0
    BY <1>1, <1>3 DEF Room
  <2>1. PICK i \in 1 .. q : h = Len(handles) + i /\ handles'[h] = newh[i] /\ Len(events) + i \in 1 .. Len(events')
    BY <1>15
  <2>2. ASSUME NEW g \in NewArrays, handles'[g].buf = handles'[h].buf PROVE g = h
    <3>1. PICK j \in 1 .. q : g = Len(handles) + j /\ handles'[g] = newh[j]
      BY <1>15
    <3>2. buf(i) = buf(j)
      BY <1>5, <2>1, <2>2, <3>1
    <3> QED
      BY <1>4, <2>0, <2>1, <3>1, <3>2
  <2> QED
    BY <1>5, <1>13, <2>1, <2>2
<1>21. ASSUME NEW c \in NewCommands
       PROVE  /\ commands'[c].how # "get"
              /\ \E gs \in SUBSET hs : WaitsFor(commands'[c], gs)
              /\ \A x \in commands'[c].reads : x \in CellsOf(hs) \/ x[1] \in Used' \ Used
              /\ \A x \in commands'[c].writes : x[1] \in Used' \ Used
              /\ \A w \in NewCommands : w < c => w \in commands'[c].after
  <2>1. c = Next_ /\ commands'[c] = r
    BY <1>10, <1>14
  <2>2. \A x \in writes : x[1] \in Used' \ Used
    BY <1>7, <1>13
  <2>3. \E gs \in SUBSET hs : WaitsFor(r, gs)
    <3>1. WaitsFor(r, hs)
      BY <1>9, <2>2 DEF WaitsFor
    <3> QED
      BY <3>1
  <2> QED
    BY <1>3, <1>9, <1>14, <2>1, <2>2, <2>3
<1>22. ASSUME NEW c \in NewCommands, NEW h \in NewArrays, commands'[c].how # "unrecorded"
       PROVE  \E i \in 1 .. Len(ListOf(h)) : ListOf(h)[i] = c
  <2>1. c = Next_ /\ how # "unrecorded"
    BY <1>9, <1>10, <1>14, <1>22
  <2>2. PICK i \in 1 .. q : handles'[h] = newh[i] /\ events'[Len(events) + i] = newl[i]
    BY <1>15
  <2>3. ListOf(h) = newl[i]
    BY <1>5, <2>2 DEF ListOf
  <2>4. Len(newl[i]) = 1 /\ newl[i][1] = Next_
    BY <1>6, <2>1
  <2>5. 1 \in 1 .. Len(ListOf(h)) /\ ListOf(h)[1] = c
    BY <2>1, <2>3, <2>4
  <2> QED
    BY <2>5
<1>23. Filling(hs)
  BY <1>10, <1>11, <1>12, <1>17, <1>18, <1>19, <1>20, <1>21, <1>22 DEF Filling
<1> QED
  BY <1>23, FillingStep

(* The array h alone, and no array.                                        *)
LEMMA OneArray ==
  ASSUME NEW h
  PROVE  /\ CellsOf({h}) = Cells(h) /\ EventsOfAll({h}) = EventsOf(h)
         /\ CellsOf({}) = {} /\ EventsOfAll({}) = {}
BY DEF CellsOf, EventsOfAll

LEMMA CellsAreInts == IInv => \A a \in Arrays : handles[a].cells \in SUBSET Int
BY Basics DEF IInv, HandleType

LEMMA FillsOne ==
  ASSUME IInv, NEW hs \in SUBSET Arrays, NEW S \in SUBSET Int, NEW how \in How \ {"get"},
         NEW reads, reads \subseteq CellsOf(hs), Fills(<<S>>, reads, EventsOfAll(hs), how),
         known \subseteq known', known' \subseteq Int
  PROVE  IInv'
<1> DEFINE shapes == <<S>>
<1>1. shapes \in Seq(SUBSET Int) /\ Len(shapes) \in {1, 2}
  OBVIOUS
<1>2. Fills(shapes, reads, EventsOfAll(hs), how)
  OBVIOUS
<1> HIDE DEF shapes
<1> QED
  BY <1>1, <1>2, FillsStep

LEMMA FillsTwo ==
  ASSUME IInv, NEW hs \in SUBSET Arrays, NEW S \in SUBSET Int, NEW how \in How \ {"get"},
         NEW reads, reads \subseteq CellsOf(hs), Fills(<<S, S>>, reads, EventsOfAll(hs), how),
         known \subseteq known', known' \subseteq Int
  PROVE  IInv'
<1> DEFINE shapes == <<S, S>>
<1>1. shapes \in Seq(SUBSET Int) /\ Len(shapes) \in {1, 2}
  OBVIOUS
<1>2. Fills(shapes, reads, EventsOfAll(hs), how)
  OBVIOUS
<1> HIDE DEF shapes
<1> QED
  BY <1>1, <1>2, FillsStep

LEMMA KnownKept ==
  ASSUME IInv, UNCHANGED known
  PROVE  known \subseteq known' /\ known' \subseteq Int
BY DEF IInv, Shape

LEMMA ElementwiseStep ==
  ASSUME IInv, NEW args \in SUBSET Arrays, Elementwise(args)
  PROVE  IInv'
<1>1. PICK a \in args : Fills(<<handles[a].cells>>, CellsOf(args), EventsOfAll(args), "plain")
                        /\ UNCHANGED known
  BY DEF Elementwise
<1>2. handles[a].cells \in SUBSET Int /\ "plain" \in How \ {"get"}
  BY CellsAreInts DEF How
<1>3. known \subseteq known' /\ known' \subseteq Int
  BY <1>1, KnownKept
<1> QED
  BY <1>1, <1>2, <1>3, FillsOne

LEMMA Elementwise2Step ==
  ASSUME IInv, NEW a \in Arrays, Elementwise2(a)
  PROVE  IInv'
<1>1. Fills(<<handles[a].cells, handles[a].cells>>, CellsOf({a}), EventsOfAll({a}), "plain")
      /\ UNCHANGED known
  BY OneArray DEF Elementwise2
<1>2. handles[a].cells \in SUBSET Int /\ "plain" \in How \ {"get"} /\ {a} \in SUBSET Arrays
  BY CellsAreInts DEF How
<1>3. known \subseteq known' /\ known' \subseteq Int
  BY <1>1, KnownKept
<1> QED
  BY <1>1, <1>2, <1>3, FillsTwo

(* A new array like S, from the array a.                                   *)
LEMMA FromOneStep ==
  ASSUME IInv, NEW a \in Arrays, NEW S \in SUBSET Int, NEW how \in How \ {"get"},
         Fills(<<S>>, Cells(a), EventsOf(a), how), UNCHANGED known
  PROVE  IInv'
<1>1. Fills(<<S>>, CellsOf({a}), EventsOfAll({a}), how) /\ {a} \in SUBSET Arrays
  BY OneArray
<1>2. known \subseteq known' /\ known' \subseteq Int
  BY KnownKept
<1> QED
  BY <1>1, <1>2, FillsOne

(* A new array like S, from nothing.                                       *)
LEMMA FromNoneStep ==
  ASSUME IInv, NEW S \in SUBSET Int, NEW how \in How \ {"get"},
         Fills(<<S>>, {}, {}, how), known \subseteq known', known' \subseteq Int
  PROVE  IInv'
<1>1. Fills(<<S>>, CellsOf({}), EventsOfAll({}), how) /\ {} \in SUBSET Arrays
  BY OneArray
<1> QED
  BY <1>1, FillsOne

LEMMA InPlaceStep ==
  ASSUME IInv, NEW h \in Arrays, NEW args \in SUBSET Arrays, InPlace(h, args)
  PROVE  IInv'
<1> DEFINE hs == args \cup {h}
<1>1. hs \in SUBSET Arrays /\ h \in hs /\ "plain" \in How /\ "plain" # "get"
  BY DEF How
<1>2. Records(h, CellsOf(hs), Cells(h), EventsOfAll(hs), "plain", FALSE)
  BY DEF InPlace
<1> HIDE DEF hs
<1> QED
  BY <1>1, <1>2, RecordsStep

LEMMA InPlaceUnrecordedStep ==
  ASSUME IInv, NEW h \in Arrays, NEW args \in SUBSET Arrays, NEW how \in {"unrecorded", "user"},
         InPlaceUnrecorded(h, args, how)
  PROVE  IInv'
<1> DEFINE hs == args \cup {h}
<1>1. hs \in SUBSET Arrays /\ CellsOf(args) \subseteq CellsOf(hs) /\ Cells(h) \subseteq CellsOf(hs)
  BY DEF CellsOf
<1>2. /\ Enqueued(CellsOf(args), Cells(h), EventsOfAll(hs), how)
      /\ handles' = handles /\ events' = events /\ UNCHANGED known
  BY DEF InPlaceUnrecorded
<1>3. known \subseteq known' /\ known' \subseteq Int
  BY <1>2, KnownKept
<1> HIDE DEF hs
<1> QED
  BY <1>1, <1>2, <1>3, EnqueuedStep

LEMMA FillActionStep ==
  ASSUME IInv, Fill
  PROVE  IInv'
<1>1. PICK h \in Arrays : Records(h, {}, Cells(h), EventsOf(h), "plain", FALSE)
  BY DEF Fill
<1>2. /\ Records(h, {}, Cells(h), EventsOfAll({h}), "plain", FALSE)
      /\ {h} \in SUBSET Arrays /\ h \in {h} /\ {} \subseteq CellsOf({h})
      /\ "plain" \in How /\ "plain" # "get"
  BY <1>1, OneArray DEF How
<1> QED
  BY <1>2, RecordsStep

LEMMA PutsIntoStep ==
  ASSUME IInv, NEW out \in Arrays, NEW args \in SUBSET Arrays, PutsInto(out, args)
  PROVE  IInv'
<1> DEFINE hs == args \cup {out}
<1>1. PICK cells \in SUBSET Cells(out) \ {{}} :
        Records(out, CellsOf(args), cells, EventsOfAll(hs), "plain", FALSE)
  BY DEF PutsInto
<1>2. /\ hs \in SUBSET Arrays /\ out \in hs /\ CellsOf(args) \subseteq CellsOf(hs)
      /\ cells \subseteq Cells(out)
      /\ "plain" \in How /\ "plain" # "get"
  BY DEF CellsOf, How
<1> HIDE DEF hs
<1> QED
  BY <1>1, <1>2, RecordsStep

LEMMA SetStep ==
  ASSUME IInv, Set
  PROVE  IInv'
<1>1. PICK h \in Arrays, blocking \in BOOLEAN : Records(h, {}, Cells(h), {}, "blind", blocking)
  BY DEF Set
<1>2. /\ {h} \in SUBSET Arrays /\ h \in {h} /\ {} \subseteq CellsOf({h})
      /\ "blind" \in How /\ "blind" # "get"
  BY DEF How
<1> QED
  BY <1>1, <1>2, RecordsStep

LEMMA GetStep ==
  ASSUME IInv, Get
  PROVE  IInv'
<1>1. PICK h \in Arrays, blocking \in BOOLEAN : Records(h, Cells(h), {}, EventsOf(h), "get", blocking)
  BY DEF Get
<1>2. /\ Records(h, Cells(h), {}, EventsOfAll({h}), "get", blocking)
      /\ {h} \in SUBSET Arrays /\ h \in {h} /\ Cells(h) \subseteq CellsOf({h}) /\ {} \subseteq Cells(h)
      /\ "get" \in How
  BY <1>1, OneArray DEF How
<1> QED
  BY <1>2, RecordsStep

LEMMA SetItemStep ==
  ASSUME IInv, SetItem
  PROVE  IInv'
<1>0. PICK h \in Arrays, v \in Arrays : \E part \in SUBSET Cells(h) \ {{}} :
        \/ Records(h, Cells(v), part, EventsOfAll({h, v}), "plain", FALSE)
        \/ \E onhost \in BOOLEAN : Records(h, {}, part, EventsOf(h), "plain", onhost)
  BY DEF SetItem
<1>1. PICK part \in SUBSET Cells(h) \ {{}} :
        \/ Records(h, Cells(v), part, EventsOfAll({h, v}), "plain", FALSE)
        \/ \E onhost \in BOOLEAN : Records(h, {}, part, EventsOf(h), "plain", onhost)
  BY <1>0
<1>2. "plain" \in How /\ "plain" # "get" /\ part \subseteq Cells(h)
  BY DEF How
<1>3. CASE Records(h, Cells(v), part, EventsOfAll({h, v}), "plain", FALSE)
  <2>1. {h, v} \in SUBSET Arrays /\ h \in {h, v} /\ Cells(v) \subseteq CellsOf({h, v})
    BY DEF CellsOf
  <2> QED
    BY <1>2, <1>3, <2>1, RecordsStep
<1>4. CASE \E onhost \in BOOLEAN : Records(h, {}, part, EventsOf(h), "plain", onhost)
  <2>1. PICK onhost \in BOOLEAN : Records(h, {}, part, EventsOfAll({h}), "plain", onhost)
    BY <1>4, OneArray
  <2>2. {h} \in SUBSET Arrays /\ h \in {h} /\ {} \subseteq CellsOf({h})
    OBVIOUS
  <2> QED
    BY <1>2, <2>1, <2>2, RecordsStep
<1> QED
  BY <1>1, <1>3, <1>4

LEMMA MapToHostStep ==
  ASSUME IInv, MapToHost
  PROVE  IInv'
<1>1. PICK h \in Arrays, blocking \in BOOLEAN :
        /\ Enqueued(Cells(h), {}, EventsOf(h), "user")
        /\ known' = known \cup IF blocking THEN {Next_} \cup Closed(EventsOf(h)) ELSE {}
        /\ UNCHANGED <<handles, events>>
  BY DEF MapToHost
<1> DEFINE hs == {h}
           reads == Cells(h)
           none == {}
           how == "user"
<1>2. /\ Enqueued(reads, none, EventsOfAll(hs), how) /\ hs \in SUBSET Arrays
      /\ reads \subseteq CellsOf(hs) /\ none \subseteq CellsOf(hs)
      /\ handles' = handles /\ events' = events
  BY <1>1, OneArray
<1>3. known \subseteq known' /\ known' \subseteq Int
  <2>1. Closed(EventsOf(h)) \subseteq Int
    BY EventsAreCommands, ClosedDef DEF IInv
  <2>2. known \subseteq Int /\ Next_ \in Int
    BY Basics DEF IInv, Shape, Next_
  <2>3. known' = known \/ known' = known \cup {Next_} \cup Closed(EventsOf(h))
    BY <1>1, Zenon
  <2> QED
    BY <2>1, <2>2, <2>3
<1>4. how \in {"unrecorded", "user"}
  OBVIOUS
<1> HIDE DEF hs, reads, none, how
<1> QED
  BY <1>2, <1>3, <1>4, EnqueuedStep

LEMMA ToDeviceStep ==
  ASSUME IInv, ToDevice
  PROVE  IInv'
<1>1. PICK blocking \in BOOLEAN : /\ Fills(<<{0, 1}>>, {}, {}, "blind")
                                  /\ known' = known \cup IF blocking THEN {Next_} ELSE {}
  BY DEF ToDevice
<1>2. known \subseteq known' /\ known' \subseteq Int
  <2>1. known' = known \/ known' = known \cup {Next_}
    BY <1>1, Zenon
  <2>2. known \subseteq Int /\ Next_ \in Int
    BY Basics DEF IInv, Shape, Next_
  <2> QED
    BY <2>1, <2>2
<1>3. "blind" \in How \ {"get"} /\ {0, 1} \in SUBSET Int
  BY DEF How
<1> QED
  BY <1>1, <1>2, <1>3, FromNoneStep

LEMMA FinishActionStep ==
  ASSUME IInv, Finish
  PROVE  IInv'
BY FinishStep DEF Finish, Finishes

LEMMA NewWithChangesStep ==
  ASSUME IInv, NEW h \in Arrays, NEW cells \in SUBSET Int, NewWithChanges(h, cells)
  PROVE  IInv'
<1> DEFINE g == [buf |-> handles[h].buf, cells |-> cells, evs |-> handles[h].evs,
                 strided |-> handles[h].strided]
<1>1. g \in HandleType /\ g.buf = handles[h].buf
  BY Basics DEF IInv, HandleType
<1>2. handles' = Append(handles, g) /\ UNCHANGED <<commands, known>>
  BY DEF NewWithChanges, NewHandle
<1>3. ShowsWithList(h, g)
  BY DEF ShowsWithList, NewWithChanges
<1> HIDE DEF g
<1> QED
  BY <1>1, <1>2, <1>3, ViewStep

LEMMA AsStridedStep ==
  ASSUME IInv, AsStrided
  PROVE  IInv'
<1>1. PICK h \in Arrays :
        /\ NewHandle([buf |-> handles[h].buf, cells |-> handles[h].cells, evs |-> Len(events) + 1,
                      strided |-> TRUE])
        /\ events' = Append(events, << >>)
  BY DEF AsStrided
<1> DEFINE g == [buf |-> handles[h].buf, cells |-> handles[h].cells, evs |-> Len(events) + 1,
                 strided |-> TRUE]
<1>2. g \in HandleType /\ g.buf = handles[h].buf
  BY Basics DEF IInv, HandleType
<1>3. handles' = Append(handles, g) /\ UNCHANGED <<commands, known>>
  BY <1>1 DEF NewHandle
<1>4. ShowsStrided(g)
  BY <1>1 DEF ShowsStrided
<1> HIDE DEF g
<1> QED
  BY <1>2, <1>3, <1>4, ViewStep

-----------------------------------------------------------------------------
(* Operations whose result is one new array g with the list L, which may   *)
(* take several commands.                                                  *)
Plain(r, hs) ==
  /\ r \in CommandType /\ r.how = "plain"
  /\ \E gs \in SUBSET hs : WaitsFor(r, gs)
  /\ \A x \in r.reads : x \in CellsOf(hs) \/ x[1] \in Used' \ Used
  /\ \A x \in r.writes : x[1] \in Used' \ Used

OneResult(hs, g, L) ==
  /\ commands' \in Seq(CommandType) /\ Len(commands) <= Len(commands')
  /\ \A c \in 1 .. Len(commands) : commands'[c] = commands[c]
  /\ g \in HandleType /\ g.evs = Len(events) + 1 /\ g.buf \in Used' \ Used
  /\ handles' = Append(handles, g)
  /\ L \in Seq(Int) /\ \A i \in 1 .. Len(L) : L[i] \in NewCommands
  /\ events' = Append(events, L)
  /\ UNCHANGED known
  /\ \A c \in NewCommands :
       /\ Plain(commands'[c], hs)
       /\ \A w \in NewCommands : w < c => w \in commands'[c].after
       /\ (\E x \in commands'[c].writes : x[1] = g.buf) => \E i \in 1 .. Len(L) : L[i] = c

LEMMA OneResultStep ==
  ASSUME IInv, NEW hs \in SUBSET Arrays, NEW g, NEW L, OneResult(hs, g, L)
  PROVE  IInv'
<1>1. /\ handles' \in Seq(HandleType) /\ Len(handles') = Len(handles) + 1
      /\ handles'[Len(handles) + 1] = g /\ Len(handles) \in Nat
      /\ \A h \in Arrays : handles'[h] = handles[h]
  BY Basics, AppendProperties DEF OneResult, IInv, Shape, Arrays
<1>2. /\ events' \in Seq(Seq(Int)) /\ Len(events') = Len(events) + 1
      /\ events'[Len(events) + 1] = L /\ Len(events) \in Nat
      /\ \A l \in 1 .. Len(events) : events'[l] = events[l]
  BY Basics, AppendProperties DEF OneResult, IInv, Shape
<1>3. Grows
  <2>1. Len(handles) <= Len(handles')
    BY <1>1
  <2> QED
    BY <1>1, <2>1 DEF Grows, OneResult
<1>4. known \subseteq known' /\ known' \subseteq Int
  BY KnownKept DEF OneResult
<1>5. \A l \in 1 .. Len(events') : l > Len(events) =>
        \A i \in 1 .. Len(events'[l]) : events'[l][i] \in NewCommands
  <2>1. \A l \in 1 .. Len(events') : l > Len(events) => l = Len(events) + 1
    BY <1>2
  <2> QED
    BY <1>2, <2>1 DEF OneResult
<1>6. \A h \in NewArrays : h = Len(handles) + 1
  BY <1>1 DEF NewArrays
<1>7. \A h \in NewArrays : handles'[h] = g /\ handles'[h].evs = Len(events) + 1
  BY <1>1, <1>6 DEF OneResult
<1>8. \A h \in NewArrays : ListOf(h) = L
  BY <1>2, <1>7 DEF ListOf
<1>9. Len(events) + 1 \in 1 .. Len(events') /\ Len(events) <= Len(events')
  BY <1>2
<1>10. \A h \in NewArrays : /\ handles'[h].evs \in 1 .. Len(events')
                            /\ handles'[h].buf \in Used' \ Used
                            /\ \A f \in NewArrays : handles'[f].buf = handles'[h].buf => f = h
  BY <1>6, <1>7, <1>9 DEF OneResult
<1>11. ASSUME NEW c \in NewCommands
       PROVE  /\ commands'[c].how # "get"
              /\ \E gs \in SUBSET hs : WaitsFor(commands'[c], gs)
              /\ \A x \in commands'[c].reads : x \in CellsOf(hs) \/ x[1] \in Used' \ Used
              /\ \A x \in commands'[c].writes : x[1] \in Used' \ Used
              /\ \A w \in NewCommands : w < c => w \in commands'[c].after
  BY DEF OneResult, Plain
<1>12. ASSUME NEW c \in NewCommands, NEW h \in NewArrays,
              \E x \in commands'[c].writes : x[1] = handles'[h].buf
       PROVE  \E i \in 1 .. Len(ListOf(h)) : ListOf(h)[i] = c
  BY <1>7, <1>8, <1>12 DEF OneResult
<1>13. commands' \in Seq(CommandType)
  BY DEF OneResult
<1>14. Filling(hs)
  BY <1>1, <1>2, <1>3, <1>4, <1>5, <1>9, <1>10, <1>11, <1>12, <1>13 DEF Filling
<1> QED
  BY <1>14, FillingStep

LEMMA ReducesStep ==
  ASSUME IInv, NEW args \in SUBSET Arrays, Reduces(args)
  PROVE  IInv'
<1> DEFINE writes == {<<Next_, 0>>}
           r == [reads |-> CellsOf(args), writes |-> writes,
                 after |-> Closed(EventsOfAll(args)) \cup known, how |-> "plain"]
           g == [buf |-> Next_, cells |-> {0}, evs |-> Len(events) + 1, strided |-> FALSE]
           L == <<Next_, Next_>>
<1>1. /\ Len(commands) + 1 <= MaxCommands /\ commands' = Append(commands, r)
      /\ handles' = Append(handles, g) /\ events' = Append(events, L) /\ UNCHANGED known
  BY DEF Reduces, Enqueued, Room
<1>2. /\ Next_ \in Nat /\ Len(events) \in Nat /\ Len(commands) \in Nat
      /\ Next_ = Len(commands) + 1
  BY Basics DEF IInv, Next_
<1>3. /\ \A x \in writes : x[1] = Next_
      /\ writes \subseteq Cell
  BY <1>2 DEF Cell
<1>4. g \in HandleType /\ g.evs = Len(events) + 1 /\ g.buf = Next_
  BY <1>2 DEF HandleType
<1>5. L \in Seq(Int) /\ Len(L) = 2 /\ L[1] = Next_ /\ L[2] = Next_
  BY <1>2
<1>6. r \in CommandType
  <2>1. CellsOf(args) \subseteq Cell /\ Closed(EventsOfAll(args)) \cup known \subseteq Int
    BY CellsAndEvents DEF IInv
  <2> HIDE DEF writes
  <2> QED
    BY <1>3, <2>1 DEF CommandType, How
<1>7. r.reads = CellsOf(args) /\ r.writes = writes /\ r.how = "plain"
      /\ r.after = Closed(EventsOfAll(args)) \cup known
  OBVIOUS
<1> HIDE DEF r, g, L, writes
<1>8. /\ commands' \in Seq(CommandType) /\ Len(commands') = Len(commands) + 1
      /\ commands'[Next_] = r
      /\ \A c \in 1 .. Len(commands) : commands'[c] = commands[c]
  BY <1>1, <1>6, OneCommand DEF IInv
<1>9. NewCommands = {Next_}
  BY <1>2, <1>8 DEF NewCommands
<1>10. Next_ \in Used' \ Used
  BY <1>1, <1>2, <1>8, FreshBuffers DEF IInv
<1>11. Plain(r, args)
  <2>1. WaitsFor(r, args)
    BY <1>3, <1>7, <1>10 DEF WaitsFor
  <2> QED
    BY <1>3, <1>6, <1>7, <1>10, <2>1 DEF Plain
<1>12. \A i \in 1 .. Len(L) : L[i] = Next_
  BY <1>5
<1>13. 1 \in 1 .. Len(L) /\ L[1] = Next_
  BY <1>5
<1>14. Len(commands) <= Len(commands')
  BY <1>2, <1>8
<1>15. ASSUME NEW c \in NewCommands
       PROVE  /\ Plain(commands'[c], args)
              /\ \A w \in NewCommands : w < c => w \in commands'[c].after
              /\ \E i \in 1 .. Len(L) : L[i] = c
  BY <1>2, <1>8, <1>9, <1>11, <1>13
<1>16. OneResult(args, g, L)
  BY <1>1, <1>4, <1>5, <1>8, <1>9, <1>10, <1>12, <1>14, <1>15 DEF OneResult
<1> QED
  BY <1>16, OneResultStep

(* Enqueueing two commands, of which the second waits for the first.       *)
LEMMA TwoCommands ==
  ASSUME Shape, NEW r1 \in CommandType, NEW r2 \in CommandType, commands' = commands \o <<r1, r2>>,
         Len(commands) + 2 <= MaxCommands
  PROVE  /\ commands' \in Seq(CommandType) /\ Len(commands') = Len(commands) + 2
         /\ commands'[Next_] = r1 /\ commands'[Next_ + 1] = r2
         /\ \A c \in 1 .. Len(commands) : commands'[c] = commands[c]
         /\ NewCommands = {Next_, Next_ + 1}
         /\ Next_ \in Used' \ Used /\ Next_ + 1 \in Used' \ Used
         /\ Len(commands) <= Len(commands') /\ Next_ \in Nat
<1> DEFINE two == <<r1, r2>>
<1>1. two \in Seq(CommandType) /\ Len(two) = 2 /\ two[1] = r1 /\ two[2] = r2
  OBVIOUS
<1>2. commands \in Seq(CommandType) /\ Len(commands) \in Nat /\ commands' = commands \o two
  BY Basics DEF Shape
<1> HIDE DEF two
<1>3. /\ commands' \in Seq(CommandType) /\ Len(commands') = Len(commands) + 2
      /\ \A i \in 1 .. Len(commands) + 2 :
           commands'[i] = IF i <= Len(commands) THEN commands[i] ELSE two[i - Len(commands)]
  BY <1>1, <1>2, ConcatProperties
<1>4. /\ commands'[Next_] = r1 /\ commands'[Next_ + 1] = r2
      /\ \A c \in 1 .. Len(commands) : commands'[c] = commands[c]
  BY <1>1, <1>2, <1>3 DEF Next_
<1>5. NewCommands = {Next_, Next_ + 1}
  BY <1>2, <1>3 DEF NewCommands, Next_
<1>6. Next_ \in Used' \ Used /\ Next_ + 1 \in Used' \ Used
  BY <1>2, <1>3, ArraysAssumption DEF Used, Next_
<1> QED
  BY <1>2, <1>3, <1>4, <1>5, <1>6 DEF Next_

(* The steps of both operations of two commands.                           *)
LEMMA TwoCommandsStep ==
  ASSUME IInv, NEW hs \in SUBSET Arrays, NEW r1, NEW r2, NEW g, NEW L,
         r1 \in CommandType, r2 \in CommandType, r1.how = "plain", r2.how = "plain",
         commands' = commands \o <<r1, r2>>, Len(commands) + 2 <= MaxCommands,
         \E gs \in SUBSET hs : WaitsFor(r1, gs),
         \E gs \in SUBSET hs : WaitsFor(r2, gs),
         \A x \in r1.reads : x \in CellsOf(hs),
         \A x \in r2.reads : x \in CellsOf(hs) \/ x[1] = Next_,
         \A x \in r1.writes : x[1] = Next_,
         \A x \in r2.writes : x[1] = Next_ \/ x[1] = Next_ + 1,
         Next_ \in r2.after,
         g \in HandleType, g.evs = Len(events) + 1, g.buf = Next_ \/ g.buf = Next_ + 1,
         handles' = Append(handles, g), events' = Append(events, L), UNCHANGED known,
         L \in Seq(Int), \A i \in 1 .. Len(L) : L[i] = Next_ \/ L[i] = Next_ + 1,
         \E i \in 1 .. Len(L) : L[i] = Next_ + 1,
         g.buf = Next_ => \E i \in 1 .. Len(L) : L[i] = Next_
  PROVE  IInv'
<1>1. /\ commands' \in Seq(CommandType) /\ Len(commands') = Len(commands) + 2
      /\ commands'[Next_] = r1 /\ commands'[Next_ + 1] = r2
      /\ \A c \in 1 .. Len(commands) : commands'[c] = commands[c]
      /\ NewCommands = {Next_, Next_ + 1}
      /\ Next_ \in Used' \ Used /\ Next_ + 1 \in Used' \ Used
      /\ Len(commands) <= Len(commands') /\ Next_ \in Nat
  BY TwoCommands DEF IInv
<1>2. Plain(r1, hs) /\ Plain(r2, hs)
  BY <1>1 DEF Plain
<1>3. ASSUME NEW c \in NewCommands
      PROVE  /\ Plain(commands'[c], hs)
             /\ \A w \in NewCommands : w < c => w \in commands'[c].after
             /\ (\E x \in commands'[c].writes : x[1] = g.buf) => \E i \in 1 .. Len(L) : L[i] = c
  <2>1. CASE c = Next_
    <3>1. \A w \in NewCommands : ~(w < c)
      BY <1>1, <2>1
    <3> QED
      BY <1>1, <1>2, <2>1, <3>1
  <2>2. CASE c = Next_ + 1
    <3>1. \A w \in NewCommands : w < c => w = Next_
      BY <1>1, <2>2
    <3> QED
      BY <1>1, <1>2, <2>2, <3>1
  <2> QED
    BY <1>1, <2>1, <2>2
<1>4. \A i \in 1 .. Len(L) : L[i] \in NewCommands
  BY <1>1
<1>5. g.buf \in Used' \ Used
  BY <1>1
<1>6. OneResult(hs, g, L)
  BY <1>1, <1>3, <1>4, <1>5 DEF OneResult
<1> QED
  BY <1>6, OneResultStep

LEMMA MaxMinStep ==
  ASSUME IInv, MaxMin
  PROVE  IInv'
<1>1. PICK a \in Arrays, b \in Arrays :
  /\ Room(2, 1)
  /\ commands' = commands \o
       <<[reads |-> CellsOf({a, b}), writes |-> {Next_} \X handles[a].cells,
          after |-> Closed(EventsOfAll({a, b})) \cup known, how |-> "plain"],
         [reads |-> CellsOf({a, b}) \cup ({Next_} \X handles[a].cells),
          writes |-> {Next_ + 1} \X handles[a].cells,
          after |-> {Next_} \cup Closed(EventsOfAll({a, b})) \cup known, how |-> "plain"]>>
  /\ handles' = Append(handles, [buf |-> Next_ + 1, cells |-> handles[a].cells,
                                  evs |-> Len(events) + 1, strided |-> FALSE])
  /\ events' = Append(events, <<Next_ + 1>>)
  /\ UNCHANGED known
  BY DEF MaxMin
<1> DEFINE hs == {a, b}
           S == handles[a].cells
           waits == Closed(EventsOfAll(hs)) \cup known
           temp == {Next_} \X S
           out == {Next_ + 1} \X S
           r1 == [reads |-> CellsOf(hs), writes |-> temp, after |-> waits, how |-> "plain"]
           r2 == [reads |-> CellsOf(hs) \cup temp, writes |-> out,
                  after |-> {Next_} \cup waits, how |-> "plain"]
           g == [buf |-> Next_ + 1, cells |-> S, evs |-> Len(events) + 1, strided |-> FALSE]
           L == <<Next_ + 1>>
<1>2. /\ Len(commands) + 2 <= MaxCommands /\ commands' = commands \o <<r1, r2>>
      /\ handles' = Append(handles, g) /\ events' = Append(events, L) /\ UNCHANGED known
  <2>1. {Next_} \cup waits = {Next_} \cup Closed(EventsOfAll({a, b})) \cup known
    OBVIOUS
  <2> QED
    BY <1>1, <2>1 DEF Room
<1>3. Next_ \in Nat /\ Len(events) \in Nat /\ S \in SUBSET Int
  BY Basics, CellsAreInts DEF IInv, Next_
<1>4. /\ temp \subseteq Cell /\ out \subseteq Cell
      /\ \A x \in temp : x[1] = Next_
      /\ \A x \in out : x[1] = Next_ + 1
  BY <1>3 DEF Cell
<1>5. g \in HandleType /\ g.evs = Len(events) + 1 /\ g.buf = Next_ + 1
  BY <1>3 DEF HandleType
<1>6. /\ L \in Seq(Int) /\ \A i \in 1 .. Len(L) : L[i] = Next_ + 1
      /\ \E i \in 1 .. Len(L) : L[i] = Next_ + 1
  <2>1. L \in Seq(Int) /\ Len(L) = 1 /\ L[1] = Next_ + 1
    BY <1>3
  <2> HIDE DEF L
  <2>2. 1 \in 1 .. Len(L) /\ \A i \in 1 .. Len(L) : i = 1
    BY <2>1
  <2> QED
    BY <2>1, <2>2
<1>7. hs \in SUBSET Arrays /\ CellsOf(hs) \subseteq Cell /\ waits \subseteq Int
  BY CellsAndEvents DEF IInv
<1> HIDE DEF temp, out, hs
<1>8. r1 \in CommandType /\ r2 \in CommandType
  BY <1>3, <1>4, <1>7 DEF CommandType, How
<1>9. /\ r1.reads = CellsOf(hs) /\ r1.writes = temp /\ r1.how = "plain" /\ r1.after = waits
      /\ r2.reads = CellsOf(hs) \cup temp /\ r2.writes = out /\ r2.how = "plain"
      /\ r2.after = {Next_} \cup waits
  OBVIOUS
<1> HIDE DEF r1, r2, g, L
<1>10. Next_ \notin Used /\ Next_ + 1 \notin Used
  BY <1>2, <1>8, TwoCommands DEF IInv
<1>11. WaitsFor(r1, hs) /\ WaitsFor(r2, hs)
  BY <1>4, <1>9, <1>10 DEF WaitsFor
<1>12. /\ \A x \in r1.reads : x \in CellsOf(hs)
       /\ \A x \in r2.reads : x \in CellsOf(hs) \/ x[1] = Next_
       /\ \A x \in r1.writes : x[1] = Next_
       /\ \A x \in r2.writes : x[1] = Next_ \/ x[1] = Next_ + 1
       /\ Next_ \in r2.after
  BY <1>4, <1>9
<1>13. g.buf # Next_
  BY <1>3, <1>5
<1>14. hs \in SUBSET hs
  OBVIOUS
<1> QED
  BY <1>2, <1>5, <1>6, <1>7, <1>8, <1>9, <1>11, <1>12, <1>13, <1>14, TwoCommandsStep

LEMMA ConcatenatesStep ==
  ASSUME IInv, Concatenates
  PROVE  IInv'
<1>1. PICK a \in Arrays, b \in Arrays :
  /\ Room(2, 1)
  /\ commands' = commands \o
       <<[reads |-> Cells(a), writes |-> {<<Next_, 0>>}, how |-> "plain",
          after |-> {} \cup Closed(EventsOf(a)) \cup known],
         [reads |-> Cells(b), writes |-> {<<Next_, 1>>}, how |-> "plain",
          after |-> ({Next_} \cup Closed(EventsOf(a))) \cup Closed(EventsOf(b)) \cup known]>>
  /\ handles' = Append(handles, [buf |-> Next_, cells |-> {0, 1}, evs |-> Len(events) + 1,
                                  strided |-> FALSE])
  /\ events' = Append(events, <<Next_, Next_ + 1>>)
  /\ UNCHANGED known
  BY DEF Concatenates
<1> DEFINE after1 == {} \cup Closed(EventsOf(a)) \cup known
           after2 == ({Next_} \cup Closed(EventsOf(a))) \cup Closed(EventsOf(b)) \cup known
           first == {<<Next_, 0>>}
           second == {<<Next_, 1>>}
           r1 == [reads |-> Cells(a), writes |-> first, how |-> "plain", after |-> after1]
           r2 == [reads |-> Cells(b), writes |-> second, how |-> "plain", after |-> after2]
           g == [buf |-> Next_, cells |-> {0, 1}, evs |-> Len(events) + 1, strided |-> FALSE]
           L == <<Next_, Next_ + 1>>
<1>2. /\ Len(commands) + 2 <= MaxCommands /\ commands' = commands \o <<r1, r2>>
      /\ handles' = Append(handles, g) /\ events' = Append(events, L) /\ UNCHANGED known
  BY <1>1 DEF Room
<1>3. Next_ \in Nat /\ Len(events) \in Nat
  BY Basics DEF IInv, Next_
<1>4. /\ first \subseteq Cell /\ second \subseteq Cell
      /\ \A x \in first : x[1] = Next_
      /\ \A x \in second : x[1] = Next_
  BY <1>3 DEF Cell
<1>5. g \in HandleType /\ g.evs = Len(events) + 1 /\ g.buf = Next_
  BY <1>3 DEF HandleType
<1>6. /\ L \in Seq(Int) /\ \A i \in 1 .. Len(L) : L[i] = Next_ \/ L[i] = Next_ + 1
      /\ \E i \in 1 .. Len(L) : L[i] = Next_
      /\ \E i \in 1 .. Len(L) : L[i] = Next_ + 1
  <2>1. L \in Seq(Int) /\ Len(L) = 2 /\ L[1] = Next_ /\ L[2] = Next_ + 1
    BY <1>3
  <2> HIDE DEF L
  <2>2. 1 \in 1 .. Len(L) /\ 2 \in 1 .. Len(L) /\ \A i \in 1 .. Len(L) : i = 1 \/ i = 2
    BY <2>1
  <2> QED
    BY <2>1, <2>2
<1>7. /\ Closed(EventsOf(a)) \subseteq Int /\ Closed(EventsOf(b)) \subseteq Int /\ known \subseteq Int
  BY EventsAreCommands, ClosedDef DEF IInv, Shape
<1>8. Cells(a) \subseteq Cell /\ Cells(b) \subseteq Cell
  <2>1. {a} \in SUBSET Arrays /\ {b} \in SUBSET Arrays
    OBVIOUS
  <2>2. CellsOf({a}) \subseteq Cell /\ CellsOf({b}) \subseteq Cell
    BY <2>1, CellsAndEvents DEF IInv
  <2> QED
    BY <2>2, OneArray
<1>9. after1 \subseteq Int /\ after2 \subseteq Int
  <2>1. Next_ \in Int
    BY <1>3
  <2> QED
    BY <1>7, <2>1, Zenon
<1> HIDE DEF first, second
<1>10. Closed(EventsOf(a)) \cup known \subseteq after1 /\ Closed(EventsOf(b)) \cup known \subseteq after2
       /\ Next_ \in after2
  OBVIOUS
<1> HIDE DEF after1, after2
<1>11. r1 \in CommandType /\ r2 \in CommandType
  BY <1>4, <1>8, <1>9 DEF CommandType, How
<1>12. /\ r1.reads = Cells(a) /\ r1.writes = first /\ r1.how = "plain" /\ r1.after = after1
       /\ r2.reads = Cells(b) /\ r2.writes = second /\ r2.how = "plain" /\ r2.after = after2
  OBVIOUS
<1> HIDE DEF r1, r2, g, L
<1>13. Next_ \notin Used
  BY <1>2, <1>11, TwoCommands DEF IInv
<1> DEFINE hs == {a, b}
<1>14. /\ hs \in SUBSET Arrays /\ {a} \in SUBSET hs /\ {b} \in SUBSET hs
       /\ Cells(a) \subseteq CellsOf(hs) /\ Cells(b) \subseteq CellsOf(hs)
  BY DEF CellsOf
<1> HIDE DEF hs
<1>15. WaitsFor(r1, {a}) /\ WaitsFor(r2, {b})
  BY <1>4, <1>10, <1>12, <1>13, OneArray DEF WaitsFor
<1>16. /\ \E gs \in SUBSET hs : WaitsFor(r1, gs)
       /\ \E gs \in SUBSET hs : WaitsFor(r2, gs)
  BY <1>14, <1>15
<1>17. /\ \A x \in r1.reads : x \in CellsOf(hs)
       /\ \A x \in r2.reads : x \in CellsOf(hs) \/ x[1] = Next_
       /\ \A x \in r1.writes : x[1] = Next_
       /\ \A x \in r2.writes : x[1] = Next_ \/ x[1] = Next_ + 1
       /\ Next_ \in r2.after
  BY <1>4, <1>10, <1>12, <1>14
<1> QED
  BY <1>2, <1>5, <1>6, <1>11, <1>12, <1>14, <1>16, <1>17, TwoCommandsStep

-----------------------------------------------------------------------------
(* The actions that several operations share.                              *)
LEMMA UnaryStep == ASSUME IInv, Unary PROVE IInv'
BY ElementwiseStep DEF Unary

LEMMA BinaryStep == ASSUME IInv, Binary PROVE IInv'
BY ElementwiseStep DEF Binary

LEMMA CopyStep ==
  ASSUME IInv, Copy
  PROVE  IInv'
<1>1. PICK a \in Arrays : Fills(<<handles[a].cells>>, Cells(a), EventsOf(a), "plain") /\ UNCHANGED known
  BY DEF Copy
<1>2. handles[a].cells \in SUBSET Int /\ "plain" \in How \ {"get"}
  BY CellsAreInts DEF How
<1> QED
  BY <1>1, <1>2, FromOneStep

LEMMA ZerosStep ==
  ASSUME IInv, Zeros
  PROVE  IInv'
<1>1. PICK a \in Arrays : Fills(<<handles[a].cells>>, {}, {}, "plain") /\ UNCHANGED known
  BY DEF Zeros
<1>2. handles[a].cells \in SUBSET Int /\ "plain" \in How \ {"get"}
  BY CellsAreInts DEF How
<1>3. known \subseteq known' /\ known' \subseteq Int
  BY <1>1, KnownKept
<1> QED
  BY <1>1, <1>2, <1>3, FromNoneStep

LEMMA InPlacesStep ==
  ASSUME IInv, InPlaceBinary \/ InPlaceUnary
  PROVE  IInv'
<1>1. CASE InPlaceBinary
  <2>1. PICK h \in Arrays, b \in Arrays : InPlace(h, {b})
    BY <1>1 DEF InPlaceBinary
  <2>2. {b} \in SUBSET Arrays
    OBVIOUS
  <2> QED
    BY <2>1, <2>2, InPlaceStep
<1>2. CASE InPlaceUnary
  <2>1. PICK h \in Arrays : InPlace(h, {})
    BY <1>2 DEF InPlaceUnary
  <2>2. {} \in SUBSET Arrays
    OBVIOUS
  <2> QED
    BY <2>1, <2>2, InPlaceStep
<1> QED
  BY <1>1, <1>2

LEMMA TwoResultsStep == ASSUME IInv, TwoResults PROVE IInv'
BY Elementwise2Step DEF TwoResults

LEMMA OperatorsStep ==
  ASSUME IInv, Operators
  PROVE  IInv'
<1>1. CASE Unary \/ Binary \/ Copy \/ Zeros
  BY <1>1, UnaryStep, BinaryStep, CopyStep, ZerosStep
<1>2. CASE InPlaceBinary \/ InPlaceUnary
  BY <1>2, InPlacesStep
<1>3. CASE TwoResults
  BY <1>3, TwoResultsStep
<1>4. CASE Fill
  BY <1>4, FillActionStep
<1>5. CASE InPlaceSub
  <2>1. CASE InPlaceBinary
    BY <2>1, InPlacesStep
  <2>2. CASE \E h \in Arrays : InPlaceUnrecorded(h, {h}, "unrecorded")
    <3>1. PICK h \in Arrays : InPlaceUnrecorded(h, {h}, "unrecorded")
      BY <2>2
    <3>2. {h} \in SUBSET Arrays /\ "unrecorded" \in {"unrecorded", "user"}
      OBVIOUS
    <3> QED
      BY <3>1, <3>2, InPlaceUnrecordedStep
  <2> QED
    BY <1>5, <2>1, <2>2 DEF InPlaceSub
<1>6. CASE LessEqual
  <2>1. CASE Binary
    BY <2>1, BinaryStep
  <2>2. CASE \E a \in Arrays :
               Fills(<<handles[a].cells>>, Cells(a), EventsOf(a), "unrecorded") /\ UNCHANGED known
    <3>1. PICK a \in Arrays :
            Fills(<<handles[a].cells>>, Cells(a), EventsOf(a), "unrecorded") /\ UNCHANGED known
      BY <2>2
    <3>2. handles[a].cells \in SUBSET Int /\ "unrecorded" \in How \ {"get"}
      BY CellsAreInts DEF How
    <3> QED
      BY <3>1, <3>2, FromOneStep
  <2> QED
    BY <1>6, <2>1, <2>2 DEF LessEqual
<1>7. CASE ElementwiseKernelCall
  <2>1. PICK h \in Arrays, b \in Arrays : InPlaceUnrecorded(h, {b}, "user")
    BY <1>7 DEF ElementwiseKernelCall
  <2>2. {b} \in SUBSET Arrays /\ "user" \in {"unrecorded", "user"}
    OBVIOUS
  <2> QED
    BY <2>1, <2>2, InPlaceUnrecordedStep
<1> QED
  BY <1>1, <1>2, <1>3, <1>4, <1>5, <1>6, <1>7
  DEF Operators, AddSub, Mul, Div, Bitwise, Unaries, Pow, AsType, Comparisons, InPlaceAdd, InPlaceMul,
      InPlaceBitwise, ComplexParts, UnaryMath, BinaryMath, Bessel

LEMMA IfPositiveStep ==
  ASSUME IInv, IfPositive
  PROVE  IInv'
<1>1. PICK c \in Arrays, t \in Arrays :
        Elementwise({c, t}) \/ \E out \in Arrays : InPlace(out, {c, t})
  BY DEF IfPositive
<1>2. {c, t} \in SUBSET Arrays
  OBVIOUS
<1> QED
  BY <1>1, <1>2, ElementwiseStep, InPlaceStep

LEMMA TakeStep ==
  ASSUME IInv, Take
  PROVE  IInv'
<1>1. PICK a \in Arrays, i \in Arrays :
  \/ Fills(<<handles[i].cells>>, CellsOf({a, i}), EventsOfAll({a, i}), "plain") /\ UNCHANGED known
  \/ \E out \in Arrays : InPlace(out, {a, i})
  BY DEF Take
<1>2. {a, i} \in SUBSET Arrays /\ handles[i].cells \in SUBSET Int /\ "plain" \in How \ {"get"}
  BY CellsAreInts DEF How
<1>3. CASE Fills(<<handles[i].cells>>, CellsOf({a, i}), EventsOfAll({a, i}), "plain") /\ UNCHANGED known
  <2>1. known \subseteq known' /\ known' \subseteq Int
    BY <1>3, KnownKept
  <2> QED
    BY <1>2, <1>3, <2>1, FillsOne
<1>4. CASE \E out \in Arrays : InPlace(out, {a, i})
  BY <1>2, <1>4, InPlaceStep
<1> QED
  BY <1>1, <1>3, <1>4

LEMMA DiffStep ==
  ASSUME IInv, Diff
  PROVE  IInv'
<1>1. PICK a \in Arrays : Fills(<<{0}>>, Cells(a), EventsOf(a), "plain") /\ UNCHANGED known
  BY DEF Diff
<1>2. {0} \in SUBSET Int /\ "plain" \in How \ {"get"}
  BY DEF How
<1> QED
  BY <1>1, <1>2, FromOneStep

LEMMA ReductionsStep ==
  ASSUME IInv, AnyAll \/ Reductions_
  PROVE  IInv'
<1>1. CASE AnyAll
  <2>1. PICK a \in Arrays : Reduces({a})
    BY <1>1 DEF AnyAll
  <2>2. {a} \in SUBSET Arrays
    OBVIOUS
  <2> QED
    BY <2>1, <2>2, ReducesStep
<1>2. CASE Reductions_
  <2>1. PICK a \in Arrays, b \in Arrays : Reduces({a, b})
    BY <1>2 DEF Reductions_
  <2>2. {a, b} \in SUBSET Arrays
    OBVIOUS
  <2> QED
    BY <2>1, <2>2, ReducesStep
<1> QED
  BY <1>1, <1>2

LEMMA PutsStep ==
  ASSUME IInv, MultiPut \/ MultiTakePut
  PROVE  IInv'
<1>1. PICK out \in Arrays, a \in Arrays, i \in Arrays : PutsInto(out, {a, i})
  BY DEF MultiPut, MultiTakePut
<1>2. {a, i} \in SUBSET Arrays
  OBVIOUS
<1> QED
  BY <1>1, <1>2, PutsIntoStep

LEMMA FunctionsStep ==
  ASSUME IInv, Functions_
  PROVE  IInv'
<1>1. CASE CumSum \/ Arange \/ Copy
  BY <1>1, UnaryStep, ZerosStep, CopyStep DEF CumSum, Arange
<1>2. CASE Concatenates \/ Hstack
  BY <1>2, ConcatenatesStep DEF Hstack
<1> QED
  BY <1>1, <1>2, ReductionsStep, DiffStep, IfPositiveStep, MaxMinStep, TakeStep, PutsStep, ToDeviceStep,
     SetStep, GetStep, MapToHostStep, SetItemStep, FinishActionStep DEF Functions_

LEMMA ViewsStep ==
  ASSUME IInv, Views
  PROVE  IInv'
<1>1. \A h \in Arrays : handles[h].cells \in SUBSET Int
  BY CellsAreInts
<1>2. CASE Reshapes
  BY <1>1, <1>2, NewWithChangesStep DEF Reshapes
<1>3. CASE GetItem
  <2>1. PICK h \in Arrays : \E cells \in SUBSET handles[h].cells \ {{}} : NewWithChanges(h, cells)
    BY <1>3 DEF GetItem
  <2>2. PICK cells \in SUBSET handles[h].cells : NewWithChanges(h, cells)
    BY <2>1
  <2>3. cells \in SUBSET Int
    BY <1>1
  <2> QED
    BY <2>2, <2>3, NewWithChangesStep
<1>4. CASE AsStrided
  BY <1>4, AsStridedStep
<1> QED
  BY <1>2, <1>3, <1>4 DEF Views

LEMMA StutterStep ==
  ASSUME IInv, UNCHANGED arrayvars
  PROVE  IInv'
<1>1. handles' = handles /\ events' = events /\ commands' = commands /\ known' = known
  BY DEF arrayvars
<1>2. Arrays' = Arrays /\ Used' = Used
  BY <1>1 DEF Arrays, Used
<1>3. Shape'
  BY <1>1, <1>2 DEF IInv, Shape
<1>4. SharedLists'
  BY <1>1, <1>2 DEF IInv, SharedLists
<1>5. \A w : Recorded(w)' <=> Recorded(w)
  BY <1>1, <1>2 DEF Recorded, Strided
<1>6. ListsAreComplete'
  BY <1>1, <1>2, <1>5 DEF IInv, ListsAreComplete, Touches, Awaited, Closed, EventsOf
<1>7. InOrder'
  BY <1>1, <1>2, <1>5 DEF IInv, InOrder, Ordered, Conflict
<1> QED
  BY <1>3, <1>4, <1>6, <1>7 DEF IInv

LEMMA IInvStep == IInv /\ [ArraysNext]_arrayvars => IInv'
BY OperatorsStep, FunctionsStep, ViewsStep, StutterStep DEF ArraysNext

(* The arrays at the start: of the first, three transfers are under way.   *)
LEMMA IInvInit == ArraysInit => IInv
<1> SUFFICES ASSUME ArraysInit PROVE IInv
  OBVIOUS
<1> DEFINE fill1 == [reads |-> {}, writes |-> {1} \X {0, 1}, after |-> {}, how |-> "blind"]
           fill2 == [reads |-> {}, writes |-> {2} \X {0}, after |-> {}, how |-> "blind"]
           get == [reads |-> {1} \X {0, 1}, writes |-> {}, after |-> {1}, how |-> "get"]
           h1 == [buf |-> 1, cells |-> {0, 1}, evs |-> 1, strided |-> FALSE]
           h2 == [buf |-> 2, cells |-> {0}, evs |-> 2, strided |-> FALSE]
           l1 == <<3, 4, 5>>
           l2 == <<2>>
<1>1. /\ handles = <<h1, h2>> /\ commands = <<fill1, fill2, get, get, get>>
      /\ events = <<l1, l2>> /\ known = {1}
  BY DEF ArraysInit
<1>2. /\ fill1 \in CommandType /\ fill1.how = "blind" /\ fill1.reads = {}
      /\ \A x \in fill1.writes : x[1] = 1
      /\ fill1.writes = {1} \X {0, 1}
  BY DEF CommandType, Cell, How
<1>3. /\ fill2 \in CommandType /\ fill2.how = "blind" /\ fill2.reads = {}
      /\ \A x \in fill2.writes : x[1] = 2
  BY DEF CommandType, Cell, How
<1>4. /\ get \in CommandType /\ get.how = "get" /\ get.writes = {} /\ get.after = {1}
      /\ \A x \in get.reads : x[1] = 1
  BY DEF CommandType, Cell, How
<1>5. /\ h1 \in HandleType /\ h1.buf = 1 /\ h1.evs = 1 /\ ~h1.strided
      /\ h2 \in HandleType /\ h2.buf = 2 /\ h2.evs = 2 /\ ~h2.strided
  BY DEF HandleType
<1>6. /\ l1 \in Seq(Int) /\ Len(l1) = 3 /\ l1[1] = 3 /\ l1[2] = 4 /\ l1[3] = 5
      /\ l2 \in Seq(Int) /\ Len(l2) = 1 /\ l2[1] = 2
  OBVIOUS
<1> HIDE DEF fill1, fill2, get, h1, h2, l1, l2
<1>7. /\ handles \in Seq(HandleType) /\ Len(handles) = 2 /\ handles[1] = h1 /\ handles[2] = h2
  BY <1>1, <1>5
<1>8. /\ events \in Seq(Seq(Int)) /\ Len(events) = 2 /\ events[1] = l1 /\ events[2] = l2
  BY <1>1, <1>6
<1>9. /\ commands \in Seq(CommandType) /\ Len(commands) = 5
      /\ commands[1] = fill1 /\ commands[2] = fill2
      /\ commands[3] = get /\ commands[4] = get /\ commands[5] = get
  BY <1>1, <1>2, <1>3, <1>4
<1>10. /\ \A h : h \in Arrays <=> h = 1 \/ h = 2
       /\ \A c : c \in 1 .. Len(commands) <=> c = 1 \/ c = 2 \/ c = 3 \/ c = 4 \/ c = 5
       /\ \A l : l \in 1 .. Len(events) <=> l = 1 \/ l = 2
  BY <1>7, <1>8, <1>9 DEF Arrays
<1>11. 1 \in Used /\ 2 \in Used
  BY <1>9 DEF Used
<1>12. Shape
  <2>1. \A h \in Arrays : handles[h].evs \in 1 .. Len(events) /\ handles[h].buf \in Used
    BY <1>5, <1>7, <1>8, <1>10, <1>11
  <2>2. \A l \in 1 .. Len(events) : \A i \in 1 .. Len(events[l]) : events[l][i] \in 1 .. Len(commands)
    <3>1. \A i \in 1 .. Len(l1) : i = 1 \/ i = 2 \/ i = 3
      BY <1>6
    <3>2. \A i \in 1 .. Len(l2) : i = 1
      BY <1>6
    <3>3. \A i \in 1 .. Len(l1) : l1[i] \in 1 .. Len(commands)
      BY <1>6, <1>9, <3>1
    <3>4. \A i \in 1 .. Len(l2) : l2[i] \in 1 .. Len(commands)
      BY <1>6, <1>9, <3>2
    <3> QED
      BY <1>8, <1>10, <3>3, <3>4
  <2>3. \A c \in 1 .. Len(commands) : \A x \in commands[c].reads \cup commands[c].writes : x[1] \in Used
    BY <1>2, <1>3, <1>4, <1>9, <1>10, <1>11
  <2>4. /\ handles \in Seq(HandleType) /\ events \in Seq(Seq(Int)) /\ commands \in Seq(CommandType)
    BY <1>7, <1>8, <1>9
  <2>5. known \subseteq Int
    BY <1>1
  <2> QED
    BY <2>1, <2>2, <2>3, <2>4, <2>5 DEF Shape
<1>13. SharedLists
  BY <1>5, <1>7, <1>10 DEF SharedLists
<1>14. /\ {1, 3, 4, 5} \subseteq Awaited(1)
       /\ 2 \in Awaited(2)
  <2>1. 1 \in Arrays /\ 2 \in Arrays
    BY <1>10
  <2>2. events[handles[1].evs] = l1 /\ events[handles[2].evs] = l2
    BY <1>5, <1>7, <1>8
  <2>3. 1 \in 1 .. Len(l1) /\ 2 \in 1 .. Len(l1) /\ 3 \in 1 .. Len(l1) /\ 1 \in 1 .. Len(l2)
    BY <1>6
  <2>4. /\ \A w : w \in Awaited(1) <=> \/ w \in known
                                      \/ \E i \in 1 .. Len(l1) : w = l1[i] \/ w \in commands[l1[i]].after
        /\ \A w : w \in Awaited(2) <=> \/ w \in known
                                      \/ \E i \in 1 .. Len(l2) : w = l2[i] \/ w \in commands[l2[i]].after
    BY <1>12, <2>1, <2>2, AwaitedDef
  <2>5. l1[1] \in Awaited(1) /\ l1[2] \in Awaited(1) /\ l1[3] \in Awaited(1) /\ l2[1] \in Awaited(2)
    BY <2>3, <2>4
  <2>6. 1 \in Awaited(1)
    BY <1>1, <2>4
  <2> QED
    BY <1>6, <2>5, <2>6
<1>15. ListsAreComplete
  <2> SUFFICES ASSUME NEW h \in Arrays, NEW w \in 1 .. Len(commands), Touches(w, handles[h].buf)
               PROVE  w \in Awaited(h)
    BY DEF ListsAreComplete
  <2>1. CASE h = 1
    <3>1. w # 2
      BY <1>3, <1>5, <1>7, <1>9, <2>1 DEF Touches
    <3> QED
      BY <1>10, <1>14, <2>1, <3>1
  <2>2. CASE h = 2
    <3>1. w = 2
      BY <1>2, <1>4, <1>5, <1>7, <1>9, <1>10, <2>2 DEF Touches
    <3> QED
      BY <1>14, <2>2, <3>1
  <2> QED
    BY <1>10, <2>1, <2>2
<1>16. InOrder
  <2> SUFFICES ASSUME NEW c \in 1 .. Len(commands), NEW w \in 1 .. c - 1,
                      Conflict(w, c), commands[c].how # "blind"
               PROVE  w \in commands[c].after
    BY DEF InOrder, Ordered
  <2>1. commands[c] = get
    BY <1>2, <1>3, <1>9, <1>10
  <2>2. w \in 1 .. Len(commands)
    BY <1>9
  <2>3. w = 1
    BY <1>2, <1>3, <1>4, <1>9, <1>10, <2>1, <2>2 DEF Conflict
  <2> QED
    BY <1>4, <2>1, <2>3
<1> QED
  BY <1>12, <1>13, <1>15, <1>16 DEF IInv

-----------------------------------------------------------------------------
(* In every behaviour of the arrays, for every length at which add_event   *)
(* trims a list, lists stay complete: who waits for the events of an array *)
(* waits for every command that touches its buffer and was recorded.       *)
THEOREM ListsStayComplete == ArraysSpec => []IInv
<1> QED
  BY IInvInit, IInvStep, PTL DEF ArraysSpec

(* The device executes conflicting commands in the order of the calls.     *)
THEOREM OrderHolds == ArraysSpec => []OrderIsKept
<1>1. IInv => OrderIsKept
  <2> SUFFICES ASSUME IInv, NEW c \in DOMAIN commands, NEW w \in 1 .. c - 1, Conflict(w, c),
                      commands[w].how \notin {"unrecorded", "user"}, commands[c].how # "blind", ~Strided(w)
               PROVE  w \in commands[c].after
    BY DEF OrderIsKept
  <2>1. c \in 1 .. Len(commands)
    BY Basics DEF IInv
  <2> QED
    BY <2>1 DEF IInv, InOrder, Ordered, Recorded
<1> QED
  BY <1>1, ListsStayComplete, PTL

-----------------------------------------------------------------------------
(* Algorithms: how many of a set of numbers come before a number.          *)

LEMMA RankIsNat ==
  ASSUME NEW S, S \subseteq Nat, NEW i \in Nat
  PROVE  /\ IsFiniteSet({j \in S : j < i}) /\ Rank(S, i) \in Nat /\ Rank(S, i) <= i
         /\ Rank(S, 0) = 0
<1>1. IsFiniteSet(0 .. i - 1) /\ Cardinality(0 .. i - 1) = i
  BY FS_Interval
<1>0. \A j \in S : j \in Nat
  OBVIOUS
<1>2. {j \in S : j < i} \in SUBSET (0 .. i - 1)
  <2>1. \A j \in S : j < i => j \in 0 .. i - 1
    BY <1>0
  <2> QED
    BY <2>1
<1>3. /\ IsFiniteSet({j \in S : j < i})
      /\ Cardinality({j \in S : j < i}) <= Cardinality(0 .. i - 1)
  BY <1>1, <1>2, FS_Subset
<1>4. Cardinality({j \in S : j < i}) \in Nat
  BY <1>3, FS_CardinalityType
<1>5. {j \in S : j < 0} = {}
  <2>1. \A j \in S : ~(j < 0)
    BY <1>0
  <2> QED
    BY <2>1
<1> QED
  BY <1>1, <1>3, <1>4, <1>5, FS_EmptySet DEF Rank

LEMMA RankNext ==
  ASSUME NEW S, S \subseteq Nat, NEW i \in Nat
  PROVE  /\ i \in S => Rank(S, i + 1) = Rank(S, i) + 1
         /\ i \notin S => Rank(S, i + 1) = Rank(S, i)
<1> DEFINE T == {j \in S : j < i}
<1>0. \A j \in S : j \in Nat
  OBVIOUS
<1>1. IsFiniteSet(T) /\ i \notin T
  <2>1. IsFiniteSet(T)
    BY RankIsNat
  <2> QED
    BY <2>1
<1>2. ASSUME i \in S PROVE Rank(S, i + 1) = Rank(S, i) + 1
  <2>0. \A j \in S : j < i + 1 <=> (j < i \/ j = i)
    BY <1>0
  <2>1. {j \in S : j < i + 1} = T \cup {i}
    BY <1>2, <2>0
  <2> HIDE DEF T
  <2>2. Cardinality(T \cup {i}) = Cardinality(T) + 1
    BY <1>1, FS_AddElement
  <2> QED
    BY <2>1, <2>2 DEF Rank, T
<1>3. ASSUME i \notin S PROVE Rank(S, i + 1) = Rank(S, i)
  <2>1. \A j \in S : j < i + 1 <=> j < i
    BY <1>0, <1>3
  <2>2. {j \in S : j < i + 1} = {j \in S : j < i}
    BY <2>1
  <2> QED
    BY <2>2 DEF Rank
<1> QED
  BY <1>2, <1>3

LEMMA RankGrows ==
  ASSUME NEW S, S \subseteq Nat, NEW i \in S, NEW j \in Nat, i < j
  PROVE  Rank(S, i) < Rank(S, j)
<1>0. i \in Nat /\ i + 1 \in Nat
  OBVIOUS
<1>1. IsFiniteSet({k \in S : k < j}) /\ Rank(S, j) \in Nat /\ Rank(S, i) \in Nat
  BY <1>0, RankIsNat
<1>2. {k \in S : k < i + 1} \in SUBSET {k \in S : k < j}
  <2>1. \A k \in S : k \in Nat /\ (k < i + 1 => k < j)
    BY <1>0
  <2> QED
    BY <2>1
<1>3. Rank(S, i + 1) <= Rank(S, j)
  BY <1>1, <1>2, FS_Subset DEF Rank
<1>4. Rank(S, i + 1) = Rank(S, i) + 1
  BY <1>0, RankNext
<1> QED
  BY <1>1, <1>3, <1>4

(* Different elements have different ranks, and all ranks are below the    *)
(* number of elements.                                                     *)
LEMMA RanksDiffer ==
  ASSUME NEW S, S \subseteq Nat, NEW i \in S, NEW j \in S, i # j
  PROVE  Rank(S, i) # Rank(S, j)
<1>0. i \in Nat /\ j \in Nat
  OBVIOUS
<1>1. Rank(S, i) \in Nat /\ Rank(S, j) \in Nat
  BY <1>0, RankIsNat
<1>2. CASE i < j
  <2>1. Rank(S, i) < Rank(S, j)
    BY <1>0, <1>2, RankGrows
  <2> QED
    BY <1>1, <2>1
<1>3. CASE j < i
  <2>1. Rank(S, j) < Rank(S, i)
    BY <1>0, <1>3, RankGrows
  <2> QED
    BY <1>1, <2>1
<1> QED
  BY <1>0, <1>2, <1>3

LEMMA RankOfAll ==
  ASSUME NEW m \in Nat, NEW S, S \subseteq 0 .. m - 1
  PROVE  Rank(S, m) = Cardinality(S)
<1>1. \A j \in S : j < m
  OBVIOUS
<1>2. {j \in S : j < m} = S
  BY <1>1
<1> QED
  BY <1>2 DEF Rank

LEMMA RankComplement ==
  ASSUME NEW m \in Nat, NEW S, S \subseteq 0 .. m - 1, NEW i \in 0 .. m
  PROVE  Rank(S, i) + Rank((0 .. m - 1) \ S, i) = i
<1> DEFINE T == (0 .. m - 1) \ S
           D == {k \in 0 .. m : Rank(S, k) + Rank(T, k) = k}
<1>0. S \subseteq Nat /\ T \subseteq Nat
  OBVIOUS
<1> HIDE DEF T
<1>1. 0 \in D
  <2>1. Rank(S, 0) = 0 /\ Rank(T, 0) = 0
    BY <1>0, RankIsNat
  <2> QED
    BY <2>1
<1>2. \A k \in 1 .. m : k - 1 \in D => k \in D
  <2> SUFFICES ASSUME NEW k \in 1 .. m, k - 1 \in D PROVE Rank(S, k) + Rank(T, k) = k
    OBVIOUS
  <2>1. k - 1 \in Nat /\ (k - 1) + 1 = k
    OBVIOUS
  <2>2. Rank(S, k - 1) + Rank(T, k - 1) = k - 1 /\ Rank(S, k - 1) \in Nat /\ Rank(T, k - 1) \in Nat
    BY <1>0, <2>1, RankIsNat
  <2>3. \/ k - 1 \in S /\ k - 1 \notin T
        \/ k - 1 \notin S /\ k - 1 \in T
    BY DEF T
  <2>4. /\ k - 1 \in S => Rank(S, k) = Rank(S, k - 1) + 1
        /\ k - 1 \notin S => Rank(S, k) = Rank(S, k - 1)
    BY <1>0, <2>1, RankNext
  <2>5. /\ k - 1 \in T => Rank(T, k) = Rank(T, k - 1) + 1
        /\ k - 1 \notin T => Rank(T, k) = Rank(T, k - 1)
    BY <1>0, <2>1, RankNext
  <2> QED
    BY <2>2, <2>3, <2>4, <2>5
<1> HIDE DEF D
<1>3. i \in D
  BY <1>1, <1>2, BoundedInduction
<1> QED
  BY <1>3 DEF D, T

(* Every number below the number of elements is the rank of one.           *)
LEMMA RankOnto ==
  ASSUME NEW m \in Nat, NEW S, S \subseteq 0 .. m - 1, NEW r \in Nat, r < Cardinality(S)
  PROVE  \E i \in S : Rank(S, i) = r
<1> SUFFICES ASSUME \A i \in S : Rank(S, i) # r PROVE FALSE
  OBVIOUS
<1> DEFINE D == {k \in 0 .. m : Rank(S, k) <= r}
<1>0. S \subseteq Nat
  OBVIOUS
<1>1. 0 \in D
  <2>1. Rank(S, 0) = 0
    BY <1>0, RankIsNat
  <2> QED
    BY <2>1
<1>2. \A k \in 1 .. m : k - 1 \in D => k \in D
  <2> SUFFICES ASSUME NEW k \in 1 .. m, k - 1 \in D PROVE Rank(S, k) <= r
    OBVIOUS
  <2>1. k - 1 \in Nat /\ (k - 1) + 1 = k
    OBVIOUS
  <2>2. Rank(S, k - 1) \in Nat /\ Rank(S, k - 1) <= r
    BY <1>0, <2>1, RankIsNat
  <2>3. /\ k - 1 \in S => Rank(S, k) = Rank(S, k - 1) + 1
        /\ k - 1 \notin S => Rank(S, k) = Rank(S, k - 1)
    BY <1>0, <2>1, RankNext
  <2>4. k - 1 \in S => Rank(S, k - 1) # r
    OBVIOUS
  <2> QED
    BY <2>2, <2>3, <2>4
<1> HIDE DEF D
<1>3. \A k \in 0 .. m : k \in D
  BY <1>1, <1>2, BoundedInduction
<1>4. Rank(S, m) <= r
  BY <1>3 DEF D
<1>5. Rank(S, m) = Cardinality(S) /\ Rank(S, m) \in Nat
  BY <1>0, RankOfAll, RankIsNat
<1> QED
  BY <1>4, <1>5

LEMMA RankInInterval ==
  ASSUME NEW m \in Nat, NEW i \in 0 .. m
  PROVE  Rank(0 .. m - 1, i) = i
<1>1. {j \in 0 .. m - 1 : j < i} = 0 .. i - 1
  <2>1. \A j \in 0 .. m - 1 : j < i <=> j \in 0 .. i - 1
    OBVIOUS
  <2>2. \A j \in 0 .. i - 1 : j \in 0 .. m - 1
    OBVIOUS
  <2> QED
    BY <2>1, <2>2
<1>2. Cardinality(0 .. i - 1) = i
  BY FS_Interval
<1> QED
  BY <1>1, <1>2 DEF Rank

(* A scan with + is defined for every input.                               *)
LEMMA PrefixSums ==
  ASSUME NEW m \in Nat, NEW c, \A r \in 0 .. m - 1 : c[r] \in Nat
  PROVE  \E f : f = [i \in 0 .. m - 1 |-> c[i] + IF i = 0 THEN 0 ELSE f[i - 1]]
<1>1. CASE m = 0
  <2> DEFINE f == [i \in 0 .. m - 1 |-> 0]
  <2>1. 0 .. m - 1 = {}
    BY <1>1
  <2>2. f = [i \in 0 .. m - 1 |-> c[i] + IF i = 0 THEN 0 ELSE f[i - 1]]
    BY <2>1
  <2> QED
    BY <2>2
<1>2. CASE m # 0
  <2> DEFINE k == m - 1
             G == [x \in Nat \X Nat |-> IF x[1] + 1 <= k THEN c[x[1] + 1] + x[2] ELSE 0]
  <2>1. k \in Nat /\ c[0] \in Nat
    BY <1>2
  <2>2. \A y, z \in Nat : (IF y + 1 <= k THEN c[y + 1] + z ELSE 0) \in Nat
    BY <2>1
  <2>3. G \in [Nat \X Nat -> Nat] /\ \A y, z \in Nat : G[<<y, z>>] = IF y + 1 <= k THEN c[y + 1] + z ELSE 0
    <3>1. \A x \in Nat \X Nat : (IF x[1] + 1 <= k THEN c[x[1] + 1] + x[2] ELSE 0) \in Nat
      BY <2>2
    <3>2. \A y, z \in Nat : <<y, z>> \in Nat \X Nat /\ <<y, z>>[1] = y /\ <<y, z>>[2] = z
      OBVIOUS
    <3> QED
      BY <3>1, <3>2
  <2> HIDE DEF G
  <2>4. Iterable(Nat, c[0], G)
    BY <2>1, <2>3 DEF Iterable
  <2> HIDE DEF k
  <2>5. PICK f : IteratesTo(k, f, Nat, c[0], G)
    BY <2>1, <2>4, BoundedIteration
  <2>6. /\ f \in [0 .. k -> Nat] /\ f[0] = c[0]
        /\ \A i \in 1 .. k : f[i] = G[<<i - 1, f[i - 1]>>]
    BY <2>5 DEF IteratesTo
  <2>7. ASSUME NEW i \in 0 .. k PROVE f[i] = c[i] + IF i = 0 THEN 0 ELSE f[i - 1]
    <3>1. CASE i = 0
      BY <2>1, <2>6, <3>1
    <3>2. CASE i # 0
      <4>1. i \in 1 .. k /\ i - 1 \in Nat /\ i - 1 \in 0 .. k /\ (i - 1) + 1 = i
        BY <2>1, <3>2
      <4>2. f[i - 1] \in Nat /\ f[i] = G[<<i - 1, f[i - 1]>>]
        BY <2>6, <4>1
      <4> QED
        BY <2>1, <2>3, <3>2, <4>1, <4>2
    <3> QED
      BY <3>1, <3>2
  <2>8. f = [i \in 0 .. k |-> c[i] + IF i = 0 THEN 0 ELSE f[i - 1]]
    BY <2>6, <2>7
  <2> QED
    BY <2>8 DEF k
<1> QED
  BY <1>1, <1>2

(* A scan of flags is the rank.                                            *)
ScansFlags(f, m, S) ==
  f = [i \in 0 .. m - 1 |-> (IF i \in S THEN 1 ELSE 0) + IF i = 0 THEN 0 ELSE f[i - 1]]

LEMMA FlagsAreScanned ==
  ASSUME NEW m \in Nat, NEW S, S \subseteq Nat
  PROVE  /\ \E f : ScansFlags(f, m, S)
         /\ \A f : ScansFlags(f, m, S) => \A i \in 0 .. m - 1 : f[i] = Rank(S, i + 1)
<1>1. ASSUME NEW i \in 0 .. m - 1
      PROVE  Rank(S, i + 1) = (IF i \in S THEN 1 ELSE 0) + IF i = 0 THEN 0 ELSE Rank(S, i)
  <2>1. i \in Nat
    OBVIOUS
  <2>2. Rank(S, i) \in Nat /\ Rank(S, 0) = 0
    BY <2>1, RankIsNat
  <2>3. /\ i \in S => Rank(S, i + 1) = Rank(S, i) + 1
        /\ i \notin S => Rank(S, i + 1) = Rank(S, i)
    BY <2>1, RankNext
  <2> QED
    BY <2>2, <2>3
<1> DEFINE flag(i) == IF i \in S THEN 1 ELSE 0
<1>2. \E f : f = [i \in 0 .. m - 1 |-> flag(i) + IF i = 0 THEN 0 ELSE f[i - 1]]
  <2> DEFINE f == [i \in 0 .. m - 1 |-> Rank(S, i + 1)]
  <2>1. ASSUME NEW i \in 0 .. m - 1
        PROVE  f[i] = flag(i) + IF i = 0 THEN 0 ELSE f[i - 1]
    <3>1. CASE i = 0
      BY <1>1, <3>1
    <3>2. CASE i # 0
      <4>1. i - 1 \in 0 .. m - 1 /\ (i - 1) + 1 = i
        BY <3>2
      <4>2. f[i - 1] = Rank(S, i)
        BY <4>1
      <4> QED
        BY <1>1, <3>2, <4>2
    <3> QED
      BY <3>1, <3>2
  <2>2. f = [i \in 0 .. m - 1 |-> flag(i) + IF i = 0 THEN 0 ELSE f[i - 1]]
    BY <2>1
  <2> QED
    BY <2>2
<1>3. ASSUME NEW f, f = [i \in 0 .. m - 1 |-> flag(i) + IF i = 0 THEN 0 ELSE f[i - 1]], NEW k \in 0 .. m - 1
      PROVE  f[k] = Rank(S, k + 1)
  <2> DEFINE D == {i \in 0 .. m - 1 : f[i] = Rank(S, i + 1)}
             h == m - 1
  <2>1. h \in Nat /\ \A i \in 0 .. h : f[i] = flag(i) + IF i = 0 THEN 0 ELSE f[i - 1]
    BY <1>3
  <2> HIDE DEF flag
  <2>2. 0 \in D
    BY <1>1, <2>1 DEF flag
  <2>3. \A i \in 1 .. h : i - 1 \in D => i \in D
    <3> SUFFICES ASSUME NEW i \in 1 .. h, i - 1 \in D PROVE i \in D
      OBVIOUS
    <3>1. i \in 0 .. h /\ i # 0 /\ (i - 1) + 1 = i
      OBVIOUS
    <3>2. f[i - 1] = Rank(S, i)
      BY <3>1
    <3>3. f[i] = flag(i) + f[i - 1]
      BY <2>1, <3>1
    <3> QED
      BY <1>1, <3>1, <3>2, <3>3 DEF flag
  <2> HIDE DEF D
  <2>4. \A i \in 0 .. h : i \in D
    BY <2>1, <2>2, <2>3, BoundedInduction
  <2> QED
    BY <2>4 DEF D
<1> QED
  BY <1>2, <1>3 DEF ScansFlags

-----------------------------------------------------------------------------
(* What is in memory after some stores.                                    *)
StoresTo(stores, a) == {s \in stores : s[1] = a}

LEMMA PutElsewhere ==
  ASSUME NEW mem, NEW stores, NEW a \in DOMAIN mem, NEW y \in DOMAIN mem[a],
         \A s \in StoresTo(stores, a) : s[2] # y
  PROVE  Put(mem, stores)[a][y] = mem[a][y]
BY DEF Put, StoresTo

LEMMA PutHere ==
  ASSUME NEW mem, NEW stores, NEW a \in DOMAIN mem, NEW x, NEW v,
         \E s \in StoresTo(stores, a) : s[2] = x,
         \A s \in StoresTo(stores, a) : s[2] = x => s[3] = v
  PROVE  Put(mem, stores)[a][x] = v
<1> DEFINE new == {s \in stores : s[1] = a}
<1>1. PICK s \in new : s[2] = x
  BY DEF StoresTo
<1>2. Put(mem, stores)[a] =
        [i \in DOMAIN mem[a] \cup {t[2] : t \in new} |->
           IF \E t \in new : t[2] = i THEN (CHOOSE t \in new : t[2] = i)[3] ELSE mem[a][i]]
  BY DEF Put
<1>3. \A t \in new : t[2] = x => t[3] = v
  BY DEF StoresTo
<1> HIDE DEF new
<1>4. x \in {t[2] : t \in new}
  BY <1>1
<1>5. (CHOOSE t \in new : t[2] = x)[3] = v
  BY <1>1, <1>3
<1> QED
  BY <1>1, <1>2, <1>4, <1>5

LEMMA PutOne ==
  ASSUME NEW mem, NEW stores, NEW a \in DOMAIN mem, NEW x, NEW v, StoresTo(stores, a) = {<<a, x, v>>}
  PROVE  Put(mem, stores)[a][x] = v
<1> DEFINE t == <<a, x, v>>
<1>1. t[2] = x /\ t[3] = v
  OBVIOUS
<1>2. StoresTo(stores, a) = {t}
  OBVIOUS
<1> HIDE DEF t
<1>3. \E s \in StoresTo(stores, a) : s[2] = x
  BY <1>1, <1>2
<1>4. \A s \in StoresTo(stores, a) : s[2] = x => s[3] = v
  BY <1>1, <1>2
<1> QED
  BY <1>3, <1>4, PutHere

LEMMA PutDomains ==
  ASSUME NEW mem, NEW stores
  PROVE  /\ DOMAIN Put(mem, stores) = DOMAIN mem
         /\ \A a \in DOMAIN mem :
              DOMAIN Put(mem, stores)[a] = DOMAIN mem[a] \cup {s[2] : s \in StoresTo(stores, a)}
BY DEF Put, StoresTo

-----------------------------------------------------------------------------
(* copy_if, remove_if, partition and unique.                               *)

LEMMA PlacesAreNumbers ==
  ASSUME n \in Nat
  PROVE  /\ Yes \subseteq 0 .. n - 1 /\ No \subseteq 0 .. n - 1 /\ Yes \subseteq Nat /\ No \subseteq Nat
         /\ \A i \in 0 .. n - 1 : i \in Yes <=> i \notin No
         /\ \A i \in 0 .. n - 1 : i \in Yes <=> Selected(i)
BY DEF Yes, No

LEMMA CompactSums ==
  ASSUME n \in Nat
  PROVE  \A i \in 0 .. n - 1 : Sums(CompactInput, n)[i] = Rank(Yes, i + 1)
<1> DEFINE acc == CHOOSE f : f = [i \in 0 .. n - 1 |-> CompactInput(i) + IF i = 0 THEN 0 ELSE f[i - 1]]
<1>1. Yes \subseteq Nat /\ \A i \in 0 .. n - 1 : CompactInput(i) = IF i \in Yes THEN 1 ELSE 0
  BY PlacesAreNumbers DEF CompactInput
<1>2. \A f : ScansFlags(f, n, Yes) <=> f = [i \in 0 .. n - 1 |-> CompactInput(i) + IF i = 0 THEN 0 ELSE f[i - 1]]
  BY <1>1 DEF ScansFlags
<1>3. PICK f : ScansFlags(f, n, Yes)
  BY <1>1, FlagsAreScanned
<1>4. f = [i \in 0 .. n - 1 |-> CompactInput(i) + IF i = 0 THEN 0 ELSE f[i - 1]]
  BY <1>2, <1>3
<1>5. acc = [i \in 0 .. n - 1 |-> CompactInput(i) + IF i = 0 THEN 0 ELSE acc[i - 1]]
  BY <1>4
<1>6. Sums(CompactInput, n) = acc
  BY DEF Sums
<1> HIDE DEF acc
<1>7. ScansFlags(acc, n, Yes)
  BY <1>2, <1>5
<1>8. \A i \in 0 .. n - 1 : acc[i] = Rank(Yes, i + 1)
  BY <1>1, <1>7, FlagsAreScanned
<1> QED
  BY <1>6, <1>8

(* What the output statements of W have stored.                            *)
Stored(W) ==
  /\ n - 1 \in W => arrays["count"][0] = Cardinality(Yes)
  /\ \A i \in Yes : i \in W => arrays["out"][Rank(Yes, i)] = Ary(i)
  /\ alg.kind = "partition" => \A i \in No : i \in W => arrays["out_false"][Rank(No, i)] = Ary(i)

CompactShape ==
  /\ DOMAIN arrays = {"out", "out_false", "count"} /\ 0 \in DOMAIN arrays["count"]
  /\ 0 .. n - 1 \subseteq DOMAIN arrays["out"] /\ 0 .. n - 1 \subseteq DOMAIN arrays["out_false"]

CompactInv ==
  /\ alg \in Jobs
  /\ alg.kind \in Compacts =>
       /\ kernel \in {alg.kind, "done"} /\ CompactShape
       /\ kernel # "done" => /\ \A i \in 0 .. n - 1 : items[i] = Rank(Yes, i + 1)
                             /\ Stored(written)
       /\ kernel = "done" => Stored(0 .. n - 1)

LEMMA LengthIsNat ==
  ASSUME alg \in Jobs
  PROVE  n \in Nat
BY JobAssumption DEF n

(* Each statement stores at most once to each array, at its element's rank. *)
LEMMA CompactStores ==
  ASSUME n \in Nat, \A j \in 0 .. n - 1 : items[j] = Rank(Yes, j + 1), NEW i \in 0 .. n - 1
  PROVE  /\ StoresTo(CompactOutput(i), "out")
              = IF i \in Yes THEN {<<"out", Rank(Yes, i), Ary(i)>>} ELSE {}
         /\ StoresTo(CompactOutput(i), "out_false")
              = IF i \in No /\ alg.kind = "partition" THEN {<<"out_false", Rank(No, i), Ary(i)>>} ELSE {}
         /\ StoresTo(CompactOutput(i), "count")
              = IF i = n - 1 THEN {<<"count", 0, Cardinality(Yes)>>} ELSE {}
<1> DEFINE r == Rank(Yes, i)
<1>0. /\ Yes \subseteq 0 .. n - 1 /\ Yes \subseteq Nat /\ No \subseteq Nat
      /\ i \in Nat /\ i \in 0 .. n /\ (i \in Yes <=> i \notin No)
  BY PlacesAreNumbers
<1>1. r \in Nat /\ Rank(Yes, 0) = 0 /\ Rank(No, i) \in Nat
  BY <1>0, RankIsNat
<1>2. /\ i \in Yes => Rank(Yes, i + 1) = r + 1
      /\ i \notin Yes => Rank(Yes, i + 1) = r
  BY <1>0, RankNext
<1>3. PrevItem(i) = r
  <2>1. CASE i = 0
    BY <1>1, <2>1 DEF PrevItem
  <2>2. CASE i # 0
    <3>1. i - 1 \in 0 .. n - 1 /\ (i - 1) + 1 = i
      BY <2>2
    <3> QED
      BY <2>2, <3>1 DEF PrevItem
  <2> QED
    BY <2>1, <2>2
<1>4. r + Rank(No, i) = i
  BY <1>0, RankComplement DEF No
<1>5. i = n - 1 => items[i] = Cardinality(Yes)
  <2>1. Rank(Yes, n) = Cardinality(Yes)
    BY <1>0, RankOfAll
  <2>2. i = n - 1 => i + 1 = n
    OBVIOUS
  <2> QED
    BY <2>1, <2>2
<1> DEFINE x == items[i]
<1>6. x = Rank(Yes, i + 1)
  OBVIOUS
<1>7. /\ PrevItem(i) # x <=> i \in Yes
      /\ i \in Yes => x - 1 = r
      /\ PrevItem(i) = x <=> i \in No
      /\ i \in No => i - x = Rank(No, i)
  BY <1>0, <1>1, <1>2, <1>3, <1>4, <1>6
<1> HIDE DEF r
<1>8. CompactOutput(i) = When(i \in Yes, {<<"out", x - 1, Ary(i)>>})
                           \cup When(alg.kind = "partition" /\ i \in No, {<<"out_false", i - x, Ary(i)>>})
                           \cup When(i + 1 = n, {<<"count", 0, x>>})
  BY <1>7 DEF CompactOutput
<1>9. i + 1 = n <=> i = n - 1
  OBVIOUS
<1> HIDE DEF x
<1>10. /\ StoresTo(CompactOutput(i), "out") = IF i \in Yes THEN {<<"out", x - 1, Ary(i)>>} ELSE {}
       /\ StoresTo(CompactOutput(i), "out_false")
            = IF i \in No /\ alg.kind = "partition" THEN {<<"out_false", i - x, Ary(i)>>} ELSE {}
       /\ StoresTo(CompactOutput(i), "count") = IF i + 1 = n THEN {<<"count", 0, x>>} ELSE {}
  BY <1>8 DEF StoresTo, When
<1> QED
  BY <1>5, <1>7, <1>9, <1>10 DEF r, x

LEMMA CompactStep ==
  ASSUME CompactInv, NEW i, RunItem(i), alg.kind \in Compacts
  PROVE  CompactInv'
<1>0. /\ alg \in Jobs /\ kernel = alg.kind /\ kernel # "done" /\ CompactShape /\ Stored(written)
      /\ \A j \in 0 .. n - 1 : items[j] = Rank(Yes, j + 1)
  BY DEF CompactInv, RunItem
<1>1. /\ i \in 0 .. n - 1 /\ i \notin written /\ arrays' = Put(arrays, CompactOutput(i))
      /\ written' = written \cup {i} /\ alg' = alg /\ kernel' = kernel /\ items' = items
  <2>1. kernel \in Compacts
    BY <1>0
  <2>2. ItemCount(kernel) = n
    BY <2>1 DEF ItemCount, Compacts
  <2>3. Output(i) = CompactOutput(i)
    BY <2>1 DEF Output, Compacts
  <2> QED
    BY <2>2, <2>3 DEF RunItem
<1>2. /\ n' = n /\ Yes' = Yes /\ No' = No /\ (\A j : Ary(j)' = Ary(j)) /\ (\A S, j : Rank(S, j)' = Rank(S, j))
  BY <1>1 DEF n, Yes, No, Selected, Ary, Rank
<1>3. n \in Nat
  BY <1>0, LengthIsNat
<1> DEFINE stores == CompactOutput(i)
<1>4. /\ StoresTo(stores, "out") = IF i \in Yes THEN {<<"out", Rank(Yes, i), Ary(i)>>} ELSE {}
      /\ StoresTo(stores, "out_false")
           = IF i \in No /\ alg.kind = "partition" THEN {<<"out_false", Rank(No, i), Ary(i)>>} ELSE {}
      /\ StoresTo(stores, "count") = IF i = n - 1 THEN {<<"count", 0, Cardinality(Yes)>>} ELSE {}
  BY <1>0, <1>1, <1>3, CompactStores
<1> HIDE DEF stores
<1>5. arrays' = Put(arrays, stores)
  BY <1>1 DEF stores
<1>6. CompactShape'
  <2>1. /\ DOMAIN arrays' = DOMAIN arrays
        /\ \A a \in DOMAIN arrays : DOMAIN arrays[a] \subseteq DOMAIN arrays'[a]
    BY <1>5, PutDomains
  <2>2. {"out", "out_false", "count"} = DOMAIN arrays
    BY <1>0 DEF CompactShape
  <2> QED
    BY <1>0, <1>2, <2>1, <2>2 DEF CompactShape
<1>7. /\ "out" \in DOMAIN arrays /\ "out_false" \in DOMAIN arrays /\ "count" \in DOMAIN arrays
      /\ 0 \in DOMAIN arrays["count"]
      /\ 0 .. n - 1 \subseteq DOMAIN arrays["out"] /\ 0 .. n - 1 \subseteq DOMAIN arrays["out_false"]
  BY <1>0 DEF CompactShape
<1>put. \A a \in DOMAIN arrays : \A x, v :
         StoresTo(stores, a) = {<<a, x, v>>} => Put(arrays, stores)[a][x] = v
  BY PutOne
<1>8. /\ Yes \subseteq 0 .. n - 1 /\ No \subseteq 0 .. n - 1 /\ Yes \subseteq Nat /\ No \subseteq Nat
  BY <1>3, PlacesAreNumbers
<1>9. \A S \in {Yes, No} : \A j \in S : Rank(S, j) \in 0 .. n - 1
  <2> SUFFICES ASSUME NEW S \in {Yes, No}, NEW j \in S PROVE Rank(S, j) \in 0 .. n - 1
    OBVIOUS
  <2>1. S \subseteq Nat /\ j \in Nat /\ j <= n - 1
    BY <1>3, <1>8
  <2>2. Rank(S, j) \in Nat /\ Rank(S, j) <= j
    BY <2>1, RankIsNat
  <2> QED
    BY <1>3, <2>1, <2>2
<1>10. n - 1 \in written' => arrays'["count"][0] = Cardinality(Yes)
  <2> SUFFICES ASSUME n - 1 \in written' PROVE arrays'["count"][0] = Cardinality(Yes)
    OBVIOUS
  <2>1. CASE i = n - 1
    <3>1. StoresTo(stores, "count") = {<<"count", 0, Cardinality(Yes)>>}
      BY <1>4, <2>1
    <3>2. Put(arrays, stores)["count"][0] = Cardinality(Yes)
      BY <1>7, <1>put, <3>1, Zenon
    <3> QED
      BY <1>5, <3>2
  <2>2. CASE i # n - 1
    <3>1. n - 1 \in written
      BY <1>1, <2>2
    <3>2. arrays'["count"][0] = arrays["count"][0]
      BY <1>4, <1>5, <1>7, <2>2, PutElsewhere
    <3> QED
      BY <1>0, <3>1, <3>2 DEF Stored
  <2> QED
    BY <2>1, <2>2
<1>11. ASSUME NEW j \in Yes, j \in written' PROVE arrays'["out"][Rank(Yes, j)] = Ary(j)
  <2>1. CASE j = i
    <3>1. StoresTo(stores, "out") = {<<"out", Rank(Yes, j), Ary(j)>>}
      BY <1>4, <1>11, <2>1
    <3>2. Put(arrays, stores)["out"][Rank(Yes, j)] = Ary(j)
      BY <1>7, <1>put, <3>1, Zenon
    <3> QED
      BY <1>5, <3>2
  <2>2. CASE j # i
    <3>1. j \in written /\ Rank(Yes, j) \in DOMAIN arrays["out"]
      BY <1>1, <1>7, <1>9, <1>11, <2>2
    <3>2. i \in Yes => Rank(Yes, j) # Rank(Yes, i)
      BY <1>8, <2>2, RanksDiffer
    <3>3. arrays'["out"][Rank(Yes, j)] = arrays["out"][Rank(Yes, j)]
      BY <1>4, <1>5, <1>7, <3>1, <3>2, PutElsewhere
    <3> QED
      BY <1>0, <3>1, <3>3 DEF Stored
  <2> QED
    BY <2>1, <2>2
<1>12. ASSUME alg.kind = "partition", NEW j \in No, j \in written'
       PROVE  arrays'["out_false"][Rank(No, j)] = Ary(j)
  <2>1. CASE j = i
    <3>1. StoresTo(stores, "out_false") = {<<"out_false", Rank(No, j), Ary(j)>>}
      BY <1>4, <1>12, <2>1
    <3>2. Put(arrays, stores)["out_false"][Rank(No, j)] = Ary(j)
      BY <1>7, <1>put, <3>1, Zenon
    <3> QED
      BY <1>5, <3>2
  <2>2. CASE j # i
    <3>1. j \in written /\ Rank(No, j) \in DOMAIN arrays["out_false"]
      BY <1>1, <1>7, <1>9, <1>12, <2>2
    <3>2. i \in No => Rank(No, j) # Rank(No, i)
      BY <1>8, <2>2, RanksDiffer
    <3>3. arrays'["out_false"][Rank(No, j)] = arrays["out_false"][Rank(No, j)]
      BY <1>4, <1>5, <1>7, <3>1, <3>2, PutElsewhere
    <3> QED
      BY <1>0, <1>12, <3>1, <3>3 DEF Stored
  <2> QED
    BY <2>1, <2>2
<1>13. Stored(written)'
  <2>1. \A j \in Yes' : j \in written' => arrays'["out"][Rank(Yes, j)'] = Ary(j)'
    BY <1>2, <1>11
  <2>2. alg'.kind = "partition" => \A j \in No' : j \in written' => arrays'["out_false"][Rank(No, j)'] = Ary(j)'
    BY <1>1, <1>2, <1>12
  <2>3. n' - 1 \in written' => arrays'["count"][0] = Cardinality(Yes')
    BY <1>2, <1>10
  <2> QED
    BY <2>1, <2>2, <2>3 DEF Stored
<1>14. \A j \in 0 .. n' - 1 : items'[j] = Rank(Yes, j + 1)'
  BY <1>0, <1>1, <1>2
<1> QED
  BY <1>0, <1>1, <1>6, <1>13, <1>14 DEF CompactInv

LEMMA CompactStutters ==
  ASSUME CompactInv, alg' = alg, kernel' = kernel, written' = written, items' = items, arrays' = arrays
  PROVE  CompactInv'
BY DEF CompactInv, CompactShape, Stored, n, Yes, No, Selected, Ary, Rank

LEMMA CompactIsDone ==
  ASSUME CompactInv, alg.kind \in Compacts, CompactEnds
  PROVE  CompactInv'
<1>1. /\ kernel = alg.kind /\ kernel # "done" /\ kernel' = "done" /\ arrays' = arrays /\ alg' = alg
      /\ written = 0 .. n - 1
  BY DEF CompactEnds, Enqueue_, ItemCount, CompactInv, Compacts
<1>2. alg \in Jobs /\ CompactShape /\ Stored(written)
  BY <1>1 DEF CompactInv
<1>3. CompactShape' /\ n' = n
  BY <1>1, <1>2 DEF CompactShape, n
<1>4. Stored(0 .. n - 1)'
  BY <1>1, <1>2 DEF Stored, n, Yes, No, Selected, Ary, Rank
<1> QED
  BY <1>1, <1>2, <1>3, <1>4 DEF CompactInv

LEMMA CompactStarts ==
  ASSUME AlgInit
  PROVE  CompactInv
<1>1. alg \in Jobs /\ n \in Nat
  BY LengthIsNat DEF AlgInit
<1>2. ASSUME alg.kind \in Compacts
      PROVE  /\ kernel = alg.kind /\ kernel # "done" /\ written = {} /\ items = Sums(CompactInput, n)
             /\ arrays = [out |-> Raw(n), out_false |-> Raw(n), count |-> Raw(1)]
  BY <1>2 DEF AlgInit, Compacts
<1>3. ASSUME alg.kind \in Compacts PROVE CompactShape
  BY <1>1, <1>2, <1>3 DEF CompactShape, Raw
<1>4. ASSUME alg.kind \in Compacts PROVE Stored(written)
  BY <1>2, <1>4 DEF Stored
<1>5. ASSUME alg.kind \in Compacts PROVE \A i \in 0 .. n - 1 : items[i] = Rank(Yes, i + 1)
  BY <1>1, <1>2, <1>5, CompactSums
<1> QED
  BY <1>1, <1>2, <1>3, <1>4, <1>5 DEF CompactInv

(* Whatever the array, the predicate and the order in which the output     *)
(* statements run: copy_if, remove_if, partition and unique return the     *)
(* selected elements (and partition the others) in their order, and their  *)
(* count.                                                                  *)
THEOREM CompactionKeepsOrder == AlgSpec => []CompactKeepsOrder
<1>1. AlgInit => CompactInv
  BY CompactStarts
<1>2. CompactInv /\ [AlgNext]_algvars => CompactInv'
  <2> SUFFICES ASSUME CompactInv, [AlgNext]_algvars PROVE CompactInv'
    OBVIOUS
  <2>1. CASE UNCHANGED algvars
    BY <2>1, CompactStutters DEF algvars
  <2>2. CASE AlgNext /\ alg.kind \notin Compacts
    <3>1. alg' = alg
      BY <2>2 DEF AlgNext, RunItem, CompactEnds, NextPass, LastPass, BoundPropagation, StartsFound, CompressCounts,
                  ScanAllCounts, ScanCompressedCounts, ScanCounts, FillLists, ListsBuilt, Enqueue_
    <3> QED
      BY <2>2, <3>1 DEF CompactInv
  <2>3. CASE AlgNext /\ alg.kind \in Compacts
    <3>1. kernel \in Compacts \cup {"done"}
      BY <2>3 DEF CompactInv
    <3>2. kernel \notin {"radix", "find_starts", "bound", "count", "compress", "starts", "write"}
      BY <3>1 DEF Compacts
    <3>3. ASSUME NEW i, RunItem(i) PROVE CompactInv'
      BY <2>3, <3>3, CompactStep
    <3>4. ASSUME CompactEnds PROVE CompactInv'
      BY <2>3, <3>4, CompactIsDone
    <3>5. (\E i \in 0 .. ItemCount(kernel) - 1 : RunItem(i)) \/ CompactEnds
      BY <2>3, <3>2 DEF AlgNext, NextPass, LastPass, BoundPropagation, StartsFound, CompressCounts,
                        ScanAllCounts, ScanCompressedCounts, ScanCounts, FillLists, ListsBuilt, Enqueue_
    <3> QED
      BY <3>3, <3>4, <3>5
  <2> QED
    BY <2>1, <2>2, <2>3
<1>3. CompactInv => CompactKeepsOrder
  <2> SUFFICES ASSUME CompactInv, kernel = "done", alg.kind \in Compacts, n > 0 PROVE CompactKeepsOrder
    BY DEF CompactKeepsOrder
  <2>1. Stored(0 .. n - 1) /\ n \in Nat
    BY LengthIsNat DEF CompactInv
  <2>2. Yes \subseteq 0 .. n - 1 /\ No \subseteq 0 .. n - 1 /\ n - 1 \in 0 .. n - 1
    BY <2>1, PlacesAreNumbers
  <2> QED
    BY <2>1, <2>2 DEF CompactKeepsOrder, Stored
<1> QED
  BY <1>1, <1>2, <1>3, PTL DEF AlgSpec

-----------------------------------------------------------------------------
(* ListOfListsBuilder.  The lists that are returned, the list of an object *)
(* and their number.                                                       *)
Objects == {i \in 0 .. n - 1 : ~alg.eliminate \/ Ary(i) > 0}
At(i)   == Rank(Objects, i)
Count   == Cardinality(Objects)

LEMMA ObjectsAre ==
  ASSUME alg \in Jobs
  PROVE  /\ n \in Nat /\ Objects \subseteq 0 .. n - 1 /\ Objects \subseteq Nat /\ Count \in Nat
         /\ \A i \in 0 .. n - 1 : Ary(i) \in Nat /\ (i \notin Objects => alg.eliminate /\ Ary(i) = 0)
<1>1. n \in Nat /\ alg.ary \in Seq(Nat)
  BY JobAssumption, LengthIsNat
<1>2. \A i \in 0 .. n - 1 : Ary(i) \in Nat
  <2>1. \A i \in 0 .. n - 1 : i + 1 \in 1 .. n
    BY <1>1
  <2> QED
    BY <1>1, <2>1 DEF Ary, n
<1>3. Objects \subseteq 0 .. n - 1 /\ Objects \subseteq Nat
  BY <1>1 DEF Objects
<1>4. Count \in Nat
  <2>1. IsFiniteSet(0 .. n - 1)
    BY <1>1, FS_Interval
  <2>2. IsFiniteSet(Objects)
    BY <1>3, <2>1, FS_Subset
  <2> QED
    BY <2>2, FS_CardinalityType DEF Count
<1> QED
  BY <1>1, <1>2, <1>3, <1>4 DEF Objects

LEMMA ListsAre ==
  ASSUME alg \in Jobs
  PROVE  /\ \A i \in 0 .. n : At(i) \in 0 .. Count
         /\ \A i \in Objects : At(i) \in 0 .. Count - 1 /\ At(i + 1) = At(i) + 1 /\ At(i) <= i
         /\ \A i, j \in Objects : i # j => At(i) # At(j)
         /\ \A r \in 0 .. Count - 1 : \E i \in Objects : At(i) = r
         /\ At(0) = 0 /\ At(n) = Count /\ Count <= n
<1>0. n \in Nat /\ Objects \subseteq 0 .. n - 1 /\ Objects \subseteq Nat /\ Count \in Nat
  BY ObjectsAre
<1>1. At(n) = Count
  BY <1>0, RankOfAll DEF At, Count
<1>2. \A i \in Nat : At(i) \in Nat /\ At(i) <= i /\ At(0) = 0
  BY <1>0, RankIsNat DEF At
<1>3. ASSUME NEW i \in Objects PROVE At(i) < Count /\ At(i + 1) = At(i) + 1
  <2>1. i \in Nat /\ i < n
    BY <1>0
  <2>2. Rank(Objects, i) < Rank(Objects, n)
    BY <1>0, <2>1, RankGrows
  <2>3. Rank(Objects, i + 1) = Rank(Objects, i) + 1
    BY <1>0, <2>1, RankNext
  <2> QED
    BY <1>1, <2>2, <2>3 DEF At
<1>5. ASSUME NEW i \in 0 .. n PROVE At(i) \in 0 .. Count
  <2>1. CASE i = n
    BY <1>0, <1>1, <2>1
  <2>2. CASE i # n
    <3>1. IsFiniteSet({j \in Objects : j < n}) /\ {j \in Objects : j < i} \in SUBSET {j \in Objects : j < n}
      <4>1. \A j \in Objects : j \in Nat /\ (j < i => j < n)
        BY <1>0
      <4> QED
        BY <1>0, <4>1, RankIsNat
    <3>2. Rank(Objects, i) <= Rank(Objects, n)
      BY <3>1, FS_Subset DEF Rank
    <3> QED
      BY <1>0, <1>1, <1>2, <3>2 DEF At
  <2> QED
    BY <2>1, <2>2
<1>6. \A i, j \in Objects : i # j => At(i) # At(j)
  BY <1>0, RanksDiffer DEF At
<1>7. ASSUME NEW r \in 0 .. Count - 1 PROVE \E i \in Objects : At(i) = r
  <2>1. r \in Nat /\ r < Cardinality(Objects)
    BY <1>0 DEF Count
  <2>2. \E i \in Objects : Rank(Objects, i) = r
    BY <1>0, <2>1, RankOnto
  <2> QED
    BY <2>2 DEF At
<1>8. \A i \in Objects : At(i) \in 0 .. Count - 1 /\ At(i + 1) = At(i) + 1 /\ At(i) <= i
  BY <1>0, <1>2, <1>3
<1>9. Count <= n
  BY <1>0, <1>1, <1>2
<1> QED
  BY <1>0, <1>1, <1>2, <1>5, <1>6, <1>7, <1>8, <1>9

LEMMA AllListsAre ==
  ASSUME alg \in Jobs, ~alg.eliminate
  PROVE  Objects = 0 .. n - 1 /\ Count = n /\ \A i \in 0 .. n : At(i) = i
<1>1. n \in Nat /\ Objects = 0 .. n - 1
  BY ObjectsAre DEF Objects
<1>2. Count = n
  BY <1>1, FS_Interval DEF Count
<1> QED
  BY <1>1, <1>2, RankInInterval DEF At

LEMMA ListsFixed ==
  ASSUME alg' = alg
  PROVE  /\ n' = n /\ Objects' = Objects /\ Count' = Count
         /\ (\A i : Ary(i)' = Ary(i)) /\ (\A i : At(i)' = At(i))
BY DEF n, Objects, Count, At, Ary, Rank

(* What the kernels have stored, once the items of W are done.             *)
ListNames == {"count", "compressed_counts", "compressed_indices", "nonempty_indices", "num_nonempty_lists",
              "starts", "lists", "child"}

CountsOf(W) ==
  /\ DOMAIN arrays["count"] = 0 .. n /\ arrays["count"][n] = 0
  /\ \A i \in 0 .. n - 1 : i \in W => arrays["count"][i] = Ary(i)

TablesOf(W) ==
  /\ 0 .. n \subseteq DOMAIN arrays["compressed_indices"] /\ 0 .. n \subseteq DOMAIN arrays["nonempty_indices"]
  /\ 0 .. n \subseteq DOMAIN arrays["compressed_counts"] /\ 0 \in DOMAIN arrays["num_nonempty_lists"]
  /\ arrays["compressed_indices"][0] = 0
  /\ \A i \in 0 .. n - 1 : i \in W => arrays["compressed_indices"][i + 1] = At(i + 1)
  /\ \A i \in Objects : i \in W => /\ arrays["nonempty_indices"][At(i)] = i
                                   /\ arrays["compressed_counts"][At(i)] = Ary(i)
  /\ n \in W => arrays["num_nonempty_lists"][0] = Count

StartsOf(W) ==
  /\ DOMAIN arrays["starts"] = 0 .. Count
  /\ \A r \in 0 .. Count - 1 : r \in W => arrays["starts"][r + 1] = items[r]

SumsKnown == \A i \in Objects : items[At(i)] = Ary(i) + IF At(i) = 0 THEN 0 ELSE items[At(i) - 1]

StartsKnown ==
  /\ DOMAIN arrays["starts"] = 0 .. Count /\ arrays["starts"][0] = 0
  /\ \A i \in Objects : arrays["starts"][At(i) + 1] = Ary(i) + arrays["starts"][At(i)]

ListsOf(W) ==
  /\ DOMAIN arrays["lists"] = 0 .. arrays["starts"][Count] - 1
  /\ DOMAIN arrays["child"] = 0 .. arrays["starts"][Count] - 1
  /\ \A i \in Objects : i \in W =>
       \A e \in 0 .. Ary(i) - 1 : /\ arrays["lists"][arrays["starts"][At(i)] + e] = <<i, e>>
                                  /\ arrays["child"][arrays["starts"][At(i)] + e] = <<"child", i, e>>

ListsInv ==
  /\ alg \in Jobs
  /\ alg.kind = "lists" =>
       /\ kernel \in {"count", "compress", "starts", "write", "done"}
       /\ DOMAIN arrays = ListNames
       /\ kernel = "count" => CountsOf(written) /\ TablesOf({})
       /\ kernel = "compress" => /\ alg.eliminate /\ CountsOf(0 .. n) /\ TablesOf(written)
                                 /\ \A i \in 0 .. n : items[i] = At(i + 1)
       /\ kernel = "starts" => SumsKnown /\ StartsOf(written)
       /\ kernel \in {"write", "done"} => StartsKnown
       /\ kernel = "write" => ListsOf(written)
       /\ kernel = "done" => ListsOf(0 .. n)
       /\ kernel \notin {"count", "compress"} /\ alg.eliminate => TablesOf(0 .. n)

(* The starts rise.                                                        *)
LEMMA StartsRise ==
  ASSUME alg \in Jobs, StartsKnown
  PROVE  /\ \A r \in 0 .. Count : arrays["starts"][r] \in Nat
         /\ \A r, s \in 0 .. Count : r <= s => arrays["starts"][r] <= arrays["starts"][s]
<1> DEFINE st == arrays["starts"]
           D == {r \in 0 .. Count : st[r] \in Nat}
<1>0. Count \in Nat /\ st[0] = 0 /\ \A i \in Objects : st[At(i) + 1] = Ary(i) + st[At(i)]
  BY ObjectsAre DEF StartsKnown
<1>1. \A i \in Objects : Ary(i) \in Nat
  BY ObjectsAre
<1> HIDE DEF st
<1>2. ASSUME NEW r \in 1 .. Count PROVE \E a \in Nat : st[r] = a + st[r - 1]
  <2>1. r - 1 \in 0 .. Count - 1 /\ (r - 1) + 1 = r
    BY <1>0
  <2>2. PICK i \in Objects : At(i) = r - 1
    BY <2>1, ListsAre
  <2>3. st[At(i) + 1] = Ary(i) + st[At(i)]
    BY <1>0
  <2> QED
    BY <1>1, <2>1, <2>2, <2>3
<1>3. \A r \in 0 .. Count : r \in D
  <2>1. 0 \in D
    BY <1>0
  <2>2. \A r \in 1 .. Count : r - 1 \in D => r \in D
    BY <1>0, <1>2
  <2> HIDE DEF D
  <2> QED
    BY <1>0, <2>1, <2>2, BoundedInduction
<1>4. \A r \in 0 .. Count : st[r] \in Nat
  BY <1>3
<1>5. ASSUME NEW r \in 0 .. Count, NEW s \in 0 .. Count, r <= s PROVE st[r] <= st[s]
  <2> DEFINE E == {k \in 0 .. Count : r <= k => st[r] <= st[k]}
  <2>1. 0 \in E
    BY <1>0, <1>4
  <2>2. \A k \in 1 .. Count : k - 1 \in E => k \in E
    <3> SUFFICES ASSUME NEW k \in 1 .. Count, k - 1 \in E, r <= k PROVE st[r] <= st[k]
      OBVIOUS
    <3>1. PICK a \in Nat : st[k] = a + st[k - 1]
      BY <1>2
    <3>2. st[k - 1] \in Nat /\ st[k] \in Nat /\ st[r] \in Nat
      BY <1>0, <1>4
    <3>3. CASE r = k
      BY <3>2, <3>3
    <3>4. CASE r # k
      <4>1. r <= k - 1
        BY <3>4
      <4> QED
        BY <3>1, <3>2, <4>1
    <3> QED
      BY <3>3, <3>4
  <2> HIDE DEF E
  <2>3. \A k \in 0 .. Count : k \in E
    BY <1>0, <2>1, <2>2, BoundedInduction
  <2> QED
    BY <1>5, <2>3 DEF E
<1> QED
  BY <1>4, <1>5 DEF st

(* What a step leaves of an array.                                         *)
Same(a) == /\ DOMAIN arrays'[a] = DOMAIN arrays[a]
           /\ \A y \in DOMAIN arrays[a] : arrays'[a][y] = arrays[a][y]

LEMMA PutNothing ==
  ASSUME NEW stores, arrays' = Put(arrays, stores), NEW a \in DOMAIN arrays, StoresTo(stores, a) = {}
  PROVE  Same(a)
<1>1. DOMAIN arrays'[a] = DOMAIN arrays[a] \cup {s[2] : s \in StoresTo(stores, a)}
  BY PutDomains
<1>2. DOMAIN arrays'[a] = DOMAIN arrays[a]
  BY <1>1
<1>3. \A y \in DOMAIN arrays[a] : arrays'[a][y] = arrays[a][y]
  BY PutElsewhere
<1> QED
  BY <1>2, <1>3 DEF Same

(* One store to an array, at a place that it has.                          *)
LEMMA PutAt ==
  ASSUME NEW stores, arrays' = Put(arrays, stores), NEW a \in DOMAIN arrays, NEW x \in DOMAIN arrays[a], NEW v,
         StoresTo(stores, a) = {<<a, x, v>>}
  PROVE  /\ DOMAIN arrays'[a] = DOMAIN arrays[a] /\ arrays'[a][x] = v
         /\ \A y \in DOMAIN arrays[a] : y # x => arrays'[a][y] = arrays[a][y]
<1> DEFINE t == <<a, x, v>>
<1>1. t[2] = x /\ StoresTo(stores, a) = {t}
  OBVIOUS
<1>2. arrays'[a][x] = v
  BY PutOne
<1> HIDE DEF t
<1>3. DOMAIN arrays'[a] = DOMAIN arrays[a] \cup {s[2] : s \in StoresTo(stores, a)}
  BY PutDomains
<1>4. DOMAIN arrays'[a] = DOMAIN arrays[a]
  BY <1>1, <1>3
<1>5. \A y \in DOMAIN arrays[a] : y # x => arrays'[a][y] = arrays[a][y]
  BY <1>1, PutElsewhere
<1> QED
  BY <1>2, <1>4, <1>5

Tables == {"compressed_counts", "compressed_indices", "nonempty_indices", "num_nonempty_lists"}

LEMMA TablesKept ==
  ASSUME alg \in Jobs, alg' = alg, NEW W, TablesOf(W), \A a \in Tables : Same(a)
  PROVE  TablesOf(W)'
<1>0. /\ n' = n /\ Objects' = Objects /\ Count' = Count
      /\ (\A i : Ary(i)' = Ary(i)) /\ (\A i : At(i)' = At(i))
  BY ListsFixed
<1>1. /\ Same("compressed_counts") /\ Same("compressed_indices")
      /\ Same("nonempty_indices") /\ Same("num_nonempty_lists")
  BY DEF Tables
<1>2. n \in Nat /\ Count \in Nat /\ Count <= n /\ \A i \in Objects : At(i) \in 0 .. n
  <2>1. \A i \in Objects : At(i) \in 0 .. Count - 1
    BY ListsAre
  <2> QED
    BY <2>1, ObjectsAre, ListsAre
<1>3. 0 .. n \subseteq DOMAIN arrays["compressed_indices"] /\ 0 .. n \subseteq DOMAIN arrays["nonempty_indices"]
      /\ 0 .. n \subseteq DOMAIN arrays["compressed_counts"] /\ 0 \in DOMAIN arrays["num_nonempty_lists"]
      /\ arrays["compressed_indices"][0] = 0
  BY DEF TablesOf
<1>4. 0 .. n \subseteq DOMAIN arrays'["compressed_indices"] /\ 0 .. n \subseteq DOMAIN arrays'["nonempty_indices"]
      /\ 0 .. n \subseteq DOMAIN arrays'["compressed_counts"] /\ 0 \in DOMAIN arrays'["num_nonempty_lists"]
      /\ arrays'["compressed_indices"][0] = 0
  BY <1>1, <1>2, <1>3 DEF Same
<1>5. ASSUME NEW i \in 0 .. n - 1, i \in W PROVE arrays'["compressed_indices"][i + 1] = At(i + 1)
  <2>1. i + 1 \in 0 .. n
    BY <1>2
  <2> QED
    BY <1>1, <1>3, <1>5, <2>1 DEF Same, TablesOf
<1>6. ASSUME NEW i \in Objects, i \in W
      PROVE  arrays'["nonempty_indices"][At(i)] = i /\ arrays'["compressed_counts"][At(i)] = Ary(i)
  BY <1>1, <1>2, <1>3, <1>6 DEF Same, TablesOf
<1>7. n \in W => arrays'["num_nonempty_lists"][0] = Count
  BY <1>1, <1>3 DEF Same, TablesOf
<1> QED
  BY <1>0, <1>4, <1>5, <1>6, <1>7 DEF TablesOf

LEMMA CountsKept ==
  ASSUME alg \in Jobs, alg' = alg, NEW W, CountsOf(W), Same("count")
  PROVE  CountsOf(W)'
<1>1. n \in Nat /\ n' = n /\ \A i : Ary(i)' = Ary(i)
  BY ListsFixed, LengthIsNat
<1> QED
  BY <1>1 DEF CountsOf, Same

(* The steps of the kernel that counts.                                    *)
LEMMA CountStep ==
  ASSUME ListsInv, alg.kind = "lists", kernel = "count", NEW i, RunItem(i)
  PROVE  ListsInv'
<1>0. alg \in Jobs /\ DOMAIN arrays = ListNames /\ CountsOf(written) /\ TablesOf({}) /\ n \in Nat
  BY LengthIsNat DEF ListsInv
<1> DEFINE stores == CountLists(i)
<1>1. /\ i \in 0 .. n - 1 /\ arrays' = Put(arrays, stores)
      /\ written' = written \cup {i} /\ alg' = alg /\ kernel' = kernel /\ items' = items
  <2>1. ItemCount("count") = n
    BY DEF ItemCount, Compacts
  <2>2. Output(i) = CountLists(i)
    BY DEF Output, Compacts
  <2> QED
    BY <2>1, <2>2 DEF RunItem
<1>2. /\ StoresTo(stores, "count") = {<<"count", i, Ary(i)>>}
      /\ \A a \in Tables : StoresTo(stores, a) = {}
  BY DEF StoresTo, CountLists, Tables
<1> HIDE DEF stores
<1>3. "count" \in DOMAIN arrays /\ Tables \subseteq DOMAIN arrays /\ i \in DOMAIN arrays["count"]
  BY <1>0, <1>1 DEF ListNames, Tables, CountsOf
<1>4. \A a \in Tables : Same(a)
  BY <1>1, <1>2, <1>3, PutNothing
<1>5. TablesOf({})'
  BY <1>0, <1>1, <1>4, TablesKept
<1>6. /\ DOMAIN arrays'["count"] = DOMAIN arrays["count"] /\ arrays'["count"][i] = Ary(i)
      /\ \A y \in DOMAIN arrays["count"] : y # i => arrays'["count"][y] = arrays["count"][y]
  BY <1>1, <1>2, <1>3, PutAt
<1>7. n' = n /\ \A j : Ary(j)' = Ary(j)
  BY <1>1, ListsFixed
<1>8. CountsOf(written)'
  <2>1. DOMAIN arrays'["count"] = 0 .. n /\ arrays'["count"][n] = 0
    BY <1>0, <1>1, <1>6 DEF CountsOf
  <2>2. ASSUME NEW j \in 0 .. n - 1, j \in written' PROVE arrays'["count"][j] = Ary(j)
    BY <1>0, <1>1, <1>6, <2>2 DEF CountsOf
  <2> QED
    BY <1>7, <2>1, <2>2 DEF CountsOf
<1>9. DOMAIN arrays' = ListNames
  BY <1>0, <1>1, PutDomains
<1> QED
  BY <1>0, <1>1, <1>5, <1>8, <1>9 DEF ListsInv

(* The steps of the compression.                                           *)
LEMMA CompressStores ==
  ASSUME alg \in Jobs, CountsOf(0 .. n), alg.eliminate,
         \A j \in 0 .. n : items[j] = At(j + 1), NEW i \in 0 .. n
  PROVE  /\ StoresTo(CompressOutput(i), "compressed_indices")
              = IF i < n THEN {<<"compressed_indices", i + 1, At(i + 1)>>} ELSE {}
         /\ StoresTo(CompressOutput(i), "nonempty_indices")
              = IF i \in Objects THEN {<<"nonempty_indices", At(i), i>>} ELSE {}
         /\ StoresTo(CompressOutput(i), "compressed_counts")
              = IF i \in Objects THEN {<<"compressed_counts", At(i), Ary(i)>>} ELSE {}
         /\ StoresTo(CompressOutput(i), "num_nonempty_lists")
              = IF i = n THEN {<<"num_nonempty_lists", 0, Count>>} ELSE {}
         /\ StoresTo(CompressOutput(i), "count") = {}
<1> DEFINE r == At(i)
           x == items[i]
           c == arrays["count"][i]
<1>0. n \in Nat /\ Objects \subseteq 0 .. n - 1 /\ Objects \subseteq Nat /\ i \in Nat
  BY ObjectsAre
<1>1. r \in Nat /\ At(0) = 0 /\ At(n) = Count
  BY <1>0, RankIsNat, ListsAre DEF At
<1>2. /\ i \in Objects => At(i + 1) = r + 1
      /\ i \notin Objects => At(i + 1) = r
  BY <1>0, RankNext DEF At
<1>3. PrevItem(i) = r
  <2>1. CASE i = 0
    BY <1>1, <2>1 DEF PrevItem
  <2>2. CASE i # 0
    <3>1. i - 1 \in 0 .. n /\ (i - 1) + 1 = i
      BY <1>0, <2>2
    <3> QED
      BY <2>2, <3>1 DEF PrevItem
  <2> QED
    BY <2>1, <2>2
<1>4. x = At(i + 1)
  OBVIOUS
<1>5. i = n => x = Count
  <2>1. n \notin Objects
    BY <1>0
  <2> QED
    BY <1>1, <1>2, <1>4, <2>1
<1>6. i \in Objects => c = Ary(i)
  BY <1>0 DEF CountsOf
<1>7. /\ PrevItem(i) # x <=> i \in Objects
      /\ i \in Objects => x - 1 = r
  BY <1>1, <1>2, <1>3, <1>4
<1>8. (i + 1 < n + 1 <=> i < n) /\ (i + 1 = n + 1 <=> i = n)
  BY <1>0
<1> HIDE DEF r, x, c
<1>9. CompressOutput(i) = When(i < n, {<<"compressed_indices", i + 1, x>>})
        \cup When(i \in Objects, {<<"nonempty_indices", x - 1, i>>, <<"compressed_counts", x - 1, c>>})
        \cup When(i = n, {<<"num_nonempty_lists", 0, x>>})
  BY <1>7, <1>8 DEF CompressOutput, x, c
<1>10. /\ StoresTo(CompressOutput(i), "compressed_indices")
            = IF i < n THEN {<<"compressed_indices", i + 1, x>>} ELSE {}
       /\ StoresTo(CompressOutput(i), "num_nonempty_lists")
            = IF i = n THEN {<<"num_nonempty_lists", 0, x>>} ELSE {}
       /\ StoresTo(CompressOutput(i), "count") = {}
  BY <1>9 DEF StoresTo, When
<1>11. /\ StoresTo(CompressOutput(i), "nonempty_indices")
             = IF i \in Objects THEN {<<"nonempty_indices", x - 1, i>>} ELSE {}
       /\ StoresTo(CompressOutput(i), "compressed_counts")
             = IF i \in Objects THEN {<<"compressed_counts", x - 1, c>>} ELSE {}
  BY <1>9 DEF StoresTo, When
<1> QED
  BY <1>4, <1>5, <1>6, <1>7, <1>10, <1>11 DEF r

LEMMA CompressStep ==
  ASSUME ListsInv, alg.kind = "lists", kernel = "compress", NEW i, RunItem(i)
  PROVE  ListsInv'
<1>0. /\ alg \in Jobs /\ DOMAIN arrays = ListNames /\ alg.eliminate /\ CountsOf(0 .. n) /\ TablesOf(written)
      /\ n \in Nat /\ \A j \in 0 .. n : items[j] = At(j + 1)
  BY LengthIsNat DEF ListsInv
<1> DEFINE stores == CompressOutput(i)
<1>1. /\ i \in 0 .. n /\ arrays' = Put(arrays, stores)
      /\ written' = written \cup {i} /\ alg' = alg /\ kernel' = kernel /\ items' = items
  <2>1. ItemCount("compress") = n + 1
    BY DEF ItemCount, Compacts
  <2>2. Output(i) = CompressOutput(i)
    BY DEF Output, Compacts
  <2> QED
    BY <1>0, <2>1, <2>2 DEF RunItem
<1>2. /\ StoresTo(stores, "compressed_indices")
           = IF i < n THEN {<<"compressed_indices", i + 1, At(i + 1)>>} ELSE {}
      /\ StoresTo(stores, "nonempty_indices")
           = IF i \in Objects THEN {<<"nonempty_indices", At(i), i>>} ELSE {}
      /\ StoresTo(stores, "compressed_counts")
           = IF i \in Objects THEN {<<"compressed_counts", At(i), Ary(i)>>} ELSE {}
      /\ StoresTo(stores, "num_nonempty_lists")
           = IF i = n THEN {<<"num_nonempty_lists", 0, Count>>} ELSE {}
      /\ StoresTo(stores, "count") = {}
  BY <1>0, <1>1, CompressStores
<1> HIDE DEF stores
<1>3. /\ "count" \in DOMAIN arrays /\ "compressed_indices" \in DOMAIN arrays /\ "nonempty_indices" \in DOMAIN arrays
      /\ "compressed_counts" \in DOMAIN arrays /\ "num_nonempty_lists" \in DOMAIN arrays
  BY <1>0 DEF ListNames
<1>4. /\ 0 .. n \subseteq DOMAIN arrays["compressed_indices"] /\ 0 .. n \subseteq DOMAIN arrays["nonempty_indices"]
      /\ 0 .. n \subseteq DOMAIN arrays["compressed_counts"] /\ 0 \in DOMAIN arrays["num_nonempty_lists"]
      /\ arrays["compressed_indices"][0] = 0
  BY <1>0 DEF TablesOf
<1>5. /\ Objects \subseteq 0 .. n - 1 /\ Count \in Nat /\ Count <= n
      /\ \A j \in Objects : At(j) \in 0 .. n /\ j \in Nat
      /\ \A j, k \in Objects : j # k => At(j) # At(k)
  <2>1. \A j \in Objects : At(j) \in 0 .. Count - 1
    BY <1>0, ListsAre
  <2> QED
    BY <1>0, <2>1, ObjectsAre, ListsAre
<1>6. /\ n' = n /\ Objects' = Objects /\ Count' = Count
      /\ (\A j : Ary(j)' = Ary(j)) /\ (\A j : At(j)' = At(j))
  BY <1>1, ListsFixed
<1>7. CountsOf(0 .. n)'
  <2>1. Same("count")
    BY <1>1, <1>2, <1>3, PutNothing
  <2> QED
    BY <1>0, <1>1, <1>6, <2>1, CountsKept
<1>not. \A a \in DOMAIN arrays : StoresTo(stores, a) = {} =>
           /\ DOMAIN arrays'[a] = DOMAIN arrays[a]
           /\ \A y \in DOMAIN arrays[a] : arrays'[a][y] = arrays[a][y]
  BY <1>1, PutNothing DEF Same
<1>8. /\ DOMAIN arrays'["compressed_indices"] = DOMAIN arrays["compressed_indices"]
      /\ i < n => arrays'["compressed_indices"][i + 1] = At(i + 1)
      /\ \A y \in 0 .. n : (i < n => y # i + 1) => arrays'["compressed_indices"][y] = arrays["compressed_indices"][y]
  <2>1. CASE i < n
    <3>1. i + 1 \in DOMAIN arrays["compressed_indices"]
      BY <1>0, <1>1, <1>4, <2>1
    <3>2. StoresTo(stores, "compressed_indices") = {<<"compressed_indices", i + 1, At(i + 1)>>}
      BY <1>2, <2>1
    <3>3. /\ DOMAIN arrays'["compressed_indices"] = DOMAIN arrays["compressed_indices"]
          /\ arrays'["compressed_indices"][i + 1] = At(i + 1)
          /\ \A y \in DOMAIN arrays["compressed_indices"] :
               y # i + 1 => arrays'["compressed_indices"][y] = arrays["compressed_indices"][y]
      BY <1>1, <1>3, <3>1, <3>2, PutAt
    <3> QED
      BY <1>4, <2>1, <3>3
  <2>2. CASE ~(i < n)
    <3>1. StoresTo(stores, "compressed_indices") = {}
      BY <1>2, <2>2
    <3> QED
      BY <1>3, <1>4, <1>not, <2>2, <3>1
  <2> QED
    BY <2>1, <2>2
<1>9. /\ DOMAIN arrays'["nonempty_indices"] = DOMAIN arrays["nonempty_indices"]
      /\ i \in Objects => arrays'["nonempty_indices"][At(i)] = i
      /\ \A y \in 0 .. n : (i \in Objects => y # At(i)) => arrays'["nonempty_indices"][y] = arrays["nonempty_indices"][y]
  <2>1. CASE i \in Objects
    <3>1. At(i) \in DOMAIN arrays["nonempty_indices"]
      BY <1>4, <1>5, <2>1
    <3>2. StoresTo(stores, "nonempty_indices") = {<<"nonempty_indices", At(i), i>>}
      BY <1>2, <2>1
    <3>3. /\ DOMAIN arrays'["nonempty_indices"] = DOMAIN arrays["nonempty_indices"]
          /\ arrays'["nonempty_indices"][At(i)] = i
          /\ \A y \in DOMAIN arrays["nonempty_indices"] :
               y # At(i) => arrays'["nonempty_indices"][y] = arrays["nonempty_indices"][y]
      BY <1>1, <1>3, <3>1, <3>2, PutAt
    <3> QED
      BY <1>4, <2>1, <3>3
  <2>2. CASE i \notin Objects
    <3>1. StoresTo(stores, "nonempty_indices") = {}
      BY <1>2, <2>2
    <3> QED
      BY <1>3, <1>4, <1>not, <2>2, <3>1
  <2> QED
    BY <2>1, <2>2
<1>10. /\ DOMAIN arrays'["compressed_counts"] = DOMAIN arrays["compressed_counts"]
       /\ i \in Objects => arrays'["compressed_counts"][At(i)] = Ary(i)
       /\ \A y \in 0 .. n : (i \in Objects => y # At(i)) => arrays'["compressed_counts"][y] = arrays["compressed_counts"][y]
  <2>1. CASE i \in Objects
    <3>1. At(i) \in DOMAIN arrays["compressed_counts"]
      BY <1>4, <1>5, <2>1
    <3>2. StoresTo(stores, "compressed_counts") = {<<"compressed_counts", At(i), Ary(i)>>}
      BY <1>2, <2>1
    <3>3. /\ DOMAIN arrays'["compressed_counts"] = DOMAIN arrays["compressed_counts"]
          /\ arrays'["compressed_counts"][At(i)] = Ary(i)
          /\ \A y \in DOMAIN arrays["compressed_counts"] :
               y # At(i) => arrays'["compressed_counts"][y] = arrays["compressed_counts"][y]
      BY <1>1, <1>3, <3>1, <3>2, PutAt
    <3> QED
      BY <1>4, <2>1, <3>3
  <2>2. CASE i \notin Objects
    <3>1. StoresTo(stores, "compressed_counts") = {}
      BY <1>2, <2>2
    <3> QED
      BY <1>3, <1>4, <1>not, <2>2, <3>1
  <2> QED
    BY <2>1, <2>2
<1>11. /\ DOMAIN arrays'["num_nonempty_lists"] = DOMAIN arrays["num_nonempty_lists"]
       /\ i = n => arrays'["num_nonempty_lists"][0] = Count
       /\ i # n => arrays'["num_nonempty_lists"][0] = arrays["num_nonempty_lists"][0]
  <2>1. CASE i = n
    <3>1. StoresTo(stores, "num_nonempty_lists") = {<<"num_nonempty_lists", 0, Count>>}
      BY <1>2, <2>1
    <3>2. 0 \in DOMAIN arrays["num_nonempty_lists"]
      BY <1>4
    <3>3. /\ DOMAIN arrays'["num_nonempty_lists"] = DOMAIN arrays["num_nonempty_lists"]
          /\ arrays'["num_nonempty_lists"][0] = Count
      <4> DEFINE a == "num_nonempty_lists"
      <4>1. a \in DOMAIN arrays /\ 0 \in DOMAIN arrays[a] /\ StoresTo(stores, a) = {<<a, 0, Count>>}
        BY <1>3, <3>1, <3>2
      <4> HIDE DEF a
      <4>2. DOMAIN arrays'[a] = DOMAIN arrays[a] /\ arrays'[a][0] = Count
        BY <1>1, <4>1, PutAt
      <4> QED
        BY <4>2 DEF a
    <3> QED
      BY <2>1, <3>3
  <2>2. CASE i # n
    <3>1. StoresTo(stores, "num_nonempty_lists") = {}
      BY <1>2, <2>2
    <3> QED
      BY <1>3, <1>4, <1>not, <2>2, <3>1
  <2> QED
    BY <2>1, <2>2
<1>12. TablesOf(written)'
  <2>1. /\ 0 .. n \subseteq DOMAIN arrays'["compressed_indices"] /\ 0 .. n \subseteq DOMAIN arrays'["nonempty_indices"]
        /\ 0 .. n \subseteq DOMAIN arrays'["compressed_counts"] /\ 0 \in DOMAIN arrays'["num_nonempty_lists"]
    BY <1>4, <1>8, <1>9, <1>10, <1>11
  <2>2. arrays'["compressed_indices"][0] = 0
    <3>1. 0 \in 0 .. n /\ 0 # i + 1
      BY <1>0, <1>1
    <3> QED
      BY <1>4, <1>8, <3>1
  <2>3. ASSUME NEW j \in 0 .. n - 1, j \in written' PROVE arrays'["compressed_indices"][j + 1] = At(j + 1)
    <3>1. CASE j = i
      BY <1>0, <1>8, <3>1
    <3>2. CASE j # i
      <4>1. j \in written /\ j + 1 \in 0 .. n /\ j + 1 # i + 1
        BY <1>0, <1>1, <2>3, <3>2
      <4>2. arrays["compressed_indices"][j + 1] = At(j + 1)
        BY <1>0, <4>1 DEF TablesOf
      <4> QED
        BY <1>8, <4>1, <4>2
    <3> QED
      BY <3>1, <3>2
  <2>4. ASSUME NEW j \in Objects, j \in written'
        PROVE  arrays'["nonempty_indices"][At(j)] = j /\ arrays'["compressed_counts"][At(j)] = Ary(j)
    <3>1. CASE j = i
      BY <1>9, <1>10, <3>1
    <3>2. CASE j # i
      <4>1. j \in written /\ At(j) \in 0 .. n /\ (i \in Objects => At(j) # At(i))
        BY <1>1, <1>5, <2>4, <3>2
      <4>2. arrays["nonempty_indices"][At(j)] = j /\ arrays["compressed_counts"][At(j)] = Ary(j)
        BY <1>0, <4>1 DEF TablesOf
      <4> QED
        BY <1>9, <1>10, <4>1, <4>2
    <3> QED
      BY <3>1, <3>2
  <2>5. n \in written' => arrays'["num_nonempty_lists"][0] = Count
    BY <1>0, <1>1, <1>11 DEF TablesOf
  <2> QED
    BY <1>6, <2>1, <2>2, <2>3, <2>4, <2>5 DEF TablesOf
<1>13. DOMAIN arrays' = ListNames
  BY <1>0, <1>1, PutDomains
<1>14. \A j \in 0 .. n' : items'[j] = At(j + 1)'
  BY <1>0, <1>1, <1>6
<1> QED
  BY <1>0, <1>1, <1>7, <1>12, <1>13, <1>14 DEF ListsInv

(* The steps of the scan of the counts.                                    *)
LEMMA NumberOfLists ==
  ASSUME alg \in Jobs, alg.eliminate => TablesOf(0 .. n)
  PROVE  NumLists(arrays) = Count
<1>1. CASE alg.eliminate
  <2>1. n \in 0 .. n
    BY ObjectsAre
  <2> QED
    BY <1>1, <2>1 DEF NumLists, TablesOf
<1>2. CASE ~alg.eliminate
  BY <1>2, AllListsAre DEF NumLists
<1> QED
  BY <1>1, <1>2

LEMMA StartsStep ==
  ASSUME ListsInv, alg.kind = "lists", kernel = "starts", NEW i, RunItem(i)
  PROVE  ListsInv'
<1>0. /\ alg \in Jobs /\ DOMAIN arrays = ListNames /\ SumsKnown /\ StartsOf(written)
      /\ (alg.eliminate => TablesOf(0 .. n)) /\ Count \in Nat
  BY ObjectsAre DEF ListsInv
<1> DEFINE stores == StartsOutput(i)
<1>1. /\ i \in 0 .. Count - 1 /\ arrays' = Put(arrays, stores)
      /\ written' = written \cup {i} /\ alg' = alg /\ kernel' = kernel /\ items' = items
  <2>1. ItemCount("starts") = NumLists(arrays)
    BY DEF ItemCount, Compacts
  <2>2. NumLists(arrays) = Count
    BY <1>0, NumberOfLists
  <2>3. Output(i) = StartsOutput(i)
    BY DEF Output, Compacts
  <2> QED
    BY <2>1, <2>2, <2>3 DEF RunItem
<1> DEFINE v == items[i]
           x == i + 1
<1>2. /\ StoresTo(stores, "starts") = {<<"starts", x, v>>}
      /\ \A a \in Tables : StoresTo(stores, a) = {}
  BY DEF StoresTo, StartsOutput, Tables
<1>3. /\ "starts" \in DOMAIN arrays /\ Tables \subseteq DOMAIN arrays /\ x \in DOMAIN arrays["starts"]
      /\ DOMAIN arrays["starts"] = 0 .. Count
  BY <1>0, <1>1 DEF ListNames, Tables, StartsOf
<1> HIDE DEF stores, v, x
<1>4. \A a \in Tables : Same(a)
  BY <1>1, <1>2, <1>3, PutNothing
<1>5. /\ n' = n /\ Objects' = Objects /\ Count' = Count
      /\ (\A j : Ary(j)' = Ary(j)) /\ (\A j : At(j)' = At(j))
  BY <1>1, ListsFixed
<1>6. alg'.eliminate => TablesOf(0 .. n)'
  BY <1>0, <1>1, <1>4, <1>5, TablesKept
<1>7. /\ DOMAIN arrays'["starts"] = DOMAIN arrays["starts"] /\ arrays'["starts"][x] = v
      /\ \A y \in DOMAIN arrays["starts"] : y # x => arrays'["starts"][y] = arrays["starts"][y]
  <2> DEFINE a == "starts"
  <2>1. a \in DOMAIN arrays /\ x \in DOMAIN arrays[a] /\ StoresTo(stores, a) = {<<a, x, v>>}
    BY <1>2, <1>3
  <2> HIDE DEF a
  <2>2. /\ DOMAIN arrays'[a] = DOMAIN arrays[a] /\ arrays'[a][x] = v
        /\ \A y \in DOMAIN arrays[a] : y # x => arrays'[a][y] = arrays[a][y]
    BY <1>1, <2>1, PutAt
  <2> QED
    BY <2>2 DEF a
<1>8. StartsOf(written)'
  <2>1. ASSUME NEW r \in 0 .. Count - 1, r \in written' PROVE arrays'["starts"][r + 1] = items[r]
    <3>1. CASE r = i
      BY <1>7, <3>1 DEF v, x
    <3>2. CASE r # i
      <4>1. r \in written /\ r + 1 \in 0 .. Count /\ r + 1 # i + 1
        BY <1>0, <1>1, <2>1, <3>2
      <4> QED
        BY <1>0, <1>3, <1>7, <4>1 DEF StartsOf, x
    <3> QED
      BY <3>1, <3>2
  <2> QED
    BY <1>1, <1>3, <1>5, <1>7, <2>1 DEF StartsOf
<1>9. SumsKnown'
  BY <1>0, <1>1, <1>5 DEF SumsKnown
<1>10. DOMAIN arrays' = ListNames
  BY <1>0, <1>1, PutDomains
<1> QED
  BY <1>0, <1>1, <1>6, <1>8, <1>9, <1>10 DEF ListsInv

(* Different lists have different places, and the places are those of all  *)
(* the lists.                                                              *)
Place(i, e) == arrays["starts"][At(i)] + e

LEMMA PlacesDiffer ==
  ASSUME alg \in Jobs, StartsKnown, NEW i \in Objects, NEW e \in 0 .. Ary(i) - 1
  PROVE  /\ Place(i, e) \in 0 .. arrays["starts"][Count] - 1
         /\ \A f \in 0 .. Ary(i) - 1 : Place(i, f) = Place(i, e) => f = e
         /\ \A j \in Objects : \A f \in 0 .. Ary(j) - 1 : i # j => Place(i, e) # Place(j, f)
<1> DEFINE st == arrays["starts"]
<1>0. /\ Count \in Nat /\ \A j \in Objects : At(j) \in 0 .. Count - 1 /\ Ary(j) \in Nat
      /\ \A j, k \in Objects : j # k => At(j) # At(k)
  BY ObjectsAre, ListsAre
<1>1. /\ \A r \in 0 .. Count : st[r] \in Nat
      /\ \A r, s \in 0 .. Count : r <= s => st[r] <= st[s]
  BY StartsRise
<1>2. \A j \in Objects : st[At(j) + 1] = Ary(j) + st[At(j)]
  BY DEF StartsKnown
<1> HIDE DEF st
<1>3. \A j \in Objects : /\ st[At(j)] \in Nat /\ st[At(j) + 1] \in Nat /\ At(j) + 1 \in 0 .. Count
                         /\ st[At(j) + 1] <= st[Count]
  <2>1. \A j \in Objects : At(j) \in 0 .. Count /\ At(j) + 1 \in 0 .. Count /\ At(j) + 1 <= Count /\ Count \in 0 .. Count
    BY <1>0
  <2> QED
    BY <1>1, <2>1
<1>4. ASSUME NEW j \in Objects, NEW k \in Objects, At(j) < At(k) PROVE st[At(j) + 1] <= st[At(k)]
  <2>1. At(k) \in 0 .. Count /\ At(j) + 1 \in 0 .. Count /\ At(j) + 1 <= At(k)
    BY <1>0, <1>4
  <2> QED
    BY <1>1, <2>1
<1>5. st[At(i)] + e \in 0 .. st[Count] - 1
  <2>1. st[Count] \in Nat
    BY <1>0, <1>1
  <2> QED
    BY <1>0, <1>2, <1>3, <2>1
<1>6. \A f \in 0 .. Ary(i) - 1 : st[At(i)] + f = st[At(i)] + e => f = e
  BY <1>0, <1>3
<1>7. ASSUME NEW j \in Objects, NEW f \in 0 .. Ary(j) - 1, i # j PROVE st[At(i)] + e # st[At(j)] + f
  <2>1. At(i) \in Nat /\ At(j) \in Nat /\ At(i) # At(j) /\ Ary(i) \in Nat /\ Ary(j) \in Nat
    BY <1>0, <1>7
  <2>2. CASE At(i) < At(j)
    <3>1. st[At(i) + 1] <= st[At(j)]
      BY <1>4, <2>2
    <3> QED
      BY <1>2, <1>3, <2>1, <3>1
  <2>3. CASE At(j) < At(i)
    <3>1. st[At(j) + 1] <= st[At(i)]
      BY <1>4, <2>3
    <3> QED
      BY <1>2, <1>3, <2>1, <3>1
  <2> QED
    BY <2>1, <2>2, <2>3
<1> QED
  BY <1>5, <1>6, <1>7 DEF Place, st

(* The steps of the kernel that writes the lists.                          *)
Entry(a, i, e) == IF a = "lists" THEN <<i, e>> ELSE <<"child", i, e>>

LEMMA WriteStores ==
  ASSUME alg \in Jobs, alg.eliminate => TablesOf(0 .. n), NEW i \in 0 .. n - 1
  PROVE  /\ \A a \in {"lists", "child"} :
              StoresTo(WriteLists(i), a) = {<<a, Place(i, e), Entry(a, i, e)>> : e \in 0 .. Ary(i) - 1}
         /\ \A a \in Tables \cup {"starts"} : StoresTo(WriteLists(i), a) = {}
<1> DEFINE index == IF alg.eliminate THEN arrays["compressed_indices"][i] ELSE i
           E == 0 .. Ary(i) - 1
<1>1. index = At(i)
  <2>1. CASE ~alg.eliminate
    <3>1. n \in Nat /\ i \in 0 .. n
      BY ObjectsAre
    <3> QED
      BY <2>1, <3>1, AllListsAre
  <2>2. CASE alg.eliminate /\ i = 0
    BY <2>2, ListsAre DEF TablesOf
  <2>3. CASE alg.eliminate /\ i # 0
    <3>1. n \in Nat
      BY ObjectsAre
    <3>2. i - 1 \in 0 .. n - 1 /\ i - 1 \in 0 .. n /\ (i - 1) + 1 = i
      BY <2>3, <3>1
    <3> QED
      BY <2>3, <3>2 DEF TablesOf
  <2> QED
    BY <2>1, <2>2, <2>3
<1>2. WriteLists(i) = {<<"lists", arrays["starts"][index] + e, <<i, e>>>> : e \in E}
                        \cup {<<"child", arrays["starts"][index] + e, <<"child", i, e>>>> : e \in E}
  BY DEF WriteLists
<1> HIDE DEF index, E
<1>3. WriteLists(i) = {<<"lists", Place(i, e), Entry("lists", i, e)>> : e \in E}
                        \cup {<<"child", Place(i, e), Entry("child", i, e)>> : e \in E}
  BY <1>1, <1>2 DEF Place, Entry
<1>4. StoresTo(WriteLists(i), "lists") = {<<"lists", Place(i, e), Entry("lists", i, e)>> : e \in E}
  BY <1>3 DEF StoresTo
<1>5. StoresTo(WriteLists(i), "child") = {<<"child", Place(i, e), Entry("child", i, e)>> : e \in E}
  BY <1>3 DEF StoresTo
<1>6. \A a \in Tables \cup {"starts"} : StoresTo(WriteLists(i), a) = {}
  BY <1>3 DEF StoresTo, Tables
<1> QED
  BY <1>4, <1>5, <1>6 DEF E

(* The entries of one of the arrays.                                       *)
EntriesOf(a, W) ==
  /\ DOMAIN arrays[a] = 0 .. arrays["starts"][Count] - 1
  /\ \A i \in Objects : i \in W => \A e \in 0 .. Ary(i) - 1 : arrays[a][Place(i, e)] = Entry(a, i, e)

LEMMA ListsOfAre ==
  /\ \A W : ListsOf(W) <=> EntriesOf("lists", W) /\ EntriesOf("child", W)
  /\ \A W : ListsOf(W)' <=> EntriesOf("lists", W)' /\ EntriesOf("child", W)'
BY DEF ListsOf, EntriesOf, Entry, Place

LEMMA WriteStep ==
  ASSUME ListsInv, alg.kind = "lists", kernel = "write", NEW i, RunItem(i)
  PROVE  ListsInv'
<1>0. /\ alg \in Jobs /\ DOMAIN arrays = ListNames /\ StartsKnown /\ ListsOf(written)
      /\ (alg.eliminate => TablesOf(0 .. n)) /\ Count \in Nat
  BY ObjectsAre DEF ListsInv
<1> DEFINE stores == WriteLists(i)
<1>1. /\ i \in 0 .. n - 1 /\ arrays' = Put(arrays, stores)
      /\ written' = written \cup {i} /\ alg' = alg /\ kernel' = kernel /\ items' = items
  <2>1. ItemCount("write") = n
    BY DEF ItemCount, Compacts
  <2>2. Output(i) = WriteLists(i)
    BY DEF Output, Compacts
  <2> QED
    BY <2>1, <2>2 DEF RunItem
<1>2. /\ \A a \in {"lists", "child"} :
           StoresTo(stores, a) = {<<a, Place(i, e), Entry(a, i, e)>> : e \in 0 .. Ary(i) - 1}
      /\ \A a \in Tables \cup {"starts"} : StoresTo(stores, a) = {}
  BY <1>0, <1>1, WriteStores
<1> HIDE DEF stores
<1>3. {"lists", "child", "starts"} \cup Tables \subseteq DOMAIN arrays
  BY <1>0 DEF ListNames, Tables
<1>4. \A a \in Tables \cup {"starts"} : Same(a)
  BY <1>1, <1>2, <1>3, PutNothing
<1>5. /\ n' = n /\ Objects' = Objects /\ Count' = Count
      /\ (\A j : Ary(j)' = Ary(j)) /\ (\A j : At(j)' = At(j))
  BY <1>1, ListsFixed
<1>6. alg'.eliminate => TablesOf(0 .. n)'
  BY <1>0, <1>1, <1>4, <1>5, TablesKept
<1>7. /\ \A j \in Objects : At(j) \in 0 .. Count /\ At(j) + 1 \in 0 .. Count
      /\ DOMAIN arrays["starts"] = 0 .. Count /\ 0 \in 0 .. Count /\ Count \in 0 .. Count
  <2>1. \A j \in Objects : At(j) \in 0 .. Count - 1
    BY <1>0, ListsAre
  <2> QED
    BY <1>0, <2>1 DEF StartsKnown
<1>8. \A r \in 0 .. Count : arrays'["starts"][r] = arrays["starts"][r]
  BY <1>4, <1>7 DEF Same
<1>9. DOMAIN arrays'["starts"] = 0 .. Count
  BY <1>4, <1>7 DEF Same
<1>10. StartsKnown'
  BY <1>0, <1>5, <1>7, <1>8, <1>9 DEF StartsKnown
<1>11. \A j \in Objects : \A e : Place(j, e)' = Place(j, e)
  BY <1>5, <1>7, <1>8 DEF Place
<1>12. i \notin Objects => 0 .. Ary(i) - 1 = {}
  BY <1>0, <1>1, ObjectsAre
<1>13. ASSUME NEW a \in {"lists", "child"}, EntriesOf(a, written) PROVE EntriesOf(a, written)'
  <2>1. DOMAIN arrays[a] = 0 .. arrays["starts"][Count] - 1
    BY <1>13 DEF EntriesOf
  <2>2. DOMAIN arrays'[a] = DOMAIN arrays[a] \cup {s[2] : s \in StoresTo(stores, a)}
    BY <1>1, <1>3, PutDomains
  <2>3. ASSUME NEW s \in StoresTo(stores, a)
        PROVE  i \in Objects /\ \E e \in 0 .. Ary(i) - 1 : s[2] = Place(i, e) /\ s[3] = Entry(a, i, e)
    <3>1. PICK e \in 0 .. Ary(i) - 1 : s = <<a, Place(i, e), Entry(a, i, e)>>
      BY <1>2, <2>3
    <3>2. s[2] = Place(i, e) /\ s[3] = Entry(a, i, e)
      BY <3>1
    <3> QED
      BY <1>12, <3>2
  <2>4. \A s \in StoresTo(stores, a) : s[2] \in DOMAIN arrays[a]
    BY <1>0, <2>1, <2>3, PlacesDiffer
  <2>5. DOMAIN arrays'[a] = DOMAIN arrays[a]
    BY <2>2, <2>4
  <2>6. ASSUME NEW j \in Objects, j \in written', NEW e \in 0 .. Ary(j) - 1
        PROVE  arrays'[a][Place(j, e)] = Entry(a, j, e)
    <3> DEFINE p == Place(j, e)
               v == Entry(a, j, e)
    <3>1. CASE j = i
      <4>1. <<a, p, v>> \in StoresTo(stores, a)
        BY <1>2, <2>6, <3>1
      <4>2. \E s \in StoresTo(stores, a) : s[2] = p
        BY <4>1
      <4>3. ASSUME NEW s \in StoresTo(stores, a), s[2] = p PROVE s[3] = v
        <5>1. PICK f \in 0 .. Ary(i) - 1 : s[2] = Place(i, f) /\ s[3] = Entry(a, i, f)
          BY <2>3
        <5>2. f = e
          BY <1>0, <2>6, <3>1, <4>3, <5>1, PlacesDiffer
        <5> QED
          BY <3>1, <5>1, <5>2
      <4> HIDE DEF p, v
      <4>4. Put(arrays, stores)[a][p] = v
        BY <1>3, <4>2, <4>3, PutHere
      <4> QED
        BY <1>1, <4>4 DEF p, v
    <3>2. CASE j # i
      <4>1. p \in DOMAIN arrays[a]
        BY <1>0, <2>1, <2>6, PlacesDiffer
      <4>2. \A s \in StoresTo(stores, a) : s[2] # p
        BY <1>0, <2>3, <2>6, <3>2, PlacesDiffer
      <4>3. arrays[a][p] = v /\ j \in written
        BY <1>1, <1>13, <2>6, <3>2 DEF EntriesOf
      <4> HIDE DEF p, v
      <4>4. Put(arrays, stores)[a][p] = arrays[a][p]
        BY <1>3, <4>1, <4>2, PutElsewhere
      <4> QED
        BY <1>1, <4>3, <4>4 DEF p, v
    <3> QED
      BY <3>1, <3>2
  <2>7. DOMAIN arrays'[a] = 0 .. arrays'["starts"][Count'] - 1
    BY <1>5, <1>7, <1>8, <2>1, <2>5
  <2>8. \A j \in Objects' : j \in written' => \A e \in 0 .. Ary(j)' - 1 : arrays'[a][Place(j, e)'] = Entry(a, j, e)
    BY <1>5, <1>11, <2>6
  <2> QED
    BY <2>7, <2>8 DEF EntriesOf
<1>14. ListsOf(written)'
  <2>1. EntriesOf("lists", written) /\ EntriesOf("child", written)
    BY <1>0, ListsOfAre
  <2>2. EntriesOf("lists", written)' /\ EntriesOf("child", written)'
    BY <1>13, <2>1
  <2> QED
    BY <2>2 DEF ListsOf, EntriesOf, Entry, Place
<1>15. DOMAIN arrays' = ListNames
  BY <1>0, <1>1, PutDomains
<1> QED
  BY <1>0, <1>1, <1>6, <1>10, <1>14, <1>15 DEF ListsInv

(* From one kernel to the next.                                            *)
LEMMA CompressCountsStep ==
  ASSUME ListsInv, alg.kind = "lists", CompressCounts
  PROVE  ListsInv'
<1> DEFINE m == n + 1
           acc == CHOOSE f : f = [i \in 0 .. m - 1 |-> CompressInput(arrays, i) + IF i = 0 THEN 0 ELSE f[i - 1]]
<1>1. /\ kernel = "count" /\ alg.eliminate /\ written = 0 .. n - 1 /\ kernel' = "compress" /\ written' = {}
      /\ arrays' = arrays /\ alg' = alg /\ items' = acc
  <2>1. ItemCount("count") = n
    BY DEF ItemCount, Compacts
  <2> QED
    BY <2>1 DEF CompressCounts, Enqueue_, Sums
<1>2. /\ alg \in Jobs /\ DOMAIN arrays = ListNames /\ CountsOf(written) /\ TablesOf({})
  BY <1>1 DEF ListsInv
<1>3. /\ n \in Nat /\ m \in Nat /\ Objects \subseteq 0 .. n - 1 /\ Objects \subseteq Nat
  BY <1>2, ObjectsAre
<1>4. CountsOf(0 .. n)
  BY <1>1, <1>2 DEF CountsOf
<1>5. \A i \in 0 .. n : CompressInput(arrays, i) = IF i \in Objects THEN 1 ELSE 0
  <2> SUFFICES ASSUME NEW i \in 0 .. n PROVE CompressInput(arrays, i) = IF i \in Objects THEN 1 ELSE 0
    OBVIOUS
  <2>1. CASE i = n
    BY <1>3, <1>4, <2>1 DEF CountsOf, CompressInput
  <2>2. CASE i # n
    <3>1. i \in 0 .. n - 1 /\ i \in 0 .. n
      BY <1>3, <2>2
    <3>2. arrays["count"][i] = Ary(i) /\ Ary(i) \in Nat
      BY <1>2, <1>4, <3>1, ObjectsAre DEF CountsOf
    <3>3. i \in Objects <=> Ary(i) > 0
      BY <1>1, <3>1 DEF Objects
    <3> QED
      BY <3>2, <3>3 DEF CompressInput
  <2> QED
    BY <2>1, <2>2
<1>6. \A i \in 0 .. m - 1 : CompressInput(arrays, i) = IF i \in Objects THEN 1 ELSE 0
  BY <1>3, <1>5
<1> HIDE DEF m
<1>7. \A f : ScansFlags(f, m, Objects)
               <=> f = [i \in 0 .. m - 1 |-> CompressInput(arrays, i) + IF i = 0 THEN 0 ELSE f[i - 1]]
  BY <1>6 DEF ScansFlags
<1>8. PICK f : ScansFlags(f, m, Objects)
  BY <1>3, FlagsAreScanned
<1>9. f = [i \in 0 .. m - 1 |-> CompressInput(arrays, i) + IF i = 0 THEN 0 ELSE f[i - 1]]
  BY <1>7, <1>8
<1>10. acc = [i \in 0 .. m - 1 |-> CompressInput(arrays, i) + IF i = 0 THEN 0 ELSE acc[i - 1]]
  BY <1>9
<1> HIDE DEF acc
<1>11. ScansFlags(acc, m, Objects)
  BY <1>7, <1>10
<1>12. \A i \in 0 .. m - 1 : acc[i] = Rank(Objects, i + 1)
  BY <1>3, <1>11, FlagsAreScanned
<1>13. \A i \in 0 .. n : items'[i] = At(i + 1)
  BY <1>1, <1>3, <1>12 DEF m, At
<1>14. /\ n' = n /\ (\A i : At(i)' = At(i))
  BY <1>1, ListsFixed
<1>15. CountsOf(0 .. n)' /\ TablesOf({})'
  <2>1. /\ Objects' = Objects /\ Count' = Count /\ (\A i : Ary(i)' = Ary(i))
    BY <1>1, ListsFixed
  <2>2. CountsOf(0 .. n)'
    BY <1>1, <1>4, <1>14, <2>1 DEF CountsOf
  <2>3. TablesOf({})'
    BY <1>1, <1>2, <1>14, <2>1 DEF TablesOf
  <2> QED
    BY <2>2, <2>3
<1> QED
  BY <1>1, <1>2, <1>13, <1>14, <1>15 DEF ListsInv

(* What the scan is given: the number of entries of every list.            *)
LEMMA CountsGiven ==
  ASSUME alg \in Jobs, ~alg.eliminate => CountsOf(0 .. n - 1), alg.eliminate => TablesOf(0 .. n)
  PROVE  /\ DOMAIN StartsBefore(arrays) = 0 .. Count
         /\ \A i \in Objects : StartsBefore(arrays)[At(i)] = Ary(i)
<1>1. NumLists(arrays) = Count
  BY NumberOfLists
<1>2. n \in Nat /\ Count \in Nat /\ Objects \subseteq 0 .. n - 1 /\ \A i \in Objects : At(i) \in 0 .. Count - 1
  BY ObjectsAre, ListsAre
<1>3. CASE alg.eliminate
  <2>1. StartsBefore(arrays) = [i \in 0 .. Count |-> IF i = Count THEN 0 ELSE arrays["compressed_counts"][i]]
    BY <1>1, <1>3 DEF StartsBefore
  <2>2. \A i \in Objects : arrays["compressed_counts"][At(i)] = Ary(i)
    <3>1. \A i \in Objects : i \in 0 .. n
      BY <1>2
    <3> QED
      BY <1>3, <3>1 DEF TablesOf
  <2>3. \A i \in Objects : At(i) \in 0 .. Count /\ At(i) # Count
    BY <1>2
  <2> QED
    BY <2>1, <2>2, <2>3
<1>4. CASE ~alg.eliminate
  <2>1. Count = n /\ \A i \in 0 .. n : At(i) = i
    BY <1>4, AllListsAre
  <2>2. \A i \in Objects : i \in 0 .. n /\ i \in 0 .. n - 1
    BY <1>2
  <2> QED
    BY <1>4, <2>1, <2>2 DEF StartsBefore, CountsOf
<1> QED
  BY <1>3, <1>4

LEMMA ScanCountsStep ==
  ASSUME ListsInv, alg.kind = "lists", ScanAllCounts \/ ScanCompressedCounts
  PROVE  ListsInv'
<1> DEFINE c == StartsBefore(arrays)
           mem == [arrays EXCEPT !["starts"] = c]
           m == NumLists(arrays)
           acc == CHOOSE f : f = [i \in 0 .. m - 1 |-> mem["starts"][i] + IF i = 0 THEN 0 ELSE f[i - 1]]
<1>1. /\ kernel' = "starts" /\ written' = {} /\ arrays' = mem /\ alg' = alg /\ items' = acc
      /\ \/ ~alg.eliminate /\ kernel = "count" /\ written = 0 .. n - 1
         \/ kernel = "compress" /\ written = 0 .. (n + 1) - 1
  <2>1. ItemCount("count") = n /\ ItemCount("compress") = n + 1
    BY DEF ItemCount, Compacts
  <2>2. CASE ScanAllCounts
    BY <2>1, <2>2 DEF ScanAllCounts, ScanCounts, Enqueue_, Sums
  <2>3. CASE ScanCompressedCounts
    BY <2>1, <2>3 DEF ScanCompressedCounts, ScanCounts, Enqueue_, Sums
  <2> QED
    BY <2>2, <2>3
<1>2. /\ alg \in Jobs /\ DOMAIN arrays = ListNames
      /\ ~alg.eliminate => CountsOf(0 .. n - 1)
      /\ alg.eliminate => TablesOf(0 .. n)
  <2>1. n \in Nat /\ 0 .. (n + 1) - 1 = 0 .. n
    BY LengthIsNat DEF ListsInv
  <2> QED
    BY <1>1, <2>1 DEF ListsInv
<1>3. /\ DOMAIN c = 0 .. Count /\ \A i \in Objects : c[At(i)] = Ary(i)
  BY <1>2, CountsGiven
<1>4. m = Count /\ Count \in Nat
  BY <1>2, NumberOfLists, ObjectsAre
<1>5. mem["starts"] = c
  BY <1>2 DEF ListNames
<1>6. \A a \in Tables : mem[a] = arrays[a]
  BY <1>2 DEF ListNames, Tables
<1>7. DOMAIN mem = ListNames
  BY <1>2
<1> HIDE DEF c, mem, m
<1>8. \A r \in 0 .. m - 1 : c[r] \in Nat
  <2> SUFFICES ASSUME NEW r \in 0 .. m - 1 PROVE c[r] \in Nat
    OBVIOUS
  <2>1. PICK i \in Objects : At(i) = r
    BY <1>2, <1>4, ListsAre
  <2>2. i \in 0 .. n - 1
    BY <1>2, ObjectsAre
  <2> QED
    BY <1>2, <1>3, <2>1, <2>2, ObjectsAre
<1>9. acc = CHOOSE f : f = [i \in 0 .. m - 1 |-> c[i] + IF i = 0 THEN 0 ELSE f[i - 1]]
  BY <1>5
<1>10. \E f : f = [i \in 0 .. m - 1 |-> c[i] + IF i = 0 THEN 0 ELSE f[i - 1]]
  BY <1>4, <1>8, PrefixSums
<1> HIDE DEF acc
<1>11. acc = [i \in 0 .. m - 1 |-> c[i] + IF i = 0 THEN 0 ELSE acc[i - 1]]
  BY <1>9, <1>10
<1>12. ASSUME NEW i \in Objects PROVE acc[At(i)] = Ary(i) + IF At(i) = 0 THEN 0 ELSE acc[At(i) - 1]
  <2>1. At(i) \in 0 .. m - 1
    BY <1>2, <1>4, ListsAre
  <2>2. acc[At(i)] = c[At(i)] + IF At(i) = 0 THEN 0 ELSE acc[At(i) - 1]
    BY <1>11, <2>1
  <2> QED
    BY <1>3, <2>2
<1>13. /\ n' = n /\ Objects' = Objects /\ Count' = Count
       /\ (\A j : Ary(j)' = Ary(j)) /\ (\A j : At(j)' = At(j))
  BY <1>1, ListsFixed
<1>14. SumsKnown'
  BY <1>1, <1>12, <1>13 DEF SumsKnown
<1>15. StartsOf({})'
  BY <1>1, <1>3, <1>5, <1>13 DEF StartsOf
<1>16. alg'.eliminate => TablesOf(0 .. n)'
  <2>1. \A a \in Tables : Same(a)
    BY <1>1, <1>6 DEF Same
  <2> QED
    BY <1>1, <1>2, <1>13, <2>1, TablesKept
<1> QED
  BY <1>1, <1>2, <1>7, <1>14, <1>15, <1>16 DEF ListsInv

LEMMA FillListsStep ==
  ASSUME ListsInv, alg.kind = "lists", FillLists
  PROVE  ListsInv'
<1>1. /\ kernel = "starts" /\ written = 0 .. ItemCount("starts") - 1 /\ kernel' = "write" /\ written' = {}
      /\ arrays' = AllocateLists(arrays) /\ alg' = alg
  BY DEF FillLists, Enqueue_
<1>2. /\ alg \in Jobs /\ DOMAIN arrays = ListNames /\ SumsKnown /\ StartsOf(written)
      /\ (alg.eliminate => TablesOf(0 .. n)) /\ Count \in Nat
  BY <1>1, ObjectsAre DEF ListsInv
<1>3. ItemCount("starts") = Count /\ NumLists(arrays) = Count
  <2>1. ItemCount("starts") = NumLists(arrays)
    BY DEF ItemCount, Compacts
  <2> QED
    BY <1>2, <2>1, NumberOfLists
<1> DEFINE st == [arrays["starts"] EXCEPT ![0] = 0]
           size == st[Count]
           empty == [i \in 0 .. size - 1 |-> << >>]
<1>4. arrays' = [arrays EXCEPT !["starts"] = st, !["lists"] = empty, !["child"] = empty]
  BY <1>1, <1>3 DEF AllocateLists
<1>5. DOMAIN empty = 0 .. size - 1
  OBVIOUS
<1> HIDE DEF empty
<1>6. /\ DOMAIN arrays' = ListNames /\ arrays'["starts"] = st
      /\ arrays'["lists"] = empty /\ arrays'["child"] = empty
      /\ \A a \in Tables : arrays'[a] = arrays[a]
  <2> HIDE DEF st
  <2>1. DOMAIN arrays' = ListNames
    BY <1>2, <1>4
  <2>2. "starts" \in DOMAIN arrays /\ "lists" \in DOMAIN arrays /\ "child" \in DOMAIN arrays /\ Tables \subseteq DOMAIN arrays
    BY <1>2 DEF ListNames, Tables
  <2>3. arrays'["starts"] = st /\ arrays'["lists"] = empty /\ arrays'["child"] = empty
    BY <1>4, <2>2
  <2>4. \A a \in Tables : arrays'[a] = arrays[a]
    BY <1>4, <2>2 DEF Tables
  <2> QED
    BY <2>1, <2>3, <2>4
<1>7. /\ n' = n /\ Objects' = Objects /\ Count' = Count
      /\ (\A j : Ary(j)' = Ary(j)) /\ (\A j : At(j)' = At(j))
  BY <1>1, ListsFixed
<1>8. alg'.eliminate => TablesOf(0 .. n)'
  <2>1. \A a \in Tables : Same(a)
    BY <1>6 DEF Same
  <2> QED
    BY <1>1, <1>2, <1>7, <2>1, TablesKept
<1>9. /\ DOMAIN arrays["starts"] = 0 .. Count
      /\ \A r \in 0 .. Count - 1 : arrays["starts"][r + 1] = items[r]
  BY <1>1, <1>2, <1>3 DEF StartsOf
<1>10. /\ DOMAIN st = 0 .. Count /\ st[0] = 0
       /\ \A r \in 0 .. Count - 1 : st[r + 1] = items[r]
  <2>1. 0 \in 0 .. Count
    BY <1>2
  <2>2. \A r \in 0 .. Count - 1 : r + 1 \in 0 .. Count /\ r + 1 # 0
    BY <1>2
  <2> QED
    BY <1>9, <2>1, <2>2
<1> HIDE DEF st
<1>11. ASSUME NEW i \in Objects PROVE st[At(i) + 1] = Ary(i) + st[At(i)]
  <2>1. At(i) \in 0 .. Count - 1
    BY <1>2, ListsAre
  <2>2. st[At(i) + 1] = items[At(i)]
    BY <1>10, <2>1
  <2>3. items[At(i)] = Ary(i) + IF At(i) = 0 THEN 0 ELSE items[At(i) - 1]
    BY <1>2 DEF SumsKnown
  <2>4. At(i) # 0 => st[At(i)] = items[At(i) - 1]
    <3>1. At(i) # 0 => At(i) - 1 \in 0 .. Count - 1 /\ (At(i) - 1) + 1 = At(i)
      BY <1>2, <2>1
    <3> QED
      BY <1>10, <3>1
  <2> QED
    BY <1>10, <2>2, <2>3, <2>4
<1>12. StartsKnown'
  BY <1>6, <1>7, <1>10, <1>11 DEF StartsKnown
<1>13. ListsOf({})'
  BY <1>5, <1>6, <1>7 DEF ListsOf, size
<1> QED
  BY <1>1, <1>2, <1>6, <1>8, <1>12, <1>13 DEF ListsInv

LEMMA ListsBuiltStep ==
  ASSUME ListsInv, alg.kind = "lists", ListsBuilt
  PROVE  ListsInv'
<1>1. /\ kernel = "write" /\ written = 0 .. n - 1 /\ kernel' = "done" /\ arrays' = arrays /\ alg' = alg
  <2>1. ItemCount("write") = n
    BY DEF ItemCount, Compacts
  <2> QED
    BY <2>1 DEF ListsBuilt, Enqueue_
<1>2. /\ alg \in Jobs /\ DOMAIN arrays = ListNames /\ StartsKnown /\ ListsOf(0 .. n - 1)
      /\ (alg.eliminate => TablesOf(0 .. n))
  BY <1>1 DEF ListsInv
<1>3. /\ n' = n /\ Objects' = Objects /\ Count' = Count
      /\ (\A j : Ary(j)' = Ary(j)) /\ (\A j : At(j)' = At(j))
  BY <1>1, ListsFixed
<1>4. \A i \in Objects : i \in 0 .. n - 1
  BY <1>2, ObjectsAre
<1>5. ListsOf(0 .. n)'
  BY <1>1, <1>2, <1>3, <1>4 DEF ListsOf
<1>6. StartsKnown'
  BY <1>1, <1>2, <1>3 DEF StartsKnown
<1>7. alg'.eliminate => TablesOf(0 .. n)'
  BY <1>1, <1>2, <1>3 DEF TablesOf
<1> QED
  BY <1>1, <1>2, <1>5, <1>6, <1>7 DEF ListsInv

LEMMA ListsStart ==
  ASSUME AlgInit
  PROVE  ListsInv
<1>1. alg \in Jobs /\ n \in Nat
  BY LengthIsNat DEF AlgInit
<1>2. ASSUME alg.kind = "lists"
      PROVE  /\ kernel = "count" /\ written = {}
             /\ arrays = [count |-> [Raw(n + 1) EXCEPT ![n] = 0], compressed_counts |-> Raw(n + 1),
                          compressed_indices |-> [Raw(n + 1) EXCEPT ![0] = 0],
                          nonempty_indices |-> Raw(n + 1), num_nonempty_lists |-> Raw(1),
                          starts |-> << >>, lists |-> << >>, child |-> << >>]
  BY <1>2 DEF AlgInit, Compacts
<1>3. DOMAIN Raw(n + 1) = 0 .. n /\ DOMAIN Raw(1) = {0}
  BY <1>1 DEF Raw
<1>4. ASSUME alg.kind = "lists" PROVE CountsOf(written)
  <2>1. arrays["count"] = [Raw(n + 1) EXCEPT ![n] = 0]
    BY <1>2, <1>4
  <2>2. n \in 0 .. n
    BY <1>1
  <2> QED
    BY <1>2, <1>3, <1>4, <2>1, <2>2 DEF CountsOf
<1>5. ASSUME alg.kind = "lists" PROVE TablesOf({})
  <2>1. /\ arrays["compressed_indices"] = [Raw(n + 1) EXCEPT ![0] = 0]
        /\ arrays["nonempty_indices"] = Raw(n + 1) /\ arrays["compressed_counts"] = Raw(n + 1)
        /\ arrays["num_nonempty_lists"] = Raw(1)
    BY <1>2, <1>5
  <2>2. 0 \in 0 .. n
    BY <1>1
  <2> QED
    BY <1>3, <2>1, <2>2 DEF TablesOf
<1>6. ASSUME alg.kind = "lists" PROVE DOMAIN arrays = ListNames
  BY <1>2, <1>6 DEF ListNames
<1> QED
  BY <1>1, <1>2, <1>4, <1>5, <1>6 DEF ListsInv

LEMMA ListsStutter ==
  ASSUME ListsInv, alg' = alg, kernel' = kernel, written' = written, items' = items, arrays' = arrays
  PROVE  ListsInv'
<1>1. /\ n' = n /\ Objects' = Objects /\ Count' = Count
      /\ (\A j : Ary(j)' = Ary(j)) /\ (\A j : At(j)' = At(j))
  BY ListsFixed
<1>2. /\ \A W : CountsOf(W)' <=> CountsOf(W)
      /\ \A W : TablesOf(W)' <=> TablesOf(W)
      /\ \A W : StartsOf(W)' <=> StartsOf(W)
  BY <1>1 DEF CountsOf, TablesOf, StartsOf
<1>3. \A W : ListsOf(W)' <=> ListsOf(W)
  BY <1>1 DEF ListsOf
<1>4. (SumsKnown' <=> SumsKnown) /\ (StartsKnown' <=> StartsKnown)
  BY <1>1 DEF SumsKnown, StartsKnown
<1> QED
  BY <1>1, <1>2, <1>3, <1>4 DEF ListsInv

(* Whatever the counts and the order in which the statements and items     *)
(* run, and whether empty lists are eliminated or not: every object finds  *)
(* its entries between its starts, and the lists hold nothing else.        *)
THEOREM ListsAreWhole == AlgSpec => []ListsAreContiguous
<1>1. AlgInit => ListsInv
  BY ListsStart
<1>2. ListsInv /\ [AlgNext]_algvars => ListsInv'
  <2> SUFFICES ASSUME ListsInv, [AlgNext]_algvars PROVE ListsInv'
    OBVIOUS
  <2>1. CASE UNCHANGED algvars
    BY <2>1, ListsStutter DEF algvars
  <2>2. CASE AlgNext /\ alg.kind # "lists"
    <3>1. alg' = alg
      BY <2>2 DEF AlgNext, RunItem, CompactEnds, NextPass, LastPass, BoundPropagation, StartsFound, CompressCounts,
                  ScanAllCounts, ScanCompressedCounts, ScanCounts, FillLists, ListsBuilt, Enqueue_
    <3> QED
      BY <2>2, <3>1 DEF ListsInv
  <2>3. CASE AlgNext /\ alg.kind = "lists"
    <3>1. kernel \in {"count", "compress", "starts", "write", "done"}
      BY <2>3 DEF ListsInv
    <3>2. kernel \notin Compacts /\ kernel \notin {"radix", "find_starts", "bound"}
      BY <3>1 DEF Compacts
    <3>3. ASSUME NEW i, RunItem(i) PROVE ListsInv'
      <4>1. kernel # "done"
        BY <3>3 DEF RunItem
      <4> QED
        BY <2>3, <3>1, <3>3, <4>1, CountStep, CompressStep, StartsStep, WriteStep
    <3>4. ASSUME CompressCounts PROVE ListsInv'
      BY <2>3, <3>4, CompressCountsStep
    <3>5. ASSUME ScanAllCounts \/ ScanCompressedCounts PROVE ListsInv'
      BY <2>3, <3>5, ScanCountsStep
    <3>6. ASSUME FillLists PROVE ListsInv'
      BY <2>3, <3>6, FillListsStep
    <3>7. ASSUME ListsBuilt PROVE ListsInv'
      BY <2>3, <3>7, ListsBuiltStep
    <3>8. \/ \E i \in 0 .. ItemCount(kernel) - 1 : RunItem(i)
          \/ CompressCounts \/ ScanAllCounts \/ ScanCompressedCounts \/ FillLists \/ ListsBuilt
      BY <2>3, <3>2 DEF AlgNext, CompactEnds, NextPass, LastPass, BoundPropagation, StartsFound, Enqueue_
    <3> QED
      BY <3>3, <3>4, <3>5, <3>6, <3>7, <3>8
  <2> QED
    BY <2>1, <2>2, <2>3
<1>3. ListsInv => ListsAreContiguous
  <2> SUFFICES ASSUME ListsInv, kernel = "done", alg.kind = "lists" PROVE ListsAreContiguous
    BY DEF ListsAreContiguous
  <2>1. /\ alg \in Jobs /\ StartsKnown /\ ListsOf(0 .. n) /\ (alg.eliminate => TablesOf(0 .. n))
    BY DEF ListsInv
  <2>2. \A i \in Objects : i \in 0 .. n
    BY <2>1, ObjectsAre
  <2>3. \A i \in Objects : arrays["starts"][At(i) + 1] = arrays["starts"][At(i)] + Ary(i)
    <3> SUFFICES ASSUME NEW i \in Objects PROVE arrays["starts"][At(i) + 1] = arrays["starts"][At(i)] + Ary(i)
      OBVIOUS
    <3>1. arrays["starts"][At(i) + 1] = Ary(i) + arrays["starts"][At(i)]
      BY <2>1 DEF StartsKnown
    <3>2. At(i) \in 0 .. Count - 1 /\ Count \in Nat /\ i \in 0 .. n - 1
      BY <2>1, ObjectsAre, ListsAre
    <3>3. Ary(i) \in Nat /\ arrays["starts"][At(i)] \in Nat
      BY <2>1, <3>2, ObjectsAre, StartsRise
    <3> QED
      BY <3>1, <3>3
  <2>4. \A i \in Objects : \A e \in 0 .. Ary(i) - 1 :
          /\ arrays["lists"][arrays["starts"][At(i)] + e] = <<i, e>>
          /\ arrays["child"][arrays["starts"][At(i)] + e] = <<"child", i, e>>
    BY <2>1, <2>2 DEF ListsOf
  <2>5. \A i \in Objects : alg.eliminate => arrays["nonempty_indices"][At(i)] = i
    BY <2>1, <2>2 DEF TablesOf
  <2>6. /\ DOMAIN arrays["starts"] = 0 .. Count
        /\ DOMAIN arrays["lists"] = 0 .. arrays["starts"][Count] - 1
    BY <2>1 DEF StartsKnown, ListsOf
  <2> QED
    BY <2>3, <2>4, <2>5, <2>6 DEF ListsAreContiguous, Objects, At, Count
<1> QED
  BY <1>1, <1>2, <1>3, PTL DEF AlgSpec

-----------------------------------------------------------------------------
LEMMA DivMod == \A x \in Nat, P \in Nat \ {0} : (x % P) \in 0 .. P - 1 /\ x \div P \in Nat /\ x = P * (x \div P) + (x % P)
OBVIOUS
LEMMA Remainder == ASSUME NEW P \in Nat \ {0}, NEW s \in Nat, NEW r \in Nat, r < P PROVE ((P * s) + r) % P = r
OBVIOUS
LEMMA DigitSplit ==
  ASSUME NEW x \in Nat, NEW P \in Nat \ {0}, NEW Q \in Nat \ {0}
  PROVE  x % (P * Q) = (x % P) + (P * ((x \div P) % Q))
<1> DEFINE u == x \div P
           r == x % P
           s == u \div Q
           t == u % Q
<1>1. u \in Nat /\ r \in 0 .. P - 1 /\ x = (P * u) + r
  BY DivMod
<1>2. s \in Nat /\ t \in 0 .. Q - 1 /\ u = (Q * s) + t
  BY <1>1, DivMod
<1> HIDE DEF u, r, s, t
<1>3. P * Q \in Nat \ {0}
  OBVIOUS
<1>4. x = ((P * Q) * s) + ((P * t) + r)
  <2>1. \A a, b, c, d \in Nat : a * ((b * c) + d) = ((a * b) * c) + (a * d)
    OBVIOUS
  <2>2. P * u = ((P * Q) * s) + (P * t)
    BY <1>2, <2>1
  <2>3. P * u \in Nat /\ (P * Q) * s \in Nat /\ P * t \in Nat
    BY <1>1, <1>2
  <2> QED
    BY <1>1, <2>2, <2>3
<1>5. (P * t) + r \in Nat /\ (P * t) + r < P * Q
  <2>1. \A a \in Nat \ {0} : \A b, c \in Nat : b + 1 <= c => (a * b) + a <= a * c
    <3> SUFFICES ASSUME NEW a \in Nat \ {0}, NEW b \in Nat, NEW c \in Nat, b + 1 <= c PROVE (a * b) + a <= a * c
      OBVIOUS
    <3>1. PICK e \in Nat : c = (b + 1) + e
      <4>1. c - (b + 1) \in Nat /\ c = (b + 1) + (c - (b + 1))
        OBVIOUS
      <4> QED
        BY <4>1
    <3>2. a * c = ((a * b) + a) + (a * e)
      BY <3>1
    <3>3. a * b \in Nat /\ a * e \in Nat
      OBVIOUS
    <3> QED
      BY <3>2, <3>3
  <2>2. (P * t) + P <= P * Q
    BY <1>2, <2>1
  <2>3. P * t \in Nat
    BY <1>2
  <2> QED
    BY <1>1, <1>3, <2>2, <2>3
<1> DEFINE M == P * Q
           w == (P * t) + r
<1>6. M \in Nat \ {0} /\ w \in Nat /\ w < M /\ x = (M * s) + w
  BY <1>3, <1>4, <1>5
<1> HIDE DEF M, w
<1>7. x % M = w
  BY <1>2, <1>6, Remainder
<1>8. w = r + (P * t)
  BY <1>1, <1>2 DEF w
<1> QED
  BY <1>7, <1>8 DEF M, r, t, u

(* What comes before element j: what has a smaller digit, and what has the *)
(* same one and comes earlier.                                             *)
Earlier(c, i, j)      == c[i] < c[j] \/ (c[i] = c[j] /\ i < j)
EarlierThan(m, c, j)  == {i \in 0 .. m - 1 : Earlier(c, i, j)}
Spot(m, c, j)         == Cardinality(EarlierThan(m, c, j))
Numbers(m, c)         == \A i \in 0 .. m - 1 : c[i] \in Nat

LEMMA SpotsAre ==
  ASSUME NEW m \in Nat, NEW c, Numbers(m, c), NEW j \in 0 .. m - 1
  PROVE  IsFiniteSet(EarlierThan(m, c, j)) /\ Spot(m, c, j) \in 0 .. m - 1
<1>1. IsFiniteSet(0 .. m - 1) /\ Cardinality(0 .. m - 1) = m
  BY FS_Interval
<1>2. j \notin EarlierThan(m, c, j)
  <2>1. c[j] \in Nat
    BY DEF Numbers
  <2> QED
    BY <2>1 DEF EarlierThan, Earlier
<1>3. EarlierThan(m, c, j) \in SUBSET (0 .. m - 1)
  BY DEF EarlierThan
<1>4. /\ IsFiniteSet(EarlierThan(m, c, j)) /\ Spot(m, c, j) <= m /\ Spot(m, c, j) \in Nat
      /\ m = Spot(m, c, j) => 0 .. m - 1 = EarlierThan(m, c, j)
  BY <1>1, <1>3, FS_Subset, FS_CardinalityType DEF Spot
<1> QED
  BY <1>2, <1>4

LEMMA SpotsGrow ==
  ASSUME NEW m \in Nat, NEW c, Numbers(m, c), NEW i \in 0 .. m - 1, NEW j \in 0 .. m - 1, Earlier(c, i, j)
  PROVE  Spot(m, c, i) < Spot(m, c, j)
<1>1. /\ IsFiniteSet(EarlierThan(m, c, i)) /\ Spot(m, c, i) \in Nat
      /\ IsFiniteSet(EarlierThan(m, c, j)) /\ Spot(m, c, j) \in Nat
  BY SpotsAre
<1>2. c[i] \in Nat /\ c[j] \in Nat
  BY DEF Numbers
<1>3. EarlierThan(m, c, i) \in SUBSET EarlierThan(m, c, j)
  <2> SUFFICES ASSUME NEW k \in 0 .. m - 1, Earlier(c, k, i) PROVE Earlier(c, k, j)
    BY DEF EarlierThan
  <2>1. c[k] \in Nat
    BY DEF Numbers
  <2> QED
    BY <1>2, <2>1 DEF Earlier
<1>4. i \in EarlierThan(m, c, j) /\ i \notin EarlierThan(m, c, i)
  BY <1>2 DEF EarlierThan, Earlier
<1>5. /\ Spot(m, c, i) <= Spot(m, c, j)
      /\ Spot(m, c, j) = Spot(m, c, i) => EarlierThan(m, c, j) = EarlierThan(m, c, i)
  BY <1>1, <1>3, FS_Subset DEF Spot
<1> QED
  BY <1>1, <1>4, <1>5

(* Of two elements one comes earlier.                                      *)
LEMMA EarlierIsTotal ==
  ASSUME NEW m \in Nat, NEW c, Numbers(m, c), NEW i \in 0 .. m - 1, NEW j \in 0 .. m - 1, i # j
  PROVE  Earlier(c, i, j) \/ Earlier(c, j, i)
<1>1. c[i] \in Nat /\ c[j] \in Nat
  BY DEF Numbers
<1> QED
  BY <1>1 DEF Earlier

LEMMA SpotsDiffer ==
  ASSUME NEW m \in Nat, NEW c, Numbers(m, c), NEW i \in 0 .. m - 1, NEW j \in 0 .. m - 1, i # j
  PROVE  Spot(m, c, i) # Spot(m, c, j)
<1>1. Spot(m, c, i) \in Nat /\ Spot(m, c, j) \in Nat
  BY SpotsAre
<1>2. Earlier(c, i, j) => Spot(m, c, i) < Spot(m, c, j)
  BY SpotsGrow
<1>3. Earlier(c, j, i) => Spot(m, c, j) < Spot(m, c, i)
  BY SpotsGrow
<1> QED
  BY <1>1, <1>2, <1>3, EarlierIsTotal

(* Every place is an element's.                                            *)
LEMMA SpotsAreAll ==
  ASSUME NEW m \in Nat, NEW c, Numbers(m, c), NEW t \in 0 .. m - 1
  PROVE  \E i \in 0 .. m - 1 : Spot(m, c, i) = t
<1> DEFINE S == 0 .. m - 1
           f == [i \in S |-> Spot(m, c, i)]
<1>1. IsFiniteSet(S)
  BY FS_Interval
<1>2. f \in [S -> S] /\ \A i \in S : f[i] = Spot(m, c, i)
  BY SpotsAre
<1>3. \A i, j \in S : f[i] = f[j] => i = j
  BY <1>2, SpotsDiffer
<1> HIDE DEF S, f
<1>4. f \in Injection(S, S)
  BY <1>2, <1>3 DEF Injection, IsInjective
<1>5. f \in Surjection(S, S)
  BY <1>1, <1>4, FS_Injection
<1>6. \E i \in S : f[i] = t
  BY <1>5 DEF Surjection, S
<1> QED
  BY <1>2, <1>6 DEF S

(* The place the output statement computes.                                *)
LEMMA SpotIsCounted ==
  ASSUME NEW m \in Nat, NEW c, Numbers(m, c), NEW i \in 0 .. m - 1
  PROVE  Cardinality({j \in 0 .. m - 1 : c[j] < c[i]}) + Cardinality({j \in 0 .. i : c[j] = c[i]}) - 1
           = Spot(m, c, i)
<1> DEFINE A == {j \in 0 .. m - 1 : c[j] < c[i]}
           B == {j \in 0 .. i : c[j] = c[i]}
           D == {j \in 0 .. i - 1 : c[j] = c[i]}
<1>0. c[i] \in Nat /\ \A j \in 0 .. m - 1 : c[j] \in Nat
  BY DEF Numbers
<1>1. IsFiniteSet(0 .. m - 1)
  BY FS_Interval
<1>2. A \in SUBSET (0 .. m - 1) /\ D \in SUBSET (0 .. m - 1) /\ A \cap D = {}
  <2>1. \A j \in 0 .. i - 1 : j \in 0 .. m - 1
    OBVIOUS
  <2>2. \A j \in 0 .. m - 1 : ~(c[j] < c[i] /\ c[j] = c[i])
    BY <1>0
  <2> QED
    BY <2>1, <2>2
<1>3. EarlierThan(m, c, i) = A \cup D
  <2>1. \A j \in 0 .. m - 1 : Earlier(c, j, i) <=> (j \in A \/ j \in D)
    BY DEF Earlier
  <2> QED
    BY <1>2, <2>1 DEF EarlierThan
<1>4. B = D \cup {i} /\ i \notin D
  <2>1. \A j \in 0 .. i : j \in 0 .. i - 1 \/ j = i
    OBVIOUS
  <2>2. i \in 0 .. i /\ i \notin 0 .. i - 1 /\ \A j \in 0 .. i - 1 : j \in 0 .. i
    OBVIOUS
  <2> QED
    BY <2>1, <2>2
<1> HIDE DEF A, B, D
<1>5. IsFiniteSet(A) /\ IsFiniteSet(D) /\ Cardinality(A) \in Nat /\ Cardinality(D) \in Nat
  BY <1>1, <1>2, FS_Subset, FS_CardinalityType
<1>6. Cardinality(B) = Cardinality(D) + 1
  BY <1>4, <1>5, FS_AddElement
<1>7. Cardinality(A \cup D) = Cardinality(A) + Cardinality(D)
  <2>1. Cardinality(A \cup D) = Cardinality(A) + Cardinality(D) - Cardinality(A \cap D)
    BY <1>5, FS_Union
  <2>2. Cardinality(A \cap D) = 0
    BY <1>2, FS_EmptySet
  <2> QED
    BY <1>5, <2>1, <2>2
<1> QED
  BY <1>3, <1>5, <1>6, <1>7 DEF Spot, A, B

-----------------------------------------------------------------------------
(* RadixSort and KeyValueSorter, with the names in the arguments' order.   *)
Sorters     == {"radix", "kvsort"}
SortArrays  == {"values", "keys", "sorted_values", "sorted_keys", "starts"}
Vals        == arrays["values"]
Keys        == arrays["keys"]
Low(e, b)   == Ary(e) % Pow2[b]
Digit       == [i \in 0 .. n - 1 |-> BIN_NR(arrays, base_bit, i)]

Permuted ==
  /\ DOMAIN Vals = 0 .. n - 1 /\ DOMAIN Keys = 0 .. n - 1
  /\ \A i \in 0 .. n - 1 : Vals[i] \in 0 .. n - 1 /\ Keys[i] = Ary(Vals[i])

(* Sorted by the lowest bits of the keys, and stably.                      *)
SortedBits(b) ==
  \A i, j \in 0 .. n - 1 :
    i < j => \/ Low(Vals[i], b) < Low(Vals[j], b)
             \/ Low(Vals[i], b) = Low(Vals[j], b) /\ Vals[i] < Vals[j]

(* What the scan hands to the output statements, and what those of W have  *)
(* stored.                                                                 *)
Counted == \A i \in 0 .. n - 1 : \A d \in Bins : items[i][d] = Cardinality({j \in 0 .. i : Digit[j] = d})
Moved(W) ==
  /\ DOMAIN arrays["sorted_values"] = 0 .. n - 1 /\ DOMAIN arrays["sorted_keys"] = 0 .. n - 1
  /\ \A i \in 0 .. n - 1 : i \in W =>
       /\ arrays["sorted_values"][Spot(n, Digit, i)] = Vals[i]
       /\ arrays["sorted_keys"][Spot(n, Digit, i)] = Keys[i]

(* The first of each key has stored its place, if it is in W.              *)
First(i) == i = 0 \/ Keys[i] # Keys[i - 1]
Found(W) ==
  /\ DOMAIN arrays["starts"] = 0 .. nkeys
  /\ \A i \in 0 .. n - 1 : i \in W /\ First(i) => arrays["starts"][Keys[i]] = i
  /\ \A k \in 0 .. nkeys :
       (\A i \in 0 .. n - 1 : i \in W /\ First(i) => Keys[i] # k) => arrays["starts"][k] = n

(* s is where the keys that are not less than k start.                     *)
StartsAt(s, k) == s \in 0 .. n /\ \A i \in 0 .. n - 1 : i < s <=> Keys[i] < k
Bounded(W) ==
  /\ DOMAIN arrays["starts"] = 0 .. nkeys
  /\ \A i \in 0 .. nkeys : i \in W => StartsAt(arrays["starts"][nkeys - i], nkeys - i)

SortInv ==
  /\ alg \in Jobs
  /\ alg.kind \in Sorters /\ alg.sort_arg_names = <<"values", "keys">> =>
       /\ kernel \in {"radix", "find_starts", "bound", "done"}
       /\ kernel \in {"find_starts", "bound"} => alg.kind = "kvsort"
       /\ DOMAIN arrays = SortArrays /\ base_bit \in Nat /\ Permuted
       /\ kernel = "radix" => SortedBits(base_bit) /\ Counted /\ Moved(written)
       /\ kernel # "radix" => SortedBits(alg.key_bits)
       /\ kernel = "find_starts" => Found(written)
       /\ kernel = "bound" => Bounded(written) /\ \A i \in 0 .. nkeys : StartsAt(items[i], nkeys - i)
       /\ kernel = "done" /\ alg.kind = "kvsort" => Bounded(0 .. nkeys)

Sorts == alg \in Jobs /\ alg.kind \in Sorters /\ alg.sort_arg_names = <<"values", "keys">>

LEMMA JobFacts ==
  ASSUME alg \in Jobs, alg.kind \in Sorters
  PROVE  /\ n \in Nat /\ alg.bits_at_a_time \in Nat \ {0} /\ alg.key_bits \in Nat \ {0}
         /\ nkeys \in Nat \ {0} /\ Pow2[alg.bits_at_a_time] \in Nat \ {0}
         /\ \A i \in 0 .. n - 1 : Ary(i) \in Nat /\ Ary(i) < nkeys
<1>1. /\ alg.ary \in Seq(Nat) /\ alg.bits_at_a_time \in Nat \ {0} /\ alg.key_bits \in Nat \ {0}
      /\ \A i \in 1 .. Len(alg.ary) : alg.ary[i] < Pow2[alg.key_bits]
  BY JobAssumption DEF Sorters
<1>2. n \in Nat /\ \A i \in 0 .. n - 1 : i + 1 \in 1 .. Len(alg.ary)
  BY <1>1 DEF n
<1>3. \A i \in 0 .. n - 1 : Ary(i) \in Nat /\ Ary(i) < nkeys
  BY <1>1, <1>2 DEF Ary, nkeys
<1> QED
  BY <1>1, <1>2, <1>3, Pow2Positive DEF nkeys

LEMMA DigitsAre ==
  ASSUME Sorts, Permuted, base_bit \in Nat
  PROVE  /\ Numbers(n, Digit)
         /\ \A i \in 0 .. n - 1 : /\ Digit[i] \in Bins
                                  /\ Digit[i] = (Ary(Vals[i]) \div Pow2[base_bit]) % Pow2[alg.bits_at_a_time]
<1> DEFINE P == Pow2[base_bit]
           Q == Pow2[alg.bits_at_a_time]
<1>1. /\ P \in Nat \ {0} /\ Q \in Nat \ {0} /\ n \in Nat
      /\ \A i \in 0 .. n - 1 : Ary(Vals[i]) \in Nat /\ Keys[i] = Ary(Vals[i])
  BY JobFacts, Pow2Positive DEF Sorts, Permuted
<1>2. \A x \in Nat : (x \div P) % Q \in 0 .. Q - 1
  <2> HIDE DEF P, Q
  <2> QED
    BY <1>1, DivMod
<1>3. \A i \in 0 .. n - 1 : Digit[i] = (Keys[i] \div P) % Q
  BY DEF Digit, BIN_NR, Keys
<1> HIDE DEF P, Q
<1>4. \A i \in 0 .. n - 1 : Digit[i] = (Ary(Vals[i]) \div P) % Q /\ Digit[i] \in 0 .. Q - 1
  BY <1>1, <1>2, <1>3
<1>5. \A i \in 0 .. n - 1 : Digit[i] \in Nat
  BY <1>1, <1>4
<1> QED
  BY <1>4, <1>5 DEF Numbers, Bins, P, Q

(* The output statement of one pass.                                       *)
LEMMA RadixStores ==
  ASSUME Sorts, Permuted, base_bit \in Nat, Counted, NEW i \in 0 .. n - 1
  PROVE  /\ StoresTo(RadixOutput(i), "sorted_values") = {<<"sorted_values", Spot(n, Digit, i), Vals[i]>>}
         /\ StoresTo(RadixOutput(i), "sorted_keys") = {<<"sorted_keys", Spot(n, Digit, i), Keys[i]>>}
         /\ \A a \in {"values", "keys", "starts"} : StoresTo(RadixOutput(i), a) = {}
<1>1. n \in Nat /\ Numbers(n, Digit) /\ Digit[i] \in Bins
  BY JobFacts, DigitsAre DEF Sorts
<1>2. \A j \in 0 .. n - 1 : BIN_NR(arrays, base_bit, j) = Digit[j]
  BY DEF Digit
<1> DEFINE A == {j \in 0 .. n - 1 : Digit[j] < Digit[i]}
           B == {j \in 0 .. i : Digit[j] = Digit[i]}
           tgt == Cardinality({j \in 0 .. n - 1 : BIN_NR(arrays, base_bit, j) < BIN_NR(arrays, base_bit, i)})
                    + items[i][BIN_NR(arrays, base_bit, i)] - 1
<1>3. {j \in 0 .. n - 1 : BIN_NR(arrays, base_bit, j) < BIN_NR(arrays, base_bit, i)} = A
  BY <1>2
<1>4. items[i][BIN_NR(arrays, base_bit, i)] = Cardinality(B)
  BY <1>1, <1>2 DEF Counted
<1>5. Cardinality(A) + Cardinality(B) - 1 = Spot(n, Digit, i)
  BY <1>1, SpotIsCounted
<1> HIDE DEF A, B
<1>6. tgt = Spot(n, Digit, i)
  BY <1>3, <1>4, <1>5
<1>7. RadixOutput(i) = {<<"sorted_values", tgt, Vals[i]>>, <<"sorted_keys", tgt, Keys[i]>>}
  BY DEF RadixOutput, Vals, Keys
<1> HIDE DEF tgt
<1> QED
  BY <1>6, <1>7 DEF StoresTo

(* What does not change with the call, and what with the keys.             *)
LEMMA SortFixed ==
  ASSUME alg' = alg
  PROVE  /\ n' = n /\ nkeys' = nkeys /\ Bins' = Bins /\ (\A i : Ary(i)' = Ary(i))
         /\ (\A e, b : Low(e, b)' = Low(e, b))
BY DEF n, nkeys, Bins, Ary, Low

LEMMA KeysKept ==
  ASSUME alg' = alg, Permuted, Same("values"), Same("keys")
  PROVE  /\ Permuted' /\ (\A b : SortedBits(b) => SortedBits(b)')
         /\ \A i \in 0 .. n - 1 : Vals'[i] = Vals[i] /\ Keys'[i] = Keys[i]
<1>0. /\ n' = n /\ (\A i : Ary(i)' = Ary(i)) /\ (\A e, b : Low(e, b)' = Low(e, b))
  BY SortFixed
<1>1. /\ DOMAIN Vals' = 0 .. n - 1 /\ DOMAIN Keys' = 0 .. n - 1
      /\ \A i \in 0 .. n - 1 : Vals'[i] = Vals[i] /\ Keys'[i] = Keys[i]
  BY DEF Permuted, Same, Vals, Keys
<1>2. \A i \in 0 .. n - 1 : Vals'[i] \in 0 .. n - 1 /\ Keys'[i] = Ary(Vals'[i])
  BY <1>1 DEF Permuted
<1>3. Permuted'
  BY <1>0, <1>1, <1>2 DEF Permuted
<1>4. ASSUME NEW b, SortedBits(b) PROVE SortedBits(b)'
  <2>1. \A i \in 0 .. n - 1 : Low(Vals[i], b)' = Low(Vals[i], b)
    BY <1>1 DEF Low, Ary
  <2> QED
    BY <1>0, <1>1, <1>4, <2>1 DEF SortedBits
<1> QED
  BY <1>1, <1>3, <1>4

(* The steps of one pass.                                                  *)
LEMMA RadixStep ==
  ASSUME SortInv, Sorts, kernel = "radix", NEW i, RunItem(i)
  PROVE  SortInv'
<1>0. /\ alg \in Jobs /\ DOMAIN arrays = SortArrays /\ base_bit \in Nat /\ Permuted
      /\ SortedBits(base_bit) /\ Counted /\ Moved(written) /\ n \in Nat
  BY JobFacts DEF SortInv, Sorts
<1> DEFINE stores == RadixOutput(i)
<1>1. /\ i \in 0 .. n - 1 /\ arrays' = Put(arrays, stores) /\ base_bit' = base_bit
      /\ written' = written \cup {i} /\ alg' = alg /\ kernel' = kernel /\ items' = items
  <2>1. ItemCount("radix") = n
    BY DEF ItemCount, Compacts
  <2>2. Output(i) = RadixOutput(i)
    BY DEF Output, Compacts
  <2> QED
    BY <2>1, <2>2 DEF RunItem
<1>2. /\ StoresTo(stores, "sorted_values") = {<<"sorted_values", Spot(n, Digit, i), Vals[i]>>}
      /\ StoresTo(stores, "sorted_keys") = {<<"sorted_keys", Spot(n, Digit, i), Keys[i]>>}
      /\ \A a \in {"values", "keys", "starts"} : StoresTo(stores, a) = {}
  BY <1>0, <1>1, RadixStores
<1> HIDE DEF stores
<1>3. Numbers(n, Digit)
  BY <1>0, DigitsAre
<1>4. \A j \in 0 .. n - 1 : Spot(n, Digit, j) \in 0 .. n - 1
  BY <1>0, <1>3, SpotsAre
<1>5. \A a \in SortArrays : a \in DOMAIN arrays
  BY <1>0
<1>6. Same("values") /\ Same("keys") /\ Same("starts")
  <2>1. \A a \in {"values", "keys", "starts"} : a \in DOMAIN arrays
    BY <1>5 DEF SortArrays
  <2>2. \A a \in {"values", "keys", "starts"} : Same(a)
    BY <1>1, <1>2, <2>1, PutNothing
  <2> QED
    BY <2>2
<1>7. /\ Permuted' /\ SortedBits(base_bit)' /\ n' = n /\ Bins' = Bins
      /\ \A j \in 0 .. n - 1 : Vals'[j] = Vals[j] /\ Keys'[j] = Keys[j]
  <2>1. /\ Permuted' /\ (\A b : SortedBits(b) => SortedBits(b)')
        /\ \A j \in 0 .. n - 1 : Vals'[j] = Vals[j] /\ Keys'[j] = Keys[j]
    BY <1>0, <1>1, <1>6, KeysKept
  <2> QED
    BY <1>0, <1>1, <2>1, SortFixed DEF SortedBits
<1>8. Digit' = Digit
  <2>1. \A j \in 0 .. n - 1 : BIN_NR(arrays, base_bit, j)' = BIN_NR(arrays, base_bit, j)
    BY <1>1, <1>7 DEF BIN_NR, Keys
  <2> QED
    BY <1>7, <2>1 DEF Digit
<1>9. Counted'
  BY <1>0, <1>1, <1>7, <1>8 DEF Counted
<1> DEFINE p == Spot(n, Digit, i)
<1>10. "sorted_values" \in DOMAIN arrays /\ "sorted_keys" \in DOMAIN arrays
       /\ p \in DOMAIN arrays["sorted_values"] /\ p \in DOMAIN arrays["sorted_keys"]
  BY <1>0, <1>1, <1>4, <1>5 DEF SortArrays, Moved
<1> DEFINE v == Vals[i]
           k == Keys[i]
<1>stores. /\ StoresTo(stores, "sorted_values") = {<<"sorted_values", p, v>>}
           /\ StoresTo(stores, "sorted_keys") = {<<"sorted_keys", p, k>>}
  BY <1>2
<1> HIDE DEF p, v, k
<1>put. arrays' = Put(arrays, stores)
  BY <1>1
<1>11. /\ DOMAIN arrays'["sorted_values"] = DOMAIN arrays["sorted_values"] /\ arrays'["sorted_values"][p] = v
       /\ \A y \in DOMAIN arrays["sorted_values"] : y # p => arrays'["sorted_values"][y] = arrays["sorted_values"][y]
  <2>1. "sorted_values" \in DOMAIN arrays /\ p \in DOMAIN arrays["sorted_values"]
    BY <1>10
  <2>2. StoresTo(stores, "sorted_values") = {<<"sorted_values", p, v>>}
    BY <1>stores
  <2> QED
    BY <1>put, <2>1, <2>2, PutAt
<1>12. /\ DOMAIN arrays'["sorted_keys"] = DOMAIN arrays["sorted_keys"] /\ arrays'["sorted_keys"][p] = k
       /\ \A y \in DOMAIN arrays["sorted_keys"] : y # p => arrays'["sorted_keys"][y] = arrays["sorted_keys"][y]
  <2>1. "sorted_keys" \in DOMAIN arrays /\ p \in DOMAIN arrays["sorted_keys"]
    BY <1>10
  <2>2. StoresTo(stores, "sorted_keys") = {<<"sorted_keys", p, k>>}
    BY <1>stores
  <2> QED
    BY <1>put, <2>1, <2>2, PutAt
<1>13. ASSUME NEW j \in 0 .. n - 1, j \in written'
       PROVE  /\ arrays'["sorted_values"][Spot(n, Digit, j)] = Vals[j]
              /\ arrays'["sorted_keys"][Spot(n, Digit, j)] = Keys[j]
  <2>1. CASE j = i
    BY <1>11, <1>12, <2>1 DEF p, v, k
  <2>2. CASE j # i
    <3>1. Spot(n, Digit, j) # p /\ Spot(n, Digit, j) \in 0 .. n - 1
      BY <1>0, <1>1, <1>3, <1>4, <2>2, SpotsDiffer DEF p
    <3>2. j \in written
      BY <1>1, <1>13, <2>2
    <3> QED
      BY <1>0, <1>11, <1>12, <3>1, <3>2 DEF Moved
  <2> QED
    BY <2>1, <2>2
<1>14. Moved(written)'
  <2>1. /\ DOMAIN arrays'["sorted_values"] = 0 .. n - 1 /\ DOMAIN arrays'["sorted_keys"] = 0 .. n - 1
    BY <1>0, <1>11, <1>12 DEF Moved
  <2> QED
    BY <1>7, <1>8, <1>13, <2>1 DEF Moved
<1>15. DOMAIN arrays' = SortArrays
  BY <1>0, <1>1, PutDomains
<1> QED
  BY <1>0, <1>1, <1>7, <1>9, <1>14, <1>15 DEF SortInv

(* The lowest bits up to the next pass: those up to this one and a digit.  *)
LEMMA LowAndDigit ==
  ASSUME Sorts, NEW b \in Nat, NEW e \in 0 .. n - 1
  PROVE  /\ Low(e, b) \in 0 .. Pow2[b] - 1
         /\ Low(e, b + alg.bits_at_a_time)
              = Low(e, b) + (Pow2[b] * ((Ary(e) \div Pow2[b]) % Pow2[alg.bits_at_a_time]))
<1>1. /\ Pow2[b] \in Nat \ {0} /\ Pow2[alg.bits_at_a_time] \in Nat \ {0} /\ Ary(e) \in Nat
      /\ Pow2[b + alg.bits_at_a_time] = Pow2[b] * Pow2[alg.bits_at_a_time]
  BY JobFacts, Pow2Positive, Pow2Sum DEF Sorts
<1>2. Ary(e) % (Pow2[b] * Pow2[alg.bits_at_a_time])
        = (Ary(e) % Pow2[b]) + (Pow2[b] * ((Ary(e) \div Pow2[b]) % Pow2[alg.bits_at_a_time]))
  BY <1>1, DigitSplit
<1>3. (Ary(e) % Pow2[b]) \in 0 .. Pow2[b] - 1
  BY <1>1, DivMod
<1> QED
  BY <1>1, <1>2, <1>3, Zenon DEF Low

LEMMA WholeKeys ==
  ASSUME Sorts, NEW b \in Nat, b >= alg.key_bits, NEW e \in 0 .. n - 1
  PROVE  Low(e, b) = Ary(e)
<1>1. Ary(e) \in Nat /\ Ary(e) < Pow2[alg.key_bits] /\ alg.key_bits \in Nat /\ Pow2[b] \in Nat
  BY JobFacts, Pow2Positive DEF Sorts, nkeys
<1>2. Pow2[alg.key_bits] <= Pow2[b]
  <2>1. CASE b = alg.key_bits
    BY <1>1, <2>1
  <2>2. CASE alg.key_bits < b
    <3>1. 2 * Pow2[alg.key_bits] <= Pow2[b] /\ Pow2[alg.key_bits] \in Nat
      BY <1>1, <2>2, Pow2Grows, Pow2Positive
    <3> QED
      BY <1>1, <3>1
  <2> QED
    BY <1>1, <2>1, <2>2
<1>3. \A x, P \in Nat : x < P => x % P = x
  OBVIOUS
<1> DEFINE x == Ary(e)
           P == Pow2[b]
<1>4. x \in Nat /\ P \in Nat /\ x < P
  BY <1>1, <1>2, Pow2Positive
<1>5. Low(e, b) = x % P
  BY DEF Low
<1> HIDE DEF x, P
<1>6. Low(e, b) = x
  BY <1>3, <1>4, <1>5
<1> QED
  BY <1>6 DEF x

(* What comes earlier by the digit is less by the bits and the digit.      *)
LEMMA EarlierIsLess ==
  ASSUME Sorts, Permuted, base_bit \in Nat, SortedBits(base_bit),
         NEW i \in 0 .. n - 1, NEW j \in 0 .. n - 1, Earlier(Digit, i, j)
  PROVE  \/ Low(Vals[i], base_bit + alg.bits_at_a_time) < Low(Vals[j], base_bit + alg.bits_at_a_time)
         \/ /\ Low(Vals[i], base_bit + alg.bits_at_a_time) = Low(Vals[j], base_bit + alg.bits_at_a_time)
            /\ Vals[i] < Vals[j]
<1> DEFINE P == Pow2[base_bit]
           c == base_bit + alg.bits_at_a_time
           x == Low(Vals[i], base_bit)
           y == Low(Vals[j], base_bit)
<1>1. Vals[i] \in 0 .. n - 1 /\ Vals[j] \in 0 .. n - 1 /\ P \in Nat \ {0}
  BY Pow2Positive DEF Permuted
<1>2. /\ Digit[i] = (Ary(Vals[i]) \div P) % Pow2[alg.bits_at_a_time]
      /\ Digit[j] = (Ary(Vals[j]) \div P) % Pow2[alg.bits_at_a_time]
      /\ Numbers(n, Digit)
  BY DigitsAre
<1>3. /\ x \in 0 .. P - 1 /\ Low(Vals[i], c) = x + (P * Digit[i])
      /\ y \in 0 .. P - 1 /\ Low(Vals[j], c) = y + (P * Digit[j])
  <2>1. \A e \in 0 .. n - 1 : /\ Low(e, base_bit) \in 0 .. P - 1
                              /\ Low(e, c) = Low(e, base_bit) + (P * ((Ary(e) \div P) % Pow2[alg.bits_at_a_time]))
    BY LowAndDigit
  <2> HIDE DEF c, P
  <2> QED
    BY <1>1, <1>2, <2>1
<1>4. Digit[i] \in Nat /\ Digit[j] \in Nat
  BY <1>2 DEF Numbers
<1> HIDE DEF P, c, x, y
<1>5. CASE Digit[i] < Digit[j]
  <2>1. \A p \in Nat \ {0} : \A r, s \in 0 .. p - 1 : \A d, e \in Nat : d < e => r + (p * d) < s + (p * e)
    <3> SUFFICES ASSUME NEW p \in Nat \ {0}, NEW r \in 0 .. p - 1, NEW s \in 0 .. p - 1,
                        NEW d \in Nat, NEW e \in Nat, d < e
                 PROVE  r + (p * d) < s + (p * e)
      OBVIOUS
    <3>1. PICK f \in Nat : e = (d + 1) + f
      <4>1. e - (d + 1) \in Nat /\ e = (d + 1) + (e - (d + 1))
        OBVIOUS
      <4> QED
        BY <4>1
    <3>2. p * e = ((p * d) + p) + (p * f)
      BY <3>1
    <3>3. p * d \in Nat /\ p * f \in Nat
      OBVIOUS
    <3> QED
      BY <3>2, <3>3
  <2> QED
    BY <1>1, <1>3, <1>4, <1>5, <2>1 DEF c
<1>6. CASE Digit[i] = Digit[j] /\ i < j
  <2>1. x < y \/ (x = y /\ Vals[i] < Vals[j])
    BY <1>6 DEF SortedBits, x, y
  <2>2. P * Digit[i] \in Nat
    BY <1>1, <1>4
  <2> QED
    BY <1>3, <1>6, <2>1, <2>2 DEF c
<1>7. Digit[i] < Digit[j] \/ (Digit[i] = Digit[j] /\ i < j)
  BY DEF Earlier
<1> QED
  BY <1>5, <1>6, <1>7 DEF c

(* One pass: what was sorted by the lowest bits is sorted by more of them. *)
LEMMA PassSorts ==
  ASSUME Sorts, Permuted, base_bit \in Nat, SortedBits(base_bit), Moved(0 .. n - 1), alg' = alg,
         base_bit' = base_bit + alg.bits_at_a_time,
         arrays'["values"] = arrays["sorted_values"], arrays'["keys"] = arrays["sorted_keys"]
  PROVE  /\ Permuted' /\ SortedBits(base_bit)'
         /\ base_bit' >= alg.key_bits => SortedBits(alg.key_bits)'
<1> DEFINE c == base_bit + alg.bits_at_a_time
           spot(i) == Spot(n, Digit, i)
<1>0. n \in Nat /\ n' = n /\ (\A i : Ary(i)' = Ary(i)) /\ Numbers(n, Digit)
  BY JobFacts, SortFixed, DigitsAre DEF Sorts
<1>1. \A i \in 0 .. n - 1 : Vals'[spot(i)] = Vals[i] /\ Keys'[spot(i)] = Keys[i] /\ spot(i) \in Nat
  <2>1. \A i \in 0 .. n - 1 : spot(i) \in 0 .. n - 1
    BY <1>0, SpotsAre
  <2> QED
    BY <2>1 DEF Moved, Vals, Keys
<1>2. \A t \in 0 .. n - 1 : \E i \in 0 .. n - 1 : spot(i) = t
  BY <1>0, SpotsAreAll
<1>3. DOMAIN Vals' = 0 .. n - 1 /\ DOMAIN Keys' = 0 .. n - 1
  BY DEF Moved, Vals, Keys
<1>4. \A i, j \in 0 .. n - 1 : Earlier(Digit, i, j) => spot(i) < spot(j)
  BY <1>0, SpotsGrow
<1>5. \A i, j \in 0 .. n - 1 : i # j => Earlier(Digit, i, j) \/ Earlier(Digit, j, i)
  BY <1>0, EarlierIsTotal
<1> HIDE DEF spot
<1>6. Permuted'
  <2> SUFFICES ASSUME NEW t \in 0 .. n - 1 PROVE Vals'[t] \in 0 .. n - 1 /\ Keys'[t] = Ary(Vals'[t])
    BY <1>0, <1>3 DEF Permuted
  <2>1. PICK i \in 0 .. n - 1 : spot(i) = t
    BY <1>2
  <2>2. Vals'[t] = Vals[i] /\ Keys'[t] = Keys[i]
    BY <1>1, <2>1
  <2> QED
    BY <2>2 DEF Permuted
<1>7. ASSUME NEW t \in 0 .. n - 1, NEW u \in 0 .. n - 1, t < u
      PROVE  \/ Low(Vals'[t], c) < Low(Vals'[u], c)
             \/ Low(Vals'[t], c) = Low(Vals'[u], c) /\ Vals'[t] < Vals'[u]
  <2>1. PICK i \in 0 .. n - 1 : spot(i) = t
    BY <1>2
  <2>2. PICK j \in 0 .. n - 1 : spot(j) = u
    BY <1>2
  <2>3. Earlier(Digit, i, j)
    <3>1. i # j
      BY <1>1, <1>7, <2>1, <2>2
    <3>2. ~ Earlier(Digit, j, i)
      <4> SUFFICES ASSUME Earlier(Digit, j, i) PROVE FALSE
        OBVIOUS
      <4>1. u < t
        BY <1>4, <2>1, <2>2
      <4> QED
        BY <1>7, <4>1
    <3> QED
      BY <1>5, <3>1, <3>2
  <2>4. Vals'[t] = Vals[i] /\ Vals'[u] = Vals[j]
    BY <1>1, <2>1, <2>2
  <2> QED
    BY <2>3, <2>4, EarlierIsLess
<1>8. base_bit' = c /\ c \in Nat
  BY JobFacts DEF Sorts
<1> HIDE DEF c
<1>9. \A t \in 0 .. n - 1 : Low(Vals[t], base_bit)' = Low(Vals'[t], c)
  BY <1>8 DEF Low, Ary
<1>10. SortedBits(base_bit)'
  BY <1>0, <1>7, <1>9 DEF SortedBits
<1>11. ASSUME c >= alg.key_bits PROVE SortedBits(alg.key_bits)'
  <2>1. \A t \in 0 .. n - 1 : Low(Vals'[t], c) = Low(Vals'[t], alg.key_bits)
    <3>1. \A e \in 0 .. n - 1 : Low(e, c) = Ary(e) /\ Low(e, alg.key_bits) = Ary(e)
      BY <1>8, <1>11, WholeKeys, JobFacts DEF Sorts
    <3>2. \A t \in 0 .. n - 1 : Vals'[t] \in 0 .. n - 1
      BY <1>0, <1>6 DEF Permuted
    <3> QED
      BY <3>1, <3>2
  <2>2. \A t \in 0 .. n - 1 : Low(Vals[t], alg.key_bits)' = Low(Vals'[t], alg.key_bits)
    BY DEF Low, Ary
  <2> QED
    BY <1>0, <1>7, <2>1, <2>2 DEF SortedBits
<1> QED
  BY <1>6, <1>8, <1>10, <1>11

LEMMA IndexIs ==
  ASSUME Sorts
  PROVE  Index("values") = 1 /\ Index("keys") = 2
<1>1. alg.sort_arg_names[1] = "values" /\ alg.sort_arg_names[2] = "keys"
  BY DEF Sorts
<1>2. \A i \in 1 .. 2 : i = 1 \/ i = 2
  OBVIOUS
<1>3. 1 \in 1 .. 2 /\ 2 \in 1 .. 2 /\ "values" # "keys"
  OBVIOUS
<1>4. \A i \in 1 .. 2 : alg.sort_arg_names[i] = "values" <=> i = 1
  BY <1>1, <1>2, <1>3
<1>5. \A i \in 1 .. 2 : alg.sort_arg_names[i] = "keys" <=> i = 2
  BY <1>1, <1>2, <1>3
<1> QED
  BY <1>3, <1>4, <1>5 DEF Index

LEMMA SubstitutedAre ==
  ASSUME Sorts, DOMAIN arrays = SortArrays
  PROVE  /\ DOMAIN Substituted(arrays) = SortArrays
         /\ Substituted(arrays)["values"] = arrays["sorted_values"]
         /\ Substituted(arrays)["keys"] = arrays["sorted_keys"]
         /\ Substituted(arrays)["sorted_values"] = Raw(n) /\ Substituted(arrays)["sorted_keys"] = Raw(n)
<1>1. Index("values") = 1 /\ Index("keys") = 2
  BY IndexIs
<1>2. Substituted(arrays) =
        [arrays EXCEPT !["values"] = arrays["sorted_values"], !["keys"] = arrays["sorted_keys"],
                       !["sorted_values"] = Raw(n), !["sorted_keys"] = Raw(n)]
  <2> DEFINE both == <<arrays["sorted_values"], arrays["sorted_keys"]>>
  <2>1. both[1] = arrays["sorted_values"] /\ both[2] = arrays["sorted_keys"]
    OBVIOUS
  <2>2. Substituted(arrays) =
          [arrays EXCEPT !["values"] = both[Index("values")], !["keys"] = both[Index("keys")],
                         !["sorted_values"] = Raw(n), !["sorted_keys"] = Raw(n)]
    BY DEF Substituted
  <2> HIDE DEF both
  <2> QED
    BY <1>1, <2>1, <2>2
<1> QED
  BY <1>2 DEF SortArrays

(* The next pass.                                                          *)
LEMMA NextPassStep ==
  ASSUME SortInv, Sorts, NextPass
  PROVE  SortInv'
<1>1. /\ kernel = "radix" /\ written = 0 .. n - 1 /\ kernel' = "radix" /\ written' = {}
      /\ arrays' = Substituted(arrays) /\ items' = Histogram(Substituted(arrays), base_bit') /\ alg' = alg
      /\ base_bit' = base_bit + alg.bits_at_a_time
  <2>1. ItemCount("radix") = n
    BY DEF ItemCount, Compacts
  <2> QED
    BY <2>1 DEF NextPass, Enqueue_
<1>2. /\ alg \in Jobs /\ DOMAIN arrays = SortArrays /\ base_bit \in Nat /\ Permuted
      /\ SortedBits(base_bit) /\ Moved(0 .. n - 1) /\ n \in Nat
  BY <1>1, JobFacts DEF SortInv, Sorts
<1>3. /\ DOMAIN arrays' = SortArrays
      /\ arrays'["values"] = arrays["sorted_values"] /\ arrays'["keys"] = arrays["sorted_keys"]
      /\ arrays'["sorted_values"] = Raw(n) /\ arrays'["sorted_keys"] = Raw(n)
  BY <1>1, <1>2, SubstitutedAre
<1>4. Permuted' /\ SortedBits(base_bit)'
  BY <1>1, <1>2, <1>3, PassSorts
<1>5. n' = n /\ Bins' = Bins /\ base_bit' \in Nat
  BY <1>1, <1>2, SortFixed, JobFacts DEF Sorts
<1>6. Counted'
  <2>1. \A j \in 0 .. n - 1 : Digit'[j] = BIN_NR(arrays', base_bit', j)
    BY <1>1, <1>5 DEF Digit, BIN_NR
  <2> SUFFICES ASSUME NEW i \in 0 .. n - 1, NEW d \in Bins
               PROVE  items'[i][d] = Cardinality({j \in 0 .. i : Digit'[j] = d})
    BY <1>5 DEF Counted
  <2>2. items'[i][d] = Cardinality({j \in 0 .. i : BIN_NR(arrays', base_bit', j) = d})
    BY <1>1 DEF Histogram
  <2>3. \A j \in 0 .. i : j \in 0 .. n - 1
    BY <1>2
  <2>4. {j \in 0 .. i : BIN_NR(arrays', base_bit', j) = d} = {j \in 0 .. i : Digit'[j] = d}
    BY <2>1, <2>3
  <2> QED
    BY <2>2, <2>4
<1>7. Moved(written)'
  BY <1>1, <1>3, <1>5 DEF Moved, Raw
<1> QED
  BY <1>1, <1>2, <1>3, <1>4, <1>5, <1>6, <1>7 DEF SortInv

(* The last one: the radix sort returns, the key-value sorter goes on with *)
(* starts full of n.                                                       *)
LEMMA LastPassStep ==
  ASSUME SortInv, Sorts, LastPass
  PROVE  SortInv'
<1>1. /\ kernel = "radix" /\ written = 0 .. n - 1 /\ written' = {} /\ alg' = alg
      /\ base_bit' = base_bit + alg.bits_at_a_time /\ base_bit' >= alg.key_bits
      /\ IF alg.kind = "radix" THEN kernel' = "done" /\ arrays' = Substituted(arrays)
         ELSE /\ kernel' = "find_starts"
              /\ arrays' = [Substituted(arrays) EXCEPT !["starts"] = [k \in 0 .. nkeys |-> n]]
  <2>1. ItemCount("radix") = n
    BY DEF ItemCount, Compacts
  <2> QED
    BY <2>1 DEF LastPass, Enqueue_
<1>2. /\ alg \in Jobs /\ DOMAIN arrays = SortArrays /\ base_bit \in Nat /\ Permuted
      /\ SortedBits(base_bit) /\ Moved(0 .. n - 1) /\ n \in Nat
  BY <1>1, JobFacts DEF SortInv, Sorts
<1>3. /\ DOMAIN Substituted(arrays) = SortArrays
      /\ Substituted(arrays)["values"] = arrays["sorted_values"]
      /\ Substituted(arrays)["keys"] = arrays["sorted_keys"]
  BY <1>2, SubstitutedAre
<1>4. /\ DOMAIN arrays' = SortArrays
      /\ arrays'["values"] = arrays["sorted_values"] /\ arrays'["keys"] = arrays["sorted_keys"]
      /\ kernel' = "find_starts" => arrays'["starts"] = [k \in 0 .. nkeys |-> n]
  BY <1>1, <1>3 DEF SortArrays
<1>5. Permuted' /\ SortedBits(alg.key_bits)'
  BY <1>1, <1>2, <1>4, PassSorts
<1>6. n' = n /\ nkeys' = nkeys /\ base_bit' \in Nat
  BY <1>1, <1>2, SortFixed, JobFacts DEF Sorts
<1>7. kernel' = "find_starts" => Found(written)'
  BY <1>1, <1>4, <1>6 DEF Found
<1>8. kernel' \in {"done", "find_starts"} /\ (kernel' = "find_starts" <=> alg.kind = "kvsort")
  BY <1>1 DEF Sorts, Sorters
<1> QED
  BY <1>1, <1>2, <1>4, <1>5, <1>6, <1>7, <1>8 DEF SortInv

(* Keys in their order, after the last pass.                               *)
LEMMA KeysAreSorted ==
  ASSUME Sorts, Permuted, SortedBits(alg.key_bits)
  PROVE  /\ \A i \in 0 .. n - 1 : Keys[i] \in 0 .. nkeys - 1
         /\ \A i, j \in 0 .. n - 1 : i < j => \/ Keys[i] < Keys[j]
                                              \/ Keys[i] = Keys[j] /\ Vals[i] < Vals[j]
<1>1. /\ nkeys \in Nat \ {0} /\ alg.key_bits \in Nat
      /\ \A e \in 0 .. n - 1 : Ary(e) \in Nat /\ Ary(e) < nkeys
  BY JobFacts DEF Sorts
<1>2. \A e \in 0 .. n - 1 : Low(e, alg.key_bits) = Ary(e)
  BY <1>1, WholeKeys
<1>3. \A i \in 0 .. n - 1 : Vals[i] \in 0 .. n - 1 /\ Keys[i] = Ary(Vals[i])
  BY DEF Permuted
<1>4. \A i \in 0 .. n - 1 : Keys[i] \in 0 .. nkeys - 1
  <2> SUFFICES ASSUME NEW i \in 0 .. n - 1 PROVE Keys[i] \in 0 .. nkeys - 1
    OBVIOUS
  <2>1. Keys[i] \in Nat /\ Keys[i] < nkeys
    BY <1>1, <1>3
  <2> QED
    BY <1>1, <2>1
<1>5. \A i \in 0 .. n - 1 : Low(Vals[i], alg.key_bits) = Keys[i]
  BY <1>2, <1>3
<1> QED
  BY <1>4, <1>5 DEF SortedBits

LEMMA WholeKept ==
  ASSUME alg' = alg, Permuted, SortedBits(alg.key_bits), Same("values"), Same("keys")
  PROVE  SortedBits(alg.key_bits)'
<1>1. n' = n /\ \A j \in 0 .. n - 1 : Vals'[j] = Vals[j]
  BY KeysKept, SortFixed
<1>2. \A j \in 0 .. n - 1 : Low(Vals[j], alg.key_bits)' = Low(Vals[j], alg.key_bits)
  BY <1>1 DEF Low, Ary
<1> QED
  BY <1>1, <1>2 DEF SortedBits

(* The steps of find_starts.                                               *)
LEMMA FindStep ==
  ASSUME SortInv, Sorts, kernel = "find_starts", NEW i, RunItem(i)
  PROVE  SortInv'
<1>0. /\ alg \in Jobs /\ DOMAIN arrays = SortArrays /\ base_bit \in Nat /\ Permuted
      /\ SortedBits(alg.key_bits) /\ Found(written) /\ n \in Nat /\ nkeys \in Nat \ {0} /\ alg.kind = "kvsort"
  BY JobFacts DEF SortInv, Sorts
<1> DEFINE stores == FindStarts(i)
<1>1. /\ i \in 0 .. n - 1 /\ arrays' = Put(arrays, stores) /\ base_bit' = base_bit
      /\ written' = written \cup {i} /\ alg' = alg /\ kernel' = kernel
  <2>1. ItemCount("find_starts") = n
    BY DEF ItemCount, Compacts
  <2>2. Output(i) = FindStarts(i)
    BY DEF Output, Compacts
  <2> QED
    BY <2>1, <2>2 DEF RunItem
<1>2. /\ StoresTo(stores, "starts") = IF First(i) THEN {<<"starts", Keys[i], i>>} ELSE {}
      /\ StoresTo(stores, "values") = {} /\ StoresTo(stores, "keys") = {}
  BY DEF StoresTo, FindStarts, When, First, Keys
<1> HIDE DEF stores
<1>3. "values" \in DOMAIN arrays /\ "keys" \in DOMAIN arrays /\ "starts" \in DOMAIN arrays
  BY <1>0 DEF SortArrays
<1>4. Same("values") /\ Same("keys")
  BY <1>1, <1>2, <1>3, PutNothing
<1>5. /\ Permuted' /\ (\A b : SortedBits(b) => SortedBits(b)') /\ n' = n /\ nkeys' = nkeys
      /\ \A j \in 0 .. n - 1 : Vals'[j] = Vals[j] /\ Keys'[j] = Keys[j]
  BY <1>0, <1>1, <1>4, KeysKept, SortFixed
<1>6. SortedBits(alg.key_bits)'
  BY <1>0, <1>1, <1>4, WholeKept
<1>7. \A j \in 0 .. n - 1 : First(j)' <=> First(j)
  <2> SUFFICES ASSUME NEW j \in 0 .. n - 1 PROVE First(j)' <=> First(j)
    OBVIOUS
  <2>1. j # 0 => j - 1 \in 0 .. n - 1
    BY <1>0
  <2> QED
    BY <1>5, <2>1 DEF First
<1>8. /\ \A j \in 0 .. n - 1 : Keys[j] \in 0 .. nkeys - 1
      /\ \A j, k \in 0 .. n - 1 : j < k => Keys[j] < Keys[k] \/ Keys[j] = Keys[k]
  BY <1>0, KeysAreSorted
<1>9. ASSUME NEW j \in 0 .. n - 1, NEW k \in 0 .. n - 1, First(j), First(k), Keys[j] = Keys[k] PROVE j = k
  <2>1. ASSUME NEW x \in 0 .. n - 1, NEW y \in 0 .. n - 1, x < y, First(y) PROVE Keys[x] # Keys[y]
    <3>1. y - 1 \in 0 .. n - 1 /\ y # 0 /\ (x = y - 1 \/ x < y - 1) /\ y - 1 < y
      BY <1>0, <2>1
    <3>2. Keys[y - 1] # Keys[y]
      BY <2>1, <3>1 DEF First
    <3>3. /\ Keys[x] \in Nat /\ Keys[y - 1] \in Nat /\ Keys[y] \in Nat
      BY <1>8, <3>1
    <3>4. Keys[y - 1] < Keys[y]
      BY <1>8, <3>1, <3>2
    <3>5. Keys[x] < Keys[y - 1] \/ Keys[x] = Keys[y - 1]
      BY <1>8, <3>1
    <3> QED
      BY <3>3, <3>4, <3>5
  <2> QED
    BY <1>9, <2>1
<1>10. Found(written)'
  <2>0. /\ DOMAIN arrays["starts"] = 0 .. nkeys
        /\ \A j \in 0 .. n - 1 : j \in written /\ First(j) => arrays["starts"][Keys[j]] = j
        /\ \A k \in 0 .. nkeys :
             (\A j \in 0 .. n - 1 : j \in written /\ First(j) => Keys[j] # k) => arrays["starts"][k] = n
    BY <1>0 DEF Found
  <2> SUFFICES /\ DOMAIN arrays'["starts"] = 0 .. nkeys
               /\ \A j \in 0 .. n - 1 : j \in written' /\ First(j) => arrays'["starts"][Keys[j]] = j
               /\ \A k \in 0 .. nkeys :
                    (\A j \in 0 .. n - 1 : j \in written' /\ First(j) => Keys[j] # k) => arrays'["starts"][k] = n
    BY <1>5, <1>7 DEF Found
  <2>1. CASE ~ First(i)
    <3>1. StoresTo(stores, "starts") = {}
      BY <1>2, <2>1
    <3>2. Same("starts")
      BY <1>1, <1>3, <3>1, PutNothing
    <3>3. \A j \in 0 .. n - 1 : (j \in written' /\ First(j)) <=> (j \in written /\ First(j))
      BY <1>1, <2>1
    <3>4. \A j \in 0 .. n - 1 : Keys[j] \in 0 .. nkeys
      BY <1>0, <1>8
    <3> QED
      BY <2>0, <3>2, <3>3, <3>4 DEF Same
  <2>2. CASE First(i)
    <3>1. StoresTo(stores, "starts") = {<<"starts", Keys[i], i>>} /\ Keys[i] \in DOMAIN arrays["starts"]
      BY <1>0, <1>1, <1>2, <1>8, <2>0, <2>2
    <3>2. /\ DOMAIN arrays'["starts"] = DOMAIN arrays["starts"] /\ arrays'["starts"][Keys[i]] = i
          /\ \A y \in DOMAIN arrays["starts"] : y # Keys[i] => arrays'["starts"][y] = arrays["starts"][y]
      BY <1>1, <1>3, <3>1, PutAt
    <3>3. ASSUME NEW j \in 0 .. n - 1, j \in written', First(j) PROVE arrays'["starts"][Keys[j]] = j
      <4>1. CASE j = i
        BY <3>2, <4>1
      <4>2. CASE j # i
        <5>1. Keys[j] # Keys[i] /\ j \in written /\ Keys[j] \in DOMAIN arrays["starts"]
          BY <1>0, <1>1, <1>8, <1>9, <2>0, <2>2, <3>3, <4>2
        <5> QED
          BY <2>0, <3>2, <3>3, <5>1
      <4> QED
        BY <4>1, <4>2
    <3>4. ASSUME NEW k \in 0 .. nkeys, \A j \in 0 .. n - 1 : j \in written' /\ First(j) => Keys[j] # k
          PROVE  arrays'["starts"][k] = n
      <4>1. k # Keys[i]
        BY <1>1, <2>2, <3>4
      <4>2. arrays["starts"][k] = n
        BY <1>1, <2>0, <3>4
      <4> QED
        BY <2>0, <3>2, <4>1, <4>2
    <3> QED
      BY <2>0, <3>2, <3>3, <3>4
  <2> QED
    BY <2>1, <2>2
<1>11. DOMAIN arrays' = SortArrays
  BY <1>0, <1>1, PutDomains
<1> QED
  BY <1>0, <1>1, <1>5, <1>6, <1>10, <1>11 DEF SortInv

(* The first place with the key of another.                                *)
LEMMA FirstOfItsKey ==
  ASSUME Sorts, Permuted, SortedBits(alg.key_bits), NEW p \in 0 .. n - 1
  PROVE  \E q \in 0 .. p : First(q) /\ Keys[q] = Keys[p]
<1>0. n \in Nat /\ \A i \in 0 .. n - 1 : Keys[i] \in Nat
  <2>1. n \in Nat /\ nkeys \in Nat /\ \A i \in 0 .. n - 1 : Keys[i] \in 0 .. nkeys - 1
    BY JobFacts, KeysAreSorted DEF Sorts
  <2> QED
    BY <2>1
<1> DEFINE S == {q \in 0 .. p : Keys[q] = Keys[p]}
<1>1. S \subseteq Nat /\ S # {}
  <2>1. p \in S
    BY <1>0
  <2> QED
    BY <2>1
<1>2. PICK q \in S : \A r \in S : q =< r
  <2> HIDE DEF S
  <2> QED
    BY <1>1, LeastNat
<1>3. First(q)
  <2> SUFFICES ASSUME q # 0, Keys[q] = Keys[q - 1] PROVE FALSE
    BY DEF First
  <2>1. q - 1 \in S
    BY <1>0
  <2> QED
    BY <1>1, <1>2, <2>1
<1> QED
  BY <1>3

(* The minimum of what is stored from the end to key k is where the keys   *)
(* that are not less than k start.                                         *)
LEMMA LeastStart ==
  ASSUME Sorts, Permuted, SortedBits(alg.key_bits), Found(0 .. n - 1), NEW k \in 0 .. nkeys,
         NEW b, NEW h \in k .. nkeys, b = arrays["starts"][h], \A g \in k .. nkeys : b <= arrays["starts"][g]
  PROVE  StartsAt(b, k)
<1>0. n \in Nat /\ nkeys \in Nat
  BY JobFacts DEF Sorts
<1>1. /\ \A i \in 0 .. n - 1 : Keys[i] \in 0 .. nkeys - 1 /\ Keys[i] \in Nat
      /\ \A i, j \in 0 .. n - 1 : i < j => Keys[i] < Keys[j] \/ Keys[i] = Keys[j]
  BY <1>0, KeysAreSorted
<1>2. /\ \A i \in 0 .. n - 1 : First(i) => arrays["starts"][Keys[i]] = i
      /\ \A g \in 0 .. nkeys :
           (\A i \in 0 .. n - 1 : First(i) => Keys[i] # g) => arrays["starts"][g] = n
  BY DEF Found
<1>3. b = n \/ \E q \in 0 .. n - 1 : b = q /\ Keys[q] = h
  <2>1. h \in 0 .. nkeys
    BY <1>0
  <2> QED
    BY <1>2, <2>1
<1>4. b \in 0 .. n
  BY <1>0, <1>3
<1>5. ASSUME NEW p \in 0 .. n - 1, Keys[p] >= k PROVE ~(p < b)
  <2>1. PICK q \in 0 .. p : First(q) /\ Keys[q] = Keys[p]
    BY FirstOfItsKey
  <2>2. q \in 0 .. n - 1 /\ q <= p /\ p \in Nat
    BY <1>0
  <2>3. Keys[p] \in k .. nkeys
    BY <1>0, <1>1, <1>5
  <2>4. b <= q
    BY <1>2, <2>1, <2>2, <2>3
  <2> QED
    BY <1>4, <2>2, <2>4
<1>6. ASSUME NEW p \in 0 .. n - 1, Keys[p] < k PROVE p < b
  <2> SUFFICES ASSUME ~(p < b) PROVE FALSE
    OBVIOUS
  <2>1. b # n /\ b <= p
    BY <1>0, <1>4
  <2>2. b \in 0 .. n - 1 /\ Keys[b] = h
    BY <1>3, <2>1
  <2>3. Keys[b] < Keys[p] \/ Keys[b] = Keys[p]
    BY <1>1, <2>1, <2>2
  <2>4. Keys[p] \in Nat /\ h >= k /\ h \in Nat
    BY <1>0, <1>1
  <2> QED
    BY <1>0, <1>6, <2>2, <2>3, <2>4
<1>7. \A p \in 0 .. n - 1 : p < b <=> Keys[p] < k
  <2> SUFFICES ASSUME NEW p \in 0 .. n - 1 PROVE p < b <=> Keys[p] < k
    OBVIOUS
  <2>1. Keys[p] < k \/ Keys[p] >= k
    BY <1>0, <1>1
  <2>2. Keys[p] >= k => ~(Keys[p] < k)
    BY <1>0, <1>1
  <2> QED
    BY <1>5, <1>6, <2>1, <2>2
<1> QED
  BY <1>4, <1>7 DEF StartsAt

LEMMA BoundPropagationStep ==
  ASSUME SortInv, Sorts, BoundPropagation
  PROVE  SortInv'
<1>1. /\ kernel = "find_starts" /\ written = 0 .. n - 1 /\ written' = {} /\ alg' = alg /\ kernel' = "bound"
      /\ arrays' = arrays /\ items' = BoundScan(arrays) /\ base_bit' = base_bit
  <2>1. ItemCount("find_starts") = n
    BY DEF ItemCount, Compacts
  <2> QED
    BY <2>1 DEF BoundPropagation, Enqueue_
<1>2. /\ alg \in Jobs /\ DOMAIN arrays = SortArrays /\ base_bit \in Nat /\ Permuted
      /\ SortedBits(alg.key_bits) /\ Found(0 .. n - 1) /\ n \in Nat /\ nkeys \in Nat \ {0} /\ alg.kind = "kvsort"
  BY <1>1, JobFacts DEF SortInv, Sorts
<1>3. ASSUME NEW i \in 0 .. nkeys PROVE StartsAt(items'[i], nkeys - i)
  <2> DEFINE k == nkeys - i
             T == {BoundInput(arrays, j) : j \in 0 .. i}
             least(b) == \A j \in 0 .. i : b <= BoundInput(arrays, j)
  <2>1. k \in 0 .. nkeys
    BY <1>2
  <2>2. \A j \in 0 .. i : nkeys - j \in k .. nkeys /\ BoundInput(arrays, j) = arrays["starts"][nkeys - j]
    BY <1>2 DEF BoundInput
  <2>3. \A g \in k .. nkeys : nkeys - g \in 0 .. i /\ arrays["starts"][g] = BoundInput(arrays, nkeys - g)
    <3> SUFFICES ASSUME NEW g \in k .. nkeys
                 PROVE  nkeys - g \in 0 .. i /\ arrays["starts"][g] = BoundInput(arrays, nkeys - g)
      OBVIOUS
    <3>1. nkeys - g \in 0 .. i /\ nkeys - (nkeys - g) = g
      BY <1>2
    <3> QED
      BY <3>1 DEF BoundInput
  <2>4. \A g \in k .. nkeys : arrays["starts"][g] \in Nat
    <3> SUFFICES ASSUME NEW g \in k .. nkeys PROVE arrays["starts"][g] \in Nat
      OBVIOUS
    <3>1. g \in 0 .. nkeys
      BY <1>2
    <3>2. CASE \A j \in 0 .. n - 1 : j \in 0 .. n - 1 /\ First(j) => Keys[j] # g
      BY <1>2, <3>1, <3>2 DEF Found
    <3>3. CASE \E j \in 0 .. n - 1 : First(j) /\ Keys[j] = g
      BY <1>2, <3>3 DEF Found
    <3> QED
      BY <3>2, <3>3
  <2>5. T \subseteq Nat /\ T # {}
    <3>1. \A j \in 0 .. i : BoundInput(arrays, j) \in Nat
      BY <2>2, <2>4
    <3>2. BoundInput(arrays, 0) \in T
      BY <1>2
    <3> QED
      BY <3>1, <3>2
  <2>6. \E b \in T : least(b)
    <3>1. \A j \in 0 .. i : BoundInput(arrays, j) \in T
      OBVIOUS
    <3>2. PICK b \in T : \A t \in T : b =< t
      <4> HIDE DEF T
      <4> QED
        BY <2>5, LeastNat
    <3> QED
      BY <3>1, <3>2
  <2> DEFINE c == CHOOSE b \in T : least(b)
  <2>7. c \in T /\ least(c)
    <3> HIDE DEF T, least
    <3> QED
      BY <2>6
  <2>8. items'[i] = c
    BY <1>1 DEF BoundScan
  <2> HIDE DEF c, k
  <2>9. PICK j \in 0 .. i : c = BoundInput(arrays, j)
    BY <2>7
  <2>10. nkeys - j \in k .. nkeys /\ c = arrays["starts"][nkeys - j]
    BY <2>2, <2>9
  <2>11. \A g \in k .. nkeys : c <= arrays["starts"][g]
    BY <2>3, <2>7
  <2>12. StartsAt(c, k)
    BY <1>2, <2>1, <2>10, <2>11, LeastStart DEF Sorts
  <2> QED
    BY <2>8, <2>12 DEF k
<1>4. n' = n /\ nkeys' = nkeys
  BY <1>1, SortFixed
<1>5. \A s, k : StartsAt(s, k)' <=> StartsAt(s, k)
  BY <1>1, <1>4 DEF StartsAt, Keys
<1>6. \A i \in 0 .. nkeys : StartsAt(items[i], nkeys - i)'
  BY <1>1, <1>3, <1>4 DEF StartsAt, Keys
<1>7. Permuted' /\ SortedBits(alg.key_bits)'
  BY <1>1, <1>2 DEF Permuted, SortedBits, Low, Ary, n, Vals, Keys
<1>8. Bounded(written)'
  BY <1>1, <1>2, <1>4 DEF Bounded, Found
<1> QED
  BY <1>1, <1>2, <1>4, <1>6, <1>7, <1>8 DEF SortInv

(* The output statements of the scan with min.                             *)
LEMMA BoundStep ==
  ASSUME SortInv, Sorts, kernel = "bound", NEW i, RunItem(i)
  PROVE  SortInv'
<1>0. /\ alg \in Jobs /\ DOMAIN arrays = SortArrays /\ base_bit \in Nat /\ Permuted
      /\ SortedBits(alg.key_bits) /\ Bounded(written) /\ n \in Nat /\ nkeys \in Nat \ {0} /\ alg.kind = "kvsort"
      /\ \A j \in 0 .. nkeys : StartsAt(items[j], nkeys - j)
  BY JobFacts DEF SortInv, Sorts
<1> DEFINE stores == BoundOutput(i)
<1>1. /\ i \in 0 .. nkeys /\ arrays' = Put(arrays, stores) /\ base_bit' = base_bit
      /\ written' = written \cup {i} /\ alg' = alg /\ kernel' = kernel /\ items' = items
  <2>1. ItemCount("bound") = nkeys + 1
    BY DEF ItemCount, Compacts
  <2>2. Output(i) = BoundOutput(i)
    BY DEF Output, Compacts
  <2> QED
    BY <1>0, <2>1, <2>2 DEF RunItem
<1>2. /\ StoresTo(stores, "starts") = {<<"starts", nkeys - i, items[i]>>}
      /\ StoresTo(stores, "values") = {} /\ StoresTo(stores, "keys") = {}
  BY DEF StoresTo, BoundOutput
<1> HIDE DEF stores
<1>3. "values" \in DOMAIN arrays /\ "keys" \in DOMAIN arrays /\ "starts" \in DOMAIN arrays
  BY <1>0 DEF SortArrays
<1>4. Same("values") /\ Same("keys")
  BY <1>1, <1>2, <1>3, PutNothing
<1>5. /\ Permuted' /\ n' = n /\ nkeys' = nkeys
      /\ \A j \in 0 .. n - 1 : Vals'[j] = Vals[j] /\ Keys'[j] = Keys[j]
  BY <1>0, <1>1, <1>4, KeysKept, SortFixed
<1>6. SortedBits(alg.key_bits)'
  BY <1>0, <1>1, <1>4, WholeKept
<1>7. DOMAIN arrays["starts"] = 0 .. nkeys /\ nkeys - i \in 0 .. nkeys
  BY <1>0, <1>1 DEF Bounded
<1>8. /\ DOMAIN arrays'["starts"] = 0 .. nkeys /\ arrays'["starts"][nkeys - i] = items[i]
      /\ \A y \in 0 .. nkeys : y # nkeys - i => arrays'["starts"][y] = arrays["starts"][y]
  <2> DEFINE x == nkeys - i
             v == items[i]
  <2>1. StoresTo(stores, "starts") = {<<"starts", x, v>>} /\ x \in DOMAIN arrays["starts"]
    BY <1>2, <1>7
  <2> HIDE DEF x, v
  <2>2. /\ DOMAIN arrays'["starts"] = DOMAIN arrays["starts"] /\ arrays'["starts"][x] = v
        /\ \A y \in DOMAIN arrays["starts"] : y # x => arrays'["starts"][y] = arrays["starts"][y]
    BY <1>1, <1>3, <2>1, PutAt
  <2> QED
    BY <1>7, <2>2 DEF x, v
<1>9. \A j \in 0 .. nkeys : j \in written' => StartsAt(arrays'["starts"][nkeys - j], nkeys - j)
  <2> SUFFICES ASSUME NEW j \in 0 .. nkeys, j \in written'
               PROVE  StartsAt(arrays'["starts"][nkeys - j], nkeys - j)
    OBVIOUS
  <2>1. CASE j = i
    BY <1>0, <1>8, <2>1
  <2>2. CASE j # i
    <3>1. j \in written /\ nkeys - j # nkeys - i /\ nkeys - j \in 0 .. nkeys
      BY <1>0, <1>1, <2>2
    <3>2. arrays'["starts"][nkeys - j] = arrays["starts"][nkeys - j]
      BY <1>8, <3>1
    <3> QED
      BY <1>0, <3>1, <3>2 DEF Bounded
  <2> QED
    BY <2>1, <2>2
<1>10. \A s, k : StartsAt(s, k)' <=> StartsAt(s, k)
  BY <1>5 DEF StartsAt
<1>11. Bounded(written)'
  BY <1>5, <1>8, <1>9, <1>10 DEF Bounded, StartsAt
<1>12. \A j \in 0 .. nkeys' : StartsAt(items[j], nkeys - j)'
  BY <1>0, <1>1, <1>5 DEF StartsAt
<1>13. DOMAIN arrays' = SortArrays
  BY <1>0, <1>1, PutDomains
<1> QED
  BY <1>0, <1>1, <1>5, <1>6, <1>11, <1>12, <1>13 DEF SortInv

LEMMA StartsFoundStep ==
  ASSUME SortInv, Sorts, StartsFound
  PROVE  SortInv'
<1>1. /\ kernel = "bound" /\ written = 0 .. nkeys /\ alg' = alg /\ kernel' = "done"
      /\ arrays' = arrays /\ base_bit' = base_bit
  <2>1. ItemCount("bound") = nkeys + 1 /\ nkeys \in Nat
    BY JobFacts DEF ItemCount, Compacts, Sorts
  <2> QED
    BY <2>1 DEF StartsFound, Enqueue_
<1>2. /\ alg \in Jobs /\ DOMAIN arrays = SortArrays /\ base_bit \in Nat /\ Permuted
      /\ SortedBits(alg.key_bits) /\ Bounded(0 .. nkeys)
  BY <1>1 DEF SortInv, Sorts
<1>3. Permuted' /\ SortedBits(alg.key_bits)'
  BY <1>1, <1>2 DEF Permuted, SortedBits, Low, Ary, n, Vals, Keys
<1>4. Bounded(0 .. nkeys)'
  BY <1>1, <1>2 DEF Bounded, StartsAt, n, nkeys, Keys
<1> QED
  BY <1>1, <1>2, <1>3, <1>4 DEF SortInv

LEMMA SortStarts ==
  ASSUME AlgInit
  PROVE  SortInv
<1> SUFFICES ASSUME Sorts PROVE SortInv
  BY DEF SortInv, Sorts, AlgInit
<1>1. /\ kernel = "radix" /\ written = {} /\ base_bit = 0 /\ items = Histogram(arrays, 0)
      /\ arrays = [values |-> [i \in 0 .. n - 1 |-> i], keys |-> [i \in 0 .. n - 1 |-> Ary(i)],
                   sorted_values |-> Raw(n), sorted_keys |-> Raw(n), starts |-> Raw(nkeys + 1)]
  BY DEF AlgInit, Sorts, Sorters, Compacts
<1>2. n \in Nat /\ \A e \in 0 .. n - 1 : Ary(e) \in Nat
  BY JobFacts DEF Sorts
<1>3. DOMAIN arrays = SortArrays /\ Permuted /\ Moved(written)
  BY <1>1, <1>2 DEF SortArrays, Permuted, Moved, Vals, Keys, Raw
<1>4. SortedBits(base_bit)
  <2>1. \A e \in 0 .. n - 1 : Low(e, 0) = 0
    <3>1. \A x \in Nat : x % 1 = 0
      OBVIOUS
    <3> QED
      BY <1>2, <3>1, Pow2Def DEF Low
  <2> QED
    BY <1>1, <1>2, <2>1 DEF SortedBits, Vals
<1>5. Counted
  <2> SUFFICES ASSUME NEW i \in 0 .. n - 1, NEW d \in Bins
               PROVE  items[i][d] = Cardinality({j \in 0 .. i : Digit[j] = d})
    BY DEF Counted
  <2>1. \A j \in 0 .. n - 1 : Digit[j] = BIN_NR(arrays, 0, j)
    BY <1>1 DEF Digit
  <2>2. \A j \in 0 .. i : j \in 0 .. n - 1
    BY <1>2
  <2>3. items[i][d] = Cardinality({j \in 0 .. i : BIN_NR(arrays, 0, j) = d})
    BY <1>1 DEF Histogram
  <2>4. {j \in 0 .. i : BIN_NR(arrays, 0, j) = d} = {j \in 0 .. i : Digit[j] = d}
    BY <2>1, <2>2
  <2> QED
    BY <2>3, <2>4
<1> QED
  BY <1>1, <1>3, <1>4, <1>5 DEF SortInv, Sorts

LEMMA SortStutters ==
  ASSUME SortInv, UNCHANGED algvars
  PROVE  SortInv'
<1>0. /\ alg' = alg /\ kernel' = kernel /\ written' = written /\ items' = items /\ arrays' = arrays
      /\ base_bit' = base_bit
  BY DEF algvars
<1>1. n' = n /\ nkeys' = nkeys /\ Bins' = Bins /\ Vals' = Vals /\ Keys' = Keys /\ Digit' = Digit
  BY <1>0 DEF n, nkeys, Bins, Vals, Keys, Digit, BIN_NR
<1>2. (Permuted' <=> Permuted) /\ (Counted' <=> Counted)
  BY <1>0, <1>1 DEF Permuted, Counted, Ary
<1>3. /\ SortedBits(base_bit)' <=> SortedBits(base_bit)
      /\ SortedBits(alg.key_bits)' <=> SortedBits(alg.key_bits)
  BY <1>0, <1>1 DEF SortedBits, Low, Ary
<1>4. Moved(written)' <=> Moved(written)
  BY <1>0, <1>1 DEF Moved
<1>5. Found(written)' <=> Found(written)
  BY <1>0, <1>1 DEF Found, First
<1>6. /\ Bounded(written)' <=> Bounded(written)
      /\ Bounded(0 .. nkeys)' <=> Bounded(0 .. nkeys)
      /\ (\A i \in 0 .. nkeys : StartsAt(items[i], nkeys - i))' <=> \A i \in 0 .. nkeys : StartsAt(items[i], nkeys - i)
  BY <1>0, <1>1 DEF Bounded, StartsAt
<1> QED
  BY <1>0, <1>1, <1>2, <1>3, <1>4, <1>5, <1>6 DEF SortInv

(* The values of key k, by the starts.                                     *)
Bounds(k) == arrays["starts"][k] .. arrays["starts"][k + 1] - 1

LEMMA NamesAre ==
  ASSUME Sorts
  PROVE  \A v, k : <<v, k>>[Index("values")] = v /\ <<v, k>>[Index("keys")] = k
BY IndexIs

(* Different numbers below m on m places: all of them.                     *)
LEMMA EveryNumberIsTaken ==
  ASSUME NEW m \in Nat, NEW v, \A i \in 0 .. m - 1 : v[i] \in 0 .. m - 1,
         \A i, j \in 0 .. m - 1 : i # j => v[i] # v[j]
  PROVE  {v[i] : i \in 0 .. m - 1} = 0 .. m - 1
<1> DEFINE S == 0 .. m - 1
           f == [i \in S |-> v[i]]
<1>1. IsFiniteSet(S)
  BY FS_Interval
<1>2. f \in [S -> S] /\ \A i \in S : f[i] = v[i]
  OBVIOUS
<1>3. \A i, j \in S : f[i] = f[j] => i = j
  BY <1>2
<1> HIDE DEF S, f
<1>4. f \in Injection(S, S)
  BY <1>2, <1>3 DEF Injection, IsInjective
<1>5. f \in Surjection(S, S)
  BY <1>1, <1>4, FS_Injection
<1>6. \A t \in S : \E i \in S : v[i] = t
  BY <1>2, <1>5 DEF Surjection
<1> QED
  BY <1>6 DEF S

(* Whatever the keys, the width of the digits and the order in which the   *)
(* output statements run: the radix sort of values and keys, named in      *)
(* their order, returns a permutation of the elements in the order of      *)
(* their keys, equal keys in the order they had; and the starts of the     *)
(* KeyValueSorter delimit the values of every key, those without values    *)
(* too.                                                                    *)
THEOREM SortingIsStable == AlgSpec => []SortedByKey
<1>1. AlgInit => SortInv
  BY SortStarts
<1>2. SortInv /\ [AlgNext]_algvars => SortInv'
  <2> SUFFICES ASSUME SortInv, [AlgNext]_algvars PROVE SortInv'
    OBVIOUS
  <2>1. CASE UNCHANGED algvars
    BY <2>1, SortStutters
  <2>2. CASE AlgNext /\ ~Sorts
    <3>1. alg' = alg
      BY <2>2 DEF AlgNext, RunItem, CompactEnds, NextPass, LastPass, BoundPropagation, StartsFound, CompressCounts,
                  ScanAllCounts, ScanCompressedCounts, ScanCounts, FillLists, ListsBuilt, Enqueue_
    <3> QED
      BY <2>2, <3>1 DEF SortInv, Sorts
  <2>3. CASE AlgNext /\ Sorts
    <3>1. kernel \in {"radix", "find_starts", "bound", "done"}
      BY <2>3 DEF SortInv, Sorts
    <3>2. kernel \notin Compacts /\ kernel \notin {"count", "compress", "starts", "write"}
      BY <3>1 DEF Compacts
    <3>3. ASSUME NEW i, RunItem(i) PROVE SortInv'
      <4>1. kernel # "done"
        BY <3>3 DEF RunItem
      <4> QED
        BY <2>3, <3>1, <3>3, <4>1, RadixStep, FindStep, BoundStep
    <3>4. \/ \E i \in 0 .. ItemCount(kernel) - 1 : RunItem(i)
          \/ NextPass \/ LastPass \/ BoundPropagation \/ StartsFound
      BY <2>3, <3>2 DEF AlgNext, CompactEnds, CompressCounts, ScanAllCounts, ScanCompressedCounts, ScanCounts,
                        FillLists, ListsBuilt, Enqueue_
    <3> QED
      BY <2>3, <3>3, <3>4, NextPassStep, LastPassStep, BoundPropagationStep, StartsFoundStep
  <2> QED
    BY <2>1, <2>2, <2>3
<1>3. SortInv => SortedByKey
  <2> SUFFICES ASSUME SortInv, kernel = "done", Sorts
               PROVE  /\ SortedStably
                      /\ alg.kind = "kvsort" =>
                           \A k \in 0 .. nkeys - 1 :
                             Bounds(k) = {i \in 0 .. n - 1 : Keys[i] = k}
    BY DEF SortedByKey, Sorts, Sorters, SortInv, Bounds, Keys
  <2>1. /\ Permuted /\ SortedBits(alg.key_bits) /\ n \in Nat /\ nkeys \in Nat
        /\ alg.kind = "kvsort" => Bounded(0 .. nkeys)
    BY JobFacts DEF SortInv, Sorts
  <2>2. /\ \A i \in 0 .. n - 1 : Keys[i] \in 0 .. nkeys - 1
        /\ \A i, j \in 0 .. n - 1 : i < j => \/ Keys[i] < Keys[j]
                                             \/ Keys[i] = Keys[j] /\ Vals[i] < Vals[j]
    BY <2>1, KeysAreSorted
  <2>3. SortedStably
    <3>1. /\ <<Vals, Keys>>[Index("values")] = Vals /\ <<Vals, Keys>>[Index("keys")] = Keys
      BY NamesAre
    <3>2. /\ \A i \in 0 .. n - 1 : Vals[i] \in 0 .. n - 1 /\ Keys[i] = Ary(Vals[i])
      BY <2>1 DEF Permuted
    <3>3. {Vals[i] : i \in 0 .. n - 1} = 0 .. n - 1
      <4>1. \A i, j \in 0 .. n - 1 : i # j => Vals[i] # Vals[j]
        <5>1. \A i, j \in 0 .. n - 1 : i < j => Vals[i] # Vals[j]
          <6> SUFFICES ASSUME NEW i \in 0 .. n - 1, NEW j \in 0 .. n - 1, i < j PROVE Vals[i] # Vals[j]
            OBVIOUS
          <6>1. Keys[i] < Keys[j] \/ Vals[i] < Vals[j]
            BY <2>2
          <6>2. Keys[i] \in Nat /\ Keys[j] \in Nat /\ Vals[i] \in Nat /\ Vals[j] \in Nat
            BY <2>1, <2>2, <3>2
          <6> QED
            BY <3>2, <6>1, <6>2
        <5>2. \A i, j \in 0 .. n - 1 : i # j => i < j \/ j < i
          OBVIOUS
        <5> QED
          BY <5>1, <5>2
      <4> QED
        BY <2>1, <3>2, <4>1, EveryNumberIsTaken
    <3>4. \A i \in 0 .. n - 2 : /\ i \in 0 .. n - 1 /\ i + 1 \in 0 .. n - 1 /\ i < i + 1
      BY <2>1
    <3>5. \A i \in 0 .. n - 2 : Ary(Vals[i]) < Ary(Vals[i + 1])
            \/ (Ary(Vals[i]) = Ary(Vals[i + 1]) /\ Vals[i] < Vals[i + 1])
      BY <2>2, <3>2, <3>4
    <3> QED
      BY <3>1, <3>2, <3>3, <3>5 DEF SortedStably, Vals, Keys
  <2>4. ASSUME alg.kind = "kvsort", NEW k \in 0 .. nkeys - 1
        PROVE  Bounds(k) = {i \in 0 .. n - 1 : Keys[i] = k}
    <3> DEFINE s == arrays["starts"][k]
               t == arrays["starts"][k + 1]
    <3>1. StartsAt(s, k) /\ StartsAt(t, k + 1)
      <4>1. /\ nkeys - k \in 0 .. nkeys /\ nkeys - (nkeys - k) = k
            /\ nkeys - (k + 1) \in 0 .. nkeys /\ nkeys - (nkeys - (k + 1)) = k + 1
        BY <2>1
      <4>2. \A j \in 0 .. nkeys : StartsAt(arrays["starts"][nkeys - j], nkeys - j)
        BY <2>1, <2>4 DEF Bounded
      <4>3. StartsAt(arrays["starts"][nkeys - (nkeys - k)], nkeys - (nkeys - k))
        BY <4>1, <4>2
      <4>4. StartsAt(arrays["starts"][nkeys - (nkeys - (k + 1))], nkeys - (nkeys - (k + 1)))
        BY <4>1, <4>2
      <4> QED
        BY <4>1, <4>3, <4>4
    <3>2. s \in 0 .. n /\ t \in 0 .. n /\ \A i \in 0 .. n - 1 : (i < s <=> Keys[i] < k) /\ (i < t <=> Keys[i] < k + 1)
      BY <3>1 DEF StartsAt
    <3> HIDE DEF s, t
    <3>3. \A i \in s .. t - 1 : i \in 0 .. n - 1
      BY <2>1, <3>2
    <3>4. \A i \in 0 .. n - 1 : Keys[i] \in Nat
      BY <2>1, <2>2
    <3>5. \A i \in 0 .. n - 1 : i \in s .. t - 1 <=> Keys[i] = k
      <4> SUFFICES ASSUME NEW i \in 0 .. n - 1 PROVE i \in s .. t - 1 <=> Keys[i] = k
        OBVIOUS
      <4>1. Keys[i] = k <=> ~(Keys[i] < k) /\ Keys[i] < k + 1
        BY <2>1, <3>4
      <4>2. i \in s .. t - 1 <=> ~(i < s) /\ i < t
        BY <2>1, <3>2
      <4> QED
        BY <3>2, <4>1, <4>2
    <3>6. s .. t - 1 = {i \in 0 .. n - 1 : Keys[i] = k}
      BY <3>3, <3>5
    <3> QED
      BY <3>6 DEF Bounds, s, t
  <2> QED
    BY <2>3, <2>4
<1> QED
  BY <1>1, <1>2, <1>3, PTL DEF AlgSpec

-----------------------------------------------------------------------------
(* Event callbacks: the safety of event::set_callback, for every set of    *)
(* calls.                                                                  *)
(*                                                                         *)
(* The argument: the flag m_notify_thread_wakeup_is_genuine is set by      *)
(* exactly one of evt_callback (then registering succeeded and the event   *)
(* is complete) and the failure handler (then it did not); a notification  *)
(* thread is past its wait only if the flag is set; and the GIL keeps it   *)
(* from deleting cb_info between the handler's two steps.                  *)

(* Types without the bound on the number of calls.                         *)
CallbackShape ==
  /\ gil \in {Free, SetterThr} \cup {Py(c) : c \in Callbacks} \cup {Notif(c) : c \in Callbacks}
  /\ complete \in BOOLEAN /\ crashed \in BOOLEAN
  /\ setter \in {"idle", "in_call", "returned"}
  /\ reg \in [Callbacks -> {"idle", "spawned", "in_call", "returned", "failed", "notifying", "threw"}]
  /\ drv \in [Callbacks -> {"idle", "registered", "notifying", "done"}]
  /\ host \in [Callbacks -> {"none", "runtime", "reg", "setter"}]
  /\ ntf \in [Callbacks -> {"none", "locking", "testing", "waiting", "woken",
                            "in_python", "deleting", "gone"}]
  /\ info \in [Callbacks -> {"none", "alive", "deleted"}]
  /\ m_mutex \in [Callbacks -> {"free", "notif"}]
  /\ genuine \in [Callbacks -> BOOLEAN]
  /\ succeeded \in [Callbacks -> BOOLEAN]
  /\ status \in [Callbacks -> {"unset", "complete"}]
  /\ calls \in [Callbacks -> Nat]

(* Who has run which part of the protocol of call c.                       *)
Protocol(c) ==
  /\ drv[c] # "idle" => reg[c] \in {"in_call", "returned"}
  /\ drv[c] \in {"notifying", "done"} => complete /\ status[c] = "complete" /\ genuine[c]
  /\ reg[c] \in {"notifying", "threw"} => genuine[c] /\ ~succeeded[c]
  /\ genuine[c] => drv[c] \in {"notifying", "done"} \/ reg[c] \in {"notifying", "threw"}
  /\ ntf[c] \in {"woken", "in_python", "deleting", "gone"} => genuine[c]
  /\ reg[c] = "idle" => ntf[c] = "none" /\ info[c] = "none"

(* What the notification thread has done.                                  *)
Outcome(c) ==
  /\ calls[c] # 0 => /\ calls[c] = 1
                     /\ ntf[c] \in {"deleting", "gone"}
                     /\ drv[c] \in {"notifying", "done"}
  /\ info[c] = "deleted" => ntf[c] = "gone"
  /\ ntf[c] \in {"in_python", "deleting", "gone"} => reg[c] # "notifying"

(* Who holds the GIL.                                                      *)
Gil(c) ==
  /\ reg[c] \in {"spawned", "in_call", "failed", "notifying"} <=> gil = Py(c)
  /\ ntf[c] \in {"in_python", "deleting"} <=> gil = Notif(c)

CallbackInv ==
  /\ CallbackShape
  /\ \A c \in Callbacks : Protocol(c) /\ Outcome(c) /\ Gil(c)
  /\ setter = "in_call" <=> gil = SetterThr

(* The names of the threads are distinct.                                  *)
LEMMA Names ==
  ASSUME NEW c \in Callbacks, NEW d \in Callbacks
  PROVE  /\ Py(c) # Free /\ Notif(c) # Free /\ SetterThr # Free
         /\ Py(c) # Notif(d) /\ Py(c) # SetterThr /\ Notif(c) # SetterThr
         /\ Py(c) = Py(d) => c = d
         /\ Notif(c) = Notif(d) => c = d
BY DEF Py, Notif, Free, SetterThr

LEMMA InitIInv == Init => CallbackInv
<1> SUFFICES ASSUME Init PROVE CallbackInv
  OBVIOUS
<1>1. CallbackShape
  BY DEF Init, CallbackShape
<1>2. \A c \in Callbacks : Protocol(c) /\ Outcome(c) /\ Gil(c)
  BY Names DEF Init, Protocol, Outcome, Gil
<1>3. setter = "in_call" <=> gil = SetterThr
  BY DEF Init, Free, SetterThr
<1> QED
  BY <1>1, <1>2, <1>3 DEF CallbackInv

-----------------------------------------------------------------------------
(* The registering thread.                                                 *)
LEMMA SpawnIInv == ASSUME CallbackInv, NEW c \in Callbacks, Spawn(c) PROVE CallbackInv'
<1> USE DEF CallbackInv
<1>1. CallbackShape'
  BY DEF CallbackShape, Spawn
<1>2. ASSUME NEW d \in Callbacks PROVE (Protocol(d) /\ Outcome(d))'
  BY Names DEF CallbackShape, Protocol, Outcome, Gil, Spawn, GilFree
<1>3. ASSUME NEW d \in Callbacks PROVE Gil(d)'
  BY Names DEF CallbackShape, Gil, Protocol, Spawn, GilFree
<1>4. (setter = "in_call" <=> gil = SetterThr)'
  BY Names DEF CallbackShape, Gil, Spawn, GilFree
<1> QED
  BY <1>1, <1>2, <1>3, <1>4

LEMMA RegisterIInv == ASSUME CallbackInv, NEW c \in Callbacks, Register(c) PROVE CallbackInv'
<1> USE DEF CallbackInv
<1>1. CallbackShape'
  BY DEF CallbackShape, Register
<1>2. ASSUME NEW d \in Callbacks PROVE (Protocol(d) /\ Outcome(d))'
  BY DEF CallbackShape, Protocol, Outcome, Gil, Register
<1>3. ASSUME NEW d \in Callbacks PROVE Gil(d)'
  BY Names DEF CallbackShape, Gil, Protocol, Register
<1>4. (setter = "in_call" <=> gil = SetterThr)'
  BY Names DEF CallbackShape, Gil, Register
<1> QED
  BY <1>1, <1>2, <1>3, <1>4

LEMMA RegisterReturnsIInv == ASSUME CallbackInv, NEW c \in Callbacks, RegisterReturns(c) PROVE CallbackInv'
<1> USE DEF CallbackInv
<1>1. CallbackShape'
  BY DEF CallbackShape, RegisterReturns
<1>2. ASSUME NEW d \in Callbacks PROVE (Protocol(d) /\ Outcome(d))'
  BY DEF CallbackShape, Protocol, Outcome, Gil, RegisterReturns
<1>3. ASSUME NEW d \in Callbacks PROVE Gil(d)'
  BY Names DEF CallbackShape, Gil, Protocol, RegisterReturns
<1>4. (setter = "in_call" <=> gil = SetterThr)'
  BY Names DEF CallbackShape, Gil, RegisterReturns
<1> QED
  BY <1>1, <1>2, <1>3, <1>4

LEMMA RegisterFailsIInv == ASSUME CallbackInv, NEW c \in Callbacks, RegisterFails(c) PROVE CallbackInv'
<1> USE DEF CallbackInv
<1>1. CallbackShape'
  BY DEF CallbackShape, RegisterFails
<1>2. ASSUME NEW d \in Callbacks PROVE (Protocol(d) /\ Outcome(d))'
  BY DEF CallbackShape, Protocol, Outcome, Gil, RegisterFails
<1>3. ASSUME NEW d \in Callbacks PROVE Gil(d)'
  BY Names DEF CallbackShape, Gil, Protocol, RegisterFails
<1>4. (setter = "in_call" <=> gil = SetterThr)'
  BY Names DEF CallbackShape, Gil, RegisterFails
<1> QED
  BY <1>1, <1>2, <1>3, <1>4

LEMMA FailureStoresIInv == ASSUME CallbackInv, NEW c \in Callbacks, FailureStores(c) PROVE CallbackInv'
<1> USE DEF CallbackInv
<1>1. CallbackShape'
  BY DEF CallbackShape, FailureStores
<1>2. ASSUME NEW d \in Callbacks PROVE (Protocol(d) /\ Outcome(d))'
  BY DEF CallbackShape, Protocol, Outcome, Gil, FailureStores
<1>3. ASSUME NEW d \in Callbacks PROVE Gil(d)'
  BY Names DEF CallbackShape, Gil, Protocol, FailureStores
<1>4. (setter = "in_call" <=> gil = SetterThr)'
  BY Names DEF CallbackShape, Gil, FailureStores
<1> QED
  BY <1>1, <1>2, <1>3, <1>4

LEMMA FailureNotifiesIInv == ASSUME CallbackInv, NEW c \in Callbacks, FailureNotifies(c) PROVE CallbackInv'
<1> USE DEF CallbackInv
<1>1. CallbackShape'
  BY DEF CallbackShape, FailureNotifies, NotifyOne
<1>2. ASSUME NEW d \in Callbacks PROVE (Protocol(d) /\ Outcome(d))'
  BY DEF CallbackShape, Protocol, Outcome, Gil, FailureNotifies, NotifyOne
<1>3. ASSUME NEW d \in Callbacks PROVE Gil(d)'
  BY Names DEF CallbackShape, Gil, Protocol, FailureNotifies, NotifyOne
<1>4. (setter = "in_call" <=> gil = SetterThr)'
  BY Names DEF CallbackShape, Gil, FailureNotifies, NotifyOne
<1> QED
  BY <1>1, <1>2, <1>3, <1>4

-----------------------------------------------------------------------------
(* The runtime.                                                            *)
LEMMA DriverStoresIInv == ASSUME CallbackInv, NEW c \in Callbacks, DriverStores(c) PROVE CallbackInv'
<1> USE DEF CallbackInv
<1>1. CallbackShape'
  BY DEF CallbackShape, DriverStores
<1>2. ASSUME NEW d \in Callbacks PROVE (Protocol(d) /\ Outcome(d))'
  BY DEF CallbackShape, Protocol, Outcome, Gil, DriverStores
<1>3. ASSUME NEW d \in Callbacks PROVE Gil(d)'
  BY Names DEF CallbackShape, Gil, Protocol, DriverStores
<1>4. (setter = "in_call" <=> gil = SetterThr)'
  BY Names DEF CallbackShape, Gil, DriverStores
<1> QED
  BY <1>1, <1>2, <1>3, <1>4

LEMMA DriverNotifiesIInv == ASSUME CallbackInv, NEW c \in Callbacks, DriverNotifies(c) PROVE CallbackInv'
<1> USE DEF CallbackInv
<1>1. CallbackShape'
  BY DEF CallbackShape, DriverNotifies, NotifyOne
<1>2. ASSUME NEW d \in Callbacks PROVE (Protocol(d) /\ Outcome(d))'
  BY DEF CallbackShape, Protocol, Outcome, Gil, DriverNotifies, NotifyOne
<1>3. ASSUME NEW d \in Callbacks PROVE Gil(d)'
  BY Names DEF CallbackShape, Gil, Protocol, DriverNotifies, NotifyOne
<1>4. (setter = "in_call" <=> gil = SetterThr)'
  BY Names DEF CallbackShape, Gil, DriverNotifies, NotifyOne
<1> QED
  BY <1>1, <1>2, <1>3, <1>4

LEMMA DriverNotifiesFreedIInv == ASSUME CallbackInv, NEW c \in Callbacks, DriverNotifiesFreed(c) PROVE CallbackInv'
<1> USE DEF CallbackInv
<1>1. CallbackShape'
  BY DEF CallbackShape, DriverNotifiesFreed
<1>2. ASSUME NEW d \in Callbacks PROVE (Protocol(d) /\ Outcome(d))'
  BY DEF CallbackShape, Protocol, Outcome, Gil, DriverNotifiesFreed
<1>3. ASSUME NEW d \in Callbacks PROVE Gil(d)'
  BY Names DEF CallbackShape, Gil, Protocol, DriverNotifiesFreed
<1>4. (setter = "in_call" <=> gil = SetterThr)'
  BY Names DEF CallbackShape, Gil, DriverNotifiesFreed
<1> QED
  BY <1>1, <1>2, <1>3, <1>4

-----------------------------------------------------------------------------
(* The notification thread.                                                *)
LEMMA NotifLocksIInv == ASSUME CallbackInv, NEW c \in Callbacks, NotifLocks(c) PROVE CallbackInv'
<1> USE DEF CallbackInv
<1>1. CallbackShape'
  BY DEF CallbackShape, NotifLocks
<1>2. ASSUME NEW d \in Callbacks PROVE (Protocol(d) /\ Outcome(d))'
  BY DEF CallbackShape, Protocol, Outcome, Gil, NotifLocks
<1>3. ASSUME NEW d \in Callbacks PROVE Gil(d)'
  BY Names DEF CallbackShape, Gil, Protocol, NotifLocks
<1>4. (setter = "in_call" <=> gil = SetterThr)'
  BY Names DEF CallbackShape, Gil, NotifLocks
<1> QED
  BY <1>1, <1>2, <1>3, <1>4

LEMMA NotifWaitsIInv == ASSUME CallbackInv, NEW c \in Callbacks, NotifWaits(c) PROVE CallbackInv'
<1> USE DEF CallbackInv
<1>1. CallbackShape'
  BY DEF CallbackShape, NotifWaits
<1>2. ASSUME NEW d \in Callbacks PROVE (Protocol(d) /\ Outcome(d))'
  BY DEF CallbackShape, Protocol, Outcome, Gil, NotifWaits
<1>3. ASSUME NEW d \in Callbacks PROVE Gil(d)'
  BY Names DEF CallbackShape, Gil, Protocol, NotifWaits
<1>4. (setter = "in_call" <=> gil = SetterThr)'
  BY Names DEF CallbackShape, Gil, NotifWaits
<1> QED
  BY <1>1, <1>2, <1>3, <1>4

LEMMA NotifProceedsIInv == ASSUME CallbackInv, NEW c \in Callbacks, NotifProceeds(c) PROVE CallbackInv'
<1> USE DEF CallbackInv
<1>1. CallbackShape'
  BY DEF CallbackShape, NotifProceeds
<1>2. ASSUME NEW d \in Callbacks PROVE (Protocol(d) /\ Outcome(d))'
  BY DEF CallbackShape, Protocol, Outcome, Gil, NotifProceeds
<1>3. ASSUME NEW d \in Callbacks PROVE Gil(d)'
  BY Names DEF CallbackShape, Gil, Protocol, NotifProceeds
<1>4. (setter = "in_call" <=> gil = SetterThr)'
  BY Names DEF CallbackShape, Gil, NotifProceeds
<1> QED
  BY <1>1, <1>2, <1>3, <1>4

LEMMA SpuriousWakeupIInv == ASSUME CallbackInv, NEW c \in Callbacks, SpuriousWakeup(c) PROVE CallbackInv'
<1> USE DEF CallbackInv
<1>1. CallbackShape'
  BY DEF CallbackShape, SpuriousWakeup
<1>2. ASSUME NEW d \in Callbacks PROVE (Protocol(d) /\ Outcome(d))'
  BY DEF CallbackShape, Protocol, Outcome, Gil, SpuriousWakeup
<1>3. ASSUME NEW d \in Callbacks PROVE Gil(d)'
  BY Names DEF CallbackShape, Gil, Protocol, SpuriousWakeup
<1>4. (setter = "in_call" <=> gil = SetterThr)'
  BY Names DEF CallbackShape, Gil, SpuriousWakeup
<1> QED
  BY <1>1, <1>2, <1>3, <1>4

LEMMA NotifTakesGilIInv == ASSUME CallbackInv, NEW c \in Callbacks, NotifTakesGil(c) PROVE CallbackInv'
<1> USE DEF CallbackInv
<1>1. CallbackShape'
  BY DEF CallbackShape, NotifTakesGil
<1>2. ASSUME NEW d \in Callbacks PROVE (Protocol(d) /\ Outcome(d))'
  BY Names DEF CallbackShape, Protocol, Outcome, Gil, NotifTakesGil, GilFree
<1>3. ASSUME NEW d \in Callbacks PROVE Gil(d)'
  BY Names DEF CallbackShape, Gil, Protocol, NotifTakesGil, GilFree
<1>4. (setter = "in_call" <=> gil = SetterThr)'
  BY Names DEF CallbackShape, Gil, NotifTakesGil, GilFree
<1> QED
  BY <1>1, <1>2, <1>3, <1>4

LEMMA NotifCallsIInv == ASSUME CallbackInv, NEW c \in Callbacks, NotifCalls(c) PROVE CallbackInv'
<1> USE DEF CallbackInv
<1>1. CallbackShape'
  BY DEF CallbackShape, NotifCalls
<1>2. ASSUME NEW d \in Callbacks PROVE (Protocol(d) /\ Outcome(d))'
  BY DEF CallbackShape, Protocol, Outcome, Gil, NotifCalls
<1>3. ASSUME NEW d \in Callbacks PROVE Gil(d)'
  BY Names DEF CallbackShape, Gil, Protocol, NotifCalls
<1>4. (setter = "in_call" <=> gil = SetterThr)'
  BY Names DEF CallbackShape, Gil, NotifCalls
<1> QED
  BY <1>1, <1>2, <1>3, <1>4

LEMMA NotifDeletesIInv == ASSUME CallbackInv, NEW c \in Callbacks, NotifDeletes(c) PROVE CallbackInv'
<1> USE DEF CallbackInv
<1>1. CallbackShape'
  BY DEF CallbackShape, NotifDeletes
<1>2. ASSUME NEW d \in Callbacks PROVE (Protocol(d) /\ Outcome(d))'
  BY DEF CallbackShape, Protocol, Outcome, Gil, NotifDeletes
<1>3. ASSUME NEW d \in Callbacks PROVE Gil(d)'
  BY Names DEF CallbackShape, Gil, Protocol, NotifDeletes
<1>4. (setter = "in_call" <=> gil = SetterThr)'
  BY Names DEF CallbackShape, Gil, NotifDeletes
<1> QED
  BY <1>1, <1>2, <1>3, <1>4

LEMMA DeviceCompletesIInv == ASSUME CallbackInv, DeviceCompletes PROVE CallbackInv'
<1> USE DEF CallbackInv
<1>1. CallbackShape'
  BY DEF CallbackShape, DeviceCompletes
<1>2. ASSUME NEW d \in Callbacks PROVE (Protocol(d) /\ Outcome(d))'
  BY DEF CallbackShape, Protocol, Outcome, DeviceCompletes
<1>3. ASSUME NEW d \in Callbacks PROVE Gil(d)'
  BY Names DEF CallbackShape, Gil, Protocol, DeviceCompletes
<1>4. (setter = "in_call" <=> gil = SetterThr)'
  BY Names DEF CallbackShape, Gil, DeviceCompletes
<1> QED
  BY <1>1, <1>2, <1>3, <1>4

LEMMA SetStatusIInv == ASSUME CallbackInv, SetStatus PROVE CallbackInv'
<1> USE DEF CallbackInv
<1>1. CallbackShape'
  BY DEF CallbackShape, SetStatus
<1>2. ASSUME NEW d \in Callbacks PROVE (Protocol(d) /\ Outcome(d))'
  BY DEF CallbackShape, Protocol, Outcome, SetStatus
<1>3. ASSUME NEW d \in Callbacks PROVE Gil(d)'
  BY Names DEF CallbackShape, Gil, Protocol, SetStatus, GilFree
<1>4. (setter = "in_call" <=> gil = SetterThr)'
  BY Names DEF CallbackShape, Gil, SetStatus, GilFree
<1> QED
  BY <1>1, <1>2, <1>3, <1>4

LEMMA SetStatusReturnsIInv == ASSUME CallbackInv, SetStatusReturns PROVE CallbackInv'
<1> USE DEF CallbackInv
<1>1. CallbackShape'
  BY DEF CallbackShape, SetStatusReturns
<1>2. ASSUME NEW d \in Callbacks PROVE (Protocol(d) /\ Outcome(d))'
  BY DEF CallbackShape, Protocol, Outcome, SetStatusReturns
<1>3. ASSUME NEW d \in Callbacks PROVE Gil(d)'
  BY Names DEF CallbackShape, Gil, Protocol, SetStatusReturns
<1>4. (setter = "in_call" <=> gil = SetterThr)'
  BY DEF SetStatusReturns, SetterThr, Free
<1> QED
  BY <1>1, <1>2, <1>3, <1>4

-----------------------------------------------------------------------------
LEMMA NextIInv == CallbackInv /\ [Next]_vars => CallbackInv'
<1> SUFFICES ASSUME CallbackInv, [Next]_vars PROVE CallbackInv'
  OBVIOUS
<1>1. ASSUME NEW c \in Callbacks, Spawn(c) \/ RegStep(c) \/ FailureStores(c) PROVE CallbackInv'
  BY <1>1, SpawnIInv, RegisterIInv, RegisterReturnsIInv, RegisterFailsIInv,
     FailureStoresIInv, FailureNotifiesIInv DEF RegStep
<1>2. ASSUME NEW c \in Callbacks, DriverStores(c) \/ DriverEnds(c) PROVE CallbackInv'
  BY <1>2, DriverStoresIInv, DriverNotifiesIInv, DriverNotifiesFreedIInv DEF DriverEnds
<1>3. ASSUME NEW c \in Callbacks, NotifStep(c) \/ SpuriousWakeup(c) PROVE CallbackInv'
  BY <1>3, NotifLocksIInv, NotifWaitsIInv, NotifProceedsIInv, SpuriousWakeupIInv,
     NotifTakesGilIInv, NotifCallsIInv, NotifDeletesIInv DEF NotifStep
<1>4. CASE DeviceCompletes \/ SetStatus \/ SetStatusReturns
  BY <1>4, DeviceCompletesIInv, SetStatusIInv, SetStatusReturnsIInv
<1>5. CASE UNCHANGED vars
  <2> USE DEF vars, CallbackInv
  <2>1. CallbackShape'
    BY <1>5 DEF CallbackShape
  <2>2. ASSUME NEW d \in Callbacks PROVE (Protocol(d) /\ Outcome(d) /\ Gil(d))'
    BY <1>5 DEF Protocol, Outcome, Gil
  <2> QED
    BY <1>5, <2>1, <2>2
<1> QED
  BY <1>1, <1>2, <1>3, <1>4, <1>5 DEF Next

LEMMA Inductive == Spec => []CallbackInv
BY InitIInv, NextIInv, PTL DEF Spec

(* Every variable keeps its type: at most one call of the callable needs   *)
(* the whole invariant.                                                    *)
THEOREM CallbacksTypeCorrect == Spec => []TypeOK
<1>1. CallbackInv => TypeOK
  <2> SUFFICES ASSUME CallbackInv PROVE TypeOK
    OBVIOUS
  <2>1. calls \in [Callbacks -> 0..1]
    BY DEF CallbackInv, CallbackShape, Outcome
  <2> QED
    BY <2>1 DEF CallbackInv, CallbackShape, Gil, TypeOK
<1> QED
  BY <1>1, Inductive, PTL

(* The callable of a set_callback runs at most once, after the event       *)
(* completed, and not if registering failed.                               *)
THEOREM CalledOnce == Spec => []CalledOnceWhenComplete
<1>1. CallbackInv => CalledOnceWhenComplete
  BY DEF CallbackInv, CallbackShape, Protocol, Outcome, CalledOnceWhenComplete
<1> QED
  BY <1>1, Inductive, PTL

(* cb_info outlives its use by the registering thread and the critical     *)
(* section of an accepted evt_callback.                                    *)
THEOREM InfoOutlives == Spec => []InfoOutlivesRegistration
<1>1. CallbackInv => InfoOutlivesRegistration
  BY DEF CallbackInv, CallbackShape, Protocol, Outcome, InfoOutlivesRegistration
<1> QED
  BY <1>1, Inductive, PTL

(* What PythonOnlyUnderGil says of one step.                               *)
PythonStep == \A c \in Callbacks :
  (info[c] = "alive" /\ info'[c] = "deleted") \/ calls'[c] # calls[c] => gil = Notif(c)

LEMMA PythonStepHolds == CallbackInv /\ [Next]_vars => [PythonStep]_vars
<1> SUFFICES ASSUME CallbackInv, Next, NEW d \in Callbacks,
                    (info[d] = "alive" /\ info'[d] = "deleted") \/ calls'[d] # calls[d]
             PROVE gil = Notif(d)
  BY DEF PythonStep
<1> USE DEF CallbackInv, CallbackShape
<1>1. ASSUME NEW c \in Callbacks, Spawn(c) PROVE gil = Notif(d)
  BY <1>1 DEF Spawn
<1>2. ASSUME NEW c \in Callbacks, RegStep(c) \/ FailureStores(c) PROVE FALSE
  BY <1>2 DEF RegStep, Register, RegisterReturns, RegisterFails, FailureNotifies, FailureStores
<1>3. ASSUME NEW c \in Callbacks, DriverStores(c) \/ DriverEnds(c) PROVE FALSE
  BY <1>3 DEF DriverStores, DriverEnds, DriverNotifies, DriverNotifiesFreed
<1>4. ASSUME NEW c \in Callbacks, NotifCalls(c) \/ NotifDeletes(c) PROVE gil = Notif(d)
  <2>1. c = d
    BY <1>4 DEF NotifCalls, NotifDeletes
  <2> QED
    BY <1>4, <2>1 DEF NotifCalls, NotifDeletes, Gil
<1>5. ASSUME NEW c \in Callbacks,
             \/ NotifLocks(c) \/ NotifWaits(c) \/ NotifProceeds(c)
             \/ NotifTakesGil(c) \/ SpuriousWakeup(c)
      PROVE FALSE
  BY <1>5 DEF NotifLocks, NotifWaits, NotifProceeds, NotifTakesGil, SpuriousWakeup
<1>6. CASE DeviceCompletes \/ SetStatus \/ SetStatusReturns
  BY <1>6 DEF DeviceCompletes, SetStatus, SetStatusReturns
<1> QED
  BY <1>1, <1>2, <1>3, <1>4, <1>5, <1>6 DEF Next, NotifStep

(* No step runs the callable or drops its references without the GIL.      *)
THEOREM PythonUnderGil == Spec => PythonOnlyUnderGil
BY Inductive, PythonStepHolds, PTL DEF Spec, PythonOnlyUnderGil, PythonStep
===============================================================================
