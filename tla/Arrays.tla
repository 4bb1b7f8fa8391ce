-------------------------------- MODULE Arrays --------------------------------
(***************************************************************************)
(* Array.events (src/pyopencl/array.py): on a queue that executes out of   *)
(* order, the commands that arrays enqueue depend on each other only       *)
(* through the lists of events that the arrays keep.                       *)
(*                                                                         *)
(* A command is what it reads and writes and which commands are complete   *)
(* whenever it starts: those that it waits for, directly or through        *)
(* others, and those that the host waited for before.  Everything else may *)
(* still run.  Operations that differ only in what they compute are the    *)
(* same command; each is a definition here.  The host is one thread.       *)
(***************************************************************************)
EXTENDS Integers, Sequences, FiniteSets

CONSTANTS
  n_wait,       \* of add_event, 4 in the code
  MaxCommands,  \* bound: commands enqueued
  MaxHandles    \* bound: Array objects

ASSUME ArraysAssumption == n_wait \in Nat \ {0} /\ MaxCommands \in Nat /\ MaxHandles \in Nat

VARIABLES
  handles,   \* the Array objects: the buffer, its cells that they show, their list
  events,    \* [list -> the events in it, as numbers of commands]
  commands,  \* what was enqueued: reads, writes, after (complete before it), how
  known      \* the commands that the host knows to be complete

arrayvars == <<handles, events, commands, known>>

Arrays == 1 .. Len(handles)
Cells(h) == {handles[h].buf} \X handles[h].cells
CellsOf(hs) == UNION {Cells(h) : h \in hs}
EventsOf(h) == LET l == events[handles[h].evs] IN {l[i] : i \in DOMAIN l}
EventsOfAll(hs) == UNION {EventsOf(h) : h \in hs}
SameShape(a, b) == Cardinality(handles[a].cells) = Cardinality(handles[b].cells)

Next_ == Len(commands) + 1   \* the number of the next command
Room(more, arrays) == Len(commands) + more <= MaxCommands /\ Len(handles) + arrays <= MaxHandles

(* What is complete once evts are, which include whatever they waited for. *)
Closed(evts) == evts \cup UNION {commands[e].after : e \in evts \cap DOMAIN commands}

(* An array of two elements, complete, of which three get_async are under  *)
(* way, and one of a single element whose transfer to the device is.       *)
ArraysInit ==
  LET fill(b, cells) == [reads |-> {}, writes |-> {b} \X cells, after |-> {}, how |-> "blind"]
      get == [reads |-> {1} \X {0, 1}, writes |-> {}, after |-> {1}, how |-> "get"]
  IN  /\ handles = <<[buf |-> 1, cells |-> {0, 1}, evs |-> 1, strided |-> FALSE],
                     [buf |-> 2, cells |-> {0}, evs |-> 2, strided |-> FALSE]>>
      /\ commands = <<fill(1, {0, 1}), fill(2, {0}), get, get, get>>
      /\ events = <<<<3, 4, 5>>, <<2>>>>
      /\ known = {1}

(* Mutant: the events are dropped without waiting for them. *)
AddEventUnawaited(list, evt) ==
  LET longer == Append(list, evt) IN
  IF Len(longer) <= 3 * n_wait THEN [list |-> longer, wait |-> {}]
  ELSE [list |-> SubSeq(longer, n_wait + 1, Len(longer)), wait |-> {}]

(* add_event: a list that gets too long loses its first events, which the  *)
(* host waits for.                                                         *)
AddEvent(list, evt) ==
  LET longer == Append(list, evt) IN
  IF Len(longer) <= 3 * n_wait THEN [list |-> longer, wait |-> {}]
  ELSE [list |-> SubSeq(longer, n_wait + 1, Len(longer)),
        wait |-> {longer[i] : i \in 1 .. n_wait}]

Enqueued(reads, writes, waits, how) ==
  commands' = Append(commands, [reads |-> reads, writes |-> writes, after |-> Closed(waits) \cup known, how |-> how])
HostWaits(evts) == known' = known \cup Closed(evts)

(* A command that fills new arrays, one for each of the shapes; its event  *)
(* is added to their new lists.                                            *)
Fills(shapes, reads, waits, how) ==
  /\ Room(1, Len(shapes))
  /\ Enqueued(reads, UNION {{Next_ + (i - 1) * MaxCommands} \X shapes[i] : i \in DOMAIN shapes}, waits, how)
  /\ handles' = handles \o [i \in DOMAIN shapes |->
                   [buf |-> Next_ + (i - 1) * MaxCommands, cells |-> shapes[i], evs |-> Len(events) + i,
                    strided |-> FALSE]]
  /\ events' = events \o [i \in DOMAIN shapes |-> IF how = "unrecorded" THEN << >> ELSE <<Next_>>]

(* A command on an array that exists, whose event its list gets.           *)
Records(h, reads, writes, waits, how, blocking) ==
  LET added == AddEvent(events[handles[h].evs], Next_) IN
  /\ Room(1, 0)
  /\ Enqueued(reads, writes, waits, how)
  /\ events' = [events EXCEPT ![handles[h].evs] = added.list]
  /\ known' = known \cup Closed(added.wait) \cup IF blocking THEN {Next_} \cup Closed(waits) ELSE {}
  /\ UNCHANGED handles

-----------------------------------------------------------------------------
(* elwise_kernel_runner: the kernel waits for the events of all its array  *)
(* arguments, and for wait_for.                                            *)
Elementwise(args) ==
  \E a \in args :
    /\ Fills(<<handles[a].cells>>, CellsOf(args), EventsOfAll(args), "plain")
    /\ UNCHANGED known
Elementwise2(a) ==
  /\ Fills(<<handles[a].cells, handles[a].cells>>, Cells(a), EventsOf(a), "plain")
  /\ UNCHANGED known

InPlace(h, args) ==
  Records(h, CellsOf(args \cup {h}), Cells(h), EventsOfAll(args \cup {h}), "plain", FALSE)

(* The same, its event dropped, or left to the caller (how is user).        *)
InPlaceUnrecorded(h, args, how) ==
  /\ Room(1, 0)
  /\ Enqueued(CellsOf(args), Cells(h), EventsOfAll(args \cup {h}), how)
  /\ UNCHANGED <<handles, events, known>>

Unary == \E a \in Arrays : Elementwise({a})
Binary == \E a, b \in Arrays : SameShape(a, b) /\ Elementwise({a, b})
InPlaceUnary == \E h \in Arrays : InPlace(h, {})
InPlaceBinary == \E h, b \in Arrays : SameShape(h, b) /\ InPlace(h, {b})

(* copy: enqueue_copy between the buffers.                                 *)
Copy == \E a \in Arrays :
  /\ Fills(<<handles[a].cells>>, Cells(a), EventsOf(a), "plain")
  /\ UNCHANGED known

(* a + 0, a - 0 and a / 1 are copies.                                      *)
AddSub == Binary \/ Unary \/ Copy
Mul == Binary \/ Unary
Div == Binary \/ Unary \/ Copy
Bitwise == Binary \/ Unary
Unaries == Unary
Pow == Binary \/ Unary
AsType == Copy \/ Unary
InPlaceAdd == InPlaceBinary \/ InPlaceUnary
InPlaceMul == InPlaceBinary \/ InPlaceUnary
InPlaceBitwise == InPlaceBinary \/ InPlaceUnary

(* a -= b records its event if b is an array, but not if it is a number.   *)
InPlaceSub == InPlaceBinary \/ \E h \in Arrays : InPlaceUnrecorded(h, {h}, "unrecorded")

(* So do all comparisons but a <= 1.                                       *)
Comparisons == Binary \/ Unary
LessEqual ==
  \/ Binary
  \/ \E a \in Arrays :
       Fills(<<handles[a].cells>>, Cells(a), EventsOf(a), "unrecorded") /\ UNCHANGED known

(* real, imag and conj of complex arrays; of real ones, imag is zeros.     *)
Zeros == \E a \in Arrays : Fills(<<handles[a].cells>>, {}, {}, "plain") /\ UNCHANGED known
ComplexParts == Unary \/ Zeros
Arange == Zeros
Fill == \E h \in Arrays : Records(h, {}, Cells(h), EventsOf(h), "plain", FALSE)

(* clmath.                                                                 *)
UnaryMath == Unary
BinaryMath == Binary
TwoResults == \E a \in Arrays : Elementwise2(a)
Bessel == Unary \/ TwoResults

(* A kernel of the user's: the event is returned, not added.               *)
ElementwiseKernelCall == \E h, b \in Arrays : SameShape(h, b) /\ InPlaceUnrecorded(h, {b}, "user")

-----------------------------------------------------------------------------
(* Reductions: the result is a new array, to which both the kernel and the *)
(* function that called it add the event.                                  *)
Reduces(args) ==
  /\ Room(1, 1)
  /\ Enqueued(CellsOf(args), {<<Next_, 0>>}, EventsOfAll(args), "plain")
  /\ handles' = Append(handles, [buf |-> Next_, cells |-> {0}, evs |-> Len(events) + 1, strided |-> FALSE])
  /\ events' = Append(events, <<Next_, Next_>>)
  /\ UNCHANGED known
AnyAll == \E a \in Arrays : Reduces({a})
Reductions_ == \E a, b \in Arrays : SameShape(a, b) /\ Reduces({a, b})
CumSum == Unary
Diff == \E a \in Arrays :
  /\ handles[a].cells = {0, 1}
  /\ Fills(<<{0}>>, Cells(a), EventsOf(a), "plain") /\ UNCHANGED known

(* if_positive, into a new array or into out.                              *)
IfPositive ==
  \E c, t \in Arrays :
    /\ SameShape(c, t)
    /\ Elementwise({c, t}) \/ \E out \in Arrays : SameShape(out, t) /\ InPlace(out, {c, t})

(* maximum and minimum: a temporary array holds the difference.            *)
MaxMin == \E a, b \in Arrays :
  /\ SameShape(a, b) /\ Room(2, 1)
  /\ commands' = commands \o
       <<[reads |-> CellsOf({a, b}), writes |-> {Next_} \X handles[a].cells,
          after |-> Closed(EventsOfAll({a, b})) \cup known, how |-> "plain"],
         [reads |-> CellsOf({a, b}) \cup ({Next_} \X handles[a].cells),
          writes |-> {Next_ + 1} \X handles[a].cells,
          after |-> {Next_} \cup Closed(EventsOfAll({a, b})) \cup known, how |-> "plain"]>>
  /\ handles' = Append(handles, [buf |-> Next_ + 1, cells |-> handles[a].cells,
                                  evs |-> Len(events) + 1, strided |-> FALSE])
  /\ events' = Append(events, <<Next_ + 1>>)
  /\ UNCHANGED known

(* take, into a new array or into out.                                     *)
Take == \E a, i \in Arrays :
  \/ Fills(<<handles[i].cells>>, CellsOf({a, i}), EventsOfAll({a, i}), "plain") /\ UNCHANGED known
  \/ \E out \in Arrays : SameShape(out, i) /\ InPlace(out, {a, i})

(* multi_put and multi_take_put of one array: cells of out are written.    *)
PutsInto(out, args) ==
  \E cells \in SUBSET Cells(out) \ {{}} :
    Records(out, CellsOf(args), cells, EventsOfAll(args \cup {out}), "plain", FALSE)
MultiPut == \E out, a, i \in Arrays : PutsInto(out, {a, i})
MultiTakePut == \E out, a, i \in Arrays : SameShape(out, a) /\ PutsInto(out, {a, i})

(* concatenate and hstack: an empty array, and a setitem for each part.    *)
Concatenates == \E a, b \in Arrays :
  LET part(h, cell, waits) ==
        [reads |-> Cells(h), writes |-> {<<Next_, cell>>}, how |-> "plain",
         after |-> waits \cup Closed(EventsOf(h)) \cup known]
  IN  /\ Cardinality(Cells(a)) = 1 /\ SameShape(a, b) /\ Room(2, 1)
      /\ commands' = commands \o <<part(a, 0, {}), part(b, 1, {Next_} \cup Closed(EventsOf(a)))>>
      /\ handles' = Append(handles, [buf |-> Next_, cells |-> {0, 1}, evs |-> Len(events) + 1,
                                      strided |-> FALSE])
      /\ events' = Append(events, <<Next_, Next_ + 1>>)
      /\ UNCHANGED known
Hstack == Concatenates

-----------------------------------------------------------------------------
(* Transfers.  set waits for nothing, and blocks unless it is async.       *)
ToDevice == \E blocking \in BOOLEAN :
  /\ Fills(<<{0, 1}>>, {}, {}, "blind")
  /\ known' = known \cup IF blocking THEN {Next_} ELSE {}
Set == \E h \in Arrays, blocking \in BOOLEAN : Records(h, {}, Cells(h), {}, "blind", blocking)

(* get and get_async add their event, so that later writes wait for them.  *)
Get == \E h \in Arrays, blocking \in BOOLEAN : Records(h, Cells(h), {}, EventsOf(h), "get", blocking)

(* The event of a map is returned.                                         *)
MapToHost == \E h \in Arrays, blocking \in BOOLEAN :
  /\ Room(1, 0)
  /\ Enqueued(Cells(h), {}, EventsOf(h), "user")
  /\ known' = known \cup IF blocking THEN {Next_} \cup Closed(EventsOf(h)) ELSE {}
  /\ UNCHANGED <<handles, events>>

(* setitem: into part of h, from an array or a number, or from the host,   *)
(* in which case it blocks.                                                *)
SetItem == \E h, v \in Arrays : \E part \in SUBSET Cells(h) \ {{}} :
  \/ Cardinality(part) = Cardinality(Cells(v)) /\ Records(h, Cells(v), part, EventsOfAll({h, v}), "plain", FALSE)
  \/ \E host \in BOOLEAN : Records(h, {}, part, EventsOf(h), "plain", host)

(* finish: the host waits for the events, and the list becomes empty.      *)
Finish == \E h \in Arrays :
  /\ HostWaits(EventsOf(h))
  /\ events' = [events EXCEPT ![handles[h].evs] = << >>]
  /\ UNCHANGED <<handles, commands>>

-----------------------------------------------------------------------------
NewHandle(handle) ==
  /\ Room(0, 1)
  /\ handles' = Append(handles, handle)
  /\ UNCHANGED <<commands, known>>

(* _new_with_changes: an array of the same data shares its events.         *)
NewWithChanges(h, cells) ==
  /\ NewHandle([buf |-> handles[h].buf, cells |-> cells, evs |-> handles[h].evs,
                strided |-> handles[h].strided])
  /\ UNCHANGED events

(* reshape, view, squeeze, transpose and with_queue show the same cells, a *)
(* slice some of them.                                                     *)
Reshapes == \E h \in Arrays : NewWithChanges(h, handles[h].cells)
GetItem == \E h \in Arrays : \E cells \in SUBSET handles[h].cells \ {{}} : NewWithChanges(h, cells)

(* as_strided makes a list of its own.                                     *)
AsStrided == \E h \in Arrays :
  /\ NewHandle([buf |-> handles[h].buf, cells |-> handles[h].cells, evs |-> Len(events) + 1,
                strided |-> TRUE])
  /\ events' = Append(events, << >>)

-----------------------------------------------------------------------------
Operators ==
  \/ AddSub \/ Mul \/ Div \/ Bitwise \/ Unaries \/ Pow \/ AsType \/ Comparisons \/ LessEqual
  \/ InPlaceAdd \/ InPlaceSub \/ InPlaceMul \/ InPlaceBitwise \/ ComplexParts \/ Fill
  \/ UnaryMath \/ BinaryMath \/ TwoResults \/ Bessel \/ ElementwiseKernelCall
Functions_ ==
  \/ AnyAll \/ Reductions_ \/ CumSum \/ Diff \/ IfPositive \/ MaxMin \/ Take \/ MultiPut
  \/ MultiTakePut \/ Concatenates \/ Hstack \/ Arange \/ ToDevice \/ Set \/ Get \/ MapToHost
  \/ SetItem \/ Finish \/ Copy
Views == Reshapes \/ GetItem \/ AsStrided

ArraysNext == Operators \/ Functions_ \/ Views

ArraysSpec == ArraysInit /\ [][ArraysNext]_arrayvars

-----------------------------------------------------------------------------
(* Two commands on the out-of-order queue that touch a common element and  *)
(* may not be exchanged: a write before a read or a write, or a transfer   *)
(* to the host before a write.                                             *)
Conflict(w, c) ==
  LET touched == commands[c].reads \cup commands[c].writes IN
  \/ commands[w].writes \cap touched # {}
  \/ commands[w].how = "get" /\ commands[w].reads \cap commands[c].writes # {}

Strided(w) ==
  \E h \in Arrays :
    handles[h].strided /\ handles[h].buf \in {x[1] : x \in commands[w].writes \cup commands[w].reads}

(* The device executes conflicting commands in the order of the calls,     *)
(* through views and trimmed lists too.  Not if the event of the first was *)
(* dropped or left to the caller, nor before a set, which waits for        *)
(* nothing, nor for two arrays that as_strided gave two lists.             *)
OrderIsKept ==
  \A c \in DOMAIN commands : \A w \in 1 .. c - 1 :
    Conflict(w, c) /\ commands[w].how \notin {"unrecorded", "user"} /\ commands[c].how # "blind" /\ ~Strided(w)
      => w \in commands[c].after

(* "A list of pyopencl.Event instances that the current content of this    *)
(* array depends on": the commands that write it and may still run, other  *)
(* than the user's own.                                                    *)
ContentInEvents ==
  \A h \in Arrays : \A c \in DOMAIN commands \ known :
    commands[c].writes \cap Cells(h) # {} /\ commands[c].how # "user" /\ ~Strided(c) => c \in EventsOf(h)
=============================================================================
