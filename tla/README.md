# A verification development for PyOpenCL

PyOpenCL wraps the OpenCL runtime for Python: a C++ extension (`src/src/`) and
Python modules above it (`src/pyopencl/`). Most of the extension passes calls
through. What is modelled here is the part that has logic of its own, where the
order of events, the sharing of state or an integer width decides whether it is
right.

## 1. Inventory

| component | state | operations | what is hard | what makes it correct | model |
|---|---|---|---|---|---|
| size classes (`bitlog.hpp`, `mempool.hpp:43-155`) | none | `bitlog2`, `bin_number`, `alloc_size` | int / unsigned / size_t mixed; shifts in both directions | a block covers its request and is the largest of its bin; waste is bounded; bins are ordered like sizes | `PoolBins` |
| memory pool (`mempool.hpp:67-393`, `wrap_mempool.cpp`) | bins of held blocks, two counters, the stop flag, handles | `allocate`, `free`, `free_held`, `stop_holding`, handle release and destruction | the garbage collection in the middle of `allocate` re-enters the pool, from finalizers and from other threads; memory runs out | every device block is in one bin or one handle; blocks of a bin are interchangeable; counters exact; nothing held after `stop_holding` | `MemoryPool`, `BlockOwnership` |
| allocators (`wrap_mempool.cpp:43-200`) | none | `allocate`, `free`, `try_release_blocks`, `allocator_call` | failure after creation, one retry after a collection | nothing leaks, out-of-memory is reported when it is | partly, in `MemoryPool` |
| event callbacks (`wrap_cl.hpp:1572-1680`, `1855-1866`) | `cb_info` with mutex, condition variable and two flags; a detached thread per callback | `set_callback`, `evt_callback`, notification thread, `UserEvent.set_status` | three threads and the GIL; the runtime may call back on a thread that holds the GIL; failure after the thread was started | called once, only when complete; Python objects touched under the GIL; no lost wakeup, no deadlock, no leak | `EventCallback` |
| compiler cache (`cache.py`) | a directory per key with `info` and `binary`, a lock file | look up, check dependencies, reset, build, store, clean up, fall back | processes that share the directory, edited headers, processes that die, interrupted or failing writes | a hit fits the headers; one writer; every call returns | `CompilerCache` |
| Program wrapper (`__init__.py:343-603`) | source, uncached, compiled or built program; context | `build`, `compile`, `link_program`, attribute access | the order of calls decides whether the cache is used; two threads share a program | a program without context is built and never needs it again | `Programs` |
| memoization (`tools.py:60-165`), invokers (`invoker.py`) | kernels per context; a kernel's arguments | memoize, clear, set arguments, enqueue | two threads that miss; complex arguments that a device takes as two; an argument that raises in the middle | a kernel is enqueued with the arguments of its own call | `Programs` |
| nanny events, host transfers (`wrap_cl.hpp:1684-1850`, `2238-2365`) | wards | enqueue, `wait`, destruction, garbage | the GIL is released in some waits and not in others; a ward must outlive its transfer | ward alive until completion | `Transfers` |
| memory objects, maps, SVM (`wrap_cl.hpp:1897-2365`, `3165-3651`; `__init__.py:1490-1560`) | `m_valid`, `svm` | `release`, destructor, map, unmap | release twice, release and destroy | one unmapping of each map | partly, `Transfers` |
| arrays (`array.py`, `clmath.py`) | `Array.events`, shared by views | operators, functions, `set`, `get`, views, `finish` | out-of-order queues; lists that are trimmed; views that share a list | every command waits for those it conflicts with | `Arrays` |
| elementwise kernels (`elementwise.py`, `array.py:55-168`, `2140-2660`) | none | launch, loop, chunks of arrays | rounding of launch sizes; negative steps; partial chunks; complex operands are C structures | each element once; well-typed expressions | `ElementwiseKernels`, `ElementwiseTypes` |
| reductions (`reduction.py`) | temporaries of stages | build, staged reduction, slices | partial groups, several stages, slices with a step | equals the fold | `Reduction` |
| scans (`scan.py`) | interval results, flags | choice of sizes, three kernels, segments | barriers, interval boundaries, segment starts | equals the sequential scan | `Scan`, `ScanSetup` |
| algorithms (`algorithm.py`) | scan outputs | `copy_if`, `remove_if`, `partition`, `unique`, `RadixSort`, `ListOfListsBuilder`, `KeyValueSorter` | indices built from scans, chains of kernels | equals the sequential definition | `Algorithms` |
| bitonic sort (`bitonic_sort*.py`) | queue of kernels | prepare, local sort, merges | the network cut into kernels; index arithmetic without barriers | every line sorted; disjoint work items | `BitonicSort` |
| random numbers (`clrandom.py`) | counter | fill, uniform, normal | two carries, on the host and on the device | streams never overlap | `Random` |

How the parts interact: a `PooledBuffer` is a handle of a pool; the pool calls
its allocator, which runs Python's garbage collector, whose finalizers call the
pool. Callbacks and user events meet at the GIL; so do the waits and destructors of
nanny events. `Program.build` calls the compiler cache, which calls the driver.
Arrays keep events, and allocate through pools; their operators are elementwise
kernels, remembered per context, whose arguments an invoker sets. Reductions, scans
and sorts are kernels of their own; the algorithms are chains of scans.

Not modelled, and why:

- queues, contexts, devices, images, samplers, GL objects, info queries, constants:
  one OpenCL call each, no state beyond reference counts;
- `memory_object` and `memory_map`: one flag each, tested and reset in one step;
- `allocator_call` and the deferred allocator: no state;
- `RanluxGenerator`: its state is advanced by vendored device code;
- `multi_take`: it calls `Kernel.set_block_shape`, which no longer exists;
- the bitonic templates C4, PML, Local and A, which nothing enqueues;
- the values that device code computes in floating point (`cl/*.h`, `cl/*.cl`);
- text: rendering of kernel sources, types for C, characterization, capture, IPython;
- build scripts, contributed tools, examples, the generator of the documentation.

## 2. Modules

| module | role |
|---|---|
| `PoolBins` | the size classes as functions, integers with their widths |
| `MCPoolBins` | walks through the sizes, one state per size |
| `BlockOwnership` | abstract: which handle was granted which block; a block is granted to at most one handle and never freed while granted |
| `MemoryPool` | the pool, an action per operation and per step of `allocate` that can be interleaved |
| `MCMemoryPool` | composes `MemoryPool` with the bins of `PoolBins`; symmetry |
| `MemoryPoolProofs` | theorems about `MemoryPool` |
| `EventCallback`, `MCEventCallback` | set_callback and its threads |
| `CompilerCache`, `MCCompilerCache` | the cache directory and its users |
| `CompilerCacheProofs` | theorems about `CompilerCache` |
| `Scan`, `ScanSetup` | the kernels of a scan, work item by work item; the choice of their sizes |
| `Reduction` | the stages of a reduction, work item by work item |
| `BitonicSort` | the host's queue of kernels, the local kernel, the merges |
| `Algorithms` | the algorithms on top of scans |
| `MCKernels` | one call of one of these five |
| `MCRadixOrder` | `Algorithms` with names in another order |
| `Arrays` | the commands that arrays enqueue and the events they keep |
| `ElementwiseKernels`, `ElementwiseTypes` | what generated kernels compute, and of which type |
| `Random` | the counters of the Random123 generators |
| `Programs` | programs, remembered kernels, their arguments |
| `Transfers` | copies from and to host memory, nanny events, SVM maps |
| `MCHost` | one of these six |
| `MCArrayEvents` | `Arrays`, for the documentation of `Array.events` |
| `PowersOfTwo` | shifts (`Pow2`) and the test for a power of two, for `PoolBins`, `Reduction`, `BitonicSort` and `Algorithms` |
| `Induction` | induction and recursion over natural numbers, in the form the provers can use; the laws of `Pow2`, and of quotients and remainders |
| `PoolBinsProofs` | theorems about the size classes, through `MCPoolBins` |
| `ArraysProofs` | theorems about `Arrays`, `Algorithms` and `EventCallback` |
| `HostProofs` | theorems about `Programs` and `Transfers` |
| `ScanProofs` | theorem about `Scan` |
| `KernelProofs` | theorems about `ScanSetup`, `Reduction`, `ElementwiseKernels` and the merges of `BitonicSort` |

Definitions marked `Mutant` are plausible bugs of the definition that follows;
nothing uses them. Replacing the definition by its mutant must break the property
for which PROJECT.json lists it, which shows that the run can see such a bug.

### PoolBins

`ByteBits` scales the machine: every width in the code is a multiple of the byte
(`uint16_t` = 2 bytes, `unsigned` = 4, `size_t` = 8), and the 8 in `log_table_8` is
the byte itself. With `ByteBits = 8` the module is the code; with 3 the code's
4 GiB is 2^12, and a run can visit every size. `Ones` and `Head` are taken modulo
the width of an unsigned int, because `alloc_size` shifts an int and a `bin_nr_t`
and widens only the result. Shift amounts beyond the width are undefined
in C++ and are kept out of the inputs by `Shiftable`. Shifts are multiplications and
divisions by `Pow2`, a recursive function, so that its laws can be proved.

### MemoryPool

Nothing in the pool releases the GIL except the garbage collection in `allocate`.
So every operation is one step, and `allocate` is a step up to the collection
(`call[t].pc = "gc"`), a step that looks at the bin again, and a step per iteration
of the eviction loop, during which the thread keeps the GIL (`GilFree`). While a
thread is in the collection, finalizers and other threads do anything.

| code | model |
|---|---|
| `m_container` (bins created on demand) | a sequence per bin, empty if absent |
| `cl_mem` of size n / no longer allocated | `bytes[b] = n` / `0` |
| `cl_mem` leaked by a failing first write | `lost`, a count: it is no block of the pool |
| `pooled_allocation` | `handle[h]`: none, valid, released |
| `allocate` fails | `call[t].raised` |
| memory used by others | `outside` |

`CL_MEM_OBJECT_ALLOCATION_FAILURE` may be reported for a lack of memory only; other
errors of the allocator come at any time (`AllocateFails`, `RetryFails`).

### EventCallback

A call `c` of `set_callback` has a registering thread (`reg`), a place where the
runtime's `evt_callback` is (`drv`) with the thread that runs it (`host`), and a
notification thread (`ntf`). `clSetEventCallback` and `clSetUserEventStatus` are
called with the GIL held and may run callbacks before they return; then their
return waits for `evt_callback`. Waiting on the condition variable releases the
mutex and sleeps in one step, and may end spuriously. A Python callable is one
step under the GIL (that the interpreter may switch threads inside it changes
nothing for this protocol). Deleting `cb_info` is `info = "deleted"`. A
`notify_one` on deleted memory is undefined: nothing, a crash (`crashed`), or
a wakeup of somebody else, which `SpuriousWakeup` includes. `TypeOK` also says who
holds the GIL: exactly the thread that is where the code runs under it.

### CompilerCache

One header stands for the headers that a source includes: what counts is its
content and its `st_mtime`. Every change has an `st_mtime` of its own. A key is a
device (identical devices would share one). `source.cl` is written but never read,
and left out. Under the lock, a step ends wherever stopping would leave other
files: `binary` opened (`"cut"`), written; `info` opened (`"empty"`), written (`"ok"`),
or cut off; files of a reset removed one by one in any order. A process stops at any
point by a crash (the lock file stays, `lock = "dead"`) or by an interrupt
(`KeyboardInterrupt` is not caught by `except Exception`: the `finally` releases the
lock but nothing is cleaned). The user deletes only lock files of dead processes.
`tainted`, `seen`, `raced` and `source_failed` are history variables.

### Scan, ScanSetup

A step is what one work item does between two barriers (`Executes`), and `Barrier`
is the group's step to the code behind it; work items and groups interleave. The
scan operation is concatenation: a partial sum is the sequence of the indices that
went into it. This is the free associative operation, so an equation that holds for
it holds for every operation and every input. Local memory has any content at the
start of a kernel: the values are a `Garbage` that no result may contain, and the
flags are all true or all false (`junk`). The second-level kernel scans the interval
sums, and raises if there are more than one group can take; the third carries the
sums in and runs the output statement with `item`, `prev_item` and `last_item`.
`lookbehind`, `stencil` and `debug` select the code that uses `prev_item`,
`input_fetch_exprs` and the single-threaded kernel.

`ScanSetup` is the search for `k_group_size` and `wg_size` under the limit of local
memory, and the loop that builds again until the device admits the group. The code
hands the two sizes to `get_local_mem_use` in the other order; so does the model.

### Reduction

As in `Scan`, a step is a work item's code between two barriers. A value is the
number of times each element went into it, the free commutative operation.
`vec` is the input of a stage; a stage with one group is the last.

### BitonicSort

`Host` prepares `run_queue` as `sort_b_prepare_wl` does. In the local kernel, items
interleave between barriers; groups share nothing and run one after the other. A
merge is one step: `MergeItemsAreDisjoint` says why that loses nothing. An element
is a pair of key and index, and two axes are described by `dsize` and `nsize`.

### Algorithms

A scan is used by what `Scan` shows of it: it has read its input before the first
output statement, and output statement i is given the sums up to i and i - 1
(`items`). A step is one output statement or one work item of the other kernels, in
any order. Memory that is not written is `Uninitialized`; stores beyond an array
show in its domain.

### Arrays

A command is the set of cells it reads and writes, the commands that are complete
whenever it starts (`after`), and `how` its event is treated: recorded (`plain`, `get`,
`blind` for those that wait for nothing), dropped (`unrecorded`) or handed to the user
(`user`). Nothing else orders an out-of-order queue, so no action for the device
is needed. Operations that differ only in what they compute are the same command
and have each a definition (`Mul == Binary \/ Unary`). `handles` are Array objects:
views show cells of the same buffer and share the list of events, which
`as_strided` does not. Initially one array has three `get_async` under way, so that a
list is about to be trimmed: `n_wait` is 1 here and 4 in the code.

### ElementwiseKernels, ElementwiseTypes

One call with the sizes of `splay` (all constants to scale), the loop of every work
item and what the statement stores. Chunks of `multi_put` and `multi_take_put` are
enqueued one after the other and write different arrays. `ElementwiseTypes` is the
generator of expressions: an expression is its type, whether the compiler takes it,
and whether a double passed through single precision. A complex structure
is taken by the functions of `pyopencl-complex.h` of exactly its type.
`ElementwiseAssumption` says of `splay`'s constants that the 128 work items are a multiple
of the 32; `c.dest` has no index twice, because two work items that store to the same
place do it in any order.

### Random

`counter` is what the host keeps; `AsWords` and `Incremented` are the device's unsigned
words and their carry, `Advanced` the host's `divmod` with 2^31 - 1. Words are scaled
to 16 and 7. What work item 0 draws is recorded, as it draws the most.

### Programs

Threads take turns during a build, and between two arguments. `memo` is the
dictionary of a context; clearing the caches makes the one that a thread already
holds an orphan. `DeviceRegisters` and `DeviceSlots` say which argument slots a device has
(external: the code only asks for their number and whether the device has the bug, `bug`);
`SpecificBody` and `GenericBody` are the code that `invoker.py` generates, with its count of
floating-point registers. Argument slots hold the call that set them.

### Transfers

`Dispatch` is `enqueue_copy`. A copy of `nanny` kind has a ward; the program lets go of
arrays and events in any order, several threads wait for the same event, and events
die by their last reference or as garbage. `lock` is the worker that stays in a
driver's call with the GIL. A blocking copy returns when the device is done: with
buffers it waits without the GIL (`CallsThreaded`), with images and shared memory it
keeps it (`wrap_cl.hpp:2974`, `3019`, `3500`); copies between other memory objects do
not block (`MayBlock`). A worker that keeps the GIL and waits for a user event waits for
ever, as in the code.
`map` is one SVM map; the driver may refuse to unmap.

## 3. Runs

| run | what it shows |
|---|---|
| `pool_bins` | every size below the scaled 4 GiB, 1 to 5 leading bits: covered, maximal, waste below 2^-m, no fault, bins ordered |
| `pool_bins_wide` | violated: at 4 GiB a block is smaller than its request (finding) |
| `memory_pool` | two threads, three handles, three blocks, four request sizes in three bins (4 and 5 share one), a device that takes a few small blocks or one large and one small, others who take up to two bytes of it; deadlock is checked |
| `memory_pool_oom` | violated: refused although there is room (finding) |
| `event_callback` | two callbacks of one event: safety, and liveness under the fairness below |
| `event_callback_delete` | violated: `notify_one` on a deleted `cb_info` (finding) |
| `compiler_cache` | two processes, two devices, three calls, one edit of the header, one fault |
| `compiler_cache_mixed` | violated: a cached binary that does not build makes the call fail (finding) |
| `kernels` | one call at a time: every scan, reduction, sort and algorithm of the inputs in `MCKernels`, all interleavings of their work items; every call ends |
| `radix_order` | violated: names in another order than the arguments (finding) |
| `host` | one part at a time: commands of arrays, elementwise kernels, types, random counters, two threads with programs, two workers with transfers |
| `array_events` | violated: commands that write an array and are not in its events (finding) |

Bounds, and why they are enough. `PoolBins`: with 3-bit bytes all branches of
`bitlog2`, both directions of both shifts and a full range below the width limit
occur. `MemoryPool`: three blocks are the fewest with which a bin holds two, and a
large request must evict two; two threads are the fewest that meet in a
collection; with three bins an eviction can choose between two of them. `MaxLost = 0`
leaves the leaks of a failing first write out of this run, where no guard reads
their number; `memory_pool_oom` has `MaxLost = 1`. `EventCallback`: callbacks share only
the GIL and the event, so two show every conflict. `CompilerCache`: three calls
are two that both miss and store, and one that hits; two devices make a
partial hit; a header that is changed once is either newer or merely touched. A
header that returns to an older content, and two faults in one history, are not
covered by the run (two edits and three calls with one device were also checked
while developing).

`kernels`: scans of 0 to 6 elements in groups of 1, 2 and 4 with one or two values
per item have empty, whole and partial units, one interval and several, several units
per interval, trees of up to two levels, an update group of another size, and, for
each shape, every set of segment starts. Reductions have no, one and several stages
and partial groups. Sorts: a network that sorts all zeros and ones sorts
everything; all arrays of 4, those of 8 with a one first and a zero last, along
either axis, and permutations of 16, which need merges of all sizes. Algorithms:
all arrays of up to 3 or 4 elements with values that repeat; two bits of key in one
and in two passes. `host`: two commands after the initial ones and one more Array
object show each pair of operations through a view or a trimmed list; three calls
by two threads are a failed call, a stale argument and a launch; two copies and two
workers are one that waits and one that destroys. Elementwise sizes surround every
boundary of `splay`; counters surround the ends of both words. Constants of the
code (128 work items, 10 arrays per chunk, 8 registers, 2^32) are parameters and
small, so that their limits are reached.

Deadlock is not checked in `event_callback`, `compiler_cache`, `pool_bins`, `kernels`,
`radix_order`, `host` and `array_events`: the program may be finished. In `kernels`, `EveryCallEnds`
takes its place.

Fairness. `EventCallback`: weak fairness of every thread's own steps (threads are
scheduled; the GIL is asked for a finite number of times, so a waiting thread
gets it), strong fairness of the two short critical sections, which compete with a
notification thread that may be woken spuriously without end. No fairness of
`set_callback`, `set_status` or the completion of the event. `CompilerCache`: weak
fairness of each running process; none for editors, users or faults. `kernels`:
weak fairness of the whole next-state relation, that is, the host's loop goes on and
the device executes what was enqueued. Nothing in a call is repeated
without progress except the host's loops, so no stronger assumption is used.

The properties `HitsMatchHeader` and `ReadableEntriesWhole` name what they exclude:
a header that changes between a build and its store, and a store that stops
between its two files. The model does both; the code has no protection from either
(see the hazards in PROJECT.json).

The properties of `kernels` and `host` name what they exclude, too; each is a state
that the model reaches and the code has no answer to:

| property | excluded |
|---|---|
| `ScanIsSequential` | `prev_item` of the debug kernel does not look at segment starts |
| `ChosenSizesFit` | allows what the exchanged sizes are worth |
| `EachElementOnce` | slices whose length the step does not divide: the last element is lost (`reduction.py:371`) |
| `EveryCallEnds` | a bitonic sort with groups of one item (an axis of length one, little local memory): the host's loop never ends |
| `CompactKeepsOrder` | empty arrays: the count is never written |
| `SortedByKey` | names in another order than the arguments (finding 5) |
| `OrderIsKept` | commands whose event is dropped (finding 6) or left to the caller; `set`, which waits for nothing; `as_strided`, which has its own list; and readers on the device, whose events no array keeps, before a later write |
| `ElementsComputed` | `splay` rounds a group up to a multiple of 32, which may exceed the device's limit |
| `ExpressionsAreTyped` | `astype` from complex to real; sums of complex64 and float64, which `axpbyz` rounds to single |
| `StreamsDisjoint` | random initial counters below zero, in the first kernel only |
| `KernelRunsWithItsArguments` | two threads in a call of one kernel, as `doc/runtime_program.rst:219` says |
| `HostMemoryIsKept` | copies of shared memory, which have no ward |

## 4. Findings

1. `mempool.hpp:149`: block sizes are computed in 32 bits.
2. `mempool.hpp:230`: after the collection the allocator is not asked again unless
   a held block could be evicted.
3. `wrap_cl.hpp:1606`: `notify_one` after the mutex was released, on a `cb_info` that
   may be deleted.
4. `cache.py:508`: the fall-back to the source does not cover a program of which
   only some binaries are cached.
5. `algorithm.py:569`: `RadixSort` exchanges its arrays between passes if
   `sort_arg_names` is in another order than the arguments.
6. `array.py:1398` (and `1041`): `a <= number` and `a -= number` leave their kernel out of
   `Array.events`.

## 5. Theorems

`MemoryPoolProofs` proves, for any finite or infinite sets of threads, handles and
blocks that satisfy `BinAssumption` and `BlockAssumption`, that `Spec` implies the six
invariants of the run `memory_pool` (`TypeCorrect`, `OwnershipExact`,
`Interchangeable`, `CountersAreExact`, `StopIsFinal`, `EvictionNeeded`).

The inductive invariant is
`IInv == Shape /\ OwnInv /\ CountInv /\ StopInv /\ NoUsableBlockEvicted`.
`TypeOK` is not inductive: that the unsigned counters stay in `Nat` after a decrement
needs that they count (`CountInv`), which needs that the bins hold no block
twice (`OwnInv`) and that the counted sets are finite. `Shape` is `TypeOK` with
integer counters. The proof has one lemma per operation (`Free`, `FreeAllHeld`,
`PopBlockFromBin`, `GetFromAllocator`, ...) and one step per action. From the
assumptions on the constants it uses that a block size is positive and that a bin
is as large as each of its requests, which `pool_bins` checks of the code's
bins below 4 GiB.

`MemoryPoolProofs` also proves `EvictsLargestFirst`, from the part of `BinAssumption` that
a later bin has no smaller blocks, and that `MemoryPool` implements
`BlockOwnership` (`ImplementsPromise`). The refinement mapping is the granted
blocks of the handles. Every step has one of six effects (`EveryStepIsAnEffect`): a
block is popped, allocated, given back by a handle, or evicted, all held ones are freed, or
nothing that the promise sees changes; a lemma maps each to a step or a stutter. That a
freed block is granted to nobody is `OwnInv`.

`CompilerCacheProofs` proves the type invariant, `OneWriter`, `HitsMatchHeader` and
`ReadableEntriesWhole` for any processes, devices, contents, edits, faults and calls.
`IInv == Shape /\ OneWriter /\ CallsInv /\ \A k : EntryInv(k)`. A hit is right because an
entry is, and an entry is because of the call that wrote it: `EntryInv` says
that an info file with the header's `st_mtime` has its content and describes the
binary beside it, unless the one process that owns the lock is between the two
files; `CallsInv` carries this through a call, from the comparison of the
header (`AtItsFiles`) to the answer (`Answers`), and from the compiler to the store
(`UpToDate`). The two exceptions of `HitsMatchHeader` are the history variables
`tainted` and `raced`, and each appears in the invariant where the step that sets it
would break it.

`PoolBinsProofs` proves all five properties of `pool_bins` for every `ByteBits`, so in
particular for the code's bytes of 8 bits, where the run visits a byte of 3. The
hypothesis `Below4GiB` is what finding 1 makes necessary (sizes up to 2^32, the width
of an unsigned), and that the bin numbers fit a `bin_nr_t`
(64 * 2^leading_bits <= 2^32: up to 26 leading bits). There is no state to speak of:
the proofs are about `bitlog2` (a search in a table, for each of the cases of its
width), about what two shifts in opposite directions leave of a size
(`Leading`), and about `% 2^w`, which changes nothing below that limit. `Pow2` is
a recursive function; its laws are proved by induction, in `Induction`, where the
proof about the axes of `BitonicSort` finds them too.
That a larger bin has larger blocks, which `BinAssumption` asks for, follows from
`BinsInOrder` and `RequestsAreCovered`: a block lies in its own bin.

`ArraysProofs` has three parts, which share no state. The first
proves `OrderIsKept` for every `n_wait` and any number of arrays and
commands. The property speaks about pairs of commands and the lists have
forgotten most commands when it matters, so the invariant is about what waiting
for a list means: `ListsAreComplete` says that whoever waits for the events of an
array (and for what those waited for) waits for every recorded command that touches
its buffer. It is proved for the trimming of `add_event`, where an event leaves the
list after the host has waited for it, for a new view (`SharedLists`) and for a new
command, which waits for the lists of all its operands. It is stated as a theorem of
its own (`ListsStayComplete`), because a new operation of `array.py` has to keep it.

The second part is about the three properties of `Algorithms`, for arrays of any length and any
order of the output statements and work items. All rest on one lemma: what a scan with +
of flags hands to statement `i` is the rank of `i + 1` among the flagged elements
(`FlagsAreScanned`); ranks of different elements differ and are all the numbers below their
count (`RanksDiffer`, `RankOnto`). So no two statements store to the same place, and it does not
matter which comes first (`Put...` say what is in memory after some stores).

- `CompactionKeepsOrder`: a selected element is stored at its rank among the selected, one that is
  not at its rank among the others, which is what `i - items[i]` is (`RankComplement`).
  `Stored(W)`: that is in memory for the statements of `W`, whatever they are.
- `ListsAreWhole`: `ListsInv` follows the chain of kernels of `ListOfListsBuilder`, from the
  counts (`CountsOf`) over the compression (`TablesOf`) and the scan of the counts
  (`SumsKnown`, `StartsOf`) to the lists (`ListsOf`). The starts rise by the number of entries
  (`StartsKnown`, `StartsRise`), so the places of different objects are disjoint and fill
  the lists (`PlacesDiffer`). It is the same argument with eliminated empty lists, where
  the index of an object is its rank among the nonempty, and without, where its rank is
  its number (`AllListsAre`).
- `SortingIsStable`: an element's place in a pass of `RadixSort` is the number of elements
  before it in the order of the pass, by digit and then by position (`Spot`): what the
  scan hands to its statement counts the elements of smaller digits, and the earlier ones
  of its own (`RadixStep`). `SortInv` says that the arrays are the arguments permuted,
  that they are sorted, stably, by the bits the finished passes have looked at, and what
  the statements so far have stored. A pass over the next digit sorts by
  the bits below it too, because two elements of equal digits are kept in order
  (`PassSorts`, `DigitSplit`), and the passes end when the bits that are left are none of
  any key's. The starts of `KeyValueSorter` are the least positions of their keys
  (`FindStep`); those of keys that do not occur are made up by the backward scan, a minimum
  (`LeastStart`, `BoundStep`).

The third part is about `EventCallback`. It proves, for any set of callbacks, the type invariant, the two
safety invariants and the action property of the run `event_callback`. Its
`CallbackInv == CallbackShape /\ (\A c : Protocol(c) /\ Outcome(c) /\ Gil(c)) /\ ...` says why they
hold: the wakeup flag is set by exactly one of `evt_callback` and the failure handler
(`Protocol`); a notification thread is past its wait only if the flag is set, and
has called the callable only if it was `evt_callback` that set it (`Outcome`); and
who is where in the code decides who holds the GIL (`Gil`, which `TypeOK` states too), which keeps the
thread from deleting `cb_info` between the two steps of the failure handler. None
of the properties is inductive without these. Nothing is assumed of the constant.
The invariant does not exclude `evt_callback` being before its `notify_one` when
`cb_info` is deleted: that is finding 3.

`HostProofs` has two parts, which share no state.

- `ArgumentsAreThoseOfTheCall`: `ProgramsInv` has a conjunct per kind of object. A kernel
  sets what the device wants (`Good`): this is where `SpecificBody` and
  `GenericBody` must split the arguments as `DeviceSlots` does. The code only compares
  the number of slots, and that this is enough is lemma `SplitsTell`: it counts at least as
  many registers as the device has in use (`CodeCountsMore`), so it splits no argument that
  the device takes whole, and equal sums are equal splits. A remembered kernel is one for its own
  argument list (`MemoInv`), and a thread that has been alone with it has set every slot before the next
  (`HasSet`). `FlattenSeq` is characterized by induction.
- `MemoryIsKept` proves `HostMemoryIsKept` for any sets of workers and arrays and any
  number of copies. `TransfersInv == CopyShape /\ WardInv /\ MapInv` is stronger than the
  property in that a ward is kept whether or not the program still refers to the
  array (`WardInv`: the program's references may go at any time), and that a map
  remembers its object exactly as long as it is mapped (`MapInv`). Every step of a
  copy is an instance of `UpdateKeepsWards`.

`ScanProofs` proves `ScanIsSequential` for every length, group size, `k_group_size`,
number of compute units, set of segment starts, and content of uninitialized local
memory, and for every interleaving of the work items and groups (`ScanIsRight`). Two ideas
carry it.

- The two scan kernels are one. What a kernel scans is a record (`Kernel1`, `Kernel2`): sizes,
  the elements that start a segment, and what the sum of the elements `x .. y` is. It obeys
  `Law`: the sum of `x .. z` is that of `x .. y` followed by that of `y + 1 .. z`, or only
  the latter if a segment starts in `y + 1 .. z`. The elements of the second kernel are the
  intervals of the first; that their sums obey the same law is `Law2`, with
  `StartsInIntervals`. In a segmented scan the last interval is left out of the second kernel's claim
  (`m`): its `g_first_segment_start_in_interval` may be a start beyond the end of the array, which is
  harmless because nobody reads the sum of the last interval.
- `UnitInv` says of a group in a unit, for every barrier and for the work items that
  have or have not arrived at it, which sum every cell of local memory, every padding cell
  and every private variable is, and which segment start the flags and minima stand for
  (`Finds`). Nothing is said of cells beyond the end, which hold whatever was there before. In
  the tree, an item that has looked `o` items to the left holds the sum from there
  (`Behind`), and all reads of a round are between two barriers with no write (`ReadInv`,
  `WriteInv`). Every step of a work item has an effect on the state of its group (`...Effect`),
  and a lemma for each effect keeps `UnitInv`; `Lev1Other` is that it leaves the other groups
  alone, because the intervals are disjoint.

`ScanInv` puts these together: `Lev1Inv` with what is in the partial sums, `Lev2Inv`
with what the first level has left (`IntervalsKept`), `LastUpdateInv` with the sums that the second
has written and what `prev_item` is at each round of the update. That the debug kernel
computes the same is an induction over its loop (`DebugSumsAre`).

`KernelProofs` has four parts.

- `ScanKernelsFit`: the loop that builds again until the device admits the group
  ends with sizes that the search has found to fit; `SetupInv` is that the largest
  group fits into local memory, and that local memory grows with the group
  (`MemoryUse`) does the rest. The powers of two are finite and are gone through.
- `EachElementIsComputed`: for every size of the device and of the array, every range and
  every step, the loops of the work items partition the elements
  (`EachElementHasOneWorkItem`: a number has one quotient and one remainder);
  no step leads beyond the range (`StepsAreFew`), and `splay` launches at least one and
  no group that the device refuses except in the case the property names
  (`SplayIs`). `EInv` adds the chunks: what is stored is what belongs to
  the chunks before and to the elements reached in this one.
- `MergesAreDisjoint`: every merge gives each element to exactly one work item. An
  element's place is a number of three digits to mixed bases: the line, the work item
  within it, and the element of the item, which lies between the low and the high part of
  the item's number. Such digits are unique and reach every place exactly when
  the axis is a whole number of blocks of 2^bits steps (`MergePlaces`). That the
  host queues no other merge is the invariant: `GoodMerge` for what is queued, and
  for the loops that fill the queue, that `length` and `inc` are powers of two or zero and
  `inc <= length` (`SortInv`). Each letter divides `inc` by a power of two that leaves
  no remainder (`IncIsCut`), and `2 * inc` divides the axis because `inc < dsize`
  (`EvenBlocks`). The axis may be any power of two; as positions are numbers without a
  width, the theorem is about arrays that the kernels' `int`s can index.
- `EveryElementIsReducedOnce`: for every size, slice, group size and pair of limits, and
  every interleaving of the work items, the result of a reduction counts each element of
  the slice once. A value stands for the set of elements it counts (`Once`). The number
  of an element in a stage has three digits, the group, the round and the work item
  (`NumberIsUnique`), so the loop of an item goes through the elements whose last digit
  is the item's (`ItemNumbers`, `AccumulatedIs`), and the groups have a number for
  each element (`StageIsSplit`). In the tree, an item that has taken over holds the
  share of the halved width and all others that of the full one (`ItemInv`, `Width`);
  this does not need to know the order of the items between two barriers, since item
  `l` reads from `l + new_size`, which writes nothing in this round (`ReduceTreeStep`), and
  it is where the width must be a power of two (`SharesAreHalved`, `WidthsAreEven`).
  `VecInv` and `VecCovers` carry this from one stage to the next: the values of a stage stand for
  different elements, and together for the slice.

Assumptions. The theorems hold for all constants that satisfy the `ASSUME` of their
module; TLC evaluates each on the run's values. They say that numbers are numbers,
sets of names are disjoint, arrays are finite and fill their shape, that no array to scan is longer
than the largest number of its index type, which serves as `NO_SEG_BOUNDARY` (`scan.py:66`), and, where the
code relies on it, `BinAssumption` (above), that sizes of devices are positive, that the
group size a reduction starts from is a power of two (`reduction.py:152`), as is a
bitonic sort's largest work group, that index arrays have the size of the arrays
they index, and that keys to sort have no bits beyond the `key_bits` of the call. No theorem but those of `PoolBinsProofs` has another hypothesis.

Only model-checked:

- liveness (`EveryCallEnds`, the leads-to properties of callbacks and cache): fairness and
  `ENABLED` are out of the prover's reach;
- `EveryLineIsSorted`: that an arbitrary bitonic network sorts is the 0-1 principle, an
  induction over networks, which `BitonicSort` replaces by its choice of inputs;
- `ExpressionsAreTyped`: it has no constants, and the run visits each of its states;
- `StreamsDisjoint`: true of counters to scale, that is, of the run's sizes or the
  code's, and not of arbitrary ones.

## 6. Plan

1. Proofs: that the network of `BitonicSort` sorts, by an induction over its stages.
2. `memory_map` and `allocator_call`, if a property of them is worth stating.
