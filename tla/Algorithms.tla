------------------------------ MODULE Algorithms ------------------------------
(***************************************************************************)
(* src/pyopencl/algorithm.py: copy_if, remove_if, partition, unique,       *)
(* RadixSort, ListOfListsBuilder and KeyValueSorter.  Each is a chain of   *)
(* kernels, most of them scans, and each kernel waits for the event of the *)
(* one before.                                                             *)
(*                                                                         *)
(* Of a scan the module uses what Scan.tla shows: all of the input is read *)
(* before any output statement runs, and output statement i is given the   *)
(* sums up to i and up to i - 1.  A step is one output statement, or one   *)
(* work item of another kernel; they come in any order.                    *)
(***************************************************************************)
EXTENDS Integers, Sequences, FiniteSets, PowersOfTwo

CONSTANT Jobs   \* the calls, a set of records

(* ary, the keys or the objects' numbers of entries; satisfying, the       *)
(* values for which the predicate holds; sort_arg_names, their order;      *)
(* bits_at_a_time and key_bits, "how many bits ... there are in the key";  *)
(* eliminate, empty output lists are.                                      *)
Kinds == {"copy_if", "remove_if", "partition", "unique", "radix", "kvsort", "lists"}
ASSUME JobAssumption ==
  \A j \in Jobs :
    /\ j.kind \in Kinds /\ j.ary \in Seq(Nat) /\ j.satisfying \subseteq Nat
    /\ j.sort_arg_names \in {<<"values", "keys">>, <<"keys", "values">>}
    /\ j.bits_at_a_time \in Nat \ {0} /\ j.key_bits \in Nat \ {0} /\ j.eliminate \in BOOLEAN
    /\ j.kind \in {"radix", "kvsort"} => \A i \in 1 .. Len(j.ary) : j.ary[i] < Pow2[j.key_bits]

VARIABLES
  alg,        \* the call
  kernel,     \* the kernel that runs, or "done"
  written,    \* its items that are done
  items,      \* [i -> item], what the scan hands to output statement i
  arrays,     \* [name -> [index -> value]], device memory
  base_bit    \* of RadixSort.__call__

algvars == <<alg, kernel, written, items, arrays, base_bit>>

n == Len(alg.ary)
Compacts == {"copy_if", "remove_if", "partition", "unique"}
Uninitialized == -1
Raw(size) == [i \in 0 .. size - 1 |-> Uninitialized]

(* Stores are triples <<array, index, value>>; one past the end of an      *)
(* array shows in its domain.                                              *)
Put(mem, stores) ==
  [a \in DOMAIN mem |->
     LET new == {s \in stores : s[1] = a} IN
     [i \in DOMAIN mem[a] \cup {s[2] : s \in new} |->
        IF \E s \in new : s[2] = i THEN (CHOOSE s \in new : s[2] = i)[3] ELSE mem[a][i]]]

(* The inclusive scan with + of input(0), ..., input(size - 1).            *)
Sums(input(_), size) ==
  LET sum[i \in 0 .. size - 1] == input(i) + IF i = 0 THEN 0 ELSE sum[i - 1] IN sum
PrevItem(i) == IF i = 0 THEN 0 ELSE items[i - 1]
When(condition, stores) == IF condition THEN stores ELSE {}

-----------------------------------------------------------------------------
(* copy_if, remove_if, partition, unique.                                  *)
Ary(i) == alg.ary[i + 1]
Selected(i) ==
  CASE alg.kind \in {"copy_if", "partition"} -> Ary(i) \in alg.satisfying
    [] alg.kind = "remove_if" -> Ary(i) \notin alg.satisfying
    [] alg.kind = "unique" -> i = 0 \/ Ary(i - 1) # Ary(i)
    [] OTHER -> FALSE
CompactInput(i) == IF Selected(i) THEN 1 ELSE 0

(* Mutant: the sum is taken for the index. *)
CompactOutputAtSum(i) ==
  When(PrevItem(i) # items[i], {<<"out", items[i], Ary(i)>>})
  \cup When(alg.kind = "partition" /\ PrevItem(i) = items[i], {<<"out_false", i - items[i], Ary(i)>>})
  \cup When(i + 1 = n, {<<"count", 0, items[i]>>})

(* The output statements.                                                  *)
CompactOutput(i) ==
  When(PrevItem(i) # items[i], {<<"out", items[i] - 1, Ary(i)>>})
  \cup When(alg.kind = "partition" /\ PrevItem(i) = items[i], {<<"out_false", i - items[i], Ary(i)>>})
  \cup When(i + 1 = n, {<<"count", 0, items[i]>>})

(* RadixSort: a scan of the histogram of the bits that one pass looks at.  *)
Bins == 0 .. Pow2[alg.bits_at_a_time] - 1
BIN_NR(mem, bit, i) == (mem["keys"][i] \div Pow2[bit]) % Pow2[alg.bits_at_a_time]
Histogram(mem, bit) ==
  [i \in 0 .. n - 1 |-> [mnr \in Bins |-> Cardinality({j \in 0 .. i : BIN_NR(mem, bit, j) = mnr})]]

RadixOutput(i) ==
  LET my_bin_nr == BIN_NR(arrays, base_bit, i)
      previous_bins_size ==
        Cardinality({j \in 0 .. n - 1 : BIN_NR(arrays, base_bit, j) < my_bin_nr})
      tgt_idx == previous_bins_size + items[i][my_bin_nr] - 1
  IN  {<<"sorted_values", tgt_idx, arrays["values"][i]>>, <<"sorted_keys", tgt_idx, arrays["keys"][i]>>}

(* "substitute sorted": sorted_args is in the order of the arguments, and  *)
(* indexed by the position in sort_arg_names.                              *)
Index(name) == CHOOSE i \in 1 .. 2 : alg.sort_arg_names[i] = name
Substituted(mem) ==
  LET sorted_args == <<mem["sorted_values"], mem["sorted_keys"]>>
  IN  [mem EXCEPT !["values"] = sorted_args[Index("values")], !["keys"] = sorted_args[Index("keys")],
                  !["sorted_values"] = Raw(n), !["sorted_keys"] = Raw(n)]

(* KeyValueSorter: starts is filled with n, the first of each key writes   *)
(* its place, and a scan with min from the end covers keys without values. *)
nkeys == Pow2[alg.key_bits]
FindStarts(i) ==
  LET key == arrays["keys"] IN
  When(i = 0 \/ key[i] # key[i - 1], {<<"starts", key[i], i>>})
(* Mutant: the scan with min goes from the first key on. *)
BoundInputForwards(mem, i) == mem["starts"][i]

(* What the scan with min is given: starts, from the end.                  *)
BoundInput(mem, i) == mem["starts"][nkeys - i]
BoundScan(mem) ==
  [i \in 0 .. nkeys |-> CHOOSE b \in {BoundInput(mem, j) : j \in 0 .. i} :
                           \A j \in 0 .. i : b <= BoundInput(mem, j)]
BoundOutput(i) == {<<"starts", nkeys - i, items[i]>>}

-----------------------------------------------------------------------------
(* ListOfListsBuilder.  generate(i) appends Ary(i) entries to the list,    *)
(* and after each of them one to the list that shares its count.           *)
CountLists(i) == {<<"count", i, Ary(i)>>}
CompressInput(mem, i) == IF mem["count"][i] = 0 THEN 0 ELSE 1
(* Mutant: an object finds the index of the list after its own. *)
CompressOutputTooEarly(i) ==
  When(i + 1 < n + 1, {<<"compressed_indices", i, items[i]>>})
  \cup When(PrevItem(i) # items[i], {<<"nonempty_indices", items[i] - 1, i>>,
                                     <<"compressed_counts", items[i] - 1, arrays["count"][i]>>})
  \cup When(i + 1 = n + 1, {<<"num_nonempty_lists", 0, items[i]>>})

(* The output statement of the compression.                                *)
CompressOutput(i) ==
  When(i + 1 < n + 1, {<<"compressed_indices", i + 1, items[i]>>})
  \cup When(PrevItem(i) # items[i], {<<"nonempty_indices", items[i] - 1, i>>,
                                     <<"compressed_counts", items[i] - 1, arrays["count"][i]>>})
  \cup When(i + 1 = n + 1, {<<"num_nonempty_lists", 0, items[i]>>})

(* starts: the counts, or, up to the number of nonempty lists, the         *)
(* compressed counts, with a zero at the end.                              *)
NumLists(mem) == IF alg.eliminate THEN mem["num_nonempty_lists"][0] ELSE n
StartsBefore(mem) ==
  IF ~alg.eliminate THEN mem["count"]
  ELSE [i \in 0 .. NumLists(mem) |-> IF i = NumLists(mem) THEN 0 ELSE mem["compressed_counts"][i]]
StartsOutput(i) == {<<"starts", i + 1, items[i]>>}

(* starts.setitem(0, 0), the count is fetched and the lists allocated.     *)
AllocateLists(mem) ==
  LET starts == [mem["starts"] EXCEPT ![0] = 0]
      empty  == [i \in 0 .. starts[NumLists(mem)] - 1 |-> << >>]
  IN  [mem EXCEPT !["starts"] = starts, !["lists"] = empty, !["child"] = empty]
WriteLists(i) ==
  LET first == arrays["starts"][IF alg.eliminate THEN arrays["compressed_indices"][i] ELSE i]
  IN  {<<"lists", first + e, <<i, e>>>> : e \in 0 .. Ary(i) - 1}
      \cup {<<"child", first + e, <<"child", i, e>>>> : e \in 0 .. Ary(i) - 1}

-----------------------------------------------------------------------------
ItemCount(k) ==
  CASE k \in Compacts \cup {"radix", "find_starts", "count", "write"} -> n
    [] k = "bound" -> nkeys + 1
    [] k = "compress" -> n + 1
    [] k = "starts" -> NumLists(arrays)
    [] OTHER -> 0

Output(i) ==
  CASE kernel \in Compacts -> CompactOutput(i)
    [] kernel = "radix" -> RadixOutput(i)
    [] kernel = "find_starts" -> FindStarts(i)
    [] kernel = "bound" -> BoundOutput(i)
    [] kernel = "count" -> CountLists(i)
    [] kernel = "compress" -> CompressOutput(i)
    [] kernel = "starts" -> StartsOutput(i)
    [] kernel = "write" -> WriteLists(i)

AlgInit ==
  /\ alg \in Jobs
  /\ kernel = CASE alg.kind \in Compacts -> alg.kind
                [] alg.kind \in {"radix", "kvsort"} -> "radix"
                [] alg.kind = "lists" -> "count"
  /\ written = {} /\ base_bit = 0
  /\ arrays = CASE alg.kind \in Compacts ->
                     [out |-> Raw(n), out_false |-> Raw(n), count |-> Raw(1)]
                [] alg.kind \in {"radix", "kvsort"} ->
                     [values |-> [i \in 0 .. n - 1 |-> i], keys |-> [i \in 0 .. n - 1 |-> Ary(i)],
                      sorted_values |-> Raw(n), sorted_keys |-> Raw(n), starts |-> Raw(nkeys + 1)]
                [] alg.kind = "lists" ->
                     [count |-> [Raw(n + 1) EXCEPT ![n] = 0], compressed_counts |-> Raw(n + 1),
                      compressed_indices |-> [Raw(n + 1) EXCEPT ![0] = 0],
                      nonempty_indices |-> Raw(n + 1), num_nonempty_lists |-> Raw(1),
                      starts |-> << >>, lists |-> << >>, child |-> << >>]
  /\ items = CASE alg.kind \in Compacts -> Sums(CompactInput, n)
               [] alg.kind \in {"radix", "kvsort"} -> Histogram(arrays, 0)
               [] alg.kind = "lists" -> << >>

(* One item of the kernel.                                                 *)
RunItem(i) ==
  /\ kernel # "done" /\ i \in 0 .. ItemCount(kernel) - 1 /\ i \notin written
  /\ arrays' = Put(arrays, Output(i))
  /\ written' = written \cup {i}
  /\ UNCHANGED <<alg, kernel, items, base_bit>>

(* The next kernel, with what its scan finds in memory.                    *)
Enqueue_(from, k, mem, scanned) ==
  /\ kernel = from /\ written = 0 .. ItemCount(from) - 1
  /\ kernel' = k /\ written' = {} /\ arrays' = mem /\ items' = scanned
  /\ UNCHANGED alg

CompactEnds == Enqueue_(alg.kind, "done", arrays, << >>) /\ kernel \in Compacts /\ UNCHANGED base_bit

NextPass ==
  /\ base_bit + alg.bits_at_a_time < alg.key_bits
  /\ base_bit' = base_bit + alg.bits_at_a_time
  /\ Enqueue_("radix", "radix", Substituted(arrays), Histogram(Substituted(arrays), base_bit'))

LastPass ==
  /\ base_bit + alg.bits_at_a_time >= alg.key_bits
  /\ base_bit' = base_bit + alg.bits_at_a_time
  /\ IF alg.kind = "radix" THEN Enqueue_("radix", "done", Substituted(arrays), << >>)
     ELSE Enqueue_("radix", "find_starts",
                  [Substituted(arrays) EXCEPT !["starts"] = [k \in 0 .. nkeys |-> n]], << >>)

BoundPropagation ==
  Enqueue_("find_starts", "bound", arrays, BoundScan(arrays)) /\ UNCHANGED base_bit
StartsFound == Enqueue_("bound", "done", arrays, << >>) /\ UNCHANGED base_bit

ScanCounts(from) ==
  LET mem  == [arrays EXCEPT !["starts"] = StartsBefore(arrays)]
      input(i) == mem["starts"][i]
  IN  Enqueue_(from, "starts", mem, Sums(input, NumLists(arrays)))

CompressCounts ==
  /\ alg.eliminate /\ UNCHANGED base_bit
  /\ LET input(i) == CompressInput(arrays, i)
     IN  Enqueue_("count", "compress", arrays, Sums(input, n + 1))
ScanAllCounts == ~alg.eliminate /\ ScanCounts("count") /\ UNCHANGED base_bit
ScanCompressedCounts == ScanCounts("compress") /\ UNCHANGED base_bit
FillLists == Enqueue_("starts", "write", AllocateLists(arrays), << >>) /\ UNCHANGED base_bit
ListsBuilt == Enqueue_("write", "done", arrays, << >>) /\ UNCHANGED base_bit

AlgNext ==
  \/ \E i \in 0 .. ItemCount(kernel) - 1 : RunItem(i)
  \/ CompactEnds \/ NextPass \/ LastPass \/ BoundPropagation \/ StartsFound
  \/ CompressCounts \/ ScanAllCounts \/ ScanCompressedCounts \/ FillLists \/ ListsBuilt

(* The device executes what was enqueued.                                  *)
AlgSpec == AlgInit /\ [][AlgNext]_algvars /\ WF_algvars(AlgNext)

-----------------------------------------------------------------------------
(* How many of S are before i.                                             *)
Rank(S, i) == Cardinality({j \in S : j < i})
Yes == {i \in 0 .. n - 1 : Selected(i)}
No  == (0 .. n - 1) \ Yes

(* The selected elements come out in their order, one after the other, the *)
(* others, of a partition, in theirs, and count tells how many were        *)
(* selected; of an empty array nothing is said, not even the count.        *)
CompactKeepsOrder ==
  kernel = "done" /\ alg.kind \in Compacts /\ n > 0 =>
    /\ arrays["count"][0] = Cardinality(Yes)
    /\ \A i \in Yes : arrays["out"][Rank(Yes, i)] = Ary(i)
    /\ alg.kind = "partition" => \A i \in No : arrays["out_false"][Rank(No, i)] = Ary(i)

(* The arrays are returned in the order of the arguments; the one named    *)
(* values held the indices of the elements: they come out sorted by key,   *)
(* and stably.  KeyValueSorter's starts delimit the values of each key,    *)
(* also of keys that do not occur.  Only for names in the arguments' order.*)
SortedStably ==
  LET sorted == <<arrays["values"], arrays["keys"]>>
      v == sorted[Index("values")]
      k == sorted[Index("keys")]
  IN
  /\ {v[i] : i \in 0 .. n - 1} = 0 .. n - 1
  /\ \A i \in 0 .. n - 1 : k[i] = Ary(v[i])
  /\ \A i \in 0 .. n - 2 : Ary(v[i]) < Ary(v[i + 1]) \/ (Ary(v[i]) = Ary(v[i + 1]) /\ v[i] < v[i + 1])
SortedByKey ==
  kernel = "done" /\ alg.kind \in {"radix", "kvsort"} /\ alg.sort_arg_names = <<"values", "keys">> =>
    /\ SortedStably
    /\ alg.kind = "kvsort" =>
         \A k \in 0 .. nkeys - 1 :
           arrays["starts"][k] .. arrays["starts"][k + 1] - 1 = {i \in 0 .. n - 1 : arrays["keys"][i] = k}

(* "sorted consists of sorted copies of the arrays named in sorted_args,   *)
(* in the order of that list", whatever that order is.                     *)
SortedInAnyOrder == kernel = "done" /\ alg.kind = "radix" => SortedStably

(* Every object finds its entries, and those of the list that shares the   *)
(* count, between its starts, whole and in order, and nothing else is      *)
(* there; with empty lists eliminated, by its rank among the nonempty.     *)
ListsAreContiguous ==
  kernel = "done" /\ alg.kind = "lists" =>
    LET objects == {i \in 0 .. n - 1 : ~alg.eliminate \/ Ary(i) > 0}
        starts  == arrays["starts"]
    IN  /\ DOMAIN starts = 0 .. Cardinality(objects)
        /\ \A i \in objects :
             LET first == starts[Rank(objects, i)] IN
             /\ starts[Rank(objects, i) + 1] = first + Ary(i)
             /\ \A e \in 0 .. Ary(i) - 1 :
                  /\ arrays["lists"][first + e] = <<i, e>>
                  /\ arrays["child"][first + e] = <<"child", i, e>>
             /\ alg.eliminate => arrays["nonempty_indices"][Rank(objects, i)] = i
        /\ DOMAIN arrays["lists"] = 0 .. starts[Cardinality(objects)] - 1

(* An algorithm ends: a chain of kernels has no step that it waits for in  *)
(* vain.                                                                   *)
AlgorithmEnded == kernel = "done"
=============================================================================
