-------------------------- MODULE MemoryPoolProofs --------------------------
(***************************************************************************)
(* MemoryPool for every number of threads, handles, blocks and bins.       *)
(***************************************************************************)
EXTENDS MemoryPool, FiniteSetTheorems, SequenceTheorems, TLAPS

(* TypeOK without the counters, whose type needs CountersExact; and with   *)
(* the fields that a valid handle and a call under way have set.           *)
Shape ==
  /\ m_container \in [Bins -> Seq(Blocks)]
  /\ m_stop_holding \in BOOLEAN
  /\ bytes \in [Blocks -> Nat]
  /\ lost \in 0 .. MaxLost
  /\ outside \in OutsideUse \cup {0}
  /\ handle \in [Handles -> [state : {"none", "valid", "released"},
                             m_ptr : Blocks \cup {NoBlock}, m_size : Requests \cup {0}]]
  /\ call \in [Threads -> [pc : {"idle", "gc", "evict", "retry"},
                           size : Requests \cup {0}, raised : {"no", "oom", "error"}]]
  /\ \A h \in ValidSet : handle[h].m_ptr \in Blocks /\ handle[h].m_size \in Requests
  /\ \A t \in Threads : call[t].pc # "idle" => call[t].size \in Requests

-----------------------------------------------------------------------------
(* Popping the last element of a sequence that is not empty.               *)
LEMMA PopLast ==
  ASSUME NEW S, NEW s \in Seq(S), s # <<>>
  PROVE  /\ Len(s) \in Nat \ {0}
         /\ Last(s) \in S
         /\ Front(s) \in Seq(S)
         /\ Len(Front(s)) = Len(s) - 1
         /\ \A i \in 1 .. Len(s) - 1 : Front(s)[i] = s[i]
<1>1. Len(s) \in Nat /\ s \in [1 .. Len(s) -> S]
  BY LenProperties
<1>2. Len(s) # 0
  BY EmptySeq
<1>3. Last(s) \in S
  BY <1>1, <1>2 DEF Last
<1>4. \A i \in 1 .. Len(s) - 1 : s[i] \in S
  BY <1>1
<1>5. /\ SubSeq(s, 1, Len(s) - 1) \in Seq(S)
      /\ Len(SubSeq(s, 1, Len(s) - 1)) = IF 1 <= Len(s) - 1 THEN Len(s) - 1 - 1 + 1 ELSE 0
      /\ \A i \in 1 .. Len(s) - 1 - 1 + 1 : SubSeq(s, 1, Len(s) - 1)[i] = s[1 + i - 1]
  BY <1>1, <1>4, SubSeqProperties
<1> QED
  BY <1>1, <1>2, <1>3, <1>5 DEF Front

LEMMA ShapeInit == Init => Shape
<1> SUFFICES ASSUME Init PROVE Shape
  OBVIOUS
<1>1. m_container \in [Bins -> Seq(Blocks)]
  BY EmptySeq DEF Init
<1>2. lost \in 0 .. MaxLost
  BY BlockAssumption DEF Init
<1>3. /\ handle \in [Handles -> [state : {"none", "valid", "released"},
                                 m_ptr : Blocks \cup {NoBlock}, m_size : Requests \cup {0}]]
      /\ ValidSet = {}
  BY DEF Init, NoObject, ValidSet
<1>4. /\ call \in [Threads -> [pc : {"idle", "gc", "evict", "retry"},
                               size : Requests \cup {0}, raised : {"no", "oom", "error"}]]
      /\ \A t \in Threads : call[t].pc = "idle"
  BY DEF Init, Idle
<1> QED
  BY <1>1, <1>2, <1>3, <1>4 DEF Init, Shape

(* The three ways in which a step changes the bins keep them sequences of  *)
(* blocks.                                                                 *)
LEMMA ContainerType ==
  ASSUME m_container \in [Bins -> Seq(Blocks)], NEW k \in Bins
  PROVE  /\ m_container[k] # <<>> =>
              /\ Last(m_container[k]) \in Blocks
              /\ [m_container EXCEPT ![k] = Front(@)] \in [Bins -> Seq(Blocks)]
         /\ \A b \in Blocks : [m_container EXCEPT ![k] = Append(@, b)] \in [Bins -> Seq(Blocks)]
         /\ [j \in Bins |-> <<>>] \in [Bins -> Seq(Blocks)]
<1>1. m_container[k] # <<>> =>
        Last(m_container[k]) \in Blocks /\ Front(m_container[k]) \in Seq(Blocks)
  BY PopLast
<1>2. \A b \in Blocks : Append(m_container[k], b) \in Seq(Blocks)
  BY AppendProperties
<1> QED
  BY <1>1, <1>2, EmptySeq

LEMMA ShapeStep == Shape /\ [Next]_vars => Shape'
<1> SUFFICES ASSUME Shape, [Next]_vars PROVE Shape'
  OBVIOUS
<1> USE BinAssumption, BlockAssumption
<1>A. \A s \in Requests : BinNumber[s] \in Bins /\ AllocSize[BinNumber[s]] \in Nat \ {0}
  OBVIOUS
<1>B. ASSUME NEW s \in Requests, NEW b \in Blocks, Construct(s, b)
      PROVE  /\ handle' \in [Handles -> [state : {"none", "valid", "released"},
                               m_ptr : Blocks \cup {NoBlock}, m_size : Requests \cup {0}]]
             /\ \A h \in ValidSet' : handle'[h].m_ptr \in Blocks /\ handle'[h].m_size \in Requests
  BY <1>B DEF Construct, Shape, ValidSet
<1>C. ASSUME NEW s \in Requests, PopBlockFromBin(s)
      PROVE  /\ m_container' \in [Bins -> Seq(Blocks)]
             /\ \E b \in Blocks : Construct(s, b)
             /\ UNCHANGED <<bytes, lost, m_stop_holding>>
  BY <1>A, <1>C, ContainerType DEF PopBlockFromBin, Shape
<1>D. ASSUME NEW s \in Requests, GetFromAllocator(s)
      PROVE  /\ bytes' \in [Blocks -> Nat]
             /\ \E b \in Blocks : Construct(s, b)
             /\ UNCHANGED <<m_container, lost, m_stop_holding>>
  BY <1>A, <1>D DEF GetFromAllocator, AllocatorGives, Shape
<1>E. ASSUME NEW b \in Blocks, NEW s \in Requests, Free(b, s)
      PROVE  /\ m_container' \in [Bins -> Seq(Blocks)]
             /\ bytes' \in [Blocks -> Nat]
             /\ UNCHANGED <<m_stop_holding, lost, outside, call>>
  <2>1. CASE m_stop_holding
    BY <1>E, <2>1 DEF Free, Shape
  <2>2. CASE ~m_stop_holding
    <3>1. m_container' = [m_container EXCEPT ![BinNumber[s]] = Append(@, b)]
      BY <1>E, <2>2 DEF Free
    <3>2. m_container' \in [Bins -> Seq(Blocks)]
      BY <1>A, <3>1, ContainerType DEF Shape
    <3> QED
      BY <1>E, <2>2, <3>2 DEF Free, Shape
  <2> QED
    BY <2>1, <2>2
<1>1. ASSUME NEW t \in Threads, NEW s \in Requests, AllocateFromBin(t, s) PROVE Shape'
  BY <1>1, <1>B, <1>C DEF AllocateFromBin, CanStart, Return, Idle, Shape
<1>2. ASSUME NEW t \in Threads, NEW s \in Requests, AllocateNew(t, s) PROVE Shape'
  BY <1>2, <1>B, <1>D DEF AllocateNew, CanStart, Return, Idle, Shape
<1>3. ASSUME NEW t \in Threads, NEW s \in Requests, AllocateOutOfMemory(t, s) PROVE Shape'
  BY <1>3 DEF AllocateOutOfMemory, OutOfMemory, AllocatorThrows, ValidSet, Shape
<1>4. ASSUME NEW t \in Threads, NEW s \in Requests, AllocateFails(t, s) PROVE Shape'
  BY <1>4 DEF AllocateFails, AllocatorThrows, Raise, Raised, ValidSet, Shape
<1>5. ASSUME NEW t \in Threads, CollectedIntoBin(t) PROVE Shape'
  <2>1. call[t].size \in Requests
    BY <1>5 DEF CollectedIntoBin, Shape
  <2> QED
    BY <1>5, <2>1, <1>B, <1>C DEF CollectedIntoBin, Return, Idle, Shape
<1>6. ASSUME NEW t \in Threads, CollectedElsewhere(t) PROVE Shape'
  BY <1>6 DEF CollectedElsewhere, ValidSet, Shape
<1>7. ASSUME NEW t \in Threads, TryToFreeMemory(t) PROVE Shape'
  <2>1. PICK k \in Bins :
          /\ m_container[k] # <<>>
          /\ bytes' = [bytes EXCEPT ![Last(m_container[k])] = 0]
          /\ m_container' = [m_container EXCEPT ![k] = Front(@)]
    BY <1>7 DEF TryToFreeMemory, Largest
  <2>2. m_container' \in [Bins -> Seq(Blocks)] /\ bytes' \in [Blocks -> Nat]
    BY <2>1, ContainerType DEF Shape
  <2>3. /\ call' = [call EXCEPT ![t].pc = "retry"]
        /\ call[t].pc = "evict"
        /\ UNCHANGED <<m_stop_holding, lost, outside, handle>>
    BY <1>7 DEF TryToFreeMemory
  <2>4. ValidSet' = ValidSet
    BY <2>3 DEF ValidSet
  <2> QED
    BY <2>2, <2>3, <2>4 DEF Shape
<1>8. ASSUME NEW t \in Threads, RetryNew(t) PROVE Shape'
  <2>1. call[t].size \in Requests
    BY <1>8 DEF RetryNew, Shape
  <2> QED
    BY <1>8, <2>1, <1>B, <1>D DEF RetryNew, Return, Idle, Shape
<1>9. ASSUME NEW t \in Threads, RetryOutOfMemory(t) PROVE Shape'
  <2>1. lost' \in 0 .. MaxLost /\ UNCHANGED bytes
    BY <1>9 DEF RetryOutOfMemory, OutOfMemory, AllocatorThrows, Shape
  <2> QED
    BY <1>9, <2>1 DEF RetryOutOfMemory, ValidSet, Shape
<1>10. ASSUME NEW t \in Threads, RetryFails(t) PROVE Shape'
  <2>1. lost' \in 0 .. MaxLost /\ UNCHANGED bytes
    BY <1>10 DEF RetryFails, AllocatorThrows, Shape
  <2>2. /\ call' = [call EXCEPT ![t] = Raised("error")]
        /\ UNCHANGED <<m_container, m_stop_holding, outside, handle>>
    BY <1>10 DEF RetryFails, Raise
  <2>3. ValidSet' = ValidSet
    BY <2>2 DEF ValidSet
  <2> QED
    BY <2>1, <2>2, <2>3 DEF Raised, Shape
<1>11. ASSUME NEW t \in Threads, GiveUp(t) PROVE Shape'
  BY <1>11 DEF GiveUp, Raise, Raised, ValidSet, Shape
<1>12. ASSUME NEW h \in Handles, Release(h) PROVE Shape'
  <2>1. handle[h].m_ptr \in Blocks /\ handle[h].m_size \in Requests
    BY <1>12 DEF Release, ValidSet, Shape
  <2> QED
    BY <1>12, <2>1, <1>E DEF Release, ValidSet, Shape
<1>13. ASSUME NEW h \in Handles, DestroyValid(h) PROVE Shape'
  <2>1. handle[h].m_ptr \in Blocks /\ handle[h].m_size \in Requests
    BY <1>13 DEF DestroyValid, ValidSet, Shape
  <2> QED
    BY <1>13, <2>1, <1>E DEF DestroyValid, NoObject, ValidSet, Shape
<1>14. ASSUME NEW h \in Handles, DestroyReleased(h) PROVE Shape'
  BY <1>14 DEF DestroyReleased, NoObject, ValidSet, Shape
<1>15. ASSUME FreeAllHeld, m_stop_holding' \in BOOLEAN PROVE Shape'
  BY <1>15, EmptySeq DEF FreeAllHeld, ValidSet, Shape
<1>16. CASE FreeHeld
  BY <1>15, <1>16 DEF FreeHeld, Shape
<1>17. CASE StopHolding
  BY <1>15, <1>17 DEF StopHolding
<1>18. CASE UseOutside
  BY <1>18 DEF UseOutside, ValidSet, Shape
<1>19. CASE UNCHANGED vars
  BY <1>19 DEF vars, ValidSet, Shape
<1> QED
  BY <1>1, <1>2, <1>3, <1>4, <1>5, <1>6, <1>7, <1>8, <1>9, <1>10, <1>11, <1>12,
     <1>13, <1>14, <1>16, <1>17, <1>18, <1>19 DEF Next, CallStep

-----------------------------------------------------------------------------
(* The places of the bins c, as the proofs speak of them: e is a pair of a *)
(* bin and a position, At(c, e) the block that is held there.              *)
At(c, e)    == c[e[1]][e[2]]
EntriesOf(c) == UNION {{k} \X DOMAIN c[k] : k \in Bins}

LEMMA EntriesDef ==
  ASSUME NEW c \in [Bins -> Seq(Blocks)]
  PROVE  /\ \A k \in Bins : Len(c[k]) \in Nat
         /\ \A k \in Bins : DOMAIN c[k] = 1 .. Len(c[k])
         /\ \A e : e \in EntriesOf(c) <=> \E k \in Bins : \E i \in 1 .. Len(c[k]) : e = <<k, i>>
         /\ \A e \in EntriesOf(c) : e[1] \in Bins /\ At(c, e) \in Blocks
<1>1. \A k \in Bins : /\ Len(c[k]) \in Nat
                      /\ DOMAIN c[k] = 1 .. Len(c[k])
                      /\ c[k] \in [1 .. Len(c[k]) -> Blocks]
  BY LenProperties
<1>2. \A e : e \in EntriesOf(c) <=> \E k \in Bins : \E i \in 1 .. Len(c[k]) : e = <<k, i>>
  BY <1>1 DEF EntriesOf
<1>3. \A e \in EntriesOf(c) : e[1] \in Bins /\ At(c, e) \in Blocks
  BY <1>1, <1>2 DEF At
<1> QED
  BY <1>1, <1>2, <1>3

(* The held blocks are those at the places of the bins.                    *)
LEMMA HeldDef ==
  ASSUME m_container \in [Bins -> Seq(Blocks)]
  PROVE  /\ \A k \in Bins : InBin(k) = {At(m_container, e) : e \in {f \in Entries : f[1] = k}}
         /\ HeldSet = {At(m_container, e) : e \in Entries}
<1>1. /\ \A k \in Bins : DOMAIN m_container[k] = 1 .. Len(m_container[k])
      /\ \A e : e \in Entries <=> \E k \in Bins : \E i \in 1 .. Len(m_container[k]) : e = <<k, i>>
      /\ \A e \in Entries : e[1] \in Bins
  BY EntriesDef DEF Entries, EntriesOf
<1>2. \A k \in Bins : InBin(k) = {At(m_container, e) : e \in {f \in Entries : f[1] = k}}
  <2> SUFFICES ASSUME NEW k \in Bins
               PROVE  InBin(k) = {At(m_container, e) : e \in {f \in Entries : f[1] = k}}
    OBVIOUS
  <2>1. ASSUME NEW b \in InBin(k)
        PROVE  \E e \in Entries : e[1] = k /\ At(m_container, e) = b
    <3>1. PICK i \in 1 .. Len(m_container[k]) : b = m_container[k][i]
      BY <1>1 DEF InBin
    <3>2. <<k, i>> \in Entries /\ <<k, i>>[1] = k /\ At(m_container, <<k, i>>) = b
      BY <1>1, <3>1 DEF At
    <3> QED
      BY <3>2
  <2>2. ASSUME NEW e \in Entries, e[1] = k PROVE At(m_container, e) \in InBin(k)
    BY <1>1, <2>2 DEF At, InBin
  <2> QED
    BY <2>1, <2>2
<1>3. HeldSet = {At(m_container, e) : e \in Entries}
  <2>1. ASSUME NEW b \in HeldSet PROVE \E e \in Entries : At(m_container, e) = b
    BY <1>2 DEF HeldSet
  <2>2. ASSUME NEW e \in Entries PROVE At(m_container, e) \in HeldSet
    BY <1>1, <1>2 DEF HeldSet
  <2> QED
    BY <2>1, <2>2
<1> QED
  BY <1>2, <1>3

(* What the three changes of the bins do to the places.                    *)
LEMMA PopEffect ==
  ASSUME m_container \in [Bins -> Seq(Blocks)], NEW k \in Bins, m_container[k] # <<>>,
         m_container' = [m_container EXCEPT ![k] = Front(@)]
  PROVE  \E p \in Entries : /\ p[1] = k
                            /\ At(m_container, p) = Last(m_container[k])
                            /\ Entries' = Entries \ {p}
                            /\ \A e \in Entries' : At(m_container', e) = At(m_container, e)
<1> DEFINE n == Len(m_container[k])
<1>1. /\ n \in Nat \ {0}
      /\ Front(m_container[k]) \in Seq(Blocks)
      /\ Len(Front(m_container[k])) = n - 1
      /\ \A i \in 1 .. n - 1 : Front(m_container[k])[i] = m_container[k][i]
  BY PopLast
<1>2. m_container' \in [Bins -> Seq(Blocks)]
  BY <1>1
<1>3. \A e : e \in Entries <=> \E j \in Bins : \E i \in 1 .. Len(m_container[j]) : e = <<j, i>>
  BY EntriesDef DEF Entries, EntriesOf
<1>4. \A e : e \in Entries' <=> \E j \in Bins : \E i \in 1 .. Len(m_container'[j]) : e = <<j, i>>
  BY <1>2, EntriesDef DEF Entries, EntriesOf
<1>5. \A j \in Bins : /\ Len(m_container[j]) \in Nat
                      /\ j # k => m_container'[j] = m_container[j]
                      /\ j = k => Len(m_container'[j]) = n - 1
  BY <1>1, EntriesDef
<1>6. <<k, n>> \in Entries /\ At(m_container, <<k, n>>) = Last(m_container[k])
  BY <1>1, <1>3 DEF At, Last
<1>7. ASSUME NEW e \in Entries' PROVE e \in Entries \ {<<k, n>>} /\ At(m_container', e) = At(m_container, e)
  <2>1. PICK j \in Bins : \E i \in 1 .. Len(m_container'[j]) : e = <<j, i>>
    BY <1>4
  <2>0. PICK i \in 1 .. Len(m_container'[j]) : e = <<j, i>>
    BY <2>1
  <2> QED
    BY <1>1, <1>3, <1>5, <2>0 DEF At
<1>8. ASSUME NEW e \in Entries, e # <<k, n>> PROVE e \in Entries'
  <2>1. PICK j \in Bins : \E i \in 1 .. Len(m_container[j]) : e = <<j, i>>
    BY <1>3
  <2>0. PICK i \in 1 .. Len(m_container[j]) : e = <<j, i>>
    BY <2>1
  <2>2. i \in 1 .. Len(m_container'[j])
    BY <1>1, <1>5, <1>8, <2>0
  <2> QED
    BY <1>4, <2>0, <2>2
<1> QED
  BY <1>6, <1>7, <1>8

LEMMA PushEffect ==
  ASSUME m_container \in [Bins -> Seq(Blocks)], NEW k \in Bins, NEW b \in Blocks,
         m_container' = [m_container EXCEPT ![k] = Append(@, b)]
  PROVE  \E p : /\ p \notin Entries
                /\ p[1] = k
                /\ At(m_container', p) = b
                /\ Entries' = Entries \cup {p}
                /\ \A e \in Entries : At(m_container', e) = At(m_container, e)
<1> DEFINE n == Len(m_container[k])
<1>1. /\ n \in Nat
      /\ Append(m_container[k], b) \in Seq(Blocks)
      /\ Len(Append(m_container[k], b)) = n + 1
      /\ \A i \in 1 .. n : Append(m_container[k], b)[i] = m_container[k][i]
      /\ Append(m_container[k], b)[n + 1] = b
  BY LenProperties, AppendProperties
<1>2. m_container' \in [Bins -> Seq(Blocks)]
  BY <1>1
<1>3. \A e : e \in Entries <=> \E j \in Bins : \E i \in 1 .. Len(m_container[j]) : e = <<j, i>>
  BY EntriesDef DEF Entries, EntriesOf
<1>4. \A e : e \in Entries' <=> \E j \in Bins : \E i \in 1 .. Len(m_container'[j]) : e = <<j, i>>
  BY <1>2, EntriesDef DEF Entries, EntriesOf
<1>5. \A j \in Bins : /\ Len(m_container[j]) \in Nat
                      /\ j # k => m_container'[j] = m_container[j]
                      /\ j = k => Len(m_container'[j]) = n + 1
  BY <1>1, EntriesDef
<1>6. /\ <<k, n + 1>> \notin Entries
      /\ <<k, n + 1>> \in Entries'
      /\ m_container'[k][n + 1] = b
  BY <1>1, <1>3, <1>4, <1>5
<1>7. ASSUME NEW e \in Entries PROVE e \in Entries' /\ At(m_container', e) = At(m_container, e)
  <2>1. PICK j \in Bins : \E i \in 1 .. Len(m_container[j]) : e = <<j, i>>
    BY <1>3
  <2>0. PICK i \in 1 .. Len(m_container[j]) : e = <<j, i>>
    BY <2>1
  <2>2. i \in 1 .. Len(m_container'[j]) /\ m_container'[j][i] = m_container[j][i]
    BY <1>1, <1>5, <2>0
  <2> QED
    BY <1>4, <2>0, <2>2 DEF At
<1>8. ASSUME NEW e \in Entries', e # <<k, n + 1>> PROVE e \in Entries
  <2>1. PICK j \in Bins : \E i \in 1 .. Len(m_container'[j]) : e = <<j, i>>
    BY <1>4
  <2>0. PICK i \in 1 .. Len(m_container'[j]) : e = <<j, i>>
    BY <2>1
  <2>2. i \in 1 .. Len(m_container[j])
    BY <1>1, <1>5, <1>8, <2>0
  <2> QED
    BY <1>3, <2>0, <2>2
<1>9. At(m_container', <<k, n + 1>>) = b
  BY <1>6 DEF At
<1> QED
  BY <1>6, <1>7, <1>8, <1>9

-----------------------------------------------------------------------------
(* The seven effects a step has on bins, handles and device blocks.        *)
Drop(h) ==
  /\ handle[h].state = "valid"
  /\ Free(handle[h].m_ptr, handle[h].m_size)
  /\ \E o : o.state # "valid" /\ handle' = [handle EXCEPT ![h] = o]

EvictFrom(k) ==
  /\ m_container[k] # <<>>
  /\ bytes' = [bytes EXCEPT ![Last(m_container[k])] = 0]
  /\ m_container' = [m_container EXCEPT ![k] = Front(@)]
  /\ m_held_blocks' = m_held_blocks - 1
  /\ UNCHANGED <<m_active_blocks, m_stop_holding, handle>>

Quiet ==
  /\ UNCHANGED <<m_container, m_held_blocks, m_active_blocks, m_stop_holding, bytes>>
  /\ ValidSet' = ValidSet
  /\ \A h \in ValidSet : handle'[h] = handle[h]

FreeAll == FreeAllHeld /\ m_stop_holding' \in {m_stop_holding, TRUE}

Effect ==
  \/ \E s \in Requests : PopBlockFromBin(s)
  \/ \E s \in Requests : GetFromAllocator(s)
  \/ \E h \in ValidSet : Drop(h)
  \/ \E k \in Bins : EvictFrom(k)
  \/ FreeAll
  \/ Quiet

LEMMA EveryStepIsAnEffect == Shape /\ [Next]_vars => Effect
<1> SUFFICES ASSUME Shape, [Next]_vars PROVE Effect
  OBVIOUS
<1>A. ASSUME UNCHANGED <<m_container, m_held_blocks, m_active_blocks, m_stop_holding, bytes, handle>>
      PROVE  Quiet
  BY <1>A DEF Quiet, ValidSet
<1>1. ASSUME NEW t \in Threads, NEW s \in Requests,
             AllocateFromBin(t, s) \/ AllocateNew(t, s)
      PROVE  Effect
  BY <1>1 DEF AllocateFromBin, AllocateNew, Effect
<1>2. ASSUME NEW t \in Threads, NEW s \in Requests,
             AllocateOutOfMemory(t, s) \/ AllocateFails(t, s)
      PROVE  Quiet
  BY <1>2, <1>A DEF AllocateOutOfMemory, AllocateFails, OutOfMemory, AllocatorThrows
<1>3. ASSUME NEW t \in Threads, CollectedIntoBin(t) \/ RetryNew(t) PROVE Effect
  <2>1. call[t].size \in Requests
    BY <1>3 DEF CollectedIntoBin, RetryNew, Shape
  <2> QED
    BY <1>3, <2>1 DEF CollectedIntoBin, RetryNew, Effect
<1>4. ASSUME NEW t \in Threads,
             CollectedElsewhere(t) \/ RetryOutOfMemory(t) \/ RetryFails(t) \/ GiveUp(t)
      PROVE  Quiet
  BY <1>4, <1>A DEF CollectedElsewhere, RetryOutOfMemory, RetryFails, GiveUp, OutOfMemory, AllocatorThrows
<1>5. ASSUME NEW t \in Threads, TryToFreeMemory(t) PROVE \E k \in Bins : EvictFrom(k)
  BY <1>5 DEF TryToFreeMemory, Largest, EvictFrom
<1>6. ASSUME NEW h \in Handles, Release(h) PROVE h \in ValidSet /\ Drop(h)
  <2>1. handle' = [handle EXCEPT ![h] = [handle[h] EXCEPT !.state = "released"]]
    BY <1>6 DEF Release
  <2>2. [handle[h] EXCEPT !.state = "released"].state # "valid"
    BY DEF Shape
  <2> QED
    BY <1>6, <2>1, <2>2 DEF Release, ValidSet, Drop
<1>7. ASSUME NEW h \in Handles, DestroyValid(h) PROVE h \in ValidSet /\ Drop(h)
  BY <1>7 DEF DestroyValid, NoObject, ValidSet, Drop
<1>8. ASSUME NEW h \in Handles, DestroyReleased(h) PROVE Quiet
  BY <1>8 DEF DestroyReleased, NoObject, ValidSet, Quiet, Shape
<1>9. CASE FreeHeld \/ StopHolding
  BY <1>9 DEF FreeHeld, StopHolding, FreeAll, Effect
<1>10. CASE UseOutside \/ UNCHANGED vars
  BY <1>10, <1>A DEF UseOutside, vars, Effect
<1> QED
  BY <1>1, <1>2, <1>3, <1>4, <1>5, <1>6, <1>7, <1>8, <1>9, <1>10 DEF Next, CallStep, Effect

LEMMA ConstructEffect ==
  ASSUME Shape, NEW s \in Requests, NEW b \in Blocks, Construct(s, b)
  PROVE  \E h \in Handles \ ValidSet :
           /\ ValidSet' = ValidSet \cup {h}
           /\ handle'[h].m_ptr = b /\ handle'[h].m_size = s
           /\ \A g \in ValidSet : handle'[g] = handle[g]
BY DEF Construct, ValidSet, Shape

LEMMA DropEffect ==
  ASSUME Shape, NEW h \in ValidSet, Drop(h)
  PROVE  /\ ValidSet' = ValidSet \ {h}
         /\ \A g \in ValidSet' : handle'[g] = handle[g]
BY DEF Drop, ValidSet, Shape

-----------------------------------------------------------------------------
(* BlockOwnershipExact and BinsInterchangeable, place by place.            *)
OwnInv ==
  /\ \A e, f \in Entries : At(m_container, e) = At(m_container, f) => e = f
  /\ \A g, h \in ValidSet : handle[g].m_ptr = handle[h].m_ptr => g = h
  /\ \A e \in Entries, h \in ValidSet : At(m_container, e) # handle[h].m_ptr
  /\ \A b \in Blocks : bytes[b] > 0 <=> \/ \E e \in Entries : At(m_container, e) = b
                                        \/ \E h \in ValidSet : handle[h].m_ptr = b
  /\ \A e \in Entries : bytes[At(m_container, e)] = AllocSize[e[1]]
  /\ \A h \in ValidSet : bytes[handle[h].m_ptr] = AllocSize[BinNumber[handle[h].m_size]]

(* CountersExact, with the finiteness that counting needs.                 *)
CountInv ==
  /\ IsFiniteSet(Entries)  /\ m_held_blocks = Cardinality(Entries)
  /\ IsFiniteSet(ValidSet) /\ m_active_blocks = Cardinality(ValidSet)

LEMMA OwnPop ==
  ASSUME Shape, OwnInv, CountInv, NEW s \in Requests, PopBlockFromBin(s)
  PROVE  OwnInv' /\ CountInv'
<1>1. BinNumber[s] \in Bins
  BY BinAssumption
<1>2. PICK p \in Entries :
        /\ p[1] = BinNumber[s]
        /\ At(m_container, p) = Last(m_container[BinNumber[s]])
        /\ Entries' = Entries \ {p}
        /\ \A e \in Entries' : At(m_container', e) = At(m_container, e)
  BY <1>1, PopEffect DEF PopBlockFromBin, Shape
<1>3. At(m_container, p) \in Blocks
  BY EntriesDef DEF Entries, EntriesOf, Shape
<1>4. PICK h \in Handles \ ValidSet :
        /\ ValidSet' = ValidSet \cup {h}
        /\ handle'[h].m_ptr = At(m_container, p) /\ handle'[h].m_size = s
        /\ \A g \in ValidSet : handle'[g] = handle[g]
  BY <1>2, <1>3, ConstructEffect DEF PopBlockFromBin
<1>5. bytes' = bytes
  BY DEF PopBlockFromBin
<1>6. OwnInv'
  BY <1>2, <1>3, <1>4, <1>5 DEF OwnInv
<1>7. CountInv'
  <2>1. IsFiniteSet(Entries') /\ Cardinality(Entries') = Cardinality(Entries) - 1
    BY <1>2, FS_RemoveElement DEF CountInv
  <2>2. IsFiniteSet(ValidSet') /\ Cardinality(ValidSet') = Cardinality(ValidSet) + 1
    BY <1>4, FS_AddElement DEF CountInv
  <2> QED
    BY <2>1, <2>2 DEF CountInv, PopBlockFromBin
<1> QED
  BY <1>6, <1>7

LEMMA OwnNew ==
  ASSUME Shape, OwnInv, CountInv, NEW s \in Requests, GetFromAllocator(s)
  PROVE  OwnInv' /\ CountInv'
<1> DEFINE n == AllocSize[BinNumber[s]]
<1>1. n \in Nat \ {0}
  BY BinAssumption
<1>2. PICK b \in Blocks : AllocatorGives(b, n) /\ Construct(s, b)
  BY DEF GetFromAllocator
<1>3. PICK h \in Handles \ ValidSet :
        /\ ValidSet' = ValidSet \cup {h}
        /\ handle'[h].m_ptr = b /\ handle'[h].m_size = s
        /\ \A g \in ValidSet : handle'[g] = handle[g]
  BY <1>2, ConstructEffect
<1>4. bytes[b] = 0 /\ bytes' = [bytes EXCEPT ![b] = n]
  BY <1>2 DEF AllocatorGives
<1>5. Entries' = Entries /\ m_container' = m_container
  BY DEF GetFromAllocator, Entries
<1>6. /\ \A e \in Entries : At(m_container, e) \in Blocks /\ At(m_container, e) # b
      /\ \A g \in ValidSet : handle[g].m_ptr \in Blocks /\ handle[g].m_ptr # b
  <2>1. \A e \in Entries : At(m_container, e) \in Blocks
    BY EntriesDef DEF Entries, EntriesOf, Shape
  <2> QED
    BY <1>4, <2>1 DEF OwnInv, Shape
<1>7. OwnInv'
  <2>1. \A c \in Blocks : bytes'[c] = IF c = b THEN n ELSE bytes[c]
    BY <1>4 DEF Shape
  <2> QED
    BY <1>1, <1>3, <1>5, <1>6, <2>1 DEF OwnInv
<1>8. CountInv'
  <2>1. IsFiniteSet(ValidSet') /\ Cardinality(ValidSet') = Cardinality(ValidSet) + 1
    BY <1>3, FS_AddElement DEF CountInv
  <2> QED
    BY <1>5, <2>1 DEF CountInv, GetFromAllocator
<1> QED
  BY <1>7, <1>8

LEMMA OwnDrop ==
  ASSUME Shape, OwnInv, CountInv, NEW h \in ValidSet, Drop(h)
  PROVE  OwnInv' /\ CountInv'
<1> DEFINE b == handle[h].m_ptr
           k == BinNumber[handle[h].m_size]
<1>1. b \in Blocks /\ k \in Bins /\ bytes[b] = AllocSize[k]
  BY BinAssumption DEF Shape, OwnInv
<1>2. /\ ValidSet' = ValidSet \ {h}
      /\ \A g \in ValidSet' : handle'[g] = handle[g]
  BY DropEffect
<1>3. IsFiniteSet(ValidSet') /\ Cardinality(ValidSet') = Cardinality(ValidSet) - 1
  BY <1>2, FS_RemoveElement DEF CountInv
<1>4. CASE m_stop_holding
  <2>1. /\ bytes' = [bytes EXCEPT ![b] = 0]
        /\ m_container' = m_container /\ Entries' = Entries
        /\ m_held_blocks' = m_held_blocks /\ m_active_blocks' = m_active_blocks - 1
    BY <1>4 DEF Drop, Free, Entries
  <2>2. \A c \in Blocks : bytes'[c] = IF c = b THEN 0 ELSE bytes[c]
    BY <2>1 DEF Shape
  <2>3. /\ \A e \in Entries : At(m_container, e) \in Blocks /\ At(m_container, e) # b
        /\ \A g \in ValidSet' : handle[g].m_ptr \in Blocks /\ handle[g].m_ptr # b
    <3>1. \A e \in Entries : At(m_container, e) \in Blocks
      BY EntriesDef DEF Entries, EntriesOf, Shape
    <3> QED
      BY <1>2, <3>1 DEF OwnInv, Shape
  <2>4. OwnInv'
    BY <1>1, <1>2, <2>1, <2>2, <2>3 DEF OwnInv
  <2> QED
    BY <1>3, <2>1, <2>4 DEF CountInv
<1>5. CASE ~m_stop_holding
  <2>1. /\ bytes' = bytes
        /\ m_container' = [m_container EXCEPT ![k] = Append(@, b)]
        /\ m_held_blocks' = m_held_blocks + 1 /\ m_active_blocks' = m_active_blocks - 1
    BY <1>5 DEF Drop, Free
  <2>2. PICK p : /\ p \notin Entries
                 /\ p[1] = k
                 /\ At(m_container', p) = b
                 /\ Entries' = Entries \cup {p}
                 /\ \A e \in Entries : At(m_container', e) = At(m_container, e)
    <3> HIDE DEF k, b
    <3>1. m_container \in [Bins -> Seq(Blocks)]
      BY DEF Shape
    <3> QED
      BY <1>1, <2>1, <3>1, PushEffect
  <2>3. OwnInv'
    <3>1. /\ \A e \in Entries : At(m_container, e) # b
          /\ \A g \in ValidSet' : handle[g].m_ptr # b
      BY <1>2 DEF OwnInv
    <3>2. \A e, f \in Entries' : At(m_container', e) = At(m_container', f) => e = f
      BY <2>2, <3>1 DEF OwnInv
    <3>3. \A e \in Entries', g \in ValidSet' : At(m_container', e) # handle'[g].m_ptr
      BY <1>2, <2>2, <3>1 DEF OwnInv
    <3>4. \A c \in Blocks : bytes'[c] > 0 <=> \/ \E e \in Entries' : At(m_container', e) = c
                                              \/ \E g \in ValidSet' : handle'[g].m_ptr = c
      <4>1. \A c : (\E e \in Entries' : At(m_container', e) = c)
                     <=> c = b \/ \E e \in Entries : At(m_container, e) = c
        BY <2>2
      <4>2. \A c : (\E g \in ValidSet : handle[g].m_ptr = c)
                     <=> c = b \/ \E g \in ValidSet' : handle'[g].m_ptr = c
        BY <1>2
      <4>3. bytes[b] > 0
        BY <1>1 DEF OwnInv
      <4>4. \A c \in Blocks : bytes'[c] > 0 <=> \/ \E e \in Entries : At(m_container, e) = c
                                                \/ \E g \in ValidSet : handle[g].m_ptr = c
        BY <2>1 DEF OwnInv
      <4> HIDE DEF b
      <4> QED
        BY <2>1, <4>1, <4>2, <4>3, <4>4
    <3>5. \A e \in Entries' : bytes'[At(m_container', e)] = AllocSize[e[1]]
      BY <1>1, <2>1, <2>2 DEF OwnInv
    <3>6. /\ \A f, g \in ValidSet' : handle'[f].m_ptr = handle'[g].m_ptr => f = g
          /\ \A g \in ValidSet' :
               bytes'[handle'[g].m_ptr] = AllocSize[BinNumber[handle'[g].m_size]]
      BY <1>2, <2>1 DEF OwnInv
    <3> QED
      BY <3>2, <3>3, <3>4, <3>5, <3>6 DEF OwnInv
  <2>4. IsFiniteSet(Entries') /\ Cardinality(Entries') = Cardinality(Entries) + 1
    BY <2>2, FS_AddElement DEF CountInv
  <2> QED
    BY <1>3, <2>1, <2>3, <2>4 DEF CountInv
<1> QED
  BY <1>4, <1>5 DEF Shape

LEMMA OwnEvict ==
  ASSUME Shape, OwnInv, CountInv, NEW k \in Bins, EvictFrom(k)
  PROVE  OwnInv' /\ CountInv'
<1>1. PICK p \in Entries : /\ p[1] = k
                           /\ At(m_container, p) = Last(m_container[k])
                           /\ Entries' = Entries \ {p}
                           /\ \A e \in Entries' : At(m_container', e) = At(m_container, e)
  BY PopEffect DEF EvictFrom, Shape
<1> DEFINE b == At(m_container, p)
<1>2. /\ b \in Blocks
      /\ \A e \in Entries' : At(m_container, e) \in Blocks /\ At(m_container, e) # b
  <2>1. \A e \in Entries : At(m_container, e) \in Blocks
    BY EntriesDef DEF Entries, EntriesOf, Shape
  <2> QED
    BY <1>1, <2>1 DEF OwnInv
<1>3. \A c \in Blocks : bytes'[c] = IF c = b THEN 0 ELSE bytes[c]
  BY <1>1 DEF EvictFrom, Shape
<1>4. ValidSet' = ValidSet /\ handle' = handle
  BY DEF EvictFrom, ValidSet
<1>5. \A h \in ValidSet : handle[h].m_ptr \in Blocks /\ handle[h].m_ptr # b
  BY <1>1 DEF OwnInv, Shape
<1>6. OwnInv'
  BY <1>1, <1>2, <1>3, <1>4, <1>5 DEF OwnInv
<1>7. IsFiniteSet(Entries') /\ Cardinality(Entries') = Cardinality(Entries) - 1
  BY <1>1, FS_RemoveElement DEF CountInv
<1> QED
  BY <1>4, <1>6, <1>7 DEF CountInv, EvictFrom

LEMMA OwnFreeAll ==
  ASSUME Shape, OwnInv, CountInv, FreeAll
  PROVE  OwnInv' /\ CountInv' /\ Entries' = {}
<1>1. /\ bytes' = [b \in Blocks |-> IF b \in HeldSet THEN 0 ELSE bytes[b]]
      /\ m_container' = [k \in Bins |-> <<>>]
      /\ m_held_blocks' = m_held_blocks - Cardinality(Entries)
      /\ m_active_blocks' = m_active_blocks /\ handle' = handle /\ ValidSet' = ValidSet
  BY DEF FreeAll, FreeAllHeld, ValidSet
<1>2. Entries' = {}
  <2>1. m_container' \in [Bins -> Seq(Blocks)] /\ \A k \in Bins : Len(m_container'[k]) = 0
    BY <1>1, EmptySeq
  <2>2. \A e : e \notin Entries'
    BY <2>1, EntriesDef DEF Entries, EntriesOf
  <2> QED
    BY <2>2
<1>3. HeldSet = {At(m_container, e) : e \in Entries}
  BY HeldDef DEF Shape
<1>4. \A h \in ValidSet : handle[h].m_ptr \in Blocks /\ handle[h].m_ptr \notin HeldSet
  BY <1>3 DEF OwnInv, Shape
<1>5. OwnInv'
  BY <1>1, <1>2, <1>3, <1>4 DEF OwnInv
<1>6. IsFiniteSet(Entries') /\ m_held_blocks' = Cardinality(Entries')
  <2>1. Cardinality(Entries) \in Nat
    BY FS_CardinalityType DEF CountInv
  <2> QED
    BY <1>1, <1>2, <2>1, FS_EmptySet DEF CountInv
<1> QED
  BY <1>1, <1>2, <1>5, <1>6 DEF CountInv

LEMMA OwnQuiet ==
  ASSUME Shape, OwnInv, CountInv, Quiet
  PROVE  OwnInv' /\ CountInv'
<1>1. Entries' = Entries /\ m_container' = m_container
  BY DEF Quiet, Entries
<1>2. OwnInv'
  BY <1>1 DEF OwnInv, Quiet
<1> QED
  BY <1>1, <1>2 DEF CountInv, Quiet

-----------------------------------------------------------------------------
(* After stop_holding the bins are empty: pops keep them so, and free no   *)
(* longer pushes.                                                          *)
StopInv == m_stop_holding => Entries = {}

LEMMA StopStep ==
  ASSUME Shape, OwnInv, CountInv, StopInv, Effect
  PROVE  StopInv'
<1>1. ASSUME NEW s \in Requests, PopBlockFromBin(s) PROVE StopInv'
  <2>1. BinNumber[s] \in Bins
    BY BinAssumption
  <2>2. Entries' \subseteq Entries
    BY <1>1, <2>1, PopEffect DEF PopBlockFromBin, Shape
  <2> QED
    BY <1>1, <2>2 DEF StopInv, PopBlockFromBin
<1>2. ASSUME NEW s \in Requests, GetFromAllocator(s) PROVE StopInv'
  BY <1>2 DEF GetFromAllocator, StopInv, Entries
<1>3. ASSUME NEW h \in ValidSet, Drop(h) PROVE StopInv'
  <2>1. m_stop_holding' = m_stop_holding
    BY <1>3 DEF Drop, Free
  <2>2. CASE m_stop_holding
    <3>1. m_container' = m_container
      BY <1>3, <2>2 DEF Drop, Free
    <3> QED
      BY <2>1, <3>1 DEF StopInv, Entries
  <2>3. CASE ~m_stop_holding
    BY <2>1, <2>3 DEF StopInv
  <2> QED
    BY <2>2, <2>3
<1>4. ASSUME NEW k \in Bins, EvictFrom(k) PROVE StopInv'
  <2>1. Entries' \subseteq Entries
    BY <1>4, PopEffect DEF EvictFrom, Shape
  <2> QED
    BY <1>4, <2>1 DEF StopInv, EvictFrom
<1>5. CASE FreeAll
  BY <1>5, OwnFreeAll DEF StopInv
<1>6. CASE Quiet
  BY <1>6 DEF Quiet, StopInv, Entries
<1> QED
  BY <1>1, <1>2, <1>3, <1>4, <1>5, <1>6 DEF Effect

-----------------------------------------------------------------------------
(* The retry loop: the bin of the request stays empty while it runs.  Only *)
(* free fills a bin, and it needs the GIL.                                 *)
Evicting(t) == call[t].pc \in {"evict", "retry"}

LEMMA EvictionStep ==
  ASSUME Shape, NoUsableBlockEvicted, [Next]_vars
  PROVE  NoUsableBlockEvicted'
<1>A. ASSUME m_container' = m_container,
             \A t \in Threads : Evicting(t)' => Evicting(t) /\ call'[t].size = call[t].size
      PROVE  NoUsableBlockEvicted'
  BY <1>A DEF NoUsableBlockEvicted, Evicting
<1>B. ASSUME NEW k \in Bins, m_container[k] # <<>>,
             m_container' = [m_container EXCEPT ![k] = Front(@)],
             \A t \in Threads : Evicting(t)' => Evicting(t) /\ call'[t].size = call[t].size
      PROVE  NoUsableBlockEvicted'
  BY <1>B, BinAssumption DEF NoUsableBlockEvicted, Evicting, Shape
<1>C. ASSUME \A t \in Threads : ~Evicting(t), call' = call PROVE NoUsableBlockEvicted'
  BY <1>C DEF NoUsableBlockEvicted, Evicting
<1>1. ASSUME NEW t \in Threads, NEW s \in Requests, AllocateFromBin(t, s)
      PROVE  NoUsableBlockEvicted'
  <2>1. \A u \in Threads : ~Evicting(u)'
    BY <1>1 DEF AllocateFromBin, CanStart, GilFree, Return, Idle, Evicting, Shape
  <2> QED
    BY <2>1 DEF NoUsableBlockEvicted, Evicting
<1>2. ASSUME NEW t \in Threads, NEW s \in Requests,
             AllocateNew(t, s) \/ AllocateOutOfMemory(t, s) \/ AllocateFails(t, s)
      PROVE  NoUsableBlockEvicted'
  <2>1. GilFree /\ \E c : c.pc \in {"idle", "gc"} /\ call' = [call EXCEPT ![t] = c]
    <3>1. Idle.pc = "idle" /\ Raised("error").pc = "idle"
          /\ [pc |-> "gc", size |-> s, raised |-> "no"].pc = "gc"
      BY DEF Idle, Raised
    <3> QED
      BY <1>2, <3>1 DEF AllocateNew, AllocateOutOfMemory, AllocateFails, CanStart, Return, Raise
  <2>2. \A u \in Threads : ~Evicting(u)'
    BY <2>1 DEF GilFree, Evicting, Shape
  <2> QED
    BY <2>2 DEF NoUsableBlockEvicted, Evicting
<1>3. ASSUME NEW t \in Threads, CollectedIntoBin(t) PROVE NoUsableBlockEvicted'
  <2>1. \A u \in Threads : ~Evicting(u)'
    BY <1>3 DEF CollectedIntoBin, GilFree, Return, Idle, Evicting, Shape
  <2> QED
    BY <2>1 DEF NoUsableBlockEvicted, Evicting
<1>4. ASSUME NEW t \in Threads, CollectedElsewhere(t) PROVE NoUsableBlockEvicted'
  <2>1. /\ m_container' = m_container /\ m_container[BinNumber[call[t].size]] = <<>>
        /\ call' = [call EXCEPT ![t].pc = "evict"]
        /\ \A u \in Threads : ~Evicting(u)
    BY <1>4 DEF CollectedElsewhere, GilFree, Evicting
  <2>2. \A u \in Threads : Evicting(u)' => u = t
    BY <2>1 DEF Evicting, Shape
  <2> QED
    BY <2>1, <2>2 DEF NoUsableBlockEvicted, Evicting, Shape
<1>5. ASSUME NEW t \in Threads, TryToFreeMemory(t) PROVE NoUsableBlockEvicted'
  <2>1. PICK k \in Bins : /\ m_container[k] # <<>>
                          /\ m_container' = [m_container EXCEPT ![k] = Front(@)]
    BY <1>5 DEF TryToFreeMemory, Largest
  <2>2. call[t].pc = "evict" /\ call' = [call EXCEPT ![t].pc = "retry"]
    BY <1>5 DEF TryToFreeMemory
  <2>3. \A u \in Threads : Evicting(u)' => Evicting(u) /\ call'[u].size = call[u].size
    BY <2>2 DEF Evicting, Shape
  <2> QED
    BY <1>B, <2>1, <2>3
<1>6. ASSUME NEW t \in Threads, RetryNew(t) \/ RetryFails(t) \/ GiveUp(t)
      PROVE  NoUsableBlockEvicted'
  <2>1. m_container' = m_container /\ \E e \in {"no", "error", "oom"} : call' = [call EXCEPT ![t] = Raised(e)]
    BY <1>6 DEF RetryNew, RetryFails, GiveUp, GetFromAllocator, Return, Raise, Raised, Idle
  <2>2. \A u \in Threads : Evicting(u)' => Evicting(u) /\ call'[u].size = call[u].size
    BY <2>1 DEF Raised, Evicting, Shape
  <2> QED
    BY <1>A, <2>1, <2>2
<1>7. ASSUME NEW t \in Threads, RetryOutOfMemory(t) PROVE NoUsableBlockEvicted'
  <2>1. m_container' = m_container /\ call[t].pc = "retry" /\ call' = [call EXCEPT ![t].pc = "evict"]
    BY <1>7 DEF RetryOutOfMemory
  <2>2. \A u \in Threads : Evicting(u)' => Evicting(u) /\ call'[u].size = call[u].size
    BY <2>1 DEF Evicting, Shape
  <2> QED
    BY <1>A, <2>1, <2>2
<1>8. ASSUME NEW h \in Handles, Release(h) \/ DestroyValid(h) \/ DestroyReleased(h)
      PROVE  NoUsableBlockEvicted'
  <2>1. (\A t \in Threads : ~Evicting(t)) /\ call' = call
    BY <1>8 DEF Release, DestroyValid, DestroyReleased, Free, GilFree, Evicting
  <2> QED
    BY <1>C, <2>1
<1>9. CASE FreeHeld \/ StopHolding \/ UseOutside
  <2>1. (\A t \in Threads : ~Evicting(t)) /\ call' = call
    BY <1>9 DEF FreeHeld, StopHolding, UseOutside, FreeAllHeld, GilFree, Evicting
  <2> QED
    BY <1>C, <2>1
<1>10. CASE UNCHANGED vars
  BY <1>10 DEF vars, NoUsableBlockEvicted
<1> QED
  BY <1>1, <1>2, <1>3, <1>4, <1>5, <1>6, <1>7, <1>8, <1>9, <1>10 DEF Next, CallStep

-----------------------------------------------------------------------------
(* The inductive invariant.                                                *)
IInv == Shape /\ OwnInv /\ CountInv /\ StopInv /\ NoUsableBlockEvicted

LEMMA IInvInit == Init => IInv
<1> SUFFICES ASSUME Init PROVE IInv
  OBVIOUS
<1>1. Shape
  BY ShapeInit
<1>2. Entries = {}
  <2>1. \A k \in Bins : Len(m_container[k]) = 0
    BY EmptySeq DEF Init
  <2>2. \A e : e \notin Entries
    BY <1>1, <2>1, EntriesDef DEF Entries, EntriesOf, Shape
  <2> QED
    BY <2>2
<1>3. ValidSet = {}
  BY DEF Init, NoObject, ValidSet
<1>4. OwnInv
  BY <1>2, <1>3 DEF Init, OwnInv
<1>5. CountInv
  BY <1>2, <1>3, FS_EmptySet DEF Init, CountInv
<1>6. StopInv
  BY <1>2 DEF StopInv
<1>7. NoUsableBlockEvicted
  BY DEF Init, Idle, NoUsableBlockEvicted
<1> QED
  BY <1>1, <1>4, <1>5, <1>6, <1>7 DEF IInv

LEMMA IInvStep == IInv /\ [Next]_vars => IInv'
<1> SUFFICES ASSUME IInv, [Next]_vars PROVE IInv'
  OBVIOUS
<1> USE DEF IInv
<1>1. Shape'
  BY ShapeStep
<1>2. Effect
  BY EveryStepIsAnEffect
<1>3. OwnInv' /\ CountInv'
  BY <1>2, OwnPop, OwnNew, OwnDrop, OwnEvict, OwnFreeAll, OwnQuiet DEF Effect
<1>4. StopInv'
  BY <1>2, StopStep
<1>5. NoUsableBlockEvicted'
  BY EvictionStep
<1> QED
  BY <1>1, <1>3, <1>4, <1>5

LEMMA IInvImplies ==
  IInv => /\ TypeOK
          /\ BlockOwnershipExact
          /\ BinsInterchangeable
          /\ CountersExact
          /\ StoppedPoolHoldsNothing
<1> SUFFICES ASSUME IInv
             PROVE  /\ TypeOK /\ BlockOwnershipExact /\ BinsInterchangeable
                    /\ CountersExact /\ StoppedPoolHoldsNothing
  OBVIOUS
<1> USE DEF IInv
<1>1. /\ \A k \in Bins : InBin(k) = {At(m_container, e) : e \in {f \in Entries : f[1] = k}}
      /\ HeldSet = {At(m_container, e) : e \in Entries}
  BY HeldDef DEF Shape
<1>2. CountersExact /\ m_held_blocks \in Nat /\ m_active_blocks \in Nat
  BY FS_CardinalityType DEF CountInv, CountersExact
<1>3. TypeOK
  BY <1>2 DEF TypeOK, Shape
<1>4. NoBlockTwice
  BY <1>1 DEF OwnInv, NoBlockTwice, OwnedSet, At
<1>5. LiveBlocksAccountedFor
  <2>1. /\ \A e \in Entries : At(m_container, e) \in Blocks
        /\ \A h \in ValidSet : handle[h].m_ptr \in Blocks
    BY EntriesDef DEF Entries, EntriesOf, Shape
  <2> QED
    BY <1>1, <2>1 DEF OwnInv, LiveBlocksAccountedFor, OwnedSet
<1>6. BinsInterchangeable
  <2>1. \A k \in Bins : \A b \in InBin(k) : bytes[b] = AllocSize[k]
    BY <1>1 DEF OwnInv
  <2>2. ASSUME NEW h \in ValidSet
        PROVE  /\ bytes[handle[h].m_ptr] = AllocSize[BinNumber[handle[h].m_size]]
               /\ bytes[handle[h].m_ptr] >= handle[h].m_size
    BY BinAssumption DEF OwnInv, Shape
  <2> QED
    BY <2>1, <2>2 DEF BinsInterchangeable
<1>7. StoppedPoolHoldsNothing
  BY <1>1 DEF StopInv, StoppedPoolHoldsNothing
<1> QED
  BY <1>2, <1>3, <1>4, <1>5, <1>6, <1>7 DEF BlockOwnershipExact

LEMMA Inductive == Spec => []IInv
  BY IInvInit, IInvStep, PTL DEF Spec

-----------------------------------------------------------------------------
(* The counters never wrap, every field of the pool has its type: the      *)
(* types of the members of memory_pool and pooled_allocation.              *)
THEOREM TypeCorrect == Spec => []TypeOK
  BY Inductive, IInvImplies, PTL

(* A block belongs to one handle or to one place of the bins, never to     *)
(* two; and every live cl_mem of the pool belongs to one.                  *)
THEOREM OwnershipExact == Spec => []BlockOwnershipExact
  BY Inductive, IInvImplies, PTL

(* Every PooledBuffer is at least as large as was asked for, whether it    *)
(* was served from a bin or from the device.                               *)
THEOREM Interchangeable == Spec => []BinsInterchangeable
  BY Inductive, IInvImplies, PTL

(* held_blocks and active_blocks are exact; in particular the assertion    *)
(* m_held_blocks == 0 at the end of free_held (mempool.hpp:285) holds.     *)
THEOREM CountersAreExact == Spec => []CountersExact
  BY Inductive, IInvImplies, PTL

(* Nothing is held after stop_holding, whatever calls were under way.      *)
THEOREM StopIsFinal == Spec => []StoppedPoolHoldsNothing
  BY Inductive, IInvImplies, PTL

(* The retry loop never destroys a block that could have been used.        *)
THEOREM EvictionNeeded == Spec => []NoUsableBlockEvicted
<1>1. IInv => NoUsableBlockEvicted
  BY DEF IInv
<1> QED
  BY <1>1, Inductive, PTL

-----------------------------------------------------------------------------
(* What try_to_free_memory does to the held blocks: one of the largest     *)
(* bin, hence of the largest blocks, is gone.                              *)
LEMMA EvictedIsLargest ==
  ASSUME IInv, NEW t \in Threads, TryToFreeMemory(t),
         NEW b \in HeldSet \ HeldSet', NEW c \in HeldSet
  PROVE  bytes[c] <= bytes[b]
<1>1. PICK k \in Bins : /\ Largest(k)
                        /\ m_container' = [m_container EXCEPT ![k] = Front(@)]
  BY DEF TryToFreeMemory
<1>2. PICK p \in Entries : /\ p[1] = k
                           /\ Entries' = Entries \ {p}
                           /\ \A e \in Entries' : At(m_container', e) = At(m_container, e)
  BY <1>1, PopEffect DEF Largest, IInv, Shape
<1>3. HeldSet = {At(m_container, e) : e \in Entries}
  BY HeldDef DEF IInv, Shape
<1>4. b = At(m_container, p)
  <2>1. PICK e \in Entries : b = At(m_container, e)
    BY <1>3
  <2>2. CASE e \in Entries'
    <3>1. m_container' \in [Bins -> Seq(Blocks)]
      BY ShapeStep DEF IInv, Next, CallStep, Shape
    <3>2. PICK j \in Bins : \E i \in 1 .. Len(m_container'[j]) : e = <<j, i>>
      BY <2>2, <3>1, EntriesDef DEF Entries, EntriesOf
    <3>3. PICK i \in 1 .. Len(m_container'[j]) : e = <<j, i>>
      BY <3>2
    <3>4. i \in DOMAIN m_container'[j] /\ m_container'[j][i] = b
      BY <1>2, <2>1, <2>2, <3>1, <3>3, EntriesDef DEF At
    <3> QED
      BY <3>4 DEF HeldSet, InBin
  <2> QED
    BY <1>2, <2>1, <2>2
<1>5. PICK f \in Entries : c = At(m_container, f)
  BY <1>3
<1>6. f[1] \in Bins /\ m_container[f[1]] # <<>>
  <2>1. PICK j \in Bins : \E i \in 1 .. Len(m_container[j]) : f = <<j, i>>
    BY EntriesDef DEF Entries, EntriesOf, IInv, Shape
  <2>2. Len(m_container[j]) # 0
    BY <2>1, EntriesDef DEF IInv, Shape
  <2> QED
    BY <2>1, <2>2, EmptySeq
<1>7. f[1] <= k
  BY <1>1, <1>6 DEF Largest
<1>8. bytes[c] = AllocSize[f[1]] /\ bytes[b] = AllocSize[k]
  BY <1>2, <1>4, <1>5 DEF IInv, OwnInv
<1> QED
  BY <1>6, <1>7, <1>8, BinAssumption

(* While a thread is in the retry loop it holds the GIL, and of its steps  *)
(* only try_to_free_memory takes blocks out of the bins.                   *)
LEMMA OnlyEvictionShrinks ==
  ASSUME IInv, [Next]_vars, NEW t \in Threads, call[t].pc = "evict"
  PROVE  (\E u \in Threads : TryToFreeMemory(u)) \/ UNCHANGED m_container
<1>1. ~GilFree
  BY DEF GilFree
<1>2. ASSUME NEW u \in Threads, CallStep(u)
      PROVE  TryToFreeMemory(u) \/ UNCHANGED m_container
  BY <1>1, <1>2 DEF CallStep, AllocateFromBin, AllocateNew, AllocateOutOfMemory, AllocateFails,
     CanStart, CollectedIntoBin, CollectedElsewhere, RetryNew, RetryOutOfMemory, RetryFails,
     GiveUp, GetFromAllocator
<1>3. ~FreeHeld /\ ~StopHolding /\ ~UseOutside
  BY <1>1 DEF FreeHeld, StopHolding, UseOutside
<1>4. \A h \in Handles : ~Release(h) /\ ~DestroyValid(h) /\ ~DestroyReleased(h)
  BY <1>1 DEF Release, DestroyValid, DestroyReleased
<1> QED
  BY <1>2, <1>3, <1>4 DEF Next, vars

(* "free largest stuff first" (mempool.hpp:302): no held block is larger   *)
(* than the one the retry loop gives back.                                 *)
THEOREM EvictionOrder == Spec => EvictsLargestFirst
<1> DEFINE Step == \A b \in HeldSet \ HeldSet' :
             (\E t \in Threads : call[t].pc = "evict") => \A c \in HeldSet : bytes[c] <= bytes[b]
<1>1. IInv /\ [Next]_vars => Step
  <2> SUFFICES ASSUME IInv, [Next]_vars, NEW b \in HeldSet \ HeldSet',
                      NEW t \in Threads, call[t].pc = "evict", NEW c \in HeldSet
               PROVE  bytes[c] <= bytes[b]
    OBVIOUS
  <2>1. ~UNCHANGED m_container
    BY DEF HeldSet, InBin
  <2>2. PICK u \in Threads : TryToFreeMemory(u)
    BY <2>1, OnlyEvictionShrinks
  <2> QED
    BY <2>2, EvictedIsLargest
<1> QED
  BY <1>1, Inductive, PTL DEF Spec, EvictsLargestFirst

-----------------------------------------------------------------------------
(* The promise of BlockOwnership, seen from the pool: the blocks that are  *)
(* owned are those of the valid handles, the idle ones those in the bins.  *)
Grant == [h \in Handles |-> IF handle[h].state = "valid" THEN handle[h].m_ptr ELSE NoBlock]

LEMMA PromiseView ==
  ASSUME IInv
  PROVE  /\ \A h \in ValidSet : Grant[h] = handle[h].m_ptr /\ Grant[h] # NoBlock
         /\ \A h \in Handles \ ValidSet : Grant[h] = NoBlock
         /\ Promise!Owned = OwnedSet
         /\ Promise!Idle = HeldSet
         /\ HeldSet = {At(m_container, e) : e \in Entries}
<1>1. /\ \A h \in ValidSet : Grant[h] = handle[h].m_ptr /\ Grant[h] # NoBlock
      /\ \A h \in Handles \ ValidSet : Grant[h] = NoBlock
  BY BlockAssumption DEF Grant, ValidSet, IInv, Shape
<1>2. Promise!Owned = {b \in Blocks : \E h \in Handles : Grant[h] = b}
  BY DEF Promise!Owned, Grant
<1>3. Promise!Owned = OwnedSet
  <2>1. \A h \in ValidSet : handle[h].m_ptr \in Blocks
    BY DEF IInv, Shape
  <2>2. ValidSet \subseteq Handles
    BY DEF ValidSet
  <2> QED
    BY <1>1, <1>2, <2>1, <2>2, BlockAssumption DEF OwnedSet
<1>4. /\ {b \in Blocks : bytes[b] > 0} = HeldSet \cup OwnedSet
      /\ HeldSet \cap OwnedSet = {}
  BY IInvImplies DEF BlockOwnershipExact, NoBlockTwice, LiveBlocksAccountedFor
<1>5. Promise!Idle = HeldSet
  BY <1>3, <1>4 DEF Promise!Idle
<1>6. HeldSet = {At(m_container, e) : e \in Entries}
  BY HeldDef DEF IInv, Shape
<1> QED
  BY <1>1, <1>3, <1>5, <1>6

(* Constructing a pooled_allocation of block b is granting b.              *)
LEMMA ConstructGrants ==
  ASSUME Shape, NEW s \in Requests, NEW b \in Blocks, Construct(s, b)
  PROVE  \E h \in Handles : Grant[h] = NoBlock /\ Grant' = [Grant EXCEPT ![h] = b]
<1>1. PICK h \in Handles :
        /\ handle[h].state = "none"
        /\ handle' = [handle EXCEPT ![h] = [state |-> "valid", m_ptr |-> b, m_size |-> s]]
  BY DEF Construct
<1>2. Grant[h] = NoBlock
  BY <1>1 DEF Grant
<1>3. ASSUME NEW g \in Handles
      PROVE  (IF handle'[g].state = "valid" THEN handle'[g].m_ptr ELSE NoBlock)
               = IF g = h THEN b ELSE Grant[g]
  BY <1>1 DEF Grant, Shape
<1>4. Grant' = [Grant EXCEPT ![h] = b]
  BY <1>3 DEF Grant
<1> QED
  BY <1>2, <1>4

LEMMA GrantUnchanged ==
  ASSUME handle' = handle PROVE Grant' = Grant
BY DEF Grant

(* One lemma per effect: the step of the promise that it is.               *)
LEMMA PromisePop ==
  ASSUME IInv, NEW s \in Requests, PopBlockFromBin(s)
  PROVE  Promise!Next
<1> DEFINE k == BinNumber[s]
           b == Last(m_container[k])
<1>1. k \in Bins /\ AllocSize[k] \in Nat /\ s \in Nat /\ AllocSize[k] >= s
  BY BinAssumption
<1>2. PICK p \in Entries : p[1] = k /\ At(m_container, p) = b
  BY <1>1, PopEffect DEF PopBlockFromBin, IInv, Shape
<1>3. b \in Promise!Idle /\ b \in Blocks
  <2>1. b \in Promise!Idle
    BY <1>2, PromiseView
  <2>2. m_container[k] \in Seq(Blocks) /\ m_container[k] # <<>>
    BY <1>1 DEF PopBlockFromBin, IInv, Shape
  <2> QED
    BY <2>1, <2>2, PopLast
<1>4. bytes[b] >= s
  BY <1>1, <1>2 DEF IInv, OwnInv
<1>5. Construct(s, b) /\ UNCHANGED <<bytes, m_stop_holding>>
  BY DEF PopBlockFromBin
<1> HIDE DEF b, k
<1>6. PICK h \in Handles : Grant[h] = NoBlock /\ Grant' = [Grant EXCEPT ![h] = b]
  BY <1>3, <1>5, ConstructGrants DEF IInv
<1>7. Promise!GrantIdle(h, s)
  BY <1>3, <1>4, <1>5, <1>6 DEF Promise!GrantIdle, Grant
<1> QED
  BY <1>7 DEF Promise!Next

LEMMA PromiseNew ==
  ASSUME IInv, NEW s \in Requests, GetFromAllocator(s)
  PROVE  Promise!Next
<1> DEFINE n == AllocSize[BinNumber[s]]
<1>1. n \in {AllocSize[k] : k \in Bins} /\ n >= s
  BY BinAssumption
<1>2. PICK b \in Blocks : AllocatorGives(b, n) /\ Construct(s, b)
  BY DEF GetFromAllocator
<1>3. PICK h \in Handles : Grant[h] = NoBlock /\ Grant' = [Grant EXCEPT ![h] = b]
  BY <1>2, ConstructGrants DEF IInv
<1>4. bytes[b] = 0 /\ bytes' = [bytes EXCEPT ![b] = n] /\ UNCHANGED m_stop_holding
  BY <1>2 DEF AllocatorGives, GetFromAllocator
<1> HIDE DEF n
<1>5. Promise!GrantNew(h, s)
  BY <1>1, <1>3, <1>4 DEF Promise!GrantNew, Grant
<1> QED
  BY <1>5 DEF Promise!Next

LEMMA PromiseDrop ==
  ASSUME IInv, NEW h \in ValidSet, Drop(h)
  PROVE  Promise!Next
<1>1. h \in Handles /\ Grant[h] = handle[h].m_ptr /\ Grant[h] # NoBlock
  BY PromiseView DEF ValidSet
<1>2. Grant' = [Grant EXCEPT ![h] = NoBlock]
  <2>1. PICK o : o.state # "valid" /\ handle' = [handle EXCEPT ![h] = o]
    BY DEF Drop
  <2>2. ASSUME NEW g \in Handles
        PROVE  (IF handle'[g].state = "valid" THEN handle'[g].m_ptr ELSE NoBlock)
                 = IF g = h THEN NoBlock ELSE Grant[g]
    BY <2>1 DEF Grant, IInv, Shape
  <2> QED
    BY <2>2 DEF Grant
<1>3. /\ bytes' = IF m_stop_holding THEN [bytes EXCEPT ![Grant[h]] = 0] ELSE bytes
      /\ UNCHANGED m_stop_holding
  BY <1>1 DEF Drop, Free
<1>4. Promise!Return(h)
  BY <1>1, <1>2, <1>3 DEF Promise!Return, Grant
<1> QED
  BY <1>1, <1>4 DEF Promise!Next

LEMMA PromiseEvict ==
  ASSUME IInv, NEW k \in Bins, EvictFrom(k)
  PROVE  Promise!Next
<1> DEFINE b == Last(m_container[k])
<1>1. PICK p \in Entries : At(m_container, p) = b
  BY PopEffect DEF EvictFrom, IInv, Shape
<1>2. b \in Promise!Idle
  BY <1>1, PromiseView
<1>3. bytes' = [c \in Blocks |-> IF c \in {b} THEN 0 ELSE bytes[c]]
  BY DEF EvictFrom, IInv, Shape
<1>4. Grant' = Grant /\ UNCHANGED m_stop_holding
  BY GrantUnchanged DEF EvictFrom
<1> HIDE DEF b
<1>5. {b} \in SUBSET Promise!Idle
  BY <1>2
<1>6. Promise!Evict
  BY <1>3, <1>4, <1>5 DEF Promise!Evict, Grant
<1> QED
  BY <1>6 DEF Promise!Next

LEMMA PromiseFreeAll ==
  ASSUME IInv, FreeAll
  PROVE  Promise!Next
<1>1. bytes' = [b \in Blocks |-> IF b \in Promise!Idle THEN 0 ELSE bytes[b]]
  BY PromiseView DEF FreeAll, FreeAllHeld
<1>2. Grant' = Grant
  BY GrantUnchanged DEF FreeAll, FreeAllHeld
<1>3. CASE m_stop_holding' = m_stop_holding
  <2>1. Promise!Idle \in SUBSET Promise!Idle
    OBVIOUS
  <2>2. Promise!Evict
    BY <1>1, <1>2, <1>3, <2>1 DEF Promise!Evict, Grant
  <2> QED
    BY <2>2 DEF Promise!Next
<1>4. CASE m_stop_holding' = TRUE
  <2>1. Promise!Stop
    BY <1>1, <1>2, <1>4 DEF Promise!Stop, Grant
  <2> QED
    BY <2>1 DEF Promise!Next
<1>5. (m_stop_holding' = m_stop_holding) \/ (m_stop_holding' = TRUE)
  BY Zenon DEF FreeAll
<1> QED
  BY <1>3, <1>4, <1>5, Zenon

LEMMA PromiseQuiet ==
  ASSUME IInv, Quiet
  PROVE  UNCHANGED Promise!vars
<1>1. UNCHANGED <<bytes, m_stop_holding>>
  BY DEF Quiet
<1>2. Grant' = Grant
  <2>1. ASSUME NEW h \in Handles
        PROVE  (IF handle'[h].state = "valid" THEN handle'[h].m_ptr ELSE NoBlock) = Grant[h]
    BY DEF Quiet, ValidSet, Grant
  <2> QED
    BY <2>1 DEF Grant
<1> QED
  BY <1>1, <1>2 DEF Promise!vars, Grant

(* The pool implements what BlockOwnership promises: a block is granted to *)
(* one handle at a time, is as large as was asked for, and goes back to    *)
(* the device only when nobody owns it.                                    *)
THEOREM ImplementsPromise == Spec => OwnershipPromise
<1>1. Init => Promise!Init
  <2> SUFFICES ASSUME Init PROVE Promise!Init
    OBVIOUS
  <2>1. \A h \in Handles : handle[h].state = "none"
    BY DEF Init, NoObject
  <2> QED
    BY <2>1 DEF Init, Promise!Init
<1>2. IInv /\ [Next]_vars => [Promise!Next]_(Promise!vars)
  <2> SUFFICES ASSUME IInv, [Next]_vars PROVE Promise!Next \/ UNCHANGED Promise!vars
    OBVIOUS
  <2>1. Effect
    BY EveryStepIsAnEffect DEF IInv
  <2> QED
    BY <2>1, PromisePop, PromiseNew, PromiseDrop, PromiseEvict, PromiseFreeAll, PromiseQuiet
    DEF Effect
<1> QED
  BY <1>1, <1>2, Inductive, PTL DEF Spec, OwnershipPromise, Promise!Spec
=============================================================================
