----------------------------- MODULE QueueProofs -----------------------------
(***************************************************************************)
(* Proofs about a queue, for every length and every set of messages, and   *)
(* for all tasks, priorities and uses of it.                               *)
(*                                                                         *)
(* QueueStorage: the ends of the circular buffer and the count agree, and  *)
(* the buffer is a sequence.  QueueBlocking: blocked tasks are listed and  *)
(* wait for the rest of their time, calls fail in time, wake-ups are not   *)
(* lost and go by priority.  There, first the lists (Without,              *)
(* InsertByPriority, First), then the invariant IInv part by part, then    *)
(* the wake-ups: they are counted for each blocked task among those of at  *)
(* least its priority, a claim every step keeps.                           *)
(***************************************************************************)
EXTENDS MCQueue, ArithmeticLemmas, SequenceTheorems

Inv == StorageTypeOK /\ EndsMeet

LEMMA SlotBelowTwice ==
  ASSUME uxLength \in Lengths, NEW n \in Nat, n < 2 * uxLength
  PROVE  n % uxLength = IF n >= uxLength THEN n - uxLength ELSE n
<1>1. CASE n < uxLength
  BY <1>1, DivModSmall, LengthAssumption
<1>2. CASE n >= uxLength
  <2>1. n = uxLength * 1 + (n - uxLength) /\ n - uxLength \in 0..(uxLength - 1)
    BY <1>2, LengthAssumption
  <2>. QED  BY <1>2, <2>1, DivModUnique, LengthAssumption
<1>. QED  BY <1>1, <1>2, LengthAssumption

LEMMA SlotValue ==
  ASSUME uxLength \in Lengths, NEW p \in Slots, NEW n \in 0..uxLength
  PROVE  /\ Slot(p, n) = IF p + n >= uxLength THEN p + n - uxLength ELSE p + n
         /\ Slot(p, n) \in Slots
  BY SlotBelowTwice, LengthAssumption DEF Slot, Slots

LEMMA NextSlotType ==
  ASSUME uxLength \in Lengths, NEW p \in Slots
  PROVE  /\ NextSlot(p) \in Slots /\ PreviousSlot(p) \in Slots
         /\ NextSlot(PreviousSlot(p)) = p
  BY LengthAssumption DEF Slots, NextSlot, PreviousSlot

(* The n-th slot after p, seen from the slot before or after p.            *)
LEMMA SlotShift ==
  ASSUME uxLength \in Lengths, NEW p \in Slots, NEW n \in 0..(uxLength - 1)
  PROVE  /\ Slot(NextSlot(p), n) = Slot(p, n + 1)
         /\ Slot(PreviousSlot(p), n + 1) = Slot(p, n)
         /\ Slot(p, n + 1) = NextSlot(Slot(p, n))
         /\ Slot(p, 1) = NextSlot(p) /\ Slot(p, 0) = p
<1>1. NextSlot(p) \in Slots /\ PreviousSlot(p) \in Slots
  BY NextSlotType
<1>2. n \in 0..uxLength /\ n + 1 \in 0..uxLength /\ 1 \in 0..uxLength /\ 0 \in 0..uxLength
  BY LengthAssumption
<1>3. /\ Slot(NextSlot(p), n) = IF NextSlot(p) + n >= uxLength
                                 THEN NextSlot(p) + n - uxLength ELSE NextSlot(p) + n
      /\ Slot(PreviousSlot(p), n + 1) = IF PreviousSlot(p) + (n + 1) >= uxLength
                                 THEN PreviousSlot(p) + (n + 1) - uxLength
                                 ELSE PreviousSlot(p) + (n + 1)
      /\ Slot(p, n) = IF p + n >= uxLength THEN p + n - uxLength ELSE p + n
      /\ Slot(p, n + 1) = IF p + (n + 1) >= uxLength THEN p + (n + 1) - uxLength ELSE p + (n + 1)
      /\ Slot(p, 1) = IF p + 1 >= uxLength THEN p + 1 - uxLength ELSE p + 1
      /\ Slot(p, 0) = IF p + 0 >= uxLength THEN p + 0 - uxLength ELSE p + 0
  BY <1>1, <1>2, SlotValue
<1>. QED  BY <1>3, LengthAssumption DEF Slots, NextSlot, PreviousSlot

(* Two different places of the circle are two different slots.             *)
LEMMA SlotsDiffer ==
  ASSUME uxLength \in Lengths, NEW p \in Slots, NEW m \in 0..uxLength, NEW n \in 1..uxLength,
         m < n, ~(m = 0 /\ n = uxLength)
  PROVE  Slot(p, m) # Slot(p, n)
<1>1. /\ Slot(p, m) = IF p + m >= uxLength THEN p + m - uxLength ELSE p + m
      /\ Slot(p, n) = IF p + n >= uxLength THEN p + n - uxLength ELSE p + n
  BY SlotValue, LengthAssumption
<1>. QED  BY <1>1, LengthAssumption DEF Slots
-----------------------------------------------------------------------------
LEMMA InitInv == StorageInit => Inv
<1>1. ASSUME StorageInit PROVE EndsMeet
  <2>length. uxLength \in Lengths
    BY <1>1 DEF StorageInit
  <2> USE <2>length
  <2>1. uxLength - 1 \in Slots /\ 0 \in 0..(uxLength - 1) /\ 0 \in Slots
    BY LengthAssumption DEF Slots
  <2>2. Slot(uxLength - 1, 0) = uxLength - 1 /\ Slot(uxLength - 1, 1) = NextSlot(uxLength - 1)
    BY <2>1, SlotShift
  <2>. QED  BY <1>1, <2>1, <2>2, LengthAssumption DEF StorageInit, EndsMeet, NextSlot
<1>. QED  BY <1>1, LengthAssumption DEF StorageInit, Inv, StorageTypeOK, Slots

LEMMA StepInv == Inv /\ [StorageNext]_storageVars => Inv'
<1> SUFFICES ASSUME Inv, [StorageNext]_storageVars PROVE Inv'
  OBVIOUS
<1>length. uxLength \in Lengths /\ uxLength' = uxLength
  BY DEF Inv, StorageTypeOK, StorageNext, storageVars
<1>slots. Slots' = Slots
  BY <1>length DEF Slots
<1> USE LengthAssumption, <1>length, <1>slots DEF Inv
<1>1. uxMessagesWaiting \in 0..uxLength /\ pcWriteTo \in Slots /\ pcReadFrom \in Slots
  BY DEF StorageTypeOK
<1>2. NextSlot(pcWriteTo) \in Slots /\ NextSlot(pcReadFrom) \in Slots /\ PreviousSlot(pcReadFrom) \in Slots
  BY <1>1, NextSlotType
<1>3. Slot(pcReadFrom, uxMessagesWaiting) \in Slots
  BY <1>1, SlotValue
<1>4. pcWriteTo = NextSlot(Slot(pcReadFrom, uxMessagesWaiting))
  <2>1. 0 \in 0..(uxLength - 1)
    BY LengthAssumption
  <2>. QED  BY <2>1, <1>3, SlotShift DEF EndsMeet
<1>5. ASSUME NEW m \in Messages, SendToBack(m) PROVE Inv'
  <2>1. uxMessagesWaiting \in 0..(uxLength - 1)
    BY <1>1, <1>5 DEF SendToBack, HasRoom
  <2>2. StorageTypeOK'
    BY <1>2, <1>5, <2>1 DEF SendToBack, StorageTypeOK
  <2>3. Slot(pcReadFrom, uxMessagesWaiting + 1) = pcWriteTo
    BY <1>1, <1>4, <2>1, SlotShift
  <2>4. EndsMeet'
    <3>1. Slot(pcWriteTo, 1) = NextSlot(pcWriteTo)
      BY <1>1, <2>1, SlotShift
    <3>. QED  BY <1>5, <2>3, <3>1 DEF SendToBack, EndsMeet, Slot
  <2>. QED  BY <2>2, <2>4
<1>6. ASSUME NEW m \in Messages, SendToFront(m) PROVE Inv'
  <2>1. uxMessagesWaiting \in 0..(uxLength - 1)
    BY <1>1, <1>6 DEF SendToFront, HasRoom
  <2>2. StorageTypeOK'
    BY <1>2, <1>6, <2>1 DEF SendToFront, StorageTypeOK
  <2>3. Slot(PreviousSlot(pcReadFrom), uxMessagesWaiting + 1) = Slot(pcReadFrom, uxMessagesWaiting)
    BY <1>1, <2>1, SlotShift
  <2>. QED  BY <1>6, <2>2, <2>3 DEF SendToFront, EndsMeet, Slot
<1>7. ASSUME NEW m \in Messages, Overwrite(m) PROVE Inv'
  <2>1. Slots = {0} /\ uxMessagesWaiting' = 1
    BY <1>1, <1>7 DEF Overwrite, CountedOnce, Slots
  <2>2. StorageTypeOK'
    BY <1>2, <1>7, <2>1 DEF Overwrite, StorageTypeOK
  <2>3. Slot(Slot(0, 1), 1) = 0
    BY <1>7, SlotValue, <2>1 DEF Overwrite
  <2>. QED  BY <1>1, <1>2, <1>7, <2>1, <2>2, <2>3 DEF Overwrite, EndsMeet, Slot
<1>8. ASSUME Receive PROVE Inv'
  <2>1. uxMessagesWaiting - 1 \in 0..(uxLength - 1)
    BY <1>1, <1>8 DEF Receive
  <2>2. StorageTypeOK'
    BY <1>1, <1>2, <1>8, <2>1 DEF Receive, StorageTypeOK
  <2>3. Slot(NextSlot(pcReadFrom), uxMessagesWaiting - 1) = Slot(pcReadFrom, uxMessagesWaiting - 1 + 1)
    BY <1>1, <2>1, SlotShift
  <2>. QED  BY <1>1, <1>8, <2>2, <2>3 DEF Receive, EndsMeet, Slot
<1>9. ASSUME Peek PROVE Inv'
  BY <1>2, <1>9 DEF Peek, StorageTypeOK, EndsMeet, Slot
<1>10. ASSUME Reset PROVE Inv'
  <2>1. uxLength - 1 \in Slots /\ 0 \in 0..(uxLength - 1) /\ 0 \in Slots
    BY LengthAssumption DEF Slots
  <2>2. Slot(uxLength - 1, 0) = uxLength - 1 /\ Slot(uxLength - 1, 1) = NextSlot(uxLength - 1)
    BY <2>1, SlotShift
  <2>. QED  BY <1>10, <2>1, <2>2, LengthAssumption
            DEF Reset, Emptied, StorageTypeOK, EndsMeet, NextSlot, Slot
<1>11. CASE UNCHANGED storageVars
  BY <1>11 DEF storageVars, StorageTypeOK, EndsMeet, Slot
<1>. QED  BY <1>5, <1>6, <1>7, <1>8, <1>9, <1>10, <1>11 DEF StorageNext

(* StorageSpec => []StorageTypeOK and []EndsMeet, together inductive: the slot written   *)
(* next is always the one behind the last message, whatever xQueueSend,    *)
(* xQueueSendToFront, xQueueOverwrite, xQueueReceive, xQueuePeek and       *)
(* xQueueReset did before.                                                 *)
THEOREM EndsAlwaysMeet == StorageSpec => [](StorageTypeOK /\ EndsMeet)
<1>1. Inv <=> StorageTypeOK /\ EndsMeet
  BY DEF Inv
<1>. QED  BY InitInv, StepInv, <1>1, PTL DEF StorageSpec
-----------------------------------------------------------------------------
(* The refinement.  ContentsSeq gives Len(contents); each step then        *)
(* compares two sequences item by item.                                    *)
ContentsFacts ==
  /\ contents \in Seq(Messages) /\ Len(contents) = uxMessagesWaiting
  /\ \A n \in 1..uxMessagesWaiting : contents[n] = store[Slot(pcReadFrom, n)]
  /\ uxMessagesWaiting = 0 <=> contents = <<>>

LEMMA ContentsSeq == Inv => ContentsFacts
<1> SUFFICES ASSUME Inv PROVE ContentsFacts
  OBVIOUS
<1>length. uxLength \in Lengths
  BY DEF Inv, StorageTypeOK
<1> USE <1>length
<1>1. uxMessagesWaiting \in Nat
  BY LengthAssumption DEF Inv, StorageTypeOK
<1>2. \A n \in 1..uxMessagesWaiting : store[Slot(pcReadFrom, n)] \in Messages
  BY SlotValue, LengthAssumption DEF Inv, StorageTypeOK
<1>3. contents \in Seq(Messages) /\ Len(contents) = uxMessagesWaiting
  BY <1>1, <1>2, IsASeq, LenProperties DEF contents
<1>. QED  BY <1>1, <1>3, EmptySeq DEF contents, ContentsFacts

LEMMA StepRefines == Inv /\ Inv' /\ [StorageNext]_storageVars => [Abstract!Next]_(Abstract!vars)
<1> SUFFICES ASSUME Inv, Inv', [StorageNext]_storageVars PROVE [Abstract!Next]_(Abstract!vars)
  OBVIOUS
<1>length. uxLength \in Lengths /\ uxLength' = uxLength
  BY DEF Inv, StorageTypeOK, StorageNext, storageVars
<1> USE LengthAssumption, <1>length
<1> DEFINE k == uxMessagesWaiting
<1>1. k \in 0..uxLength /\ pcReadFrom \in Slots /\ pcWriteTo \in Slots
      /\ store \in [Slots -> Messages] /\ buffer \in Messages
  BY DEF Inv, StorageTypeOK
<1>2. /\ contents \in Seq(Messages) /\ Len(contents) = k
      /\ \A n \in 1..k : contents[n] = store[Slot(pcReadFrom, n)]
      /\ k = 0 <=> contents = <<>>
  BY ContentsSeq DEF ContentsFacts
<1>3. /\ contents' \in Seq(Messages) /\ Len(contents') = k'
      /\ \A n \in 1..k' : contents'[n] = store'[Slot(pcReadFrom', n)]
      /\ k' = 0 <=> contents' = <<>>
  <2>1. ContentsFacts'
    BY ContentsSeq, PTL
  <2>. QED  BY <2>1 DEF ContentsFacts, Slot
<1>5. ASSUME NEW m \in Messages, SendToBack(m) PROVE Abstract!SendToBack(m)
  <2>1. k < uxLength /\ k' = k + 1 /\ pcReadFrom' = pcReadFrom /\ buffer' = buffer
        /\ store' = [store EXCEPT ![pcWriteTo] = m]
    BY <1>5 DEF SendToBack, HasRoom
  <2>2. pcWriteTo = Slot(pcReadFrom, k + 1)
    <3>1. Slot(pcReadFrom, k) \in Slots /\ 0 \in 0..(uxLength - 1) /\ k \in 0..(uxLength - 1)
      BY <1>1, <2>1, SlotValue
    <3>. QED  BY <1>1, <3>1, SlotShift DEF Inv, EndsMeet
  <2>3. \A n \in 1..k : Slot(pcReadFrom, n) \in Slots /\ Slot(pcReadFrom, n) # pcWriteTo
    BY <1>1, <2>1, <2>2, SlotsDiffer, SlotValue
  <2>4. \A n \in 1..(k + 1) : contents'[n] = Append(contents, m)[n]
    <3> TAKE n \in 1..(k + 1)
    <3>1. CASE n = k + 1
      BY <1>1, <1>2, <1>3, <2>1, <2>2, <3>1, AppendProperties
    <3>2. CASE n # k + 1
      BY <1>1, <1>2, <1>3, <2>1, <2>3, <3>2, AppendProperties
    <3>. QED  BY <3>1, <3>2
  <2>5. contents' = Append(contents, m)
    <3>1. Append(contents, m) \in Seq(Messages) /\ Len(Append(contents, m)) = k + 1
      BY <1>2, AppendProperties
    <3>. QED  BY <1>3, <2>1, <2>4, <3>1, SeqEqual
  <2>. QED  BY <1>2, <2>1, <2>5 DEF Abstract!SendToBack
<1>6. ASSUME NEW m \in Messages, SendToFront(m) PROVE Abstract!SendToFront(m)
  <2>1. k < uxLength /\ k' = k + 1 /\ pcReadFrom' = PreviousSlot(pcReadFrom) /\ buffer' = buffer
        /\ store' = [store EXCEPT ![pcReadFrom] = m]
    BY <1>6 DEF SendToFront, HasRoom
  <2>2. \A n \in 0..k : Slot(pcReadFrom', n + 1) = Slot(pcReadFrom, n)
    BY <1>1, <2>1, SlotShift
  <2>3. Slot(pcReadFrom, 0) = pcReadFrom /\ \A n \in 1..k : Slot(pcReadFrom, n) # pcReadFrom
    <3>1. 0 \in 0..(uxLength - 1)
      OBVIOUS
    <3>2. Slot(pcReadFrom, 0) = pcReadFrom
      BY <1>1, <3>1, SlotShift
    <3>. QED  BY <1>1, <2>1, <3>2, SlotsDiffer
  <2>4. <<m>> \in Seq(Messages) /\ Len(<<m>>) = 1 /\ <<m>>[1] = m
    OBVIOUS
  <2>5. \A n \in 1..(k + 1) : contents'[n] = (<<m>> \o contents)[n]
    <3> TAKE n \in 1..(k + 1)
    <3>1. (<<m>> \o contents)[n] = IF n = 1 THEN m ELSE contents[n - 1]
      BY <1>1, <1>2, <2>4, ConcatProperties
    <3>2. n - 1 \in 0..k /\ contents'[n] = store'[Slot(pcReadFrom, n - 1)]
      BY <1>1, <1>3, <2>1, <2>2
    <3>3. CASE n = 1
      BY <1>1, <2>1, <2>3, <3>1, <3>2, <3>3
    <3>4. CASE n # 1
      <4>1. n - 1 \in 1..k /\ Slot(pcReadFrom, n - 1) \in Slots /\ Slot(pcReadFrom, n - 1) # pcReadFrom
        BY <1>1, <2>3, <3>4, SlotValue
      <4>. QED  BY <1>1, <1>2, <2>1, <3>1, <3>2, <3>4, <4>1
    <3>. QED  BY <3>3, <3>4
  <2>6. contents' = <<m>> \o contents
    <3>1. <<m>> \o contents \in Seq(Messages) /\ Len(<<m>> \o contents) = k + 1
      BY <1>1, <1>2, <2>4, ConcatProperties
    <3>. QED  BY <1>3, <2>1, <2>5, <3>1, SeqEqual
  <2>. QED  BY <1>2, <2>1, <2>6 DEF Abstract!SendToFront
<1>7. ASSUME NEW m \in Messages, Overwrite(m) PROVE Abstract!Overwrite(m)
  <2>1. uxLength = 1 /\ k' = 1 /\ pcReadFrom = 0 /\ pcReadFrom' = 0 /\ buffer' = buffer
        /\ store' = [store EXCEPT ![0] = m] /\ Slots = {0}
    BY <1>1, <1>7 DEF Overwrite, CountedOnce, PreviousSlot, Slots
  <2>2. contents'[1] = m
    <3>1. Slot(0, 1) = 0
      BY <2>1, SlotValue
    <3>. QED  BY <1>1, <1>3, <2>1, <3>1
  <2>3. <<m>> \in Seq(Messages) /\ Len(<<m>>) = 1 /\ <<m>>[1] = m
    OBVIOUS
  <2>4. contents' = <<m>>
    BY <1>3, <2>1, <2>2, <2>3, SeqEqual
  <2>. QED  BY <2>1, <2>4 DEF Abstract!Overwrite
<1>8. ASSUME Receive PROVE Abstract!Receive
  <2>1. k > 0 /\ k' = k - 1 /\ pcReadFrom' = NextSlot(pcReadFrom) /\ store' = store
        /\ buffer' = store[NextSlot(pcReadFrom)]
    BY <1>8 DEF Receive
  <2>2. NextSlot(pcReadFrom) = Slot(pcReadFrom, 1) /\ 1 \in 1..k
    BY <1>1, <2>1, SlotShift
  <2>3. \A n \in 1..(k - 1) : contents'[n] = Tail(contents)[n]
    <3> TAKE n \in 1..(k - 1)
    <3>1. Slot(pcReadFrom', n) = Slot(pcReadFrom, n + 1)
      BY <1>1, <2>1, SlotShift
    <3>2. Tail(contents)[n] = contents[n + 1]
      BY <1>1, <1>2, <2>1, HeadTailProperties
    <3>. QED  BY <1>1, <1>2, <1>3, <2>1, <3>1, <3>2
  <2>4. contents' = Tail(contents)
    <3>1. Tail(contents) \in Seq(Messages) /\ Len(Tail(contents)) = k - 1
      BY <1>1, <1>2, <2>1, HeadTailProperties
    <3>. QED  BY <1>3, <2>1, <2>3, <3>1, SeqEqual
  <2>. QED  BY <1>1, <1>2, <2>1, <2>2, <2>4 DEF Abstract!Receive
<1>9. ASSUME Peek PROVE Abstract!Peek
  <2>1. k > 0 /\ UNCHANGED <<store, pcReadFrom, uxMessagesWaiting>> /\ contents' = contents
        /\ buffer' = store[NextSlot(pcReadFrom)]
    BY <1>9 DEF Peek, contents, Slot
  <2>2. NextSlot(pcReadFrom) = Slot(pcReadFrom, 1) /\ 1 \in 1..k
    BY <1>1, <2>1, SlotShift
  <2>. QED  BY <1>2, <2>1, <2>2 DEF Abstract!Peek
<1>10. ASSUME Reset PROVE Abstract!Reset
  BY <1>3, <1>10 DEF Reset, Emptied, Abstract!Reset
<1>11. CASE UNCHANGED storageVars
  BY <1>11 DEF storageVars, Abstract!vars, contents, Slot
<1>. QED  BY <1>5, <1>6, <1>7, <1>8, <1>9, <1>10, <1>11 DEF StorageNext, Abstract!Next

(* The circular buffer implements the sequence, for every length: no       *)
(* message is lost, repeated or overtaken, wherever the ends wrap.         *)
THEOREM BufferIsASequence == StorageSpec => ImplementsMessageQueue
<1>1. StorageInit => Abstract!Init
  <2>1. ASSUME StorageInit PROVE contents = <<>> /\ buffer \in Messages
    <3>1. Inv
      BY <2>1, InitInv
    <3>. QED  BY <2>1, <3>1, ContentsSeq DEF ContentsFacts, StorageInit
  <2>. QED  BY <2>1 DEF Abstract!Init, StorageInit
<1>. QED  BY <1>1, InitInv, StepInv, StepRefines, PTL
          DEF StorageSpec, ImplementsMessageQueue, Abstract!Spec
-----------------------------------------------------------------------------
(* An event list: tasks, none of them twice.                               *)
IsEventList(list) ==
  /\ list \in Seq(Tasks)
  /\ \A p, q \in 1..Len(list) : list[p] = list[q] => p = q

(* The tasks of higher priority come first.                                *)
Ordered(list) ==
  \A p, q \in 1..Len(list) : p < q => uxPriority[list[p]] >= uxPriority[list[q]]
-----------------------------------------------------------------------------
(* In a set of positions each has a rank of its own, and every number up   *)
(* to the size of the set is the rank of one.                              *)
LEMMA Ranks ==
  ASSUME NEW n \in Nat, NEW kept \in SUBSET (1..n)
  PROVE  LET rank(p) == Cardinality({q \in kept : q <= p})
         IN  /\ IsFiniteSet(kept) /\ Cardinality(kept) \in Nat
             /\ \A p \in kept : rank(p) \in 1..Cardinality(kept)
             /\ \A p, r \in kept : (rank(p) = rank(r) => p = r) /\ (p < r => rank(p) < rank(r))
             /\ \A i \in 1..Cardinality(kept) : \E p \in kept : rank(p) = i
<1>. DEFINE upto(p) == {q \in kept : q <= p}
            rank(p) == Cardinality(upto(p))
<1>1. IsFiniteSet(kept) /\ Cardinality(kept) \in Nat
  <2>1. IsFiniteSet(1..n)
    BY FS_Interval
  <2>. QED  BY <2>1, FS_Subset, FS_CardinalityType
<1>2. ASSUME NEW p \in kept
      PROVE  rank(p) \in 1..Cardinality(kept)
  <2>1. IsFiniteSet(upto(p)) /\ rank(p) <= Cardinality(kept)
    BY <1>1, FS_Subset, upto(p) \in SUBSET kept
  <2>2. rank(p) \in Nat
    BY <2>1, FS_CardinalityType
  <2>3. p \in upto(p)
    OBVIOUS
  <2>4. rank(p) # 0
    BY <2>1, <2>3, FS_EmptySet
  <2>. QED  BY <1>1, <2>1, <2>2, <2>4
<1>3. ASSUME NEW p \in kept, NEW r \in kept, p < r
      PROVE  rank(p) < rank(r)
  <2>0. p \in Int /\ r \in Int /\ \A q \in kept : q \in Int
    OBVIOUS
  <2>1. \A q \in kept : q <= p => q <= r
    BY <1>3, <2>0
  <2>2. upto(p) \in SUBSET upto(r)
    BY <2>1
  <2>3. r \in upto(r) /\ r \notin upto(p)
    BY <1>3, <2>0
  <2>4. IsFiniteSet(upto(r))
    BY <1>1, FS_Subset, upto(r) \in SUBSET kept
  <2>5. rank(p) <= rank(r) /\ (rank(r) = rank(p) => upto(r) = upto(p))
    BY <2>2, <2>4, FS_Subset
  <2>6. rank(p) # rank(r)
    BY <2>3, <2>5
  <2>. HIDE DEF rank
  <2>. QED  BY <1>2, <2>5, <2>6
<1>4. \A p, r \in kept : rank(p) = rank(r) => p = r
  <2>. HIDE DEF rank
  <2>. QED  BY <1>2, <1>3
<1>5. ASSUME NEW i \in 1..Cardinality(kept)
      PROVE  \E p \in kept : rank(p) = i
  <2>. DEFINE f == [p \in kept |-> rank(p)]
              T == 1..Cardinality(kept)
  <2>1. f \in Injection(kept, T)
    <3>. HIDE DEF rank
    <3>. QED  BY <1>2, <1>4 DEF Injection, IsInjective
  <2>2. IsFiniteSet(T) /\ Cardinality(T) = Cardinality(kept)
    BY <1>1, FS_Interval
  <2>3. f \in Surjection(kept, T)
    BY <2>1, <2>2, FS_Injection
  <2>. HIDE DEF rank
  <2>. QED  BY <2>3 DEF Surjection
<1>6. \A p, r \in kept : p < r => rank(p) < rank(r)
  BY <1>3
<1>. HIDE DEF rank
<1>7. \A p, r \in kept : (rank(p) = rank(r) => p = r) /\ (p < r => rank(p) < rank(r))
  BY <1>4, <1>6
<1>. QED  BY <1>1, <1>2, <1>5, <1>7 DEF rank

(* Tasks that leave a list leave the others in it.                         *)
LEMMA WithoutFacts ==
  ASSUME NEW list, IsEventList(list), NEW T
  PROVE  /\ IsEventList(Without(list, T))
         /\ ToSet(Without(list, T)) = ToSet(list) \ T
         /\ Ordered(list) => Ordered(Without(list, T))
<1>. DEFINE n == Len(list)
            kept == {p \in DOMAIN list : list[p] \notin T}
            rank(p) == Cardinality({q \in kept : q <= p})
            Place(i) == CHOOSE p \in kept : rank(p) = i
            result == [i \in 1..Cardinality(kept) |-> list[Place(i)]]
<1>1. n \in Nat /\ DOMAIN list = 1..n /\ \A p \in 1..n : list[p] \in Tasks
  BY DEF IsEventList
<1>2. /\ Cardinality(kept) \in Nat
      /\ \A p \in kept : rank(p) \in 1..Cardinality(kept)
      /\ \A p, r \in kept : (rank(p) = rank(r) => p = r) /\ (p < r => rank(p) < rank(r))
      /\ \A i \in 1..Cardinality(kept) : \E p \in kept : rank(p) = i
  BY <1>1, Ranks, kept \in SUBSET (1..n)
<1>3. Without(list, T) = result
  BY DEF Without
<1>. HIDE DEF rank
<1>4. \A i \in 1..Cardinality(kept) : Place(i) \in kept /\ rank(Place(i)) = i
  BY <1>2
<1>5. \A p \in kept : Place(rank(p)) = p
  BY <1>2, <1>4
<1>. HIDE DEF Place
<1>8. result \in Seq(Tasks) /\ Len(result) = Cardinality(kept)
  <2>1. result \in [1..Cardinality(kept) -> Tasks]
    BY <1>1, <1>4
  <2>. HIDE DEF result, kept
  <2>. QED  BY <1>2, <2>1
<1>6. IsEventList(result)
  <2>2. ASSUME NEW i \in 1..Cardinality(kept), NEW j \in 1..Cardinality(kept),
               result[i] = result[j]
        PROVE  i = j
    <3>1. list[Place(i)] = list[Place(j)]
      BY <2>2
    <3>2. Place(i) = Place(j)
      BY <1>1, <1>4, <3>1 DEF IsEventList
    <3>. QED  BY <1>4, <3>2
  <2>. HIDE DEF result
  <2>. QED  BY <1>8, <2>2 DEF IsEventList
<1>7. ToSet(result) = ToSet(list) \ T
  <2>1. ASSUME NEW t \in ToSet(result)
        PROVE  t \in ToSet(list) \ T
    <3>1. PICK i \in 1..Cardinality(kept) : t = list[Place(i)]
      BY DEF ToSet
    <3>. QED  BY <1>4, <3>1 DEF ToSet
  <2>2. ASSUME NEW t \in ToSet(list) \ T
        PROVE  t \in ToSet(result)
    <3>1. PICK p \in kept : t = list[p]
      BY DEF ToSet
    <3>2. result[rank(p)] = t
      BY <1>2, <1>5, <3>1
    <3>. QED  BY <1>2, <3>2 DEF ToSet
  <2>. QED  BY <2>1, <2>2
<1>9. ASSUME Ordered(list)
      PROVE  Ordered(result)
  <2>1. ASSUME NEW i \in 1..Cardinality(kept), NEW j \in 1..Cardinality(kept), i < j
        PROVE  uxPriority[result[i]] >= uxPriority[result[j]]
    <3>1. /\ Place(i) \in kept /\ Place(j) \in kept
          /\ rank(Place(i)) < rank(Place(j))
      BY <1>4, <2>1
    <3>2. Place(i) \in 1..n /\ Place(j) \in 1..n
      BY <1>1, <3>1
    <3>3. Place(i) < Place(j)
      <4>1. rank(Place(i)) \in Int /\ rank(Place(j)) \in Int
        BY <1>2, <3>1
      <4>2. ~(Place(j) < Place(i)) /\ Place(i) # Place(j)
        BY <1>2, <3>1, <4>1
      <4>. QED  BY <1>1, <3>2, <4>2
    <3>. QED  BY <1>9, <3>2, <3>3 DEF Ordered
  <2>. HIDE DEF result
  <2>. QED  BY <1>8, <2>1 DEF Ordered
<1>. QED  BY <1>3, <1>6, <1>7, <1>9

(* The tasks of two lists that share none, one list after the other.       *)
LEMMA ConcatFacts ==
  ASSUME NEW s, NEW u, IsEventList(s), IsEventList(u), ToSet(s) \cap ToSet(u) = {}
  PROVE  /\ IsEventList(s \o u) /\ ToSet(s \o u) = ToSet(s) \cup ToSet(u)
         /\ /\ Ordered(s) /\ Ordered(u)
            /\ \A x \in ToSet(s), y \in ToSet(u) : uxPriority[x] >= uxPriority[y]
            => Ordered(s \o u)
<1>1. /\ s \in Seq(Tasks) /\ Len(s) \in Nat /\ DOMAIN s = 1..Len(s)
      /\ u \in Seq(Tasks) /\ Len(u) \in Nat /\ DOMAIN u = 1..Len(u)
  BY DEF IsEventList
<1>2. /\ s \o u \in Seq(Tasks)
      /\ Len(s \o u) = Len(s) + Len(u)
      /\ \A i \in 1..(Len(s) + Len(u)) :
           (s \o u)[i] = IF i <= Len(s) THEN s[i] ELSE u[i - Len(s)]
  BY <1>1, ConcatProperties
<1>3. DOMAIN (s \o u) = 1..(Len(s) + Len(u))
  BY <1>2
<1>. DEFINE w == s \o u
<1>. HIDE DEF w
<1>4. ASSUME NEW i \in 1..Len(w), NEW j \in 1..Len(w), w[i] = w[j]
      PROVE  i = j
  <2>1. CASE i <= Len(s) /\ j <= Len(s)
    BY <1>1, <1>2, <1>4, <2>1 DEF IsEventList, w
  <2>2. CASE i > Len(s) /\ j > Len(s)
    <3>1. i - Len(s) \in 1..Len(u) /\ j - Len(s) \in 1..Len(u)
      BY <1>1, <1>2, <2>2 DEF w
    <3>2. u[i - Len(s)] = u[j - Len(s)]
      BY <1>1, <1>2, <1>4, <2>2 DEF w
    <3>. QED  BY <3>1, <3>2, <1>1, <1>2 DEF IsEventList, w
  <2>3. ASSUME NEW k \in 1..Len(w), NEW l \in 1..Len(w), k <= Len(s), l > Len(s), w[k] = w[l]
        PROVE  FALSE
    <3>1. s[k] = u[l - Len(s)] /\ k \in 1..Len(s) /\ l - Len(s) \in 1..Len(u)
      BY <1>1, <1>2, <2>3 DEF w
    <3>2. s[k] \in ToSet(s) /\ u[l - Len(s)] \in ToSet(u)
      BY <1>1, <3>1 DEF ToSet
    <3>. QED  BY <3>1, <3>2
  <2>4. Len(w) \in Nat
    BY <1>1, <1>2 DEF w
  <2>. QED  BY <1>1, <1>4, <2>1, <2>2, <2>3, <2>4
<1>5. ASSUME NEW t \in ToSet(w)
      PROVE  t \in ToSet(s) \cup ToSet(u)
  <2>1. PICK i \in 1..(Len(s) + Len(u)) : t = w[i]
    BY <1>3 DEF w, ToSet
  <2>2. CASE i <= Len(s)
    BY <1>1, <1>2, <2>1, <2>2 DEF w, ToSet
  <2>3. CASE i > Len(s)
    <3>1. i - Len(s) \in 1..Len(u) /\ t = u[i - Len(s)]
      BY <1>1, <1>2, <2>1, <2>3 DEF w
    <3>. QED  BY <1>1, <3>1 DEF ToSet
  <2>. QED  BY <1>1, <2>1, <2>2, <2>3
<1>6. ASSUME NEW t \in ToSet(s) \cup ToSet(u)
      PROVE  t \in ToSet(w)
  <2>1. CASE t \in ToSet(s)
    <3>1. PICK i \in 1..Len(s) : t = s[i]
      BY <1>1, <2>1 DEF ToSet
    <3>2. i \in 1..(Len(s) + Len(u)) /\ w[i] = t
      BY <1>1, <1>2, <3>1 DEF w
    <3>. QED  BY <1>3, <3>2 DEF w, ToSet
  <2>2. CASE t \in ToSet(u)
    <3>1. PICK i \in 1..Len(u) : t = u[i]
      BY <1>1, <2>2 DEF ToSet
    <3>2. i + Len(s) \in 1..(Len(s) + Len(u)) /\ w[i + Len(s)] = t
      BY <1>1, <1>2, <3>1 DEF w
    <3>. QED  BY <1>3, <3>2 DEF w, ToSet
  <2>. QED  BY <2>1, <2>2
<1>7. ASSUME Ordered(s), Ordered(u),
             \A x \in ToSet(s), y \in ToSet(u) : uxPriority[x] >= uxPriority[y]
      PROVE  Ordered(w)
  <2>. SUFFICES ASSUME NEW i \in 1..(Len(s) + Len(u)), NEW j \in 1..(Len(s) + Len(u)), i < j
                PROVE  uxPriority[w[i]] >= uxPriority[w[j]]
    BY <1>2 DEF Ordered, w
  <2>1. CASE j <= Len(s)
    <3>1. i \in 1..Len(s) /\ j \in 1..Len(s) /\ w[i] = s[i] /\ w[j] = s[j]
      BY <1>1, <1>2, <2>1 DEF w
    <3>. QED  BY <1>7, <3>1 DEF Ordered
  <2>2. CASE i > Len(s)
    <3>1. i - Len(s) \in 1..Len(u) /\ j - Len(s) \in 1..Len(u) /\ i - Len(s) < j - Len(s)
          /\ w[i] = u[i - Len(s)] /\ w[j] = u[j - Len(s)]
      BY <1>1, <1>2, <2>2 DEF w
    <3>. QED  BY <1>7, <3>1 DEF Ordered
  <2>3. CASE i <= Len(s) /\ j > Len(s)
    <3>1. i \in 1..Len(s) /\ j - Len(s) \in 1..Len(u) /\ w[i] = s[i] /\ w[j] = u[j - Len(s)]
      BY <1>1, <1>2, <2>3 DEF w
    <3>2. w[i] \in ToSet(s) /\ w[j] \in ToSet(u)
      BY <1>1, <3>1 DEF ToSet
    <3>. QED  BY <1>7, <3>2
  <2>. QED  BY <1>1, <2>1, <2>2, <2>3
<1>. QED  BY <1>2, <1>4, <1>5, <1>6, <1>7 DEF IsEventList, w

(* A list of one task.                                                    *)
LEMMA OneTask ==
  ASSUME NEW t \in Tasks
  PROVE  IsEventList(<<t>>) /\ ToSet(<<t>>) = {t} /\ Ordered(<<t>>)
<1>1. Len(<<t>>) = 1 /\ <<t>> \in Seq(Tasks) /\ <<t>>[1] = t
  OBVIOUS
<1>2. ToSet(<<t>>) = {t}
  BY DEF ToSet
<1>. QED  BY <1>1, <1>2 DEF IsEventList, Ordered

(* A task joins a list of event list order.                                *)
LEMMA InsertFacts ==
  ASSUME NEW list, IsEventList(list), NEW t \in Tasks, t \notin ToSet(list)
  PROVE  /\ IsEventList(InsertByPriority(list, t))
         /\ ToSet(InsertByPriority(list, t)) = ToSet(list) \cup {t}
         /\ Ordered(list) => Ordered(InsertByPriority(list, t))
<1>. DEFINE below == {u \in Tasks : uxPriority[u] < uxPriority[t]}
            front == Without(list, below)
            back == Without(list, Tasks \ below)
<1>0. ToSet(list) \subseteq Tasks
  BY DEF IsEventList, ToSet
<1>1. /\ IsEventList(front) /\ ToSet(front) = ToSet(list) \ below
      /\ IsEventList(back) /\ ToSet(back) = ToSet(list) \cap below
      /\ Ordered(list) => Ordered(front) /\ Ordered(back)
  BY <1>0, WithoutFacts
<1>2. IsEventList(<<t>>) /\ ToSet(<<t>>) = {t} /\ Ordered(<<t>>)
  BY OneTask
<1>3. \A x \in Tasks : uxPriority[x] \in Nat
  BY QueueAssumption
<1>4. /\ \A x \in Tasks \ below : uxPriority[x] >= uxPriority[t]
      /\ \A x \in Tasks \ below, y \in below : uxPriority[x] >= uxPriority[y]
      /\ \A y \in below : uxPriority[t] >= uxPriority[y]
  BY <1>3
<1>. HIDE DEF below, front, back
<1>5. /\ IsEventList(front \o <<t>>) /\ ToSet(front \o <<t>>) = (ToSet(list) \ below) \cup {t}
      /\ Ordered(list) => Ordered(front \o <<t>>)
  BY <1>0, <1>1, <1>2, <1>4, ConcatFacts
<1>6. /\ IsEventList((front \o <<t>>) \o back)
      /\ ToSet((front \o <<t>>) \o back) = ToSet(list) \cup {t}
      /\ Ordered(list) => Ordered((front \o <<t>>) \o back)
  BY <1>0, <1>1, <1>4, <1>5, ConcatFacts
<1>. QED  BY <1>6 DEF InsertByPriority, below, front, back

(* The first n of a list are n tasks of it, or all of them.                *)
(* The first tasks of an event list are of the highest priorities in it.  *)
LEMMA FirstFacts ==
  ASSUME NEW list, IsEventList(list), NEW n \in Nat
  PROVE  /\ First(list, n) \subseteq ToSet(list) /\ ToSet(list) \subseteq Tasks
         /\ IsFiniteSet(First(list, n)) /\ Cardinality(First(list, n)) <= n
         /\ First(list, n) = ToSet(list) \/ Cardinality(First(list, n)) = n
         /\ Ordered(list) => \A w \in First(list, n), u \in ToSet(list) \ First(list, n) :
                              uxPriority[w] >= uxPriority[u]
<1>. DEFINE m == IF n < Len(list) THEN n ELSE Len(list)
            f == [i \in 1..m |-> list[i]]
<1>1. Len(list) \in Nat /\ DOMAIN list = 1..Len(list) /\ \A i \in 1..Len(list) : list[i] \in Tasks
  BY DEF IsEventList
<1>2. m \in Nat /\ m <= Len(list) /\ m <= n /\ (m = Len(list) \/ m = n) /\ Len(list) \in Nat
  BY <1>1
<1>3. First(list, n) = {list[i] : i \in 1..m}
  BY DEF First
<1>4. First(list, n) \subseteq ToSet(list) /\ ToSet(list) \subseteq Tasks
  BY <1>1, <1>2, <1>3 DEF ToSet
<1>5. m = Len(list) => First(list, n) = ToSet(list)
  BY <1>1, <1>3 DEF ToSet
<1>. HIDE DEF m
<1>6. IsFiniteSet(1..m) /\ Cardinality(1..m) = m
  <2>1. IsFiniteSet(1..m) /\ Cardinality(1..m) = IF 1 > m THEN 0 ELSE m - 1 + 1
    BY <1>2, FS_Interval
  <2>. QED  BY <1>2, <2>1
<1>7. f \in Surjection(1..m, First(list, n)) /\ f \in Injection(1..m, First(list, n))
  <2>1. f \in [1..m -> First(list, n)] /\ \A x \in First(list, n) : \E i \in 1..m : f[i] = x
    BY <1>3
  <2>0. \A i \in 1..m : i \in 1..Len(list)
    BY <1>2
  <2>2. \A i, j \in 1..m : f[i] = f[j] => i = j
    BY <2>0 DEF IsEventList
  <2>. QED  BY <2>1, <2>2 DEF Surjection, Injection, IsInjective
<1>8. IsFiniteSet(First(list, n)) /\ Cardinality(First(list, n)) = m
  BY <1>6, <1>7, FS_Surjection
<1>9. ASSUME Ordered(list), NEW w \in First(list, n), NEW u \in ToSet(list) \ First(list, n)
      PROVE  uxPriority[w] >= uxPriority[u]
  <2>1. PICK i \in 1..m : w = list[i]
    BY <1>3
  <2>2. PICK j \in 1..Len(list) : u = list[j]
    BY <1>1 DEF ToSet
  <2>3. j \notin 1..m
    BY <1>3, <2>2
  <2>4. i < j /\ i \in 1..Len(list)
    BY <1>2, <2>3
  <2>. QED  BY <1>9, <2>1, <2>2, <2>4 DEF Ordered
<1>. QED  BY <1>2, <1>4, <1>5, <1>8, <1>9
-----------------------------------------------------------------------------
(* The tasks in the two event lists.                                      *)
AtSend == ToSet(xTasksWaitingToSend)
AtReceive == ToSet(xTasksWaitingToReceive)

(* From the time it suspends the scheduler to the time it resumes it, a    *)
(* task is the current one and the queue is its own.                       *)
Holding == {"lock", "check", "test", "place", "delay", "placed", "retry", "timeout"}
(* The queue is locked, too, from prvLockQueue to the unlocking.          *)
Locked == {"check", "test", "place", "delay"}
(* A task that holds the scheduler, as above.                             *)
Holds(t) == pc[t] \in Holding

(* An event list holds no task twice, and the highest priorities first.   *)
ListsInv ==
  /\ IsEventList(xTasksWaitingToSend) /\ Ordered(xTasksWaitingToSend)
  /\ IsEventList(xTasksWaitingToReceive) /\ Ordered(xTasksWaitingToReceive)

(* The variables but the lists have their types.                          *)
TypesInv ==
  /\ use \in Uses
  /\ messageCount \in 0..use.uxLength
  /\ cTxLock \in queueUNLOCKED..MaxPended /\ cRxLock \in queueUNLOCKED..MaxPended
  /\ wakeIn \in [Tasks -> 0..portMAX_DELAY] /\ xPendingReadyList \subseteq Tasks
  /\ uxSchedulerSuspended \in BOOLEAN /\ xYieldPending \in BOOLEAN
  /\ xPendedTicks \in 0..MaxPended /\ pxCurrentTCB \in Tasks \cup {Idle}
  /\ isr \in {"none", "hook", "switch"}
  /\ pc \in [Tasks -> Labels] /\ op \in [Tasks -> {"none", "send", "receive", "peek"}]
  /\ xTicksToWait \in [Tasks -> 0..portMAX_DELAY] /\ left \in [Tasks -> 0..portMAX_DELAY]
  /\ elapsed \in [Tasks -> NotSet..portMAX_DELAY]

(* Ticks pend, tasks are pending and the queue is locked only while a task *)
(* holds the scheduler; a lock counts no more than one of them per tick.   *)
HoldInv ==
  /\ \A t \in Tasks : Holds(t) <=> uxSchedulerSuspended /\ t = pxCurrentTCB
  /\ uxSchedulerSuspended => pxCurrentTCB \in Tasks
  /\ ~uxSchedulerSuspended => /\ xPendedTicks = 0 /\ xPendingReadyList = {}
                              /\ cTxLock = queueUNLOCKED /\ cRxLock = queueUNLOCKED
  /\ \A t \in Tasks : /\ pc[t] = "lock" => cTxLock = queueUNLOCKED /\ cRxLock = queueUNLOCKED
                      /\ pc[t] \in Locked => cTxLock # queueUNLOCKED /\ cRxLock # queueUNLOCKED
  /\ uxSchedulerSuspended =>
       Counted(cTxLock) + Counted(cRxLock) + (IF isr = "hook" THEN 1 ELSE 0) <= xPendedTicks
  /\ \A t \in Tasks : op[t] = "none" <=> pc[t] = "out"

(* A task out of the ready list has blocked itself in a call, or sleeps,   *)
(* and runs only on its way to the yield.                                  *)
RunInv ==
  \A t \in Tasks : wakeIn[t] > 0 =>
    /\ pc[t] \in {"out", "placed", "yield", "try"}
    /\ t = pxCurrentTCB => pc[t] \in {"placed", "yield"}

(* The time a call has left, as the check for a time out will compute it.  *)
ClockInv ==
  \A t \in Tasks :
    /\ pc[t] = "out" => elapsed[t] = NotSet /\ xTicksToWait[t] = 0
    /\ elapsed[t] = NotSet => left[t] = 0 /\ pc[t] \in {"out", "try"}
    /\ elapsed[t] <= xTicksToWait[t]
    /\ elapsed[t] # NotSet =>
         left[t] = IF xTicksToWait[t] = portMAX_DELAY THEN portMAX_DELAY
                   ELSE IF xTicksToWait[t] - elapsed[t] > xPendedTicks
                   THEN xTicksToWait[t] - elapsed[t] - xPendedTicks ELSE 0
    /\ pc[t] \in {"test", "place", "delay"} => elapsed[t] = 0 /\ xTicksToWait[t] # 0
    /\ pc[t] \in {"timeout", "full", "recheck"} => xTicksToWait[t] = 0
    /\ wakeIn[t] \in 1..(portMAX_DELAY - 1) /\ pc[t] # "out" =>
         /\ elapsed[t] # NotSet /\ xTicksToWait[t] # portMAX_DELAY
         /\ wakeIn[t] = xTicksToWait[t] - elapsed[t]

(* The moves of the tasks, and of the interrupt.                           *)
Move(t) == Call(t) \/ xQueueReset(t) \/ Sleep(t) \/ Step(t)
-----------------------------------------------------------------------------
(* What the operators of QueueBlocking do to the lists and the times.     *)
LEMMA LeaveFacts ==
  ASSUME ListsInv, NEW T, LeaveEventLists(T)
  PROVE  ListsInv' /\ AtSend' = AtSend \ T /\ AtReceive' = AtReceive \ T
  BY WithoutFacts DEF ListsInv, LeaveEventLists, AtSend, AtReceive

LEMMA UseFacts ==
  ASSUME use \in Uses
  PROVE  use.uxLength \in Nat \ {0} /\ use.waits \subseteq 0..portMAX_DELAY
  BY QueueAssumption

LEMMA MaxFacts == portMAX_DELAY \in Nat \ {0} /\ MaxPended \in Nat /\ Idle \notin Tasks
  BY QueueAssumption

LEMMA ReadyTypes ==
  ASSUME TypesInv, NEW T \in SUBSET Tasks
  PROVE  ReadyOf(T) \in [Tasks -> 0..portMAX_DELAY]
  BY MaxFacts DEF ReadyOf, TypesInv

(* Time that passes lets tasks go on, and brings the others closer to it.  *)
LEMMA LaterFacts ==
  ASSUME NEW wake \in [Tasks -> 0..portMAX_DELAY], NEW n \in Nat
  PROVE  /\ Expired(wake, n) \subseteq Tasks
         /\ Later(wake, n) \in [Tasks -> 0..portMAX_DELAY]
         /\ \A t \in Tasks : Later(wake, n)[t] =
              IF wake[t] = portMAX_DELAY THEN portMAX_DELAY
              ELSE IF wake[t] > n THEN wake[t] - n ELSE 0
<1>1. Expired(wake, n) \subseteq Tasks
  BY DEF Expired
<1>2. ASSUME NEW t \in Tasks
      PROVE  /\ Later(wake, n)[t] \in 0..portMAX_DELAY
             /\ Later(wake, n)[t] = IF wake[t] = portMAX_DELAY THEN portMAX_DELAY
                                    ELSE IF wake[t] > n THEN wake[t] - n ELSE 0
  BY MaxFacts DEF Later, Expired
<1>. QED  BY <1>1, <1>2 DEF Later

(* One lemma for each part of the invariant, one step for each action.    *)
LEMMA ListsStep ==
  ASSUME ListsInv, TypesInv, HoldInv, [Next]_vars,
         \A t \in Tasks : pc[t] = "place" => t \notin AtSend \cup AtReceive
  PROVE  ListsInv'
<1>1. CASE UNCHANGED lists
  BY <1>1 DEF lists, ListsInv
<1>2. ASSUME NEW T, LeaveEventLists(T) PROVE ListsInv'
  BY <1>2, LeaveFacts
<1>3. ASSUME NEW t \in Tasks, PlaceOnEventList(t) PROVE ListsInv'
  BY <1>3, InsertFacts DEF PlaceOnEventList, ListsInv, AtSend, AtReceive, At
<1>4. CASE Interrupt
  <2>1. CASE xTaskIncrementTick
    BY <1>1, <1>2, <2>1 DEF xTaskIncrementTick
  <2>2. CASE QuietHook
    BY <1>1, <2>2 DEF QuietHook
  <2>3. CASE vTaskSwitchContext
    BY <1>1, <2>3 DEF vTaskSwitchContext
  <2>4. CASE xQueueGenericSendFromISR
    BY <1>2, <2>4 DEF xQueueGenericSendFromISR
  <2>5. CASE xQueueReceiveFromISR
    BY <1>2, <2>5 DEF xQueueReceiveFromISR
  <2>. QED  BY <1>4, <2>1, <2>2, <2>3, <2>4, <2>5 DEF Interrupt
<1>5. ASSUME NEW t \in Tasks, Move(t)
      PROVE  ListsInv'
  <2>1. CASE Call(t)
    BY <1>1, <2>1 DEF Call
  <2>2. CASE xQueueReset(t)
    BY <1>2, <2>2 DEF xQueueReset
  <2>3. CASE Sleep(t)
    BY <1>1, <2>3 DEF Sleep
  <2>4. CASE Succeed(t)
    BY <1>2, <2>4 DEF Succeed
  <2>5. CASE Fail(t) \/ MustWait(t) \/ TestQueue(t) \/ TimedOut(t)
    BY <1>1, <2>5 DEF Fail, MustWait, TestQueue, TimedOut
  <2>6. CASE vTaskSuspendAll(t) \/ prvLockQueue(t) \/ xTaskCheckForTimeOut(t)
             \/ prvAddCurrentTaskToDelayedList(t) \/ portYIELD_WITHIN_API(t)
    BY <1>1, <2>6 DEF vTaskSuspendAll, prvLockQueue, xTaskCheckForTimeOut,
       prvAddCurrentTaskToDelayedList, portYIELD_WITHIN_API
  <2>7. CASE UnlockTx(t)
    BY <1>2, <2>7 DEF UnlockTx
  <2>8. CASE UnlockRx(t)
    BY <1>2, <2>8 DEF UnlockRx
  <2>9. CASE xTaskResumeAll(t)
    BY <1>2, <2>9 DEF xTaskResumeAll
  <2>. QED  BY <1>3, <1>5, <2>1, <2>2, <2>3, <2>4, <2>5, <2>6, <2>7, <2>8, <2>9 DEF Move, Step
<1>. QED  BY <1>1, <1>4, <1>5 DEF Next, vars, Move, lists
-----------------------------------------------------------------------------
(* What a wake-up, a switch and an event list's first tasks may be.       *)
LEMMA ReadyFacts ==
  ASSUME TypesInv, NEW T \in SUBSET Tasks, MakeReady(T)
  PROVE  /\ wakeIn' \in [Tasks -> 0..portMAX_DELAY] /\ xPendingReadyList' \subseteq Tasks
         /\ \A t \in Tasks : wakeIn'[t] = wakeIn[t] \/ wakeIn'[t] = 0
         /\ ~uxSchedulerSuspended => xPendingReadyList' = xPendingReadyList
  BY ReadyTypes DEF TypesInv, MakeReady, ReadyOf

LEMMA SwitchFacts ==
  ASSUME NEW wake, Yield(wake)
  PROVE  xYieldPending' = FALSE /\ pxCurrentTCB' \in Tasks \cup {Idle}
         /\ (pxCurrentTCB' \in Tasks => wake[pxCurrentTCB'] = 0)
  BY MaxFacts DEF Yield, Highest

LEMMA WokenFacts ==
  ASSUME ListsInv, NEW n \in Nat
  PROVE  First(xTasksWaitingToSend, n) \in SUBSET Tasks
         /\ First(xTasksWaitingToReceive, n) \in SUBSET Tasks
  BY FirstFacts DEF ListsInv

LEMMA TypesStep ==
  ASSUME ListsInv, TypesInv, HoldInv, ClockInv, [Next]_vars
  PROVE  TypesInv'
<1>1. CASE UNCHANGED vars
  BY <1>1 DEF TypesInv, vars, queue, lists, switching, kernel, timing
<1>. SUFFICES ASSUME Next PROVE TypesInv'
  BY <1>1
<1>2. /\ use' = use /\ use.uxLength \in Nat \ {0} /\ use.waits \subseteq 0..portMAX_DELAY
      /\ portMAX_DELAY \in Nat \ {0} /\ MaxPended \in Nat
  BY UseFacts, MaxFacts DEF Next, TypesInv
<1>. USE <1>2 DEF queueUNLOCKED, queueLOCKED_UNMODIFIED, NotSet
<1>3. CASE Interrupt
  <2>1. CASE xTaskIncrementTick
    <3>1. wakeIn' \in [Tasks -> 0..portMAX_DELAY] /\ xPendedTicks' \in 0..MaxPended
      <4>1. wakeIn \in [Tasks -> 0..portMAX_DELAY] /\ xPendedTicks \in 0..MaxPended
        BY DEF TypesInv
      <4>2. Later(wakeIn, 1) \in [Tasks -> 0..portMAX_DELAY]
        BY <4>1, LaterFacts
      <4>. QED  BY <2>1, <4>1, <4>2 DEF xTaskIncrementTick
    <3>2. elapsed' \in [Tasks -> NotSet..portMAX_DELAY]
      BY <2>1 DEF xTaskIncrementTick, TypesInv, Pass
    <3>3. left' \in [Tasks -> 0..portMAX_DELAY]
      BY <2>1 DEF xTaskIncrementTick, TypesInv
    <3>. QED  BY <2>1, <3>1, <3>2, <3>3 DEF xTaskIncrementTick, TypesInv, queue, switching
  <2>2. CASE QuietHook
    BY <2>2 DEF QuietHook, TypesInv, queue, lists, switching, kernel, timing
  <2>3. CASE vTaskSwitchContext
    <3>1. pxCurrentTCB' \in Tasks \cup {Idle} /\ xYieldPending' \in BOOLEAN
      BY <2>3, SwitchFacts DEF vTaskSwitchContext, TypesInv
    <3>. QED  BY <2>3, <3>1 DEF vTaskSwitchContext, TypesInv, queue, lists, kernel, timing
  <2>4. CASE xQueueGenericSendFromISR
    <3>1. PICK T \in SUBSET Tasks : MakeReady(T) /\ xYieldPending' = (xYieldPending \/ Above(T))
      BY <2>4, WokenFacts DEF xQueueGenericSendFromISR
    <3>2. xYieldPending' \in BOOLEAN
      BY <3>1
    <3>3. wakeIn' \in [Tasks -> 0..portMAX_DELAY] /\ xPendingReadyList' \subseteq Tasks
      BY <3>1, ReadyFacts
    <3>4. cTxLock' \in queueUNLOCKED..MaxPended /\ messageCount' \in 0..use.uxLength
      BY <2>4 DEF xQueueGenericSendFromISR, TypesInv, HoldInv, Unlocked, Counted
    <3>. QED  BY <2>4, <3>2, <3>3, <3>4 DEF xQueueGenericSendFromISR, TypesInv, timing
  <2>5. CASE xQueueReceiveFromISR
    <3>1. PICK T \in SUBSET Tasks : MakeReady(T) /\ xYieldPending' = (xYieldPending \/ Above(T))
      BY <2>5, WokenFacts DEF xQueueReceiveFromISR
    <3>2. xYieldPending' \in BOOLEAN
      BY <3>1
    <3>3. wakeIn' \in [Tasks -> 0..portMAX_DELAY] /\ xPendingReadyList' \subseteq Tasks
      BY <3>1, ReadyFacts
    <3>4. cRxLock' \in queueUNLOCKED..MaxPended /\ messageCount' \in 0..use.uxLength
      BY <2>5 DEF xQueueReceiveFromISR, TypesInv, HoldInv, Unlocked, Counted
    <3>. QED  BY <2>5, <3>2, <3>3, <3>4 DEF xQueueReceiveFromISR, TypesInv, timing
  <2>. QED  BY <1>3, <2>1, <2>2, <2>3, <2>4, <2>5 DEF Interrupt
<1>4. ASSUME NEW t \in Tasks, Move(t)
      PROVE  TypesInv'
  <2>1. CASE Call(t)
    <3>1. PICK o \in Calls[t] \ {"reset", "sleep"}, w \in use.waits :
            /\ op' = [op EXCEPT ![t] = o] /\ pc' = [pc EXCEPT ![t] = "try"]
            /\ xTicksToWait' = [xTicksToWait EXCEPT ![t] = w]
            /\ UNCHANGED <<queue, lists, switching, kernel, isr, elapsed, left>>
      BY <2>1 DEF Call, Goto
    <3>2. o \in {"send", "receive", "peek"}
      BY <3>1, QueueAssumption DEF TypesInv, Calls
    <3>. QED  BY <3>1, <3>2 DEF TypesInv, Labels, queue, lists, switching, kernel
  <2>2. CASE xQueueReset(t)
    <3>. DEFINE T == First(xTasksWaitingToSend, 1)
    <3>1. T \in SUBSET Tasks
      BY WokenFacts
    <3>2. wakeIn' \in [Tasks -> 0..portMAX_DELAY] /\ xPendingReadyList' \subseteq Tasks
      BY <2>2, <3>1, ReadyFacts DEF xQueueReset
    <3>3. pxCurrentTCB' \in Tasks \cup {Idle} /\ xYieldPending' \in BOOLEAN
      BY <2>2, SwitchFacts DEF xQueueReset, TypesInv, switching
    <3>. QED  BY <2>2, <3>2, <3>3 DEF xQueueReset, TypesInv, timing
  <2>3. CASE Sleep(t)
    <3>1. pxCurrentTCB' \in Tasks \cup {Idle} /\ xYieldPending' \in BOOLEAN
      BY <2>3, SwitchFacts DEF Sleep
    <3>2. wakeIn' \in [Tasks -> 0..portMAX_DELAY]
      BY <2>3 DEF Sleep, TypesInv
    <3>. QED  BY <2>3, <3>1, <3>2 DEF Sleep, TypesInv, queue, lists, timing
  <2>4. CASE Succeed(t)
    <3>. DEFINE T == Woken(t)
    <3>1. T \in SUBSET Tasks
      BY WokenFacts DEF Woken
    <3>2. wakeIn' \in [Tasks -> 0..portMAX_DELAY] /\ xPendingReadyList' \subseteq Tasks
      BY <2>4, <3>1, ReadyFacts DEF Succeed
    <3>3. pxCurrentTCB' \in Tasks \cup {Idle} /\ xYieldPending' \in BOOLEAN
      BY <2>4, SwitchFacts DEF Succeed, TypesInv, switching
    <3>4. op[t] \in {"send", "receive", "peek"}
      BY <2>4 DEF Succeed, At, TypesInv, HoldInv
    <3>5. messageCount' \in 0..use.uxLength
      BY <2>4, <3>4 DEF Succeed, TypesInv, Possible, Sends
    <3>6. /\ pc' \in [Tasks -> Labels] /\ op' \in [Tasks -> {"none", "send", "receive", "peek"}]
          /\ xTicksToWait' \in [Tasks -> 0..portMAX_DELAY] /\ left' \in [Tasks -> 0..portMAX_DELAY]
          /\ elapsed' \in [Tasks -> NotSet..portMAX_DELAY]
      BY <2>4 DEF Succeed, Return, Goto, TypesInv, Labels
    <3>. QED  BY <2>4, <3>2, <3>3, <3>5, <3>6 DEF Succeed, TypesInv
  <2>5. CASE Fail(t)
    BY <2>5 DEF Fail, Return, Goto, TypesInv, Labels, queue, lists, switching, kernel
  <2>6. CASE MustWait(t)
    BY <2>6 DEF MustWait, Goto, TypesInv, Labels, queue, lists, switching, kernel
  <2>7. CASE vTaskSuspendAll(t)
    BY <2>7 DEF vTaskSuspendAll, Goto, TypesInv, Labels, queue, lists, switching, timing
  <2>8. CASE prvLockQueue(t)
    BY <2>8 DEF prvLockQueue, Goto, TypesInv, Labels, lists, switching, kernel, timing
  <2>9. CASE xTaskCheckForTimeOut(t)
    <3>1. TimeLeft(t) \in 0..portMAX_DELAY
      BY <2>9 DEF xTaskCheckForTimeOut, At, TimeLeft, ClockInv, TypesInv
    <3>. QED  BY <2>9, <3>1 DEF xTaskCheckForTimeOut, Goto, TypesInv, Labels,
                queue, lists, switching, kernel
  <2>10. CASE TestQueue(t)
    BY <2>10 DEF TestQueue, Goto, TypesInv, Labels, queue, lists, switching, kernel, timing
  <2>11. CASE PlaceOnEventList(t)
    BY <2>11 DEF PlaceOnEventList, Goto, TypesInv, Labels, queue, switching, kernel, timing
  <2>12. CASE prvAddCurrentTaskToDelayedList(t)
    BY <2>12 DEF prvAddCurrentTaskToDelayedList, Goto, TypesInv, Labels, queue, lists,
       switching, timing
  <2>13. CASE UnlockTx(t)
    <3>1. PICK T \in SUBSET Tasks : MakeReady(T) /\ xYieldPending' = (xYieldPending \/ Above(T))
      BY <2>13, WokenFacts DEF UnlockTx, PerItem, TypesInv
    <3>2. xYieldPending' \in BOOLEAN
      BY <3>1
    <3>3. wakeIn' \in [Tasks -> 0..portMAX_DELAY] /\ xPendingReadyList' \subseteq Tasks
      BY <3>1, ReadyFacts
    <3>. QED  BY <2>13, <3>2, <3>3 DEF UnlockTx, TypesInv, timing
  <2>14. CASE UnlockRx(t)
    <3>1. PICK T \in SUBSET Tasks : MakeReady(T) /\ xYieldPending' = (xYieldPending \/ Above(T))
      BY <2>14, WokenFacts DEF UnlockRx, PerItem, TypesInv
    <3>2. xYieldPending' \in BOOLEAN
      BY <3>1
    <3>3. wakeIn' \in [Tasks -> 0..portMAX_DELAY] /\ xPendingReadyList' \subseteq Tasks
      BY <3>1, ReadyFacts
    <3>. QED  BY <2>14, <3>2, <3>3 DEF UnlockRx, TypesInv, timing
  <2>15. CASE xTaskResumeAll(t)
    <3>1. PICK why \in {"placed", "retry", "timeout"} :
            /\ wakeIn' = Later(PendingReadied, xPendedTicks)
            /\ Yield(wakeIn') \/ UNCHANGED switching
            /\ pc' \in {[pc EXCEPT ![t] = l] : l \in Labels}
      BY <2>15 DEF xTaskResumeAll, Goto, Labels
    <3>2. wakeIn' \in [Tasks -> 0..portMAX_DELAY]
      <4>1. PendingReadied \in [Tasks -> 0..portMAX_DELAY] /\ xPendedTicks \in Nat
        BY ReadyTypes, xPendingReadyList \in SUBSET Tasks DEF PendingReadied, TypesInv
      <4>. QED  BY <3>1, <4>1, LaterFacts
    <3>3. pxCurrentTCB' \in Tasks \cup {Idle} /\ xYieldPending' \in BOOLEAN
      BY <3>1, SwitchFacts DEF TypesInv, switching
    <3>4. /\ xPendingReadyList' = {} /\ xPendedTicks' = 0 /\ uxSchedulerSuspended' = FALSE
          /\ UNCHANGED <<queue, isr, op, xTicksToWait, left>>
      BY <2>15 DEF xTaskResumeAll
    <3>5. elapsed' \in [Tasks -> NotSet..portMAX_DELAY]
      BY <2>15 DEF xTaskResumeAll, TypesInv, Pass
    <3>6. pc' \in [Tasks -> Labels]
      BY <3>1 DEF TypesInv
    <3>7. uxSchedulerSuspended' \in BOOLEAN /\ xPendingReadyList' \subseteq Tasks
      BY <3>4, Zenon
    <3>9. xPendedTicks' \in 0..MaxPended
      BY <3>4
    <3>8. UNCHANGED <<messageCount, cTxLock, cRxLock, isr, op, xTicksToWait, left>>
      BY <3>4 DEF queue
    <3>. QED  BY <3>2, <3>3, <3>5, <3>6, <3>7, <3>8, <3>9 DEF TypesInv
  <2>16. CASE portYIELD_WITHIN_API(t)
    <3>1. pxCurrentTCB' \in Tasks \cup {Idle} /\ xYieldPending' \in BOOLEAN
      BY <2>16, SwitchFacts DEF portYIELD_WITHIN_API
    <3>. QED  BY <2>16, <3>1 DEF portYIELD_WITHIN_API, Goto, TypesInv, Labels, queue, lists,
                kernel, timing
  <2>17. CASE TimedOut(t)
    <3>1. CASE pc' = [pc EXCEPT ![t] = "try"] /\ UNCHANGED <<op, timing>>
      BY <2>17, <3>1 DEF TimedOut, TypesInv, Labels, queue, lists, switching, kernel, timing
    <3>2. CASE Return(t)
      BY <2>17, <3>2 DEF TimedOut, Return, Goto, TypesInv, Labels, queue, lists, switching,
         kernel, timing
    <3>. QED  BY <2>17, <3>1, <3>2 DEF TimedOut, Goto
  <2>. QED  BY <1>4, <2>1, <2>2, <2>3, <2>4, <2>5, <2>6, <2>7, <2>8, <2>9, <2>10, <2>11, <2>12,
               <2>13, <2>14, <2>15, <2>16, <2>17 DEF Move, Step
<1>. QED  BY <1>3, <1>4 DEF Next, Move
-----------------------------------------------------------------------------
LEMMA HoldStep ==
  ASSUME ListsInv, TypesInv, HoldInv, [Next]_vars
  PROVE  HoldInv'
<1>1. CASE UNCHANGED vars
  BY <1>1 DEF HoldInv, Holds, vars, queue, switching, kernel, Counted
<1>. SUFFICES ASSUME Next PROVE HoldInv'
  BY <1>1
<1>. USE DEF queueUNLOCKED, queueLOCKED_UNMODIFIED, Counted
<1>3. CASE Interrupt
  <2>0. UNCHANGED <<pc, op, uxSchedulerSuspended>>
    BY <1>3 DEF Interrupt, xTaskIncrementTick, QuietHook, vTaskSwitchContext,
       xQueueGenericSendFromISR, xQueueReceiveFromISR, kernel
  <2>1. CASE xTaskIncrementTick
    BY <2>0, <2>1 DEF xTaskIncrementTick, HoldInv, Holds, queue, switching, TypesInv
  <2>2. CASE QuietHook
    BY <2>0, <2>2 DEF QuietHook, HoldInv, Holds, queue, switching, kernel, TypesInv
  <2>3. CASE vTaskSwitchContext
    <3>1. CASE uxSchedulerSuspended
      BY <2>0, <2>3, <3>1 DEF vTaskSwitchContext, HoldInv, Holds, queue, kernel, TypesInv
    <3>2. CASE ~uxSchedulerSuspended
      BY <2>0, <2>3, <3>2 DEF vTaskSwitchContext, HoldInv, Holds, queue, kernel, TypesInv
    <3>. QED  BY <3>1, <3>2
  <2>4. CASE xQueueGenericSendFromISR
    <3>1. ~uxSchedulerSuspended => xPendingReadyList' = xPendingReadyList
      BY <2>4, WokenFacts, ReadyFacts DEF xQueueGenericSendFromISR
    <3>. QED  BY <2>0, <2>4, <3>1 DEF xQueueGenericSendFromISR, HoldInv, Holds, TypesInv, Unlocked
  <2>5. CASE xQueueReceiveFromISR
    <3>1. ~uxSchedulerSuspended => xPendingReadyList' = xPendingReadyList
      BY <2>5, WokenFacts, ReadyFacts DEF xQueueReceiveFromISR
    <3>. QED  BY <2>0, <2>5, <3>1 DEF xQueueReceiveFromISR, HoldInv, Holds, TypesInv, Unlocked
  <2>. QED  BY <1>3, <2>1, <2>2, <2>3, <2>4, <2>5 DEF Interrupt
<1>4. ASSUME NEW t \in Tasks, Move(t)
      PROVE  HoldInv'
  <2>0. ASSUME t = pxCurrentTCB, pc[t] \notin Holding
        PROVE  ~uxSchedulerSuspended
    BY <2>0 DEF HoldInv, Holds
  <2>1. CASE Call(t)
    <3>1. PICK o \in Calls[t] \ {"reset", "sleep"} :
            /\ op' = [op EXCEPT ![t] = o] /\ pc' = [pc EXCEPT ![t] = "try"] /\ At(t, "out")
            /\ UNCHANGED <<queue, lists, switching, kernel, isr>>
      BY <2>1 DEF Call, Goto
    <3>2. o # "none"
      BY <3>1, QueueAssumption DEF TypesInv, Calls
    <3>. QED  BY <3>1, <3>2 DEF HoldInv, Holds, Holding, Locked, At, TypesInv, queue, switching, kernel
  <2>2. CASE xQueueReset(t)
    <3>1. ~uxSchedulerSuspended /\ ~uxSchedulerSuspended'
      BY <2>0, <2>2 DEF xQueueReset, At, Holding
    <3>2. xPendingReadyList' = xPendingReadyList
      BY <2>2, <3>1, WokenFacts, ReadyFacts DEF xQueueReset
    <3>. QED  BY <2>2, <3>1, <3>2 DEF xQueueReset, HoldInv, Holds, Holding, TypesInv
  <2>3. CASE Sleep(t)
    <3>1. ~uxSchedulerSuspended /\ ~uxSchedulerSuspended'
      BY <2>0, <2>3 DEF Sleep, At, Holding
    <3>. QED  BY <2>3, <3>1 DEF Sleep, HoldInv, Holds, Holding, TypesInv, queue
  <2>4. CASE Succeed(t)
    <3>1. ~uxSchedulerSuspended /\ ~uxSchedulerSuspended'
      BY <2>0, <2>4 DEF Succeed, At, Holding
    <3>2. xPendingReadyList' = xPendingReadyList
      BY <2>4, <3>1, WokenFacts, ReadyFacts DEF Succeed, Woken
    <3>. QED  BY <2>4, <3>1, <3>2 DEF Succeed, Return, Goto, HoldInv, Holds, Holding, Locked, TypesInv
  <2>5. CASE Fail(t)
    BY <2>5 DEF Fail, Return, At, Goto, HoldInv, Holds, Holding, Locked, TypesInv,
       queue, switching, kernel
  <2>6. CASE MustWait(t)
    BY <2>6 DEF MustWait, At, Goto, HoldInv, Holds, Holding, Locked, TypesInv,
       queue, switching, kernel
  <2>7. CASE vTaskSuspendAll(t)
    <3>1. ~uxSchedulerSuspended
      BY <2>0, <2>7 DEF vTaskSuspendAll, At, Holding
    <3>. QED  BY <2>7, <3>1 DEF vTaskSuspendAll, At, Goto, HoldInv, Holds, Holding, Locked, TypesInv,
              queue, switching
  <2>8. CASE prvLockQueue(t)
    BY <2>8 DEF prvLockQueue, At, Goto, HoldInv, Holds, Holding, Locked, TypesInv,
       switching, kernel
  <2>9. CASE xTaskCheckForTimeOut(t)
    BY <2>9 DEF xTaskCheckForTimeOut, At, Goto, HoldInv, Holds, Holding, Locked, TypesInv,
       queue, switching, kernel
  <2>10. CASE TestQueue(t)
    BY <2>10 DEF TestQueue, At, Goto, HoldInv, Holds, Holding, Locked, TypesInv,
       queue, switching, kernel
  <2>11. CASE PlaceOnEventList(t)
    BY <2>11 DEF PlaceOnEventList, At, Goto, HoldInv, Holds, Holding, Locked, TypesInv,
       queue, switching, kernel
  <2>12. CASE prvAddCurrentTaskToDelayedList(t)
    BY <2>12 DEF prvAddCurrentTaskToDelayedList, At, Goto, HoldInv, Holds, Holding, Locked,
       TypesInv, queue, switching
  <2>13. CASE UnlockTx(t)
    <3>1. UNCHANGED <<cRxLock, pxCurrentTCB, uxSchedulerSuspended, xPendedTicks, isr, pc, op>>
          /\ At(t, pc[t]) /\ pc[t] \in {"placed", "retry", "timeout"} /\ cTxLock' = queueUNLOCKED
          /\ cTxLock # queueUNLOCKED
      BY <2>13 DEF UnlockTx, At, timing
    <3>. QED  BY <3>1 DEF At, HoldInv, Holds, Holding, Locked, TypesInv
  <2>14. CASE UnlockRx(t)
    <3>1. UNCHANGED <<cTxLock, pxCurrentTCB, uxSchedulerSuspended, xPendedTicks, isr, pc, op>>
          /\ At(t, pc[t]) /\ pc[t] \in {"placed", "retry", "timeout"} /\ cRxLock' = queueUNLOCKED
          /\ cRxLock # queueUNLOCKED
      BY <2>14 DEF UnlockRx, At, timing
    <3>. QED  BY <3>1 DEF At, HoldInv, Holds, Holding, Locked, TypesInv
  <2>15. CASE xTaskResumeAll(t)
    <3>1. PICK why \in {"placed", "retry", "timeout"}, l \in {"try", "yield", "full", "recheck"} :
            /\ At(t, why) /\ uxSchedulerSuspended /\ cTxLock = queueUNLOCKED /\ cRxLock = queueUNLOCKED
            /\ pc' = [pc EXCEPT ![t] = l]
      BY <2>15 DEF xTaskResumeAll, Goto
    <3>2. /\ xPendingReadyList' = {} /\ xPendedTicks' = 0 /\ uxSchedulerSuspended' = FALSE
          /\ UNCHANGED <<queue, isr, op>>
      BY <2>15 DEF xTaskResumeAll
    <3>3. \A u \in Tasks : u # t => pc[u] \notin Holding
      BY <3>1 DEF HoldInv, Holds, At
    <3>. QED  BY <3>1, <3>2, <3>3 DEF At, HoldInv, Holds, Holding, Locked, TypesInv, queue
  <2>16. CASE portYIELD_WITHIN_API(t)
    <3>1. ~uxSchedulerSuspended
      BY <2>0, <2>16 DEF portYIELD_WITHIN_API, At, Holding
    <3>. QED  BY <2>16, <3>1 DEF portYIELD_WITHIN_API, At, Goto, HoldInv, Holds, Holding, Locked,
              TypesInv, queue, kernel
  <2>17. CASE TimedOut(t)
    <3>1. CASE pc' = [pc EXCEPT ![t] = "try"] /\ UNCHANGED op
      BY <2>17, <3>1 DEF TimedOut, At, HoldInv, Holds, Holding, Locked, TypesInv,
         queue, switching, kernel
    <3>2. CASE Return(t)
      BY <2>17, <3>2 DEF TimedOut, Return, At, Goto, HoldInv, Holds, Holding, Locked, TypesInv,
         queue, switching, kernel
    <3>. QED  BY <2>17, <3>1, <3>2 DEF TimedOut, Goto
  <2>. QED  BY <1>4, <2>1, <2>2, <2>3, <2>4, <2>5, <2>6, <2>7, <2>8, <2>9, <2>10, <2>11, <2>12,
               <2>13, <2>14, <2>15, <2>16, <2>17 DEF Move, Step
<1>. QED  BY <1>3, <1>4 DEF Next, Move
-----------------------------------------------------------------------------
(* What the steps of the kernel do to the tasks that are not ready.        *)
LEMMA WakeStep ==
  ASSUME ListsInv, TypesInv, HoldInv, NEW t \in Tasks, xTaskResumeAll(t)
  PROVE  /\ \A u \in Tasks : wakeIn'[u] =
              IF u \in xPendingReadyList THEN 0
              ELSE IF wakeIn[u] = portMAX_DELAY THEN portMAX_DELAY
              ELSE IF wakeIn[u] > xPendedTicks THEN wakeIn[u] - xPendedTicks ELSE 0
         /\ Yield(wakeIn') \/ (UNCHANGED switching /\ pc'[t] # "out" /\ (pc[t] = "placed" => pc'[t] = "yield"))
<1>1. PICK why \in {"placed", "retry", "timeout"} :
        /\ wakeIn' = Later(PendingReadied, xPendedTicks) /\ At(t, why)
        /\ Yield(wakeIn') \/ (UNCHANGED switching /\ Goto(t, CASE why = "placed" -> "yield"
                      [] why = "retry" -> "try"
                      [] why = "timeout" -> IF Sends(t) THEN "full" ELSE "recheck"))
  BY DEF xTaskResumeAll
<1>2. PendingReadied \in [Tasks -> 0..portMAX_DELAY] /\ xPendedTicks \in Nat
  BY ReadyTypes, xPendingReadyList \in SUBSET Tasks DEF PendingReadied, TypesInv
<1>3. \A u \in Tasks : PendingReadied[u] = IF u \in xPendingReadyList THEN 0 ELSE wakeIn[u]
  BY DEF PendingReadied, ReadyOf
<1>4. \A u \in Tasks : wakeIn'[u] = 
              IF PendingReadied[u] = portMAX_DELAY THEN portMAX_DELAY
              ELSE IF PendingReadied[u] > xPendedTicks THEN PendingReadied[u] - xPendedTicks ELSE 0
  BY <1>1, <1>2, LaterFacts
<1>5. \A u \in Tasks : wakeIn'[u] =
              IF u \in xPendingReadyList THEN 0
              ELSE IF wakeIn[u] = portMAX_DELAY THEN portMAX_DELAY
              ELSE IF wakeIn[u] > xPendedTicks THEN wakeIn[u] - xPendedTicks ELSE 0
  BY <1>2, <1>3, <1>4, MaxFacts
<1>. QED  BY <1>1, <1>5 DEF At, Goto, TypesInv

LEMMA RunStep ==
  ASSUME ListsInv, TypesInv, HoldInv, RunInv, [Next]_vars
  PROVE  RunInv'
<1>1. CASE UNCHANGED vars
  BY <1>1 DEF RunInv, vars, switching, kernel
<1>. SUFFICES ASSUME Next PROVE RunInv'
  BY <1>1
<1>. USE MaxFacts
<1>2. ASSUME NEW T \in SUBSET Tasks, MakeReady(T), UNCHANGED <<pc, pxCurrentTCB>> PROVE RunInv'
  BY <1>2, ReadyFacts DEF RunInv, TypesInv
<1>3. CASE Interrupt
  <2>1. CASE xTaskIncrementTick
    <3>1. \A t \in Tasks : wakeIn'[t] > 0 => wakeIn[t] > 0
      <4>1. CASE wakeIn' = wakeIn
        BY <4>1
      <4>2. CASE wakeIn' = Later(wakeIn, 1)
        <5>1. wakeIn \in [Tasks -> 0..portMAX_DELAY]
          BY DEF TypesInv
        <5>. QED  BY <4>2, <5>1, LaterFacts
      <4>. QED  BY <2>1, <4>1, <4>2 DEF xTaskIncrementTick
    <3>. QED  BY <2>1, <3>1 DEF xTaskIncrementTick, RunInv, switching
  <2>2. CASE QuietHook
    BY <2>2 DEF QuietHook, RunInv, switching, kernel
  <2>3. CASE vTaskSwitchContext
    <3>1. CASE uxSchedulerSuspended
      BY <2>3, <3>1 DEF vTaskSwitchContext, RunInv, kernel
    <3>2. CASE ~uxSchedulerSuspended
      <4>1. pxCurrentTCB' \in Tasks => wakeIn[pxCurrentTCB'] = 0
        BY <2>3, <3>2, SwitchFacts DEF vTaskSwitchContext
      <4>. QED  BY <2>3, <4>1 DEF vTaskSwitchContext, RunInv, kernel
    <3>. QED  BY <3>1, <3>2
  <2>4. CASE xQueueGenericSendFromISR
    BY <1>2, <2>4, WokenFacts DEF xQueueGenericSendFromISR
  <2>5. CASE xQueueReceiveFromISR
    BY <1>2, <2>5, WokenFacts DEF xQueueReceiveFromISR
  <2>. QED  BY <1>3, <2>1, <2>2, <2>3, <2>4, <2>5 DEF Interrupt
<1>4. ASSUME NEW t \in Tasks, Move(t)
      PROVE  RunInv'
  <2>0. ASSUME t = pxCurrentTCB, pc[t] \notin Holding
        PROVE  ~uxSchedulerSuspended
    BY <2>0 DEF HoldInv, Holds
  <2>1. CASE Call(t)
    BY <2>1 DEF Call, At, Goto, RunInv, TypesInv, switching, kernel
  <2>2. CASE xQueueReset(t)
    <3>. DEFINE T == First(xTasksWaitingToSend, 1)
    <3>1. ~uxSchedulerSuspended
      BY <2>0, <2>2 DEF xQueueReset, At, Holding
    <3>2. T \in SUBSET Tasks
      BY WokenFacts
    <3>3. wakeIn' = ReadyOf(T)
      BY <2>2, <3>1 DEF xQueueReset, MakeReady
    <3>4. UNCHANGED switching \/ Yield(wakeIn')
      BY <2>2, <3>3 DEF xQueueReset
    <3>5. \A u \in Tasks : wakeIn'[u] > 0 => wakeIn[u] > 0
      BY <3>3 DEF ReadyOf
    <3>6. pc' = pc
      BY <2>2 DEF xQueueReset
    <3>7. CASE UNCHANGED switching
      BY <3>5, <3>6, <3>7 DEF RunInv, switching
    <3>8. CASE Yield(wakeIn')
      <4>1. pxCurrentTCB' \in Tasks => wakeIn'[pxCurrentTCB'] = 0
        BY <3>8, SwitchFacts
      <4>. QED  BY <3>5, <3>6, <4>1 DEF RunInv
    <3>. QED  BY <3>4, <3>7, <3>8
  <2>3. CASE Sleep(t)
    <3>1. pxCurrentTCB' \in Tasks => wakeIn'[pxCurrentTCB'] = 0
      BY <2>3, SwitchFacts DEF Sleep
    <3>. QED  BY <2>3, <3>1 DEF Sleep, At, RunInv, TypesInv
  <2>4. CASE Succeed(t)
    <3>. DEFINE T == Woken(t)
    <3>1. ~uxSchedulerSuspended
      BY <2>0, <2>4 DEF Succeed, At, Holding
    <3>2. T \in SUBSET Tasks
      BY WokenFacts DEF Woken
    <3>3. wakeIn' = ReadyOf(T)
      BY <2>4, <3>1 DEF Succeed, MakeReady
    <3>4. UNCHANGED switching \/ Yield(wakeIn')
      BY <2>4, <3>3 DEF Succeed
    <3>5. \A u \in Tasks : wakeIn'[u] > 0 => wakeIn[u] > 0
      BY <3>3 DEF ReadyOf
    <3>6. pc' = [pc EXCEPT ![t] = "out"] /\ pc[t] = "try" /\ t = pxCurrentTCB
      BY <2>4 DEF Succeed, Return, Goto, At
    <3>7. CASE UNCHANGED switching
      BY <3>5, <3>6, <3>7 DEF RunInv, switching, TypesInv
    <3>8. CASE Yield(wakeIn')
      <4>1. pxCurrentTCB' \in Tasks => wakeIn'[pxCurrentTCB'] = 0
        BY <3>8, SwitchFacts
      <4>. QED  BY <3>5, <3>6, <4>1 DEF RunInv, TypesInv
    <3>. QED  BY <3>4, <3>7, <3>8
  <2>5. CASE Fail(t) \/ MustWait(t) \/ TestQueue(t) \/ TimedOut(t)
    BY <2>5 DEF Fail, MustWait, TestQueue, TimedOut, Return, At, Goto, RunInv, TypesInv,
       switching, kernel
  <2>6. CASE vTaskSuspendAll(t) \/ prvLockQueue(t) \/ xTaskCheckForTimeOut(t) \/ PlaceOnEventList(t)
    BY <2>6 DEF vTaskSuspendAll, prvLockQueue, xTaskCheckForTimeOut, PlaceOnEventList,
       At, Goto, RunInv, TypesInv, switching, kernel
  <2>7. CASE prvAddCurrentTaskToDelayedList(t)
    BY <2>7 DEF prvAddCurrentTaskToDelayedList, At, Goto, RunInv, TypesInv, switching
  <2>8. CASE UnlockTx(t)
    BY <1>2, <2>8, WokenFacts DEF UnlockTx, PerItem, TypesInv, queueUNLOCKED
  <2>9. CASE UnlockRx(t)
    BY <1>2, <2>9, WokenFacts DEF UnlockRx, PerItem, TypesInv, queueUNLOCKED
  <2>10. CASE xTaskResumeAll(t)
    <3>1. \A u \in Tasks : wakeIn'[u] > 0 => wakeIn[u] > 0
      BY <2>10, WakeStep DEF TypesInv
    <3>2. t = pxCurrentTCB /\ pc[t] \in {"placed", "retry", "timeout"}
      BY <2>10 DEF xTaskResumeAll, At
    <3>3. \A u \in Tasks : u # t => pc'[u] = pc[u]
      BY <2>10 DEF xTaskResumeAll, Goto, TypesInv
    <3>4. pc[t] = "placed" => pc'[t] \in {"try", "yield"}
      BY <2>10 DEF xTaskResumeAll, Goto, TypesInv, At
    <3>5. CASE Yield(wakeIn')
      <4>1. pxCurrentTCB' \in Tasks => wakeIn'[pxCurrentTCB'] = 0
        BY <3>5, SwitchFacts
      <4>. QED  BY <3>1, <3>2, <3>3, <3>4, <4>1 DEF RunInv
    <3>6. CASE UNCHANGED switching /\ (pc[t] = "placed" => pc'[t] = "yield")
      BY <3>1, <3>2, <3>3, <3>6 DEF RunInv, switching
    <3>. QED  BY <2>10, <3>5, <3>6, WakeStep
  <2>11. CASE portYIELD_WITHIN_API(t)
    <3>1. pxCurrentTCB' \in Tasks => wakeIn[pxCurrentTCB'] = 0
      BY <2>11, SwitchFacts DEF portYIELD_WITHIN_API
    <3>. QED  BY <2>11, <3>1 DEF portYIELD_WITHIN_API, At, Goto, RunInv, TypesInv, kernel
  <2>. QED  BY <1>4, <2>1, <2>2, <2>3, <2>4, <2>5, <2>6, <2>7, <2>8, <2>9, <2>10, <2>11 DEF Move, Step
<1>. QED  BY <1>3, <1>4 DEF Next, Move
-----------------------------------------------------------------------------
(* What a tick does to the tasks that are not ready.                       *)
LEMMA TickStep ==
  ASSUME TypesInv, xTaskIncrementTick
  PROVE  \A u \in Tasks : wakeIn'[u] =
           IF uxSchedulerSuspended \/ wakeIn[u] \in {0, portMAX_DELAY} THEN wakeIn[u]
           ELSE wakeIn[u] - 1
<1>1. CASE uxSchedulerSuspended
  BY <1>1 DEF xTaskIncrementTick
<1>2. CASE ~uxSchedulerSuspended
  <2>1. wakeIn \in [Tasks -> 0..portMAX_DELAY] /\ wakeIn' = Later(wakeIn, 1)
    BY <1>2 DEF TypesInv, xTaskIncrementTick
  <2>. QED  BY <1>2, <2>1, LaterFacts, MaxFacts
<1>. QED  BY <1>1, <1>2

LEMMA ClockStep ==
  ASSUME ListsInv, TypesInv, HoldInv, RunInv, ClockInv, [Next]_vars
  PROVE  ClockInv'
<1>1. CASE UNCHANGED vars
  BY <1>1 DEF ClockInv, vars, switching, kernel, timing
<1>. SUFFICES ASSUME Next PROVE ClockInv'
  BY <1>1
<1>. USE MaxFacts DEF NotSet
<1>2. ASSUME NEW T \in SUBSET Tasks, MakeReady(T), UNCHANGED <<pc, xPendedTicks, timing>>
      PROVE  ClockInv'
  BY <1>2, ReadyFacts DEF ClockInv, TypesInv, timing
<1>3. CASE Interrupt
  <2>1. CASE xTaskIncrementTick
    <3>. SUFFICES ASSUME NEW t \in Tasks PROVE ClockInv!(t)'
      BY DEF ClockInv
    <3>1. wakeIn'[t] =
           IF uxSchedulerSuspended \/ wakeIn[t] \in {0, portMAX_DELAY} THEN wakeIn[t]
           ELSE wakeIn[t] - 1
      BY <2>1, TickStep
    <3>2. left'[t] = IF left[t] \in {0, portMAX_DELAY} THEN left[t] ELSE left[t] - 1
      BY <2>1 DEF xTaskIncrementTick
    <3>5. /\ elapsed[t] \in -1..portMAX_DELAY /\ xTicksToWait[t] \in 0..portMAX_DELAY
          /\ left[t] \in 0..portMAX_DELAY /\ wakeIn[t] \in 0..portMAX_DELAY
          /\ xPendedTicks \in Nat
      BY DEF TypesInv
    <3>6. ClockInv!(t)
      BY DEF ClockInv
    <3>3. CASE uxSchedulerSuspended
      <4>1. xPendedTicks' = xPendedTicks + 1 /\ UNCHANGED <<elapsed, pc, xTicksToWait>>
        BY <2>1, <3>3 DEF xTaskIncrementTick
      <4>. QED  BY <3>1, <3>2, <3>3, <3>5, <3>6, <4>1
    <3>4. CASE ~uxSchedulerSuspended
      <4>1. elapsed'[t] = IF elapsed[t] = NotSet \/ xTicksToWait[t] = portMAX_DELAY THEN elapsed[t]
             ELSE IF elapsed[t] + 1 > xTicksToWait[t] THEN xTicksToWait[t] ELSE elapsed[t] + 1
        BY <2>1, <3>4 DEF xTaskIncrementTick, Pass
      <4>2. xPendedTicks = 0 /\ xPendedTicks' = 0
        BY <2>1, <3>4 DEF xTaskIncrementTick, HoldInv
      <4>3. UNCHANGED <<pc, xTicksToWait>>
        BY <2>1 DEF xTaskIncrementTick
      <4>4. /\ pc'[t] = "out" => elapsed'[t] = NotSet /\ xTicksToWait'[t] = 0
            /\ elapsed'[t] = NotSet => left'[t] = 0 /\ pc'[t] \in {"out", "try"}
            /\ elapsed'[t] <= xTicksToWait'[t]
        BY <3>2, <3>5, <3>6, <4>1, <4>3
      <4>5. elapsed'[t] # NotSet =>
              left'[t] = IF xTicksToWait'[t] = portMAX_DELAY THEN portMAX_DELAY
                         ELSE IF xTicksToWait'[t] - elapsed'[t] > xPendedTicks'
                         THEN xTicksToWait'[t] - elapsed'[t] - xPendedTicks' ELSE 0
        <5>1. elapsed'[t] # NotSet => elapsed[t] \in Nat
          BY <3>5, <4>1
        <5>2. CASE elapsed[t] \in Nat /\ xTicksToWait[t] = portMAX_DELAY
          BY <3>2, <3>6, <4>3, <5>2
        <5>3. CASE elapsed[t] \in Nat /\ xTicksToWait[t] # portMAX_DELAY
          <6>1. left[t] = xTicksToWait[t] - elapsed[t] /\ left[t] # portMAX_DELAY
            BY <3>5, <3>6, <4>2, <5>3
          <6>2. elapsed'[t] = IF left[t] = 0 THEN elapsed[t] ELSE elapsed[t] + 1
            BY <3>5, <4>1, <5>3, <6>1
          <6>3. left'[t] = IF left[t] = 0 THEN 0 ELSE left[t] - 1
            BY <3>2, <6>1
          <6>. QED  BY <3>5, <4>2, <4>3, <5>3, <6>1, <6>2, <6>3
        <5>. QED  BY <5>1, <5>2, <5>3, <3>5
      <4>6. /\ pc'[t] \in {"test", "place", "delay"} => elapsed'[t] = 0 /\ xTicksToWait'[t] # 0
            /\ pc'[t] \in {"timeout", "full", "recheck"} => xTicksToWait'[t] = 0
        BY <3>4, <3>5, <3>6, <4>1, <4>3 DEF HoldInv, Holds, Holding
      <4>7. wakeIn'[t] \in 1..(portMAX_DELAY - 1) /\ pc'[t] # "out" =>
              /\ elapsed'[t] # NotSet /\ xTicksToWait'[t] # portMAX_DELAY
              /\ wakeIn'[t] = xTicksToWait'[t] - elapsed'[t]
        BY <3>1, <3>4, <3>5, <3>6, <4>1, <4>3
      <4>. QED  BY <4>4, <4>5, <4>6, <4>7
    <3>. QED  BY <3>3, <3>4
  <2>2. CASE QuietHook
    BY <2>2 DEF QuietHook, ClockInv, kernel, timing
  <2>3. CASE vTaskSwitchContext
    BY <2>3 DEF vTaskSwitchContext, ClockInv, kernel, timing
  <2>4. CASE xQueueGenericSendFromISR
    BY <1>2, <2>4, WokenFacts DEF xQueueGenericSendFromISR
  <2>5. CASE xQueueReceiveFromISR
    BY <1>2, <2>5, WokenFacts DEF xQueueReceiveFromISR
  <2>. QED  BY <1>3, <2>1, <2>2, <2>3, <2>4, <2>5 DEF Interrupt
<1>4. ASSUME NEW t \in Tasks, Move(t)
      PROVE  ClockInv'
  <2>0. ASSUME t = pxCurrentTCB, pc[t] \notin Holding
        PROVE  ~uxSchedulerSuspended
    BY <2>0 DEF HoldInv, Holds
  <2>1. CASE Call(t)
    <3>1. wakeIn[t] = 0
      BY <2>1 DEF Call, At, RunInv, TypesInv
    <3>. QED  BY <2>1, <3>1, UseFacts DEF Call, At, Goto, ClockInv, TypesInv, kernel
  <2>2. CASE xQueueReset(t)
    BY <1>2, <2>2, WokenFacts DEF xQueueReset
  <2>3. CASE Sleep(t)
    BY <2>3 DEF Sleep, At, ClockInv, TypesInv, timing
  <2>4. CASE Succeed(t)
    <3>1. \A u \in Tasks : wakeIn'[u] = wakeIn[u] \/ wakeIn'[u] = 0
      BY <2>4, WokenFacts, ReadyFacts DEF Succeed, Woken
    <3>2. Return(t) /\ xPendedTicks' = xPendedTicks
      BY <2>4 DEF Succeed
    <3>3. /\ pc' = [pc EXCEPT ![t] = "out"] /\ xTicksToWait' = [xTicksToWait EXCEPT ![t] = 0]
          /\ elapsed' = [elapsed EXCEPT ![t] = NotSet] /\ left' = [left EXCEPT ![t] = 0]
      BY <3>2 DEF Return, Goto
    <3>. QED  BY <3>1, <3>2, <3>3 DEF ClockInv, TypesInv
  <2>5. CASE Return(t) /\ UNCHANGED kernel
    BY <2>5 DEF Return, Goto, ClockInv, TypesInv, kernel
  <2>6. CASE MustWait(t)
    <3>1. ~uxSchedulerSuspended /\ wakeIn[t] = 0
      BY <2>0, <2>6 DEF MustWait, At, Holding, RunInv, TypesInv
    <3>2. xPendedTicks = 0
      BY <3>1 DEF HoldInv
    <3>. QED  BY <2>6, <3>1, <3>2 DEF MustWait, At, Goto, ClockInv, TypesInv, kernel
  <2>7. CASE vTaskSuspendAll(t) \/ prvLockQueue(t)
    BY <2>7 DEF vTaskSuspendAll, prvLockQueue, At, Goto, ClockInv, TypesInv, kernel, timing
  <2>8. CASE PlaceOnEventList(t)
    BY <2>8 DEF PlaceOnEventList, At, Goto, ClockInv, TypesInv, kernel, timing
  <2>9. CASE xTaskCheckForTimeOut(t)
    BY <2>9 DEF xTaskCheckForTimeOut, TimeLeft, At, Goto, ClockInv, TypesInv, kernel
  <2>10. CASE TestQueue(t)
    BY <2>10 DEF TestQueue, At, Goto, ClockInv, TypesInv, kernel, timing
  <2>11. CASE prvAddCurrentTaskToDelayedList(t)
    BY <2>11 DEF prvAddCurrentTaskToDelayedList, At, Goto, ClockInv, TypesInv, timing
  <2>12. CASE UnlockTx(t)
    BY <1>2, <2>12, WokenFacts DEF UnlockTx, PerItem, TypesInv, queueUNLOCKED
  <2>13. CASE UnlockRx(t)
    BY <1>2, <2>13, WokenFacts DEF UnlockRx, PerItem, TypesInv, queueUNLOCKED
  <2>14. CASE xTaskResumeAll(t)
    <3>1. PICK why \in {"placed", "retry", "timeout"}, l \in {"try", "yield", "full", "recheck"} :
            /\ pc[t] = why /\ pc' = [pc EXCEPT ![t] = l]
            /\ l \in {"full", "recheck"} => why = "timeout"
      BY <2>14 DEF xTaskResumeAll, Goto, At
    <3>2. /\ xPendedTicks' = 0 /\ UNCHANGED <<xTicksToWait, left>>
          /\ \A u \in Tasks : elapsed'[u] =
              IF elapsed[u] = NotSet \/ xTicksToWait[u] = portMAX_DELAY THEN elapsed[u]
              ELSE IF elapsed[u] + xPendedTicks > xTicksToWait[u] THEN xTicksToWait[u]
              ELSE elapsed[u] + xPendedTicks
      BY <2>14 DEF xTaskResumeAll, Pass
    <3>3. \A u \in Tasks : wakeIn'[u] =
              IF u \in xPendingReadyList THEN 0
              ELSE IF wakeIn[u] = portMAX_DELAY THEN portMAX_DELAY
              ELSE IF wakeIn[u] > xPendedTicks THEN wakeIn[u] - xPendedTicks ELSE 0
      BY <2>14, WakeStep
    <3>. SUFFICES ASSUME NEW u \in Tasks PROVE ClockInv!(u)'
      BY DEF ClockInv
    <3>4. /\ pc'[u] = "out" => elapsed'[u] = NotSet /\ xTicksToWait'[u] = 0
          /\ elapsed'[u] = NotSet => left'[u] = 0 /\ pc'[u] \in {"out", "try"}
          /\ elapsed'[u] <= xTicksToWait'[u]
      BY <3>1, <3>2 DEF ClockInv, TypesInv
    <3>5. elapsed'[u] # NotSet =>
         left'[u] = IF xTicksToWait'[u] = portMAX_DELAY THEN portMAX_DELAY
                   ELSE IF xTicksToWait'[u] - elapsed'[u] > xPendedTicks'
                   THEN xTicksToWait'[u] - elapsed'[u] - xPendedTicks' ELSE 0
      BY <3>2 DEF ClockInv, TypesInv
    <3>6. /\ pc'[u] \in {"test", "place", "delay"} => elapsed'[u] = 0 /\ xTicksToWait'[u] # 0
          /\ pc'[u] \in {"timeout", "full", "recheck"} => xTicksToWait'[u] = 0
      BY <3>1, <3>2, <2>14 DEF ClockInv, TypesInv, xTaskResumeAll, HoldInv, Holds, Holding, At
    <3>7. wakeIn'[u] \in 1..(portMAX_DELAY - 1) /\ pc'[u] # "out" =>
            /\ elapsed'[u] # NotSet /\ xTicksToWait'[u] # portMAX_DELAY
            /\ wakeIn'[u] = xTicksToWait'[u] - elapsed'[u]
      <4>1. /\ elapsed[u] \in -1..portMAX_DELAY /\ xTicksToWait[u] \in 0..portMAX_DELAY
            /\ left[u] \in 0..portMAX_DELAY /\ wakeIn[u] \in 0..portMAX_DELAY
            /\ xPendedTicks \in Nat
        BY DEF TypesInv
      <4>2. ClockInv!(u)
        BY DEF ClockInv
      <4>3. pc'[u] # "out" => pc[u] # "out"
        BY <3>1 DEF TypesInv
      <4>. QED  BY <3>2, <3>3, <4>1, <4>2, <4>3
    <3>. QED  BY <3>4, <3>5, <3>6, <3>7
  <2>15. CASE portYIELD_WITHIN_API(t)
    BY <2>15 DEF portYIELD_WITHIN_API, At, Goto, ClockInv, TypesInv, kernel, timing
  <2>16. CASE TimedOut(t) /\ pc' = [pc EXCEPT ![t] = "try"] /\ UNCHANGED <<kernel, timing>>
    BY <2>16 DEF TimedOut, At, ClockInv, TypesInv, kernel, timing
  <2>17. TimedOut(t) \/ Fail(t) => (Return(t) /\ UNCHANGED kernel)
            \/ (TimedOut(t) /\ pc' = [pc EXCEPT ![t] = "try"] /\ UNCHANGED <<kernel, timing>>)
    BY DEF TimedOut, Fail, Goto
  <2>. QED  BY <1>4, <2>1, <2>2, <2>3, <2>4, <2>5, <2>6, <2>7, <2>8, <2>9, <2>10, <2>11, <2>12,
               <2>13, <2>14, <2>15, <2>16, <2>17 DEF Move, Step
<1>. QED  BY <1>3, <1>4 DEF Next, Move
-----------------------------------------------------------------------------
(* A task in an event list or pending is in a call and has left the ready  *)
(* list, or is about to, and the lists are the ones of its call.           *)
BlockedInv ==
  /\ AtSend \cap AtReceive = {} /\ xPendingReadyList \cap InLists = {}
  /\ \A t \in Tasks :
       /\ wakeIn[t] > 0 /\ pc[t] # "out" => t \in InLists \cup xPendingReadyList
       /\ t \in InLists => (wakeIn[t] > 0 \/ pc[t] = "delay") /\ pc[t] # "out"
       /\ t \in xPendingReadyList => wakeIn[t] > 0 /\ pc[t] # "out"
       /\ pc[t] = "delay" => t \in InLists
       /\ t \in AtSend => Sends(t)
       /\ t \in AtReceive => ~Sends(t)

LEMMA InListsDef == InLists = AtSend \cup AtReceive /\ InLists' = AtSend' \cup AtReceive'
  BY DEF InLists, AtSend, AtReceive

(* Tasks that are woken, while no one blocks itself.                       *)
LEMMA WokenStep ==
  ASSUME ListsInv, TypesInv, HoldInv, RunInv, BlockedInv,
         NEW T \in SUBSET InLists, LeaveEventLists(T), MakeReady(T),
         T = {} \/ \A u \in Tasks : pc[u] # "delay",
         \A u \in Tasks : \/ pc'[u] = pc[u] /\ op'[u] = op[u]
                          \/ wakeIn[u] = 0 /\ pc[u] # "delay" /\ pc'[u] # "delay"
  PROVE  BlockedInv'
<1>1. AtSend' = AtSend \ T /\ AtReceive' = AtReceive \ T /\ InLists' = InLists \ T
  BY LeaveFacts, InListsDef
<1>2. AtSend \cup AtReceive = InLists /\ InLists \subseteq Tasks
  BY InListsDef, FirstFacts DEF ListsInv, AtSend, AtReceive
<1>3. \A u \in Tasks : wakeIn[u] \in Nat
  BY DEF TypesInv
<1>4. CASE uxSchedulerSuspended
  <2>1. wakeIn' = wakeIn /\ xPendingReadyList' = xPendingReadyList \cup T
    BY <1>4 DEF MakeReady
  <2>. QED  BY <1>1, <1>2, <1>3, <2>1 DEF BlockedInv, Sends
<1>5. CASE ~uxSchedulerSuspended
  <2>1. /\ \A u \in Tasks : wakeIn'[u] = IF u \in T THEN 0 ELSE wakeIn[u]
        /\ xPendingReadyList' = xPendingReadyList
    BY <1>5 DEF MakeReady, ReadyOf
  <2>. QED  BY <1>1, <1>2, <1>3, <2>1 DEF BlockedInv, Sends
<1>. QED  BY <1>4, <1>5

(* Tasks whose time is over, and those that were pending, go on.           *)
LEMMA TimeStep ==
  ASSUME ListsInv, TypesInv, BlockedInv,
         NEW T, LeaveEventLists(T), xPendingReadyList' = {}, op' = op,
         \A u \in Tasks : wakeIn'[u] > 0 <=> wakeIn[u] > 0 /\ u \notin T \cup xPendingReadyList,
         \A u \in Tasks : pc[u] # "delay",
         \A u \in Tasks : pc'[u] # "delay" /\ (pc'[u] = "out" <=> pc[u] = "out")
  PROVE  BlockedInv'
<1>1. AtSend' = AtSend \ T /\ AtReceive' = AtReceive \ T /\ InLists' = InLists \ T
  BY LeaveFacts, InListsDef
<1>2. AtSend \cup AtReceive = InLists
  BY InListsDef
<1>. QED  BY <1>1, <1>2 DEF BlockedInv, Sends

(* The current task goes on, and no task is woken or blocked.              *)
LEMMA QuietStep ==
  ASSUME BlockedInv, RunInv, TypesInv, UNCHANGED <<lists, wakeIn, xPendingReadyList>>,
         \A u \in Tasks : \/ pc'[u] = pc[u] /\ op'[u] = op[u]
                          \/ wakeIn[u] = 0 /\ pc[u] # "delay" /\ pc'[u] # "delay"
                          \/ /\ pc[u] \notin {"out", "delay"} /\ pc'[u] \notin {"out", "delay"}
                             /\ op'[u] = op[u]
  PROVE  BlockedInv'
<1>1. AtSend' = AtSend /\ AtReceive' = AtReceive /\ InLists' = InLists
  BY InListsDef DEF AtSend, AtReceive, lists
<1>2. AtSend \cup AtReceive = InLists
  BY InListsDef
<1>3. \A u \in Tasks : wakeIn[u] \in Nat
  BY DEF TypesInv
<1>. QED  BY <1>1, <1>2, <1>3 DEF BlockedInv, Sends

LEMMA FirstIn ==
  ASSUME ListsInv, NEW n \in Nat
  PROVE  /\ First(xTasksWaitingToSend, n) \in SUBSET InLists
         /\ First(xTasksWaitingToReceive, n) \in SUBSET InLists
  BY FirstFacts DEF ListsInv, InLists

LEMMA BlockedStep ==
  ASSUME ListsInv, TypesInv, HoldInv, RunInv, ClockInv, BlockedInv, [Next]_vars
  PROVE  BlockedInv'
<1>1. CASE UNCHANGED vars
  BY <1>1, QuietStep DEF vars, kernel
<1>. SUFFICES ASSUME Next PROVE BlockedInv'
  BY <1>1
<1>2. CASE Interrupt
  <2>0. UNCHANGED <<pc, op>>
    BY <1>2 DEF Interrupt, xTaskIncrementTick, QuietHook, vTaskSwitchContext,
       xQueueGenericSendFromISR, xQueueReceiveFromISR
  <2>1. CASE xTaskIncrementTick
    <3>1. CASE uxSchedulerSuspended
      BY <2>0, <2>1, <3>1, QuietStep DEF xTaskIncrementTick
    <3>2. CASE ~uxSchedulerSuspended
      <4>1. xPendingReadyList = {} /\ xPendingReadyList' = {}
        BY <2>1, <3>2 DEF xTaskIncrementTick, HoldInv
      <4>2. \A u \in Tasks : pc[u] # "delay"
        BY <3>2 DEF HoldInv, Holds, Holding
      <4>3. LeaveEventLists(Expired(wakeIn, 1))
        BY <2>1, <3>2 DEF xTaskIncrementTick
      <4>4. \A u \in Tasks : wakeIn'[u] > 0 <=> wakeIn[u] > 0 /\ u \notin Expired(wakeIn, 1)
        BY <2>1, <3>2, TickStep, MaxFacts DEF Expired, TypesInv
      <4>. QED  BY <2>0, <4>1, <4>2, <4>3, <4>4, TimeStep
    <3>. QED  BY <3>1, <3>2
  <2>2. CASE QuietHook
    BY <2>0, <2>2, QuietStep DEF QuietHook, kernel
  <2>3. CASE vTaskSwitchContext
    BY <2>0, <2>3, QuietStep DEF vTaskSwitchContext, kernel
  <2>4. CASE xQueueGenericSendFromISR
    <3>1. PICK T \in SUBSET InLists :
            LeaveEventLists(T) /\ MakeReady(T) /\ (T = {} \/ cTxLock = queueUNLOCKED)
      BY <2>4, FirstIn DEF xQueueGenericSendFromISR, Unlocked
    <3>2. T = {} \/ \A u \in Tasks : pc[u] # "delay"
      BY <3>1 DEF HoldInv, Locked
    <3>. QED  BY <2>0, <3>1, <3>2, WokenStep
  <2>5. CASE xQueueReceiveFromISR
    <3>1. PICK T \in SUBSET InLists :
            LeaveEventLists(T) /\ MakeReady(T) /\ (T = {} \/ cRxLock = queueUNLOCKED)
      BY <2>5, FirstIn DEF xQueueReceiveFromISR, Unlocked
    <3>2. T = {} \/ \A u \in Tasks : pc[u] # "delay"
      BY <3>1 DEF HoldInv, Locked
    <3>. QED  BY <2>0, <3>1, <3>2, WokenStep
  <2>. QED  BY <1>2, <2>1, <2>2, <2>3, <2>4, <2>5 DEF Interrupt
<1>3. ASSUME NEW t \in Tasks, Move(t)
      PROVE  BlockedInv'
  <2>0. ASSUME t = pxCurrentTCB, pc[t] # "delay"
        PROVE  \A u \in Tasks : pc[u] # "delay"
    BY <2>0 DEF HoldInv, Holds, Holding
  <2>1. CASE Call(t)
    <3>1. wakeIn[t] = 0 /\ pc[t] # "delay"
      BY <2>1 DEF Call, At, RunInv, TypesInv
    <3>2. UNCHANGED <<lists, wakeIn, xPendingReadyList>> /\ pc' = [pc EXCEPT ![t] = "try"]
          /\ \A u \in Tasks : u # t => op'[u] = op[u]
      BY <2>1 DEF Call, Goto, kernel, TypesInv
    <3>. QED  BY <3>1, <3>2, QuietStep DEF TypesInv
  <2>2. CASE xQueueReset(t)
    <3>. DEFINE T == First(xTasksWaitingToSend, 1)
    <3>1. T \in SUBSET InLists /\ LeaveEventLists(T) /\ MakeReady(T) /\ UNCHANGED <<pc, op>>
      BY <2>2, FirstIn DEF xQueueReset
    <3>2. \A u \in Tasks : pc[u] # "delay"
      BY <2>0, <2>2 DEF xQueueReset, At
    <3>. HIDE DEF T
    <3>. QED  BY <3>1, <3>2, WokenStep
  <2>3. CASE Sleep(t)
    <3>1. wakeIn[t] = 0 /\ pc[t] = "out"
      BY <2>3 DEF Sleep, At, RunInv, TypesInv
    <3>2. wakeIn' = [wakeIn EXCEPT ![t] = 1] /\ UNCHANGED <<lists, xPendingReadyList, pc, op>>
      BY <2>3 DEF Sleep
    <3>3. UNCHANGED <<AtSend, AtReceive, InLists>> /\ t \notin InLists \cup xPendingReadyList
      BY <3>1, <3>2 DEF AtSend, AtReceive, lists, InLists, BlockedInv
    <3>. QED  BY <3>1, <3>2, <3>3 DEF BlockedInv, Sends, TypesInv
  <2>4. CASE Succeed(t)
    <3>. DEFINE T == Woken(t)
    <3>1. T \in SUBSET InLists /\ LeaveEventLists(T) /\ MakeReady(T)
      BY <2>4, FirstIn DEF Succeed, Woken
    <3>2. \A u \in Tasks : pc[u] # "delay"
      BY <2>0, <2>4 DEF Succeed, At
    <3>3. wakeIn[t] = 0
      BY <2>4 DEF Succeed, At, RunInv, TypesInv
    <3>4. pc' = [pc EXCEPT ![t] = "out"] /\ op' = [op EXCEPT ![t] = "none"]
      BY <2>4 DEF Succeed, Return, Goto
    <3>. HIDE DEF T
    <3>5. \A u \in Tasks : \/ pc'[u] = pc[u] /\ op'[u] = op[u]
                           \/ wakeIn[u] = 0 /\ pc[u] # "delay" /\ pc'[u] # "delay"
      BY <3>2, <3>3, <3>4 DEF TypesInv
    <3>. QED  BY <3>1, <3>2, <3>5, WokenStep
  <2>5. CASE Return(t) /\ At(t, pc[t]) /\ pc[t] \in {"try", "full", "recheck"}
             /\ UNCHANGED <<lists, kernel>>
    <3>1. wakeIn[t] = 0
      BY <2>5 DEF At, RunInv, TypesInv
    <3>2. pc' = [pc EXCEPT ![t] = "out"] /\ op' = [op EXCEPT ![t] = "none"]
      BY <2>5 DEF Return, Goto
    <3>. QED  BY <2>5, <3>1, <3>2, QuietStep DEF TypesInv, kernel
  <2>6. CASE /\ pc[t] \notin {"out", "delay"} /\ UNCHANGED <<lists, wakeIn, xPendingReadyList, op>>
             /\ \E l \in Labels \ {"out", "delay"} : Goto(t, l)
    <3>1. PICK l \in Labels \ {"out", "delay"} : pc' = [pc EXCEPT ![t] = l]
      BY <2>6 DEF Goto
    <3>. QED  BY <2>6, <3>1, QuietStep DEF TypesInv
  <2>7. CASE Step(t) /\ ~Succeed(t) /\ ~PlaceOnEventList(t) /\ ~prvAddCurrentTaskToDelayedList(t)
             /\ ~UnlockTx(t) /\ ~UnlockRx(t) /\ ~xTaskResumeAll(t)
    <3>1. CASE Fail(t)
      BY <2>5, <3>1 DEF Fail, At
    <3>2. CASE TimedOut(t)
      BY <2>5, <2>6, <3>2 DEF TimedOut, At, Labels, kernel
    <3>3. CASE MustWait(t) \/ TestQueue(t)
      BY <2>6, <3>3 DEF MustWait, TestQueue, At, Labels, kernel
    <3>4. CASE vTaskSuspendAll(t) \/ prvLockQueue(t)
      BY <2>6, <3>4 DEF vTaskSuspendAll, prvLockQueue, At, Labels, kernel
    <3>5. CASE xTaskCheckForTimeOut(t) \/ portYIELD_WITHIN_API(t)
      BY <2>6, <3>5 DEF xTaskCheckForTimeOut, portYIELD_WITHIN_API, At, Labels, kernel
    <3>. QED  BY <2>7, <3>1, <3>2, <3>3, <3>4, <3>5 DEF Step
  <2>8. CASE PlaceOnEventList(t)
    <3>1. pc' = [pc EXCEPT ![t] = "delay"] /\ pc[t] = "place" /\ wakeIn[t] = 0
          /\ UNCHANGED <<wakeIn, xPendingReadyList, op>>
      BY <2>8 DEF PlaceOnEventList, At, Goto, kernel, RunInv, TypesInv
    <3>2. t \notin InLists \cup xPendingReadyList
      BY <3>1 DEF BlockedInv
    <3>3. t \notin AtSend /\ t \notin AtReceive
      BY <3>2, InListsDef
    <3>4. IF Sends(t) THEN AtSend' = AtSend \cup {t} /\ AtReceive' = AtReceive
          ELSE AtSend' = AtSend /\ AtReceive' = AtReceive \cup {t}
      BY <2>8, <3>3, InsertFacts DEF PlaceOnEventList, ListsInv, AtSend, AtReceive
    <3>5. InLists' = InLists \cup {t}
      BY <3>4, InListsDef
    <3>6. \A u \in Tasks : wakeIn[u] \in Nat /\ pc'[u] = IF u = t THEN "delay" ELSE pc[u]
      BY <3>1 DEF TypesInv
    <3>. QED  BY <3>1, <3>2, <3>3, <3>4, <3>5, <3>6 DEF BlockedInv, Sends
  <2>9. CASE prvAddCurrentTaskToDelayedList(t)
    <3>1. /\ pc' = [pc EXCEPT ![t] = "placed"] /\ pc[t] = "delay"
          /\ wakeIn' = [wakeIn EXCEPT ![t] = xTicksToWait[t]]
          /\ UNCHANGED <<lists, xPendingReadyList, op>>
      BY <2>9 DEF prvAddCurrentTaskToDelayedList, At, Goto
    <3>2. xTicksToWait[t] > 0
      BY <3>1 DEF ClockInv, TypesInv
    <3>3. UNCHANGED <<AtSend, AtReceive, InLists>> /\ t \in InLists
      BY <3>1 DEF AtSend, AtReceive, lists, InLists, BlockedInv
    <3>4. \A u \in Tasks : /\ pc'[u] = IF u = t THEN "placed" ELSE pc[u]
                           /\ wakeIn'[u] = IF u = t THEN xTicksToWait[t] ELSE wakeIn[u]
      BY <3>1 DEF TypesInv
    <3>. QED  BY <3>1, <3>2, <3>3, <3>4 DEF BlockedInv, Sends
  <2>10. CASE UnlockTx(t)
    <3>1. PICK T \in SUBSET InLists : LeaveEventLists(T) /\ MakeReady(T) /\ UNCHANGED <<pc, op>>
      BY <2>10, FirstIn DEF UnlockTx, PerItem, TypesInv, queueUNLOCKED
    <3>2. \A u \in Tasks : pc[u] # "delay"
      BY <2>0, <2>10 DEF UnlockTx, At
    <3>. QED  BY <3>1, <3>2, WokenStep
  <2>11. CASE UnlockRx(t)
    <3>1. PICK T \in SUBSET InLists : LeaveEventLists(T) /\ MakeReady(T) /\ UNCHANGED <<pc, op>>
      BY <2>11, FirstIn DEF UnlockRx, PerItem, TypesInv, queueUNLOCKED
    <3>2. \A u \in Tasks : pc[u] # "delay"
      BY <2>0, <2>11 DEF UnlockRx, At
    <3>. QED  BY <3>1, <3>2, WokenStep
  <2>12. CASE xTaskResumeAll(t)
    <3>. DEFINE T == Expired(PendingReadied, xPendedTicks)
    <3>1. LeaveEventLists(T) /\ xPendingReadyList' = {} /\ op' = op
      BY <2>12 DEF xTaskResumeAll
    <3>2. \A u \in Tasks : wakeIn'[u] > 0 <=> wakeIn[u] > 0 /\ u \notin T \cup xPendingReadyList
      BY <2>12, WakeStep, MaxFacts DEF Expired, TypesInv, PendingReadied, ReadyOf
    <3>3. \A u \in Tasks : pc[u] # "delay"
      BY <2>0, <2>12 DEF xTaskResumeAll, At
    <3>4. PICK l \in {"try", "yield", "full", "recheck"} : pc' = [pc EXCEPT ![t] = l]
      BY <2>12 DEF xTaskResumeAll, Goto
    <3>5. pc[t] # "out"
      BY <2>12 DEF xTaskResumeAll, At
    <3>6. \A u \in Tasks : pc'[u] # "delay" /\ (pc'[u] = "out" <=> pc[u] = "out")
      BY <3>3, <3>4, <3>5 DEF TypesInv
    <3>. HIDE DEF T
    <3>. QED  BY <3>1, <3>2, <3>3, <3>6, TimeStep
  <2>. QED  BY <1>3, <2>1, <2>2, <2>3, <2>4, <2>7, <2>8, <2>9, <2>10, <2>11, <2>12 DEF Move, Step
<1>. QED  BY <1>2, <1>3 DEF Next, Move
-----------------------------------------------------------------------------
(* The inductive invariant of the theorems on blocked tasks and their     *)
(* time. Each part needs those before it; only the order of the lists is  *)
(* for the wake-ups below.                                                *)
IInv == ListsInv /\ TypesInv /\ HoldInv /\ RunInv /\ ClockInv /\ BlockedInv

(* It holds at the start, every step keeps it, and so it always holds.    *)
LEMMA InvInit == Init => IInv
<1>. SUFFICES ASSUME Init PROVE IInv
  OBVIOUS
<1>. USE MaxFacts DEF Init, queueUNLOCKED, NotSet
<1>1. AtSend = {} /\ AtReceive = {} /\ InLists = {}
  BY DEF AtSend, AtReceive, InLists, ToSet
<1>2. ListsInv
  BY DEF ListsInv, IsEventList, Ordered
<1>3. TypesInv
  <2>1. use.uxLength \in Nat /\ 0 \in 0..use.uxLength
    BY UseFacts
  <2>2. pxCurrentTCB \in Tasks
    OBVIOUS
  <2>3. uxSchedulerSuspended \in BOOLEAN /\ xYieldPending \in BOOLEAN
    BY Zenon
  <2>. QED  BY <2>1, <2>2, <2>3 DEF TypesInv, Labels
<1>4. HoldInv
  BY DEF HoldInv, Holds, Holding, Locked
<1>5. RunInv /\ ClockInv
  BY DEF RunInv, ClockInv
<1>6. BlockedInv
  BY <1>1 DEF BlockedInv
<1>. QED  BY <1>2, <1>3, <1>4, <1>5, <1>6 DEF IInv

LEMMA InvStep == IInv /\ [Next]_vars => IInv'
<1>. SUFFICES ASSUME IInv, [Next]_vars PROVE IInv'
  OBVIOUS
<1>. USE DEF IInv
<1>1. \A t \in Tasks : pc[t] = "place" => t \notin AtSend \cup AtReceive
  BY InListsDef DEF BlockedInv, RunInv, TypesInv
<1>. QED  BY <1>1, ListsStep, TypesStep, HoldStep, RunStep, ClockStep, BlockedStep

LEMMA Invariance == Spec => []IInv
  BY InvInit, InvStep, PTL DEF Spec

(* Every variable keeps its type; a lock never overflows its bound.       *)
LEMMA IInvTypes == IInv => TypeOK
  BY DEF IInv, ListsInv, IsEventList, TypesInv, TypeOK

(* A task that blocks is in one place of the event list of its side, or   *)
(* in the pending list, never both, whichever of the scheduler's          *)
(* suspension, an interrupt's wake-up and a time out come in between: no  *)
(* task is forgotten.                                                     *)
THEOREM BlockedTasksAreListed == Spec => []BlockedAreListed
<1>1. IInv => BlockedAreListed
  <2>. SUFFICES ASSUME IInv PROVE BlockedAreListed
    OBVIOUS
  <2>. DEFINE both == xTasksWaitingToSend \o xTasksWaitingToReceive
  <2>1. IsEventList(both)
    BY ConcatFacts DEF IInv, ListsInv, BlockedInv, AtSend, AtReceive
  <2>. HIDE DEF both
  <2>2. IsInjective(both)
    BY <2>1 DEF IsEventList, IsInjective
  <2>3. \A t \in InLists : t \in Tasks
    BY FirstFacts, InListsDef DEF IInv, ListsInv, AtSend, AtReceive
  <2>. QED  BY <2>2, <2>3 DEF BlockedAreListed, IInv, BlockedInv, HoldInv, both
<1>. QED  BY <1>1, Invariance, PTL

(* A blocked call waits for what is left of the time it was given: after  *)
(* a wake-up for nothing xTaskCheckForTimeOut sets it to the rest, the    *)
(* ticks that pend counted.                                               *)
THEOREM WaitsAreForTheRest == Spec => []WaitsForTheRest
<1>1. IInv => WaitsForTheRest
  <2>. SUFFICES ASSUME IInv, NEW t \in Tasks, pc[t] # "out", wakeIn[t] \in 1..(portMAX_DELAY - 1)
                PROVE  left[t] = IF wakeIn[t] > xPendedTicks THEN wakeIn[t] - xPendedTicks ELSE 0
    BY DEF WaitsForTheRest
  <2>1. ClockInv!(t)
    BY DEF IInv, ClockInv
  <2>. QED  BY <2>1
<1>. QED  BY <1>1, Invariance, PTL

(* A call gives up, with errQUEUE_FULL or errQUEUE_EMPTY, only once all   *)
(* the ticks it was given have passed.                                    *)
THEOREM FailuresAreInTime == Spec => FailsOnlyInTime
<1>1. ASSUME IInv, NEW t \in Tasks, GivesUp(t)
      PROVE  left[t] = 0
  <2>1. /\ elapsed[t] \in -1..portMAX_DELAY /\ xTicksToWait[t] = 0 /\ ClockInv!(t)
        /\ xPendedTicks \in Nat
    BY <1>1 DEF IInv, GivesUp, Fail, TimedOut, At, Goto, ClockInv, TypesInv, NotSet
  <2>. QED  BY <2>1, MaxFacts DEF NotSet
<1>2. IInv /\ [Next]_vars => [\A t \in Tasks : GivesUp(t) => left[t] = 0]_vars
  BY <1>1
<1>. QED  BY <1>2, Invariance, PTL DEF Spec, FailsOnlyInTime
-----------------------------------------------------------------------------
(* A task that found the queue full has still room for no one but those    *)
(* the lock counts; likewise one that found it empty.                      *)
PlaceInv ==
  \A t \in Tasks : pc[t] = "place" =>
    IF Sends(t) THEN use.uxLength - messageCount <= Counted(cRxLock)
    ELSE messageCount <= Counted(cTxLock)

(* The calls that wait for a message, and those that wait for room.       *)
Emptying == {"receive", "peek"}
Filling == {"send"}

(* Those on their way of a priority of at least p.                         *)
ComingFrom(ops, p) == {t \in Coming(ops) : uxPriority[t] >= p}

(* The wake-ups there are come in the order of priority: for each task in  *)
(* an event list, as many as there are messages, or free slots, are on     *)
(* their way that go before it, or are counted by the lock.                *)
ReceiversServed ==
  \A u \in AtReceive :
    messageCount <= Cardinality(ComingFrom(Emptying, uxPriority[u])) + Counted(cTxLock)

(* The same for the senders and the free slots.                           *)
SendersServed ==
  \A u \in AtSend :
    use.uxLength - messageCount <= Cardinality(ComingFrom(Filling, uxPriority[u])) + Counted(cRxLock)

LEMMA ComingTypes ==
  ASSUME NEW ops, NEW p
  PROVE  /\ IsFiniteSet(ComingFrom(ops, p)) /\ Cardinality(ComingFrom(ops, p)) \in Nat
         /\ IsFiniteSet(ComingFrom(ops, p)') /\ Cardinality(ComingFrom(ops, p)') \in Nat
<1>1. IsFiniteSet(Tasks) /\ ComingFrom(ops, p) \in SUBSET Tasks /\ ComingFrom(ops, p)' \in SUBSET Tasks
  BY QueueAssumption DEF Coming, ComingFrom
<1>. QED  BY <1>1, FS_Subset, FS_CardinalityType

(* A set that gains some and loses at most one.                            *)
LEMMA GainAndLoss ==
  ASSUME NEW X, NEW Y, IsFiniteSet(X), IsFiniteSet(Y), NEW W, W \subseteq Y, W \cap X = {}, NEW t,
         X \ {t} \subseteq Y
  PROVE  /\ Cardinality(W) \in Nat
         /\ Cardinality(Y) >= Cardinality(X) + Cardinality(W) - 1
         /\ X \subseteq Y => Cardinality(Y) >= Cardinality(X) + Cardinality(W)
<1>1. IsFiniteSet(W) /\ Cardinality(W) \in Nat /\ Cardinality(X) \in Nat /\ Cardinality(Y) \in Nat
  BY W \in SUBSET Y, FS_Subset, FS_CardinalityType
<1>2. ASSUME NEW Z \in SUBSET Y, IsFiniteSet(Z), Z \cap W = {}
      PROVE  Cardinality(Y) >= Cardinality(Z) + Cardinality(W)
  <2>1. /\ IsFiniteSet(Z \cup W)
        /\ Cardinality(Z \cup W) = Cardinality(Z) + Cardinality(W) - Cardinality(Z \cap W)
    BY <1>1, <1>2, FS_Union
  <2>2. Cardinality(Z \cap W) = 0
    BY <1>2, FS_EmptySet
  <2>3. Cardinality(Z \cup W) <= Cardinality(Y)
    BY FS_Subset, Z \cup W \in SUBSET Y
  <2>4. Cardinality(Z) \in Nat
    BY <1>2, FS_CardinalityType
  <2>. QED  BY <1>1, <2>1, <2>2, <2>3, <2>4
<1>3. /\ IsFiniteSet(X \ {t})
      /\ Cardinality(X \ {t}) = IF t \in X THEN Cardinality(X) - 1 ELSE Cardinality(X)
  BY FS_RemoveElement
<1>4. Cardinality(Y) >= Cardinality(X \ {t}) + Cardinality(W)
  BY <1>2, <1>3, X \ {t} \in SUBSET Y
<1>5. X \subseteq Y => Cardinality(Y) >= Cardinality(X) + Cardinality(W)
  BY <1>2
<1>. QED  BY <1>1, <1>3, <1>4, <1>5

(* Tasks that leave the event lists are on their way, and those that were  *)
(* stay so, but for the one that moves.                                    *)
LEMMA ComingGrows ==
  ASSUME IInv, NEW ops, NEW p, NEW T \in SUBSET InLists, InLists' = InLists \ T,
         \A u \in T : pc[u] # "delay",
         NEW t, t \notin T, \A u \in Tasks \ {t} : pc'[u] = pc[u] /\ op'[u] = op[u],
         NEW W \in SUBSET T, \A u \in W : op[u] \in ops /\ uxPriority[u] >= p
  PROVE  /\ Cardinality(W) \in Nat
         /\ Cardinality(ComingFrom(ops, p)') >= Cardinality(ComingFrom(ops, p)) + Cardinality(W) - 1
         /\ (t \in Coming(ops) => t \in Coming(ops)') =>
              Cardinality(ComingFrom(ops, p)') >= Cardinality(ComingFrom(ops, p)) + Cardinality(W)
<1>1. InLists \subseteq Tasks
  BY InListsDef, FirstFacts DEF IInv, ListsInv, AtSend, AtReceive
<1>2. W \subseteq ComingFrom(ops, p)'
  BY <1>1 DEF Coming, ComingFrom, IInv, BlockedInv, RunInv, TypesInv
<1>3. W \cap ComingFrom(ops, p) = {}
  BY DEF Coming, ComingFrom
<1>4. ComingFrom(ops, p) \ {t} \subseteq ComingFrom(ops, p)'
  BY DEF Coming, ComingFrom
<1>5. (t \in Coming(ops) => t \in Coming(ops)') =>
        ComingFrom(ops, p) \subseteq ComingFrom(ops, p)'
  BY DEF Coming, ComingFrom
<1>. DEFINE X == ComingFrom(ops, p)  Y == ComingFrom(ops, p)'
<1>6. IsFiniteSet(X) /\ IsFiniteSet(Y) /\ W \subseteq Y /\ W \cap X = {} /\ X \ {t} \subseteq Y
  BY <1>2, <1>3, <1>4, ComingTypes
<1>. HIDE DEF X, Y
<1>7. /\ Cardinality(W) \in Nat
      /\ Cardinality(Y) >= Cardinality(X) + Cardinality(W) - 1
      /\ X \subseteq Y => Cardinality(Y) >= Cardinality(X) + Cardinality(W)
  BY <1>6, GainAndLoss
<1>. QED  BY <1>5, <1>7 DEF X, Y

(* The first n of an event list leave it.                                  *)
LEMMA FirstReceiversLeave ==
  ASSUME IInv, NEW n \in Nat, NEW T, T = First(xTasksWaitingToReceive, n), LeaveEventLists(T)
  PROVE  /\ InLists' = InLists \ T /\ AtSend' = AtSend /\ AtReceive' \subseteq AtReceive
         /\ T \in SUBSET InLists /\ \A u \in T : op[u] \in {"receive", "peek"}
         /\ AtReceive' # {} => Cardinality(T) = n
         /\ \A w \in T, u \in AtReceive' : uxPriority[w] >= uxPriority[u]
<1>1. AtSend' = AtSend \ T /\ AtReceive' = AtReceive \ T /\ InLists = AtSend \cup AtReceive
      /\ InLists' = AtSend' \cup AtReceive' /\ AtSend \cap AtReceive = {}
  BY LeaveFacts, InListsDef DEF IInv, BlockedInv
<1>2. \A u \in AtReceive : op[u] \in {"receive", "peek"}
  BY <1>1, FirstFacts DEF IInv, ListsInv, BlockedInv, Sends, TypesInv, HoldInv, AtReceive
<1>3. /\ T \subseteq AtReceive /\ (T = AtReceive \/ Cardinality(T) = n)
      /\ \A w \in T, u \in AtReceive \ T : uxPriority[w] >= uxPriority[u]
  BY FirstFacts DEF IInv, ListsInv, AtReceive
<1>. QED  BY <1>1, <1>2, <1>3

LEMMA FirstSendersLeave ==
  ASSUME IInv, NEW n \in Nat, NEW T, T = First(xTasksWaitingToSend, n), LeaveEventLists(T)
  PROVE  /\ InLists' = InLists \ T /\ AtReceive' = AtReceive /\ AtSend' \subseteq AtSend
         /\ T \in SUBSET InLists /\ \A u \in T : op[u] = "send"
         /\ AtSend' # {} => Cardinality(T) = n
         /\ \A w \in T, u \in AtSend' : uxPriority[w] >= uxPriority[u]
         /\ T = AtSend \/ Cardinality(T) = n
<1>1. AtSend' = AtSend \ T /\ AtReceive' = AtReceive \ T /\ InLists = AtSend \cup AtReceive
      /\ InLists' = AtSend' \cup AtReceive' /\ AtSend \cap AtReceive = {}
  BY LeaveFacts, InListsDef DEF IInv, BlockedInv
<1>2. \A u \in AtSend : op[u] = "send"
  BY <1>1, FirstFacts DEF IInv, ListsInv, BlockedInv, Sends, AtSend
<1>3. /\ T \subseteq AtSend /\ (T = AtSend \/ Cardinality(T) = n)
      /\ \A w \in T, u \in AtSend \ T : uxPriority[w] >= uxPriority[u]
  BY FirstFacts DEF IInv, ListsInv, AtSend
<1>. QED  BY <1>1, <1>2, <1>3

LEMMA ListEmpty ==
  ASSUME NEW list, IsEventList(list)
  PROVE  list # <<>> <=> ToSet(list) # {}
  BY DEF IsEventList, ToSet

LEMMA ListsEmpty ==
  ASSUME IInv, IInv'
  PROVE  /\ xTasksWaitingToReceive # <<>> <=> AtReceive # {}
         /\ xTasksWaitingToSend # <<>> <=> AtSend # {}
         /\ xTasksWaitingToReceive' # <<>> <=> AtReceive' # {}
         /\ xTasksWaitingToSend' # <<>> <=> AtSend' # {}
  BY ListEmpty DEF IInv, ListsInv, AtReceive, AtSend

(* What a step must not do to keep the receivers' wake-ups.                *)
LEMMA ReceiversKept ==
  ASSUME IInv, IInv', ReceiversServed, use' = use,
         NEW T \in SUBSET InLists, InLists' = InLists \ T, \A u \in T : pc[u] # "delay",
         AtReceive' \subseteq AtReceive,
         NEW t, t \notin T, \A u \in Tasks \ {t} : pc'[u] = pc[u] /\ op'[u] = op[u],
         NEW W \in SUBSET T, \A u \in W : op[u] \in Emptying,
         \A w \in W, u \in AtReceive' : uxPriority[w] >= uxPriority[u],
         NEW loss \in {0, 1},
         loss = 0 => (t \in Coming(Emptying) => t \in Coming(Emptying)'),
         AtReceive' # {} =>
           messageCount' - Counted(cTxLock') <= messageCount - Counted(cTxLock) + Cardinality(W) - loss
  PROVE  ReceiversServed'
<1>. SUFFICES ASSUME NEW u \in AtReceive'
              PROVE  messageCount' <= Cardinality(ComingFrom(Emptying, uxPriority[u])') +
                       Counted(cTxLock')
  BY DEF ReceiversServed, Counted
<1>1. /\ messageCount \in Nat /\ messageCount' \in Nat /\ use.uxLength \in Nat
      /\ Counted(cTxLock) \in Nat /\ Counted(cTxLock') \in Nat
  BY UseFacts, MaxFacts DEF IInv, TypesInv, Counted, queueUNLOCKED
<1>2. messageCount <= Cardinality(ComingFrom(Emptying, uxPriority[u])) + Counted(cTxLock)
  BY DEF ReceiversServed
<1>3. /\ Cardinality(ComingFrom(Emptying, uxPriority[u])) \in Nat
      /\ Cardinality(ComingFrom(Emptying, uxPriority[u])') \in Nat
  BY ComingTypes
<1>4. /\ Cardinality(W) \in Nat
      /\ Cardinality(ComingFrom(Emptying, uxPriority[u])') >=
           Cardinality(ComingFrom(Emptying, uxPriority[u])) + Cardinality(W) - 1
      /\ (t \in Coming(Emptying) => t \in Coming(Emptying)') =>
           Cardinality(ComingFrom(Emptying, uxPriority[u])') >=
             Cardinality(ComingFrom(Emptying, uxPriority[u])) + Cardinality(W)
  BY ComingGrows
<1>5. messageCount' - Counted(cTxLock') <= messageCount - Counted(cTxLock) + Cardinality(W) - loss
  OBVIOUS
<1>. DEFINE x == Cardinality(ComingFrom(Emptying, uxPriority[u]))
            y == Cardinality(ComingFrom(Emptying, uxPriority[u])')
<1>6. x \in Nat /\ y \in Nat /\ y >= x + Cardinality(W) - loss /\ Cardinality(W) \in Nat
  BY <1>3, <1>4
<1>7. messageCount <= x + Counted(cTxLock)
  BY <1>2
<1>. HIDE DEF x, y
<1>8. messageCount' <= y + Counted(cTxLock')
  BY <1>1, <1>5, <1>6, <1>7
<1>. QED  BY <1>8 DEF y

LEMMA SendersKept ==
  ASSUME IInv, IInv', SendersServed, use' = use,
         NEW T \in SUBSET InLists, InLists' = InLists \ T, \A u \in T : pc[u] # "delay",
         AtSend' \subseteq AtSend,
         NEW t, t \notin T, \A u \in Tasks \ {t} : pc'[u] = pc[u] /\ op'[u] = op[u],
         NEW W \in SUBSET T, \A u \in W : op[u] \in Filling,
         \A w \in W, u \in AtSend' : uxPriority[w] >= uxPriority[u],
         NEW loss \in {0, 1},
         loss = 0 => (t \in Coming(Filling) => t \in Coming(Filling)'),
         AtSend' # {} =>
           messageCount + Counted(cRxLock) - Cardinality(W) + loss <= messageCount' + Counted(cRxLock')
  PROVE  SendersServed'
<1>. SUFFICES ASSUME NEW u \in AtSend'
              PROVE  use'.uxLength - messageCount' <= Cardinality(ComingFrom(Filling, uxPriority[u])') +
                       Counted(cRxLock')
  BY DEF SendersServed, Counted
<1>1. /\ messageCount \in Nat /\ messageCount' \in Nat /\ use.uxLength \in Nat
      /\ Counted(cRxLock) \in Nat /\ Counted(cRxLock') \in Nat
  BY UseFacts, MaxFacts DEF IInv, TypesInv, Counted, queueUNLOCKED
<1>2. use.uxLength - messageCount <= Cardinality(ComingFrom(Filling, uxPriority[u])) + Counted(cRxLock)
  BY DEF SendersServed
<1>3. /\ Cardinality(ComingFrom(Filling, uxPriority[u])) \in Nat
      /\ Cardinality(ComingFrom(Filling, uxPriority[u])') \in Nat
  BY ComingTypes
<1>4. /\ Cardinality(W) \in Nat
      /\ Cardinality(ComingFrom(Filling, uxPriority[u])') >=
           Cardinality(ComingFrom(Filling, uxPriority[u])) + Cardinality(W) - 1
      /\ (t \in Coming(Filling) => t \in Coming(Filling)') =>
           Cardinality(ComingFrom(Filling, uxPriority[u])') >=
             Cardinality(ComingFrom(Filling, uxPriority[u])) + Cardinality(W)
  BY ComingGrows
<1>5. messageCount + Counted(cRxLock) - Cardinality(W) + loss <= messageCount' + Counted(cRxLock')
  OBVIOUS
<1>. DEFINE x == Cardinality(ComingFrom(Filling, uxPriority[u]))
            y == Cardinality(ComingFrom(Filling, uxPriority[u])')
<1>6. x \in Nat /\ y \in Nat /\ y >= x + Cardinality(W) - loss /\ Cardinality(W) \in Nat
  BY <1>3, <1>4
<1>7. use.uxLength - messageCount <= x + Counted(cRxLock)
  BY <1>2
<1>. HIDE DEF x, y
<1>8. use.uxLength - messageCount' <= y + Counted(cRxLock')
  BY <1>1, <1>5, <1>6, <1>7
<1>. QED  BY <1>8 DEF y
-----------------------------------------------------------------------------
LEMMA PlaceStep ==
  ASSUME IInv, PlaceInv, [Next]_vars
  PROVE  PlaceInv'
<1>1. CASE UNCHANGED vars
  BY <1>1 DEF PlaceInv, Sends, Counted, vars, queue
<1>. SUFFICES ASSUME Next, NEW u \in Tasks, pc'[u] = "place"
              PROVE  IF Sends(u)' THEN use'.uxLength - messageCount' <= Counted(cRxLock')
                     ELSE messageCount' <= Counted(cTxLock')
  BY <1>1 DEF PlaceInv, Counted
<1>2. use' = use /\ use.uxLength \in Nat /\ messageCount \in 0..use.uxLength
      /\ cTxLock \in Int /\ cRxLock \in Int /\ cTxLock >= -1 /\ cRxLock >= -1
  BY UseFacts, MaxFacts DEF Next, IInv, TypesInv, queueUNLOCKED
<1>3. CASE Interrupt
  <2>1. pc' = pc /\ op' = op
    BY <1>3 DEF Interrupt, xTaskIncrementTick, QuietHook, vTaskSwitchContext,
       xQueueGenericSendFromISR, xQueueReceiveFromISR
  <2>2. cTxLock # queueUNLOCKED /\ cRxLock # queueUNLOCKED
    BY <2>1 DEF IInv, HoldInv, Locked
  <2>3. IF Sends(u) THEN use.uxLength - messageCount <= Counted(cRxLock)
        ELSE messageCount <= Counted(cTxLock)
    BY <2>1 DEF PlaceInv
  <2>4. CASE xQueueGenericSendFromISR
    BY <1>2, <2>1, <2>2, <2>3, <2>4 DEF xQueueGenericSendFromISR, Unlocked, Sends, Counted, queueUNLOCKED
  <2>5. CASE xQueueReceiveFromISR
    BY <1>2, <2>1, <2>2, <2>3, <2>5 DEF xQueueReceiveFromISR, Unlocked, Sends, Counted, queueUNLOCKED
  <2>6. CASE UNCHANGED queue
    BY <1>2, <2>1, <2>3, <2>6 DEF queue, Sends, Counted
  <2>. QED  BY <1>3, <2>4, <2>5, <2>6 DEF Interrupt, xTaskIncrementTick, QuietHook, vTaskSwitchContext
<1>4. ASSUME NEW t \in Tasks, Move(t)
      PROVE  TestQueue(t) /\ u = t
  <2>1. t = pxCurrentTCB
    BY <1>4 DEF Move, Call, xQueueReset, Sleep, Step, Succeed, Fail, MustWait, vTaskSuspendAll,
       prvLockQueue, xTaskCheckForTimeOut, TestQueue, PlaceOnEventList,
       prvAddCurrentTaskToDelayedList, UnlockTx, UnlockRx, xTaskResumeAll, portYIELD_WITHIN_API,
       TimedOut, At
  <2>2. \A v \in Tasks : v # t => pc'[v] = pc[v]
    BY <1>4 DEF Move, Call, xQueueReset, Sleep, Step, Succeed, Fail, MustWait, vTaskSuspendAll,
       prvLockQueue, xTaskCheckForTimeOut, TestQueue, PlaceOnEventList, Return,
       prvAddCurrentTaskToDelayedList, UnlockTx, UnlockRx, xTaskResumeAll, portYIELD_WITHIN_API,
       TimedOut, Goto, IInv, TypesInv
  <2>3. \A v \in Tasks : pc[v] = "place" => v = t
    BY <2>1 DEF IInv, HoldInv, Holds, Holding
  <2>4. u = t
    BY <2>2, <2>3
  <2>5. TestQueue(t) \/ pc'[t] # "place"
    BY <1>4 DEF Move, Call, xQueueReset, Sleep, Step, Succeed, Fail, MustWait, vTaskSuspendAll,
       prvLockQueue, xTaskCheckForTimeOut, PlaceOnEventList, Return,
       prvAddCurrentTaskToDelayedList, UnlockTx, UnlockRx, xTaskResumeAll, portYIELD_WITHIN_API,
       TimedOut, At, Goto, IInv, TypesInv
  <2>. QED  BY <2>4, <2>5
<1>5. ASSUME NEW t \in Tasks, TestQueue(t), u = t
      PROVE  IF Sends(u)' THEN use'.uxLength - messageCount' <= Counted(cRxLock')
             ELSE messageCount' <= Counted(cTxLock')
  <2>1. ~Possible(t) /\ UNCHANGED <<queue, op>>
    BY <1>5 DEF TestQueue, StillBlocked, Goto, IInv, TypesInv
  <2>. QED  BY <1>2, <1>5, <2>1 DEF Possible, Sends, queue, Counted
<1>. QED  BY <1>3, <1>4, <1>5 DEF Next, Move
-----------------------------------------------------------------------------
LEMMA NoneGain == Cardinality({}) = 0
  BY FS_EmptySet

LEMMA CountTypes ==
  ASSUME IInv, IInv', use' = use
  PROVE  /\ messageCount \in Nat /\ messageCount' \in Nat /\ use.uxLength \in Nat
         /\ messageCount <= use.uxLength /\ messageCount' <= use.uxLength
         /\ Counted(cTxLock) \in Nat /\ Counted(cTxLock') \in Nat
         /\ Counted(cRxLock) \in Nat /\ Counted(cRxLock') \in Nat
  BY UseFacts, MaxFacts DEF IInv, TypesInv, Counted, queueUNLOCKED

(* A step that adds no message, or no free slot, and takes no task off its *)
(* way.                                                                    *)
LEMMA ReceiversUndisturbed ==
  ASSUME IInv, IInv', ReceiversServed, use' = use,
         NEW T \in SUBSET InLists, InLists' = InLists \ T, \A u \in T : pc[u] # "delay",
         AtReceive' \subseteq AtReceive,
         NEW t, t \notin T, \A u \in Tasks \ {t} : pc'[u] = pc[u] /\ op'[u] = op[u],
         t \in Coming(Emptying) => t \in Coming(Emptying)',
         messageCount' - Counted(cTxLock') <= messageCount - Counted(cTxLock)
  PROVE  ReceiversServed'
<1>1. messageCount' - Counted(cTxLock') <= messageCount - Counted(cTxLock) + Cardinality({}) - 0
  BY NoneGain, CountTypes
<1>. QED  BY <1>1, ReceiversKept

LEMMA SendersUndisturbed ==
  ASSUME IInv, IInv', SendersServed, use' = use,
         NEW T \in SUBSET InLists, InLists' = InLists \ T, \A u \in T : pc[u] # "delay",
         AtSend' \subseteq AtSend,
         NEW t, t \notin T, \A u \in Tasks \ {t} : pc'[u] = pc[u] /\ op'[u] = op[u],
         t \in Coming(Filling) => t \in Coming(Filling)',
         messageCount + Counted(cRxLock) <= messageCount' + Counted(cRxLock')
  PROVE  SendersServed'
<1>1. messageCount + Counted(cRxLock) - Cardinality({}) + 0 <= messageCount' + Counted(cRxLock')
  BY NoneGain, CountTypes
<1>. QED  BY <1>1, SendersKept

(* With no message, or no free slot, there is nothing to be woken for.     *)
LEMMA NothingThere ==
  ASSUME IInv, IInv', use' = use
  PROVE  /\ messageCount' = 0 => ReceiversServed'
         /\ messageCount' = use.uxLength => SendersServed'
<1>1. /\ messageCount' \in Nat /\ use.uxLength \in Nat
      /\ Counted(cTxLock') \in Nat /\ Counted(cRxLock') \in Nat
  BY CountTypes
<1>2. ASSUME messageCount' = 0, NEW u \in AtReceive'
      PROVE  messageCount' <= Cardinality(ComingFrom(Emptying, uxPriority[u])') + Counted(cTxLock')
  <2>1. Cardinality(ComingFrom(Emptying, uxPriority[u])') \in Nat
    BY ComingTypes
  <2>. QED  BY <1>1, <1>2, <2>1
<1>3. ASSUME messageCount' = use.uxLength, NEW u \in AtSend'
      PROVE  use'.uxLength - messageCount' <=
               Cardinality(ComingFrom(Filling, uxPriority[u])') + Counted(cRxLock')
  <2>1. Cardinality(ComingFrom(Filling, uxPriority[u])') \in Nat
    BY ComingTypes
  <2>. QED  BY <1>1, <1>3, <2>1
<1>. QED  BY <1>2, <1>3 DEF ReceiversServed, SendersServed, Counted

(* The steps that leave the event lists, the messages and the locks alone. *)
LEMMA CallGoesOn ==
  ASSUME IInv, IInv', ReceiversServed, use' = use, UNCHANGED <<queue, lists>>,
         NEW t, \A u \in Tasks \ {t} : pc'[u] = pc[u] /\ op'[u] = op[u]
  PROVE  /\ (t \in Coming(Emptying) => t \in Coming(Emptying)') => ReceiversServed'
         /\ SendersServed /\ (t \in Coming(Filling) => t \in Coming(Filling)') => SendersServed'
<1>1. AtSend' = AtSend /\ AtReceive' = AtReceive /\ InLists' = InLists
      /\ messageCount' = messageCount /\ cTxLock' = cTxLock /\ cRxLock' = cRxLock
  BY DEF AtSend, AtReceive, InLists, lists, queue
<1>3. /\ messageCount' - Counted(cTxLock') <= messageCount - Counted(cTxLock)
      /\ messageCount + Counted(cRxLock) <= messageCount' + Counted(cRxLock')
  BY <1>1, CountTypes
<1>. DEFINE T == {}
<1>4. T \in SUBSET InLists /\ InLists' = InLists \ T /\ \A u \in T : pc[u] # "delay"
  BY <1>1
<1>5. t \notin T
  OBVIOUS
<1>. HIDE DEF T
<1>6. (t \in Coming(Emptying) => t \in Coming(Emptying)') => ReceiversServed'
  BY <1>1, <1>3, <1>4, <1>5, ReceiversUndisturbed
<1>7. SendersServed /\ (t \in Coming(Filling) => t \in Coming(Filling)') => SendersServed'
  BY <1>1, <1>3, <1>4, <1>5, SendersUndisturbed
<1>. QED  BY <1>6, <1>7
-----------------------------------------------------------------------------
(* Where a reset is used, at most one task sends. xQueueGenericReset      *)
(* frees all slots but wakes one sender only (queue.c:295); with two of   *)
(* them blocked the other stays so at a queue with room, and the theorems *)
(* on senders would be false.                                             *)
SingleSenderIfReset ==
  \A u \in Uses : (\E t \in Tasks : "reset" \in u.calls[t]) =>
    \A s, t \in Tasks : "send" \in u.calls[s] /\ "send" \in u.calls[t] => s = t

(* A task is in a call that the use gives it.                             *)
CallsInv == \A t \in Tasks : op[t] # "none" => op[t] \in Calls[t]

LEMMA CallsStep ==
  ASSUME IInv, CallsInv, [Next]_vars
  PROVE  CallsInv'
<1>1. CASE UNCHANGED vars
  BY <1>1 DEF CallsInv, Calls, vars
<1>. SUFFICES ASSUME Next PROVE CallsInv'
  BY <1>1
<1>2. Calls' = Calls
  BY DEF Next, Calls
<1>3. CASE op' = op
  BY <1>2, <1>3 DEF CallsInv
<1>4. ASSUME NEW t \in Tasks, Return(t)
      PROVE  CallsInv'
  BY <1>2, <1>4 DEF Return, CallsInv, IInv, TypesInv
<1>5. ASSUME NEW t \in Tasks, Call(t)
      PROVE  CallsInv'
  BY <1>2, <1>5 DEF Call, CallsInv, IInv, TypesInv
<1>6. CASE Interrupt
  BY <1>3, <1>6 DEF Interrupt, xTaskIncrementTick, QuietHook, vTaskSwitchContext,
       xQueueGenericSendFromISR, xQueueReceiveFromISR
<1>7. ASSUME NEW t \in Tasks, xQueueReset(t) \/ Sleep(t) \/ Step(t)
      PROVE  op' = op \/ Return(t)
  BY <1>7 DEF xQueueReset, Sleep, Step, Succeed, Fail, MustWait, vTaskSuspendAll,
       prvLockQueue, xTaskCheckForTimeOut, TestQueue, PlaceOnEventList,
       prvAddCurrentTaskToDelayedList, UnlockTx, UnlockRx, xTaskResumeAll, portYIELD_WITHIN_API,
       TimedOut
<1>. QED  BY <1>3, <1>4, <1>5, <1>6, <1>7 DEF Next

(* Everything that happens but a reset keeps the wake-ups, and a reset     *)
(* those of the receivers.                                                 *)
LEMMA InterruptWakes ==
  ASSUME IInv, IInv', ReceiversServed, Interrupt, use' = use
  PROVE  ReceiversServed' /\ (SendersServed => SendersServed')
<1>0. pc' = pc /\ op' = op /\ Idle \notin Tasks
  BY MaxFacts DEF Interrupt, xTaskIncrementTick, QuietHook, vTaskSwitchContext,
     xQueueGenericSendFromISR, xQueueReceiveFromISR
<1>1. InLists \subseteq Tasks /\ Idle \notin InLists
  BY InListsDef, FirstFacts, MaxFacts DEF IInv, ListsInv, AtSend, AtReceive
<1>2. Idle \notin Coming(Emptying) /\ Idle \notin Coming(Filling)
  BY MaxFacts DEF Coming
<1>3. \A u \in Tasks \ {Idle} : pc'[u] = pc[u] /\ op'[u] = op[u]
  BY <1>0
<1>4. CASE UNCHANGED <<queue, lists>>
  BY <1>2, <1>3, <1>4, CallGoesOn
<1>5. CASE xTaskIncrementTick /\ ~uxSchedulerSuspended
  <2>. DEFINE E == Expired(wakeIn, 1)  T == E \cap InLists
  <2>1. LeaveEventLists(E) /\ UNCHANGED queue
    BY <1>5 DEF xTaskIncrementTick
  <2>2. \A u \in Tasks : pc[u] # "delay"
    BY <1>5 DEF IInv, HoldInv, Holds, Holding
  <2>. HIDE DEF E
  <2>3. /\ AtSend' \subseteq AtSend /\ AtReceive' \subseteq AtReceive /\ InLists' = InLists \ T
        /\ T \in SUBSET InLists /\ Idle \notin T /\ \A u \in T : pc[u] # "delay"
    BY <1>1, <2>1, <2>2, LeaveFacts, InListsDef DEF IInv
  <2>4. /\ messageCount' - Counted(cTxLock') <= messageCount - Counted(cTxLock)
        /\ messageCount + Counted(cRxLock) <= messageCount' + Counted(cRxLock')
    BY <2>1, CountTypes DEF queue
  <2>. HIDE DEF T
  <2>. QED  BY <1>2, <1>3, <2>3, <2>4, ReceiversUndisturbed, SendersUndisturbed
<1>6. CASE xQueueGenericSendFromISR
  <2>1. PICK T : /\ T = IF Unlocked(cTxLock) THEN First(xTasksWaitingToReceive, 1) ELSE {}
                 /\ LeaveEventLists(T)
    BY <1>6 DEF xQueueGenericSendFromISR
  <2>2. /\ messageCount' = messageCount + 1 /\ cRxLock' = cRxLock
        /\ cTxLock' = IF Unlocked(cTxLock) THEN cTxLock ELSE cTxLock + 1
    BY <1>6 DEF xQueueGenericSendFromISR
  <2>3. T = First(xTasksWaitingToReceive, IF Unlocked(cTxLock) THEN 1 ELSE 0)
    BY <2>1 DEF First
  <2>4. /\ InLists' = InLists \ T /\ AtSend' = AtSend /\ AtReceive' \subseteq AtReceive
        /\ T \in SUBSET InLists /\ \A u \in T : op[u] \in {"receive", "peek"}
        /\ AtReceive' # {} => Cardinality(T) = IF Unlocked(cTxLock) THEN 1 ELSE 0
        /\ \A w \in T, u \in AtReceive' : uxPriority[w] >= uxPriority[u]
    BY <2>1, <2>3, FirstReceiversLeave
  <2>5. \A u \in T : pc[u] # "delay"
    BY <2>1, <2>4, <1>1 DEF IInv, HoldInv, Locked, Unlocked
  <2>6. T \in SUBSET T /\ Idle \notin T /\ \A u \in T : op[u] \in Emptying
    BY <1>1, <2>4 DEF Emptying
  <2>7. cTxLock \in Int /\ cTxLock >= -1
    BY MaxFacts DEF IInv, TypesInv, queueUNLOCKED
  <2>8. AtReceive' # {} =>
          messageCount' - Counted(cTxLock') <= messageCount - Counted(cTxLock) + Cardinality(T) - 0
    BY <2>2, <2>4, <2>7, CountTypes DEF Counted, Unlocked, queueUNLOCKED
  <2>9. messageCount + Counted(cRxLock) <= messageCount' + Counted(cRxLock')
    BY <2>2, CountTypes
  <2>10. ReceiversServed'
    BY <1>2, <1>3, <2>4, <2>5, <2>6, <2>8, ReceiversKept
  <2>11. SendersServed => SendersServed'
    BY <1>2, <1>3, <2>4, <2>5, <2>6, <2>9, SendersUndisturbed
  <2>. QED  BY <2>10, <2>11
<1>7. CASE xQueueReceiveFromISR
  <2>1. PICK T : /\ T = IF Unlocked(cRxLock) THEN First(xTasksWaitingToSend, 1) ELSE {}
                 /\ LeaveEventLists(T)
    BY <1>7 DEF xQueueReceiveFromISR
  <2>2. /\ messageCount' = messageCount - 1 /\ cTxLock' = cTxLock
        /\ cRxLock' = IF Unlocked(cRxLock) THEN cRxLock ELSE cRxLock + 1
    BY <1>7 DEF xQueueReceiveFromISR
  <2>3. T = First(xTasksWaitingToSend, IF Unlocked(cRxLock) THEN 1 ELSE 0)
    BY <2>1 DEF First
  <2>4. /\ InLists' = InLists \ T /\ AtReceive' = AtReceive /\ AtSend' \subseteq AtSend
        /\ T \in SUBSET InLists /\ \A u \in T : op[u] = "send"
        /\ AtSend' # {} => Cardinality(T) = IF Unlocked(cRxLock) THEN 1 ELSE 0
        /\ \A w \in T, u \in AtSend' : uxPriority[w] >= uxPriority[u]
    BY <2>1, <2>3, FirstSendersLeave
  <2>5. \A u \in T : pc[u] # "delay"
    BY <2>1, <2>4, <1>1 DEF IInv, HoldInv, Locked, Unlocked
  <2>6. T \in SUBSET T /\ Idle \notin T /\ \A u \in T : op[u] \in Filling
    BY <1>1, <2>4 DEF Filling
  <2>7. cRxLock \in Int /\ cRxLock >= -1
    BY MaxFacts DEF IInv, TypesInv, queueUNLOCKED
  <2>8. AtSend' # {} =>
          messageCount + Counted(cRxLock) - Cardinality(T) + 0 <= messageCount' + Counted(cRxLock')
    BY <2>2, <2>4, <2>7, CountTypes DEF Counted, Unlocked, queueUNLOCKED
  <2>9. messageCount' - Counted(cTxLock') <= messageCount - Counted(cTxLock)
    BY <2>2, CountTypes
  <2>10. SendersServed => SendersServed'
    BY <1>2, <1>3, <2>4, <2>5, <2>6, <2>8, SendersKept
  <2>11. ReceiversServed'
    BY <1>2, <1>3, <2>4, <2>5, <2>6, <2>9, ReceiversUndisturbed
  <2>. QED  BY <2>10, <2>11
<1>8. xTaskIncrementTick \/ QuietHook \/ vTaskSwitchContext =>
        UNCHANGED <<queue, lists>> \/ (xTaskIncrementTick /\ ~uxSchedulerSuspended)
  BY DEF xTaskIncrementTick, QuietHook, vTaskSwitchContext
<1>. QED  BY <1>4, <1>5, <1>6, <1>7, <1>8 DEF Interrupt
-----------------------------------------------------------------------------
LEMMA NoneBlocking ==
  ASSUME IInv, NEW t \in Tasks, t = pxCurrentTCB, pc[t] # "delay"
  PROVE  /\ \A u \in InLists : pc[u] # "delay"
         /\ wakeIn[t] = 0 => t \notin InLists
  BY InListsDef, FirstFacts
  DEF IInv, HoldInv, Holds, Holding, ListsInv, BlockedInv, RunInv, TypesInv, AtSend, AtReceive

LEMMA SucceedWakes ==
  ASSUME IInv, IInv', ReceiversServed, use' = use, NEW t \in Tasks, Succeed(t)
  PROVE  ReceiversServed' /\ (SendersServed => SendersServed')
<1>1. /\ t = pxCurrentTCB /\ pc[t] = "try" /\ wakeIn[t] = 0
      /\ op[t] \in {"send", "receive", "peek"}
  BY DEF Succeed, At, IInv, RunInv, TypesInv, HoldInv
<1>2. /\ \A u \in InLists : pc[u] # "delay"
      /\ t \notin InLists
  BY <1>1, NoneBlocking
<1>3. \A u \in Tasks \ {t} : pc'[u] = pc[u] /\ op'[u] = op[u]
  BY DEF Succeed, Return, Goto, IInv, TypesInv
<1>4. UNCHANGED <<cTxLock, cRxLock>>
  BY DEF Succeed
<1>5. CASE op[t] = "receive"
  <2>1. PICK T : T = First(xTasksWaitingToSend, 1) /\ LeaveEventLists(T)
    BY <1>5 DEF Succeed, Woken, Sends
  <2>2. messageCount' = messageCount - 1
    BY <1>5 DEF Succeed
  <2>3. /\ InLists' = InLists \ T /\ AtReceive' = AtReceive /\ AtSend' \subseteq AtSend
        /\ T \in SUBSET InLists /\ \A u \in T : op[u] = "send"
        /\ AtSend' # {} => Cardinality(T) = 1
        /\ \A w \in T, u \in AtSend' : uxPriority[w] >= uxPriority[u]
    BY <2>1, FirstSendersLeave
  <2>4. t \notin T /\ T \in SUBSET T /\ \A u \in T : pc[u] # "delay" /\ op[u] \in Filling
    BY <1>2, <2>3 DEF Filling
  <2>5. t \notin Coming(Filling)
    BY <1>5 DEF Coming, Filling
  <2>6. AtSend' # {} =>
          messageCount + Counted(cRxLock) - Cardinality(T) + 0 <= messageCount' + Counted(cRxLock')
    BY <1>4, <2>2, <2>3, CountTypes
  <2>7. SendersServed => SendersServed'
    BY <1>3, <2>3, <2>4, <2>5, <2>6, SendersKept
  <2>8. messageCount' - Counted(cTxLock') <= messageCount - Counted(cTxLock) + Cardinality({}) - 1
    BY <1>4, <2>2, CountTypes, NoneGain
  <2>9. ReceiversServed'
    BY <1>3, <2>3, <2>4, <2>8, {} \in SUBSET T, ReceiversKept
  <2>. QED  BY <2>7, <2>9
<1>6. CASE op[t] \in {"send", "peek"}
  <2>1. PICK T : T = First(xTasksWaitingToReceive, 1) /\ LeaveEventLists(T)
    BY <1>6 DEF Succeed, Woken, Sends
  <2>2. messageCount' = IF op[t] = "send" THEN messageCount + 1 ELSE messageCount
    BY <1>6 DEF Succeed
  <2>3. /\ InLists' = InLists \ T /\ AtSend' = AtSend /\ AtReceive' \subseteq AtReceive
        /\ T \in SUBSET InLists /\ \A u \in T : op[u] \in {"receive", "peek"}
        /\ AtReceive' # {} => Cardinality(T) = 1
        /\ \A w \in T, u \in AtReceive' : uxPriority[w] >= uxPriority[u]
    BY <2>1, FirstReceiversLeave
  <2>4. t \notin T /\ T \in SUBSET T /\ \A u \in T : pc[u] # "delay" /\ op[u] \in Emptying
    BY <1>2, <2>3 DEF Emptying
  <2>5. CASE op[t] = "send"
    <3>1. t \notin Coming(Emptying)
      BY <2>5 DEF Coming, Emptying
    <3>2. AtReceive' # {} =>
            messageCount' - Counted(cTxLock') <= messageCount - Counted(cTxLock) + Cardinality(T) - 0
      BY <1>4, <2>2, <2>3, <2>5, CountTypes
    <3>3. ReceiversServed'
      BY <1>3, <2>3, <2>4, <3>1, <3>2, ReceiversKept
    <3>4. messageCount + Counted(cRxLock) - Cardinality({}) + 1 <= messageCount' + Counted(cRxLock')
      BY <1>4, <2>2, <2>5, CountTypes, NoneGain
    <3>5. SendersServed => SendersServed'
      BY <1>3, <2>3, <2>4, <3>4, {} \in SUBSET T, SendersKept
    <3>. QED  BY <3>3, <3>5
  <2>6. CASE op[t] = "peek"
    <3>1. t \notin Coming(Filling)
      BY <2>6 DEF Coming, Filling
    <3>2. messageCount' = messageCount
      BY <2>2, <2>6
    <3>3. AtReceive' # {} =>
            messageCount' - Counted(cTxLock') <= messageCount - Counted(cTxLock) + Cardinality(T) - 1
      BY <1>4, <2>3, <3>2, CountTypes
    <3>4. ReceiversServed'
      BY <1>3, <2>3, <2>4, <3>3, ReceiversKept
    <3>5. messageCount + Counted(cRxLock) <= messageCount' + Counted(cRxLock')
      BY <1>4, <3>2, CountTypes
    <3>6. SendersServed => SendersServed'
      BY <1>3, <2>3, <2>4, <3>1, <3>5, SendersUndisturbed
    <3>. QED  BY <3>4, <3>6
  <2>. QED  BY <1>6, <2>5, <2>6
<1>. QED  BY <1>1, <1>5, <1>6

(* A task that does not get through leaves nothing behind that it was      *)
(* woken for.                                                              *)
LEMMA GivingUpWakes ==
  ASSUME IInv, IInv', ReceiversServed, use' = use, NEW t \in Tasks, Fail(t) \/ MustWait(t)
  PROVE  ReceiversServed' /\ (SendersServed => SendersServed')
<1>1. UNCHANGED <<queue, lists>> /\ ~Possible(t)
  BY DEF Fail, MustWait
<1>2. \A u \in Tasks \ {t} : pc'[u] = pc[u] /\ op'[u] = op[u]
  BY DEF Fail, MustWait, Return, Goto, IInv, TypesInv
<1>3. CASE Sends(t)
  <2>1. messageCount' = use.uxLength
    BY <1>1, <1>3, CountTypes DEF Possible, queue
  <2>2. t \notin Coming(Emptying)
    BY <1>3 DEF Coming, Emptying, Sends
  <2>. QED  BY <1>1, <1>2, <2>1, <2>2, NothingThere, CallGoesOn
<1>4. CASE ~Sends(t)
  <2>1. messageCount' = 0
    BY <1>1, <1>4, CountTypes DEF Possible, queue
  <2>2. t \notin Coming(Filling)
    BY <1>4 DEF Coming, Filling, Sends
  <2>. QED  BY <1>1, <1>2, <2>1, <2>2, NothingThere, CallGoesOn
<1>. QED  BY <1>3, <1>4

(* A task joins an event list only while the lock counts all there is.     *)
LEMMA PlaceWakes ==
  ASSUME IInv, IInv', PlaceInv, ReceiversServed, use' = use, NEW t \in Tasks, PlaceOnEventList(t)
  PROVE  ReceiversServed' /\ (SendersServed => SendersServed')
<1>1. /\ pc' = [pc EXCEPT ![t] = "delay"] /\ pc[t] = "place" /\ wakeIn[t] = 0
      /\ UNCHANGED <<queue, op>> /\ t = pxCurrentTCB
  BY DEF PlaceOnEventList, At, Goto, IInv, RunInv, TypesInv
<1>2. t \notin InLists
  BY <1>1 DEF IInv, BlockedInv
<1>3. t \notin AtSend /\ t \notin AtReceive
  BY <1>2, InListsDef
<1>4. IF Sends(t) THEN AtSend' = AtSend \cup {t} /\ AtReceive' = AtReceive
      ELSE AtSend' = AtSend /\ AtReceive' = AtReceive \cup {t}
  BY <1>3, InsertFacts DEF PlaceOnEventList, IInv, ListsInv, AtSend, AtReceive
<1>5. InLists' = InLists \cup {t}
  BY <1>4, InListsDef
<1>6. /\ \A u \in Tasks : pc'[u] = IF u = t THEN "delay" ELSE pc[u]
      /\ messageCount' = messageCount /\ cTxLock' = cTxLock /\ cRxLock' = cRxLock
  BY <1>1 DEF IInv, TypesInv, queue
<1>7. ASSUME NEW ops, NEW p
      PROVE  ComingFrom(ops, p)' = ComingFrom(ops, p)
  BY <1>1, <1>5, <1>6 DEF Coming, ComingFrom
<1>8. /\ messageCount \in Nat /\ use.uxLength \in Nat
      /\ Counted(cTxLock) \in Nat /\ Counted(cRxLock) \in Nat
  BY CountTypes
<1>9. IF Sends(t) THEN use.uxLength - messageCount <= Counted(cRxLock)
      ELSE messageCount <= Counted(cTxLock)
  BY <1>1 DEF PlaceInv
<1>10. ReceiversServed'
  <2>. SUFFICES ASSUME NEW u \in AtReceive'
                PROVE  messageCount <= Cardinality(ComingFrom(Emptying, uxPriority[u])) +
                         Counted(cTxLock)
    BY <1>6, <1>7 DEF ReceiversServed, Counted
  <2>1. Cardinality(ComingFrom(Emptying, uxPriority[u])) \in Nat
    BY ComingTypes
  <2>2. CASE u \in AtReceive
    BY <2>2 DEF ReceiversServed
  <2>3. CASE u \notin AtReceive
    <3>1. ~Sends(t)
      BY <1>4, <2>3
    <3>. QED  BY <1>8, <1>9, <2>1, <3>1
  <2>. QED  BY <2>2, <2>3
<1>11. SendersServed => SendersServed'
  <2>. SUFFICES ASSUME SendersServed, NEW u \in AtSend'
                PROVE  use.uxLength - messageCount <=
                         Cardinality(ComingFrom(Filling, uxPriority[u])) + Counted(cRxLock)
    BY <1>6, <1>7 DEF SendersServed, Counted
  <2>1. Cardinality(ComingFrom(Filling, uxPriority[u])) \in Nat
    BY ComingTypes
  <2>2. CASE u \in AtSend
    BY <2>2 DEF SendersServed
  <2>3. CASE u \notin AtSend
    <3>1. Sends(t)
      BY <1>4, <2>3
    <3>. QED  BY <1>8, <1>9, <2>1, <3>1
  <2>. QED  BY <2>2, <2>3
<1>. QED  BY <1>10, <1>11
-----------------------------------------------------------------------------
LEMMA UnlockWakes ==
  ASSUME IInv, IInv', ReceiversServed, use' = use, NEW t \in Tasks, UnlockTx(t) \/ UnlockRx(t)
  PROVE  ReceiversServed' /\ (SendersServed => SendersServed')
<1>1. t = pxCurrentTCB /\ pc[t] # "delay" /\ UNCHANGED <<pc, op, messageCount>>
  BY DEF UnlockTx, UnlockRx, At
<1>2. (\A u \in InLists : pc[u] # "delay") /\ Idle \notin InLists
      /\ Idle \notin Coming(Emptying) /\ Idle \notin Coming(Filling)
  BY <1>1, NoneBlocking, InListsDef, FirstFacts, MaxFacts
  DEF IInv, ListsInv, AtSend, AtReceive, Coming
<1>3. \A u \in Tasks \ {Idle} : pc'[u] = pc[u] /\ op'[u] = op[u]
  BY <1>1
<1>4. CASE UnlockTx(t)
  <2>1. cTxLock \in Nat /\ cTxLock' = -1 /\ cRxLock' = cRxLock
    BY <1>4, MaxFacts DEF UnlockTx, IInv, TypesInv, queueUNLOCKED
  <2>2. PICK T : T = First(xTasksWaitingToReceive, cTxLock) /\ LeaveEventLists(T)
    BY <1>4 DEF UnlockTx, PerItem
  <2>3. /\ InLists' = InLists \ T /\ AtSend' = AtSend /\ AtReceive' \subseteq AtReceive
        /\ T \in SUBSET InLists /\ \A u \in T : op[u] \in {"receive", "peek"}
        /\ AtReceive' # {} => Cardinality(T) = cTxLock
        /\ \A w \in T, u \in AtReceive' : uxPriority[w] >= uxPriority[u]
    BY <2>1, <2>2, FirstReceiversLeave
  <2>4. Idle \notin T /\ T \in SUBSET T /\ \A u \in T : pc[u] # "delay" /\ op[u] \in Emptying
    BY <1>2, <2>3 DEF Emptying
  <2>5. Counted(cTxLock) = cTxLock /\ Counted(cTxLock') = 0
    BY <2>1 DEF Counted
  <2>6. AtReceive' # {} =>
          messageCount' - Counted(cTxLock') <= messageCount - Counted(cTxLock) + Cardinality(T) - 0
    BY <1>1, <2>1, <2>3, <2>5, CountTypes
  <2>7. messageCount + Counted(cRxLock) <= messageCount' + Counted(cRxLock')
    BY <1>1, <2>1, CountTypes
  <2>8. ReceiversServed'
    BY <1>2, <1>3, <2>3, <2>4, <2>6, ReceiversKept
  <2>9. SendersServed => SendersServed'
    BY <1>2, <1>3, <2>3, <2>4, <2>7, SendersUndisturbed
  <2>. QED  BY <2>8, <2>9
<1>5. CASE UnlockRx(t)
  <2>1. cRxLock \in Nat /\ cRxLock' = -1 /\ cTxLock' = cTxLock
    BY <1>5, MaxFacts DEF UnlockRx, IInv, TypesInv, queueUNLOCKED
  <2>2. PICK T : T = First(xTasksWaitingToSend, cRxLock) /\ LeaveEventLists(T)
    BY <1>5 DEF UnlockRx, PerItem
  <2>3. /\ InLists' = InLists \ T /\ AtReceive' = AtReceive /\ AtSend' \subseteq AtSend
        /\ T \in SUBSET InLists /\ \A u \in T : op[u] = "send"
        /\ AtSend' # {} => Cardinality(T) = cRxLock
        /\ \A w \in T, u \in AtSend' : uxPriority[w] >= uxPriority[u]
    BY <2>1, <2>2, FirstSendersLeave
  <2>4. Idle \notin T /\ T \in SUBSET T /\ \A u \in T : pc[u] # "delay" /\ op[u] \in Filling
    BY <1>2, <2>3 DEF Filling
  <2>5. Counted(cRxLock) = cRxLock /\ Counted(cRxLock') = 0
    BY <2>1 DEF Counted
  <2>6. AtSend' # {} =>
          messageCount + Counted(cRxLock) - Cardinality(T) + 0 <= messageCount' + Counted(cRxLock')
    BY <1>1, <2>1, <2>3, <2>5, CountTypes
  <2>7. messageCount' - Counted(cTxLock') <= messageCount - Counted(cTxLock)
    BY <1>1, <2>1, CountTypes
  <2>8. SendersServed => SendersServed'
    BY <1>2, <1>3, <2>3, <2>4, <2>6, SendersKept
  <2>9. ReceiversServed'
    BY <1>2, <1>3, <2>3, <2>4, <2>7, ReceiversUndisturbed
  <2>. QED  BY <2>8, <2>9
<1>. QED  BY <1>4, <1>5

LEMMA ResumeWakes ==
  ASSUME IInv, IInv', ReceiversServed, use' = use, NEW t \in Tasks, xTaskResumeAll(t)
  PROVE  ReceiversServed' /\ (SendersServed => SendersServed')
<1>. DEFINE E == Expired(PendingReadied, xPendedTicks)  T == (E \cap InLists) \ {t}
<1>1. PICK why \in {"placed", "retry", "timeout"}, l \in {"try", "yield", "full", "recheck"} :
        /\ At(t, why) /\ pc' = [pc EXCEPT ![t] = l]
        /\ why = "placed" => l \in {"try", "yield"}
  BY DEF xTaskResumeAll, Goto
<1>2. LeaveEventLists(E) /\ UNCHANGED <<queue, op>>
  BY DEF xTaskResumeAll
<1>. HIDE DEF E
<1>3. \A u \in InLists : pc[u] # "delay"
  BY <1>1, NoneBlocking DEF At
<1>4. /\ AtSend' \subseteq AtSend /\ AtReceive' \subseteq AtReceive /\ InLists' = InLists \ E
  BY <1>2, LeaveFacts, InListsDef DEF IInv
<1>5. /\ messageCount' - Counted(cTxLock') <= messageCount - Counted(cTxLock)
      /\ messageCount + Counted(cRxLock) <= messageCount' + Counted(cRxLock')
  BY <1>2, CountTypes DEF queue
<1>6. Coming(Emptying) \subseteq Coming(Emptying)' /\ Coming(Filling) \subseteq Coming(Filling)'
  BY <1>1, <1>2, <1>4 DEF Coming, At, IInv, TypesInv
<1>7. ASSUME NEW p
      PROVE  /\ Cardinality(ComingFrom(Emptying, p)) <= Cardinality(ComingFrom(Emptying, p)')
             /\ Cardinality(ComingFrom(Filling, p)) <= Cardinality(ComingFrom(Filling, p)')
             /\ Cardinality(ComingFrom(Emptying, p)) \in Nat
             /\ Cardinality(ComingFrom(Emptying, p)') \in Nat
             /\ Cardinality(ComingFrom(Filling, p)) \in Nat
             /\ Cardinality(ComingFrom(Filling, p)') \in Nat
  <2>1. /\ ComingFrom(Emptying, p) \subseteq ComingFrom(Emptying, p)'
        /\ ComingFrom(Filling, p) \subseteq ComingFrom(Filling, p)'
    BY <1>6 DEF ComingFrom
  <2>. QED  BY <2>1, ComingTypes, FS_Subset
<1>8. /\ messageCount \in Nat /\ use.uxLength \in Nat
      /\ Counted(cTxLock) \in Nat /\ Counted(cRxLock) \in Nat
  BY CountTypes
<1>9. messageCount' = messageCount /\ cTxLock' = cTxLock /\ cRxLock' = cRxLock
  BY <1>2 DEF queue
<1>10. ReceiversServed'
  <2>1. SUFFICES ASSUME NEW u \in AtReceive'
                 PROVE  messageCount <=
                          Cardinality(ComingFrom(Emptying, uxPriority[u])') + Counted(cTxLock)
    BY <1>9 DEF ReceiversServed, Counted
  <2>2. messageCount <= Cardinality(ComingFrom(Emptying, uxPriority[u])) + Counted(cTxLock)
    BY <1>4 DEF ReceiversServed
  <2>. QED  BY <1>7, <1>8, <2>2
<1>11. SendersServed => SendersServed'
  <2>1. SUFFICES ASSUME SendersServed, NEW u \in AtSend'
                 PROVE  use.uxLength - messageCount <=
                          Cardinality(ComingFrom(Filling, uxPriority[u])') + Counted(cRxLock)
    BY <1>9 DEF SendersServed, Counted
  <2>2. use.uxLength - messageCount <=
          Cardinality(ComingFrom(Filling, uxPriority[u])) + Counted(cRxLock)
    BY <1>4, <2>1 DEF SendersServed
  <2>. QED  BY <1>7, <1>8, <2>2
<1>. QED  BY <1>10, <1>11

(* A reset wakes the only task that sends.                                 *)
LEMMA ResetWakes ==
  ASSUME IInv, IInv', CallsInv, use' = use, NEW t \in Tasks, xQueueReset(t)
  PROVE  ReceiversServed' /\ (SingleSenderIfReset => SendersServed')
<1>1. ReceiversServed'
  BY NothingThere DEF xQueueReset
<1>2. ASSUME SingleSenderIfReset
      PROVE  SendersServed'
  <2>1. PICK T : T = First(xTasksWaitingToSend, 1) /\ LeaveEventLists(T)
    BY DEF xQueueReset
  <2>2. T = AtSend \/ Cardinality(T) = 1
    BY <2>1, FirstSendersLeave
  <2>3. \A s \in AtSend : s \in Tasks /\ "send" \in use.calls[s]
    BY FirstFacts DEF IInv, ListsInv, BlockedInv, Sends, CallsInv, Calls, AtSend
  <2>4. \A s, r \in AtSend : s = r
    BY <1>2, <2>3 DEF SingleSenderIfReset, xQueueReset, Calls, IInv, TypesInv
  <2>5. T \subseteq AtSend
    BY <2>1, FirstFacts DEF IInv, ListsInv, AtSend
  <2>6. Cardinality(T) = 1 => T # {}
    BY FS_EmptySet
  <2>7. T = AtSend
    BY <2>2, <2>4, <2>5, <2>6
  <2>8. AtSend' = {}
    BY <2>1, <2>7, LeaveFacts DEF IInv
  <2>. QED  BY <2>8 DEF SendersServed
<1>. QED  BY <1>1, <1>2

(* The wake-ups there are keep to the order of priority over every step.  *)
LEMMA WakesStep ==
  ASSUME IInv, PlaceInv, CallsInv, ReceiversServed, [Next]_vars
  PROVE  ReceiversServed' /\ (SingleSenderIfReset /\ SendersServed => SendersServed')
<1>1. CASE UNCHANGED vars
  BY <1>1 DEF ReceiversServed, SendersServed, Coming, ComingFrom, InLists, AtReceive, AtSend,
     Counted, vars, queue, lists
<1>. SUFFICES ASSUME Next
              PROVE  ReceiversServed' /\ (SingleSenderIfReset /\ SendersServed => SendersServed')
  BY <1>1
<1>2. IInv' /\ use' = use
  BY InvStep DEF Next
<1>3. CASE Interrupt
  BY <1>2, <1>3, InterruptWakes
<1>4. ASSUME NEW t \in Tasks, Move(t)
      PROVE  ReceiversServed' /\ (SingleSenderIfReset /\ SendersServed => SendersServed')
  <2>1. CASE xQueueReset(t)
    BY <1>2, <2>1, ResetWakes
  <2>2. CASE Succeed(t)
    BY <1>2, <2>2, SucceedWakes
  <2>3. CASE Fail(t) \/ MustWait(t)
    BY <1>2, <2>3, GivingUpWakes
  <2>4. CASE PlaceOnEventList(t)
    BY <1>2, <2>4, PlaceWakes
  <2>5. CASE UnlockTx(t) \/ UnlockRx(t)
    BY <1>2, <2>5, UnlockWakes
  <2>6. CASE xTaskResumeAll(t)
    BY <1>2, <2>6, ResumeWakes
  <2>7. CASE prvLockQueue(t)
    <3>1. \A u \in Tasks \ {t} : pc'[u] = pc[u] /\ op'[u] = op[u]
      BY <2>7 DEF prvLockQueue, Goto, IInv, TypesInv
    <3>2. t \notin Coming(Emptying) /\ t \notin Coming(Filling)
      BY <2>7 DEF prvLockQueue, At, Coming
    <3>3. messageCount' = messageCount /\ AtSend' = AtSend /\ AtReceive' = AtReceive
          /\ InLists' = InLists
      BY <2>7 DEF prvLockQueue, AtSend, AtReceive, InLists, lists
    <3>4. Counted(cTxLock') = Counted(cTxLock) /\ Counted(cRxLock') = Counted(cRxLock)
      BY <2>7 DEF prvLockQueue, Counted, queueUNLOCKED, queueLOCKED_UNMODIFIED
    <3>5. /\ messageCount' - Counted(cTxLock') <= messageCount - Counted(cTxLock)
          /\ messageCount + Counted(cRxLock) <= messageCount' + Counted(cRxLock')
      BY <1>2, <3>3, <3>4, CountTypes
    <3>. DEFINE T == {}
    <3>6. T \in SUBSET InLists /\ InLists' = InLists \ T /\ t \notin T /\ \A u \in T : pc[u] # "delay"
      BY <3>3
    <3>. HIDE DEF T
    <3>. QED  BY <1>2, <3>1, <3>2, <3>3, <3>5, <3>6, ReceiversUndisturbed, SendersUndisturbed
  <2>8. CASE /\ UNCHANGED <<queue, lists>>
             /\ \A u \in Tasks \ {t} : pc'[u] = pc[u] /\ op'[u] = op[u]
             /\ \/ pc[t] \notin {"placed", "yield", "try"}
                \/ pc'[t] \in {"placed", "yield", "try"} /\ op'[t] = op[t]
    <3>1. /\ t \in Coming(Emptying) => t \in Coming(Emptying)'
          /\ t \in Coming(Filling) => t \in Coming(Filling)'
      BY <2>8 DEF Coming, InLists, lists
    <3>. QED  BY <1>2, <2>8, <3>1, CallGoesOn
  <2>9. CASE Call(t) \/ Sleep(t) \/ vTaskSuspendAll(t) \/ xTaskCheckForTimeOut(t) \/ TestQueue(t)
             \/ prvAddCurrentTaskToDelayedList(t) \/ portYIELD_WITHIN_API(t) \/ TimedOut(t)
    <3>1. UNCHANGED <<queue, lists>>
      BY <2>9 DEF Call, Sleep, vTaskSuspendAll, xTaskCheckForTimeOut, TestQueue,
         prvAddCurrentTaskToDelayedList, portYIELD_WITHIN_API, TimedOut
    <3>2. \A u \in Tasks \ {t} : pc'[u] = pc[u] /\ op'[u] = op[u]
      BY <2>9 DEF Call, Sleep, vTaskSuspendAll, xTaskCheckForTimeOut, TestQueue, Return, Goto,
         prvAddCurrentTaskToDelayedList, portYIELD_WITHIN_API, TimedOut, IInv, TypesInv
    <3>3. \/ pc[t] \notin {"placed", "yield", "try"}
          \/ pc'[t] \in {"placed", "yield", "try"} /\ op'[t] = op[t]
      BY <2>9 DEF Call, Sleep, vTaskSuspendAll, xTaskCheckForTimeOut, TestQueue, At, Goto,
         prvAddCurrentTaskToDelayedList, portYIELD_WITHIN_API, TimedOut, IInv, TypesInv
    <3>. QED  BY <2>8, <3>1, <3>2, <3>3
  <2>. QED  BY <1>4, <2>1, <2>2, <2>3, <2>4, <2>5, <2>6, <2>7, <2>9 DEF Move, Step
<1>. QED  BY <1>3, <1>4 DEF Next, Move
-----------------------------------------------------------------------------
(* The task that runs has the highest priority of the ready ones, but on   *)
(* its way to a yield or in an interrupt that has not switched yet; with   *)
(* the scheduler suspended no one becomes ready.                           *)
HighestRuns(wake) == \A r \in Tasks : wake[r] = 0 => uxPriority[r] <= Priority(pxCurrentTCB)

(* The task that runs is of the highest priority: what a yield decides,   *)
(* and what a wake-up without one must not undo.                          *)
HighInv ==
  /\ uxSchedulerSuspended \/ isr = "none"
  /\ pxCurrentTCB \in Tasks => pc[pxCurrentTCB] # "yield"
  => HighestRuns(wakeIn)

LEMMA YieldsToHighest ==
  ASSUME NEW wake, Yield(wake)
  PROVE  \A r \in Tasks : wake[r] = 0 => uxPriority[r] <= Priority(pxCurrentTCB')
<1>1. \A r \in Tasks : Priority(r) = uxPriority[r] /\ uxPriority[r] \in Nat
  BY QueueAssumption DEF Priority
<1>2. pxCurrentTCB' \in Tasks \cup {Idle} /\ Priority(pxCurrentTCB') \in Nat
  BY SwitchFacts, QueueAssumption DEF Priority
<1>. QED  BY <1>1, <1>2 DEF Yield, Highest

(* A task that wakes others yields to one of higher priority.              *)
LEMMA WakeAndYield ==
  ASSUME IInv, HighInv, NEW T \in SUBSET Tasks, MakeReady(T), ~uxSchedulerSuspended,
         isr = "none", pxCurrentTCB \in Tasks, pc[pxCurrentTCB] # "yield",
         IF Above(T) THEN Yield(ReadyOf(T)) ELSE UNCHANGED switching
  PROVE  HighInv'
<1>1. wakeIn' = ReadyOf(T)
  BY DEF MakeReady
<1>2. CASE Above(T)
  <2>1. \A r \in Tasks : wakeIn'[r] = 0 => uxPriority[r] <= Priority(pxCurrentTCB')
    BY <1>1, <1>2, YieldsToHighest
  <2>. QED  BY <2>1 DEF HighInv, HighestRuns, Priority
<1>3. CASE ~Above(T)
  <2>1. pxCurrentTCB' = pxCurrentTCB
    BY <1>3 DEF switching
  <2>2. \A r \in Tasks : /\ Priority(r) = uxPriority[r] /\ uxPriority[r] \in Nat
                         /\ Priority(pxCurrentTCB) \in Nat
    BY QueueAssumption DEF Priority
  <2>3. \A r \in T : uxPriority[r] <= Priority(pxCurrentTCB)
    BY <1>3, <2>2 DEF Above
  <2>4. \A r \in Tasks : wakeIn'[r] = 0 => r \in T \/ wakeIn[r] = 0
    BY <1>1 DEF ReadyOf
  <2>5. HighestRuns(wakeIn)
    BY DEF HighInv
  <2>. QED  BY <2>1, <2>3, <2>4, <2>5 DEF HighInv, HighestRuns, Priority
<1>. QED  BY <1>2, <1>3

LEMMA HighStep ==
  ASSUME IInv, HighInv, [Next]_vars
  PROVE  HighInv'
<1>1. CASE UNCHANGED vars
  BY <1>1 DEF HighInv, HighestRuns, Priority, vars, switching, kernel
<1>. SUFFICES ASSUME Next PROVE HighInv'
  BY <1>1
<1>2. CASE Interrupt
  <2>1. CASE uxSchedulerSuspended /\ isr # "switch"
    <3>1. wakeIn' = wakeIn /\ uxSchedulerSuspended' = uxSchedulerSuspended /\ pc' = pc
          /\ pxCurrentTCB' = pxCurrentTCB
      BY <1>2, <2>1 DEF Interrupt, xTaskIncrementTick, QuietHook, vTaskSwitchContext,
         xQueueGenericSendFromISR, xQueueReceiveFromISR, MakeReady, switching, kernel
    <3>. QED  BY <2>1, <3>1 DEF HighInv, HighestRuns, Priority
  <2>2. CASE ~uxSchedulerSuspended /\ isr # "switch"
    <3>1. ~uxSchedulerSuspended' /\ isr' # "none"
      BY <1>2, <2>2 DEF Interrupt, xTaskIncrementTick, QuietHook, vTaskSwitchContext,
         xQueueGenericSendFromISR, xQueueReceiveFromISR, kernel
    <3>. QED  BY <3>1 DEF HighInv
  <2>3. CASE vTaskSwitchContext
    <3>1. CASE uxSchedulerSuspended
      BY <2>3, <3>1 DEF vTaskSwitchContext, HighInv, HighestRuns, Priority, kernel
    <3>2. CASE ~uxSchedulerSuspended
      <4>1. wakeIn' = wakeIn /\ \A r \in Tasks : wakeIn[r] = 0 => uxPriority[r] <= Priority(pxCurrentTCB')
        BY <2>3, <3>2, YieldsToHighest DEF vTaskSwitchContext, kernel
      <4>. QED  BY <4>1 DEF HighInv, HighestRuns, Priority
    <3>. QED  BY <3>1, <3>2
  <2>4. isr = "switch" => vTaskSwitchContext
    BY <1>2 DEF Interrupt, xTaskIncrementTick, QuietHook,
         xQueueGenericSendFromISR, xQueueReceiveFromISR
  <2>. QED  BY <2>1, <2>2, <2>3, <2>4
<1>3. ASSUME NEW t \in Tasks, Move(t)
      PROVE  HighInv'
  <2>0. t = pxCurrentTCB /\ isr = "none"
    BY <1>3 DEF Move, Call, xQueueReset, Sleep, Step, Succeed, Fail, MustWait, vTaskSuspendAll,
       prvLockQueue, xTaskCheckForTimeOut, TestQueue, PlaceOnEventList,
       prvAddCurrentTaskToDelayedList, UnlockTx, UnlockRx, xTaskResumeAll, portYIELD_WITHIN_API,
       TimedOut, At
  <2>00. pc[t] \notin Holding => ~uxSchedulerSuspended
    BY <2>0 DEF IInv, HoldInv, Holds
  <2>1. CASE pc[t] # "yield" /\ UNCHANGED switching /\ \A r \in Tasks : wakeIn'[r] = 0 => wakeIn[r] = 0
    <3>1. HighestRuns(wakeIn)
      BY <2>0, <2>1 DEF HighInv
    <3>. QED  BY <2>1, <3>1 DEF HighInv, HighestRuns, Priority, switching
  <2>2. CASE Yield(wakeIn')
    <3>1. \A r \in Tasks : wakeIn'[r] = 0 => uxPriority[r] <= Priority(pxCurrentTCB')
      <4>. DEFINE w == wakeIn'
      <4>1. Yield(w)
        BY <2>2
      <4>. HIDE DEF w
      <4>2. \A r \in Tasks : w[r] = 0 => uxPriority[r] <= Priority(pxCurrentTCB')
        BY <4>1, YieldsToHighest
      <4>. QED  BY <4>2 DEF w
    <3>. QED  BY <3>1 DEF HighInv, HighestRuns, Priority
  <2>3. CASE xQueueReset(t)
    <3>. DEFINE T == First(xTasksWaitingToSend, 1)
    <3>1. T \in SUBSET Tasks
      BY WokenFacts DEF IInv
    <3>2. MakeReady(T) /\ ~uxSchedulerSuspended /\ pc[t] # "yield"
          /\ IF Above(T) THEN Yield(ReadyOf(T)) ELSE UNCHANGED switching
      BY <2>00, <2>3 DEF xQueueReset, At, Holding
    <3>. HIDE DEF T
    <3>. QED  BY <2>0, <3>1, <3>2, WakeAndYield
  <2>4. CASE Succeed(t)
    <3>. DEFINE T == Woken(t)
    <3>1. T \in SUBSET Tasks
      BY WokenFacts DEF IInv, Woken
    <3>2. MakeReady(T) /\ ~uxSchedulerSuspended /\ pc[t] # "yield"
          /\ IF Above(T) THEN Yield(ReadyOf(T)) ELSE UNCHANGED switching
      BY <2>00, <2>4 DEF Succeed, At, Holding
    <3>. HIDE DEF T
    <3>. QED  BY <2>0, <3>1, <3>2, WakeAndYield
  <2>5. CASE Call(t) \/ Fail(t) \/ MustWait(t) \/ vTaskSuspendAll(t) \/ prvLockQueue(t)
             \/ xTaskCheckForTimeOut(t) \/ TestQueue(t) \/ PlaceOnEventList(t) \/ TimedOut(t)
    <3>1. pc[t] # "yield" /\ UNCHANGED <<switching, wakeIn>>
      BY <2>5 DEF Call, Fail, MustWait, vTaskSuspendAll, prvLockQueue, At, kernel,
         xTaskCheckForTimeOut, TestQueue, PlaceOnEventList, TimedOut
    <3>. QED  BY <2>1, <3>1
  <2>6. CASE prvAddCurrentTaskToDelayedList(t)
    <3>1. pc[t] = "delay" /\ xTicksToWait[t] # 0 /\ UNCHANGED switching
          /\ wakeIn' = [wakeIn EXCEPT ![t] = xTicksToWait[t]]
      BY <2>6 DEF prvAddCurrentTaskToDelayedList, At, IInv, ClockInv
    <3>2. \A r \in Tasks : wakeIn'[r] = 0 => wakeIn[r] = 0
      BY <3>1 DEF IInv, TypesInv
    <3>. QED  BY <2>1, <3>1, <3>2
  <2>7. CASE UnlockTx(t) \/ UnlockRx(t)
    <3>1. pc[t] \in {"placed", "retry", "timeout"} /\ UNCHANGED <<pc, uxSchedulerSuspended, pxCurrentTCB>>
          /\ (uxSchedulerSuspended => wakeIn' = wakeIn)
      BY <2>7 DEF UnlockTx, UnlockRx, At, MakeReady
    <3>2. uxSchedulerSuspended
      BY <3>1 DEF IInv, HoldInv, Holds, Holding
    <3>3. HighestRuns(wakeIn)
      BY <2>0, <3>1 DEF HighInv
    <3>. QED  BY <3>1, <3>2, <3>3 DEF HighInv, HighestRuns, Priority
  <2>8. CASE xTaskResumeAll(t)
    <3>. DEFINE woken == xPendingReadyList \cup Expired(PendingReadied, xPendedTicks)
    <3>1. PICK why \in {"placed", "retry", "timeout"} :
            /\ At(t, why)
            /\ wakeIn' = Later(PendingReadied, xPendedTicks)
            /\ \/ Yield(wakeIn')
               \/ /\ UNCHANGED switching /\ ~AtLeast(woken)
                  /\ why = "placed" => pc' = [pc EXCEPT ![t] = "yield"]
      BY <2>8 DEF xTaskResumeAll, Goto
    <3>2. CASE UNCHANGED switching /\ why = "placed" /\ pc' = [pc EXCEPT ![t] = "yield"]
      <4>1. pxCurrentTCB' = t /\ pc'[t] = "yield"
        BY <2>0, <3>2 DEF switching, IInv, TypesInv
      <4>. QED  BY <4>1 DEF HighInv
    <3>3. CASE UNCHANGED switching /\ ~AtLeast(woken) /\ why # "placed"
      <4>1. HighestRuns(wakeIn) /\ pxCurrentTCB' = pxCurrentTCB
        BY <2>0, <3>1, <3>3 DEF HighInv, At, switching
      <4>2. \A r \in Tasks : /\ Priority(r) = uxPriority[r] /\ uxPriority[r] \in Nat
                             /\ Priority(pxCurrentTCB) \in Nat
        BY <2>0, QueueAssumption DEF Priority
      <4>3. \A r \in woken : r \in Tasks => uxPriority[r] <= Priority(pxCurrentTCB)
        BY <3>3, <4>2 DEF AtLeast
      <4>4. \A r \in Tasks : wakeIn'[r] = 0 => r \in woken \/ wakeIn[r] = 0
        BY <3>1 DEF Later, PendingReadied, ReadyOf, Expired, IInv, TypesInv
      <4>. HIDE DEF woken
      <4>. QED  BY <4>1, <4>3, <4>4 DEF HighInv, HighestRuns, Priority
    <3>. QED  BY <3>1, <2>2, <3>2, <3>3
  <2>9. CASE portYIELD_WITHIN_API(t) \/ Sleep(t)
    BY <2>2, <2>9 DEF portYIELD_WITHIN_API, Sleep, kernel
  <2>. QED  BY <1>3, <2>3, <2>4, <2>5, <2>6, <2>7, <2>8, <2>9 DEF Move, Step
<1>. QED  BY <1>2, <1>3 DEF Next, Move
-----------------------------------------------------------------------------
(* The inductive invariant of the theorems on wake-ups, but for the       *)
(* senders, whose part a reset by another task than the one sender        *)
(* breaks.                                                                *)
WakeInv == IInv /\ HighInv /\ PlaceInv /\ CallsInv /\ ReceiversServed

LEMMA WakeInvariance == Spec => []WakeInv
<1>1. Init => WakeInv
  <2>. SUFFICES ASSUME Init PROVE WakeInv
    OBVIOUS
  <2>1. PlaceInv /\ CallsInv
    BY DEF Init, PlaceInv, CallsInv
  <2>2. ReceiversServed
    BY DEF Init, ReceiversServed, AtReceive, ToSet
  <2>3. HighInv
    BY QueueAssumption DEF Init, HighInv, HighestRuns, Priority
  <2>. QED  BY <2>1, <2>2, <2>3, InvInit DEF WakeInv
<1>2. WakeInv /\ [Next]_vars => WakeInv'
  BY InvStep, HighStep, PlaceStep, CallsStep, WakesStep DEF WakeInv
<1>. QED  BY <1>1, <1>2, PTL DEF Spec

LEMMA WakeInvarianceOfSenders ==
  ASSUME SingleSenderIfReset
  PROVE  Spec => [](WakeInv /\ SendersServed)
<1>1. Init => SendersServed
  BY DEF Init, SendersServed, AtSend, ToSet
<1>2. WakeInv /\ SendersServed /\ [Next]_vars => SendersServed'
  BY WakesStep DEF WakeInv
<1>. QED  BY <1>1, <1>2, WakeInvariance, PTL DEF Spec

(* Wake-ups in the order of priority are in particular enough of them.    *)
LEMMA ServedAreWoken ==
  ASSUME IInv
  PROVE  /\ ReceiversServed => ReceiversWoken
         /\ SendersServed => SendersWoken
<1>1. /\ IsFiniteSet(Coming({"receive", "peek"})) /\ Cardinality(Coming({"receive", "peek"})) \in Nat
      /\ IsFiniteSet(Coming({"send"})) /\ Cardinality(Coming({"send"})) \in Nat
  <2>1. IsFiniteSet(Tasks) /\ \A ops : Coming(ops) \in SUBSET Tasks
    BY QueueAssumption DEF Coming
  <2>. QED  BY <2>1, FS_Subset, FS_CardinalityType
<1>2. /\ messageCount \in Nat /\ use.uxLength \in Nat
      /\ Counted(cTxLock) \in Nat /\ Counted(cRxLock) \in Nat
  BY UseFacts, MaxFacts DEF IInv, TypesInv, Counted, queueUNLOCKED
<1>3. ASSUME NEW ops, IsFiniteSet(Coming(ops)), NEW p
      PROVE  Cardinality(ComingFrom(ops, p)) <= Cardinality(Coming(ops))
             /\ Cardinality(ComingFrom(ops, p)) \in Nat
  BY <1>3, ComingTypes, FS_Subset, ComingFrom(ops, p) \in SUBSET Coming(ops) DEF ComingFrom
<1>4. ASSUME ReceiversServed, xTasksWaitingToReceive # <<>>
      PROVE  messageCount <= Cardinality(Coming({"receive", "peek"})) + Counted(cTxLock)
  <2>1. PICK u \in AtReceive : TRUE
    BY <1>4, ListEmpty DEF IInv, ListsInv, AtReceive
  <2>2. messageCount <= Cardinality(ComingFrom({"receive", "peek"}, uxPriority[u])) + Counted(cTxLock)
    BY <1>4 DEF ReceiversServed, Emptying
  <2>. QED  BY <1>1, <1>2, <1>3, <2>2
<1>5. ASSUME SendersServed, xTasksWaitingToSend # <<>>
      PROVE  use.uxLength - messageCount <= Cardinality(Coming({"send"})) + Counted(cRxLock)
  <2>1. PICK u \in AtSend : TRUE
    BY <1>5, ListEmpty DEF IInv, ListsInv, AtSend
  <2>2. use.uxLength - messageCount <=
          Cardinality(ComingFrom({"send"}, uxPriority[u])) + Counted(cRxLock)
    BY <1>5 DEF SendersServed, Filling
  <2>. QED  BY <1>1, <1>2, <1>3, <2>2
<1>. QED  BY <1>4, <1>5 DEF ReceiversWoken, SendersWoken

(* While receivers are blocked, as many of them are on their way to the   *)
(* queue, or counted by the transmit lock, as there are messages: no      *)
(* interleaving of calls, unlocking, ticks and sends from the interrupt   *)
(* loses the wake-up of a receiver.                                       *)
THEOREM WakeUpsOfReceivers == Spec => []ReceiversWoken
<1>1. WakeInv => ReceiversWoken
  BY ServedAreWoken DEF WakeInv
<1>. QED  BY <1>1, WakeInvariance, PTL

(* Nor is the wake-up of a sender lost, where a reset (queue.c:295),      *)
(* which frees all slots and wakes one sender, leaves no other behind.    *)
THEOREM WakeUpsAreKept ==
  ASSUME SingleSenderIfReset
  PROVE  Spec => []NoWakeUpLost
<1>1. WakeInv /\ SendersServed => NoWakeUpLost
  BY ServedAreWoken DEF WakeInv, NoWakeUpLost
<1>. QED  BY <1>1, WakeInvarianceOfSenders, PTL

(* The claim of queue.c, "to be running the calling task must be the      *)
(* highest priority task wanting to access the queue": a call gets        *)
(* through only if no task of higher priority is in the same kind of      *)
(* call, blocked or not.                                                  *)
THEOREM HighestGoesFirst ==
  ASSUME SingleSenderIfReset
  PROVE  Spec => HighestFirst
<1>1. ASSUME WakeInv, SendersServed, NEW t \in Tasks, Succeed(t), NEW u \in Tasks, Wants(t, u)
      PROVE  uxPriority[u] <= uxPriority[t]
  <2>1. t = pxCurrentTCB /\ isr = "none" /\ pc[t] = "try" /\ Possible(t)
    BY <1>1 DEF Succeed, At
  <2>2. ~uxSchedulerSuspended /\ xPendingReadyList = {}
        /\ cTxLock = queueUNLOCKED /\ cRxLock = queueUNLOCKED
    BY <1>1, <2>1 DEF WakeInv, IInv, HoldInv, Holds, Holding
  <2>3. Counted(cTxLock) = 0 /\ Counted(cRxLock) = 0
    BY <2>2 DEF Counted, queueUNLOCKED
  <2>4. \A r \in Tasks : wakeIn[r] = 0 => uxPriority[r] <= uxPriority[t]
    BY <1>1, <2>1, QueueAssumption DEF WakeInv, HighInv, HighestRuns, Priority
  <2>5. CASE wakeIn[u] = 0
    BY <2>4, <2>5
  <2>6. CASE wakeIn[u] # 0
    <3>1. u \in InLists /\ InLists = AtSend \cup AtReceive
      BY <1>1, <2>2, <2>6, InListsDef DEF WakeInv, IInv, BlockedInv, Wants, TypesInv
    <3>2. messageCount \in Nat /\ use.uxLength \in Nat
      BY <1>1, UseFacts DEF WakeInv, IInv, TypesInv
    <3>3. \E ops : Cardinality(ComingFrom(ops, uxPriority[u])) >= 1
      <4>1. CASE Sends(t)
        <5>1. u \in AtSend
          BY <1>1, <3>1, <4>1 DEF WakeInv, IInv, BlockedInv, Wants
        <5>2. use.uxLength - messageCount <= Cardinality(ComingFrom(Filling, uxPriority[u])) + 0
          BY <1>1, <2>3, <5>1 DEF SendersServed
        <5>3. use.uxLength - messageCount >= 1
          BY <2>1, <3>2, <4>1 DEF Possible
        <5>4. Cardinality(ComingFrom(Filling, uxPriority[u])) \in Nat
          BY ComingTypes
        <5>. QED  BY <3>2, <5>2, <5>3, <5>4
      <4>2. CASE ~Sends(t)
        <5>1. u \in AtReceive
          BY <1>1, <3>1, <4>2 DEF WakeInv, IInv, BlockedInv, Wants
        <5>2. messageCount <= Cardinality(ComingFrom(Emptying, uxPriority[u])) + 0
          BY <1>1, <2>3, <5>1 DEF ReceiversServed, WakeInv
        <5>3. messageCount >= 1
          BY <2>1, <3>2, <4>2 DEF Possible
        <5>4. Cardinality(ComingFrom(Emptying, uxPriority[u])) \in Nat
          BY ComingTypes
        <5>. QED  BY <3>2, <5>2, <5>3, <5>4
      <4>. QED  BY <4>1, <4>2
    <3>4. PICK ops : Cardinality(ComingFrom(ops, uxPriority[u])) >= 1
      BY <3>3
    <3>5. PICK v \in Tasks : v \in ComingFrom(ops, uxPriority[u])
      BY <3>4, FS_EmptySet DEF ComingFrom, Coming
    <3>6. uxPriority[v] >= uxPriority[u] /\ wakeIn[v] = 0
      BY <1>1, <2>2, <3>5 DEF ComingFrom, Coming, WakeInv, IInv, BlockedInv, TypesInv
    <3>. QED  BY <2>4, <3>5, <3>6, QueueAssumption
  <2>. QED  BY <2>5, <2>6
<1>2. WakeInv /\ SendersServed /\ [Next]_vars =>
        [\A t \in Tasks : Succeed(t) =>
           \A u \in Tasks : Wants(t, u) => uxPriority[u] <= uxPriority[t]]_vars
  BY <1>1
<1>. QED  BY <1>2, WakeInvarianceOfSenders, PTL DEF Spec, HighestFirst
-----------------------------------------------------------------------------
(* The two parts of the queue as MCQueue runs them: the ends of the buffer *)
(* agree with its count, and the locks, the lists and the times stay in    *)
(* range, for every length, use and set of tasks.                          *)
THEOREM QueueStaysConsistent == QueueSpec => []QueueConsistent
<1>1. QueueInit => Inv /\ IInv
  BY InitInv, InvInit DEF QueueInit
<1>2. Inv /\ IInv /\ [QueueNext]_queueVars => (Inv /\ IInv)'
  <2>1. [QueueNext]_queueVars => [StorageNext]_storageVars /\ [Next]_vars
    BY DEF QueueNext, StorageMoves, TasksMove, queueVars
  <2>. QED  BY <2>1, StepInv, InvStep
<1>3. Inv /\ IInv => QueueConsistent
  BY IInvTypes DEF Inv, QueueConsistent
<1>. QED  BY <1>1, <1>2, <1>3, PTL DEF QueueSpec
=============================================================================
