---------------------------- MODULE QueueStorage ----------------------------
(***************************************************************************)
(* The storage of a queue: the circular buffer of queue.c, in items from   *)
(* pcHead on (pcHead is 0, pcTail is uxLength).  pcWriteTo is the next     *)
(* free slot, pcReadFrom the slot read last.                               *)
(***************************************************************************)
EXTENDS Integers

CONSTANTS Messages, Lengths

ASSUME LengthAssumption == Lengths \subseteq Nat \ {0}

VARIABLES
  uxLength, store, pcWriteTo, pcReadFrom, uxMessagesWaiting,
  buffer     \* pvBuffer of the last call that read

storageVars == <<uxLength, store, pcWriteTo, pcReadFrom, uxMessagesWaiting, buffer>>

Slots == 0..(uxLength - 1)

EmptiedKeepingReader == /\ uxMessagesWaiting' = 0
                        /\ pcWriteTo' = 0
                        /\ UNCHANGED pcReadFrom

(* xQueueGenericReset; the memory of a new queue is not cleared.           *)
Emptied == /\ uxMessagesWaiting' = 0
           /\ pcWriteTo' = 0
           /\ pcReadFrom' = uxLength - 1

StorageInit ==
  /\ uxLength \in Lengths
  /\ store \in [Slots -> Messages] /\ buffer \in Messages
  /\ uxMessagesWaiting = 0 /\ pcWriteTo = 0 /\ pcReadFrom = uxLength - 1
-----------------------------------------------------------------------------
NextSlot(p) == IF p + 1 >= uxLength THEN 0 ELSE p + 1
PreviousSlotPastHead(p) == IF p - 1 <= 0 THEN uxLength - 1 ELSE p - 1
PreviousSlot(p) == IF p - 1 < 0 THEN uxLength - 1 ELSE p - 1

HasRoom == uxMessagesWaiting < uxLength

SendToBack(m) ==
  /\ HasRoom
  /\ store' = [store EXCEPT ![pcWriteTo] = m]
  /\ pcWriteTo' = NextSlot(pcWriteTo)
  /\ uxMessagesWaiting' = uxMessagesWaiting + 1
  /\ UNCHANGED <<pcReadFrom, buffer>>

SendToFront(m) ==
  /\ HasRoom
  /\ store' = [store EXCEPT ![pcReadFrom] = m]
  /\ pcReadFrom' = PreviousSlot(pcReadFrom)
  /\ uxMessagesWaiting' = uxMessagesWaiting + 1
  /\ UNCHANGED <<pcWriteTo, buffer>>

(* queueOVERWRITE writes like a send to the front, and counts the message  *)
(* only if there was none.                                                 *)
CountedOnce == IF uxMessagesWaiting > 0 THEN uxMessagesWaiting ELSE 1

Overwrite(m) ==
  /\ uxLength = 1
  /\ store' = [store EXCEPT ![pcReadFrom] = m]
  /\ pcReadFrom' = PreviousSlot(pcReadFrom)
  /\ uxMessagesWaiting' = CountedOnce
  /\ UNCHANGED <<pcWriteTo, buffer>>

Receive ==
  /\ uxMessagesWaiting > 0
  /\ pcReadFrom' = NextSlot(pcReadFrom)
  /\ buffer' = store[NextSlot(pcReadFrom)]
  /\ uxMessagesWaiting' = uxMessagesWaiting - 1
  /\ UNCHANGED <<store, pcWriteTo>>

(* Reads like xQueueReceive, and puts pcReadFrom back.                     *)
Peek ==
  /\ uxMessagesWaiting > 0
  /\ buffer' = store[NextSlot(pcReadFrom)]
  /\ UNCHANGED <<store, pcWriteTo, pcReadFrom, uxMessagesWaiting>>

Reset == Emptied /\ UNCHANGED <<store, buffer>>

StorageNext ==
  /\ \/ \E m \in Messages : SendToBack(m) \/ SendToFront(m) \/ Overwrite(m)
     \/ Receive \/ Peek \/ Reset
  /\ UNCHANGED uxLength

StorageSpec == StorageInit /\ [][StorageNext]_storageVars
-----------------------------------------------------------------------------
(* The slot that lies n after p in the circle.                             *)
Slot(p, n) == (p + n) % uxLength

StorageTypeOK ==
  /\ uxLength \in Lengths
  /\ store \in [Slots -> Messages] /\ buffer \in Messages
  /\ pcWriteTo \in Slots /\ pcReadFrom \in Slots
  /\ uxMessagesWaiting \in 0..uxLength

(* The two ends and the count, kept apart by the code, agree: the slot     *)
(* written next is the one behind the last message.                        *)
EndsMeet == pcWriteTo = Slot(Slot(pcReadFrom, uxMessagesWaiting), 1)

(* Whatever mix of calls at both ends, wrapped or not, the buffer behaves  *)
(* like a sequence: no message is lost, repeated or overtaken.             *)
contents == [n \in 1..uxMessagesWaiting |-> store[Slot(pcReadFrom, n)]]
Abstract == INSTANCE MessageQueue
ImplementsMessageQueue == Abstract!Spec
=============================================================================
