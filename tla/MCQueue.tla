------------------------------ MODULE MCQueue ------------------------------
(***************************************************************************)
(* A queue for TLC: its storage, and the tasks that block at it.  They     *)
(* share nothing (QueueBlocking only counts messages), so each is checked  *)
(* while the other stands still; storageMoves says which.                  *)
(***************************************************************************)
EXTENDS QueueStorage, QueueBlocking

CONSTANTS a, b, c

VARIABLE storageMoves

MCTasks == {a, b, c}
MCPriority == a :> 2 @@ b :> 1 @@ c :> 1

(* Two receivers of different priority and a sender, at a queue of length  *)
(* 1; two senders and a receiver, at a queue of length 2.                  *)
Receivers == [uxLength |-> 1, waits |-> {0, 2}, calls |->
  a :> {"receive", "sleep"} @@ b :> {"receive", "peek"} @@ c :> {"send", "reset"}]
Senders == [uxLength |-> 2, waits |-> {2, 3}, calls |->
  a :> {"send", "sleep"} @@ b :> {"send"} @@ c :> {"receive"}]
MCUses == {Receivers, Senders}

queueVars == <<storageMoves, storageVars, vars>>

(* One state of the part that stands still.                                *)
SomeStorage == /\ uxLength = 1 /\ buffer = CHOOSE m \in Messages : TRUE
               /\ store = [s \in Slots |-> buffer]

QueueInit ==
  /\ storageMoves \in BOOLEAN
  /\ StorageInit /\ (~storageMoves => SomeStorage)
  /\ Init /\ (storageMoves => use = Receivers)

StorageMoves == storageMoves /\ StorageNext /\ UNCHANGED <<storageMoves, vars>>
TasksMove == ~storageMoves /\ Next /\ UNCHANGED <<storageMoves, storageVars>>

QueueNext == StorageMoves \/ TasksMove

QueueSpec == QueueInit /\ [][QueueNext]_queueVars
-----------------------------------------------------------------------------
(* The two ends of the buffer agree with its count, and they, the locks    *)
(* and the lists stay in range.                                            *)
QueueConsistent == StorageTypeOK /\ EndsMeet /\ TypeOK
=============================================================================
