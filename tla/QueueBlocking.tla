---------------------------- MODULE QueueBlocking ----------------------------
(***************************************************************************)
(* Tasks and the tick interrupt at one queue: the blocking, locking and    *)
(* waking of queue.c and the parts of tasks.c it stands on.  Messages are  *)
(* only counted (QueueStorage has their order).                            *)
(*                                                                         *)
(* An action is a critical section, or a statement outside of one; a tick  *)
(* may come between any two.  It is three actions: the tick, the hook,     *)
(* from which the interrupt may use the queue, and the switch.             *)
(***************************************************************************)
EXTENDS Integers, Sequences, SequencesExt, FiniteSets

CONSTANTS
  Tasks, Idle,     \* the tasks that use the queue, and the idle task
  uxPriority,      \* priority of each task, above 0, that of the idle task
  Uses,            \* the ways the queue is used, see Calls
  portMAX_DELAY,   \* the block time that means for ever
  MaxPended        \* bound: ticks during one suspension of the scheduler

ASSUME QueueAssumption ==
  /\ IsFiniteSet(Tasks) /\ Idle \notin Tasks
  /\ uxPriority \in [Tasks -> Nat \ {0}]
  /\ portMAX_DELAY \in Nat \ {0} /\ MaxPended \in Nat
  /\ \A u \in Uses :
       /\ u.uxLength \in Nat \ {0} /\ u.waits \subseteq 0..portMAX_DELAY
       /\ u.calls \in [Tasks -> SUBSET {"send", "receive", "peek", "reset", "sleep"}]

VARIABLES
  use,                                          \* which of Uses it is
  messageCount, cTxLock, cRxLock,               \* uxMessagesWaiting and the locks
  xTasksWaitingToSend, xTasksWaitingToReceive,  \* its event lists
  wakeIn,             \* 0: in a ready list; n: n ticks from the head of the
                      \* delayed list; portMAX_DELAY: in xSuspendedTaskList
  xPendingReadyList, uxSchedulerSuspended, xPendedTicks, xYieldPending, pxCurrentTCB,
  isr,                \* what the interrupt does next
  pc, op,             \* what each task does next, and for which call
  xTicksToWait,       \* as given, then what was left at the last check
  elapsed,            \* ticks since xTimeOut was set, NotSet before
  left                \* history: ticks to pass from then on, before the call
                      \* may time out

queue == <<messageCount, cTxLock, cRxLock>>
lists == <<xTasksWaitingToSend, xTasksWaitingToReceive>>
switching == <<xYieldPending, pxCurrentTCB>>
kernel == <<wakeIn, xPendingReadyList, uxSchedulerSuspended, xPendedTicks>>
timing == <<xTicksToWait, elapsed, left>>
vars == <<use, queue, lists, switching, kernel, isr, pc, op, timing>>

(* Calls[t] is what t does, of "send", "receive", "peek", "reset", "sleep";*)
(* use.waits are the block times the tasks ask for.                        *)
Calls == use.calls

queueUNLOCKED == -1
queueLOCKED_UNMODIFIED == 0
NotSet == -1

Init ==
  /\ use \in Uses
  /\ messageCount = 0 /\ cTxLock = queueUNLOCKED /\ cRxLock = queueUNLOCKED
  /\ xTasksWaitingToSend = <<>> /\ xTasksWaitingToReceive = <<>>
  /\ wakeIn = [t \in Tasks |-> 0] /\ xPendingReadyList = {}
  /\ uxSchedulerSuspended = FALSE /\ xPendedTicks = 0 /\ xYieldPending = FALSE
  /\ pxCurrentTCB \in {t \in Tasks : \A u \in Tasks : uxPriority[t] >= uxPriority[u]}
  /\ isr = "none"
  /\ pc = [t \in Tasks |-> "out"] /\ op = [t \in Tasks |-> "none"]
  /\ xTicksToWait = [t \in Tasks |-> 0] /\ elapsed = [t \in Tasks |-> NotSet]
  /\ left = [t \in Tasks |-> 0]
-----------------------------------------------------------------------------
Priority(t) == IF t = Idle THEN 0 ELSE uxPriority[t]

(* The heads the highest ready list may have: which of several tasks of    *)
(* one priority is first depends on old list keys.                         *)
Highest(wake) == LET ready == {t \in Tasks : wake[t] = 0} \cup {Idle}
                 IN  {t \in ready : \A u \in ready : Priority(t) >= Priority(u)}

(* vTaskSwitchContext when the scheduler runs.                             *)
Yield(wake) == xYieldPending' = FALSE /\ pxCurrentTCB' \in Highest(wake)

(* The list once the tasks of a set have left it, the others in order.     *)
Without(list, tasks) ==
  LET kept == {p \in DOMAIN list : list[p] \notin tasks}
      Place(i) == CHOOSE p \in kept : Cardinality({q \in kept : q <= p}) = i
  IN  [i \in 1..Cardinality(kept) |-> list[Place(i)]]

(* vListInsert into an event list: behind the tasks of the same priority.  *)
InsertEnd(list, t) == Append(list, t)
InsertByPriority(list, t) ==
  LET below == {u \in Tasks : uxPriority[u] < uxPriority[t]}
  IN  Without(list, below) \o <<t>> \o Without(list, Tasks \ below)

First(list, n) == {list[i] : i \in 1..(IF n < Len(list) THEN n ELSE Len(list))}
Above(tasks) == \E t \in tasks : Priority(t) > Priority(pxCurrentTCB)
AtLeast(tasks) == \E t \in tasks : Priority(t) >= Priority(pxCurrentTCB)

(* xTaskRemoveFromEventList for the tasks woken, whose event list the      *)
(* caller has changed: a suspended scheduler's lists are left alone.       *)
ReadyOf(woken) == [t \in Tasks |-> IF t \in woken THEN 0 ELSE wakeIn[t]]
MakeReady(woken) ==
  /\ wakeIn' = IF uxSchedulerSuspended THEN wakeIn ELSE ReadyOf(woken)
  /\ xPendingReadyList' = IF uxSchedulerSuspended THEN xPendingReadyList \cup woken
                          ELSE xPendingReadyList

(* n ticks of xTaskIncrementTick, for a delayed list wake.                 *)
Expired(wake, n) == {t \in Tasks : wake[t] \in 1..n /\ wake[t] # portMAX_DELAY}
Later(wake, n) == [t \in Tasks |-> IF t \in Expired(wake, n) THEN 0
                                   ELSE IF wake[t] \in {0, portMAX_DELAY} THEN wake[t]
                                   ELSE wake[t] - n]
LeaveEventLists(tasks) ==
  /\ xTasksWaitingToSend' = Without(xTasksWaitingToSend, tasks)
  /\ xTasksWaitingToReceive' = Without(xTasksWaitingToReceive, tasks)

(* Time passes for xTimeOut; beyond the time asked for it makes no         *)
(* difference.                                                             *)
Pass(n) == elapsed' = [t \in Tasks |->
             IF elapsed[t] = NotSet \/ xTicksToWait[t] = portMAX_DELAY THEN elapsed[t]
             ELSE IF elapsed[t] + n > xTicksToWait[t] THEN xTicksToWait[t] ELSE elapsed[t] + n]
-----------------------------------------------------------------------------
(* What follows is done by the current task.                               *)
At(t, label) == t = pxCurrentTCB /\ isr = "none" /\ pc[t] = label
Goto(t, label) == pc' = [pc EXCEPT ![t] = label]

Call(t) == \E o \in Calls[t] \ {"reset", "sleep"}, w \in use.waits :
  /\ At(t, "out")
  /\ Goto(t, "try") /\ op' = [op EXCEPT ![t] = o]
  /\ xTicksToWait' = [xTicksToWait EXCEPT ![t] = w]
  /\ UNCHANGED <<queue, lists, switching, kernel, isr, elapsed, left>>

Return(t) == /\ Goto(t, "out") /\ op' = [op EXCEPT ![t] = "none"]
             /\ xTicksToWait' = [xTicksToWait EXCEPT ![t] = 0]
             /\ elapsed' = [elapsed EXCEPT ![t] = NotSet]
             /\ left' = [left EXCEPT ![t] = 0]

Sends(t) == op[t] = "send"
Possible(t) == IF Sends(t) THEN messageCount < use.uxLength ELSE messageCount > 0

(* A task gets through: it wakes one of the other side, or, when it only   *)
(* peeked, the next one of its own.                                        *)
Woken(t) == First(IF Sends(t) \/ op[t] = "peek" THEN xTasksWaitingToReceive
                  ELSE xTasksWaitingToSend, 1)

Succeed(t) ==
  /\ At(t, "try") /\ Possible(t)
  /\ messageCount' = CASE op[t] = "send" -> messageCount + 1
                            [] op[t] = "receive" -> messageCount - 1
                            [] op[t] = "peek" -> messageCount
  /\ LeaveEventLists(Woken(t)) /\ MakeReady(Woken(t))
  /\ IF Above(Woken(t)) THEN Yield(ReadyOf(Woken(t))) ELSE UNCHANGED switching
  /\ Return(t)
  /\ UNCHANGED <<cTxLock, cRxLock, uxSchedulerSuspended, xPendedTicks, isr>>

Fail(t) ==
  /\ At(t, "try") /\ ~Possible(t) /\ xTicksToWait[t] = 0
  /\ Return(t)
  /\ UNCHANGED <<queue, lists, switching, kernel, isr>>

MustWait(t) ==
  /\ At(t, "try") /\ ~Possible(t) /\ xTicksToWait[t] # 0
  /\ elapsed' = [elapsed EXCEPT ![t] = IF @ = NotSet THEN 0 ELSE @]
  /\ left' = [left EXCEPT ![t] = IF elapsed[t] = NotSet THEN xTicksToWait[t] ELSE @]
  /\ Goto(t, "suspend")
  /\ UNCHANGED <<queue, lists, switching, kernel, isr, op, xTicksToWait>>

vTaskSuspendAll(t) ==
  /\ At(t, "suspend")
  /\ uxSchedulerSuspended' = TRUE
  /\ Goto(t, "lock")
  /\ UNCHANGED <<queue, lists, switching, wakeIn, xPendingReadyList, xPendedTicks, isr, op, timing>>

prvLockQueue(t) ==
  /\ At(t, "lock")
  /\ cTxLock' = IF cTxLock = queueUNLOCKED THEN queueLOCKED_UNMODIFIED ELSE cTxLock
  /\ cRxLock' = IF cRxLock = queueUNLOCKED THEN queueLOCKED_UNMODIFIED ELSE cRxLock
  /\ Goto(t, "check")
  /\ UNCHANGED <<messageCount, lists, switching, kernel, isr, op, timing>>

(* xTaskCheckForTimeOut; the block time that is left starts from now.      *)
WholeTime(t) == xTicksToWait[t]
NoneOnLastTick(t) == IF xTicksToWait[t] = portMAX_DELAY THEN portMAX_DELAY
                     ELSE IF elapsed[t] + 1 < xTicksToWait[t]
                     THEN xTicksToWait[t] - elapsed[t] ELSE 0
TimeLeft(t) == IF xTicksToWait[t] = portMAX_DELAY THEN portMAX_DELAY
               ELSE xTicksToWait[t] - elapsed[t]

xTaskCheckForTimeOut(t) ==
  /\ At(t, "check")
  /\ xTicksToWait' = [xTicksToWait EXCEPT ![t] = TimeLeft(t)]
  /\ elapsed' = [elapsed EXCEPT ![t] = 0]
  /\ Goto(t, IF TimeLeft(t) = 0 THEN "timeout" ELSE "test")
  /\ UNCHANGED <<queue, lists, switching, kernel, isr, op, left>>

(* prvIsQueueFull, prvIsQueueEmpty.                                        *)
BlockedAsBefore(t) == TRUE
StillBlocked(t) == ~Possible(t)
TestQueue(t) ==
  /\ At(t, "test")
  /\ Goto(t, IF StillBlocked(t) THEN "place" ELSE "retry")
  /\ UNCHANGED <<queue, lists, switching, kernel, isr, op, timing>>

PlaceOnEventList(t) ==
  /\ At(t, "place")
  /\ IF Sends(t)
     THEN /\ xTasksWaitingToSend' = InsertByPriority(xTasksWaitingToSend, t)
          /\ UNCHANGED xTasksWaitingToReceive
     ELSE /\ xTasksWaitingToReceive' = InsertByPriority(xTasksWaitingToReceive, t)
          /\ UNCHANGED xTasksWaitingToSend
  /\ Goto(t, "delay")
  /\ UNCHANGED <<queue, switching, kernel, isr, op, timing>>

prvAddCurrentTaskToDelayedList(t) ==
  /\ At(t, "delay")
  /\ wakeIn' = [wakeIn EXCEPT ![t] = xTicksToWait[t]]
  /\ Goto(t, "placed")
  /\ UNCHANGED <<queue, lists, switching, xPendingReadyList, uxSchedulerSuspended,
                 xPendedTicks, isr, op, timing>>

(* prvUnlockQueue: a task is woken for each message that an interrupt put  *)
(* in, then, in a second critical section, for each it took.  The label    *)
(* says why the queue is unlocked.                                         *)
PerItem(count) == count

UnlockTx(t) == \E why \in {"placed", "retry", "timeout"} :
  /\ At(t, why) /\ cTxLock # queueUNLOCKED
  /\ LET woken == First(xTasksWaitingToReceive, PerItem(cTxLock))
     IN  /\ LeaveEventLists(woken) /\ MakeReady(woken)
         /\ xYieldPending' = (xYieldPending \/ Above(woken))
  /\ cTxLock' = queueUNLOCKED
  /\ UNCHANGED <<messageCount, cRxLock, pxCurrentTCB, uxSchedulerSuspended,
                 xPendedTicks, isr, pc, op, timing>>

UnlockRx(t) == \E why \in {"placed", "retry", "timeout"} :
  /\ At(t, why) /\ cTxLock = queueUNLOCKED /\ cRxLock # queueUNLOCKED
  /\ LET woken == First(xTasksWaitingToSend, PerItem(cRxLock))
     IN  /\ LeaveEventLists(woken) /\ MakeReady(woken)
         /\ xYieldPending' = (xYieldPending \/ Above(woken))
  /\ cRxLock' = queueUNLOCKED
  /\ UNCHANGED <<messageCount, cTxLock, pxCurrentTCB, uxSchedulerSuspended,
                 xPendedTicks, isr, pc, op, timing>>

(* xTaskResumeAll: pending tasks, then pended ticks, then a yield, if one  *)
(* is due.  A send that timed out gives up; a receive looks once more.     *)
PendingLeftBehind == wakeIn
PendingReadied == ReadyOf(xPendingReadyList)

xTaskResumeAll(t) == \E why \in {"placed", "retry", "timeout"} :
  /\ At(t, why) /\ uxSchedulerSuspended /\ cTxLock = queueUNLOCKED /\ cRxLock = queueUNLOCKED
  /\ LET expired == Expired(PendingReadied, xPendedTicks)
         yield == xYieldPending \/ AtLeast(xPendingReadyList \cup expired)
     IN  /\ wakeIn' = Later(PendingReadied, xPendedTicks)
         /\ LeaveEventLists(expired)
         /\ IF yield THEN Yield(wakeIn') ELSE UNCHANGED switching
         /\ Goto(t, CASE why = "placed" -> IF yield THEN "try" ELSE "yield"
                      [] why = "retry" -> "try"
                      [] why = "timeout" -> IF Sends(t) THEN "full" ELSE "recheck")
  /\ Pass(xPendedTicks)
  /\ xPendingReadyList' = {} /\ xPendedTicks' = 0 /\ uxSchedulerSuspended' = FALSE
  /\ UNCHANGED <<queue, isr, op, xTicksToWait, left>>

portYIELD_WITHIN_API(t) ==
  /\ At(t, "yield")
  /\ Yield(wakeIn)
  /\ Goto(t, "try")
  /\ UNCHANGED <<queue, lists, kernel, isr, op, timing>>

TimedOut(t) ==
  \/ At(t, "full") /\ Return(t) /\ UNCHANGED <<queue, lists, switching, kernel, isr>>
  \/ /\ At(t, "recheck") /\ ~Possible(t)
     /\ Return(t) /\ UNCHANGED <<queue, lists, switching, kernel, isr>>
  \/ /\ At(t, "recheck") /\ Possible(t)
     /\ Goto(t, "try") /\ UNCHANGED <<queue, lists, switching, kernel, isr, op, timing>>

(* xQueueReset: one sender is woken.                                       *)
xQueueReset(t) ==
  /\ At(t, "out") /\ "reset" \in Calls[t]
  /\ messageCount' = 0 /\ cTxLock' = queueUNLOCKED /\ cRxLock' = queueUNLOCKED
  /\ LET woken == First(xTasksWaitingToSend, 1)
     IN  /\ LeaveEventLists(woken) /\ MakeReady(woken)
         /\ IF Above(woken) THEN Yield(ReadyOf(woken)) ELSE UNCHANGED switching
  /\ UNCHANGED <<uxSchedulerSuspended, xPendedTicks, isr, pc, op, timing>>

(* A task blocks elsewhere, until the next tick.                           *)
Sleep(t) ==
  /\ At(t, "out") /\ "sleep" \in Calls[t]
  /\ wakeIn' = [wakeIn EXCEPT ![t] = 1]
  /\ Yield(wakeIn')
  /\ UNCHANGED <<queue, lists, xPendingReadyList, uxSchedulerSuspended, xPendedTicks,
                 isr, pc, op, timing>>

Step(t) ==
  \/ Succeed(t) \/ Fail(t) \/ MustWait(t) \/ vTaskSuspendAll(t) \/ prvLockQueue(t)
  \/ xTaskCheckForTimeOut(t) \/ TestQueue(t) \/ PlaceOnEventList(t)
  \/ prvAddCurrentTaskToDelayedList(t) \/ UnlockTx(t) \/ UnlockRx(t)
  \/ xTaskResumeAll(t) \/ portYIELD_WITHIN_API(t) \/ TimedOut(t)
-----------------------------------------------------------------------------
(* The tick handler.                                                       *)
xTaskIncrementTick ==
  /\ isr = "none" /\ isr' = "hook"
  /\ IF uxSchedulerSuspended
     THEN /\ xPendedTicks < MaxPended /\ xPendedTicks' = xPendedTicks + 1
          /\ UNCHANGED <<lists, wakeIn, elapsed>>
     ELSE /\ wakeIn' = Later(wakeIn, 1) /\ LeaveEventLists(Expired(wakeIn, 1)) /\ Pass(1)
          /\ UNCHANGED xPendedTicks
  /\ left' = [t \in Tasks |-> IF left[t] \in {0, portMAX_DELAY} THEN left[t] ELSE left[t] - 1]
  /\ UNCHANGED <<queue, switching, xPendingReadyList, uxSchedulerSuspended, pc, op, xTicksToWait>>

(* A locked queue only counts what an interrupt does.                      *)
Unlocked(lock) == lock = queueUNLOCKED

xQueueGenericSendFromISR ==
  /\ isr = "hook" /\ isr' = "switch" /\ messageCount < use.uxLength
  /\ messageCount' = messageCount + 1
  /\ LET woken == IF Unlocked(cTxLock) THEN First(xTasksWaitingToReceive, 1) ELSE {}
     IN  /\ LeaveEventLists(woken) /\ MakeReady(woken)
         /\ xYieldPending' = (xYieldPending \/ Above(woken))
  /\ cTxLock' = IF Unlocked(cTxLock) THEN cTxLock ELSE cTxLock + 1
  /\ UNCHANGED <<cRxLock, pxCurrentTCB, uxSchedulerSuspended, xPendedTicks, pc, op, timing>>

xQueueReceiveFromISR ==
  /\ isr = "hook" /\ isr' = "switch" /\ messageCount > 0
  /\ messageCount' = messageCount - 1
  /\ LET woken == IF Unlocked(cRxLock) THEN First(xTasksWaitingToSend, 1) ELSE {}
     IN  /\ LeaveEventLists(woken) /\ MakeReady(woken)
         /\ xYieldPending' = (xYieldPending \/ Above(woken))
  /\ cRxLock' = IF Unlocked(cRxLock) THEN cRxLock ELSE cRxLock + 1
  /\ UNCHANGED <<cTxLock, pxCurrentTCB, uxSchedulerSuspended, xPendedTicks, pc, op, timing>>

QuietHook == isr = "hook" /\ isr' = "switch"
             /\ UNCHANGED <<queue, lists, switching, kernel, pc, op, timing>>

vTaskSwitchContext ==
  /\ isr = "switch" /\ isr' = "none"
  /\ IF uxSchedulerSuspended THEN xYieldPending' = TRUE /\ UNCHANGED pxCurrentTCB
     ELSE Yield(wakeIn)
  /\ UNCHANGED <<queue, lists, kernel, pc, op, timing>>

Interrupt == \/ xTaskIncrementTick \/ QuietHook \/ vTaskSwitchContext
             \/ xQueueGenericSendFromISR \/ xQueueReceiveFromISR

Next == /\ Interrupt \/ \E t \in Tasks : Call(t) \/ xQueueReset(t) \/ Sleep(t) \/ Step(t)
        /\ UNCHANGED use

Spec == Init /\ [][Next]_vars
-----------------------------------------------------------------------------
Labels == {"out", "try", "suspend", "lock", "check", "test", "place", "delay", "placed",
           "retry", "timeout", "yield", "full", "recheck"}
InLists == ToSet(xTasksWaitingToSend) \cup ToSet(xTasksWaitingToReceive)

TypeOK ==
  /\ messageCount \in 0..use.uxLength
  /\ cTxLock \in queueUNLOCKED..MaxPended /\ cRxLock \in queueUNLOCKED..MaxPended
  /\ xTasksWaitingToSend \in Seq(Tasks) /\ xTasksWaitingToReceive \in Seq(Tasks)
  /\ wakeIn \in [Tasks -> 0..portMAX_DELAY] /\ xPendingReadyList \subseteq Tasks
  /\ uxSchedulerSuspended \in BOOLEAN /\ xYieldPending \in BOOLEAN
  /\ xPendedTicks \in 0..MaxPended /\ pxCurrentTCB \in Tasks \cup {Idle}
  /\ isr \in {"none", "hook", "switch"}
  /\ pc \in [Tasks -> Labels] /\ op \in [Tasks -> {"none", "send", "receive", "peek"}]
  /\ xTicksToWait \in [Tasks -> 0..portMAX_DELAY] /\ left \in [Tasks -> 0..portMAX_DELAY]
  /\ elapsed \in [Tasks -> NotSet..portMAX_DELAY]

(* A blocked task can be found: it waits in one place of the event list of *)
(* its side, or in the pending list, never both; a task in an event list   *)
(* has left the ready list, but for the moment it blocks itself.           *)
BlockedAreListed ==
  /\ IsInjective(xTasksWaitingToSend \o xTasksWaitingToReceive)
  /\ xPendingReadyList \cap InLists = {}
  /\ \A t \in Tasks : wakeIn[t] > 0 /\ pc[t] # "out" => t \in InLists \cup xPendingReadyList
  /\ \A t \in InLists : wakeIn[t] > 0 \/ pc[t] = "delay"
  /\ ~uxSchedulerSuspended => xPendingReadyList = {} /\ xPendedTicks = 0

Coming(ops) == {t \in Tasks : /\ op[t] \in ops /\ t \notin InLists
                              /\ pc[t] \in {"placed", "yield", "try"}}
Counted(lock) == IF lock > 0 THEN lock ELSE 0

ReceiversWoken ==
  xTasksWaitingToReceive # <<>> =>
    messageCount <= Cardinality(Coming({"receive", "peek"})) + Counted(cTxLock)

SendersWoken ==
  xTasksWaitingToSend # <<>> =>
    use.uxLength - messageCount <= Cardinality(Coming({"send"})) + Counted(cRxLock)

(* No wake-up is lost: while receivers are blocked, there are as many on   *)
(* their way to the queue (or counted by the lock) as there are messages;  *)
(* the same for senders and free slots, where no second sender is left     *)
(* blocked by a reset.                                                     *)
NoWakeUpLost == ReceiversWoken /\ SendersWoken

(* "To be running the calling task must be the highest priority task       *)
(* wanting to access the queue": nobody gets through before a task of      *)
(* higher priority that is in the same kind of call.                       *)
Wants(t, u) == pc[u] # "out" /\ Sends(u) = Sends(t)
HighestFirst ==
  [][\A t \in Tasks : Succeed(t) => \A u \in Tasks : Wants(t, u) => uxPriority[u] <= uxPriority[t]]_vars

(* A call gives up only after the ticks it was given, however often it was *)
(* woken for nothing and waited for the rest.                              *)
GivesUp(t) == Fail(t) \/ (TimedOut(t) /\ pc'[t] = "out")
FailsOnlyInTime == [][\A t \in Tasks : GivesUp(t) => left[t] = 0]_vars

(* Nor does it wait longer: what the delayed list has in store for a task, *)
(* less the ticks that pend, is what is left of the time it was given.     *)
WaitsForTheRest ==
  \A t \in Tasks :
    pc[t] # "out" /\ wakeIn[t] \in 1..(portMAX_DELAY - 1) =>
      left[t] = IF wakeIn[t] > xPendedTicks THEN wakeIn[t] - xPendedTicks ELSE 0
=============================================================================
