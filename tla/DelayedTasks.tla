---------------------------- MODULE DelayedTasks ----------------------------
(***************************************************************************)
(* The two delayed lists of tasks.c.  A blocked task sits in a list sorted *)
(* by the tick count at which it wakes: in pxDelayedTaskList if that is    *)
(* still ahead, in pxOverflowDelayedTaskList if it comes after the count   *)
(* has wrapped around.  xNextTaskUnblockTime spares the tick a look at the *)
(* list.  A list in order of xItemValue is the set of its members.         *)
(*                                                                         *)
(* Interrupts happen between any two steps, but not in a critical section: *)
(* xTaskResumeAll replays the pended ticks in one.                         *)
(***************************************************************************)
EXTENDS TickCount, FiniteSetsExt

CONSTANTS
  Tasks, Idle,     \* the idle task never blocks
  MaxPended        \* bound: the ticks that pend while the scheduler is suspended

ASSUME DelayAssumption == MaxPended \in Nat /\ Idle \notin Tasks

VARIABLES
  xNextTaskUnblockTime,
  list,                 \* the list of each task's xStateListItem
  xItemValue,           \* and its value
  xPendingReadyList, onEventList,   \* tasks by the list of their xEventListItem
  caller,               \* the task that has suspended the scheduler
  pc,                   \* where it is
  xPendedTicks, xPendedCounts,
  pendedRead,           \* xPendedTicks as xTaskCatchUpTicks has read it
  resetDue              \* a task is between the two halves of vTaskSuspend

events == <<xPendingReadyList, onEventList>>
section == <<caller, pc, pendedRead>>
pended == <<xPendedTicks, xPendedCounts>>
vars == <<xTickCount, xNextTaskUnblockTime, list, xItemValue,
                 events, section, pended, resetDue>>

Lists == {"ready", "delayed", "overflow", "suspended"}

TypeOK ==
  /\ xTickCount \in TickType /\ xNextTaskUnblockTime \in TickType
  /\ list \in [Tasks -> Lists] /\ xItemValue \in [Tasks -> TickType]
  /\ xPendingReadyList \subseteq Tasks /\ onEventList \subseteq Tasks
  /\ caller \in Tasks \cup {Idle}
  /\ pc \in {"run", "suspended", "catchUp", "resume", "replay"}
  /\ xPendedTicks \in Nat /\ xPendedCounts \in Nat /\ pendedRead \in Nat
  /\ resetDue \in BOOLEAN

Init ==
  /\ xTickCount \in TickType                  \* configINITIAL_TICK_COUNT
  /\ xNextTaskUnblockTime = portMAX_DELAY
  /\ list = [t \in Tasks |-> "ready"] /\ xItemValue = [t \in Tasks |-> 0]
  /\ xPendingReadyList = {} /\ onEventList = {}
  /\ caller = Idle /\ pc = "run" /\ pendedRead = 0
  /\ xPendedTicks = 0 /\ xPendedCounts = 0
  /\ resetDue = FALSE

uxSchedulerSuspended == pc \in {"suspended", "catchUp", "resume"}
-----------------------------------------------------------------------------
(* prvResetNextTaskUnblockTime, where the tasks of D are delayed.          *)
HeadTime(D) == IF D = {} THEN portMAX_DELAY ELSE Min({xItemValue[t] : t \in D})

Members(l, name) == {t \in Tasks : l[t] = name}

(* vTaskSuspendAll, by a task that is running.                             *)
vTaskSuspendAll(c) ==
  /\ pc = "run" /\ c \in Members(list, "ready") \cup {Idle}
  /\ pc' = "suspended" /\ caller' = c
  /\ UNCHANGED <<xTickCount, xNextTaskUnblockTime, list, xItemValue,
                 events, pended, pendedRead, resetDue>>

(* prvAddCurrentTaskToDelayedList.                                         *)
WakeTimePastWrap(n) == xTickCount + n
WakeTime(n) == (xTickCount + n) % TickModulus

ListFor(wake) == IF wake < xTickCount THEN "overflow" ELSE "delayed"

UnblockTimeKept(wake) == xNextTaskUnblockTime
UnblockTimeWith(wake) == IF ListFor(wake) = "delayed" /\ wake < xNextTaskUnblockTime
                         THEN wake ELSE xNextTaskUnblockTime

AddCurrentTask(n, canBlockIndefinitely) ==
  IF n = portMAX_DELAY /\ canBlockIndefinitely
  THEN /\ list' = [list EXCEPT ![caller] = "suspended"]
       /\ UNCHANGED <<xItemValue, xNextTaskUnblockTime>>
  ELSE /\ xItemValue' = [xItemValue EXCEPT ![caller] = WakeTime(n)]
       /\ list' = [list EXCEPT ![caller] = ListFor(WakeTime(n))]
       /\ xNextTaskUnblockTime' = UnblockTimeWith(WakeTime(n))

(* vTaskDelay, and xTaskDelayUntil once it has computed how long.          *)
vTaskDelay(n) ==
  /\ pc = "suspended" /\ caller # Idle
  /\ AddCurrentTask(n, FALSE)
  /\ pc' = "resume"
  /\ UNCHANGED <<xTickCount, events, caller, pended,
                 pendedRead, resetDue>>

(* vTaskPlaceOnEventList, for a blocking call on a queue and the like.     *)
vTaskPlaceOnEventList(n) ==
  /\ pc = "suspended" /\ caller # Idle
  /\ onEventList' = onEventList \cup {caller}
  /\ AddCurrentTask(n, TRUE)
  /\ pc' = "resume"
  /\ UNCHANGED <<xTickCount, xPendingReadyList, caller, pended,
                 pendedRead, resetDue>>

(* xTaskAbortDelay.  eTaskGetState takes a task for blocked that is in a   *)
(* delayed list, or in the suspended list with its event item in a list.   *)
eBlocked(t) ==
  /\ t # caller
  /\ \/ list[t] \in {"delayed", "overflow"}
     \/ list[t] = "suspended" /\ t \in onEventList \cup xPendingReadyList

xTaskAbortDelay(t) ==
  /\ pc = "suspended" /\ eBlocked(t)
  /\ list' = [list EXCEPT ![t] = "ready"]
  /\ onEventList' = onEventList \ {t}
  /\ xPendingReadyList' = xPendingReadyList \ {t}
  /\ pc' = "resume"
  /\ UNCHANGED <<xTickCount, xNextTaskUnblockTime, xItemValue, caller, pended,
                 pendedRead, resetDue>>

(* xTaskCatchUpTicks adds to xPendedTicks outside any critical section.    *)
CatchUpTicks ==
  /\ pc = "suspended" /\ xPendedTicks < MaxPended
  /\ pendedRead' = xPendedTicks /\ pc' = "catchUp"
  /\ UNCHANGED <<xTickCount, xNextTaskUnblockTime, list, xItemValue,
                 events, caller, pended, resetDue>>

PendedTicksWritten(n) ==
  /\ pc = "catchUp"
  /\ xPendedTicks' = pendedRead + n
  /\ pendedRead' = 0 /\ pc' = "resume"
  /\ UNCHANGED <<xTickCount, xNextTaskUnblockTime, list, xItemValue,
                 events, caller, xPendedCounts, resetDue>>
-----------------------------------------------------------------------------
(* vTaskSuspend, which leaves a task in no other list, and corrects the    *)
(* unblock time in a critical section of its own.                          *)
vTaskSuspend(t) ==
  /\ pc = "run" \/ (pc = "suspended" /\ t # caller)
  /\ list' = [list EXCEPT ![t] = "suspended"]
  /\ onEventList' = onEventList \ {t}
  /\ xPendingReadyList' = xPendingReadyList \ {t}
  /\ resetDue' = TRUE
  /\ UNCHANGED <<xTickCount, xNextTaskUnblockTime, xItemValue, section, pended>>

prvResetNextTaskUnblockTime ==
  /\ resetDue /\ resetDue' = FALSE
  /\ pc \in {"run", "suspended"}
  /\ xNextTaskUnblockTime' = HeadTime(Members(list, "delayed"))
  /\ UNCHANGED <<xTickCount, list, xItemValue, events, section, pended>>

prvTaskIsTaskSuspended(t) ==
  list[t] = "suspended" /\ t \notin xPendingReadyList /\ t \notin onEventList

vTaskResume(t) ==
  /\ pc \in {"run", "suspended"} /\ prvTaskIsTaskSuspended(t)
  /\ list' = [list EXCEPT ![t] = "ready"]
  /\ UNCHANGED <<xTickCount, xNextTaskUnblockTime, xItemValue,
                 events, section, pended, resetDue>>

(* The interrupts: xTaskResumeFromISR and xTaskRemoveFromEventList.        *)
Readied(t) == IF uxSchedulerSuspended
              THEN /\ xPendingReadyList' = xPendingReadyList \cup {t}
                   /\ UNCHANGED list
              ELSE /\ list' = [list EXCEPT ![t] = "ready"]
                   /\ UNCHANGED xPendingReadyList

xTaskResumeFromISR(t) ==
  /\ pc # "replay" /\ prvTaskIsTaskSuspended(t)
  /\ Readied(t)
  /\ UNCHANGED <<xTickCount, xNextTaskUnblockTime, xItemValue, onEventList,
                 section, pended, resetDue>>

xTaskRemoveFromEventList(t) ==
  /\ pc # "replay" /\ t \in onEventList
  /\ onEventList' = onEventList \ {t}
  /\ Readied(t)
  /\ UNCHANGED <<xTickCount, xNextTaskUnblockTime, xItemValue, section, pended, resetDue>>
-----------------------------------------------------------------------------
(* xTaskIncrementTick with the scheduler running.                          *)
(* taskSWITCH_DELAYED_LISTS                                                *)
ListsKept == list
ListsSwitched == [t \in Tasks |-> CASE list[t] = "overflow" -> "delayed"
                                    [] list[t] = "delayed" -> "overflow"
                                    [] OTHER -> list[t]]

ListsAfterWrap == IF count = 0 THEN ListsSwitched ELSE list
UnblockTimeAfterWrap == IF count = 0 THEN HeadTime(Members(ListsSwitched, "delayed"))
                        ELSE xNextTaskUnblockTime

DueOneLater == IF count >= UnblockTimeAfterWrap
               THEN {t \in Members(ListsAfterWrap, "delayed") : xItemValue[t] < count}
               ELSE {}
Due == IF count >= UnblockTimeAfterWrap
       THEN {t \in Members(ListsAfterWrap, "delayed") : xItemValue[t] <= count}
       ELSE {}

IncrementTick ==
  /\ xTickCount' = count
  /\ list' = [t \in Tasks |-> IF t \in Due THEN "ready" ELSE ListsAfterWrap[t]]
  /\ onEventList' = onEventList \ Due
  /\ xNextTaskUnblockTime' = IF count >= UnblockTimeAfterWrap
                             THEN HeadTime(Members(ListsAfterWrap, "delayed") \ Due)
                             ELSE UnblockTimeAfterWrap
  /\ UNCHANGED xItemValue

(* The tick interrupt.                                                     *)
xTaskIncrementTick ==
  /\ pc # "replay"
  /\ IF uxSchedulerSuspended
     THEN /\ xPendedTicks < MaxPended /\ xPendedTicks' = xPendedTicks + 1
          /\ UNCHANGED <<xTickCount, xNextTaskUnblockTime, list, xItemValue, onEventList>>
     ELSE IncrementTick /\ UNCHANGED xPendedTicks
  /\ UNCHANGED <<xPendingReadyList, section, xPendedCounts, resetDue>>

(* xTaskResumeAll.                                                         *)
xTaskResumeAll ==
  /\ pc \in {"suspended", "resume"}
  /\ LET readied == [t \in Tasks |-> IF t \in xPendingReadyList THEN "ready" ELSE list[t]]
     IN  /\ list' = readied
         /\ xNextTaskUnblockTime' = IF xPendingReadyList = {} THEN xNextTaskUnblockTime
                                    ELSE HeadTime(Members(readied, "delayed"))
  /\ xPendingReadyList' = {}
  /\ xPendedCounts' = xPendedTicks
  /\ pc' = (IF xPendedTicks = 0 THEN "run" ELSE "replay") /\ caller' = Idle
  /\ UNCHANGED <<xTickCount, xItemValue, onEventList, xPendedTicks, pendedRead, resetDue>>

ReplayTick ==
  /\ pc = "replay"
  /\ IncrementTick
  /\ xPendedCounts' = xPendedCounts - 1
  /\ IF xPendedCounts' > 0 THEN UNCHANGED <<pc, xPendedTicks>>
     ELSE pc' = "run" /\ xPendedTicks' = 0
  /\ UNCHANGED <<xPendingReadyList, caller, pendedRead, resetDue>>

Next ==
  \/ \E c \in Tasks \cup {Idle} : vTaskSuspendAll(c)
  \/ \E n \in 1..portMAX_DELAY : vTaskDelay(n) \/ vTaskPlaceOnEventList(n)
  \/ \E t \in Tasks : \/ xTaskAbortDelay(t) \/ vTaskSuspend(t) \/ vTaskResume(t)
                      \/ xTaskResumeFromISR(t) \/ xTaskRemoveFromEventList(t)
  \/ prvResetNextTaskUnblockTime
  \/ CatchUpTicks
  \/ \E n \in 1..(MaxPended - pendedRead) : PendedTicksWritten(n)
  \/ xTaskIncrementTick
  \/ xTaskResumeAll
  \/ ReplayTick

Spec == Init /\ [][Next]_vars
-----------------------------------------------------------------------------
(* When the tick count wraps around, no task is left in the list of those  *)
(* that wake before: the assertion of taskSWITCH_DELAYED_LISTS.            *)
SwitchedEmpty == xTickCount = portMAX_DELAY => Members(list, "delayed") = {}

(* No operation that changes the delayed list leaves xNextTaskUnblockTime  *)
(* behind the head of the list, or the tick would pass the task by.        *)
NoTaskPassedBy == \A t \in Members(list, "delayed") :
                    xTickCount < xItemValue[t] /\ xNextTaskUnblockTime <= xItemValue[t]

(* Every blocked task waits for exactly the ticks it asked for, whatever   *)
(* wraps around, pends or happens to other tasks in the meantime.          *)
ticksLeft == [t \in Tasks |-> CASE list[t] = "delayed" -> xItemValue[t] - xTickCount
                                [] list[t] = "overflow" -> xItemValue[t] + TickModulus - xTickCount
                                [] OTHER -> 0]

Waits == INSTANCE TimedWaits WITH now <- xTickCount, remaining <- ticksLeft
ImplementsTimedWaits == Waits!Spec

(* A timed wait comes to an end, as long as every task that suspends the   *)
(* scheduler resumes it.                                                   *)
WaitsEnd == \A t \in Tasks : (list[t] \in {"delayed", "overflow"})
                               ~> (list[t] \notin {"delayed", "overflow"})
=============================================================================
