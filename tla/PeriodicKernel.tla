--------------------------- MODULE PeriodicKernel ---------------------------
(***************************************************************************)
(* The periodic part of tasks.c at the grain of its list operations: task  *)
(* creation, the tick handler with its walks over the ready and the wait   *)
(* list, one task per step, and the timer daemon, whose vTaskSuspendAll    *)
(* makes ticks pend until xTaskResumeAll replays them.  The walks run with *)
(* every signal masked, so no other step comes between theirs.             *)
(*                                                                         *)
(* The definitions no other one uses are faults, as in PeriodicScheduler.  *)
(***************************************************************************)
EXTENDS PeriodicTasks, KernelList, FiniteSets

CONSTANT Nobody    \* no task: pxCurrentTCB and Tcb before they point to one

ASSUME KernelAssumption == Nobody \notin Tasks \cup {Idle, Timer}

VARIABLES
  xTickCount, readyList, waitList, pxCurrentTCB,
  xRemainingTicks, start_time, xItemValue, previous_deadline_met,
  report, times_killed, weakly_hard, exited,
  pc,                    \* where the tick handler is: "create" and "run" outside it
  Tcb, left,             \* the walk: the task at hand, and how many are still to come
  daemon,                \* where prvTimerTask is
  uxSchedulerSuspended,
  xPendedTicks, xPendedCounts, xYieldPending,
  saved                  \* history: the view of PeriodicScheduler when the tick began

tcbVars == <<xRemainingTicks, start_time, xItemValue, previous_deadline_met>>
simVars == <<report, times_killed, weakly_hard>>
walkVars == <<Tcb, left>>
daemonVars == <<daemon, uxSchedulerSuspended, xPendedTicks, xPendedCounts, xYieldPending>>
vars == <<config, xTickCount, readyList, waitList, pxCurrentTCB, tcbVars, simVars,
          exited, pc, walkVars, daemonVars, saved>>
-----------------------------------------------------------------------------
(* What PeriodicScheduler sees: the state between ticks.                   *)
Snapshot ==
  [xTickCount |-> xTickCount, readyTasks |-> Members(readyList),
   xWaitTaskList |-> Members(waitList), pxCurrentTCB |-> pxCurrentTCB,
   xRemainingTicks |-> xRemainingTicks, start_time |-> start_time,
   xItemValue |-> xItemValue, previous_deadline_met |-> previous_deadline_met,
   report |-> report, times_killed |-> times_killed, weakly_hard |-> weakly_hard,
   exited |-> exited]

(* The scheduler starts with every task created.                           *)
AtStart ==
  [xTickCount |-> 0, readyTasks |-> {t \in Tasks : GoesReady(t, 0)},
   xWaitTaskList |-> {t \in Tasks : ~GoesReady(t, 0)}, pxCurrentTCB |-> Timer,
   xRemainingTicks |-> [t \in Tasks |-> Duration(t)], start_time |-> start_time,
   xItemValue |-> [t \in Tasks |-> ReadyKey(t, 0, 0)],
   previous_deadline_met |-> [t \in Tasks |-> 0],
   report |-> [t \in Tasks |-> {}], times_killed |-> [t \in Tasks |-> 0],
   weakly_hard |-> 1, exited |-> FALSE]

View == IF pc = "run" THEN Snapshot ELSE saved

Scheduler == INSTANCE PeriodicScheduler WITH
  xTickCount <- View.xTickCount, readyTasks <- View.readyTasks,
  xWaitTaskList <- View.xWaitTaskList, pxCurrentTCB <- View.pxCurrentTCB,
  xRemainingTicks <- View.xRemainingTicks, start_time <- View.start_time,
  xItemValue <- View.xItemValue,
  previous_deadline_met <- View.previous_deadline_met,
  report <- View.report, times_killed <- View.times_killed,
  weakly_hard <- View.weakly_hard, exited <- View.exited
-----------------------------------------------------------------------------
Init ==
  /\ ConfigInit
  /\ xTickCount = 0
  /\ readyList = vListInitialise
  /\ waitList = vListInitialise
  /\ pxCurrentTCB = Nobody
  /\ xRemainingTicks = [t \in Tasks |-> 0]
  /\ start_time \in [Tasks -> UninitStartTime]
  /\ xItemValue = [t \in Tasks |-> ReadyKey(t, 0, 0)]
  /\ previous_deadline_met = [t \in Tasks |-> 0]
  /\ report = [t \in Tasks |-> {}]
  /\ times_killed = [t \in Tasks |-> 0]
  /\ weakly_hard = 1
  /\ exited = FALSE
  /\ pc = "create" /\ Tcb = Nobody /\ left = 0
  /\ daemon = "start" /\ uxSchedulerSuspended = 0
  /\ xPendedTicks = 0 /\ xPendedCounts = 0 /\ xYieldPending = FALSE
  /\ saved = AtStart

(* prvAddTaskToReadyList, for a task in neither of the given lists.        *)
prvAddTaskToReadyList(t, ready, wait) ==
  LET key == IF GoesReady(t, previous_deadline_met[t])
             THEN [xItemValue EXCEPT ![t] =
                     ReadyKey(t, xTickCount, previous_deadline_met[t])]
             ELSE xItemValue
  IN /\ xItemValue' = key
     /\ readyList' = IF GoesReady(t, previous_deadline_met[t])
                     THEN vListInsert(ready, t, {u \in Tasks : Precedes(key[t], key[u])})
                     ELSE ready
     /\ waitList' = IF ~GoesReady(t, previous_deadline_met[t]) /\ xTickCount = 0
                    THEN vListInsertEnd(wait, t)
                    ELSE wait

(* main_demo_periodic creates the tasks in the order of their ids; each is *)
(* made current in turn, having the priority of the ones before it.        *)
xTaskCreatePeriodic ==
  LET missing == Tasks \ (Members(readyList) \cup Members(waitList))
  IN \E t \in missing :
       /\ pc = "create"
       /\ \A u \in missing : t <= u
       /\ xRemainingTicks' = [xRemainingTicks EXCEPT ![t] = Duration(t)]
       /\ pxCurrentTCB' = t
       /\ prvAddTaskToReadyList(t, readyList, waitList)
       /\ UNCHANGED <<config, xTickCount, start_time, previous_deadline_met, simVars,
                      exited, pc, walkVars, daemonVars, saved>>

(* The idle task and then the timer daemon are created; the daemon has the *)
(* highest priority.                                                       *)
vTaskStartScheduler ==
  /\ pc = "create"
  /\ Members(readyList) \cup Members(waitList) = Tasks
  /\ pc' = "run"
  /\ pxCurrentTCB' = Timer
  /\ UNCHANGED <<config, xTickCount, readyList, waitList, tcbVars, simVars, exited,
                 walkVars, daemonVars, saved>>
-----------------------------------------------------------------------------
(* vTaskSwitchContext: the head of the highest priority list that is not   *)
(* empty, unless the scheduler is suspended.                               *)
DaemonReady == daemon \in {"start", "suspended"}

HighestPriorityTask ==
  IF DaemonReady THEN Timer
  ELSE IF readyList.items # <<>> THEN listGET_OWNER_OF_HEAD_ENTRY(readyList)
  ELSE Idle

vTaskSwitchContext ==
  IF uxSchedulerSuspended # 0
  THEN xYieldPending' = TRUE /\ UNCHANGED pxCurrentTCB
  ELSE xYieldPending' = FALSE /\ pxCurrentTCB' = HighestPriorityTask
-----------------------------------------------------------------------------
(* xTaskIncrementTick with the scheduler running, up to its call of        *)
(* killTasks: count the tick, charge it to the current task, move that     *)
(* task to the wait list when its job is complete, and exit at the         *)
(* hyperperiod.                                                            *)
Elapsed(t, tick) == IF tick >= start_time[t] THEN tick - start_time[t]
                    ELSE tick - start_time[t] + TickModulus

xTaskIncrementTick ==
  LET tick == xTickCount + 1
      t == pxCurrentTCB
      remaining == IF xRemainingTicks[t] > 0 THEN xRemainingTicks[t] - 1 ELSE 0
      completes == t \in Tasks /\ remaining = 0 /\ Elapsed(t, tick) <= Period(t)
      ready == IF completes THEN uxListRemove(readyList, t) ELSE readyList
      exits == tick = Hiperperiod
  IN /\ xTickCount' = tick
     /\ saved' = Snapshot
     /\ xRemainingTicks' = IF t \in Tasks THEN [xRemainingTicks EXCEPT ![t] = remaining]
                                          ELSE xRemainingTicks
     /\ report' = IF completes
                  THEN [report EXCEPT ![t] = @ \cup {start_time[t] \div Period(t)}]
                  ELSE report
     /\ previous_deadline_met' =
          IF completes /\ Constraint(t) # 0
          THEN [previous_deadline_met EXCEPT ![t] = MetOnce(@)]
          ELSE previous_deadline_met
     /\ waitList' = IF completes THEN vListInsertEnd(waitList, t) ELSE waitList
     /\ exited' = exits
     /\ pc' = IF exits THEN "run" ELSE "kill"
     /\ readyList' = IF exits THEN ready ELSE FirstEntry(ready)
     /\ Tcb' = IF exits THEN Tcb ELSE OwnerAtIndex(readyList', Nobody)
     /\ left' = IF exits THEN left ELSE Len(ready.items)
     /\ UNCHANGED <<config, start_time, xItemValue, times_killed, weakly_hard>>

(* The tick signal is masked while a handler runs and while xTaskResumeAll *)
(* replays ticks in its critical section.                                  *)
TickSignal == /\ ~exited
              /\ pc = "run"
              /\ daemon # "replaying"
              /\ pxCurrentTCB = Timer => xTickCount + xPendedTicks < MaxStartupTicks

(* The handler interrupts the running task ...                             *)
vPortSystemTickHandler ==
  /\ TickSignal
  /\ uxSchedulerSuspended = 0
  /\ xTaskIncrementTick
  /\ UNCHANGED <<pxCurrentTCB, daemonVars>>

(* ... or, with the scheduler suspended, only counts the tick.             *)
PendTick ==
  /\ TickSignal
  /\ uxSchedulerSuspended # 0
  /\ xPendedTicks' = xPendedTicks + 1
  /\ vTaskSwitchContext
  /\ UNCHANGED <<config, xTickCount, readyList, waitList, tcbVars, simVars, exited, pc,
                 walkVars, daemon, uxSchedulerSuspended, xPendedCounts, saved>>
-----------------------------------------------------------------------------
(* killTasks, one task of the ready list per step.                         *)
WalkingOneMore(where) == pc = where /\ left >= 0
Walking(where) == pc = where /\ left > 0

Hopeless(t) ==
  LET sum == Elapsed(t, xTickCount) + xRemainingTicks[t]
  IN (IF sum < TickModulus THEN sum ELSE sum - TickModulus) > Period(t)

check_weakly_hard(t) ==
  weakly_hard' = IF \/ Constraint(t) = 0
                    \/ previous_deadline_met[t] < Constraint(t) - 1
                 THEN 0 ELSE weakly_hard

WalkByLength(list) == /\ Tcb' = OwnerAtIndex(list, Nobody)
                      /\ left' = Len(list.items)
                      /\ UNCHANGED <<config, xTickCount, pxCurrentTCB, report, exited, pc,
                                     daemonVars, saved>>

WalkOn(list) == /\ Tcb' = OwnerAtIndex(list, Nobody)
                /\ left' = left - 1
                /\ UNCHANGED <<config, xTickCount, pxCurrentTCB, report, exited, pc,
                               daemonVars, saved>>

KillTask ==
  /\ Walking("kill")
  /\ Hopeless(Tcb)
  /\ times_killed' = [times_killed EXCEPT ![Tcb] = @ + 1]
  /\ check_weakly_hard(Tcb)
  /\ previous_deadline_met' = [previous_deadline_met EXCEPT ![Tcb] = 0]
  /\ readyList' = NextEntry(uxListRemove(readyList, Tcb))
  /\ waitList' = vListInsertEnd(waitList, Tcb)
  /\ WalkOn(readyList')
  /\ UNCHANGED <<xRemainingTicks, start_time, xItemValue>>

SpareTask ==
  /\ Walking("kill")
  /\ ~Hopeless(Tcb)
  /\ readyList' = NextEntry(readyList)
  /\ WalkOn(readyList')
  /\ UNCHANGED <<waitList, tcbVars, times_killed, weakly_hard>>

(* The ready list is walked; wakeTasks starts on the wait list.            *)
KillTasksReturns ==
  /\ pc = "kill" /\ left = 0
  /\ pc' = "wake"
  /\ waitList' = FirstEntry(waitList)
  /\ Tcb' = OwnerAtIndex(waitList', Nobody)
  /\ left' = Len(waitList.items)
  /\ UNCHANGED <<config, xTickCount, readyList, pxCurrentTCB, tcbVars, simVars, exited,
                 daemonVars, saved>>
-----------------------------------------------------------------------------
(* wakeTasks, one task of the wait list per step.                          *)
PeriodStarts(t) == xTickCount % Period(t) = 0

MayBeSkipped(t) == /\ Algorithm = "RTO"
                   /\ Constraint(t) # 0
                   /\ previous_deadline_met[t] >= Constraint(t) - 1

NewJob(t) == /\ xRemainingTicks' = [xRemainingTicks EXCEPT ![t] = Duration(t)]
             /\ start_time' = [start_time EXCEPT ![t] = xTickCount]

WakeTask ==
  /\ Walking("wake")
  /\ PeriodStarts(Tcb)
  /\ ~MayBeSkipped(Tcb)
  /\ NewJob(Tcb)
  /\ prvAddTaskToReadyList(Tcb, readyList, NextEntry(uxListRemove(waitList, Tcb)))
  /\ WalkOn(waitList')
  /\ UNCHANGED <<previous_deadline_met, times_killed, weakly_hard>>

SkipTask ==
  /\ Walking("wake")
  /\ PeriodStarts(Tcb)
  /\ MayBeSkipped(Tcb)
  /\ NewJob(Tcb)
  /\ previous_deadline_met' = [previous_deadline_met EXCEPT ![Tcb] = 0]
  /\ waitList' = NextEntry(waitList)
  /\ WalkOn(waitList')
  /\ UNCHANGED <<readyList, xItemValue, times_killed, weakly_hard>>

LeaveTask ==
  /\ Walking("wake")
  /\ ~PeriodStarts(Tcb)
  /\ waitList' = NextEntry(waitList)
  /\ WalkOn(waitList')
  /\ UNCHANGED <<readyList, tcbVars, times_killed, weakly_hard>>

(* xTaskIncrementTick returns to the tick handler, which always switches,  *)
TickHandlerReturns ==
  /\ pc = "wake" /\ left = 0
  /\ daemon # "replaying"
  /\ pc' = "run"
  /\ vTaskSwitchContext
  /\ UNCHANGED <<config, xTickCount, readyList, waitList, tcbVars, simVars, exited,
                 walkVars, daemon, uxSchedulerSuspended, xPendedTicks, xPendedCounts, saved>>

(* or to the loop of xTaskResumeAll, which does not.                       *)
ReplayReturns ==
  /\ pc = "wake" /\ left = 0
  /\ daemon = "replaying"
  /\ pc' = "run"
  /\ xPendedCounts' = xPendedCounts - 1
  /\ UNCHANGED <<config, xTickCount, readyList, waitList, pxCurrentTCB, tcbVars, simVars,
                 exited, walkVars, daemon, uxSchedulerSuspended, xPendedTicks,
                 xYieldPending, saved>>
-----------------------------------------------------------------------------
(* prvTimerTask: with no timer active, it suspends the scheduler, places   *)
(* itself on the queue of timer commands with no time limit, resumes the   *)
(* scheduler and yields.  Nothing wakes it again.                          *)
DaemonStep(from, to) ==
  /\ ~exited /\ pc = "run"
  /\ daemon = from /\ daemon' = to
  /\ UNCHANGED <<config, xTickCount, readyList, waitList, tcbVars, simVars, exited, pc,
                 walkVars, saved>>

vTaskSuspendAll ==
  /\ DaemonStep("start", "suspended")
  /\ uxSchedulerSuspended' = uxSchedulerSuspended + 1
  /\ UNCHANGED <<pxCurrentTCB, xPendedTicks, xPendedCounts, xYieldPending>>

vTaskPlaceOnEventListRestricted ==
  /\ DaemonStep("suspended", "placed")
  /\ UNCHANGED <<pxCurrentTCB, uxSchedulerSuspended, xPendedTicks, xPendedCounts,
                 xYieldPending>>

ResumeForgetsTicks ==
  /\ DaemonStep("placed", "replaying")
  /\ uxSchedulerSuspended' = uxSchedulerSuspended - 1
  /\ UNCHANGED <<pxCurrentTCB, xPendedTicks, xPendedCounts, xYieldPending>>

xTaskResumeAll ==
  /\ DaemonStep("placed", "replaying")
  /\ uxSchedulerSuspended' = uxSchedulerSuspended - 1
  /\ xPendedCounts' = xPendedTicks
  /\ UNCHANGED <<pxCurrentTCB, xPendedTicks, xYieldPending>>

ReplayTick ==
  /\ ~exited /\ pc = "run"
  /\ daemon = "replaying" /\ xPendedCounts > 0
  /\ xTaskIncrementTick
  /\ UNCHANGED <<pxCurrentTCB, daemonVars>>

(* The loop over, xTaskResumeAll yields if a switch was asked for.         *)
ResumeAllReturns ==
  /\ xPendedCounts = 0
  /\ DaemonStep("replaying", IF xYieldPending THEN "blocked" ELSE "yielding")
  /\ xPendedTicks' = 0
  /\ IF xYieldPending THEN vTaskSwitchContext
     ELSE UNCHANGED <<pxCurrentTCB, xYieldPending>>
  /\ UNCHANGED <<uxSchedulerSuspended, xPendedCounts>>

(* portYIELD_WITHIN_API, unless a tick switched the daemon out before it.  *)
vPortYield ==
  /\ pxCurrentTCB = Timer
  /\ DaemonStep("yielding", "blocked")
  /\ vTaskSwitchContext
  /\ UNCHANGED <<uxSchedulerSuspended, xPendedTicks, xPendedCounts>>
-----------------------------------------------------------------------------
Boot == xTaskCreatePeriodic \/ vTaskStartScheduler
Tick == vPortSystemTickHandler \/ PendTick
Handler == \/ KillTask \/ SpareTask \/ KillTasksReturns
           \/ WakeTask \/ SkipTask \/ LeaveTask
           \/ TickHandlerReturns \/ ReplayReturns
Daemon == \/ vTaskSuspendAll \/ vTaskPlaceOnEventListRestricted
          \/ xTaskResumeAll \/ ReplayTick \/ ResumeAllReturns \/ vPortYield

Next == Boot \/ Tick \/ Handler \/ Daemon

(* The interval timer keeps firing; the code that runs, of main, of a      *)
(* handler or of the daemon while it holds the processor, goes on.         *)
Fairness == WF_vars(Boot) /\ WF_vars(Tick) /\ WF_vars(Handler) /\ WF_vars(Daemon)

Spec == Init /\ [][Next]_vars
FairSpec == Spec /\ Fairness
-----------------------------------------------------------------------------
TypeOK ==
  /\ \A list \in {readyList, waitList} : /\ list.items \in Seq(Tasks)
                                        /\ list.pxIndex \in 0..Len(list.items)
  /\ xTickCount \in Nat
  /\ pxCurrentTCB \in Tasks \cup {Idle, Timer, Nobody}
  /\ previous_deadline_met \in [Tasks -> 0..(CounterModulus - 1)]
  /\ pc \in {"create", "run", "kill", "wake"}
  /\ Tcb \in Tasks \cup {Nobody} /\ left \in 0..Cardinality(Tasks)
  /\ daemon \in {"start", "suspended", "placed", "replaying", "yielding", "blocked"}
  /\ uxSchedulerSuspended \in {0, 1}
  /\ xPendedTicks \in 0..MaxStartupTicks /\ xPendedCounts \in 0..xPendedTicks

(* Whatever a handler is in the middle of, no item is linked twice, and    *)
(* the ready list is sorted by the keys its items hold.                    *)
ListsWellFormed ==
  LET linked == readyList.items \o waitList.items
  IN /\ TypeOK
     /\ \A p, q \in DOMAIN linked : linked[p] = linked[q] => p = q
     /\ \A p, q \in DOMAIN readyList.items :
          p < q => ~Precedes(xItemValue[readyList.items[q]], xItemValue[readyList.items[p]])

(* killTasks and wakeTasks only follow Tcb to a task that is in the list   *)
(* they walk, although they unlink tasks from under pxIndex as they go.    *)
WalkStaysInList ==
  /\ Walking("kill") => Tcb \in Members(readyList)
  /\ Walking("wake") => Tcb \in Members(waitList)

(* A step of the list-level kernel is a step, or none, of the scheduler.   *)
ImplementsScheduler == Scheduler!Spec

(* The ticks counted, and those that pended and are still to be replayed:  *)
(* the copy xTaskResumeAll counts down less the one being handled, which   *)
(* may be the one whose handler leaves the program.                        *)
Owed == IF daemon = "replaying"
        THEN xPendedCounts - (IF pc = "run" /\ ~exited THEN 0 ELSE 1) ELSE xPendedTicks
TicksAccounted == xTickCount + Owed

(* Every signal of the timer is accounted for once, on its arrival, and    *)
(* nothing else is: the replay of xTaskResumeAll, which walks the lists    *)
(* for every tick that pended and clears xPendedTicks only at its end,     *)
(* neither forgets a tick nor counts one twice.                            *)
CountsSignals == TicksAccounted' = TicksAccounted + (IF Tick THEN 1 ELSE 0)
NoTickLost == [][CountsSignals]_vars

(* The tick count meets the hyperperiod, so every run ends with a report.  *)
Exits == <>exited
=============================================================================
