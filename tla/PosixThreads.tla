---------------------------- MODULE PosixThreads ----------------------------
(***************************************************************************)
(* How the Posix port makes one processor out of one host thread per task: *)
(* port.c with the events of wait_for_event.c, at the grain at which       *)
(* threads and the tick signal can interleave.                             *)
(*                                                                         *)
(* pc[t] is where thread t is: "task" in the code of its task, "lock",     *)
(* "held" and "waiting" in event_wait, "handler" in the signal handler.    *)
(* interrupted[t] is the pc the signal found, and frame[t] tells what      *)
(* event_wait returns to; a local variable is reset where it dies.  Which  *)
(* task vTaskSwitchContext picks is left open: any that is not deleted.    *)
(* depth is not in the code: the critical sections a task has entered and  *)
(* not left.                                                               *)
(***************************************************************************)
EXTENDS Integers, TLC

CONSTANTS
  Tasks, Idle,    \* the idle task is one of Tasks and never deleted
  Main,           \* the thread of main, which starts the scheduler
  NoTask,
  MaxNesting      \* bound: critical sections a task nests

Threads == Tasks \cup {Main}

Symmetry == Permutations(Tasks \ {Idle})

ASSUME ThreadsAssumption == Idle \in Tasks /\ Main \notin Tasks /\ NoTask \notin Tasks

VARIABLES
  pc, frame, interrupted,
  blocked,                  \* the threads that block the tick signal
  triggered,                \* event_triggered of each thread's event
  uxCriticalNesting, saved, \* the counter, and uxSavedCriticalNesting of each thread
  pxCurrentTCB, target,     \* pxThreadToResume of each thread
  depth,
  timerOn,                  \* setitimer has been called
  dying, deleted, xTasksWaitingTermination, victim, cancelled, freed

where == <<pc, frame, interrupted>>
nesting == <<uxCriticalNesting, saved, depth>>
deletion == <<dying, deleted, xTasksWaitingTermination, victim, cancelled, freed>>
vars == <<where, blocked, triggered, nesting, pxCurrentTCB, target, timerOn, deletion>>

(* main has created a thread for every task, each in event_wait with the   *)
(* mask it inherited from the critical section it was created in, and has  *)
(* left that critical section.                                             *)
Init ==
  /\ pc = [t \in Threads |-> IF t = Main THEN "disable" ELSE "lock"]
  /\ frame = [t \in Threads |-> IF t = Main THEN "task" ELSE "start"]
  /\ interrupted = [t \in Threads |-> "no"]
  /\ blocked = Tasks
  /\ triggered = [t \in Tasks |-> FALSE]
  /\ uxCriticalNesting = 0
  /\ saved = [t \in Threads |-> 0] /\ depth = [t \in Threads |-> 0]
  /\ pxCurrentTCB \in Tasks
  /\ target = [t \in Threads |-> NoTask]
  /\ timerOn = FALSE
  /\ dying = {} /\ deleted = {} /\ xTasksWaitingTermination = {}
  /\ victim = [t \in Tasks |-> NoTask]
  /\ cancelled = {} /\ freed = {}

Go(t, from, to) == pc[t] = from /\ pc' = [pc EXCEPT ![t] = to]
-----------------------------------------------------------------------------
(* vTaskStartScheduler disables interrupts, xPortStartScheduler starts the *)
(* timer and resumes the first task, and then waits for a signal.          *)
StillEnabled == blocked
MainDisabled == blocked \cup {Main}

portDISABLE_INTERRUPTS ==
  /\ Go(Main, "disable", "timer")
  /\ blocked' = MainDisabled
  /\ UNCHANGED <<frame, interrupted, triggered, nesting, pxCurrentTCB, target,
                 timerOn, deletion>>

prvSetupTimerInterrupt ==
  /\ Go(Main, "timer", "signal")
  /\ timerOn' = TRUE
  /\ target' = [target EXCEPT ![Main] = pxCurrentTCB]
  /\ UNCHANGED <<frame, interrupted, blocked, triggered, nesting, pxCurrentTCB, deletion>>
-----------------------------------------------------------------------------
(* A thread woken from its wait tests the flag again.                      *)
WokenPastTest == "resumed"
Woken == "lock"

(* event_signal: with the mutex, which the waiter holds only from a test   *)
(* of the flag to its wait, sets the flag and wakes the waiter.            *)
MutexIgnored(u) == TRUE
MutexFree(u) == pc[u] # "held"

event_signal(t, u, to) ==
  /\ pc[t] = "signal"
  /\ MutexFree(u)
  /\ triggered' = [triggered EXCEPT ![u] = TRUE]
  /\ pc' = [pc EXCEPT ![t] = to, ![u] = IF @ = "waiting" THEN Woken ELSE @]

event_wait(t) ==
  /\ t \in Tasks
  /\ IF triggered[t]
     THEN /\ Go(t, "lock", "resumed")
          /\ triggered' = [triggered EXCEPT ![t] = FALSE]
     ELSE Go(t, "lock", "held") /\ UNCHANGED triggered
  /\ UNCHANGED <<frame, interrupted, blocked, nesting, pxCurrentTCB, target, timerOn, deletion>>

(* The wait releases the mutex; it is the point where a thread can be      *)
(* cancelled, before or during it.                                         *)
pthread_cond_wait(t) ==
  /\ Go(t, "held", IF t \in cancelled THEN "gone" ELSE "waiting")
  /\ UNCHANGED <<frame, interrupted, blocked, triggered, nesting, pxCurrentTCB, target,
                 timerOn, deletion>>

CancelledInWait(t) ==
  /\ t \in cancelled
  /\ Go(t, "waiting", "gone")
  /\ UNCHANGED <<frame, interrupted, blocked, triggered, nesting, pxCurrentTCB, target,
                 timerOn, deletion>>

SpuriousWakeup(t) ==
  /\ Go(t, "waiting", Woken)
  /\ UNCHANGED <<frame, interrupted, blocked, triggered, nesting, pxCurrentTCB, target,
                 timerOn, deletion>>
-----------------------------------------------------------------------------
(* vPortSystemTickHandler, on any thread that does not block the signal.   *)
vPortSystemTickHandler(t) ==
  /\ timerOn /\ t \notin blocked /\ pc[t] # "gone"
  /\ pc' = [pc EXCEPT ![t] = "switch"]
  /\ interrupted' = [interrupted EXCEPT ![t] = pc[t]]
  /\ blocked' = blocked \cup {t}
  /\ uxCriticalNesting' = uxCriticalNesting + 1
  /\ UNCHANGED <<frame, triggered, saved, depth, pxCurrentTCB, target, timerOn, deletion>>

(* vTaskSwitchContext, and prvSwitchThread up to the resumption.           *)
NestingSaved(t) == [saved EXCEPT ![t] = uxCriticalNesting]

vTaskSwitchContext(t) ==
  /\ pc[t] = "switch"
  /\ \E u \in Tasks \ deleted :
       /\ pxCurrentTCB' = u
       /\ IF u = t
          THEN pc' = [pc EXCEPT ![t] = "return"] /\ UNCHANGED <<saved, target>>
          ELSE /\ pc' = [pc EXCEPT ![t] = "signal"]
               /\ saved' = NestingSaved(t)
               /\ target' = [target EXCEPT ![t] = u]
  /\ UNCHANGED <<frame, interrupted, blocked, triggered, uxCriticalNesting, depth,
                 timerOn, deletion>>

prvResumeThread(t) ==
  /\ event_signal(t, target[t], "suspend")
  /\ target' = [target EXCEPT ![t] = NoTask]
  /\ UNCHANGED <<frame, interrupted, blocked, nesting, pxCurrentTCB, timerOn, deletion>>

(* The rest of prvSwitchThread before the wait; main waits in sigwait.     *)
prvSuspendSelf(t) ==
  /\ Go(t, "suspend", IF t = Main THEN "sigwait" ELSE IF t \in dying THEN "gone" ELSE "lock")
  /\ UNCHANGED <<frame, interrupted, blocked, triggered, nesting, pxCurrentTCB, target,
                 timerOn, deletion>>

(* After the wait: prvWaitForStart begins with no critical section, and    *)
(* prvSwitchThread restores the counter it saved.                          *)
FirstNestingKept == uxCriticalNesting
FirstNesting == 0

Resumed(t) ==
  /\ uxCriticalNesting' = IF frame[t] = "start" THEN FirstNesting ELSE saved[t]
  /\ Go(t, "resumed", IF frame[t] = "start" THEN "unmask" ELSE "return")
  /\ saved' = [saved EXCEPT ![t] = 0]
  /\ UNCHANGED <<frame, interrupted, blocked, triggered, depth, pxCurrentTCB, target,
                 timerOn, deletion>>

(* The handler returns to what it interrupted, with the mask of then.      *)
HandlerReturns(t) ==
  /\ pc[t] = "return" /\ interrupted[t] # "no"
  /\ pc' = [pc EXCEPT ![t] = interrupted[t]]
  /\ interrupted' = [interrupted EXCEPT ![t] = "no"]
  /\ uxCriticalNesting' = uxCriticalNesting - 1
  /\ blocked' = blocked \ {t}
  /\ UNCHANGED <<frame, triggered, saved, depth, pxCurrentTCB, target, timerOn, deletion>>

YieldReturns(t) ==
  /\ interrupted[t] = "no"
  /\ Go(t, "return", "leave")
  /\ frame' = [frame EXCEPT ![t] = "task"]
  /\ UNCHANGED <<interrupted, blocked, triggered, nesting, pxCurrentTCB, target,
                 timerOn, deletion>>
-----------------------------------------------------------------------------
(* The code of a task: nested critical sections and yields.  A task that   *)
(* deletes does nothing else until it is done.                             *)
Deleting(t) == t \in dying \/ victim[t] # NoTask

TestNesting(t) == Go(t, "task", IF uxCriticalNesting = 0 THEN "mask" ELSE "count")

vPortEnterCritical(t) ==
  /\ ~Deleting(t) /\ depth[t] < MaxNesting
  /\ TestNesting(t)
  /\ UNCHANGED <<frame, interrupted, blocked, triggered, nesting, pxCurrentTCB, target,
                 timerOn, deletion>>

(* vPortYield, which begins with a critical section.                       *)
vPortYield(t) ==
  /\ IF t \in dying THEN depth[t] = 0 ELSE ~Deleting(t)
  /\ TestNesting(t)
  /\ frame' = [frame EXCEPT ![t] = "yield"]
  /\ UNCHANGED <<interrupted, blocked, triggered, nesting, pxCurrentTCB, target,
                 timerOn, deletion>>

vPortDisableInterrupts(t) ==
  /\ Go(t, "mask", "count")
  /\ blocked' = blocked \cup {t}
  /\ UNCHANGED <<frame, interrupted, triggered, nesting, pxCurrentTCB, target, timerOn, deletion>>

CountNesting(t) ==
  /\ Go(t, "count", IF frame[t] = "yield" THEN "switch" ELSE "task")
  /\ uxCriticalNesting' = uxCriticalNesting + 1
  /\ depth' = IF frame[t] = "yield" THEN depth ELSE [depth EXCEPT ![t] = @ + 1]
  /\ UNCHANGED <<frame, interrupted, blocked, triggered, saved, pxCurrentTCB, target,
                 timerOn, deletion>>

vPortExitCritical(t) ==
  /\ Go(t, "task", "leave")
  /\ depth[t] > 0
  /\ depth' = [depth EXCEPT ![t] = @ - 1]
  /\ UNCHANGED <<frame, interrupted, blocked, triggered, uxCriticalNesting, saved,
                 pxCurrentTCB, target, timerOn, deletion>>

LeaveCritical(t) ==
  /\ Go(t, "leave", IF uxCriticalNesting = 1 THEN "unmask" ELSE "task")
  /\ uxCriticalNesting' = uxCriticalNesting - 1
  /\ UNCHANGED <<frame, interrupted, blocked, triggered, saved, depth, pxCurrentTCB, target,
                 timerOn, deletion>>

vPortEnableInterrupts(t) ==
  /\ Go(t, "unmask", "task")
  /\ frame' = [frame EXCEPT ![t] = "task"]
  /\ blocked' = blocked \ {t}
  /\ UNCHANGED <<interrupted, triggered, nesting, pxCurrentTCB, target, timerOn, deletion>>
-----------------------------------------------------------------------------
(* vTaskDelete of the running task, in its critical section: the idle task *)
(* is to clean up; the task leaves the section and yields for ever.        *)
vPortThreadDying(t) ==
  /\ pc[t] = "task" /\ depth[t] = 1 /\ ~Deleting(t) /\ t # Idle
  /\ dying' = dying \cup {t}
  /\ deleted' = deleted \cup {t}
  /\ xTasksWaitingTermination' = xTasksWaitingTermination \cup {t}
  /\ UNCHANGED <<where, blocked, triggered, nesting, pxCurrentTCB, target, timerOn,
                 victim, cancelled, freed>>

(* vTaskDelete of another task, and the idle task's clean-up, choose in a  *)
(* critical section the task whose thread prvDeleteTCB ends after it.      *)
vTaskDelete(t, u) ==
  /\ pc[t] = "task" /\ depth[t] = 1 /\ ~Deleting(t)
  /\ u \notin deleted \cup {t, Idle}
  /\ deleted' = deleted \cup {u}
  /\ victim' = [victim EXCEPT ![t] = u]
  /\ UNCHANGED <<where, blocked, triggered, nesting, pxCurrentTCB, target, timerOn,
                 dying, xTasksWaitingTermination, cancelled, freed>>

prvCheckTasksWaitingTermination(u) ==
  /\ pc[Idle] = "task" /\ depth[Idle] = 1 /\ ~Deleting(Idle)
  /\ u \in xTasksWaitingTermination
  /\ xTasksWaitingTermination' = xTasksWaitingTermination \ {u}
  /\ victim' = [victim EXCEPT ![Idle] = u]
  /\ UNCHANGED <<where, blocked, triggered, nesting, pxCurrentTCB, target, timerOn,
                 dying, deleted, cancelled, freed>>

ToCancel(t) == victim[t]

vPortCancelThread(t) ==
  /\ t \in Tasks /\ victim[t] # NoTask /\ depth[t] = 0
  /\ Go(t, "task", "join")
  /\ cancelled' = cancelled \cup {ToCancel(t)}
  /\ UNCHANGED <<frame, interrupted, blocked, triggered, nesting, pxCurrentTCB, target,
                 timerOn, dying, deleted, xTasksWaitingTermination, victim, freed>>

(* pthread_join, event_delete, and the stack with the thread data is freed.*)
NotJoined(u) == TRUE
Joined(u) == pc[u] = "gone"

FreeThread(t) ==
  /\ pc[t] = "join" /\ Joined(victim[t])
  /\ pc' = [pc EXCEPT ![t] = "task"]
  /\ freed' = freed \cup {victim[t]}
  /\ victim' = [victim EXCEPT ![t] = NoTask]
  /\ UNCHANGED <<frame, interrupted, blocked, triggered, nesting, pxCurrentTCB, target,
                 timerOn, dying, deleted, xTasksWaitingTermination, cancelled>>
-----------------------------------------------------------------------------
(* What a thread does once begun, as long as the host runs it.             *)
Proceed(t) ==
  \/ event_wait(t) \/ pthread_cond_wait(t) \/ CancelledInWait(t)
  \/ vTaskSwitchContext(t) \/ prvResumeThread(t) \/ prvSuspendSelf(t)
  \/ Resumed(t) \/ HandlerReturns(t) \/ YieldReturns(t)
  \/ vPortDisableInterrupts(t) \/ CountNesting(t) \/ LeaveCritical(t)
  \/ vPortEnableInterrupts(t)

TaskCode(t) ==
  \/ vPortEnterCritical(t) \/ vPortExitCritical(t) \/ vPortYield(t)
  \/ vPortThreadDying(t) \/ (\E u \in Tasks : vTaskDelete(t, u))
  \/ vPortCancelThread(t) \/ FreeThread(t)

Next ==
  \/ portDISABLE_INTERRUPTS \/ prvSetupTimerInterrupt
  \/ \E t \in Threads : Proceed(t) \/ vPortSystemTickHandler(t)
  \/ \E t \in Tasks : \/ TaskCode(t) \/ SpuriousWakeup(t)
                      \/ prvCheckTasksWaitingTermination(t)

Spec == Init /\ [][Next]_vars
-----------------------------------------------------------------------------
Parked == {"suspend", "lock", "held", "waiting", "sigwait", "gone"}
Running(t) == pc[t] \notin Parked

(* However the host interleaves a switch and spurious wake-ups, at most    *)
(* one thread runs kernel or task code; the others are on their way into   *)
(* event_wait or in it.                                                    *)
OneRunner == \A t, s \in Threads : Running(t) /\ Running(s) => t = s

(* What the head of port.c says, "care is taken to ensure that the signal  *)
(* handler runs only on the thread for the current task".                  *)
TickOnCurrent ==
  \A t \in Threads : pc[t] = "switch" => t = pxCurrentTCB

(* The one global counter is at each moment the nesting of the task that   *)
(* runs, and the tick signal is blocked exactly in its critical sections.  *)
NestingIsOwn ==
  \A t \in Tasks : pc[t] = "task" => /\ uxCriticalNesting = depth[t]
                                     /\ t \in blocked <=> depth[t] > 0

(* No wake-up is lost: the thread of the task the scheduler picked runs,   *)
(* or its event is set before it can wait, or another thread is about to   *)
(* set it.                                                                 *)
WakeUpComes ==
  \/ Running(pxCurrentTCB)
  \/ triggered[pxCurrentTCB] /\ pc[pxCurrentTCB] \in {"suspend", "lock"}
  \/ \E t \in Threads : pc[t] = "signal" /\ target[t] = pxCurrentTCB
  \/ pc[Main] \in {"disable", "timer"}

(* "The thread has already been suspended so it can be safely cancelled":  *)
(* from then on nothing makes it run again, wherever it is on its way into *)
(* the wait that ends it, and its memory, where its event is, is freed     *)
(* only when it is gone.                                                   *)
CancelledStays ==
  \A u \in cancelled : /\ pc[u] \in {"suspend", "lock", "held", "waiting", "gone"}
                       /\ ~triggered[u] /\ pxCurrentTCB # u
                       /\ \A t \in Threads : target[t] # u
                       /\ u \in freed => pc[u] = "gone"
=============================================================================
