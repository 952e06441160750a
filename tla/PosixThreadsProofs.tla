------------------------- MODULE PosixThreadsProofs -------------------------
(***************************************************************************)
(* The Posix port makes one processor out of any number of threads.  The   *)
(* processor is a token: the thread of the current task has it, or its     *)
(* event says that it may take it, or one other thread is about to say so. *)
(*                                                                         *)
(* The token alone is not inductive: a tick on a thread that gave it away  *)
(* would make a second one.  Every thread that may be on its way into      *)
(* event_wait has the signal blocked (Nesting), and a thread is cancelled  *)
(* only where it waits for a token that never comes (Deletion).            *)
(***************************************************************************)
EXTENDS PosixThreads, TLAPS

Waits == {"suspend", "lock", "held", "waiting"}
MainPcs == {"disable", "timer", "signal", "suspend", "sigwait"}
TaskPcs == Waits \cup {"signal", "resumed", "unmask", "task", "mask", "count", "leave",
                       "switch", "return", "join", "gone"}
NotStarted == {"disable", "timer"}

Typed ==
  /\ pc \in [Threads -> MainPcs \cup TaskPcs]
  /\ pc[Main] \in MainPcs /\ \A t \in Tasks : pc[t] \in TaskPcs
  /\ interrupted \in [Threads -> {"no", "task", "mask", "join"}]
  /\ frame \in [Threads -> {"task", "yield", "start"}]
  /\ blocked \in SUBSET Threads /\ triggered \in [Tasks -> BOOLEAN]
  /\ uxCriticalNesting \in Int
  /\ saved \in [Threads -> Int] /\ depth \in [Threads -> Nat]
  /\ pxCurrentTCB \in Tasks /\ target \in [Threads -> Tasks \cup {NoTask}]
  /\ victim \in [Tasks -> Tasks \cup {NoTask}]
  /\ dying \in SUBSET Tasks /\ deleted \in SUBSET Tasks /\ cancelled \in SUBSET Tasks
  /\ xTasksWaitingTermination \in SUBSET Tasks /\ freed \in SUBSET Tasks

(* Until main resumes the first task, every task waits.                    *)
Boot ==
  /\ pc[Main] \in NotStarted => \A t \in Tasks : pc[t] \in Waits /\ ~triggered[t]
  /\ pc[Main] \in NotStarted => deleted = {} /\ ~timerOn
  /\ pc[Main] # "disable" => Main \in blocked

(* Who may run.                                                            *)
Turn ==
  /\ \A t \in Tasks : t # pxCurrentTCB =>
       /\ ~triggered[t]
       /\ pc[t] \in Waits \cup {"gone", "signal"}
  /\ \A t \in Threads : pc[t] = "signal" =>
       /\ target[t] = pxCurrentTCB /\ t # pxCurrentTCB
       /\ pc[pxCurrentTCB] \in Waits /\ ~triggered[pxCurrentTCB]
       /\ pxCurrentTCB \notin deleted
  /\ \A t, s \in Threads : pc[t] = "signal" /\ pc[s] = "signal" => t = s
  /\ \A t \in Threads : target[t] # NoTask => pc[t] = "signal"
  /\ triggered[pxCurrentTCB] => pc[pxCurrentTCB] \in {"suspend", "lock"}
  /\ pxCurrentTCB \in deleted => pc[pxCurrentTCB] \notin Waits
  /\ WakeUpComes

(* Who is being deleted.                                                   *)
Deletion ==
  /\ \A t \in Tasks : pc[t] = "gone" => t \in deleted
  /\ dying \subseteq deleted /\ cancelled \subseteq deleted /\ Idle \notin deleted
  /\ xTasksWaitingTermination \subseteq deleted
  /\ \A t \in Tasks : victim[t] # NoTask => victim[t] \in deleted /\ victim[t] # t
  /\ \A t \in Tasks : pc[t] = "join" \/ interrupted[t] = "join" => victim[t] # NoTask
  /\ pxCurrentTCB \notin cancelled
  /\ \A t \in cancelled : pc[t] \in Waits \cup {"gone"}
  /\ \A t \in freed : pc[t] = "gone"

(* What each thread knows of the critical sections it is in.               *)
Nesting ==
  /\ \A t \in Tasks \ blocked : pc[t] \in {"task", "mask", "join"} /\ depth[t] = 0
  /\ \A t \in Tasks : pc[t] \in {"mask", "join"} => t \notin blocked
  /\ \A t \in Tasks : pc[t] = "task" /\ t \in blocked => depth[t] > 0
  /\ \A t \in Tasks : pc[t] = "unmask" => depth[t] = 0
  /\ pc[pxCurrentTCB] \in {"task", "mask", "count", "unmask", "join"}
       => uxCriticalNesting = depth[pxCurrentTCB]
  /\ pc[pxCurrentTCB] \in {"leave", "switch", "return"}
       => uxCriticalNesting = depth[pxCurrentTCB] + 1
  /\ \A t \in Tasks : pc[t] \in Waits \cup {"signal", "resumed"} /\ frame[t] # "start"
       => saved[t] = depth[t] + 1
  /\ \A t \in Tasks : frame[t] = "start" =>
       /\ pc[t] \in {"lock", "held", "waiting", "resumed", "unmask", "gone"}
       /\ depth[t] = 0 /\ interrupted[t] = "no"
  /\ \A t \in Tasks : interrupted[t] # "no" =>
       /\ pc[t] \in Waits \cup {"switch", "signal", "return", "resumed", "gone"}
       /\ depth[t] = 0

IInv == Typed /\ Boot /\ Turn /\ Deletion /\ Nesting
-----------------------------------------------------------------------------
(* A thread that runs task or kernel code is that of the current task, and *)
(* no switch is under way.                                                 *)
LEMMA OnlyCurrentRuns ==
  ASSUME IInv, NEW t \in Tasks, pc[t] \notin Waits \cup {"gone", "signal"}
  PROVE  /\ t = pxCurrentTCB
         /\ \A s \in Threads : pc[s] # "signal" /\ target[s] = NoTask
         /\ pc[Main] \notin NotStarted
         /\ ~triggered[t]
BY DEF IInv, Typed, Boot, Turn, Waits

LEMMA InitialThreads == Init => IInv
<1> SUFFICES ASSUME Init
             PROVE  IInv
  OBVIOUS
<1> USE ThreadsAssumption DEF Init, Threads, Waits, MainPcs, TaskPcs, NotStarted
<1>1. Typed
  BY DEF Typed
<1>2. Boot
  BY DEF Boot
<1>3. Turn
  BY DEF Turn, WakeUpComes
<1>4. Deletion
  BY DEF Deletion
<1>5. Nesting
  BY DEF Nesting
<1> QED
  BY <1>1, <1>2, <1>3, <1>4, <1>5 DEF IInv

(* Every step keeps the token, the deletions and the counters in order.    *)
LEMMA StepKeepsIInv == IInv /\ [Next]_vars => IInv'
<1> SUFFICES ASSUME IInv, [Next]_vars
             PROVE  IInv'
  OBVIOUS
<1> USE ThreadsAssumption DEF IInv, Threads, Waits, MainPcs, TaskPcs, NotStarted
<1>1. ASSUME portDISABLE_INTERRUPTS
      PROVE  IInv'
  <2>1. Typed'
    BY <1>1 DEF portDISABLE_INTERRUPTS, Go, MainDisabled, nesting, deletion,
       Typed
  <2>2. Boot'
    BY <1>1 DEF portDISABLE_INTERRUPTS, Go, MainDisabled, deletion, Boot
  <2>3. Turn'
    BY <1>1 DEF portDISABLE_INTERRUPTS, Go, deletion, Turn, WakeUpComes
  <2>4. Deletion'
    BY <1>1 DEF portDISABLE_INTERRUPTS, Go, deletion, Deletion
  <2>5. Nesting'
    BY <1>1 DEF portDISABLE_INTERRUPTS, Go, MainDisabled, nesting, Nesting
  <2> QED
    BY <2>1, <2>2, <2>3, <2>4, <2>5
<1>2. ASSUME prvSetupTimerInterrupt
      PROVE  IInv'
  <2>1. Typed'
    BY <1>2 DEF prvSetupTimerInterrupt, Go, nesting, deletion, Typed
  <2>2. Boot'
    BY <1>2 DEF prvSetupTimerInterrupt, Go, Typed, Boot
  <2>3. Turn'
    BY <1>2 DEF prvSetupTimerInterrupt, Go, deletion, Typed, Boot, Turn,
       WakeUpComes
  <2>4. Deletion'
    BY <1>2 DEF prvSetupTimerInterrupt, Go, deletion, Deletion
  <2>5. Nesting'
    BY <1>2 DEF prvSetupTimerInterrupt, Go, nesting, Nesting
  <2> QED
    BY <2>1, <2>2, <2>3, <2>4, <2>5
<1>3. ASSUME NEW t \in Threads, event_wait(t)
      PROVE  IInv'
  <2>1. Typed'
    <3>1. triggered' \in [Tasks -> BOOLEAN]
      <4>1. triggered' \in {triggered, [triggered EXCEPT ![t] = FALSE]}
        BY <1>3 DEF event_wait
      <4> QED
        BY <4>1, Zenon DEF Typed
    <3> QED
      BY <1>3, <3>1 DEF event_wait, Go, nesting, deletion, Typed
  <2>2. Boot'
    BY <1>3 DEF event_wait, Go, deletion, Typed, Boot
  <2>3. Turn'
    BY <1>3 DEF event_wait, Go, deletion, Typed, Turn, WakeUpComes, Running,
       Parked
  <2>4. Deletion'
    BY <1>3 DEF event_wait, Go, deletion, Typed, Turn, Deletion
  <2>5. Nesting'
    BY <1>3 DEF event_wait, Go, nesting, Typed, Nesting
  <2> QED
    BY <2>1, <2>2, <2>3, <2>4, <2>5
<1>4. ASSUME NEW t \in Threads, pthread_cond_wait(t)
      PROVE  IInv'
  <2>1. Typed'
    BY <1>4 DEF pthread_cond_wait, Go, nesting, deletion, Typed
  <2>2. Boot'
    BY <1>4 DEF pthread_cond_wait, Go, deletion, Boot, Deletion
  <2>3. Turn'
    BY <1>4 DEF pthread_cond_wait, Go, deletion, Turn, Deletion, WakeUpComes,
       Running, Parked
  <2>4. Deletion'
    BY <1>4 DEF pthread_cond_wait, Go, deletion, Deletion
  <2>5. Nesting'
    BY <1>4 DEF pthread_cond_wait, Go, nesting, Nesting
  <2> QED
    BY <2>1, <2>2, <2>3, <2>4, <2>5
<1>5. ASSUME NEW t \in Threads, CancelledInWait(t)
      PROVE  IInv'
  <2>1. Typed'
    BY <1>5 DEF CancelledInWait, Go, nesting, deletion, Typed
  <2>2. Boot'
    BY <1>5 DEF CancelledInWait, Go, Boot, Deletion
  <2>3. Turn'
    BY <1>5 DEF CancelledInWait, Go, deletion, Turn, Deletion, WakeUpComes,
       Running
  <2>4. Deletion'
    BY <1>5 DEF CancelledInWait, Go, deletion, Deletion
  <2>5. Nesting'
    BY <1>5 DEF CancelledInWait, Go, nesting, Nesting
  <2> QED
    BY <2>1, <2>2, <2>3, <2>4, <2>5
<1>6. ASSUME NEW t \in Tasks, SpuriousWakeup(t)
      PROVE  IInv'
  <2>1. Typed'
    BY <1>6 DEF SpuriousWakeup, Go, Woken, nesting, deletion, Typed
  <2>2. Boot'
    BY <1>6 DEF SpuriousWakeup, Go, Woken, deletion, Boot
  <2>3. Turn'
    BY <1>6 DEF SpuriousWakeup, Go, Woken, deletion, Turn, WakeUpComes,
       Running, Parked
  <2>4. Deletion'
    BY <1>6 DEF SpuriousWakeup, Go, Woken, deletion, Deletion
  <2>5. Nesting'
    BY <1>6 DEF SpuriousWakeup, Go, Woken, nesting, Nesting
  <2> QED
    BY <2>1, <2>2, <2>3, <2>4, <2>5
<1>7. ASSUME NEW t \in Threads, vPortSystemTickHandler(t)
      PROVE  IInv'
  <2>1. Typed'
    BY <1>7 DEF vPortSystemTickHandler, deletion, Typed, Boot, Nesting
  <2>2. Boot'
    BY <1>7 DEF vPortSystemTickHandler, Boot
  <2>3. Turn'
    BY <1>7 DEF vPortSystemTickHandler, Boot, Turn, Nesting, WakeUpComes,
       Running, Parked
  <2>4. Deletion'
    BY <1>7 DEF vPortSystemTickHandler, deletion, Typed, Deletion, Nesting
  <2>5. Nesting'
    BY <1>7 DEF vPortSystemTickHandler, Typed, Boot, Turn, Nesting
  <2> QED
    BY <2>1, <2>2, <2>3, <2>4, <2>5
<1>8. ASSUME NEW t \in Threads, vTaskSwitchContext(t)
      PROVE  IInv'
  <2>1. Typed'
    BY <1>8 DEF vTaskSwitchContext, NestingSaved, deletion, Typed
  <2>2. Boot'
    BY <1>8 DEF vTaskSwitchContext, Typed, Boot
  <2>3. Turn'
    BY <1>8 DEF vTaskSwitchContext, deletion, Typed, Turn, Deletion,
       WakeUpComes, Running, Parked
  <2>4. Deletion'
    BY <1>8 DEF vTaskSwitchContext, deletion, Typed, Deletion
  <2>5. Nesting'
    BY <1>8, OnlyCurrentRuns DEF vTaskSwitchContext, NestingSaved, Typed,
       Nesting
  <2> QED
    BY <2>1, <2>2, <2>3, <2>4, <2>5
<1>9. ASSUME NEW t \in Threads, prvResumeThread(t)
      PROVE  IInv'
  <2>1. Typed'
    BY <1>9 DEF prvResumeThread, event_signal, nesting, deletion, Woken, Typed
  <2>2. Boot'
    BY <1>9 DEF prvResumeThread, event_signal, Typed, Boot
  <2>3. Turn'
    BY <1>9 DEF prvResumeThread, event_signal, deletion, Woken, MutexFree,
       Typed, Turn, WakeUpComes
  <2>4. Deletion'
    BY <1>9 DEF prvResumeThread, event_signal, deletion, Woken, Typed,
       Deletion
  <2>5. Nesting'
    BY <1>9 DEF prvResumeThread, event_signal, nesting, Woken, Typed, Nesting
  <2> QED
    BY <2>1, <2>2, <2>3, <2>4, <2>5
<1>10. ASSUME NEW t \in Threads, prvSuspendSelf(t)
      PROVE  IInv'
  <2>1. Typed'
    BY <1>10 DEF prvSuspendSelf, Go, nesting, deletion, Typed
  <2>2. Boot'
    BY <1>10 DEF prvSuspendSelf, Go, deletion, Boot, Deletion
  <2>3. Turn'
    BY <1>10 DEF prvSuspendSelf, Go, deletion, Typed, Turn, Deletion,
       WakeUpComes, Running, Parked
  <2>4. Deletion'
    BY <1>10 DEF prvSuspendSelf, Go, deletion, Typed, Deletion
  <2>5. Nesting'
    BY <1>10 DEF prvSuspendSelf, Go, nesting, Nesting
  <2> QED
    BY <2>1, <2>2, <2>3, <2>4, <2>5
<1>11. ASSUME NEW t \in Threads, Resumed(t)
      PROVE  IInv'
  <2>1. Typed'
    BY <1>11 DEF Resumed, Go, FirstNesting, deletion, Typed
  <2>2. Boot'
    BY <1>11 DEF Resumed, Go, Boot
  <2>3. Turn'
    BY <1>11 DEF Resumed, Go, Typed, Turn, WakeUpComes, Running, Parked
  <2>4. Deletion'
    BY <1>11 DEF Resumed, Go, deletion, Deletion
  <2>5. Nesting'
    BY <1>11, OnlyCurrentRuns DEF Resumed, Go, FirstNesting, Typed, Nesting
  <2> QED
    BY <2>1, <2>2, <2>3, <2>4, <2>5
<1>12. ASSUME NEW t \in Threads, HandlerReturns(t)
      PROVE  IInv'
  <2>1. Typed'
    BY <1>12 DEF HandlerReturns, deletion, Typed
  <2>2. Boot'
    BY <1>12 DEF HandlerReturns, Typed, Boot
  <2>3. Turn'
    BY <1>12 DEF HandlerReturns, Typed, Turn, WakeUpComes, Running, Parked
  <2>4. Deletion'
    BY <1>12 DEF HandlerReturns, deletion, Typed, Deletion
  <2>5. Nesting'
    BY <1>12, OnlyCurrentRuns DEF HandlerReturns, Typed, Nesting
  <2> QED
    BY <2>1, <2>2, <2>3, <2>4, <2>5
<1>13. ASSUME NEW t \in Threads, YieldReturns(t)
      PROVE  IInv'
  <2>1. Typed'
    BY <1>13 DEF YieldReturns, Go, nesting, deletion, Typed
  <2>2. Boot'
    BY <1>13 DEF YieldReturns, Go, Boot
  <2>3. Turn'
    BY <1>13 DEF YieldReturns, Go, Typed, Turn, WakeUpComes, Running, Parked
  <2>4. Deletion'
    BY <1>13 DEF YieldReturns, Go, deletion, Deletion
  <2>5. Nesting'
    BY <1>13 DEF YieldReturns, Go, nesting, Nesting
  <2> QED
    BY <2>1, <2>2, <2>3, <2>4, <2>5
<1>14. ASSUME NEW t \in Tasks, vPortEnterCritical(t)
      PROVE  IInv'
  <2>1. Typed'
    BY <1>14 DEF vPortEnterCritical, TestNesting, nesting, deletion, Go, Typed
  <2>2. Boot'
    BY <1>14 DEF vPortEnterCritical, TestNesting, Go, Boot
  <2>3. Turn'
    BY <1>14 DEF vPortEnterCritical, TestNesting, Go, Turn, WakeUpComes,
       Running, Parked
  <2>4. Deletion'
    BY <1>14 DEF vPortEnterCritical, TestNesting, deletion, Go, Deletion
  <2>5. Nesting'
    BY <1>14, OnlyCurrentRuns DEF vPortEnterCritical, TestNesting, nesting,
       Go, Nesting
  <2> QED
    BY <2>1, <2>2, <2>3, <2>4, <2>5
<1>15. ASSUME NEW t \in Tasks, vPortYield(t)
      PROVE  IInv'
  <2>1. Typed'
    BY <1>15 DEF vPortYield, TestNesting, nesting, deletion, Go, Typed
  <2>2. Boot'
    BY <1>15 DEF vPortYield, TestNesting, Go, Boot
  <2>3. Turn'
    BY <1>15 DEF vPortYield, TestNesting, Go, Turn, WakeUpComes, Running,
       Parked
  <2>4. Deletion'
    BY <1>15 DEF vPortYield, TestNesting, deletion, Go, Deletion
  <2>5. Nesting'
    BY <1>15, OnlyCurrentRuns DEF vPortYield, TestNesting, nesting, Go,
       Nesting
  <2> QED
    BY <2>1, <2>2, <2>3, <2>4, <2>5
<1>16. ASSUME NEW t \in Threads, vPortDisableInterrupts(t)
      PROVE  IInv'
  <2>1. Typed'
    BY <1>16 DEF vPortDisableInterrupts, Go, nesting, deletion, Typed
  <2>2. Boot'
    BY <1>16 DEF vPortDisableInterrupts, Go, Boot
  <2>3. Turn'
    BY <1>16 DEF vPortDisableInterrupts, Go, Typed, Turn, WakeUpComes,
       Running, Parked
  <2>4. Deletion'
    BY <1>16 DEF vPortDisableInterrupts, Go, deletion, Deletion
  <2>5. Nesting'
    BY <1>16 DEF vPortDisableInterrupts, Go, nesting, Typed, Nesting
  <2> QED
    BY <2>1, <2>2, <2>3, <2>4, <2>5
<1>17. ASSUME NEW t \in Threads, CountNesting(t)
      PROVE  IInv'
  <2>1. Typed'
    BY <1>17 DEF CountNesting, Go, deletion, Typed
  <2>2. Boot'
    BY <1>17 DEF CountNesting, Go, Boot
  <2>3. Turn'
    BY <1>17 DEF CountNesting, Go, Typed, Turn, WakeUpComes, Running, Parked
  <2>4. Deletion'
    BY <1>17 DEF CountNesting, Go, deletion, Deletion
  <2>5. Nesting'
    BY <1>17, OnlyCurrentRuns DEF CountNesting, Go, Typed, Nesting
  <2> QED
    BY <2>1, <2>2, <2>3, <2>4, <2>5
<1>18. ASSUME NEW t \in Tasks, vPortExitCritical(t)
      PROVE  IInv'
  <2>1. Typed'
    BY <1>18 DEF vPortExitCritical, Go, deletion, Typed
  <2>2. Boot'
    BY <1>18 DEF vPortExitCritical, Go, Boot
  <2>3. Turn'
    BY <1>18 DEF vPortExitCritical, Go, Turn, WakeUpComes, Running, Parked
  <2>4. Deletion'
    BY <1>18 DEF vPortExitCritical, Go, deletion, Deletion
  <2>5. Nesting'
    BY <1>18 DEF vPortExitCritical, Go, Typed, Nesting
  <2> QED
    BY <2>1, <2>2, <2>3, <2>4, <2>5
<1>19. ASSUME NEW t \in Threads, LeaveCritical(t)
      PROVE  IInv'
  <2>1. Typed'
    BY <1>19 DEF LeaveCritical, Go, deletion, Typed
  <2>2. Boot'
    BY <1>19 DEF LeaveCritical, Go, Boot
  <2>3. Turn'
    BY <1>19 DEF LeaveCritical, Go, Typed, Turn, WakeUpComes, Running, Parked
  <2>4. Deletion'
    BY <1>19 DEF LeaveCritical, Go, deletion, Deletion
  <2>5. Nesting'
    BY <1>19, OnlyCurrentRuns DEF LeaveCritical, Go, Typed, Nesting
  <2> QED
    BY <2>1, <2>2, <2>3, <2>4, <2>5
<1>20. ASSUME NEW t \in Threads, vPortEnableInterrupts(t)
      PROVE  IInv'
  <2>1. Typed'
    BY <1>20 DEF vPortEnableInterrupts, Go, nesting, deletion, Typed
  <2>2. Boot'
    BY <1>20 DEF vPortEnableInterrupts, Go, Typed, Boot
  <2>3. Turn'
    BY <1>20 DEF vPortEnableInterrupts, Go, Typed, Turn, WakeUpComes, Running,
       Parked
  <2>4. Deletion'
    BY <1>20 DEF vPortEnableInterrupts, Go, deletion, Deletion
  <2>5. Nesting'
    BY <1>20 DEF vPortEnableInterrupts, Go, nesting, Typed, Nesting
  <2> QED
    BY <2>1, <2>2, <2>3, <2>4, <2>5
<1>21. ASSUME NEW t \in Tasks, vPortThreadDying(t)
      PROVE  IInv'
  <2>1. Typed'
    BY <1>21 DEF vPortThreadDying, where, nesting, Typed
  <2>2. Boot'
    BY <1>21 DEF vPortThreadDying, where, Boot
  <2>3. Turn'
    BY <1>21 DEF vPortThreadDying, where, Turn, WakeUpComes, Running
  <2>4. Deletion'
    BY <1>21 DEF vPortThreadDying, where, Deletion
  <2>5. Nesting'
    BY <1>21 DEF vPortThreadDying, where, nesting, Nesting
  <2> QED
    BY <2>1, <2>2, <2>3, <2>4, <2>5
<1>22. ASSUME NEW t \in Tasks, NEW u \in Tasks, vTaskDelete(t, u)
      PROVE  IInv'
  <2>1. Typed'
    BY <1>22 DEF vTaskDelete, where, nesting, Typed
  <2>2. Boot'
    BY <1>22 DEF vTaskDelete, where, Boot
  <2>3. Turn'
    BY <1>22 DEF vTaskDelete, where, Turn, WakeUpComes, Running
  <2>4. Deletion'
    BY <1>22 DEF vTaskDelete, where, Deletion
  <2>5. Nesting'
    BY <1>22 DEF vTaskDelete, where, nesting, Nesting
  <2> QED
    BY <2>1, <2>2, <2>3, <2>4, <2>5
<1>23. ASSUME NEW t \in Tasks, prvCheckTasksWaitingTermination(t)
      PROVE  IInv'
  <2>1. Typed'
    BY <1>23 DEF prvCheckTasksWaitingTermination, where, nesting, Typed
  <2>2. Boot'
    BY <1>23 DEF prvCheckTasksWaitingTermination, where, Boot
  <2>3. Turn'
    BY <1>23 DEF prvCheckTasksWaitingTermination, where, Turn, WakeUpComes,
       Running
  <2>4. Deletion'
    BY <1>23 DEF prvCheckTasksWaitingTermination, where, Deletion
  <2>5. Nesting'
    BY <1>23 DEF prvCheckTasksWaitingTermination, where, nesting, Nesting
  <2> QED
    BY <2>1, <2>2, <2>3, <2>4, <2>5
<1>24. ASSUME NEW t \in Tasks, vPortCancelThread(t)
      PROVE  IInv'
  <2>1. Typed'
    BY <1>24 DEF vPortCancelThread, Go, ToCancel, nesting, Typed
  <2>2. Boot'
    BY <1>24 DEF vPortCancelThread, Go, Boot
  <2>3. Turn'
    BY <1>24 DEF vPortCancelThread, Go, Turn, WakeUpComes, Running, Parked
  <2>4. Deletion'
    BY <1>24, OnlyCurrentRuns DEF vPortCancelThread, Go, ToCancel, Typed,
       Deletion
  <2>5. Nesting'
    BY <1>24 DEF vPortCancelThread, Go, nesting, Nesting
  <2> QED
    BY <2>1, <2>2, <2>3, <2>4, <2>5
<1>25. ASSUME NEW t \in Tasks, FreeThread(t)
      PROVE  IInv'
  <2>1. Typed'
    BY <1>25 DEF FreeThread, nesting, Typed, Deletion
  <2>2. Boot'
    BY <1>25 DEF FreeThread, Boot
  <2>3. Turn'
    BY <1>25 DEF FreeThread, Turn, WakeUpComes, Running, Parked
  <2>4. Deletion'
    BY <1>25 DEF FreeThread, Joined, Typed, Deletion, Nesting
  <2>5. Nesting'
    BY <1>25 DEF FreeThread, nesting, Nesting
  <2> QED
    BY <2>1, <2>2, <2>3, <2>4, <2>5
<1>26. ASSUME UNCHANGED vars
      PROVE  IInv'
  BY <1>26 DEF vars, where, nesting, deletion, Typed, Boot, Turn, Deletion, Nesting,
       WakeUpComes, Running, Parked
<1> QED
  <2>1. ASSUME NEW t \in Threads, Proceed(t)
        PROVE  IInv'
    BY <2>1, <1>3, <1>4, <1>5, <1>8, <1>9, <1>10, <1>11, <1>12,
        <1>13, <1>16, <1>17, <1>19, <1>20
    DEF Proceed
  <2>2. ASSUME NEW t \in Tasks, TaskCode(t)
        PROVE  IInv'
    BY <2>2, <1>14, <1>15, <1>18, <1>21, <1>22, <1>24, <1>25 DEF TaskCode
  <2> QED
    BY <2>1, <2>2, <1>1, <1>2, <1>6, <1>7, <1>23, <1>26 DEF Next

LEMMA AlwaysIInv == Spec => []IInv
  BY InitialThreads, StepKeepsIInv, PTL DEF Spec

(* At most one thread runs task or kernel code, through switches, spurious *)
(* wake-ups, deletions and signals at any point where they are not blocked.*)
THEOREM OneProcessor == Spec => []OneRunner
<1>1. IInv => OneRunner
  BY ThreadsAssumption DEF IInv, Typed, Threads, Waits, MainPcs, NotStarted,
     OneRunner, Running, Parked, Turn, Boot
<1>. QED  BY <1>1, AlwaysIInv, PTL

(* vPortSystemTickHandler, which the host may start on any thread that     *)
(* does not block the signal, only ever switches away from the thread of   *)
(* the current task.                                                       *)
THEOREM TickHandledOnCurrent == Spec => []TickOnCurrent
<1>1. IInv => TickOnCurrent
  BY ThreadsAssumption DEF IInv, Typed, Threads, Waits, MainPcs, TickOnCurrent, Turn
<1>. QED  BY <1>1, AlwaysIInv, PTL

(* uxCriticalNesting, one variable for all threads, is in task code always *)
(* that of the task that runs, and the signal is blocked exactly there     *)
(* where the task is in a critical section.                                *)
THEOREM NestingKept == Spec => []NestingIsOwn
<1>1. IInv => NestingIsOwn
  BY OnlyCurrentRuns DEF IInv, Waits, NestingIsOwn, Nesting, Typed
<1>. QED  BY <1>1, AlwaysIInv, PTL

(* prvResumeThread and prvSuspendSelf hand the processor over: wherever    *)
(* the two threads are in it, the chosen one runs or is sure to be woken.  *)
THEOREM NoThreadWakeUpLost == Spec => []WakeUpComes
<1>1. IInv => WakeUpComes
  BY DEF IInv, Turn
<1>. QED  BY <1>1, AlwaysIInv, PTL

(* A thread that vPortCancelThread cancels never runs again, nobody is     *)
(* about to wake it, and it is freed only when it has ended.               *)
THEOREM CancelledForGood == Spec => []CancelledStays
<1>1. IInv => CancelledStays
  <2>. SUFFICES ASSUME IInv, NEW u \in cancelled
                PROVE  /\ pc[u] \in {"suspend", "lock", "held", "waiting", "gone"}
                       /\ ~triggered[u] /\ pxCurrentTCB # u
                       /\ \A t \in Threads : target[t] # u
                       /\ u \in freed => pc[u] = "gone"
    BY DEF CancelledStays
  <2>1. u \in Tasks /\ u # pxCurrentTCB /\ u # NoTask
    BY ThreadsAssumption DEF IInv, Deletion, Typed
  <2>2. pc[u] \in Waits \cup {"gone"} /\ (u \in freed => pc[u] = "gone")
    BY DEF IInv, Deletion
  <2>3. ~triggered[u]
    BY <2>1 DEF IInv, Turn
  <2>4. \A t \in Threads : target[t] # u
    BY <2>1 DEF IInv, Turn
  <2>. QED  BY <2>1, <2>2, <2>3, <2>4 DEF Waits
<1>. QED  BY <1>1, AlwaysIInv, PTL
=============================================================================
