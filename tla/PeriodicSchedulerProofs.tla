---------------------- MODULE PeriodicSchedulerProofs ----------------------
(***************************************************************************)
(* Proofs about PeriodicScheduler, for every number of tasks, task set,    *)
(* algorithm and width of the counters.                                    *)
(***************************************************************************)
EXTENDS PeriodicScheduler, ArithmeticLemmas, FiniteSetTheorems

LEMMA TaskSetFacts ==
  ASSUME WellFormed(Task_Set), NEW t \in Tasks
  PROVE  /\ Period(t) \in Nat \ {0} /\ Duration(t) \in Nat \ {0}
         /\ Constraint(t) \in 0..(CounterModulus - 1)
         /\ Hiperperiod \in Nat \ {0} /\ 2 * Hiperperiod < TickModulus
         /\ Duration(t) <= Period(t)
         /\ Hiperperiod % Period(t) = 0 /\ Period(t) <= Hiperperiod
<1>1. /\ Period(t) \in Nat \ {0} /\ Duration(t) \in Nat \ {0}
      /\ Constraint(t) \in 0..(CounterModulus - 1)
      /\ Hiperperiod \in Nat \ {0} /\ 2 * Hiperperiod < TickModulus
      /\ Duration(t) <= Period(t) /\ Hiperperiod % Period(t) = 0
  BY DEF WellFormed, TaskSetType, Period, Duration, Constraint, Hiperperiod
<1>2. Period(t) <= Hiperperiod
  BY <1>1, DivisorAtMost
<1>. QED  BY <1>1, <1>2

LEMMA ReadyKeyType ==
  ASSUME WellFormed(Task_Set), NEW t \in Tasks, NEW tick \in Nat, NEW met
  PROVE  ReadyKey(t, tick, met) \in [blue : BOOLEAN, deadline : Int]
<1>1. IsBlue(t, met) \in BOOLEAN
  BY DEF IsBlue
<1>2. Period(t) + tick - (tick % Period(t)) \in Int
  BY TaskSetFacts, DivMod
<1>. QED  BY <1>1, <1>2 DEF ReadyKey

LEMMA MetOnceType ==
  ASSUME NEW met \in 0..(CounterModulus - 1)
  PROVE  MetOnce(met) \in 0..(CounterModulus - 1)
  BY ConstantsAssumption, DivMod DEF MetOnce

(* The processor goes to a ready task, to the idle task or stays.          *)
LEMMA DispatchRange ==
  ASSUME NEW ready, NEW key, NEW moved, Dispatch(ready, key, moved)
  PROVE  pxCurrentTCB' \in ready \cup {Idle, Timer}
<1>1. Heads(ready, key) \subseteq ready \cup {Idle}
  BY DEF Heads
<1>. QED  BY <1>1 DEF Dispatch

(* The counters at the end of the stages of a tick.                        *)
LEMMA StageTypes ==
  ASSUME TypeOK
  PROVE  /\ now \in Nat
         /\ \A t \in Tasks : Elapsed(t) \in Int
         /\ Charged \in [Tasks -> Nat]
         /\ \A t \in Tasks : Charged[t] <= xRemainingTicks[t]
         /\ Completed \subseteq Tasks
         /\ MetAfterRun \in [Tasks -> 0..(CounterModulus - 1)]
         /\ MetAfterKill \in [Tasks -> 0..(CounterModulus - 1)]
         /\ MetAfterWake \in [Tasks -> 0..(CounterModulus - 1)]
         /\ \A t \in Tasks : start_time[t] \div Period(t) \in Nat
<1> USE DEF TypeOK
<1>1. now \in Nat
  BY DEF now
<1>2. \A t \in Tasks : Elapsed(t) \in Int
  BY <1>1, ConstantsAssumption DEF Elapsed
<1>3. Charged \in [Tasks -> Nat] /\ \A t \in Tasks : Charged[t] <= xRemainingTicks[t]
  BY DEF Charged
<1>4. Completed \subseteq Tasks
  BY DEF Completed, Spent
<1>5. MetAfterRun \in [Tasks -> 0..(CounterModulus - 1)]
  BY MetOnceType DEF MetAfterRun
<1>6. 0 \in 0..(CounterModulus - 1)
  BY ConstantsAssumption
<1>7. MetAfterKill \in [Tasks -> 0..(CounterModulus - 1)]
  BY <1>5, <1>6 DEF MetAfterKill
<1>8. MetAfterWake \in [Tasks -> 0..(CounterModulus - 1)]
  BY <1>6, <1>7 DEF MetAfterWake
<1>9. \A t \in Tasks : start_time[t] \div Period(t) \in Nat
  BY TaskSetFacts, DivMod
<1>. QED  BY <1>1, <1>2, <1>3, <1>4, <1>5, <1>7, <1>8, <1>9
-----------------------------------------------------------------------------
LEMMA InitType == Init => TypeOK
<1> SUFFICES ASSUME Init PROVE TypeOK
  OBVIOUS
<1> USE DEF Init, ConfigInit
<1>1. WellFormed(Task_Set)
  BY TaskSetsAssumption
<1>2. xRemainingTicks \in [Tasks -> Nat]
  BY <1>1, TaskSetFacts
<1>3. start_time \in [Tasks -> Nat]
  <2>1. UninitStartTime \subseteq Nat
    BY ConstantsAssumption
  <2>2. start_time \in [Tasks -> UninitStartTime]
    OBVIOUS
  <2> HIDE DEF Init, ConfigInit
  <2>. QED  BY <2>1, <2>2
<1>4. xItemValue \in [Tasks -> [blue : BOOLEAN, deadline : Int]]
  BY <1>1, ReadyKeyType
<1>5. previous_deadline_met \in [Tasks -> 0..(CounterModulus - 1)]
  BY ConstantsAssumption
<1>. QED  BY <1>1, <1>2, <1>3, <1>4, <1>5 DEF TypeOK

LEMMA ReportType ==
  ASSUME TypeOK, RecordCompletion
  PROVE  report' \in [Tasks -> SUBSET Nat]
  BY StageTypes DEF TypeOK, RecordCompletion

LEMMA NextType == TypeOK /\ [Next]_vars => TypeOK'
<1> SUFFICES ASSUME TypeOK, [Next]_vars PROVE TypeOK'
  OBVIOUS
<1>1. CASE Tick
  <2> USE <1>1 DEF Tick
  <2>1. Algorithm' \in Builds /\ WellFormed(Task_Set)'
    BY DEF TypeOK, config, WellFormed, TaskSetType
  <2>2. xTickCount' \in Nat /\ exited' \in BOOLEAN
    BY StageTypes DEF TypeOK
  <2>3. readyTasks' \subseteq Tasks /\ xWaitTaskList' \subseteq Tasks
    BY DEF TypeOK, Released, Due, Waiting, Completed, Spent, Killed
  <2>4. pxCurrentTCB' \in Tasks \cup {Idle, Timer}
    BY <2>3, DispatchRange
  <2>5. xRemainingTicks' \in [Tasks -> Nat]
    BY StageTypes, TaskSetFacts DEF TypeOK
  <2>6. start_time' \in [Tasks -> Nat]
    BY StageTypes DEF TypeOK
  <2>7. xItemValue' \in [Tasks -> [blue : BOOLEAN, deadline : Int]]
    BY StageTypes, ReadyKeyType DEF TypeOK
  <2>8. previous_deadline_met' \in [Tasks -> 0..(CounterModulus - 1)]
    BY StageTypes
  <2>9. report' \in [Tasks -> SUBSET Nat]
    BY ReportType
  <2>10. times_killed' \in [Tasks -> Nat]
    BY DEF TypeOK
  <2>11. weakly_hard' \in {0, 1}
    BY DEF TypeOK
  <2>. QED
    BY <2>1, <2>2, <2>3, <2>4, <2>5, <2>6, <2>7, <2>8, <2>9, <2>10, <2>11 DEF TypeOK
<1>2. CASE ExitTick
  <2> USE <1>2 DEF ExitTick
  <2>1. Algorithm' \in Builds /\ WellFormed(Task_Set)'
    BY DEF TypeOK, config, WellFormed, TaskSetType
  <2>2. report' \in [Tasks -> SUBSET Nat]
    BY ReportType
  <2>. QED  BY <2>1, <2>2, StageTypes DEF TypeOK
<1>3. CASE TimerBlocks
  <2> USE <1>3 DEF TimerBlocks
  <2>1. Algorithm' \in Builds /\ WellFormed(Task_Set)'
    BY DEF TypeOK, config, WellFormed, TaskSetType
  <2>2. pxCurrentTCB' \in Tasks \cup {Idle, Timer}
    BY DEF TypeOK, Heads
  <2>. QED  BY <2>1, <2>2 DEF TypeOK, tcbVars, simVars
<1>4. CASE UNCHANGED vars
  BY <1>4 DEF TypeOK, vars, config, tcbVars, simVars, WellFormed, TaskSetType
<1>. QED  BY <1>1, <1>2, <1>3, <1>4 DEF Next

(* Every reachable state holds values of the declared kinds: the skip      *)
(* counter stays a uint8_t through xTaskIncrementTick, killTasks and       *)
(* wakeTasks, and the processor is never given to anything but a task.     *)
THEOREM TypeCorrect == Spec => []TypeOK
  BY InitType, NextType, PTL DEF Spec
-----------------------------------------------------------------------------
LEMMA InitOneList == Init => OneList
<1> SUFFICES ASSUME Init PROVE OneList
  OBVIOUS
<1>1. readyTasks \subseteq Tasks /\ xWaitTaskList = Tasks \ readyTasks
  BY DEF Init
<1>2. pxCurrentTCB \notin Tasks
  BY ConstantsAssumption DEF Init
<1>. QED  BY <1>1, <1>2 DEF OneList

LEMMA NextOneList == OneList /\ [Next]_vars => OneList'
<1> SUFFICES ASSUME OneList, [Next]_vars PROVE OneList'
  OBVIOUS
<1>1. CASE Tick
  <2> USE <1>1 DEF Tick
  <2>1. Completed \subseteq readyTasks
    BY DEF OneList, Completed, Spent, TickIsDue
  <2>2. Killed \subseteq readyTasks /\ Released \subseteq Waiting
    BY DEF Killed, Released, Due
  <2>3. readyTasks' \cap xWaitTaskList' = {}
    BY <2>1, <2>2 DEF OneList, Waiting
  <2>4. readyTasks' \cup xWaitTaskList' = Tasks
    BY <2>1, <2>2 DEF OneList, Waiting
  <2>5. pxCurrentTCB' \in Tasks => pxCurrentTCB' \in readyTasks'
    BY DispatchRange, ConstantsAssumption
  <2>. QED  BY <2>3, <2>4, <2>5 DEF OneList
<1>2. CASE ExitTick
  <2> USE <1>2 DEF ExitTick
  <2>1. Completed \subseteq readyTasks
    BY DEF OneList, Completed, Spent, TickIsDue
  <2>. QED  BY <2>1 DEF OneList
<1>3. CASE TimerBlocks
  BY <1>3, ConstantsAssumption DEF TimerBlocks, OneList, Heads
<1>4. CASE UNCHANGED vars
  BY <1>4 DEF vars, OneList
<1>. QED  BY <1>1, <1>2, <1>3, <1>4 DEF Next

(* No order of completions, kills, skips and releases in a tick loses a    *)
(* task or links it twice, although addTaskToReadyList of the RTO build    *)
(* unlinks a task and may then add it to no list.                          *)
THEOREM EveryTaskInOneList == Spec => []OneList
  BY InitOneList, NextOneList, PTL DEF Spec
-----------------------------------------------------------------------------
(* Timing.  The kill test, the test for a period's start and the counting  *)
(* of ticks from start_time only fit together: a job kept by killTasks     *)
(* still has ticks to run and fits its deadline, so it is not pending when *)
(* the next period starts, so every task is waiting, and counts anew, when *)
(* its period starts, so what the next kill test measures is the time in   *)
(* the period.  Hence one inductive invariant for all three.               *)
OnTime == /\ TypeOK
          /\ OneList
          /\ CountsFromPeriodStart
          /\ NeverPastDeadline
          /\ ~exited => xTickCount < Hiperperiod

LEMMA InitOnTime ==
  ASSUME UninitStartTime = {0}
  PROVE  Init => OnTime
<1> SUFFICES ASSUME Init PROVE OnTime
  OBVIOUS
<1>1. TypeOK /\ OneList
  BY InitType, InitOneList
<1>2. xTickCount = 0 /\ \A t \in Tasks : start_time[t] = 0 /\ xRemainingTicks[t] = Duration(t)
  BY DEF Init
<1>3. CountsFromPeriodStart
  <2> SUFFICES ASSUME NEW t \in Tasks
               PROVE  start_time[t] = xTickCount - (xTickCount % Period(t))
    BY DEF CountsFromPeriodStart
  <2>1. Period(t) \in Nat \ {0}
    BY <1>1, TaskSetFacts DEF TypeOK
  <2>2. start_time[t] = 0
    BY <1>2
  <2>3. xTickCount \in Nat /\ xTickCount < Period(t)
    BY <1>2, <2>1
  <2>4. xTickCount % Period(t) = xTickCount
    BY <2>1, <2>3, DivModSmall
  <2>. QED  BY <2>2, <2>3, <2>4
<1>4. NeverPastDeadline
  <2>1. \A t \in Tasks : /\ Duration(t) \in Nat \ {0} /\ Period(t) \in Nat
                         /\ Duration(t) <= Period(t)
    BY <1>1, TaskSetFacts DEF TypeOK
  <2>2. readyTasks \subseteq Tasks
    BY <1>1 DEF TypeOK
  <2> SUFFICES ASSUME NEW t \in readyTasks
               PROVE  /\ xRemainingTicks[t] > 0
                      /\ xTickCount - start_time[t] + xRemainingTicks[t] <= Period(t)
    BY DEF NeverPastDeadline
  <2>3. t \in Tasks
    BY <2>2
  <2>4. xTickCount = 0 /\ start_time[t] = 0 /\ xRemainingTicks[t] = Duration(t)
    BY <1>2, <2>3
  <2>5. Duration(t) \in Nat \ {0} /\ Period(t) \in Nat /\ Duration(t) <= Period(t)
    BY <2>1, <2>3
  <2>. QED  BY <2>4, <2>5
<1>5. xTickCount < Hiperperiod
  BY <1>1, <1>2 DEF TypeOK, WellFormed, TaskSetType, Hiperperiod
<1>. QED  BY <1>1, <1>3, <1>4, <1>5 DEF OnTime

(* The arithmetic of a tick never wraps, and measures the time in the      *)
(* period.                                                                 *)
LEMMA ElapsedInPeriod ==
  ASSUME OnTime, ~exited, NEW t \in Tasks
  PROVE  /\ now \in Nat
         /\ start_time[t] \in 0..xTickCount
         /\ Elapsed(t) = now - start_time[t]
         /\ Elapsed(t) = (xTickCount % Period(t)) + 1
         /\ Elapsed(t) \in 1..Period(t)
<1>1. xTickCount \in Nat /\ Period(t) \in Nat \ {0}
  BY TaskSetFacts DEF OnTime, TypeOK
<1>2. start_time[t] = xTickCount - (xTickCount % Period(t))
  BY DEF OnTime, CountsFromPeriodStart
<1>3. /\ xTickCount % Period(t) \in 0..(Period(t) - 1)
      /\ xTickCount % Period(t) <= xTickCount
  <2>1. /\ xTickCount \div Period(t) \in Nat
        /\ xTickCount % Period(t) \in 0..(Period(t) - 1)
        /\ xTickCount = Period(t) * (xTickCount \div Period(t)) + (xTickCount % Period(t))
    BY <1>1, DivMod
  <2>2. Period(t) * (xTickCount \div Period(t)) \in Nat
    BY <1>1, <2>1
  <2>. QED  BY <1>1, <2>1, <2>2
<1>. QED  BY <1>1, <1>2, <1>3 DEF Elapsed, now

LEMMA ReadyDemand ==
  ASSUME OnTime, ~exited, NEW t \in readyTasks
  PROVE  Demand(t, Charged[t]) = Elapsed(t) + Charged[t]
<1>1. t \in Tasks
  BY DEF OnTime, OneList
<1>2. /\ Elapsed(t) \in 1..Period(t) /\ Period(t) \in Nat
      /\ Period(t) <= Hiperperiod /\ 2 * Hiperperiod < TickModulus
      /\ Hiperperiod \in Nat /\ TickModulus \in Nat
  BY <1>1, ElapsedInPeriod, TaskSetFacts, ConstantsAssumption DEF OnTime, TypeOK
<1>3. /\ xRemainingTicks[t] \in Nat /\ Charged[t] \in Nat
      /\ Charged[t] <= xRemainingTicks[t]
  BY <1>1, StageTypes DEF OnTime, TypeOK
<1>4. xTickCount - start_time[t] \in Nat
  BY <1>1, ElapsedInPeriod DEF OnTime, TypeOK
<1>5. xRemainingTicks[t] <= Period(t)
  <2>1. xTickCount - start_time[t] + xRemainingTicks[t] <= Period(t)
    BY DEF OnTime, NeverPastDeadline
  <2>. QED  BY <2>1, <1>2, <1>3, <1>4
<1>. QED  BY <1>2, <1>3, <1>5 DEF Demand

(* A job that is neither completed nor killed in a tick has ticks left and *)
(* its deadline ahead.                                                     *)
LEMMA SurvivorFits ==
  ASSUME OnTime, ~exited, NEW t \in readyTasks \ (Completed \cup Killed)
  PROVE  /\ t \in Tasks
         /\ Charged[t] \in Nat \ {0}
         /\ Elapsed(t) + Charged[t] <= Period(t)
         /\ now % Period(t) # 0
<1>1. t \in Tasks
  BY DEF OnTime, OneList
<1>2. Elapsed(t) \in 1..Period(t) /\ Period(t) \in Nat \ {0} /\ Charged[t] \in Nat
  BY <1>1, ElapsedInPeriod, TaskSetFacts, StageTypes DEF OnTime, TypeOK
<1>3. Charged[t] # 0
  <2>1. CASE t = pxCurrentTCB
    BY <1>1, <1>2, <2>1 DEF Completed, Spent
  <2>2. CASE t # pxCurrentTCB
    <3>1. xRemainingTicks[t] > 0
      BY DEF OnTime, NeverPastDeadline
    <3>. QED  BY <1>1, <2>2, <3>1 DEF Charged
  <2>. QED  BY <2>1, <2>2
<1>4. Elapsed(t) + Charged[t] <= Period(t)
  <2>1. ~(Demand(t, Charged[t]) > Period(t))
    BY <1>1 DEF Killed
  <2>. QED  BY <2>1, <1>2, ReadyDemand
<1>5. now % Period(t) # 0
  <2>1. Elapsed(t) = (xTickCount % Period(t)) + 1 /\ xTickCount \in Nat
    BY <1>1, ElapsedInPeriod DEF OnTime, TypeOK
  <2>2. xTickCount % Period(t) # Period(t) - 1
    BY <2>1, <1>2, <1>3, <1>4
  <2>3. (xTickCount + 1) % Period(t) = (xTickCount % Period(t)) + 1
    BY <2>1, <2>2, <1>2, ModSuccessor
  <2>. QED  BY <2>1, <2>3, <1>2 DEF now
<1>. QED  BY <1>1, <1>2, <1>3, <1>4, <1>5

LEMMA NextOnTime == OnTime /\ [Next]_vars => OnTime'
<1> SUFFICES ASSUME OnTime, [Next]_vars PROVE OnTime'
  OBVIOUS
<1>1. TypeOK' /\ OneList'
  BY NextType, NextOneList DEF OnTime
<1>2. CASE Tick
  <2> USE <1>2 DEF Tick
  <2>1. ~exited /\ ~exited'
    BY DEF TickIsDue
  <2>2. UNCHANGED <<Algorithm, Task_Set>>
    BY DEF config
  <2>3. CountsFromPeriodStart'
    <3> SUFFICES ASSUME NEW t \in Tasks
                 PROVE  start_time'[t] = now - (now % Period(t))
      BY <2>2 DEF CountsFromPeriodStart, Period
    <3>1. /\ xTickCount \in Nat /\ Period(t) \in Nat \ {0}
          /\ start_time[t] = xTickCount - (xTickCount % Period(t))
      BY <2>1, TaskSetFacts DEF OnTime, TypeOK, CountsFromPeriodStart
    <3>2. CASE now % Period(t) = 0
      <4>1. t \in Waiting
        BY <3>2, <2>1, SurvivorFits DEF Waiting, OnTime, OneList
      <4>2. t \in Due
        BY <4>1, <3>2 DEF Due
      <4>. QED  BY <4>2, <3>1, <3>2 DEF now
    <3>3. CASE now % Period(t) # 0
      <4>1. start_time'[t] = start_time[t]
        BY <3>3 DEF Due
      <4>2. (xTickCount + 1) % Period(t) = (xTickCount % Period(t)) + 1
        BY <3>1, <3>3, ModSuccessor DEF now
      <4>3. xTickCount % Period(t) \in Nat
        BY <3>1, DivMod
      <4>. QED  BY <3>1, <4>1, <4>2, <4>3 DEF now
    <3>. QED  BY <3>2, <3>3
  <2>4. NeverPastDeadline'
    <3> SUFFICES ASSUME NEW t \in readyTasks'
                 PROVE  /\ xRemainingTicks'[t] > 0
                        /\ now - start_time'[t] + xRemainingTicks'[t] <= Period(t)
      BY <2>2 DEF NeverPastDeadline, Period
    <3>1. CASE t \in Released
      <4>1. t \in Due /\ t \in Tasks
        BY <3>1, <1>1 DEF Released, OneList
      <4>2. /\ now \in Nat /\ Duration(t) \in Nat \ {0}
            /\ Period(t) \in Nat /\ Duration(t) <= Period(t)
        BY <4>1, TaskSetFacts, StageTypes DEF OnTime, TypeOK
      <4>. QED  BY <4>1, <4>2
    <3>2. CASE t \notin Released
      <4>1. t \in readyTasks \ (Completed \cup Killed)
        BY <3>2
      <4>2. /\ t \in Tasks /\ Charged[t] \in Nat \ {0}
            /\ Elapsed(t) + Charged[t] <= Period(t)
        BY <4>1, <2>1, SurvivorFits
      <4>3. t \notin Due
        BY <4>1, <2>1 DEF Due, Waiting, OnTime, OneList
      <4>4. Elapsed(t) = now - start_time[t]
        BY <4>2, <2>1, ElapsedInPeriod
      <4>. QED  BY <4>2, <4>3, <4>4
    <3>. QED  BY <3>1, <3>2
  <2>5. xTickCount' < Hiperperiod'
    BY <2>1, <2>2 DEF OnTime, now, TypeOK, WellFormed, TaskSetType, Hiperperiod
  <2>. QED  BY <1>1, <2>3, <2>4, <2>5 DEF OnTime
<1>3. CASE ExitTick
  <2>1. exited'
    BY <1>3 DEF ExitTick
  <2>. QED  BY <1>1, <2>1 DEF OnTime, CountsFromPeriodStart, NeverPastDeadline
<1>4. CASE TimerBlocks
  BY <1>1, <1>4 DEF TimerBlocks, OnTime, CountsFromPeriodStart, NeverPastDeadline,
                    config, tcbVars, Period, Hiperperiod
<1>5. CASE UNCHANGED vars
  BY <1>1, <1>5 DEF vars, OnTime, CountsFromPeriodStart, NeverPastDeadline,
                    config, tcbVars, Period, Hiperperiod
<1>. QED  BY <1>2, <1>3, <1>4, <1>5 DEF Next

LEMMA AlwaysOnTime ==
  ASSUME UninitStartTime = {0}
  PROVE  Spec => []OnTime
  BY InitOnTime, NextOnTime, PTL DEF Spec

(* Where start_time of a new TCB is 0, every task counts from the start of *)
(* the period the tick is in, so the report index start_time / period is   *)
(* always that of the pending job.                                         *)
THEOREM PeriodStarts ==
  ASSUME UninitStartTime = {0}
  PROVE  Spec => []CountsFromPeriodStart
<1>1. OnTime => CountsFromPeriodStart
  BY DEF OnTime
<1>. QED  BY <1>1, AlwaysOnTime, PTL

(* There too, no job is left in the ready list that cannot meet its        *)
(* deadline: killTasks, once a tick, is often enough.                      *)
THEOREM ReadyJobsFit ==
  ASSUME UninitStartTime = {0}
  PROVE  Spec => []NeverPastDeadline
<1>1. OnTime => NeverPastDeadline
  BY DEF OnTime
<1>. QED  BY <1>1, AlwaysOnTime, PTL

(* There too, the branch of xTaskIncrementTick that its comment calls      *)
(* unreachable is unreachable.                                             *)
THEOREM VeryBadUnreachable ==
  ASSUME UninitStartTime = {0}
  PROVE  Spec => []NeverVeryBad
<1>1. OnTime => NeverVeryBad
  <2> SUFFICES ASSUME OnTime, ~exited, NEW t \in VeryBad PROVE FALSE
    BY DEF NeverVeryBad
  <2>1. t \in Tasks /\ ~(Elapsed(t) <= Period(t))
    BY DEF VeryBad, Completed, Spent
  <2>2. Elapsed(t) \in 1..Period(t) /\ Period(t) \in Nat
    BY <2>1, ElapsedInPeriod, TaskSetFacts DEF OnTime, TypeOK
  <2>. QED  BY <2>1, <2>2
<1>. QED  BY <1>1, AlwaysOnTime, PTL
-----------------------------------------------------------------------------
(* The period a tick before the hyperperiod is in is one of its periods.   *)
LEMMA JobOfThisPeriod ==
  ASSUME OnTime, ~exited, NEW t \in Tasks
  PROVE  start_time[t] \div Period(t) \in 0..(NumOfPeriods(t) - 1)
<1> DEFINE job == xTickCount \div Period(t)
<1>1. /\ xTickCount \in Nat /\ Period(t) \in Nat \ {0} /\ Hiperperiod \in Nat \ {0}
      /\ Hiperperiod % Period(t) = 0 /\ xTickCount < Hiperperiod
  BY TaskSetFacts DEF OnTime, TypeOK
<1>2. /\ job \in Nat /\ xTickCount = Period(t) * job + (xTickCount % Period(t))
      /\ xTickCount % Period(t) \in 0..(Period(t) - 1)
  BY <1>1, DivMod
<1>3. NumOfPeriods(t) \in Nat /\ Hiperperiod = Period(t) * NumOfPeriods(t)
  <2>1. /\ Hiperperiod \div Period(t) \in Nat
        /\ Hiperperiod = Period(t) * (Hiperperiod \div Period(t)) + (Hiperperiod % Period(t))
    BY <1>1, DivMod
  <2>2. Period(t) * (Hiperperiod \div Period(t)) \in Nat
    BY <1>1, <2>1
  <2>. QED  BY <1>1, <2>1, <2>2 DEF NumOfPeriods
<1> HIDE DEF job
<1>4. start_time[t] = Period(t) * job
  <2>1. start_time[t] = xTickCount - (xTickCount % Period(t))
    BY DEF OnTime, CountsFromPeriodStart
  <2>2. Period(t) * job \in Nat
    BY <1>1, <1>2
  <2>. QED  BY <1>2, <2>1, <2>2
<1>5. start_time[t] \div Period(t) = job
  BY <1>1, <1>2, <1>4, DivModMultiple
<1>6. job < NumOfPeriods(t)
  BY <1>1, <1>2, <1>3, MultipleLess
<1>. QED  BY <1>2, <1>3, <1>5, <1>6

LEMMA NextReport == OnTime /\ ReportWithinPeriods /\ [Next]_vars => ReportWithinPeriods'
<1> SUFFICES ASSUME OnTime, ReportWithinPeriods, [Next]_vars PROVE ReportWithinPeriods'
  OBVIOUS
<1>1. UNCHANGED <<Algorithm, Task_Set>>
  BY DEF Next, Tick, ExitTick, TimerBlocks, vars, config
<1>2. CASE Tick \/ ExitTick
  <2>1. RecordCompletion /\ ~exited
    BY <1>2 DEF Tick, ExitTick, TickIsDue
  <2> SUFFICES ASSUME NEW t \in Tasks
               PROVE  report'[t] \subseteq 0..(NumOfPeriods(t) - 1)
    BY <1>1 DEF ReportWithinPeriods, NumOfPeriods, Hiperperiod, Period
  <2>2. start_time[t] \div Period(t) \in 0..(NumOfPeriods(t) - 1)
    BY <2>1, JobOfThisPeriod
  <2>. QED  BY <2>1, <2>2 DEF RecordCompletion, ReportWithinPeriods
<1>3. CASE TimerBlocks \/ UNCHANGED vars
  BY <1>1, <1>3 DEF TimerBlocks, vars, simVars, ReportWithinPeriods, NumOfPeriods,
                    Hiperperiod, Period
<1>. QED  BY <1>2, <1>3 DEF Next

(* setReport never writes past the periods the final counts read.          *)
THEOREM ReportInRange ==
  ASSUME UninitStartTime = {0}
  PROVE  Spec => []ReportWithinPeriods
<1>1. Init => ReportWithinPeriods
  BY DEF Init, ReportWithinPeriods
<1>. QED  BY <1>1, NextReport, AlwaysOnTime, PTL DEF Spec
-----------------------------------------------------------------------------
(* The ready list is sorted by keys computed at the releases.  A counter   *)
(* only changes when its job leaves the list, so what the key says of the  *)
(* job, and RTO's decision to release it, stay true.                       *)
KeysCurrent ==
  \A t \in readyTasks :
    /\ xItemValue[t].blue = IsBlue(t, previous_deadline_met[t])
    /\ GoesReady(t, previous_deadline_met[t])

LEMMA ConfigUnchanged ==
  ASSUME [Next]_vars
  PROVE  UNCHANGED config
  BY DEF Next, Tick, ExitTick, TimerBlocks, vars

(* A tick leaves alone what it neither completes nor kills.                *)
LEMMA SurvivorKeepsCounter ==
  ASSUME TypeOK, OneList, NEW t \in readyTasks \ (Completed \cup Killed)
  PROVE  /\ t \in Tasks /\ t \notin Due
         /\ MetAfterRun[t] = previous_deadline_met[t]
         /\ MetAfterWake[t] = previous_deadline_met[t]
<1>1. t \in Tasks /\ t \notin Waiting
  BY DEF TypeOK, OneList, Waiting
<1>. QED  BY <1>1 DEF Due, Skipped, MetAfterRun, MetAfterKill, MetAfterWake

LEMMA InitKeys == Init => KeysCurrent
<1> SUFFICES ASSUME Init, NEW t \in readyTasks
             PROVE  /\ xItemValue[t].blue = IsBlue(t, previous_deadline_met[t])
                    /\ GoesReady(t, previous_deadline_met[t])
  BY DEF KeysCurrent
<1>1. /\ t \in Tasks /\ GoesReady(t, 0)
      /\ xItemValue[t] = ReadyKey(t, 0, 0)
      /\ previous_deadline_met[t] = 0
  BY DEF Init
<1>. QED  BY <1>1 DEF ReadyKey

LEMMA NextKeys == TypeOK /\ OneList /\ KeysCurrent /\ [Next]_vars => KeysCurrent'
<1> SUFFICES ASSUME TypeOK, OneList, KeysCurrent, [Next]_vars, NEW t \in readyTasks'
             PROVE  /\ xItemValue'[t].blue = IsBlue(t, previous_deadline_met'[t])
                    /\ GoesReady(t, previous_deadline_met'[t])
  BY ConfigUnchanged DEF KeysCurrent, IsBlue, GoesReady, Constraint, config
<1>1. CASE Tick
  <2>1. CASE t \in Released
    <3>1. t \in Tasks
      BY <2>1 DEF Released, Due, Waiting, TypeOK, Completed, Spent, Killed
    <3>2. xItemValue'[t] = ReadyKey(t, now, MetAfterWake[t])
      BY <1>1, <2>1, <3>1 DEF Tick
    <3>3. previous_deadline_met'[t] = MetAfterWake[t] /\ MetAfterWake[t] = MetAfterKill[t]
      BY <1>1, <2>1, <3>1 DEF Tick, Released, MetAfterWake
    <3>4. GoesReady(t, MetAfterKill[t])
      <4>1. Constraint(t) \in Nat /\ MetAfterKill[t] \in Nat
        BY <3>1, TaskSetFacts, StageTypes DEF TypeOK
      <4>. QED  BY <2>1, <4>1 DEF Released, Skipped, GoesReady
    <3>. QED  BY <3>2, <3>3, <3>4 DEF ReadyKey
  <2>2. CASE t \notin Released
    <3>1. t \in readyTasks \ (Completed \cup Killed)
      BY <1>1, <2>2 DEF Tick
    <3>2. /\ t \in Tasks
          /\ MetAfterWake[t] = previous_deadline_met[t]
      BY <3>1, SurvivorKeepsCounter
    <3>. QED  BY <1>1, <2>2, <3>1, <3>2 DEF Tick, KeysCurrent
  <2>. QED  BY <2>1, <2>2
<1>2. CASE ExitTick
  BY <1>2 DEF ExitTick, KeysCurrent, TypeOK, MetAfterRun
<1>3. CASE TimerBlocks \/ UNCHANGED vars
  BY <1>3 DEF TimerBlocks, vars, tcbVars, KeysCurrent
<1>. QED  BY <1>1, <1>2, <1>3 DEF Next

(* A red job's loss always breaks a constraint and a blue job's never.     *)
LEMMA BreaksIfRed ==
  ASSUME TypeOK, OneList, KeysCurrent, Algorithm # "EDF", NEW t \in Killed
  PROVE  Breaks(t) <=> ~xItemValue[t].blue
<1>1. t \in readyTasks \ Completed /\ t \in Tasks
  BY DEF Killed, TypeOK
<1>2. MetAfterRun[t] = previous_deadline_met[t]
  BY <1>1 DEF MetAfterRun
<1>3. Constraint(t) \in Nat /\ previous_deadline_met[t] \in Nat
  BY <1>1, TaskSetFacts DEF TypeOK
<1>4. Algorithm = "BWP" \/ Algorithm = "RTO"
  BY ConstantsAssumption DEF TypeOK, Algorithms
<1>5. xItemValue[t].blue <=> IsBlue(t, previous_deadline_met[t])
  BY <1>1 DEF KeysCurrent
<1>6. GoesReady(t, previous_deadline_met[t])
  BY <1>1 DEF KeysCurrent
<1>. QED  BY <1>2, <1>3, <1>4, <1>5, <1>6 DEF IsBlue, GoesReady, Breaks

(* Under BWP and RTO the flag falls exactly when a job is killed that was  *)
(* queued red: check_weakly_hard and prvAddTaskToReadyList agree on which  *)
(* jobs may be missed, although they look at the counter ticks apart.      *)
THEOREM OnlyRedJobsBreakAlways == Spec => OnlyRedJobsBreak
<1> DEFINE Inv == TypeOK /\ OneList /\ KeysCurrent
           redKill == \E t \in Tasks : /\ times_killed'[t] > times_killed[t]
                                       /\ ~xItemValue[t].blue
<1>1. Init => Inv
  BY InitType, InitOneList, InitKeys
<1>2. Inv /\ [Next]_vars => Inv'
  BY NextType, NextOneList, NextKeys
<1>3. Inv /\ [Next]_vars =>
        [Algorithm # "EDF" => weakly_hard' = IF redKill THEN 0 ELSE weakly_hard]_vars
  <2> SUFFICES ASSUME Inv, Next, Algorithm # "EDF"
               PROVE  weakly_hard' = IF redKill THEN 0 ELSE weakly_hard
    OBVIOUS
  <2>1. CASE Tick
    <3>1. \A t \in Tasks : times_killed'[t] > times_killed[t] <=> t \in Killed
      BY <2>1 DEF Tick, TypeOK
    <3>2. Killed \subseteq Tasks
      BY DEF Killed, TypeOK
    <3>3. redKill <=> \E t \in Killed : Breaks(t)
      BY <3>1, <3>2, BreaksIfRed
    <3>. QED  BY <2>1, <3>3 DEF Tick
  <2>2. CASE ExitTick \/ TimerBlocks
    BY <2>2 DEF ExitTick, TimerBlocks, simVars, TypeOK
  <2>. QED  BY <2>1, <2>2 DEF Next
<1>. QED  BY <1>1, <1>2, <1>3, PTL DEF Spec, OnlyRedJobsBreak
-----------------------------------------------------------------------------
(* The deadline in a key is the end of the pending job's period, and the   *)
(* processor is with the head of the list, or still with the daemon.       *)
DeadlinesCurrent ==
  \A t \in readyTasks : xItemValue[t].deadline = start_time[t] + Period(t)

HeadRuns ==
  ~exited /\ pxCurrentTCB # Timer => pxCurrentTCB \in Heads(readyTasks, xItemValue)

Queued == KeysCurrent /\ DeadlinesCurrent /\ HeadRuns

LEMMA InitQueued ==
  ASSUME UninitStartTime = {0}
  PROVE  Init => Queued
<1> SUFFICES ASSUME Init PROVE Queued
  OBVIOUS
<1>1. DeadlinesCurrent
  <2> SUFFICES ASSUME NEW t \in readyTasks
               PROVE  xItemValue[t].deadline = start_time[t] + Period(t)
    BY DEF DeadlinesCurrent
  <2>1. t \in Tasks /\ xItemValue[t] = ReadyKey(t, 0, 0) /\ start_time[t] = 0
    BY DEF Init
  <2>2. Period(t) \in Nat \ {0}
    BY <2>1, InitType, TaskSetFacts DEF TypeOK
  <2>3. 0 % Period(t) = 0
    BY <2>2, DivModSmall
  <2>. QED  BY <2>1, <2>2, <2>3 DEF ReadyKey
<1>2. HeadRuns
  BY DEF Init, HeadRuns
<1>. QED  BY <1>1, <1>2, InitKeys DEF Queued

(* Dispatch leaves the processor with a head of the list.                  *)
LEMMA DispatchHead ==
  ASSUME NEW ready, NEW key, NEW moved, Dispatch(ready, key, moved), pxCurrentTCB' # Timer
  PROVE  pxCurrentTCB' \in Heads(ready, key)
  BY DEF Dispatch

LEMMA NextQueued == OnTime /\ Queued /\ [Next]_vars => Queued'
<1> SUFFICES ASSUME OnTime, Queued, [Next]_vars PROVE Queued'
  OBVIOUS
<1>1. KeysCurrent'
  BY NextKeys DEF OnTime, Queued
<1>2. UNCHANGED <<Algorithm, Task_Set>>
  BY ConfigUnchanged DEF config
<1>3. HeadRuns'
  <2>1. CASE Tick
    BY <2>1, DispatchHead DEF Tick, Heads, HeadRuns, Precedes
  <2>2. CASE ExitTick
    BY <2>2 DEF ExitTick, HeadRuns
  <2>3. CASE TimerBlocks \/ UNCHANGED vars
    BY <2>3 DEF TimerBlocks, vars, tcbVars, Queued, HeadRuns, Heads, Precedes
  <2>. QED  BY <2>1, <2>2, <2>3 DEF Next
<1>4. DeadlinesCurrent'
  <2> SUFFICES ASSUME NEW t \in readyTasks'
               PROVE  xItemValue'[t].deadline = start_time'[t] + Period(t)
    BY <1>2 DEF DeadlinesCurrent, Period
  <2>1. CASE Tick
    <3>1. CASE t \in Released
      <4>1. t \in Tasks /\ t \in Due /\ now % Period(t) = 0
        BY <3>1 DEF Released, Due, Waiting, OnTime, TypeOK, Completed, Spent, Killed
      <4>2. xItemValue'[t] = ReadyKey(t, now, MetAfterWake[t]) /\ start_time'[t] = now
        BY <2>1, <3>1, <4>1 DEF Tick
      <4>3. now \in Nat /\ Period(t) \in Nat
        BY <4>1, StageTypes, TaskSetFacts DEF OnTime, TypeOK
      <4>. QED  BY <4>1, <4>2, <4>3 DEF ReadyKey
    <3>2. CASE t \notin Released
      <4>1. t \in readyTasks \ (Completed \cup Killed)
        BY <2>1, <3>2 DEF Tick
      <4>2. t \in Tasks /\ t \notin Due
        BY <4>1, SurvivorKeepsCounter DEF OnTime
      <4>. QED  BY <2>1, <3>2, <4>1, <4>2 DEF Tick, Queued, DeadlinesCurrent
    <3>. QED  BY <3>1, <3>2
  <2>2. CASE ExitTick \/ TimerBlocks \/ UNCHANGED vars
    BY <2>2 DEF ExitTick, TimerBlocks, vars, tcbVars, Queued, DeadlinesCurrent
  <2>. QED  BY <2>1, <2>2 DEF Next
<1>. QED  BY <1>1, <1>3, <1>4 DEF Queued

(* The order of the keys is the order of urgency.                          *)
LEMMA QueuedUrgent == OnTime /\ Queued => RunsMostUrgent
<1> SUFFICES ASSUME OnTime, Queued, ~exited, pxCurrentTCB # Timer, readyTasks # {}
             PROVE  /\ pxCurrentTCB \in readyTasks
                    /\ \A u \in readyTasks : ~MoreUrgent(u, pxCurrentTCB)
  BY DEF RunsMostUrgent, Queued, HeadRuns, Heads
<1>1. /\ pxCurrentTCB \in readyTasks
      /\ \A u \in readyTasks : ~Precedes(xItemValue[u], xItemValue[pxCurrentTCB])
  BY DEF Queued, HeadRuns, Heads
<1>2. \A t \in readyTasks : /\ xItemValue[t].blue <=> MayMiss(t)
                            /\ xItemValue[t].deadline = start_time[t] + Period(t)
  BY DEF Queued, KeysCurrent, DeadlinesCurrent, IsBlue, MayMiss
<1>3. \A t \in readyTasks : xItemValue[t].blue \in BOOLEAN
  BY DEF OnTime, TypeOK
<1>. QED  BY <1>1, <1>2, <1>3 DEF Precedes, MoreUrgent

(* The list is sorted by what was known at the releases, and the processor *)
(* goes to its head only when a task is switched in; still, whenever the   *)
(* daemon is out of the way, the task that runs is the most urgent by the  *)
(* values of the moment.                                                   *)
THEOREM MostUrgentRuns ==
  ASSUME UninitStartTime = {0}
  PROVE  Spec => []RunsMostUrgent
<1>1. Init => Queued
  BY InitQueued
<1>. QED  BY <1>1, QueuedUrgent, NextQueued, AlwaysOnTime, PTL DEF Spec
-----------------------------------------------------------------------------
(* The ledger of a task: only decided jobs are marked in its report, and   *)
(* the counter of a task that may miss jobs is backed by as many marks,    *)
(* up to the last decided job.  A counter that wraps claims less.          *)
Backed(n, marked, met, decided) ==
  /\ marked \subseteq 0..(decided - 1)
  /\ n # 0 => /\ met <= decided
              /\ (decided - met)..(decided - 1) \subseteq marked

Spaced(n, missed) ==
  /\ n = 0 => missed = {}
  /\ \A j, k \in missed : j < k => k - j >= n

LEMMA BackedMet ==
  ASSUME NEW n \in Nat, NEW marked, NEW met \in Nat, NEW decided \in Nat,
         Backed(n, marked, met, decided), NEW later \in Nat, n # 0 => later <= met + 1
  PROVE  Backed(n, marked \cup {decided}, later, decided + 1)
  BY DEF Backed

LEMMA BackedMissed ==
  ASSUME NEW n \in Nat, NEW marked, NEW met \in Nat, NEW decided \in Nat,
         Backed(n, marked, met, decided)
  PROVE  Backed(n, marked, 0, decided + 1)
  BY DEF Backed

LEMMA SpacedMet ==
  ASSUME NEW n \in Nat, NEW marked, NEW decided \in Nat,
         Spaced(n, (0..(decided - 1)) \ marked)
  PROVE  Spaced(n, (0..decided) \ (marked \cup {decided}))
<1>1. (0..decided) \ (marked \cup {decided}) = (0..(decided - 1)) \ marked
  OBVIOUS
<1>. QED  BY <1>1

(* A miss is far enough from the one before when the counter says so.      *)
LEMMA SpacedMissed ==
  ASSUME NEW n \in Nat \ {0}, NEW marked, NEW met \in Nat, NEW decided \in Nat,
         Backed(n, marked, met, decided), met >= n - 1,
         Spaced(n, (0..(decided - 1)) \ marked)
  PROVE  Spaced(n, (0..decided) \ marked)
<1> SUFFICES ASSUME NEW j \in (0..decided) \ marked, NEW k \in (0..decided) \ marked, j < k
             PROVE  k - j >= n
  BY DEF Spaced
<1>1. CASE k < decided
  BY <1>1 DEF Spaced
<1>2. CASE k = decided
  <2>1. j \notin (decided - met)..(decided - 1)
    BY DEF Backed
  <2>. QED  BY <1>2, <2>1
<1>. QED  BY <1>1, <1>2

LEMMA MarkOne ==
  ASSUME NEW decided \in Nat, NEW marked, marked \subseteq 0..(decided - 1)
  PROVE  /\ Cardinality(marked) \in Nat
         /\ Cardinality(marked \cup {decided}) = Cardinality(marked) + 1
<1>1. IsFiniteSet(0..(decided - 1))
  BY FS_Interval
<1>2. IsFiniteSet(marked)
  BY <1>1, FS_Subset
<1>3. decided \notin marked
  OBVIOUS
<1>. QED  BY <1>2, <1>3, FS_AddElement, FS_CardinalityType
-----------------------------------------------------------------------------
(* What one tick decides of a task, stage by stage.                        *)
One(decides) == IF decides THEN 1 ELSE 0
DecidedByRun(t) == Decided(t) + One(t \in Completed)
DecidedByKill(t) == DecidedByRun(t) + One(t \in Killed)
DecidedByWake(t) == DecidedByKill(t) + One(t \in Skipped)
Marked(t) == IF t \in Completed THEN report[t] \cup {Decided(t)} ELSE report[t]

LEMMA DecidedType ==
  ASSUME TypeOK, NEW t \in Tasks
  PROVE  /\ Decided(t) \in Nat
         /\ ~exited => xTickCount \div Period(t) \in Nat
         /\ ~exited /\ t \in readyTasks => Decided(t) = xTickCount \div Period(t)
<1>1. xTickCount \div Period(t) \in Nat
  BY TaskSetFacts, DivMod DEF TypeOK
<1>2. NumOfPeriods(t) \in Nat \ {0}
  <2>1. /\ Hiperperiod \in Nat \ {0} /\ Period(t) \in Nat \ {0}
        /\ Hiperperiod % Period(t) = 0
    BY TaskSetFacts DEF TypeOK
  <2>2. /\ Hiperperiod \div Period(t) \in Nat
        /\ Hiperperiod = Period(t) * (Hiperperiod \div Period(t)) + (Hiperperiod % Period(t))
    BY <2>1, DivMod
  <2>. QED  BY <2>1, <2>2 DEF NumOfPeriods
<1>. QED  BY <1>1, <1>2 DEF Decided, JobsStarted

(* The mark of a completed job is that of the first job not yet decided.   *)
LEMMA RecordIsMark ==
  ASSUME OnTime, ~exited, RecordCompletion, NEW t \in Tasks
  PROVE  /\ report'[t] = Marked(t)
         /\ t \in Completed => t \in readyTasks
<1>1. t \in Completed => t \in readyTasks
  BY DEF Completed, Spent, OnTime, OneList
<1>2. /\ xTickCount \in Nat /\ Period(t) \in Nat \ {0}
      /\ start_time[t] = xTickCount - (xTickCount % Period(t))
  BY TaskSetFacts DEF OnTime, TypeOK, CountsFromPeriodStart
<1>3. start_time[t] \div Period(t) = xTickCount \div Period(t)
  <2> DEFINE job == xTickCount \div Period(t)
  <2>1. /\ job \in Nat /\ xTickCount % Period(t) \in 0..(Period(t) - 1)
        /\ xTickCount = Period(t) * job + (xTickCount % Period(t))
    BY <1>2, DivMod
  <2> HIDE DEF job
  <2>2. Period(t) \in Nat \ {0} /\ job \in Nat
    BY <1>2, <2>1
  <2>3. Period(t) * job \in Nat
    BY <2>2
  <2>4. start_time[t] = Period(t) * job
    BY <1>2, <2>1, <2>3
  <2>5. (Period(t) * job) \div Period(t) = job
    BY <2>2, DivModMultiple
  <2>. QED  BY <2>4, <2>5 DEF job
<1>4. t \in readyTasks => Decided(t) = xTickCount \div Period(t)
  BY DecidedType DEF OnTime
<1>. QED  BY <1>1, <1>3, <1>4 DEF RecordCompletion, Marked

(* A tick decides the job it completes or kills, and the next one if it is *)
(* skipped.                                                                *)
LEMMA TickDecides ==
  ASSUME OnTime, Tick, NEW t \in Tasks
  PROVE  Decided(t)' = DecidedByWake(t)
<1>1. /\ ~exited /\ ~exited' /\ xTickCount' = now /\ Period(t)' = Period(t)
  BY DEF Tick, TickIsDue, config, Period
<1>2. /\ xTickCount \in Nat /\ Period(t) \in Nat \ {0}
  BY TaskSetFacts DEF OnTime, TypeOK
<1>3. /\ Completed \subseteq readyTasks /\ Killed \subseteq readyTasks \ Completed
      /\ readyTasks \cap xWaitTaskList = {}
  BY DEF Completed, Spent, OnTime, OneList, Killed, Tick, TickIsDue
<1>4. readyTasks' = (readyTasks \ (Completed \cup Killed)) \cup Released
  BY DEF Tick
<1>5. JobsStarted(t) = (xTickCount \div Period(t)) + 1 /\ xTickCount \div Period(t) \in Nat
  BY <1>1, <1>2, DivMod DEF JobsStarted
<1>6. JobsStarted(t)' = (now \div Period(t)) + 1
  BY <1>1 DEF JobsStarted
<1>7. now % Period(t) = 0 <=> xTickCount % Period(t) = Period(t) - 1
  <2>1. xTickCount % Period(t) \in 0..(Period(t) - 1)
    BY <1>2, DivMod
  <2>. QED  BY <1>2, <2>1, ModSuccessor DEF now
<1>8. now \div Period(t) = (xTickCount \div Period(t)) + One(now % Period(t) = 0)
  <2>1. now \div Period(t) = IF xTickCount % Period(t) = Period(t) - 1
                           THEN (xTickCount \div Period(t)) + 1 ELSE xTickCount \div Period(t)
    BY <1>2, DivSuccessor DEF now
  <2>. QED  BY <1>5, <1>7, <2>1 DEF One
<1>9. t \in readyTasks' <=> t \in Released \/ t \in readyTasks \ (Completed \cup Killed)
  BY <1>4
<1>10. CASE now % Period(t) = 0
  <2>1. t \in Waiting
    BY <1>1, <1>10, SurvivorFits DEF Waiting, OnTime, OneList
  <2>2. t \in Due /\ t \notin readyTasks \ (Completed \cup Killed)
    BY <1>1, <1>10, <2>1, SurvivorFits DEF Due
  <2>3. t \in readyTasks' <=> t \notin Skipped
    BY <1>9, <2>2 DEF Released
  <2>. QED  BY <1>3, <1>5, <1>6, <1>8, <1>10, <2>2, <2>3
            DEF Decided, DecidedByWake, DecidedByKill, DecidedByRun, One
<1>11. CASE now % Period(t) # 0
  <2>1. t \notin Due /\ t \notin Skipped /\ t \notin Released
    BY <1>11 DEF Due, Skipped, Released
  <2>. QED  BY <1>3, <1>5, <1>6, <1>8, <1>9, <1>11, <2>1
            DEF Decided, DecidedByWake, DecidedByKill, DecidedByRun, One
<1>. QED  BY <1>10, <1>11

LEMMA ExitDecides ==
  ASSUME OnTime, ExitTick, NEW t \in Tasks
  PROVE  Decided(t)' = DecidedByRun(t)
<1>1. /\ ~exited /\ exited' /\ NumOfPeriods(t)' = NumOfPeriods(t)
      /\ readyTasks' = readyTasks \ Completed
  BY DEF ExitTick, TickIsDue, config, NumOfPeriods, Period, Hiperperiod
<1>2. /\ xTickCount \in Nat /\ Period(t) \in Nat \ {0} /\ xTickCount + 1 = Hiperperiod
      /\ Hiperperiod % Period(t) = 0
  BY TaskSetFacts DEF OnTime, TypeOK, ExitTick, now
<1>3. Completed \subseteq readyTasks
  BY DEF Completed, Spent, OnTime, OneList, ExitTick, TickIsDue
<1>4. NumOfPeriods(t) = (xTickCount \div Period(t)) + 1
  <2>1. xTickCount % Period(t) = Period(t) - 1
    <3>1. xTickCount % Period(t) \in 0..(Period(t) - 1)
      BY <1>2, DivMod
    <3>2. (xTickCount + 1) % Period(t) = 0
      BY <1>2
    <3>3. (xTickCount + 1) % Period(t) = IF xTickCount % Period(t) = Period(t) - 1
                                         THEN 0 ELSE (xTickCount % Period(t)) + 1
      BY <1>2, ModSuccessor
    <3>. QED  BY <3>1, <3>2, <3>3
  <2>. QED  BY <1>2, <2>1, DivSuccessor DEF NumOfPeriods
<1>5. JobsStarted(t) = NumOfPeriods(t) /\ JobsStarted(t)' = NumOfPeriods(t)
  BY <1>1, <1>4 DEF JobsStarted
<1>6. xTickCount \div Period(t) \in Nat
  BY <1>2, DivMod
<1>. QED  BY <1>1, <1>3, <1>4, <1>5, <1>6 DEF Decided, DecidedByRun, One
-----------------------------------------------------------------------------
(* The books kept on one task, and the flag's promise about it.            *)
Books(n, marked, met, decided, flag) ==
  /\ Backed(n, marked, met, decided)
  /\ flag => Spaced(n, (0..(decided - 1)) \ marked)

Ledger == \A t \in Tasks : Books(Constraint(t), report[t], previous_deadline_met[t],
                                 Decided(t), weakly_hard = 1)

LEMMA MetOnceAtMost ==
  ASSUME NEW met \in Nat
  PROVE  MetOnce(met) \in Nat /\ MetOnce(met) <= met + 1
<1>1. CounterModulus \in Nat \ {0} /\ met + 1 \in Nat
  BY ConstantsAssumption
<1>2. /\ (met + 1) % CounterModulus \in Nat
      /\ (met + 1) % CounterModulus <= met + 1
  <2>1. /\ (met + 1) \div CounterModulus \in Nat
        /\ (met + 1) % CounterModulus \in 0..(CounterModulus - 1)
        /\ met + 1 = CounterModulus * ((met + 1) \div CounterModulus)
                      + ((met + 1) % CounterModulus)
    BY <1>1, DivMod
  <2>2. CounterModulus * ((met + 1) \div CounterModulus) \in Nat
    BY <1>1, <2>1
  <2>. QED  BY <1>1, <2>1, <2>2
<1>. QED  BY <1>2 DEF MetOnce

(* The stages of a tick keep the books, as long as the flag stays up.      *)
LEMMA RunKeepsBooks ==
  ASSUME OnTime, Ledger, NEW t \in Tasks
  PROVE  Books(Constraint(t), Marked(t), MetAfterRun[t], DecidedByRun(t), weakly_hard = 1)
<1>1. /\ Constraint(t) \in Nat /\ previous_deadline_met[t] \in Nat
      /\ Decided(t) \in Nat
  BY TaskSetFacts, DecidedType DEF OnTime, TypeOK
<1>2. Books(Constraint(t), report[t], previous_deadline_met[t], Decided(t), weakly_hard = 1)
  BY DEF Ledger
<1>3. CASE t \in Completed
  <2>1. MetAfterRun[t] \in Nat /\ MetAfterRun[t] <= previous_deadline_met[t] + 1
    BY <1>1, MetOnceAtMost DEF MetAfterRun
  <2>2. Backed(Constraint(t), report[t] \cup {Decided(t)}, MetAfterRun[t], Decided(t) + 1)
    BY <1>1, <1>2, <2>1, BackedMet DEF Books
  <2>3. weakly_hard = 1 =>
          Spaced(Constraint(t), (0..Decided(t)) \ (report[t] \cup {Decided(t)}))
    BY <1>1, <1>2, SpacedMet DEF Books
  <2>4. DecidedByRun(t) = Decided(t) + 1 /\ DecidedByRun(t) - 1 = Decided(t)
    BY <1>1, <1>3 DEF DecidedByRun, One
  <2>. QED  BY <1>3, <2>2, <2>3, <2>4 DEF Books, Marked
<1>4. CASE t \notin Completed
  <2>1. DecidedByRun(t) = Decided(t)
    BY <1>1, <1>4 DEF DecidedByRun, One
  <2>. QED  BY <1>2, <1>4, <2>1 DEF Marked, MetAfterRun
<1>. QED  BY <1>3, <1>4

(* A miss that the counter allows keeps the promise.                       *)
LEMMA MissKeepsBooks ==
  ASSUME NEW n \in Nat, NEW marked, NEW met \in Nat, NEW decided \in Nat,
         NEW flag \in BOOLEAN, NEW later \in BOOLEAN,
         Books(n, marked, met, decided, flag),
         later => flag /\ n # 0 /\ met >= n - 1
  PROVE  Books(n, marked, 0, decided + 1, later)
<1>1. Backed(n, marked, 0, decided + 1)
  BY BackedMissed DEF Books
<1>2. later => Spaced(n, (0..decided) \ marked)
  BY SpacedMissed DEF Books
<1>3. (decided + 1) - 1 = decided
  OBVIOUS
<1>. QED  BY <1>1, <1>2, <1>3 DEF Books

LEMMA KillKeepsBooks ==
  ASSUME OnTime, Ledger, NEW t \in Tasks, NEW flag \in BOOLEAN,
         flag => weakly_hard = 1 /\ \A u \in Killed : ~Breaks(u)
  PROVE  Books(Constraint(t), Marked(t), MetAfterKill[t], DecidedByKill(t), flag)
<1>1. /\ Constraint(t) \in Nat /\ MetAfterRun[t] \in Nat
      /\ DecidedByRun(t) \in Nat
  BY TaskSetFacts, DecidedType, StageTypes DEF OnTime, TypeOK, DecidedByRun, One
<1>2. Books(Constraint(t), Marked(t), MetAfterRun[t], DecidedByRun(t), weakly_hard = 1)
  BY RunKeepsBooks
<1>3. CASE t \in Killed
  <2>1. flag => weakly_hard = 1 /\ Constraint(t) # 0 /\ MetAfterRun[t] >= Constraint(t) - 1
    BY <1>1, <1>3 DEF Breaks
  <2>2. Books(Constraint(t), Marked(t), 0, DecidedByRun(t) + 1, flag)
    BY <1>1, <1>2, <2>1, MissKeepsBooks
  <2>3. MetAfterKill[t] = 0 /\ DecidedByKill(t) = DecidedByRun(t) + 1
    BY <1>3 DEF MetAfterKill, DecidedByKill, One
  <2>. QED  BY <2>2, <2>3
<1>4. CASE t \notin Killed
  <2>1. MetAfterKill[t] = MetAfterRun[t] /\ DecidedByKill(t) = DecidedByRun(t)
    BY <1>1, <1>4 DEF MetAfterKill, DecidedByKill, One
  <2>. QED  BY <1>2, <2>1 DEF Books
<1>. QED  BY <1>3, <1>4

LEMMA WakeKeepsBooks ==
  ASSUME OnTime, Ledger, NEW t \in Tasks, NEW flag \in BOOLEAN,
         flag => weakly_hard = 1 /\ \A u \in Killed : ~Breaks(u)
  PROVE  Books(Constraint(t), Marked(t), MetAfterWake[t], DecidedByWake(t), flag)
<1>1. /\ Constraint(t) \in Nat /\ MetAfterKill[t] \in Nat
      /\ DecidedByKill(t) \in Nat
  BY TaskSetFacts, DecidedType, StageTypes DEF OnTime, TypeOK, DecidedByRun, DecidedByKill, One
<1>2. Books(Constraint(t), Marked(t), MetAfterKill[t], DecidedByKill(t), flag)
  BY KillKeepsBooks
<1>3. CASE t \in Skipped
  <2>1. Constraint(t) # 0 /\ MetAfterKill[t] >= Constraint(t) - 1
    BY <1>3 DEF Skipped
  <2>2. Books(Constraint(t), Marked(t), 0, DecidedByKill(t) + 1, flag)
    BY <1>1, <1>2, <2>1, MissKeepsBooks
  <2>3. MetAfterWake[t] = 0 /\ DecidedByWake(t) = DecidedByKill(t) + 1
    BY <1>3 DEF MetAfterWake, DecidedByWake, One
  <2>. QED  BY <2>2, <2>3
<1>4. CASE t \notin Skipped
  <2>1. MetAfterWake[t] = MetAfterKill[t] /\ DecidedByWake(t) = DecidedByKill(t)
    BY <1>1, <1>4 DEF MetAfterWake, DecidedByWake, One
  <2>. QED  BY <1>2, <2>1
<1>. QED  BY <1>3, <1>4

(* At the start the first job is pending, or skipped by RTO.               *)
LEMMA InitDecided ==
  ASSUME Init, NEW t \in Tasks
  PROVE  /\ Decided(t) = One(t \notin readyTasks)
         /\ t \notin readyTasks => Algorithm = "RTO" /\ Constraint(t) = 1
<1>1. /\ Constraint(t) \in Nat /\ Period(t) \in Nat \ {0}
  BY InitType, TaskSetFacts DEF TypeOK
<1>2. JobsStarted(t) = 1
  <2>1. 0 \div Period(t) = 0
    BY <1>1, DivModSmall
  <2>. QED  BY <2>1 DEF Init, JobsStarted
<1>3. t \notin readyTasks => Algorithm = "RTO" /\ Constraint(t) = 1
  BY <1>1 DEF Init, GoesReady
<1>. QED  BY <1>2, <1>3 DEF Decided, One

LEMMA InitLedger == Init => Ledger
<1> SUFFICES ASSUME Init, NEW t \in Tasks
             PROVE  Books(Constraint(t), {}, 0, Decided(t), TRUE)
  BY DEF Init, Ledger, Books
<1>1. Constraint(t) \in Nat
  BY InitType, TaskSetFacts DEF TypeOK
<1>2. CASE t \in readyTasks
  BY <1>2, <1>1, InitDecided DEF One, Books, Backed, Spaced
<1>3. CASE t \notin readyTasks
  BY <1>3, <1>1, InitDecided DEF One, Books, Backed, Spaced
<1>. QED  BY <1>2, <1>3

LEMMA NextLedger == OnTime /\ Ledger /\ [Next]_vars => Ledger'
<1> SUFFICES ASSUME OnTime, Ledger, [Next]_vars PROVE Ledger'
  OBVIOUS
<1>1. UNCHANGED <<Algorithm, Task_Set>>
  BY ConfigUnchanged DEF config
<1>2. CASE Tick
  <2> SUFFICES ASSUME NEW t \in Tasks
               PROVE  Books(Constraint(t), report'[t], previous_deadline_met'[t],
                            Decided(t)', weakly_hard' = 1)
    BY <1>1 DEF Ledger, Constraint
  <2>1. report'[t] = Marked(t)
    BY <1>2, RecordIsMark DEF Tick, TickIsDue
  <2>2. Decided(t)' = DecidedByWake(t)
    BY <1>2, TickDecides
  <2>3. previous_deadline_met'[t] = MetAfterWake[t]
    BY <1>2 DEF Tick
  <2>4. weakly_hard' = 1 => weakly_hard = 1 /\ \A u \in Killed : ~Breaks(u)
    BY <1>2 DEF Tick
  <2>. QED  BY <2>1, <2>2, <2>3, <2>4, WakeKeepsBooks
<1>3. CASE ExitTick
  <2> SUFFICES ASSUME NEW t \in Tasks
               PROVE  Books(Constraint(t), report'[t], previous_deadline_met'[t],
                            Decided(t)', weakly_hard' = 1)
    BY <1>1 DEF Ledger, Constraint
  <2>1. report'[t] = Marked(t)
    BY <1>3, RecordIsMark DEF ExitTick, TickIsDue
  <2>2. Decided(t)' = DecidedByRun(t)
    BY <1>3, ExitDecides
  <2>3. previous_deadline_met'[t] = MetAfterRun[t] /\ weakly_hard' = weakly_hard
    BY <1>3 DEF ExitTick
  <2>. QED  BY <2>1, <2>2, <2>3, RunKeepsBooks
<1>4. CASE TimerBlocks \/ UNCHANGED vars
  BY <1>4, <1>1 DEF TimerBlocks, vars, tcbVars, simVars, Ledger, Decided, JobsStarted,
                    NumOfPeriods, Period, Hiperperiod, Constraint
<1>. QED  BY <1>2, <1>3, <1>4 DEF Next

(* The flag misses nothing: the one counter per task, reset at each miss   *)
(* and kept in a byte, together with a test at each kill and each skip, is *)
(* enough to know that the decided jobs keep the constraint.               *)
THEOREM FlagMissesNothing ==
  ASSUME UninitStartTime = {0}
  PROVE  Spec => []FlagComplete
<1>1. Ledger => FlagComplete
  BY DEF Ledger, Books, Spaced, FlagComplete, WithinConstraint, Missed
<1>. QED  BY <1>1, InitLedger, NextLedger, AlwaysOnTime, PTL DEF Spec
-----------------------------------------------------------------------------
LEMMA InitAccounted == Init => EveryJobAccounted
<1> SUFFICES ASSUME Init, NEW t \in Tasks
             PROVE  LET accounted == Cardinality(report[t]) + times_killed[t]
                    IN IF Algorithm = "RTO" THEN accounted <= Decided(t)
                                            ELSE accounted = Decided(t)
  BY DEF EveryJobAccounted
<1>1. report[t] = {} /\ times_killed[t] = 0
  BY DEF Init
<1>2. Cardinality(report[t]) = 0
  BY <1>1, FS_EmptySet
<1>3. Decided(t) \in {0, 1} /\ (Decided(t) = 1 => Algorithm = "RTO")
  BY InitDecided DEF One
<1>. QED  BY <1>1, <1>2, <1>3

LEMMA NextAccounted ==
  OnTime /\ Ledger /\ EveryJobAccounted /\ [Next]_vars => EveryJobAccounted'
<1> SUFFICES ASSUME OnTime, Ledger, EveryJobAccounted, [Next]_vars
             PROVE  EveryJobAccounted'
  OBVIOUS
<1>1. UNCHANGED <<Algorithm, Task_Set>>
  BY ConfigUnchanged DEF config
<1>2. CASE Tick \/ ExitTick
  <2> SUFFICES ASSUME NEW t \in Tasks
               PROVE  LET accounted == Cardinality(report'[t]) + times_killed'[t]
                      IN IF Algorithm = "RTO" THEN accounted <= Decided(t)'
                                              ELSE accounted = Decided(t)'
    BY <1>1 DEF EveryJobAccounted
  <2>1. report'[t] = Marked(t)
    BY <1>2, RecordIsMark DEF Tick, ExitTick, TickIsDue
  <2>2. Decided(t) \in Nat /\ times_killed[t] \in Nat
    BY DecidedType DEF OnTime, TypeOK
  <2>3. /\ Cardinality(report[t]) \in Nat
        /\ Cardinality(Marked(t)) = Cardinality(report[t]) + One(t \in Completed)
    <3>1. report[t] \subseteq 0..(Decided(t) - 1)
      BY DEF Ledger, Books, Backed
    <3>2. /\ Cardinality(report[t]) \in Nat
          /\ Cardinality(report[t] \cup {Decided(t)}) = Cardinality(report[t]) + 1
      BY <2>2, <3>1, MarkOne
    <3>. QED  BY <3>2 DEF Marked, One
  <2>4. LET accounted == Cardinality(report[t]) + times_killed[t]
        IN IF Algorithm = "RTO" THEN accounted <= Decided(t) ELSE accounted = Decided(t)
    BY DEF EveryJobAccounted
  <2>5. CASE Tick
    <3>1. times_killed'[t] = times_killed[t] + One(t \in Killed)
      BY <2>2, <2>5 DEF Tick, One
    <3>2. Decided(t)' = Decided(t) + One(t \in Completed) + One(t \in Killed)
                        + One(t \in Skipped)
      BY <2>5, TickDecides DEF DecidedByWake, DecidedByKill, DecidedByRun
    <3>3. Algorithm # "RTO" => t \notin Skipped
      BY DEF Skipped
    <3>. QED  BY <2>1, <2>2, <2>3, <2>4, <3>1, <3>2, <3>3 DEF One
  <2>6. CASE ExitTick
    <3>1. times_killed'[t] = times_killed[t]
      BY <2>6 DEF ExitTick
    <3>2. Decided(t)' = Decided(t) + One(t \in Completed)
      BY <2>6, ExitDecides DEF DecidedByRun
    <3>. QED  BY <2>1, <2>2, <2>3, <2>4, <3>1, <3>2 DEF One
  <2>. QED  BY <1>2, <2>5, <2>6
<1>3. CASE TimerBlocks \/ UNCHANGED vars
  BY <1>3, <1>1 DEF TimerBlocks, vars, tcbVars, simVars, EveryJobAccounted, Decided,
                    JobsStarted, NumOfPeriods, Period, Hiperperiod
<1>. QED  BY <1>2, <1>3 DEF Next

(* Between ticks the three ledgers of the simulation agree: the marks of   *)
(* setReport, the count of kills and the jobs that are over add up, except *)
(* for the jobs RTO skipped without a trace.                               *)
THEOREM JobsAddUp ==
  ASSUME UninitStartTime = {0}
  PROVE  Spec => []EveryJobAccounted
  BY InitLedger, NextLedger, InitAccounted, NextAccounted, AlwaysOnTime, PTL DEF Spec
-----------------------------------------------------------------------------
(* The processor's time.  While the simulator runs, a pending job has      *)
(* ticks left, no more than its duration: the start_time malloc leaves in  *)
(* a new TCB may kill a job early, never revive a spent one.               *)
Serving ==
  /\ TypeOK
  /\ OneList
  /\ \A t \in Tasks : IsFiniteSet(report[t])
  /\ ~exited =>
       /\ xTickCount < Hiperperiod
       /\ \A t \in Tasks : start_time[t] < TickModulus
       /\ \A t \in readyTasks : xRemainingTicks[t] \in 1..Duration(t)

LEMMA InitServing == Init => Serving
<1> SUFFICES ASSUME Init PROVE Serving
  OBVIOUS
<1>1. TypeOK /\ OneList
  BY InitType, InitOneList
<1>2. \A t \in Tasks : IsFiniteSet(report[t])
  BY FS_EmptySet DEF Init
<1>3. xTickCount < Hiperperiod
  BY <1>1 DEF Init, TypeOK, WellFormed, TaskSetType, Hiperperiod
<1>4. \A t \in Tasks : start_time[t] < TickModulus
  <2> SUFFICES ASSUME NEW t \in Tasks PROVE start_time[t] < TickModulus
    OBVIOUS
  <2>1. start_time[t] \in UninitStartTime
    BY DEF Init
  <2>2. UninitStartTime \subseteq 0..(TickModulus - 1) /\ TickModulus \in Nat
    BY ConstantsAssumption
  <2>3. start_time[t] \in 0..(TickModulus - 1)
    BY <2>1, <2>2
  <2>. QED  BY <2>2, <2>3
<1>5. ASSUME NEW t \in readyTasks PROVE xRemainingTicks[t] \in 1..Duration(t)
  <2>1. t \in Tasks /\ xRemainingTicks[t] = Duration(t)
    BY DEF Init
  <2>2. Duration(t) \in Nat \ {0}
    BY <1>1, <2>1, TaskSetFacts DEF TypeOK
  <2>. QED  BY <2>1, <2>2
<1>. QED  BY <1>1, <1>2, <1>3, <1>4, <1>5 DEF Serving

(* A job that a tick spends and does not complete is killed by that tick.  *)
LEMMA SpentLeaves ==
  ASSUME Serving, ~exited, NEW t \in readyTasks \ (Completed \cup Killed)
  PROVE  t \in Tasks /\ Charged[t] \in 1..xRemainingTicks[t]
<1>1. t \in Tasks /\ t \in readyTasks /\ t \notin Completed /\ t \notin Killed
  BY DEF Serving, OneList
<1>2. xRemainingTicks[t] \in Nat \ {0} /\ Charged[t] \in Nat /\ Charged[t] <= xRemainingTicks[t]
  BY <1>1, StageTypes DEF Serving, TypeOK
<1>3. ASSUME Charged[t] = 0 PROVE FALSE
  <2>1. t = pxCurrentTCB
    BY <1>1, <1>2, <1>3 DEF Charged
  <2>2. Elapsed(t) > Period(t)
    <3>1. t \in Spent
      BY <1>1, <1>3, <2>1 DEF Spent
    <3>2. Elapsed(t) \in Int /\ Period(t) \in Nat
      BY <1>1, StageTypes, TaskSetFacts DEF Serving, TypeOK
    <3>. QED  BY <1>1, <3>1, <3>2 DEF Completed
  <2>3. /\ xTickCount \in Nat /\ xTickCount < Hiperperiod /\ start_time[t] \in Nat
        /\ start_time[t] < TickModulus /\ Period(t) \in Nat /\ TickModulus \in Nat
        /\ Hiperperiod \in Nat /\ 2 * Hiperperiod < TickModulus
    BY <1>1, TaskSetFacts, ConstantsAssumption DEF Serving, TypeOK
  <2>4. Elapsed(t) \in Nat /\ Elapsed(t) < TickModulus
    BY <2>3 DEF Elapsed, now
  <2>5. Demand(t, Charged[t]) = Elapsed(t)
    BY <1>3, <2>3, <2>4 DEF Demand
  <2>. QED  BY <1>1, <2>2, <2>5 DEF Killed
<1>. QED  BY <1>1, <1>2, <1>3

LEMMA RecordFinite ==
  ASSUME TypeOK, RecordCompletion, \A t \in Tasks : IsFiniteSet(report[t])
  PROVE  \A t \in Tasks : IsFiniteSet(report'[t])
<1> SUFFICES ASSUME NEW t \in Tasks PROVE IsFiniteSet(report'[t])
  OBVIOUS
<1>1. report'[t] = report[t] \/ report'[t] = report[t] \cup {start_time[t] \div Period(t)}
  BY DEF RecordCompletion
<1>. QED  BY <1>1, FS_AddElement

LEMMA NextServing == Serving /\ [Next]_vars => Serving'
<1> SUFFICES ASSUME Serving, [Next]_vars PROVE Serving'
  OBVIOUS
<1>1. TypeOK' /\ OneList'
  BY NextType, NextOneList DEF Serving
<1>2. UNCHANGED <<Algorithm, Task_Set>>
  BY ConfigUnchanged DEF config
<1>3. \A t \in Tasks : Duration(t)' = Duration(t)
  BY <1>2 DEF Duration
<1>4. Hiperperiod' = Hiperperiod
  BY <1>2 DEF Hiperperiod
<1>5. CASE Tick
  <2>1. \A t \in Tasks : IsFiniteSet(report'[t])
    BY <1>5, RecordFinite DEF Tick, Serving
  <2>2. xTickCount' < Hiperperiod
    <3>1. /\ xTickCount \in Nat /\ Hiperperiod \in Nat /\ xTickCount < Hiperperiod
          /\ xTickCount' = xTickCount + 1 /\ xTickCount + 1 # Hiperperiod
      BY <1>5 DEF Tick, TickIsDue, Serving, TypeOK, WellFormed, TaskSetType, Hiperperiod, now
    <3>. QED  BY <3>1
  <2>3. \A t \in Tasks : start_time'[t] < TickModulus
    <3>1. /\ xTickCount \in Nat /\ Hiperperiod \in Nat /\ xTickCount < Hiperperiod
          /\ 2 * Hiperperiod < TickModulus /\ TickModulus \in Nat
      BY <1>5, ConstantsAssumption
         DEF Tick, TickIsDue, Serving, TypeOK, WellFormed, TaskSetType, Hiperperiod
    <3>2. now < TickModulus
      BY <3>1 DEF now
    <3>. QED  BY <1>5, <3>2 DEF Tick, TickIsDue, Serving
  <2>4. ASSUME NEW t \in readyTasks' PROVE xRemainingTicks'[t] \in 1..Duration(t)
    <3>1. CASE t \in Released
      <4>1. t \in Tasks /\ t \in Due
        BY <3>1 DEF Released, Due, Waiting, Serving, TypeOK, Completed, Spent, Killed
      <4>2. xRemainingTicks'[t] = Duration(t) /\ Duration(t) \in Nat \ {0}
        BY <1>5, <4>1, TaskSetFacts DEF Tick, Serving, TypeOK
      <4>. QED  BY <4>2
    <3>2. CASE t \notin Released
      <4>1. t \in readyTasks \ (Completed \cup Killed)
        BY <1>5, <3>2, <2>4 DEF Tick
      <4>2. t \in Tasks /\ t \notin Due
        BY <4>1, SurvivorKeepsCounter DEF Serving
      <4>3. xRemainingTicks'[t] = Charged[t]
        BY <1>5, <4>2 DEF Tick
      <4>4. ~exited
        BY <1>5 DEF Tick, TickIsDue
      <4>5. xRemainingTicks[t] \in 1..Duration(t) /\ Charged[t] \in 1..xRemainingTicks[t]
        BY <4>1, <4>4, SpentLeaves DEF Serving
      <4>6. Duration(t) \in Nat
        BY <4>2, TaskSetFacts DEF Serving, TypeOK
      <4>. QED  BY <4>3, <4>5, <4>6
    <3>. QED  BY <3>1, <3>2
  <2>. QED  BY <1>1, <1>3, <1>4, <2>1, <2>2, <2>3, <2>4, <1>5 DEF Serving, OneList
<1>6. CASE ExitTick
  <2>1. \A t \in Tasks : IsFiniteSet(report'[t])
    BY <1>6, RecordFinite DEF ExitTick, Serving
  <2>. QED  BY <1>1, <1>6, <2>1 DEF ExitTick, Serving
<1>7. CASE TimerBlocks \/ UNCHANGED vars
  BY <1>1, <1>3, <1>4, <1>7 DEF TimerBlocks, vars, tcbVars, simVars, Serving, OneList
<1>. QED  BY <1>5, <1>6, <1>7 DEF Next

LEMMA ServiceType ==
  Serving => \A t \in Tasks : /\ Service(t) \in Int
                              /\ Cardinality(report[t]) \in Nat
                              /\ Duration(t) \in Nat \ {0}
<1> SUFFICES ASSUME Serving, NEW t \in Tasks
             PROVE  /\ Service(t) \in Int
                    /\ Cardinality(report[t]) \in Nat
                    /\ Duration(t) \in Nat \ {0}
  OBVIOUS
<1>1. Cardinality(report[t]) \in Nat
  BY FS_CardinalityType DEF Serving
<1>2. Duration(t) \in Nat \ {0} /\ xRemainingTicks[t] \in Nat
  BY TaskSetFacts DEF Serving, TypeOK
<1>3. Cardinality(report[t]) * Duration(t) \in Nat
  BY <1>1, <1>2
<1>. QED  BY <1>1, <1>2, <1>3 DEF Service

(* A tick serves the task it interrupted, at most, and by one tick.        *)
LEMMA ServiceStep ==
  ASSUME Serving, Tick \/ ExitTick, NEW t \in Tasks
  PROVE  Service(t)' <= Service(t) + (IF t = pxCurrentTCB THEN 1 ELSE 0)
<1> DEFINE C == Cardinality(report[t])
           D == Duration(t)
           r == xRemainingTicks[t]
<1>1. ~exited /\ Task_Set' = Task_Set
  BY DEF Tick, ExitTick, TickIsDue, config
<1>2. Duration(t)' = Duration(t)
  BY <1>1 DEF Duration
<1>3. /\ C \in Nat /\ D \in Nat \ {0} /\ r \in Nat
      /\ Charged[t] \in Nat
      /\ Charged[t] = IF t = pxCurrentTCB /\ r > 0 THEN r - 1 ELSE r
  BY ServiceType, StageTypes DEF Serving, TypeOK, Charged
<1>4. C * D \in Nat /\ (C + 1) * D = C * D + D
  BY <1>3
<1>5. t \in readyTasks => r \in 1..D
  BY <1>1 DEF Serving
<1>6. CASE t \in Completed
  <2>1. t = pxCurrentTCB /\ Charged[t] = 0 /\ t \in readyTasks
    BY <1>1, <1>6 DEF Completed, Spent, Serving, OneList
  <2>2. r = 1
    BY <1>3, <1>5, <2>1
  <2>3. report'[t] = report[t] \cup {start_time[t] \div Period(t)}
    BY <1>6 DEF Tick, ExitTick, RecordCompletion
  <2>4. Cardinality(report'[t]) \in Nat /\ Cardinality(report'[t]) <= C + 1
    <3>1. IsFiniteSet(report[t])
      BY DEF Serving
    <3> DEFINE j == start_time[t] \div Period(t)
    <3> HIDE DEF j
    <3>2. Cardinality(report[t] \cup {j}) = C \/ Cardinality(report[t] \cup {j}) = C + 1
      BY <3>1, FS_AddElement
    <3>. QED  BY <1>3, <2>3, <3>2 DEF j
  <2>5. Cardinality(report'[t]) * D <= C * D + D /\ Cardinality(report'[t]) * D \in Nat
    <3>1. \A a, b, c \in Nat : a <= b => a * c <= b * c
      OBVIOUS
    <3>2. Cardinality(report'[t]) * D <= (C + 1) * D
      <4> HIDE DEF C, D
      <4>. QED  BY <1>3, <2>4, <3>1
    <3>. QED  BY <1>3, <1>4, <2>4, <3>2
  <2>6. t \in readyTasks' => xRemainingTicks'[t] = D
    <3>1. CASE Tick
      <4>1. t \in readyTasks' => t \in Released
        BY <3>1, <1>6 DEF Tick
      <4>. QED  BY <3>1, <4>1 DEF Tick, Released
    <3>2. CASE ExitTick
      BY <3>2, <1>6 DEF ExitTick
    <3>. QED  BY <3>1, <3>2
  <2>7. Service(t)' = Cardinality(report'[t]) * D
                       + IF t \in readyTasks' THEN D - xRemainingTicks'[t] ELSE 0
    BY <1>2 DEF Service
  <2>8. Service(t) = C * D + (D - 1)
    BY <2>1, <2>2 DEF Service
  <2> HIDE DEF C, D, r
  <2>. QED  BY <1>3, <1>4, <2>1, <2>5, <2>6, <2>7, <2>8
<1>7. CASE t \notin Completed
  <2>1. report'[t] = report[t]
    BY <1>7 DEF Tick, ExitTick, RecordCompletion
  <2>2. Service(t)' = C * D + IF t \in readyTasks' THEN D - xRemainingTicks'[t] ELSE 0
    BY <1>2, <2>1 DEF Service
  <2>3. Service(t) = C * D + IF t \in readyTasks THEN D - r ELSE 0
    BY DEF Service
  <2>4. \/ t \notin readyTasks'
        \/ xRemainingTicks'[t] = D
        \/ t \in readyTasks /\ xRemainingTicks'[t] = Charged[t]
    BY DEF Tick, ExitTick, Released
  <2> HIDE DEF C, D, r
  <2>. QED  BY <1>3, <1>4, <1>5, <2>2, <2>3, <2>4
<1>. QED  BY <1>6, <1>7

LEMMA NextService == Serving /\ ServiceFitsTime /\ [Next]_vars => ServiceFitsTime'
<1> SUFFICES ASSUME Serving, ServiceFitsTime, [Next]_vars PROVE ServiceFitsTime'
  OBVIOUS
<1> DEFINE f == [t \in Tasks |-> Service(t)]
           g == [t \in Tasks |-> Service(t)']
<1>1. CASE Tick \/ ExitTick
  <2>1. Serving'
    BY NextServing
  <2>2. \A t \in Tasks : f[t] \in Int /\ g[t] \in Int
    <3>1. (Serving => \A t \in Tasks : /\ Service(t) \in Int
                                       /\ Cardinality(report[t]) \in Nat
                                       /\ Duration(t) \in Nat \ {0})'
      BY ServiceType, PTL
    <3>2. \A t \in Tasks : Service(t)' \in Int
      BY <2>1, <3>1
    <3>. QED  BY <3>2, ServiceType
  <2>3. \A t \in Tasks : g[t] <= f[t] + (IF t = pxCurrentTCB THEN 1 ELSE 0)
    BY <1>1, ServiceStep
  <2>4. SumFunctionOnSet(f, Tasks) <= xTickCount /\ xTickCount \in Nat
    BY DEF ServiceFitsTime, SumFunction, Serving, TypeOK
  <2>5. xTickCount' = xTickCount + 1
    BY <1>1 DEF Tick, ExitTick, now
  <2>6. SumFunctionOnSet(g, Tasks) \in Int /\ SumFunctionOnSet(f, Tasks) \in Int
    <3> HIDE DEF f, g
    <3>. QED  BY <2>2, SumType, TasksAssumption
  <2>7. CASE pxCurrentTCB \in Tasks
    <3> HIDE DEF f, g
    <3>1. g[pxCurrentTCB] + (-1) <= f[pxCurrentTCB]
      BY <2>2, <2>3, <2>7
    <3>2. \A t \in Tasks \ {pxCurrentTCB} : g[t] <= f[t]
      BY <2>2, <2>3
    <3>3. SumFunctionOnSet(g, Tasks) + (-1) <= SumFunctionOnSet(f, Tasks)
      BY <2>2, <2>7, <3>1, <3>2, SumMonotonicAt, TasksAssumption
    <3>4. SumFunctionOnSet(g, Tasks) <= xTickCount'
      BY <2>4, <2>5, <2>6, <3>3
    <3>. QED  BY <3>4 DEF g, ServiceFitsTime, SumFunction
  <2>8. CASE pxCurrentTCB \notin Tasks
    <3> HIDE DEF f, g
    <3>1. \A t \in Tasks : g[t] <= f[t]
      BY <2>2, <2>3, <2>8
    <3>2. SumFunctionOnSet(g, Tasks) <= SumFunctionOnSet(f, Tasks)
      BY <2>2, <3>1, SumMonotonic, TasksAssumption
    <3>3. SumFunctionOnSet(g, Tasks) <= xTickCount'
      BY <2>4, <2>5, <2>6, <3>2
    <3>. QED  BY <3>3 DEF g, ServiceFitsTime, SumFunction
  <2>. QED  BY <2>7, <2>8
<1>2. CASE TimerBlocks \/ UNCHANGED vars
  <2>1. \A t \in Tasks : Service(t)' = Service(t)
    BY <1>2 DEF TimerBlocks, vars, tcbVars, simVars, config, Service, Duration
  <2>2. xTickCount' = xTickCount
    BY <1>2 DEF TimerBlocks, vars
  <2>3. f = g
    BY <2>1
  <2>. QED  BY <2>2, <2>3 DEF ServiceFitsTime
<1>. QED  BY <1>1, <1>2 DEF Next

(* No job is reported met on time the processor did not have: whatever the *)
(* report of the simulator claims was executed fits the ticks counted.     *)
THEOREM ServiceNeverExceedsTime == Spec => []ServiceFitsTime
<1>1. Init => ServiceFitsTime
  <2> SUFFICES ASSUME Init PROVE ServiceFitsTime
    OBVIOUS
  <2> DEFINE f == [t \in Tasks |-> Service(t)]
  <2>1. \A t \in Tasks : f[t] = 0
    <3> SUFFICES ASSUME NEW t \in Tasks PROVE Service(t) = 0
      OBVIOUS
    <3>1. Duration(t) \in Nat
      BY InitType, TaskSetFacts DEF TypeOK
    <3>2. report[t] = {} /\ xRemainingTicks[t] = Duration(t)
      BY DEF Init
    <3>3. Cardinality(report[t]) = 0
      BY <3>2, FS_EmptySet
    <3>. QED  BY <3>1, <3>2, <3>3 DEF Service
  <2>2. SumFunctionOnSet(f, Tasks) = 0
    BY <2>1, SumZero, TasksAssumption
  <2>. QED  BY <2>2 DEF Init, ServiceFitsTime, SumFunction
<1>. QED  BY <1>1, InitServing, NextServing, NextService, PTL DEF Spec
-----------------------------------------------------------------------------
(* The jobs that must be met of the next n of a task that may miss one in  *)
(* every c, when it misses as early as it may and q were met since its     *)
(* last miss.                                                              *)
Must(c, n, q) == IF c = 0 THEN n ELSE n - ((n + q) \div c)

LEMMA MustNone ==
  ASSUME NEW c \in Nat, NEW q \in Nat, c # 0 => q < c
  PROVE  Must(c, 0, q) = 0
  BY DivModSmall DEF Must

LEMMA MustGrows ==
  ASSUME NEW c \in Nat, NEW n \in Nat, NEW q \in Nat, NEW j \in Nat
  PROVE  /\ Must(c, n, q) \in Int /\ Must(c, n + j, q) \in Int
         /\ Must(c, n, q) <= Must(c, n + j, q)
<1>1. CASE c = 0
  BY <1>1 DEF Must
<1>2. CASE c # 0
  <2> DEFINE a == n + q
             x == a \div c
             y == (a + j) \div c
  <2>1. a \in Nat
    OBVIOUS
  <2>2. x \in Nat /\ y \in Nat /\ y <= x + j
    BY <1>2, <2>1, DivMonotone
  <2>3. (n + j) + q = a + j
    OBVIOUS
  <2>4. Must(c, n, q) = n - x /\ Must(c, n + j, q) = (n + j) - y
    BY <1>2, <2>3 DEF Must
  <2> HIDE DEF a, x, y
  <2>. QED  BY <2>2, <2>4
<1>. QED  BY <1>1, <1>2

LEMMA MustFewer ==
  ASSUME NEW c \in Nat, NEW n \in Nat, NEW q \in Nat, NEW j \in Nat
  PROVE  /\ Must(c, n, q) \in Int /\ Must(c, n, q + j) \in Int
         /\ Must(c, n, q + j) <= Must(c, n, q)
<1>1. CASE c = 0
  BY <1>1 DEF Must
<1>2. CASE c # 0
  <2> DEFINE a == n + q
             x == a \div c
             y == (a + j) \div c
  <2>1. a \in Nat
    OBVIOUS
  <2>2. x \in Nat /\ y \in Nat /\ x <= y
    BY <1>2, <2>1, DivMonotone
  <2>3. n + (q + j) = a + j
    OBVIOUS
  <2>4. Must(c, n, q) = n - x /\ Must(c, n, q + j) = n - y
    BY <1>2, <2>3 DEF Must
  <2> HIDE DEF a, x, y
  <2>. QED  BY <2>2, <2>4
<1>. QED  BY <1>1, <1>2

LEMMA MustType ==
  ASSUME NEW c \in Nat, NEW n \in Nat, NEW q \in Nat, c # 0 => q < c
  PROVE  Must(c, n, q) \in Nat
<1>1. Must(c, 0, q) = 0
  BY MustNone
<1>2. Must(c, 0, q) <= Must(c, 0 + n, q) /\ Must(c, 0 + n, q) \in Int
  BY MustGrows
<1>3. 0 + n = n
  OBVIOUS
<1>. QED  BY <1>1, <1>2, <1>3

(* The first of them is met ...                                            *)
LEMMA MustMeetOne ==
  ASSUME NEW c \in Nat, NEW n \in Nat, NEW q \in Nat
  PROVE  Must(c, n + 1, q) = 1 + Must(c, n, q + 1)
<1>1. CASE c = 0
  BY <1>1 DEF Must
<1>2. CASE c # 0
  <2>1. n + 1 + q = n + (q + 1) /\ (n + (q + 1)) \div c \in Int
    BY <1>2
  <2>. QED  BY <1>2, <2>1 DEF Must
<1>. QED  BY <1>1, <1>2

(* ... or missed, if those before it allow that.                           *)
LEMMA MustMissOne ==
  ASSUME NEW c \in Nat \ {0}, NEW n \in Nat
  PROVE  Must(c, n + 1, c - 1) = Must(c, n, 0)
<1> DEFINE x == n \div c
           r == n % c
<1>1. x \in Nat /\ r \in 0..(c - 1) /\ n = c * x + r
  BY DivMod
<1> HIDE DEF x, r
<1>2. n + c = c * (x + 1) + r /\ x + 1 \in Int
  BY <1>1
<1>3. (n + c) \div c = x + 1
  <2>1. (c * (x + 1) + r) \div c = x + 1
    <3>1. x + 1 \in Int
      BY <1>1
    <3>2. \A y \in Int : (c * y + r) \div c = y
      BY <1>1, DivModUnique
    <3>. QED  BY <3>1, <3>2
  <2>. QED  BY <1>2, <2>1
<1>4. n + 1 + (c - 1) = n + c /\ n + 0 = n
  OBVIOUS
<1>. QED  BY <1>1, <1>3, <1>4 DEF Must, x
-----------------------------------------------------------------------------
(* Feasibility.  What the processor still owes t by tick d, if t misses    *)
(* every job it may: the rest of a pending job that must be met, and the   *)
(* jobs that start and must be met by d.                                   *)
Left(t, d) == (d \div Period(t)) - (xTickCount \div Period(t))

Counted(t, met) == IF met < SkipEvery(t) THEN met
                   ELSE IF SkipEvery(t) = 0 THEN 0 ELSE SkipEvery(t) - 1

Later(t, n, q) == IF n <= 0 THEN 0 ELSE Duration(t) * Must(SkipEvery(t), n, q)

RedBy(t, d) == t \in readyTasks /\ ~MayMiss(t) /\ Left(t, d) > 0

Owed(t, d) ==
  IF RedBy(t, d)
  THEN xRemainingTicks[t] + Later(t, Left(t, d) - 1, Counted(t, previous_deadline_met[t]) + 1)
  ELSE IF t \in readyTasks THEN Later(t, Left(t, d) - 1, 0)
       ELSE Later(t, Left(t, d) - 1, Counted(t, previous_deadline_met[t]))

DemandFits ==
  ~exited => \A d \in xTickCount..Hiperperiod :
               SumFunction([t \in Tasks |-> Owed(t, d)]) <= d - xTickCount

LEMMA SkipFacts ==
  ASSUME TypeOK, NEW t \in Tasks
  PROVE  /\ SkipEvery(t) \in Nat /\ previous_deadline_met[t] \in Nat
         /\ SkipEvery(t) <= Constraint(t) /\ Constraint(t) \in Nat
<1>1. Constraint(t) \in Nat /\ previous_deadline_met[t] \in Nat
  BY TaskSetFacts DEF TypeOK
<1>. QED  BY <1>1 DEF SkipEvery

LEMMA CountedType ==
  ASSUME TypeOK, NEW t \in Tasks, NEW met \in Nat
  PROVE  /\ Counted(t, met) \in Nat
         /\ SkipEvery(t) # 0 => Counted(t, met) < SkipEvery(t)
<1>1. SkipEvery(t) \in Nat
  BY SkipFacts
<1>. QED  BY <1>1 DEF Counted

LEMMA LaterType ==
  ASSUME TypeOK, NEW t \in Tasks, NEW n \in Int, NEW q \in Nat,
         SkipEvery(t) # 0 => q < SkipEvery(t)
  PROVE  Later(t, n, q) \in Nat
<1>1. CASE n <= 0
  BY <1>1 DEF Later
<1>2. CASE n > 0
  <2>1. Must(SkipEvery(t), n, q) \in Nat
    <3>1. SkipEvery(t) \in Nat /\ n \in Nat
      BY <1>2, SkipFacts
    <3>. QED  BY <3>1, MustType
  <2>2. Duration(t) \in Nat
    BY TaskSetFacts DEF TypeOK
  <2>. QED  BY <2>1, <2>2 DEF Later
<1>. QED  BY <1>1, <1>2

(* Fewer jobs owe less, and a task that met more of them owes less.        *)
LEMMA LaterFewer ==
  ASSUME TypeOK, NEW t \in Tasks, NEW n \in Int, NEW q \in Nat,
         SkipEvery(t) # 0 => q < SkipEvery(t)
  PROVE  Later(t, n, q) <= Later(t, n, 0)
<1>1. CASE n <= 0
  BY <1>1 DEF Later
<1>2. CASE n > 0
  <2> DEFINE c == SkipEvery(t)
  <2>0. c \in Nat /\ n \in Nat /\ 0 \in Nat /\ (c # 0 => q < c) /\ (c # 0 => 0 < c)
    BY <1>2, SkipFacts
  <2> HIDE DEF c
  <2>1. Must(c, n, 0 + q) <= Must(c, n, 0)
    BY <2>0, MustFewer
  <2>2. Must(c, n, q) \in Nat /\ Must(c, n, 0) \in Nat
    BY <2>0, MustType
  <2>3. Duration(t) \in Nat /\ 0 + q = q
    BY TaskSetFacts DEF TypeOK
  <2>4. \A a, b, k \in Nat : a <= b => k * a <= k * b
    OBVIOUS
  <2>5. Duration(t) * Must(c, n, q) <= Duration(t) * Must(c, n, 0)
    BY <2>1, <2>2, <2>3, <2>4
  <2>. QED  BY <1>2, <2>5 DEF Later, c
<1>. QED  BY <1>1, <1>2

(* The first of the later jobs is missed, or met: the rest owe the same.   *)
LEMMA LaterMissOne ==
  ASSUME TypeOK, NEW t \in Tasks, NEW n \in Int, SkipEvery(t) # 0
  PROVE  Later(t, n - 1, 0) = Later(t, n, SkipEvery(t) - 1)
<1> DEFINE c == SkipEvery(t)
           m == n - 1
<1>1. c \in Nat \ {0} /\ Duration(t) \in Nat /\ m \in Int /\ n = m + 1
  BY SkipFacts, TaskSetFacts DEF TypeOK
<1> HIDE DEF c, m
<1>2. CASE m < 0
  BY <1>1, <1>2 DEF Later, m
<1>3. CASE m >= 0
  <2>1. Must(c, m + 1, c - 1) = Must(c, m, 0)
    BY <1>1, <1>3, MustMissOne
  <2>2. m = 0 => Must(c, m, 0) = 0
    BY <1>1, MustNone
  <2>3. Later(t, m + 1, c - 1) = Duration(t) * Must(c, m, 0)
    BY <1>1, <1>3, <2>1 DEF Later, c
  <2>4. Later(t, m, 0) = Duration(t) * Must(c, m, 0)
    <3>1. CASE m = 0
      BY <1>1, <2>2, <3>1 DEF Later
    <3>2. CASE m # 0
      BY <1>1, <1>3, <3>2 DEF Later, c
    <3>. QED  BY <3>1, <3>2
  <2>. QED  BY <1>1, <2>3, <2>4 DEF m, c
<1>. QED  BY <1>1, <1>2, <1>3

LEMMA LaterMeetOne ==
  ASSUME TypeOK, NEW t \in Tasks, NEW n \in Nat \ {0}, NEW q \in Nat,
         SkipEvery(t) # 0 => q + 1 < SkipEvery(t)
  PROVE  Duration(t) + Later(t, n - 1, q + 1) = Later(t, n, q)
<1> DEFINE c == SkipEvery(t)
           m == n - 1
           D == Duration(t)
<1>1. c \in Nat /\ D \in Nat /\ m \in Nat /\ n = m + 1 /\ q + 1 \in Nat
  BY SkipFacts, TaskSetFacts DEF TypeOK
<1>2. c # 0 => q + 1 < c
  OBVIOUS
<1> HIDE DEF c, m, D
<1>3. Must(c, m + 1, q) = 1 + Must(c, m, q + 1)
  BY <1>1, MustMeetOne
<1>4. Must(c, m, q + 1) \in Nat
  BY <1>1, <1>2, MustType
<1>5. m = 0 => Must(c, m, q + 1) = 0
  BY <1>1, <1>2, MustNone
<1>6. Later(t, m, q + 1) = D * Must(c, m, q + 1)
  <2>1. CASE m = 0
    BY <1>1, <1>5, <2>1 DEF Later
  <2>2. CASE m # 0
    BY <1>1, <2>2 DEF Later, c, D
  <2>. QED  BY <2>1, <2>2
<1>7. Later(t, m + 1, q) = D * (1 + Must(c, m, q + 1))
  BY <1>1, <1>3 DEF Later, c, D
<1>8. D * (1 + Must(c, m, q + 1)) = D + D * Must(c, m, q + 1)
  BY <1>1, <1>4
<1>9. D + Later(t, m, q + 1) = Later(t, n, q)
  BY <1>1, <1>6, <1>7, <1>8
<1>. QED  BY <1>9 DEF m, D

LEMMA RedCounter ==
  ASSUME TypeOK, KeysCurrent, NEW t \in readyTasks, ~MayMiss(t), SkipEvery(t) # 0
  PROVE  /\ previous_deadline_met[t] + 1 < SkipEvery(t)
         /\ SkipEvery(t) = Constraint(t)
         /\ Counted(t, previous_deadline_met[t]) = previous_deadline_met[t]
<1>1. t \in Tasks
  BY DEF TypeOK
<1>2. Algorithm # "EDF" /\ SkipEvery(t) = Constraint(t)
  BY DEF SkipEvery
<1>3. Algorithm = "BWP" \/ Algorithm = "RTO"
  BY <1>2, ConstantsAssumption DEF TypeOK, Algorithms
<1>4. previous_deadline_met[t] \in Nat /\ Constraint(t) \in Nat
  BY <1>1, SkipFacts
<1>5. previous_deadline_met[t] < Constraint(t) - 1
  <2>1. GoesReady(t, previous_deadline_met[t])
    BY DEF KeysCurrent
  <2>. QED  BY <1>2, <1>3, <1>4, <2>1 DEF GoesReady, MayMiss
<1>. QED  BY <1>2, <1>4, <1>5 DEF Counted

LEMMA LeftType ==
  ASSUME TypeOK, NEW t \in Tasks, NEW d \in Nat
  PROVE  Left(t, d) \in Int
<1>1. Period(t) \in Nat \ {0} /\ xTickCount \in Nat
  BY TaskSetFacts DEF TypeOK
<1>2. d \div Period(t) \in Nat /\ xTickCount \div Period(t) \in Nat
  BY <1>1, DivMod
<1>. QED  BY <1>2 DEF Left

LEMMA OwedType ==
  TypeOK /\ KeysCurrent => \A t \in Tasks : \A e \in Nat : Owed(t, e) \in Nat
<1> SUFFICES ASSUME TypeOK, KeysCurrent, NEW t \in Tasks, NEW d \in Nat
             PROVE  Owed(t, d) \in Nat
  OBVIOUS
<1>1. /\ Left(t, d) - 1 \in Int /\ xRemainingTicks[t] \in Nat
      /\ previous_deadline_met[t] \in Nat
  BY LeftType, SkipFacts DEF TypeOK
<1> DEFINE q == Counted(t, previous_deadline_met[t])
<1>2. q \in Nat /\ (SkipEvery(t) # 0 => q < SkipEvery(t)) /\ SkipEvery(t) \in Nat
  BY <1>1, SkipFacts, CountedType
<1>3. CASE RedBy(t, d)
  <2>1. SkipEvery(t) # 0 => q + 1 < SkipEvery(t)
    BY <1>3, RedCounter DEF RedBy
  <2>2. Later(t, Left(t, d) - 1, q + 1) \in Nat
    <3> HIDE DEF q
    <3>. QED  BY <1>1, <1>2, <2>1, LaterType
  <2>. QED  BY <1>1, <1>3, <2>2 DEF Owed
<1>4. CASE ~RedBy(t, d)
  <2>1. Later(t, Left(t, d) - 1, q) \in Nat /\ Later(t, Left(t, d) - 1, 0) \in Nat
    <3> HIDE DEF q
    <3>. QED  BY <1>1, <1>2, LaterType
  <2>. QED  BY <1>4, <2>1 DEF Owed
<1>. QED  BY <1>3, <1>4

(* The terms of Owed one tick later.                                       *)
LEMMA OwedAfter ==
  ASSUME OnTime, Tick, NEW t \in Tasks, NEW d \in Nat
  PROVE  LET left == IF now % Period(t) = 0 THEN Left(t, d) - 1 ELSE Left(t, d)
             met == previous_deadline_met'[t]
         IN Owed(t, d)' =
              IF t \in readyTasks'
              THEN IF /\ ~(Algorithm = "BWP" /\ Constraint(t) # 0 /\ met >= Constraint(t) - 1)
                      /\ left > 0
                   THEN xRemainingTicks'[t] + Later(t, left - 1, Counted(t, met) + 1)
                   ELSE Later(t, left - 1, 0)
              ELSE Later(t, left - 1, Counted(t, met))
<1> DEFINE met == previous_deadline_met'[t]
           left == IF now % Period(t) = 0 THEN Left(t, d) - 1 ELSE Left(t, d)
<1>1. UNCHANGED <<Algorithm, Task_Set>>
  BY DEF Tick, config
<1>2. /\ Period(t)' = Period(t) /\ Duration(t)' = Duration(t)
      /\ Constraint(t)' = Constraint(t) /\ SkipEvery(t)' = SkipEvery(t)
  BY <1>1 DEF Period, Duration, Constraint, SkipEvery
<1>3. Counted(t, previous_deadline_met[t])' = Counted(t, met)
  BY <1>2 DEF Counted
<1>4. Left(t, d)' = left
  <2>1. xTickCount \in Nat /\ Period(t) \in Nat \ {0} /\ xTickCount' = xTickCount + 1
    BY TaskSetFacts DEF OnTime, TypeOK, Tick, now
  <2>2. /\ (xTickCount + 1) \div Period(t) = IF xTickCount % Period(t) = Period(t) - 1
                                             THEN (xTickCount \div Period(t)) + 1
                                             ELSE xTickCount \div Period(t)
        /\ (xTickCount + 1) % Period(t) = IF xTickCount % Period(t) = Period(t) - 1 THEN 0
                                          ELSE (xTickCount % Period(t)) + 1
    BY <2>1, DivSuccessor, ModSuccessor
  <2>3. /\ xTickCount % Period(t) \in Nat /\ xTickCount \div Period(t) \in Nat
        /\ d \div Period(t) \in Nat
    <3>1. \A a \in Nat : a % Period(t) \in 0..(Period(t) - 1) /\ a \div Period(t) \in Nat
      BY <2>1, DivMod
    <3>. QED  BY <2>1, <3>1
  <2>4. Left(t, d)' = (d \div Period(t)) - ((xTickCount + 1) \div Period(t))
    BY <1>2, <2>1 DEF Left
  <2>5. Left(t, d) = (d \div Period(t)) - (xTickCount \div Period(t))
    BY DEF Left
  <2>. QED  BY <2>2, <2>3, <2>4, <2>5 DEF now
<1>5. /\ Later(t, Left(t, d) - 1, Counted(t, previous_deadline_met[t]) + 1)'
           = Later(t, left - 1, Counted(t, met) + 1)
      /\ Later(t, Left(t, d) - 1, 0)' = Later(t, left - 1, 0)
      /\ Later(t, Left(t, d) - 1, Counted(t, previous_deadline_met[t]))'
           = Later(t, left - 1, Counted(t, met))
  <2> HIDE DEF left, met
  <2>. QED  BY <1>2, <1>3, <1>4 DEF Later
<1>6. MayMiss(t)' = (Algorithm = "BWP" /\ Constraint(t) # 0 /\ met >= Constraint(t) - 1)
  BY <1>1, <1>2 DEF MayMiss
<1>7. RedBy(t, d)' = (t \in readyTasks' /\ ~(MayMiss(t)') /\ left > 0)
  <2> HIDE DEF left
  <2>. QED  BY <1>4 DEF RedBy
<1>8. Owed(t, d)' = IF RedBy(t, d)'
                    THEN xRemainingTicks'[t] + Later(t, left - 1, Counted(t, met) + 1)
                    ELSE IF t \in readyTasks' THEN Later(t, left - 1, 0)
                         ELSE Later(t, left - 1, Counted(t, met))
  <2> HIDE DEF left, met
  <2>. QED  BY <1>5 DEF Owed
<1> HIDE DEF left, met
<1>9. Owed(t, d)' =
        IF t \in readyTasks'
        THEN IF /\ ~(Algorithm = "BWP" /\ Constraint(t) # 0 /\ met >= Constraint(t) - 1)
                /\ left > 0
             THEN xRemainingTicks'[t] + Later(t, left - 1, Counted(t, met) + 1)
             ELSE Later(t, left - 1, 0)
        ELSE Later(t, left - 1, Counted(t, met))
  BY <1>6, <1>7, <1>8
<1>. QED  BY <1>9 DEF left, met

(* A task whose job the tick ends, or that had none, owes its later jobs:  *)
(* it does not matter whether the tick starts the next one, skips it or    *)
(* leaves the task waiting.                                                *)
LEMMA OwedAnew ==
  ASSUME OnTime, Tick, NEW t \in Tasks, t \notin readyTasks \ (Completed \cup Killed),
         NEW d \in Nat
  PROVE  Owed(t, d)' = Later(t, Left(t, d) - 1, Counted(t, MetAfterKill[t]))
<1> DEFINE left == Left(t, d)
           met == MetAfterKill[t]
           c == SkipEvery(t)
           D == Duration(t)
           C == Constraint(t)
<1>1. c \in Nat /\ D \in Nat /\ met \in Nat /\ left \in Int /\ C \in Nat
  <2>1. TypeOK
    BY DEF OnTime
  <2>2. c \in Nat /\ C \in Nat /\ left \in Int
    BY <2>1, SkipFacts, LeftType
  <2>3. D \in Nat
    BY <2>1, TaskSetFacts DEF TypeOK
  <2>4. met \in Nat
    BY <2>1, StageTypes
  <2>. QED  BY <2>2, <2>3, <2>4
<1>2. c = IF Algorithm = "EDF" THEN 0 ELSE C
  BY DEF SkipEvery
<1>3. Algorithm \in {"EDF", "BWP", "RTO"}
  BY ConstantsAssumption DEF OnTime, TypeOK, Algorithms
<1>4. t \in Waiting
  BY DEF Waiting, OnTime, OneList
<1>5. CASE now % Period(t) # 0
  <2>1. t \notin Due
    BY <1>5 DEF Due
  <2>2. t \notin readyTasks' /\ previous_deadline_met'[t] = met
    BY <2>1 DEF Tick, Released, Skipped, MetAfterWake
  <2>. QED  BY <1>5, <2>2, OwedAfter
<1>6. CASE now % Period(t) = 0
  <2>1. t \in Due
    BY <1>4, <1>6 DEF Due
  <2> DEFINE q == Counted(t, met)
             q2 == Counted(t, previous_deadline_met'[t])
  <2>2. /\ q = IF met < c THEN met ELSE IF c = 0 THEN 0 ELSE c - 1
        /\ q \in Nat
    BY <1>1, CountedType DEF Counted, OnTime
  <2>3. CASE t \in Skipped
    <3>1. /\ Algorithm = "RTO" /\ C # 0 /\ met >= C - 1
          /\ t \notin readyTasks' /\ previous_deadline_met'[t] = 0
      BY <2>3 DEF Skipped, Tick, Released, MetAfterWake
    <3>2. c # 0 /\ q = c - 1
      BY <1>1, <1>2, <2>2, <3>1
    <3>3. q2 = 0
      BY <1>1, <3>1, <3>2 DEF Counted
    <3>4. Owed(t, d)' = Later(t, (left - 1) - 1, 0)
      BY <1>6, <3>1, <3>3, OwedAfter
    <3>5. Later(t, (left - 1) - 1, 0) = Later(t, left - 1, c - 1)
      <4>1. left - 1 \in Int
        BY <1>1
      <4> HIDE DEF left
      <4>. QED  BY <3>2, <4>1, LaterMissOne DEF OnTime
    <3>. QED  BY <3>2, <3>4, <3>5
  <2>4. CASE t \notin Skipped
    <3>1. /\ t \in readyTasks' /\ previous_deadline_met'[t] = met /\ xRemainingTicks'[t] = D
          /\ ~(Algorithm = "RTO" /\ C # 0 /\ met >= C - 1)
      BY <2>1, <2>4 DEF Skipped, Tick, Released, MetAfterWake
    <3>2. CASE Algorithm = "BWP" /\ C # 0 /\ met >= C - 1
      <4>1. c # 0 /\ q = c - 1
        BY <1>1, <1>2, <2>2, <3>2
      <4>2. Owed(t, d)' = Later(t, (left - 1) - 1, 0)
        BY <1>6, <3>1, <3>2, OwedAfter
      <4>3. Later(t, (left - 1) - 1, 0) = Later(t, left - 1, c - 1)
        <5>1. left - 1 \in Int
          BY <1>1
        <5> HIDE DEF left
        <5>. QED  BY <4>1, <5>1, LaterMissOne DEF OnTime
      <4>. QED  BY <4>1, <4>2, <4>3
    <3>3. CASE ~(Algorithm = "BWP" /\ C # 0 /\ met >= C - 1)
      <4>1. Owed(t, d)' = IF left - 1 > 0 THEN D + Later(t, (left - 1) - 1, q + 1)
                          ELSE Later(t, (left - 1) - 1, 0)
        BY <1>6, <3>1, <3>3, OwedAfter
      <4>2. CASE left - 1 <= 0
        BY <1>1, <4>1, <4>2 DEF Later
      <4>3. CASE left - 1 > 0
        <5>1. left - 1 \in Nat \ {0}
          BY <1>1, <4>3
        <5>2. c # 0 => q + 1 < c
          BY <1>1, <1>2, <1>3, <2>2, <3>1, <3>3
        <5>3. D + Later(t, (left - 1) - 1, q + 1) = Later(t, left - 1, q)
          <6> HIDE DEF left, q
          <6>. QED  BY <2>2, <5>1, <5>2, LaterMeetOne DEF OnTime
        <5>. QED  BY <4>1, <4>3, <5>3
      <4>. QED  BY <1>1, <4>2, <4>3
    <3>. QED  BY <3>2, <3>3
  <2>. QED  BY <2>3, <2>4
<1>. QED  BY <1>1, <1>5, <1>6

(* A tick pays the task it serves, and never adds to what is owed.         *)
LEMMA OwedStep ==
  ASSUME OnTime, KeysCurrent, Tick, NEW t \in Tasks, NEW d \in Nat,
         t \in Killed => ~RedBy(t, d)
  PROVE  /\ RedBy(t, d) => Owed(t, d)' + (IF t = pxCurrentTCB THEN 1 ELSE 0) <= Owed(t, d)
         /\ ~RedBy(t, d) => /\ Owed(t, d)' <= Owed(t, d)
                            /\ Owed(t, d)' <= Later(t, Left(t, d) - 1, 0)
<1> DEFINE n == Left(t, d) - 1
           met == previous_deadline_met[t]
           after == MetAfterKill[t]
           c == SkipEvery(t)
           C == Constraint(t)
           r == xRemainingTicks[t]
<1>1. TypeOK /\ ~exited
  BY DEF OnTime, Tick, TickIsDue
<1>2. /\ n \in Int /\ Left(t, d) \in Int /\ c \in Nat /\ C \in Nat /\ c <= C
      /\ met \in Nat /\ after \in Nat /\ r \in Nat
  <2>1. Left(t, d) \in Int /\ c \in Nat /\ C \in Nat /\ c <= C /\ met \in Nat
    BY <1>1, LeftType, SkipFacts
  <2>2. after \in Nat /\ r \in Nat
    BY <1>1, StageTypes DEF TypeOK
  <2>. QED  BY <2>1, <2>2
<1>3. /\ Counted(t, met) \in Nat /\ (c # 0 => Counted(t, met) < c)
      /\ Counted(t, after) \in Nat /\ (c # 0 => Counted(t, after) < c)
  BY <1>1, <1>2, CountedType
<1>4. Owed(t, d) = IF RedBy(t, d) THEN r + Later(t, n, Counted(t, met) + 1)
                   ELSE IF t \in readyTasks THEN Later(t, n, 0)
                        ELSE Later(t, n, Counted(t, met))
  BY DEF Owed
<1>5. /\ Later(t, n, Counted(t, after)) \in Nat /\ Later(t, n, 0) \in Nat
      /\ Later(t, n, Counted(t, after)) <= Later(t, n, 0)
      /\ Later(t, n, Counted(t, met)) <= Later(t, n, 0)
  <2> HIDE DEF n, met, after, c
  <2>. QED  BY <1>1, <1>2, <1>3, LaterType, LaterFewer DEF c
<1>6. RedBy(t, d) => Later(t, n, Counted(t, met) + 1) \in Nat
  <2> SUFFICES ASSUME RedBy(t, d) PROVE Later(t, n, Counted(t, met) + 1) \in Nat
    OBVIOUS
  <2>1. c # 0 => Counted(t, met) + 1 < c
    BY <1>1, RedCounter DEF RedBy
  <2>2. Counted(t, met) + 1 \in Nat
    BY <1>3
  <2> HIDE DEF n, met
  <2>. QED  BY <1>1, <1>2, <2>1, <2>2, LaterType
<1>7. CASE t \in readyTasks \ (Completed \cup Killed)
  <2>1. /\ now % Period(t) # 0 /\ t \notin Due
        /\ MetAfterWake[t] = met /\ Charged[t] \in Nat
    BY <1>1, <1>7, SurvivorFits, SurvivorKeepsCounter DEF OnTime
  <2>2. r > 0
    BY <1>1, <1>7 DEF OnTime, NeverPastDeadline
  <2>3. Charged[t] = IF t = pxCurrentTCB THEN r - 1 ELSE r
    BY <1>2, <2>2 DEF Charged
  <2>4. t \in readyTasks' /\ previous_deadline_met'[t] = met /\ xRemainingTicks'[t] = Charged[t]
    BY <1>7, <2>1 DEF Tick
  <2>5. RedBy(t, d) <=> /\ ~(Algorithm = "BWP" /\ C # 0 /\ met >= C - 1)
                        /\ Left(t, d) > 0
    BY <1>7 DEF RedBy, MayMiss
  <2>6. Owed(t, d)' = IF RedBy(t, d) THEN Charged[t] + Later(t, n, Counted(t, met) + 1)
                      ELSE Later(t, n, 0)
    BY <2>1, <2>4, <2>5, OwedAfter
  <2> HIDE DEF n, met, r
  <2>7. CASE RedBy(t, d)
    BY <1>2, <1>4, <1>6, <2>3, <2>6, <2>7
  <2>8. CASE ~RedBy(t, d)
    <3>1. Owed(t, d)' = Later(t, n, 0) /\ Owed(t, d) = Later(t, n, 0)
      BY <1>4, <1>7, <2>6, <2>8
    <3>. QED  BY <1>5, <2>8, <3>1 DEF n
  <2>. QED  BY <2>7, <2>8
<1>8. CASE t \notin readyTasks \ (Completed \cup Killed)
  <2>1. Owed(t, d)' = Later(t, n, Counted(t, after))
    BY <1>8, OwedAnew
  <2>2. CASE t \notin readyTasks
    <3>1. t \notin Completed /\ t \notin Killed /\ ~RedBy(t, d)
      BY <1>1, <2>2 DEF Completed, Spent, Killed, OnTime, OneList, RedBy
    <3>2. after = met
      BY <3>1 DEF MetAfterKill, MetAfterRun
    <3>3. Owed(t, d) = Owed(t, d)'
      BY <1>4, <2>1, <2>2, <3>1, <3>2
    <3> HIDE DEF n, after
    <3>. QED  BY <1>5, <2>1, <3>1, <3>3 DEF n
  <2>3. CASE t \in Killed
    <3>1. after = 0 /\ Counted(t, 0) = 0
      BY <1>2, <2>3 DEF MetAfterKill, Counted
    <3>2. ~RedBy(t, d) /\ t \in readyTasks
      BY <2>3 DEF Killed
    <3>3. Owed(t, d) = Owed(t, d)' /\ Owed(t, d)' = Later(t, n, 0)
      BY <1>4, <2>1, <3>1, <3>2
    <3> HIDE DEF n
    <3>. QED  BY <1>5, <3>2, <3>3 DEF n
  <2>4. CASE t \in Completed /\ t \in readyTasks
    <3>1. t = pxCurrentTCB /\ Charged[t] = 0
      BY <2>4 DEF Completed, Spent
    <3>2. r = 1
      <4>1. r > 0
        BY <1>1, <2>4 DEF OnTime, NeverPastDeadline
      <4>. QED  BY <1>2, <3>1, <4>1 DEF Charged
    <3>3. after = IF C # 0 THEN MetOnce(met) ELSE met
      BY <2>4 DEF MetAfterKill, MetAfterRun, Killed
    <3>4. CASE ~RedBy(t, d)
      <4>1. Owed(t, d) = Later(t, n, 0)
        BY <1>4, <2>4, <3>4
      <4> HIDE DEF n, after
      <4>. QED  BY <1>5, <2>1, <3>4, <4>1 DEF n
    <3>5. CASE RedBy(t, d)
      <4>1. Later(t, n, Counted(t, after)) = Later(t, n, Counted(t, met) + 1)
        <5>1. CASE c = 0
          BY <5>1 DEF Later, Must
        <5>2. CASE c # 0
          <6>1. met + 1 < c /\ c = C /\ Counted(t, met) = met
            BY <1>1, <3>5, <5>2, RedCounter DEF RedBy
          <6>2. C <= CounterModulus - 1 /\ CounterModulus \in Nat \ {0}
            BY <1>1, TaskSetFacts, ConstantsAssumption DEF TypeOK
          <6>3. met + 1 \in Nat /\ met + 1 < CounterModulus
            BY <1>2, <6>1, <6>2
          <6>4. MetOnce(met) = met + 1
            <7> HIDE DEF met
            <7>. QED  BY <6>2, <6>3, DivModSmall DEF MetOnce
          <6>5. Counted(t, met + 1) = met + 1
            BY <6>1 DEF Counted
          <6>. QED  BY <3>3, <5>2, <6>1, <6>4, <6>5
        <5>. QED  BY <5>1, <5>2
      <4>2. Owed(t, d) = 1 + Owed(t, d)'
        BY <1>4, <2>1, <3>2, <3>5, <4>1
      <4>3. Owed(t, d)' \in Nat
        BY <1>5, <2>1
      <4>. QED  BY <3>1, <3>5, <4>2, <4>3
    <3>. QED  BY <3>4, <3>5
  <2>. QED  BY <1>8, <2>2, <2>3, <2>4
<1>. QED  BY <1>7, <1>8

(* The skip-over demand bounds the jobs of as many periods, met or missed  *)
(* as early as t may.                                                      *)
LEMMA LaterWithinDemand ==
  ASSUME TypeOK, NEW t \in Tasks, NEW e \in Nat, NEW n \in Int, n <= e \div Period(t)
  PROVE  /\ Later(t, n, 0) <= SkipDemand(t, e)
         /\ SkipDemand(t, e) \in Nat
<1> DEFINE P == Period(t)
           c == SkipEvery(t)
           D == Duration(t)
           m == e \div P
<1>1. P \in Nat \ {0} /\ D \in Nat /\ c \in Nat
  BY TaskSetFacts, SkipFacts DEF TypeOK
<1>2. n <= m /\ m \in Nat
  BY <1>1, DivMod
<1>3. SkipDemand(t, e) = D * Must(c, m, 0)
  <2>1. CASE c = 0
    BY <2>1 DEF SkipDemand, Must
  <2>2. CASE c # 0
    <3>1. e \div (P * c) = m \div c
      <4>1. c \in Nat \ {0}
        BY <1>1, <2>2
      <4> HIDE DEF P, c
      <4>. QED  BY <1>1, <4>1, DivDiv, Zenon
    <3>2. m + 0 = m
      BY <1>2
    <3>. QED  BY <2>2, <3>1, <3>2 DEF SkipDemand, Must
  <2>. QED  BY <2>1, <2>2
<1> HIDE DEF m, P
<1>4. \A k \in Nat : Must(c, k, 0) \in Nat
  <2>1. 0 \in Nat /\ (c # 0 => 0 < c)
    BY <1>1
  <2> HIDE DEF c
  <2>. QED  BY <1>1, <2>1, MustType
<1>5. D * Must(c, m, 0) \in Nat
  BY <1>1, <1>2, <1>4
<1>6. CASE n <= 0
  BY <1>3, <1>5, <1>6 DEF Later
<1>7. CASE n > 0
  <2>1. PICK j \in Nat : m = n + j
    BY <1>2
  <2>2. Must(c, n, 0) <= Must(c, m, 0)
    BY <1>1, <1>7, <2>1, MustGrows
  <2>3. Must(c, n, 0) \in Nat
    BY <1>4, <1>7
  <2>4. \A a, b, k \in Nat : a <= b => k * a <= k * b
    OBVIOUS
  <2>5. D * Must(c, n, 0) <= D * Must(c, m, 0)
    BY <1>1, <1>2, <1>4, <2>2, <2>3, <2>4
  <2>6. Later(t, n, 0) = D * Must(c, n, 0)
    BY <1>7 DEF Later
  <2>. QED  BY <1>3, <1>5, <2>5, <2>6
<1>. QED  BY <1>6, <1>7

(* The jobs of t after the one of this tick and the ticks after the next.  *)
LEMMA LeftAfterTick ==
  ASSUME TypeOK, NEW t \in Tasks, NEW d \in Nat, now <= d
  PROVE  /\ d - now \in Nat
         /\ Left(t, d) - 1 \in Int
         /\ Left(t, d) - 1 <= (d - now) \div Period(t)
<1> DEFINE P == Period(t)
           n == Left(t, d) - 1
           e == d - now
           m == e \div P
<1>1. P \in Nat \ {0} /\ n \in Int /\ xTickCount \in Nat
  BY TaskSetFacts, LeftType DEF TypeOK
<1>2. now = xTickCount + 1 /\ e \in Nat
  BY <1>1 DEF now
<1>3. n <= m
  <2> DEFINE k == xTickCount \div P
             j == d \div P
  <2>1. k \in Nat /\ xTickCount % P \in 0..(P - 1) /\ xTickCount = P * k + (xTickCount % P)
    BY <1>1, DivMod
  <2>2. j \in Nat /\ d % P \in 0..(P - 1) /\ d = P * j + (d % P)
    BY <1>1, DivMod
  <2>3. m \in Nat /\ e % P \in 0..(P - 1) /\ e = P * m + (e % P)
    BY <1>1, <1>2, DivMod
  <2>4. n = j - k - 1
    BY DEF Left
  <2> DEFINE a == xTickCount % P
             b == d % P
             s == e % P
  <2> HIDE DEF k, j, m, n, a, b, s, e, P
  <2>5. SUFFICES ASSUME m < n PROVE FALSE
    BY <1>1, <2>3
  <2>6. PICK x \in Nat : j = m + k + 2 + x
    BY <2>1, <2>2, <2>3, <2>4, <2>5
  <2>7. P * j = P * m + P * k + P + P + P * x /\ P * x \in Nat
    BY <1>1, <2>1, <2>3, <2>6
  <2>8. e = d - (xTickCount + 1)
    BY <1>2 DEF e
  <2>9. P * m \in Nat /\ P * k \in Nat /\ P * j \in Nat
    BY <1>1, <2>1, <2>2, <2>3
  <2>. QED  BY <1>1, <2>1, <2>2, <2>3, <2>7, <2>8, <2>9 DEF a, b, s
<1>. QED  BY <1>1, <1>2, <1>3

(* The deadline of the job of this period is one of those counted by d.    *)
LEMMA LeftIsDeadline ==
  ASSUME OnTime, ~exited, NEW t \in Tasks, NEW d \in Nat
  PROVE  /\ Left(t, d) > 0 <=> start_time[t] + Period(t) <= d
         /\ start_time[t] + Period(t) \in Nat
         /\ xTickCount < start_time[t] + Period(t)
         /\ start_time[t] + Period(t) <= Hiperperiod
<1> DEFINE P == Period(t)
           k == xTickCount \div P
           a == xTickCount % P
           j == d \div P
           b == d % P
           h == Hiperperiod \div P
<1>1. P \in Nat \ {0} /\ xTickCount \in Nat /\ Hiperperiod \in Nat /\ Hiperperiod % P = 0
  BY TaskSetFacts DEF OnTime, TypeOK
<1>2. k \in Nat /\ a \in 0..(P - 1) /\ xTickCount = P * k + a
  BY <1>1, DivMod
<1>3. j \in Nat /\ b \in 0..(P - 1) /\ d = P * j + b
  BY <1>1, DivMod
<1>4. h \in Nat /\ Hiperperiod = P * h
  <2>1. h \in Nat /\ Hiperperiod = P * h + (Hiperperiod % P)
    BY <1>1, DivMod
  <2>. QED  BY <1>1, <2>1
<1>5. start_time[t] = xTickCount - a
  BY DEF OnTime, CountsFromPeriodStart
<1>6. xTickCount < Hiperperiod
  BY DEF OnTime
<1>7. Left(t, d) = j - k
  BY DEF Left
<1> HIDE DEF P, k, a, j, b, h
<1>8. start_time[t] = P * k /\ P * k \in Nat
  BY <1>1, <1>2, <1>5
<1>9. xTickCount < P * k + P /\ P * k + P <= Hiperperiod
  <2>1. xTickCount < P * k + P
    BY <1>1, <1>2, <1>8
  <2>2. k < h
    BY <1>1, <1>2, <1>4, <1>6, MultipleLess
  <2>3. PICK x \in Nat : h = k + 1 + x
    BY <1>2, <1>4, <2>2
  <2>4. P * h = P * k + P + P * x /\ P * x \in Nat
    BY <1>1, <1>2, <2>3
  <2>. QED  BY <1>1, <1>4, <1>8, <2>1, <2>4
<1>10. CASE j <= k
  <2>1. PICK x \in Nat : k = j + x
    BY <1>2, <1>3, <1>10
  <2>2. P * k = P * j + P * x /\ P * x \in Nat /\ P * j \in Nat
    BY <1>1, <1>3, <2>1
  <2>3. ~(P * k + P <= d)
    BY <1>1, <1>3, <1>8, <2>2
  <2>4. ~(j - k > 0)
    BY <1>2, <1>3, <1>10
  <2>. QED  BY <1>1, <1>7, <1>8, <1>9, <2>3, <2>4 DEF P
<1>11. CASE j > k
  <2>1. PICK x \in Nat : j = k + 1 + x
    BY <1>2, <1>3, <1>11
  <2>2. P * j = P * k + P + P * x /\ P * x \in Nat
    BY <1>1, <1>2, <2>1
  <2>3. P * k + P <= d
    BY <1>1, <1>3, <1>8, <2>2
  <2>4. j - k > 0
    BY <1>2, <1>3, <1>11
  <2>. QED  BY <1>1, <1>7, <1>8, <1>9, <2>3, <2>4 DEF P
<1>. QED  BY <1>2, <1>3, <1>10, <1>11

(* If some pending job must be met by d, the processor is with such a job. *)
LEMMA CurrentRed ==
  ASSUME OnTime, Queued, ~exited, pxCurrentTCB # Timer,
         NEW d \in Nat, NEW u \in Tasks, RedBy(u, d)
  PROVE  pxCurrentTCB \in Tasks /\ RedBy(pxCurrentTCB, d)
<1>1. u \in readyTasks /\ ~MayMiss(u) /\ start_time[u] + Period(u) <= d
  BY LeftIsDeadline DEF RedBy
<1>2. RunsMostUrgent
  BY QueuedUrgent
<1>3. pxCurrentTCB \in readyTasks /\ ~MoreUrgent(u, pxCurrentTCB)
  BY <1>1, <1>2 DEF RunsMostUrgent
<1>4. pxCurrentTCB \in Tasks
  BY <1>3 DEF OnTime, TypeOK
<1>5. ~MayMiss(pxCurrentTCB)
  BY <1>1, <1>3 DEF MoreUrgent
<1>6. ~(start_time[u] + Period(u) < start_time[pxCurrentTCB] + Period(pxCurrentTCB))
  <2>1. MayMiss(u) \in BOOLEAN /\ MayMiss(pxCurrentTCB) \in BOOLEAN
    BY DEF MayMiss
  <2>2. MayMiss(u) = MayMiss(pxCurrentTCB)
    BY <1>1, <1>5, <2>1
  <2>. QED  BY <1>3, <2>2 DEF MoreUrgent
<1>7. start_time[pxCurrentTCB] + Period(pxCurrentTCB) <= d
  <2>1. /\ start_time[u] + Period(u) \in Nat
        /\ start_time[pxCurrentTCB] + Period(pxCurrentTCB) \in Nat
    BY <1>4, LeftIsDeadline
  <2>. QED  BY <1>1, <1>6, <2>1
<1>8. Left(pxCurrentTCB, d) > 0
  BY <1>4, <1>7, LeftIsDeadline
<1>. QED  BY <1>3, <1>4, <1>5, <1>8 DEF RedBy

(* While what is owed fits the time, no job is killed that must be met.    *)
LEMMA RedSurvives ==
  ASSUME OnTime, Queued, DemandFits, ~exited, pxCurrentTCB # Timer, NEW t \in Killed
  PROVE  MayMiss(t)
<1> SUFFICES ASSUME ~MayMiss(t) PROVE FALSE
  OBVIOUS
<1> DEFINE d == start_time[t] + Period(t)
           f == [u \in Tasks |-> Owed(u, d)]
<1>1. t \in readyTasks /\ t \in Tasks /\ Demand(t, Charged[t]) > Period(t)
  BY DEF Killed, OnTime, TypeOK
<1>2. d \in Nat /\ xTickCount < d /\ d <= Hiperperiod /\ Left(t, d) > 0
  <2>1. d \in Nat /\ xTickCount < d /\ d <= Hiperperiod
    BY <1>1, LeftIsDeadline
  <2>. QED  BY <1>1, <2>1, LeftIsDeadline
<1>3. xTickCount \in Nat /\ Hiperperiod \in Nat /\ Period(t) \in Nat
  BY <1>1, TaskSetFacts DEF OnTime, TypeOK
<1>4. SumFunctionOnSet(f, Tasks) <= d - xTickCount
  <2>1. d \in xTickCount..Hiperperiod
    BY <1>2, <1>3
  <2> HIDE DEF d
  <2>. QED  BY <2>1 DEF DemandFits, SumFunction
<1>5. \A u \in Tasks : f[u] \in Nat
  BY <1>2, OwedType DEF OnTime, Queued
<1>6. RedBy(t, d)
  BY <1>1, <1>2 DEF RedBy
<1>7. Charged[t] + 1 > d - xTickCount
  <2>1. /\ Elapsed(t) = now - start_time[t] /\ start_time[t] \in Nat
        /\ Demand(t, Charged[t]) = Elapsed(t) + Charged[t] /\ Charged[t] \in Nat
    BY <1>1, ElapsedInPeriod, ReadyDemand, StageTypes DEF OnTime
  <2>. QED  BY <1>1, <1>3, <2>1 DEF now
<1>8. \A u \in Tasks : RedBy(u, d) => xRemainingTicks[u] <= f[u] /\ xRemainingTicks[u] >= 1
  <2> SUFFICES ASSUME NEW u \in Tasks, RedBy(u, d)
               PROVE  xRemainingTicks[u] <= f[u] /\ xRemainingTicks[u] >= 1
    OBVIOUS
  <2> DEFINE q == Counted(u, previous_deadline_met[u]) + 1
             n == Left(u, d) - 1
  <2>1. TypeOK /\ KeysCurrent /\ u \in readyTasks /\ ~MayMiss(u)
    BY DEF OnTime, Queued, RedBy
  <2>2. q \in Nat /\ n \in Int /\ (SkipEvery(u) # 0 => q < SkipEvery(u))
    <3>1. previous_deadline_met[u] \in Nat
      BY <2>1, SkipFacts
    <3>2. Counted(u, previous_deadline_met[u]) \in Nat
      BY <2>1, <3>1, CountedType
    <3>3. Left(u, d) \in Int
      <4> HIDE DEF d
      <4>. QED  BY <1>2, <2>1, LeftType
    <3>4. SkipEvery(u) # 0 => q < SkipEvery(u)
      BY <2>1, RedCounter
    <3>. QED  BY <3>2, <3>3, <3>4
  <2>3. Later(u, n, q) \in Nat
    <3> HIDE DEF n, q
    <3>. QED  BY <2>1, <2>2, LaterType
  <2>4. f[u] = xRemainingTicks[u] + Later(u, n, q)
    <3> HIDE DEF d
    <3>. QED  BY DEF Owed, n
  <2>5. xRemainingTicks[u] \in Nat /\ xRemainingTicks[u] > 0
    BY <2>1 DEF OnTime, TypeOK, NeverPastDeadline
  <2>. QED  BY <2>3, <2>4, <2>5
<1>9. xRemainingTicks[t] \in Nat /\ xRemainingTicks[t] <= f[t] /\ xRemainingTicks[t] >= 1
  BY <1>1, <1>6, <1>8 DEF OnTime, TypeOK
<1>10. SumFunctionOnSet(f, Tasks) \in Nat
  <2> HIDE DEF f
  <2>. QED  BY <1>5, SumNonNegative, TasksAssumption
<1>11. CASE t = pxCurrentTCB
  <2>1. Charged[t] = xRemainingTicks[t] - 1
    BY <1>1, <1>9, <1>11 DEF Charged
  <2>2. f[t] <= SumFunctionOnSet(f, Tasks)
    <3> HIDE DEF f
    <3>. QED  BY <1>1, <1>5, SumTerm, TasksAssumption
  <2> HIDE DEF f, d
  <2>. QED  BY <1>1, <1>2, <1>3, <1>4, <1>5, <1>7, <1>9, <1>10, <2>1, <2>2
<1>12. CASE t # pxCurrentTCB
  <2>1. Charged[t] = xRemainingTicks[t]
    BY <1>1, <1>12 DEF Charged
  <2>2. pxCurrentTCB \in Tasks /\ RedBy(pxCurrentTCB, d)
    <3> HIDE DEF d
    <3>. QED  BY <1>1, <1>2, <1>6, CurrentRed
  <2>3. f[pxCurrentTCB] >= 1
    <3>1. f[pxCurrentTCB] \in Nat /\ xRemainingTicks[pxCurrentTCB] \in Nat
      BY <1>5, <2>2 DEF OnTime, TypeOK
    <3> HIDE DEF f
    <3>. QED  BY <1>8, <2>2, <3>1
  <2>4. f[t] + f[pxCurrentTCB] <= SumFunctionOnSet(f, Tasks)
    <3> HIDE DEF f
    <3>. QED  BY <1>1, <1>5, <1>12, <2>2, SumTwoTerms, TasksAssumption
  <2>5. f[t] \in Nat /\ f[pxCurrentTCB] \in Nat
    BY <1>1, <1>5, <2>2
  <2> HIDE DEF f, d
  <2>. QED  BY <1>2, <1>3, <1>4, <1>7, <1>9, <1>10, <2>1, <2>3, <2>4, <2>5
<1>. QED  BY <1>11, <1>12

LEMMA SkipDemandNone ==
  ASSUME TypeOK, NEW t \in Tasks
  PROVE  SkipDemand(t, 0) = 0
<1> DEFINE P == Period(t)
           c == SkipEvery(t)
<1>1. P \in Nat \ {0} /\ c \in Nat /\ Duration(t) \in Nat
  BY TaskSetFacts, SkipFacts DEF TypeOK
<1>2. 0 \div P = 0
  BY <1>1, DivModSmall
<1>3. c # 0 => 0 \div (P * c) = 0
  <2> SUFFICES ASSUME c # 0 PROVE 0 \div (P * c) = 0
    OBVIOUS
  <2> DEFINE m == P * c
  <2>1. m \in Nat \ {0} /\ 0 < m
    BY <1>1
  <2> HIDE DEF m
  <2>2. 0 \div m = 0
    BY <2>1, DivModSmall
  <2>. QED  BY <2>2 DEF m
<1>. QED  BY <1>1, <1>2, <1>3 DEF SkipDemand

LEMMA FeasibleFromNow ==
  ASSUME TypeOK, Feasible, NEW n \in 0..Hiperperiod
  PROVE  SumFunctionOnSet([t \in Tasks |-> SkipDemand(t, n)], Tasks) <= n
<1> DEFINE g == [t \in Tasks |-> SkipDemand(t, n)]
<1>1. CASE n = 0
  <2>1. \A t \in Tasks : g[t] = 0
    BY <1>1, SkipDemandNone
  <2> HIDE DEF g
  <2>2. SumFunctionOnSet(g, Tasks) = 0
    BY <2>1, SumZero, TasksAssumption
  <2>. QED  BY <1>1, <2>2 DEF g
<1>2. CASE n # 0
  <2>1. n \in 1..Hiperperiod
    BY <1>2 DEF TypeOK, WellFormed, TaskSetType, Hiperperiod
  <2>. QED  BY <2>1 DEF Feasible, SumFunction
<1>. QED  BY <1>1, <1>2

(* What is owed at a tick, when it is no more than the demand of the ticks *)
(* that remain.                                                            *)
LEMMA OwedWithinDemand ==
  ASSUME TypeOK, Feasible, NEW n \in 0..Hiperperiod, NEW g,
         \A t \in Tasks : g[t] \in Nat /\ g[t] <= SkipDemand(t, n)
  PROVE  SumFunctionOnSet(g, Tasks) <= n
<1> DEFINE h == [t \in Tasks |-> SkipDemand(t, n)]
<1>1. \A t \in Tasks : h[t] \in Nat /\ g[t] <= h[t]
  <2> SUFFICES ASSUME NEW t \in Tasks PROVE h[t] \in Nat /\ g[t] <= h[t]
    OBVIOUS
  <2>1. n \in Nat /\ Period(t) \in Nat \ {0}
    BY TaskSetFacts DEF TypeOK, WellFormed, TaskSetType, Hiperperiod
  <2>2. 0 \in Int /\ 0 <= n \div Period(t)
    BY <2>1, DivMod
  <2>3. SkipDemand(t, n) \in Nat
    BY <2>1, <2>2, LaterWithinDemand
  <2>. QED  BY <2>3
<1>2. SumFunctionOnSet(h, Tasks) <= n /\ n \in Nat
  BY FeasibleFromNow
<1> HIDE DEF h
<1>3. SumFunctionOnSet(g, Tasks) <= SumFunctionOnSet(h, Tasks)
  BY <1>1, SumMonotonic, TasksAssumption
<1>4. SumFunctionOnSet(g, Tasks) \in Int /\ SumFunctionOnSet(h, Tasks) \in Int
  BY <1>1, SumType, TasksAssumption
<1>. QED  BY <1>2, <1>3, <1>4

LEMMA InitDemandFits ==
  ASSUME UninitStartTime = {0}
  PROVE  Init /\ Feasible => DemandFits
<1> SUFFICES ASSUME Init, Feasible, NEW d \in xTickCount..Hiperperiod
             PROVE  SumFunctionOnSet([t \in Tasks |-> Owed(t, d)], Tasks) <= d - xTickCount
  BY DEF DemandFits, SumFunction
<1>1. TypeOK /\ KeysCurrent /\ xTickCount = 0
  BY InitType, InitKeys DEF Init
<1>2. d \in Nat /\ d \in 0..Hiperperiod
  BY <1>1
<1>3. ASSUME NEW t \in Tasks PROVE Owed(t, d) \in Nat /\ Owed(t, d) <= SkipDemand(t, d)
  <2> DEFINE P == Period(t)
             n == Left(t, d)
             q == Counted(t, previous_deadline_met[t])
  <2>1. /\ P \in Nat \ {0} /\ previous_deadline_met[t] = 0
        /\ xRemainingTicks[t] = Duration(t)
    BY <1>1, TaskSetFacts DEF TypeOK, Init
  <2>2. SkipEvery(t) \in Nat
    BY <1>1, SkipFacts
  <2>3. q = 0
    BY <2>1, <2>2 DEF Counted
  <2>4. n = d \div P /\ n \in Nat
    <3>1. 0 \div P = 0 /\ d \div P \in Nat
      BY <1>2, <2>1, DivModSmall, DivMod
    <3>. QED  BY <1>1, <3>1 DEF Left
  <2>5. n - 1 \in Int /\ n \in Int /\ n - 1 <= d \div P /\ n <= d \div P
    BY <2>4
  <2>6. Later(t, n - 1, 0) <= SkipDemand(t, d) /\ Later(t, n, 0) <= SkipDemand(t, d)
    <3> HIDE DEF n
    <3>. QED  BY <1>1, <1>2, <2>5, LaterWithinDemand
  <2>7. Owed(t, d) = IF RedBy(t, d) THEN Duration(t) + Later(t, n - 1, 0 + 1)
                     ELSE Later(t, n - 1, 0)
    BY <2>1, <2>3 DEF Owed
  <2>8. CASE RedBy(t, d)
    <3>1. n \in Nat \ {0}
      BY <2>4, <2>8 DEF RedBy
    <3>2. SkipEvery(t) # 0 => 0 + 1 < SkipEvery(t)
      BY <1>1, <2>1, <2>8, RedCounter DEF RedBy
    <3>3. Duration(t) + Later(t, n - 1, 0 + 1) = Later(t, n, 0)
      <4> HIDE DEF n
      <4>. QED  BY <1>1, <3>1, <3>2, LaterMeetOne
    <3>. QED  BY <1>1, <1>2, <2>6, <2>7, <2>8, <3>3, OwedType
  <2>9. CASE ~RedBy(t, d)
    BY <1>1, <1>2, <2>6, <2>7, <2>9, OwedType
  <2>. QED  BY <2>8, <2>9
<1> DEFINE g == [t \in Tasks |-> Owed(t, d)]
<1>4. \A t \in Tasks : g[t] \in Nat /\ g[t] <= SkipDemand(t, d)
  BY <1>3
<1> HIDE DEF g
<1>5. SumFunctionOnSet(g, Tasks) <= d
  BY <1>1, <1>2, <1>4, OwedWithinDemand
<1>. QED  BY <1>1, <1>2, <1>5 DEF g

LEMMA NextOwedType ==
  ASSUME OnTime, Queued, [Next]_vars
  PROVE  \A t \in Tasks : \A e \in Nat : Owed(t, e)' \in Nat
<1>1. (TypeOK /\ KeysCurrent => \A t \in Tasks : \A e \in Nat : Owed(t, e) \in Nat)'
  BY OwedType, PTL
<1>2. TypeOK' /\ KeysCurrent'
  BY NextType, NextKeys DEF OnTime, Queued
<1>. QED  BY <1>1, <1>2

LEMMA TickDemandFits ==
  ASSUME OnTime, Queued, Feasible, DemandFits, Tick, pxCurrentTCB # Timer,
         NEW d \in now..Hiperperiod
  PROVE  SumFunctionOnSet([t \in Tasks |-> Owed(t, d)'], Tasks) <= d - now
<1> DEFINE f == [t \in Tasks |-> Owed(t, d)]
           g == [t \in Tasks |-> Owed(t, d)']
<1>1. TypeOK /\ KeysCurrent /\ ~exited
  BY DEF OnTime, Queued, Tick, TickIsDue
<1>2. /\ xTickCount \in Nat /\ now = xTickCount + 1 /\ d \in Nat /\ now <= d
      /\ d \in xTickCount..Hiperperiod /\ d - now \in 0..Hiperperiod
  <2>1. xTickCount \in Nat /\ Hiperperiod \in Nat /\ now = xTickCount + 1
    BY <1>1 DEF TypeOK, WellFormed, TaskSetType, Hiperperiod, now
  <2>. QED  BY <2>1
<1>3. \A t \in Tasks : t \in Killed => ~RedBy(t, d)
  BY <1>1, RedSurvives DEF RedBy
<1>4. \A t \in Tasks :
        /\ RedBy(t, d) => g[t] + (IF t = pxCurrentTCB THEN 1 ELSE 0) <= f[t]
        /\ ~RedBy(t, d) => g[t] <= f[t] /\ g[t] <= Later(t, Left(t, d) - 1, 0)
  <2> SUFFICES ASSUME NEW t \in Tasks
               PROVE  /\ RedBy(t, d) => g[t] + (IF t = pxCurrentTCB THEN 1 ELSE 0) <= f[t]
                      /\ ~RedBy(t, d) => g[t] <= f[t] /\ g[t] <= Later(t, Left(t, d) - 1, 0)
    OBVIOUS
  <2>1. g[t] = Owed(t, d)' /\ f[t] = Owed(t, d)
    OBVIOUS
  <2> HIDE DEF f, g
  <2>. QED  BY <1>1, <1>2, <1>3, <2>1, OwedStep
<1>5. \A t \in Tasks : f[t] \in Nat /\ g[t] \in Nat
  <2>1. \A t \in Tasks : Owed(t, d)' \in Nat
    BY <1>2, NextOwedType DEF Next
  <2>. QED  BY <1>1, <1>2, <2>1, OwedType
<1>6. SumFunctionOnSet(f, Tasks) <= d - xTickCount
  BY <1>1, <1>2 DEF DemandFits, SumFunction
<1>7. CASE \E u \in Tasks : RedBy(u, d)
  <2>1. pxCurrentTCB \in Tasks /\ RedBy(pxCurrentTCB, d)
    BY <1>1, <1>2, <1>7, CurrentRed
  <2> HIDE DEF f, g
  <2>2. g[pxCurrentTCB] + 1 <= f[pxCurrentTCB]
    BY <1>4, <2>1
  <2>3. \A t \in Tasks \ {pxCurrentTCB} : g[t] <= f[t]
    BY <1>4, <1>5
  <2>4. SumFunctionOnSet(g, Tasks) + 1 <= SumFunctionOnSet(f, Tasks)
    BY <1>5, <2>1, <2>2, <2>3, SumMonotonicAt, TasksAssumption
  <2>5. SumFunctionOnSet(g, Tasks) \in Nat /\ SumFunctionOnSet(f, Tasks) \in Nat
    BY <1>5, SumNonNegative, TasksAssumption
  <2>6. SumFunctionOnSet(g, Tasks) <= d - now
    BY <1>2, <1>6, <2>4, <2>5
  <2>. QED  BY <2>6 DEF g
<1>8. CASE \A u \in Tasks : ~RedBy(u, d)
  <2>1. \A t \in Tasks : g[t] \in Nat /\ g[t] <= SkipDemand(t, d - now)
    <3> SUFFICES ASSUME NEW t \in Tasks PROVE g[t] \in Nat /\ g[t] <= SkipDemand(t, d - now)
      OBVIOUS
    <3> HIDE DEF f, g
    <3>1. /\ d - now \in Nat /\ Left(t, d) - 1 \in Int
          /\ Left(t, d) - 1 <= (d - now) \div Period(t)
      BY <1>1, <1>2, LeftAfterTick
    <3>2. /\ Later(t, Left(t, d) - 1, 0) <= SkipDemand(t, d - now)
          /\ SkipDemand(t, d - now) \in Nat
      BY <1>1, <3>1, LaterWithinDemand
    <3>3. Later(t, Left(t, d) - 1, 0) \in Nat
      <4>1. 0 \in Nat /\ (SkipEvery(t) # 0 => 0 < SkipEvery(t))
        BY <1>1, SkipFacts
      <4>. QED  BY <1>1, <3>1, <4>1, LaterType
    <3>. QED  BY <1>4, <1>5, <1>8, <3>2, <3>3
  <2> HIDE DEF g
  <2>2. SumFunctionOnSet(g, Tasks) <= d - now
    BY <1>1, <1>2, <2>1, OwedWithinDemand
  <2>. QED  BY <2>2 DEF g
<1>. QED  BY <1>7, <1>8

LEMMA FeasibleUnchanged ==
  ASSUME [Next]_vars
  PROVE  Feasible' <=> Feasible
<1>1. UNCHANGED <<Algorithm, Task_Set>>
  BY ConfigUnchanged DEF config
<1>. QED  BY <1>1 DEF Feasible, SkipDemand, SkipEvery, Hiperperiod, Period, Duration, Constraint

LEMMA NextDemandFits ==
  ASSUME MaxStartupTicks = 0
  PROVE  OnTime /\ Queued /\ Feasible /\ DemandFits /\ [Next]_vars => DemandFits'
<1> SUFFICES ASSUME OnTime, Queued, Feasible, DemandFits, [Next]_vars PROVE DemandFits'
  OBVIOUS
<1>1. Hiperperiod' = Hiperperiod
  BY ConfigUnchanged DEF config, Hiperperiod
<1>2. CASE Tick
  <2>1. pxCurrentTCB # Timer /\ xTickCount' = now
    BY <1>2 DEF Tick, TickIsDue, OnTime, TypeOK
  <2>2. \A d \in now..Hiperperiod :
          SumFunctionOnSet([t \in Tasks |-> Owed(t, d)'], Tasks) <= d - now
    BY <1>2, <2>1, TickDemandFits
  <2>. QED  BY <1>1, <2>1, <2>2 DEF DemandFits, SumFunction
<1>3. CASE ExitTick
  BY <1>3 DEF ExitTick, DemandFits
<1>4. CASE TimerBlocks \/ UNCHANGED vars
  <2>1. \A t \in Tasks : \A d \in Nat : Owed(t, d)' = Owed(t, d)
    BY <1>4 DEF TimerBlocks, vars, tcbVars, config, Owed, RedBy, MayMiss, Left, Later, Counted,
                SkipEvery, Period, Duration, Constraint
  <2>2. xTickCount' = xTickCount /\ exited' = exited /\ xTickCount \in Nat
    BY <1>4 DEF TimerBlocks, vars, OnTime, TypeOK
  <2> SUFFICES ASSUME ~exited, NEW d \in xTickCount..Hiperperiod
               PROVE  SumFunctionOnSet([t \in Tasks |-> Owed(t, d)'], Tasks) <= d - xTickCount
    BY <1>1, <2>2 DEF DemandFits, SumFunction
  <2>3. [t \in Tasks |-> Owed(t, d)'] = [t \in Tasks |-> Owed(t, d)]
    BY <2>1, <2>2
  <2>4. SumFunctionOnSet([t \in Tasks |-> Owed(t, d)], Tasks) <= d - xTickCount
    BY DEF DemandFits, SumFunction
  <2>. QED  BY <2>3, <2>4
<1>. QED  BY <1>2, <1>3, <1>4 DEF Next

(* What a feasible task set keeps: under EDF it does not even lose a job.  *)
NothingBreaks ==
  Feasible => /\ DemandFits /\ weakly_hard = 1
              /\ Algorithm = "EDF" => times_killed = [t \in Tasks |-> 0]

LEMMA AlwaysNothingBreaks ==
  ASSUME UninitStartTime = {0}, MaxStartupTicks = 0
  PROVE  Spec => []NothingBreaks
<1>1. Init => Queued /\ NothingBreaks
  <2>1. Init => weakly_hard = 1 /\ times_killed = [t \in Tasks |-> 0]
    BY DEF Init
  <2>. QED  BY <2>1, InitQueued, InitDemandFits DEF NothingBreaks
<1>2. OnTime /\ Queued /\ NothingBreaks /\ [Next]_vars => NothingBreaks'
  <2> SUFFICES ASSUME OnTime, Queued, Feasible, DemandFits, weakly_hard = 1, [Next]_vars,
                      Algorithm = "EDF" => times_killed = [t \in Tasks |-> 0]
               PROVE  /\ DemandFits' /\ weakly_hard' = 1
                      /\ Algorithm' = "EDF" => times_killed' = [t \in Tasks |-> 0]
    BY FeasibleUnchanged DEF NothingBreaks
  <2>1. DemandFits'
    BY NextDemandFits
  <2>2. CASE Tick
    <3>1. pxCurrentTCB # Timer /\ ~exited
      BY <2>2 DEF Tick, TickIsDue, OnTime, TypeOK
    <3>2. ASSUME NEW t \in Killed PROVE ~Breaks(t) /\ Algorithm # "EDF"
      <4>1. MayMiss(t)
        BY <3>1, RedSurvives
      <4>2. t \in readyTasks /\ Algorithm # "EDF"
        BY <4>1 DEF Killed, MayMiss
      <4>3. xItemValue[t].blue
        BY <4>1, <4>2 DEF Queued, KeysCurrent, IsBlue, MayMiss
      <4>. QED  BY <4>2, <4>3, BreaksIfRed DEF OnTime, Queued
    <3>3. weakly_hard' = 1
      BY <2>2, <3>2 DEF Tick
    <3>4. ASSUME Algorithm' = "EDF" PROVE times_killed' = [t \in Tasks |-> 0]
      <4>1. Algorithm = "EDF" /\ Killed = {}
        BY <2>2, <3>2, <3>4 DEF Tick, config
      <4>. QED  BY <2>2, <4>1 DEF Tick
    <3>. QED  BY <2>1, <3>3, <3>4
  <2>3. CASE ExitTick \/ TimerBlocks \/ UNCHANGED vars
    BY <2>1, <2>3 DEF ExitTick, TimerBlocks, vars, simVars, config
  <2>. QED  BY <2>1, <2>2, <2>3 DEF Next
<1>. QED  BY <1>1, <1>2, NextQueued, AlwaysOnTime, PTL DEF Spec

(* The optimality that EDF, RTO and BWP are chosen for survives what the   *)
(* simulator makes of them: sorted keys set at the releases, kills by      *)
(* lookahead once a tick, blue jobs queued behind the red ones and a       *)
(* counter of met deadlines that wraps.  Where the daemon takes no tick at *)
(* the start and start_time of a new TCB is 0, a task set whose demand     *)
(* fits every prefix of the hyperperiod (EDF: of all its jobs, RTO and     *)
(* BWP: of those left when each task skips as early as it may) never       *)
(* breaks a constraint.                                                    *)
THEOREM FeasibleTaskSetsNeverBreak ==
  ASSUME UninitStartTime = {0}, MaxStartupTicks = 0
  PROVE  Spec => []FeasibleSetsNeverBreak
<1>1. NothingBreaks => FeasibleSetsNeverBreak
  BY DEF NothingBreaks, FeasibleSetsNeverBreak
<1>. QED  BY <1>1, AlwaysNothingBreaks, PTL
-----------------------------------------------------------------------------
(* Under EDF it is enough that the utilization is at most 1: over the      *)
(* hyperperiod, the jobs need no more ticks than there are.                *)
UtilizationAtMostOne ==
  SumFunction([t \in Tasks |-> Duration(t) * NumOfPeriods(t)]) <= Hiperperiod

LEMMA UtilizationSuffices ==
  ASSUME WellFormed(Task_Set), Algorithm = "EDF", UtilizationAtMostOne
  PROVE  Feasible
<1> DEFINE h == Hiperperiod
           load == [t \in Tasks |-> Duration(t) * NumOfPeriods(t)]
<1>1. h \in Nat \ {0} /\ SumFunctionOnSet(load, Tasks) <= h
  <2>1. Hiperperiod \in Nat \ {0}
    BY DEF WellFormed, TaskSetType, Hiperperiod
  <2>2. SumFunction(load) = SumFunctionOnSet(load, Tasks)
    BY DEF SumFunction
  <2>. QED  BY <2>1, <2>2 DEF UtilizationAtMostOne
<1> SUFFICES ASSUME NEW n \in 1..h
             PROVE  SumFunction([t \in Tasks |-> SkipDemand(t, n)]) <= n
  BY DEF Feasible
<1> DEFINE demand == [t \in Tasks |-> SkipDemand(t, n)]
           scaled == [t \in Tasks |-> h * demand[t]]
           bound == [t \in Tasks |-> n * load[t]]
<1>2. n \in Nat \ {0}
  BY <1>1
<1>3. ASSUME NEW t \in Tasks
      PROVE  /\ demand[t] \in Nat /\ load[t] \in Nat
             /\ h * demand[t] <= n * load[t]
  <2> DEFINE p == Period(t)
             d == Duration(t)
             k == n \div p
             m == h \div p
  <2>1. p \in Nat \ {0} /\ d \in Nat /\ h % p = 0
    BY TaskSetFacts, Zenon
  <2>2. demand[t] = d * k /\ load[t] = d * m
    BY DEF SkipDemand, SkipEvery, NumOfPeriods
  <2> HIDE DEF p, d, h
  <2>3. k \in Nat /\ n % p \in Nat /\ n = p * k + (n % p)
    BY <1>2, <2>1, DivMod
  <2>4. m \in Nat /\ h = p * m
    <3>1. m \in Nat /\ h = p * m + (h % p)
      BY <1>1, <2>1, DivMod
    <3>. QED  BY <2>1, <3>1
  <2> HIDE DEF k, m, demand, load
  <2> DEFINE c == d * m
  <2>5. c \in Nat /\ d * k \in Nat /\ p * k \in Nat /\ p * k <= n
    BY <2>1, <2>3, <2>4
  <2>6. h * (d * k) = c * (p * k)
    BY <2>1, <2>3, <2>4
  <2> HIDE DEF c
  <2>7. c * (p * k) <= c * n
    <3>1. \A a, b, e \in Nat : a <= b => e * a <= e * b
      OBVIOUS
    <3>. QED  BY <1>2, <2>5, <3>1
  <2>8. c * n = n * c
    BY <1>2, <2>5
  <2>. QED  BY <2>2, <2>5, <2>6, <2>7, <2>8 DEF c
<1> DEFINE x == SumFunctionOnSet(demand, Tasks)
           y == SumFunctionOnSet(load, Tasks)
<1>4. SumFunctionOnSet(scaled, Tasks) <= SumFunctionOnSet(bound, Tasks)
  <2>1. \A t \in Tasks : scaled[t] \in Int /\ bound[t] \in Int /\ scaled[t] <= bound[t]
    <3> SUFFICES ASSUME NEW t \in Tasks
                 PROVE  scaled[t] \in Int /\ bound[t] \in Int /\ scaled[t] <= bound[t]
      OBVIOUS
    <3>1. demand[t] \in Nat /\ load[t] \in Nat /\ h * demand[t] <= n * load[t]
      BY <1>3
    <3>2. scaled[t] = h * demand[t] /\ bound[t] = n * load[t]
      OBVIOUS
    <3> HIDE DEF scaled, bound, demand, load, h
    <3>. QED  BY <1>1, <1>2, <3>1, <3>2
  <2> HIDE DEF scaled, bound
  <2>. QED  BY <2>1, SumMonotonic, TasksAssumption
<1>5. SumFunctionOnSet(scaled, Tasks) = h * x
  <2>1. \A t \in Tasks : demand[t] \in Int /\ scaled[t] = h * demand[t]
    BY <1>3
  <2> HIDE DEF scaled, demand, h
  <2>. QED  BY <1>1, <2>1, SumScaled, TasksAssumption
<1>6. SumFunctionOnSet(bound, Tasks) = n * y
  <2>1. \A t \in Tasks : load[t] \in Int /\ bound[t] = n * load[t]
    BY <1>3
  <2> HIDE DEF bound, load
  <2>. QED  BY <1>2, <2>1, SumScaled, TasksAssumption
<1>7. x \in Int /\ y \in Int
  <2>1. \A t \in Tasks : demand[t] \in Int /\ load[t] \in Int
    BY <1>3
  <2> HIDE DEF demand, load
  <2>. QED  BY <2>1, SumType, TasksAssumption
<1>8. x <= n
  <2> SUFFICES ASSUME x > n PROVE FALSE
    BY <1>2, <1>7
  <2>1. h * x <= n * y /\ y <= h
    BY <1>1, <1>4, <1>5, <1>6
  <2> HIDE DEF h, x, y
  <2> DEFINE e == x - (n + 1)
             g == h - y
  <2>2. e \in Nat /\ x = n + 1 + e /\ g \in Nat /\ y = h - g
    BY <1>1, <1>2, <1>7, <2>1
  <2> HIDE DEF e, g
  <2>3. h * x = h * n + h + h * e /\ n * y = h * n - n * g
    BY <1>1, <1>2, <2>2
  <2>4. h * e \in Nat /\ n * g \in Nat /\ h * n \in Nat
    BY <1>1, <1>2, <2>2
  <2>. QED  BY <1>1, <2>1, <2>3, <2>4
<1>. QED  BY <1>8 DEF SumFunction

(* The optimality of EDF as the user of the simulator meets it: of a task  *)
(* set of utilization at most 1 no job is killed, whatever the constraints;*)
(* every job whose period is over is marked in its report, and the flag    *)
(* stays up.                                                               *)
THEOREM EdfMeetsAllDeadlines ==
  ASSUME UninitStartTime = {0}, MaxStartupTicks = 0
  PROVE  Spec => [](Algorithm = "EDF" /\ UtilizationAtMostOne =>
                      /\ weakly_hard = 1
                      /\ \A t \in Tasks : /\ times_killed[t] = 0
                                          /\ Cardinality(report[t]) = Decided(t))
<1>1. Serving /\ NothingBreaks /\ EveryJobAccounted =>
        (Algorithm = "EDF" /\ UtilizationAtMostOne =>
           /\ weakly_hard = 1
           /\ \A t \in Tasks : /\ times_killed[t] = 0
                               /\ Cardinality(report[t]) = Decided(t))
  <2> SUFFICES ASSUME Serving, NothingBreaks, EveryJobAccounted, Algorithm = "EDF",
                      UtilizationAtMostOne
               PROVE  /\ weakly_hard = 1
                      /\ \A t \in Tasks : /\ times_killed[t] = 0
                                          /\ Cardinality(report[t]) = Decided(t)
    OBVIOUS
  <2>1. WellFormed(Task_Set)
    BY DEF Serving, TypeOK
  <2>2. weakly_hard = 1 /\ times_killed = [t \in Tasks |-> 0]
    BY <2>1, UtilizationSuffices DEF NothingBreaks
  <2>3. ASSUME NEW t \in Tasks
        PROVE  times_killed[t] = 0 /\ Cardinality(report[t]) = Decided(t)
    <3>1. times_killed[t] = 0 /\ Cardinality(report[t]) + times_killed[t] = Decided(t)
      BY <2>2 DEF EveryJobAccounted
    <3>2. Cardinality(report[t]) \in Nat
      BY FS_CardinalityType DEF Serving
    <3>. QED  BY <3>1, <3>2
  <2>. QED  BY <2>2, <2>3
<1>2. Spec => []Serving
  BY InitServing, NextServing, PTL DEF Spec
<1>. QED  BY <1>1, <1>2, AlwaysNothingBreaks, JobsAddUp, PTL
=============================================================================
