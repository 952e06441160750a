--------------------------- MODULE PeriodicTasks ---------------------------
(***************************************************************************)
(* What the scheduler is given and never changes: the algorithm the kernel *)
(* was compiled with and the generated task set; and the ready key, which  *)
(* is all that distinguishes the three algorithms when a job is released.  *)
(***************************************************************************)
EXTENDS Integers, FiniteSets

CONSTANTS
  Tasks,            \* the ids of the periodic tasks
  TaskSets,         \* what startTaskSetGenerator may leave in Task_Set
  Builds,           \* the settings of the algorithm switch in FreeRTOSConfig.h
  Idle,             \* prvIdleTask, in the priority 0 list
  Timer,            \* prvTimerTask, alone in the priority 6 list
  UninitStartTime,  \* what malloc may leave in start_time of a new TCB
  CounterModulus,   \* previous_deadline_met is a uint8_t: 256
  TickModulus,      \* TickType_t is unsigned: 2^64 on the Posix port
  MaxStartupTicks   \* bound: ticks handled while the timer daemon runs

Algorithms == {"EDF", "BWP", "RTO"}

(***************************************************************************)
(* A task set: period, duration and weakly-hard constraint of each task    *)
(* (constraint 0: no deadline may be missed; n: one job in every n may be) *)
(* and the hyperperiod, the least common multiple of the periods.          *)
(***************************************************************************)
TaskSetType ==
  [period : [Tasks -> Nat \ {0}], duration : [Tasks -> Nat \ {0}],
   constraint : [Tasks -> 0..(CounterModulus - 1)], hiperperiod : Nat \ {0}]

(* calculateTaskDuration rounds period * u up to at least 1, and           *)
(* check_utilization keeps u below 0.7, so a duration fits its period; an  *)
(* int hyperperiod is far from the width of TickType_t.                    *)
WellFormed(ts) ==
  /\ ts \in TaskSetType
  /\ 2 * ts.hiperperiod < TickModulus
  /\ \A t \in Tasks : /\ ts.duration[t] <= ts.period[t]
                      /\ ts.hiperperiod % ts.period[t] = 0

ASSUME TaskSetsAssumption == \A ts \in TaskSets : WellFormed(ts)
ASSUME TasksAssumption == IsFiniteSet(Tasks)
ASSUME ConstantsAssumption ==
  /\ Builds \subseteq Algorithms
  /\ Idle \notin Tasks /\ Timer \notin Tasks /\ Idle # Timer
  /\ CounterModulus \in Nat \ {0} /\ TickModulus \in Nat \ {0}
  /\ UninitStartTime \subseteq 0..(TickModulus - 1)
  /\ MaxStartupTicks \in Nat

VARIABLES
  Algorithm,   \* the algorithm this build was compiled with
  Task_Set     \* the generated task set, fixed before the start

config == <<Algorithm, Task_Set>>

Period(t) == Task_Set.period[t]
Duration(t) == Task_Set.duration[t]
Constraint(t) == Task_Set.constraint[t]
HiperperiodPassed == Task_Set.hiperperiod + 1
Hiperperiod == Task_Set.hiperperiod
NumOfPeriods(t) == Hiperperiod \div Period(t)
-----------------------------------------------------------------------------
(* The key of the ready list.  BWP sets bit 30 of a blue job's key, so     *)
(* that every red job precedes it; the deadline is the end of the period   *)
(* the tick is in.                                                         *)
IsBlue(t, met) == /\ Algorithm = "BWP"
                  /\ Constraint(t) # 0
                  /\ met >= Constraint(t) - 1

RateMonotonicKey(t, tick, met) ==
  [blue |-> IsBlue(t, met), deadline |-> Period(t)]

ReadyKey(t, tick, met) ==
  [blue |-> IsBlue(t, met), deadline |-> Period(t) + tick - (tick % Period(t))]

Precedes(k, l) == \/ ~k.blue /\ l.blue
                  \/ k.blue = l.blue /\ k.deadline < l.deadline

(* previous_deadline_met++ on a uint8_t.                                   *)
MetUnbounded(met) == met + 1
MetOnce(met) == (met + 1) % CounterModulus

(* prvAddTaskToReadyList puts a task in the ready list, except that RTO    *)
(* does not when its job may be skipped.                                   *)
GoesReady(t, met) == \/ Algorithm # "RTO"
                     \/ Constraint(t) = 0
                     \/ met < Constraint(t) - 1

ConfigInit == Algorithm \in Builds /\ Task_Set \in TaskSets
=============================================================================
