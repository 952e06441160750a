------------------------- MODULE PeriodicScheduler -------------------------
(***************************************************************************)
(* What the modified FreeRTOS kernel promises the weakly-hard simulator,   *)
(* at the grain of the tick interrupt: one action per tick, the task lists *)
(* as sets.  PeriodicKernel models the same handler list operation by list *)
(* operation and is checked to implement this module.                      *)
(*                                                                         *)
(* Of the code it keeps every decision of xTaskIncrementTick, killTasks,   *)
(* wakeTasks, check_weakly_hard and prvAddTaskToReadyList, and it leaves   *)
(* out the order of items with equal keys (vListInsert is first in, first  *)
(* out among them), the walks over the lists, and what the timer daemon    *)
(* does before it gives the processor up for good.                         *)
(*                                                                         *)
(* A definition that no other one uses, such as HiperperiodPassed before   *)
(* Hiperperiod, is the fault a property is tried against: the definition   *)
(* that follows it as a plausible bug would have it.                       *)
(***************************************************************************)
EXTENDS PeriodicTasks, FiniteSetsExt

VARIABLES
  xTickCount,
  readyTasks,             \* pxReadyTasksLists[1]
  xWaitTaskList,
  pxCurrentTCB,
  xRemainingTicks,
  start_time,
  xItemValue,             \* the ready key written in xStateListItem
  previous_deadline_met,
  report,                 \* per task, the indexes of the jobs that met
  times_killed,
  weakly_hard,            \* the simulator's flag: 1 while no constraint broke
  exited                  \* exit_function has ended the process

tcbVars == <<xRemainingTicks, start_time, xItemValue, previous_deadline_met>>
simVars == <<report, times_killed, weakly_hard>>
vars == <<config, xTickCount, readyTasks, xWaitTaskList, pxCurrentTCB,
          tcbVars, simVars, exited>>
-----------------------------------------------------------------------------
(* The tasks vTaskSwitchContext may find at the head of the highest        *)
(* priority list: the idle task only when no periodic task is ready.       *)
Heads(ready, key) ==
  IF ready = {} THEN {Idle}
  ELSE {t \in ready : \A u \in ready : ~Precedes(key[u], key[t])}

Init ==
  /\ ConfigInit
  /\ xTickCount = 0
  /\ readyTasks = {t \in Tasks : GoesReady(t, 0)}
  /\ xWaitTaskList = Tasks \ readyTasks
  /\ pxCurrentTCB = Timer
  /\ xRemainingTicks = [t \in Tasks |-> Duration(t)]
  /\ start_time \in [Tasks -> UninitStartTime]
  /\ xItemValue = [t \in Tasks |-> ReadyKey(t, 0, 0)]
  /\ previous_deadline_met = [t \in Tasks |-> 0]
  /\ report = [t \in Tasks |-> {}]
  /\ times_killed = [t \in Tasks |-> 0]
  /\ weakly_hard = 1
  /\ exited = FALSE
-----------------------------------------------------------------------------
(* One tick, stage by stage.  TickType_t arithmetic wraps.                 *)
now == xTickCount + 1
Elapsed(t) == IF now >= start_time[t] THEN now - start_time[t]
              ELSE now - start_time[t] + TickModulus
Demand(t, remaining) == LET sum == Elapsed(t) + remaining
                        IN IF sum < TickModulus THEN sum ELSE sum - TickModulus

(* The task the tick interrupted is charged one tick ...                   *)
ChargedAll == [t \in Tasks |-> IF t \in readyTasks /\ xRemainingTicks[t] > 0
                               THEN xRemainingTicks[t] - 1
                               ELSE xRemainingTicks[t]]

Charged == [t \in Tasks |-> IF t = pxCurrentTCB /\ xRemainingTicks[t] > 0
                            THEN xRemainingTicks[t] - 1
                            ELSE xRemainingTicks[t]]

(* ... and its job is complete, or past its deadline, when none is left.   *)
Spent == {t \in Tasks : t = pxCurrentTCB /\ Charged[t] = 0}
Completed == {t \in Spent : Elapsed(t) <= Period(t)}
VeryBad == Spent \ Completed

MetAfterRun == [t \in Tasks |->
  IF t \in Completed /\ Constraint(t) # 0
  THEN MetOnce(previous_deadline_met[t])
  ELSE previous_deadline_met[t]]

KilledOnceLate == {t \in readyTasks \ Completed : Elapsed(t) > Period(t)}

(* killTasks: the ready jobs that can no longer make their deadline.       *)
Killed == {t \in readyTasks \ Completed : Demand(t, Charged[t]) > Period(t)}

(* check_weakly_hard, called for a killed job.                             *)
BreaksOffByOne(t) == \/ Constraint(t) = 0
                     \/ MetAfterRun[t] < Constraint(t)

Breaks(t) == \/ Constraint(t) = 0
             \/ MetAfterRun[t] < Constraint(t) - 1

MetNotReset == MetAfterRun

MetAfterKill == [t \in Tasks |-> IF t \in Killed THEN 0 ELSE MetAfterRun[t]]

(* wakeTasks: the waiting tasks whose period starts at this tick.  Under   *)
(* RTO a job that may be skipped is, and its task goes on waiting.         *)
WaitingWithoutKilled == xWaitTaskList \cup Completed
Waiting == xWaitTaskList \cup Completed \cup Killed
DueOnceElapsed == {t \in Waiting : Elapsed(t) > Period(t)}
Due == {t \in Waiting : now % Period(t) = 0}
Skipped == {t \in Due : /\ Algorithm = "RTO"
                        /\ Constraint(t) # 0
                        /\ MetAfterKill[t] >= Constraint(t) - 1}
Released == Due \ Skipped
MetAfterWake == [t \in Tasks |-> IF t \in Skipped THEN 0 ELSE MetAfterKill[t]]

(* vTaskSwitchContext.  A task that keeps its place in the list keeps the  *)
(* processor against others of the same key, which are queued behind it.   *)
(* The daemon keeps it while it is ready or replays pended ticks.          *)
Dispatch(ready, key, moved) ==
  \/ /\ pxCurrentTCB \in Heads(ready, key) \ moved
     /\ pxCurrentTCB' = pxCurrentTCB
  \/ /\ pxCurrentTCB \notin Heads(ready, key) \ moved
     /\ pxCurrentTCB' \in Heads(ready, key)
  \/ /\ pxCurrentTCB = Timer
     /\ pxCurrentTCB' = Timer
-----------------------------------------------------------------------------
TickIsDue == /\ ~exited
             /\ pxCurrentTCB = Timer => xTickCount < MaxStartupTicks

RecordByTick ==
  report' = [t \in Tasks |-> IF t \in Completed
                             THEN report[t] \cup {now \div Period(t)}
                             ELSE report[t]]

RecordCompletion ==
  report' = [t \in Tasks |-> IF t \in Completed
                             THEN report[t] \cup {start_time[t] \div Period(t)}
                             ELSE report[t]]

(* A tick before the hyperperiod: run, kill, wake, switch.                 *)
Tick ==
  /\ TickIsDue
  /\ now # Hiperperiod
  /\ xTickCount' = now
  /\ RecordCompletion
  /\ times_killed' = [t \in Tasks |-> IF t \in Killed THEN times_killed[t] + 1
                                                      ELSE times_killed[t]]
  /\ weakly_hard' = IF \E t \in Killed : Breaks(t) THEN 0 ELSE weakly_hard
  /\ previous_deadline_met' = MetAfterWake
  /\ xRemainingTicks' = [t \in Tasks |-> IF t \in Due THEN Duration(t) ELSE Charged[t]]
  /\ start_time' = [t \in Tasks |-> IF t \in Due THEN now ELSE start_time[t]]
  /\ xItemValue' = [t \in Tasks |-> IF t \in Released
                                    THEN ReadyKey(t, now, MetAfterWake[t])
                                    ELSE xItemValue[t]]
  /\ readyTasks' = (readyTasks \ (Completed \cup Killed)) \cup Released
  /\ xWaitTaskList' = Waiting \ Released
  /\ Dispatch(readyTasks', xItemValue', Released)
  /\ UNCHANGED <<config, exited>>

(* The tick of the hyperperiod: exit_function runs after the completion    *)
(* and never returns, so nothing is killed, woken or switched any more.    *)
ExitTick ==
  /\ TickIsDue
  /\ now = Hiperperiod
  /\ xTickCount' = now
  /\ RecordCompletion
  /\ previous_deadline_met' = MetAfterRun
  /\ xRemainingTicks' = Charged
  /\ readyTasks' = readyTasks \ Completed
  /\ xWaitTaskList' = xWaitTaskList \cup Completed
  /\ exited' = TRUE
  /\ UNCHANGED <<config, pxCurrentTCB, start_time, xItemValue,
                 times_killed, weakly_hard>>

(* The timer daemon blocks on its empty queue, for good, and yields.       *)
TimerBlocks ==
  /\ ~exited
  /\ pxCurrentTCB = Timer
  /\ pxCurrentTCB' \in Heads(readyTasks, xItemValue)
  /\ UNCHANGED <<config, xTickCount, readyTasks, xWaitTaskList, tcbVars,
                 simVars, exited>>

Next == Tick \/ ExitTick \/ TimerBlocks

(* The interval timer keeps firing, and the thread of the daemon keeps     *)
(* running while it holds the processor.                                   *)
Fairness == WF_vars(Tick \/ ExitTick) /\ WF_vars(TimerBlocks)

Spec == Init /\ [][Next]_vars
FairSpec == Spec /\ Fairness
-----------------------------------------------------------------------------
(* The kernel's variables hold what their declarations allow.              *)
TypeOK ==
  /\ Algorithm \in Builds
  /\ WellFormed(Task_Set)
  /\ xTickCount \in Nat
  /\ readyTasks \subseteq Tasks
  /\ xWaitTaskList \subseteq Tasks
  /\ pxCurrentTCB \in Tasks \cup {Idle, Timer}
  /\ xRemainingTicks \in [Tasks -> Nat]
  /\ start_time \in [Tasks -> Nat]
  /\ xItemValue \in [Tasks -> [blue : BOOLEAN, deadline : Int]]
  /\ previous_deadline_met \in [Tasks -> 0..(CounterModulus - 1)]
  /\ report \in [Tasks -> SUBSET Nat]
  /\ times_killed \in [Tasks -> Nat]
  /\ weakly_hard \in {0, 1}
  /\ exited \in BOOLEAN

(* Every periodic task is in exactly one of the two lists, whatever the    *)
(* order in which a tick completes, kills and wakes it, and the processor  *)
(* is never left with a task that is not ready.                            *)
OneList ==
  /\ readyTasks \cap xWaitTaskList = {}
  /\ readyTasks \cup xWaitTaskList = Tasks
  /\ ~exited /\ pxCurrentTCB \in Tasks => pxCurrentTCB \in readyTasks

(* Between ticks every task counts from the start of the period the tick   *)
(* is in, whether its job is pending, met, killed or skipped; so job       *)
(* start_time / period is the one setReport marks.                         *)
CountsFromPeriodStart ==
  ~exited => \A t \in Tasks : start_time[t] = xTickCount - (xTickCount % Period(t))

(* Between ticks a ready job can still make its deadline: what it has      *)
(* waited and what it has left to run fit its period.                      *)
NeverPastDeadline ==
  ~exited => \A t \in readyTasks :
               /\ xRemainingTicks[t] > 0
               /\ xTickCount - start_time[t] + xRemainingTicks[t] <= Period(t)

(* The branch of xTaskIncrementTick whose comment says it is never entered *)
(* (a job with no ticks left after its deadline) is never entered.         *)
NeverVeryBad == ~exited => VeryBad = {}

(* setReport stays inside the periods of the hyperperiod, which is what    *)
(* the final counts read.                                                  *)
ReportWithinPeriods ==
  \A t \in Tasks : report[t] \subseteq 0..(NumOfPeriods(t) - 1)

(* The processor runs the task the algorithm ranks first by the values of  *)
(* this moment (a job that must be met before one that may be missed, then *)
(* the end of the period), although the list is sorted by keys computed    *)
(* when the jobs were released; it idles only when no job is pending.      *)
MayMiss(t) == /\ Algorithm = "BWP"
              /\ Constraint(t) # 0
              /\ previous_deadline_met[t] >= Constraint(t) - 1

MoreUrgent(u, t) ==
  \/ ~MayMiss(u) /\ MayMiss(t)
  \/ /\ MayMiss(u) = MayMiss(t)
     /\ start_time[u] + Period(u) < start_time[t] + Period(t)

RunsMostUrgent ==
  ~exited /\ pxCurrentTCB # Timer =>
    IF readyTasks = {} THEN pxCurrentTCB = Idle
    ELSE /\ pxCurrentTCB \in readyTasks
         /\ \A u \in readyTasks : ~MoreUrgent(u, pxCurrentTCB)

(* The jobs of t whose outcome is decided: those before the pending one.   *)
JobsStarted(t) == IF exited THEN NumOfPeriods(t) ELSE (xTickCount \div Period(t)) + 1
Decided(t) == IF t \in readyTasks THEN JobsStarted(t) - 1 ELSE JobsStarted(t)
Missed(t) == (0..(Decided(t) - 1)) \ report[t]

(* One job in every n may be missed, none when the constraint is 0.        *)
WithinConstraint(t, missed) ==
  /\ Constraint(t) = 0 => missed = {}
  /\ \A j, k \in missed : j < k => k - j >= Constraint(t)

(* While the flag is up, no task has missed more of its decided jobs than  *)
(* its constraint allows: the per-task counter, reset at each miss, loses  *)
(* no miss, even where it wraps.                                           *)
FlagComplete ==
  weakly_hard = 1 => \A t \in Tasks : WithinConstraint(t, Missed(t))

(* What the comment on weakly_hard says of the value writeReportInFile     *)
(* prints: "if this varijable is 1 then weakly hard conditions are OK",    *)
(* for all the jobs of the hyperperiod.                                    *)
FlagCompleteAtExit ==
  exited /\ weakly_hard = 1 =>
    \A t \in Tasks : WithinConstraint(t, (0..(NumOfPeriods(t) - 1)) \ report[t])

(* What the comment on the constraint says, "n means that task can be      *)
(* skipped once in every n period interval": a task that does no more than *)
(* that does not bring the flag down.                                      *)
FlagSound ==
  weakly_hard = 0 => \E t \in Tasks : ~WithinConstraint(t, Missed(t))

(* Every decided job was either reported met or killed, never both, and    *)
(* only RTO decides a job without either, by skipping it.                  *)
EveryJobAccounted ==
  \A t \in Tasks :
    LET accounted == Cardinality(report[t]) + times_killed[t]
    IN IF Algorithm = "RTO" THEN accounted <= Decided(t) ELSE accounted = Decided(t)

(* Under BWP and RTO the flag falls in a tick exactly when that tick kills *)
(* a job that was queued red: a blue job's loss never breaks a constraint. *)
OnlyRedJobsBreak ==
  [][ LET redKill == \E t \in Tasks : /\ times_killed'[t] > times_killed[t]
                                      /\ ~xItemValue[t].blue
      IN Algorithm # "EDF" =>
           (weakly_hard' = IF redKill THEN 0 ELSE weakly_hard) ]_vars
-----------------------------------------------------------------------------
(* A job is reported met only after the processor gave it all its ticks:   *)
(* the service of the met jobs and of the pending ones fits the time       *)
(* that has passed.                                                        *)
Service(t) ==
  Cardinality(report[t]) * Duration(t)
    + IF t \in readyTasks THEN Duration(t) - xRemainingTicks[t] ELSE 0

ServiceFitsTime == SumFunction([t \in Tasks |-> Service(t)]) <= xTickCount

(* EDF lets a task miss nothing, whatever its constraint.                  *)
SkipEvery(t) == IF Algorithm = "EDF" THEN 0 ELSE Constraint(t)

(* The processor demand of t's jobs within the first n ticks when it skips *)
(* every job it may: the classic bound for skip-over task sets, exact when *)
(* all tasks start together.                                               *)
SkipDemand(t, n) ==
  Duration(t) * (IF SkipEvery(t) = 0 THEN n \div Period(t)
                 ELSE (n \div Period(t)) - (n \div (Period(t) * SkipEvery(t))))

Feasible ==
  \A n \in 1..Hiperperiod : SumFunction([t \in Tasks |-> SkipDemand(t, n)]) <= n

(* The promise of the three algorithms, when the daemon takes no tick at   *)
(* the start: EDF breaks no constraint of a task set whose demand always   *)
(* fits the time, RTO and BWP of one whose demand does when it skips.      *)
FeasibleSetsNeverBreak == Feasible => weakly_hard = 1
=============================================================================
