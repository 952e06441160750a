----------------------------- MODULE ExitReport -----------------------------
(***************************************************************************)
(* What exit_function does with the reports of a finished simulation:      *)
(* countMissedDeadlines and countWeaklyHardBroken scan the report of every *)
(* task, one job per step here, and writeReportInFile sums what they       *)
(* found.  A report is the set of the indexes of the jobs that met.        *)
(*                                                                         *)
(* The definitions no other one uses are faults, as in PeriodicScheduler.  *)
(***************************************************************************)
EXTENDS Integers, FiniteSetsExt

CONSTANTS
  TASK_CNT,    \* the number of tasks
  MaxPeriods,  \* bound: the periods in a hyperperiod (MAX_PERIOD_CNT)
  Constraints  \* the weakly-hard constraints generated

Ids == 0..(TASK_CNT - 1)

ASSUME ReportAssumption ==
  TASK_CNT \in Nat /\ MaxPeriods \in Nat \ {0} /\ Constraints \subseteq Nat

VARIABLES
  numOfPeriods, weakly_hard_constraint, report,   \* of Task_Set, fixed by now
  pc,                                             \* the loop: "missed", "broken", "written"
  i, j, cnt, prevoius_solved,                     \* its local variables
  missed_deadlines, weakly_hard_broken,           \* of Task_Set
  row                                             \* the line writeReportInFile appends

input == <<numOfPeriods, weakly_hard_constraint, report>>
results == <<missed_deadlines, weakly_hard_broken>>
vars == <<input, pc, i, j, cnt, prevoius_solved, results, row>>

NoRow == [missed |-> 0, broken |-> 0, jobs |-> 0]

Init ==
  /\ numOfPeriods \in [Ids -> 1..MaxPeriods]
  /\ weakly_hard_constraint \in [Ids -> Constraints]
  /\ report \in [Ids -> SUBSET (0..(MaxPeriods - 1))]
  /\ \A k \in Ids : report[k] \subseteq 0..(numOfPeriods[k] - 1)
  /\ pc = "missed" /\ i = 0 /\ j = 0 /\ cnt = 0 /\ prevoius_solved = 0
  /\ missed_deadlines = [k \in Ids |-> 0]
  /\ weakly_hard_broken = [k \in Ids |-> 0]
  /\ row = NoRow
-----------------------------------------------------------------------------
StopsEarly == j = numOfPeriods[i] - 1
LastJobSeen == j = numOfPeriods[i]

Scanning(loop) == pc = loop /\ i \in Ids /\ ~LastJobSeen

(* The next task, from its first job.                                      *)
NextTask == i' = i + 1 /\ j' = 0 /\ cnt' = 0

countMissedDeadlines ==
  /\ Scanning("missed")
  /\ cnt' = IF j \in report[i] THEN cnt ELSE cnt + 1
  /\ j' = j + 1
  /\ UNCHANGED <<input, pc, i, prevoius_solved, results, row>>

StoreMissed ==
  /\ pc = "missed" /\ i \in Ids /\ LastJobSeen
  /\ missed_deadlines' = [missed_deadlines EXCEPT ![i] = cnt]
  /\ NextTask
  /\ UNCHANGED <<input, pc, prevoius_solved, weakly_hard_broken, row>>

(* prevoius_solved starts at the constraint: the first miss breaks nothing.*)
StartTask(k) == prevoius_solved' = IF k \in Ids THEN weakly_hard_constraint[k]
                                                ELSE prevoius_solved

countMissedReturns ==
  /\ pc = "missed" /\ i = TASK_CNT
  /\ pc' = "broken" /\ i' = 0
  /\ StartTask(0)
  /\ UNCHANGED <<input, j, cnt, results, row>>

MetJob ==
  /\ Scanning("broken")
  /\ j \in report[i]
  /\ prevoius_solved' = prevoius_solved + 1
  /\ j' = j + 1
  /\ UNCHANGED <<input, pc, i, cnt, results, row>>

NotRestarted == prevoius_solved' = prevoius_solved
Restarted == prevoius_solved' = 0

MissedJob ==
  /\ Scanning("broken")
  /\ j \notin report[i]
  /\ cnt' = IF prevoius_solved < weakly_hard_constraint[i] - 1 THEN cnt + 1 ELSE cnt
  /\ Restarted
  /\ j' = j + 1
  /\ UNCHANGED <<input, pc, i, results, row>>

StoreBroken ==
  /\ pc = "broken" /\ i \in Ids /\ LastJobSeen
  /\ weakly_hard_broken' = [weakly_hard_broken EXCEPT ![i] = cnt]
  /\ NextTask
  /\ StartTask(i + 1)
  /\ UNCHANGED <<input, pc, missed_deadlines, row>>

writeReportInFile ==
  /\ pc = "broken" /\ i = TASK_CNT
  /\ pc' = "written"
  /\ row' = [missed |-> SumFunction(missed_deadlines),
             broken |-> SumFunction(weakly_hard_broken),
             jobs |-> SumFunction(numOfPeriods)]
  /\ UNCHANGED <<input, i, j, cnt, prevoius_solved, results>>

Next == \/ countMissedDeadlines \/ StoreMissed \/ countMissedReturns
        \/ MetJob \/ MissedJob \/ StoreBroken \/ writeReportInFile

Spec == Init /\ [][Next]_vars
-----------------------------------------------------------------------------
(* The jobs of task k before job n that missed their deadlines, and those  *)
(* of them that came too soon after another.                               *)
Misses(k, n) == (0..(n - 1)) \ report[k]

TooSoon(k, misses) ==
  {b \in misses : \E a \in misses : a < b /\ b - a < weakly_hard_constraint[k]}

AllMisses(k) == Misses(k, numOfPeriods[k])

(* missed_deadlines is the number of jobs of the hyperperiod without a     *)
(* mark in the report, for every task, and the line has the number of all  *)
(* of them, which is no more than there are jobs: calculateQoS is in 0..1. *)
MissedCounted ==
  pc = "written" =>
    /\ \A k \in Ids : missed_deadlines[k] = Cardinality(AllMisses(k))
    /\ row.missed = Cardinality(UNION {{k} \X AllMisses(k) : k \in Ids})
    /\ row.missed <= row.jobs

(* weakly_hard_broken is the number of misses fewer than n jobs after      *)
(* another miss of a task that may miss one job in n, which the single     *)
(* counter of jobs met since the last miss must find; no miss of a task    *)
(* with constraint 0 is one.  The line has the number of all breaks, each  *)
(* of which it also has among the misses.                                  *)
SoftBreaksCounted ==
  pc = "written" =>
    /\ \A k \in Ids : weakly_hard_broken[k] = Cardinality(TooSoon(k, AllMisses(k)))
    /\ row.broken = Cardinality(UNION {{k} \X TooSoon(k, AllMisses(k)) : k \in Ids})
    /\ row.broken <= row.missed

(* What the comment on the constraint says of 0, "task that must meet al   *)
(* deadlines", asks of the count of breaks: every miss is one.             *)
HardMissesCounted ==
  pc = "written" =>
    \A k \in Ids : weakly_hard_constraint[k] = 0 =>
                     weakly_hard_broken[k] = Cardinality(AllMisses(k))
=============================================================================
