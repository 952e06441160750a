-------------------------- MODULE TaskSetGenerator --------------------------
(***************************************************************************)
(* startTaskSetGenerator: utilizations, periods and constraints are drawn  *)
(* in three loops that draw again until a test accepts, then durations and *)
(* the hyperperiod are computed.  One action per iteration of a loop.      *)
(*                                                                         *)
(* A utilization is a whole number of 1/Scale; calculateUtilization splits *)
(* the total in any proportion.  rand_0_to_1 can return 1, so a draw can   *)
(* exceed the highest value by one.  An int wraps past INT_MAX.            *)
(* calculateHiperperiod has no return statement: the unoptimised build of  *)
(* the Makefile returns the value last computed, the new hyperperiod.      *)
(***************************************************************************)
EXTENDS Integers, FiniteSetsExt

CONSTANTS
  TASK_CNT, LOWEST_PERIOD, HIGHEST_PERIOD, LOWEST_WH, HIGHEST_WH,
  MAX_HIPERPERIOD, MAX_PERIOD_CNT,
  INT_MAX,              \* the largest int: 2^31 - 1
  Scale,                \* units of a utilization of 1
  TotalUtilization,     \* the first argument of the program
  CounterModulus, TickModulus   \* as in PeriodicTasks

Ids == 0..(TASK_CNT - 1)

(* The last four lines are about the numbers in taskSetGenerator.h: a      *)
(* report has room for the periods of any accepted hyperperiod, and the    *)
(* kernel's counters for a constraint and for two hyperperiods.            *)
ASSUME GeneratorAssumption ==
  /\ {TASK_CNT, Scale, LOWEST_PERIOD} \subseteq Nat \ {0}
  /\ {TotalUtilization, INT_MAX, HIGHEST_PERIOD, LOWEST_WH, HIGHEST_WH} \subseteq Nat
  /\ {MAX_HIPERPERIOD, MAX_PERIOD_CNT, CounterModulus, TickModulus} \subseteq Nat
  /\ LOWEST_PERIOD <= HIGHEST_PERIOD /\ LOWEST_WH <= HIGHEST_WH
  /\ MAX_HIPERPERIOD \div LOWEST_PERIOD <= MAX_PERIOD_CNT
  /\ HIGHEST_WH + 1 < CounterModulus
  /\ 2 * MAX_HIPERPERIOD <= TickModulus

VARIABLES
  pc,                \* the loop: "utilization", "periods", "constraints", "done"
  u, period, duration, weakly_hard_constraint, numOfPeriods,   \* of Task_Set
  hiperperiod

vars == <<pc, u, period, duration, weakly_hard_constraint, numOfPeriods, hiperperiod>>
Zero == [i \in Ids |-> 0]

(* Task_Set is a global array, zero before the generator runs.             *)
Init == /\ pc = "utilization"
        /\ u = Zero /\ period = Zero /\ duration = Zero
        /\ weakly_hard_constraint = Zero /\ numOfPeriods = Zero
        /\ hiperperiod = 0
-----------------------------------------------------------------------------
Half == INT_MAX + 1
Int32(x) == ((x + Half) % (2 * Half)) - Half

GCD[p \in Nat \X Nat] == IF p[2] = 0 THEN p[1] ELSE GCD[<<p[2], p[1] % p[2]>>]

LcmMultipliesFirst(a, b) == Int32(a * b) \div GCD[<<a, b>>]
LCM(a, b) == Int32((a \div GCD[<<a, b>>]) * b)

(* calculateHiperperiod goes through the tasks; a negative product is its  *)
(* only sign of an overflow, and ends its loop.                            *)
Product(ps) ==
  LET temp[i \in Ids] == IF i = 0 THEN ps[0]
                         ELSE IF temp[i - 1] < 0 THEN temp[i - 1]
                         ELSE LCM(ps[i], temp[i - 1])
  IN temp[TASK_CNT - 1]

SignIgnored(ps) == Product(ps)
calculateHiperperiod(ps) == IF Product(ps) < 0 THEN MAX_HIPERPERIOD + 1 ELSE Product(ps)
-----------------------------------------------------------------------------
Splits(total) == {f \in [Ids -> 0..total] : MapThenSumSet(LAMBDA i : f[i], Ids) = total}

BelowHalf(us) == \A i \in Ids : 2 * us[i] < Scale
check_utilization(us) == \A i \in Ids : 10 * us[i] < 7 * Scale

calculateUtilization ==
  /\ pc = "utilization"
  /\ u' \in Splits(TotalUtilization)
  /\ pc' = IF check_utilization(u') THEN "periods" ELSE pc
  /\ UNCHANGED <<period, duration, weakly_hard_constraint, numOfPeriods, hiperperiod>>

Accepted(h) == h < MAX_HIPERPERIOD

generatePeriods ==
  /\ pc = "periods"
  /\ period' \in [Ids -> LOWEST_PERIOD..(HIGHEST_PERIOD + 1)]
  /\ hiperperiod' = calculateHiperperiod(period')
  /\ pc' = IF Accepted(hiperperiod') THEN "constraints" ELSE pc
  /\ UNCHANGED <<u, duration, weakly_hard_constraint, numOfPeriods>>

(* The long-run demand when each task skips all it may is at most 1, over  *)
(* the common denominator of the tasks' terms.                             *)
Demand(d, p, w) ==
  LET wh(i) == IF w[i] = 0 THEN 1 ELSE w[i]
      skipped(i) == IF w[i] = 0 THEN 0 ELSE 1
      denominator == MapThenFoldSet(LAMBDA x, y : x * y, 1, LAMBDA i : p[i] * wh(i),
                                    LAMBDA s : CHOOSE i \in s : TRUE, Ids)
  IN <<MapThenSumSet(LAMBDA i : d[i] * (wh(i) - skipped(i))
                                  * (denominator \div (p[i] * wh(i))), Ids), denominator>>
check_nessery_condition(d, p, w) == Demand(d, p, w)[1] <= Demand(d, p, w)[2]

(* check_sufficient_condition returns 1 on both of its paths.              *)
check_sufficient_condition == TRUE

ConstraintDraws == [Ids -> LOWEST_WH..(HIGHEST_WH + 1)]

generateWeaklyHard ==
  /\ pc = "constraints"
  /\ weakly_hard_constraint' \in ConstraintDraws
  /\ pc' = IF /\ check_nessery_condition(duration, period, weakly_hard_constraint')
              /\ check_sufficient_condition
           THEN "durations" ELSE pc
  /\ UNCHANGED <<u, period, duration, numOfPeriods, hiperperiod>>

(* period * u + 0.5, truncated, and at least 1.                            *)
Rounded(p, v) == IF 2 * p * v < Scale THEN 1 ELSE (2 * p * v + Scale) \div (2 * Scale)

(* After the loops: the constraints are drawn once more, untested, and the *)
(* rest of the task set is computed.                                       *)
calculateTaskSet ==
  /\ pc = "durations"
  /\ pc' = "done"
  /\ weakly_hard_constraint' \in ConstraintDraws
  /\ duration' = [i \in Ids |-> Rounded(period[i], u[i])]
  /\ hiperperiod' = calculateHiperperiod(period)
  /\ numOfPeriods' = [i \in Ids |-> hiperperiod' \div period[i]]
  /\ UNCHANGED <<u, period>>

Next == calculateUtilization \/ generatePeriods \/ generateWeaklyHard \/ calculateTaskSet

(* Every loop goes on, and a draw its test accepts, which is one of        *)
(* positive probability, is not missed for ever.                           *)
Fairness ==
  /\ SF_vars(calculateUtilization /\ pc' # pc)
  /\ SF_vars(generatePeriods /\ pc' # pc)
  /\ SF_vars(generateWeaklyHard /\ pc' # pc)
  /\ WF_vars(calculateTaskSet)

Spec == Init /\ [][Next]_vars
FairSpec == Spec /\ Fairness
-----------------------------------------------------------------------------
Task_Set == [period |-> period, duration |-> duration,
             constraint |-> weakly_hard_constraint, hiperperiod |-> hiperperiod]

Kernel == INSTANCE PeriodicTasks
            WITH Tasks <- Ids, TaskSets <- {}, Builds <- {}, Algorithm <- "EDF",
                 Idle <- "idle", Timer <- "timer", UninitStartTime <- {},
                 MaxStartupTicks <- 0

CommonMultiple(m) == \A i \in Ids : m % period[i] = 0
FitsInt == \E m \in 1..INT_MAX : CommonMultiple(m)

(* The hyperperiod is the least common multiple, although it is built up   *)
(* by pairs in an int, and stays in the range the report is sized for.     *)
HiperperiodIsLcm ==
  /\ hiperperiod \in 1..(MAX_HIPERPERIOD - 1)
  /\ CommonMultiple(hiperperiod)
  /\ \A k \in 1..(hiperperiod - 1) : ~CommonMultiple(k)

(* The durations keep each drawn utilization to within half a tick a       *)
(* period, but for the durations that must not be 0.                       *)
UtilizationKept ==
  \A i \in Ids : LET error == duration[i] * Scale - period[i] * u[i]
                 IN \/ 2 * error <= Scale /\ -2 * error <= Scale
                    \/ duration[i] = 1 /\ error > 0

(* What the simulator assumes of every task set is what the generator      *)
(* ends with, unless the least common multiple does not fit an int.        *)
GeneratesWellFormed ==
  pc = "done" /\ FitsInt => Kernel!WellFormed(Task_Set) /\ HiperperiodIsLcm /\ UtilizationKept

(* Whatever the products wrap to, a task never has more periods than its   *)
(* report has room for, nor a negative number of them.                     *)
ReportFits == pc = "done" => \A i \in Ids : numOfPeriods[i] \in 0..MAX_PERIOD_CNT

(* The generator ends whenever the total leaves every task below 0.7.      *)
Generates == 10 * TotalUtilization < 7 * Scale * TASK_CNT => <>(pc = "done")
=============================================================================
