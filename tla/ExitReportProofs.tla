-------------------------- MODULE ExitReportProofs --------------------------
(***************************************************************************)
(* The two loops of exit_function count what they are named for, for any   *)
(* number of tasks, periods and constraints: each loop has an invariant    *)
(* about the jobs it has scanned, which at the last job is the property.   *)
(* The sums of writeReportInFile then count the jobs of all tasks.         *)
(***************************************************************************)
EXTENDS ExitReport, ArithmeticLemmas, FiniteSetTheorems

Reports == [Ids -> SUBSET Nat]

Typed ==
  /\ numOfPeriods \in [Ids -> Nat \ {0}]
  /\ weakly_hard_constraint \in [Ids -> Nat]
  /\ report \in Reports
  /\ pc \in {"missed", "broken", "written"}
  /\ i \in 0..TASK_CNT /\ j \in Nat /\ cnt \in Nat
  /\ i \in Ids => j <= numOfPeriods[i]
  /\ i = TASK_CNT => j = 0 /\ cnt = 0
  /\ missed_deadlines \in [Ids -> Nat] /\ weakly_hard_broken \in [Ids -> Nat]

(* countMissedDeadlines: the tasks done, and the jobs of the current one.  *)
MissedSoFar ==
  /\ \A k \in Ids : pc # "missed" \/ k < i =>
                      missed_deadlines[k] = Cardinality(AllMisses(k))
  /\ pc = "missed" /\ i \in Ids => cnt = Cardinality(Misses(i, j))

(* countWeaklyHardBroken: prevoius_solved tells how long ago the last miss *)
(* was, or that there was none.                                            *)
LastMiss(k, n, ago) ==
  IF Misses(k, n) = {} THEN ago >= weakly_hard_constraint[k]
  ELSE /\ n - 1 - ago \in Misses(k, n)
       /\ \A a \in Misses(k, n) : a <= n - 1 - ago

BrokenSoFar ==
  /\ \A k \in Ids :
       pc = "written" \/ (pc = "broken" /\ k < i) =>
         weakly_hard_broken[k] = Cardinality(TooSoon(k, AllMisses(k)))
  /\ pc = "broken" /\ i \in Ids =>
       /\ prevoius_solved \in Nat
       /\ LastMiss(i, j, prevoius_solved)
       /\ cnt = Cardinality(TooSoon(i, Misses(i, j)))

RowWritten ==
  pc = "written" => row = [missed |-> SumFunction(missed_deadlines),
                           broken |-> SumFunction(weakly_hard_broken),
                           jobs |-> SumFunction(numOfPeriods)]

IInv == Typed /\ MissedSoFar /\ BrokenSoFar /\ RowWritten
-----------------------------------------------------------------------------
(* One more job scanned.                                                   *)
LEMMA OneMoreJob ==
  ASSUME Typed, NEW k \in Ids, NEW n \in Nat
  PROVE  /\ Misses(k, 0) = {}
         /\ n \in report[k] => Misses(k, n + 1) = Misses(k, n)
         /\ n \notin report[k] => Misses(k, n + 1) = Misses(k, n) \cup {n}
         /\ n \notin Misses(k, n)
         /\ IsFiniteSet(Misses(k, n)) /\ IsFiniteSet(TooSoon(k, Misses(k, n)))
<1>1. /\ n \in report[k] => Misses(k, n + 1) = Misses(k, n)
      /\ n \notin report[k] => Misses(k, n + 1) = Misses(k, n) \cup {n}
      /\ Misses(k, 0) = {} /\ n \notin Misses(k, n)
  BY DEF Misses
<1>2. IsFiniteSet(Misses(k, n))
  <2>1. IsFiniteSet(0..(n - 1)) /\ Misses(k, n) \subseteq 0..(n - 1)
    BY FS_Interval DEF Misses
  <2>. QED  BY <2>1, FS_Subset
<1>3. IsFiniteSet(TooSoon(k, Misses(k, n)))
  <2>1. TooSoon(k, Misses(k, n)) \subseteq Misses(k, n)
    BY DEF TooSoon
  <2>. QED  BY <1>2, <2>1, FS_Subset
<1>. QED  BY <1>1, <1>2, <1>3

(* A miss after the others is too soon exactly when the counter says so.   *)
LEMMA MissTooSoon ==
  ASSUME Typed, NEW k \in Ids, NEW n \in Nat, n \notin report[k], NEW ago \in Nat,
         LastMiss(k, n, ago)
  PROVE  TooSoon(k, Misses(k, n + 1)) =
           TooSoon(k, Misses(k, n)) \cup
             (IF ago < weakly_hard_constraint[k] - 1 THEN {n} ELSE {})
<1> DEFINE C == weakly_hard_constraint[k]
<1>1. C \in Nat /\ Misses(k, n) \subseteq 0..(n - 1)
  BY DEF Typed, Misses
<1>2. Misses(k, n + 1) = Misses(k, n) \cup {n}
  BY OneMoreJob
<1>3. (\E a \in Misses(k, n) : n - a < C) <=> ago < C - 1
  <2>1. CASE Misses(k, n) = {}
    BY <1>1, <2>1 DEF LastMiss
  <2>2. CASE Misses(k, n) # {}
    BY <1>1, <2>2 DEF LastMiss
  <2>. QED  BY <2>1, <2>2
<1>4. ASSUME NEW b
      PROVE  b \in TooSoon(k, Misses(k, n + 1)) <=>
               b \in TooSoon(k, Misses(k, n)) \/ (b = n /\ ago < C - 1)
  <2>1. CASE b = n
    BY <1>1, <1>2, <1>3, <2>1 DEF TooSoon
  <2>2. CASE b # n
    BY <1>1, <1>2, <2>2 DEF TooSoon
  <2>. QED  BY <2>1, <2>2
<1>. QED  BY <1>4

(* What the counter tells after a job that met and after one that missed.  *)
LEMMA LastMissMoves ==
  ASSUME Typed, NEW k \in Ids, NEW n \in Nat, NEW ago \in Nat, LastMiss(k, n, ago)
  PROVE  /\ n \in report[k] => LastMiss(k, n + 1, ago + 1)
         /\ n \notin report[k] => LastMiss(k, n + 1, 0)
<1>1. weakly_hard_constraint[k] \in Nat /\ Misses(k, n) \subseteq 0..(n - 1)
  BY DEF Typed, Misses
<1>2. CASE n \in report[k]
  <2>1. Misses(k, n + 1) = Misses(k, n)
    BY <1>2, OneMoreJob
  <2>2. (n + 1) - 1 - (ago + 1) = n - 1 - ago
    OBVIOUS
  <2>. QED  BY <1>1, <1>2, <2>1, <2>2 DEF LastMiss
<1>3. CASE n \notin report[k]
  <2>1. Misses(k, n + 1) = Misses(k, n) \cup {n}
    BY <1>3, OneMoreJob
  <2>2. (n + 1) - 1 - 0 = n
    OBVIOUS
  <2>. QED  BY <1>1, <1>3, <2>1, <2>2 DEF LastMiss
<1>. QED  BY <1>2, <1>3
-----------------------------------------------------------------------------
LEMMA InitialScan == Init => IInv
<1> SUFFICES ASSUME Init PROVE IInv
  OBVIOUS
<1> USE ReportAssumption DEF Init
<1>1. Typed
  <2>1. numOfPeriods \in [Ids -> Nat \ {0}] /\ weakly_hard_constraint \in [Ids -> Nat]
    <3>1. 1..MaxPeriods \subseteq Nat \ {0} /\ Constraints \subseteq Nat
      OBVIOUS
    <3>2. numOfPeriods \in [Ids -> 1..MaxPeriods] /\ weakly_hard_constraint \in [Ids -> Constraints]
      OBVIOUS
    <3> HIDE DEF Init
    <3>. QED  BY <3>1, <3>2
  <2>2. report \in Reports
    BY DEF Reports
  <2>3. missed_deadlines \in [Ids -> Nat] /\ weakly_hard_broken \in [Ids -> Nat]
    OBVIOUS
  <2>4. i \in Ids => j <= numOfPeriods[i]
    BY <2>1
  <2>. QED  BY <2>1, <2>2, <2>3, <2>4 DEF Typed
<1>2. MissedSoFar
  <2>1. Cardinality({}) = 0
    BY FS_EmptySet
  <2>2. i \in Ids => Misses(i, j) = {}
    BY <1>1, OneMoreJob
  <2>3. pc = "missed" /\ i = 0 /\ cnt = 0 /\ \A k \in Ids : ~(k < i)
    BY DEF Ids
  <2> HIDE DEF Init
  <2>. QED  BY <2>1, <2>2, <2>3 DEF MissedSoFar
<1>3. BrokenSoFar
  BY DEF BrokenSoFar
<1>. QED  BY <1>1, <1>2, <1>3 DEF IInv, RowWritten

(* The next task, or the end of the loop.                                  *)
LEMMA NextTaskStarts ==
  ASSUME Typed, i \in Ids, NextTask
  PROVE  /\ i' \in 0..TASK_CNT /\ j' = 0 /\ cnt' = 0
         /\ i' \in Ids \/ i' = TASK_CNT
         /\ \A k \in Ids : k < i' <=> k < i \/ k = i
  BY ReportAssumption DEF Typed, NextTask, Ids

LEMMA JobLeft ==
  ASSUME Typed, i \in Ids, ~LastJobSeen
  PROVE  i # TASK_CNT /\ j + 1 \in Nat /\ j + 1 <= numOfPeriods[i]
<1>1. i # TASK_CNT
  BY ReportAssumption DEF Ids
<1>2. j \in Nat /\ numOfPeriods[i] \in Nat /\ j <= numOfPeriods[i] /\ j # numOfPeriods[i]
  BY DEF Typed, LastJobSeen
<1>. QED  BY <1>1, <1>2

LEMMA InputStays ==
  ASSUME UNCHANGED input
  PROVE  /\ \A k, n : Misses(k, n)' = Misses(k, n)
         /\ \A k : AllMisses(k)' = AllMisses(k)
         /\ \A k, m : TooSoon(k, m)' = TooSoon(k, m)
         /\ \A k, n, ago : LastMiss(k, n, ago)' = LastMiss(k, n, ago)
<1> USE DEF input
<1>1. \A k, n : Misses(k, n)' = Misses(k, n)
  BY DEF Misses
<1>2. \A k : AllMisses(k)' = AllMisses(k)
  BY DEF AllMisses, Misses
<1>3. \A k, m : TooSoon(k, m)' = TooSoon(k, m)
  BY DEF TooSoon
<1>4. \A k, n, ago : LastMiss(k, n, ago)' = LastMiss(k, n, ago)
  BY <1>1 DEF LastMiss
<1>. QED  BY <1>1, <1>2, <1>3, <1>4

(* A task not met yet has no miss; its counter starts at the constraint.   *)
LEMMA TaskStarts ==
  ASSUME Typed, NEW k \in Ids
  PROVE  /\ Cardinality(Misses(k, 0)) = 0
         /\ Cardinality(TooSoon(k, Misses(k, 0))) = 0
         /\ LastMiss(k, 0, weakly_hard_constraint[k])
<1>1. Misses(k, 0) = {}
  BY OneMoreJob
<1>2. TooSoon(k, {}) = {}
  BY DEF TooSoon
<1>. QED  BY <1>1, <1>2, FS_EmptySet DEF LastMiss, Typed

LEMMA ScanKeepsIInv == IInv /\ [Next]_vars => IInv'
<1> SUFFICES ASSUME IInv, [Next]_vars PROVE IInv'
  OBVIOUS
<1>0. Typed /\ MissedSoFar /\ BrokenSoFar /\ RowWritten /\ TASK_CNT \in Nat /\ UNCHANGED input
  BY ReportAssumption DEF IInv, Next, vars, countMissedDeadlines, StoreMissed,
     countMissedReturns, MetJob, MissedJob, StoreBroken, writeReportInFile
<1>1. \A k \in Ids : /\ numOfPeriods[k] \in Nat \ {0} /\ weakly_hard_constraint[k] \in Nat
                    /\ \A n \in Nat : n <= numOfPeriods[k] /\ n # numOfPeriods[k]
                                       => n + 1 <= numOfPeriods[k]
  BY <1>0 DEF Typed
<1> HIDE DEF IInv
<1>2. CASE countMissedDeadlines
  <2> USE <1>2 DEF countMissedDeadlines, Scanning
  <2>1. Typed'
    <3>1. i # TASK_CNT /\ j + 1 \in Nat /\ j + 1 <= numOfPeriods[i]
      BY <1>0, JobLeft
    <3>. QED  BY <1>0, <3>1 DEF Typed, input, results
  <2>2. MissedSoFar'
    <3>1. cnt' = Cardinality(Misses(i, j + 1))
      <4>1. cnt = Cardinality(Misses(i, j)) /\ j \in Nat
        BY <1>0 DEF MissedSoFar, Typed
      <4>2. CASE j \in report[i]
        BY <1>0, <4>1, <4>2, OneMoreJob
      <4>3. CASE j \notin report[i]
        BY <1>0, <4>1, <4>3, OneMoreJob, FS_AddElement
      <4>. QED  BY <4>2, <4>3
    <3>. QED  BY <1>0, <3>1, InputStays DEF MissedSoFar, results
  <2>3. BrokenSoFar'
    BY DEF BrokenSoFar
  <2>. QED  BY <2>1, <2>2, <2>3 DEF IInv, RowWritten
<1>3. CASE StoreMissed
  <2> USE <1>3 DEF StoreMissed
  <2>1. Typed'
    BY <1>0, <1>1, NextTaskStarts DEF Typed, input
  <2>2. MissedSoFar'
    <3>1. cnt = Cardinality(AllMisses(i))
      BY <1>0 DEF MissedSoFar, LastJobSeen, AllMisses
    <3>2. i' \in Ids => cnt' = Cardinality(Misses(i', j'))
      BY <1>0, NextTaskStarts, TaskStarts
    <3>3. ASSUME NEW k \in Ids, k < i'
          PROVE  missed_deadlines'[k] = Cardinality(AllMisses(k))
      BY <1>0, <3>1, <3>3, NextTaskStarts DEF MissedSoFar, Typed
    <3>. QED  BY <1>0, <3>2, <3>3, InputStays DEF MissedSoFar
  <2>3. BrokenSoFar'
    BY DEF BrokenSoFar
  <2>. QED  BY <2>1, <2>2, <2>3 DEF IInv, RowWritten
<1>4. CASE countMissedReturns
  <2> USE <1>4 DEF countMissedReturns
  <2>1. Typed'
    <3>1. 0 \in 0..TASK_CNT /\ j = 0 /\ cnt = 0
      BY <1>0 DEF Typed
    <3>. QED  BY <1>0, <1>1, <3>1 DEF Typed, input, results
  <2>2. MissedSoFar'
    BY <1>0, InputStays DEF MissedSoFar, results, Ids
  <2>3. BrokenSoFar'
    <3>1. i' = 0 /\ \A k \in Ids : ~(k < i')
      BY DEF Ids
    <3>2. j' = 0 /\ cnt' = 0
      BY <1>0 DEF Typed
    <3>3. i' \in Ids => prevoius_solved' = weakly_hard_constraint[i']
      BY DEF StartTask
    <3>. QED  BY <1>0, <1>1, <3>1, <3>2, <3>3, TaskStarts, InputStays DEF BrokenSoFar, input
  <2>. QED  BY <2>1, <2>2, <2>3 DEF IInv, RowWritten
<1>5. CASE MetJob
  <2> USE <1>5 DEF MetJob, Scanning
  <2>1. Typed'
    <3>1. i # TASK_CNT /\ j + 1 \in Nat /\ j + 1 <= numOfPeriods[i]
      BY <1>0, JobLeft
    <3>. QED  BY <1>0, <3>1 DEF Typed, input, results
  <2>2. MissedSoFar'
    BY <1>0, InputStays DEF MissedSoFar, results
  <2>3. BrokenSoFar'
    <3>1. j \in Nat /\ prevoius_solved \in Nat /\ LastMiss(i, j, prevoius_solved)
      BY <1>0 DEF Typed, BrokenSoFar
    <3>2. LastMiss(i, j + 1, prevoius_solved + 1) /\ Misses(i, j + 1) = Misses(i, j)
      BY <1>0, <3>1, LastMissMoves, OneMoreJob
    <3>. QED  BY <1>0, <3>1, <3>2, InputStays DEF BrokenSoFar, input, results
  <2>. QED  BY <2>1, <2>2, <2>3 DEF IInv, RowWritten
<1>6. CASE MissedJob
  <2> USE <1>6 DEF MissedJob, Scanning
  <2>1. Typed'
    <3>1. i # TASK_CNT /\ j + 1 \in Nat /\ j + 1 <= numOfPeriods[i]
      BY <1>0, JobLeft
    <3>. QED  BY <1>0, <3>1 DEF Typed, input, results
  <2>2. MissedSoFar'
    BY <1>0, InputStays DEF MissedSoFar, results
  <2>3. BrokenSoFar'
    <3>1. j \in Nat /\ prevoius_solved \in Nat /\ LastMiss(i, j, prevoius_solved)
      BY <1>0 DEF Typed, BrokenSoFar
    <3>2. LastMiss(i, j + 1, 0)
      BY <1>0, <3>1, LastMissMoves
    <3>3. cnt' = Cardinality(TooSoon(i, Misses(i, j + 1)))
      <4>1. cnt = Cardinality(TooSoon(i, Misses(i, j)))
        BY <1>0 DEF BrokenSoFar
      <4>2. /\ IsFiniteSet(TooSoon(i, Misses(i, j))) /\ j \notin TooSoon(i, Misses(i, j))
        BY <1>0, <3>1, OneMoreJob DEF TooSoon
      <4>3. CASE prevoius_solved < weakly_hard_constraint[i] - 1
        <5>1. TooSoon(i, Misses(i, j + 1)) = TooSoon(i, Misses(i, j)) \cup {j}
          BY <1>0, <3>1, <4>3, MissTooSoon
        <5>. QED  BY <4>1, <4>2, <4>3, <5>1, FS_AddElement
      <4>4. CASE ~(prevoius_solved < weakly_hard_constraint[i] - 1)
        <5>1. TooSoon(i, Misses(i, j + 1)) = TooSoon(i, Misses(i, j))
          <6>1. TooSoon(i, Misses(i, j + 1)) = TooSoon(i, Misses(i, j)) \cup {}
            BY <1>0, <3>1, <4>4, MissTooSoon
          <6>. QED  BY <6>1
        <5>. QED  BY <4>1, <4>4, <5>1
      <4>. QED  BY <4>3, <4>4
    <3>. QED  BY <1>0, <3>2, <3>3, InputStays DEF BrokenSoFar, input, results, Restarted
  <2>. QED  BY <2>1, <2>2, <2>3 DEF IInv, RowWritten
<1>7. CASE StoreBroken
  <2> USE <1>7 DEF StoreBroken
  <2>1. Typed'
    BY <1>0, <1>1, NextTaskStarts DEF Typed, input
  <2>2. MissedSoFar'
    BY <1>0, InputStays DEF MissedSoFar
  <2>3. BrokenSoFar'
    <3>1. cnt = Cardinality(TooSoon(i, AllMisses(i)))
      BY <1>0 DEF BrokenSoFar, LastJobSeen, AllMisses
    <3>2. i' = i + 1 /\ j' = 0 /\ cnt' = 0
      BY <1>0, NextTaskStarts DEF NextTask
    <3>3. i' \in Ids => prevoius_solved' = weakly_hard_constraint[i']
      BY <3>2 DEF StartTask
    <3>4. ASSUME NEW k \in Ids, k < i'
          PROVE  weakly_hard_broken'[k] = Cardinality(TooSoon(k, AllMisses(k)))
      BY <1>0, <3>1, <3>4, NextTaskStarts DEF BrokenSoFar, Typed
    <3>. QED  BY <1>0, <1>1, <3>2, <3>3, <3>4, TaskStarts, InputStays DEF BrokenSoFar, input
  <2>. QED  BY <2>1, <2>2, <2>3 DEF IInv, RowWritten
<1>8. CASE writeReportInFile
  <2> USE <1>8 DEF writeReportInFile
  <2>1. Typed'
    BY <1>0, <1>1 DEF Typed, input, results
  <2>2. MissedSoFar'
    BY <1>0, InputStays DEF MissedSoFar, results
  <2>3. BrokenSoFar'
    BY <1>0, InputStays DEF BrokenSoFar, results, input, Ids
  <2>4. RowWritten'
    BY DEF RowWritten, results, input
  <2>. QED  BY <2>1, <2>2, <2>3, <2>4 DEF IInv
<1>9. CASE UNCHANGED vars
  BY <1>0, <1>9, InputStays DEF vars, results, input, IInv, Typed, MissedSoFar, BrokenSoFar, RowWritten
<1>. QED  BY <1>2, <1>3, <1>4, <1>5, <1>6, <1>7, <1>8, <1>9 DEF Next
-----------------------------------------------------------------------------
LEMMA AlwaysIInv == Spec => []IInv
  BY InitialScan, ScanKeepsIInv, PTL DEF Spec

(* The sum of the sizes of sets of jobs, one set for every task.           *)
LEMMA LineCounts ==
  ASSUME NEW f, NEW g \in [Ids -> Nat], NEW bound \in [Ids -> Nat],
         \A k \in Ids : /\ IsFiniteSet(f[k]) /\ g[k] = Cardinality(f[k])
                        /\ g[k] <= bound[k]
  PROVE  /\ SumFunction(g) = Cardinality(UNION {{k} \X f[k] : k \in Ids})
         /\ SumFunction(g) <= SumFunction(bound)
<1>1. IsFiniteSet(Ids)
  BY FS_Interval, ReportAssumption DEF Ids
<1>2. /\ SumFunction(g) = SumFunctionOnSet(g, Ids)
      /\ SumFunction(bound) = SumFunctionOnSet(bound, Ids)
  BY DEF SumFunction
<1>3. SumFunctionOnSet(g, Ids) = Cardinality(UNION {{k} \X f[k] : k \in Ids})
  BY <1>1, PairsCounted
<1>4. SumFunctionOnSet(g, Ids) <= SumFunctionOnSet(bound, Ids)
  <2>1. \A k \in Ids : g[k] \in Int /\ bound[k] \in Int /\ g[k] <= bound[k]
    OBVIOUS
  <2>. QED  BY <1>1, <2>1, SumMonotonic
<1>. QED  BY <1>2, <1>3, <1>4

(* MissedCounted: countMissedDeadlines stores, for every task, the number  *)
(* of jobs of the hyperperiod that have no mark in its report, and the     *)
(* line written has the number of all such jobs.                           *)
THEOREM MissedAreCounted == Spec => []MissedCounted
<1>1. IInv => MissedCounted
  <2> SUFFICES ASSUME IInv, pc = "written" PROVE MissedCounted
    BY DEF MissedCounted
  <2> DEFINE f == [k \in Ids |-> AllMisses(k)]
  <2>1. Typed /\ RowWritten /\ \A k \in Ids : missed_deadlines[k] = Cardinality(AllMisses(k))
    BY DEF IInv, MissedSoFar
  <2>2. ASSUME NEW k \in Ids
        PROVE  IsFiniteSet(AllMisses(k)) /\ missed_deadlines[k] <= numOfPeriods[k]
    <3> DEFINE n == numOfPeriods[k]
               jobs == 0..(n - 1)
    <3>1. n \in Nat
      BY <2>1 DEF Typed
    <3>2. AllMisses(k) \subseteq jobs /\ missed_deadlines[k] = Cardinality(AllMisses(k))
      BY <2>1 DEF AllMisses, Misses
    <3> HIDE DEF n
    <3>3. IsFiniteSet(jobs) /\ Cardinality(jobs) = n
      <4>1. n - 1 \in Int /\ (n - 1) - 0 + 1 = n /\ (0 > n - 1 => n = 0)
        BY <3>1
      <4>. QED  BY <4>1, FS_Interval
    <3> HIDE DEF jobs
    <3>4. IsFiniteSet(AllMisses(k)) /\ Cardinality(AllMisses(k)) <= Cardinality(jobs)
      BY <3>2, <3>3, FS_Subset
    <3>. QED  BY <3>2, <3>3, <3>4 DEF n
  <2>3. UNION {{k} \X f[k] : k \in Ids} = UNION {{k} \X AllMisses(k) : k \in Ids}
    OBVIOUS
  <2>4. \A k \in Ids : /\ IsFiniteSet(f[k]) /\ missed_deadlines[k] = Cardinality(f[k])
                       /\ missed_deadlines[k] <= numOfPeriods[k]
    BY <2>1, <2>2
  <2>5. missed_deadlines \in [Ids -> Nat] /\ numOfPeriods \in [Ids -> Nat]
    BY <2>1 DEF Typed
  <2> HIDE DEF f
  <2>6. /\ SumFunction(missed_deadlines) = Cardinality(UNION {{k} \X f[k] : k \in Ids})
        /\ SumFunction(missed_deadlines) <= SumFunction(numOfPeriods)
    BY <2>4, <2>5, LineCounts
  <2>7. row.missed = SumFunction(missed_deadlines) /\ row.jobs = SumFunction(numOfPeriods)
    BY <2>1 DEF RowWritten
  <2>. QED  BY <2>1, <2>3, <2>6, <2>7 DEF MissedCounted
<1>. QED  BY <1>1, AlwaysIInv, PTL

(* SoftBreaksCounted: countWeaklyHardBroken, with nothing but the number   *)
(* of jobs met since the last miss, stores the number of misses that came  *)
(* fewer than n jobs after another, for every task that may miss one job   *)
(* in n, and none for the others; the line has the number of all of them.  *)
THEOREM SoftBreaksAreCounted == Spec => []SoftBreaksCounted
<1>1. IInv => SoftBreaksCounted
  <2> SUFFICES ASSUME IInv, pc = "written" PROVE SoftBreaksCounted
    BY DEF SoftBreaksCounted
  <2> DEFINE f == [k \in Ids |-> TooSoon(k, AllMisses(k))]
  <2>1. /\ Typed /\ RowWritten
        /\ \A k \in Ids : /\ weakly_hard_broken[k] = Cardinality(TooSoon(k, AllMisses(k)))
                          /\ missed_deadlines[k] = Cardinality(AllMisses(k))
    BY DEF IInv, MissedSoFar, BrokenSoFar
  <2>2. ASSUME NEW k \in Ids
        PROVE  /\ IsFiniteSet(TooSoon(k, AllMisses(k)))
               /\ weakly_hard_broken[k] <= missed_deadlines[k]
    <3>1. IsFiniteSet(AllMisses(k))
      BY <2>1, OneMoreJob DEF AllMisses, Typed
    <3>2. TooSoon(k, AllMisses(k)) \subseteq AllMisses(k)
      BY DEF TooSoon
    <3>. QED  BY <2>1, <3>1, <3>2, FS_Subset
  <2>3. UNION {{k} \X f[k] : k \in Ids} = UNION {{k} \X TooSoon(k, AllMisses(k)) : k \in Ids}
    OBVIOUS
  <2>4. \A k \in Ids : /\ IsFiniteSet(f[k]) /\ weakly_hard_broken[k] = Cardinality(f[k])
                       /\ weakly_hard_broken[k] <= missed_deadlines[k]
    BY <2>1, <2>2
  <2>5. missed_deadlines \in [Ids -> Nat] /\ weakly_hard_broken \in [Ids -> Nat]
    BY <2>1 DEF Typed
  <2> HIDE DEF f
  <2>6. /\ SumFunction(weakly_hard_broken) = Cardinality(UNION {{k} \X f[k] : k \in Ids})
        /\ SumFunction(weakly_hard_broken) <= SumFunction(missed_deadlines)
    BY <2>4, <2>5, LineCounts
  <2>7. row.broken = SumFunction(weakly_hard_broken) /\ row.missed = SumFunction(missed_deadlines)
    BY <2>1 DEF RowWritten
  <2>. QED  BY <2>1, <2>3, <2>6, <2>7 DEF SoftBreaksCounted
<1>. QED  BY <1>1, AlwaysIInv, PTL
=============================================================================
