------------------------ MODULE MCPeriodicScheduler ------------------------
(***************************************************************************)
(* Small instances of PeriodicScheduler for TLC.  No definition depends on *)
(* the names of the tasks, so the task sets are taken up to permutation.   *)
(***************************************************************************)
EXTENDS PeriodicScheduler

CONSTANTS Periods, Constraints, MaxUtilization

MCTasks == {1, 2}
MCThreeTasks == {1, 2, 3}
MCUninit == {0}
MCIndeterminate == {0, 60}
Instances == INSTANCE SmallTaskSets

MCTaskSets == {ts \in Instances!UnnamedTaskSets : Instances!Utilization(ts) <= MaxUtilization}
=============================================================================
