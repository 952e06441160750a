-------------------------- MODULE MCPeriodicKernel --------------------------
(***************************************************************************)
(* Small instances of PeriodicKernel for TLC.  The order of the ids is the *)
(* order of creation, so the task sets are not taken up to permutation.    *)
(***************************************************************************)
EXTENDS PeriodicKernel

CONSTANTS Periods, Constraints, MinUtilization, MaxUtilization

MCTasks == {1, 2, 3}
MCUninit == {0, 60}

Instances == INSTANCE SmallTaskSets

MCTaskSets == {ts \in Instances!AllTaskSets : Instances!Utilization(ts) \in MinUtilization..MaxUtilization}
=============================================================================
