----------------------------- MODULE KernelTime -----------------------------
(***************************************************************************)
(* The three readers of the tick count, for TLC: the delayed lists, a time *)
(* out and a task that paces itself.  They share nothing but the count, so *)
(* each is checked while the other two stand still; reader says which one  *)
(* moves.                                                                  *)
(***************************************************************************)
EXTENDS DelayedTasks, TimeOut, DelayUntil

VARIABLE reader

listVars == <<xNextTaskUnblockTime, list, xItemValue, events, section, pended, resetDue>>
lookVars == <<xNumOfOverflows, timeOut, xTicksToWait, ucDelayAborted, xReturn, waited, left>>
paceVars == <<xPreviousWakeTime, waits, ahead>>
kernelTimeVars == <<xTickCount, listVars, lookVars, paceVars, reader>>

KernelTimeInit ==
  /\ Init /\ TimeOutInit /\ DelayUntilInit
  /\ reader \in {"lists", "timeOut", "delayUntil"}
  /\ reader # "timeOut" => xTicksToWait = 0 /\ xTickCount = portMAX_DELAY

ListsMove == reader = "lists" /\ Next /\ UNCHANGED <<lookVars, paceVars>>
TimeOutMoves == reader = "timeOut" /\ TimeOutNext /\ UNCHANGED <<listVars, paceVars>>
DelayUntilMoves == reader = "delayUntil" /\ DelayUntilNext /\ UNCHANGED <<listVars, lookVars>>

KernelTimeNext == (ListsMove \/ TimeOutMoves \/ DelayUntilMoves) /\ UNCHANGED reader

(* The timer keeps ticking, and a task that has suspended the scheduler    *)
(* gets to resume it.                                                      *)
KernelTimeSpec ==
  /\ KernelTimeInit /\ [][KernelTimeNext]_kernelTimeVars
  /\ WF_vars(reader = "lists" /\ xTaskIncrementTick)
  /\ WF_vars(reader = "lists" /\ xTaskResumeAll)
  /\ WF_vars(reader = "lists" /\ ReplayTick)
  /\ WF_vars(reader = "lists" /\ \E n \in 1..MaxPended : PendedTicksWritten(n))
-----------------------------------------------------------------------------
(* No sum or difference of tick counts leaves their range.                 *)
KernelTimeTypeOK == TypeOK /\ TimeOutTypeOK /\ DelayUntilTypeOK
=============================================================================
