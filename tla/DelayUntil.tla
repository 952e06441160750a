----------------------------- MODULE DelayUntil -----------------------------
(***************************************************************************)
(* One task that paces itself with xTaskDelayUntil, over a tick count that *)
(* wraps around.  ahead is how far, on a clock that never wraps, the wake  *)
(* time it keeps lies ahead of now: at most 0 when a cycle has run its     *)
(* course, above 0 if the last wait was cut short.                         *)
(***************************************************************************)
EXTENDS TickCount

VARIABLES
  xPreviousWakeTime,   \* *pxPreviousWakeTime
  waits,               \* ticks the task still waits, 0 while it runs
  ahead

delayUntilVars == <<xTickCount, xPreviousWakeTime, waits, ahead>>

DelayUntilTypeOK ==
  /\ xTickCount \in TickType /\ xPreviousWakeTime \in TickType
  /\ waits \in TickType
  /\ ahead \in -portMAX_DELAY..portMAX_DELAY

(* xLastWakeTime = xTaskGetTickCount()                                     *)
DelayUntilInit ==
  /\ xTickCount \in TickType /\ xPreviousWakeTime = xTickCount
  /\ waits = 0 /\ ahead = 0
-----------------------------------------------------------------------------
(* xTaskDelayUntil                                                         *)
Unsigned(n) == IF n < 0 THEN n + TickModulus
               ELSE IF n >= TickModulus THEN n - TickModulus ELSE n

TimeToWake(increment) == Unsigned(xPreviousWakeTime + increment)

ComparedOnly(wake) == wake > xTickCount
ShouldDelay(wake) ==
  IF xTickCount < xPreviousWakeTime
  THEN wake < xPreviousWakeTime /\ wake > xTickCount
  ELSE wake < xPreviousWakeTime \/ wake > xTickCount

xTaskDelayUntil(increment) ==
  /\ waits = 0
  /\ ahead + increment <= portMAX_DELAY       \* bound
  /\ LET wake == TimeToWake(increment)
     IN  /\ xPreviousWakeTime' = wake
         /\ waits' = IF ShouldDelay(wake) THEN Unsigned(wake - xTickCount) ELSE 0
  /\ ahead' = ahead + increment
  /\ UNCHANGED xTickCount

(* The tick.  Bound: the task is late by less than a turn of the count.    *)
DelayUntilTick ==
  /\ ahead > -portMAX_DELAY
  /\ xTickCount' = count
  /\ waits' = IF waits = 0 THEN 0 ELSE waits - 1
  /\ ahead' = ahead - 1
  /\ UNCHANGED xPreviousWakeTime

(* xTaskAbortDelay of the task, or vTaskSuspend and vTaskResume.           *)
CutShort == /\ waits > 0
            /\ waits' = 0
            /\ UNCHANGED <<xTickCount, xPreviousWakeTime, ahead>>

DelayUntilNext ==
  \/ \E increment \in 1..portMAX_DELAY : xTaskDelayUntil(increment)
  \/ DelayUntilTick \/ CutShort

DelayUntilSpec == DelayUntilInit /\ [][DelayUntilNext]_delayUntilVars
-----------------------------------------------------------------------------
OnTime == waits' = IF ahead' > 0 THEN ahead' ELSE 0

(* A task none of whose waits was cut short, however late it is and        *)
(* wherever the tick count wraps, waits exactly until the time it asked    *)
(* for, and not at all if that is past.                                    *)
DelaysToSchedule ==
  [][\A n \in 1..portMAX_DELAY : xTaskDelayUntil(n) /\ ahead <= 0 => OnTime]_delayUntilVars
=============================================================================
