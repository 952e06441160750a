------------------------------ MODULE TimeOut ------------------------------
(***************************************************************************)
(* One time out of the kernel (TimeOut_t): the two numbers a task captures *)
(* when a blocking call is entered, and the arithmetic by which            *)
(* xTaskCheckForTimeOut finds, in a tick count that wraps around, how much *)
(* of the block time is left.  left is what the call should find: the      *)
(* ticks that are really left.  waited counts the ticks since the capture; *)
(* a task looks at its time out at least every MaxGap ticks.               *)
(***************************************************************************)
EXTENDS TickCount

CONSTANTS
  OverflowModulus,    \* the number of wraps of the tick count wraps at this value
  MaxGap              \* bound: the ticks between two looks at the time out

ASSUME TimeOutAssumption ==
  OverflowModulus \in Nat \ {0, 1} /\ MaxGap \in Nat

VARIABLES
  xNumOfOverflows,                   \* of the kernel's tick count
  xTimeOnEntering, xOverflowCount,   \* pxTimeOut
  xTicksToWait,                      \* *pxTicksToWait
  ucDelayAborted,
  xReturn,                           \* "unasked", pdTRUE or pdFALSE
  waited, left

timeOut == <<xTimeOnEntering, xOverflowCount>>
timeOutVars == <<xTickCount, xNumOfOverflows, timeOut, xTicksToWait, ucDelayAborted,
                 xReturn, waited, left>>

TimeOutTypeOK ==
  /\ xTickCount \in TickType /\ xTimeOnEntering \in TickType
  /\ xNumOfOverflows \in 0..(OverflowModulus - 1)
  /\ xOverflowCount \in 0..(OverflowModulus - 1)
  /\ xTicksToWait \in TickType /\ left \in TickType
  /\ ucDelayAborted \in BOOLEAN
  /\ xReturn \in {"unasked", "pdTRUE", "pdFALSE"}
  /\ waited \in 0..MaxGap

(* A block time of portMAX_DELAY never ends.                               *)
Forever == xTicksToWait = portMAX_DELAY
-----------------------------------------------------------------------------
(* vTaskInternalSetTimeOutState.                                           *)
CapturedTickOnly == /\ xTimeOnEntering' = xTickCount
                    /\ UNCHANGED xOverflowCount
Captured == /\ xTimeOnEntering' = xTickCount
            /\ xOverflowCount' = xNumOfOverflows

TimeOutInit ==
  /\ xTickCount \in TickType /\ xNumOfOverflows = 0
  /\ xTimeOnEntering = xTickCount /\ xOverflowCount = 0
  /\ xTicksToWait \in TickType /\ left = xTicksToWait
  /\ ucDelayAborted = FALSE /\ xReturn = "unasked" /\ waited = 0

(* A blocking call begins.                                                 *)
vTaskSetTimeOutState(t) ==
  /\ Captured
  /\ xTicksToWait' = t /\ left' = t
  /\ xReturn' = "unasked" /\ waited' = 0
  /\ UNCHANGED <<xTickCount, xNumOfOverflows, ucDelayAborted>>

(* xTaskIncrementTick; taskSWITCH_DELAYED_LISTS counts the wrap.           *)
TimeOutTick ==
  /\ waited < MaxGap
  /\ waited' = waited + 1 /\ xTickCount' = count
  /\ IF xTickCount = portMAX_DELAY
     THEN xNumOfOverflows' = IF xNumOfOverflows = OverflowModulus - 1
                             THEN 0 ELSE xNumOfOverflows + 1
     ELSE UNCHANGED xNumOfOverflows
  /\ left' = IF left = 0 \/ Forever THEN left ELSE left - 1
  /\ xReturn' = "unasked"
  /\ UNCHANGED <<timeOut, xTicksToWait, ucDelayAborted>>

(* xTaskAbortDelay of the task, while it is blocked.                       *)
AbortWait ==
  /\ ucDelayAborted' = TRUE
  /\ xReturn' = "unasked"
  /\ UNCHANGED <<xTickCount, xNumOfOverflows, timeOut, xTicksToWait, waited, left>>

(* prvAddCurrentTaskToDelayedList: the next time the task blocks.          *)
BlocksAgain ==
  /\ ucDelayAborted' = FALSE
  /\ xReturn' = "unasked"
  /\ UNCHANGED <<xTickCount, xNumOfOverflows, timeOut, xTicksToWait, waited, left>>
-----------------------------------------------------------------------------
(* xTaskCheckForTimeOut.  The subtraction is of unsigned integers.         *)
xElapsedTime == IF xTickCount >= xTimeOnEntering
                THEN xTickCount - xTimeOnEntering
                ELSE xTickCount - xTimeOnEntering + TickModulus

NeverAround == FALSE
AllTheWayAround == xNumOfOverflows # xOverflowCount /\ xTickCount >= xTimeOnEntering

TimeRemains == xElapsedTime < xTicksToWait

Aborted ==
  /\ ucDelayAborted
  /\ ucDelayAborted' = FALSE /\ xReturn' = "pdTRUE"
  /\ UNCHANGED <<timeOut, xTicksToWait, waited>>

NeverTimesOut ==
  /\ ~ucDelayAborted /\ Forever
  /\ xReturn' = "pdFALSE"
  /\ UNCHANGED <<timeOut, xTicksToWait, ucDelayAborted, waited>>

NotYet ==
  /\ ~ucDelayAborted /\ ~Forever /\ ~AllTheWayAround /\ TimeRemains
  /\ xTicksToWait' = xTicksToWait - xElapsedTime
  /\ Captured /\ waited' = 0
  /\ xReturn' = "pdFALSE"
  /\ UNCHANGED ucDelayAborted

TimedOut ==
  /\ ~ucDelayAborted /\ ~Forever
  /\ AllTheWayAround \/ ~TimeRemains
  /\ xTicksToWait' = 0 /\ xReturn' = "pdTRUE"
  /\ UNCHANGED <<timeOut, ucDelayAborted, waited>>

xTaskCheckForTimeOut ==
  /\ Aborted \/ NeverTimesOut \/ NotYet \/ TimedOut
  /\ UNCHANGED <<xTickCount, xNumOfOverflows, left>>

TimeOutNext ==
  \/ \E t \in TickType : vTaskSetTimeOutState(t)
  \/ TimeOutTick
  \/ AbortWait \/ BlocksAgain
  \/ xTaskCheckForTimeOut

TimeOutSpec == TimeOutInit /\ [][TimeOutNext]_timeOutVars
-----------------------------------------------------------------------------
(* Over any number of looks at it, with wraps of the tick count between    *)
(* them, a time out never ends late and its remainder is exact.            *)
NeverLate == xReturn = "pdFALSE" /\ ~Forever => left > 0 /\ xTicksToWait = left

(* Nor does it end early: a look that ends the wait finds no tick left,    *)
(* unless the wait was aborted.                                            *)
EndsOnlyInTime ==
  [][xReturn' = "pdTRUE" => ucDelayAborted \/ (left = 0 /\ ~Forever)]_timeOutVars
=============================================================================
