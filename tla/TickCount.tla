------------------------------ MODULE TickCount ------------------------------
(***************************************************************************)
(* The tick count of the kernel, an unsigned integer that wraps around.    *)
(* The modules about time share it.                                        *)
(***************************************************************************)
EXTENDS Integers

CONSTANT TickModulus   \* the tick count wraps around to 0 at this value

ASSUME TickAssumption == TickModulus \in Nat \ {0, 1}

portMAX_DELAY == TickModulus - 1
TickType == 0..portMAX_DELAY

VARIABLE xTickCount

(* xTaskIncrementTick: the tick count after the next tick.                 *)
count == IF xTickCount = portMAX_DELAY THEN 0 ELSE xTickCount + 1
=============================================================================
