----------------------------- MODULE TimedWaits -----------------------------
(***************************************************************************)
(* What the kernel promises of a task that blocks for a number of ticks:   *)
(* it waits until that many ticks have been counted, not one more and not  *)
(* one less, unless something else releases it first.  The number is below *)
(* TickModulus, at which the tick count wraps around.                      *)
(***************************************************************************)
EXTENDS Integers

CONSTANTS Tasks, TickModulus

VARIABLES
  now,          \* the tick count
  remaining     \* ticks each task still waits, 0 if it does not

vars == <<now, remaining>>

Init == now \in 0..(TickModulus - 1) /\ remaining = [t \in Tasks |-> 0]

Wait(t, n) == /\ remaining[t] = 0
              /\ remaining' = [remaining EXCEPT ![t] = n]
              /\ UNCHANGED now

Tick == /\ now' = IF now = TickModulus - 1 THEN 0 ELSE now + 1
        /\ remaining' = [t \in Tasks |-> IF remaining[t] = 0 THEN 0
                                         ELSE remaining[t] - 1]

Release(R) == /\ remaining' = [t \in Tasks |-> IF t \in R THEN 0 ELSE remaining[t]]
              /\ UNCHANGED now

Next == \/ \E t \in Tasks, n \in 1..(TickModulus - 1) : Wait(t, n)
        \/ Tick
        \/ \E R \in SUBSET Tasks : Release(R)

Spec == Init /\ [][Next]_vars
=============================================================================
