-------------------------- MODULE KernelTimeProofs --------------------------
(***************************************************************************)
(* Proofs about the three readers of the tick count, for every width of    *)
(* the count and any number of tasks: each about its own specification,    *)
(* and at the end that the three can be put together.                      *)
(***************************************************************************)
EXTENDS KernelTime, WellFoundedInduction, TLAPS
-----------------------------------------------------------------------------
(* The delayed lists keep every timed wait, for any number of tasks and    *)
(* any width of the tick count.  What makes it inductive is that the two   *)
(* lists split the time: the delayed tasks wake after the current tick,    *)
(* those of the overflow list before it, on the next turn of the count.    *)
OverflowWakesAfterWrap == \A t \in Members(list, "overflow") : xItemValue[t] < xTickCount

(* The running task is ready until it has placed itself in another list,   *)
(* and ticks are replayed only while some are left.                        *)
SectionConsistent ==
  /\ pc \in {"suspended", "catchUp"} /\ caller \in Tasks => list[caller] = "ready"
  /\ pc = "replay" => xPendedCounts > 0

ListsIInv == TypeOK /\ NoTaskPassedBy /\ OverflowWakesAfterWrap /\ SectionConsistent
-----------------------------------------------------------------------------
(* A set of times has a least one: the head of a sorted list.              *)
LEMMA LeastTime ==
  ASSUME NEW S \in SUBSET Nat, S # {}
  PROVE  Min(S) \in S /\ \A y \in S : Min(S) <= y
<1> DEFINE R == {ss \in Nat \X Nat : ss[1] < ss[2]}
<1>1. IsWellFoundedOn(R, Nat)
  BY NatLessThanWellFounded DEF OpToRel
<1>2. \E x \in S : \A y \in S : <<y, x>> \notin R
  <2> HIDE DEF R
  <2> QED
    BY <1>1, WFMin
<1>3. PICK x \in S : \A y \in S : <<y, x>> \notin R
  BY <1>2
<1>4. \A y \in S : <<y, x>> \in R <=> y < x
  OBVIOUS
<1>5. \A y \in S : ~(y < x)
  <2> HIDE DEF R
  <2> QED
    BY <1>3, <1>4
<1>6. \A y \in S : x <= y
  BY <1>5
<1> QED
  BY <1>6 DEF Min

(* prvResetNextTaskUnblockTime finds a time no task of the list precedes.  *)
LEMMA HeadComesFirst ==
  ASSUME TypeOK, NEW D \in SUBSET Tasks
  PROVE  HeadTime(D) \in TickType /\ \A t \in D : HeadTime(D) <= xItemValue[t]
<1> DEFINE S == {xItemValue[t] : t \in D}
<1>1. S \in SUBSET TickType /\ TickType \in SUBSET Nat
  BY DelayAssumption, TickAssumption DEF TypeOK, TickType, portMAX_DELAY
<1>2. CASE D = {}
  BY <1>2, DelayAssumption, TickAssumption DEF HeadTime, TickType, portMAX_DELAY
<1>3. CASE D # {}
  <2>1. S # {} /\ HeadTime(D) = Min(S)
    BY <1>3 DEF HeadTime
  <2>2. Min(S) \in S /\ \A y \in S : Min(S) <= y
    BY <1>1, <2>1, LeastTime
  <2> QED
    BY <1>1, <2>1, <2>2
<1> QED
  BY <1>2, <1>3

(* The operators of a step return what they should.                        *)
LEMMA NextCount ==
  ASSUME TypeOK
  PROVE  /\ count \in TickType
         /\ xTickCount = portMAX_DELAY => count = 0
         /\ xTickCount # portMAX_DELAY => count = xTickCount + 1
BY DelayAssumption, TickAssumption DEF TypeOK, TickType, portMAX_DELAY, count

LEMMA WakeTimeWraps ==
  ASSUME TypeOK, NEW n \in 1..portMAX_DELAY
  PROVE  /\ WakeTime(n) \in TickType
         /\ WakeTime(n) >= xTickCount => WakeTime(n) = xTickCount + n
         /\ WakeTime(n) < xTickCount => WakeTime(n) = xTickCount + n - TickModulus
<1> USE DelayAssumption, TickAssumption DEF TypeOK, TickType, portMAX_DELAY, WakeTime
<1>1. CASE xTickCount + n < TickModulus
  <2>1. WakeTime(n) = xTickCount + n
    BY <1>1
  <2> QED
    BY <2>1, <1>1
<1>2. CASE xTickCount + n >= TickModulus
  <2>1. (xTickCount + n) - TickModulus \in 0..(TickModulus - 1)
    BY <1>2
  <2>2. (xTickCount + n) % TickModulus = (xTickCount + n) - TickModulus
    BY <2>1
  <2>3. xTickCount + n - TickModulus < xTickCount
    OBVIOUS
  <2> QED
    BY <2>1, <2>2, <2>3
<1> QED
  BY <1>1, <1>2
-----------------------------------------------------------------------------
(* After the lists have changed places, if they do, the two still split    *)
(* the time at the new tick count, and nothing is behind the unblock time. *)
LEMMA SwitchKeepsSplit ==
  ASSUME TypeOK, NoTaskPassedBy, OverflowWakesAfterWrap
  PROVE  /\ ListsAfterWrap \in [Tasks -> Lists] /\ UnblockTimeAfterWrap \in TickType
         /\ \A t \in Members(ListsAfterWrap, "delayed") :
              count <= xItemValue[t] /\ UnblockTimeAfterWrap <= xItemValue[t]
         /\ \A t \in Members(ListsAfterWrap, "overflow") : xItemValue[t] < count
<1> USE DelayAssumption, TickAssumption DEF TickType, portMAX_DELAY
<1>1. CASE xTickCount = portMAX_DELAY
  <2>1. count = 0
    BY <1>1, NextCount
  <2>2. Members(list, "delayed") = {}
    BY <1>1 DEF NoTaskPassedBy, Members, TypeOK
  <2>3. ListsSwitched \in [Tasks -> Lists]
    BY DEF ListsSwitched, TypeOK, Lists
  <2>4. Members(ListsSwitched, "overflow") = {}
    BY <2>2 DEF Members, ListsSwitched, TypeOK, Lists
  <2>5. Members(ListsSwitched, "delayed") \in SUBSET Tasks
    BY DEF Members
  <2>6. \A t \in Tasks : 0 <= xItemValue[t]
    BY DEF TypeOK
  <2> QED
    BY <2>1, <2>3, <2>4, <2>5, <2>6, HeadComesFirst DEF ListsAfterWrap, UnblockTimeAfterWrap, Members
<1>2. CASE xTickCount # portMAX_DELAY
  <2>1. count = xTickCount + 1 /\ count # 0
    BY <1>2, NextCount DEF TypeOK
  <2>2. ListsAfterWrap = list /\ UnblockTimeAfterWrap = xNextTaskUnblockTime
    BY <2>1 DEF ListsAfterWrap, UnblockTimeAfterWrap
  <2> QED
    BY <2>1, <2>2 DEF NoTaskPassedBy, OverflowWakesAfterWrap, Members, TypeOK
<1> QED
  BY <1>1, <1>2

(* The tick wakes exactly the tasks whose time is the new tick count.      *)
LEMMA DueAtCount ==
  ASSUME TypeOK, NoTaskPassedBy, OverflowWakesAfterWrap
  PROVE  Due = {t \in Members(ListsAfterWrap, "delayed") : xItemValue[t] = count}
<1>1. \A t \in Members(ListsAfterWrap, "delayed") :
        xItemValue[t] \in Int /\ count <= xItemValue[t] /\ UnblockTimeAfterWrap <= xItemValue[t]
  BY SwitchKeepsSplit DEF Members, TypeOK, TickType, portMAX_DELAY
<1>2. count \in Int /\ UnblockTimeAfterWrap \in Int
  BY SwitchKeepsSplit, NextCount, DelayAssumption, TickAssumption DEF TickType, portMAX_DELAY
<1>3. CASE count >= UnblockTimeAfterWrap
  <2>1. Due = {t \in Members(ListsAfterWrap, "delayed") : xItemValue[t] <= count}
    BY <1>3 DEF Due
  <2> QED
    BY <2>1, <1>1, <1>2
<1>4. CASE ~(count >= UnblockTimeAfterWrap)
  <2>1. Due = {}
    BY <1>4 DEF Due
  <2>2. \A t \in Members(ListsAfterWrap, "delayed") : xItemValue[t] # count
    BY <1>1, <1>2, <1>4
  <2> QED
    BY <2>1, <2>2
<1> QED
  BY <1>3, <1>4

(* A tick keeps the split, and takes one tick off every wait.              *)
LEMMA TickIsATick ==
  ASSUME TypeOK, NoTaskPassedBy, OverflowWakesAfterWrap, IncrementTick
  PROVE  /\ xTickCount' \in TickType /\ xNextTaskUnblockTime' \in TickType
         /\ list' \in [Tasks -> Lists] /\ onEventList' \subseteq Tasks
         /\ NoTaskPassedBy' /\ OverflowWakesAfterWrap'
         /\ Waits!Tick
<1> DEFINE D == Members(ListsAfterWrap, "delayed")
<1>1. /\ xTickCount' = count /\ count \in TickType /\ UNCHANGED xItemValue
      /\ ListsAfterWrap \in [Tasks -> Lists]
      /\ list' = [t \in Tasks |-> IF t \in Due THEN "ready" ELSE ListsAfterWrap[t]]
  BY NextCount, SwitchKeepsSplit DEF IncrementTick
<1>2. list' \in [Tasks -> Lists] /\ onEventList' \subseteq Tasks
  BY <1>1 DEF Lists, IncrementTick, TypeOK
<1>3. Members(list, "delayed")' = D \ Due /\ Members(list, "overflow")' = Members(ListsAfterWrap, "overflow")
  BY <1>1, DueAtCount DEF Members
<1>4. xNextTaskUnblockTime' \in TickType /\ \A t \in D \ Due : xNextTaskUnblockTime' <= xItemValue[t]
  <2>1. CASE count >= UnblockTimeAfterWrap
    <3>1. xNextTaskUnblockTime' = HeadTime(D \ Due)
      BY <2>1 DEF IncrementTick
    <3>2. D \ Due \in SUBSET Tasks
      BY DEF Members
    <3> QED
      BY <3>1, <3>2, HeadComesFirst
  <2>2. CASE ~(count >= UnblockTimeAfterWrap)
    <3>1. xNextTaskUnblockTime' = UnblockTimeAfterWrap
      BY <2>2 DEF IncrementTick
    <3> QED
      BY <3>1, SwitchKeepsSplit
  <2> QED
    BY <2>1, <2>2
<1>5. \A t \in D \ Due : count < xItemValue[t]
  <2>1. \A t \in D : count <= xItemValue[t]
    BY SwitchKeepsSplit
  <2>2. \A t \in D \ Due : xItemValue[t] # count
    BY DueAtCount
  <2>3. count \in Int /\ \A t \in D : xItemValue[t] \in Int
    BY <1>1, DelayAssumption, TickAssumption DEF Members, TypeOK, TickType, portMAX_DELAY
  <2> QED
    BY <2>1, <2>2, <2>3
<1>6. NoTaskPassedBy'
  BY <1>1, <1>3, <1>4, <1>5 DEF NoTaskPassedBy
<1>7. OverflowWakesAfterWrap'
  BY <1>1, <1>3, SwitchKeepsSplit DEF OverflowWakesAfterWrap
<1>8. Waits!Tick
  <2>1. xTickCount' = IF xTickCount = TickModulus - 1 THEN 0 ELSE xTickCount + 1
    BY <1>1 DEF count, portMAX_DELAY
  <2>2. ASSUME NEW t \in Tasks
        PROVE  ticksLeft'[t] = IF ticksLeft[t] = 0 THEN 0 ELSE ticksLeft[t] - 1
    <3> USE DelayAssumption, TickAssumption DEF TickType, portMAX_DELAY, ticksLeft
    <3>1. xItemValue[t] \in TickType /\ xTickCount \in TickType
      BY DEF TypeOK
    <3>2. CASE xTickCount = portMAX_DELAY
      <4>1. count = 0 /\ ListsAfterWrap = ListsSwitched
        BY <3>2, NextCount DEF ListsAfterWrap
      <4>2. list[t] # "delayed"
        BY <3>1, <3>2 DEF NoTaskPassedBy, Members
      <4>3. CASE list[t] = "overflow"
        <5>1. t \in D /\ ticksLeft[t] = xItemValue[t] + 1
          BY <4>1, <4>3, <3>1, <3>2 DEF ListsSwitched, Members
        <5>2. CASE xItemValue[t] = 0
          <6>1. t \in Due
            BY <5>1, <5>2, <4>1, DueAtCount
          <6> QED
            BY <6>1, <5>1, <5>2, <1>1
        <5>3. CASE xItemValue[t] # 0
          <6>1. t \notin Due
            BY <5>3, <4>1, DueAtCount
          <6>2. list'[t] = "delayed"
            BY <6>1, <5>1, <1>1 DEF Members
          <6> QED
            BY <6>2, <5>1, <1>1, <4>1, <3>1
        <5> QED
          BY <5>2, <5>3
      <4>4. CASE list[t] # "overflow"
        <5>1. ListsSwitched[t] = list[t]
          BY <4>2, <4>4 DEF ListsSwitched
        <5>2. list'[t] \notin {"delayed", "overflow"}
          BY <5>1, <4>1, <4>2, <4>4, <1>1
        <5> QED
          BY <5>2, <4>2, <4>4
      <4> QED
        BY <4>3, <4>4
    <3>3. CASE xTickCount # portMAX_DELAY
      <4>1. count = xTickCount + 1 /\ ListsAfterWrap = list
        BY <3>1, <3>3, NextCount DEF ListsAfterWrap
      <4>2. CASE list[t] = "delayed"
        <5>1. t \in D /\ xTickCount < xItemValue[t]
          BY <4>1, <4>2 DEF Members, NoTaskPassedBy
        <5>2. t \in Due <=> xItemValue[t] = count
          BY <5>1, DueAtCount
        <5>3. CASE xItemValue[t] = count
          BY <5>2, <5>3, <4>1, <4>2, <1>1, <3>1
        <5>4. CASE xItemValue[t] # count
          BY <5>1, <5>2, <5>4, <4>1, <4>2, <1>1, <3>1
        <5> QED
          BY <5>3, <5>4
      <4>3. CASE list[t] = "overflow"
        <5>1. t \notin Due
          BY <4>1, <4>3, DueAtCount DEF Members
        <5> QED
          BY <5>1, <4>1, <4>3, <1>1, <3>1
      <4>4. CASE list[t] \notin {"delayed", "overflow"}
        <5>1. t \notin Due
          BY <4>1, <4>4, DueAtCount DEF Members
        <5> QED
          BY <5>1, <4>1, <4>4, <1>1
      <4> QED
        BY <4>2, <4>3, <4>4
    <3> QED
      BY <3>2, <3>3
  <2>3. ticksLeft' = [t \in Tasks |-> IF ticksLeft[t] = 0 THEN 0 ELSE ticksLeft[t] - 1]
    BY <2>2 DEF ticksLeft
  <2> QED
    BY <2>1, <2>3 DEF Waits!Tick
<1> QED
  BY <1>1, <1>2, <1>4, <1>6, <1>7, <1>8
-----------------------------------------------------------------------------
(* Tasks that leave the delayed lists for another list are released.       *)
LEMMA LeavingIsARelease ==
  ASSUME TypeOK, NoTaskPassedBy, OverflowWakesAfterWrap,
         NEW R \in SUBSET Tasks, NEW name \in {"ready", "suspended"},
         list' = [t \in Tasks |-> IF t \in R THEN name ELSE list[t]],
         UNCHANGED <<xTickCount, xItemValue>>,
         \/ UNCHANGED xNextTaskUnblockTime
         \/ xNextTaskUnblockTime' = HeadTime(Members(list, "delayed") \ R)
  PROVE  /\ list' \in [Tasks -> Lists] /\ xNextTaskUnblockTime' \in TickType
         /\ NoTaskPassedBy' /\ OverflowWakesAfterWrap'
         /\ Waits!Release(R)
<1>1. list' \in [Tasks -> Lists]
  BY DEF TypeOK, Lists
<1>2. /\ Members(list, "delayed")' = Members(list, "delayed") \ R
      /\ Members(list, "overflow")' = Members(list, "overflow") \ R
  BY DEF Members, TypeOK
<1>3. xNextTaskUnblockTime' \in TickType /\ NoTaskPassedBy'
  <2>1. CASE UNCHANGED xNextTaskUnblockTime
    BY <2>1, <1>2 DEF NoTaskPassedBy, TypeOK
  <2>2. CASE xNextTaskUnblockTime' = HeadTime(Members(list, "delayed") \ R)
    <3>1. Members(list, "delayed") \ R \in SUBSET Tasks
      BY DEF Members
    <3> QED
      BY <3>1, <2>2, <1>2, HeadComesFirst DEF NoTaskPassedBy
  <2> QED
    BY <2>1, <2>2
<1>4. OverflowWakesAfterWrap'
  BY <1>2 DEF OverflowWakesAfterWrap
<1>5. Waits!Release(R)
  BY DEF Waits!Release, ticksLeft
<1> QED
  BY <1>1, <1>3, <1>4, <1>5

(* prvAddCurrentTaskToDelayedList starts a wait of the ticks it is given,  *)
(* or none if it may block for ever.                                       *)
LEMMA BlockingIsAWait ==
  ASSUME TypeOK, NoTaskPassedBy, OverflowWakesAfterWrap, SectionConsistent,
         pc = "suspended", caller # Idle,
         NEW n \in 1..portMAX_DELAY, NEW forever \in BOOLEAN,
         AddCurrentTask(n, forever), UNCHANGED xTickCount
  PROVE  /\ list' \in [Tasks -> Lists] /\ xNextTaskUnblockTime' \in TickType
         /\ xItemValue' \in [Tasks -> TickType]
         /\ NoTaskPassedBy' /\ OverflowWakesAfterWrap'
         /\ [Waits!Next]_Waits!vars
<1>1. caller \in Tasks /\ list[caller] = "ready"
  BY DEF SectionConsistent, TypeOK
<1>2. CASE n = portMAX_DELAY /\ forever
  <2>1. list' = [t \in Tasks |-> IF t \in {caller} THEN "suspended" ELSE list[t]]
    BY <1>2, <1>1 DEF AddCurrentTask, TypeOK
  <2>2. UNCHANGED <<xTickCount, xItemValue, xNextTaskUnblockTime>> /\ {caller} \in SUBSET Tasks
    BY <1>1, <1>2 DEF AddCurrentTask
  <2>3. Waits!Release({caller}) => [Waits!Next]_Waits!vars
    BY <1>1 DEF Waits!Next
  <2> QED
    BY <2>1, <2>2, <2>3, LeavingIsARelease DEF TypeOK
<1>3. CASE ~(n = portMAX_DELAY /\ forever)
  <2> DEFINE w == WakeTime(n)
  <2> USE DelayAssumption, TickAssumption DEF TickType, portMAX_DELAY
  <2>1. /\ xItemValue' = [xItemValue EXCEPT ![caller] = w]
        /\ list' = [list EXCEPT ![caller] = ListFor(w)]
        /\ xNextTaskUnblockTime' = UnblockTimeWith(w)
    BY <1>3 DEF AddCurrentTask
  <2>2. /\ w \in TickType
        /\ w >= xTickCount => w = xTickCount + n
        /\ w < xTickCount => w = xTickCount + n - TickModulus
    BY WakeTimeWraps
  <2> HIDE DEF w
  <2>3. /\ list' \in [Tasks -> Lists] /\ xItemValue' \in [Tasks -> TickType]
        /\ xNextTaskUnblockTime' \in TickType
    BY <2>1, <2>2 DEF TypeOK, Lists, ListFor, UnblockTimeWith
  <2>4. UnblockTimeWith(w) <= xNextTaskUnblockTime
    BY <2>2 DEF UnblockTimeWith, TypeOK
  <2>5. NoTaskPassedBy'
    <3> SUFFICES ASSUME NEW t \in Members(list, "delayed")'
                 PROVE  xTickCount < xItemValue'[t] /\ UnblockTimeWith(w) <= xItemValue'[t]
      BY <2>1 DEF NoTaskPassedBy
    <3>1. CASE t = caller
      <4>1. ListFor(w) = "delayed" /\ xItemValue'[t] = w
        BY <2>1, <3>1, <1>1 DEF Members, TypeOK
      <4>2. w = xTickCount + n
        BY <4>1, <2>2 DEF ListFor, TypeOK
      <4> QED
        BY <4>1, <4>2, <2>2 DEF UnblockTimeWith, TypeOK
    <3>2. CASE t # caller
      <4>1. t \in Members(list, "delayed") /\ xItemValue'[t] = xItemValue[t]
        BY <2>1, <3>2 DEF Members, TypeOK
      <4>2. xItemValue[t] \in TickType /\ UnblockTimeWith(w) \in TickType
        BY <4>1, <2>1, <2>3 DEF Members, TypeOK
      <4> QED
        BY <4>1, <4>2, <2>4 DEF NoTaskPassedBy, TypeOK
    <3> QED
      BY <3>1, <3>2
  <2>6. OverflowWakesAfterWrap'
    BY <2>1, <2>2, <1>1 DEF OverflowWakesAfterWrap, Members, ListFor, TypeOK
  <2>7. Waits!Wait(caller, n)
    <3>1. ticksLeft[caller] = 0
      BY <1>1 DEF ticksLeft
    <3>2. ASSUME NEW t \in Tasks
          PROVE  ticksLeft'[t] = IF t = caller THEN n ELSE ticksLeft[t]
      <4>1. CASE t = caller /\ ListFor(w) = "delayed"
        BY <4>1, <1>1, <2>1, <2>2 DEF ticksLeft, ListFor, TypeOK
      <4>2. CASE t = caller /\ ListFor(w) = "overflow"
        BY <4>2, <1>1, <2>1, <2>2 DEF ticksLeft, ListFor, TypeOK
      <4>3. CASE t # caller
        BY <4>3, <2>1 DEF ticksLeft, TypeOK
      <4> QED
        BY <4>1, <4>2, <4>3 DEF ListFor
    <3>3. ticksLeft' = [ticksLeft EXCEPT ![caller] = n]
      BY <3>2, <1>1 DEF ticksLeft
    <3> QED
      BY <3>1, <3>3 DEF Waits!Wait
  <2>8. [Waits!Next]_Waits!vars
    BY <2>7, <1>1 DEF Waits!Next
  <2> QED
    BY <2>3, <2>5, <2>6, <2>8
<1> QED
  BY <1>2, <1>3
-----------------------------------------------------------------------------
LEMMA InitialLists == Init => ListsIInv /\ Waits!Init
<1> SUFFICES ASSUME Init
             PROVE  ListsIInv /\ Waits!Init
  OBVIOUS
<1> USE DelayAssumption, TickAssumption DEF Init, TickType, portMAX_DELAY
<1> resetDue \in BOOLEAN
  OBVIOUS
<1>1. TypeOK
  BY DEF TypeOK, Lists
<1>2. NoTaskPassedBy /\ OverflowWakesAfterWrap /\ SectionConsistent
  BY DEF NoTaskPassedBy, OverflowWakesAfterWrap, SectionConsistent, Members
<1>3. Waits!Init
  BY DEF Waits!Init, ticksLeft
<1> QED
  BY <1>1, <1>2, <1>3 DEF ListsIInv

(* Every step keeps the split of time and is a step, or none, of the       *)
(* abstract waits.                                                         *)
StepKeepsAndImplements == ListsIInv' /\ [Waits!Next]_Waits!vars

LEMMA StepOfLists == ListsIInv /\ [Next]_vars => StepKeepsAndImplements
<1> SUFFICES ASSUME ListsIInv, [Next]_vars
             PROVE  StepKeepsAndImplements
  OBVIOUS
<1> USE DEF ListsIInv, StepKeepsAndImplements
(* Steps that change none of the lists.                                    *)
<1>1. ASSUME UNCHANGED <<xTickCount, xNextTaskUnblockTime, list, xItemValue>>,
             TypeOK', SectionConsistent'
      PROVE  StepKeepsAndImplements
  BY <1>1 DEF NoTaskPassedBy, OverflowWakesAfterWrap, Members, ticksLeft, Waits!vars
<1>2. ASSUME NEW c \in Tasks \cup {Idle}, vTaskSuspendAll(c)
      PROVE  StepKeepsAndImplements
  <2>1. TypeOK' /\ SectionConsistent'
    BY <1>2, DelayAssumption, TickAssumption DEF vTaskSuspendAll, TypeOK, SectionConsistent, Members, events, pended
  <2> QED
    BY <1>1, <1>2, <2>1 DEF vTaskSuspendAll
<1>3. ASSUME NEW n \in 1..portMAX_DELAY, vTaskDelay(n)
      PROVE  StepKeepsAndImplements
  <2>1. SectionConsistent'
    BY <1>3 DEF vTaskDelay, SectionConsistent
  <2> QED
    BY <1>3, <2>1, BlockingIsAWait DEF vTaskDelay, TypeOK, events, pended
<1>4. ASSUME NEW n \in 1..portMAX_DELAY, vTaskPlaceOnEventList(n)
      PROVE  StepKeepsAndImplements
  <2>1. SectionConsistent'
    BY <1>4 DEF vTaskPlaceOnEventList, SectionConsistent
  <2> QED
    BY <1>4, <2>1, BlockingIsAWait DEF vTaskPlaceOnEventList, TypeOK, pended
<1>5. ASSUME NEW t \in Tasks, xTaskAbortDelay(t)
      PROVE  StepKeepsAndImplements
  <2>1. list' = [u \in Tasks |-> IF u \in {t} THEN "ready" ELSE list[u]]
    BY <1>5 DEF xTaskAbortDelay, TypeOK
  <2>2. /\ UNCHANGED <<xTickCount, xItemValue, xNextTaskUnblockTime>>
        /\ {t} \in SUBSET Tasks /\ SectionConsistent'
    BY <1>5 DEF xTaskAbortDelay, SectionConsistent
  <2>3. Waits!Release({t}) => Waits!Next
    BY DEF Waits!Next
  <2> QED
    BY <1>5, <2>1, <2>2, <2>3, LeavingIsARelease DEF xTaskAbortDelay, TypeOK, pended
<1>6. ASSUME CatchUpTicks
      PROVE  StepKeepsAndImplements
  <2>1. TypeOK' /\ SectionConsistent'
    BY <1>6 DEF CatchUpTicks, TypeOK, SectionConsistent, events, pended
  <2> QED
    BY <1>1, <1>6, <2>1 DEF CatchUpTicks
<1>7. ASSUME NEW n \in 1..(MaxPended - pendedRead), PendedTicksWritten(n)
      PROVE  StepKeepsAndImplements
  <2>1. TypeOK' /\ SectionConsistent'
    BY <1>7, DelayAssumption, TickAssumption DEF PendedTicksWritten, TypeOK, SectionConsistent, events
  <2> QED
    BY <1>1, <1>7, <2>1 DEF PendedTicksWritten
<1>8. ASSUME NEW t \in Tasks, vTaskSuspend(t)
      PROVE  StepKeepsAndImplements
  <2>1. list' = [u \in Tasks |-> IF u \in {t} THEN "suspended" ELSE list[u]]
    BY <1>8 DEF vTaskSuspend, TypeOK
  <2>2. UNCHANGED <<xTickCount, xItemValue, xNextTaskUnblockTime>> /\ {t} \in SUBSET Tasks
    BY <1>8 DEF vTaskSuspend
  <2>3. SectionConsistent'
    BY <1>8, <2>1 DEF vTaskSuspend, SectionConsistent, section, TypeOK
  <2>4. Waits!Release({t}) => Waits!Next
    BY DEF Waits!Next
  <2> QED
    BY <1>8, <2>1, <2>2, <2>3, <2>4, LeavingIsARelease DEF vTaskSuspend, TypeOK, section, pended
(* Steps that make one task ready, or leave the lists alone.               *)
<1>9. ASSUME NEW t \in Tasks,
             UNCHANGED list \/ list' = [list EXCEPT ![t] = "ready"],
             UNCHANGED <<xTickCount, xNextTaskUnblockTime, xItemValue, section, pended, resetDue>>,
             xPendingReadyList' \subseteq Tasks, onEventList' \subseteq Tasks
      PROVE  StepKeepsAndImplements
  <2>1. list' \in [Tasks -> Lists] /\ SectionConsistent'
    BY <1>9 DEF SectionConsistent, section, pended, TypeOK, Lists
  <2>2. TypeOK'
    BY <1>9, <2>1 DEF TypeOK, section, pended
  <2>3. CASE UNCHANGED list
    BY <1>1, <1>9, <2>1, <2>2, <2>3
  <2>4. CASE list' = [list EXCEPT ![t] = "ready"]
    <3>1. list' = [u \in Tasks |-> IF u \in {t} THEN "ready" ELSE list[u]]
      BY <2>4 DEF TypeOK
    <3>2. Waits!Release({t}) => Waits!Next
      BY DEF Waits!Next
    <3> QED
      BY <1>9, <2>1, <2>2, <3>1, <3>2, LeavingIsARelease
  <2> QED
    BY <1>9, <2>3, <2>4
<1>10. ASSUME NEW t \in Tasks, vTaskResume(t)
       PROVE  StepKeepsAndImplements
  BY <1>9, <1>10 DEF vTaskResume, events, TypeOK
<1>11. ASSUME NEW t \in Tasks, xTaskResumeFromISR(t)
       PROVE  StepKeepsAndImplements
  <2>1. /\ UNCHANGED list \/ list' = [list EXCEPT ![t] = "ready"]
        /\ xPendingReadyList' \subseteq Tasks /\ onEventList' \subseteq Tasks
    BY <1>11 DEF xTaskResumeFromISR, Readied, TypeOK
  <2> QED
    BY <1>9, <1>11, <2>1 DEF xTaskResumeFromISR
<1>12. ASSUME NEW t \in Tasks, xTaskRemoveFromEventList(t)
       PROVE  StepKeepsAndImplements
  <2>1. /\ UNCHANGED list \/ list' = [list EXCEPT ![t] = "ready"]
        /\ xPendingReadyList' \subseteq Tasks /\ onEventList' \subseteq Tasks
    BY <1>12 DEF xTaskRemoveFromEventList, Readied, TypeOK
  <2> QED
    BY <1>9, <1>12, <2>1 DEF xTaskRemoveFromEventList
<1>13. ASSUME xTaskIncrementTick
       PROVE  StepKeepsAndImplements
  <2>1. CASE uxSchedulerSuspended
    <3>1. TypeOK' /\ SectionConsistent'
      BY <1>13, <2>1 DEF xTaskIncrementTick, TypeOK, SectionConsistent, section
    <3> QED
      BY <1>1, <1>13, <2>1, <3>1 DEF xTaskIncrementTick
  <2>2. CASE ~uxSchedulerSuspended
    <3>1. IncrementTick /\ UNCHANGED <<xPendedTicks, xPendingReadyList, section, xPendedCounts, xItemValue,
                                     resetDue>>
      BY <1>13, <2>2 DEF xTaskIncrementTick, IncrementTick
    <3>2. SectionConsistent'
      BY <2>2, <3>1 DEF SectionConsistent, uxSchedulerSuspended, section
    <3>3. TypeOK'
      BY <3>1, TickIsATick DEF TypeOK, section
    <3> QED
      BY <3>1, <3>2, <3>3, TickIsATick DEF Waits!Next
  <2> QED
    BY <2>1, <2>2
<1>14. ASSUME xTaskResumeAll
       PROVE  StepKeepsAndImplements
  <2>1. /\ list' = [t \in Tasks |-> IF t \in xPendingReadyList THEN "ready" ELSE list[t]]
        /\ UNCHANGED <<xTickCount, xItemValue>> /\ xPendingReadyList \in SUBSET Tasks
    BY <1>14 DEF xTaskResumeAll, TypeOK
  <2>2. \/ UNCHANGED xNextTaskUnblockTime
        \/ xNextTaskUnblockTime' = HeadTime(Members(list, "delayed") \ xPendingReadyList)
    <3>1. Members(list', "delayed") = Members(list, "delayed") \ xPendingReadyList
      BY <2>1 DEF Members, TypeOK
    <3> QED
      BY <1>14, <2>1, <3>1 DEF xTaskResumeAll
  <2>3. SectionConsistent'
    BY <1>14 DEF xTaskResumeAll, SectionConsistent, TypeOK
  <2>4. Waits!Release(xPendingReadyList) => Waits!Next
    BY <2>1 DEF Waits!Next
  <2>5. TypeOK'
    BY <1>14, <2>1, <2>2, LeavingIsARelease DEF xTaskResumeAll, TypeOK
  <2> QED
    BY <2>1, <2>2, <2>3, <2>4, <2>5, LeavingIsARelease
<1>15. ASSUME ReplayTick
       PROVE  StepKeepsAndImplements
  <2>1. /\ IncrementTick /\ UNCHANGED <<xPendingReadyList, caller, pendedRead, xItemValue>>
        /\ xPendedCounts > 0
    BY <1>15 DEF ReplayTick, IncrementTick, SectionConsistent
  <2>2. TypeOK'
    BY <1>15, <2>1, TickIsATick DEF ReplayTick, TypeOK
  <2>3. SectionConsistent'
    BY <1>15 DEF ReplayTick, SectionConsistent
  <2> QED
    BY <2>1, <2>2, <2>3, TickIsATick DEF Waits!Next
<1>16. ASSUME UNCHANGED vars
       PROVE  StepKeepsAndImplements
  <2>1. TypeOK' /\ SectionConsistent'
    BY <1>16 DEF vars, events, section, pended, TypeOK, SectionConsistent
  <2> QED
    BY <1>1, <1>16, <2>1 DEF vars
<1>17. ASSUME prvResetNextTaskUnblockTime
       PROVE  StepKeepsAndImplements
  <2>1. /\ list' = [t \in Tasks |-> IF t \in {} THEN "ready" ELSE list[t]]
        /\ UNCHANGED <<xTickCount, xItemValue>> /\ {} \in SUBSET Tasks
        /\ xNextTaskUnblockTime' = HeadTime(Members(list, "delayed") \ {})
    <3>1. Members(list, "delayed") \ {} = Members(list, "delayed")
      OBVIOUS
    <3> QED
      BY <1>17, <3>1 DEF prvResetNextTaskUnblockTime, TypeOK
  <2>2. NoTaskPassedBy' /\ OverflowWakesAfterWrap' /\ xNextTaskUnblockTime' \in TickType
    BY <2>1, LeavingIsARelease, "ready" \in {"ready", "suspended"}
  <2>3. TypeOK' /\ SectionConsistent'
    BY <1>17, <2>2 DEF prvResetNextTaskUnblockTime, TypeOK, SectionConsistent, events,
       section, pended
  <2>4. UNCHANGED Waits!vars
    BY <1>17 DEF prvResetNextTaskUnblockTime, ticksLeft, Waits!vars
  <2> QED
    BY <2>2, <2>3, <2>4
<1> QED
  BY <1>2, <1>3, <1>4, <1>5, <1>6, <1>7, <1>8, <1>10, <1>11, <1>12, <1>13, <1>14,
     <1>15, <1>16, <1>17 DEF Next
-----------------------------------------------------------------------------
(* For any number of tasks and any width of the tick count, the tick finds *)
(* the list it switches away from empty and passes no task by.             *)
THEOREM ListsSplitTime == Spec => [](TypeOK /\ SwitchedEmpty /\ NoTaskPassedBy)
<1>1. ListsIInv /\ [Next]_vars => ListsIInv'
  BY StepOfLists DEF StepKeepsAndImplements
<1>2. ListsIInv => TypeOK /\ SwitchedEmpty /\ NoTaskPassedBy
  <2> SUFFICES ASSUME ListsIInv, xTickCount = portMAX_DELAY, NEW t \in Members(list, "delayed")
               PROVE  FALSE
    BY DEF ListsIInv, SwitchedEmpty, Members
  <2> QED
    BY DelayAssumption, TickAssumption DEF ListsIInv, NoTaskPassedBy, TypeOK, TickType, portMAX_DELAY, Members
<1> QED
  BY <1>1, <1>2, InitialLists, PTL DEF Spec

(* The delayed lists implement the timed waits: a task waits for exactly   *)
(* the ticks it asked for, unless it is released.                          *)
THEOREM DelaysAreTimedWaits == Spec => ImplementsTimedWaits
<1>1. Init => ListsIInv /\ Waits!Init
  BY InitialLists
<1>2. ListsIInv /\ [Next]_vars => ListsIInv' /\ [Waits!Next]_Waits!vars
  BY StepOfLists DEF StepKeepsAndImplements
<1> QED
  BY <1>1, <1>2, PTL DEF Spec, ImplementsTimedWaits, Waits!Spec
-----------------------------------------------------------------------------
(* A time out is exact for every width of the tick count, as long as no    *)
(* two looks at it are more than one turn of the tick count apart: the     *)
(* pair (count, wraps) then still determines the ticks that have passed.   *)
(* What the captured pair says of the ticks since the capture.             *)
PairTellsTime ==
  xTickCount = IF xNumOfOverflows = xOverflowCount
               THEN xTimeOnEntering + waited
               ELSE xTimeOnEntering + waited - TickModulus

LeftIsExact ==
  ~Forever => left = IF xTicksToWait > waited THEN xTicksToWait - waited ELSE 0

TimeOutIInv == TimeOutTypeOK /\ PairTellsTime /\ LeftIsExact /\ NeverLate

(* A look that finds time left has found exactly the ticks since the       *)
(* capture, and one that finds none is right.                              *)
LEMMA ElapsedIsWaited ==
  ASSUME TimeOutIInv, MaxGap <= TickModulus, ~Forever
  PROVE  /\ ~AllTheWayAround /\ TimeRemains => xElapsedTime = waited /\ left > 0
         /\ AllTheWayAround \/ ~TimeRemains => left = 0
<1> USE TimeOutAssumption, TickAssumption DEF portMAX_DELAY, TickType
<1>1. CASE AllTheWayAround
  <2>1. waited = TickModulus
    BY <1>1 DEF TimeOutIInv, TimeOutTypeOK, PairTellsTime, AllTheWayAround
  <2>2. xTicksToWait < TickModulus
    BY DEF TimeOutIInv, TimeOutTypeOK
  <2> QED
    BY <1>1, <2>1, <2>2 DEF TimeOutIInv, LeftIsExact, TimeOutTypeOK
<1>2. CASE ~AllTheWayAround
  <2>1. xElapsedTime = waited
    BY <1>2 DEF TimeOutIInv, TimeOutTypeOK, PairTellsTime, AllTheWayAround, xElapsedTime
  <2> QED
    BY <1>2, <2>1 DEF TimeOutIInv, TimeOutTypeOK, LeftIsExact, TimeRemains
<1> QED
  BY <1>1, <1>2

LEMMA InitialTimeOut == TimeOutInit => TimeOutIInv
<1> SUFFICES ASSUME TimeOutInit
             PROVE  TimeOutIInv
  OBVIOUS
<1> USE DEF TimeOutInit
<1>1. ucDelayAborted \in BOOLEAN
  OBVIOUS
<1>2. /\ waited \in 0..MaxGap /\ left \in TickType
      /\ xNumOfOverflows \in 0..(OverflowModulus - 1)
  BY TimeOutAssumption, TickAssumption DEF portMAX_DELAY, TickType
<1>3. TimeOutTypeOK
  BY <1>1, <1>2 DEF TimeOutTypeOK
<1>4. PairTellsTime /\ LeftIsExact /\ NeverLate
  BY TimeOutAssumption, TickAssumption DEF PairTellsTime, LeftIsExact, NeverLate, portMAX_DELAY, TickType
<1> QED
  BY <1>3, <1>4 DEF TimeOutIInv

LEMMA LookKeepsTimeOut ==
  ASSUME TimeOutIInv, MaxGap <= TickModulus, xTaskCheckForTimeOut
  PROVE  TimeOutIInv'
<1> USE TimeOutAssumption, TickAssumption DEF portMAX_DELAY, TickType
<1>1. CASE Aborted
  BY <1>1 DEF Aborted, xTaskCheckForTimeOut, TimeOutIInv, TimeOutTypeOK, PairTellsTime,
     LeftIsExact, NeverLate, Forever, timeOut
<1>2. CASE NeverTimesOut
  BY <1>2 DEF NeverTimesOut, xTaskCheckForTimeOut, TimeOutIInv, TimeOutTypeOK, PairTellsTime,
     LeftIsExact, NeverLate, Forever, timeOut
<1>3. CASE NotYet
  <2>1. xElapsedTime = waited /\ left > 0
    BY <1>3, ElapsedIsWaited DEF NotYet
  <2>2. left = xTicksToWait - waited /\ xTicksToWait' = left
    BY <1>3, <2>1 DEF NotYet, TimeOutIInv, LeftIsExact, TimeOutTypeOK, Forever
  <2>3. left \in TickType
    BY DEF TimeOutIInv, TimeOutTypeOK
  <2>4. TimeOutTypeOK'
    BY <1>3, <2>2, <2>3 DEF NotYet, Captured, xTaskCheckForTimeOut, TimeOutIInv, TimeOutTypeOK
  <2>5. PairTellsTime'
    BY <1>3 DEF NotYet, Captured, xTaskCheckForTimeOut, TimeOutIInv, TimeOutTypeOK, PairTellsTime
  <2>6. LeftIsExact' /\ NeverLate'
    BY <1>3, <2>1, <2>2, <2>3 DEF NotYet, xTaskCheckForTimeOut, LeftIsExact, NeverLate
  <2> QED
    BY <2>4, <2>5, <2>6 DEF TimeOutIInv
<1>4. CASE TimedOut
  <2>1. left = 0
    BY <1>4, ElapsedIsWaited DEF TimedOut
  <2> QED
    BY <1>4, <2>1 DEF TimedOut, xTaskCheckForTimeOut, TimeOutIInv, TimeOutTypeOK, PairTellsTime,
       LeftIsExact, NeverLate, Forever, timeOut
<1> QED
  BY <1>1, <1>2, <1>3, <1>4 DEF xTaskCheckForTimeOut

(* The tick count cannot wrap a second time within TickModulus ticks.      *)
LEMMA TickKeepsTimeOut ==
  ASSUME TimeOutIInv, MaxGap <= TickModulus, TimeOutTick
  PROVE  TimeOutIInv'
<1> USE TimeOutAssumption, TickAssumption DEF portMAX_DELAY, TickType, count, TimeOutTick, timeOut
<1>1. TimeOutTypeOK'
  BY DEF TimeOutIInv, TimeOutTypeOK
<1>2. PairTellsTime'
  <2>1. CASE xTickCount = portMAX_DELAY
    <3>1. xNumOfOverflows = xOverflowCount
      BY <2>1 DEF TimeOutIInv, TimeOutTypeOK, PairTellsTime
    <3>2. xNumOfOverflows' # xOverflowCount'
      BY <2>1, <3>1 DEF TimeOutIInv, TimeOutTypeOK
    <3> QED
      BY <2>1, <3>1, <3>2 DEF TimeOutIInv, TimeOutTypeOK, PairTellsTime
  <2>2. CASE xTickCount # portMAX_DELAY
    BY <2>2 DEF TimeOutIInv, TimeOutTypeOK, PairTellsTime
  <2> QED
    BY <2>1, <2>2
<1>3. LeftIsExact'
  BY DEF TimeOutIInv, TimeOutTypeOK, LeftIsExact, Forever
<1>4. NeverLate'
  BY DEF NeverLate
<1> QED
  BY <1>1, <1>2, <1>3, <1>4 DEF TimeOutIInv

LEMMA StepKeepsTimeOut == TimeOutIInv /\ MaxGap <= TickModulus /\ [TimeOutNext]_timeOutVars => TimeOutIInv'
<1> SUFFICES ASSUME TimeOutIInv, MaxGap <= TickModulus, [TimeOutNext]_timeOutVars
             PROVE  TimeOutIInv'
  OBVIOUS
<1> USE TimeOutAssumption, TickAssumption DEF TimeOutIInv, TimeOutTypeOK, PairTellsTime, LeftIsExact, NeverLate,
        Forever, portMAX_DELAY, TickType
<1>1. ASSUME NEW t \in TickType, vTaskSetTimeOutState(t)
      PROVE  TimeOutIInv'
  BY <1>1 DEF vTaskSetTimeOutState, Captured
<1>2. CASE AbortWait
  BY <1>2 DEF AbortWait, timeOut
<1>3. CASE BlocksAgain
  BY <1>3 DEF BlocksAgain, timeOut
<1>4. CASE UNCHANGED timeOutVars
  BY <1>4 DEF timeOutVars, timeOut
<1> QED
  BY <1>1, <1>2, <1>3, <1>4, LookKeepsTimeOut, TickKeepsTimeOut DEF TimeOutNext

(* Whatever the width of the tick count and however often it wraps, a time *)
(* out looked at at least once per turn never ends late.                   *)
THEOREM TimeOutNeverLate ==
  ASSUME MaxGap <= TickModulus
  PROVE  TimeOutSpec => [](TimeOutTypeOK /\ NeverLate)
<1>1. TimeOutIInv /\ [TimeOutNext]_timeOutVars => TimeOutIInv'
  BY StepKeepsTimeOut
<1>2. TimeOutIInv => TimeOutTypeOK /\ NeverLate
  BY DEF TimeOutIInv
<1> QED
  BY <1>1, <1>2, InitialTimeOut, PTL DEF TimeOutSpec

(* A look that ends the wait finds no tick left.                           *)
LEMMA OnlyLooksEndAWait ==
  ASSUME TimeOutIInv, MaxGap <= TickModulus, [TimeOutNext]_timeOutVars
  PROVE  [xReturn' = "pdTRUE" => ucDelayAborted \/ (left = 0 /\ ~Forever)]_timeOutVars
<1>1. ASSUME TimedOut
      PROVE  left = 0 /\ ~Forever
  BY <1>1, ElapsedIsWaited DEF TimedOut
<1>2. ASSUME xTaskCheckForTimeOut, xReturn' = "pdTRUE"
      PROVE  ucDelayAborted \/ (left = 0 /\ ~Forever)
  BY <1>1, <1>2 DEF xTaskCheckForTimeOut, Aborted, NeverTimesOut, NotYet
<1> QED
  BY <1>2 DEF TimeOutNext, vTaskSetTimeOutState, TimeOutTick, AbortWait,
     BlocksAgain

(* And no wait that is not aborted ends early.                             *)
THEOREM TimeOutEndsOnlyInTime ==
  ASSUME MaxGap <= TickModulus
  PROVE  TimeOutSpec => EndsOnlyInTime
<1>1. TimeOutIInv /\ [TimeOutNext]_timeOutVars => TimeOutIInv'
  BY StepKeepsTimeOut
<1>2. TimeOutIInv /\ [TimeOutNext]_timeOutVars
      => [xReturn' = "pdTRUE" => ucDelayAborted \/ (left = 0 /\ ~Forever)]_timeOutVars
  BY OnlyLooksEndAWait
<1> QED
  BY <1>1, <1>2, InitialTimeOut, PTL DEF TimeOutSpec, EndsOnlyInTime
-----------------------------------------------------------------------------
(* The two comparisons of xTaskDelayUntil decide correctly for every width *)
(* of the tick count, as long as no wait was cut short: the wake time kept *)
(* is then never ahead of now, and less than a turn of the count behind.   *)
(* The wake time kept is where the tick count was, or will be, at that     *)
(* distance.                                                               *)
WakeTimeIsAhead == xPreviousWakeTime = Unsigned(xTickCount + ahead)

DelayUntilIInv == DelayUntilTypeOK /\ WakeTimeIsAhead

(* A difference of unsigned tick counts is the distance, across a wrap too. *)
LEMMA DistanceWraps ==
  ASSUME NEW now \in TickType, NEW distance \in 1..portMAX_DELAY
  PROVE  Unsigned(Unsigned(now + distance) - now) = distance
<1> USE TickAssumption DEF TickType, portMAX_DELAY
<1>1. CASE now + distance >= TickModulus
  <2>1. Unsigned(now + distance) = now + distance - TickModulus
    BY <1>1 DEF Unsigned
  <2> QED
    BY <1>1, <2>1 DEF Unsigned
<1>2. CASE now + distance < TickModulus
  <2>1. Unsigned(now + distance) = now + distance
    BY <1>2 DEF Unsigned
  <2> QED
    BY <1>2, <2>1 DEF Unsigned
<1> QED
  BY <1>1, <1>2

LEMMA InitialWakeTime == DelayUntilInit => DelayUntilIInv
BY TickAssumption DEF DelayUntilInit, DelayUntilIInv, DelayUntilTypeOK, WakeTimeIsAhead, Unsigned, TickType, portMAX_DELAY

LEMMA DecidesToSchedule ==
  ASSUME DelayUntilIInv, NEW n \in 1..portMAX_DELAY, xTaskDelayUntil(n)
  PROVE  DelayUntilIInv' /\ (ahead <= 0 => OnTime)
<1> DEFINE wake == TimeToWake(n)
<1> USE TickAssumption DEF TickType, portMAX_DELAY
<1>1. /\ xPreviousWakeTime' = wake /\ ahead' = ahead + n /\ UNCHANGED xTickCount
      /\ waits' = IF ShouldDelay(wake) THEN Unsigned(wake - xTickCount) ELSE 0
  BY DEF xTaskDelayUntil
<1>2. wake \in TickType /\ Unsigned(wake - xTickCount) \in TickType
  BY DEF DelayUntilIInv, DelayUntilTypeOK, TimeToWake, Unsigned
<1>3. wake = Unsigned(xTickCount + ahead')
  BY <1>1 DEF DelayUntilIInv, DelayUntilTypeOK, WakeTimeIsAhead, TimeToWake, Unsigned, xTaskDelayUntil
<1>4. ahead' \in -portMAX_DELAY..portMAX_DELAY
  BY <1>1 DEF DelayUntilIInv, DelayUntilTypeOK, xTaskDelayUntil
<1>5. DelayUntilIInv'
  <2>1. waits' \in TickType
    BY <1>1, <1>2
  <2> QED
    BY <1>1, <1>2, <1>3, <1>4, <2>1 DEF DelayUntilIInv, DelayUntilTypeOK, WakeTimeIsAhead
<1>6. ASSUME ahead <= 0
      PROVE  OnTime
  <2>1. ShouldDelay(wake) <=> ahead' > 0
    BY <1>1, <1>3, <1>6 DEF DelayUntilIInv, DelayUntilTypeOK, WakeTimeIsAhead, ShouldDelay, Unsigned
  <2>2. ahead' > 0 => Unsigned(wake - xTickCount) = ahead'
    <3>1. xTickCount \in TickType /\ (ahead' > 0 => ahead' \in 1..portMAX_DELAY)
      BY <1>4 DEF DelayUntilIInv, DelayUntilTypeOK
    <3> QED
      BY <1>3, <3>1, DistanceWraps
  <2> QED
    BY <1>1, <2>1, <2>2 DEF OnTime
<1> QED
  BY <1>5, <1>6

LEMMA StepDecidesToSchedule ==
  DelayUntilIInv /\ [DelayUntilNext]_delayUntilVars
    => /\ DelayUntilIInv'
       /\ [\A n \in 1..portMAX_DELAY : xTaskDelayUntil(n) /\ ahead <= 0 => OnTime]_delayUntilVars
<1> SUFFICES ASSUME DelayUntilIInv, [DelayUntilNext]_delayUntilVars
             PROVE  DelayUntilIInv'
  BY DecidesToSchedule
<1> USE TickAssumption DEF DelayUntilIInv, DelayUntilTypeOK, WakeTimeIsAhead, Unsigned, TickType, portMAX_DELAY, count
<1>1. CASE DelayUntilTick
  BY <1>1 DEF DelayUntilTick
<1>2. CASE CutShort
  BY <1>2 DEF CutShort
<1>3. CASE UNCHANGED delayUntilVars
  BY <1>3 DEF delayUntilVars
<1> QED
  BY <1>1, <1>2, <1>3, DecidesToSchedule DEF DelayUntilNext

(* For every width of the tick count, a task none of whose waits was cut   *)
(* short waits exactly until the time it asked for.                        *)
THEOREM DelayUntilIsExact == DelayUntilSpec => []DelayUntilTypeOK /\ DelaysToSchedule
<1>1. DelayUntilIInv => DelayUntilTypeOK
  BY DEF DelayUntilIInv
<1> QED
  BY <1>1, InitialWakeTime, StepDecidesToSchedule, PTL DEF DelayUntilSpec, DelaysToSchedule
-----------------------------------------------------------------------------
(* Put together, each reader keeps its invariant while it moves, and the   *)
(* others stay as they began, whatever the tick count does.                *)
OneReader ==
  /\ reader \in {"lists", "timeOut", "delayUntil"}
  /\ KernelTimeTypeOK
  /\ reader = "lists" => ListsIInv
  /\ reader # "lists" => Members(list, "delayed") = {}
  /\ reader = "timeOut" => TimeOutIInv
  /\ reader # "timeOut" => xReturn = "unasked"
  /\ reader = "delayUntil" => DelayUntilIInv

LEMMA InitialReaders == KernelTimeInit => OneReader
<1> SUFFICES ASSUME KernelTimeInit PROVE OneReader
  OBVIOUS
<1>1. Init /\ TimeOutInit /\ DelayUntilInit /\ reader \in {"lists", "timeOut", "delayUntil"}
  BY DEF KernelTimeInit
<1>2. ListsIInv /\ TimeOutIInv /\ DelayUntilIInv
  BY <1>1, InitialLists, InitialTimeOut, InitialWakeTime
<1>3. KernelTimeTypeOK
  BY <1>2 DEF KernelTimeTypeOK, ListsIInv, TimeOutIInv, DelayUntilIInv
<1>4. Members(list, "delayed") = {} /\ xReturn = "unasked"
  BY <1>1 DEF Init, TimeOutInit, Members
<1>. QED  BY <1>1, <1>2, <1>3, <1>4 DEF OneReader

LEMMA StepOfReaders ==
  ASSUME MaxGap <= TickModulus
  PROVE  OneReader /\ [KernelTimeNext]_kernelTimeVars => OneReader'
<1> SUFFICES ASSUME OneReader, [KernelTimeNext]_kernelTimeVars PROVE OneReader'
  OBVIOUS
<1>1. /\ TypeOK /\ TimeOutTypeOK /\ DelayUntilTypeOK
  BY DEF OneReader, KernelTimeTypeOK
<1>2. ASSUME xTickCount' \in TickType, UNCHANGED listVars
      PROVE  /\ TypeOK'
             /\ Members(list, "delayed") = {} => Members(list, "delayed")' = {}
  BY <1>1, <1>2 DEF TypeOK, listVars, events, section, pended, Members
<1>3. ASSUME xTickCount' \in TickType, UNCHANGED lookVars
      PROVE  TimeOutTypeOK' /\ UNCHANGED xReturn
  BY <1>1, <1>3 DEF TimeOutTypeOK, lookVars, timeOut
<1>4. ASSUME xTickCount' \in TickType, UNCHANGED paceVars
      PROVE  DelayUntilTypeOK'
  BY <1>1, <1>4 DEF DelayUntilTypeOK, paceVars
<1>5. CASE ListsMove /\ UNCHANGED reader
  <2>1. ListsIInv'
    BY <1>5, StepOfLists DEF ListsMove, OneReader, StepKeepsAndImplements
  <2>2. TypeOK' /\ xTickCount' \in TickType
    BY <2>1 DEF ListsIInv, TypeOK
  <2>. QED  BY <1>3, <1>4, <1>5, <2>1, <2>2 DEF ListsMove, OneReader, KernelTimeTypeOK
<1>6. CASE TimeOutMoves /\ UNCHANGED reader
  <2>1. TimeOutIInv'
    BY <1>6, StepKeepsTimeOut DEF TimeOutMoves, OneReader
  <2>2. TimeOutTypeOK' /\ xTickCount' \in TickType
    BY <2>1 DEF TimeOutIInv, TimeOutTypeOK
  <2>. QED  BY <1>2, <1>4, <1>6, <2>1, <2>2 DEF TimeOutMoves, OneReader, KernelTimeTypeOK
<1>7. CASE DelayUntilMoves /\ UNCHANGED reader
  <2>1. DelayUntilIInv'
    BY <1>7, StepDecidesToSchedule DEF DelayUntilMoves, OneReader
  <2>2. DelayUntilTypeOK' /\ xTickCount' \in TickType
    BY <2>1 DEF DelayUntilIInv, DelayUntilTypeOK
  <2>. QED  BY <1>2, <1>3, <1>7, <2>1, <2>2 DEF DelayUntilMoves, OneReader, KernelTimeTypeOK
<1>8. CASE UNCHANGED kernelTimeVars
  <2>1. UNCHANGED <<vars, timeOutVars, delayUntilVars, reader>>
    BY <1>8 DEF kernelTimeVars, listVars, lookVars, paceVars, vars, timeOutVars, delayUntilVars
  <2>2. /\ ListsIInv => ListsIInv'
        /\ TimeOutIInv => TimeOutIInv'
        /\ DelayUntilIInv => DelayUntilIInv'
    BY <2>1, StepOfLists, StepKeepsTimeOut, StepDecidesToSchedule DEF StepKeepsAndImplements
  <2>3. TypeOK' /\ TimeOutTypeOK' /\ DelayUntilTypeOK' /\ UNCHANGED <<list, xReturn, reader>>
    BY <1>1, <1>2, <1>3, <1>4, <1>8 DEF kernelTimeVars, listVars, lookVars, TypeOK
  <2>. QED  BY <2>2, <2>3 DEF OneReader, KernelTimeTypeOK, Members
<1>. QED  BY <1>5, <1>6, <1>7, <1>8 DEF KernelTimeNext

(* No sum or difference of tick counts that tasks.c computes leaves        *)
(* TickType_t, in the delayed lists, in a time out or in a paced task.     *)
THEOREM TickCountsStayInRange ==
  ASSUME MaxGap <= TickModulus
  PROVE  KernelTimeSpec => []KernelTimeTypeOK
<1>1. OneReader => KernelTimeTypeOK
  BY DEF OneReader
<1>. QED  BY <1>1, InitialReaders, StepOfReaders, PTL DEF KernelTimeSpec
=============================================================================
