------------------------ MODULE PeriodicKernelProofs ------------------------
(***************************************************************************)
(* Proofs about PeriodicKernel, for any number of tasks, task set,         *)
(* algorithm, width of the counters and moment of the daemon's start-up:   *)
(* its walks stay in well-formed lists, it loses no tick, and it           *)
(* implements PeriodicScheduler.                                           *)
(***************************************************************************)
EXTENDS PeriodicKernel, ArithmeticLemmas, SequenceTheorems
-----------------------------------------------------------------------------
(* A list of the kernel: no item linked twice, pxIndex on one or on the    *)
(* end marker.                                                             *)
IsList(list) ==
  /\ list.items \in Seq(Tasks)
  /\ list.pxIndex \in 0..Len(list.items)
  /\ \A p, q \in DOMAIN list.items : list.items[p] = list.items[q] => p = q

(* t comes before u in the list.                                           *)
Before(list, t, u) ==
  \E p, q \in DOMAIN list.items : p < q /\ list.items[p] = t /\ list.items[q] = u

Sorted(list, key) ==
  \A t, u \in Tasks : Before(list, t, u) => ~Precedes(key[u], key[t])

ListsInv ==
  /\ IsList(readyList) /\ IsList(waitList)
  /\ Members(readyList) \cap Members(waitList) = {}
  /\ Sorted(readyList, xItemValue)

(* A walk has as many items to go as there are from pxIndex to the end,    *)
(* and Tcb is the first of them.                                           *)
OnItsWay(list, n, x) ==
  n > 0 => /\ list.pxIndex > 0
           /\ n = Len(list.items) - list.pxIndex + 1
           /\ x = list.items[list.pxIndex]

WalkInv ==
  /\ left \in Nat
  /\ Tcb \in Tasks \cup {Nobody}
  /\ pc = "kill" => OnItsWay(readyList, left, Tcb)
  /\ pc = "wake" => OnItsWay(waitList, left, Tcb)
  /\ pc \notin {"kill", "wake"} => left = 0

(* The tasks a walk has still to come to.                                  *)
Ahead(list, n) == IF n = 0 THEN {}
                  ELSE {list.items[p] : p \in list.pxIndex..Len(list.items)}

(* The daemon holds the processor until it blocks, with the scheduler      *)
(* suspended for a part of that time, and ticks pend only then.            *)
DaemonInv ==
  /\ pc \in {"create", "run", "kill", "wake"}
  /\ daemon \in {"start", "suspended", "placed", "replaying", "yielding", "blocked"}
  /\ uxSchedulerSuspended = IF daemon \in {"suspended", "placed"} THEN 1 ELSE 0
  /\ xYieldPending \in BOOLEAN /\ exited \in BOOLEAN
  /\ xTickCount \in Nat
  /\ xPendedTicks \in 0..MaxStartupTicks /\ xPendedCounts \in 0..xPendedTicks
  /\ daemon \notin {"suspended", "placed", "replaying"} => xPendedTicks = 0
  /\ daemon # "replaying" => xPendedCounts = 0
  /\ ~exited /\ daemon \notin {"yielding", "blocked"} => xTickCount + Owed <= MaxStartupTicks
  /\ daemon \notin {"yielding", "blocked"} /\ pc # "create" => pxCurrentTCB = Timer
  /\ pc \in {"kill", "wake"} => /\ ~exited
                                /\ daemon \notin {"suspended", "placed"}
                                /\ daemon = "replaying" => xPendedCounts > 0
  /\ pc = "create" => daemon = "start" /\ xTickCount = 0

(* Between ticks the head of the ready list runs, once the daemon is out   *)
(* of the way.                                                             *)
RunInv ==
  pc = "run" /\ ~exited /\ pxCurrentTCB # Timer =>
    pxCurrentTCB = IF readyList.items = <<>> THEN Idle ELSE Head(readyList.items)

(* The task the tick interrupted, while it keeps its place, has only more  *)
(* urgent ones before it.                                                  *)
OnlyUrgentBefore(t, list, key) ==
  \A u \in Tasks : Before(list, u, t) => Precedes(key[u], key[t])

(* The values the lists are sorted and filtered by are of their types.     *)
Keys == [blue : BOOLEAN, deadline : Int]

TypesInv ==
  /\ WellFormed(Task_Set)
  /\ xItemValue \in [Tasks -> Keys]
  /\ previous_deadline_met \in [Tasks -> 0..(CounterModulus - 1)]
  /\ pxCurrentTCB \in Tasks \cup {Idle, Timer, Nobody}

(* What keeps the lists well formed, by itself.                            *)
StructureInv == DaemonInv /\ ListsInv /\ WalkInv /\ RunInv /\ TypesInv
-----------------------------------------------------------------------------
(* What the operations of KernelList do to a list, item by item.           *)
LEMMA Positions ==
  ASSUME NEW list, IsList(list)
  PROVE  /\ Len(list.items) \in Nat
         /\ DOMAIN list.items = 1..Len(list.items)
         /\ \A p \in 1..Len(list.items) : list.items[p] \in Tasks
         /\ Members(list) = {list.items[p] : p \in 1..Len(list.items)}
         /\ Members(list) \subseteq Tasks
         /\ list.items = <<>> <=> Len(list.items) = 0
<1>1. list.items \in Seq(Tasks)
  BY DEF IsList
<1>2. Len(list.items) \in Nat /\ DOMAIN list.items = 1..Len(list.items)
  BY <1>1
<1>3. \A p \in 1..Len(list.items) : list.items[p] \in Tasks
  BY <1>1, ElementOfSeq
<1>4. Members(list) = {list.items[p] : p \in 1..Len(list.items)}
  BY <1>2 DEF Members, ToSet
<1>5. list.items = <<>> <=> Len(list.items) = 0
  BY <1>1, EmptySeq
<1>. QED  BY <1>2, <1>3, <1>4, <1>5

LEMMA InsertedAt ==
  ASSUME NEW S, NEW s \in Seq(S), NEW i \in 1..(Len(s) + 1), NEW e \in S
  PROVE  /\ InsertAt(s, i, e) \in Seq(S)
         /\ Len(InsertAt(s, i, e)) = Len(s) + 1
         /\ \A p \in 1..(Len(s) + 1) :
              InsertAt(s, i, e)[p] = IF p < i THEN s[p] ELSE IF p = i THEN e ELSE s[p - 1]
<1> DEFINE front == SubSeq(s, 1, i - 1)
           back == SubSeq(s, i, Len(s))
           mid == front \o <<e>>
<1>1. InsertAt(s, i, e) = mid \o back
  BY DEF InsertAt
<1>2. Len(s) \in Nat /\ \A p \in 1..Len(s) : s[p] \in S
  BY ElementOfSeq, LenProperties
<1>3. /\ front \in Seq(S) /\ Len(front) = i - 1
      /\ \A p \in 1..(i - 1) : front[p] = s[p]
  <2>1. \A p \in 1..(i - 1) : s[p] \in S
    BY <1>2
  <2>2. i - 1 \in Int /\ 1 \in Int
    OBVIOUS
  <2> HIDE DEF front
  <2>3. /\ SubSeq(s, 1, i - 1) \in Seq(S)
        /\ Len(SubSeq(s, 1, i - 1)) = IF 1 <= i - 1 THEN (i - 1) - 1 + 1 ELSE 0
        /\ \A p \in 1..((i - 1) - 1 + 1) : SubSeq(s, 1, i - 1)[p] = s[1 + p - 1]
    BY <2>1, <2>2, SubSeqProperties
  <2>. QED  BY <2>3, <1>2 DEF front
<1>4. /\ back \in Seq(S) /\ Len(back) = Len(s) - i + 1
      /\ \A p \in 1..(Len(s) - i + 1) : back[p] = s[i + p - 1]
  <2>1. \A p \in i..Len(s) : s[p] \in S
    BY <1>2
  <2>2. i \in Int /\ Len(s) \in Int
    BY <1>2
  <2> HIDE DEF back
  <2>3. /\ SubSeq(s, i, Len(s)) \in Seq(S)
        /\ Len(SubSeq(s, i, Len(s))) = IF i <= Len(s) THEN Len(s) - i + 1 ELSE 0
        /\ \A p \in 1..(Len(s) - i + 1) : SubSeq(s, i, Len(s))[p] = s[i + p - 1]
    BY <2>1, <2>2, SubSeqProperties
  <2>. QED  BY <2>3, <1>2 DEF back
<1> HIDE DEF front, back
<1>5. /\ mid \in Seq(S) /\ Len(mid) = i
      /\ \A p \in 1..i : mid[p] = IF p < i THEN s[p] ELSE e
  <2>1. <<e>> \in Seq(S) /\ Len(<<e>>) = 1 /\ <<e>>[1] = e
    OBVIOUS
  <2>2. /\ mid \in Seq(S) /\ Len(mid) = Len(front) + Len(<<e>>)
        /\ \A p \in 1..(Len(front) + Len(<<e>>)) :
             mid[p] = IF p <= Len(front) THEN front[p] ELSE <<e>>[p - Len(front)]
    BY <1>3, <2>1, ConcatProperties
  <2> HIDE DEF mid
  <2>. QED  BY <1>3, <2>1, <2>2
<1> HIDE DEF mid
<1>6. /\ mid \o back \in Seq(S) /\ Len(mid \o back) = Len(mid) + Len(back)
      /\ \A p \in 1..(Len(mid) + Len(back)) :
           (mid \o back)[p] = IF p <= Len(mid) THEN mid[p] ELSE back[p - Len(mid)]
  BY <1>4, <1>5, ConcatProperties
<1>7. Len(mid) + Len(back) = Len(s) + 1
  BY <1>2, <1>4, <1>5
<1>8. ASSUME NEW p \in 1..(Len(s) + 1)
      PROVE  (mid \o back)[p] = IF p < i THEN s[p] ELSE IF p = i THEN e ELSE s[p - 1]
  <2>0. p <= i \/ p > i
    BY <1>2
  <2>1. CASE p <= i
    BY <2>1, <1>5, <1>6, <1>7
  <2>2. CASE p > i
    <3>1. (mid \o back)[p] = back[p - i]
      BY <2>2, <1>5, <1>6, <1>7
    <3>2. back[p - i] = s[i + (p - i) - 1]
      BY <2>2, <1>2, <1>4
    <3>. QED  BY <2>2, <3>1, <3>2
  <2>. QED  BY <2>0, <2>1, <2>2
<1>. QED  BY <1>1, <1>6, <1>7, <1>8

LEMMA RemovedAt ==
  ASSUME NEW S, NEW s \in Seq(S), NEW i \in 1..Len(s)
  PROVE  /\ RemoveAt(s, i) \in Seq(S)
         /\ Len(RemoveAt(s, i)) = Len(s) - 1
         /\ \A p \in 1..(Len(s) - 1) :
              RemoveAt(s, i)[p] = IF p < i THEN s[p] ELSE s[p + 1]
<1> DEFINE front == SubSeq(s, 1, i - 1)
           back == SubSeq(s, i + 1, Len(s))
<1>1. RemoveAt(s, i) = front \o back
  BY DEF RemoveAt
<1>2. Len(s) \in Nat /\ \A p \in 1..Len(s) : s[p] \in S
  BY ElementOfSeq, LenProperties
<1>3. /\ front \in Seq(S) /\ Len(front) = i - 1
      /\ \A p \in 1..(i - 1) : front[p] = s[p]
  <2>1. \A p \in 1..(i - 1) : s[p] \in S
    BY <1>2
  <2>2. i - 1 \in Int /\ 1 \in Int
    OBVIOUS
  <2> HIDE DEF front
  <2>3. /\ SubSeq(s, 1, i - 1) \in Seq(S)
        /\ Len(SubSeq(s, 1, i - 1)) = IF 1 <= i - 1 THEN (i - 1) - 1 + 1 ELSE 0
        /\ \A p \in 1..((i - 1) - 1 + 1) : SubSeq(s, 1, i - 1)[p] = s[1 + p - 1]
    BY <2>1, <2>2, SubSeqProperties
  <2>. QED  BY <2>3, <1>2 DEF front
<1>4. /\ back \in Seq(S) /\ Len(back) = Len(s) - i
      /\ \A p \in 1..(Len(s) - i) : back[p] = s[i + p]
  <2>1. \A p \in (i + 1)..Len(s) : s[p] \in S
    BY <1>2
  <2>2. i + 1 \in Int /\ Len(s) \in Int
    BY <1>2
  <2> HIDE DEF back
  <2>3. /\ SubSeq(s, i + 1, Len(s)) \in Seq(S)
        /\ Len(SubSeq(s, i + 1, Len(s))) =
             IF i + 1 <= Len(s) THEN Len(s) - (i + 1) + 1 ELSE 0
        /\ \A p \in 1..(Len(s) - (i + 1) + 1) :
             SubSeq(s, i + 1, Len(s))[p] = s[(i + 1) + p - 1]
    BY <2>1, <2>2, SubSeqProperties
  <2>. QED  BY <2>3, <1>2 DEF back
<1> HIDE DEF front, back
<1>5. /\ front \o back \in Seq(S) /\ Len(front \o back) = Len(front) + Len(back)
      /\ \A p \in 1..(Len(front) + Len(back)) :
           (front \o back)[p] = IF p <= Len(front) THEN front[p] ELSE back[p - Len(front)]
  BY <1>3, <1>4, ConcatProperties
<1>6. ASSUME NEW p \in 1..(Len(s) - 1)
      PROVE  (front \o back)[p] = IF p < i THEN s[p] ELSE s[p + 1]
  <2>0. p < i \/ p >= i
    BY <1>2
  <2>1. CASE p < i
    BY <2>1, <1>2, <1>3, <1>4, <1>5
  <2>2. CASE p >= i
    <3>1. (front \o back)[p] = back[p - (i - 1)]
      BY <2>2, <1>2, <1>3, <1>4, <1>5
    <3>2. back[p - (i - 1)] = s[i + (p - (i - 1))]
      BY <2>2, <1>2, <1>4
    <3>. QED  BY <2>2, <3>1, <3>2
  <2>. QED  BY <2>0, <2>1, <2>2
<1>. QED  BY <1>1, <1>2, <1>3, <1>4, <1>5, <1>6

LEMMA ItemsInserted ==
  ASSUME NEW list, IsList(list), NEW x \in Tasks, NEW i \in 1..(Len(list.items) + 1)
  PROVE  /\ InsertAt(list.items, i, x) \in Seq(Tasks)
         /\ Len(InsertAt(list.items, i, x)) = Len(list.items) + 1
         /\ \A p \in 1..(Len(list.items) + 1) : InsertAt(list.items, i, x)[p] =
              IF p < i THEN list.items[p] ELSE IF p = i THEN x ELSE list.items[p - 1]
<1>1. PICK s \in Seq(Tasks) : s = list.items
  BY DEF IsList
<1>2. i \in 1..(Len(s) + 1)
  BY <1>1
<1>3. /\ InsertAt(s, i, x) \in Seq(Tasks)
      /\ Len(InsertAt(s, i, x)) = Len(s) + 1
      /\ \A p \in 1..(Len(s) + 1) :
           InsertAt(s, i, x)[p] = IF p < i THEN s[p] ELSE IF p = i THEN x ELSE s[p - 1]
  BY <1>2, InsertedAt
<1>. QED  BY <1>1, <1>3

(* A list that x was put into, before what was item i.                     *)
LEMMA PutIn ==
  ASSUME NEW list, IsList(list), NEW x \in Tasks \ Members(list),
         NEW i \in 1..(Len(list.items) + 1), NEW l2,
         l2.items = InsertAt(list.items, i, x),
         l2.pxIndex \in 0..(Len(list.items) + 1)
  PROVE  /\ IsList(l2)
         /\ Len(l2.items) = Len(list.items) + 1
         /\ \A p \in 1..(Len(list.items) + 1) :
              l2.items[p] = IF p < i THEN list.items[p] ELSE IF p = i THEN x ELSE list.items[p - 1]
         /\ Members(l2) = Members(list) \cup {x}
<1> DEFINE n == Len(list.items)
<1>1. /\ n \in Nat /\ list.items \in Seq(Tasks)
      /\ \A p \in 1..n : list.items[p] \in Members(list)
      /\ \A p, q \in 1..n : list.items[p] = list.items[q] => p = q
  BY Positions DEF IsList
<1>2. /\ l2.items \in Seq(Tasks) /\ Len(l2.items) = n + 1
      /\ \A p \in 1..(n + 1) :
           l2.items[p] = IF p < i THEN list.items[p] ELSE IF p = i THEN x ELSE list.items[p - 1]
  <2>1. /\ InsertAt(list.items, i, x) \in Seq(Tasks)
        /\ Len(InsertAt(list.items, i, x)) = Len(list.items) + 1
        /\ \A p \in 1..(Len(list.items) + 1) : InsertAt(list.items, i, x)[p] =
             IF p < i THEN list.items[p] ELSE IF p = i THEN x ELSE list.items[p - 1]
    BY ItemsInserted
  <2>. QED  BY <2>1
<1> HIDE DEF n
<1>3. DOMAIN l2.items = 1..(n + 1) /\ i \in 1..(n + 1)
  BY <1>2 DEF n
<1>4. ASSUME NEW p \in 1..(n + 1), NEW q \in 1..(n + 1), l2.items[p] = l2.items[q]
      PROVE  p = q
  <2>1. \A r \in 1..(n + 1) : r # i => IF r < i THEN r \in 1..n ELSE r - 1 \in 1..n
    BY <1>1, <1>3
  <2>2. ASSUME NEW r \in 1..(n + 1), l2.items[r] = x PROVE r = i
    <3> SUFFICES ASSUME r # i PROVE FALSE
      OBVIOUS
    <3>1. CASE r < i
      <4>1. r \in 1..n /\ list.items[r] = x
        BY <1>2, <2>1, <2>2, <3>1
      <4>. QED  BY <1>1, <4>1
    <3>2. CASE ~(r < i)
      <4>1. r - 1 \in 1..n /\ list.items[r - 1] = x
        BY <1>2, <2>1, <2>2, <3>2
      <4>. QED  BY <1>1, <4>1
    <3>. QED  BY <3>1, <3>2
  <2>3. CASE p = i \/ q = i
    BY <2>2, <2>3, <1>2, <1>3, <1>4
  <2>4. CASE p # i /\ q # i
    <3>1. (IF p < i THEN p ELSE p - 1) = (IF q < i THEN q ELSE q - 1)
      BY <1>1, <1>2, <1>3, <1>4, <2>1, <2>4
    <3>. QED  BY <2>4, <3>1, <1>1, <1>3
  <2>. QED  BY <2>3, <2>4
<1>5. IsList(l2)
  BY <1>2, <1>3, <1>4 DEF IsList, n
<1>6. Members(l2) = {l2.items[p] : p \in 1..(n + 1)} /\ Members(list) = {list.items[p] : p \in 1..n}
  BY <1>2, <1>5, Positions DEF n
<1>7. \A y : y \in Members(l2) <=> y \in Members(list) \cup {x}
  <2>1. ASSUME NEW y \in Members(l2) PROVE y \in Members(list) \cup {x}
    <3>1. PICK p \in 1..(n + 1) : y = l2.items[p]
      BY <1>6
    <3>2. p < i => p \in 1..n
      BY <1>1, <1>3
    <3>3. p > i => p - 1 \in 1..n
      BY <1>1, <1>3
    <3>. QED  BY <3>1, <3>2, <3>3, <1>1, <1>2, <1>3
  <2>2. ASSUME NEW y \in Members(list) PROVE y \in Members(l2)
    <3>1. PICK p \in 1..n : y = list.items[p]
      BY <1>6
    <3>2. CASE p < i
      <4>1. p \in 1..(n + 1) /\ l2.items[p] = y
        BY <1>1, <1>2, <3>1, <3>2
      <4>. QED  BY <4>1, <1>6
    <3>3. CASE p >= i
      <4>1. p + 1 \in 1..(n + 1) /\ ~(p + 1 < i) /\ p + 1 # i /\ (p + 1) - 1 = p
        BY <1>1, <1>3, <3>3
      <4>2. l2.items[p + 1] = y
        BY <1>2, <3>1, <4>1
      <4>. QED  BY <4>1, <4>2, <1>6
    <3>. QED  BY <1>1, <1>3, <3>2, <3>3
  <2>3. x \in Members(l2)
    BY <1>2, <1>3, <1>6
  <2>. QED  BY <2>1, <2>2, <2>3
<1>. QED  BY <1>2, <1>5, <1>7 DEF n

(* vListInsertEnd links the task, wherever pxIndex is.                     *)
LEMMA LinkEnd ==
  ASSUME NEW list, IsList(list), NEW x \in Tasks \ Members(list)
  PROVE  /\ IsList(vListInsertEnd(list, x))
         /\ Members(vListInsertEnd(list, x)) = Members(list) \cup {x}
<1> DEFINE n == Len(list.items)
           l2 == vListInsertEnd(list, x)
<1>1. n \in Nat /\ list.items \in Seq(Tasks) /\ list.pxIndex \in 0..n
  BY Positions DEF IsList
<1>2. CASE list.pxIndex = 0
  <2>1. l2.items = Append(list.items, x) /\ l2.pxIndex = 0
    BY <1>2 DEF vListInsertEnd
  <2>2. PICK s \in Seq(Tasks) : s = list.items
    BY <1>1
  <2>3. n = Len(s) /\ n + 1 \in 1..(Len(s) + 1) /\ x \in Tasks
    BY <1>1, <2>2
  <2>4. /\ InsertAt(s, n + 1, x) \in Seq(Tasks)
        /\ Len(InsertAt(s, n + 1, x)) = n + 1
        /\ \A p \in 1..(n + 1) :
             InsertAt(s, n + 1, x)[p] = IF p < n + 1 THEN s[p] ELSE x
    <3>1. PICK i \in 1..(Len(list.items) + 1) : i = n + 1
      BY <1>1
    <3>2. /\ InsertAt(list.items, i, x) \in Seq(Tasks)
          /\ Len(InsertAt(list.items, i, x)) = Len(list.items) + 1
          /\ \A p \in 1..(Len(list.items) + 1) : InsertAt(list.items, i, x)[p] =
               IF p < i THEN list.items[p] ELSE IF p = i THEN x ELSE list.items[p - 1]
      BY ItemsInserted
    <3> HIDE DEF n
    <3>. QED  BY <1>1, <2>2, <2>3, <3>1, <3>2
  <2>5. /\ Append(s, x) \in Seq(Tasks)
        /\ Len(Append(s, x)) = n + 1
        /\ \A p \in 1..(n + 1) : Append(s, x)[p] = IF p < n + 1 THEN s[p] ELSE x
    <3> HIDE DEF n
    <3>. QED  BY <1>1, <2>3, AppendProperties
  <2>6. Append(s, x) = InsertAt(s, n + 1, x)
    <3>1. \A p \in 1..(n + 1) : Append(s, x)[p] = InsertAt(s, n + 1, x)[p]
      BY <2>4, <2>5
    <3> HIDE DEF n
    <3>. QED  BY <2>4, <2>5, <3>1, SeqEqual
  <2> HIDE DEF l2
  <2>7. l2.items = InsertAt(list.items, n + 1, x) /\ l2.pxIndex \in 0..(n + 1)
    BY <1>1, <2>1, <2>2, <2>6
  <2>8. n + 1 \in 1..(n + 1)
    BY <1>1
  <2>. QED  BY <2>7, <2>8, PutIn DEF l2
<1>3. CASE list.pxIndex # 0
  <2>1. l2.items = InsertAt(list.items, list.pxIndex, x) /\ l2.pxIndex = list.pxIndex + 1
    BY <1>3 DEF vListInsertEnd
  <2>2. list.pxIndex \in 1..(n + 1) /\ list.pxIndex + 1 \in 0..(n + 1)
    BY <1>1, <1>3
  <2> HIDE DEF l2
  <2>. QED  BY <2>1, <2>2, PutIn DEF l2
<1>. QED  BY <1>2, <1>3

(* vListInsert puts the task behind all that are not greater, and keeps    *)
(* the order of the others.                                                *)
LEMMA LinkSorted ==
  ASSUME NEW list, IsList(list), NEW x \in Tasks \ Members(list), NEW greater
  PROVE  LET l2 == vListInsert(list, x, greater)
         IN /\ IsList(l2)
            /\ Members(l2) = Members(list) \cup {x}
            /\ \A t, u \in Tasks : Before(l2, t, u) /\ t # x /\ u # x => Before(list, t, u)
            /\ \E m \in Members(l2) :
                 /\ m # x => m \in greater
                 /\ \A t \in Members(list) :
                      /\ Before(l2, t, x) => t \notin greater
                      /\ Before(l2, x, t) => m # x /\ (t = m \/ Before(list, m, t))
<1> DEFINE n == Len(list.items)
           Place(p) == /\ \A q \in 1..(p - 1) : list.items[q] \notin greater
                       /\ p <= n => list.items[p] \in greater
           l2 == vListInsert(list, x, greater)
           place == FirstGreater(list.items, greater)
<1>1. n \in Nat /\ list.pxIndex \in 0..n /\ list.items \in Seq(Tasks) /\ DOMAIN list.items = 1..n
  BY Positions DEF IsList
<1>2. \E p \in 1..(n + 1) : Place(p)
  <2> DEFINE S == {p \in 1..(n + 1) : p <= n => list.items[p] \in greater}
  <2>1. S \in SUBSET Nat /\ n + 1 \in S
    BY <1>1
  <2>2. PICK m \in S : \A k \in S : m <= k
    <3> HIDE DEF S
    <3>. QED  BY <2>1, LeastOf
  <2>3. m \in 1..(n + 1) /\ (m <= n => list.items[m] \in greater)
    BY <2>2
  <2>4. \A q \in 1..(m - 1) : list.items[q] \notin greater
    <3>1. \A q \in 1..(m - 1) : q \in 1..(n + 1) /\ q <= n /\ ~(m <= q)
      BY <1>1, <2>3
    <3>. QED  BY <2>2, <3>1
  <2>. QED  BY <2>3, <2>4
<1>3. place \in 1..(n + 1) /\ Place(place)
  BY <1>2 DEF FirstGreater
<1>4. l2 = InsertBefore(list, place, x)
  BY DEF vListInsert
<1>5. /\ l2.items = InsertAt(list.items, place, x)
      /\ l2.pxIndex = IF list.pxIndex >= place THEN list.pxIndex + 1 ELSE list.pxIndex
  <2> HIDE DEF place, l2
  <2>. QED  BY <1>4 DEF InsertBefore
<1> HIDE DEF place, l2
<1>6. l2.pxIndex \in 0..(n + 1)
  BY <1>1, <1>3, <1>5
<1>7. /\ IsList(l2)
      /\ Len(l2.items) = n + 1
      /\ \A p \in 1..(n + 1) : l2.items[p] =
           IF p < place THEN list.items[p] ELSE IF p = place THEN x ELSE list.items[p - 1]
      /\ Members(l2) = Members(list) \cup {x}
  BY <1>3, <1>5, <1>6, PutIn
<1> DEFINE Old(p) == IF p < place THEN p ELSE p - 1
<1>8. DOMAIN l2.items = 1..(n + 1)
  BY <1>7, Positions
<1>9. \A p \in 1..(n + 1) : p # place => Old(p) \in 1..n /\ l2.items[p] = list.items[Old(p)]
  BY <1>1, <1>3, <1>7
<1>10. \A p \in 1..n : list.items[p] \in Members(list)
  BY Positions
<1>11. \A p \in 1..(n + 1) : l2.items[p] = x => p = place
  BY <1>9, <1>10
<1>12. ASSUME NEW t \in Tasks, NEW u \in Tasks, Before(l2, t, u), t # x, u # x
       PROVE  Before(list, t, u)
  <2>1. PICK p, q \in 1..(n + 1) : p < q /\ l2.items[p] = t /\ l2.items[q] = u
    BY <1>8, <1>12 DEF Before
  <2>2. p # place /\ q # place
    BY <2>1, <1>3, <1>7, <1>12
  <2>3. Old(p) < Old(q)
    BY <2>1, <2>2, <1>1, <1>3
  <2>. QED  BY <2>1, <2>2, <2>3, <1>1, <1>9 DEF Before
<1>13. \E m \in Members(l2) :
         /\ m # x => m \in greater
         /\ \A t \in Members(list) :
              /\ Before(l2, t, x) => t \notin greater
              /\ Before(l2, x, t) => m # x /\ (t = m \/ Before(list, m, t))
  <2> DEFINE m == IF place <= n THEN list.items[place] ELSE x
  <2>1. m \in Members(l2) /\ (m # x => m \in greater)
    BY <1>1, <1>3, <1>7, <1>10
  <2>2. ASSUME NEW t \in Members(list), Before(l2, t, x) PROVE t \notin greater
    <3>1. PICK p, q \in 1..(n + 1) : p < q /\ l2.items[p] = t /\ l2.items[q] = x
      BY <1>8, <2>2 DEF Before
    <3>2. q = place /\ p \in 1..(place - 1)
      BY <3>1, <1>3, <1>11
    <3>3. list.items[p] = t
      BY <3>1, <3>2, <1>7, <1>3
    <3>. QED  BY <3>2, <3>3, <1>3
  <2>3. ASSUME NEW t \in Members(list), Before(l2, x, t)
        PROVE  m # x /\ (t = m \/ Before(list, m, t))
    <3>1. PICK p, q \in 1..(n + 1) : p < q /\ l2.items[p] = x /\ l2.items[q] = t
      BY <1>8, <2>3 DEF Before
    <3>2. p = place /\ q # place
      BY <3>1, <1>3, <1>11
    <3>3. place <= n /\ place \in 1..n /\ Old(q) = q - 1 /\ q - 1 >= place
      BY <3>1, <3>2, <1>1, <1>3
    <3>4. q - 1 \in 1..n /\ list.items[q - 1] = t
      BY <3>1, <3>2, <3>3, <1>9
    <3>5. m = list.items[place] /\ m # x
      BY <3>3, <1>10
    <3>6. CASE q - 1 = place
      BY <3>4, <3>5, <3>6
    <3>7. CASE q - 1 # place
      <4>1. place < q - 1
        BY <3>3, <3>4, <3>7
      <4> HIDE DEF m
      <4>. QED  BY <4>1, <3>3, <3>4, <3>5, <1>1 DEF Before
    <3>. QED  BY <3>6, <3>7
  <2> HIDE DEF m
  <2>. QED  BY <2>1, <2>2, <2>3
<1>. QED  BY <1>7, <1>12, <1>13 DEF l2

(* uxListRemove unlinks the task and nothing else, in the order they are.  *)
LEMMA ItemsRemoved ==
  ASSUME NEW list, IsList(list), NEW i \in 1..Len(list.items)
  PROVE  /\ RemoveAt(list.items, i) \in Seq(Tasks)
         /\ Len(RemoveAt(list.items, i)) = Len(list.items) - 1
         /\ \A p \in 1..(Len(list.items) - 1) : RemoveAt(list.items, i)[p] =
              IF p < i THEN list.items[p] ELSE list.items[p + 1]
<1>1. PICK s \in Seq(Tasks) : s = list.items
  BY DEF IsList
<1>2. i \in 1..Len(s)
  BY <1>1
<1>3. /\ RemoveAt(s, i) \in Seq(Tasks)
      /\ Len(RemoveAt(s, i)) = Len(s) - 1
      /\ \A p \in 1..(Len(s) - 1) : RemoveAt(s, i)[p] = IF p < i THEN s[p] ELSE s[p + 1]
  BY <1>2, RemovedAt
<1>. QED  BY <1>1, <1>3

LEMMA RemoveIsAt ==
  ASSUME NEW list, IsList(list), NEW i \in 1..Len(list.items)
  PROVE  uxListRemove(list, list.items[i]) =
           [items |-> RemoveAt(list.items, i),
            pxIndex |-> IF list.pxIndex >= i THEN list.pxIndex - 1 ELSE list.pxIndex]
<1> DEFINE position == CHOOSE p \in 1..Len(list.items) : list.items[p] = list.items[i]
<1>1. position \in 1..Len(list.items) /\ list.items[position] = list.items[i]
  OBVIOUS
<1>2. position = i
  <2> HIDE DEF position
  <2>. QED  BY <1>1, Positions DEF IsList
<1>. QED  BY <1>2 DEF uxListRemove

LEMMA Unlink ==
  ASSUME NEW list, IsList(list), NEW i \in 1..Len(list.items)
  PROVE  LET l2 == uxListRemove(list, list.items[i])
         IN /\ IsList(l2)
            /\ l2.pxIndex = IF list.pxIndex >= i THEN list.pxIndex - 1 ELSE list.pxIndex
            /\ Len(l2.items) = Len(list.items) - 1
            /\ \A p \in 1..(Len(list.items) - 1) :
                 l2.items[p] = IF p < i THEN list.items[p] ELSE list.items[p + 1]
            /\ Members(l2) = Members(list) \ {list.items[i]}
            /\ \A t, u \in Tasks : Before(l2, t, u) => Before(list, t, u)
<1> DEFINE n == Len(list.items)
           l2 == uxListRemove(list, list.items[i])
           Old(p) == IF p < i THEN p ELSE p + 1
<1>1. /\ n \in Nat /\ list.pxIndex \in 0..n
      /\ \A p, q \in 1..n : list.items[p] = list.items[q] => p = q
      /\ Members(list) = {list.items[p] : p \in 1..n}
      /\ DOMAIN list.items = 1..n
  BY Positions DEF IsList
<1>2. /\ l2.items = RemoveAt(list.items, i)
      /\ l2.pxIndex = IF list.pxIndex >= i THEN list.pxIndex - 1 ELSE list.pxIndex
  <2>1. l2 = [items |-> RemoveAt(list.items, i),
              pxIndex |-> IF list.pxIndex >= i THEN list.pxIndex - 1 ELSE list.pxIndex]
    BY RemoveIsAt
  <2> HIDE DEF l2
  <2>. QED  BY <2>1
<1> HIDE DEF l2
<1>3. /\ l2.items \in Seq(Tasks) /\ Len(l2.items) = n - 1
      /\ \A p \in 1..(n - 1) : l2.items[p] = IF p < i THEN list.items[p] ELSE list.items[p + 1]
  <2>1. /\ RemoveAt(list.items, i) \in Seq(Tasks)
        /\ Len(RemoveAt(list.items, i)) = Len(list.items) - 1
        /\ \A p \in 1..(Len(list.items) - 1) : RemoveAt(list.items, i)[p] =
             IF p < i THEN list.items[p] ELSE list.items[p + 1]
    BY ItemsRemoved
  <2>. QED  BY <1>2, <2>1
<1>4. i \in 1..n /\ n \in Nat /\ n - 1 \in Nat
  BY <1>1
<1> HIDE DEF n
<1>5. DOMAIN l2.items = 1..(n - 1) /\ l2.pxIndex \in 0..(n - 1)
  BY <1>1, <1>2, <1>3, <1>4
<1>6. \A p \in 1..(n - 1) : Old(p) \in 1..n /\ Old(p) # i /\ l2.items[p] = list.items[Old(p)]
  BY <1>3, <1>4
<1>7. \A p, q \in 1..(n - 1) : /\ p < q => Old(p) < Old(q)
                               /\ Old(p) = Old(q) => p = q
  BY <1>4
<1> HIDE DEF Old
<1>8. IsList(l2)
  <2>1. \A p, q \in 1..(n - 1) : l2.items[p] = l2.items[q] => p = q
    BY <1>1, <1>6, <1>7
  <2>. QED  BY <1>3, <1>5, <2>1 DEF IsList
<1>9. ASSUME NEW t, NEW u, Before(l2, t, u) PROVE Before(list, t, u)
  <2>1. PICK p, q \in 1..(n - 1) : p < q /\ l2.items[p] = t /\ l2.items[q] = u
    BY <1>5, <1>9 DEF Before
  <2>2. /\ Old(p) \in 1..n /\ Old(q) \in 1..n /\ Old(p) < Old(q)
        /\ list.items[Old(p)] = t /\ list.items[Old(q)] = u
    BY <2>1, <1>6, <1>7
  <2>. QED  BY <2>2, <1>1 DEF Before
<1>10. Members(l2) = {l2.items[p] : p \in 1..(n - 1)}
  BY <1>3, <1>8, Positions
<1>11. ASSUME NEW y \in Members(l2) PROVE y \in Members(list) /\ y # list.items[i]
  <2>1. PICK p \in 1..(n - 1) : y = l2.items[p]
    BY <1>10
  <2>. QED  BY <2>1, <1>1, <1>4, <1>6
<1>12. ASSUME NEW y \in Members(list), y # list.items[i] PROVE y \in Members(l2)
  <2>1. PICK p \in 1..n : y = list.items[p]
    BY <1>1
  <2>2. p # i
    BY <2>1, <1>12
  <2>3. CASE p < i
    <3>1. p \in 1..(n - 1)
      BY <2>3, <1>4
    <3>. QED  BY <2>1, <2>3, <3>1, <1>3, <1>10
  <2>4. CASE p > i
    <3>1. p - 1 \in 1..(n - 1) /\ ~(p - 1 < i) /\ (p - 1) + 1 = p
      BY <2>4, <1>4
    <3>2. l2.items[p - 1] = y
      BY <2>1, <3>1, <1>3
    <3>. QED  BY <3>1, <3>2, <1>10
  <2>. QED  BY <2>2, <2>3, <2>4, <1>4
<1>. QED  BY <1>2, <1>3, <1>8, <1>9, <1>11, <1>12 DEF l2, n
-----------------------------------------------------------------------------
(* The walks.  One that has come to x goes on to the tasks behind it ...   *)
LEMMA MoveOn ==
  ASSUME NEW list, IsList(list)
  PROVE  LET l2 == NextEntry(list)
         IN /\ IsList(l2) /\ l2.items = list.items /\ Members(l2) = Members(list)
            /\ l2.pxIndex = IF list.pxIndex = Len(list.items)
                            THEN IF list.items = <<>> THEN 0 ELSE 1
                            ELSE list.pxIndex + 1
            /\ \A t, u \in Tasks : Before(l2, t, u) => Before(list, t, u)
            /\ OwnerAtIndex(l2, Nobody) \in Tasks \cup {Nobody}
<1> DEFINE n == Len(list.items)
           l2 == NextEntry(list)
<1>1. n \in Nat /\ list.pxIndex \in 0..n /\ (list.items = <<>> <=> n = 0)
  BY Positions DEF IsList
<1>2. /\ l2.items = list.items
      /\ l2.pxIndex = IF list.items = <<>> THEN 0 ELSE (list.pxIndex % n) + 1
  BY DEF NextEntry
<1>3. n # 0 => list.pxIndex % n = IF list.pxIndex = n THEN 0 ELSE list.pxIndex
  <2>1. ASSUME n # 0, list.pxIndex = n PROVE list.pxIndex % n = 0
    <3>1. n = n * 1 /\ n \in Nat \ {0}
      BY <1>1, <2>1
    <3> HIDE DEF n
    <3>2. (n * 1) % n = 0
      BY <3>1, DivModMultiple
    <3>. QED  BY <2>1, <3>1, <3>2
  <2>2. ASSUME n # 0, list.pxIndex # n PROVE list.pxIndex % n = list.pxIndex
    <3>1. list.pxIndex \in Nat /\ n \in Nat \ {0} /\ list.pxIndex < n
      BY <1>1, <2>2
    <3> HIDE DEF n
    <3>. QED  BY <3>1, DivModSmall
  <2>. QED  BY <2>1, <2>2
<1> HIDE DEF l2, n
<1>4. l2.pxIndex = IF list.pxIndex = n THEN IF list.items = <<>> THEN 0 ELSE 1
                   ELSE list.pxIndex + 1
  BY <1>1, <1>2, <1>3
<1>5. l2.pxIndex \in 0..n
  BY <1>1, <1>4
<1>6. IsList(l2)
  BY <1>2, <1>5 DEF IsList, n
<1>7. Members(l2) = Members(list) /\ \A t, u \in Tasks : Before(l2, t, u) => Before(list, t, u)
  BY <1>2 DEF Members, Before
<1>8. OwnerAtIndex(l2, Nobody) \in Tasks \cup {Nobody}
  <2>1. l2.pxIndex # 0 => l2.items[l2.pxIndex] \in Tasks
    BY <1>2, <1>5, <1>6, Positions DEF n
  <2>. QED  BY <2>1 DEF OwnerAtIndex
<1>. QED  BY <1>2, <1>4, <1>6, <1>7, <1>8 DEF l2, n

LEMMA Begin ==
  ASSUME NEW list, IsList(list)
  PROVE  LET l2 == FirstEntry(list)
         IN /\ IsList(l2) /\ Members(l2) = Members(list)
            /\ Len(list.items) \in Nat
            /\ OnItsWay(l2, Len(list.items), OwnerAtIndex(l2, Nobody))
            /\ Ahead(l2, Len(list.items)) = Members(list)
            /\ \A t, u : Before(l2, t, u) <=> Before(list, t, u)
            /\ OwnerAtIndex(l2, Nobody) \in Tasks \cup {Nobody}
<1> DEFINE n == Len(list.items)
           l1 == [items |-> list.items, pxIndex |-> 0]
           l2 == FirstEntry(list)
<1>1. n \in Nat /\ (list.items = <<>> <=> n = 0)
  BY Positions
<1>2. l1.items = list.items /\ l1.pxIndex = 0
  OBVIOUS
<1> HIDE DEF l1
<1>3. IsList(l1)
  BY <1>1, <1>2 DEF IsList
<1>4. l2 = NextEntry(l1)
  BY DEF FirstEntry, l1
<1> HIDE DEF l2
<1>5. /\ IsList(l2) /\ l2.items = l1.items
      /\ l2.pxIndex = IF l1.pxIndex = Len(l1.items)
                      THEN IF l1.items = <<>> THEN 0 ELSE 1 ELSE l1.pxIndex + 1
      /\ OwnerAtIndex(l2, Nobody) \in Tasks \cup {Nobody}
  BY <1>3, <1>4, MoveOn
<1>6. l2.items = list.items /\ Len(l2.items) = n /\ l2.pxIndex = IF n = 0 THEN 0 ELSE 1
  BY <1>1, <1>2, <1>5
<1>7. Members(l2) = Members(list) /\ \A t, u : Before(l2, t, u) <=> Before(list, t, u)
  BY <1>6 DEF Members, Before
<1>8. Members(list) = {list.items[p] : p \in 1..n}
  BY Positions
<1>9. OnItsWay(l2, n, OwnerAtIndex(l2, Nobody))
  <2> SUFFICES ASSUME n > 0
               PROVE  /\ l2.pxIndex > 0 /\ n = Len(l2.items) - l2.pxIndex + 1
                      /\ OwnerAtIndex(l2, Nobody) = l2.items[l2.pxIndex]
    BY DEF OnItsWay
  <2>1. l2.pxIndex = 1
    BY <1>1, <1>6
  <2> HIDE DEF n
  <2>. QED  BY <1>1, <1>6, <2>1 DEF OwnerAtIndex
<1>10. Ahead(l2, n) = Members(list)
  BY <1>1, <1>6, <1>8 DEF Ahead
<1>. QED  BY <1>1, <1>5, <1>7, <1>9, <1>10 DEF l2

(* ... either leaving x where it is,                                       *)
LEMMA PassOver ==
  ASSUME NEW list, IsList(list), NEW n \in Nat \ {0}, NEW x, OnItsWay(list, n, x)
  PROVE  LET l2 == NextEntry(list)
         IN /\ IsList(l2) /\ Members(l2) = Members(list)
            /\ x \in Members(list) /\ x \in Ahead(list, n)
            /\ Ahead(l2, n - 1) = Ahead(list, n) \ {x}
            /\ OnItsWay(l2, n - 1, OwnerAtIndex(l2, Nobody))
            /\ \A t, u \in Tasks : Before(l2, t, u) => Before(list, t, u)
            /\ OwnerAtIndex(l2, Nobody) \in Tasks \cup {Nobody}
<1> DEFINE m == Len(list.items)
           i == list.pxIndex
           l2 == NextEntry(list)
<1>1. /\ m \in Nat /\ i \in 1..m /\ n = m - i + 1 /\ x = list.items[i]
      /\ \A p, q \in 1..m : list.items[p] = list.items[q] => p = q
      /\ Members(list) = {list.items[p] : p \in 1..m}
      /\ (list.items = <<>> <=> m = 0)
  BY Positions DEF IsList, OnItsWay
<1>2. /\ IsList(l2) /\ l2.items = list.items /\ Members(l2) = Members(list)
      /\ l2.pxIndex = IF i = m THEN IF list.items = <<>> THEN 0 ELSE 1 ELSE i + 1
      /\ \A t, u \in Tasks : Before(l2, t, u) => Before(list, t, u)
      /\ OwnerAtIndex(l2, Nobody) \in Tasks \cup {Nobody}
  BY MoveOn
<1> HIDE DEF l2
<1>3. n = 1 <=> i = m
  BY <1>1
<1>4. Ahead(list, n) = {list.items[p] : p \in i..m} /\ Len(l2.items) = m
  BY <1>2 DEF Ahead
<1>5. x \in Members(list) /\ x \in Ahead(list, n)
  BY <1>1, <1>4
<1>6. Ahead(l2, n - 1) = IF i = m THEN {} ELSE {list.items[p] : p \in (i + 1)..m}
  <2>1. n - 1 = 0 <=> i = m
    BY <1>3
  <2>2. i # m => l2.pxIndex = i + 1
    BY <1>2
  <2> HIDE DEF i, m
  <2>. QED  BY <1>2, <1>4, <2>1, <2>2 DEF Ahead
<1>7. Ahead(list, n) \ {x} = {list.items[p] : p \in (i + 1)..m}
  <2>1. \A p \in i..m : p \in 1..m /\ (p = i \/ p \in (i + 1)..m)
    BY <1>1
  <2>2. \A p \in (i + 1)..m : p \in i..m /\ p \in 1..m /\ p # i
    BY <1>1
  <2>. QED  BY <2>1, <2>2, <1>1, <1>4
<1>8. i = m => (i + 1)..m = {}
  BY <1>1
<1>9. Ahead(l2, n - 1) = Ahead(list, n) \ {x}
  BY <1>6, <1>7, <1>8
<1>10. OnItsWay(l2, n - 1, OwnerAtIndex(l2, Nobody))
  <2> SUFFICES ASSUME n - 1 > 0
               PROVE  /\ l2.pxIndex > 0 /\ n - 1 = Len(l2.items) - l2.pxIndex + 1
                      /\ OwnerAtIndex(l2, Nobody) = l2.items[l2.pxIndex]
    BY DEF OnItsWay
  <2>1. l2.pxIndex = i + 1
    BY <1>2, <1>3
  <2> HIDE DEF i, m
  <2>. QED  BY <1>1, <1>4, <2>1 DEF OwnerAtIndex
<1>. QED  BY <1>2, <1>5, <1>9, <1>10 DEF l2

(* ... or unlinking it, although it is the one pxIndex points to.          *)
LEMMA TakeOut ==
  ASSUME NEW list, IsList(list), NEW n \in Nat \ {0}, NEW x, OnItsWay(list, n, x)
  PROVE  LET l2 == NextEntry(uxListRemove(list, x))
         IN /\ IsList(l2) /\ Members(l2) = Members(list) \ {x}
            /\ x \in Members(list) /\ x \in Ahead(list, n)
            /\ Ahead(l2, n - 1) = Ahead(list, n) \ {x}
            /\ OnItsWay(l2, n - 1, OwnerAtIndex(l2, Nobody))
            /\ \A t, u \in Tasks : Before(l2, t, u) => Before(list, t, u)
            /\ OwnerAtIndex(l2, Nobody) \in Tasks \cup {Nobody}
<1> DEFINE m == Len(list.items)
           i == list.pxIndex
           l1 == uxListRemove(list, x)
           l2 == NextEntry(l1)
<1>1. /\ m \in Nat /\ i \in 1..m /\ n = m - i + 1 /\ x = list.items[i]
      /\ \A p, q \in 1..m : list.items[p] = list.items[q] => p = q
      /\ Members(list) = {list.items[p] : p \in 1..m}
  BY Positions DEF IsList, OnItsWay
<1>2. /\ IsList(l1) /\ l1.pxIndex = i - 1 /\ Len(l1.items) = m - 1
      /\ \A p \in 1..(m - 1) : l1.items[p] = IF p < i THEN list.items[p] ELSE list.items[p + 1]
      /\ Members(l1) = Members(list) \ {x}
      /\ \A t, u \in Tasks : Before(l1, t, u) => Before(list, t, u)
  <2>1. i \in 1..Len(list.items) /\ list.pxIndex >= i
    BY <1>1
  <2> HIDE DEF l1, i
  <2>2. LET l == uxListRemove(list, list.items[i])
        IN /\ IsList(l)
           /\ l.pxIndex = IF list.pxIndex >= i THEN list.pxIndex - 1 ELSE list.pxIndex
           /\ Len(l.items) = Len(list.items) - 1
           /\ \A p \in 1..(Len(list.items) - 1) :
                l.items[p] = IF p < i THEN list.items[p] ELSE list.items[p + 1]
           /\ Members(l) = Members(list) \ {list.items[i]}
           /\ \A t, u \in Tasks : Before(l, t, u) => Before(list, t, u)
    BY <2>1, Unlink
  <2>3. l1 = uxListRemove(list, list.items[i])
    BY <1>1 DEF l1
  <2>. QED  BY <2>1, <2>2, <2>3, <1>1 DEF i
<1> HIDE DEF l1
<1>3. /\ IsList(l2) /\ l2.items = l1.items /\ Members(l2) = Members(l1)
      /\ l2.pxIndex = IF l1.pxIndex = Len(l1.items)
                      THEN IF l1.items = <<>> THEN 0 ELSE 1 ELSE l1.pxIndex + 1
      /\ \A t, u \in Tasks : Before(l2, t, u) => Before(l1, t, u)
      /\ OwnerAtIndex(l2, Nobody) \in Tasks \cup {Nobody}
  BY <1>2, MoveOn
<1> HIDE DEF l2
<1>4. n = 1 <=> i = m
  BY <1>1
<1>5. (i # m => l2.pxIndex = i) /\ Len(l2.items) = m - 1
  BY <1>1, <1>2, <1>3
<1>6. Ahead(list, n) = {list.items[p] : p \in i..m}
  BY DEF Ahead
<1>7. x \in Members(list) /\ x \in Ahead(list, n)
  BY <1>1, <1>6
<1>8. ASSUME NEW p \in i..(m - 1) PROVE l2.items[p] = list.items[p + 1]
  <2>1. p \in 1..(m - 1) /\ ~(p < i)
    BY <1>1
  <2> HIDE DEF i, m
  <2>. QED  BY <2>1, <1>2, <1>3
<1>9. Ahead(list, n) \ {x} = {list.items[p] : p \in (i + 1)..m}
  <2>1. \A p \in i..m : p \in 1..m /\ (p = i \/ p \in (i + 1)..m)
    BY <1>1
  <2>2. \A p \in (i + 1)..m : p \in i..m /\ p \in 1..m /\ p # i
    BY <1>1
  <2>. QED  BY <2>1, <2>2, <1>1, <1>6
<1>10. {list.items[p] : p \in (i + 1)..m} = {l2.items[p] : p \in i..(m - 1)}
  <2>1. ASSUME NEW p \in (i + 1)..m PROVE list.items[p] \in {l2.items[q] : q \in i..(m - 1)}
    <3>1. p - 1 \in i..(m - 1) /\ (p - 1) + 1 = p
      BY <1>1
    <3>. QED  BY <3>1, <1>8
  <2>2. ASSUME NEW p \in i..(m - 1) PROVE l2.items[p] \in {list.items[q] : q \in (i + 1)..m}
    <3>1. p + 1 \in (i + 1)..m
      BY <1>1
    <3>. QED  BY <3>1, <1>8
  <2>. QED  BY <2>1, <2>2
<1>11. Ahead(l2, n - 1) = IF i = m THEN {} ELSE {l2.items[p] : p \in i..(m - 1)}
  <2>1. n - 1 = 0 <=> i = m
    BY <1>4
  <2> HIDE DEF i, m
  <2>. QED  BY <1>5, <2>1 DEF Ahead
<1>12. i = m => i..(m - 1) = {}
  BY <1>1
<1>13. Ahead(l2, n - 1) = Ahead(list, n) \ {x}
  BY <1>9, <1>10, <1>11, <1>12
<1>14. OnItsWay(l2, n - 1, OwnerAtIndex(l2, Nobody))
  <2> SUFFICES ASSUME n - 1 > 0
               PROVE  /\ l2.pxIndex > 0 /\ n - 1 = Len(l2.items) - l2.pxIndex + 1
                      /\ OwnerAtIndex(l2, Nobody) = l2.items[l2.pxIndex]
    BY DEF OnItsWay
  <2>1. l2.pxIndex = i
    BY <1>4, <1>5
  <2> HIDE DEF i, m
  <2>. QED  BY <1>1, <1>5, <2>1 DEF OwnerAtIndex
<1>. QED  BY <1>2, <1>3, <1>7, <1>13, <1>14 DEF l2, l1
-----------------------------------------------------------------------------
(* The daemon and the ticks that pend.                                     *)
LEMMA DaemonInit == Init => DaemonInv
<1> SUFFICES ASSUME Init PROVE DaemonInv
  OBVIOUS
<1>1. /\ pc = "create" /\ daemon = "start" /\ uxSchedulerSuspended = 0
      /\ xTickCount = 0 /\ xPendedTicks = 0 /\ xPendedCounts = 0
  BY DEF Init
<1>2. xYieldPending \in BOOLEAN /\ exited \in BOOLEAN
  BY DEF Init
<1>. QED  BY <1>1, <1>2, ConstantsAssumption DEF DaemonInv, Owed

LEMMA TickIsCounted ==
  ASSUME xTaskIncrementTick
  PROVE  /\ xTickCount' = xTickCount + 1
         /\ exited' \in BOOLEAN
         /\ pc' = IF exited' THEN "run" ELSE "kill"
  BY DEF xTaskIncrementTick

LEMMA DaemonNext == DaemonInv /\ [Next]_vars => DaemonInv'
<1> SUFFICES ASSUME DaemonInv, [Next]_vars PROVE DaemonInv'
  OBVIOUS
<1> USE ConstantsAssumption DEF Owed
<1>1. CASE Boot
  BY <1>1 DEF Boot, xTaskCreatePeriodic, vTaskStartScheduler, DaemonInv, daemonVars
<1>2. CASE vPortSystemTickHandler
  BY <1>2 DEF vPortSystemTickHandler, xTaskIncrementTick, TickSignal, DaemonInv, daemonVars
<1>3. CASE PendTick
  BY <1>3 DEF PendTick, TickSignal, vTaskSwitchContext, DaemonInv
<1>4. CASE KillTask \/ SpareTask \/ WakeTask \/ SkipTask \/ LeaveTask
  <2>1. UNCHANGED <<pc, xTickCount, pxCurrentTCB, exited, daemonVars>>
    BY <1>4 DEF KillTask, SpareTask, WakeTask, SkipTask, LeaveTask, WalkOn
  <2>. QED  BY <2>1 DEF DaemonInv, daemonVars
<1>5. CASE KillTasksReturns
  BY <1>5 DEF KillTasksReturns, DaemonInv, daemonVars
<1>6. CASE TickHandlerReturns
  BY <1>6 DEF TickHandlerReturns, vTaskSwitchContext, HighestPriorityTask, DaemonReady, DaemonInv
<1>7. CASE ReplayReturns
  BY <1>7 DEF ReplayReturns, DaemonInv
<1>8. CASE vTaskSuspendAll \/ vTaskPlaceOnEventListRestricted \/ xTaskResumeAll
  BY <1>8 DEF vTaskSuspendAll, vTaskPlaceOnEventListRestricted, xTaskResumeAll, DaemonStep, DaemonInv
<1>9. CASE ReplayTick
  <2>1. /\ xTickCount' = xTickCount + 1 /\ exited' \in BOOLEAN
        /\ pc' = IF exited' THEN "run" ELSE "kill"
    BY <1>9, TickIsCounted DEF ReplayTick
  <2>. QED  BY <1>9, <2>1 DEF ReplayTick, DaemonInv, daemonVars
<1>10. CASE ResumeAllReturns
  <2>1. /\ daemon = "replaying" /\ daemon' = IF xYieldPending THEN "blocked" ELSE "yielding"
        /\ xPendedTicks' = 0 /\ xPendedCounts' = 0
        /\ UNCHANGED <<xTickCount, exited, pc, uxSchedulerSuspended>>
        /\ ~exited /\ pc = "run"
    BY <1>10 DEF ResumeAllReturns, DaemonStep, DaemonInv
  <2>2. xYieldPending' \in BOOLEAN
    BY <1>10 DEF ResumeAllReturns, vTaskSwitchContext, DaemonInv
  <2>. QED  BY <2>1, <2>2 DEF DaemonInv
<1>11. CASE vPortYield
  BY <1>11 DEF vPortYield, DaemonStep, vTaskSwitchContext, DaemonInv
<1>12. CASE UNCHANGED vars
  BY <1>12 DEF vars, daemonVars, DaemonInv
<1>. QED
  BY <1>1, <1>2, <1>3, <1>4, <1>5, <1>6, <1>7, <1>8, <1>9, <1>10, <1>11, <1>12
  DEF Next, Tick, Handler, Daemon

(* A signal is counted on its arrival, by the handler or as pending ...    *)
LEMMA SignalCounts ==
  ASSUME DaemonInv, Tick
  PROVE  TicksAccounted' = TicksAccounted + 1
<1> USE DEF TicksAccounted, Owed
<1>1. CASE vPortSystemTickHandler
  BY <1>1 DEF vPortSystemTickHandler, xTaskIncrementTick, TickSignal, DaemonInv, daemonVars
<1>2. CASE PendTick
  BY <1>2 DEF PendTick, TickSignal, DaemonInv
<1>. QED  BY <1>1, <1>2 DEF Tick

(* ... and what the code does between two signals accounts for no other.   *)
LEMMA NothingElseCounts ==
  ASSUME DaemonInv, Boot \/ Handler \/ Daemon
  PROVE  TicksAccounted' = TicksAccounted
<1> USE DEF TicksAccounted, Owed
<1>1. CASE Boot
  BY <1>1 DEF Boot, xTaskCreatePeriodic, vTaskStartScheduler, DaemonInv, daemonVars
<1>2. CASE KillTask \/ SpareTask \/ WakeTask \/ SkipTask \/ LeaveTask
  <2>1. UNCHANGED <<pc, exited, xTickCount, daemonVars>>
    BY <1>2 DEF KillTask, SpareTask, WakeTask, SkipTask, LeaveTask, WalkOn
  <2>. QED  BY <2>1 DEF DaemonInv, daemonVars
<1>3. CASE KillTasksReturns
  BY <1>3 DEF KillTasksReturns, DaemonInv, daemonVars
<1>4. CASE TickHandlerReturns
  BY <1>4 DEF TickHandlerReturns, DaemonInv
<1>5. CASE ReplayReturns
  BY <1>5 DEF ReplayReturns, DaemonInv
<1>6. CASE vTaskSuspendAll \/ vTaskPlaceOnEventListRestricted \/ xTaskResumeAll
  BY <1>6 DEF vTaskSuspendAll, vTaskPlaceOnEventListRestricted, xTaskResumeAll, DaemonStep, DaemonInv
<1>7. CASE ReplayTick
  <2>1. /\ xTickCount' = xTickCount + 1
        /\ pc' = IF exited' THEN "run" ELSE "kill"
    BY <1>7, TickIsCounted DEF ReplayTick
  <2>2. /\ ~exited /\ pc = "run" /\ daemon = "replaying"
        /\ daemon' = daemon /\ xPendedCounts' = xPendedCounts
    BY <1>7 DEF ReplayTick, daemonVars
  <2>3. xTickCount \in Nat /\ xPendedCounts \in Int
    BY DEF DaemonInv
  <2>. QED  BY <2>1, <2>2, <2>3
<1>8. CASE ResumeAllReturns
  BY <1>8 DEF ResumeAllReturns, DaemonStep, DaemonInv
<1>9. CASE vPortYield
  BY <1>9 DEF vPortYield, DaemonStep, DaemonInv
<1>. QED
  BY <1>1, <1>2, <1>3, <1>4, <1>5, <1>6, <1>7, <1>8, <1>9 DEF Handler, Daemon

LEMMA NextCountsSignals == DaemonInv /\ [Next]_vars => [CountsSignals]_vars
<1> SUFFICES ASSUME DaemonInv, Next PROVE CountsSignals
  OBVIOUS
<1>1. CASE Tick
  BY <1>1, SignalCounts DEF CountsSignals
<1>2. CASE ~Tick
  <2>1. TicksAccounted' = TicksAccounted
    BY <1>2, NothingElseCounts DEF Next
  <2>2. TicksAccounted \in Int
    BY DEF DaemonInv, TicksAccounted, Owed
  <2>. QED  BY <1>2, <2>1, <2>2 DEF CountsSignals
<1>. QED  BY <1>1, <1>2

(* Every tick that arrives is counted exactly once, whether                *)
(* xTaskIncrementTick handles it at once or it pends while vTaskSuspendAll *)
(* is in force and xTaskResumeAll replays it.                              *)
THEOREM TicksAreReplayed == Spec => NoTickLost
<1>1. Init => DaemonInv
  BY DaemonInit
<1>2. DaemonInv /\ [Next]_vars => DaemonInv'
  BY DaemonNext
<1>3. DaemonInv /\ [Next]_vars => [CountsSignals]_vars
  BY NextCountsSignals
<1>. QED  BY <1>1, <1>2, <1>3, PTL DEF Spec, NoTickLost
-----------------------------------------------------------------------------
(* Keys and the ready list.                                                *)
LEMMA TaskSetFacts ==
  ASSUME WellFormed(Task_Set), NEW t \in Tasks
  PROVE  /\ Period(t) \in Nat \ {0} /\ Duration(t) \in Nat \ {0}
         /\ Constraint(t) \in Nat
         /\ Hiperperiod \in Nat
  BY ConstantsAssumption DEF WellFormed, TaskSetType, Period, Duration, Constraint, Hiperperiod

LEMMA KeyType ==
  ASSUME WellFormed(Task_Set), NEW t \in Tasks, NEW tick \in Nat, NEW met
  PROVE  ReadyKey(t, tick, met) \in Keys
<1>1. IsBlue(t, met) \in BOOLEAN
  BY DEF IsBlue
<1>2. Period(t) + tick - (tick % Period(t)) \in Int
  BY TaskSetFacts, DivMod
<1>. QED  BY <1>1, <1>2 DEF ReadyKey, Keys

LEMMA MetOnceType ==
  ASSUME NEW met \in 0..(CounterModulus - 1)
  PROVE  MetOnce(met) \in 0..(CounterModulus - 1)
  BY ConstantsAssumption, DivMod DEF MetOnce

(* No key precedes itself, and the others are ranked.                      *)
LEMMA KeyOrder ==
  ASSUME NEW k \in Keys, NEW l \in Keys, NEW m \in Keys
  PROVE  /\ ~Precedes(k, k)
         /\ Precedes(k, l) => ~Precedes(l, k)
         /\ Precedes(k, l) /\ ~Precedes(m, l) => Precedes(k, m)
<1>1. /\ k.blue \in BOOLEAN /\ l.blue \in BOOLEAN /\ m.blue \in BOOLEAN
      /\ k.deadline \in Int /\ l.deadline \in Int /\ m.deadline \in Int
  BY DEF Keys
<1>. QED  BY <1>1 DEF Precedes

LEMMA InList ==
  ASSUME NEW list, IsList(list), NEW t, NEW u, Before(list, t, u)
  PROVE  t \in Members(list) /\ u \in Members(list) /\ t # u
  BY Positions DEF Before, IsList

(* addTaskToReadyList keeps the list sorted, although it changes the key   *)
(* of the task it adds, and a task that had only urgent ones before it     *)
(* still has.                                                              *)
LEMMA AddReady ==
  ASSUME TypesInv, xTickCount \in Nat, IsList(readyList), Sorted(readyList, xItemValue),
         NEW t \in Tasks \ Members(readyList), GoesReady(t, previous_deadline_met[t]),
         NEW wait, prvAddTaskToReadyList(t, readyList, wait)
  PROVE  /\ waitList' = wait
         /\ xItemValue' = [xItemValue EXCEPT ![t] =
                             ReadyKey(t, xTickCount, previous_deadline_met[t])]
         /\ xItemValue' \in [Tasks -> Keys]
         /\ IsList(readyList') /\ Members(readyList)' = Members(readyList) \cup {t}
         /\ Sorted(readyList', xItemValue')
         /\ \A c \in Tasks \ {t} : OnlyUrgentBefore(c, readyList, xItemValue) =>
                                     OnlyUrgentBefore(c, readyList', xItemValue')
<1> DEFINE key == xItemValue'
           greater == {u \in Tasks : Precedes(key[t], key[u])}
<1>1. /\ waitList' = wait
      /\ xItemValue' = [xItemValue EXCEPT ![t] = ReadyKey(t, xTickCount, previous_deadline_met[t])]
      /\ readyList' = vListInsert(readyList, t, greater)
  BY DEF prvAddTaskToReadyList
<1>2. key \in [Tasks -> Keys] /\ \A u \in Tasks \ {t} : key[u] = xItemValue[u]
  BY <1>1, KeyType DEF TypesInv
<1> HIDE DEF key, greater
<1>3. /\ IsList(readyList') /\ Members(readyList') = Members(readyList) \cup {t}
      /\ \A u, v \in Tasks : Before(readyList', u, v) /\ u # t /\ v # t => Before(readyList, u, v)
      /\ \E m \in Members(readyList') :
           /\ m # t => m \in greater
           /\ \A u \in Members(readyList) :
                /\ Before(readyList', u, t) => u \notin greater
                /\ Before(readyList', t, u) => m # t /\ (u = m \/ Before(readyList, m, u))
  BY <1>1, LinkSorted
<1>4. PICK m \in Members(readyList') :
        /\ m # t => m \in greater
        /\ \A u \in Members(readyList) :
             /\ Before(readyList', u, t) => u \notin greater
             /\ Before(readyList', t, u) => m # t /\ (u = m \/ Before(readyList, m, u))
  BY <1>3
<1>5. Members(readyList) \subseteq Tasks /\ Members(readyList') \subseteq Tasks
  BY <1>3, Positions
<1>6. \A u \in Tasks : u \in greater <=> Precedes(key[t], key[u])
  BY DEF greater
<1>7. ASSUME NEW u \in Tasks, Before(readyList', t, u) PROVE Precedes(key[t], key[u])
  <2>1. u \in Members(readyList) /\ u # t
    BY <1>3, <1>7, InList
  <2>2. m # t /\ m \in Tasks /\ Precedes(key[t], key[m]) /\ (u = m \/ Before(readyList, m, u))
    BY <1>4, <1>5, <1>6, <1>7, <2>1
  <2>3. ~Precedes(key[u], key[m])
    <3>1. CASE u = m
      BY <1>2, <2>2, <3>1, KeyOrder
    <3>2. CASE Before(readyList, m, u)
      BY <1>2, <2>1, <2>2, <3>2 DEF Sorted
    <3>. QED  BY <2>2, <3>1, <3>2
  <2>. QED  BY <1>2, <2>2, <2>3, KeyOrder
<1>8. ASSUME NEW u \in Tasks, Before(readyList', u, t) PROVE ~Precedes(key[t], key[u])
  <2>1. u \in Members(readyList)
    BY <1>3, <1>8, InList
  <2>. QED  BY <1>4, <1>6, <1>8, <2>1
<1>9. Sorted(readyList', key)
  <2> SUFFICES ASSUME NEW u \in Tasks, NEW v \in Tasks, Before(readyList', u, v)
               PROVE  ~Precedes(key[v], key[u])
    BY DEF Sorted
  <2>1. CASE u = t
    BY <2>1, <1>2, <1>7, KeyOrder
  <2>2. CASE v = t
    BY <2>2, <1>8
  <2>3. CASE u # t /\ v # t
    BY <2>3, <1>2, <1>3 DEF Sorted
  <2>. QED  BY <2>1, <2>2, <2>3
<1>10. ASSUME NEW c \in Tasks \ {t}, OnlyUrgentBefore(c, readyList, xItemValue)
       PROVE  OnlyUrgentBefore(c, readyList', key)
  <2> SUFFICES ASSUME NEW u \in Tasks, Before(readyList', u, c)
               PROVE  Precedes(key[u], key[c])
    BY DEF OnlyUrgentBefore
  <2>1. CASE u = t
    BY <2>1, <1>7
  <2>2. CASE u # t
    BY <2>2, <1>2, <1>3, <1>10 DEF OnlyUrgentBefore
  <2>. QED  BY <2>1, <2>2
<1>. QED  BY <1>1, <1>2, <1>3, <1>9, <1>10 DEF key, Members

(* A task that is to wait, when it is created.                             *)
LEMMA AddWaiting ==
  ASSUME NEW t, ~GoesReady(t, previous_deadline_met[t]), xTickCount = 0,
         prvAddTaskToReadyList(t, readyList, waitList)
  PROVE  /\ xItemValue' = xItemValue /\ readyList' = readyList
         /\ waitList' = vListInsertEnd(waitList, t)
  BY DEF prvAddTaskToReadyList
-----------------------------------------------------------------------------
(* What each step does to the lists.                                       *)
LEMMA HeadIsFirst ==
  ASSUME IsList(readyList), readyList.items # <<>>
  PROVE  /\ Head(readyList.items) \in Members(readyList)
         /\ Head(readyList.items) \in Tasks
         /\ \A u : ~Before(readyList, u, Head(readyList.items))
<1>1. 1 \in 1..Len(readyList.items)
  BY Positions
<1>2. Head(readyList.items) = readyList.items[1]
  BY <1>1, Positions DEF IsList
<1>3. \A p \in 1..Len(readyList.items) : readyList.items[p] = readyList.items[1] => p = 1
  BY <1>1, Positions DEF IsList
<1>4. \A p \in 1..Len(readyList.items) : ~(p < 1)
  OBVIOUS
<1>. QED  BY <1>1, <1>2, <1>3, <1>4, Positions DEF Before

(* The running task whose job the tick completes.                          *)
Finished ==
  {t \in Tasks : /\ t = pxCurrentTCB
                 /\ (IF xRemainingTicks[t] > 0 THEN xRemainingTicks[t] - 1 ELSE 0) = 0
                 /\ Elapsed(t, xTickCount + 1) <= Period(t)}

LEMMA TickLists ==
  ASSUME StructureInv, pc = "run", ~exited, xTaskIncrementTick, Task_Set' = Task_Set
  PROVE  /\ ListsInv'
         /\ Finished \subseteq Members(readyList)
         /\ Members(readyList)' = Members(readyList) \ Finished
         /\ Members(waitList)' = Members(waitList) \cup Finished
         /\ ~exited' => /\ OnItsWay(readyList', left', Tcb')
                        /\ Ahead(readyList', left') = Members(readyList)'
                        /\ left' \in Nat /\ Tcb' \in Tasks \cup {Nobody}
         /\ exited' => UNCHANGED <<Tcb, left>>
         /\ UNCHANGED xItemValue
         /\ previous_deadline_met' \in [Tasks -> 0..(CounterModulus - 1)]
         /\ OnlyUrgentBefore(pxCurrentTCB, readyList', xItemValue')
<1> DEFINE t == pxCurrentTCB
           remaining == IF xRemainingTicks[t] > 0 THEN xRemainingTicks[t] - 1 ELSE 0
           completes == t \in Tasks /\ remaining = 0 /\ Elapsed(t, xTickCount + 1) <= Period(t)
           ready == IF completes THEN uxListRemove(readyList, t) ELSE readyList
           exits == xTickCount + 1 = Hiperperiod
<1>1. /\ waitList' = IF completes THEN vListInsertEnd(waitList, t) ELSE waitList
      /\ previous_deadline_met' =
           IF completes /\ Constraint(t) # 0
           THEN [previous_deadline_met EXCEPT ![t] = MetOnce(previous_deadline_met[t])]
           ELSE previous_deadline_met
      /\ exited' = exits
      /\ readyList' = IF exits THEN ready ELSE FirstEntry(ready)
      /\ Tcb' = IF exits THEN Tcb ELSE OwnerAtIndex(readyList', Nobody)
      /\ left' = IF exits THEN left ELSE Len(ready.items)
      /\ xItemValue' = xItemValue
  BY DEF xTaskIncrementTick
<1>2. Finished = IF completes THEN {t} ELSE {}
  BY DEF Finished
<1> HIDE DEF completes, ready, exits, remaining
<1>3. /\ IsList(readyList) /\ IsList(waitList) /\ Sorted(readyList, xItemValue)
      /\ Members(readyList) \cap Members(waitList) = {}
      /\ Members(readyList) \subseteq Tasks
  BY Positions DEF StructureInv, ListsInv
<1>4. t \in Tasks => t \in Members(readyList) /\ \A u : ~Before(readyList, u, t)
  <2>1. t # Timer => t = IF readyList.items = <<>> THEN Idle ELSE Head(readyList.items)
    BY DEF StructureInv, RunInv
  <2>. QED  BY <1>3, <2>1, HeadIsFirst, ConstantsAssumption
<1>5. completes => t \in Tasks
  BY DEF completes
<1>6. /\ IsList(ready) /\ Members(ready) = Members(readyList) \ Finished
      /\ \A u, v \in Tasks : Before(ready, u, v) => Before(readyList, u, v)
  <2>1. CASE completes
    <3>1. PICK i \in 1..Len(readyList.items) : t = readyList.items[i]
      BY <1>3, <1>4, <1>5, <2>1, Positions
    <3>2. ready = uxListRemove(readyList, readyList.items[i])
      BY <2>1, <3>1 DEF ready
    <3> HIDE DEF t
    <3>. QED  BY <1>2, <1>3, <2>1, <3>1, <3>2, Unlink
  <2>2. CASE ~completes
    BY <1>2, <1>3, <2>2 DEF ready
  <2>. QED  BY <2>1, <2>2
<1>7. IsList(waitList') /\ Members(waitList') = Members(waitList) \cup Finished
  <2>1. CASE completes
    <3>1. t \in Tasks \ Members(waitList)
      BY <1>3, <1>4, <1>5, <2>1
    <3>. QED  BY <1>1, <1>2, <1>3, <2>1, <3>1, LinkEnd
  <2>2. CASE ~completes
    BY <1>1, <1>2, <1>3, <2>2
  <2>. QED  BY <2>1, <2>2
<1>8. /\ IsList(readyList') /\ Members(readyList') = Members(ready)
      /\ \A u, v : Before(readyList', u, v) => Before(ready, u, v)
  BY <1>1, <1>6, Begin
<1>9. ~exits => /\ OnItsWay(readyList', left', Tcb')
                /\ Ahead(readyList', left') = Members(readyList')
                /\ left' \in Nat /\ Tcb' \in Tasks \cup {Nobody}
  BY <1>1, <1>6, <1>8, Begin
<1>10. Sorted(readyList', xItemValue')
  BY <1>1, <1>3, <1>6, <1>8 DEF Sorted
<1>11. OnlyUrgentBefore(t, readyList', xItemValue')
  <2> SUFFICES ASSUME NEW u \in Tasks, Before(readyList', u, t) PROVE FALSE
    BY DEF OnlyUrgentBefore
  <2>1. Before(ready, u, t) /\ t \in Tasks
    BY <1>6, <1>8, InList, Positions
  <2>. QED  BY <1>4, <1>6, <2>1
<1>12. Finished \subseteq Members(readyList)
  BY <1>2, <1>4, <1>5
<1>13. previous_deadline_met' \in [Tasks -> 0..(CounterModulus - 1)]
  <2>1. previous_deadline_met \in [Tasks -> 0..(CounterModulus - 1)]
    BY DEF StructureInv, TypesInv
  <2>. QED  BY <1>1, <1>5, <2>1, MetOnceType
<1>14. Members(readyList') \cap Members(waitList') = {}
  BY <1>3, <1>6, <1>7, <1>8, <1>12
<1>15. ListsInv'
  BY <1>7, <1>8, <1>10, <1>14 DEF ListsInv, Members, IsList, Sorted, Before
<1>. QED
  BY <1>1, <1>6, <1>7, <1>8, <1>9, <1>11, <1>12, <1>13, <1>15 DEF Members, exits

LEMMA KillLists ==
  ASSUME StructureInv, KillTask
  PROVE  /\ ListsInv'
         /\ Tcb \in Members(readyList) /\ Tcb \in Ahead(readyList, left) /\ Tcb \in Tasks
         /\ Members(readyList)' = Members(readyList) \ {Tcb}
         /\ Members(waitList)' = Members(waitList) \cup {Tcb}
         /\ Ahead(readyList', left') = Ahead(readyList, left) \ {Tcb}
         /\ OnItsWay(readyList', left', Tcb')
         /\ left' \in Nat /\ Tcb' \in Tasks \cup {Nobody}
         /\ UNCHANGED xItemValue
         /\ \A u, v \in Tasks : Before(readyList', u, v) => Before(readyList, u, v)
<1>1. /\ left \in Nat \ {0} /\ left' = left - 1
      /\ OnItsWay(readyList, left, Tcb)
      /\ readyList' = NextEntry(uxListRemove(readyList, Tcb))
      /\ waitList' = vListInsertEnd(waitList, Tcb)
      /\ Tcb' = OwnerAtIndex(readyList', Nobody)
      /\ xItemValue' = xItemValue
  BY DEF KillTask, Walking, WalkOn, StructureInv, WalkInv
<1>2. /\ IsList(readyList) /\ IsList(waitList) /\ Sorted(readyList, xItemValue)
      /\ Members(readyList) \cap Members(waitList) = {}
      /\ Members(readyList) \subseteq Tasks
  BY Positions DEF StructureInv, ListsInv
<1>3. /\ IsList(readyList') /\ Members(readyList') = Members(readyList) \ {Tcb}
      /\ Tcb \in Members(readyList) /\ Tcb \in Ahead(readyList, left)
      /\ Ahead(readyList', left') = Ahead(readyList, left) \ {Tcb}
      /\ OnItsWay(readyList', left', Tcb')
      /\ \A t, u \in Tasks : Before(readyList', t, u) => Before(readyList, t, u)
      /\ Tcb' \in Tasks \cup {Nobody}
  BY <1>1, <1>2, TakeOut
<1>4. IsList(waitList') /\ Members(waitList') = Members(waitList) \cup {Tcb}
  BY <1>1, <1>2, <1>3, LinkEnd
<1>5. Sorted(readyList', xItemValue')
  BY <1>1, <1>2, <1>3 DEF Sorted
<1>6. ListsInv'
  BY <1>2, <1>3, <1>4, <1>5 DEF ListsInv, Members, IsList, Sorted, Before
<1>. QED  BY <1>1, <1>2, <1>3, <1>4, <1>6 DEF Members

LEMMA SpareLists ==
  ASSUME StructureInv, SpareTask
  PROVE  /\ ListsInv'
         /\ Tcb \in Members(readyList) /\ Tcb \in Ahead(readyList, left) /\ Tcb \in Tasks
         /\ Members(readyList)' = Members(readyList)
         /\ Ahead(readyList', left') = Ahead(readyList, left) \ {Tcb}
         /\ OnItsWay(readyList', left', Tcb')
         /\ left' \in Nat /\ Tcb' \in Tasks \cup {Nobody}
         /\ UNCHANGED <<waitList, xItemValue>>
         /\ \A u, v \in Tasks : Before(readyList', u, v) => Before(readyList, u, v)
<1>1. /\ left \in Nat \ {0} /\ left' = left - 1
      /\ OnItsWay(readyList, left, Tcb)
      /\ readyList' = NextEntry(readyList)
      /\ waitList' = waitList
      /\ Tcb' = OwnerAtIndex(readyList', Nobody)
      /\ xItemValue' = xItemValue
  BY DEF SpareTask, Walking, WalkOn, StructureInv, WalkInv, tcbVars
<1>2. /\ IsList(readyList) /\ IsList(waitList) /\ Sorted(readyList, xItemValue)
      /\ Members(readyList) \cap Members(waitList) = {}
      /\ Members(readyList) \subseteq Tasks
  BY Positions DEF StructureInv, ListsInv
<1>3. /\ IsList(readyList') /\ Members(readyList') = Members(readyList)
      /\ Tcb \in Members(readyList) /\ Tcb \in Ahead(readyList, left)
      /\ Ahead(readyList', left') = Ahead(readyList, left) \ {Tcb}
      /\ OnItsWay(readyList', left', Tcb')
      /\ \A t, u \in Tasks : Before(readyList', t, u) => Before(readyList, t, u)
      /\ Tcb' \in Tasks \cup {Nobody}
  BY <1>1, <1>2, PassOver
<1>4. Sorted(readyList', xItemValue')
  BY <1>1, <1>2, <1>3 DEF Sorted
<1>5. ListsInv'
  BY <1>1, <1>2, <1>3, <1>4 DEF ListsInv, Members, IsList, Sorted, Before
<1>. QED  BY <1>1, <1>2, <1>3, <1>5 DEF Members

LEMMA KillReturnLists ==
  ASSUME StructureInv, KillTasksReturns
  PROVE  /\ ListsInv'
         /\ UNCHANGED <<readyList, xItemValue>>
         /\ Members(waitList)' = Members(waitList)
         /\ Ahead(waitList', left') = Members(waitList)
         /\ OnItsWay(waitList', left', Tcb')
         /\ left' \in Nat /\ Tcb' \in Tasks \cup {Nobody}
<1>1. /\ waitList' = FirstEntry(waitList)
      /\ Tcb' = OwnerAtIndex(waitList', Nobody)
      /\ left' = Len(waitList.items)
      /\ readyList' = readyList /\ xItemValue' = xItemValue
  BY DEF KillTasksReturns, tcbVars
<1>2. /\ IsList(readyList) /\ IsList(waitList) /\ Sorted(readyList, xItemValue)
      /\ Members(readyList) \cap Members(waitList) = {}
  BY DEF StructureInv, ListsInv
<1>3. /\ IsList(waitList') /\ Members(waitList') = Members(waitList)
      /\ Ahead(waitList', left') = Members(waitList)
      /\ OnItsWay(waitList', left', Tcb')
      /\ left' \in Nat /\ Tcb' \in Tasks \cup {Nobody}
  BY <1>1, <1>2, Begin
<1>4. ListsInv'
  BY <1>1, <1>2, <1>3 DEF ListsInv, Members, IsList, Sorted, Before
<1>. QED  BY <1>1, <1>3, <1>4 DEF Members

(* A task that may not be skipped goes to the ready list.                  *)
LEMMA WokenGoesReady ==
  ASSUME TypesInv, NEW t \in Tasks
  PROVE  ~MayBeSkipped(t) <=> GoesReady(t, previous_deadline_met[t])
<1>1. Constraint(t) \in Int /\ previous_deadline_met[t] \in Int
  BY TaskSetFacts, ConstantsAssumption DEF TypesInv
<1>. QED  BY <1>1 DEF MayBeSkipped, GoesReady

LEMMA WakeLists ==
  ASSUME StructureInv, WakeTask
  PROVE  /\ ListsInv'
         /\ Tcb \in Members(waitList) /\ Tcb \in Ahead(waitList, left) /\ Tcb \in Tasks
         /\ Members(readyList)' = Members(readyList) \cup {Tcb}
         /\ Members(waitList)' = Members(waitList) \ {Tcb}
         /\ Ahead(waitList', left') = Ahead(waitList, left) \ {Tcb}
         /\ OnItsWay(waitList', left', Tcb')
         /\ left' \in Nat /\ Tcb' \in Tasks \cup {Nobody}
         /\ xItemValue' = [xItemValue EXCEPT ![Tcb] =
                             ReadyKey(Tcb, xTickCount, previous_deadline_met[Tcb])]
         /\ xItemValue' \in [Tasks -> Keys]
         /\ \A c \in Tasks \ {Tcb} : OnlyUrgentBefore(c, readyList, xItemValue) =>
                                       OnlyUrgentBefore(c, readyList', xItemValue')
<1> DEFINE wait == NextEntry(uxListRemove(waitList, Tcb))
<1>1. /\ left \in Nat \ {0} /\ left' = left - 1
      /\ OnItsWay(waitList, left, Tcb)
      /\ prvAddTaskToReadyList(Tcb, readyList, wait)
      /\ Tcb' = OwnerAtIndex(waitList', Nobody)
      /\ ~MayBeSkipped(Tcb)
  BY DEF WakeTask, Walking, WalkOn, StructureInv, WalkInv
<1>2. /\ IsList(readyList) /\ IsList(waitList) /\ Sorted(readyList, xItemValue)
      /\ Members(readyList) \cap Members(waitList) = {}
      /\ Members(waitList) \subseteq Tasks
      /\ TypesInv /\ xTickCount \in Nat
  BY Positions DEF StructureInv, ListsInv, DaemonInv
<1>3. /\ IsList(wait) /\ Members(wait) = Members(waitList) \ {Tcb}
      /\ Tcb \in Members(waitList) /\ Tcb \in Ahead(waitList, left)
      /\ Ahead(wait, left - 1) = Ahead(waitList, left) \ {Tcb}
      /\ OnItsWay(wait, left - 1, OwnerAtIndex(wait, Nobody))
      /\ OwnerAtIndex(wait, Nobody) \in Tasks \cup {Nobody}
  BY <1>1, <1>2, TakeOut
<1> HIDE DEF wait
<1>4. Tcb \in Tasks \ Members(readyList) /\ GoesReady(Tcb, previous_deadline_met[Tcb])
  BY <1>1, <1>2, <1>3, WokenGoesReady
<1>5. /\ waitList' = wait
      /\ xItemValue' = [xItemValue EXCEPT ![Tcb] =
                          ReadyKey(Tcb, xTickCount, previous_deadline_met[Tcb])]
      /\ xItemValue' \in [Tasks -> Keys]
      /\ IsList(readyList') /\ Members(readyList)' = Members(readyList) \cup {Tcb}
      /\ Sorted(readyList', xItemValue')
      /\ \A c \in Tasks \ {Tcb} : OnlyUrgentBefore(c, readyList, xItemValue) =>
                                    OnlyUrgentBefore(c, readyList', xItemValue')
  BY <1>1, <1>2, <1>4, AddReady
<1>6. Members(waitList') = Members(waitList) \ {Tcb} /\ IsList(waitList')
  BY <1>3, <1>5
<1>7. Members(readyList)' \cap Members(waitList') = {}
  BY <1>2, <1>5, <1>6
<1>8. ListsInv'
  BY <1>5, <1>6, <1>7 DEF ListsInv, Members, IsList, Sorted, Before
<1>9. /\ Ahead(waitList', left') = Ahead(waitList, left) \ {Tcb}
      /\ OnItsWay(waitList', left', Tcb')
      /\ left' \in Nat /\ Tcb' \in Tasks \cup {Nobody}
  BY <1>1, <1>3, <1>5
<1>. QED  BY <1>3, <1>4, <1>5, <1>6, <1>8, <1>9 DEF Members

LEMMA StayLists ==
  ASSUME StructureInv, SkipTask \/ LeaveTask
  PROVE  /\ ListsInv'
         /\ Tcb \in Members(waitList) /\ Tcb \in Ahead(waitList, left) /\ Tcb \in Tasks
         /\ Members(waitList)' = Members(waitList)
         /\ Ahead(waitList', left') = Ahead(waitList, left) \ {Tcb}
         /\ OnItsWay(waitList', left', Tcb')
         /\ left' \in Nat /\ Tcb' \in Tasks \cup {Nobody}
         /\ UNCHANGED <<readyList, xItemValue>>
<1>1. /\ left \in Nat \ {0} /\ left' = left - 1
      /\ OnItsWay(waitList, left, Tcb)
      /\ waitList' = NextEntry(waitList)
      /\ readyList' = readyList
      /\ Tcb' = OwnerAtIndex(waitList', Nobody)
      /\ xItemValue' = xItemValue
  BY DEF SkipTask, LeaveTask, Walking, WalkOn, StructureInv, WalkInv, tcbVars
<1>2. /\ IsList(readyList) /\ IsList(waitList) /\ Sorted(readyList, xItemValue)
      /\ Members(readyList) \cap Members(waitList) = {}
      /\ Members(waitList) \subseteq Tasks
  BY Positions DEF StructureInv, ListsInv
<1>3. /\ IsList(waitList') /\ Members(waitList') = Members(waitList)
      /\ Tcb \in Members(waitList) /\ Tcb \in Ahead(waitList, left)
      /\ Ahead(waitList', left') = Ahead(waitList, left) \ {Tcb}
      /\ OnItsWay(waitList', left', Tcb')
      /\ Tcb' \in Tasks \cup {Nobody}
  BY <1>1, <1>2, PassOver
<1>4. ListsInv'
  BY <1>1, <1>2, <1>3 DEF ListsInv, Members, IsList, Sorted, Before
<1>. QED  BY <1>1, <1>2, <1>3, <1>4 DEF Members

(* A task that is created goes to one of the two lists.                    *)
LEMMA CreateLists ==
  ASSUME StructureInv, xTickCount = 0,
         NEW t \in Tasks \ (Members(readyList) \cup Members(waitList)),
         prvAddTaskToReadyList(t, readyList, waitList)
  PROVE  /\ ListsInv'
         /\ xItemValue' \in [Tasks -> Keys]
         /\ xItemValue' = IF GoesReady(t, previous_deadline_met[t])
                          THEN [xItemValue EXCEPT ![t] =
                                  ReadyKey(t, xTickCount, previous_deadline_met[t])]
                          ELSE xItemValue
         /\ Members(readyList)' = IF GoesReady(t, previous_deadline_met[t])
                                  THEN Members(readyList) \cup {t} ELSE Members(readyList)
         /\ Members(waitList)' = IF GoesReady(t, previous_deadline_met[t])
                                 THEN Members(waitList) ELSE Members(waitList) \cup {t}
<1>1. /\ IsList(readyList) /\ IsList(waitList) /\ Sorted(readyList, xItemValue)
      /\ Members(readyList) \cap Members(waitList) = {}
      /\ TypesInv /\ xTickCount \in Nat
  BY DEF StructureInv, ListsInv, DaemonInv
<1>2. CASE GoesReady(t, previous_deadline_met[t])
  <2>1. /\ waitList' = waitList
        /\ xItemValue' = [xItemValue EXCEPT ![t] =
                            ReadyKey(t, xTickCount, previous_deadline_met[t])]
        /\ xItemValue' \in [Tasks -> Keys]
        /\ IsList(readyList') /\ Members(readyList)' = Members(readyList) \cup {t}
        /\ Sorted(readyList', xItemValue')
    BY <1>1, <1>2, AddReady
  <2>2. Members(readyList)' \cap Members(waitList') = {}
    BY <1>1, <2>1
  <2>3. ListsInv'
    BY <1>1, <2>1, <2>2 DEF ListsInv, Members, IsList, Sorted, Before
  <2>. QED  BY <1>2, <2>1, <2>3 DEF Members
<1>3. CASE ~GoesReady(t, previous_deadline_met[t])
  <2>1. /\ xItemValue' = xItemValue /\ readyList' = readyList
        /\ waitList' = vListInsertEnd(waitList, t)
    BY <1>3, AddWaiting
  <2>2. IsList(waitList') /\ Members(waitList') = Members(waitList) \cup {t}
    BY <1>1, <2>1, LinkEnd
  <2>3. Members(readyList) \cap Members(waitList') = {}
    BY <1>1, <2>2
  <2>4. ListsInv'
    BY <1>1, <2>1, <2>2, <2>3 DEF ListsInv, Members, IsList, Sorted, Before
  <2>. QED  BY <1>1, <1>3, <2>1, <2>2, <2>4 DEF Members, TypesInv
<1>. QED  BY <1>2, <1>3
-----------------------------------------------------------------------------
LEMMA StructureInit == Init => StructureInv
<1> SUFFICES ASSUME Init PROVE StructureInv
  OBVIOUS
<1>1. DaemonInv
  BY DaemonInit
<1>2. /\ readyList = [items |-> <<>>, pxIndex |-> 0] /\ waitList = [items |-> <<>>, pxIndex |-> 0]
      /\ pc = "create" /\ Tcb = Nobody /\ left = 0 /\ pxCurrentTCB = Nobody
      /\ Task_Set \in TaskSets
      /\ xItemValue = [t \in Tasks |-> ReadyKey(t, 0, 0)]
      /\ previous_deadline_met = [t \in Tasks |-> 0]
  BY DEF Init, vListInitialise, ConfigInit
<1>3. IsList([items |-> <<>>, pxIndex |-> 0]) /\ Members([items |-> <<>>, pxIndex |-> 0]) = {}
  BY DEF IsList, Members, ToSet
<1>4. IsList(readyList) /\ Members(readyList) = {} /\ IsList(waitList)
  BY <1>2, <1>3
<1>5. ListsInv
  <2>1. Sorted(readyList, xItemValue)
    BY <1>4, InList DEF Sorted
  <2>. QED  BY <1>4, <2>1 DEF ListsInv
<1>6. WalkInv /\ RunInv
  BY <1>2 DEF WalkInv, RunInv
<1>7. TypesInv
  <2>1. WellFormed(Task_Set)
    BY <1>2, TaskSetsAssumption
  <2>2. xItemValue \in [Tasks -> Keys]
    BY <1>2, <2>1, KeyType
  <2>3. 0 \in 0..(CounterModulus - 1)
    BY ConstantsAssumption
  <2>. QED  BY <1>2, <2>1, <2>2, <2>3 DEF TypesInv
<1>. QED  BY <1>1, <1>5, <1>6, <1>7 DEF StructureInv

LEMMA TaskSetStays ==
  ASSUME [Next]_vars
  PROVE  UNCHANGED <<Algorithm, Task_Set>>
  BY DEF Next, Boot, Tick, Handler, Daemon, xTaskCreatePeriodic, vTaskStartScheduler,
         vPortSystemTickHandler, PendTick, xTaskIncrementTick, KillTask, SpareTask,
         KillTasksReturns, WakeTask, SkipTask, LeaveTask, WalkOn, TickHandlerReturns,
         ReplayReturns, vTaskSuspendAll, vTaskPlaceOnEventListRestricted, xTaskResumeAll,
         ReplayTick, ResumeAllReturns, vPortYield, DaemonStep, vars, config

(* A step that leaves the lists alone and what they are sorted by.         *)
LEMMA ListsStay ==
  ASSUME ListsInv, UNCHANGED <<readyList, waitList, xItemValue>>
  PROVE  ListsInv'
  BY DEF ListsInv, Members, IsList, Sorted, Before

(* The processor is given to the head of the ready list or to the daemon.  *)
LEMMA SwitchRuns ==
  ASSUME StructureInv, vTaskSwitchContext, uxSchedulerSuspended = 0,
         UNCHANGED readyList
  PROVE  /\ RunInv'
         /\ pxCurrentTCB' \in Tasks \cup {Idle, Timer}
<1>1. pxCurrentTCB' = HighestPriorityTask
  BY DEF vTaskSwitchContext
<1>2. readyList.items # <<>> => Head(readyList.items) \in Tasks
  BY HeadIsFirst DEF StructureInv, ListsInv
<1>. QED  BY <1>1, <1>2 DEF HighestPriorityTask, listGET_OWNER_OF_HEAD_ENTRY, RunInv

LEMMA StructureNext == StructureInv /\ [Next]_vars => StructureInv'
<1> SUFFICES ASSUME StructureInv, [Next]_vars PROVE StructureInv'
  OBVIOUS
<1>1. DaemonInv'
  BY DaemonNext DEF StructureInv
<1>2. WellFormed(Task_Set)' /\ Task_Set' = Task_Set
  BY TaskSetStays DEF StructureInv, TypesInv, WellFormed, TaskSetType
<1>3. SUFFICES ListsInv' /\ WalkInv' /\ RunInv' /\ TypesInv'
  BY <1>1 DEF StructureInv
<1>4. CASE xTaskCreatePeriodic
  <2>1. PICK t \in Tasks \ (Members(readyList) \cup Members(waitList)) :
          /\ pc = "create" /\ pxCurrentTCB' = t
          /\ prvAddTaskToReadyList(t, readyList, waitList)
          /\ UNCHANGED <<xTickCount, previous_deadline_met, pc, Tcb, left>>
    BY <1>4 DEF xTaskCreatePeriodic, walkVars
  <2>2. CASE xTickCount = 0
    <3>1. ListsInv' /\ xItemValue' \in [Tasks -> Keys]
      BY <2>1, <2>2, CreateLists
    <3>2. WalkInv' /\ RunInv' /\ TypesInv'
      BY <1>2, <2>1, <3>1 DEF StructureInv, WalkInv, RunInv, TypesInv
    <3>. QED  BY <3>1, <3>2
  <2>3. CASE xTickCount # 0
    BY <2>1, <2>3 DEF StructureInv, DaemonInv
  <2>. QED  BY <2>2, <2>3
<1>5. CASE vTaskStartScheduler
  <2>1. /\ pc' = "run" /\ pxCurrentTCB' = Timer /\ pc = "create"
        /\ UNCHANGED <<readyList, waitList, xItemValue, previous_deadline_met, Tcb, left>>
    BY <1>5 DEF vTaskStartScheduler, tcbVars, walkVars
  <2>. QED  BY <1>2, <2>1, ListsStay DEF StructureInv, WalkInv, RunInv, TypesInv
<1>6. CASE vPortSystemTickHandler \/ ReplayTick
  <2>1. /\ pc = "run" /\ ~exited /\ xTaskIncrementTick /\ pxCurrentTCB' = pxCurrentTCB
        /\ pc' = IF exited' THEN "run" ELSE "kill"
    BY <1>6, TickIsCounted DEF vPortSystemTickHandler, ReplayTick, TickSignal
  <2>2. /\ ListsInv'
        /\ ~exited' => /\ OnItsWay(readyList', left', Tcb')
                       /\ left' \in Nat /\ Tcb' \in Tasks \cup {Nobody}
        /\ exited' => UNCHANGED <<Tcb, left>>
        /\ UNCHANGED xItemValue
        /\ previous_deadline_met' \in [Tasks -> 0..(CounterModulus - 1)]
    BY <1>2, <2>1, TickLists
  <2>3. WalkInv'
    BY <2>1, <2>2 DEF StructureInv, WalkInv, OnItsWay
  <2>4. RunInv' /\ TypesInv'
    BY <1>2, <2>1, <2>2 DEF StructureInv, RunInv, TypesInv
  <2>. QED  BY <2>2, <2>3, <2>4
<1>7. CASE PendTick
  <2>1. UNCHANGED <<readyList, waitList, xItemValue, previous_deadline_met, Tcb, left, pc,
                    pxCurrentTCB, exited>>
    BY <1>7 DEF PendTick, vTaskSwitchContext, tcbVars, walkVars
  <2>. QED  BY <1>2, <2>1, ListsStay DEF StructureInv, WalkInv, RunInv, TypesInv, OnItsWay
<1>8. CASE KillTask
  <2>1. /\ pc = "kill" /\ pc' = pc /\ pxCurrentTCB' = pxCurrentTCB
        /\ previous_deadline_met' = [previous_deadline_met EXCEPT ![Tcb] = 0]
    BY <1>8 DEF KillTask, Walking, WalkOn
  <2>2. 0 \in 0..(CounterModulus - 1)
    BY ConstantsAssumption
  <2>3. /\ ListsInv' /\ Tcb \in Tasks /\ OnItsWay(readyList', left', Tcb')
        /\ left' \in Nat /\ Tcb' \in Tasks \cup {Nobody} /\ xItemValue' = xItemValue
    BY <1>8, KillLists
  <2>4. WalkInv' /\ RunInv'
    BY <2>1, <2>3 DEF WalkInv, RunInv, OnItsWay
  <2>5. TypesInv'
    BY <1>2, <2>1, <2>2, <2>3 DEF StructureInv, TypesInv
  <2>. QED  BY <2>3, <2>4, <2>5
<1>9. CASE SpareTask
  <2>1. /\ pc = "kill" /\ pc' = pc /\ pxCurrentTCB' = pxCurrentTCB
        /\ previous_deadline_met' = previous_deadline_met
    BY <1>9 DEF SpareTask, Walking, WalkOn, tcbVars
  <2>2. /\ ListsInv' /\ OnItsWay(readyList', left', Tcb')
        /\ left' \in Nat /\ Tcb' \in Tasks \cup {Nobody} /\ xItemValue' = xItemValue
    BY <1>9, SpareLists
  <2>. QED  BY <1>2, <2>1, <2>2 DEF StructureInv, WalkInv, RunInv, TypesInv, OnItsWay
<1>10. CASE KillTasksReturns
  <2>1. /\ pc = "kill" /\ pc' = "wake" /\ pxCurrentTCB' = pxCurrentTCB
        /\ previous_deadline_met' = previous_deadline_met
    BY <1>10 DEF KillTasksReturns, tcbVars
  <2>2. /\ ListsInv' /\ OnItsWay(waitList', left', Tcb')
        /\ left' \in Nat /\ Tcb' \in Tasks \cup {Nobody} /\ xItemValue' = xItemValue
    BY <1>10, KillReturnLists
  <2>. QED  BY <1>2, <2>1, <2>2 DEF StructureInv, WalkInv, RunInv, TypesInv, OnItsWay
<1>11. CASE WakeTask
  <2>1. /\ pc = "wake" /\ pc' = pc /\ pxCurrentTCB' = pxCurrentTCB
        /\ previous_deadline_met' = previous_deadline_met
    BY <1>11 DEF WakeTask, Walking, WalkOn
  <2>2. /\ ListsInv' /\ OnItsWay(waitList', left', Tcb') /\ left' \in Nat
        /\ Tcb' \in Tasks \cup {Nobody} /\ xItemValue' \in [Tasks -> Keys]
    BY <1>11, WakeLists
  <2>. QED  BY <1>2, <2>1, <2>2 DEF StructureInv, WalkInv, RunInv, TypesInv, OnItsWay
<1>12. CASE SkipTask \/ LeaveTask
  <2>1. /\ pc = "wake" /\ pc' = pc /\ pxCurrentTCB' = pxCurrentTCB
        /\ \/ previous_deadline_met' = previous_deadline_met
           \/ previous_deadline_met' = [previous_deadline_met EXCEPT ![Tcb] = 0]
    BY <1>12 DEF SkipTask, LeaveTask, Walking, WalkOn, tcbVars
  <2>2. 0 \in 0..(CounterModulus - 1)
    BY ConstantsAssumption
  <2>3. /\ ListsInv' /\ OnItsWay(waitList', left', Tcb')
        /\ left' \in Nat /\ Tcb' \in Tasks \cup {Nobody} /\ xItemValue' = xItemValue
    BY <1>12, StayLists
  <2>4. WalkInv' /\ RunInv'
    BY <2>1, <2>3 DEF WalkInv, RunInv, OnItsWay
  <2>5. TypesInv'
    BY <1>2, <2>1, <2>2, <2>3 DEF StructureInv, TypesInv
  <2>. QED  BY <2>3, <2>4, <2>5
<1>13. CASE TickHandlerReturns
  <2>1. /\ pc = "wake" /\ left = 0 /\ pc' = "run" /\ vTaskSwitchContext
        /\ UNCHANGED <<readyList, waitList, xItemValue, previous_deadline_met, Tcb, left>>
    BY <1>13 DEF TickHandlerReturns, tcbVars, walkVars
  <2>2. uxSchedulerSuspended = 0
    BY <2>1 DEF StructureInv, DaemonInv
  <2>3. RunInv' /\ pxCurrentTCB' \in Tasks \cup {Idle, Timer}
    BY <2>1, <2>2, SwitchRuns
  <2>. QED  BY <1>2, <2>1, <2>3, ListsStay DEF StructureInv, WalkInv, TypesInv
<1>14. CASE ReplayReturns
  <2>1. /\ pc = "wake" /\ left = 0 /\ pc' = "run" /\ daemon = "replaying"
        /\ UNCHANGED <<readyList, waitList, xItemValue, previous_deadline_met, Tcb, left,
                       pxCurrentTCB>>
    BY <1>14 DEF ReplayReturns, tcbVars, walkVars
  <2>2. pxCurrentTCB = Timer
    BY <2>1 DEF StructureInv, DaemonInv
  <2>. QED  BY <1>2, <2>1, <2>2, ListsStay DEF StructureInv, WalkInv, RunInv, TypesInv
<1>15. CASE vTaskSuspendAll \/ vTaskPlaceOnEventListRestricted \/ xTaskResumeAll
  <2>1. UNCHANGED <<readyList, waitList, xItemValue, previous_deadline_met, Tcb, left, pc,
                    pxCurrentTCB, exited>>
    BY <1>15 DEF vTaskSuspendAll, vTaskPlaceOnEventListRestricted, xTaskResumeAll, DaemonStep,
                 tcbVars, walkVars
  <2>. QED  BY <1>2, <2>1, ListsStay DEF StructureInv, WalkInv, RunInv, TypesInv, OnItsWay
<1>16. CASE ResumeAllReturns \/ vPortYield
  <2>1. UNCHANGED <<readyList, waitList, xItemValue, previous_deadline_met, Tcb, left, pc>>
    BY <1>16 DEF ResumeAllReturns, vPortYield, DaemonStep, tcbVars, walkVars
  <2>2. CASE vTaskSwitchContext
    <3>1. uxSchedulerSuspended = 0
      BY <1>16 DEF ResumeAllReturns, vPortYield, DaemonStep, StructureInv, DaemonInv
    <3>2. RunInv' /\ pxCurrentTCB' \in Tasks \cup {Idle, Timer}
      BY <2>1, <2>2, <3>1, SwitchRuns
    <3>. QED  BY <1>2, <2>1, <3>2, ListsStay DEF StructureInv, WalkInv, TypesInv, OnItsWay
  <2>3. CASE UNCHANGED pxCurrentTCB /\ exited' = exited
    BY <1>2, <2>1, <2>3, ListsStay DEF StructureInv, WalkInv, RunInv, TypesInv, OnItsWay
  <2>. QED
    BY <1>16, <2>2, <2>3 DEF ResumeAllReturns, vPortYield, DaemonStep
<1>17. CASE UNCHANGED vars
  <2>1. UNCHANGED <<readyList, waitList, xItemValue, previous_deadline_met, Tcb, left, pc,
                    pxCurrentTCB, exited>>
    BY <1>17 DEF vars, tcbVars, walkVars
  <2>. QED  BY <1>2, <2>1, ListsStay DEF StructureInv, WalkInv, RunInv, TypesInv, OnItsWay
<1>. QED
  BY <1>4, <1>5, <1>6, <1>7, <1>8, <1>9, <1>10, <1>11, <1>12, <1>13, <1>14, <1>15, <1>16, <1>17
  DEF Next, Boot, Tick, Handler, Daemon

LEMMA LengthBound ==
  ASSUME NEW list, IsList(list)
  PROVE  Len(list.items) <= Cardinality(Tasks) /\ Cardinality(Tasks) \in Nat
<1> DEFINE n == Len(list.items)
<1>1. PICK s \in Seq(Tasks) : s = list.items
  BY DEF IsList
<1>2. n \in Nat /\ s \in [1..n -> Tasks]
  BY <1>1, LenProperties
<1>3. \A p, q \in 1..n : s[p] = s[q] => p = q
  BY <1>1, Positions DEF IsList
<1> HIDE DEF n
<1>4. s \in Injection(1..n, Tasks)
  BY <1>2, <1>3 DEF Injection, IsInjective
<1>5. Cardinality(1..n) <= Cardinality(Tasks)
  BY <1>4, TasksAssumption, FS_Injection
<1>6. Cardinality(1..n) = n
  BY <1>2, FS_Interval
<1>7. Cardinality(Tasks) \in Nat
  BY TasksAssumption, FS_CardinalityType
<1>. QED  BY <1>5, <1>6, <1>7 DEF n

LEMMA StructureImpliesTypeOK == StructureInv => TypeOK
<1> SUFFICES ASSUME StructureInv PROVE TypeOK
  OBVIOUS
<1>1. IsList(readyList) /\ IsList(waitList)
  BY DEF StructureInv, ListsInv
<1>2. left \in 0..Cardinality(Tasks)
  <2>1. /\ Cardinality(Tasks) \in Nat
        /\ Len(readyList.items) <= Cardinality(Tasks) /\ Len(readyList.items) \in Nat
        /\ Len(waitList.items) <= Cardinality(Tasks) /\ Len(waitList.items) \in Nat
    BY <1>1, LengthBound, Positions
  <2>2. /\ readyList.pxIndex \in 0..Len(readyList.items)
        /\ waitList.pxIndex \in 0..Len(waitList.items)
    BY <1>1 DEF IsList
  <2>3. left \in Nat
    BY DEF StructureInv, WalkInv
  <2>4. CASE pc = "kill"
    BY <2>1, <2>2, <2>3, <2>4 DEF StructureInv, WalkInv, OnItsWay
  <2>5. CASE pc = "wake"
    BY <2>1, <2>2, <2>3, <2>5 DEF StructureInv, WalkInv, OnItsWay
  <2>6. CASE pc \notin {"kill", "wake"}
    BY <2>1, <2>6 DEF StructureInv, WalkInv
  <2>. QED  BY <2>4, <2>5, <2>6
<1>3. uxSchedulerSuspended \in {0, 1}
  BY DEF StructureInv, DaemonInv
<1>. QED
  BY <1>1, <1>2, <1>3 DEF TypeOK, IsList, StructureInv, WalkInv, DaemonInv, TypesInv

LEMMA StructureImpliesLists == StructureInv => ListsWellFormed
<1> SUFFICES ASSUME StructureInv PROVE ListsWellFormed
  OBVIOUS
<1> DEFINE linked == readyList.items \o waitList.items
<1>1. TypeOK
  BY StructureImpliesTypeOK
<1>2. /\ IsList(readyList) /\ IsList(waitList) /\ Sorted(readyList, xItemValue)
      /\ Members(readyList) \cap Members(waitList) = {}
  BY DEF StructureInv, ListsInv
<1>3. PICK r \in Seq(Tasks) : r = readyList.items
  BY <1>2 DEF IsList
<1>4. PICK w \in Seq(Tasks) : w = waitList.items
  BY <1>2 DEF IsList
<1>5. /\ linked \in Seq(Tasks) /\ Len(linked) = Len(r) + Len(w)
      /\ \A p \in 1..(Len(r) + Len(w)) :
           linked[p] = IF p <= Len(r) THEN r[p] ELSE w[p - Len(r)]
  BY <1>3, <1>4, ConcatProperties
<1> HIDE DEF linked
<1>6. /\ Len(r) \in Nat /\ Len(w) \in Nat /\ DOMAIN linked = 1..(Len(r) + Len(w))
      /\ \A p, q \in 1..Len(r) : r[p] = r[q] => p = q
      /\ \A p, q \in 1..Len(w) : w[p] = w[q] => p = q
      /\ \A p \in 1..Len(r) : r[p] \in Members(readyList)
      /\ \A p \in 1..Len(w) : w[p] \in Members(waitList)
  BY <1>2, <1>3, <1>4, <1>5, Positions DEF IsList
<1>7. ASSUME NEW p \in DOMAIN linked, NEW q \in DOMAIN linked, linked[p] = linked[q]
      PROVE  p = q
  <2>1. p \in 1..(Len(r) + Len(w)) /\ q \in 1..(Len(r) + Len(w))
    BY <1>6
  <2>2. CASE p <= Len(r) /\ q <= Len(r)
    <3>1. p \in 1..Len(r) /\ q \in 1..Len(r)
      BY <1>6, <2>1, <2>2
    <3>. QED  BY <1>5, <1>6, <1>7, <2>1, <2>2, <3>1
  <2>3. CASE p > Len(r) /\ q > Len(r)
    <3>1. p - Len(r) \in 1..Len(w) /\ q - Len(r) \in 1..Len(w)
      BY <1>6, <2>1, <2>3
    <3>2. w[p - Len(r)] = w[q - Len(r)]
      BY <1>5, <1>6, <1>7, <2>1, <2>3
    <3>3. p - Len(r) = q - Len(r)
      BY <1>6, <3>1, <3>2
    <3>. QED  BY <1>6, <2>1, <3>3
  <2>4. CASE p <= Len(r) /\ q > Len(r)
    <3>1. p \in 1..Len(r) /\ q - Len(r) \in 1..Len(w)
      BY <1>6, <2>1, <2>4
    <3>2. r[p] = w[q - Len(r)]
      BY <1>5, <1>6, <1>7, <2>1, <2>4
    <3>. QED  BY <1>2, <1>6, <3>1, <3>2
  <2>5. CASE p > Len(r) /\ q <= Len(r)
    <3>1. q \in 1..Len(r) /\ p - Len(r) \in 1..Len(w)
      BY <1>6, <2>1, <2>5
    <3>2. r[q] = w[p - Len(r)]
      BY <1>5, <1>6, <1>7, <2>1, <2>5
    <3>. QED  BY <1>2, <1>6, <3>1, <3>2
  <2>. QED  BY <1>6, <2>1, <2>2, <2>3, <2>4, <2>5
<1>8. ASSUME NEW p \in DOMAIN readyList.items, NEW q \in DOMAIN readyList.items, p < q
      PROVE  ~Precedes(xItemValue[readyList.items[q]], xItemValue[readyList.items[p]])
  <2>1. Before(readyList, readyList.items[p], readyList.items[q])
    BY <1>8 DEF Before
  <2>2. readyList.items[p] \in Tasks /\ readyList.items[q] \in Tasks
    BY <1>2, Positions
  <2>. QED  BY <1>2, <2>1, <2>2 DEF Sorted
<1>. QED  BY <1>1, <1>7, <1>8 DEF ListsWellFormed, linked

LEMMA StructureImpliesWalk == StructureInv => WalkStaysInList
<1> SUFFICES ASSUME StructureInv PROVE WalkStaysInList
  OBVIOUS
<1>1. \A list : IsList(list) /\ left > 0 /\ OnItsWay(list, left, Tcb) => Tcb \in Members(list)
  <2> SUFFICES ASSUME NEW list, IsList(list), left > 0, OnItsWay(list, left, Tcb)
               PROVE  Tcb \in Members(list)
    OBVIOUS
  <2>1. left \in Nat \ {0}
    BY DEF StructureInv, WalkInv
  <2>. QED  BY <2>1, PassOver
<1>. QED  BY <1>1 DEF WalkStaysInList, Walking, StructureInv, WalkInv, ListsInv

LEMMA AlwaysStructure == Spec => []StructureInv
  BY StructureInit, StructureNext, PTL DEF Spec

(* However killTasks and wakeTasks unlink tasks from under the walk's      *)
(* pxIndex and vListInsert and vListInsertEnd link them, no item is ever   *)
(* in two lists or twice in one, and the ready list stays sorted by the    *)
(* keys its items hold, between any two list operations.                   *)
THEOREM ListsStayWellFormed == Spec => []ListsWellFormed
  BY AlwaysStructure, StructureImpliesLists, PTL

(* The walks of killTasks and wakeTasks take the length of the list first  *)
(* and follow pxIndex that many times: they never read a task that is not  *)
(* in the list, nor the end marker as if it were one.                      *)
THEOREM WalksStayInList == Spec => []WalkStaysInList
  BY AlwaysStructure, StructureImpliesWalk, PTL
-----------------------------------------------------------------------------
(* The refinement.  View is the state the scheduler's variables stand for, *)
(* Scheduler!Completed, Killed, Due ... what its next tick does to it.     *)

(* The report once the tick has recorded the job it completes.             *)
Recorded == [t \in Tasks |-> IF t \in Scheduler!Completed
                             THEN View.report[t] \cup {View.start_time[t] \div Period(t)}
                             ELSE View.report[t]]

(* Creation: every task so far is where the scheduler starts with it.      *)
BootInv ==
  pc = "create" =>
    LET created == Members(readyList) \cup Members(waitList)
    IN /\ saved = AtStart
       /\ Members(readyList) = {t \in created : GoesReady(t, 0)}
       /\ xRemainingTicks = [t \in Tasks |-> IF t \in created THEN Duration(t) ELSE 0]
       /\ xItemValue = [t \in Tasks |-> ReadyKey(t, 0, 0)]
       /\ previous_deadline_met = [t \in Tasks |-> 0]
       /\ report = [t \in Tasks |-> {}]
       /\ times_killed = [t \in Tasks |-> 0]
       /\ weakly_hard = 1
       /\ exited = FALSE

(* The tables that hold a value per task.                                  *)
TablesInv ==
  /\ xRemainingTicks \in [Tasks -> Nat]
  /\ start_time = [t \in Tasks |-> start_time[t]]
  /\ report = [t \in Tasks |-> report[t]]
  /\ times_killed = [t \in Tasks |-> times_killed[t]]

(* During a tick, killTasks and wakeTasks have done to the state the tick  *)
(* began in what the scheduler's tick does, for the tasks they have been   *)
(* to, and nothing to the others.                                          *)
TickInv ==
  pc \in {"kill", "wake"} =>
    /\ ~exited /\ View.exited \in BOOLEAN /\ ~View.exited
    /\ xTickCount = Scheduler!now /\ xTickCount # Hiperperiod
    /\ pxCurrentTCB = View.pxCurrentTCB
    /\ pxCurrentTCB = Timer => View.xTickCount < MaxStartupTicks
    /\ report = Recorded

KilledSoFar == Scheduler!Killed \ Ahead(readyList, left)

KillInv ==
  pc = "kill" =>
    /\ Members(readyList) = (View.readyTasks \ Scheduler!Completed) \ KilledSoFar
    /\ Members(waitList) = View.xWaitTaskList \cup Scheduler!Completed \cup KilledSoFar
    /\ xRemainingTicks = Scheduler!Charged
    /\ start_time = View.start_time
    /\ xItemValue = View.xItemValue
    /\ previous_deadline_met =
         [t \in Tasks |-> IF t \in KilledSoFar THEN 0 ELSE Scheduler!MetAfterRun[t]]
    /\ times_killed = [t \in Tasks |-> IF t \in KilledSoFar THEN View.times_killed[t] + 1
                                       ELSE View.times_killed[t]]
    /\ weakly_hard = IF \E t \in KilledSoFar : Scheduler!Breaks(t) THEN 0 ELSE View.weakly_hard

Passed(tasks) == tasks \ Ahead(waitList, left)

(* The fields of the ready keys the tick computes.                         *)
NewKey(t) == ReadyKey(t, Scheduler!now, Scheduler!MetAfterWake[t])

WakeInv ==
  pc = "wake" =>
    /\ Members(readyList) = (View.readyTasks \ (Scheduler!Completed \cup Scheduler!Killed))
                              \cup Passed(Scheduler!Released)
    /\ Members(waitList) = Scheduler!Waiting \ Passed(Scheduler!Released)
    /\ xRemainingTicks =
         [t \in Tasks |-> IF t \in Passed(Scheduler!Due) THEN Duration(t)
                          ELSE Scheduler!Charged[t]]
    /\ start_time = [t \in Tasks |-> IF t \in Passed(Scheduler!Due) THEN Scheduler!now
                                     ELSE View.start_time[t]]
    /\ xItemValue = [t \in Tasks |-> IF t \in Passed(Scheduler!Released) THEN NewKey(t)
                                     ELSE View.xItemValue[t]]
    /\ previous_deadline_met =
         [t \in Tasks |-> IF t \in Passed(Scheduler!Skipped) THEN 0
                          ELSE Scheduler!MetAfterKill[t]]
    /\ times_killed = [t \in Tasks |-> IF t \in Scheduler!Killed THEN View.times_killed[t] + 1
                                       ELSE View.times_killed[t]]
    /\ weakly_hard = IF \E t \in Scheduler!Killed : Scheduler!Breaks(t)
                     THEN 0 ELSE View.weakly_hard

(* The task the tick interrupted keeps its place, with only more urgent    *)
(* ones before it, unless the tick releases it anew.                       *)
CurrentInv ==
  /\ pc = "kill" => OnlyUrgentBefore(pxCurrentTCB, readyList, xItemValue)
  /\ pc = "wake" /\ pxCurrentTCB \notin Scheduler!Released =>
       OnlyUrgentBefore(pxCurrentTCB, readyList, xItemValue)

ProgressInv == TablesInv /\ BootInv /\ TickInv /\ KillInv /\ WakeInv /\ CurrentInv
IInv == StructureInv /\ ProgressInv

LEMMA ViewFields ==
  /\ pc = "run" =>
       /\ View.xTickCount = xTickCount /\ View.readyTasks = Members(readyList)
       /\ View.xWaitTaskList = Members(waitList) /\ View.pxCurrentTCB = pxCurrentTCB
       /\ View.xRemainingTicks = xRemainingTicks /\ View.start_time = start_time
       /\ View.xItemValue = xItemValue
       /\ View.previous_deadline_met = previous_deadline_met
       /\ View.report = report /\ View.times_killed = times_killed
       /\ View.weakly_hard = weakly_hard /\ View.exited = exited
  /\ pc # "run" => View = saved
  BY DEF View, Snapshot

(* The tasks' parameters are the scheduler's own.                          *)
LEMMA SameParameters ==
  /\ Scheduler!Hiperperiod = Hiperperiod
  /\ \A t : /\ Scheduler!Period(t) = Period(t)
            /\ Scheduler!Duration(t) = Duration(t)
            /\ Scheduler!Constraint(t) = Constraint(t)
  /\ \A met : Scheduler!MetOnce(met) = MetOnce(met)
  /\ \A t, tick, met : Scheduler!ReadyKey(t, tick, met) = ReadyKey(t, tick, met)
  /\ \A k, l : Scheduler!Precedes(k, l) <=> Precedes(k, l)
  /\ \A t, met : Scheduler!GoesReady(t, met) <=> GoesReady(t, met)
  BY DEF Scheduler!Hiperperiod, Hiperperiod, Scheduler!Period, Period, Scheduler!Duration,
         Duration, Scheduler!Constraint, Constraint, Scheduler!MetOnce, MetOnce,
         Scheduler!ReadyKey, ReadyKey, Scheduler!IsBlue, IsBlue, Scheduler!Precedes, Precedes,
         Scheduler!GoesReady, GoesReady

LEMMA ViewStays ==
  ASSUME View' = View, UNCHANGED <<Algorithm, Task_Set>>
  PROVE  /\ UNCHANGED Scheduler!vars
         /\ UNCHANGED <<Scheduler!now, Scheduler!Charged, Scheduler!Completed,
                        Scheduler!MetAfterRun, Scheduler!Killed, Scheduler!MetAfterKill,
                        Scheduler!Waiting, Scheduler!Due, Scheduler!Skipped,
                        Scheduler!Released, Scheduler!MetAfterWake, Recorded>>
         /\ \A t : Scheduler!Breaks(t)' <=> Scheduler!Breaks(t)
         /\ \A t : NewKey(t)' = NewKey(t)
<1>1. \A t : /\ Scheduler!Period(t)' = Scheduler!Period(t)
             /\ Scheduler!Constraint(t)' = Scheduler!Constraint(t)
             /\ Period(t)' = Period(t)
  BY DEF Scheduler!Period, Scheduler!Constraint, Period
<1>2. UNCHANGED Scheduler!vars
  BY DEF Scheduler!vars, Scheduler!config, Scheduler!tcbVars, Scheduler!simVars
<1>3. Scheduler!now' = Scheduler!now
  BY DEF Scheduler!now
<1>4. \A t : Scheduler!Elapsed(t)' = Scheduler!Elapsed(t)
  BY <1>3 DEF Scheduler!Elapsed
<1>5. Scheduler!Charged' = Scheduler!Charged
  BY DEF Scheduler!Charged
<1>6. Scheduler!Completed' = Scheduler!Completed
  BY <1>1, <1>4, <1>5 DEF Scheduler!Completed, Scheduler!Spent
<1>7. Scheduler!MetAfterRun' = Scheduler!MetAfterRun
  BY <1>1, <1>6 DEF Scheduler!MetAfterRun, Scheduler!MetOnce
<1>8. Scheduler!Killed' = Scheduler!Killed
  BY <1>1, <1>4, <1>5, <1>6 DEF Scheduler!Killed, Scheduler!Demand
<1>9. Scheduler!MetAfterKill' = Scheduler!MetAfterKill
  BY <1>7, <1>8 DEF Scheduler!MetAfterKill
<1>10. Scheduler!Waiting' = Scheduler!Waiting
  BY <1>6, <1>8 DEF Scheduler!Waiting
<1>11. Scheduler!Due' = Scheduler!Due
  BY <1>1, <1>3, <1>10 DEF Scheduler!Due
<1>12. Scheduler!Skipped' = Scheduler!Skipped
  BY <1>1, <1>9, <1>11 DEF Scheduler!Skipped
<1>13. Scheduler!Released' = Scheduler!Released
  BY <1>11, <1>12 DEF Scheduler!Released
<1>14. Scheduler!MetAfterWake' = Scheduler!MetAfterWake
  BY <1>9, <1>12 DEF Scheduler!MetAfterWake
<1>15. \A t : Scheduler!Breaks(t)' <=> Scheduler!Breaks(t)
  BY <1>1, <1>7 DEF Scheduler!Breaks
<1>16. Recorded' = Recorded
  BY <1>1, <1>6 DEF Recorded
<1>17. \A t : NewKey(t)' = NewKey(t)
  BY <1>1, <1>3, <1>14 DEF NewKey, ReadyKey, IsBlue, Constraint, Period
<1>. QED
  BY <1>2, <1>3, <1>5, <1>6, <1>7, <1>8, <1>9, <1>10, <1>11, <1>12, <1>13, <1>14, <1>15,
     <1>16, <1>17

(* The tick's start: count it, charge it and record the completed job.     *)
LEMMA TickStarts ==
  ASSUME StructureInv, TablesInv, pc = "run", ~exited, xTaskIncrementTick,
         UNCHANGED <<Algorithm, Task_Set>>
  PROVE  /\ xTickCount' = Scheduler!now
         /\ exited' = (Scheduler!now = Hiperperiod)
         /\ xRemainingTicks' = Scheduler!Charged
         /\ report' = Recorded
         /\ previous_deadline_met' = Scheduler!MetAfterRun
         /\ Members(readyList)' = View.readyTasks \ Scheduler!Completed
         /\ Members(waitList)' = View.xWaitTaskList \cup Scheduler!Completed
         /\ start_time' = View.start_time /\ xItemValue' = View.xItemValue
         /\ times_killed' = View.times_killed /\ weakly_hard' = View.weakly_hard
<1> DEFINE c == pxCurrentTCB
           remaining == IF xRemainingTicks[c] > 0 THEN xRemainingTicks[c] - 1 ELSE 0
           completes == c \in Tasks /\ remaining = 0 /\ Elapsed(c, xTickCount + 1) <= Period(c)
<1>1. /\ xTickCount' = xTickCount + 1
      /\ exited' = (xTickCount + 1 = Hiperperiod)
      /\ xRemainingTicks' = IF c \in Tasks THEN [xRemainingTicks EXCEPT ![c] = remaining]
                                           ELSE xRemainingTicks
      /\ report' = IF completes
                   THEN [report EXCEPT ![c] = report[c] \cup {start_time[c] \div Period(c)}]
                   ELSE report
      /\ previous_deadline_met' =
           IF completes /\ Constraint(c) # 0
           THEN [previous_deadline_met EXCEPT ![c] = MetOnce(previous_deadline_met[c])]
           ELSE previous_deadline_met
      /\ UNCHANGED <<start_time, xItemValue, times_killed, weakly_hard>>
  BY DEF xTaskIncrementTick
<1>2. /\ View.xTickCount = xTickCount /\ View.readyTasks = Members(readyList)
      /\ View.xWaitTaskList = Members(waitList) /\ View.pxCurrentTCB = c
      /\ View.xRemainingTicks = xRemainingTicks /\ View.start_time = start_time
      /\ View.xItemValue = xItemValue /\ View.previous_deadline_met = previous_deadline_met
      /\ View.report = report /\ View.times_killed = times_killed
      /\ View.weakly_hard = weakly_hard
  BY ViewFields
<1>3. Scheduler!now = xTickCount + 1
  BY <1>2 DEF Scheduler!now
<1>4. /\ xRemainingTicks \in [Tasks -> Nat] /\ report = [t \in Tasks |-> report[t]]
      /\ previous_deadline_met \in [Tasks -> 0..(CounterModulus - 1)]
  BY DEF TablesInv, StructureInv, TypesInv
<1>5. Scheduler!Charged = [t \in Tasks |-> IF t = c THEN remaining ELSE xRemainingTicks[t]]
  BY <1>2, <1>4 DEF Scheduler!Charged
<1>6. \A t : Scheduler!Elapsed(t) = Elapsed(t, xTickCount + 1)
  BY <1>2, <1>3 DEF Scheduler!Elapsed, Elapsed
<1> HIDE DEF remaining
<1>7. Scheduler!Completed = {t \in Tasks : t = c /\ completes}
  BY <1>5, <1>6, <1>2, SameParameters DEF Scheduler!Completed, Scheduler!Spent
<1>8. Finished = Scheduler!Completed
  BY <1>7 DEF Finished, remaining
<1> HIDE DEF completes
<1>9. completes => c \in Tasks
  BY DEF completes
<1>10. xRemainingTicks' = Scheduler!Charged
  BY <1>1, <1>4, <1>5
<1>11. report' = Recorded
  BY <1>1, <1>2, <1>4, <1>7, <1>9 DEF Recorded
<1>12. previous_deadline_met' = Scheduler!MetAfterRun
  BY <1>1, <1>2, <1>4, <1>7, <1>9, SameParameters DEF Scheduler!MetAfterRun
<1>13. /\ Members(readyList)' = Members(readyList) \ Scheduler!Completed
       /\ Members(waitList)' = Members(waitList) \cup Scheduler!Completed
  BY <1>8, TickLists
<1>. QED  BY <1>1, <1>2, <1>3, <1>10, <1>11, <1>12, <1>13

(* killTasks decides, task by task, as the scheduler does for all of them. *)
LEMMA HopelessAreKilled ==
  ASSUME TickInv, KillInv, pc = "kill",
         NEW t \in Members(readyList), t \in Tasks, t \in Ahead(readyList, left)
  PROVE  /\ t \in Scheduler!Killed <=> Hopeless(t)
         /\ t \notin KilledSoFar
         /\ previous_deadline_met[t] = Scheduler!MetAfterRun[t]
         /\ times_killed[t] = View.times_killed[t]
<1>1. t \notin KilledSoFar
  BY DEF KilledSoFar
<1>2. t \in View.readyTasks \ Scheduler!Completed
  BY DEF KillInv
<1>3. /\ xTickCount = Scheduler!now /\ start_time = View.start_time
      /\ xRemainingTicks = Scheduler!Charged
  BY DEF TickInv, KillInv
<1>4. Scheduler!Elapsed(t) = Elapsed(t, xTickCount)
  BY <1>3 DEF Scheduler!Elapsed, Elapsed
<1>5. Scheduler!Demand(t, Scheduler!Charged[t]) > Scheduler!Period(t) <=> Hopeless(t)
  BY <1>3, <1>4, SameParameters DEF Scheduler!Demand, Hopeless
<1>6. t \in Scheduler!Killed <=> Hopeless(t)
  BY <1>2, <1>5 DEF Scheduler!Killed
<1>. QED  BY <1>1, <1>6 DEF KillInv

(* What a step of a walk leaves alone.                                     *)
LEMMA WalkKeepsView ==
  ASSUME StructureInv, [Next]_vars, pc \in {"kill", "wake"},
         UNCHANGED <<pc, xTickCount, pxCurrentTCB, report, exited, saved>>, TickInv
  PROVE  /\ View' = View
         /\ TickInv'
         /\ UNCHANGED <<Algorithm, Task_Set>>
<1>1. View' = View
  BY DEF View
<1>2. UNCHANGED <<Algorithm, Task_Set>>
  BY TaskSetStays
<1>3. Scheduler!now' = Scheduler!now /\ Recorded' = Recorded
  BY <1>1, <1>2, ViewStays
<1>. QED  BY <1>1, <1>2, <1>3 DEF TickInv, Hiperperiod

LEMMA KillProgress ==
  ASSUME IInv, KillTask
  PROVE  ProgressInv'
<1>1. /\ pc = "kill" /\ pc' = "kill" /\ Hopeless(Tcb)
      /\ times_killed' = [times_killed EXCEPT ![Tcb] = times_killed[Tcb] + 1]
      /\ weakly_hard' = IF \/ Constraint(Tcb) = 0
                           \/ previous_deadline_met[Tcb] < Constraint(Tcb) - 1
                        THEN 0 ELSE weakly_hard
      /\ previous_deadline_met' = [previous_deadline_met EXCEPT ![Tcb] = 0]
      /\ UNCHANGED <<xTickCount, pxCurrentTCB, report, exited, saved, xRemainingTicks,
                     start_time, xItemValue>>
  BY DEF KillTask, Walking, WalkOn, check_weakly_hard
<1>2. StructureInv /\ TablesInv /\ TickInv /\ KillInv /\ CurrentInv
  BY DEF IInv, ProgressInv
<1>3. View' = View /\ TickInv' /\ UNCHANGED <<Algorithm, Task_Set>>
  <2>1. [Next]_vars
    BY DEF Next, Handler
  <2>. QED  BY <1>1, <1>2, <2>1, WalkKeepsView
<1>4. /\ UNCHANGED <<Scheduler!Completed, Scheduler!Charged, Scheduler!MetAfterRun,
                     Scheduler!Killed>>
      /\ \A t : Scheduler!Breaks(t)' <=> Scheduler!Breaks(t)
  BY <1>3, ViewStays
<1>5. /\ Tcb \in Members(readyList) /\ Tcb \in Ahead(readyList, left) /\ Tcb \in Tasks
      /\ Members(readyList)' = Members(readyList) \ {Tcb}
      /\ Members(waitList)' = Members(waitList) \cup {Tcb}
      /\ Ahead(readyList', left') = Ahead(readyList, left) \ {Tcb}
      /\ \A u, v \in Tasks : Before(readyList', u, v) => Before(readyList, u, v)
      /\ ListsInv'
  BY <1>2, KillLists
<1>6. /\ Tcb \in Scheduler!Killed /\ Tcb \notin KilledSoFar
      /\ previous_deadline_met[Tcb] = Scheduler!MetAfterRun[Tcb]
      /\ times_killed[Tcb] = View.times_killed[Tcb]
  BY <1>1, <1>2, <1>5, HopelessAreKilled
<1>7. KilledSoFar' = KilledSoFar \cup {Tcb}
  BY <1>4, <1>5, <1>6 DEF KilledSoFar, Ahead
<1>8. /\ Members(readyList)' = ((View.readyTasks \ Scheduler!Completed) \ KilledSoFar)'
      /\ Members(waitList)' = (View.xWaitTaskList \cup Scheduler!Completed \cup KilledSoFar)'
  BY <1>1, <1>2, <1>3, <1>4, <1>5, <1>7 DEF KillInv
<1>9. previous_deadline_met' =
        [t \in Tasks |-> IF t \in KilledSoFar' THEN 0 ELSE Scheduler!MetAfterRun[t]]
  BY <1>1, <1>2, <1>5, <1>7 DEF KillInv
<1>10. times_killed' =
         [t \in Tasks |-> IF t \in KilledSoFar' THEN View.times_killed[t] + 1
                          ELSE View.times_killed[t]]
  BY <1>1, <1>2, <1>5, <1>6, <1>7 DEF KillInv
<1>11. weakly_hard' = IF \E t \in KilledSoFar' : Scheduler!Breaks(t)
                      THEN 0 ELSE View.weakly_hard
  <2>1. weakly_hard' = IF Scheduler!Breaks(Tcb) THEN 0 ELSE weakly_hard
    BY <1>1, <1>6, SameParameters DEF Scheduler!Breaks
  <2>2. weakly_hard = IF \E t \in KilledSoFar : Scheduler!Breaks(t) THEN 0
                      ELSE View.weakly_hard
    BY <1>1, <1>2 DEF KillInv
  <2>. QED  BY <1>7, <2>1, <2>2
<1>12. KillInv'
  BY <1>1, <1>2, <1>3, <1>4, <1>8, <1>9, <1>10, <1>11 DEF KillInv
<1>13. CurrentInv'
  <2>1. OnlyUrgentBefore(pxCurrentTCB, readyList, xItemValue)
    BY <1>1, <1>2 DEF CurrentInv
  <2>2. OnlyUrgentBefore(pxCurrentTCB, readyList', xItemValue)
    <3>1. \A u : Before(readyList', u, pxCurrentTCB) => pxCurrentTCB \in Tasks
      BY <1>5, InList, Positions DEF ListsInv
    <3>. QED  BY <1>5, <2>1, <3>1 DEF OnlyUrgentBefore
  <2>. QED  BY <1>1, <2>2 DEF CurrentInv, OnlyUrgentBefore, Before
<1>14. TablesInv'
  BY <1>1, <1>2, <1>10 DEF TablesInv
<1>. QED  BY <1>1, <1>3, <1>12, <1>13, <1>14 DEF ProgressInv, BootInv, WakeInv

LEMMA SpareProgress ==
  ASSUME IInv, SpareTask
  PROVE  ProgressInv'
<1>1. /\ pc = "kill" /\ pc' = "kill" /\ ~Hopeless(Tcb)
      /\ UNCHANGED <<xTickCount, pxCurrentTCB, report, exited, saved, xRemainingTicks,
                     start_time, xItemValue, times_killed, weakly_hard,
                     previous_deadline_met>>
  BY DEF SpareTask, Walking, WalkOn, tcbVars
<1>2. StructureInv /\ TablesInv /\ TickInv /\ KillInv /\ CurrentInv
  BY DEF IInv, ProgressInv
<1>3. View' = View /\ TickInv' /\ UNCHANGED <<Algorithm, Task_Set>>
  <2>1. [Next]_vars
    BY DEF Next, Handler
  <2>. QED  BY <1>1, <1>2, <2>1, WalkKeepsView
<1>4. /\ UNCHANGED <<Scheduler!Completed, Scheduler!Charged, Scheduler!MetAfterRun,
                     Scheduler!Killed>>
      /\ \A t : Scheduler!Breaks(t)' <=> Scheduler!Breaks(t)
  BY <1>3, ViewStays
<1>5. /\ Tcb \in Members(readyList) /\ Tcb \in Ahead(readyList, left) /\ Tcb \in Tasks
      /\ Members(readyList)' = Members(readyList) /\ waitList' = waitList
      /\ Ahead(readyList', left') = Ahead(readyList, left) \ {Tcb}
      /\ \A u, v \in Tasks : Before(readyList', u, v) => Before(readyList, u, v)
      /\ ListsInv'
  BY <1>2, SpareLists
<1>6. Tcb \notin Scheduler!Killed
  BY <1>1, <1>2, <1>5, HopelessAreKilled
<1>7. KilledSoFar' = KilledSoFar
  BY <1>4, <1>5, <1>6 DEF KilledSoFar, Ahead
<1>8. Members(waitList)' = Members(waitList)
  BY <1>5 DEF Members
<1>9. KillInv'
  BY <1>1, <1>2, <1>3, <1>4, <1>5, <1>7, <1>8 DEF KillInv
<1>10. CurrentInv'
  <2>1. OnlyUrgentBefore(pxCurrentTCB, readyList, xItemValue)
    BY <1>1, <1>2 DEF CurrentInv
  <2>2. OnlyUrgentBefore(pxCurrentTCB, readyList', xItemValue)
    <3>1. \A u : Before(readyList', u, pxCurrentTCB) => pxCurrentTCB \in Tasks
      BY <1>5, InList, Positions DEF ListsInv
    <3>. QED  BY <1>5, <2>1, <3>1 DEF OnlyUrgentBefore
  <2>. QED  BY <1>1, <2>2 DEF CurrentInv, OnlyUrgentBefore, Before
<1>11. TablesInv'
  BY <1>1, <1>2 DEF TablesInv
<1>. QED  BY <1>1, <1>3, <1>9, <1>10, <1>11 DEF ProgressInv, BootInv, WakeInv

(* The ready list walked, the wait list is all still to come.              *)
LEMMA KillReturnsProgress ==
  ASSUME IInv, KillTasksReturns
  PROVE  ProgressInv'
<1>1. /\ pc = "kill" /\ pc' = "wake" /\ left = 0
      /\ UNCHANGED <<xTickCount, pxCurrentTCB, report, exited, saved, xRemainingTicks,
                     start_time, xItemValue, times_killed, weakly_hard,
                     previous_deadline_met>>
  BY DEF KillTasksReturns, tcbVars, simVars
<1>2. StructureInv /\ TablesInv /\ TickInv /\ KillInv /\ CurrentInv
  BY DEF IInv, ProgressInv
<1>3. View' = View /\ UNCHANGED <<Algorithm, Task_Set>>
  BY <1>1, TaskSetStays DEF View, Next, Handler
<1>4. /\ UNCHANGED <<Scheduler!now, Scheduler!Charged, Scheduler!Completed,
                     Scheduler!MetAfterRun, Scheduler!Killed, Scheduler!MetAfterKill,
                     Scheduler!Waiting, Scheduler!Due, Scheduler!Skipped,
                     Scheduler!Released, Scheduler!MetAfterWake, Recorded>>
      /\ \A t : Scheduler!Breaks(t)' <=> Scheduler!Breaks(t)
  BY <1>3, ViewStays
<1>5. TickInv'
  BY <1>1, <1>2, <1>3, <1>4 DEF TickInv, Hiperperiod
<1>6. KilledSoFar = Scheduler!Killed
  BY <1>1 DEF KilledSoFar, Ahead
<1>7. /\ UNCHANGED readyList /\ Members(waitList)' = Members(waitList)
      /\ Ahead(waitList', left') = Members(waitList)
  BY <1>2, KillReturnLists
<1>8. Members(readyList)' = Members(readyList)
  BY <1>7 DEF Members
<1>9. Members(waitList) = Scheduler!Waiting
  BY <1>1, <1>2, <1>6 DEF KillInv, Scheduler!Waiting
<1>10. Ahead(waitList, left)' = Scheduler!Waiting
  BY <1>7, <1>9 DEF Ahead
<1>11. Scheduler!Skipped \subseteq Scheduler!Due /\ Scheduler!Due \subseteq Scheduler!Waiting
  BY DEF Scheduler!Skipped, Scheduler!Due
<1>12. Passed(Scheduler!Released)' = {} /\ Passed(Scheduler!Due)' = {} /\ Passed(Scheduler!Skipped)' = {}
  BY <1>4, <1>10, <1>11 DEF Passed, Scheduler!Released
<1>13. WakeInv'
  <2>1. /\ Members(readyList)' = View.readyTasks \ (Scheduler!Completed \cup Scheduler!Killed)
        /\ Members(waitList)' = Scheduler!Waiting
    BY <1>1, <1>2, <1>6, <1>7, <1>8, <1>9 DEF KillInv
  <2>2. xRemainingTicks = [t \in Tasks |-> Scheduler!Charged[t]]
    BY <1>1, <1>2 DEF KillInv, Scheduler!Charged
  <2>3. start_time = [t \in Tasks |-> View.start_time[t]]
    BY <1>1, <1>2 DEF KillInv, TablesInv
  <2>4. xItemValue = [t \in Tasks |-> View.xItemValue[t]]
    BY <1>1, <1>2 DEF KillInv, StructureInv, TypesInv
  <2>5. previous_deadline_met = [t \in Tasks |-> Scheduler!MetAfterKill[t]]
    BY <1>1, <1>2, <1>6 DEF KillInv, Scheduler!MetAfterKill
  <2>6. /\ times_killed = [t \in Tasks |-> IF t \in Scheduler!Killed
                                           THEN View.times_killed[t] + 1
                                           ELSE View.times_killed[t]]
        /\ weakly_hard = IF \E t \in Scheduler!Killed : Scheduler!Breaks(t)
                         THEN 0 ELSE View.weakly_hard
    BY <1>1, <1>2, <1>6 DEF KillInv
  <2>. QED  BY <1>1, <1>3, <1>4, <1>12, <2>1, <2>2, <2>3, <2>4, <2>5, <2>6 DEF WakeInv
<1>14. CurrentInv'
  BY <1>1, <1>2, <1>7 DEF CurrentInv, OnlyUrgentBefore, Before
<1>15. TablesInv'
  BY <1>1, <1>2 DEF TablesInv
<1>. QED  BY <1>1, <1>5, <1>13, <1>14, <1>15 DEF ProgressInv, BootInv, KillInv

(* wakeTasks, too, decides task by task as the scheduler does.             *)
LEMMA DueAreWoken ==
  ASSUME TickInv, WakeInv, pc = "wake",
         NEW t \in Members(waitList), t \in Tasks, t \in Ahead(waitList, left)
  PROVE  /\ t \in Scheduler!Due <=> PeriodStarts(t)
         /\ t \in Scheduler!Skipped <=> t \in Scheduler!Due /\ MayBeSkipped(t)
         /\ previous_deadline_met[t] = Scheduler!MetAfterKill[t]
<1>1. t \in Scheduler!Waiting /\ xTickCount = Scheduler!now
  BY DEF WakeInv, TickInv
<1>2. t \in Scheduler!Due <=> PeriodStarts(t)
  BY <1>1, SameParameters DEF Scheduler!Due, PeriodStarts
<1>3. previous_deadline_met[t] = Scheduler!MetAfterKill[t]
  BY DEF WakeInv, Passed
<1>4. t \in Scheduler!Skipped <=> t \in Scheduler!Due /\ MayBeSkipped(t)
  BY <1>3, SameParameters DEF Scheduler!Skipped, MayBeSkipped
<1>. QED  BY <1>2, <1>3, <1>4

(* A step of the walk passes Tcb only.                                     *)
LEMMA OnePassed ==
  ASSUME pc = "wake", pc' = "wake",
         StructureInv, [Next]_vars, TickInv,
         UNCHANGED <<xTickCount, pxCurrentTCB, report, exited, saved>>,
         Ahead(waitList', left') = Ahead(waitList, left) \ {Tcb},
         Tcb \in Ahead(waitList, left)
  PROVE  /\ View' = View /\ TickInv' /\ UNCHANGED <<Algorithm, Task_Set>>
         /\ Passed(Scheduler!Due)' = Passed(Scheduler!Due) \cup (Scheduler!Due \cap {Tcb})
         /\ Passed(Scheduler!Skipped)' =
              Passed(Scheduler!Skipped) \cup (Scheduler!Skipped \cap {Tcb})
         /\ Passed(Scheduler!Released)' =
              Passed(Scheduler!Released) \cup (Scheduler!Released \cap {Tcb})
         /\ UNCHANGED <<Scheduler!now, Scheduler!Charged, Scheduler!Completed, Scheduler!Killed,
                        Scheduler!MetAfterKill, Scheduler!Waiting, Scheduler!Released>>
         /\ \A t : Scheduler!Breaks(t)' <=> Scheduler!Breaks(t)
         /\ \A t : NewKey(t)' = NewKey(t) /\ Duration(t)' = Duration(t)
         /\ Tcb \notin Passed(Scheduler!Due) /\ Tcb \notin Passed(Scheduler!Skipped)
         /\ Tcb \notin Passed(Scheduler!Released)
<1>1. View' = View /\ TickInv' /\ UNCHANGED <<Algorithm, Task_Set>>
  BY WalkKeepsView
<1>2. /\ UNCHANGED <<Scheduler!now, Scheduler!Charged, Scheduler!Completed, Scheduler!Killed,
                     Scheduler!MetAfterKill, Scheduler!Waiting, Scheduler!Due,
                     Scheduler!Skipped, Scheduler!Released>>
      /\ \A t : Scheduler!Breaks(t)' <=> Scheduler!Breaks(t)
      /\ \A t : NewKey(t)' = NewKey(t)
  BY <1>1, ViewStays
<1>3. \A t : Duration(t)' = Duration(t)
  BY <1>1 DEF Duration
<1>4. Ahead(waitList, left)' = Ahead(waitList, left) \ {Tcb}
  BY DEF Ahead
<1>. QED  BY <1>1, <1>2, <1>3, <1>4 DEF Passed

LEMMA WakeProgress ==
  ASSUME IInv, WakeTask
  PROVE  ProgressInv'
<1>1. /\ pc = "wake" /\ pc' = "wake" /\ PeriodStarts(Tcb) /\ ~MayBeSkipped(Tcb)
      /\ xRemainingTicks' = [xRemainingTicks EXCEPT ![Tcb] = Duration(Tcb)]
      /\ start_time' = [start_time EXCEPT ![Tcb] = xTickCount]
      /\ UNCHANGED <<xTickCount, pxCurrentTCB, report, exited, saved, times_killed,
                     weakly_hard, previous_deadline_met>>
  BY DEF WakeTask, Walking, WalkOn, NewJob
<1>2. StructureInv /\ TablesInv /\ TickInv /\ WakeInv /\ CurrentInv /\ [Next]_vars
  BY DEF IInv, ProgressInv, Next, Handler
<1>3. /\ Tcb \in Members(waitList) /\ Tcb \in Ahead(waitList, left) /\ Tcb \in Tasks
      /\ Members(readyList)' = Members(readyList) \cup {Tcb}
      /\ Members(waitList)' = Members(waitList) \ {Tcb}
      /\ Ahead(waitList', left') = Ahead(waitList, left) \ {Tcb}
      /\ xItemValue' = [xItemValue EXCEPT ![Tcb] =
                          ReadyKey(Tcb, xTickCount, previous_deadline_met[Tcb])]
      /\ \A c \in Tasks \ {Tcb} : OnlyUrgentBefore(c, readyList, xItemValue) =>
                                    OnlyUrgentBefore(c, readyList', xItemValue')
      /\ ListsInv'
  BY <1>2, WakeLists
<1>4. /\ Tcb \in Scheduler!Due /\ Tcb \notin Scheduler!Skipped /\ Tcb \in Scheduler!Released
      /\ previous_deadline_met[Tcb] = Scheduler!MetAfterKill[Tcb]
  BY <1>1, <1>2, <1>3, DueAreWoken DEF Scheduler!Released
<1>5. /\ View' = View /\ TickInv' /\ UNCHANGED <<Algorithm, Task_Set>>
      /\ Passed(Scheduler!Due)' = Passed(Scheduler!Due) \cup {Tcb}
      /\ Passed(Scheduler!Skipped)' = Passed(Scheduler!Skipped)
      /\ Passed(Scheduler!Released)' = Passed(Scheduler!Released) \cup {Tcb}
      /\ UNCHANGED <<Scheduler!now, Scheduler!Charged, Scheduler!Completed, Scheduler!Killed,
                     Scheduler!MetAfterKill, Scheduler!Waiting, Scheduler!Released>>
      /\ \A t : Scheduler!Breaks(t)' <=> Scheduler!Breaks(t)
      /\ \A t : NewKey(t)' = NewKey(t) /\ Duration(t)' = Duration(t)
  BY <1>1, <1>2, <1>3, <1>4, OnePassed
<1>6. xTickCount = Scheduler!now
  BY <1>1, <1>2 DEF TickInv
<1>7. ReadyKey(Tcb, xTickCount, previous_deadline_met[Tcb]) = NewKey(Tcb)
  BY <1>3, <1>4, <1>6 DEF NewKey, Scheduler!MetAfterWake
<1>8. /\ Members(readyList)' = (View.readyTasks \ (Scheduler!Completed \cup Scheduler!Killed))
                                 \cup Passed(Scheduler!Released)'
      /\ Members(waitList)' = Scheduler!Waiting \ Passed(Scheduler!Released)'
  BY <1>1, <1>2, <1>3, <1>5 DEF WakeInv
<1>9. /\ xRemainingTicks' =
           [t \in Tasks |-> IF t \in Passed(Scheduler!Due)' THEN Duration(t)
                            ELSE Scheduler!Charged[t]]
      /\ start_time' = [t \in Tasks |-> IF t \in Passed(Scheduler!Due)' THEN Scheduler!now
                                        ELSE View.start_time[t]]
  BY <1>1, <1>2, <1>3, <1>5, <1>6 DEF WakeInv
<1>10. xItemValue' = [t \in Tasks |-> IF t \in Passed(Scheduler!Released)' THEN NewKey(t)
                                      ELSE View.xItemValue[t]]
  BY <1>1, <1>2, <1>3, <1>5, <1>7 DEF WakeInv
<1>11. WakeInv'
  <2>1. /\ previous_deadline_met' =
            [t \in Tasks |-> IF t \in Passed(Scheduler!Skipped) THEN 0
                          ELSE Scheduler!MetAfterKill[t]]
        /\ times_killed' =
             [t \in Tasks |-> IF t \in Scheduler!Killed THEN View.times_killed[t] + 1
                                       ELSE View.times_killed[t]]
        /\ weakly_hard' = IF \E t \in Scheduler!Killed : Scheduler!Breaks(t)
                          THEN 0 ELSE View.weakly_hard
    BY <1>1, <1>2 DEF WakeInv
  <2>2. (xRemainingTicks = [t \in Tasks |-> IF t \in Passed(Scheduler!Due) THEN Duration(t)
                                            ELSE Scheduler!Charged[t]])'
    BY <1>5, <1>9
  <2>3. (start_time = [t \in Tasks |-> IF t \in Passed(Scheduler!Due) THEN Scheduler!now
                                       ELSE View.start_time[t]])'
    BY <1>5, <1>9
  <2>4. (xItemValue = [t \in Tasks |-> IF t \in Passed(Scheduler!Released) THEN NewKey(t)
                                       ELSE View.xItemValue[t]])'
    BY <1>5, <1>10
  <2>5. (previous_deadline_met = [t \in Tasks |-> IF t \in Passed(Scheduler!Skipped) THEN 0
                                                  ELSE Scheduler!MetAfterKill[t]])'
    BY <1>5, <2>1
  <2>6. /\ (times_killed = [t \in Tasks |-> IF t \in Scheduler!Killed
                                            THEN View.times_killed[t] + 1
                                            ELSE View.times_killed[t]])'
        /\ (weakly_hard = IF \E t \in Scheduler!Killed : Scheduler!Breaks(t)
                          THEN 0 ELSE View.weakly_hard)'
    BY <1>5, <2>1
  <2>7. /\ (Members(readyList) = (View.readyTasks \ (Scheduler!Completed \cup Scheduler!Killed))
                                    \cup Passed(Scheduler!Released))'
        /\ (Members(waitList) = Scheduler!Waiting \ Passed(Scheduler!Released))'
    BY <1>5, <1>8
  <2>. QED  BY <2>2, <2>3, <2>4, <2>5, <2>6, <2>7 DEF WakeInv
<1>12. CurrentInv'
  <2>1. SUFFICES ASSUME pxCurrentTCB \notin Scheduler!Released
                 PROVE  OnlyUrgentBefore(pxCurrentTCB, readyList', xItemValue')
    BY <1>1, <1>5 DEF CurrentInv, OnlyUrgentBefore, Before
  <2>2. OnlyUrgentBefore(pxCurrentTCB, readyList, xItemValue) /\ pxCurrentTCB # Tcb
    BY <1>1, <1>2, <1>4, <2>1 DEF CurrentInv
  <2>3. CASE pxCurrentTCB \in Tasks
    BY <1>3, <2>2, <2>3
  <2>4. CASE pxCurrentTCB \notin Tasks
    <3>1. \A u : Before(readyList', u, pxCurrentTCB) => pxCurrentTCB \in Tasks
      BY <1>3, InList, Positions DEF ListsInv
    <3>. QED  BY <2>4, <3>1 DEF OnlyUrgentBefore
  <2>. QED  BY <2>3, <2>4
<1>13. TablesInv'
  <2>1. Duration(Tcb) \in Nat
    BY <1>2, <1>3, TaskSetFacts DEF StructureInv, TypesInv
  <2>2. start_time = [t \in Tasks |-> start_time[t]]
    BY <1>2 DEF TablesInv
  <2>3. start_time' = [t \in Tasks |-> start_time'[t]]
    BY <1>1, <2>2
  <2>. QED  BY <1>1, <1>2, <2>1, <2>3 DEF TablesInv
<1>. QED  BY <1>1, <1>5, <1>11, <1>12, <1>13 DEF ProgressInv, BootInv, KillInv

LEMMA SkipProgress ==
  ASSUME IInv, SkipTask
  PROVE  ProgressInv'
<1>1. /\ pc = "wake" /\ pc' = "wake" /\ PeriodStarts(Tcb) /\ MayBeSkipped(Tcb)
      /\ xRemainingTicks' = [xRemainingTicks EXCEPT ![Tcb] = Duration(Tcb)]
      /\ start_time' = [start_time EXCEPT ![Tcb] = xTickCount]
      /\ previous_deadline_met' = [previous_deadline_met EXCEPT ![Tcb] = 0]
      /\ UNCHANGED <<xTickCount, pxCurrentTCB, report, exited, saved, times_killed,
                     weakly_hard>>
  BY DEF SkipTask, Walking, WalkOn, NewJob
<1>2. StructureInv /\ TablesInv /\ TickInv /\ WakeInv /\ CurrentInv /\ [Next]_vars
  BY DEF IInv, ProgressInv, Next, Handler
<1>3. /\ Tcb \in Members(waitList) /\ Tcb \in Ahead(waitList, left) /\ Tcb \in Tasks
      /\ Members(waitList)' = Members(waitList)
      /\ Ahead(waitList', left') = Ahead(waitList, left) \ {Tcb}
      /\ UNCHANGED <<readyList, xItemValue>>
  BY <1>2, StayLists
<1>4. Tcb \in Scheduler!Due /\ Tcb \in Scheduler!Skipped /\ Tcb \notin Scheduler!Released
  BY <1>1, <1>2, <1>3, DueAreWoken DEF Scheduler!Released
<1>5. /\ View' = View /\ TickInv' /\ UNCHANGED <<Algorithm, Task_Set>>
      /\ Passed(Scheduler!Due)' = Passed(Scheduler!Due) \cup {Tcb}
      /\ Passed(Scheduler!Skipped)' = Passed(Scheduler!Skipped) \cup {Tcb}
      /\ Passed(Scheduler!Released)' = Passed(Scheduler!Released)
      /\ UNCHANGED <<Scheduler!now, Scheduler!Charged, Scheduler!Completed, Scheduler!Killed,
                     Scheduler!MetAfterKill, Scheduler!Waiting, Scheduler!Released>>
      /\ \A t : Scheduler!Breaks(t)' <=> Scheduler!Breaks(t)
      /\ \A t : NewKey(t)' = NewKey(t) /\ Duration(t)' = Duration(t)
  BY <1>1, <1>2, <1>3, <1>4, OnePassed
<1>6. xTickCount = Scheduler!now
  BY <1>1, <1>2 DEF TickInv
<1>7. Members(readyList)' = Members(readyList)
  BY <1>3 DEF Members
<1>8. WakeInv'
  <2>1. /\ (Members(readyList) = (View.readyTasks \ (Scheduler!Completed \cup Scheduler!Killed))
                                    \cup Passed(Scheduler!Released))'
        /\ (Members(waitList) = Scheduler!Waiting \ Passed(Scheduler!Released))'
    BY <1>1, <1>2, <1>3, <1>5, <1>7 DEF WakeInv
  <2>2. (xRemainingTicks = [t \in Tasks |-> IF t \in Passed(Scheduler!Due) THEN Duration(t)
                                            ELSE Scheduler!Charged[t]])'
    BY <1>1, <1>2, <1>3, <1>5 DEF WakeInv
  <2>3. (start_time = [t \in Tasks |-> IF t \in Passed(Scheduler!Due) THEN Scheduler!now
                                       ELSE View.start_time[t]])'
    BY <1>1, <1>2, <1>3, <1>5, <1>6 DEF WakeInv
  <2>4. (xItemValue = [t \in Tasks |-> IF t \in Passed(Scheduler!Released) THEN NewKey(t)
                                       ELSE View.xItemValue[t]])'
    BY <1>1, <1>2, <1>3, <1>5 DEF WakeInv
  <2>5. (previous_deadline_met = [t \in Tasks |-> IF t \in Passed(Scheduler!Skipped) THEN 0
                                                  ELSE Scheduler!MetAfterKill[t]])'
    BY <1>1, <1>2, <1>3, <1>5 DEF WakeInv
  <2>6. /\ (times_killed = [t \in Tasks |-> IF t \in Scheduler!Killed
                                            THEN View.times_killed[t] + 1
                                            ELSE View.times_killed[t]])'
        /\ (weakly_hard = IF \E t \in Scheduler!Killed : Scheduler!Breaks(t)
                          THEN 0 ELSE View.weakly_hard)'
    BY <1>1, <1>2, <1>5 DEF WakeInv
  <2>. QED  BY <2>1, <2>2, <2>3, <2>4, <2>5, <2>6 DEF WakeInv
<1>9. CurrentInv'
  BY <1>1, <1>2, <1>3, <1>5 DEF CurrentInv, OnlyUrgentBefore, Before
<1>10. TablesInv'
  <2>1. Duration(Tcb) \in Nat
    BY <1>2, <1>3, TaskSetFacts DEF StructureInv, TypesInv
  <2>2. start_time = [t \in Tasks |-> start_time[t]]
    BY <1>2 DEF TablesInv
  <2>3. start_time' = [t \in Tasks |-> start_time'[t]]
    BY <1>1, <2>2
  <2>. QED  BY <1>1, <1>2, <2>1, <2>3 DEF TablesInv
<1>. QED  BY <1>1, <1>5, <1>8, <1>9, <1>10 DEF ProgressInv, BootInv, KillInv

LEMMA LeaveProgress ==
  ASSUME IInv, LeaveTask
  PROVE  ProgressInv'
<1>1. /\ pc = "wake" /\ pc' = "wake" /\ ~PeriodStarts(Tcb)
      /\ UNCHANGED <<xTickCount, pxCurrentTCB, report, exited, saved, times_killed,
                     weakly_hard, xRemainingTicks, start_time, previous_deadline_met>>
  BY DEF LeaveTask, Walking, WalkOn, tcbVars
<1>2. StructureInv /\ TablesInv /\ TickInv /\ WakeInv /\ CurrentInv /\ [Next]_vars
  BY DEF IInv, ProgressInv, Next, Handler
<1>3. /\ Tcb \in Members(waitList) /\ Tcb \in Ahead(waitList, left) /\ Tcb \in Tasks
      /\ Members(waitList)' = Members(waitList)
      /\ Ahead(waitList', left') = Ahead(waitList, left) \ {Tcb}
      /\ UNCHANGED <<readyList, xItemValue>>
  BY <1>2, StayLists
<1>4. Tcb \notin Scheduler!Due /\ Tcb \notin Scheduler!Skipped /\ Tcb \notin Scheduler!Released
  BY <1>1, <1>2, <1>3, DueAreWoken DEF Scheduler!Released
<1>5. /\ View' = View /\ TickInv' /\ UNCHANGED <<Algorithm, Task_Set>>
      /\ Passed(Scheduler!Due)' = Passed(Scheduler!Due)
      /\ Passed(Scheduler!Skipped)' = Passed(Scheduler!Skipped)
      /\ Passed(Scheduler!Released)' = Passed(Scheduler!Released)
      /\ UNCHANGED <<Scheduler!now, Scheduler!Charged, Scheduler!Completed, Scheduler!Killed,
                     Scheduler!MetAfterKill, Scheduler!Waiting, Scheduler!Released>>
      /\ \A t : Scheduler!Breaks(t)' <=> Scheduler!Breaks(t)
      /\ \A t : NewKey(t)' = NewKey(t) /\ Duration(t)' = Duration(t)
  BY <1>1, <1>2, <1>3, <1>4, OnePassed
<1>6. Members(readyList)' = Members(readyList)
  BY <1>3 DEF Members
<1>7. WakeInv'
  BY <1>1, <1>2, <1>3, <1>5, <1>6 DEF WakeInv
<1>8. CurrentInv'
  BY <1>1, <1>2, <1>3, <1>5 DEF CurrentInv, OnlyUrgentBefore, Before
<1>9. TablesInv'
  BY <1>1, <1>2 DEF TablesInv
<1>. QED  BY <1>1, <1>5, <1>7, <1>8, <1>9 DEF ProgressInv, BootInv, KillInv

(* A tick that ends the run is the scheduler's ExitTick; any other only    *)
(* begins: nothing is killed yet, and the scheduler is still before it.    *)
LEMMA TickBegins ==
  ASSUME IInv, pc = "run", ~exited, xTaskIncrementTick, pxCurrentTCB' = pxCurrentTCB,
         pxCurrentTCB = Timer => xTickCount < MaxStartupTicks,
         UNCHANGED <<Algorithm, Task_Set>>
  PROVE  /\ ProgressInv'
         /\ exited' => Scheduler!ExitTick
         /\ ~exited' => View' = View
<1>1. StructureInv /\ TablesInv
  BY DEF IInv, ProgressInv
<1>2. /\ pc' = IF exited' THEN "run" ELSE "kill"
      /\ saved' = Snapshot
  BY TickIsCounted DEF xTaskIncrementTick
<1>3. /\ xTickCount' = Scheduler!now
      /\ exited' = (Scheduler!now = Hiperperiod)
      /\ xRemainingTicks' = Scheduler!Charged
      /\ report' = Recorded
      /\ previous_deadline_met' = Scheduler!MetAfterRun
      /\ Members(readyList)' = View.readyTasks \ Scheduler!Completed
      /\ Members(waitList)' = View.xWaitTaskList \cup Scheduler!Completed
      /\ start_time' = View.start_time /\ xItemValue' = View.xItemValue
      /\ times_killed' = View.times_killed /\ weakly_hard' = View.weakly_hard
  BY <1>1, TickStarts
<1>4. /\ View.xTickCount = xTickCount /\ View.pxCurrentTCB = pxCurrentTCB
      /\ View.start_time = start_time /\ View.times_killed = times_killed
      /\ View.exited = exited /\ View.exited \in BOOLEAN
  BY <1>1, ViewFields DEF StructureInv, DaemonInv
<1>5. /\ Scheduler!Charged = [t \in Tasks |-> Scheduler!Charged[t]]
      /\ \A t \in Tasks : Scheduler!Charged[t] \in Nat
      /\ Recorded = [t \in Tasks |-> Recorded[t]]
      /\ Scheduler!MetAfterRun = [t \in Tasks |-> Scheduler!MetAfterRun[t]]
  <2>1. View.xRemainingTicks \in [Tasks -> Nat]
    BY <1>1, ViewFields DEF TablesInv
  <2>. QED  BY <2>1 DEF Scheduler!Charged, Recorded, Scheduler!MetAfterRun
<1>6. TablesInv'
  BY <1>1, <1>3, <1>4, <1>5 DEF TablesInv
<1>7. CASE exited'
  <2>1. pc' = "run"
    BY <1>2, <1>7
  <2>2. ProgressInv'
    BY <1>6, <2>1 DEF ProgressInv, BootInv, TickInv, KillInv, WakeInv, CurrentInv
  <2>3. /\ View'.xTickCount = xTickCount' /\ View'.readyTasks = Members(readyList)'
        /\ View'.xWaitTaskList = Members(waitList)' /\ View'.pxCurrentTCB = pxCurrentTCB'
        /\ View'.xRemainingTicks = xRemainingTicks' /\ View'.start_time = start_time'
        /\ View'.xItemValue = xItemValue'
        /\ View'.previous_deadline_met = previous_deadline_met'
        /\ View'.report = report' /\ View'.times_killed = times_killed'
        /\ View'.weakly_hard = weakly_hard' /\ View'.exited = exited'
    BY <2>1 DEF View, Snapshot
  <2>4. Scheduler!RecordCompletion
    BY <1>3, <2>3, SameParameters DEF Scheduler!RecordCompletion, Recorded
  <2>5. Scheduler!TickIsDue
    BY <1>4 DEF Scheduler!TickIsDue
  <2>6. Scheduler!now = Scheduler!Hiperperiod
    BY <1>3, <1>7, SameParameters
  <2>. QED
    BY <1>3, <1>4, <1>7, <2>2, <2>3, <2>4, <2>5, <2>6 DEF Scheduler!ExitTick, Scheduler!config
<1>8. CASE ~exited'
  <2>1. pc' = "kill"
    BY <1>2, <1>8
  <2>2. View' = View
    BY <1>2, <2>1 DEF View
  <2>3. /\ UNCHANGED <<Scheduler!now, Scheduler!Charged, Scheduler!Completed,
                       Scheduler!MetAfterRun, Scheduler!Killed, Recorded>>
    BY <2>2, ViewStays
  <2>4. TickInv'
    BY <1>3, <1>4, <1>8, <2>1, <2>2, <2>3 DEF TickInv, Hiperperiod
  <2>5. /\ OnlyUrgentBefore(pxCurrentTCB, readyList', xItemValue')
        /\ Ahead(readyList', left') = Members(readyList)'
    BY <1>1, <1>8, TickLists
  <2>6. CurrentInv'
    BY <2>1, <2>5 DEF CurrentInv, OnlyUrgentBefore, Before
  <2>7. KilledSoFar' = {}
    <3>1. Scheduler!Killed \subseteq View.readyTasks \ Scheduler!Completed
      BY DEF Scheduler!Killed
    <3>. QED  BY <1>3, <2>3, <2>5, <3>1 DEF KilledSoFar, Ahead
  <2>8. times_killed' = [t \in Tasks |-> View.times_killed[t]]
    BY <1>1, <1>3, <1>4 DEF TablesInv
  <2>9. KillInv'
    BY <1>3, <1>5, <2>1, <2>2, <2>3, <2>7, <2>8 DEF KillInv
  <2>. QED
    BY <1>6, <1>8, <2>1, <2>2, <2>4, <2>6, <2>9 DEF ProgressInv, BootInv, WakeInv
<1>. QED  BY <1>7, <1>8
-----------------------------------------------------------------------------
(* The head of the ready list is a task vTaskSwitchContext may find there. *)
FirstReady == IF readyList.items = <<>> THEN Idle ELSE Head(readyList.items)

LEMMA HeadBeforeOthers ==
  ASSUME IsList(readyList), NEW c \in Members(readyList), c # Head(readyList.items)
  PROVE  Before(readyList, Head(readyList.items), c) /\ readyList.items # <<>>
<1>1. PICK i \in 1..Len(readyList.items) : c = readyList.items[i]
  BY Positions
<1>2. /\ Len(readyList.items) \in Nat /\ DOMAIN readyList.items = 1..Len(readyList.items)
      /\ readyList.items # <<>> => Head(readyList.items) = readyList.items[1]
      /\ readyList.items = <<>> => Len(readyList.items) = 0
  BY Positions DEF IsList
<1>3. readyList.items # <<>> /\ i # 1
  BY <1>1, <1>2
<1>. QED  BY <1>1, <1>2, <1>3 DEF Before

LEMMA EmptyList ==
  ASSUME IsList(readyList)
  PROVE  readyList.items = <<>> <=> Members(readyList) = {}
<1>1. CASE readyList.items = <<>>
  BY <1>1, Positions
<1>2. CASE readyList.items # <<>>
  BY <1>2, HeadIsFirst
<1>. QED  BY <1>1, <1>2

LEMMA FirstIsHead ==
  ASSUME StructureInv
  PROVE  FirstReady \in Scheduler!Heads(Members(readyList), xItemValue)
<1>1. /\ IsList(readyList) /\ Sorted(readyList, xItemValue)
      /\ xItemValue \in [Tasks -> Keys]
      /\ Members(readyList) \subseteq Tasks
  BY Positions DEF StructureInv, ListsInv, TypesInv
<1>2. CASE readyList.items = <<>>
  BY <1>1, <1>2, EmptyList DEF FirstReady, Scheduler!Heads
<1>3. CASE readyList.items # <<>>
  <2> DEFINE h == Head(readyList.items)
  <2>1. h \in Members(readyList) /\ h \in Tasks
    BY <1>1, <1>3, HeadIsFirst
  <2>2. ASSUME NEW u \in Members(readyList)
        PROVE  ~Precedes(xItemValue[u], xItemValue[h])
    <3>1. CASE u = h
      BY <1>1, <2>1, <3>1, KeyOrder
    <3>2. CASE u # h
      <4>1. Before(readyList, h, u)
        BY <1>1, <3>2, HeadBeforeOthers
      <4>. QED  BY <1>1, <2>1, <4>1 DEF Sorted
    <3>. QED  BY <3>1, <3>2
  <2> HIDE DEF h
  <2>3. h \in Scheduler!Heads(Members(readyList), xItemValue)
    BY <2>1, <2>2, SameParameters DEF Scheduler!Heads
  <2>. QED  BY <1>3, <2>3 DEF FirstReady, h
<1>. QED  BY <1>2, <1>3

LEMMA KeepsItsPlace ==
  ASSUME StructureInv, NEW c,
         c \in Scheduler!Heads(Members(readyList), xItemValue),
         OnlyUrgentBefore(c, readyList, xItemValue)
  PROVE  c = FirstReady
<1>1. IsList(readyList)
  BY DEF StructureInv, ListsInv
<1>2. CASE readyList.items = <<>>
  BY <1>1, <1>2, EmptyList DEF FirstReady, Scheduler!Heads
<1>3. CASE readyList.items # <<>>
  <2> DEFINE h == Head(readyList.items)
  <2>1. h \in Members(readyList) /\ h \in Tasks
    BY <1>1, <1>3, HeadIsFirst
  <2>2. /\ c \in Members(readyList)
        /\ ~Precedes(xItemValue[h], xItemValue[c])
    BY <2>1, SameParameters DEF Scheduler!Heads
  <2>3. c # h => Before(readyList, h, c)
    BY <1>1, <2>2, HeadBeforeOthers
  <2>4. c = h
    BY <2>1, <2>2, <2>3 DEF OnlyUrgentBefore
  <2>. QED  BY <1>3, <2>4 DEF FirstReady
<1>. QED  BY <1>2, <1>3

(* A tick handled to its end is the scheduler's Tick.                      *)
LEMMA TickEnds ==
  ASSUME IInv, pc = "wake", left = 0, pc' = "run",
         UNCHANGED <<Algorithm, Task_Set, xTickCount, readyList, waitList, xRemainingTicks,
                     start_time, xItemValue, previous_deadline_met, report, times_killed,
                     weakly_hard, exited>>,
         \/ pxCurrentTCB' = FirstReady
         \/ pxCurrentTCB = Timer /\ pxCurrentTCB' = Timer
  PROVE  ProgressInv' /\ Scheduler!Tick
<1>1. StructureInv /\ TablesInv /\ TickInv /\ WakeInv /\ CurrentInv
  BY DEF IInv, ProgressInv
<1>2. ProgressInv'
  BY <1>1 DEF ProgressInv, TablesInv, BootInv, TickInv, KillInv, WakeInv, CurrentInv
<1>3. /\ View'.xTickCount = xTickCount /\ View'.readyTasks = Members(readyList)
      /\ View'.xWaitTaskList = Members(waitList) /\ View'.pxCurrentTCB = pxCurrentTCB'
      /\ View'.xRemainingTicks = xRemainingTicks /\ View'.start_time = start_time
      /\ View'.xItemValue = xItemValue
      /\ View'.previous_deadline_met = previous_deadline_met
      /\ View'.report = report /\ View'.times_killed = times_killed
      /\ View'.weakly_hard = weakly_hard /\ View'.exited = exited
  BY DEF View, Snapshot, Members
<1>4. /\ ~exited /\ ~View.exited /\ exited \in BOOLEAN /\ View.exited \in BOOLEAN
      /\ xTickCount = Scheduler!now /\ Scheduler!now # Hiperperiod
      /\ pxCurrentTCB = View.pxCurrentTCB
      /\ pxCurrentTCB = Timer => View.xTickCount < MaxStartupTicks
      /\ report = Recorded
  BY <1>1 DEF TickInv, StructureInv, DaemonInv
<1>5. /\ Passed(Scheduler!Due) = Scheduler!Due
      /\ Passed(Scheduler!Skipped) = Scheduler!Skipped
      /\ Passed(Scheduler!Released) = Scheduler!Released
  BY DEF Passed, Ahead
<1>6. /\ Members(readyList) =
            (View.readyTasks \ (Scheduler!Completed \cup Scheduler!Killed)) \cup Scheduler!Released
      /\ Members(waitList) = Scheduler!Waiting \ Scheduler!Released
      /\ xRemainingTicks = [t \in Tasks |-> IF t \in Scheduler!Due THEN Scheduler!Duration(t)
                                            ELSE Scheduler!Charged[t]]
      /\ start_time = [t \in Tasks |-> IF t \in Scheduler!Due THEN Scheduler!now
                                       ELSE View.start_time[t]]
      /\ xItemValue =
           [t \in Tasks |-> IF t \in Scheduler!Released
                            THEN Scheduler!ReadyKey(t, Scheduler!now, Scheduler!MetAfterWake[t])
                            ELSE View.xItemValue[t]]
      /\ times_killed = [t \in Tasks |-> IF t \in Scheduler!Killed
                                         THEN View.times_killed[t] + 1
                                         ELSE View.times_killed[t]]
      /\ weakly_hard = IF \E t \in Scheduler!Killed : Scheduler!Breaks(t)
                       THEN 0 ELSE View.weakly_hard
  BY <1>1, <1>5, SameParameters DEF WakeInv, NewKey
<1>7. previous_deadline_met = Scheduler!MetAfterWake
  BY <1>1, <1>5 DEF WakeInv, Scheduler!MetAfterWake
<1>8. Scheduler!Dispatch(Members(readyList), xItemValue, Scheduler!Released)
  <2> DEFINE heads == Scheduler!Heads(Members(readyList), xItemValue)
  <2>1. CASE pxCurrentTCB' = FirstReady
    <3>1. FirstReady \in heads
      BY <1>1, FirstIsHead
    <3>2. pxCurrentTCB \in heads \ Scheduler!Released => pxCurrentTCB = FirstReady
      BY <1>1, KeepsItsPlace DEF CurrentInv
    <3> HIDE DEF heads
    <3>3. CASE pxCurrentTCB \in heads \ Scheduler!Released
      BY <1>3, <1>4, <2>1, <3>2, <3>3 DEF Scheduler!Dispatch, heads
    <3>4. CASE pxCurrentTCB \notin heads \ Scheduler!Released
      BY <1>3, <1>4, <2>1, <3>1, <3>4 DEF Scheduler!Dispatch, heads
    <3>. QED  BY <3>3, <3>4
  <2>2. CASE pxCurrentTCB = Timer /\ pxCurrentTCB' = Timer
    BY <1>3, <1>4, <2>2 DEF Scheduler!Dispatch
  <2>. QED  BY <2>1, <2>2
<1>9. Scheduler!RecordCompletion
  BY <1>3, <1>4, SameParameters DEF Scheduler!RecordCompletion, Recorded
<1>10. Scheduler!TickIsDue /\ Scheduler!now # Scheduler!Hiperperiod
  BY <1>4, SameParameters DEF Scheduler!TickIsDue
<1>11. View'.exited = View.exited
  BY <1>3, <1>4
<1>12. Scheduler!Tick
  BY <1>3, <1>4, <1>6, <1>7, <1>8, <1>9, <1>10, <1>11 DEF Scheduler!Tick, Scheduler!config
<1>. QED  BY <1>2, <1>12
-----------------------------------------------------------------------------
LEMMA CreateProgress ==
  ASSUME IInv, xTaskCreatePeriodic
  PROVE  ProgressInv' /\ View' = View
<1> DEFINE created == Members(readyList) \cup Members(waitList)
<1>1. PICK t \in Tasks \ created :
        /\ pc = "create" /\ pc' = "create"
        /\ xRemainingTicks' = [xRemainingTicks EXCEPT ![t] = Duration(t)]
        /\ prvAddTaskToReadyList(t, readyList, waitList)
        /\ UNCHANGED <<Algorithm, Task_Set, xTickCount, start_time, previous_deadline_met,
                       report, times_killed, weakly_hard, exited, saved>>
  BY DEF xTaskCreatePeriodic, simVars, config
<1>2. StructureInv /\ TablesInv /\ BootInv /\ xTickCount = 0
  BY <1>1 DEF IInv, ProgressInv, StructureInv, DaemonInv
<1>3. View' = View
  BY <1>1 DEF View
<1>4. /\ saved = AtStart
      /\ Members(readyList) = {u \in created : GoesReady(u, 0)}
      /\ xRemainingTicks = [u \in Tasks |-> IF u \in created THEN Duration(u) ELSE 0]
      /\ xItemValue = [u \in Tasks |-> ReadyKey(u, 0, 0)]
      /\ previous_deadline_met = [u \in Tasks |-> 0]
      /\ report = [u \in Tasks |-> {}] /\ times_killed = [u \in Tasks |-> 0]
      /\ weakly_hard = 1 /\ exited = FALSE
  BY <1>1, <1>2 DEF BootInv
<1>5. previous_deadline_met[t] = 0
  BY <1>4
<1>6. /\ xItemValue' = IF GoesReady(t, 0) THEN [xItemValue EXCEPT ![t] = ReadyKey(t, 0, 0)]
                       ELSE xItemValue
      /\ Members(readyList)' = IF GoesReady(t, 0) THEN Members(readyList) \cup {t}
                               ELSE Members(readyList)
      /\ Members(waitList)' = IF GoesReady(t, 0) THEN Members(waitList)
                              ELSE Members(waitList) \cup {t}
  BY <1>1, <1>2, <1>5, CreateLists
<1>7. xItemValue' = xItemValue
  BY <1>4, <1>6
<1>8. created' = created \cup {t}
  BY <1>6
<1>9. Members(readyList)' = {u \in created' : GoesReady(u, 0)}
  BY <1>4, <1>6, <1>8
<1> HIDE DEF created
<1>10. xRemainingTicks' = [u \in Tasks |-> IF u \in created' THEN Duration(u) ELSE 0]
  BY <1>1, <1>4, <1>8
<1>11. /\ \A u : Duration(u)' = Duration(u)
       /\ \A u : GoesReady(u, 0)' <=> GoesReady(u, 0)
       /\ \A u : ReadyKey(u, 0, 0)' = ReadyKey(u, 0, 0)
  BY <1>1 DEF Duration, GoesReady, Constraint, ReadyKey, IsBlue, Period
<1>12. AtStart' = AtStart
  BY <1>1, <1>11 DEF AtStart
<1>13. BootInv'
  <2>1. (Members(readyList) = {u \in created : GoesReady(u, 0)})'
    BY <1>9, <1>11
  <2>2. (xRemainingTicks = [u \in Tasks |-> IF u \in created THEN Duration(u) ELSE 0])'
    BY <1>10, <1>11
  <2>3. (xItemValue = [u \in Tasks |-> ReadyKey(u, 0, 0)])'
    BY <1>4, <1>7, <1>11
  <2>. QED  BY <1>1, <1>4, <1>12, <2>1, <2>2, <2>3 DEF BootInv, created
<1>14. TablesInv'
  <2>1. Duration(t) \in Nat
    BY <1>2, TaskSetFacts DEF StructureInv, TypesInv
  <2>. QED  BY <1>1, <1>2, <2>1 DEF TablesInv
<1>. QED
  BY <1>1, <1>3, <1>13, <1>14 DEF ProgressInv, TickInv, KillInv, WakeInv, CurrentInv

LEMMA StartProgress ==
  ASSUME IInv, vTaskStartScheduler
  PROVE  ProgressInv' /\ View' = View
<1>1. /\ pc = "create" /\ pc' = "run" /\ pxCurrentTCB' = Timer
      /\ Members(readyList) \cup Members(waitList) = Tasks
      /\ UNCHANGED <<xTickCount, readyList, waitList, xRemainingTicks, start_time, xItemValue,
                     previous_deadline_met, report, times_killed, weakly_hard, exited>>
  BY DEF vTaskStartScheduler, tcbVars, simVars
<1>2. /\ StructureInv /\ TablesInv /\ BootInv /\ xTickCount = 0
      /\ Members(readyList) \cap Members(waitList) = {}
  BY <1>1 DEF IInv, ProgressInv, StructureInv, DaemonInv, ListsInv
<1>3. /\ saved = AtStart
      /\ Members(readyList) = {t \in Tasks : GoesReady(t, 0)}
      /\ xRemainingTicks = [t \in Tasks |-> Duration(t)]
      /\ xItemValue = [t \in Tasks |-> ReadyKey(t, 0, 0)]
      /\ previous_deadline_met = [t \in Tasks |-> 0]
      /\ report = [t \in Tasks |-> {}] /\ times_killed = [t \in Tasks |-> 0]
      /\ weakly_hard = 1 /\ exited = FALSE
  BY <1>1, <1>2 DEF BootInv
<1>4. Members(waitList) = {t \in Tasks : ~GoesReady(t, 0)}
  BY <1>1, <1>2, <1>3
<1>5. View = AtStart
  BY <1>1, <1>3 DEF View
<1>6. /\ View' = Snapshot'
      /\ Members(readyList)' = Members(readyList) /\ Members(waitList)' = Members(waitList)
  BY <1>1 DEF View, Members
<1>7. View' = AtStart
  BY <1>1, <1>2, <1>3, <1>4, <1>6 DEF Snapshot, AtStart
<1>8. TablesInv'
  BY <1>1, <1>2 DEF TablesInv
<1>. QED
  BY <1>1, <1>5, <1>7, <1>8 DEF ProgressInv, BootInv, TickInv, KillInv, WakeInv, CurrentInv

LEMMA ProgressInit == Init => ProgressInv /\ Scheduler!Init
<1> SUFFICES ASSUME Init PROVE ProgressInv /\ Scheduler!Init
  OBVIOUS
<1>1. /\ readyList = [items |-> <<>>, pxIndex |-> 0] /\ waitList = [items |-> <<>>, pxIndex |-> 0]
      /\ pc = "create" /\ xRemainingTicks = [t \in Tasks |-> 0]
      /\ start_time \in [Tasks -> UninitStartTime]
      /\ xItemValue = [t \in Tasks |-> ReadyKey(t, 0, 0)]
      /\ previous_deadline_met = [t \in Tasks |-> 0]
      /\ report = [t \in Tasks |-> {}] /\ times_killed = [t \in Tasks |-> 0]
      /\ weakly_hard = 1 /\ exited = FALSE /\ saved = AtStart
      /\ Algorithm \in Builds /\ Task_Set \in TaskSets
  BY DEF Init, vListInitialise, ConfigInit
<1>2. Members([items |-> <<>>, pxIndex |-> 0]) = {}
  BY DEF Members, ToSet
<1>3. Members(readyList) = {} /\ Members(waitList) = {}
  BY <1>1, <1>2
<1>4. BootInv
  BY <1>1, <1>3 DEF BootInv
<1>5. TablesInv
  BY <1>1 DEF TablesInv
<1>6. ProgressInv
  BY <1>1, <1>4, <1>5 DEF ProgressInv, TickInv, KillInv, WakeInv, CurrentInv
<1>7. View = AtStart
  BY <1>1 DEF View
<1>8. Tasks \ {t \in Tasks : GoesReady(t, 0)} = {t \in Tasks : ~GoesReady(t, 0)}
  OBVIOUS
<1>9. Scheduler!Init
  <2>1. Scheduler!ConfigInit
    BY <1>1 DEF Scheduler!ConfigInit
  <2>2. /\ View.xTickCount = 0
        /\ View.readyTasks = {t \in Tasks : Scheduler!GoesReady(t, 0)}
        /\ View.xWaitTaskList = Tasks \ View.readyTasks
        /\ View.pxCurrentTCB = Timer
        /\ View.xRemainingTicks = [t \in Tasks |-> Scheduler!Duration(t)]
        /\ View.start_time \in [Tasks -> UninitStartTime]
        /\ View.xItemValue = [t \in Tasks |-> Scheduler!ReadyKey(t, 0, 0)]
        /\ View.previous_deadline_met = [t \in Tasks |-> 0]
        /\ View.report = [t \in Tasks |-> {}]
        /\ View.times_killed = [t \in Tasks |-> 0]
        /\ View.weakly_hard = 1 /\ View.exited = FALSE
    BY <1>1, <1>7, <1>8, SameParameters DEF AtStart
  <2>. QED  BY <2>1, <2>2 DEF Scheduler!Init
<1>. QED  BY <1>6, <1>9

(* A step between ticks, of the daemon or of nobody, that leaves the       *)
(* tables, the lists and the clock alone.                                  *)
LEMMA BetweenTicks ==
  ASSUME IInv, pc = "run", pc' = "run",
         UNCHANGED <<Algorithm, Task_Set, xTickCount, readyList, waitList, xRemainingTicks,
                     start_time, xItemValue, previous_deadline_met, report, times_killed,
                     weakly_hard, exited>>
  PROVE  /\ ProgressInv'
         /\ pxCurrentTCB' = pxCurrentTCB => View' = View
         /\ ~exited /\ pxCurrentTCB = Timer /\ pxCurrentTCB' = FirstReady =>
              Scheduler!TimerBlocks
<1>1. StructureInv /\ TablesInv
  BY DEF IInv, ProgressInv
<1>2. ProgressInv'
  BY <1>1 DEF ProgressInv, TablesInv, BootInv, TickInv, KillInv, WakeInv, CurrentInv
<1>3. View = Snapshot /\ View' = Snapshot' /\ Members(readyList)' = Members(readyList)
      /\ Members(waitList)' = Members(waitList)
  BY DEF View, Members
<1>4. pxCurrentTCB' = pxCurrentTCB => View' = View
  BY <1>3 DEF Snapshot
<1>5. ASSUME ~exited, pxCurrentTCB = Timer, pxCurrentTCB' = FirstReady
      PROVE  Scheduler!TimerBlocks
  <2>1. FirstReady \in Scheduler!Heads(Members(readyList), xItemValue)
    BY <1>1, FirstIsHead
  <2>2. /\ View.readyTasks = Members(readyList) /\ View.xItemValue = xItemValue
        /\ View.pxCurrentTCB = Timer /\ View'.pxCurrentTCB = FirstReady
        /\ ~View.exited
    BY <1>3, <1>5 DEF Snapshot
  <2>3. /\ View'.xTickCount = View.xTickCount /\ View'.readyTasks = View.readyTasks
        /\ View'.xWaitTaskList = View.xWaitTaskList
        /\ View'.xRemainingTicks = View.xRemainingTicks
        /\ View'.start_time = View.start_time /\ View'.xItemValue = View.xItemValue
        /\ View'.previous_deadline_met = View.previous_deadline_met
        /\ View'.report = View.report /\ View'.times_killed = View.times_killed
        /\ View'.weakly_hard = View.weakly_hard /\ View'.exited = View.exited
    BY <1>3 DEF Snapshot
  <2>. QED
    BY <2>1, <2>2, <2>3
    DEF Scheduler!TimerBlocks, Scheduler!config, Scheduler!tcbVars, Scheduler!simVars
<1>. QED  BY <1>2, <1>4, <1>5

LEMMA ProgressNext ==
  IInv /\ [Next]_vars => ProgressInv' /\ [Scheduler!Next]_(Scheduler!vars)
<1> SUFFICES ASSUME IInv, [Next]_vars
             PROVE  ProgressInv' /\ [Scheduler!Next]_(Scheduler!vars)
  OBVIOUS
<1>1. /\ UNCHANGED <<Algorithm, Task_Set>> /\ StructureInv
      /\ View' = View => UNCHANGED Scheduler!vars
  BY TaskSetStays, ViewStays DEF IInv
<1>2. CASE xTaskCreatePeriodic \/ vTaskStartScheduler
  BY <1>1, <1>2, CreateProgress, StartProgress
<1>3. CASE vPortSystemTickHandler \/ ReplayTick
  <2>1. /\ pc = "run" /\ ~exited /\ xTaskIncrementTick /\ pxCurrentTCB' = pxCurrentTCB
    BY <1>3 DEF vPortSystemTickHandler, ReplayTick, TickSignal
  <2>2. pxCurrentTCB = Timer => xTickCount < MaxStartupTicks
    <3>1. CASE vPortSystemTickHandler
      BY <1>1, <3>1, ConstantsAssumption
      DEF vPortSystemTickHandler, TickSignal, StructureInv, DaemonInv
    <3>2. CASE ReplayTick
      BY <1>1, <3>2, ConstantsAssumption DEF ReplayTick, StructureInv, DaemonInv, Owed
    <3>. QED  BY <1>3, <3>1, <3>2
  <2>. QED  BY <1>1, <2>1, <2>2, TickBegins DEF Scheduler!Next
<1>4. CASE PendTick \/ vTaskSuspendAll \/ vTaskPlaceOnEventListRestricted \/ xTaskResumeAll
  <2>1. /\ pc = "run" /\ pc' = "run" /\ pxCurrentTCB' = pxCurrentTCB
        /\ UNCHANGED <<xTickCount, readyList, waitList, xRemainingTicks, start_time,
                       xItemValue, previous_deadline_met, report, times_killed,
                       weakly_hard, exited>>
    BY <1>4 DEF PendTick, TickSignal, vTaskSwitchContext, vTaskSuspendAll,
                vTaskPlaceOnEventListRestricted, xTaskResumeAll, DaemonStep, tcbVars, simVars
  <2>. QED  BY <1>1, <2>1, BetweenTicks
<1>5. CASE KillTask \/ SpareTask \/ KillTasksReturns \/ WakeTask \/ SkipTask \/ LeaveTask
  <2>1. View' = View
    BY <1>5 DEF KillTask, SpareTask, KillTasksReturns, WakeTask, SkipTask, LeaveTask,
                Walking, WalkOn, View
  <2>. QED
    BY <1>1, <1>5, <2>1, KillProgress, SpareProgress, KillReturnsProgress, WakeProgress,
       SkipProgress, LeaveProgress
<1>6. CASE TickHandlerReturns
  <2>1. /\ pc = "wake" /\ left = 0 /\ daemon # "replaying" /\ pc' = "run"
        /\ vTaskSwitchContext
        /\ UNCHANGED <<xTickCount, readyList, waitList, xRemainingTicks, start_time,
                       xItemValue, previous_deadline_met, report, times_killed,
                       weakly_hard, exited>>
    BY <1>6 DEF TickHandlerReturns, tcbVars, simVars
  <2>2. /\ uxSchedulerSuspended = 0 /\ daemon # "suspended"
        /\ daemon = "start" => pxCurrentTCB = Timer
    BY <1>1, <2>1 DEF StructureInv, DaemonInv
  <2>3. pxCurrentTCB' = IF daemon = "start" THEN Timer ELSE FirstReady
    BY <2>1, <2>2 DEF vTaskSwitchContext, HighestPriorityTask, DaemonReady, FirstReady,
                      listGET_OWNER_OF_HEAD_ENTRY
  <2>. QED  BY <1>1, <2>1, <2>2, <2>3, TickEnds DEF Scheduler!Next
<1>7. CASE ReplayReturns
  <2>1. /\ pc = "wake" /\ left = 0 /\ daemon = "replaying" /\ pc' = "run"
        /\ UNCHANGED <<xTickCount, readyList, waitList, xRemainingTicks, start_time,
                       xItemValue, previous_deadline_met, report, times_killed,
                       weakly_hard, exited, pxCurrentTCB>>
    BY <1>7 DEF ReplayReturns, tcbVars, simVars
  <2>2. pxCurrentTCB = Timer
    BY <1>1, <2>1 DEF StructureInv, DaemonInv
  <2>. QED  BY <1>1, <2>1, <2>2, TickEnds DEF Scheduler!Next
<1>8. CASE ResumeAllReturns \/ vPortYield
  <2>1. /\ pc = "run" /\ pc' = "run" /\ ~exited /\ daemon \in {"replaying", "yielding"}
        /\ daemon = "yielding" => pxCurrentTCB = Timer
        /\ UNCHANGED <<xTickCount, readyList, waitList, xRemainingTicks, start_time,
                       xItemValue, previous_deadline_met, report, times_killed,
                       weakly_hard, exited>>
        /\ vTaskSwitchContext \/ pxCurrentTCB' = pxCurrentTCB
    BY <1>8 DEF ResumeAllReturns, vPortYield, DaemonStep, tcbVars, simVars
  <2>2. uxSchedulerSuspended = 0 /\ pxCurrentTCB = Timer
    BY <1>1, <2>1 DEF StructureInv, DaemonInv
  <2>3. pxCurrentTCB' = FirstReady \/ pxCurrentTCB' = pxCurrentTCB
    BY <2>1, <2>2 DEF vTaskSwitchContext, HighestPriorityTask, DaemonReady, FirstReady,
                      listGET_OWNER_OF_HEAD_ENTRY
  <2>. QED  BY <1>1, <2>1, <2>2, <2>3, BetweenTicks DEF Scheduler!Next
<1>9. CASE UNCHANGED vars
  <2>1. UNCHANGED <<xTickCount, readyList, waitList, xRemainingTicks, start_time,
                    xItemValue, previous_deadline_met, report, times_killed, weakly_hard,
                    exited, pxCurrentTCB, pc, Tcb, left, saved, Algorithm, Task_Set>>
    BY <1>9 DEF vars, config, tcbVars, simVars, walkVars
  <2>2. View' = View
    BY <2>1 DEF View, Snapshot, Members
  <2>3. ProgressInv'
    <3>1. TablesInv' /\ TickInv' /\ BootInv'
      BY <1>1, <2>1, <2>2, ViewStays
      DEF IInv, ProgressInv, TablesInv, TickInv, BootInv, Hiperperiod, AtStart, Members,
          GoesReady, Constraint, Duration, ReadyKey, IsBlue, Period
    <3>2. /\ UNCHANGED <<Scheduler!now, Scheduler!Charged, Scheduler!Completed,
                         Scheduler!MetAfterRun, Scheduler!Killed, Scheduler!MetAfterKill,
                         Scheduler!Waiting, Scheduler!Due, Scheduler!Skipped,
                         Scheduler!Released>>
          /\ \A t : Scheduler!Breaks(t)' <=> Scheduler!Breaks(t)
          /\ \A t : NewKey(t)' = NewKey(t) /\ Duration(t)' = Duration(t)
      BY <1>1, <2>2, ViewStays DEF Duration
    <3>3. /\ KilledSoFar' = KilledSoFar
          /\ Passed(Scheduler!Released)' = Passed(Scheduler!Released)
          /\ Passed(Scheduler!Due)' = Passed(Scheduler!Due)
          /\ Passed(Scheduler!Skipped)' = Passed(Scheduler!Skipped)
          /\ Members(readyList)' = Members(readyList) /\ Members(waitList)' = Members(waitList)
      BY <2>1, <3>2 DEF KilledSoFar, Passed, Ahead, Members
    <3>4. KillInv'
      BY <2>1, <2>2, <3>2, <3>3 DEF IInv, ProgressInv, KillInv
    <3>5. WakeInv'
      BY <2>1, <2>2, <3>2, <3>3 DEF IInv, ProgressInv, WakeInv
    <3>6. CurrentInv'
      BY <2>1, <3>2 DEF IInv, ProgressInv, CurrentInv, OnlyUrgentBefore, Before
    <3>. QED  BY <3>1, <3>4, <3>5, <3>6 DEF ProgressInv
  <2>. QED  BY <1>1, <2>2, <2>3
<1>. QED
  BY <1>2, <1>3, <1>4, <1>5, <1>6, <1>7, <1>8, <1>9 DEF Next, Boot, Tick, Handler, Daemon

LEMMA AlwaysProgress == Spec => []IInv
<1>1. Init => IInv
  BY StructureInit, ProgressInit DEF IInv
<1>2. IInv /\ [Next]_vars => IInv'
  BY StructureNext, ProgressNext DEF IInv
<1>. QED  BY <1>1, <1>2, PTL DEF Spec

(* The handler that works list item by list item, with the ticks the       *)
(* daemon's suspended scheduler counts and replays, does tick for tick     *)
(* what PeriodicScheduler promises, with the same task given the           *)
(* processor: the order in which killTasks and wakeTasks meet the tasks    *)
(* makes no difference.                                                    *)
THEOREM KernelImplementsScheduler == Spec => ImplementsScheduler
<1>1. Init => Scheduler!Init
  BY ProgressInit
<1>2. IInv /\ [Next]_vars => [Scheduler!Next]_(Scheduler!vars)
  BY ProgressNext
<1>3. Spec => Scheduler!Spec
  BY <1>1, <1>2, AlwaysProgress, PTL DEF Spec, Scheduler!Spec
<1>. QED  BY <1>3 DEF ImplementsScheduler
=============================================================================
