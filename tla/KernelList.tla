----------------------------- MODULE KernelList -----------------------------
(***************************************************************************)
(* The kernel's List_t as list.c and list.h manipulate it: the owners of   *)
(* its items in order, and pxIndex, the position the last walk reached,    *)
(* where 0 stands for the end marker xListEnd.                             *)
(***************************************************************************)
EXTENDS Integers, SequencesExt

vListInitialise == [items |-> <<>>, pxIndex |-> 0]

Members(list) == ToSet(list.items)

(* The first owner; callers first test the list for emptiness.             *)
listGET_OWNER_OF_HEAD_ENTRY(list) == Head(list.items)

(* listINSERT_END and vListInsertEnd: behind every item a walk from        *)
(* pxIndex would meet, that is, just before pxIndex.                       *)
vListInsertEnd(list, x) ==
  IF list.pxIndex = 0
  THEN [items |-> Append(list.items, x), pxIndex |-> 0]
  ELSE [items |-> InsertAt(list.items, list.pxIndex, x), pxIndex |-> list.pxIndex + 1]

InsertBefore(list, position, x) ==
  [items |-> InsertAt(list.items, position, x),
   pxIndex |-> IF list.pxIndex >= position THEN list.pxIndex + 1 ELSE list.pxIndex]

(* The first item with a value greater than that of the one to insert;     *)
(* greater: the owners of such values.                                     *)
FirstGreater(items, greater) ==
  CHOOSE p \in 1..(Len(items) + 1) : /\ \A q \in 1..(p - 1) : items[q] \notin greater
                                     /\ p <= Len(items) => items[p] \in greater

(* vListInsert: before that item, so behind every item with the same value.*)
vListInsert(list, x, greater) ==
  InsertBefore(list, FirstGreater(list.items, greater), x)

NotRemoved(list, x) == list

(* A removal that leaves pxIndex alone, although the item may be there.    *)
RemoveKeepingIndex(list, x) ==
  [list EXCEPT !.items = SelectSeq(@, LAMBDA y : y # x)]

(* uxListRemove and listREMOVE_ITEM: pxIndex steps back when its item goes.*)
uxListRemove(list, x) ==
  LET position == CHOOSE p \in 1..Len(list.items) : list.items[p] = x
  IN [items |-> RemoveAt(list.items, position),
      pxIndex |-> IF list.pxIndex >= position THEN list.pxIndex - 1 ELSE list.pxIndex]

(* listGET_OWNER_OF_NEXT_ENTRY moves pxIndex on, over the end marker, and  *)
(* reads the owner there; an empty list has none, and what the macro reads *)
(* from its end marker is nobody.                                          *)
NextEntry(list) ==
  [items |-> list.items,
   pxIndex |-> IF list.items = <<>> THEN 0 ELSE (list.pxIndex % Len(list.items)) + 1]

OwnerAtIndex(list, nobody) ==
  IF list.pxIndex = 0 THEN nobody ELSE list.items[list.pxIndex]

FirstEntry(list) == NextEntry([items |-> list.items, pxIndex |-> 0])
=============================================================================
