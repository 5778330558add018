------------------------------ MODULE TaskList ------------------------------
(***************************************************************************)
(* The lists of FreeRTOS (list.c).  A ready list is circular, holds an end  *)
(* marker and has an index that walks it; here it is the sequence of its    *)
(* entries, marker included, that starts at the index.  The lists that are  *)
(* only ever read from the head, and whose index never leaves the marker,   *)
(* are the plain sequences of their items.                                  *)
(***************************************************************************)
EXTENDS Integers, SequencesExt

CONSTANT End            \* the end marker of every list

(* vListInitialise: the marker alone, with the index at it. *)
EmptyList == <<End>>

(* vListInsertEnd puts the item just behind the index, so that it is the    *)
(* last one the index reaches.                                              *)
InsertEnd(list, item) == Append(list, item)

Step(list) == Append(Tail(list), Head(list))

(* listGET_OWNER_OF_NEXT_ENTRY: the index moves on and skips the marker. *)
Advance(list) == IF Head(Step(list)) = End THEN Step(Step(list)) ELSE Step(list)

(* uxListRemove: an index at the removed item falls back to the previous one. *)
RemoveEntry(list, item) ==
  IF Head(list) = item THEN <<Last(list)>> \o Front(Tail(list))
                       ELSE Remove(list, item)

HasEntries(list) == Len(list) > 1

(* vListInsert: before the first item of a greater value, hence behind      *)
(* those of the same value.                                                 *)
InsertInOrder(list, item, value) ==
  LET later == {i \in DOMAIN list : value[list[i]] > value[item]}
  IN  InsertAt(list, IF later = {} THEN Len(list) + 1 ELSE Min(later), item)
=============================================================================
