----------------------------- MODULE HeapBySize ------------------------------
(***************************************************************************)
(* portable/MemMang/heap_2.c: a heap whose list of free blocks is in order  *)
(* of their sizes, between xStart and xEnd, which lie outside the memory.   *)
(* Blocks are split and never made one again.  pvPortMalloc and the list    *)
(* part of vPortFree run with the scheduler suspended.                      *)
(***************************************************************************)
EXTENDS Integers, SequencesExt

CONSTANTS
  Callers,     \* tasks
  BASE, TOTAL, \* where ucHeap lies, and configTOTAL_HEAP_SIZE
  ALIGN,       \* portBYTE_ALIGNMENT
  HEADER,      \* heapSTRUCT_SIZE
  TOP,         \* the highest bit of a size_t
  Sizes        \* what is asked for

Adjusted == TOTAL - ALIGN                               \* configADJUSTED_HEAP_SIZE
First == (BASE + ALIGN - 1) - ((BASE + ALIGN - 1) % ALIGN)
NULL == 0

Parameters ==
  /\ BASE \in Nat \ {0} /\ TOTAL \in Nat /\ TOP \in Nat /\ Sizes \subseteq 0 .. 2 * TOP - 1
  /\ ALIGN \in Nat \ {0} /\ HEADER \in Nat \ {0} /\ HEADER % ALIGN = 0
  /\ 2 * HEADER <= Adjusted /\ Adjusted < TOP

VARIABLES
  heap,        \* the free blocks in their order, the headers, xFreeBytesRemaining
  freeing,     \* the block each caller is in the middle of returning, or NULL
  regions      \* history: what the application was given and has not returned

vars == <<heap, freeing, regions>>

-----------------------------------------------------------------------------
\* A header, what is asked for and at least one byte more, up to the alignment.
BlockSize(n) ==
  LET size == n + HEADER + ALIGN - (n % ALIGN) IN
  IF n = 0 \/ size >= 2 * TOP THEN 0 ELSE size

HeapInit == [list |-> <<First>>, free |-> Adjusted,
             block |-> [a \in {First} |-> [size |-> Adjusted, used |-> FALSE]]]

\* prvInsertBlockIntoFreeList: in front of the first block that is not smaller.
InsertBlock(h, b) ==
  LET i == SelectInSeq(h.list, LAMBDA c : h.block[c].size >= h.block[b].size)
  IN  [h EXCEPT !.list = InsertAt(@, IF i = 0 THEN Len(@) + 1 ELSE i, b)]

Splits(h, b, size) == h.block[b].size - size > 2 * HEADER
Split(h, b, size) ==
  LET rest == [size |-> h.block[b].size - size, used |-> FALSE]
      cut == [h EXCEPT !.block = [a \in DOMAIN @ \cup {b + size} |->
                                    IF a = b + size THEN rest ELSE
                                    IF a = b THEN [@[b] EXCEPT !.size = size] ELSE @[a]]]
  IN  InsertBlock(cut, b + size)

Allocate(h, b) ==
  [h EXCEPT !.free = @ - h.block[b].size, !.block[b].used = TRUE]

Refuses(h, size) ==
  size >= TOP \/ size = 0 \/ size > h.free \/ \A b \in ToSet(h.list) : h.block[b].size < size

-----------------------------------------------------------------------------
Init ==
  /\ heap = HeapInit
  /\ freeing = [t \in Callers |-> NULL]
  /\ regions = {}

MallocFails(t, n) ==
  /\ freeing[t] = NULL
  /\ Refuses(heap, BlockSize(n))
  /\ UNCHANGED vars

\* pvPortMalloc: the first block of the list that is large enough.
MallocFits(t, n) ==
  LET size == BlockSize(n)
      i == SelectInSeq(heap.list, LAMBDA c : heap.block[c].size >= size)
      b == heap.list[i]
      taken == [heap EXCEPT !.list = RemoveAt(@, i)]
  IN  /\ freeing[t] = NULL
      /\ ~Refuses(heap, size)
      /\ heap' = Allocate(IF Splits(heap, b, size) THEN Split(taken, b, size) ELSE taken, b)
      /\ regions' = regions \cup {[at |-> b + HEADER, size |-> n]}
      /\ UNCHANGED freeing

\* vPortFree up to vTaskSuspendAll, and its rest.
Free(t) ==
  /\ freeing[t] = NULL
  /\ \E r \in regions :
       LET b == r.at - HEADER IN
       /\ heap.block[b].used
       /\ heap' = [heap EXCEPT !.block[b].used = FALSE]
       /\ freeing' = [freeing EXCEPT ![t] = b]
       /\ regions' = regions \ {r}

PutBack(t) ==
  LET b == freeing[t] IN
  /\ b # NULL
  /\ heap' = InsertBlock([heap EXCEPT !.free = @ + heap.block[b].size], b)
  /\ freeing' = [freeing EXCEPT ![t] = NULL]
  /\ UNCHANGED regions

Next ==
  \E t \in Callers :
    \/ \E n \in Sizes : MallocFails(t, n) \/ MallocFits(t, n)
    \/ Free(t) \/ PutBack(t)

-----------------------------------------------------------------------------
After(b) == b + heap.block[b].size

(* The blocks cover ucHeap without gaps or overlaps, each is free, on its  *)
(* way back or with the application that asked for no more than it holds;  *)
(* the free ones are in the list once, the smallest first, so that the     *)
(* first that is large enough is the best there is.                        *)
BlocksIntact ==
  /\ \A b \in DOMAIN heap.block :
       /\ After(b) \in DOMAIN heap.block \cup {First + Adjusted} /\ b < After(b)
       /\ \A c \in DOMAIN heap.block : c <= b \/ c >= After(b)
       /\ Cardinality({r \in regions : r.at = b + HEADER})
          + Cardinality({t \in Callers : freeing[t] = b})
          + Cardinality({i \in DOMAIN heap.list : heap.list[i] = b}) = 1
  /\ BASE <= First /\ First + Adjusted <= BASE + TOTAL
  /\ \A r \in regions : r.at - HEADER \in DOMAIN heap.block /\ r.at + r.size <= After(r.at - HEADER)
  /\ \A i, j \in DOMAIN heap.list : i < j => heap.block[heap.list[i]].size <= heap.block[heap.list[j]].size
  /\ heap.free = FoldLeft(LAMBDA sum, b : sum + heap.block[b].size, 0, heap.list)
=============================================================================
