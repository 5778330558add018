-------------------------------- MODULE Heap --------------------------------
(***************************************************************************)
(* The heap of FreeRTOS (portable/MemMang/heap_4.c), from which the tasks,  *)
(* queues, timers and the event group of the program come.  A block starts  *)
(* with a header, which holds its size, whether the application has it, and *)
(* a pointer to the next free block; the free blocks form a list in order   *)
(* of their addresses, between xStart and pxEnd.  The memory may lie in     *)
(* several regions (heap_5.c, see RegionsNext), each with a header of size  *)
(* 0 at its end that leads on to the next; heap_4.c has one.                *)
(*                                                                         *)
(* pvPortMalloc and the list part of vPortFree run with the scheduler       *)
(* suspended and are one step each.  vPortFree marks the block as free      *)
(* before that, so another task can come in between.  The loops over the    *)
(* list are described by where they stop.                                   *)
(***************************************************************************)
EXTENDS Integers, Sequences, FiniteSetsExt

CONSTANTS
  Callers,     \* tasks
  Regions,     \* where the memory lies, upwards: [at, size] each; ucHeap is the only one
  ALIGN,       \* portBYTE_ALIGNMENT
  HEADER,      \* xHeapStructSize
  TOP,         \* the highest bit of a size_t
  Sizes,       \* what is asked for
  Counts       \* and how many of them, where it is an array that is cleared

NULL == 0
XSTART == -1   \* &xStart, before all addresses

Aligned(n) == IF n % ALIGN = 0 THEN n ELSE n + (ALIGN - (n % ALIGN))
FirstOf(r) == Aligned(r.at)
EndOf(r) == (r.at + r.size - HEADER) - ((r.at + r.size - HEADER) % ALIGN)
First == FirstOf(Regions[1])
End == EndOf(Regions[Len(Regions)])

\* The headers of size 0 that lead from one region to the next.
Links == {EndOf(Regions[i]) : i \in 1 .. Len(Regions) - 1}

Parameters ==
  /\ Regions \in Seq([at : Nat \ {0}, size : Nat]) /\ Regions # <<>>
  /\ ALIGN \in Nat \ {0} /\ HEADER \in Nat \ {0} /\ HEADER % ALIGN = 0
  /\ \A i \in DOMAIN Regions : FirstOf(Regions[i]) + 2 * HEADER <= EndOf(Regions[i])
  /\ \A i, j \in DOMAIN Regions : i < j => EndOf(Regions[i]) + HEADER <= Regions[j].at
  /\ TOP \in Nat /\ End < TOP
  /\ Sizes \subseteq 0 .. 2 * TOP - 1 /\ Counts \subseteq Nat

VARIABLES
  heap,        \* xStart's pointer, the headers, xFreeBytesRemaining, its minimum
  freeing,     \* the block each caller is in the middle of returning, or NULL
  regions      \* history: what the application was given and has not returned

vars == <<heap, freeing, regions>>

-----------------------------------------------------------------------------
\* The size of a block that can hold n bytes, or 0 where a size_t cannot hold it.
BlockSize(n) ==
  IF n = 0 \/ n + HEADER >= 2 * TOP \/ Aligned(n + HEADER) >= 2 * TOP
  THEN 0 ELSE Aligned(n + HEADER)

\* What the first regions hold together.
Total[i \in 0 .. Len(Regions)] ==
  IF i = 0 THEN 0 ELSE Total[i - 1] + (EndOf(Regions[i]) - FirstOf(Regions[i]))

Untouched == [start |-> NULL, block |-> <<>>, free |-> 0, least |-> 0]

\* One free block up to the end of each region.
HeapInit ==
  LET I == DOMAIN Regions
      place(a) == CHOOSE i \in I : a \in {FirstOf(Regions[i]), EndOf(Regions[i])}
      follows(i) == IF i = Len(Regions) THEN NULL ELSE FirstOf(Regions[i + 1])
      header(a) ==
        LET i == place(a)
            end == EndOf(Regions[i])
        IN  [size |-> end - a, next |-> IF a = end THEN follows(i) ELSE end, used |-> FALSE]
  IN  [start |-> First, free |-> Total[Len(Regions)], least |-> Total[Len(Regions)],
       block |-> [a \in UNION {{FirstOf(Regions[i]), EndOf(Regions[i])} : i \in I} |-> header(a)]]

Ready == IF heap.start = NULL THEN HeapInit ELSE heap

\* The free blocks of the list, and what the pointers in it point to.
Listed(h) == {b \in DOMAIN h.block : h.block[b].next # NULL}
NextFree(h, p) == IF p = XSTART THEN h.start ELSE h.block[p].next

\* Where the loop of prvInsertBlockIntoFreeList stops.
Precedes(h, p, b) == p \in Listed(h) \cup {XSTART} /\ p < b /\ NextFree(h, p) >= b

\* slip: a block that is returned stays apart from the one in front of it.
InsertApart(h, p, b) ==
  [h EXCEPT !.start = IF p = XSTART THEN b ELSE @,
            !.block = [a \in DOMAIN h.block |->
                         IF a = b THEN [h.block[b] EXCEPT !.next = NextFree(h, p)]
                         ELSE IF a = p THEN [h.block[a] EXCEPT !.next = b] ELSE h.block[a]]]

\* prvInsertBlockIntoFreeList: b behind p, made one with its neighbours if they touch.
InsertBlock(h, p, b) ==
  LET joins == p # XSTART /\ p + h.block[p].size = b
      at == IF joins THEN p ELSE b
      size == IF joins THEN h.block[p].size + h.block[b].size ELSE h.block[b].size
      behind == NextFree(h, p)
      touches == at + size = behind /\ behind # End
      gone == (IF joins THEN {b} ELSE {}) \cup (IF touches THEN {behind} ELSE {})
      merged == [size |-> IF touches THEN size + h.block[behind].size ELSE size,
                 next |-> IF touches THEN h.block[behind].next ELSE behind,
                 used |-> FALSE]
  IN  [h EXCEPT !.start = IF p = XSTART THEN b ELSE @,
                !.block = [a \in DOMAIN h.block \ gone |->
                             IF a = at THEN merged
                             ELSE IF a = p THEN [h.block[a] EXCEPT !.next = b]
                             ELSE h.block[a]]]

\* The first block of the list, counted from the lowest address, that is large enough.
FirstFit(h, b, size) ==
  /\ b \in Listed(h) /\ h.block[b].size >= size
  /\ \A c \in Listed(h) : c < b => h.block[c].size < size

\* Taken out of the list; its pointer is cleared here and not at the end.
Unlink(h, p, b) ==
  [h EXCEPT !.start = IF p = XSTART THEN h.block[b].next ELSE @,
            !.block = [a \in DOMAIN h.block |->
                         IF a = p THEN [h.block[a] EXCEPT !.next = h.block[b].next]
                         ELSE IF a = b THEN [h.block[a] EXCEPT !.next = NULL]
                         ELSE h.block[a]]]

Splits(h, b, size) == h.block[b].size - size > 2 * HEADER

\* The rest of the block gets a header of its own.
Split(h, b, size) ==
  [h EXCEPT !.block = [a \in DOMAIN h.block \cup {b + size} |->
                         IF a = b THEN [h.block[b] EXCEPT !.size = size]
                         ELSE IF a = b + size
                         THEN [size |-> h.block[b].size - size, next |-> NULL, used |-> FALSE]
                         ELSE h.block[a]]]

\* What the caller gets is accounted for and marked as its own.
Allocate(h, b) ==
  LET left == h.free - h.block[b].size
  IN  [h EXCEPT !.free = left, !.least = IF left < @ THEN left ELSE @,
                !.block = [a \in DOMAIN h.block |->
                             IF a = b THEN [h.block[a] EXCEPT !.used = TRUE] ELSE h.block[a]]]

Refuses(h, size) ==
  \/ size >= TOP \/ size = 0 \/ size > h.free
  \/ \A b \in Listed(h) : h.block[b].size < size

-----------------------------------------------------------------------------
Init ==
  /\ heap = Untouched
  /\ freeing = [t \in Callers |-> NULL]
  /\ regions = {}

\* pvPortMalloc returns NULL.
MallocFails(t, n) ==
  /\ freeing[t] = NULL
  /\ Refuses(Ready, BlockSize(n))
  /\ heap' = Ready
  /\ UNCHANGED <<freeing, regions>>

\* pvPortMalloc returns the memory behind the header of b, which p points to.
MallocFrom(t, n, p, b) ==
  LET size == BlockSize(n)
      taken == Unlink(Ready, p, b)
      cut == Split(taken, b, size)
  IN  /\ freeing[t] = NULL
      /\ ~Refuses(Ready, size)
      /\ FirstFit(Ready, b, size) /\ NextFree(Ready, p) = b
      /\ IF Splits(Ready, b, size)
         THEN \E q \in Listed(cut) \cup {XSTART} :
                /\ Precedes(cut, q, b + size)
                /\ heap' = Allocate(InsertBlock(cut, q, b + size), b)
         ELSE heap' = Allocate(taken, b)
      /\ regions' = regions \cup {[at |-> b + HEADER, size |-> n]}
      /\ UNCHANGED freeing

Malloc(t, n) ==
  \/ MallocFails(t, n)
  \/ \E p \in Listed(Ready) \cup {XSTART}, b \in Listed(Ready) : MallocFrom(t, n, p, b)

\* pvPortCalloc, where the size of the whole array fits a size_t.
Calloc(t, count, n) ==
  /\ count > 0 => n <= (2 * TOP - 1) \div count
  /\ Malloc(t, count * n)

\* vPortFree up to vTaskSuspendAll: the application returns memory it was given.
Free(t) ==
  /\ freeing[t] = NULL
  /\ \E r \in regions :
       LET b == r.at - HEADER
       IN  /\ heap.block[b].used /\ heap.block[b].next = NULL
           /\ heap' = [heap EXCEPT !.block = [a \in DOMAIN @ |->
                         IF a = b THEN [@[a] EXCEPT !.used = FALSE] ELSE @[a]]]
           /\ freeing' = [freeing EXCEPT ![t] = b]
           /\ regions' = regions \ {r}

\* And its rest.
PutBack(t) ==
  LET b == freeing[t]
      back == [heap EXCEPT !.free = @ + heap.block[b].size]
  IN  /\ b # NULL
      /\ \E p \in Listed(heap) \cup {XSTART} :
           Precedes(heap, p, b) /\ heap' = InsertBlock(back, p, b)
      /\ freeing' = [freeing EXCEPT ![t] = NULL]
      /\ UNCHANGED regions

Next ==
  \E t \in Callers :
    \/ \E n \in Sizes : Malloc(t, n) \/ \E count \in Counts : Calloc(t, count, n)
    \/ Free(t) \/ PutBack(t)

Spec == Init /\ [][Next]_vars

-----------------------------------------------------------------------------
(* heap_5.c: the same heap over several regions, which the application      *)
(* defines before the first allocation.  From then on its functions do what *)
(* those of heap_4.c do; the links between the regions take part in the     *)
(* list as blocks of size 0, but for the last, pxEnd.                       *)

\* vPortDefineHeapRegions, once.
DefineHeapRegions ==
  /\ heap.start = NULL
  /\ heap' = HeapInit
  /\ UNCHANGED <<freeing, regions>>

\* pvPortMalloc; that there is a heap is asserted.
MallocInRegions(t, n) == heap.start # NULL /\ Malloc(t, n)
CallocInRegions(t, count, n) == heap.start # NULL /\ Calloc(t, count, n)

FreeInRegions(t) == Free(t)
PutBackInRegions(t) == PutBack(t)

RegionsNext ==
  \/ DefineHeapRegions
  \/ \E t \in Callers :
       \/ \E n \in Sizes : MallocInRegions(t, n) \/ \E count \in Counts : CallocInRegions(t, count, n)
       \/ FreeInRegions(t) \/ PutBackInRegions(t)

-----------------------------------------------------------------------------
\* vPortGetHeapStats: how many free blocks there are, with the links between
\* regions, the largest, and the smallest that is none of these.
Largest(h) == Max({0} \cup {h.block[b].size : b \in Listed(h)})
Smallest(h) ==
  Min({2 * TOP - 1} \cup ({h.block[b].size : b \in Listed(h)} \ {0}))
HeapStats(h) ==
  [blocks |-> Cardinality(Listed(h)), largest |-> Largest(h), smallest |-> Smallest(h),
   available |-> h.free, least |-> h.least]

-----------------------------------------------------------------------------
Blocks == DOMAIN heap.block \ {End}
After(b) == b + heap.block[b].size

\* Type invariant.
TypeOK ==
  /\ heap.start \in DOMAIN heap.block \cup {NULL}
  /\ heap.start # NULL => {First, End} \subseteq DOMAIN heap.block
  /\ Blocks \cap Links \subseteq Listed(heap)
  /\ \A b \in DOMAIN heap.block :
       b \in First .. End /\ b % ALIGN = 0 /\ heap.block[b].size \in 0 .. End - First
  /\ heap.least \in 0 .. heap.free
  /\ \A t \in Callers : freeing[t] \in Blocks \cup {NULL}

(* Two callers are never given the same byte, and neither a header nor a   *)
(* free block lies in what somebody was given, through all splits and      *)
(* merges and with tasks in the middle of returning blocks; and no block   *)
(* reaches from one region into the next.                                  *)
RegionsIntact ==
  /\ \A r \in regions :
       LET b == r.at - HEADER
       IN  /\ b \in Blocks /\ heap.block[b].used /\ r.at + r.size <= After(b)
           /\ \A c \in DOMAIN heap.block : c <= b \/ c >= After(b)
           /\ \A c \in Blocks : c < b => After(c) <= b
           /\ \A s \in regions : s.at = r.at => s = r
  /\ \A b \in Blocks : \E i \in DOMAIN Regions :
       FirstOf(Regions[i]) <= b /\ After(b) <= EndOf(Regions[i])

(* The list leads through exactly the free blocks, upwards, and ends at    *)
(* pxEnd; no two of them touch, so that memory is not split up for ever.   *)
(* A block that touches the link at the end of its region may have         *)
(* swallowed it, as heap_5.c does, but not the region behind.              *)
ListInOrder ==
  heap.start # NULL =>
    \A p \in Listed(heap) \cup {XSTART} :
      /\ p < NextFree(heap, p) /\ NextFree(heap, p) \in Listed(heap) \cup {End}
      /\ \A b \in Listed(heap) : b <= p \/ b >= NextFree(heap, p)
      /\ p # XSTART => ~heap.block[p].used /\ After(p) \notin Listed(heap) \ Links

(* The blocks cover the memory without gaps, and none is forgotten.        *)
NoGaps ==
  /\ \A b \in Blocks : After(b) \in DOMAIN heap.block \cup Links
  /\ \A b \in Blocks : \/ b \in Listed(heap) \/ \E t \in Callers : freeing[t] = b
                       \/ \E r \in regions : r.at = b + HEADER

(* And no byte is lost from the count of what is free.                     *)
FreeBytes == {x \in First .. End : \E b \in Listed(heap) : b <= x /\ x < After(b)}
NothingLost == NoGaps /\ heap.free = Cardinality(FreeBytes)

\* A stretch of memory that nobody has is long enough for a block of this size.
Room(size) ==
  \E i \in DOMAIN Regions : \E a \in FirstOf(Regions[i]) .. EndOf(Regions[i]) - size :
    \A b \in Blocks \ Listed(heap) : After(b) <= a \/ b >= a + size

(* A request is refused if it is larger than the largest block of the      *)
(* statistics, or than a size_t, and only if no stretch of free memory     *)
(* could hold it: no fragmentation by blocks that were not merged, no      *)
(* count that drifts away.                                                 *)
RefusedOnlyWhenFull ==
  heap.start # NULL =>
    \A n \in Sizes :
      LET size == BlockSize(n) IN
      /\ Refuses(heap, size) = (size \notin 1 .. HeapStats(heap).largest)
      /\ size \in 1 .. End - First /\ Room(size) => ~Refuses(heap, size)
=============================================================================
