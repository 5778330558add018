------------------------------ MODULE HeapOnce -------------------------------
(***************************************************************************)
(* portable/MemMang/heap_1.c: memory that is handed out and never returned. *)
(***************************************************************************)
EXTENDS Integers

CONSTANTS
  BASE, TOTAL, \* where ucHeap lies, and configTOTAL_HEAP_SIZE
  ALIGN,       \* portBYTE_ALIGNMENT
  TOP,         \* the highest bit of a size_t
  Sizes        \* what is asked for

Adjusted == TOTAL - ALIGN                               \* configADJUSTED_HEAP_SIZE
AlignedHeap == (BASE + ALIGN - 1) - ((BASE + ALIGN - 1) % ALIGN)

Parameters ==
  /\ BASE \in Nat \ {0} /\ TOTAL \in Nat /\ TOP \in Nat /\ Sizes \subseteq 0 .. 2 * TOP - 1
  /\ ALIGN \in Nat \ {0} /\ ALIGN <= TOTAL /\ TOTAL < TOP

VARIABLES
  heap,        \* xNextFreeByte
  regions      \* history: what the application was given

Init == heap = 0 /\ regions = {}

\* What is asked for up to the alignment, or 0 where a size_t cannot hold it.
Wanted(n) ==
  LET size == IF n % ALIGN = 0 THEN n ELSE n + (ALIGN - (n % ALIGN)) IN
  IF size >= 2 * TOP THEN 0 ELSE size

\* The sum is one of size_t.
Fits(size) ==
  LET next == (heap + size) % (2 * TOP) IN size > 0 /\ next < Adjusted /\ next > heap

\* pvPortMalloc
Malloc(n) ==
  \/ /\ Fits(Wanted(n))
     /\ heap' = heap + Wanted(n)
     /\ regions' = regions \cup {[at |-> AlignedHeap + heap, size |-> n]}
  \/ ~Fits(Wanted(n)) /\ UNCHANGED <<heap, regions>>

Next == \E n \in Sizes : Malloc(n)

-----------------------------------------------------------------------------
(* Nobody is given memory outside ucHeap, unaligned, or that somebody has, *)
(* and what is not handed out is what xPortGetFreeHeapSize says is left.   *)
HandedOutOnce ==
  /\ \A r \in regions :
       /\ r.at % ALIGN = 0 /\ r.at >= BASE /\ r.at + r.size <= BASE + TOTAL
       /\ r.at + r.size <= AlignedHeap + heap
       /\ \A s \in regions : s = r \/ s.at >= r.at + r.size \/ r.at >= s.at + s.size
  /\ Adjusted - heap >= 0
=============================================================================
