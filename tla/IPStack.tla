------------------------------- MODULE IPStack -------------------------------
(***************************************************************************)
(* The receive buffer of src/ipstack/IPStack.cpp: a ring that the lwIP     *)
(* callback tcp_client_recv fills and that read(), called by SEND or READ  *)
(* under ipstack_mtx, empties.                                             *)
(*                                                                         *)
(* lwIP runs in a task of its own with a higher priority                   *)
(* (pico_cyw43_arch_lwip_sys_freertos), so the callback is one step and    *)
(* can fall between any two steps of read(), which takes no lock.          *)
(* "count -= n" is two of them: a load and a store.  The two copies out of *)
(* the ring are one step each: the callback does not write where they read *)
(* unless count is wrong already.  dropped is only counted, never read,    *)
(* and left out.                                                           *)
(***************************************************************************)
EXTENDS Integers, Sequences

CONSTANTS
  Bytes,            \* what a byte can be
  BUF_SIZE,         \* size of the ring (2048)
  RESULT_BUF_SIZE,  \* what SEND and READ ask for (thingspeak.h: 2048)
  MAX_SEGMENT       \* bytes lwIP can deliver at once

ASSUME SizesAssumption ==
  BUF_SIZE \in Nat \ {0} /\ RESULT_BUF_SIZE \in Nat \ {0} /\ MAX_SEGMENT \in Nat \ {0}

CONSTANT NoByte   \* what the ring holds before anything was received
ASSUME NoByteAssumption == NoByte \notin Bytes

VARIABLES
  buffer, count, wr, rd,       \* members of IPStack
  pc,                          \* where read() is
  bytes_to_copy, first_copy,   \* its local variables
  loaded,                      \* the value of count that "count -= n" has loaded
  result,                      \* what it has copied for its caller
  segment                      \* history: the segment that came in last

ringVars == <<buffer, count, wr, rd>>
readVars == <<pc, bytes_to_copy, first_copy, loaded, result>>
vars == <<ringVars, readVars, segment>>

Cells == 0 .. BUF_SIZE - 1
Segments == UNION {[1 .. length -> Bytes] : length \in 1 .. MAX_SEGMENT}

Smaller(m, n) == IF m < n THEN m ELSE n

\* n cells of the ring from cell "from" on, up to the end of the array.
Copy(from, n) == [i \in 1 .. n |-> buffer[from + i - 1]]
\* The array after bytes were copied to cell "at".
Store(array, at, bytes) ==
  [i \in Cells |-> IF i \in at .. at + Len(bytes) - 1 THEN bytes[i - at + 1] ELSE array[i]]

Init ==
  /\ buffer = [i \in Cells |-> NoByte]
  /\ count = 0 /\ wr = 0 /\ rd = 0
  /\ pc = "wait"
  /\ bytes_to_copy = 0 /\ first_copy = 0 /\ loaded = 0
  /\ result = <<>>
  /\ segment = <<>>

-----------------------------------------------------------------------------
(* tcp_client_recv.                                                        *)

\* Slip: the whole segment is kept.
KeptAll(bytes) == bytes
Kept(bytes) == SubSeq(bytes, 1, Smaller(Len(bytes), BUF_SIZE - count))

\* What is copied after a wrap.  Slip: from the beginning of the segment.
RestFromStart(kept, n) == SubSeq(kept, 1, Len(kept) - n)
Rest(kept, n) == SubSeq(kept, n + 1, Len(kept))

\* The part in front of the end of the array goes there, the rest to its beginning.
Receive ==
  /\ segment' \in Segments
  /\ LET kept == Kept(segment')
         first == IF wr + Len(kept) > BUF_SIZE THEN BUF_SIZE - wr ELSE 0
         rest == Rest(kept, first)
         at == IF first > 0 THEN 0 ELSE wr
     IN  /\ buffer' = Store(Store(buffer, wr, SubSeq(kept, 1, first)), at, rest)
         /\ wr' = (at + Len(rest)) % BUF_SIZE
         /\ count' = count + Len(kept)
  /\ UNCHANGED <<rd, readVars>>

-----------------------------------------------------------------------------
(* read().                                                                 *)

\* The wait is over: enough bytes or the time-out.
BeginRead ==
  /\ pc = "wait"
  /\ bytes_to_copy' = Smaller(count, RESULT_BUF_SIZE)
  /\ first_copy' = 0
  /\ result' = <<>>
  /\ pc' = IF bytes_to_copy' = 0 THEN "wait"
           ELSE IF rd + bytes_to_copy' > BUF_SIZE THEN "copy_first" ELSE "copy"
  /\ UNCHANGED <<ringVars, loaded, segment>>

CopyFirst ==
  /\ pc = "copy_first"
  /\ first_copy' = BUF_SIZE - rd
  /\ result' = Copy(rd, first_copy')
  /\ bytes_to_copy' = bytes_to_copy - first_copy'
  /\ loaded' = count
  /\ pc' = "store_first"
  /\ UNCHANGED <<ringVars, segment>>

StoreFirst ==
  /\ pc = "store_first"
  /\ count' = loaded - first_copy
  /\ pc' = "copy_rest"
  /\ UNCHANGED <<buffer, wr, rd, bytes_to_copy, first_copy, loaded, result, segment>>

CopyRest ==
  /\ pc = "copy_rest"
  /\ result' = result \o Copy(0, bytes_to_copy)
  /\ rd' = bytes_to_copy
  /\ loaded' = count
  /\ pc' = "store_rest"
  /\ UNCHANGED <<buffer, count, wr, bytes_to_copy, first_copy, segment>>

CopyAll ==
  /\ pc = "copy"
  /\ result' = Copy(rd, bytes_to_copy)
  /\ rd' = (rd + bytes_to_copy) % BUF_SIZE
  /\ loaded' = count
  /\ pc' = "store_rest"
  /\ UNCHANGED <<buffer, count, wr, bytes_to_copy, first_copy, segment>>

StoreRest ==
  /\ pc = "store_rest"
  /\ count' = loaded - bytes_to_copy
  /\ pc' = "wait"
  /\ UNCHANGED <<buffer, wr, rd, bytes_to_copy, first_copy, loaded, result, segment>>

Read == BeginRead \/ CopyFirst \/ StoreFirst \/ CopyRest \/ CopyAll \/ StoreRest

Next == Receive \/ Read

\* The callback anywhere in read().
Spec == Init /\ [][Next]_vars

\* The callback anywhere but inside "count -= n", as if that were atomic.
Subtracting == pc \in {"store_first", "store_rest"}
AtomicNext == (~Subtracting /\ Receive) \/ Read
AtomicSpec == Init /\ [][AtomicNext]_vars

-----------------------------------------------------------------------------
\* Type invariant; it holds under Spec as well: no index leaves the array.
TypeOK ==
  /\ buffer \in [Cells -> Bytes \cup {NoByte}]
  /\ count \in 0 .. BUF_SIZE
  /\ wr \in Cells /\ rd \in Cells
  /\ pc \in {"wait", "copy_first", "store_first", "copy_rest", "copy", "store_rest"}
  /\ bytes_to_copy \in 0 .. RESULT_BUF_SIZE /\ first_copy \in 0 .. RESULT_BUF_SIZE
  /\ loaded \in 0 .. BUF_SIZE
  /\ result \in Seq(Bytes \cup {NoByte}) /\ Len(result) <= RESULT_BUF_SIZE
  /\ segment \in Segments \cup {<<>>}

\* The cell of the oldest byte that count still counts.
Front ==
  IF pc = "copy_rest" THEN 0
  ELSE IF pc = "store_rest" THEN (rd + BUF_SIZE - bytes_to_copy) % BUF_SIZE
  ELSE rd

(* "increment count by copied bytes" and "reduce count by copied bytes":   *)
(* the counted bytes are the ones between the read and the write index, at *)
(* every step of a read.                                                   *)
CountIsStored == (Front + count) % BUF_SIZE = wr

\* The bytes in the ring, oldest first, and what a read has taken of them.
storedBar == [i \in 1 .. count |-> buffer[(Front + i - 1) % BUF_SIZE]]
resultBar ==
  IF pc = "store_first" THEN <<>>
  ELSE IF pc = "store_rest" THEN SubSeq(result, 1, first_copy)
  ELSE result

Fifo == INSTANCE ByteFifo WITH stored <- storedBar, result <- resultBar

(* If only count were updated atomically, the ring would be the queue of   *)
(* bytes its callers take it for: a segment that wraps, or does not fit,   *)
(* or arrives between the two parts of a read loses and reorders nothing.  *)
ImplementsFifo == Fifo!Spec
=============================================================================
