---------------------------- MODULE UartTransmit ----------------------------
(***************************************************************************)
(* The transmitting half of src/uart/PicoOsUart.cpp: write() queues bytes  *)
(* and gives the UART's FIFO its first filling, uart_irq_tx refills it and *)
(* switches its own interrupt off.  The UART raises the interrupt when the *)
(* FIFO falls to its watermark, not while it lies below, so a byte queued  *)
(* behind an idle FIFO would stay for ever without the first filling.  The *)
(* handler runs uart_irq_tx on a receive interrupt too, whatever state the *)
(* transmitting half is in; nothing promises that such an interrupt comes. *)
(***************************************************************************)
EXTENDS Naturals, Sequences, SequencesExt

CONSTANTS
  QUEUE,       \* length of the transmit queue (256)
  DEPTH,       \* bytes in the UART's FIFO (32)
  WATERMARK,   \* level at which it asks for more
  BYTES,       \* bound on bytes queued
  LONGEST      \* longest message

Parameters == QUEUE \in Nat \ {0} /\ DEPTH \in Nat /\ WATERMARK \in 0 .. DEPTH - 1
              /\ BYTES \in Nat /\ LONGEST \in Nat

VARIABLES
  writer,      \* where write() is
  toWrite,     \* bytes of its message that are not queued yet
  tx,          \* the queue: bytes numbered in the order they were queued
  txim,        \* transmit interrupt enabled in the UART
  nvic,        \* interrupt enabled in the processor
  fifo,        \* the UART's FIFO
  raised,      \* its interrupt condition
  onLine,      \* history: bytes that were sent
  queued       \* history: number of bytes ever queued

vars == <<writer, toWrite, tx, txim, nvic, fifo, raised, onLine, queued>>

Init ==
  /\ writer = "idle" /\ toWrite = 0
  /\ tx = <<>> /\ txim = FALSE /\ nvic = TRUE
  /\ fifo = <<>> /\ raised = FALSE /\ onLine = <<>> /\ queued = 0

\* A byte goes to the FIFO; above the watermark the condition is gone.
Fill(bytes) ==
  /\ fifo' = fifo \o bytes
  /\ raised' = (raised /\ Len(fifo') <= WATERMARK)

-----------------------------------------------------------------------------
(* write().                                                                *)

Call ==
  /\ writer = "idle"
  /\ \E size \in 1 .. LONGEST :
       queued + size <= BYTES /\ toWrite' = size
  /\ writer' = "queue"
  /\ UNCHANGED <<tx, txim, nvic, fifo, raised, onLine, queued>>

\* xQueueSendToBack, which waits for room, or times out and the rest is dropped.
QueueByte ==
  /\ writer = "queue"
  /\ toWrite > 0 /\ Len(tx) < QUEUE
  /\ queued' = queued + 1 /\ tx' = Append(tx, queued')
  /\ toWrite' = toWrite - 1
  /\ UNCHANGED <<writer, txim, nvic, fifo, raised, onLine>>

NoRoom ==
  /\ writer = "queue"
  /\ toWrite > 0 /\ Len(tx) = QUEUE
  /\ toWrite' = 0
  /\ UNCHANGED <<writer, tx, txim, nvic, fifo, raised, onLine, queued>>

\* The interrupts of the UART are held off.
HoldOff ==
  /\ writer = "queue"
  /\ toWrite = 0
  /\ nvic' = FALSE
  /\ writer' = IF txim THEN "release" ELSE "fill"
  /\ UNCHANGED <<toWrite, tx, txim, fifo, raised, onLine, queued>>

HasRoom == Len(fifo) < DEPTH

FirstFill ==
  /\ writer = "fill"
  /\ IF HasRoom /\ tx # <<>>
     THEN Fill(<<Head(tx)>>) /\ tx' = Tail(tx) /\ UNCHANGED <<writer, txim>>
     ELSE /\ writer' = "release"
          /\ txim' = (tx # <<>>)
          /\ UNCHANGED <<tx, fifo, raised>>
  /\ UNCHANGED <<toWrite, nvic, onLine, queued>>

Release ==
  /\ writer = "release"
  /\ nvic' = TRUE
  /\ writer' = "idle"
  /\ UNCHANGED <<toWrite, tx, txim, fifo, raised, onLine, queued>>

Writing == QueueByte \/ NoRoom \/ HoldOff \/ FirstFill \/ Release

-----------------------------------------------------------------------------
(* The interrupt.                                                          *)

\* What stays in the queue.  Slip: a byte is taken before there is room for it.
LeftTaken(n) == SubSeq(tx, n + 2, Len(tx))
Left(n) == SubSeq(tx, n + 1, Len(tx))

\* uart_irq_tx: as many bytes as fit, and no more interrupts for an empty queue.
Refill ==
  /\ LET room == DEPTH - Len(fifo)
         n == IF room < Len(tx) THEN room ELSE Len(tx)
     IN  Fill(SubSeq(tx, 1, n)) /\ tx' = Left(n)
  /\ txim' = (txim /\ tx' # <<>>)
  /\ UNCHANGED <<writer, toWrite, nvic, onLine, queued>>

\* The handler calls it whatever the UART interrupts for.
IrqTx == nvic /\ Refill

\* The UART interrupts to be given bytes; its other interrupts are for received ones.
AsksForBytes == txim /\ raised

\* The UART sends a byte.
SendByte ==
  /\ fifo # <<>>
  /\ fifo' = Tail(fifo)
  /\ onLine' = Append(onLine, Head(fifo))
  /\ raised' = (raised \/ Len(fifo') = WATERMARK)
  /\ UNCHANGED <<writer, toWrite, tx, txim, nvic, queued>>

Next == Call \/ Writing \/ IrqTx \/ SendByte

Spec == Init /\ [][Next]_vars

-----------------------------------------------------------------------------
\* Type invariant: neither the queue nor the FIFO outgrows its size.
TypeOK ==
  /\ writer \in {"idle", "queue", "fill", "release"} /\ toWrite \in 0 .. LONGEST
  /\ txim \in BOOLEAN /\ nvic \in BOOLEAN /\ raised \in BOOLEAN
  /\ Len(tx) <= QUEUE /\ Len(fifo) <= DEPTH

(* Two fill the FIFO from one queue, the writer and the interrupt, which   *)
(* comes for received bytes too and at any moment it is not held off: the  *)
(* bytes go out once each and in the order they were queued.               *)
SentInOrder == onLine \o fifo \o tx = [i \in 1 .. queued |-> i]

(* "enable interrupt only if there is data left in the queue", "fifo       *)
(* requires initial fill to get TX interrupts going": between two writes a *)
(* byte in the queue has an interrupt coming that takes it.                *)
InterruptComes ==
  writer = "idle" /\ tx # <<>> => txim /\ (raised \/ Len(fifo) > WATERMARK)
=============================================================================
