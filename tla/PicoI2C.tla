------------------------------- MODULE PicoI2C -------------------------------
(***************************************************************************)
(* The interrupt driven I2C driver of src/i2c/PicoI2C.cpp on both buses,   *)
(* used by one task, as UI uses bus 0 for the EEPROM and bus 1 for the     *)
(* display.  A transaction fills the controller's FIFO, enables the        *)
(* interrupt and sleeps until the interrupt notifies the task or a second  *)
(* is over.  There is one notification per task, not per bus.              *)
(*                                                                         *)
(* The handler takes far less than the time of one byte on the wire, so it *)
(* is one step; the controller works between any two steps of the task.    *)
(***************************************************************************)
EXTENDS Integers, Sequences, FiniteSetsExt

CONSTANTS
  Buses,
  Transfers,   \* what the callers ask for: bytes written and bytes read
  FIFO,        \* depth of the controller's FIFOs (16)
  FAULTS       \* bound on refusals and time-outs

Parameters ==
  /\ Transfers \subseteq {t \in [w : Nat, r : Nat] : t.w + t.r > 0}
  /\ FIFO \in Nat \ {0} /\ FAULTS \in Nat

VARIABLES
  task,        \* where transaction() is
  bus,         \* the bus it is on
  ask,         \* and what was asked of it
  count,       \* its result
  note,        \* the task's notification, and the stop it comes from
  wctr, rctr, rcnt, restart_on_next,   \* members of the PicoI2C of each bus
  irq,         \* buses whose interrupt the processor takes
  mask,        \* and which causes it has in the controller
  tx_fifo,     \* commands the controller has still to send
  rx_fifo,     \* number of bytes it has received
  stop,        \* STOP_DET: "none", of the "own" transaction or an "old" one
  flushed,     \* the controller discards commands after a refusal
  late,        \* an abandoned transfer may still come to its stop
  wire,        \* history: commands of this transaction that were sent
  refused, timedOut   \* faults so far

callVars == <<task, bus, ask, count>>
driverVars == <<wctr, rctr, rcnt, restart_on_next, irq, mask>>
chipVars == <<tx_fifo, rx_fifo, stop, flushed, late, wire>>
faultVars == <<refused, timedOut>>
vars == <<callVars, note, driverVars, chipVars, faultVars>>

Init ==
  /\ task = "free" /\ bus \in Buses /\ ask \in Transfers /\ count = 0
  /\ note = "none"
  /\ wctr = [b \in Buses |-> 0] /\ rctr = wctr /\ rcnt = wctr /\ restart_on_next = {}
  /\ irq = {} /\ mask = [b \in Buses |-> {}]
  /\ tx_fifo = [b \in Buses |-> <<>>] /\ rx_fifo = wctr /\ stop = [b \in Buses |-> "none"]
  /\ flushed = {} /\ late = {} /\ wire = <<>>
  /\ refused = 0 /\ timedOut = 0

-----------------------------------------------------------------------------
(* tx_fill_fifo and rx_fill_fifo: as many commands as the FIFO takes; the  *)
(* last one stops, the first read behind a write repeats the start.        *)

\* Slip: one more than there is room for.
RoomAndOne(b) == FIFO - Len(tx_fifo[b]) + 1
Room(b) == FIFO - Len(tx_fifo[b])

\* How many go out; after a refusal the controller takes and discards all.
Filled(b, left) == IF b \in flushed THEN left ELSE Min({left, Room(b)})

Put(b, commands) ==
  tx_fifo' = IF b \in flushed THEN tx_fifo ELSE [tx_fifo EXCEPT ![b] = @ \o commands]

Restart(b, k) == k = 1 /\ b \in restart_on_next

TxFillFifo(b) ==
  LET n == Filled(b, wctr[b])
  IN  /\ Put(b, [k \in 1 .. n |-> [read |-> FALSE, restart |-> Restart(b, k),
                                   stop |-> k = wctr[b] /\ rctr[b] = 0]])
      /\ wctr' = [wctr EXCEPT ![b] = @ - n]
      /\ restart_on_next' =
           IF n = wctr[b] /\ rctr[b] > 0 THEN restart_on_next \cup {b} ELSE restart_on_next \ {b}
      /\ UNCHANGED rctr

\* Slip: every fill begins with a restart.
RestartKept(b) == restart_on_next
RestartCleared(b) == restart_on_next \ {b}

RxFillFifo(b) ==
  LET n == Filled(b, rctr[b])
  IN  /\ Put(b, [k \in 1 .. n |-> [read |-> TRUE, restart |-> Restart(b, k), stop |-> k = rctr[b]]])
      /\ rctr' = [rctr EXCEPT ![b] = @ - n]
      /\ restart_on_next' = IF n > 0 THEN RestartCleared(b) ELSE restart_on_next
      /\ UNCHANGED wctr

-----------------------------------------------------------------------------
(* transaction().                                                          *)

Aged(s) == IF s = "own" THEN "old" ELSE s

\* Disabling the controller empties its FIFOs and ends what is under way; whether
\* STOP_DET survives it is left open.
Begin(b, t) ==
  /\ task = "free"
  /\ task' = "begun"
  /\ bus' = b /\ ask' = t /\ count' = t.w + t.r
  /\ note' = Aged(note)
  /\ \E kept \in {"none", Aged(stop[b])} :
       stop' = [c \in Buses |-> IF c = b THEN kept ELSE Aged(stop[c])]
  /\ late' = IF tx_fifo[b] # <<>> THEN late \cup {b} ELSE late
  /\ flushed' = flushed \ {b}
  /\ tx_fifo' = [tx_fifo EXCEPT ![b] = <<>>] /\ rx_fifo' = [rx_fifo EXCEPT ![b] = 0]
  /\ wire' = <<>>
  /\ mask' = [mask EXCEPT ![b] = {"STOP", "TX_EMPTY", "RX_FULL"}]
  /\ restart_on_next' = restart_on_next \ {b}
  /\ wctr' = [wctr EXCEPT ![b] = t.w]
  /\ rctr' = [rctr EXCEPT ![b] = t.r] /\ rcnt' = [rcnt EXCEPT ![b] = t.r]
  /\ UNCHANGED <<irq, faultVars>>

FirstFill ==
  /\ task = "begun"
  /\ task' = "started"
  /\ IF wctr[bus] > 0 THEN TxFillFifo(bus) ELSE RxFillFifo(bus)
  /\ UNCHANGED <<bus, ask, count, note, rcnt, irq, mask, rx_fifo, stop, flushed, late, wire, faultVars>>

Enable ==
  /\ task = "started"
  /\ task' = "waiting"
  /\ irq' = irq \cup {bus}
  /\ UNCHANGED <<bus, ask, count, note, wctr, rctr, rcnt, restart_on_next, mask, chipVars, faultVars>>

NoteTaken == "none"

Missing == rcnt[bus] + wctr[bus]

\* ulTaskNotifyTake with a notification; the counters are read at once.
Notified ==
  /\ task = "waiting" /\ note # "none"
  /\ task' = IF note = "own" THEN "told" ELSE "misled"
  /\ note' = NoteTaken
  /\ count' = count - Missing
  /\ UNCHANGED <<bus, ask, driverVars, chipVars, faultVars>>

\* A second without one.
TimedOut ==
  /\ task = "waiting" /\ note = "none"
  /\ timedOut < FAULTS /\ timedOut' = timedOut + 1
  /\ task' = "late"
  /\ count' = 0
  /\ UNCHANGED <<bus, ask, note, driverVars, chipVars, refused>>

Disabled == irq \ {bus}

Return ==
  /\ task \in {"told", "misled", "late"}
  /\ task' = "free"
  /\ irq' = Disabled
  /\ UNCHANGED <<bus, ask, count, note, wctr, rctr, rcnt, restart_on_next, mask, chipVars, faultVars>>

Working == FirstFill \/ Enable \/ Notified \/ Return

-----------------------------------------------------------------------------
(* isr().                                                                  *)

TxEmpty(b) == "TX_EMPTY" \in mask[b] /\ tx_fifo[b] = <<>>
Stopped(b) == "STOP" \in mask[b] /\ stop[b] # "none"
RxFull(b) == "RX_FULL" \in mask[b] /\ rx_fifo[b] >= FIFO - 1

\* The received bytes that go to the caller's buffer first.
Drained(b) == Min({rcnt[b], rx_fifo[b]})

\* Slip: the stop interrupt is given up together with TX_EMPTY.
AfterCommandsQuiet == {"RX_FULL"}
AfterCommands == {"STOP", "RX_FULL"}

\* Slip: the flag is not cleared.
StopKept(b) == stop
StopCleared(b) == [stop EXCEPT ![b] = "none"]

\* Receive, then fill the FIFO again, then tell the task of the stop.
Isr(b) ==
  /\ b \in irq /\ (TxEmpty(b) \/ Stopped(b) \/ RxFull(b))
  /\ rcnt' = [rcnt EXCEPT ![b] = @ - Drained(b)]
  /\ rx_fifo' = [rx_fifo EXCEPT ![b] = @ - Drained(b)]
  /\ \/ TxEmpty(b) /\ wctr[b] > 0 /\ TxFillFifo(b)
     \/ TxEmpty(b) /\ wctr[b] = 0 /\ RxFillFifo(b)
     \/ ~TxEmpty(b) /\ UNCHANGED <<tx_fifo, wctr, rctr, restart_on_next>>
  /\ mask' = [mask EXCEPT ![b] =
       IF Stopped(b) THEN {}
       ELSE IF TxEmpty(b) /\ wctr'[b] = 0 /\ rctr'[b] = 0 THEN AfterCommands ELSE @]
  /\ stop' = IF Stopped(b) THEN StopCleared(b) ELSE stop
  /\ note' = IF ~Stopped(b) THEN note ELSE IF b = bus THEN stop[b] ELSE "old"
  /\ UNCHANGED <<callVars, irq, flushed, late, wire, faultVars>>

-----------------------------------------------------------------------------
(* The controller and the devices.                                         *)

StopOf(b) == IF b = bus THEN "own" ELSE "old"

\* The next command is sent and acknowledged.
Send(b) ==
  /\ tx_fifo[b] # <<>>
  /\ tx_fifo' = [tx_fifo EXCEPT ![b] = Tail(@)]
  /\ LET command == Head(tx_fifo[b])
     IN  /\ wire' = IF b = bus THEN Append(wire, command) ELSE wire
         /\ rx_fifo' = IF command.read THEN [rx_fifo EXCEPT ![b] = @ + 1] ELSE rx_fifo
         /\ stop' = IF command.stop THEN [stop EXCEPT ![b] = StopOf(b)] ELSE stop
  /\ UNCHANGED <<callVars, note, driverVars, flushed, late, faultVars>>

\* It is not acknowledged: the FIFO is emptied and the transfer stopped.
Refuse(b) ==
  /\ tx_fifo[b] # <<>>
  /\ refused < FAULTS /\ refused' = refused + 1
  /\ tx_fifo' = [tx_fifo EXCEPT ![b] = <<>>]
  /\ flushed' = flushed \cup {b}
  /\ stop' = [stop EXCEPT ![b] = StopOf(b)]
  /\ UNCHANGED <<callVars, note, driverVars, rx_fifo, late, wire, timedOut>>

\* The stop of a transfer that a later transaction has cut off.
LateStop(b) ==
  /\ b \in late
  /\ late' = late \ {b}
  /\ stop' = [stop EXCEPT ![b] = "old"]
  /\ UNCHANGED <<callVars, note, driverVars, tx_fifo, rx_fifo, flushed, wire, faultVars>>

Controller(b) == Send(b) \/ Refuse(b) \/ LateStop(b)

Next ==
  \/ \E b \in Buses, t \in Transfers : Begin(b, t)
  \/ Working \/ TimedOut
  \/ \E b \in Buses : Isr(b) \/ Controller(b)

Spec == Init /\ [][Next]_vars

-----------------------------------------------------------------------------
\* Type invariant: the commands never outgrow the FIFO.
TypeOK ==
  /\ task \in {"free", "begun", "started", "waiting", "told", "misled", "late"}
  /\ bus \in Buses /\ ask \in Transfers
  /\ note \in {"none", "own", "old"}
  /\ \A b \in Buses :
       /\ wctr[b] \in Nat /\ rctr[b] \in Nat /\ rcnt[b] \in Nat /\ rctr[b] <= rcnt[b]
       /\ Len(tx_fifo[b]) <= FIFO
       /\ stop[b] \in {"none", "own", "old"}
  /\ irq \subseteq Buses /\ restart_on_next \subseteq Buses
  /\ count \in Nat /\ refused \in 0 .. FAULTS /\ timedOut \in 0 .. FAULTS

(* "Read is paced writes to command register": a byte that was asked for   *)
(* finds room in the receive FIFO, however late the interrupt comes.       *)
ReadsArePaced ==
  \A b \in Buses :
    rx_fifo[b] + Cardinality({k \in 1 .. Len(tx_fifo[b]) : tx_fifo[b][k].read}) <= FIFO

\* A transaction as the device is to see it: writes, one restart, reads, one stop.
Whole(t) ==
  [k \in 1 .. t.w + t.r |->
     [read |-> k > t.w, restart |-> t.w > 0 /\ k = t.w + 1, stop |-> k = t.w + t.r]]

(* The commands of a transaction reach the wire whole and in order, with   *)
(* the one restart and the one stop in their places, although the task and *)
(* the interrupt both fill the FIFO, in portions.                          *)
WireInOrder == wire = SubSeq(Whole(ask), 1, Len(wire))

(* "if count != sum of lengths transaction failed": a transaction that     *)
(* reads and returns the full count has got every byte, even when it was   *)
(* woken by a stop that was not its own.                                   *)
FullReadIsComplete ==
  task \in {"told", "misled"} /\ ask.r > 0 /\ count = ask.w + ask.r => wire = Whole(ask)

(* One that only writes has not: the bytes count once they are in the      *)
(* FIFO.  The count is right as long as nothing was refused and no         *)
(* transaction on either bus has timed out.                                *)
FullWriteIsComplete ==
  task \in {"told", "misled"} /\ count = ask.w + ask.r /\ refused = 0 /\ timedOut = 0 =>
    wire = Whole(ask)

(* "wait for stop interrupt": as long as no transaction has timed out, the *)
(* task wakes for the stop of this very transaction, never for one of the  *)
(* other bus or of an earlier one.                                         *)
EndsByOwnStop == timedOut = 0 => task # "misled"

(* Bytes go into the caller's buffer only while the caller waits in        *)
(* transaction() on that bus or is about to return: when it has returned   *)
(* its buffer is gone.                                                     *)
BufferInUse ==
  [][\A b \in Buses :
       rcnt'[b] < rcnt[b] /\ UNCHANGED task =>
         bus = b /\ task \in {"waiting", "told", "misled", "late"}]_vars
=============================================================================
