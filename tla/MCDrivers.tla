------------------------------ MODULE MCDrivers ------------------------------
(***************************************************************************)
(* The drivers below the tasks, the picture the UI draws, the heaps of the *)
(* kernel, its co-routines and the handles of protected tasks share no     *)
(* state, and a driver has one user at a time.  A behaviour therefore runs *)
(* one of them, chosen at its start; the others stay where they began.     *)
(***************************************************************************)
EXTENDS Integers, Sequences

\* The I2C driver, the knob, the transmitting UART and the EEPROM, which are proved
\* about as well.
CONSTANTS Buses, Transfers, FIFO, WIRE_FAULTS
CONSTANTS TICKS, CLOCK, DEBOUNCE, TIME
CONSTANTS QUEUE, DEPTH, WATERMARK, BYTES, LONGEST
CONSTANTS Chars, ENTRY_SIZE, MAX_TEXT, Levels, ZeroCrc, SAVES, FAULTS

VARIABLES
  device,
  \* Modbus
  pc, msg, buf, need, value, err, rx, line, due, disturbances, transactions,
  \* ModbusServer
  clientPc, asked, result, got, clean, clientRx, ear, listening, overheard, unanswered, served,
  disturbed,
  \* PicoI2C
  task, bus, ask, count, note, wctr, rctr, rcnt, restart_on_next, irq, mask,
  tx_fifo, rx_fifo, stop, flushed, late, wire, refused, timedOut,
  \* Storage
  memory, step, info, saved, pairs, saves, faults,
  \* RotaryEncoder
  encoderValue, buttonPressed, lastButtonTick, ui, delta, turns, reported, lost, time, lastPress,
  \* UartTransmit
  writer, toWrite, tx, txim, nvic, fifo, raised, onLine, queued,
  \* Framebuf
  buffer, drawn, draws,
  \* Heap
  heap, freeing, regions,
  \* CoRoutine
  cr, state, at, waiting, clock, interrupts, unwoken,
  \* KernelObjects
  taken, objects, work, phase, tasksMade, current, dying, registry, ids, mixed, misfreed,
  \* MpuWrappers
  pool, object, doing, slotOf, unfreed

-----------------------------------------------------------------------------
(* Small values: two registers of one device, as temperature and humidity, *)
(* and the write to the fan, which is another.                             *)

Temperature == [unit |-> 241, fc |-> 3, addr |-> 257, value |-> 0]
Humidity == [unit |-> 241, fc |-> 3, addr |-> 256, value |-> 0]
FanSpeed == [unit |-> 1, fc |-> 6, addr |-> 0, value |-> 1]

\* A word that holds the number and the function code of the fan.
Line == INSTANCE Modbus WITH
  Requests <- {Temperature, Humidity, FanSpeed}, Words <- {262},
  RX_SIZE <- 12, MAX_DUE <- 1, DISTURBANCES <- 1, TRANSACTIONS <- 3

Library(unit, fc, args, data) ==
  [unit |-> unit, fc |-> fc, args |-> args, data |-> data, raw |-> FALSE]
Pdu(fc, data, expected) == [unit |-> 1, fc |-> fc, args |-> <<expected>>, data |-> data, raw |-> TRUE]

\* Every function, at the edge of its range where it has one.
LegalCalls ==
  {Library(1, 1, <<65535, 1>>, <<>>), Library(1, 2, <<8, 9>>, <<>>),
   Library(1, 3, <<65534, 2>>, <<>>), Library(1, 4, <<0, 1>>, <<>>),
   Library(1, 5, <<3, 1>>, <<>>), Library(1, 6, <<3, 258>>, <<>>),
   Library(1, 15, <<4, 9>>, <<170, 1>>), Library(1, 16, <<5, 2>>, <<1, 513>>),
   Library(1, 20, <<1, 7, 0>>, <<>>), Library(1, 20, <<1, 7, 1>>, <<>>),
   Library(1, 21, <<1, 9999, 1>>, <<515>>), Library(1, 23, <<3, 1, 6, 1>>, <<772>>)}

\* The longest requests and answers.
LongCalls ==
  {Library(1, 1, <<0, 2000>>, <<>>), Library(1, 3, <<65411, 125>>, <<>>),
   Library(1, 15, <<63568, 1968>>, [i \in 1 .. 246 |-> i]),
   Library(1, 16, <<0, 123>>, [i \in 1 .. 123 |-> i]),
   Library(1, 21, <<1, 0, 122>>, [i \in 1 .. 122 |-> i]),
   Library(1, 23, <<0, 125, 65415, 121>>, [i \in 1 .. 121 |-> i])}

\* What the client refuses to send, and what the server refuses.
IllegalCalls ==
  {Library(1, 3, <<65535, 2>>, <<>>), Library(1, 23, <<0, 1, 0, 122>>, <<>>),
   Pdu(7, <<>>, 1), Pdu(3, <<0, 0, 0, 0>>, 3), Pdu(16, <<255, 255, 0, 2, 4, 0, 0, 0, 0>>, 4),
   Pdu(21, <<16, 6, 0, 1, 0, 0, 0, 1, 0, 9, 6, 0, 0, 0, 0, 0, 0>>, 17)}

\* Two file records in one request; other devices; all of them.
SpecialCalls ==
  {Pdu(21, <<16, 6, 0, 1, 0, 0, 0, 1, 0, 9, 6, 0, 2, 0, 0, 0, 0>>, 17),
   Pdu(20, <<14, 6, 0, 1, 0, 0, 0, 0, 6, 0, 2, 0, 0, 0, 0>>, 5),
   Library(2, 3, <<0, 1>>, <<>>), Library(2, 23, <<3, 1, 6, 1>>, <<772>>),
   Library(2, 20, <<1, 7, 1>>, <<>>), Library(2, 21, <<1, 0, 1>>, <<9>>),
   Library(0, 3, <<0, 1>>, <<>>), Library(0, 6, <<3, 258>>, <<>>),
   Library(0, 23, <<3, 1, 6, 1>>, <<772>>)}

\* One of these, and two reads behind it that could be given its leftovers.
CallsInTurn ==
  <<LegalCalls \cup LongCalls \cup IllegalCalls \cup SpecialCalls,
    {Library(1, 3, <<0, 1>>, <<>>)}, {Library(1, 3, <<1, 1>>, <<>>)}>>

Rtu == INSTANCE ModbusServer WITH
  pc <- clientPc, rx <- clientRx, due <- unanswered, disturbances <- disturbed,
  OWN <- 1, NEIGHBOUR <- 2, Calls <- CallsInTurn,
  Callbacks <- {1, 2, 3, 5, 6, 15, 16, 20, 21}, DISTURBANCES <- 1, LONGEST <- 20

\* Writes and reads that fit into the FIFO, and such that do not.
MCTransfers == {[w |-> 1, r |-> 0], [w |-> 3, r |-> 0], [w |-> 2, r |-> 2], [w |-> 1, r |-> 4]}
Wire == INSTANCE PicoI2C WITH FAULTS <- WIRE_FAULTS

A == <<"a">>
B == <<"b">>
Zero == <<"zero">>

\* The longest text just fits, as 60 characters in an entry of 64 bytes.
MCChars == {A, B}
MCLevels == {<<A, B>>, <<Zero, B>>}
MCZeroCrc == {<<A, Zero>>, <<A, B>>}
Eeprom == INSTANCE Storage

Knob == INSTANCE RotaryEncoder

\* Messages longer than the FIFO, a queue that fills up.
Uart == INSTANCE UartTransmit

\* Two characters, one image that is square and one that is tall.
Screen == INSTANCE Framebuf WITH
  WIDTH <- 5, HEIGHT <- 3, PAGE <- 2, CELL <- 2, DRAWS <- 2,
  Font <- [a |-> <<{0}, {0, 1}>>, z |-> <<{1}, {}>>], Unknown <- "z",
  Texts <- {<<"a">>, <<"a", "odd">>},
  Images <- {[w |-> 2, h |-> 2, lit |-> {<<0, 0>>, <<1, 1>>}],
             [w |-> 1, h |-> 3, lit |-> {<<0, 0>>, <<0, 2>>}]}

\* A heap that is not aligned; sizes that fit, that do not, and that overflow.
Mem == INSTANCE Heap WITH
  Callers <- {"one", "other"}, Regions <- <<[at |-> 1, size |-> 27]>>, ALIGN <- 2, HEADER <- 2,
  TOP <- 32, Sizes <- {0, 1, 4, 6, 30, 61, 62}, Counts <- {5}

\* Two regions, of which the second follows at once and is not aligned.
Far == INSTANCE Heap WITH
  Callers <- {"one", "other"}, Regions <- <<[at |-> 2, size |-> 13], [at |-> 15, size |-> 15]>>,
  ALIGN <- 2, HEADER <- 2, TOP <- 32, Sizes <- {1, 4, 8, 62}, Counts <- {2}

Best == INSTANCE HeapBySize WITH
  Callers <- {"one", "other"}, BASE <- 1, TOTAL <- 30, ALIGN <- 2, HEADER <- 2, TOP <- 32,
  Sizes <- {0, 1, 4, 9, 30, 61}

Once == INSTANCE HeapOnce WITH
  BASE <- 1, TOTAL <- 24, ALIGN <- 2, TOP <- 32, Sizes <- {0, 1, 2, 5, 8, 55, 63}

\* Two that wait for what the third sends, which waits for room or sleeps.
RoutineCalls(c) ==
  IF c = "sender" THEN {[op |-> "send", ticks |-> 1], [op |-> "delay", ticks |-> 2]}
  ELSE {[op |-> "receive", ticks |-> 2]}
Idle == INSTANCE CoRoutine WITH
  Routines <- {"sender", "reader", "background"}, None <- "none", End <- "end",
  Asked <- [sender |-> 7, reader |-> 1, background |-> 0], MaxPriorities <- 2,
  Wrap <- 3, Length <- 2, Calls <- RoutineCalls, Horizon <- 3, MaxInterrupts <- 1

\* A queue and a stream buffer of which the size overflows; memory that is
\* the caller's in part or whole; one slot less than queues to register.
Object(kind, owner, length, size) ==
  [kind |-> kind, memory |-> owner, length |-> length, size |-> size, count |-> 0, named |-> FALSE]
ObjectsAsked(a) ==
  CASE a = "main" -> {[Object("task", "heap", 0, 2) EXCEPT !.count = 2]}
    [] a = "one" -> {[Object("task", "own_stack", 0, 2) EXCEPT !.count = 1],
                     [Object("queue", "heap", 2, 2) EXCEPT !.named = TRUE],
                     Object("queue", "heap", 9, 15)}
    [] OTHER -> {[Object("semaphore", "own", 3, 0) EXCEPT !.count = 2, !.named = TRUE],
                 Object("stream", "heap", 0, 62), Object("timer", "heap", 0, 0)}
Made == INSTANCE KernelObjects WITH
  heap <- taken, Callers <- {"one", "other"}, Requests <- ObjectsAsked, TOP <- 64,
  Sizes <- [task |-> 5, queue |-> 4, stream |-> 3, timer |-> 2, group |-> 2],
  Slots <- 2, MaxMade <- 9, None <- -1

\* The timer task, and two more objects; tasks that create, delete and call.
Handles == INSTANCE MpuWrappers WITH
  given <- slotOf, lost <- unfreed, SIZE <- 2, Objects <- {"timer task", "one", "other"},
  FIRST <- "timer task",
  NULL <- "NULL", RESERVED <- "~0", Callbacks <- {"expired"}, BUSY <- 2,
  Wanted <- {[kind |-> "TASK", privileged |-> TRUE, callback |-> "NULL"],
             [kind |-> "TIMER", privileged |-> FALSE, callback |-> "expired"]}

ASSUME DriverParameters ==
  /\ Line!Parameters /\ Rtu!Parameters /\ Wire!Parameters /\ Eeprom!Parameters /\ Knob!Parameters
  /\ Uart!Parameters /\ Screen!Parameters
  /\ Mem!Parameters /\ Far!Parameters /\ Best!Parameters /\ Once!Parameters
  /\ Idle!Parameters /\ Made!Parameters /\ Handles!Parameters

-----------------------------------------------------------------------------
lineVars == <<pc, msg, buf, need, value, err, rx, line, due, disturbances, transactions>>
rtuVars == <<clientPc, asked, result, got, clean, clientRx, ear, listening, overheard, unanswered,
             served, disturbed>>
wireVars == <<task, bus, ask, count, note, wctr, rctr, rcnt, restart_on_next, irq, mask,
              tx_fifo, rx_fifo, stop, flushed, late, wire, refused, timedOut>>
eepromVars == <<memory, step, info, saved, pairs, saves, faults>>
knobVars == <<encoderValue, buttonPressed, lastButtonTick, ui, delta, turns, reported, lost,
              time, lastPress>>
uartVars == <<writer, toWrite, tx, txim, nvic, fifo, raised, onLine, queued>>
screenVars == <<buffer, drawn, draws>>
heapVars == <<heap, freeing, regions>>
routineVars == <<cr, state, at, waiting, clock, interrupts, unwoken>>
objectVars == <<taken, objects, work, phase, tasksMade, current, dying, registry, ids, mixed, misfreed>>
handleVars == <<pool, object, doing, slotOf, unfreed>>
Heaps == {"heap", "regions", "by size", "once"}
vars ==
  <<device, lineVars, rtuVars, wireVars, eepromVars, knobVars, uartVars, screenVars, heapVars,
    routineVars, objectVars, handleVars>>

Init ==
  /\ device \in {"line", "rtu", "wire", "eeprom", "knob", "uart", "screen", "routines", "objects",
                 "handles"} \cup Heaps
  /\ Line!Init /\ Rtu!Init /\ Wire!Init /\ Eeprom!Init /\ Knob!Init /\ Uart!Init
  /\ Screen!Init /\ Idle!Init /\ Made!Init /\ Handles!Init
  /\ CASE device = "by size" -> Best!Init
       [] device = "once" -> Once!Init /\ freeing = <<>>
       [] OTHER -> Mem!Init
  /\ device # "line" => msg = Temperature
  /\ device # "wire" => bus = (CHOOSE b \in Buses : TRUE) /\ ask = CHOOSE t \in Transfers : TRUE

\* The device that runs, and the others, which do not.
On(name) ==
  /\ device = name
  /\ UNCHANGED device
  /\ name # "line" => UNCHANGED lineVars
  /\ name # "rtu" => UNCHANGED rtuVars
  /\ name # "wire" => UNCHANGED wireVars
  /\ name # "eeprom" => UNCHANGED eepromVars
  /\ name # "knob" => UNCHANGED knobVars
  /\ name # "uart" => UNCHANGED uartVars
  /\ name # "screen" => UNCHANGED screenVars
  /\ name \notin Heaps => UNCHANGED heapVars
  /\ name # "routines" => UNCHANGED routineVars
  /\ name # "objects" => UNCHANGED objectVars
  /\ name # "handles" => UNCHANGED handleVars

Next ==
  \/ On("line") /\ Line!Next
  \/ On("rtu") /\ Rtu!Next
  \/ On("wire") /\ Wire!Next
  \/ On("eeprom") /\ Eeprom!Next
  \/ On("knob") /\ Knob!Next
  \/ On("uart") /\ Uart!Next
  \/ On("screen") /\ Screen!Next
  \/ On("routines") /\ Idle!Next
  \/ On("objects") /\ Made!Next
  \/ On("handles") /\ Handles!Next
  \/ On("heap") /\ Mem!Next
  \/ On("regions") /\ Far!RegionsNext
  \/ On("by size") /\ Best!Next
  \/ On("once") /\ Once!Next /\ UNCHANGED freeing

(* Tasks are scheduled and the waits for a byte of the sensor line time    *)
(* out; interrupts are served, the one by which the UART asks for bytes    *)
(* when it is let through again and again, while those of what it receives *)
(* may never come.  A Modbus device answers or it does not, the I2C        *)
(* controller and the UART send.                                           *)
Fairness ==
  /\ WF_vars(On("line") /\ Line!Client)
  /\ WF_vars(On("line") /\ Line!Deliver)
  /\ WF_vars(On("line") /\ (Line!Answer \/ Line!Silent))
  /\ WF_vars(On("wire") /\ Wire!Working)
  /\ \A b \in Buses : WF_vars(On("wire") /\ Wire!Isr(b)) /\ WF_vars(On("wire") /\ Wire!Send(b))
  /\ WF_vars(On("knob") /\ Knob!UI)
  /\ WF_vars(On("uart") /\ Uart!Writing)
  /\ SF_vars(On("uart") /\ Uart!AsksForBytes /\ Uart!IrqTx)
  /\ WF_vars(On("uart") /\ Uart!SendByte)

FairSpec == Init /\ [][Next]_vars /\ Fairness

-----------------------------------------------------------------------------
(* The properties, stated and explained in the modules they come from.     *)
(* Most are asked of the device that runs, as the others do not change.    *)

(* Every variable of every driver keeps its type; no queue, FIFO or entry  *)
(* is filled beyond its size.                                              *)
TypeOK ==
  /\ device = "line" => Line!TypeOK
  /\ device = "rtu" => Rtu!TypeOK
  /\ device = "wire" => Wire!TypeOK
  /\ device = "eeprom" => Eeprom!TypeOK
  /\ device = "knob" => Knob!TypeOK
  /\ device = "uart" => Uart!TypeOK
  /\ device = "screen" => Screen!TypeOK
  /\ device = "handles" => Handles!TypeOK
  /\ device = "heap" => Mem!TypeOK
  /\ device = "regions" => Far!TypeOK

(* Without disturbances a read returns the register it asked for, or 0,    *)
(* and nothing is left on the sensor line for the next transaction; and    *)
(* whatever happens there, what is accepted reads as a whole answer of the *)
(* device, and after one disturbance it is one.  A server of nanomodbus    *)
(* makes the callbacks it was asked for, once and in order, what a call    *)
(* returns is what they gave, and without disturbances it fails only       *)
(* because they refuse.                                                    *)
AnswersHonest ==
  /\ device = "line" =>
       Line!NothingLeftOver /\ Line!ReadsCurrent /\ Line!AcceptedWhole /\ Line!NotFromParts
  /\ device = "rtu" => Rtu!ServedAsAsked /\ Rtu!ResultIsTrue /\ Rtu!FailsOnlyByCallback

(* The commands of an I2C transaction reach the wire in order, with        *)
(* restart and stop, and what they ask for finds room.  A full count means *)
(* that the device got and gave every byte, a task that does not time out  *)
(* wakes for its own stop, and the interrupt writes only to a buffer whose *)
(* owner waits for it.                                                     *)
TransferIsHonest ==
  /\ [](Wire!ReadsArePaced /\ Wire!WireInOrder)
  /\ [](Wire!FullReadIsComplete /\ Wire!FullWriteIsComplete /\ Wire!EndsByOwnStop)
  /\ Wire!BufferInUse

(* A field of the EEPROM reads as a value that was saved for it or as bad; *)
(* if no save was cut off, SSID and password were saved together, and a    *)
(* terminator has its checksum behind it inside the buffer.                *)
RecordsIntact == Eeprom!ReadsOnlySaved /\ Eeprom!PairsMatch /\ Eeprom!TerminatorInside

(* Every tick of the knob is reported once or came between load and        *)
(* clearing; two reported presses lie debounceMs apart, across the wrap of *)
(* the tick counter too.  The writer and the interrupts of the UART, those *)
(* of received bytes included, send every queued byte once, in order, and  *)
(* between two writes a queued byte has an interrupt coming that takes it. *)
InputAndOutputAccounted ==
  /\ []Knob!TicksAccounted /\ Knob!PressesApart
  /\ [](Uart!SentInOrder /\ Uart!InterruptComes)

(* The bytes of the buffer show the picture that was asked for, whatever   *)
(* was drawn, cut off at an edge, pasted or scrolled in place.             *)
PictureDrawn == device = "screen" => Screen!HoldsPicture

(* Through all splits and merges, in one region or several, and with tasks *)
(* in the middle of returning blocks, nobody is given memory that somebody *)
(* has, the list of free blocks is in order and merged, no byte is lost,   *)
(* and nothing is refused while there is room for it.  The simpler heaps,  *)
(* which merge or return nothing, keep what they promise.  What the heap    *)
(* gave is owned by one object or one call and freed once, has the room     *)
(* that was asked for, the registry names no queue that is gone, and the    *)
(* scheduler starts with the tasks it needs or not at all.  A handle of a   *)
(* protected task leads to the live object it was given for, and back.      *)
MemoryIsSound ==
  /\ device = "heap" =>
       Mem!RegionsIntact /\ Mem!ListInOrder /\ Mem!NothingLost /\ Mem!RefusedOnlyWhenFull
  /\ device = "regions" =>
       Far!RegionsIntact /\ Far!ListInOrder /\ Far!NothingLost /\ Far!RefusedOnlyWhenFull
  /\ device = "by size" => Best!BlocksIntact
  /\ device = "once" => Once!HandedOutOnce
  /\ device = "objects" => Made!ObjectsSound
  /\ device = "handles" => Handles!HandlesSound

(* No co-routine is lost, none wakes early or late across the wrap of both *)
(* counters, and none sleeps on while there is what it waits for, unless   *)
(* an interrupt woke only one; the most important of the ready is called.  *)
CoRoutinesSound == device = "routines" => Idle!CoRoutinesSound

(* What somebody waits for at the device that runs, and that it came.      *)
Awaited ==
  CASE device = "line" -> ~Line!Idle
    [] device = "wire" -> task = "waiting"
    [] device = "knob" -> buttonPressed
    [] device = "uart" -> tx # <<>>
    [] OTHER -> FALSE
Came ==
  CASE device = "line" -> Line!Idle
    [] device = "wire" -> task = "free"
    [] device = "knob" -> ui = "pressed"
    [] device = "uart" -> tx = <<>>
    [] OTHER -> TRUE

(* Every wait ends.  A read or write of a register comes back to the       *)
(* controller task, whatever happens on the sensor line: it never waits    *)
(* for bytes that do not come.  An I2C transaction ends even without its   *)
(* time-out: the bus is stopped or the device refuses, and this stop       *)
(* reaches the task whatever an earlier time-out has left behind.  A       *)
(* bouncing contact delays nothing for good: the UI comes round again and  *)
(* takes the flag of a press.  Every byte that was queued for the UART is  *)
(* sent.                                                                   *)
EveryWaitEnds == Awaited ~> Came
=============================================================================
