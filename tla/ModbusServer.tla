---------------------------- MODULE ModbusServer ----------------------------
(***************************************************************************)
(* The rest of nanomodbus: all functions of the client and the server, on  *)
(* one line with another device.  The controller uses only the part that   *)
(* Modbus shows in full detail; this module is about the library.          *)
(*                                                                         *)
(* A frame reaches those who hear it at once, since its bytes follow one   *)
(* another faster than any time-out; a disturbance loses it for one of     *)
(* them, or loses or changes one byte.  A recv that waits for more takes   *)
(* on its time-out what there is, so a message is parsed in one step, when *)
(* its last byte is there.  No frame is longer than the buffer, and what   *)
(* is written to the line goes out (Modbus has writes that fail).          *)
(* A raw call is nmbs_send_raw_pdu and nmbs_receive_raw_pdu_response.      *)
(*                                                                         *)
(* Where the code does what C leaves undefined, it goes on as written, or  *)
(* "halted" is all that is known: the data of a file record is swapped in  *)
(* place at an odd address, where the processor of the Pico stops, and a   *)
(* length in a response to such a request is taken on trust.               *)
(***************************************************************************)
EXTENDS Integers, Sequences, ModbusFrame
LOCAL INSTANCE SequencesExt
LOCAL INSTANCE FiniteSetsExt

CONSTANTS
  OWN, NEIGHBOUR,\* address_rtu of the server, and the other device
  Calls,         \* the calls a behaviour may make: a set for each of them in turn
  Callbacks,     \* functions the application of the server has callbacks for
  DISTURBANCES,  \* bound on disturbed frames and late answers
  LONGEST        \* no frame with more bytes is disturbed

BROADCAST == 0
Functions == {1, 2, 3, 4, 5, 6, 15, 16, 20, 21, 23}
ILLEGAL_FUNCTION == 1
ILLEGAL_DATA_ADDRESS == 2
ILLEGAL_DATA_VALUE == 3
SERVER_DEVICE_FAILURE == 4

Parameters ==
  /\ OWN \in 1 .. 247 /\ NEIGHBOUR \in 1 .. 247 \ {OWN}
  /\ Callbacks \subseteq Functions \ {23} /\ {DISTURBANCES, LONGEST} \subseteq Nat
  /\ \A i \in DOMAIN Calls : \A c \in Calls[i] :
       /\ c.unit \in {BROADCAST, OWN, NEIGHBOUR}
       /\ c.fc \in Functions \/ c.raw

VARIABLES
  pc,            \* the client: "idle", "response" or "halted"
  asked,         \* the calls it has made; it is in the last one
  result,        \* what the last one returned
  got,           \* and what it stored for the caller
  clean,         \* history: was anything of an earlier call left when it began?
  rx,            \* bytes the client has to read
  ear,           \* bytes the server has to read
  listening,     \* the server: for a "request", for the "response" to one, "halted"
  overheard,     \* the request of the other device whose response it awaits
  due,           \* requests the other device has not answered
  served,        \* callbacks the server made, by request
  disturbances   \* how many there were

clientVars == <<pc, asked, result, got, clean, rx>>
serverVars == <<ear, listening, overheard, served>>
vars == <<clientVars, serverVars, due, disturbances>>

-----------------------------------------------------------------------------
(* Messages.  A byte on the line carries, as history, the number of the    *)
(* call it belongs to.                                                     *)

Encoded(words) ==
  [i \in 1 .. 2 * Len(words) |-> TwoBytes(words[(i + 1) \div 2])[2 - (i % 2)]]
Plains(numbers) == [i \in DOMAIN numbers |-> Plain(numbers[i])]
Bytes(items) == [i \in DOMAIN items |-> items[i].byte]
Tagged(bytes, n) == [i \in DOMAIN bytes |-> [byte |-> bytes[i], n |-> n]]
ByteAt(s, i) == NumberOf(s[i])
WordAt(s, i) == 256 * ByteAt(s, i) + ByteAt(s, i + 1)
WordsAt(s, i, n) == [k \in 1 .. n |-> WordAt(s, i + 2 * (k - 1))]
BytesAt(s, i, n) == [k \in 1 .. n |-> ByteAt(s, i + k - 1)]
From(s, i) == SubSeq(s, i, Len(s))

(* The length of a message is fixed, or what follows is counted by its     *)
(* byte "at".                                                              *)
FrameLength(s, at) == IF at = 0 THEN 8 ELSE at + ByteAt(s, at) + 2
Arrived(s, at) ==
  IF at = 0 THEN Len(s) >= 8 ELSE Len(s) >= at /\ Len(s) >= FrameLength(s, at)

RequestCount(fc) ==
  CASE fc \in 1 .. 6 -> 0
    [] fc \in {15, 16} -> 7
    [] fc \in {20, 21} -> 3
    [] fc = 23 -> 11

ResponseCount(fc) == IF fc \in {5, 6, 15, 16} THEN 0 ELSE 3

\* Addresses start and end inside 0 .. 65535.
Fits(address, quantity) == address + quantity <= 65536

CoilBytes(quantity) == (quantity + 7) \div 8

\* What the devices hold: some coils are set, every register differs.
Coil(address) == IF address % 3 = 0 THEN 1 ELSE 0
Register(address) == (address * 259 + 2) % 65536
CoilsFrom(address, quantity) ==
  [i \in 1 .. CoilBytes(quantity) |->
     MapThenSumSet(LAMBDA b : IF 8 * (i - 1) + b < quantity
                              THEN Coil(address + 8 * (i - 1) + b) * 2 ^ b ELSE 0, 0 .. 7)]
RegistersFrom(address, quantity) == [i \in 1 .. quantity |-> Register(address + i - 1)]

-----------------------------------------------------------------------------
(* What each client function checks and sends.  A call holds its numbers   *)
(* in args and what it writes in data; a raw one, the length it expects in *)
(* args.                                                                   *)

ReadDiscrete(c) ==
  [legal |-> c.args[2] \in 1 .. 2000 /\ Fits(c.args[1], c.args[2]), pdu |-> Encoded(c.args)]

ReadRegisters(c) ==
  [legal |-> c.args[2] \in 1 .. 125 /\ Fits(c.args[1], c.args[2]), pdu |-> Encoded(c.args)]

WriteSingleCoil(c) ==
  [legal |-> TRUE, pdu |-> Encoded(<<c.args[1], IF c.args[2] = 1 THEN 65280 ELSE 0>>)]

WriteSingleRegister(c) == [legal |-> TRUE, pdu |-> Encoded(c.args)]

WriteMultipleCoils(c) ==
  [legal |-> c.args[2] \in 1 .. 1968 /\ Fits(c.args[1], c.args[2]),
   pdu |-> Encoded(c.args) \o <<Plain(CoilBytes(c.args[2]))>> \o Plains(c.data)]

WriteMultipleRegisters(c) ==
  [legal |-> c.args[2] \in 1 .. 123 /\ Fits(c.args[1], c.args[2]),
   pdu |-> Encoded(c.args) \o <<Plain(2 * c.args[2])>> \o Encoded(c.data)]

ReadFileRecord(c) ==
  [legal |-> c.args[1] # 0 /\ c.args[2] <= 9999 /\ c.args[3] <= 124,
   pdu |-> Plains(<<7, 6>>) \o Encoded(c.args)]

WriteFileRecord(c) ==
  [legal |-> c.args[1] # 0 /\ c.args[2] <= 9999 /\ c.args[3] <= 122,
   pdu |-> Plains(<<7 + 2 * c.args[3], 6>>) \o Encoded(c.args) \o Encoded(c.data)]

ReadWriteRegisters(c) ==
  [legal |-> /\ c.args[2] \in 1 .. 125 /\ Fits(c.args[1], c.args[2])
             /\ c.args[4] \in 1 .. 121 /\ Fits(c.args[3], c.args[4]),
   pdu |-> Encoded(c.args) \o <<Plain(2 * c.args[4])>> \o Encoded(c.data)]

SendRawPdu(c) == [legal |-> TRUE, pdu |-> Plains(c.data)]

Asked(c) ==
  CASE c.raw -> SendRawPdu(c)
    [] ~c.raw /\ c.fc \in {1, 2} -> ReadDiscrete(c)
    [] ~c.raw /\ c.fc \in {3, 4} -> ReadRegisters(c)
    [] ~c.raw /\ c.fc = 5 -> WriteSingleCoil(c)
    [] ~c.raw /\ c.fc = 6 -> WriteSingleRegister(c)
    [] ~c.raw /\ c.fc = 15 -> WriteMultipleCoils(c)
    [] ~c.raw /\ c.fc = 16 -> WriteMultipleRegisters(c)
    [] ~c.raw /\ c.fc = 20 -> ReadFileRecord(c)
    [] ~c.raw /\ c.fc = 21 -> WriteFileRecord(c)
    [] ~c.raw /\ c.fc = 23 -> ReadWriteRegisters(c)

\* Nobody answers a broadcast; reads and raw requests wait all the same.
Awaits(c) == c.raw \/ c.unit # BROADCAST \/ c.fc \in 1 .. 4

RequestFrame(c) == Frame(Plains(<<c.unit, c.fc>>) \o Asked(c).pdu)

-----------------------------------------------------------------------------
(* What each handler of the server makes of a request: the exception it    *)
(* refuses it with, or 0; the callbacks it makes, and what it answers if   *)
(* they agree.                                                             *)

\* The code of the first rule that is broken.
FirstBroken(rules) ==
  LET broken == {i \in DOMAIN rules : ~rules[i][1]}
  IN  IF broken = {} THEN 0 ELSE rules[Min(broken)][2]

Has(fc) == fc \in Callbacks
To(fc, args, data) == [fc |-> fc, args |-> args, data |-> data]

HandleReadDiscrete(s) ==
  LET address == WordAt(s, 3)
      quantity == WordAt(s, 5)
  IN  [refusal |-> FirstBroken(<<<<quantity \in 1 .. 2000, ILLEGAL_DATA_VALUE>>,
                                 <<Fits(address, quantity), ILLEGAL_DATA_ADDRESS>>,
                                 <<Has(ByteAt(s, 2)), ILLEGAL_FUNCTION>>>>),
       calls |-> <<To(ByteAt(s, 2), <<address, quantity>>, <<>>)>>,
       answer |-> <<Plain(CoilBytes(quantity))>> \o Plains(CoilsFrom(address, quantity))]

HandleReadRegisters(s) ==
  LET address == WordAt(s, 3)
      quantity == WordAt(s, 5)
  IN  [refusal |-> FirstBroken(<<<<quantity \in 1 .. 125, ILLEGAL_DATA_VALUE>>,
                                 <<Fits(address, quantity), ILLEGAL_DATA_ADDRESS>>,
                                 <<Has(ByteAt(s, 2)), ILLEGAL_FUNCTION>>>>),
       calls |-> <<To(ByteAt(s, 2), <<address, quantity>>, <<>>)>>,
       answer |-> <<Plain(2 * quantity)>> \o Encoded(RegistersFrom(address, quantity))]

HandleWriteSingleCoil(s) ==
  LET address == WordAt(s, 3)
      value == WordAt(s, 5)
  IN  [refusal |-> FirstBroken(<<<<Has(5), ILLEGAL_FUNCTION>>,
                                 <<value \in {0, 65280}, ILLEGAL_DATA_VALUE>>>>),
       calls |-> <<To(5, <<address, IF value = 0 THEN 0 ELSE 1>>, <<>>)>>,
       answer |-> Encoded(<<address, value>>)]

HandleWriteSingleRegister(s) ==
  [refusal |-> FirstBroken(<<<<Has(6), ILLEGAL_FUNCTION>>>>),
   calls |-> <<To(6, WordsAt(s, 3, 2), <<>>)>>,
   answer |-> Encoded(WordsAt(s, 3, 2))]

HandleWriteMultipleCoils(s) ==
  LET address == WordAt(s, 3)
      quantity == WordAt(s, 5)
      bytes == ByteAt(s, 7)
  IN  [refusal |-> FirstBroken(<<<<quantity \in 1 .. 1968, ILLEGAL_DATA_VALUE>>,
                                 <<Fits(address, quantity), ILLEGAL_DATA_ADDRESS>>,
                                 <<bytes # 0, ILLEGAL_DATA_VALUE>>,
                                 <<bytes = CoilBytes(quantity), ILLEGAL_DATA_VALUE>>,
                                 <<Has(15), ILLEGAL_FUNCTION>>>>),
       calls |-> <<To(15, <<address, quantity>>, BytesAt(s, 8, bytes))>>,
       answer |-> Encoded(<<address, quantity>>)]

HandleWriteMultipleRegisters(s) ==
  LET address == WordAt(s, 3)
      quantity == WordAt(s, 5)
      bytes == ByteAt(s, 7)
  IN  [refusal |-> FirstBroken(<<<<quantity \in 1 .. 123, ILLEGAL_DATA_VALUE>>,
                                 <<Fits(address, quantity), ILLEGAL_DATA_ADDRESS>>,
                                 <<bytes # 0, ILLEGAL_DATA_VALUE>>,
                                 <<bytes = 2 * quantity, ILLEGAL_DATA_VALUE>>,
                                 <<Has(16), ILLEGAL_FUNCTION>>>>),
       calls |-> <<To(16, <<address, quantity>>, WordsAt(s, 8, bytes \div 2))>>,
       answer |-> Encoded(<<address, quantity>>)]

\* A request for file records: reference type, file, record, length.
LegalRecord(s, at, longest) ==
  /\ ByteAt(s, at) = 6
  /\ WordAt(s, at + 1) # 0
  /\ WordAt(s, at + 3) <= 9999
  /\ WordAt(s, at + 5) <= longest

HandleReadFileRecord(s) ==
  LET size == ByteAt(s, 3)
      starts == [i \in 1 .. size \div 7 |-> 4 + 7 * (i - 1)]
      length(i) == WordAt(s, starts[i] + 5)
      data(i) == Plains(<<2 * length(i) + 1, 6>>)
                 \o Encoded(RegistersFrom(WordAt(s, starts[i] + 3), length(i)))
  IN  [refusal |-> FirstBroken(<<<<size % 7 = 0, ILLEGAL_DATA_VALUE>>,
                                 <<size \in 7 .. 245, ILLEGAL_DATA_VALUE>>,
                                 <<\A i \in DOMAIN starts : LegalRecord(s, starts[i], 124),
                                   ILLEGAL_DATA_ADDRESS>>,
                                 <<Has(20), ILLEGAL_FUNCTION>>>>),
       calls |-> [i \in DOMAIN starts |-> To(20, WordsAt(s, starts[i] + 1, 3), <<>>)],
       answer |-> LET all == FlattenSeq([i \in DOMAIN starts |-> data(i)])
                  IN  <<Plain(Len(all))>> \o all]

\* Where the records of a write request start, and where they end; one that is too
\* long is the last.  (A record that is longer than the rest of the request makes its
\* size wrap; nobody here sends one.)
RecordsOf(s) ==
  LET end == 4 + ByteAt(s, 3)
      found[at \in 4 .. 600] ==
        IF end - at < 7 THEN [starts |-> <<>>, at |-> at]
        ELSE IF WordAt(s, at + 5) > 122 THEN [starts |-> <<at>>, at |-> at]
        ELSE LET rest == found[at + 7 + 2 * WordAt(s, at + 5)]
             IN  [rest EXCEPT !.starts = <<at>> \o @]
  IN  found[4]

HandleWriteFileRecord(s) ==
  LET size == ByteAt(s, 3)
      records == RecordsOf(s)
      starts == records.starts
  IN  [refusal |-> FirstBroken(<<<<size \in 7 .. 251, ILLEGAL_DATA_VALUE>>,
                                 <<\A i \in DOMAIN starts : LegalRecord(s, starts[i], 122),
                                   ILLEGAL_DATA_ADDRESS>>,
                                 <<records.at = 4 + size, ILLEGAL_DATA_VALUE>>,
                                 <<Has(21), ILLEGAL_FUNCTION>>>>),
       calls |-> [i \in DOMAIN starts |->
                    To(21, WordsAt(s, starts[i] + 1, 3),
                       WordsAt(s, starts[i] + 7, WordAt(s, starts[i] + 5)))],
       answer |-> SubSeq(s, 3, Len(s) - 2)]

HandleReadWriteRegisters(s) ==
  LET read == WordsAt(s, 3, 2)
      write == WordsAt(s, 7, 2)
      bytes == ByteAt(s, 11)
      writing == To(16, write, WordsAt(s, 12, bytes \div 2))
      reading == To(3, read, <<>>)
  IN  [refusal |-> FirstBroken(<<<<read[2] \in 1 .. 125, ILLEGAL_DATA_VALUE>>,
                                 <<write[2] \in 1 .. 123, ILLEGAL_DATA_VALUE>>,
                                 <<bytes = 2 * write[2], ILLEGAL_DATA_VALUE>>,
                                 <<Fits(read[1], read[2]), ILLEGAL_DATA_ADDRESS>>,
                                 <<Fits(write[1], write[2]), ILLEGAL_DATA_ADDRESS>>,
                                 <<Has(16) /\ Has(3), ILLEGAL_FUNCTION>>>>),
       calls |-> IF ByteAt(s, 1) = BROADCAST THEN <<writing>> ELSE <<writing, reading>>,
       answer |-> <<Plain(2 * read[2])>> \o Encoded(RegistersFrom(read[1], read[2]))]

\* handle_req_fc.
Handled(s) ==
  LET fc == ByteAt(s, 2)
  IN  CASE fc \in {1, 2} -> HandleReadDiscrete(s)
        [] fc \in {3, 4} -> HandleReadRegisters(s)
        [] fc = 5 -> HandleWriteSingleCoil(s)
        [] fc = 6 -> HandleWriteSingleRegister(s)
        [] fc = 15 -> HandleWriteMultipleCoils(s)
        [] fc = 16 -> HandleWriteMultipleRegisters(s)
        [] fc = 20 -> HandleReadFileRecord(s)
        [] fc = 21 -> HandleWriteFileRecord(s)
        [] fc = 23 -> HandleReadWriteRegisters(s)

AnswerFrame(s, code) ==
  IF code = 0 THEN Frame(SubSeq(s, 1, 2) \o Handled(s).answer)
  ELSE Frame(<<s[1], Plain(ByteAt(s, 2) + EXCEPTION), Plain(code)>>)

-----------------------------------------------------------------------------
(* What the client makes of an answer with the function it asked for.      *)

NoData == <<>>

RecvReadDiscrete(s) == [good |-> TRUE, got |-> BytesAt(s, 4, ByteAt(s, 3))]

RecvReadRegisters(c, s) ==
  [good |-> ByteAt(s, 3) = 2 * c.args[2], got |-> WordsAt(s, 4, ByteAt(s, 3) \div 2)]

\* The echo of two numbers, for the four kinds of write.
RecvWriteSingle(c, s) ==
  [good |-> /\ WordAt(s, 3) = c.args[1]
            /\ WordAt(s, 5) = IF c.fc = 5 THEN 65280 * c.args[2] ELSE c.args[2],
   got |-> NoData]

RecvReadFileRecord(c, s) ==
  [good |-> ByteAt(s, 5) = 6 /\ (ByteAt(s, 4) - 1) \div 2 = c.args[3],
   got |-> WordsAt(s, 6, (ByteAt(s, 4) - 1) \div 2)]

RecvWriteFileRecord(c, s) ==
  [good |-> /\ ByteAt(s, 4) = 6
            /\ WordsAt(s, 5, 3) = c.args
            /\ WordsAt(s, 11, c.args[3]) = c.data,
   got |-> NoData]

ReceiveRawPdu(c, s) == [good |-> TRUE, got |-> BytesAt(s, 3, c.args[1])]

Judged(c, s) ==
  CASE c.raw -> ReceiveRawPdu(c, s)
    [] ~c.raw /\ c.fc \in {1, 2} -> RecvReadDiscrete(s)
    [] ~c.raw /\ c.fc \in {3, 4, 23} -> RecvReadRegisters(c, s)
    [] ~c.raw /\ c.fc \in {5, 6, 15, 16} -> RecvWriteSingle(c, s)
    [] ~c.raw /\ c.fc = 20 -> RecvReadFileRecord(c, s)
    [] ~c.raw /\ c.fc = 21 -> RecvWriteFileRecord(c, s)

\* All but a file record is stored for the caller once its bytes have come,
\* whatever then becomes of the CRC and of the length.
DataCame(s) == Len(s) >= 3 /\ Len(s) >= 3 + ByteAt(s, 3)
Stored(c, s) ==
  IF \/ c.raw /\ Len(s) >= 2 + c.args[1]
     \/ ~c.raw /\ c.fc \in {1, 2, 3, 4, 23} /\ DataCame(s)
  THEN Judged(c, s).got ELSE NoData

(* The data of a file record that came is as long as the record says, and  *)
(* the CRC is looked for behind it: that may be out of the buffer of 260   *)
(* bytes.  Of a response that is too short the length is what an earlier   *)
(* message left in the buffer.                                             *)
Overruns(fc, s) ==
  /\ DataCame(s)
  /\ \/ fc = 20 /\ (ByteAt(s, 3) = 0 \/ ByteAt(s, 4) \in {0, 255})
     \/ fc = 21 /\ (ByteAt(s, 3) < 7 \/ (2 * WordAt(s, 9)) % 65536 > 248)

\* The bytes a CRC is computed over are those that were parsed: more than one
\* file record, or half a register, are not all of them.
ResponseIntact(fc, s) ==
  /\ CrcMatches(s)
  /\ fc = 20 => ByteAt(s, 3) = ByteAt(s, 4) + 1
  /\ fc = 21 => ByteAt(s, 3) >= 7 /\ ByteAt(s, 3) = 7 + 2 * WordAt(s, 9)
  /\ fc \in {3, 4, 23} => ByteAt(s, 3) % 2 = 0

RequestIntact(s) ==
  /\ CrcMatches(s)
  /\ ByteAt(s, 2) \in {16, 23} => ByteAt(s, RequestCount(ByteAt(s, 2))) % 2 = 0

-----------------------------------------------------------------------------
(* The line.                                                               *)

(* What one of the others hears of a frame: 0, all of it; one byte less;   *)
(* one that is changed; nothing.                                           *)
Ways(bytes) == IF Len(bytes) <= LONGEST THEN 0 .. 2 * Len(bytes) + 1 ELSE {0}
Cost(way) == IF way = 0 THEN 0 ELSE 1
Heard(bytes, way) ==
  LET n == Len(bytes)
  IN  CASE way = 0 -> bytes
        [] way \in 1 .. n -> RemoveAt(bytes, way)
        [] way \in n + 1 .. 2 * n -> [bytes EXCEPT ![way - n] = Plain(NOISE)]
        [] way = 2 * n + 1 -> <<>>

Counted(cost) ==
  /\ disturbances + cost <= DISTURBANCES
  /\ disturbances' = disturbances + cost

Init ==
  /\ pc = "idle" /\ asked = <<>>
  /\ result = "NONE" /\ got = NoData /\ clean = TRUE /\ rx = <<>>
  /\ ear = <<>> /\ listening = "request" /\ overheard = [unit |-> NEIGHBOUR, fc |-> 3]
  /\ served = <<>> /\ due = <<>> /\ disturbances = 0

-----------------------------------------------------------------------------
(* The client.                                                             *)

call == asked[Len(asked)]

Invoke ==
  /\ pc = "idle" /\ Len(asked) < Len(Calls)
  /\ \E c \in Calls[Len(asked) + 1] :
       /\ asked' = Append(asked, c)
       /\ got' = NoData
       /\ clean' = (rx = <<>> /\ due = <<>> /\ ear = <<>> /\ listening = "request")
       /\ \/ /\ ~Asked(c).legal
             /\ result' = "INVALID_ARGUMENT"
             /\ UNCHANGED <<pc, ear, due, disturbances>>
          \/ /\ Asked(c).legal
             /\ result' = "NONE"
             /\ pc' = IF Awaits(c) THEN "response" ELSE "idle"
             /\ LET frame == RequestFrame(c)
                IN  \E way \in Ways(frame) :
                      /\ Counted(Cost(way))
                      /\ ear' = ear \o Tagged(Heard(frame, way), Len(asked) + 1)
             /\ due' = IF c.unit = NEIGHBOUR
                       THEN Append(due, [s |-> RequestFrame(c), n |-> Len(asked) + 1]) ELSE due
  /\ UNCHANGED <<rx, listening, overheard, served>>

Return(error, data, taken) ==
  /\ pc' = "idle" /\ result' = error /\ got' = data
  /\ rx' = From(rx, taken + 1)
  /\ UNCHANGED <<asked, clean, serverVars, due, disturbances>>

\* The header is not that of an answer to this call.
RefuseHeader ==
  /\ pc = "response" /\ Len(rx) >= 2
  /\ LET s == Bytes(rx)
     IN  \/ /\ ByteAt(s, 1) # call.unit
            /\ Return("INVALID_UNIT_ID", NoData, 2)
         \/ /\ ByteAt(s, 1) = call.unit
            /\ ByteAt(s, 2) \notin {call.fc, call.fc + EXCEPTION}
            /\ Return("INVALID_RESPONSE", NoData, 2)

ExceptionName ==
  <<"ILLEGAL_FUNCTION", "ILLEGAL_DATA_ADDRESS", "ILLEGAL_DATA_VALUE", "SERVER_DEVICE_FAILURE">>

ForCall(s) == Len(s) >= 2 /\ ByteAt(s, 1) = call.unit

ReceiveException ==
  /\ pc = "response" /\ Len(rx) >= 5
  /\ LET s == SubSeq(Bytes(rx), 1, 5)
         code == ByteAt(s, 3)
     IN  /\ ForCall(s) /\ ByteAt(s, 2) = call.fc + EXCEPTION
         /\ Return(IF ~CrcMatches(s) THEN "CRC"
                   ELSE IF code \in DOMAIN ExceptionName THEN ExceptionName[code]
                   ELSE "INVALID_RESPONSE", NoData, 5)

AnswerArrived(s) ==
  IF call.raw THEN Len(s) >= 4 + call.args[1] ELSE Arrived(s, ResponseCount(call.fc))
AnswerLength(s) == IF call.raw THEN 4 + call.args[1] ELSE FrameLength(s, ResponseCount(call.fc))

OfCall(s) == ForCall(s) /\ ByteAt(s, 2) = call.fc

\* What an answer that came in full makes the call return.
Intact(s) == IF call.raw THEN CrcMatches(s) ELSE ResponseIntact(call.fc, s)
ErrorOf(s) ==
  IF ~Intact(s) THEN "CRC"
  ELSE IF Judged(call, s).good THEN "NONE" ELSE "INVALID_RESPONSE"

ReceiveAnswer ==
  /\ pc = "response"
  /\ OfCall(Bytes(rx)) /\ AnswerArrived(Bytes(rx))
  /\ LET s == SubSeq(Bytes(rx), 1, AnswerLength(Bytes(rx)))
     IN  Return(ErrorOf(s), IF ErrorOf(s) = "NONE" THEN Judged(call, s).got ELSE Stored(call, s),
                Len(s))

\* swap_regs of the record that was read, or a record that is out of the buffer.
ClientHalts ==
  /\ pc = "response" /\ ~call.raw
  /\ LET s == Bytes(rx)
     IN  /\ OfCall(s)
         /\ \/ Overruns(call.fc, s)
            \/ /\ call.fc = 20 /\ call.args[3] > 0 /\ AnswerArrived(s)
               /\ ErrorOf(SubSeq(s, 1, AnswerLength(s))) = "NONE"
  /\ pc' = "halted"
  /\ UNCHANGED <<asked, clean, result, got, rx, serverVars, due, disturbances>>

Receiving == RefuseHeader \/ ReceiveException \/ ReceiveAnswer \/ ClientHalts

-----------------------------------------------------------------------------
(* The server: nmbs_server_poll.                                           *)

Hears(s) == Len(s) >= 2
Known(s) == Hears(s) /\ ByteAt(s, 2) \in Functions
WholeRequest(s) == Known(s) /\ Arrived(s, RequestCount(ByteAt(s, 2)))
RequestOf(s) == SubSeq(s, 1, FrameLength(s, RequestCount(ByteAt(s, 2))))
Ignored(s) == ByteAt(s, 1) \notin {BROADCAST, OWN}

\* A function that does not exist: not another byte is read, and no exception
\* is sent.
SkipUnknown ==
  /\ listening = "request"
  /\ Hears(Bytes(ear)) /\ ~Known(Bytes(ear))
  /\ ear' = From(ear, 3)
  /\ UNCHANGED <<clientVars, listening, overheard, served, due, disturbances>>

\* A bad CRC.  Of a request to others, what is left on the line goes with it.
DropRequest ==
  /\ listening = "request" /\ WholeRequest(Bytes(ear))
  /\ LET s == RequestOf(Bytes(ear))
     IN  /\ ~RequestIntact(s)
         /\ ear' = IF Ignored(s) THEN <<>> ELSE From(ear, Len(s) + 1)
  /\ UNCHANGED <<clientVars, listening, overheard, served, due, disturbances>>

\* A request to others: their response is next on the line.
Ignore ==
  /\ listening = "request" /\ WholeRequest(Bytes(ear))
  /\ LET s == RequestOf(Bytes(ear))
     IN  /\ RequestIntact(s) /\ Ignored(s)
         /\ ear' = From(ear, Len(s) + 1)
         /\ overheard' = [unit |-> ByteAt(s, 1), fc |-> ByteAt(s, 2)]
         /\ listening' = "response"
  /\ UNCHANGED <<clientVars, served, due, disturbances>>

\* How many callbacks were made when a record is swapped at an odd address:
\* after each read, before every other write.
Faults(s) ==
  LET records == {i \in DOMAIN Handled(s).calls : Handled(s).calls[i].args[3] > 0}
  IN  CASE ByteAt(s, 2) = 20 -> records
        [] ByteAt(s, 2) = 21 -> {i - 1 : i \in {j \in records : j % 2 = 0}}
        [] ByteAt(s, 2) \notin {20, 21} -> {}

(* What can come of a request: it is refused before any callback, or all   *)
(* agree, or one refuses, with an exception or another error.              *)
Outcomes(s) ==
  LET h == Handled(s)
      all == Len(h.calls)
  IN  IF h.refusal # 0 THEN {[made |-> 0, code |-> h.refusal, halts |-> FALSE]}
      ELSE {[made |-> all, code |-> 0, halts |-> FALSE]}
           \cup [made : 1 .. all, code : {ILLEGAL_DATA_ADDRESS, SERVER_DEVICE_FAILURE},
                 halts : {FALSE}]
           \cup [made : Faults(s), code : {0}, halts : {TRUE}]

Serve ==
  /\ listening = "request" /\ WholeRequest(Bytes(ear))
  /\ LET s == RequestOf(Bytes(ear))
         n == ear[1].n
     IN  /\ RequestIntact(s) /\ ~Ignored(s)
         /\ ear' = From(ear, Len(s) + 1)
         /\ \E o \in Outcomes(s) :
              /\ served' = Append(served, [n |-> n, code |-> o.code,
                                           calls |-> SubSeq(Handled(s).calls, 1, o.made)])
              /\ listening' = IF o.halts THEN "halted" ELSE "request"
              /\ IF ~o.halts /\ (o.code # 0 \/ ByteAt(s, 1) # BROADCAST)
                 THEN LET frame == AnswerFrame(s, o.code)
                      IN  \E way \in Ways(frame) :
                            Counted(Cost(way)) /\ rx' = rx \o Tagged(Heard(frame, way), n)
                 ELSE UNCHANGED <<rx, disturbances>>
  /\ UNCHANGED <<pc, asked, result, got, clean, overheard, due>>

\* The form in which the server expects the response to a request it ignored.
OverheardCount(fc) == IF fc = 23 THEN 0 ELSE ResponseCount(fc)

\* How much of the line the response to another takes, 0 if more has to come.
OverheardLength(s) ==
  CASE ~Hears(s) -> 0
    [] Hears(s) /\ ByteAt(s, 1) = overheard.unit /\ ByteAt(s, 2) = overheard.fc ->
         IF Arrived(s, OverheardCount(overheard.fc))
         THEN FrameLength(s, OverheardCount(overheard.fc)) ELSE 0
    [] Hears(s) /\ ByteAt(s, 1) = overheard.unit /\ ByteAt(s, 2) = overheard.fc + EXCEPTION ->
         IF Len(s) >= 5 THEN 5 ELSE 0
    [] Hears(s) /\ (\/ ByteAt(s, 1) # overheard.unit
                    \/ ByteAt(s, 2) \notin {overheard.fc, overheard.fc + EXCEPTION}) -> 2

\* Whatever it was, the next message is taken for a request.
Overhear ==
  /\ listening = "response"
  /\ LET length == OverheardLength(Bytes(ear))
     IN  length > 0 /\ ear' = From(ear, length + 1)
  /\ listening' = "request"
  /\ UNCHANGED <<clientVars, overheard, served, due, disturbances>>

\* A record that is out of the buffer.
ServerHalts ==
  /\ listening = "response"
  /\ LET s == Bytes(ear)
     IN  /\ Hears(s) /\ ByteAt(s, 1) = overheard.unit /\ ByteAt(s, 2) = overheard.fc
         /\ Overruns(overheard.fc, s)
  /\ listening' = "halted"
  /\ UNCHANGED <<clientVars, ear, overheard, served, due, disturbances>>

Polling == SkipUnknown \/ DropRequest \/ Ignore \/ Serve \/ Overhear \/ ServerHalts

ServerBusy ==
  \/ listening = "request" /\ WholeRequest(Bytes(ear))
  \/ listening = "request" /\ Hears(Bytes(ear)) /\ ~Known(Bytes(ear))
  \/ listening = "response" /\ OverheardLength(Bytes(ear)) > 0

\* The rest of a message, or the response to another, does not come.
PollTimeOut ==
  /\ listening # "halted" /\ ~ServerBusy
  /\ ear # <<>> \/ listening = "response"
  /\ ear' = <<>> /\ listening' = "request"
  /\ UNCHANGED <<clientVars, overheard, served, due, disturbances>>

ClientBusy ==
  LET s == Bytes(rx)
  IN  /\ Len(s) >= 2
      /\ \/ ByteAt(s, 1) # call.unit
         \/ ByteAt(s, 2) \notin {call.fc, call.fc + EXCEPTION}
         \/ ByteAt(s, 2) = call.fc + EXCEPTION /\ Len(s) >= 5
         \/ OfCall(s) /\ AnswerArrived(s)

\* The answer does not come, or not in time.
ReadTimeOut ==
  /\ pc = "response" /\ ~ClientBusy
  /\ Counted(IF due = <<>> /\ ~ServerBusy THEN 0 ELSE 1)
  /\ pc' = "idle" /\ result' = "TIMEOUT" /\ rx' = <<>>
  /\ got' = IF OfCall(Bytes(rx)) THEN Stored(call, Bytes(rx)) ELSE NoData
  /\ UNCHANGED <<asked, clean, serverVars, due>>

\* The other device keeps to the protocol too; both others hear it.
Answer ==
  /\ due # <<>>
  /\ due' = Tail(due)
  /\ LET d == Head(due)
         refusal == IF Known(d.s) THEN Handled(d.s).refusal ELSE ILLEGAL_FUNCTION
     IN  \E code \in (IF refusal = 0 THEN {0, ILLEGAL_DATA_ADDRESS} ELSE {refusal}) :
           LET frame == AnswerFrame(d.s, code)
           IN  \E way, other \in Ways(frame) :
                 /\ Counted(Cost(way) + Cost(other))
                 /\ rx' = rx \o Tagged(Heard(frame, way), d.n)
                 /\ ear' = ear \o Tagged(Heard(frame, other), d.n)
  /\ UNCHANGED <<pc, asked, result, got, clean, listening, overheard, served>>

Silent ==
  /\ due # <<>> /\ due' = Tail(due)
  /\ UNCHANGED <<clientVars, serverVars, disturbances>>

Client == Receiving \/ ReadTimeOut
Server == Polling \/ PollTimeOut
Next == Invoke \/ Client \/ Server \/ Answer \/ Silent
Spec == Init /\ [][Next]_vars

-----------------------------------------------------------------------------
\* Type invariant: a message that waits to be read is not longer than what was
\* sent, and every callback belongs to a call.
TypeOK ==
  /\ pc \in {"idle", "response", "halted"} /\ clean \in BOOLEAN
  /\ listening \in {"request", "response", "halted"}
  /\ result \in {"NONE", "TIMEOUT", "CRC", "INVALID_UNIT_ID", "INVALID_RESPONSE",
                 "INVALID_ARGUMENT"} \cup Range(ExceptionName)
  /\ Len(asked) <= Len(Calls)
  /\ \A i \in DOMAIN rx : rx[i].n \in DOMAIN asked
  /\ \A i \in DOMAIN ear : ear[i].n \in DOMAIN asked
  /\ \A i \in DOMAIN served : served[i].n \in DOMAIN asked
  /\ disturbances \in 0 .. DISTURBANCES

\* The callbacks a call is to cause, said from its arguments.
Meant(c) ==
  CASE c.raw -> Handled(RequestFrame(c)).calls
    [] ~c.raw /\ c.fc \in Callbacks -> <<To(c.fc, c.args, c.data)>>
    [] ~c.raw /\ c.fc = 23 ->
         <<To(16, SubSeq(c.args, 3, 4), c.data), To(3, SubSeq(c.args, 1, 2), <<>>)>>
    [] ~c.raw /\ c.fc \notin Callbacks \cup {23} -> <<>>

\* What a call that succeeds is to return.
Held(c) ==
  CASE c.fc \in {1, 2} -> CoilsFrom(c.args[1], c.args[2])
    [] c.fc \in {3, 4, 23} -> RegistersFrom(c.args[1], c.args[2])
    [] c.fc = 20 -> RegistersFrom(c.args[2], c.args[3])
    [] c.fc \notin {1, 2, 3, 4, 20, 23} -> NoData

(* The callbacks are those of the requests that were sent to this server   *)
(* or to all, with the arguments the caller of the client gave, each       *)
(* request at most once and in the order they were made, whatever is lost  *)
(* or changed on the line and whatever the server overhears.               *)
ServedAsAsked ==
  /\ \A i \in DOMAIN served :
       LET c == asked[served[i].n]
       IN  /\ c.unit \in {OWN, BROADCAST}
           /\ IsPrefix(served[i].calls, Meant(c))
  /\ \A i, j \in DOMAIN served : i < j => served[i].n < served[j].n

Between == pc = "idle" /\ asked # <<>> /\ clean /\ call.unit = OWN /\ ~call.raw

(* What a call returns is what happened: success means that all callbacks  *)
(* of this very call were made and agreed, and that what was stored is     *)
(* what they gave; an exception is the one with which the server answered  *)
(* it.  This needs a line that is free when the call begins.               *)
ResultIsTrue ==
  Between /\ result \in {"NONE"} \cup Range(ExceptionName) =>
    \E i \in DOMAIN served :
      /\ served[i].n = Len(asked)
      /\ IF result = "NONE"
         THEN served[i].code = 0 /\ served[i].calls = Meant(call) /\ got = Held(call)
         ELSE ExceptionName[served[i].code] = result

(* Without disturbances the server takes every request that the client is  *)
(* willing to send: a call fails only because a callback refuses or is     *)
(* missing, or before anything is sent.                                    *)
FailsOnlyByCallback ==
  Between /\ disturbances = 0 /\ result # "NONE" =>
    LET own == {i \in DOMAIN served : served[i].n = Len(asked)}
    IN  IF result = "INVALID_ARGUMENT" THEN own = {}
        ELSE \E i \in own : IF call.fc \in Callbacks \cup {23} THEN served[i].calls # <<>>
                            ELSE result = "ILLEGAL_FUNCTION"
=============================================================================
