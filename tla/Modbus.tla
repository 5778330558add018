------------------------------- MODULE Modbus -------------------------------
(***************************************************************************)
(* The sensor line: ModbusRegister reads and writes one register of one    *)
(* device through the RTU client of nanomodbus and the byte queues of      *)
(* PicoOsUart.  Only the controller task uses the client.                  *)
(*                                                                         *)
(* The devices and the wire are the environment.  A device answers a       *)
(* request, refuses it, or is silent.  An answer that misses the time-out  *)
(* of 1 s, and a byte that is changed or lost, are disturbances; the wire  *)
(* carries one frame at a time, so two that collide are changed bytes.     *)
(*                                                                         *)
(* What a length above 2 makes the client store behind the caller's value  *)
(* is not modelled.                                                        *)
(***************************************************************************)
EXTENDS Integers, Sequences, ModbusFrame

CONSTANTS
  Requests,      \* [unit, fc, addr, value]: what the controller may ask for
  Words,         \* what the registers can hold
  RX_SIZE,       \* bytes the receive queue holds (256)
  MAX_DUE,       \* requests the devices can have heard and not answered
  DISTURBANCES,  \* bound on late answers and on changed and lost bytes
  TRANSACTIONS   \* bound on the transactions of a behaviour

READ_HOLDING == 3
READ_INPUT == 4
WRITE_SINGLE == 6
WORD_MAX == 65535   \* what a uint16_t can hold

Parameters ==
  /\ Requests \subseteq [unit : 1 .. 247, fc : {READ_HOLDING, READ_INPUT, WRITE_SINGLE},
                         addr : 0 .. WORD_MAX, value : 0 .. WORD_MAX]
  /\ RX_SIZE \in Nat /\ MAX_DUE \in Nat \ {0} /\ Words \subseteq 0 .. WORD_MAX
  /\ DISTURBANCES \in Nat /\ TRANSACTIONS \in Nat

VARIABLES
  pc,            \* what the client waits for, or "idle"
  msg,           \* the request of the transaction
  buf,           \* nmbs.msg.buf: what was received for it
  need,          \* registers_bytes of the answer
  value,         \* the caller's variable the answer is stored in
  err,           \* the result of the last transaction
  rx,            \* queue of PicoOsUart
  line,          \* bytes on the wire to the UART
  due,           \* requests that devices may still answer
  disturbances,  \* how many there were
  transactions   \* and how many transactions

clientVars == <<pc, msg, buf, need, value, err>>
wireVars == <<line, due>>
counters == <<disturbances, transactions>>
vars == <<clientVars, rx, wireVars, counters>>

-----------------------------------------------------------------------------
(* Frames.  Every byte carries, as history, the request it answers and     *)
(* whether that was still the current one.                                 *)

Data(r, word) == Frame(<<Plain(r.unit), Plain(r.fc), Plain(2)>> \o TwoBytes(word))
Echo(r) == Frame(<<Plain(r.unit), Plain(r.fc)>> \o TwoBytes(r.addr) \o TwoBytes(r.value))
Refusal(r, code) == Frame(<<Plain(r.unit), Plain(r.fc + EXCEPTION), Plain(code)>>)

Answers(r) ==
  {Refusal(r, 2)} \cup (IF r.fc = WRITE_SINGLE THEN {Echo(r)} ELSE {Data(r, w) : w \in Words})

Marked(bytes, d) ==
  [i \in DOMAIN bytes |-> [byte |-> bytes[i], to |-> d.request, fresh |-> d.fresh]]
Aged(items) == [i \in DOMAIN items |-> [items[i] EXCEPT !.fresh = FALSE]]
Without(items, i) == SubSeq(items, 1, i - 1) \o SubSeq(items, i + 1, Len(items))

Number(b) == NumberOf(b.byte)
Word(hi, lo) == 256 * Number(hi) + Number(lo)
Bytes(marked) == [i \in DOMAIN marked |-> marked[i].byte]

Init ==
  /\ pc = "idle"
  /\ msg \in Requests
  /\ buf = <<>> /\ need = 0 /\ value = 0
  /\ err = "NONE"
  /\ rx = <<>> /\ line = <<>> /\ due = <<>>
  /\ disturbances = 0 /\ transactions = 0

-----------------------------------------------------------------------------
(* The client.                                                             *)

\* The caller's variable is 0 before a read.  Slip: it is a member.
ClearedOnce == value
Cleared == 0

\* ModbusRegister::read or write, up to the sent request.  The eight bytes fit
\* into the transmit queue.  What was under way belongs to an earlier request.
Request(r) ==
  /\ pc = "idle"
  /\ transactions < TRANSACTIONS /\ transactions' = transactions + 1
  /\ pc' = "unit"
  /\ msg' = r
  /\ buf' = <<>> /\ need' = 0 /\ value' = Cleared
  /\ rx' = Aged(rx) /\ line' = Aged(line)
  /\ due' = IF Len(due) < MAX_DUE
            THEN Append(Aged(due), [request |-> r, fresh |-> TRUE]) ELSE Aged(due)
  /\ err' = "NONE"
  /\ UNCHANGED disturbances

\* recv: the next n bytes, once they are there.
Receive(n) ==
  /\ Len(rx) >= n
  /\ buf' = buf \o SubSeq(rx, 1, n)
  /\ rx' = SubSeq(rx, n + 1, Len(rx))
  /\ UNCHANGED <<msg, wireVars, counters>>

Go(place) == pc' = place /\ UNCHANGED err
End(result) == pc' = "idle" /\ err' = result

ReceiveUnit ==
  /\ pc = "unit"
  /\ Receive(1)
  /\ Go("fc")
  /\ UNCHANGED <<need, value>>

\* The whole header is there: is it an answer to this request?
ReceiveFunction ==
  /\ pc = "fc"
  /\ Receive(1)
  /\ LET unit == Number(buf'[1])
         fc == Number(buf'[2])
     IN  \/ unit # msg.unit /\ End("INVALID_UNIT_ID")
         \/ unit = msg.unit /\ fc = msg.fc /\ Go(IF fc = WRITE_SINGLE THEN "echo" ELSE "length")
         \/ unit = msg.unit /\ fc - EXCEPTION = msg.fc /\ Go("code")
         \/ unit = msg.unit /\ fc \notin {msg.fc, msg.fc + EXCEPTION} /\ End("INVALID_RESPONSE")
  /\ UNCHANGED <<need, value>>

ReceiveCode ==
  /\ pc = "code"
  /\ Receive(1)
  /\ Go("footer")
  /\ UNCHANGED <<need, value>>

ReceiveLength ==
  /\ pc = "length"
  /\ Receive(1)
  /\ need' = Number(buf'[3])
  /\ Go("registers")
  /\ UNCHANGED value

\* The first register is stored before anything is checked.
ReceiveRegisters ==
  /\ pc = "registers"
  /\ Receive(need)
  /\ value' = IF need >= 2 THEN Word(buf'[4], buf'[5]) ELSE value
  /\ Go("footer")
  /\ UNCHANGED need

ReceiveEcho ==
  /\ pc = "echo"
  /\ Receive(4)
  /\ Go("footer")
  /\ UNCHANGED <<need, value>>

\* What the checks behind the CRC make of an answer.
Verdict(answer) ==
  CASE Number(answer[2]) # msg.fc ->
         IF Number(answer[3]) \in 1 .. 4 THEN "EXCEPTION" ELSE "INVALID_RESPONSE"
    [] Number(answer[2]) = msg.fc /\ msg.fc = WRITE_SINGLE ->
         IF /\ Word(answer[3], answer[4]) = msg.addr
            /\ Word(answer[5], answer[6]) = msg.value
         THEN "NONE" ELSE "INVALID_RESPONSE"
    [] Number(answer[2]) = msg.fc /\ msg.fc # WRITE_SINGLE ->
         IF need = 2 THEN "NONE" ELSE "INVALID_RESPONSE"

ReceiveFooter ==
  /\ pc = "footer"
  /\ Receive(2)
  /\ End(IF CrcMatches(Bytes(buf')) THEN Verdict(buf') ELSE "CRC")
  /\ UNCHANGED <<need, value>>

\* How many bytes recv was called for.
Wanted ==
  CASE pc \in {"unit", "fc", "code", "length"} -> 1
    [] pc = "registers" -> need
    [] pc = "echo" -> 4
    [] pc = "footer" -> 2
    [] pc = "idle" -> 0

OwnAnswerPending == \E i \in DOMAIN due : due[i].fresh

TimeOutIn == pc # "idle"

(* Nothing comes for 1 s, or in the middle of an answer for some byte      *)
(* times: whatever came of the bytes is taken and gone.  The bytes of a    *)
(* frame follow one another faster than that.                              *)
TimeOut ==
  /\ TimeOutIn
  /\ Len(rx) < Wanted
  /\ \/ line = <<>> /\ (pc = "unit" => ~OwnAnswerPending) /\ UNCHANGED disturbances
     \/ /\ pc = "unit" /\ (OwnAnswerPending \/ line # <<>>)
        /\ disturbances < DISTURBANCES /\ disturbances' = disturbances + 1
  /\ buf' = buf \o rx
  /\ rx' = <<>>
  /\ End("TIMEOUT")
  /\ UNCHANGED <<msg, need, value, wireVars, transactions>>

Client ==
  \/ ReceiveUnit \/ ReceiveFunction \/ ReceiveCode \/ ReceiveLength
  \/ ReceiveRegisters \/ ReceiveEcho \/ ReceiveFooter \/ TimeOut

-----------------------------------------------------------------------------
(* The devices, the wire and the receive interrupt.                        *)

Answer ==
  /\ line = <<>>
  /\ \E i \in DOMAIN due :
       /\ \E bytes \in Answers(due[i].request) : line' = Marked(bytes, due[i])
       /\ due' = Without(due, i)
  /\ UNCHANGED <<clientVars, rx, counters>>

\* The device is not there, or has not understood.
Silent ==
  /\ \E i \in DOMAIN due : due' = Without(due, i)
  /\ UNCHANGED <<clientVars, rx, line, counters>>

\* Slip: the queue is taken to have room.
RoomAssumed == TRUE
Room == Len(rx) < RX_SIZE

\* uart_irq_rx: a byte that finds the queue full is dropped.
Deliver ==
  /\ line # <<>>
  /\ line' = Tail(line)
  /\ rx' = IF Room THEN Append(rx, Head(line)) ELSE rx
  /\ UNCHANGED <<clientVars, due, counters>>

Disturb ==
  /\ line # <<>>
  /\ disturbances < DISTURBANCES /\ disturbances' = disturbances + 1
  /\ line' \in {Tail(line), [line EXCEPT ![1].byte = Plain(NOISE)]}
  /\ UNCHANGED <<clientVars, rx, due, transactions>>

Next ==
  \/ \E r \in Requests : Request(r)
  \/ Client
  \/ Answer \/ Silent \/ Deliver \/ Disturb

Spec == Init /\ [][Next]_vars

(* The task is scheduled, its time-outs fire, interrupts are served, and a *)
(* device answers or it does not.                                          *)
Fairness ==
  /\ WF_vars(Client)
  /\ WF_vars(Deliver)
  /\ WF_vars(Answer \/ Silent)

FairSpec == Spec /\ Fairness

-----------------------------------------------------------------------------
\* Type invariant: no queue is longer than it can be, and no transaction ends
\* with a result that is none.
TypeOK ==
  /\ pc \in {"idle", "unit", "fc", "code", "length", "registers", "echo", "footer"}
  /\ msg \in Requests
  /\ need \in 0 .. NOISE /\ value \in 0 .. WORD_MAX
  /\ err \in {"NONE", "TIMEOUT", "CRC", "INVALID_UNIT_ID", "INVALID_RESPONSE", "EXCEPTION"}
  /\ Len(rx) <= RX_SIZE
  /\ Len(due) <= MAX_DUE
  /\ \A i \in DOMAIN due : due[i].request \in Requests
  /\ disturbances \in 0 .. DISTURBANCES /\ transactions \in 0 .. TRANSACTIONS

\* Between two transactions.
Idle == pc = "idle"

(* Every answer is taken off the line to its last byte, refusals and       *)
(* silent devices included: without disturbances nothing is left over      *)
(* between two transactions for the next one to read.                      *)
NothingLeftOver == Idle /\ disturbances = 0 => rx = <<>> /\ line = <<>> /\ due = <<>>

(* Without disturbances ModbusRegister::read returns what the asked device *)
(* said to this very request, and 0, "uint16_t value = 0", if it did not.  *)
ReadsCurrent ==
  Idle /\ disturbances = 0 =>
    IF err = "NONE" THEN \A i \in DOMAIN buf : buf[i].fresh /\ buf[i].to = msg
    ELSE value = 0

(* Whatever is lost, changed, late or left over: an answer that is         *)
(* accepted reads as a whole answer of the addressed device to a request   *)
(* of the same function, and ends with the checksum of that very answer.   *)
AcceptedWhole ==
  Idle /\ err = "NONE" /\ buf # <<>> =>
    \E r \in Requests :
      /\ r.unit = msg.unit /\ r.fc = msg.fc
      /\ Bytes(buf) \in Answers(r)
      /\ buf[Len(buf)].to = r

(* It takes many losses to put it together from parts: the head of one     *)
(* answer, the rest of which is lost, and the rest of another of which the *)
(* head is lost.  One disturbance is not enough.                           *)
NotFromParts ==
  Idle /\ err = "NONE" /\ disturbances <= 1 =>
    \A i \in DOMAIN buf : buf[i].to = buf[Len(buf)].to

(* "Send a FC 03 Read Holding Registers request", starting at the address, *)
(* "NMBS_ERROR_NONE if successful": what is stored is the register that    *)
(* was asked for.  An answer that missed the time-out is still in the      *)
(* queue when the next request is sent, and is taken for its answer.       *)
AnswersAsked == Idle /\ err = "NONE" => \A i \in DOMAIN buf : buf[i].to = msg
=============================================================================
