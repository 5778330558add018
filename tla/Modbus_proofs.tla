---------------------------- MODULE Modbus_proofs ----------------------------
(***************************************************************************)
(* What holds of the sensor line for any requests, words, lengths of the   *)
(* receive queue and disturbances: without disturbances a transaction      *)
(* leaves nothing behind and returns what was said to its request, and     *)
(* with any number of them an answer that is accepted is one that some     *)
(* device gave.                                                            *)
(***************************************************************************)
EXTENDS Modbus, SequenceTheorems, TLAPS

(* An answer without its checksum.                                         *)
RefusalBody(r) == <<Plain(r.unit), Plain(r.fc + EXCEPTION), Plain(2)>>
DataBody(r, word) == <<Plain(r.unit), Plain(r.fc), Plain(2)>> \o TwoBytes(word)
EchoBody(r) == <<Plain(r.unit), Plain(r.fc)>> \o TwoBytes(r.addr) \o TwoBytes(r.value)
Bodies(r) ==
  {RefusalBody(r)} \cup (IF r.fc = WRITE_SINGLE THEN {EchoBody(r)} ELSE {DataBody(r, w) : w \in Words})

(* What can come over the line: numbers, and the bytes of a checksum, which *)
(* belong to an answer to the request they are marked with.                *)
Numerals == {<<n>> : n \in 0 .. 255}
Checks(r) == {<<k, body>> : k \in {1, 2}, body \in Bodies(r)}
Items ==
  {x \in [byte : Numerals \cup UNION {Checks(r) : r \in Requests}, to : Requests, fresh : BOOLEAN] :
     x.byte \in Numerals \cup Checks(x.to)}
Heard == [request : Requests, fresh : BOOLEAN]

LineTyped ==
  /\ pc \in {"idle", "unit", "fc", "code", "length", "registers", "echo", "footer"}
  /\ msg \in Requests
  /\ need \in 0 .. NOISE /\ value \in 0 .. WORD_MAX
  /\ err \in {"NONE", "TIMEOUT", "CRC", "INVALID_UNIT_ID", "INVALID_RESPONSE", "EXCEPTION"}
  /\ buf \in Seq(Items) /\ rx \in Seq(Items) /\ line \in Seq(Items) /\ due \in Seq(Heard)
  /\ Len(rx) <= RX_SIZE /\ Len(due) <= MAX_DUE
  /\ disturbances \in 0 .. DISTURBANCES /\ transactions \in 0 .. TRANSACTIONS

(* Behind the header the unit has been compared.                           *)
HeaderRead ==
  /\ pc = "unit" => buf = <<>>
  /\ pc = "fc" => Len(buf) = 1
  /\ pc \in {"code", "length", "echo"} => Len(buf) = 2
  /\ pc = "registers" => Len(buf) = 3
  /\ pc \in {"echo", "code", "length", "registers", "footer"} =>
       Len(buf) >= 2 /\ Number(buf[1]) = msg.unit

(* Without disturbances: what the transaction has read, what is in the     *)
(* queue and what is on the line are, in this order, one answer to it.     *)
At(a, i) == [byte |-> a[i], to |-> msg, fresh |-> TRUE]
Follows(s, from, a) == \A i \in 1 .. Len(s) : s[i] = At(a, from + i)
Stream(a) ==
  /\ Len(buf) + Len(rx) + Len(line) = Len(a)
  /\ Follows(buf, 0, a) /\ Follows(rx, Len(buf), a) /\ Follows(line, Len(buf) + Len(rx), a)

Place(body) ==
  /\ pc = "code" => body = RefusalBody(msg)
  /\ pc \in {"length", "registers"} => msg.fc # WRITE_SINGLE /\ body # RefusalBody(msg)
  /\ pc = "registers" => need = 2
  /\ pc = "echo" => msg.fc = WRITE_SINGLE /\ body # RefusalBody(msg)
  /\ pc = "footer" => Len(buf) = Len(body)
  /\ pc = "footer" /\ body # RefusalBody(msg) /\ msg.fc # WRITE_SINGLE => need = 2
  /\ value = 0 \/ (pc = "footer" /\ body # RefusalBody(msg) /\ msg.fc # WRITE_SINGLE)

Unanswered ==
  /\ pc = "unit" /\ buf = <<>> /\ rx = <<>> /\ line = <<>> /\ value = 0
  /\ due = <<>> \/ due = <<[request |-> msg, fresh |-> TRUE]>>

(* While the answer is read the client goes on to its end.                 *)
Reading(body) == pc # "idle" /\ due = <<>> /\ Stream(Frame(body)) /\ Place(body)
Over == Idle /\ NothingLeftOver /\ ReadsCurrent

Undisturbed == disturbances = 0 => Over \/ Unanswered \/ \E body \in Bodies(msg) : Reading(body)

LineInv == LineTyped /\ HeaderRead /\ AcceptedWhole /\ Undisturbed

-----------------------------------------------------------------------------
(* Bytes and frames.                                                       *)

LEMMA PlainIsNumeral ==
  ASSUME NEW n \in Nat
  PROVE  Plain(n) \in Numerals /\ Plain(n) = <<n % 256>> /\ n % 256 \in 0 .. 255
         /\ (n \in 0 .. 255 => n % 256 = n)
<1>1. n % 256 \in 0 .. 255 /\ (n \in 0 .. 255 => n % 256 = n)
  OBVIOUS
<1> QED BY <1>1 DEF Plain, Numerals

LEMMA WordOfBytes ==
  ASSUME NEW word \in 0 .. WORD_MAX
  PROVE  /\ word \div 256 \in Nat /\ (word \div 256) % 256 = word \div 256
         /\ 256 * (word \div 256) + (word % 256) = word
<1>1. word \in Nat /\ word <= 65535
  BY DEF WORD_MAX
<1> QED BY <1>1

LEMMA ThreeBytes ==
  ASSUME NEW S, NEW a \in S, NEW b \in S, NEW c \in S
  PROVE  /\ <<a, b, c>> \in Seq(S) /\ Len(<<a, b, c>>) = 3
         /\ <<a, b, c>>[1] = a /\ <<a, b, c>>[2] = b /\ <<a, b, c>>[3] = c
OBVIOUS

LEMMA FiveBytes ==
  ASSUME NEW S, NEW a \in S, NEW b \in S, NEW c \in S, NEW d \in S, NEW e \in S,
         NEW s, s = <<a, b, c>> \o <<d, e>>
  PROVE  s \in Seq(S) /\ Len(s) = 5 /\ s[1] = a /\ s[2] = b /\ s[3] = c
<1>1. <<d, e>> \in Seq(S) /\ Len(<<d, e>>) = 2
  OBVIOUS
<1>2. <<a, b, c>> \in Seq(S) /\ Len(<<a, b, c>>) = 3
  OBVIOUS
<1>3. /\ s \in Seq(S) /\ Len(s) = Len(<<a, b, c>>) + Len(<<d, e>>)
      /\ \A i \in 1 .. Len(<<a, b, c>>) + Len(<<d, e>>) :
           s[i] = IF i <= Len(<<a, b, c>>) THEN <<a, b, c>>[i] ELSE <<d, e>>[i - Len(<<a, b, c>>)]
  BY <1>1, <1>2, ConcatProperties
<1>4. s[1] = <<a, b, c>>[1] /\ s[2] = <<a, b, c>>[2] /\ s[3] = <<a, b, c>>[3]
  BY <1>1, <1>2, <1>3
<1> QED BY <1>1, <1>2, <1>3, <1>4

LEMMA SixBytes ==
  ASSUME NEW S, NEW a \in S, NEW b \in S, NEW c \in S, NEW d \in S, NEW e \in S, NEW f \in S,
         NEW s, s = <<a, b>> \o <<c, d>> \o <<e, f>>
  PROVE  /\ s \in Seq(S) /\ Len(s) = 6 /\ s[1] = a /\ s[2] = b
         /\ s[3] = c /\ s[4] = d /\ s[5] = e /\ s[6] = f
<1> DEFINE t == <<a, b>> \o <<c, d>>
<1>1. /\ <<a, b>> \in Seq(S) /\ <<c, d>> \in Seq(S) /\ <<e, f>> \in Seq(S)
      /\ Len(<<a, b>>) = 2 /\ Len(<<c, d>>) = 2 /\ Len(<<e, f>>) = 2
  OBVIOUS
<1>2. t \in Seq(S) /\ Len(t) = 4 /\ t[1] = a /\ t[2] = b /\ t[3] = c /\ t[4] = d
  <2>1. /\ t \in Seq(S) /\ Len(t) = Len(<<a, b>>) + Len(<<c, d>>)
        /\ \A i \in 1 .. Len(<<a, b>>) + Len(<<c, d>>) :
             t[i] = IF i <= Len(<<a, b>>) THEN <<a, b>>[i] ELSE <<c, d>>[i - Len(<<a, b>>)]
    BY <1>1, ConcatProperties
  <2> HIDE DEF t
  <2>2. t[1] = <<a, b>>[1] /\ t[2] = <<a, b>>[2] /\ t[3] = <<c, d>>[1] /\ t[4] = <<c, d>>[2]
    BY <1>1, <2>1
  <2> QED BY <1>1, <2>1, <2>2
<1>3. /\ s \in Seq(S) /\ Len(s) = Len(t) + Len(<<e, f>>)
      /\ \A i \in 1 .. Len(t) + Len(<<e, f>>) :
           s[i] = IF i <= Len(t) THEN t[i] ELSE <<e, f>>[i - Len(t)]
  <2> HIDE DEF t
  <2>1. s = t \o <<e, f>>
    BY DEF t
  <2> QED BY <1>1, <1>2, <2>1, ConcatProperties
<1> HIDE DEF t
<1>4. /\ s[1] = t[1] /\ s[2] = t[2] /\ s[3] = t[3] /\ s[4] = t[4]
      /\ s[5] = <<e, f>>[1] /\ s[6] = <<e, f>>[2]
  BY <1>1, <1>2, <1>3
<1> QED BY <1>1, <1>2, <1>3, <1>4

LEMMA RequestTyped ==
  ASSUME Parameters, NEW r \in Requests
  PROVE  /\ r.unit \in 1 .. 247 /\ r.fc \in {3, 4, 6}
         /\ r.addr \in 0 .. WORD_MAX /\ r.value \in 0 .. WORD_MAX
<1>1. r \in [unit : 1 .. 247, fc : {READ_HOLDING, READ_INPUT, WRITE_SINGLE},
             addr : 0 .. WORD_MAX, value : 0 .. WORD_MAX]
  BY DEF Parameters
<1> QED BY <1>1 DEF READ_HOLDING, READ_INPUT, WRITE_SINGLE

(* The bodies of the three answers, byte by byte.                          *)
BodyOf(r, body) ==
  /\ body \in Seq(Numerals) /\ Len(body) \in {3, 5, 6} /\ body[1] = Plain(r.unit)
  /\ body = RefusalBody(r) =>
       Len(body) = 3 /\ body[2] = Plain(r.fc + EXCEPTION) /\ body[3] = Plain(2)
  /\ body # RefusalBody(r) => body[2] = Plain(r.fc)
  /\ body # RefusalBody(r) /\ r.fc # WRITE_SINGLE => Len(body) = 5 /\ body[3] = Plain(2)
  /\ body # RefusalBody(r) /\ r.fc = WRITE_SINGLE =>
       /\ Len(body) = 6
       /\ body[3] = Plain(r.addr \div 256) /\ body[4] = Plain(r.addr)
       /\ body[5] = Plain(r.value \div 256) /\ body[6] = Plain(r.value)

LEMMA BodyTyped ==
  ASSUME Parameters, NEW r \in Requests, NEW body \in Bodies(r)
  PROVE  BodyOf(r, body)
<1>1. /\ r.unit \in Nat /\ r.fc \in Nat /\ r.fc + EXCEPTION \in Nat
      /\ r.addr \in 0 .. WORD_MAX /\ r.value \in 0 .. WORD_MAX /\ 2 \in Nat
  BY RequestTyped DEF EXCEPTION
<1>2. /\ Plain(r.unit) \in Numerals /\ Plain(r.fc) \in Numerals /\ Plain(2) \in Numerals
      /\ Plain(r.fc + EXCEPTION) \in Numerals
  BY <1>1, PlainIsNumeral
<1>3. \A w \in 0 .. WORD_MAX : Plain(w \div 256) \in Numerals /\ Plain(w) \in Numerals
  <2> TAKE w \in 0 .. WORD_MAX
  <2>1. w \div 256 \in Nat /\ w \in Nat
    BY WordOfBytes DEF WORD_MAX
  <2> QED BY <2>1, PlainIsNumeral
<1>4. CASE body = RefusalBody(r)
  <2>1. body = <<Plain(r.unit), Plain(r.fc + EXCEPTION), Plain(2)>>
    BY <1>4 DEF RefusalBody
  <2> QED BY <1>2, <1>4, <2>1, ThreeBytes DEF BodyOf
<1>5. CASE body # RefusalBody(r) /\ r.fc # WRITE_SINGLE
  <2>1. PICK w \in Words : body = DataBody(r, w)
    BY <1>5 DEF Bodies
  <2>2. w \in 0 .. WORD_MAX
    BY <2>1 DEF Parameters
  <2>3. body = <<Plain(r.unit), Plain(r.fc), Plain(2)>> \o <<Plain(w \div 256), Plain(w)>>
    BY <2>1 DEF DataBody, TwoBytes
  <2>4. /\ body \in Seq(Numerals) /\ Len(body) = 5
        /\ body[1] = Plain(r.unit) /\ body[2] = Plain(r.fc) /\ body[3] = Plain(2)
    <3>1. Plain(w \div 256) \in Numerals /\ Plain(w) \in Numerals
      BY <1>3, <2>2
    <3> QED BY <1>2, <2>3, <3>1, FiveBytes
  <2> QED BY <1>5, <2>4 DEF BodyOf
<1>6. CASE body # RefusalBody(r) /\ r.fc = WRITE_SINGLE
  <2>1. body = EchoBody(r)
    BY <1>6 DEF Bodies
  <2>2. body = <<Plain(r.unit), Plain(r.fc)>> \o <<Plain(r.addr \div 256), Plain(r.addr)>>
                 \o <<Plain(r.value \div 256), Plain(r.value)>>
    BY <2>1 DEF EchoBody, TwoBytes
  <2>3. /\ body \in Seq(Numerals) /\ Len(body) = 6
        /\ body[1] = Plain(r.unit) /\ body[2] = Plain(r.fc)
        /\ body[3] = Plain(r.addr \div 256) /\ body[4] = Plain(r.addr)
        /\ body[5] = Plain(r.value \div 256) /\ body[6] = Plain(r.value)
    <3>1. /\ Plain(r.addr \div 256) \in Numerals /\ Plain(r.addr) \in Numerals
          /\ Plain(r.value \div 256) \in Numerals /\ Plain(r.value) \in Numerals
      BY <1>1, <1>3
    <3> QED BY <1>2, <2>2, <3>1, SixBytes
  <2> QED BY <1>6, <2>3 DEF BodyOf
<1> QED BY <1>4, <1>5, <1>6

LEMMA AnswersAreFrames ==
  ASSUME NEW r
  PROVE  Answers(r) = {Frame(body) : body \in Bodies(r)}
BY DEF Answers, Bodies, Refusal, Echo, Data, RefusalBody, EchoBody, DataBody

LEMMA FrameShape ==
  ASSUME Parameters, NEW r \in Requests, NEW body \in Bodies(r)
  PROVE  /\ Frame(body) \in Seq(Numerals \cup Checks(r)) /\ Len(Frame(body)) = Len(body) + 2
         /\ \A i \in 1 .. Len(body) : Frame(body)[i] = body[i]
         /\ Frame(body)[Len(body) + 1] = <<1, body>> /\ Frame(body)[Len(body) + 2] = <<2, body>>
<1> DEFINE S == Numerals \cup Checks(r)
<1>1. body \in Seq(Numerals) /\ Len(body) \in Nat
  BY BodyTyped DEF BodyOf
<1>2. body \in Seq(S)
  BY <1>1, SeqMonotonic
<1>3. <<1, body>> \in S /\ <<2, body>> \in S
  BY DEF Checks
<1>4. Crc(body) \in Seq(S) /\ Len(Crc(body)) = 2 /\ Crc(body)[1] = <<1, body>> /\ Crc(body)[2] = <<2, body>>
  BY <1>3 DEF Crc
<1>5. /\ body \o Crc(body) \in Seq(S) /\ Len(body \o Crc(body)) = Len(body) + Len(Crc(body))
      /\ \A i \in 1 .. Len(body) + Len(Crc(body)) : (body \o Crc(body))[i] =
            IF i <= Len(body) THEN body[i] ELSE Crc(body)[i - Len(body)]
  BY <1>2, <1>4, ConcatProperties
<1> QED BY <1>1, <1>4, <1>5 DEF Frame

LEMMA NumbersTyped ==
  ASSUME NEW x \in Items
  PROVE  /\ Number(x) \in 0 .. NOISE
         /\ \A n \in Nat : x.byte = Plain(n) => Number(x) = n % 256
<1>1. CASE x.byte \in Numerals
  <2>1. PICK m \in 0 .. 255 : x.byte = <<m>>
    BY <1>1 DEF Numerals
  <2>2. Len(x.byte) = 1 /\ x.byte[1] = m
    BY <2>1
  <2>3. ASSUME NEW n \in Nat, x.byte = Plain(n)
        PROVE  m = n % 256
    BY <2>1, <2>3, PlainIsNumeral
  <2> QED BY <2>2, <2>3 DEF Number, NumberOf, NOISE
<1>2. CASE x.byte \in Checks(x.to)
  <2>1. PICK k \in {1, 2}, body \in Bodies(x.to) : x.byte = <<k, body>>
    BY <1>2 DEF Checks
  <2>2. Len(x.byte) = 2
    BY <2>1
  <2>3. ASSUME NEW n \in Nat, x.byte = Plain(n)
        PROVE  FALSE
    <3>1. Len(x.byte) = 1
      BY <2>3, PlainIsNumeral
    <3> QED BY <2>2, <3>1
  <2> QED BY <2>2, <2>3 DEF Number, NumberOf, NOISE
<1> QED BY <1>1, <1>2 DEF Items
-----------------------------------------------------------------------------
(* What recv() takes from the queue stands behind what was there.          *)
LEMMA ReceiveMoves ==
  ASSUME buf \in Seq(Items), rx \in Seq(Items), NEW n \in Nat, Receive(n)
  PROVE  /\ n <= Len(rx) /\ UNCHANGED <<msg, line, due, disturbances, transactions>>
         /\ buf' \in Seq(Items) /\ Len(buf') = Len(buf) + n
         /\ rx' \in Seq(Items) /\ Len(rx') = Len(rx) - n
         /\ \A i \in 1 .. Len(buf) : buf'[i] = buf[i]
         /\ \A i \in 1 .. n : buf'[Len(buf) + i] = rx[i]
         /\ \A i \in 1 .. Len(rx) - n : rx'[i] = rx[n + i]
<1> DEFINE taken == SubSeq(rx, 1, n)
           rest == SubSeq(rx, n + 1, Len(rx))
<1>1. n <= Len(rx) /\ buf' = buf \o taken /\ rx' = rest /\ UNCHANGED <<msg, line, due, disturbances, transactions>>
  BY DEF Receive, wireVars, counters
<1>2. Len(rx) \in Nat /\ Len(buf) \in Nat /\ \A i \in 1 .. Len(rx) : rx[i] \in Items
  BY LenProperties, ElementOfSeq
<1>3. taken \in Seq(Items) /\ Len(taken) = n /\ \A i \in 1 .. n : taken[i] = rx[i]
  <2>1. /\ taken \in Seq(Items) /\ Len(taken) = IF 1 <= n THEN n - 1 + 1 ELSE 0
        /\ \A i \in 1 .. n - 1 + 1 : taken[i] = rx[1 + i - 1]
    BY <1>1, <1>2, SubSeqProperties
  <2> HIDE DEF taken
  <2> QED BY <2>1
<1>4. rest \in Seq(Items) /\ Len(rest) = Len(rx) - n /\ \A i \in 1 .. Len(rx) - n : rest[i] = rx[n + i]
  <2>1. /\ rest \in Seq(Items) /\ Len(rest) = IF n + 1 <= Len(rx) THEN Len(rx) - (n + 1) + 1 ELSE 0
        /\ \A i \in 1 .. Len(rx) - (n + 1) + 1 : rest[i] = rx[n + 1 + i - 1]
    BY <1>1, <1>2, SubSeqProperties
  <2> HIDE DEF rest
  <2> QED BY <1>1, <1>2, <2>1
<1> HIDE DEF taken, rest
<1>5. /\ buf \o taken \in Seq(Items) /\ Len(buf \o taken) = Len(buf) + Len(taken)
      /\ \A i \in 1 .. Len(buf) + Len(taken) :
           (buf \o taken)[i] = IF i <= Len(buf) THEN buf[i] ELSE taken[i - Len(buf)]
  BY <1>3, ConcatProperties
<1>6. \A i \in 1 .. n : buf'[Len(buf) + i] = rx[i]
  BY <1>1, <1>2, <1>3, <1>5
<1> QED BY <1>1, <1>2, <1>3, <1>4, <1>5, <1>6

(* A byte that is delivered goes to the end of the queue, or is dropped.   *)
LEMMA DeliverMoves ==
  ASSUME rx \in Seq(Items), line \in Seq(Items), line # <<>>
  PROVE  /\ Head(line) \in Items /\ Head(line) = line[1]
         /\ Tail(line) \in Seq(Items) /\ Len(Tail(line)) = Len(line) - 1 /\ Len(line) \in Nat \ {0}
         /\ \A i \in 1 .. Len(line) - 1 : Tail(line)[i] = line[i + 1]
         /\ Append(rx, Head(line)) \in Seq(Items) /\ Len(Append(rx, Head(line))) = Len(rx) + 1
         /\ \A i \in 1 .. Len(rx) : Append(rx, Head(line))[i] = rx[i]
         /\ Append(rx, Head(line))[Len(rx) + 1] = Head(line)
<1>1. /\ Head(line) \in Items /\ Tail(line) \in Seq(Items) /\ Len(Tail(line)) = Len(line) - 1
      /\ \A i \in 1 .. Len(Tail(line)) : Tail(line)[i] = line[i + 1]
  BY HeadTailProperties
<1>2. Len(line) \in Nat \ {0} /\ Head(line) = line[1]
  BY EmptySeq
<1> QED BY <1>1, <1>2, AppendProperties

LEMMA AgedTyped ==
  ASSUME NEW s, s \in Seq(Items) \/ s \in Seq(Heard)
  PROVE  /\ s \in Seq(Items) => Aged(s) \in Seq(Items)
         /\ s \in Seq(Heard) => Aged(s) \in Seq(Heard)
         /\ Len(Aged(s)) = Len(s) /\ (s = <<>> => Aged(s) = <<>>)
<1>1. ASSUME NEW S, s \in Seq(S), \A x \in S : [x EXCEPT !.fresh = FALSE] \in S
      PROVE  Aged(s) \in Seq(S) /\ Len(Aged(s)) = Len(s) /\ (s = <<>> => Aged(s) = <<>>)
  <2>1. DOMAIN s = 1 .. Len(s) /\ Len(s) \in Nat /\ \A i \in 1 .. Len(s) : s[i] \in S
    BY <1>1, LenProperties, ElementOfSeq
  <2>2. Aged(s) \in [1 .. Len(s) -> S]
    BY <1>1, <2>1 DEF Aged
  <2>3. Aged(s) \in Seq(S)
    BY <2>1, <2>2, SeqDef
  <2>4. Len(Aged(s)) = Len(s)
    BY <2>1, <2>2, <2>3, LenProperties
  <2> QED BY <2>3, <2>4, EmptySeq, <1>1
<1>2. \A x \in Items : [x EXCEPT !.fresh = FALSE] \in Items
  BY DEF Items
<1>3. \A x \in Heard : [x EXCEPT !.fresh = FALSE] \in Heard
  BY DEF Heard
<1> QED BY <1>1, <1>2, <1>3

LEMMA WithoutTyped ==
  ASSUME due \in Seq(Heard), NEW i \in DOMAIN due
  PROVE  /\ due[i] \in Heard
         /\ Without(due, i) \in Seq(Heard) /\ Len(Without(due, i)) = Len(due) - 1
         /\ Len(due) = 1 => Without(due, i) = <<>>
<1>1. DOMAIN due = 1 .. Len(due) /\ Len(due) \in Nat /\ i \in 1 .. Len(due)
      /\ \A k \in 1 .. Len(due) : due[k] \in Heard
  BY LenProperties, ElementOfSeq
<1>2. SubSeq(due, 1, i - 1) \in Seq(Heard) /\ Len(SubSeq(due, 1, i - 1)) = i - 1
  <2>1. /\ SubSeq(due, 1, i - 1) \in Seq(Heard)
        /\ Len(SubSeq(due, 1, i - 1)) = IF 1 <= i - 1 THEN i - 1 - 1 + 1 ELSE 0
    BY <1>1, SubSeqProperties
  <2> QED BY <1>1, <2>1
<1>3. SubSeq(due, i + 1, Len(due)) \in Seq(Heard) /\ Len(SubSeq(due, i + 1, Len(due))) = Len(due) - i
  <2>1. /\ SubSeq(due, i + 1, Len(due)) \in Seq(Heard)
        /\ Len(SubSeq(due, i + 1, Len(due))) = IF i + 1 <= Len(due) THEN Len(due) - (i + 1) + 1 ELSE 0
    BY <1>1, SubSeqProperties
  <2> QED BY <1>1, <2>1
<1>4. Without(due, i) \in Seq(Heard) /\ Len(Without(due, i)) = Len(due) - 1
  <2> DEFINE a == SubSeq(due, 1, i - 1)
             b == SubSeq(due, i + 1, Len(due))
  <2>1. a \o b \in Seq(Heard) /\ Len(a \o b) = Len(a) + Len(b)
    BY <1>2, <1>3, ConcatProperties
  <2>2. Without(due, i) = a \o b
    BY DEF Without
  <2> HIDE DEF a, b
  <2> QED BY <1>1, <1>2, <1>3, <2>1, <2>2 DEF a, b
<1>5. Len(due) = 1 => Without(due, i) = <<>>
  BY <1>1, <1>4, EmptySeq
<1> QED BY <1>1, <1>4, <1>5
(* An answer as it is put on the wire.                                     *)
LEMMA AnswerOnLine ==
  ASSUME Parameters, NEW d \in Heard, NEW bytes \in Answers(d.request)
  PROVE  /\ Marked(bytes, d) \in Seq(Items)
         /\ \E body \in Bodies(d.request) :
              /\ bytes = Frame(body) /\ Len(Marked(bytes, d)) = Len(Frame(body))
              /\ \A i \in 1 .. Len(Frame(body)) :
                   Marked(bytes, d)[i] = [byte |-> Frame(body)[i], to |-> d.request, fresh |-> d.fresh]
<1> DEFINE r == d.request
<1>1. r \in Requests /\ d.fresh \in BOOLEAN
  BY DEF Heard
<1>2. PICK body \in Bodies(r) : bytes = Frame(body)
  BY AnswersAreFrames
<1>3. bytes \in Seq(Numerals \cup Checks(r))
  BY <1>1, <1>2, FrameShape
<1>4. /\ DOMAIN bytes = 1 .. Len(bytes) /\ Len(bytes) \in Nat
      /\ \A i \in 1 .. Len(bytes) : bytes[i] \in Numerals \cup Checks(r)
  BY <1>3, LenProperties, ElementOfSeq
<1>5. \A i \in 1 .. Len(bytes) : [byte |-> bytes[i], to |-> r, fresh |-> d.fresh] \in Items
  BY <1>1, <1>4 DEF Items
<1>6. /\ Marked(bytes, d) \in [1 .. Len(bytes) -> Items]
      /\ \A i \in 1 .. Len(bytes) :
           Marked(bytes, d)[i] = [byte |-> bytes[i], to |-> r, fresh |-> d.fresh]
  BY <1>4, <1>5 DEF Marked
<1>7. Marked(bytes, d) \in Seq(Items)
  BY <1>4, <1>6, SeqDef
<1>8. Len(Marked(bytes, d)) = Len(bytes)
  BY <1>4, <1>6, <1>7, LenProperties
<1> QED BY <1>2, <1>6, <1>7, <1>8

-----------------------------------------------------------------------------
(* Types, and what has been compared when the header was read.             *)

LEMMA LineStarts ==
  ASSUME Parameters, Init
  PROVE  LineInv
<1>1. /\ pc = "idle" /\ msg \in Requests /\ buf = <<>> /\ need = 0 /\ value = 0 /\ err = "NONE"
      /\ rx = <<>> /\ line = <<>> /\ due = <<>> /\ disturbances = 0 /\ transactions = 0
  BY DEF Init
<1>2. LineTyped
  <2>1. <<>> \in Seq(Items) /\ <<>> \in Seq(Heard) /\ Len(<<>>) = 0
    BY EmptySeq
  <2>2. RX_SIZE \in Nat /\ MAX_DUE \in Nat /\ DISTURBANCES \in Nat /\ TRANSACTIONS \in Nat
    BY DEF Parameters
  <2> QED BY <1>1, <2>1, <2>2 DEF LineTyped, NOISE, WORD_MAX
<1> QED
  BY <1>1, <1>2 DEF LineInv, HeaderRead, AcceptedWhole, Undisturbed, Over, Idle, NothingLeftOver, ReadsCurrent

(* The checks in the header, and what is behind it, stay.                  *)
LEMMA HeaderStays ==
  ASSUME LineTyped, NEW n \in Nat, Receive(n), Len(buf) >= 2, Number(buf[1]) = msg.unit
  PROVE  Len(buf') >= 2 /\ Number(buf'[1]) = msg'.unit
<1>1. /\ UNCHANGED msg /\ Len(buf') = Len(buf) + n
      /\ \A i \in 1 .. Len(buf) : buf'[i] = buf[i]
  BY ReceiveMoves DEF LineTyped
<1>2. Len(buf) \in Nat
  BY LenProperties DEF LineTyped
<1> QED BY <1>1, <1>2

LEMMA ReceiveKeepsTypes ==
  ASSUME LineTyped, Parameters, NEW n \in Nat, Receive(n),
         need' \in 0 .. NOISE, value' \in 0 .. WORD_MAX,
         pc' \in {"idle", "unit", "fc", "code", "length", "registers", "echo", "footer"},
         err' \in {"NONE", "TIMEOUT", "CRC", "INVALID_UNIT_ID", "INVALID_RESPONSE", "EXCEPTION"}
  PROVE  LineTyped'
<1>1. /\ n <= Len(rx) /\ UNCHANGED <<msg, line, due, disturbances, transactions>>
      /\ buf' \in Seq(Items) /\ rx' \in Seq(Items) /\ Len(rx') = Len(rx) - n
  BY ReceiveMoves DEF LineTyped
<1>2. Len(rx) \in Nat /\ RX_SIZE \in Nat
  BY LenProperties DEF LineTyped, Parameters
<1> QED BY <1>1, <1>2 DEF LineTyped

LEMMA ElementsOfBuf ==
  ASSUME LineTyped
  PROVE  \A i \in 1 .. Len(buf) : Number(buf[i]) \in 0 .. NOISE /\ buf[i] \in Items
BY ElementOfSeq, NumbersTyped DEF LineTyped

(* One byte more.                                                          *)
LEMMA ReceiveOne ==
  ASSUME buf \in Seq(Items), rx \in Seq(Items), Receive(1)
  PROVE  Len(buf') = Len(buf) + 1 /\ UNCHANGED msg
BY ReceiveMoves

LEMMA ClientStep ==
  ASSUME Parameters, LineTyped, HeaderRead, Client
  PROVE  LineTyped' /\ HeaderRead'
<1>0. /\ Len(buf) \in Nat /\ buf \in Seq(Items) /\ rx \in Seq(Items)
      /\ need \in 0 .. NOISE /\ value \in 0 .. WORD_MAX /\ NOISE \in Nat /\ need \in Nat
  BY LenProperties DEF LineTyped, NOISE
<1>a. ASSUME NEW n \in Nat, Receive(n)
      PROVE  \A i \in 1 .. Len(buf) + n : Number(buf'[i]) \in 0 .. NOISE
  BY <1>0, <1>a, ReceiveMoves, ElementOfSeq, NumbersTyped
<1>b. ASSUME NEW n \in Nat, Receive(n)
      PROVE  Len(buf') = Len(buf) + n /\ UNCHANGED msg
  BY <1>0, <1>b, ReceiveMoves
<1>1. CASE ReceiveUnit
  <2>1. pc = "unit" /\ Receive(1) /\ pc' = "fc" /\ UNCHANGED <<err, need, value>> /\ buf = <<>>
    BY <1>1 DEF ReceiveUnit, Go, HeaderRead
  <2>2. Len(buf') = 1
    <3>1. Len(buf) = 0
      BY <2>1
    <3> QED BY <1>b, <2>1, <3>1
  <2>3. err \in {"NONE", "TIMEOUT", "CRC", "INVALID_UNIT_ID", "INVALID_RESPONSE", "EXCEPTION"}
    BY DEF LineTyped
  <2>4. LineTyped'
    BY <1>0, <2>1, <2>3, ReceiveKeepsTypes
  <2> QED BY <2>1, <2>2, <2>4 DEF HeaderRead
<1>2. CASE ReceiveFunction
  <2>1. /\ pc = "fc" /\ Receive(1) /\ UNCHANGED <<need, value>> /\ Len(buf) = 1
        /\ \/ pc' = "idle" /\ err' \in {"INVALID_UNIT_ID", "INVALID_RESPONSE"}
           \/ pc' \in {"echo", "length", "code"} /\ UNCHANGED err /\ Number(buf'[1]) = msg.unit
    BY <1>2 DEF ReceiveFunction, Go, End, HeaderRead
  <2>2. Len(buf') = 2 /\ UNCHANGED msg
    BY <1>0, <2>1, ReceiveOne
  <2>3. err \in {"NONE", "TIMEOUT", "CRC", "INVALID_UNIT_ID", "INVALID_RESPONSE", "EXCEPTION"}
    BY DEF LineTyped
  <2>4. LineTyped'
    BY <1>0, <2>1, <2>3, ReceiveKeepsTypes
  <2> QED BY <2>1, <2>2, <2>4 DEF HeaderRead
<1>3. CASE ReceiveCode \/ ReceiveEcho
  <2>1. PICK n \in {1, 4} : /\ Receive(n) /\ pc \in {"code", "echo"} /\ pc' = "footer"
                           /\ UNCHANGED <<err, need, value>>
    BY <1>3 DEF ReceiveCode, ReceiveEcho, Go
  <2>2. Len(buf') >= 2 /\ Number(buf'[1]) = msg'.unit
    BY <2>1, HeaderStays DEF HeaderRead
  <2>3. err \in {"NONE", "TIMEOUT", "CRC", "INVALID_UNIT_ID", "INVALID_RESPONSE", "EXCEPTION"}
    BY DEF LineTyped
  <2>4. LineTyped'
    BY <1>0, <2>1, <2>3, ReceiveKeepsTypes
  <2> QED BY <2>1, <2>2, <2>4 DEF HeaderRead
<1>4. CASE ReceiveLength
  <2>1. /\ Receive(1) /\ pc = "length" /\ pc' = "registers" /\ need' = Number(buf'[3])
        /\ UNCHANGED <<err, value>> /\ Len(buf) = 2 /\ Number(buf[1]) = msg.unit
    BY <1>4 DEF ReceiveLength, Go, HeaderRead
  <2>2. Len(buf') = 3 /\ Number(buf'[1]) = msg'.unit /\ need' \in 0 .. NOISE
    <3>1. Len(buf') = 3
      BY <1>0, <2>1, ReceiveOne
    <3>2. Number(buf'[1]) = msg'.unit
      BY <2>1, HeaderStays
    <3>3. Number(buf'[3]) \in 0 .. NOISE
      BY <1>a, <2>1
    <3> QED BY <2>1, <3>1, <3>2, <3>3
  <2>3. err \in {"NONE", "TIMEOUT", "CRC", "INVALID_UNIT_ID", "INVALID_RESPONSE", "EXCEPTION"}
    BY DEF LineTyped
  <2>4. LineTyped'
    BY <1>0, <2>1, <2>2, <2>3, ReceiveKeepsTypes
  <2> QED BY <2>1, <2>2, <2>4 DEF HeaderRead
<1>5. CASE ReceiveRegisters
  <2>1. /\ Receive(need) /\ pc = "registers" /\ pc' = "footer" /\ UNCHANGED <<err, need>>
        /\ value' = (IF need >= 2 THEN Word(buf'[4], buf'[5]) ELSE value)
        /\ Len(buf) = 3 /\ Number(buf[1]) = msg.unit
    BY <1>5 DEF ReceiveRegisters, Go, HeaderRead
  <2>2. value' \in 0 .. WORD_MAX
    <3>1. CASE need >= 2
      <4>1. Number(buf'[4]) \in 0 .. 255 /\ Number(buf'[5]) \in 0 .. 255
        BY <1>0, <1>a, <2>1, <3>1 DEF NOISE
      <4> DEFINE hi == Number(buf'[4])
                 lo == Number(buf'[5])
      <4>2. value' = 256 * hi + lo
        BY <2>1, <3>1 DEF Word
      <4> HIDE DEF hi, lo
      <4>3. 256 * hi + lo \in 0 .. WORD_MAX
        <5>1. hi \in 0 .. 255 /\ lo \in 0 .. 255
          BY <4>1 DEF hi, lo
        <5> QED BY <5>1 DEF WORD_MAX
      <4> QED BY <4>2, <4>3
    <3> QED BY <1>0, <2>1, <3>1
  <2>3. err \in {"NONE", "TIMEOUT", "CRC", "INVALID_UNIT_ID", "INVALID_RESPONSE", "EXCEPTION"}
    BY DEF LineTyped
  <2>4. LineTyped'
    BY <1>0, <2>1, <2>2, <2>3, ReceiveKeepsTypes
  <2>5. Len(buf') >= 2 /\ Number(buf'[1]) = msg'.unit
    BY <1>0, <2>1, HeaderStays
  <2> QED BY <2>1, <2>4, <2>5 DEF HeaderRead
<1>6. CASE ReceiveFooter
  <2>1. /\ Receive(2) /\ pc' = "idle" /\ UNCHANGED <<need, value>>
        /\ err' \in {"NONE", "CRC", "INVALID_RESPONSE", "EXCEPTION"}
    <3>1. msg' = msg /\ Verdict(buf') \in {"NONE", "INVALID_RESPONSE", "EXCEPTION"}
      BY <1>6 DEF ReceiveFooter, Receive, Verdict
    <3> QED BY <1>6, <3>1 DEF ReceiveFooter, End
  <2>2. LineTyped'
    BY <1>0, <2>1, ReceiveKeepsTypes
  <2> QED BY <2>1, <2>2 DEF HeaderRead
<1>7. CASE TimeOut
  <2>1. /\ buf' = buf \o rx /\ rx' = <<>> /\ pc' = "idle" /\ err' = "TIMEOUT"
        /\ UNCHANGED <<msg, need, value, line, due, transactions>>
        /\ \/ UNCHANGED disturbances
           \/ disturbances < DISTURBANCES /\ disturbances' = disturbances + 1
    BY <1>7 DEF TimeOut, End, wireVars
  <2>2. buf' \in Seq(Items) /\ rx' \in Seq(Items) /\ Len(rx') = 0
    BY <1>0, <2>1, ConcatProperties, EmptySeq
  <2>3. RX_SIZE \in Nat /\ DISTURBANCES \in Nat
    BY DEF Parameters
  <2>4. LineTyped'
    BY <2>1, <2>2, <2>3 DEF LineTyped
  <2> QED BY <2>1, <2>4 DEF HeaderRead
<1> QED BY <1>1, <1>2, <1>3, <1>4, <1>5, <1>6, <1>7 DEF Client

(* A byte of the line that is changed.                                     *)
LEMMA NoiseTyped ==
  ASSUME line \in Seq(Items), line # <<>>
  PROVE  [line EXCEPT ![1].byte = Plain(NOISE)] \in Seq(Items)
<1> DEFINE s == [line EXCEPT ![1].byte = Plain(NOISE)]
<1>1. DOMAIN line = 1 .. Len(line) /\ Len(line) \in Nat /\ \A i \in 1 .. Len(line) : line[i] \in Items
  BY LenProperties, ElementOfSeq
<1>2. Plain(NOISE) \in Numerals
  BY PlainIsNumeral DEF NOISE
<1>3. \A x \in Items : [x EXCEPT !.byte = Plain(NOISE)] \in Items
  BY <1>2 DEF Items
<1>4. s \in [1 .. Len(line) -> Items]
  BY <1>1, <1>3
<1> QED BY <1>1, <1>4, SeqDef

LEMMA WireStep ==
  ASSUME Parameters, LineTyped, HeaderRead,
         Answer \/ Silent \/ Deliver \/ Disturb \/ UNCHANGED vars
  PROVE  LineTyped' /\ HeaderRead' /\ UNCHANGED clientVars
<1>0. /\ rx \in Seq(Items) /\ line \in Seq(Items) /\ due \in Seq(Heard)
      /\ Len(rx) \in Nat /\ Len(due) \in Nat /\ RX_SIZE \in Nat /\ MAX_DUE \in Nat /\ DISTURBANCES \in Nat
  BY LenProperties DEF LineTyped, Parameters
<1>1. CASE Answer
  <2>1. UNCHANGED <<clientVars, rx, counters>>
    BY <1>1 DEF Answer
  <2>2. PICK i \in DOMAIN due : /\ \E bytes \in Answers(due[i].request) : line' = Marked(bytes, due[i])
                               /\ due' = Without(due, i)
    BY <1>1 DEF Answer
  <2>3. due[i] \in Heard /\ due' \in Seq(Heard) /\ Len(due') <= MAX_DUE
    BY <1>0, <2>2, WithoutTyped DEF LineTyped
  <2>4. line' \in Seq(Items)
    BY <2>2, <2>3, AnswerOnLine
  <2> QED BY <2>1, <2>3, <2>4 DEF LineTyped, HeaderRead, clientVars, counters
<1>2. CASE Silent
  <2>1. UNCHANGED <<clientVars, rx, line, counters>>
    BY <1>2 DEF Silent
  <2>2. PICK i \in DOMAIN due : due' = Without(due, i)
    BY <1>2 DEF Silent
  <2>3. due' \in Seq(Heard) /\ Len(due') <= MAX_DUE
    BY <1>0, <2>2, WithoutTyped DEF LineTyped
  <2> QED BY <2>1, <2>3 DEF LineTyped, HeaderRead, clientVars, counters
<1>3. CASE Deliver
  <2>1. /\ UNCHANGED <<clientVars, due, counters>> /\ line # <<>> /\ line' = Tail(line)
        /\ \/ UNCHANGED rx
           \/ Len(rx) < RX_SIZE /\ rx' = Append(rx, Head(line))
    BY <1>3 DEF Deliver, Room
  <2>2. /\ Tail(line) \in Seq(Items) /\ Append(rx, Head(line)) \in Seq(Items)
        /\ Len(Append(rx, Head(line))) = Len(rx) + 1
    BY <1>0, <2>1, DeliverMoves
  <2>3. Len(rx') <= RX_SIZE
    <3>1. Len(rx) <= RX_SIZE
      BY DEF LineTyped
    <3> QED BY <1>0, <2>1, <2>2, <3>1
  <2> QED BY <1>0, <2>1, <2>2, <2>3 DEF LineTyped, HeaderRead, clientVars, counters
<1>4. CASE Disturb
  <2>1. /\ UNCHANGED <<clientVars, rx, due, transactions>> /\ line # <<>>
        /\ disturbances < DISTURBANCES /\ disturbances' = disturbances + 1
        /\ line' \in {Tail(line), [line EXCEPT ![1].byte = Plain(NOISE)]}
    BY <1>4 DEF Disturb
  <2>2. line' \in Seq(Items)
    BY <1>0, <2>1, DeliverMoves, NoiseTyped
  <2>3. disturbances' \in 0 .. DISTURBANCES
    BY <1>0, <2>1 DEF LineTyped
  <2> QED BY <2>1, <2>2, <2>3 DEF LineTyped, HeaderRead, clientVars
<1>5. CASE UNCHANGED vars
  BY <1>5 DEF LineTyped, HeaderRead, vars, clientVars, wireVars, counters
<1> QED BY <1>1, <1>2, <1>3, <1>4, <1>5

LEMMA RequestStep ==
  ASSUME Parameters, LineTyped, NEW r \in Requests, Request(r)
  PROVE  LineTyped' /\ HeaderRead'
<1>1. /\ pc' = "unit" /\ msg' = r /\ buf' = <<>> /\ need' = 0 /\ value' = 0 /\ err' = "NONE"
      /\ rx' = Aged(rx) /\ line' = Aged(line) /\ UNCHANGED disturbances
      /\ transactions < TRANSACTIONS /\ transactions' = transactions + 1
      /\ due' = IF Len(due) < MAX_DUE
                THEN Append(Aged(due), [request |-> r, fresh |-> TRUE]) ELSE Aged(due)
  BY DEF Request, Cleared
<1>2. /\ rx \in Seq(Items) /\ line \in Seq(Items) /\ due \in Seq(Heard) /\ Len(due) \in Nat
      /\ MAX_DUE \in Nat /\ TRANSACTIONS \in Nat /\ Len(rx) <= RX_SIZE /\ Len(due) <= MAX_DUE
  BY LenProperties DEF LineTyped, Parameters
<1>3. /\ rx' \in Seq(Items) /\ line' \in Seq(Items) /\ Len(rx') <= RX_SIZE
      /\ Aged(due) \in Seq(Heard) /\ Len(Aged(due)) = Len(due)
  BY <1>1, <1>2, AgedTyped
<1>4. due' \in Seq(Heard) /\ Len(due') <= MAX_DUE
  <2>1. [request |-> r, fresh |-> TRUE] \in Heard
    BY DEF Heard
  <2> QED BY <1>1, <1>2, <1>3, <2>1, AppendProperties
<1>5. buf' \in Seq(Items) /\ need' \in 0 .. NOISE /\ value' \in 0 .. WORD_MAX
  BY <1>1, EmptySeq DEF NOISE, WORD_MAX
<1>6. transactions' \in 0 .. TRANSACTIONS
  BY <1>1, <1>2 DEF LineTyped
<1> QED BY <1>1, <1>3, <1>4, <1>5, <1>6 DEF LineTyped, HeaderRead

-----------------------------------------------------------------------------
(* Every accepted answer is one.                                           *)

LEMMA BytesTyped ==
  ASSUME NEW s \in Seq(Items)
  PROVE  /\ Len(Bytes(s)) = Len(s) /\ Len(s) \in Nat /\ \A i \in 1 .. Len(s) : Bytes(s)[i] = s[i].byte
         /\ \E S : Bytes(s) \in Seq(S)
<1> DEFINE S == {x.byte : x \in Items}
<1>1. DOMAIN s = 1 .. Len(s) /\ Len(s) \in Nat /\ \A i \in 1 .. Len(s) : s[i] \in Items
  BY LenProperties, ElementOfSeq
<1>2. Bytes(s) \in [1 .. Len(s) -> S]
  BY <1>1 DEF Bytes
<1>3. Bytes(s) \in Seq(S)
  BY <1>1, <1>2, SeqDef
<1>4. Len(Bytes(s)) = Len(s)
  BY <1>1, <1>2, <1>3, LenProperties
<1> QED BY <1>1, <1>3, <1>4 DEF Bytes

LEMMA TwoOfChecksum ==
  ASSUME NEW body
  PROVE  Crc(body)[1] = <<1, body>> /\ Crc(body)[2] = <<2, body>>
<1> DEFINE a == <<1, body>>
           c == <<2, body>>
<1>1. Crc(body) = <<a, c>>
  BY DEF Crc
<1> HIDE DEF a, c
<1>2. <<a, c>>[1] = a /\ <<a, c>>[2] = c
  OBVIOUS
<1> QED BY <1>1, <1>2 DEF a, c

(* The checksum of a body tells the body.                                  *)
LEMMA ChecksumTells ==
  ASSUME NEW S, NEW b \in Seq(S), Len(b) >= 4, CrcMatches(b)
  PROVE  \E front : /\ b = Frame(front) /\ b[Len(b)] = <<2, front>>
                    /\ \A i \in 1 .. Len(b) - 2 : b[i] = front[i]
<1> DEFINE n == Len(b) - 2
           front == SubSeq(b, 1, n)
           check == SubSeq(b, n + 1, n + 2)
<1>1. Len(b) \in Nat /\ n \in Nat /\ n >= 2 /\ Len(b) = n + 2 /\ DOMAIN b = 1 .. Len(b)
  BY LenProperties
<1> HIDE DEF n
<1>2. front \in Seq(S) /\ Len(front) = n /\ \A i \in 1 .. n : front[i] = b[i]
  <2>1. \A i \in 1 .. n : b[i] \in S
    BY <1>1, ElementOfSeq
  <2>2. /\ front \in Seq(S) /\ Len(front) = IF 1 <= n THEN n - 1 + 1 ELSE 0
        /\ \A i \in 1 .. n - 1 + 1 : front[i] = b[1 + i - 1]
    BY <1>1, <2>1, SubSeqProperties
  <2> HIDE DEF front
  <2> QED BY <1>1, <2>2
<1>3. check \in Seq(S) /\ Len(check) = 2 /\ check[1] = b[n + 1] /\ check[2] = b[n + 2]
  <2>1. \A i \in n + 1 .. n + 2 : b[i] \in S
    BY <1>1, ElementOfSeq
  <2>2. /\ check \in Seq(S) /\ Len(check) = IF n + 1 <= n + 2 THEN n + 2 - (n + 1) + 1 ELSE 0
        /\ \A i \in 1 .. n + 2 - (n + 1) + 1 : check[i] = b[n + 1 + i - 1]
    BY <1>1, <2>1, SubSeqProperties
  <2> HIDE DEF check
  <2>3. /\ n + 2 - (n + 1) + 1 = 2 /\ n + 1 <= n + 2
        /\ n + 1 + 1 - 1 = n + 1 /\ n + 1 + 2 - 1 = n + 2
    BY <1>1
  <2>4. Len(check) = 2 /\ \A i \in 1 .. 2 : check[i] = b[n + 1 + i - 1]
    BY <2>2, <2>3
  <2>5. check[1] = b[n + 1 + 1 - 1] /\ check[2] = b[n + 1 + 2 - 1]
    BY <2>4
  <2> QED BY <2>2, <2>3, <2>4, <2>5
<1>4. check = Crc(front)
  BY DEF CrcMatches, n
<1>5. b[n + 2] = <<2, front>>
  BY <1>3, <1>4, TwoOfChecksum
<1> HIDE DEF front, check
<1>6. b = front \o check
  <2>1. /\ front \o check \in Seq(S) /\ Len(front \o check) = Len(front) + Len(check)
        /\ \A i \in 1 .. Len(front) + Len(check) : (front \o check)[i] =
              IF i <= Len(front) THEN front[i] ELSE check[i - Len(front)]
    <3>1. front \in Seq(S) /\ check \in Seq(S)
      BY <1>2, <1>3
    <3> QED BY <3>1, ConcatProperties
  <2>2. \A i \in 1 .. Len(b) : b[i] = (front \o check)[i]
    <3> TAKE i \in 1 .. Len(b)
    <3>0. i \in 1 .. n + 2 /\ (front \o check)[i] = IF i <= n THEN front[i] ELSE check[i - n]
      BY <1>1, <1>2, <1>3, <2>1
    <3>1. CASE i <= n
      BY <1>2, <3>0, <3>1
    <3>2. CASE i = n + 1
      <4>1. ~(i <= n) /\ i - n = 1
        BY <1>1, <3>2
      <4> QED BY <1>3, <3>0, <3>2, <4>1
    <3>3. CASE i = n + 2
      <4>1. ~(i <= n) /\ i - n = 2
        BY <1>1, <3>3
      <4> QED BY <1>3, <3>0, <3>3, <4>1
    <3> QED BY <1>1, <3>0, <3>1, <3>2, <3>3
  <2>3. Len(b) = Len(front \o check)
    BY <1>1, <1>2, <1>3, <2>1
  <2> QED BY <2>1, <2>2, <2>3, SeqEqual
<1>7. b = Frame(front)
  BY <1>4, <1>6 DEF Frame
<1> QED BY <1>1, <1>2, <1>5, <1>7

LEMMA FooterAccepts ==
  ASSUME Parameters, LineTyped, HeaderRead, ReceiveFooter, err' = "NONE"
  PROVE  AcceptedWhole'
<1>1. /\ pc = "footer" /\ Receive(2) /\ CrcMatches(Bytes(buf')) /\ Verdict(buf') = "NONE"
  BY DEF ReceiveFooter, End
<1>2. /\ buf' \in Seq(Items) /\ Len(buf') = Len(buf) + 2 /\ UNCHANGED msg
      /\ Len(buf') >= 4 /\ Number(buf'[1]) = msg.unit
  <2>1. Len(buf) >= 2 /\ Number(buf[1]) = msg.unit /\ Len(buf) \in Nat
    BY <1>1, LenProperties DEF HeaderRead, LineTyped
  <2>2. buf' \in Seq(Items) /\ Len(buf') = Len(buf) + 2 /\ UNCHANGED msg
    BY <1>1, ReceiveMoves DEF LineTyped
  <2>3. Number(buf'[1]) = msg.unit
    BY <1>1, <2>1, <2>2, HeaderStays
  <2> QED BY <2>1, <2>2, <2>3
<1> DEFINE n == Len(buf')
           b == Bytes(buf')
           r == buf'[n].to
<1>3. n \in Nat /\ Len(b) = n /\ \A i \in 1 .. n : b[i] = buf'[i].byte /\ buf'[i] \in Items
  BY <1>2, BytesTyped, ElementOfSeq
<1>4. PICK front : /\ b = Frame(front) /\ b[n] = <<2, front>>
                   /\ \A i \in 1 .. n - 2 : b[i] = front[i]
  <2>1. PICK S : b \in Seq(S)
    BY <1>2, BytesTyped
  <2>2. Len(b) = n /\ n >= 4 /\ CrcMatches(b)
    BY <1>1, <1>2, <1>3
  <2> HIDE DEF b, n
  <2> QED BY <2>1, <2>2, ChecksumTells
<1> HIDE DEF n, b
<1>5. n \in 1 .. n /\ 1 \in 1 .. n - 2 /\ 2 \in 1 .. n - 2 /\ 1 \in 1 .. n /\ 2 \in 1 .. n
  BY <1>2, <1>3 DEF n
<1>6. r \in Requests /\ front \in Bodies(r)
  <2>1. buf'[n] \in Items /\ buf'[n].byte = <<2, front>>
    BY <1>3, <1>4, <1>5
  <2>2. r \in Requests /\ <<2, front>> \in Numerals \cup Checks(r)
    BY <2>1 DEF Items
  <2>3. <<2, front>> \notin Numerals
    <3> SUFFICES ASSUME NEW m \in 0 .. 255, <<2, front>> = <<m>> PROVE FALSE
      BY DEF Numerals
    <3>1. Len(<<2, front>>) = 2 /\ Len(<<m>>) = 1
      OBVIOUS
    <3> QED BY <3>1
  <2>4. PICK k \in {1, 2}, body \in Bodies(r) : <<2, front>> = <<k, body>>
    BY <2>2, <2>3 DEF Checks
  <2>5. front = body
    BY <2>4
  <2> QED BY <2>2, <2>4, <2>5
<1> HIDE DEF r
<1>7. b \in Answers(r)
  BY <1>4, <1>6, AnswersAreFrames
<1>8. /\ r.unit \in 1 .. 247 /\ r.fc \in {3, 4, 6} /\ msg.fc \in {3, 4, 6} /\ msg.unit \in 1 .. 247
  BY <1>6, RequestTyped DEF LineTyped
<1>9. r.unit = msg.unit
  <2>1. buf'[1] \in Items /\ buf'[1].byte = Plain(r.unit)
    BY <1>3, <1>4, <1>5, <1>6, BodyTyped DEF BodyOf
  <2>2. Number(buf'[1]) = r.unit % 256 /\ r.unit % 256 = r.unit
    BY <1>8, <2>1, NumbersTyped
  <2> QED BY <1>2, <2>2
<1>10. r.fc = msg.fc
  <2>1. Number(buf'[2]) = msg.fc
    BY <1>1, <1>2 DEF Verdict
  <2>2. buf'[2] \in Items /\ buf'[2].byte \in {Plain(r.fc), Plain(r.fc + 128)}
    BY <1>3, <1>4, <1>5, <1>6, BodyTyped DEF BodyOf, EXCEPTION
  <2>3. Number(buf'[2]) \in {r.fc % 256, (r.fc + 128) % 256}
    BY <1>8, <2>2, NumbersTyped
  <2> QED BY <1>8, <2>1, <2>3
<1> QED BY <1>2, <1>6, <1>7, <1>9, <1>10 DEF AcceptedWhole, n, b, r

LEMMA AcceptedStep ==
  ASSUME Parameters, LineTyped, HeaderRead, AcceptedWhole, [Next]_vars
  PROVE  AcceptedWhole'
<1>1. CASE \E r \in Requests : Request(r)
  BY <1>1 DEF Request, AcceptedWhole
<1>2. CASE ReceiveFooter
  <2>1. CASE err' = "NONE"
    BY <1>2, <2>1, FooterAccepts
  <2> QED BY <2>1 DEF AcceptedWhole
<1>3. CASE ReceiveUnit \/ ReceiveCode \/ ReceiveLength \/ ReceiveRegisters \/ ReceiveEcho
  <2>1. pc' # "idle"
    BY <1>3 DEF ReceiveUnit, ReceiveCode, ReceiveLength, ReceiveRegisters, ReceiveEcho, Go
  <2> QED BY <2>1 DEF AcceptedWhole, Idle
<1>4. CASE ReceiveFunction \/ TimeOut
  <2>1. ~(pc' = "idle" /\ err' = "NONE")
    BY <1>4 DEF ReceiveFunction, TimeOut, Go, End
  <2> QED BY <2>1 DEF AcceptedWhole, Idle
<1>5. CASE Answer \/ Silent \/ Deliver \/ Disturb \/ UNCHANGED vars
  BY <1>5, WireStep DEF clientVars, AcceptedWhole, Idle
<1> QED BY <1>1, <1>2, <1>3, <1>4, <1>5 DEF Next, Client

-----------------------------------------------------------------------------
(* Without disturbances there is one answer, and it is taken whole.        *)

LEMMA StreamReceives ==
  ASSUME LineTyped, NEW n \in Nat, Receive(n), NEW a, Len(a) \in Nat, Stream(a)
  PROVE  Stream(a)' /\ \A i \in 1 .. Len(buf) + n : buf'[i] = At(a, i)
<1>1. /\ Len(buf) \in Nat /\ Len(rx) \in Nat /\ Len(line) \in Nat
  BY LenProperties DEF LineTyped
<1>2. /\ n <= Len(rx) /\ UNCHANGED <<msg, line>>
      /\ Len(buf') = Len(buf) + n /\ Len(rx') = Len(rx) - n
      /\ \A i \in 1 .. Len(buf) : buf'[i] = buf[i]
      /\ \A i \in 1 .. n : buf'[Len(buf) + i] = rx[i]
      /\ \A i \in 1 .. Len(rx) - n : rx'[i] = rx[n + i]
  BY ReceiveMoves DEF LineTyped
<1>3. /\ Len(buf) + Len(rx) + Len(line) = Len(a)
      /\ \A i \in 1 .. Len(buf) : buf[i] = At(a, 0 + i)
      /\ \A i \in 1 .. Len(rx) : rx[i] = At(a, Len(buf) + i)
      /\ \A i \in 1 .. Len(line) : line[i] = At(a, Len(buf) + Len(rx) + i)
  BY DEF Stream, Follows
<1>4. \A i \in 1 .. Len(buf) + n : buf'[i] = At(a, i)
  <2> TAKE i \in 1 .. Len(buf) + n
  <2>1. CASE i <= Len(buf)
    <3>1. i \in 1 .. Len(buf) /\ 0 + i = i
      BY <1>1, <2>1
    <3> QED BY <1>2, <1>3, <3>1
  <2>2. CASE i > Len(buf)
    <3>1. PICK k \in 1 .. n : i = Len(buf) + k
      <4>1. i - Len(buf) \in 1 .. n /\ i = Len(buf) + (i - Len(buf))
        BY <1>1, <2>2
      <4> QED BY <4>1
    <3>2. k \in 1 .. Len(rx)
      BY <1>1, <1>2
    <3> QED BY <1>2, <1>3, <3>1, <3>2
  <2> QED BY <1>1, <2>1, <2>2
<1>5. \A i \in 1 .. Len(rx') : rx'[i] = At(a, Len(buf') + i)
  <2> TAKE i \in 1 .. Len(rx')
  <2>1. /\ i \in 1 .. Len(rx) - n /\ n + i \in 1 .. Len(rx)
        /\ Len(buf) + (n + i) = Len(buf') + i
    BY <1>1, <1>2
  <2> QED BY <1>2, <1>3, <2>1
<1>6. Len(buf') + Len(rx') = Len(buf) + Len(rx)
  BY <1>1, <1>2
<1>7. At(a, 0)' = At(a, 0) /\ \A i : At(a, i)' = At(a, i)
  BY <1>2 DEF At
<1>8. /\ Len(buf') + Len(rx') + Len(line') = Len(a)
      /\ \A i \in 1 .. Len(buf') : buf'[i] = At(a, 0 + i)
      /\ \A i \in 1 .. Len(line') : line'[i] = At(a, Len(buf') + Len(rx') + i)
  <2>1. \A i \in 1 .. Len(buf') : i \in 1 .. Len(buf) + n /\ 0 + i = i
    BY <1>1, <1>2
  <2> QED BY <1>2, <1>3, <1>4, <1>6, <2>1
<1> QED BY <1>2, <1>4, <1>5, <1>7, <1>8 DEF Stream, Follows, At

(* A byte goes from the line to the queue: an answer fits into it.         *)
LEMMA StreamDelivers ==
  ASSUME LineTyped, Deliver, NEW a, Len(a) \in Nat, Len(a) <= RX_SIZE, RX_SIZE \in Nat, Stream(a)
  PROVE  Stream(a)'
<1>1. /\ Len(buf) \in Nat /\ Len(rx) \in Nat /\ Len(line) \in Nat /\ rx \in Seq(Items) /\ line \in Seq(Items)
  BY LenProperties DEF LineTyped
<1>2. /\ line # <<>> /\ line' = Tail(line) /\ UNCHANGED <<buf, msg>>
      /\ rx' = IF Len(rx) < RX_SIZE THEN Append(rx, Head(line)) ELSE rx
  BY DEF Deliver, Room, clientVars
<1>3. /\ Len(buf) + Len(rx) + Len(line) = Len(a)
      /\ \A i \in 1 .. Len(buf) : buf[i] = At(a, 0 + i)
      /\ \A i \in 1 .. Len(rx) : rx[i] = At(a, Len(buf) + i)
      /\ \A i \in 1 .. Len(line) : line[i] = At(a, Len(buf) + Len(rx) + i)
  BY DEF Stream, Follows
<1>4. /\ Head(line) = line[1] /\ Len(Tail(line)) = Len(line) - 1 /\ Len(line) >= 1
      /\ \A i \in 1 .. Len(line) - 1 : Tail(line)[i] = line[i + 1]
      /\ Len(Append(rx, Head(line))) = Len(rx) + 1
      /\ \A i \in 1 .. Len(rx) : Append(rx, Head(line))[i] = rx[i]
      /\ Append(rx, Head(line))[Len(rx) + 1] = Head(line)
  <2>1. Len(line) \in Nat \ {0}
    BY <1>1, <1>2, DeliverMoves
  <2> QED BY <1>1, <1>2, <2>1, DeliverMoves
<1>5. rx' = Append(rx, Head(line))
  BY <1>1, <1>2, <1>3, <1>4
<1>6. \A i \in 1 .. Len(rx) + 1 : rx'[i] = At(a, Len(buf) + i)
  <2> TAKE i \in 1 .. Len(rx) + 1
  <2>1. CASE i <= Len(rx)
    <3>1. i \in 1 .. Len(rx)
      BY <1>1, <2>1
    <3> QED BY <1>3, <1>4, <1>5, <3>1
  <2>2. CASE i = Len(rx) + 1
    <3>1. 1 \in 1 .. Len(line) /\ Len(buf) + Len(rx) + 1 = Len(buf) + i
      BY <1>1, <1>4, <2>2
    <3> QED BY <1>3, <1>4, <1>5, <2>2, <3>1
  <2> QED BY <1>1, <2>1, <2>2
<1>7. \A i \in 1 .. Len(line) - 1 : line'[i] = At(a, Len(buf) + (Len(rx) + 1) + i)
  <2> TAKE i \in 1 .. Len(line) - 1
  <2>1. i + 1 \in 1 .. Len(line) /\ Len(buf) + Len(rx) + (i + 1) = Len(buf) + (Len(rx) + 1) + i
    BY <1>1
  <2> QED BY <1>2, <1>3, <1>4, <2>1
<1>8. Len(rx') = Len(rx) + 1 /\ Len(line') = Len(line) - 1
      /\ Len(buf) + (Len(rx) + 1) + (Len(line) - 1) = Len(a)
  <2>1. Len(rx') = Len(rx) + 1 /\ Len(line') = Len(line) - 1
    BY <1>2, <1>4, <1>5
  <2>2. Len(buf) + (Len(rx) + 1) + (Len(line) - 1) = Len(buf) + Len(rx) + Len(line)
    BY <1>1
  <2> QED BY <1>3, <2>1, <2>2
<1> QED BY <1>2, <1>3, <1>6, <1>7, <1>8 DEF Stream, Follows, At

(* What the client reads in the answer to its request.                     *)
LEMMA AnswerReads ==
  ASSUME Parameters, LineTyped, NEW body \in Bodies(msg), NEW s \in Seq(Items),
         \A i \in 1 .. Len(s) : s[i] = At(Frame(body), i)
  PROVE  /\ Len(s) >= 2 => Number(s[2]) = IF body = RefusalBody(msg) THEN msg.fc + EXCEPTION ELSE msg.fc
         /\ Len(s) >= 1 => Number(s[1]) = msg.unit
         /\ Len(s) >= 3 /\ body # RefusalBody(msg) /\ msg.fc # WRITE_SINGLE => Number(s[3]) = 2
<1>1. /\ msg \in Requests /\ msg.unit \in 1 .. 247 /\ msg.fc \in {3, 4, 6}
  BY RequestTyped DEF LineTyped
<1>2. /\ Len(s) \in Nat /\ \A i \in 1 .. Len(s) : s[i] \in Items
  BY LenProperties, ElementOfSeq
<1>3. \A i \in 1 .. 3 : Frame(body)[i] = body[i]
  <2>1. Len(body) \in {3, 5, 6}
    BY <1>1, BodyTyped DEF BodyOf
  <2>2. \A i \in 1 .. Len(body) : Frame(body)[i] = body[i]
    BY <1>1, FrameShape
  <2>3. \A i \in 1 .. 3 : i \in 1 .. Len(body)
    <3>1. \A n \in {3, 5, 6} : \A i \in 1 .. 3 : i \in 1 .. n
      OBVIOUS
    <3> QED BY <2>1, <3>1
  <2> QED BY <2>2, <2>3
<1>4. \A i \in 1 .. 3 : i <= Len(s) => s[i] \in Items /\ s[i].byte = body[i]
  <2> TAKE i \in 1 .. 3
  <2> HAVE i <= Len(s)
  <2>1. i \in 1 .. Len(s)
    BY <1>2
  <2>2. s[i] \in Items /\ s[i] = At(Frame(body), i)
    BY <1>2, <2>1
  <2>3. At(Frame(body), i).byte = Frame(body)[i]
    BY DEF At
  <2> QED BY <1>3, <2>2, <2>3
<1>5. /\ body[1] = Plain(msg.unit)
      /\ body[2] = IF body = RefusalBody(msg) THEN Plain(msg.fc + EXCEPTION) ELSE Plain(msg.fc)
      /\ body # RefusalBody(msg) /\ msg.fc # WRITE_SINGLE => body[3] = Plain(2)
  BY <1>1, BodyTyped DEF BodyOf
<1>6. Len(s) >= 1 => Number(s[1]) = msg.unit
  <2> SUFFICES ASSUME Len(s) >= 1 PROVE Number(s[1]) = msg.unit
    OBVIOUS
  <2>1. s[1] \in Items /\ s[1].byte = Plain(msg.unit)
    BY <1>4, <1>5
  <2>2. msg.unit \in Nat /\ msg.unit % 256 = msg.unit
    <3>1. \A u \in 1 .. 247 : u \in Nat /\ u % 256 = u
      OBVIOUS
    <3> QED BY <1>1, <3>1
  <2> QED BY <2>1, <2>2, NumbersTyped
<1>7. Len(s) >= 2 => Number(s[2]) = IF body = RefusalBody(msg) THEN msg.fc + EXCEPTION ELSE msg.fc
  <2> SUFFICES ASSUME Len(s) >= 2
               PROVE  Number(s[2]) = IF body = RefusalBody(msg) THEN msg.fc + EXCEPTION ELSE msg.fc
    OBVIOUS
  <2> DEFINE k == IF body = RefusalBody(msg) THEN msg.fc + EXCEPTION ELSE msg.fc
  <2>1. s[2] \in Items /\ s[2].byte = Plain(k)
    BY <1>4, <1>5
  <2>2. k \in {3, 4, 6, 131, 132, 134}
    BY <1>1 DEF EXCEPTION
  <2> HIDE DEF k
  <2>3. k \in Nat /\ k % 256 = k
    BY <2>2
  <2>4. Number(s[2]) = k
    BY <2>1, <2>3, NumbersTyped
  <2> QED BY <2>4 DEF k
<1>8. Len(s) >= 3 /\ body # RefusalBody(msg) /\ msg.fc # WRITE_SINGLE => Number(s[3]) = 2
  <2> SUFFICES ASSUME Len(s) >= 3, body # RefusalBody(msg) /\ msg.fc # WRITE_SINGLE
               PROVE  Number(s[3]) = 2
    OBVIOUS
  <2>1. s[3] \in Items /\ s[3].byte = Plain(2)
    BY <1>4, <1>5
  <2>2. Number(s[3]) = 2 % 256
    BY <2>1, NumbersTyped
  <2> QED BY <2>2
<1> QED BY <1>6, <1>7, <1>8

(* An answer that was read to its end passes the checks, unless it refuses. *)
LEMMA AnswerPasses ==
  ASSUME Parameters, LineTyped, NEW body \in Bodies(msg), NEW s \in Seq(Items),
         Len(s) = Len(Frame(body)), \A i \in 1 .. Len(s) : s[i] = At(Frame(body), i)
  PROVE  Bytes(s) = Frame(body) /\ CrcMatches(Bytes(s))
<1>1. /\ msg \in Requests /\ Len(body) \in {3, 5, 6} /\ body \in Seq(Numerals)
  BY BodyTyped DEF LineTyped, BodyOf
<1>2. /\ Frame(body) \in Seq(Numerals \cup Checks(msg)) /\ Len(Frame(body)) = Len(body) + 2
      /\ \A i \in 1 .. Len(body) : Frame(body)[i] = body[i]
      /\ Frame(body)[Len(body) + 1] = <<1, body>> /\ Frame(body)[Len(body) + 2] = <<2, body>>
  BY <1>1, FrameShape
<1>3. Bytes(s) = Frame(body)
  <2>1. PICK S : Bytes(s) \in Seq(S)
    BY BytesTyped
  <2>2. Len(Bytes(s)) = Len(Frame(body)) /\ \A i \in 1 .. Len(s) : Bytes(s)[i] = Frame(body)[i]
    <3>1. Len(Bytes(s)) = Len(s) /\ \A i \in 1 .. Len(s) : Bytes(s)[i] = s[i].byte
      BY BytesTyped
    <3>2. \A i : At(Frame(body), i).byte = Frame(body)[i]
      BY DEF At
    <3> QED BY <3>1, <3>2
  <2> QED BY <1>2, <2>1, <2>2, SeqEqual
<1> DEFINE b == Frame(body)
           n == Len(b) - 2
           T == Numerals \cup Checks(msg)
<1>4. /\ n = Len(body) /\ n \in Nat /\ n >= 3 /\ Len(b) = n + 2 /\ \A i \in 1 .. n + 2 : b[i] \in T
  BY <1>1, <1>2, ElementOfSeq
<1>5. b \in Seq(T) /\ b[n + 1] = <<1, body>> /\ b[n + 2] = <<2, body>> /\ \A i \in 1 .. n : b[i] = body[i]
  BY <1>2, <1>4
<1> HIDE DEF b, n, T
<1>6. SubSeq(b, 1, n) = body
  <2> DEFINE f == SubSeq(b, 1, n)
  <2>1. f \in Seq(T) /\ Len(f) = (IF 1 <= n THEN n - 1 + 1 ELSE 0)
        /\ \A i \in 1 .. n - 1 + 1 : f[i] = b[1 + i - 1]
    <3>1. \A i \in 1 .. n : b[i] \in T
      BY <1>4
    <3> QED BY <1>4, <1>5, <3>1, SubSeqProperties
  <2> HIDE DEF f
  <2>2. Len(f) = Len(body) /\ \A i \in 1 .. Len(f) : f[i] = body[i]
    BY <1>4, <1>5, <2>1
  <2>3. f = body
    BY <1>1, <2>1, <2>2, SeqEqual
  <2> QED BY <2>3 DEF f
<1>7. SubSeq(b, n + 1, n + 2) = Crc(body)
  <2> DEFINE f == SubSeq(b, n + 1, n + 2)
  <2>1. f \in Seq(T) /\ Len(f) = (IF n + 1 <= n + 2 THEN n + 2 - (n + 1) + 1 ELSE 0)
        /\ \A i \in 1 .. n + 2 - (n + 1) + 1 : f[i] = b[n + 1 + i - 1]
    <3>1. \A i \in n + 1 .. n + 2 : b[i] \in T
      BY <1>4
    <3> QED BY <1>4, <1>5, <3>1, SubSeqProperties
  <2> HIDE DEF f
  <2>2. /\ n + 2 - (n + 1) + 1 = 2 /\ n + 1 <= n + 2
        /\ n + 1 + 1 - 1 = n + 1 /\ n + 1 + 2 - 1 = n + 2
    BY <1>4
  <2>3. Len(f) = 2 /\ \A i \in 1 .. 2 : f[i] = b[n + 1 + i - 1]
    BY <2>1, <2>2
  <2>4. f[1] = Crc(body)[1] /\ f[2] = Crc(body)[2]
    <3>1. f[1] = b[n + 1 + 1 - 1] /\ f[2] = b[n + 1 + 2 - 1]
      BY <2>3
    <3> QED BY <1>5, <2>2, <3>1, TwoOfChecksum
  <2>5. Crc(body) \in Seq(Checks(msg)) /\ Len(Crc(body)) = 2
    <3>1. <<1, body>> \in Checks(msg) /\ <<2, body>> \in Checks(msg)
      BY DEF Checks
    <3> QED BY <3>1 DEF Crc
  <2>6. f = Crc(body)
    BY <2>1, <2>3, <2>4, <2>5, SeqEqual
  <2> QED BY <2>6 DEF f
<1>8. CrcMatches(b)
  BY <1>6, <1>7 DEF CrcMatches, n
<1> QED BY <1>3, <1>8 DEF b

LEMMA LengthOfAnswer ==
  ASSUME Parameters, LineTyped, NEW body \in Bodies(msg)
  PROVE  /\ Len(Frame(body)) = Len(body) + 2 /\ Len(body) \in {3, 5, 6}
         /\ Len(Frame(body)) \in Nat /\ Len(Frame(body)) <= 8
         /\ Len(body) = 3 <=> body = RefusalBody(msg)
         /\ Len(body) = 5 <=> body # RefusalBody(msg) /\ msg.fc # WRITE_SINGLE
         /\ Len(body) = 6 <=> body # RefusalBody(msg) /\ msg.fc = WRITE_SINGLE
<1>1. msg \in Requests
  BY DEF LineTyped
<1>2. BodyOf(msg, body) /\ Len(Frame(body)) = Len(body) + 2
  BY <1>1, BodyTyped, FrameShape
<1>3. /\ Len(body) \in {3, 5, 6}
      /\ body = RefusalBody(msg) => Len(body) = 3
      /\ body # RefusalBody(msg) /\ msg.fc # WRITE_SINGLE => Len(body) = 5
      /\ body # RefusalBody(msg) /\ msg.fc = WRITE_SINGLE => Len(body) = 6
  BY <1>2 DEF BodyOf
<1>4. \A n \in {3, 5, 6} : n + 2 \in Nat /\ n + 2 <= 8
  OBVIOUS
<1> DEFINE n == Len(body)
<1>5. /\ n \in {3, 5, 6}
      /\ body = RefusalBody(msg) => n = 3
      /\ body # RefusalBody(msg) /\ msg.fc # WRITE_SINGLE => n = 5
      /\ body # RefusalBody(msg) /\ msg.fc = WRITE_SINGLE => n = 6
  BY <1>3
<1>6. Len(Frame(body)) = n + 2
  BY <1>2
<1> HIDE DEF n
<1>7. /\ n = 3 <=> body = RefusalBody(msg)
      /\ n = 5 <=> body # RefusalBody(msg) /\ msg.fc # WRITE_SINGLE
      /\ n = 6 <=> body # RefusalBody(msg) /\ msg.fc = WRITE_SINGLE
  BY <1>5
<1>8. Len(Frame(body)) \in Nat /\ Len(Frame(body)) <= 8
  BY <1>4, <1>5, <1>6
<1> QED BY <1>5, <1>6, <1>7, <1>8 DEF n

LEMMA AnswerReceived ==
  ASSUME Parameters, LineTyped, NEW n \in Nat, Receive(n), NEW body \in Bodies(msg), Stream(Frame(body))
  PROVE  /\ Stream(Frame(body))' /\ UNCHANGED <<msg, line, due>>
         /\ buf' \in Seq(Items) /\ Len(buf') = Len(buf) + n
         /\ \A i \in 1 .. Len(buf') : buf'[i] = At(Frame(body), i)
<1>1. Stream(Frame(body))' /\ \A i \in 1 .. Len(buf) + n : buf'[i] = At(Frame(body), i)
  BY LengthOfAnswer, StreamReceives
<1>2. buf' \in Seq(Items) /\ Len(buf') = Len(buf) + n /\ UNCHANGED <<msg, line, due>>
  BY ReceiveMoves DEF LineTyped
<1> QED BY <1>1, <1>2

LEMMA ReadingHeader ==
  ASSUME Parameters, LineTyped, HeaderRead, NEW body \in Bodies(msg), Reading(body),
         ReceiveUnit \/ ReceiveFunction
  PROVE  Reading(body)' /\ UNCHANGED msg
<1>1. /\ Receive(1) /\ UNCHANGED <<need, value>> /\ value = 0
  BY DEF ReceiveUnit, ReceiveFunction, Reading, Place
<1>2. /\ Stream(Frame(body))' /\ UNCHANGED <<msg, line, due>>
      /\ buf' \in Seq(Items) /\ Len(buf') = Len(buf) + 1
      /\ \A i \in 1 .. Len(buf') : buf'[i] = At(Frame(body), i)
  BY <1>1, AnswerReceived DEF Reading
<1>3. RefusalBody(msg)' = RefusalBody(msg)
  BY <1>2 DEF RefusalBody
<1>4. CASE ReceiveUnit
  BY <1>1, <1>2, <1>3, <1>4 DEF ReceiveUnit, Go, Reading, Place
<1>5. CASE ReceiveFunction
  <2>1. Len(buf') = 2
    <3>1. Len(buf) = 1
      BY <1>5 DEF ReceiveFunction, HeaderRead
    <3> QED BY <1>2, <3>1
  <2>2. /\ Number(buf'[1]) = msg.unit
        /\ Number(buf'[2]) = IF body = RefusalBody(msg) THEN msg.fc + EXCEPTION ELSE msg.fc
    <3>1. Len(buf') >= 1 /\ Len(buf') >= 2
      BY <2>1
    <3> QED BY <1>2, <3>1, AnswerReads
  <2>3. msg.fc \in {3, 4, 6} /\ msg.fc + EXCEPTION # msg.fc
    <3>1. msg.fc \in {3, 4, 6}
      BY RequestTyped DEF LineTyped
    <3> QED BY <3>1 DEF EXCEPTION
  <2> DEFINE unit == Number(buf'[1])
             fc == Number(buf'[2])
  <2>4. \/ unit # msg.unit
        \/ fc = msg.fc /\ pc' = IF fc = WRITE_SINGLE THEN "echo" ELSE "length"
        \/ fc - EXCEPTION = msg.fc /\ pc' = "code"
        \/ fc \notin {msg.fc, msg.fc + EXCEPTION}
    BY <1>5 DEF ReceiveFunction, Go
  <2>5. unit = msg.unit /\ fc = IF body = RefusalBody(msg) THEN msg.fc + EXCEPTION ELSE msg.fc
    BY <2>2
  <2> HIDE DEF unit, fc
  <2>6. IF body = RefusalBody(msg) THEN pc' = "code"
        ELSE pc' = IF msg.fc = WRITE_SINGLE THEN "echo" ELSE "length"
    <3>1. CASE body = RefusalBody(msg)
      BY <2>3, <2>4, <2>5, <3>1
    <3>2. CASE body # RefusalBody(msg)
      <4>1. fc = msg.fc /\ fc - EXCEPTION # msg.fc
        BY <2>3, <2>5, <3>2 DEF EXCEPTION
      <4> QED BY <2>4, <2>5, <3>2, <4>1
    <3> QED BY <3>1, <3>2
  <2> QED BY <1>1, <1>2, <1>3, <2>6 DEF Reading, Place
<1> QED BY <1>4, <1>5

LEMMA ReadingBody ==
  ASSUME Parameters, LineTyped, HeaderRead, NEW body \in Bodies(msg), Reading(body),
         ReceiveCode \/ ReceiveLength \/ ReceiveRegisters \/ ReceiveEcho
  PROVE  Reading(body)' /\ UNCHANGED msg
<1>0. Len(buf) \in Nat /\ need \in Nat /\ RefusalBody(msg)' = RefusalBody(msg)
  BY LenProperties DEF LineTyped, NOISE, RefusalBody, Receive, ReceiveCode, ReceiveLength, ReceiveRegisters, ReceiveEcho
<1>1. CASE ReceiveCode
  <2>1. /\ Receive(1) /\ UNCHANGED <<need, value>> /\ value = 0 /\ pc' = "footer" /\ Len(buf) = 2
        /\ body = RefusalBody(msg) /\ due = <<>>
    BY <1>1 DEF ReceiveCode, Go, HeaderRead, Reading, Place
  <2>2. Stream(Frame(body))' /\ UNCHANGED <<msg, due>> /\ Len(buf') = Len(buf) + 1
    BY <2>1, AnswerReceived DEF Reading
  <2>3. Len(buf') = Len(body)
    BY <2>1, <2>2, LengthOfAnswer
  <2> QED BY <1>0, <2>1, <2>2, <2>3 DEF Reading, Place
<1>2. CASE ReceiveLength
  <2>1. /\ Receive(1) /\ need' = Number(buf'[3]) /\ UNCHANGED value /\ value = 0 /\ pc' = "registers"
        /\ Len(buf) = 2 /\ body # RefusalBody(msg) /\ msg.fc # WRITE_SINGLE /\ due = <<>>
    BY <1>2 DEF ReceiveLength, Go, HeaderRead, Reading, Place
  <2>2. /\ Stream(Frame(body))' /\ UNCHANGED <<msg, due>> /\ Len(buf') = Len(buf) + 1 /\ buf' \in Seq(Items)
        /\ \A i \in 1 .. Len(buf') : buf'[i] = At(Frame(body), i)
    BY <2>1, AnswerReceived DEF Reading
  <2>3. Len(buf') >= 3
    BY <2>1, <2>2
  <2>4. need' = 2
    BY <2>1, <2>2, <2>3, AnswerReads
  <2> QED BY <1>0, <2>1, <2>2, <2>4 DEF Reading, Place
<1>3. CASE ReceiveRegisters
  <2>1. /\ Receive(2) /\ UNCHANGED need /\ need = 2 /\ pc' = "footer" /\ Len(buf) = 3
        /\ body # RefusalBody(msg) /\ msg.fc # WRITE_SINGLE /\ due = <<>>
    BY <1>3 DEF ReceiveRegisters, Go, HeaderRead, Reading, Place
  <2>2. Stream(Frame(body))' /\ UNCHANGED <<msg, due>> /\ Len(buf') = Len(buf) + 2
    BY <2>1, AnswerReceived DEF Reading
  <2>3. Len(buf') = Len(body)
    BY <2>1, <2>2, LengthOfAnswer
  <2> QED BY <1>0, <2>1, <2>2, <2>3 DEF Reading, Place
<1>4. CASE ReceiveEcho
  <2>1. /\ Receive(4) /\ UNCHANGED <<need, value>> /\ value = 0 /\ pc' = "footer" /\ Len(buf) = 2
        /\ body # RefusalBody(msg) /\ msg.fc = WRITE_SINGLE /\ due = <<>>
    BY <1>4 DEF ReceiveEcho, Go, HeaderRead, Reading, Place
  <2>2. Stream(Frame(body))' /\ UNCHANGED <<msg, due>> /\ Len(buf') = Len(buf) + 4
    BY <2>1, AnswerReceived DEF Reading
  <2>3. Len(buf') = Len(body)
    BY <2>1, <2>2, LengthOfAnswer
  <2> QED BY <1>0, <2>1, <2>2, <2>3 DEF Reading, Place
<1> QED BY <1>1, <1>2, <1>3, <1>4

LEMMA ReadingFooter ==
  ASSUME Parameters, LineTyped, HeaderRead, NEW body \in Bodies(msg), Reading(body), ReceiveFooter
  PROVE  Over'
<1>1. /\ pc = "footer" /\ Receive(2) /\ UNCHANGED <<need, value>> /\ pc' = "idle" /\ due = <<>>
      /\ err' = IF CrcMatches(Bytes(buf')) THEN Verdict(buf') ELSE "CRC"
      /\ Len(buf) = Len(body) /\ Stream(Frame(body))
  BY DEF ReceiveFooter, End, Reading, Place
<1>2. /\ Stream(Frame(body))' /\ UNCHANGED <<msg, line, due>>
      /\ buf' \in Seq(Items) /\ Len(buf') = Len(buf) + 2
      /\ \A i \in 1 .. Len(buf') : buf'[i] = At(Frame(body), i)
  BY <1>1, AnswerReceived
<1>3. Len(buf') = Len(Frame(body)) /\ Len(buf') >= 2
  <2>1. Len(Frame(body)) = Len(body) + 2 /\ Len(body) \in Nat
    BY LengthOfAnswer
  <2> QED BY <1>1, <1>2, <2>1
<1>4. rx' = <<>> /\ line' = <<>>
  <2>1. Len(buf') + Len(rx') + Len(line') = Len(Frame(body))
    BY <1>2 DEF Stream
  <2>2. rx' \in Seq(Items) /\ line' \in Seq(Items)
    BY <1>1, <1>2, ReceiveMoves DEF LineTyped
  <2>3. Len(rx') \in Nat /\ Len(line') \in Nat /\ Len(buf') \in Nat
    BY <1>2, <2>2, LenProperties
  <2>4. Len(rx') = 0 /\ Len(line') = 0
    BY <1>3, <2>1, <2>3
  <2> QED BY <2>2, <2>4, EmptySeq
<1>5. \A i \in DOMAIN buf' : buf'[i].fresh /\ buf'[i].to = msg'
  <2>1. DOMAIN buf' = 1 .. Len(buf')
    BY <1>2, LenProperties
  <2>2. \A i : At(Frame(body), i).fresh /\ At(Frame(body), i).to = msg
    BY DEF At
  <2> QED BY <1>2, <2>1, <2>2
<1>6. err' # "NONE" => value = 0
  <2> SUFFICES ASSUME value # 0 PROVE err' = "NONE"
    OBVIOUS
  <2>1. body # RefusalBody(msg) /\ msg.fc # WRITE_SINGLE /\ need = 2
    BY <1>1 DEF Reading, Place
  <2>2. Number(buf'[2]) = msg.fc
    BY <1>2, <1>3, <2>1, AnswerReads
  <2>3. CrcMatches(Bytes(buf'))
    BY <1>2, <1>3, AnswerPasses
  <2>4. Verdict(buf') = "NONE"
    BY <2>1, <2>2 DEF Verdict
  <2> QED BY <1>1, <2>3, <2>4
<1> QED BY <1>1, <1>2, <1>4, <1>5, <1>6 DEF Over, Idle, NothingLeftOver, ReadsCurrent

(* recv() does not run out of bytes while an answer is read.               *)
LEMMA ReadingWaits ==
  ASSUME Parameters, LineTyped, HeaderRead, NEW body \in Bodies(msg), Reading(body), line = <<>>
  PROVE  Len(rx) >= Wanted
<1>1. /\ Len(buf) \in Nat /\ Len(rx) \in Nat /\ Len(line) = 0
  BY LenProperties DEF LineTyped
<1>2. Len(buf) + Len(rx) = Len(body) + 2 /\ Len(body) \in {3, 5, 6}
  <2>1. Len(buf) + Len(rx) + Len(line) = Len(Frame(body))
    BY DEF Reading, Stream
  <2> QED BY <1>1, <2>1, LengthOfAnswer
<1>3. pc # "idle" /\ Place(body)
  BY DEF Reading
<1>4. CASE pc \in {"unit", "fc", "code", "length"}
  <2>1. Len(buf) <= 2
    <3>1. /\ pc = "unit" => Len(buf) = 0
          /\ pc = "fc" => Len(buf) = 1
          /\ pc \in {"code", "length"} => Len(buf) = 2
      BY DEF HeaderRead
    <3>2. Len(buf) \in {0, 1, 2}
      BY <1>4, <3>1
    <3>3. \A n \in {0, 1, 2} : n <= 2
      OBVIOUS
    <3> QED BY <3>2, <3>3
  <2>2. Wanted = 1
    BY <1>4 DEF Wanted
  <2> QED BY <1>1, <1>2, <2>1, <2>2
<1>5. CASE pc = "registers"
  <2>1. Len(buf) = 3 /\ need = 2 /\ Len(body) = 5
    BY <1>3, <1>5, LengthOfAnswer DEF HeaderRead, Place
  <2>2. Wanted = 2
    BY <1>5, <2>1 DEF Wanted
  <2> QED BY <1>1, <1>2, <2>1, <2>2
<1>6. CASE pc = "echo"
  <2>1. Len(buf) = 2 /\ Len(body) = 6
    BY <1>3, <1>6, LengthOfAnswer DEF HeaderRead, Place
  <2>2. Wanted = 4
    BY <1>6 DEF Wanted
  <2> QED BY <1>1, <1>2, <2>1, <2>2
<1>7. CASE pc = "footer"
  <2>1. Len(buf) = Len(body)
    BY <1>3, <1>7 DEF Place
  <2>2. Wanted = 2
    BY <1>7 DEF Wanted
  <2> QED BY <1>1, <1>2, <2>1, <2>2
<1> QED BY <1>3, <1>4, <1>5, <1>6, <1>7 DEF LineTyped

LEMMA UndisturbedClient ==
  ASSUME Parameters, LineTyped, HeaderRead, Undisturbed, Client
  PROVE  Undisturbed'
<1> SUFFICES ASSUME disturbances' = 0
             PROVE  (Over \/ Unanswered \/ \E body \in Bodies(msg) : Reading(body))'
  BY DEF Undisturbed
<1>1. disturbances = 0 /\ pc # "idle"
  <2>1. pc # "idle"
    BY DEF Client, ReceiveUnit, ReceiveFunction, ReceiveCode, ReceiveLength, ReceiveRegisters,
           ReceiveEcho, ReceiveFooter, TimeOut, TimeOutIn
  <2>2. disturbances' \in {disturbances, disturbances + 1}
    BY DEF Client, ReceiveUnit, ReceiveFunction, ReceiveCode, ReceiveLength, ReceiveRegisters,
           ReceiveEcho, ReceiveFooter, TimeOut, Receive, counters
  <2>3. disturbances \in Nat
    BY DEF LineTyped
  <2> QED BY <2>1, <2>2, <2>3
<1>2. CASE Unanswered
  <2>1. /\ pc = "unit" /\ rx = <<>> /\ line = <<>> /\ value = 0 /\ Len(rx) = 0
        /\ due = <<>> \/ due = <<[request |-> msg, fresh |-> TRUE]>>
    BY <1>2 DEF Unanswered
  <2>2. TimeOut
    <3>1. ~(1 <= Len(rx))
      BY <2>1
    <3>2. ~ReceiveUnit
      BY <3>1 DEF ReceiveUnit, Receive
    <3> QED BY <2>1, <3>2 DEF Client, ReceiveFunction, ReceiveCode, ReceiveLength, ReceiveRegisters,
                ReceiveEcho, ReceiveFooter
  <2>3. ~OwnAnswerPending
    <3>1. disturbances' # disturbances + 1
      BY <1>1
    <3> QED BY <2>1, <2>2, <3>1 DEF TimeOut
  <2>4. due = <<>>
    <3> SUFFICES ASSUME due = <<[request |-> msg, fresh |-> TRUE]>> PROVE FALSE
      BY <2>1
    <3>1. 1 \in DOMAIN due /\ due[1].fresh
      OBVIOUS
    <3> QED BY <2>3, <3>1 DEF OwnAnswerPending
  <2>5. rx' = <<>> /\ line' = <<>> /\ due' = <<>> /\ value' = 0 /\ pc' = "idle" /\ err' = "TIMEOUT"
    BY <2>1, <2>2, <2>4 DEF TimeOut, End, wireVars
  <2> QED BY <2>5 DEF Over, Idle, NothingLeftOver, ReadsCurrent
<1>3. ASSUME NEW body \in Bodies(msg), Reading(body)
      PROVE  (Over \/ Unanswered \/ \E b \in Bodies(msg) : Reading(b))'
  <2>1. CASE ReceiveFooter
    BY <1>3, <2>1, ReadingFooter
  <2>2. CASE TimeOut
    <3>1. line = <<>> /\ ~(Len(rx) >= Wanted)
      <4>1. disturbances' # disturbances + 1
        BY <1>1
      <4>2. line = <<>> /\ Len(rx) < Wanted
        BY <2>2, <4>1 DEF TimeOut
      <4>3. Len(rx) \in Nat /\ Wanted \in Nat
        <5>1. Len(rx) \in Nat
          BY LenProperties DEF LineTyped
        <5>2. need \in Nat
          BY DEF LineTyped, NOISE
        <5>3. pc \in {"idle", "unit", "fc", "code", "length", "registers", "echo", "footer"}
          BY DEF LineTyped
        <5> QED BY <5>1, <5>2, <5>3 DEF Wanted
      <4> QED BY <4>2, <4>3
    <3> QED BY <1>3, <3>1, ReadingWaits
  <2>3. CASE \/ ReceiveUnit \/ ReceiveFunction \/ ReceiveCode \/ ReceiveLength
             \/ ReceiveRegisters \/ ReceiveEcho
    <3>1. Reading(body)' /\ UNCHANGED msg
      BY <1>3, <2>3, ReadingHeader, ReadingBody
    <3>2. body \in Bodies(msg')
      BY <1>3, <3>1
    <3> QED BY <3>1, <3>2 DEF Bodies, RefusalBody, EchoBody, DataBody
  <2> QED BY <2>1, <2>2, <2>3 DEF Client
<1> QED BY <1>1, <1>2, <1>3 DEF Undisturbed, Over, Idle

LEMMA UndisturbedWire ==
  ASSUME Parameters, RX_SIZE >= 8, LineTyped, Undisturbed,
         Answer \/ Silent \/ Deliver \/ Disturb \/ UNCHANGED vars,
         UNCHANGED clientVars
  PROVE  Undisturbed'
<1> SUFFICES ASSUME disturbances' = 0
             PROVE  (Over \/ Unanswered \/ \E body \in Bodies(msg) : Reading(body))'
  BY DEF Undisturbed
<1>1. disturbances = 0 /\ ~Disturb
  <2>1. disturbances' \in {disturbances, disturbances + 1} /\ (Disturb => disturbances' = disturbances + 1)
    BY DEF Answer, Silent, Deliver, Disturb, vars, counters
  <2>2. disturbances \in Nat
    BY DEF LineTyped
  <2> QED BY <2>1, <2>2
<1>2. UNCHANGED <<pc, msg, buf, need, value, err>>
  BY DEF clientVars
<1>3. CASE UNCHANGED vars
  <2>1. UNCHANGED <<pc, msg, buf, need, value, err, rx, line, due, disturbances>>
    BY <1>3 DEF vars, clientVars, wireVars, counters
  <2>2. CASE Over
    BY <2>1, <2>2 DEF Over, Idle, NothingLeftOver, ReadsCurrent
  <2>3. CASE Unanswered
    BY <2>1, <2>3 DEF Unanswered
  <2>4. CASE \E body \in Bodies(msg) : Reading(body)
    BY <2>1, <2>4 DEF Reading, Stream, Follows, At, Place, Bodies, RefusalBody, EchoBody, DataBody
  <2> QED BY <1>1, <2>2, <2>3, <2>4 DEF Undisturbed
<1>4. CASE (Answer \/ Silent \/ Deliver) /\ Over
  <2>1. line = <<>> /\ due = <<>>
    BY <1>1, <1>4 DEF Over, NothingLeftOver
  <2>2. DOMAIN due = {}
    BY <2>1
  <2> QED BY <1>4, <2>1, <2>2 DEF Answer, Silent, Deliver
<1>5. CASE (Answer \/ Silent \/ Deliver) /\ Unanswered
  <2> DEFINE d == [request |-> msg, fresh |-> TRUE]
  <2>1. /\ pc = "unit" /\ buf = <<>> /\ rx = <<>> /\ line = <<>> /\ value = 0
        /\ due = <<>> \/ due = <<d>>
    BY <1>5 DEF Unanswered
  <2>2. due = <<d>> /\ Len(due) = 1 /\ DOMAIN due = {1} /\ due[1] = d /\ d \in Heard /\ due \in Seq(Heard)
    <3>1. DOMAIN due # {}
      BY <1>5, <2>1 DEF Answer, Silent, Deliver
    <3>2. due = <<d>>
      BY <2>1, <3>1
    <3>3. d \in Heard
      BY DEF LineTyped, Heard
    <3> HIDE DEF d
    <3> QED BY <3>2, <3>3
  <2>3. CASE Silent
    <3>1. due' = <<>> /\ UNCHANGED <<rx, line>>
      BY <2>2, <2>3, WithoutTyped DEF Silent
    <3> QED BY <1>2, <2>1, <3>1 DEF Unanswered
  <2>4. CASE Answer
    <3>1. due' = <<>> /\ UNCHANGED rx
      BY <2>2, <2>4, WithoutTyped DEF Answer
    <3>2. PICK bytes \in Answers(d.request) : line' = Marked(bytes, d)
      BY <2>2, <2>4 DEF Answer
    <3>3. PICK body \in Bodies(msg) :
            /\ Len(line') = Len(Frame(body))
            /\ \A i \in 1 .. Len(Frame(body)) : line'[i] = [byte |-> Frame(body)[i], to |-> msg, fresh |-> TRUE]
      <4>1. d.request = msg /\ d.fresh = TRUE
        OBVIOUS
      <4> HIDE DEF d
      <4>2. PICK body \in Bodies(d.request) :
              /\ bytes = Frame(body) /\ Len(Marked(bytes, d)) = Len(Frame(body))
              /\ \A i \in 1 .. Len(Frame(body)) :
                   Marked(bytes, d)[i] = [byte |-> Frame(body)[i], to |-> d.request, fresh |-> d.fresh]
        BY <2>2, <3>2, AnswerOnLine
      <4> QED BY <3>2, <4>1, <4>2
    <3>4. Stream(Frame(body))'
      <4>1. Len(buf') = 0 /\ Len(rx') = 0 /\ Len(line') \in Nat
        <5>1. buf' = <<>> /\ rx' = <<>>
          BY <1>2, <2>1, <3>1
        <5>2. Len(line') \in Nat
          BY <3>3, LengthOfAnswer
        <5> QED BY <5>1, <5>2
      <4>2. \A i : At(Frame(body), i)' = [byte |-> Frame(body)[i], to |-> msg, fresh |-> TRUE]
        BY <1>2 DEF At
      <4>3. Follows(buf, 0, Frame(body))' /\ Follows(rx, Len(buf), Frame(body))'
        BY <4>1 DEF Follows
      <4>4. Follows(line, Len(buf) + Len(rx), Frame(body))'
        <5>1. \A i \in 1 .. Len(line') : 0 + 0 + i = i
          BY <4>1
        <5> QED BY <3>3, <4>1, <4>2, <5>1 DEF Follows
      <4>5. Len(buf') + Len(rx') + Len(line') = Len(Frame(body))
        BY <3>3, <4>1
      <4> QED BY <4>3, <4>4, <4>5 DEF Stream
    <3>5. Reading(body)' /\ body \in Bodies(msg')
      BY <1>2, <2>1, <3>1, <3>4 DEF Reading, Place
    <3> QED BY <3>5 DEF Bodies, RefusalBody, EchoBody, DataBody
  <2>5. CASE Deliver
    BY <2>1, <2>5 DEF Deliver
  <2> QED BY <1>5, <2>3, <2>4, <2>5
<1>6. ASSUME Answer \/ Silent \/ Deliver, NEW body \in Bodies(msg), Reading(body)
      PROVE  (Over \/ Unanswered \/ \E b \in Bodies(msg) : Reading(b))'
  <2>1. due = <<>> /\ DOMAIN due = {} /\ Stream(Frame(body))
    BY <1>6 DEF Reading
  <2>2. Deliver
    BY <1>6, <2>1 DEF Answer, Silent
  <2>3. Stream(Frame(body))'
    <3>1. Len(Frame(body)) \in Nat /\ Len(Frame(body)) <= RX_SIZE /\ RX_SIZE \in Nat
      <4>1. Len(Frame(body)) \in Nat /\ Len(Frame(body)) <= 8
        BY LengthOfAnswer
      <4>2. RX_SIZE \in Nat
        BY DEF Parameters
      <4> QED BY <4>1, <4>2
    <3> QED BY <2>1, <2>2, <3>1, StreamDelivers
  <2>4. due' = <<>>
    BY <2>1, <2>2 DEF Deliver
  <2>5. Reading(body)' /\ body \in Bodies(msg')
    BY <1>2, <1>6, <2>3, <2>4 DEF Reading, Place, RefusalBody
  <2> QED BY <2>5 DEF Bodies, RefusalBody, EchoBody, DataBody
<1> QED BY <1>1, <1>3, <1>4, <1>5, <1>6 DEF Undisturbed

LEMMA UndisturbedRequest ==
  ASSUME Parameters, LineTyped, Undisturbed, NEW r \in Requests, Request(r)
  PROVE  Undisturbed'
<1> SUFFICES ASSUME disturbances' = 0
             PROVE  Unanswered'
  BY DEF Undisturbed
<1>1. /\ pc = "idle" /\ disturbances = 0 /\ pc' = "unit" /\ msg' = r /\ buf' = <<>> /\ value' = 0
      /\ rx' = Aged(rx) /\ line' = Aged(line)
      /\ due' = IF Len(due) < MAX_DUE
                THEN Append(Aged(due), [request |-> r, fresh |-> TRUE]) ELSE Aged(due)
  BY DEF Request, Cleared
<1>2. rx = <<>> /\ line = <<>> /\ due = <<>>
  BY <1>1 DEF Undisturbed, Over, NothingLeftOver, Unanswered, Reading
<1>3. rx' = <<>> /\ line' = <<>> /\ Aged(due) = <<>>
  BY <1>1, <1>2, AgedTyped DEF LineTyped
<1>4. due' = <<[request |-> r, fresh |-> TRUE]>>
  <2>1. Len(due) < MAX_DUE
    BY <1>2 DEF Parameters
  <2> DEFINE d == [request |-> r, fresh |-> TRUE]
  <2>2. due' = Append(<<>>, d)
    BY <1>1, <1>3, <2>1
  <2> HIDE DEF d
  <2>3. Append(<<>>, d) = <<d>>
    OBVIOUS
  <2> QED BY <2>2, <2>3 DEF d
<1> QED BY <1>1, <1>3, <1>4 DEF Unanswered

LEMMA LineStep ==
  ASSUME Parameters, RX_SIZE >= 8, LineInv, [Next]_vars
  PROVE  LineInv'
<1>0. LineTyped /\ HeaderRead /\ AcceptedWhole /\ Undisturbed
  BY DEF LineInv
<1>1. AcceptedWhole'
  BY <1>0, AcceptedStep
<1>2. ASSUME NEW r \in Requests, Request(r)
      PROVE  LineTyped' /\ HeaderRead' /\ Undisturbed'
  BY <1>0, <1>2, RequestStep, UndisturbedRequest
<1>3. CASE Client
  BY <1>0, <1>1, <1>3, ClientStep, UndisturbedClient DEF LineInv
<1>4. CASE Answer \/ Silent \/ Deliver \/ Disturb \/ UNCHANGED vars
  BY <1>0, <1>1, <1>4, WireStep, UndisturbedWire DEF LineInv
<1> QED BY <1>1, <1>2, <1>3, <1>4 DEF Next, LineInv

LEMMA LineInvariantMeans ==
  ASSUME LineInv
  PROVE  TypeOK /\ NothingLeftOver /\ ReadsCurrent /\ AcceptedWhole
<1>1. TypeOK
  <2>1. \A i \in DOMAIN due : due[i].request \in Requests
    <3>1. due \in Seq(Heard)
      BY DEF LineInv, LineTyped
    <3>2. \A i \in DOMAIN due : due[i] \in Heard
      BY <3>1, ElementOfSeq, LenProperties
    <3> QED BY <3>2 DEF Heard
  <2> QED BY <2>1 DEF LineInv, LineTyped, TypeOK
<1>2. NothingLeftOver /\ ReadsCurrent
  <2> SUFFICES ASSUME Idle, disturbances = 0
               PROVE  NothingLeftOver /\ ReadsCurrent
    BY DEF NothingLeftOver, ReadsCurrent
  <2>1. Over
    BY DEF LineInv, Undisturbed, Unanswered, Reading, Idle
  <2> QED BY <2>1 DEF Over
<1> QED BY <1>1, <1>2 DEF LineInv

(* For any requests, words and bounds, and a receive queue that holds one   *)
(* answer: without disturbances every transaction of ModbusRegister leaves *)
(* the line empty and returns what was said to its request, or 0; with any *)
(* number of them the answer nanomodbus accepts reads as one of a device   *)
(* to a request of this unit and function.                                 *)
THEOREM LineIsHonest ==
  ASSUME Parameters, RX_SIZE >= 8
  PROVE  Spec => [](TypeOK /\ NothingLeftOver /\ ReadsCurrent /\ AcceptedWhole)
<1>1. Init => LineInv
  BY LineStarts
<1>2. LineInv /\ [Next]_vars => LineInv'
  BY LineStep
<1>3. LineInv => TypeOK /\ NothingLeftOver /\ ReadsCurrent /\ AcceptedWhole
  BY LineInvariantMeans
<1> QED BY <1>1, <1>2, <1>3, PTL DEF Spec
=============================================================================
