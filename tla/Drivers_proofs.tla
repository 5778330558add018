--------------------------- MODULE Drivers_proofs ---------------------------
(***************************************************************************)
(* What holds of the knob, of the transmitting UART, of the EEPROM and of   *)
(* the I2C driver for every size of counter, clock, queue, FIFO, entry and *)
(* transfer: ticks and presses are accounted for, bytes go out once and in *)
(* order, a field reads as a value that was saved for it or as bad, and a  *)
(* transfer that reports success was one.                                  *)
(***************************************************************************)
EXTENDS MCDrivers, SequenceTheorems, FiniteSetTheorems, WellFoundedInduction, TLAPS

(* How far two moments look apart on a counter that wraps: never further   *)
(* than they are.                                                          *)
LEMMA WrappedDistance ==
  ASSUME NEW c \in Nat \ {0}, NEW a \in Nat, NEW b \in Nat, b <= a
  PROVE  ((a % c) - (b % c)) % c <= a - b
<1> DEFINE p == a \div c
           q == b \div c
           d == (a % c) - (b % c)
<1>1. /\ p \in Nat /\ q \in Nat /\ a % c \in 0 .. c - 1 /\ b % c \in 0 .. c - 1
      /\ a = c * p + (a % c) /\ b = c * q + (b % c)
  OBVIOUS
<1>2. d \in Int /\ -c < d /\ d < c
  BY <1>1
<1>3. a - b = c * (p - q) + d
  BY <1>1
<1>4. p - q >= 0
  <2>1. ASSUME p - q <= -1 PROVE FALSE
    <3>1. c * (p - q) <= -c
      BY <1>1, <2>1
    <3> QED BY <1>2, <1>3, <3>1
  <2> QED BY <1>1, <2>1
<1>5. CASE d >= 0
  <2>1. d % c = d
    BY <1>2, <1>5
  <2>2. c * (p - q) >= 0
    BY <1>1, <1>4
  <2> QED BY <1>2, <1>3, <2>1, <2>2
<1>6. CASE d < 0
  <2>1. d % c = d + c
    BY <1>2, <1>6
  <2>2. p - q >= 1
    BY <1>1, <1>2, <1>3, <1>4, <1>6
  <2>3. c * (p - q) >= c
    BY <1>1, <2>2
  <2> QED BY <1>1, <1>2, <1>3, <2>1, <2>3
<1> QED BY <1>2, <1>5, <1>6

-----------------------------------------------------------------------------
(* The knob                                                                *)

(* No counter exceeds the ticks there were.  What getDelta has loaded or   *)
(* the handler has counted, what was returned and what was lost make up    *)
(* the ticks of the knob at every moment, also between load and clearing.  *)
(* The moment of the last press is kept modulo the clock; before the first *)
(* press it is as if one had been debounceMs before the start.             *)
KnobInv ==
  /\ Knob!TypeOK
  /\ turns.count \in 0 .. TICKS /\ turns.sum \in Int /\ reported \in Int /\ lost \in Int
  /\ encoderValue \in -turns.count .. turns.count /\ delta \in -turns.count .. turns.count
  /\ turns = [count |-> turns.count, sum |-> turns.sum]
  /\ turns.sum = reported + lost + (IF ui = "clear" THEN delta ELSE encoderValue)
  /\ \/ lastPress = -DEBOUNCE /\ lastButtonTick = 0
     \/ lastPress \in 0 .. time /\ lastButtonTick = lastPress % CLOCK

LEMMA KnobStarts ==
  ASSUME Knob!Parameters, Knob!Init
  PROVE  KnobInv
<1>1. turns.count = 0 /\ turns.sum = 0 /\ turns = [count |-> turns.count, sum |-> turns.sum]
  BY DEF Knob!Init
<1>2. Knob!TypeOK
  <2>1. /\ 0 \in -TICKS .. TICKS /\ 0 \in 0 .. CLOCK - 1 /\ 0 \in 0 .. TIME
        /\ -DEBOUNCE \in -DEBOUNCE .. TIME
    BY DEF Knob!Parameters
  <2> QED BY <2>1 DEF Knob!Init, Knob!TypeOK
<1>3. ui # "clear"
  BY DEF Knob!Init
<1> QED BY <1>1, <1>2, <1>3 DEF Knob!Parameters, Knob!Init, KnobInv

(* A press that the test lets through is debounceMs after the one before.  *)
LEMMA DebouncedIsLater ==
  ASSUME Knob!Parameters, KnobInv, Knob!Debounced
  PROVE  time - lastPress >= DEBOUNCE
<1>1. CASE lastPress = -DEBOUNCE
  BY <1>1 DEF Knob!Parameters, KnobInv, Knob!TypeOK
<1>2. CASE lastPress \in 0 .. time /\ lastButtonTick = lastPress % CLOCK
  <2>1. /\ CLOCK \in Nat \ {0} /\ DEBOUNCE \in Nat
        /\ time \in Nat /\ lastPress \in Nat /\ lastPress <= time
    BY <1>2 DEF Knob!Parameters, KnobInv, Knob!TypeOK
  <2>2. ((time % CLOCK) - (lastPress % CLOCK)) % CLOCK >= DEBOUNCE
    BY <1>2 DEF Knob!Debounced, Knob!Now
  <2>3. ((time % CLOCK) - (lastPress % CLOCK)) % CLOCK <= time - lastPress
    BY <2>1, WrappedDistance
  <2>4. ((time % CLOCK) - (lastPress % CLOCK)) % CLOCK \in Int
    BY <2>1
  <2> QED BY <2>1, <2>2, <2>3, <2>4
<1> QED BY <1>1, <1>2 DEF KnobInv

LEMMA KnobSteps ==
  ASSUME Knob!Parameters, KnobInv, Knob!Next
  PROVE  KnobInv' /\ (lastPress' # lastPress => lastPress' - lastPress >= DEBOUNCE)
<1> USE DEF KnobInv, Knob!TypeOK, Knob!Parameters
<1>1. CASE Knob!LoadValue
  BY <1>1 DEF Knob!LoadValue
<1>2. CASE Knob!ClearValue
  BY <1>2 DEF Knob!ClearValue, Knob!ClearedValue
<1>3. CASE Knob!TestFlag
  BY <1>3 DEF Knob!TestFlag
<1>4. CASE Knob!Debounce
  <2>1. CASE Knob!Debounced
    <3>1. lastButtonTick' = time % CLOCK /\ lastPress' = time
      BY <1>4, <2>1 DEF Knob!Debounce, Knob!Now
    <3>2. time % CLOCK \in 0 .. CLOCK - 1
      OBVIOUS
    <3>3. time - lastPress >= DEBOUNCE
      BY <2>1, DebouncedIsLater
    <3> QED BY <1>4, <3>1, <3>2, <3>3 DEF Knob!Debounce
  <2>2. CASE ~Knob!Debounced
    BY <1>4, <2>2 DEF Knob!Debounce
  <2> QED BY <2>1, <2>2
<1>5. CASE Knob!Turn
  <2>1. PICK way \in {1, -1} :
          /\ encoderValue' = encoderValue + way
          /\ turns' = [count |-> turns.count + 1, sum |-> turns.sum + way]
          /\ lost' = IF ui = "clear" THEN lost + way ELSE lost
    BY <1>5 DEF Knob!Turn
  <2>2. /\ turns.count < TICKS
        /\ UNCHANGED <<buttonPressed, lastButtonTick, ui, delta, reported, time, lastPress>>
    BY <1>5 DEF Knob!Turn
  <2> QED BY <2>1, <2>2
<1>6. CASE Knob!Press
  BY <1>6 DEF Knob!Press
<1>7. CASE Knob!Tick
  BY <1>7 DEF Knob!Tick
<1> QED BY <1>1, <1>2, <1>3, <1>4, <1>5, <1>6, <1>7 DEF Knob!Next, Knob!UI

-----------------------------------------------------------------------------
(* The UART                                                                *)

(* What was sent, lies in the FIFO and lies in the queue are the bytes in  *)
(* the order they were queued.  The interrupt is enabled in the UART only  *)
(* while its condition holds or will hold when the FIFO falls to its       *)
(* watermark, and disabled with bytes in the queue only while write() is   *)
(* about to enable it.                                                     *)
UartInv ==
  /\ Uart!TypeOK
  /\ tx \in Seq(Nat) /\ fifo \in Seq(Nat) /\ onLine \in Seq(Nat) /\ queued \in Nat
  /\ Uart!SentInOrder
  /\ txim => raised \/ Len(fifo) > WATERMARK
  /\ tx # <<>> /\ ~txim => writer \in {"queue", "fill"}

LEMMA UartStarts ==
  ASSUME Uart!Parameters, Uart!Init
  PROVE  UartInv
<1>1. /\ tx = <<>> /\ fifo = <<>> /\ onLine = <<>> /\ queued = 0
      /\ writer = "idle" /\ toWrite = 0 /\ txim = FALSE /\ nvic = TRUE /\ raised = FALSE
  BY DEF Uart!Init
<1>2. Uart!SentInOrder
  BY <1>1, EmptySeq, ConcatEmptySeq DEF Uart!SentInOrder
<1>3. /\ tx \in Seq(Nat) /\ fifo \in Seq(Nat) /\ onLine \in Seq(Nat)
      /\ Len(tx) = 0 /\ Len(fifo) = 0
  BY <1>1, EmptySeq
<1>4. Uart!TypeOK
  <2>1. 0 \in 0 .. LONGEST /\ 0 <= QUEUE /\ 0 <= DEPTH
    BY DEF Uart!Parameters
  <2> QED BY <1>1, <1>3, <2>1 DEF Uart!TypeOK
<1> QED BY <1>1, <1>2, <1>3, <1>4 DEF UartInv

(* One byte more in the queue.                                             *)
LEMMA CountingUp ==
  ASSUME NEW n \in Nat
  PROVE  Append([i \in 1 .. n |-> i], n + 1) = [i \in 1 .. n + 1 |-> i]
<1> DEFINE s == [i \in 1 .. n |-> i]
           t == [i \in 1 .. n + 1 |-> i]
<1>1. s \in Seq(Nat) /\ Len(s) = n /\ t \in Seq(Nat) /\ Len(t) = n + 1 /\ n + 1 \in Nat
  OBVIOUS
<1>2. Append(s, n + 1) \in Seq(Nat) /\ Len(Append(s, n + 1)) = n + 1
  BY <1>1, AppendProperties
<1>3. \A i \in 1 .. n + 1 : Append(s, n + 1)[i] = t[i]
  BY <1>1
<1> QED BY <1>1, <1>2, <1>3, SeqEqual

LEMMA Regrouped == \A o, f, s \in Seq(Nat) : (o \o f) \o s = o \o (f \o s)
  BY ConcatAssociative, SMTT(30)

(* What is taken from a sequence, and what is left.                        *)
LEMMA BytesTaken ==
  ASSUME NEW s \in Seq(Nat), NEW n \in 0 .. Len(s)
  PROVE  /\ SubSeq(s, 1, n) \in Seq(Nat) /\ Len(SubSeq(s, 1, n)) = n
         /\ SubSeq(s, n + 1, Len(s)) \in Seq(Nat)
         /\ Len(SubSeq(s, n + 1, Len(s))) = Len(s) - n
<1>1. Len(s) \in Nat /\ n \in Nat /\ n <= Len(s)
  BY LenProperties
<1>2. \A i \in 1 .. Len(s) : s[i] \in Nat
  BY ElementOfSeq
<1>3. SubSeq(s, 1, n) \in Seq(Nat) /\ Len(SubSeq(s, 1, n)) = n
  <2>1. \A i \in 1 .. n : s[i] \in Nat
    BY <1>1, <1>2
  <2> QED BY <1>1, <2>1, SubSeqProperties
<1>4. SubSeq(s, n + 1, Len(s)) \in Seq(Nat) /\ Len(SubSeq(s, n + 1, Len(s))) = Len(s) - n
  <2>1. \A i \in n + 1 .. Len(s) : s[i] \in Nat
    BY <1>1, <1>2
  <2>2. n + 1 \in Int /\ Len(s) \in Int
    BY <1>1
  <2>3. /\ SubSeq(s, n + 1, Len(s)) \in Seq(Nat)
        /\ Len(SubSeq(s, n + 1, Len(s))) = IF n + 1 <= Len(s) THEN Len(s) - (n + 1) + 1 ELSE 0
    BY <2>1, <2>2, SubSeqProperties
  <2> QED BY <1>1, <2>3
<1> QED BY <1>3, <1>4

(* Bytes that move from the head of one sequence to the end of the one     *)
(* before it stay in their place.                                          *)
LEMMA BytesMove ==
  ASSUME NEW o \in Seq(Nat), NEW f \in Seq(Nat), NEW s \in Seq(Nat), NEW n \in 0 .. Len(s)
  PROVE  o \o (f \o SubSeq(s, 1, n)) \o SubSeq(s, n + 1, Len(s)) = o \o f \o s
<1> DEFINE first == SubSeq(s, 1, n)
           rest == SubSeq(s, n + 1, Len(s))
<1>1. first \in Seq(Nat) /\ rest \in Seq(Nat)
  BY BytesTaken
<1>2. first \o rest = s
  <2>1. 1 \in 1 .. Len(s) + 1 /\ n \in 1 - 1 .. Len(s) /\ Len(s) \in n .. Len(s)
    BY LenProperties
  <2>2. first \o rest = SubSeq(s, 1, Len(s))
    BY <2>1, ConcatAdjacentSubSeq
  <2> QED BY <2>2, SubSeqFull
<1> HIDE DEF first, rest
<1>3. f \o first \in Seq(Nat) /\ first \o rest \in Seq(Nat)
  BY <1>1, ConcatProperties
<1>4. o \o (f \o first) \o rest = o \o ((f \o first) \o rest)
  BY <1>1, <1>3, Regrouped, ZenonT(60)
<1>5. (f \o first) \o rest = f \o (first \o rest)
  BY <1>1, Regrouped
<1>6. o \o (f \o (first \o rest)) = o \o f \o (first \o rest)
  BY <1>3, Regrouped
<1> QED BY <1>2, <1>4, <1>5, <1>6 DEF first, rest

(* One byte that moves.                                                    *)
LEMMA ByteTyped ==
  ASSUME NEW f \in Seq(Nat), NEW s \in Seq(Nat), s # <<>>
  PROVE  /\ Head(s) \in Nat /\ <<Head(s)>> \in Seq(Nat)
         /\ f \o <<Head(s)>> \in Seq(Nat) /\ Len(f \o <<Head(s)>>) = Len(f) + 1
         /\ Tail(s) \in Seq(Nat) /\ Len(Tail(s)) = Len(s) - 1
<1>1. Head(s) \in Nat /\ Tail(s) \in Seq(Nat) /\ Len(Tail(s)) = Len(s) - 1 /\ <<Head(s)>> \in Seq(Nat)
  BY HeadTailProperties
<1>2. f \o <<Head(s)>> \in Seq(Nat) /\ Len(f \o <<Head(s)>>) = Len(f) + 1
  BY <1>1, ConcatProperties
<1> QED BY <1>1, <1>2

LEMMA ByteMoves ==
  ASSUME NEW o \in Seq(Nat), NEW f \in Seq(Nat), NEW s \in Seq(Nat), s # <<>>
  PROVE  o \o (f \o <<Head(s)>>) \o Tail(s) = o \o f \o s
<1>1. <<Head(s)>> \in Seq(Nat)
  BY ByteTyped
<1>2. Len(s) \in Nat \ {0}
  BY EmptySeq, LenProperties
<1>3. SubSeq(s, 1, 1) = <<Head(s)>>
  <2>1. 1 \in 1 .. Len(s) /\ s[1] = Head(s)
    BY <1>2
  <2>2. SubSeq(s, 1, 1) = <<s[1]>> \o SubSeq(s, 2, 1)
    BY <2>1, SubSeqRecursiveFirst
  <2>3. SubSeq(s, 2, 1) = <<>>
    BY SubSeqEmpty
  <2> QED BY <1>1, <2>1, <2>2, <2>3, ConcatEmptySeq
<1>4. SubSeq(s, 1 + 1, Len(s)) = Tail(s)
  BY TailIsSubSeq
<1>5. o \o (f \o SubSeq(s, 1, 1)) \o SubSeq(s, 1 + 1, Len(s)) = o \o f \o s
  <2>1. 1 \in 0 .. Len(s) /\ 1 \in Nat
    BY <1>2
  <2>2. \A n \in 0 .. Len(s) :
          o \o (f \o SubSeq(s, 1, n)) \o SubSeq(s, n + 1, Len(s)) = o \o f \o s
    <3> SUFFICES ASSUME NEW n \in 0 .. Len(s)
                 PROVE  o \o (f \o SubSeq(s, 1, n)) \o SubSeq(s, n + 1, Len(s)) = o \o f \o s
      OBVIOUS
    <3> QED BY BytesMove, ZenonT(60)
  <2> QED BY <2>1, <2>2
<1> QED BY <1>3, <1>4, <1>5

(* What bytes, FIFO and queue are after a filling; the condition of the    *)
(* interrupt holds, or will, as long as it did and the FIFO is above the   *)
(* watermark where the filling ended it.                                   *)
LEMMA FillKeepsCondition ==
  ASSUME Uart!Parameters, UartInv, NEW bytes \in Seq(Nat), Uart!Fill(bytes),
         raised \/ Len(fifo) > WATERMARK
  PROVE  raised' \/ Len(fifo') > WATERMARK
<1>1. Len(fifo) \in Nat /\ Len(bytes) \in Nat /\ Len(fifo') = Len(fifo) + Len(bytes)
  BY LenProperties, ConcatProperties DEF UartInv, Uart!Fill
<1>2. WATERMARK \in Nat
  BY DEF Uart!Parameters
<1>3. raised' = (raised /\ Len(fifo') <= WATERMARK)
  BY DEF Uart!Fill
<1>4. CASE Len(fifo') > WATERMARK
  BY <1>4
<1>5. CASE ~(Len(fifo') > WATERMARK)
  <2>1. Len(fifo') <= WATERMARK /\ ~(Len(fifo) > WATERMARK)
    BY <1>1, <1>2, <1>5
  <2> QED BY <1>3, <2>1
<1> QED BY <1>4, <1>5

LEMMA QueueByteStep ==
  ASSUME Uart!Parameters, UartInv, Uart!QueueByte
  PROVE  UartInv'
<1>1. /\ tx' = Append(tx, queued + 1) /\ queued' = queued + 1 /\ toWrite' = toWrite - 1
      /\ writer = "queue" /\ toWrite > 0 /\ Len(tx) < QUEUE
      /\ UNCHANGED <<writer, txim, nvic, fifo, raised, onLine>>
  BY DEF Uart!QueueByte
<1>2. /\ tx' \in Seq(Nat) /\ Len(tx') = Len(tx) + 1 /\ queued' \in Nat
      /\ tx' = tx \o <<queued'>> /\ <<queued'>> \in Seq(Nat)
  <2>1. queued' \in Nat /\ tx \in Seq(Nat)
    BY <1>1 DEF UartInv
  <2>2. tx' \in Seq(Nat) /\ Len(tx') = Len(tx) + 1
    BY <1>1, <2>1, AppendProperties
  <2>3. tx' = tx \o <<queued'>>
    BY <1>1, <2>1, AppendIsConcat
  <2> QED BY <2>1, <2>2, <2>3
<1>3. Uart!SentInOrder'
  <2> DEFINE before == onLine \o fifo
  <2>1. before \in Seq(Nat) /\ before \o tx = [i \in 1 .. queued |-> i]
    BY ConcatProperties DEF UartInv, Uart!SentInOrder
  <2>2. before \o tx \in Seq(Nat)
    BY <2>1, ConcatProperties DEF UartInv
  <2> HIDE DEF before
  <2>3. before \o (tx \o <<queued'>>) = (before \o tx) \o <<queued'>>
    BY <1>2, <2>1, Regrouped, ZenonT(60) DEF UartInv
  <2>4. (before \o tx) \o <<queued'>> = Append(before \o tx, queued')
    BY <1>2, <2>2, AppendIsConcat
  <2>5. Append(before \o tx, queued') = [i \in 1 .. queued' |-> i]
    BY <1>1, <2>1, CountingUp DEF UartInv
  <2> QED BY <1>1, <1>2, <2>3, <2>4, <2>5 DEF before, Uart!SentInOrder
<1>4. toWrite' \in 0 .. LONGEST /\ Len(tx') <= QUEUE
  BY <1>1, <1>2, LenProperties DEF UartInv, Uart!TypeOK, Uart!Parameters
<1>5. Uart!TypeOK'
  BY <1>1, <1>4 DEF UartInv, Uart!TypeOK
<1> QED BY <1>1, <1>2, <1>3, <1>5 DEF UartInv

LEMMA FirstFillStep ==
  ASSUME Uart!Parameters, UartInv, Uart!FirstFill
  PROVE  UartInv'
<1>1. writer = "fill" /\ UNCHANGED <<toWrite, nvic, onLine, queued>>
  BY DEF Uart!FirstFill
<1>2. CASE Uart!HasRoom /\ tx # <<>>
  <2>1. /\ Uart!Fill(<<Head(tx)>>) /\ tx' = Tail(tx) /\ UNCHANGED <<writer, txim>>
        /\ Len(fifo) < DEPTH /\ fifo' = fifo \o <<Head(tx)>>
    BY <1>2 DEF Uart!FirstFill, Uart!HasRoom, Uart!Fill
  <2>2. /\ fifo' \in Seq(Nat) /\ Len(fifo') = Len(fifo) + 1
        /\ tx' \in Seq(Nat) /\ Len(tx') = Len(tx) - 1 /\ <<Head(tx)>> \in Seq(Nat)
    BY <1>2, <2>1, ByteTyped DEF UartInv
  <2>3. onLine \o fifo' \o tx' = onLine \o fifo \o tx
    <3>1. onLine \o (fifo \o <<Head(tx)>>) \o Tail(tx) = onLine \o fifo \o tx
      BY <1>2, ByteMoves DEF UartInv
    <3> QED BY <2>1, <3>1
  <2>4. Uart!SentInOrder'
    BY <1>1, <2>3 DEF UartInv, Uart!SentInOrder
  <2>5. txim' => raised' \/ Len(fifo') > WATERMARK
    BY <2>1, <2>2, FillKeepsCondition DEF UartInv
  <2>6. Len(tx') <= QUEUE /\ Len(fifo') <= DEPTH /\ raised' \in BOOLEAN
    <3>1. Len(tx) \in Nat /\ Len(fifo) \in Nat
      BY LenProperties DEF UartInv
    <3>2. raised' \in BOOLEAN
      BY <2>1 DEF Uart!Fill
    <3> QED BY <2>1, <2>2, <3>1, <3>2 DEF UartInv, Uart!TypeOK, Uart!Parameters
  <2>7. Uart!TypeOK'
    BY <1>1, <2>1, <2>6 DEF UartInv, Uart!TypeOK
  <2> QED BY <1>1, <2>1, <2>2, <2>4, <2>5, <2>7 DEF UartInv
<1>3. CASE ~(Uart!HasRoom /\ tx # <<>>)
  <2>1. writer' = "release" /\ txim' = (tx # <<>>) /\ UNCHANGED <<tx, fifo, raised>>
    BY <1>3 DEF Uart!FirstFill
  <2>2. tx # <<>> => Len(fifo) > WATERMARK
    <3>1. Len(fifo) \in Nat
      BY LenProperties DEF UartInv
    <3> QED BY <1>3, <3>1 DEF Uart!HasRoom, Uart!Parameters
  <2>3. Uart!TypeOK' /\ Uart!SentInOrder'
    BY <1>1, <2>1 DEF UartInv, Uart!TypeOK, Uart!SentInOrder
  <2> QED BY <1>1, <2>1, <2>2, <2>3 DEF UartInv
<1> QED BY <1>2, <1>3

LEMMA IrqTxStep ==
  ASSUME Uart!Parameters, UartInv, Uart!IrqTx
  PROVE  UartInv'
<1> DEFINE room == DEPTH - Len(fifo)
           n == IF room < Len(tx) THEN room ELSE Len(tx)
           moved == SubSeq(tx, 1, n)
<1>1. /\ Uart!Fill(moved) /\ fifo' = fifo \o moved /\ tx' = SubSeq(tx, n + 1, Len(tx))
      /\ txim' = (txim /\ tx' # <<>>)
      /\ UNCHANGED <<writer, toWrite, nvic, onLine, queued>>
  BY DEF Uart!IrqTx, Uart!Refill, Uart!Left, Uart!Fill
<1>2. Len(fifo) \in Nat /\ Len(tx) \in Nat /\ room \in Nat /\ n \in 0 .. Len(tx) /\ n <= room
  BY LenProperties DEF UartInv, Uart!TypeOK, Uart!Parameters
<1>3. moved \in Seq(Nat) /\ Len(moved) = n /\ tx' \in Seq(Nat) /\ Len(tx') = Len(tx) - n
  BY <1>1, <1>2, BytesTaken DEF UartInv
<1>4. fifo' \in Seq(Nat) /\ Len(fifo') = Len(fifo) + n
  BY <1>1, <1>3, ConcatProperties DEF UartInv
<1>5. onLine \o fifo' \o tx' = onLine \o fifo \o tx
  BY <1>1, <1>2, BytesMove, ZenonT(60) DEF UartInv
<1> HIDE DEF moved
<1>6. Uart!SentInOrder'
  BY <1>1, <1>5 DEF UartInv, Uart!SentInOrder
<1>7. Len(tx') <= QUEUE /\ Len(fifo') <= DEPTH
  BY <1>2, <1>3, <1>4 DEF UartInv, Uart!TypeOK, Uart!Parameters
<1>8. raised' \in BOOLEAN /\ txim' \in BOOLEAN
  BY <1>1 DEF Uart!Fill
<1>9. Uart!TypeOK'
  BY <1>1, <1>7, <1>8 DEF UartInv, Uart!TypeOK
<1>10. txim' => raised' \/ Len(fifo') > WATERMARK
  BY <1>1, <1>3, FillKeepsCondition DEF UartInv
<1>11. tx' # <<>> /\ ~txim' => writer' \in {"queue", "fill"}
  <2>1. tx' # <<>> => tx # <<>>
    BY <1>2, <1>3, EmptySeq
  <2> QED BY <1>1, <2>1 DEF UartInv
<1> QED BY <1>1, <1>3, <1>4, <1>6, <1>9, <1>10, <1>11 DEF UartInv

LEMMA SendByteStep ==
  ASSUME Uart!Parameters, UartInv, Uart!SendByte
  PROVE  UartInv'
<1>1. /\ fifo # <<>> /\ fifo' = Tail(fifo) /\ onLine' = Append(onLine, Head(fifo))
      /\ raised' = (raised \/ Len(fifo') = WATERMARK)
      /\ UNCHANGED <<writer, toWrite, tx, txim, nvic, queued>>
  BY DEF Uart!SendByte
<1>2. /\ fifo' \in Seq(Nat) /\ Len(fifo') = Len(fifo) - 1 /\ Head(fifo) \in Nat
      /\ Len(fifo) \in Nat \ {0}
  BY <1>1, HeadTailProperties, EmptySeq DEF UartInv
<1>3. onLine' \in Seq(Nat) /\ onLine' = onLine \o <<Head(fifo)>>
  BY <1>1, <1>2, AppendProperties, AppendIsConcat DEF UartInv
<1>4. onLine' \o fifo' = onLine \o fifo
  <2>2. /\ <<>> \in Seq(Nat) /\ <<>> \o <<Head(fifo)>> = <<Head(fifo)>>
        /\ onLine \o <<>> = onLine /\ <<Head(fifo)>> \in Seq(Nat)
    BY <1>2, EmptySeq, ConcatEmptySeq DEF UartInv
  <2>3. onLine \o (<<>> \o <<Head(fifo)>>) \o Tail(fifo) = onLine \o <<>> \o fifo
    BY <1>1, <2>2, ByteMoves DEF UartInv
  <2> QED BY <1>1, <1>3, <2>2, <2>3
<1>5. Uart!SentInOrder'
  BY <1>1, <1>4 DEF UartInv, Uart!SentInOrder
<1>6. Len(fifo') <= DEPTH /\ raised' \in BOOLEAN
  <2>1. Len(fifo) <= DEPTH /\ DEPTH \in Nat
    BY DEF UartInv, Uart!TypeOK, Uart!Parameters
  <2>2. Len(fifo') <= DEPTH
    BY ONLY <1>2, <2>1
  <2> QED BY <1>1, <2>2
<1>7. Uart!TypeOK'
  BY <1>1, <1>6 DEF UartInv, Uart!TypeOK
<1>8. raised \/ Len(fifo) > WATERMARK => raised' \/ Len(fifo') > WATERMARK
  <2>1. WATERMARK \in Nat
    BY DEF Uart!Parameters
  <2>2. Len(fifo) > WATERMARK => Len(fifo') > WATERMARK \/ Len(fifo') = WATERMARK
    BY ONLY <1>2, <2>1
  <2> QED BY <1>1, <2>2
<1> QED BY <1>1, <1>2, <1>3, <1>5, <1>7, <1>8 DEF UartInv

(* The steps of the writer that move no byte.                              *)
LEMMA WriterSteps ==
  ASSUME Uart!Parameters, UartInv, Uart!Call \/ Uart!NoRoom \/ Uart!HoldOff \/ Uart!Release
  PROVE  UartInv'
<1>1. UNCHANGED <<tx, txim, fifo, raised, onLine, queued>>
  BY DEF Uart!Call, Uart!NoRoom, Uart!HoldOff, Uart!Release
<1>2. /\ writer' \in {"idle", "queue", "fill", "release"}
      /\ toWrite' \in 0 .. LONGEST
      /\ nvic' \in BOOLEAN
      /\ tx # <<>> /\ ~txim => writer' \in {"queue", "fill"}
  <2>1. CASE Uart!Call
    <3>1. /\ writer' = "queue" /\ nvic' = nvic
          /\ \E size \in 1 .. LONGEST : toWrite' = size
      BY <2>1 DEF Uart!Call
    <3> QED BY <3>1 DEF UartInv, Uart!TypeOK, Uart!Parameters
  <2>2. CASE Uart!HoldOff
    <3>1. /\ writer' = (IF txim THEN "release" ELSE "fill")
          /\ toWrite' = toWrite /\ nvic' = FALSE
      BY <2>2 DEF Uart!HoldOff
    <3> QED BY <3>1 DEF UartInv, Uart!TypeOK
  <2>3. CASE Uart!Release
    <3>1. /\ writer = "release" /\ writer' = "idle" /\ toWrite' = toWrite /\ nvic' = TRUE
      BY <2>3 DEF Uart!Release
    <3>2. ~(tx # <<>> /\ ~txim)
      BY <3>1 DEF UartInv
    <3> QED BY <3>1, <3>2 DEF UartInv, Uart!TypeOK
  <2>4. CASE Uart!NoRoom
    <3>1. writer = "queue" /\ writer' = "queue" /\ toWrite' = 0 /\ nvic' = nvic
      BY <2>4 DEF Uart!NoRoom
    <3>2. 0 \in 0 .. LONGEST
      BY DEF Uart!Parameters
    <3> QED BY <3>1, <3>2 DEF UartInv, Uart!TypeOK
  <2> QED BY <2>1, <2>2, <2>3, <2>4
<1>3. Uart!TypeOK'
  BY <1>1, <1>2 DEF UartInv, Uart!TypeOK
<1> QED BY <1>1, <1>2, <1>3 DEF UartInv, Uart!SentInOrder

LEMMA UartSteps ==
  ASSUME Uart!Parameters, UartInv, Uart!Next
  PROVE  UartInv'
BY WriterSteps, QueueByteStep, FirstFillStep, IrqTxStep, SendByteStep DEF Uart!Next, Uart!Writing

-----------------------------------------------------------------------------
(* The EEPROM                                                              *)

Entry(field) == Eeprom!Address(field) .. Eeprom!Address(field) + ENTRY_SIZE - 1
WifiFields == {"ssid", "password"}

\* What the checksum of a value's record is taken of.
BodyOf(field, given) == IF field = "co2" THEN given ELSE given \o <<Eeprom!ZERO>>

\* The first byte of a checksum, wherever it lies, is that of a value saved.
ChecksumsOfSaved ==
  \A field \in Eeprom!Fields : \A a \in Entry(field) :
    Len(memory[a]) = 2 /\ memory[a][1] = "high" =>
      \E given \in saved[field] : memory[a][2] = BodyOf(field, given)

Holds(field, text) ==
  \A i \in 1 .. Len(text) + 3 :
    memory[Eeprom!Address(field) + i - 1] = Eeprom!TextRecord(text)[i]
Untouched(field) == \A a \in Entry(field) : memory[a] = Eeprom!BLANK

(* As long as no write was incomplete, the name and the password of one    *)
(* configuration are there, and in the middle of a save its name.          *)
RecordsWhole ==
  /\ \A field \in WifiFields : Untouched(field) \/ \E text \in Eeprom!Texts : Holds(field, text)
  /\ step = "idle" /\ pairs # {} =>
       \E pair \in pairs : Holds("ssid", pair[1]) /\ Holds("password", pair[2])
  /\ step = "password" => Holds("ssid", info[1])

EepromInv ==
  /\ Eeprom!TypeOK
  /\ saved = [field \in Eeprom!Fields |-> saved[field]]
  /\ step # "idle" => info \in pairs
  /\ ChecksumsOfSaved
  /\ faults = 0 => RecordsWhole

LEMMA PairIsSequence ==
  ASSUME NEW a, NEW b, NEW S, a \in S, b \in S
  PROVE  <<a, b>> \in Seq(S) /\ Len(<<a, b>>) = 2
OBVIOUS

LEMMA PairsJoined ==
  ASSUME NEW a, NEW b, NEW c, NEW d
  PROVE  <<a, b>> \o <<c, d>> = <<a, b, c, d>>
<1> DEFINE S == {a, b, c, d}
           s == <<a, b>>
           t == <<c, d>>
           joined == <<a, b, c, d>>
<1>1. /\ s \in Seq(S) /\ Len(s) = 2 /\ s[1] = a /\ s[2] = b
      /\ t \in Seq(S) /\ Len(t) = 2 /\ t[1] = c /\ t[2] = d
  OBVIOUS
<1>2. joined \in Seq(S) /\ Len(joined) = 4
  OBVIOUS
<1>3. joined[1] = a /\ joined[2] = b /\ joined[3] = c /\ joined[4] = d
  OBVIOUS
<1> HIDE DEF S, s, t, joined
<1>4. /\ s \o t \in Seq(S) /\ Len(s \o t) = Len(s) + Len(t)
      /\ \A i \in 1 .. Len(s) + Len(t) :
           (s \o t)[i] = IF i <= Len(s) THEN s[i] ELSE t[i - Len(s)]
  BY <1>1, ConcatProperties
<1>5. (s \o t)[1] = a /\ (s \o t)[2] = b /\ (s \o t)[3] = c /\ (s \o t)[4] = d
  BY <1>1, <1>4
<1>6. s \o t \in Seq(S) /\ Len(s \o t) = 4 /\ \A i \in 1 .. 4 : (s \o t)[i] = joined[i]
  BY <1>1, <1>3, <1>4, <1>5
<1> QED BY <1>2, <1>6, SeqEqual DEF s, t, joined

LEMMA TextIsSequence ==
  ASSUME Eeprom!Parameters, NEW text \in Eeprom!Texts
  PROVE  text \in Seq(Chars) /\ Len(text) \in 0 .. MAX_TEXT
<1>1. PICK n \in 0 .. MAX_TEXT : text \in [1 .. n -> Chars]
  BY DEF Eeprom!Texts
<1>2. n \in Nat /\ MAX_TEXT \in Nat
  BY DEF Eeprom!Parameters
<1> QED BY <1>1, <1>2

(* The bytes of a text and its terminator.                                 *)
LEMMA TextBody ==
  ASSUME Eeprom!Parameters, NEW text \in Eeprom!Texts
  PROVE  /\ text \o <<Eeprom!ZERO>> \in Seq(Chars \cup {Eeprom!ZERO})
         /\ Len(text \o <<Eeprom!ZERO>>) = Len(text) + 1
         /\ \A i \in 1 .. Len(text) : (text \o <<Eeprom!ZERO>>)[i] = text[i]
         /\ (text \o <<Eeprom!ZERO>>)[Len(text) + 1] = Eeprom!ZERO
<1> DEFINE S == Chars \cup {Eeprom!ZERO}
           zero == <<Eeprom!ZERO>>
<1>1. text \in Seq(Chars) /\ Len(text) \in Nat
  BY TextIsSequence
<1>2. text \in Seq(S)
  BY <1>1
<1>3. zero \in Seq(S) /\ Len(zero) = 1 /\ zero[1] = Eeprom!ZERO
  OBVIOUS
<1> HIDE DEF zero, S
<1>4. /\ text \o zero \in Seq(S) /\ Len(text \o zero) = Len(text) + Len(zero)
      /\ \A i \in 1 .. Len(text) + Len(zero) :
           (text \o zero)[i] = IF i <= Len(text) THEN text[i] ELSE zero[i - Len(text)]
  BY <1>2, <1>3, ConcatProperties
<1> QED BY <1>1, <1>3, <1>4 DEF zero, S

(* The bytes of a text's record.                                           *)
LEMMA TextRecordCells ==
  ASSUME Eeprom!Parameters, NEW text \in Eeprom!Texts,
         NEW body, body = text \o <<Eeprom!ZERO>>
  PROVE  /\ Len(Eeprom!TextRecord(text)) = Len(text) + 3
         /\ \A i \in 1 .. Len(text) : Eeprom!TextRecord(text)[i] = text[i]
         /\ Eeprom!TextRecord(text)[Len(text) + 1] = Eeprom!ZERO
         /\ Eeprom!TextRecord(text)[Len(text) + 2] = Eeprom!Crc(body)[1]
         /\ Eeprom!TextRecord(text)[Len(text) + 3] = Eeprom!Crc(body)[2]
<1> DEFINE crc == Eeprom!Crc(body)
           S == Chars \cup {Eeprom!ZERO} \cup {crc[1], crc[2]}
<1>1. Len(text) \in Nat
  BY TextIsSequence
<1>2. /\ body \in Seq(Chars \cup {Eeprom!ZERO}) /\ Len(body) = Len(text) + 1
      /\ \A i \in 1 .. Len(text) : body[i] = text[i]
      /\ body[Len(text) + 1] = Eeprom!ZERO
  BY TextBody
<1>3. crc = <<crc[1], crc[2]>>
  BY DEF Eeprom!Crc
<1> HIDE DEF crc
<1>4. body \in Seq(S)
  BY <1>2
<1>5. crc \in Seq(S) /\ Len(crc) = 2
  <2>1. crc[1] \in S /\ crc[2] \in S
    OBVIOUS
  <2> HIDE DEF S
  <2>2. <<crc[1], crc[2]>> \in Seq(S) /\ Len(<<crc[1], crc[2]>>) = 2
    BY <2>1, PairIsSequence
  <2> QED BY ONLY <1>3, <2>2
<1>6. Eeprom!TextRecord(text) = body \o crc
  BY DEF Eeprom!TextRecord, crc
<1> HIDE DEF S
<1>7. /\ body \o crc \in Seq(S) /\ Len(body \o crc) = Len(body) + Len(crc)
      /\ \A i \in 1 .. Len(body) + Len(crc) :
           (body \o crc)[i] = IF i <= Len(body) THEN body[i] ELSE crc[i - Len(body)]
  BY ONLY <1>4, <1>5, ConcatProperties
<1>8. /\ Len(body \o crc) = Len(text) + 3
      /\ \A i \in 1 .. Len(text) : (body \o crc)[i] = text[i]
      /\ (body \o crc)[Len(text) + 1] = Eeprom!ZERO
  BY <1>1, <1>2, <1>5, <1>7
<1>9. (body \o crc)[Len(text) + 2] = crc[1] /\ (body \o crc)[Len(text) + 3] = crc[2]
  BY <1>1, <1>2, <1>5, <1>7
<1> QED BY <1>6, <1>8, <1>9 DEF crc

\* A record in which what could be the first byte of a checksum is that of body.
RecordOf(record, body) ==
  /\ Len(record) \in 0 .. ENTRY_SIZE
  /\ \A i \in 1 .. Len(record) :
       Len(record[i]) = 2 /\ record[i][1] = "high" => record[i][2] = body

LEMMA CrcCells ==
  ASSUME NEW body, NEW cell \in {Eeprom!Crc(body)[1], Eeprom!Crc(body)[2]},
         Len(cell) = 2, cell[1] = "high"
  PROVE  cell[2] = body
<1>1. Eeprom!Crc(body)[1] = <<"high", body>>
  BY DEF Eeprom!Crc
<1>2. Eeprom!Crc(body)[2] \in {Eeprom!ZERO, <<"low", body>>}
  BY DEF Eeprom!Crc
<1>3. Len(Eeprom!ZERO) = 1
  BY DEF Eeprom!ZERO
<1> QED BY <1>1, <1>2, <1>3

LEMMA TextRecordWhole ==
  ASSUME Eeprom!Parameters, NEW text \in Eeprom!Texts
  PROVE  RecordOf(Eeprom!TextRecord(text), text \o <<Eeprom!ZERO>>)
<1> DEFINE record == Eeprom!TextRecord(text)
           body == text \o <<Eeprom!ZERO>>
<1>1. text \in Seq(Chars) /\ Len(text) \in 0 .. MAX_TEXT /\ Len(text) \in Nat
  BY TextIsSequence
<1>2. Len(record) = Len(text) + 3
  BY TextRecordCells
<1>3. Len(record) \in 0 .. ENTRY_SIZE
  BY <1>1, <1>2 DEF Eeprom!Parameters
<1>4. ASSUME NEW i \in 1 .. Len(record), Len(record[i]) = 2, record[i][1] = "high"
      PROVE  record[i][2] = body
  <2>1. CASE i \in 1 .. Len(text)
    <3>1. record[i] = text[i]
      BY <2>1, TextRecordCells
    <3>2. text[i] \in Chars
      BY <1>1, <2>1
    <3> QED BY <1>4, <3>1, <3>2 DEF Eeprom!Parameters
  <2>2. CASE i = Len(text) + 1
    <3>1. record[i] = Eeprom!ZERO
      BY <2>2, TextRecordCells
    <3> QED BY <1>4, <3>1 DEF Eeprom!ZERO
  <2>3. CASE i \in {Len(text) + 2, Len(text) + 3}
    <3>1. record[i] \in {Eeprom!Crc(body)[1], Eeprom!Crc(body)[2]}
      BY <2>3, TextRecordCells
    <3> HIDE DEF body, record
    <3> QED BY <1>4, <3>1, CrcCells
  <2> QED BY <1>1, <1>2, <2>1, <2>2, <2>3
<1> QED BY <1>3, <1>4 DEF RecordOf

LEMMA LevelRecordCells ==
  ASSUME Eeprom!Parameters, NEW level \in Levels
  PROVE  /\ Len(Eeprom!LevelRecord(level)) = 4
         /\ RecordOf(Eeprom!LevelRecord(level), level)
<1> DEFINE crc == Eeprom!Crc(level)
<1>1. level = <<level[1], level[2]>> /\ Len(level[1]) = 1 /\ Len(level[2]) = 1
  BY DEF Eeprom!Parameters
<1>2. crc = <<crc[1], crc[2]>>
  BY DEF Eeprom!Crc
<1> HIDE DEF crc
<1>3. Eeprom!LevelRecord(level) = <<level[1], level[2], crc[1], crc[2]>>
  <2>1. level \o crc = <<level[1], level[2]>> \o <<crc[1], crc[2]>>
    BY ONLY <1>1, <1>2
  <2>2. <<level[1], level[2]>> \o <<crc[1], crc[2]>> = <<level[1], level[2], crc[1], crc[2]>>
    BY PairsJoined
  <2> QED BY <2>1, <2>2 DEF Eeprom!LevelRecord, crc
<1>4. \A i \in 1 .. 4 : LET cell == Eeprom!LevelRecord(level)[i]
                        IN  Len(cell) = 2 /\ cell[1] = "high" => cell[2] = level
  <2>1. \A cell \in {crc[1], crc[2]} : Len(cell) = 2 /\ cell[1] = "high" => cell[2] = level
    BY CrcCells DEF crc
  <2> QED BY <1>1, <1>3, <2>1
<1>5. Len(Eeprom!LevelRecord(level)) = 4 /\ ENTRY_SIZE \in Nat /\ ENTRY_SIZE >= 4
  BY <1>3 DEF Eeprom!Parameters
<1> QED BY <1>4, <1>5 DEF RecordOf

(* The entries lie in the memory and do not overlap.                       *)
LEMMA EntriesApart ==
  ASSUME Eeprom!Parameters, NEW f \in Eeprom!Fields
  PROVE  /\ Eeprom!Address(f) \in Nat /\ Entry(f) \subseteq Eeprom!Cells
         /\ \A g \in Eeprom!Fields, a \in Entry(f) : a \in Entry(g) => g = f
<1>1. ENTRY_SIZE \in Nat /\ ENTRY_SIZE >= 4
  BY DEF Eeprom!Parameters
<1> QED BY <1>1 DEF Eeprom!Fields, Eeprom!Address, Eeprom!Cells, Entry

(* What a write that was complete or not has programmed.                   *)
LEMMA Written ==
  ASSUME Eeprom!Parameters, NEW field, NEW record, NEW body, RecordOf(record, body), NEW outcome,
         Eeprom!WriteBytes(field, record, outcome), faults \in Nat
  PROVE  /\ \E n \in 0 .. Len(record) : memory' = Eeprom!Program(field, record, n)
         /\ faults' = faults \/ (faults < FAULTS /\ faults' = faults + 1)
         /\ faults' = 0 => /\ faults = 0 /\ outcome = TRUE
                           /\ memory' = Eeprom!Program(field, record, Len(record))
<1>1. Eeprom!Fits(record) /\ Len(record) \in Nat /\ Len(record) \in 0 .. Len(record)
  BY DEF RecordOf, Eeprom!Fits, Eeprom!Parameters
<1>2. CASE /\ memory' = Eeprom!Program(field, record, Len(record))
           /\ outcome = TRUE
           /\ UNCHANGED faults
  BY <1>1, <1>2
<1>3. CASE /\ faults < FAULTS /\ faults' = faults + 1
           /\ \E n \in 0 .. Len(record) : memory' = Eeprom!Program(field, record, n)
  <2>1. faults' # 0
    BY <1>3
  <2> QED BY <1>3, <2>1
<1> QED BY <1>1, <1>2, <1>3 DEF Eeprom!WriteBytes

(* A write changes cells of its own entry only, to those of its record.    *)
LEMMA Programmed ==
  ASSUME Eeprom!Parameters, NEW field \in Eeprom!Fields, NEW record, NEW body,
         RecordOf(record, body), NEW n \in 0 .. Len(record),
         memory' = Eeprom!Program(field, record, n),
         NEW f \in Eeprom!Fields, NEW a \in Entry(f)
  PROVE  \/ /\ f = field /\ a - Eeprom!Address(f) + 1 \in 1 .. n
            /\ memory'[a] = record[a - Eeprom!Address(f) + 1]
         \/ /\ f = field => a - Eeprom!Address(f) + 1 > n
            /\ memory'[a] = memory[a]
<1> DEFINE first == Eeprom!Address(field)
<1>1. first \in Nat /\ a \in Int /\ n \in Nat /\ n <= ENTRY_SIZE /\ ENTRY_SIZE \in Nat
  BY EntriesApart DEF RecordOf, Entry, Eeprom!Parameters
<1>2. a \in Eeprom!Cells /\ (a \in Entry(field) => f = field)
  BY EntriesApart
<1>3. memory'[a] = IF a \in first .. first + n - 1 THEN record[a - first + 1] ELSE memory[a]
  BY <1>2 DEF Eeprom!Program
<1>4. CASE a \in first .. first + n - 1
  <2>1. a \in Entry(field)
    BY <1>1, <1>4 DEF Entry
  <2>2. a - first + 1 \in 1 .. n
    BY <1>1, <1>4
  <2> QED BY <1>2, <1>3, <1>4, <2>1, <2>2
<1>5. CASE a \notin first .. first + n - 1
  <2>1. f = field => a >= first
    BY <1>1 DEF Entry
  <2>2. f = field => a - first + 1 > n
    BY <1>1, <1>5, <2>1
  <2> QED BY <1>3, <1>5, <2>2
<1> QED BY <1>4, <1>5

(* Whatever of a record is programmed over whatever lies there, the first  *)
(* byte of a checksum is one of a value saved.                             *)
LEMMA ChecksumsStay ==
  ASSUME Eeprom!Parameters, EepromInv, NEW field \in Eeprom!Fields, NEW record,
         NEW given, RecordOf(record, BodyOf(field, given)), NEW outcome,
         Eeprom!WriteBytes(field, record, outcome),
         saved' = [saved EXCEPT ![field] = @ \cup {given}]
  PROVE  ChecksumsOfSaved'
<1> DEFINE body == BodyOf(field, given)
<1>1. PICK n \in 0 .. Len(record) : memory' = Eeprom!Program(field, record, n)
  <2>1. faults \in Nat
    BY DEF EepromInv, Eeprom!TypeOK, Eeprom!Parameters
  <2> QED BY <2>1, Written
<1>2. \A f \in Eeprom!Fields : saved[f] \subseteq saved'[f]
  BY DEF EepromInv
<1>3. given \in saved'[field]
  BY DEF EepromInv
<1>4. SUFFICES ASSUME NEW f \in Eeprom!Fields, NEW a \in Entry(f),
                      Len(memory'[a]) = 2, memory'[a][1] = "high"
               PROVE  \E one \in saved'[f] : memory'[a][2] = BodyOf(f, one)
  BY DEF ChecksumsOfSaved
<1>5. CASE f = field /\ \E i \in 1 .. n : memory'[a] = record[i]
  <2>1. PICK i \in 1 .. n : memory'[a] = record[i]
    BY <1>5
  <2>2. i \in 1 .. Len(record)
    BY <2>1 DEF RecordOf
  <2>3. memory'[a][2] = body
    BY <1>4, <2>1, <2>2 DEF RecordOf
  <2> QED BY <1>3, <1>5, <2>3
<1>6. CASE memory'[a] = memory[a]
  <2>1. \E one \in saved[f] : memory[a][2] = BodyOf(f, one)
    BY <1>4, <1>6 DEF EepromInv, ChecksumsOfSaved
  <2> QED BY <1>2, <1>6, <2>1
<1> HIDE DEF body
<1>7. \/ f = field /\ \E i \in 1 .. n : memory'[a] = record[i]
      \/ memory'[a] = memory[a]
  BY <1>1, Programmed DEF body
<1> QED BY <1>5, <1>6, <1>7

(* A whole record of a text is held by its field; the other texts stay.    *)
LEMMA HeldAfter ==
  ASSUME Eeprom!Parameters, NEW field \in Eeprom!Fields, NEW text \in Eeprom!Texts,
         memory' = Eeprom!Program(field, Eeprom!TextRecord(text), Len(Eeprom!TextRecord(text)))
  PROVE  Holds(field, text)'
<1> DEFINE record == Eeprom!TextRecord(text)
           first == Eeprom!Address(field)
<1>1. /\ Len(record) = Len(text) + 3 /\ Len(text) \in Nat
      /\ Len(record) <= ENTRY_SIZE /\ ENTRY_SIZE \in Nat /\ first \in Nat
  <2>1. Len(record) = Len(text) + 3
    BY TextRecordCells
  <2>2. Len(text) \in Nat /\ first \in Nat /\ ENTRY_SIZE \in Nat
    BY TextIsSequence, EntriesApart DEF Eeprom!Parameters
  <2>3. Len(record) \in 0 .. ENTRY_SIZE
    BY TextRecordWhole DEF RecordOf
  <2> QED BY <2>1, <2>2, <2>3
<1>2. SUFFICES ASSUME NEW i \in 1 .. Len(text) + 3
               PROVE  memory'[first + i - 1] = record[i]
  BY DEF Holds
<1>3. first + i - 1 \in Entry(field)
  BY <1>1 DEF Entry
<1>4. first + i - 1 \in Eeprom!Cells
  BY <1>3, EntriesApart
<1>5. /\ first + i - 1 \in first .. first + Len(record) - 1
      /\ (first + i - 1) - first + 1 = i
  BY <1>1
<1>6. memory'[first + i - 1] = record[(first + i - 1) - first + 1]
  BY <1>4, <1>5 DEF Eeprom!Program
<1> QED BY <1>5, <1>6

LEMMA OthersHeld ==
  ASSUME Eeprom!Parameters, NEW field \in Eeprom!Fields, NEW record, NEW body,
         RecordOf(record, body), NEW n \in 0 .. Len(record),
         memory' = Eeprom!Program(field, record, n),
         NEW f \in Eeprom!Fields, f # field
  PROVE  /\ Untouched(f) => Untouched(f)'
         /\ \A text \in Eeprom!Texts : Holds(f, text) => Holds(f, text)'
<1>1. \A a \in Entry(f) : memory'[a] = memory[a]
  BY Programmed
<1>2. ASSUME NEW text \in Eeprom!Texts, NEW i \in 1 .. Len(text) + 3
      PROVE  Eeprom!Address(f) + i - 1 \in Entry(f)
  <2>1. Len(text) \in 0 .. MAX_TEXT
    BY TextIsSequence
  <2>2. Eeprom!Address(f) \in Nat
    BY EntriesApart
  <2> QED BY <2>1, <2>2 DEF Entry, Eeprom!Parameters
<1> QED BY <1>1, <1>2 DEF Untouched, Holds

LEMMA EepromStarts ==
  ASSUME Eeprom!Parameters, Eeprom!Init
  PROVE  EepromInv
<1>1. /\ memory = [a \in Eeprom!Cells |-> Eeprom!BLANK]
      /\ step = "idle" /\ info = <<<<>>, <<>>>>
      /\ saved = [f \in Eeprom!Fields |-> {}] /\ pairs = {}
      /\ saves = 0 /\ faults = 0
  BY DEF Eeprom!Init
<1>2. /\ ENTRY_SIZE \in Nat /\ ENTRY_SIZE >= 4 /\ MAX_TEXT \in Nat /\ FAULTS \in Nat
  BY DEF Eeprom!Parameters
<1>3. <<>> \in Eeprom!Texts
  <2>1. <<>> \in [1 .. 0 -> Chars] /\ 0 \in 0 .. MAX_TEXT
    BY <1>2
  <2> QED BY <2>1 DEF Eeprom!Texts
<1>4. \A f \in Eeprom!Fields : Untouched(f)
  BY <1>1, EntriesApart DEF Untouched
<1>5. Eeprom!TypeOK
  <2>1. \A a \in 4 .. ENTRY_SIZE - 1 : a \in Eeprom!Cells
    BY <1>2 DEF Eeprom!Cells
  <2>2. info \in Eeprom!Texts \X Eeprom!Texts
    BY <1>1, <1>3
  <2>3. saved["ssid"] = {} /\ saved["password"] = {} /\ saved["co2"] = {}
    BY <1>1 DEF Eeprom!Fields
  <2>4. DOMAIN memory = Eeprom!Cells /\ \A a \in 4 .. ENTRY_SIZE - 1 : memory[a] = Eeprom!BLANK
    BY <1>1, <2>1
  <2>5. step \in {"idle", "ssid", "password"} /\ faults \in 0 .. FAULTS
    BY <1>1, <1>2
  <2> QED BY <1>1, <2>2, <2>3, <2>4, <2>5 DEF Eeprom!TypeOK
<1>6. ChecksumsOfSaved
  <2>1. Len(Eeprom!BLANK) = 1
    BY DEF Eeprom!BLANK
  <2> QED BY <1>4, <2>1 DEF ChecksumsOfSaved, Untouched
<1>7. RecordsWhole
  BY <1>1, <1>4 DEF RecordsWhole, WifiFields, Eeprom!Fields
<1> QED BY <1>1, <1>5, <1>6, <1>7 DEF EepromInv

(* The types of what a write leaves.                                       *)
LEMMA MemoryTyped ==
  ASSUME Eeprom!Parameters, EepromInv, NEW field \in Eeprom!Fields, NEW record, NEW body,
         RecordOf(record, body), field = "co2" => Len(record) = 4, NEW outcome,
         Eeprom!WriteBytes(field, record, outcome)
  PROVE  /\ DOMAIN memory' = Eeprom!Cells
         /\ \A a \in 4 .. ENTRY_SIZE - 1 : memory'[a] = Eeprom!BLANK
         /\ faults' \in 0 .. FAULTS
<1>1. faults \in 0 .. FAULTS /\ faults \in Nat /\ FAULTS \in Nat
  BY DEF EepromInv, Eeprom!TypeOK, Eeprom!Parameters
<1>2. PICK n \in 0 .. Len(record) : memory' = Eeprom!Program(field, record, n)
  BY <1>1, Written
<1>3. DOMAIN memory' = Eeprom!Cells
  BY <1>2 DEF Eeprom!Program
<1>4. ASSUME NEW a \in 4 .. ENTRY_SIZE - 1
      PROVE  memory'[a] = Eeprom!BLANK
  <2>1. a \in Entry("co2") /\ "co2" \in Eeprom!Fields /\ Eeprom!Address("co2") = 0
    BY DEF Entry, Eeprom!Address, Eeprom!Fields, Eeprom!Parameters
  <2>2. ~("co2" = field /\ a - 0 + 1 \in 1 .. n)
    <3>1. a > 3 /\ a \in Int
      BY DEF Eeprom!Parameters
    <3>2. ASSUME field = "co2" PROVE n <= 4
      <4>1. n \in 0 .. Len(record) /\ Len(record) = 4
        BY <1>2, <3>2
      <4> QED BY ONLY <4>1
    <3> QED BY <3>1, <3>2
  <2>3. memory'[a] = memory[a]
    BY <1>2, <2>1, <2>2, Programmed
  <2> QED BY <2>3 DEF EepromInv, Eeprom!TypeOK
<1>5. faults' \in 0 .. FAULTS
  <2>1. faults' = faults \/ (faults < FAULTS /\ faults' = faults + 1)
    BY <1>1, Written
  <2> QED BY <1>1, <2>1
<1> QED BY <1>3, <1>4, <1>5

LEMMA SetCo2LevelStep ==
  ASSUME Eeprom!Parameters, EepromInv, NEW level \in Levels, Eeprom!SetCo2Level(level)
  PROVE  EepromInv'
<1> DEFINE record == Eeprom!LevelRecord(level)
<1>1. PICK outcome \in BOOLEAN : Eeprom!WriteBytes("co2", record, outcome)
  BY DEF Eeprom!SetCo2Level
<1>2. /\ step = "idle" /\ saved' = [saved EXCEPT !["co2"] = @ \cup {level}]
      /\ UNCHANGED <<step, info, pairs>>
  BY DEF Eeprom!SetCo2Level
<1>3. "co2" \in Eeprom!Fields /\ "co2" \notin WifiFields /\ WifiFields \subseteq Eeprom!Fields
  BY DEF Eeprom!Fields, WifiFields
<1>4. RecordOf(record, level) /\ Len(record) = 4 /\ level = BodyOf("co2", level)
  BY LevelRecordCells DEF BodyOf
<1> HIDE DEF record
<1>5. /\ DOMAIN memory' = Eeprom!Cells
      /\ \A a \in 4 .. ENTRY_SIZE - 1 : memory'[a] = Eeprom!BLANK
      /\ faults' \in 0 .. FAULTS
  BY <1>1, <1>3, <1>4, MemoryTyped
<1>6. saved' = [f \in Eeprom!Fields |-> saved'[f]]
  BY <1>2 DEF EepromInv
<1>7. Eeprom!TypeOK'
  <2>1. /\ saved'["ssid"] = saved["ssid"] /\ saved'["password"] = saved["password"]
        /\ saved'["co2"] = saved["co2"] \cup {level}
    BY <1>2 DEF EepromInv, Eeprom!Fields
  <2> QED BY <1>2, <1>5, <2>1 DEF EepromInv, Eeprom!TypeOK
<1>8. ChecksumsOfSaved'
  BY <1>1, <1>2, <1>3, <1>4, ChecksumsStay
<1>9. ASSUME faults' = 0 PROVE RecordsWhole'
  <2>1. faults = 0 /\ memory' = Eeprom!Program("co2", record, Len(record)) /\ Len(record) \in 0 .. Len(record)
    <3>1. faults \in Nat
      BY DEF EepromInv, Eeprom!TypeOK, Eeprom!Parameters
    <3>2. faults = 0 /\ memory' = Eeprom!Program("co2", record, Len(record))
      BY <1>1, <1>4, <1>9, <3>1, Written
    <3>3. 4 \in 0 .. 4
      OBVIOUS
    <3> QED BY <1>4, <3>2, <3>3
  <2>2. \A f \in WifiFields :
          /\ Untouched(f) => Untouched(f)'
          /\ \A text \in Eeprom!Texts : Holds(f, text) => Holds(f, text)'
    BY <1>3, <1>4, <2>1, OthersHeld
  <2>3. /\ \A field \in WifiFields : Untouched(field) \/ \E text \in Eeprom!Texts : Holds(field, text)
        /\ pairs # {} => \E pair \in pairs : Holds("ssid", pair[1]) /\ Holds("password", pair[2])
    BY <1>2, <2>1 DEF EepromInv, RecordsWhole
  <2>4. \A pair \in pairs : pair[1] \in Eeprom!Texts /\ pair[2] \in Eeprom!Texts
    BY DEF EepromInv, Eeprom!TypeOK
  <2>5. "ssid" \in WifiFields /\ "password" \in WifiFields
    BY DEF WifiFields
  <2> QED BY <1>2, <2>2, <2>3, <2>4, <2>5 DEF RecordsWhole
<1> QED BY <1>2, <1>6, <1>7, <1>8, <1>9 DEF EepromInv

LEMMA SetWifiConfigStep ==
  ASSUME Eeprom!Parameters, EepromInv,
         NEW ssid \in Eeprom!Texts, NEW password \in Eeprom!Texts,
         Eeprom!SetWifiConfig(ssid, password)
  PROVE  EepromInv'
<1>1. /\ step = "idle" /\ step' = "ssid" /\ info' = <<ssid, password>>
      /\ pairs' = pairs \cup {info'} /\ UNCHANGED <<memory, saved, faults>>
  BY DEF Eeprom!SetWifiConfig
<1>2. info' \in Eeprom!Texts \X Eeprom!Texts /\ info' \in pairs'
  BY <1>1
<1>3. Eeprom!TypeOK'
  BY <1>1, <1>2 DEF EepromInv, Eeprom!TypeOK
<1>4. ChecksumsOfSaved'
  BY <1>1 DEF EepromInv, ChecksumsOfSaved
<1>5. faults' = 0 => RecordsWhole'
  <2>1. \A f : Untouched(f)' = Untouched(f) /\ \A text : Holds(f, text)' = Holds(f, text)
    BY <1>1 DEF Untouched, Holds
  <2> QED BY <1>1, <2>1 DEF EepromInv, RecordsWhole
<1> QED BY <1>1, <1>2, <1>3, <1>4, <1>5 DEF EepromInv

(* A text of the configuration is written.                                 *)
LEMMA TextStep ==
  ASSUME Eeprom!Parameters, EepromInv, NEW field \in WifiFields, NEW text \in Eeprom!Texts,
         NEW outcome, Eeprom!WriteBytes(field, Eeprom!TextRecord(text), outcome),
         saved' = [saved EXCEPT ![field] = @ \cup {text}],
         UNCHANGED <<info, pairs>>, step' \in {"idle", "password"}, step # "idle"
  PROVE  /\ Eeprom!TypeOK' /\ saved' = [f \in Eeprom!Fields |-> saved'[f]]
         /\ info' \in pairs' /\ ChecksumsOfSaved'
         /\ faults' = 0 =>
              /\ faults = 0 /\ outcome = TRUE /\ Holds(field, text)'
              /\ \A f \in WifiFields \ {field} :
                   /\ Untouched(f) => Untouched(f)'
                   /\ \A other \in Eeprom!Texts : Holds(f, other) => Holds(f, other)'
<1> DEFINE record == Eeprom!TextRecord(text)
           body == text \o <<Eeprom!ZERO>>
<1>1. field \in Eeprom!Fields /\ field # "co2" /\ WifiFields \subseteq Eeprom!Fields
  BY DEF WifiFields, Eeprom!Fields
<1>2. RecordOf(record, body) /\ body = BodyOf(field, text)
  BY <1>1, TextRecordWhole DEF BodyOf
<1>3. Eeprom!WriteBytes(field, record, outcome)
  OBVIOUS
<1> HIDE DEF record, body
<1>4. /\ DOMAIN memory' = Eeprom!Cells
      /\ \A a \in 4 .. ENTRY_SIZE - 1 : memory'[a] = Eeprom!BLANK
      /\ faults' \in 0 .. FAULTS
  BY <1>1, <1>2, <1>3, MemoryTyped
<1>5. saved' = [f \in Eeprom!Fields |-> saved'[f]]
  BY DEF EepromInv
<1>6. Eeprom!TypeOK'
  <2>1. /\ saved'["ssid"] \subseteq Eeprom!Texts /\ saved'["password"] \subseteq Eeprom!Texts
        /\ saved'["co2"] \subseteq Levels
    <3>1. /\ saved["ssid"] \subseteq Eeprom!Texts /\ saved["password"] \subseteq Eeprom!Texts
          /\ saved["co2"] \subseteq Levels
          /\ {"ssid", "password", "co2"} \subseteq DOMAIN saved
      BY DEF EepromInv, Eeprom!TypeOK, Eeprom!Fields
    <3>2. saved'["co2"] = saved["co2"]
      BY <1>1, <3>1
    <3>3. saved'["ssid"] \subseteq saved["ssid"] \cup {text}
      BY <3>1
    <3>4. saved'["password"] \subseteq saved["password"] \cup {text}
      BY <3>1
    <3> QED BY <3>1, <3>2, <3>3, <3>4
  <2> QED BY <1>4, <2>1 DEF EepromInv, Eeprom!TypeOK
<1>7. ChecksumsOfSaved'
  BY <1>1, <1>2, <1>3, ChecksumsStay
<1>8. ASSUME faults' = 0
      PROVE  /\ faults = 0 /\ outcome = TRUE /\ Holds(field, text)'
             /\ \A f \in WifiFields \ {field} :
                  /\ Untouched(f) => Untouched(f)'
                  /\ \A other \in Eeprom!Texts : Holds(f, other) => Holds(f, other)'
  <2>1. faults \in Nat
    BY DEF EepromInv, Eeprom!TypeOK, Eeprom!Parameters
  <2>2. /\ faults = 0 /\ outcome = TRUE
        /\ memory' = Eeprom!Program(field, record, Len(record))
    BY <1>2, <1>3, <1>8, <2>1, Written
  <2>3. Len(record) \in 0 .. Len(record)
    BY <1>2 DEF RecordOf, Eeprom!Parameters
  <2>4. Holds(field, text)'
    BY <1>1, <2>2, HeldAfter DEF record
  <2>5. ASSUME NEW f \in WifiFields \ {field}
        PROVE  /\ Untouched(f) => Untouched(f)'
               /\ \A other \in Eeprom!Texts : Holds(f, other) => Holds(f, other)'
    <3>1. f \in Eeprom!Fields /\ f # field
      BY <1>1
    <3> QED BY <1>1, <1>2, <2>2, <2>3, <3>1, OthersHeld
  <2> QED BY <2>2, <2>4, <2>5
<1>9. info' \in pairs'
  BY DEF EepromInv
<1> QED BY <1>5, <1>6, <1>7, <1>8, <1>9

LEMMA WriteSsidStep ==
  ASSUME Eeprom!Parameters, EepromInv, Eeprom!WriteSsid
  PROVE  EepromInv'
<1>1. PICK outcome \in BOOLEAN :
        /\ Eeprom!WriteBytes("ssid", Eeprom!TextRecord(info[1]), outcome)
        /\ step' = Eeprom!AfterSsid(outcome)
  BY DEF Eeprom!WriteSsid
<1>2. /\ step = "ssid" /\ saved' = [saved EXCEPT !["ssid"] = @ \cup {info[1]}]
      /\ UNCHANGED <<info, pairs>>
  BY DEF Eeprom!WriteSsid
<1>3. info[1] \in Eeprom!Texts /\ "ssid" \in WifiFields
  BY DEF EepromInv, Eeprom!TypeOK, WifiFields
<1>4. step' \in {"idle", "password"} /\ step # "idle" /\ (outcome = TRUE => step' = "password")
  BY <1>1, <1>2 DEF Eeprom!AfterSsid
<1>5. /\ Eeprom!TypeOK' /\ saved' = [f \in Eeprom!Fields |-> saved'[f]]
      /\ info' \in pairs' /\ ChecksumsOfSaved'
      /\ faults' = 0 =>
           /\ faults = 0 /\ outcome = TRUE /\ Holds("ssid", info[1])'
           /\ \A f \in WifiFields \ {"ssid"} :
                /\ Untouched(f) => Untouched(f)'
                /\ \A other \in Eeprom!Texts : Holds(f, other) => Holds(f, other)'
  BY <1>1, <1>2, <1>3, <1>4, TextStep
<1>6. ASSUME faults' = 0 PROVE RecordsWhole'
  <2>1. \A f \in WifiFields : Untouched(f) \/ \E text \in Eeprom!Texts : Holds(f, text)
    BY <1>5, <1>6 DEF EepromInv, RecordsWhole
  <2>2. \A f \in WifiFields : Untouched(f)' \/ \E text \in Eeprom!Texts : Holds(f, text)'
    <3>1. \E text \in Eeprom!Texts : Holds("ssid", text)'
      <4>1. Holds("ssid", info[1])' /\ info' = info
        BY <1>2, <1>5, <1>6
      <4> DEFINE t == info[1]
      <4>2. Holds("ssid", t)' /\ t' \in Eeprom!Texts /\ t' = t
        BY <1>3, <4>1
      <4> QED BY <4>2 DEF Holds
    <3>2. \A f \in WifiFields \ {"ssid"} : Untouched(f)' \/ \E text \in Eeprom!Texts : Holds(f, text)'
      BY <1>5, <1>6, <2>1
    <3> QED BY <3>1, <3>2
  <2>3. step' = "password" /\ Holds("ssid", info[1])' /\ info' = info
    BY <1>2, <1>4, <1>5, <1>6
  <2> QED BY <2>2, <2>3 DEF RecordsWhole
<1> QED BY <1>5, <1>6 DEF EepromInv

LEMMA WritePasswordStep ==
  ASSUME Eeprom!Parameters, EepromInv, Eeprom!WritePassword
  PROVE  EepromInv'
<1>1. PICK outcome \in BOOLEAN :
        Eeprom!WriteBytes("password", Eeprom!TextRecord(info[2]), outcome)
  BY DEF Eeprom!WritePassword
<1>2. /\ step = "password" /\ saved' = [saved EXCEPT !["password"] = @ \cup {info[2]}]
      /\ step' = "idle" /\ UNCHANGED <<info, pairs>>
  BY DEF Eeprom!WritePassword
<1>3. /\ info[1] \in Eeprom!Texts /\ info[2] \in Eeprom!Texts
      /\ "ssid" \in WifiFields /\ "password" \in WifiFields
  BY DEF EepromInv, Eeprom!TypeOK, WifiFields
<1>4. step' \in {"idle", "password"} /\ step # "idle"
  BY <1>2
<1>5. /\ Eeprom!TypeOK' /\ saved' = [f \in Eeprom!Fields |-> saved'[f]]
      /\ info' \in pairs' /\ ChecksumsOfSaved'
      /\ faults' = 0 =>
           /\ faults = 0 /\ outcome = TRUE /\ Holds("password", info[2])'
           /\ \A f \in WifiFields \ {"password"} :
                /\ Untouched(f) => Untouched(f)'
                /\ \A other \in Eeprom!Texts : Holds(f, other) => Holds(f, other)'
  BY <1>1, <1>2, <1>3, <1>4, TextStep
<1>6. ASSUME faults' = 0 PROVE RecordsWhole'
  <2>1. /\ \A f \in WifiFields : Untouched(f) \/ \E text \in Eeprom!Texts : Holds(f, text)
        /\ Holds("ssid", info[1])
    BY <1>2, <1>5, <1>6 DEF EepromInv, RecordsWhole
  <2>2. \A f \in WifiFields : Untouched(f)' \/ \E text \in Eeprom!Texts : Holds(f, text)'
    <3>1. \E text \in Eeprom!Texts : Holds("password", text)'
      <4>1. Holds("password", info[2])' /\ info' = info
        BY <1>2, <1>5, <1>6
      <4> DEFINE t == info[2]
      <4>2. Holds("password", t)' /\ t' \in Eeprom!Texts /\ t' = t
        BY <1>3, <4>1
      <4> QED BY <4>2 DEF Holds
    <3>2. \A f \in WifiFields \ {"password"} : Untouched(f)' \/ \E text \in Eeprom!Texts : Holds(f, text)'
      BY <1>5, <1>6, <2>1
    <3> QED BY <3>1, <3>2
  <2>3. Holds("ssid", info[1])' /\ Holds("password", info[2])'
    <3>1. "ssid" \in WifiFields \ {"password"}
      BY <1>3
    <3>2. Holds("ssid", info[1]) => Holds("ssid", info[1])'
      <4>1. \A other \in Eeprom!Texts : Holds("ssid", other) => Holds("ssid", other)'
        BY <1>5, <1>6, <3>1
      <4> QED BY <1>2, <1>3, <4>1
    <3> QED BY <1>5, <1>6, <2>1, <3>2
  <2>4. \E pair \in pairs' : Holds("ssid", pair[1])' /\ Holds("password", pair[2])'
    BY <1>2, <1>5, <2>3
  <2> QED BY <1>2, <2>2, <2>4 DEF RecordsWhole
<1> QED BY <1>2, <1>5, <1>6 DEF EepromInv

LEMMA RestartStep ==
  ASSUME Eeprom!Parameters, EepromInv, Eeprom!Restart
  PROVE  EepromInv'
<1>1. /\ step = "password" /\ step' = "idle" /\ faults < FAULTS /\ faults' = faults + 1
      /\ UNCHANGED <<memory, info, saved, pairs>>
  BY DEF Eeprom!Restart
<1>2. faults' \in 0 .. FAULTS /\ faults' # 0
  BY <1>1 DEF EepromInv, Eeprom!TypeOK, Eeprom!Parameters
<1>3. Eeprom!TypeOK'
  BY <1>1, <1>2 DEF EepromInv, Eeprom!TypeOK
<1>4. ChecksumsOfSaved'
  BY <1>1 DEF EepromInv, ChecksumsOfSaved
<1> QED BY <1>1, <1>2, <1>3, <1>4 DEF EepromInv

LEMMA EepromSteps ==
  ASSUME Eeprom!Parameters, EepromInv, Eeprom!Next
  PROVE  EepromInv'
BY SetCo2LevelStep, SetWifiConfigStep, WriteSsidStep, WritePasswordStep, RestartStep
   DEF Eeprom!Next

LEMMA LeastNumber ==
  ASSUME NEW S \in SUBSET Nat, S # {}
  PROVE  Eeprom!Min(S) \in S /\ \A y \in S : Eeprom!Min(S) <= y
<1>1. \E x \in S : \A y \in S : ~(<<y, x>> \in OpToRel(<, Nat))
  BY NatLessThanWellFounded, WFMin
<1>2. \E x \in S : \A y \in S : x <= y
  <2>1. PICK x \in S : \A y \in S : ~(<<y, x>> \in OpToRel(<, Nat))
    BY <1>1
  <2>2. \A y \in S : ~(y < x)
    BY <2>1 DEF OpToRel
  <2> QED BY <2>2
<1> QED BY <1>2 DEF Eeprom!Min

(* Where the first zero of a buffer is, if there is one.                   *)
LEMMA TerminatorFound ==
  ASSUME NEW size \in Nat, NEW cells, cells = [i \in 1 .. size |-> cells[i]]
  PROVE  /\ Eeprom!Terminator(cells) \in 0 .. size
         /\ (\A i \in 1 .. size : cells[i] # Eeprom!ZERO) => Eeprom!Terminator(cells) = 0
         /\ \A k \in 1 .. size :
              cells[k] = Eeprom!ZERO /\ (\A i \in 1 .. k - 1 : cells[i] # Eeprom!ZERO)
              => Eeprom!Terminator(cells) = k
<1> DEFINE I == {i \in 1 .. size : cells[i] = Eeprom!ZERO}
<1>1. Len(cells) = size
  OBVIOUS
<1>2. Eeprom!Terminator(cells) = IF I # {} THEN Eeprom!Min(I) ELSE 0
  BY <1>1 DEF Eeprom!Terminator, Eeprom!SelectInSeq
<1>3. I \in SUBSET Nat /\ \A k \in I : k \in 1 .. size /\ cells[k] = Eeprom!ZERO
  OBVIOUS
<1>4. I # {} => Eeprom!Min(I) \in I /\ \A y \in I : Eeprom!Min(I) <= y
  BY <1>3, LeastNumber
<1>5. Eeprom!Terminator(cells) \in 0 .. size
  BY <1>2, <1>3, <1>4
<1>6. (\A i \in 1 .. size : cells[i] # Eeprom!ZERO) => Eeprom!Terminator(cells) = 0
  BY <1>2
<1>7. ASSUME NEW k \in 1 .. size, cells[k] = Eeprom!ZERO,
             \A i \in 1 .. k - 1 : cells[i] # Eeprom!ZERO
      PROVE  Eeprom!Terminator(cells) = k
  <2>1. k \in I
    BY <1>7
  <2> HIDE DEF I
  <2>2. Eeprom!Min(I) \in 1 .. size /\ cells[Eeprom!Min(I)] = Eeprom!ZERO /\ Eeprom!Min(I) <= k
    BY <1>3, <1>4, <2>1
  <2>3. Eeprom!Min(I) = k
    <3>1. Eeprom!Min(I) \notin 1 .. k - 1
      BY <1>7, <2>2
    <3> QED BY <2>2, <3>1
  <2> QED BY <1>2, <2>1, <2>3
<1> QED BY <1>5, <1>6, <1>7

(* A part of a buffer.                                                     *)
LEMMA PartOfBuffer ==
  ASSUME NEW cells, NEW m \in Int, NEW n \in Int, m <= n
  PROVE  /\ Len(SubSeq(cells, m, n)) = n - m + 1
         /\ \A i \in 1 .. n - m + 1 : SubSeq(cells, m, n)[i] = cells[m + i - 1]
<1> DEFINE S == {cells[i] : i \in m .. n}
<1>1. \A i \in m .. n : cells[i] \in S
  OBVIOUS
<1> HIDE DEF S
<1>2. /\ SubSeq(cells, m, n) \in Seq(S)
      /\ Len(SubSeq(cells, m, n)) = (IF m <= n THEN n - m + 1 ELSE 0)
      /\ \A i \in 1 .. n - m + 1 : SubSeq(cells, m, n)[i] = cells[m + i - 1]
  BY <1>1, SubSeqProperties
<1> QED BY <1>2

(* What passes the check was saved.                                        *)
LEMMA CheckedWasSaved ==
  ASSUME Eeprom!Parameters, EepromInv, NEW field \in Eeprom!Fields,
         NEW size \in 1 .. ENTRY_SIZE, NEW n \in Nat,
         NEW k \in 1 .. size, NEW body,
         Eeprom!ReadBytes(field, size, n)[k] = Eeprom!Crc(body)[1]
  PROVE  \E given \in saved[field] : body = BodyOf(field, given)
<1>1. Eeprom!Crc(body)[1] = <<"high", body>>
  BY DEF Eeprom!Crc
<1>2. Eeprom!ReadBytes(field, size, n)[k]
        = IF k <= n THEN memory[Eeprom!Address(field) + k - 1] ELSE Eeprom!ZERO
  BY DEF Eeprom!ReadBytes
<1>3. Eeprom!ZERO # <<"high", body>>
  BY DEF Eeprom!ZERO
<1>4. memory[Eeprom!Address(field) + k - 1] = <<"high", body>>
  BY <1>1, <1>2, <1>3
<1>5. Eeprom!Address(field) + k - 1 \in Entry(field)
  <2>1. Eeprom!Address(field) \in Nat /\ ENTRY_SIZE \in Nat /\ k \in Nat /\ k >= 1 /\ k <= ENTRY_SIZE
    BY EntriesApart DEF Eeprom!Parameters
  <2> QED BY <2>1 DEF Entry
<1>6. Len(<<"high", body>>) = 2 /\ <<"high", body>>[1] = "high" /\ <<"high", body>>[2] = body
  OBVIOUS
<1> QED BY <1>4, <1>5, <1>6 DEF EepromInv, ChecksumsOfSaved

LEMMA LevelsRead ==
  ASSUME Eeprom!Parameters, EepromInv
  PROVE  Eeprom!Reads("co2") \subseteq saved["co2"] \cup {Eeprom!BAD}
<1>1. SUFFICES ASSUME NEW n \in 0 .. 4, Eeprom!GetCo2Level(n) # Eeprom!BAD
               PROVE  Eeprom!GetCo2Level(n) \in saved["co2"]
  BY DEF Eeprom!Reads
<1> DEFINE cells == Eeprom!ReadBytes("co2", 4, n)
           body == SubSeq(cells, 1, 2)
<1>2. SubSeq(cells, 3, 4) = Eeprom!Crc(body) /\ Eeprom!GetCo2Level(n) = body
  BY <1>1 DEF Eeprom!GetCo2Level
<1>3. cells[3] = Eeprom!Crc(body)[1]
  <2> HIDE DEF cells, body
  <2>1. SubSeq(cells, 3, 4)[1] = cells[3]
    BY PartOfBuffer
  <2> QED BY <1>2, <2>1
<1>4. 4 \in 1 .. ENTRY_SIZE /\ 3 \in 1 .. 4 /\ n \in Nat /\ "co2" \in Eeprom!Fields
  BY DEF Eeprom!Parameters, Eeprom!Fields
<1> HIDE DEF body
<1>5. \E given \in saved["co2"] : body = BodyOf("co2", given)
  BY <1>3, <1>4, CheckedWasSaved
<1> QED BY <1>2, <1>5 DEF BodyOf

LEMMA TextsRead ==
  ASSUME Eeprom!Parameters, EepromInv, NEW field \in WifiFields
  PROVE  Eeprom!Reads(field) \subseteq saved[field] \cup {Eeprom!BAD}
<1>1. field \in Eeprom!Fields /\ field # "co2"
  BY DEF WifiFields, Eeprom!Fields
<1>2. SUFFICES ASSUME NEW n \in 0 .. ENTRY_SIZE, Eeprom!GetText(field, n) # Eeprom!BAD
               PROVE  Eeprom!GetText(field, n) \in saved[field]
  BY <1>1 DEF Eeprom!Reads
<1> DEFINE cells == Eeprom!ReadBytes(field, ENTRY_SIZE, n)
           k == Eeprom!Terminator(cells)
           body == SubSeq(cells, 1, k)
<1>3. ENTRY_SIZE \in Nat /\ ENTRY_SIZE >= 4 /\ n \in Nat
  BY DEF Eeprom!Parameters
<1>4. k \in 0 .. ENTRY_SIZE
  <2>1. cells = [i \in 1 .. ENTRY_SIZE |-> cells[i]]
    BY DEF Eeprom!ReadBytes
  <2> HIDE DEF cells
  <2> QED BY <1>3, <2>1, TerminatorFound
<1>5. /\ k > 0 /\ k + 2 <= ENTRY_SIZE
      /\ SubSeq(cells, k + 1, k + 2) = Eeprom!Crc(body)
      /\ Eeprom!GetText(field, n) = SubSeq(cells, 1, k - 1)
  BY <1>2 DEF Eeprom!GetText, Eeprom!Valid
<1>6. cells[k + 1] = Eeprom!Crc(body)[1]
  <2> HIDE DEF cells, body, k
  <2>1. k + 1 \in Int /\ k + 2 \in Int /\ k + 1 <= k + 2 /\ 1 \in 1 .. (k + 2) - (k + 1) + 1
        /\ k + 1 + 1 - 1 = k + 1
    BY <1>4
  <2>2. SubSeq(cells, k + 1, k + 2)[1] = cells[k + 1 + 1 - 1]
    BY <2>1, PartOfBuffer
  <2> QED BY <1>5, <2>1, <2>2
<1> HIDE DEF body, k
<1>7. \E given \in saved[field] : body = BodyOf(field, given)
  <2>1. ENTRY_SIZE \in 1 .. ENTRY_SIZE /\ k + 1 \in 1 .. ENTRY_SIZE
    BY <1>3, <1>4, <1>5
  <2> QED BY <1>1, <1>3, <1>6, <2>1, CheckedWasSaved
<1> HIDE DEF cells
<1>8. PICK text \in saved[field] : body = text \o <<Eeprom!ZERO>>
  BY <1>1, <1>7 DEF BodyOf
<1>9. text \in Eeprom!Texts
  BY DEF EepromInv, Eeprom!TypeOK, WifiFields
<1>10. /\ Len(body) = k /\ \A i \in 1 .. k : body[i] = cells[i]
  <2>1. /\ Len(body) = k - 1 + 1
        /\ \A i \in 1 .. k - 1 + 1 : body[i] = cells[1 + i - 1]
    BY <1>4, <1>5, PartOfBuffer DEF body
  <2> QED BY <1>4, <2>1
<1>11. /\ text \in Seq(Chars) /\ Len(text) \in Nat /\ Len(body) = Len(text) + 1
       /\ \A i \in 1 .. Len(text) : body[i] = text[i]
  BY <1>8, <1>9, TextIsSequence, TextBody
<1>12. SubSeq(cells, 1, k - 1) = text
  <2>1. Len(text) = k - 1
    BY <1>4, <1>10, <1>11
  <2>2. \A i \in 1 .. k - 1 : cells[i] = text[i] /\ cells[i] \in Chars
    <3>1. ASSUME NEW i \in 1 .. k - 1 PROVE cells[i] = text[i] /\ text[i] \in Chars
      <4>1. i \in 1 .. k /\ i \in 1 .. Len(text)
        BY <1>4, <2>1
      <4>2. text[i] \in Chars
        BY <1>11, <4>1
      <4> QED BY <1>10, <1>11, <4>1, <4>2
    <3> QED BY <3>1
  <2>3. 1 \in Int /\ k - 1 \in Int
    BY <1>4
  <2>4. /\ SubSeq(cells, 1, k - 1) \in Seq(Chars)
        /\ Len(SubSeq(cells, 1, k - 1)) = (IF 1 <= k - 1 THEN k - 1 - 1 + 1 ELSE 0)
        /\ \A i \in 1 .. k - 1 - 1 + 1 : SubSeq(cells, 1, k - 1)[i] = cells[1 + i - 1]
    BY <2>2, <2>3, SubSeqProperties
  <2>5. Len(SubSeq(cells, 1, k - 1)) = Len(text)
    BY <1>4, <1>5, <2>1, <2>4
  <2>6. \A i \in 1 .. Len(SubSeq(cells, 1, k - 1)) : SubSeq(cells, 1, k - 1)[i] = text[i]
    BY <1>4, <2>1, <2>2, <2>4, <2>5
  <2> QED BY <1>11, <2>4, <2>5, <2>6, SeqEqual
<1> QED BY <1>5, <1>12

(* A whole record is found and read.                                       *)
LEMMA HeldIsRead ==
  ASSUME Eeprom!Parameters, NEW field \in Eeprom!Fields, NEW text \in Eeprom!Texts,
         Holds(field, text)
  PROVE  /\ Eeprom!Terminator(Eeprom!ReadBytes(field, ENTRY_SIZE, ENTRY_SIZE)) = Len(text) + 1
         /\ Eeprom!GetText(field, ENTRY_SIZE) = text
<1> DEFINE cells == Eeprom!ReadBytes(field, ENTRY_SIZE, ENTRY_SIZE)
           record == Eeprom!TextRecord(text)
           body == text \o <<Eeprom!ZERO>>
           crc == Eeprom!Crc(body)
           k == Len(text) + 1
<1>1. /\ ENTRY_SIZE \in Nat /\ text \in Seq(Chars) /\ Len(text) \in Nat
      /\ Len(text) + 3 <= ENTRY_SIZE /\ k \in 1 .. ENTRY_SIZE /\ k + 2 <= ENTRY_SIZE
  BY TextIsSequence DEF Eeprom!Parameters
<1>2. cells = [i \in 1 .. ENTRY_SIZE |-> cells[i]]
  BY DEF Eeprom!ReadBytes
<1>3. \A i \in 1 .. Len(text) + 3 : cells[i] = record[i]
  BY <1>1 DEF Holds, Eeprom!ReadBytes
<1>4. /\ \A i \in 1 .. Len(text) : record[i] = text[i]
      /\ record[k] = Eeprom!ZERO /\ record[k + 1] = crc[1] /\ record[k + 2] = crc[2]
  <2>1. k + 1 = Len(text) + 2 /\ k + 2 = Len(text) + 3
    BY <1>1
  <2> QED BY <2>1, TextRecordCells
<1>5. \A i \in 1 .. Len(text) : cells[i] = text[i] /\ text[i] \in Chars
  BY <1>1, <1>3, <1>4
<1>6. cells[k] = Eeprom!ZERO /\ cells[k + 1] = crc[1] /\ cells[k + 2] = crc[2]
  BY <1>1, <1>3, <1>4
<1>7. \A i \in 1 .. k - 1 : cells[i] # Eeprom!ZERO
  BY <1>1, <1>5 DEF Eeprom!Parameters, Eeprom!ZERO
<1> HIDE DEF cells
<1>8. Eeprom!Terminator(cells) = k
  BY <1>1, <1>2, <1>6, <1>7, TerminatorFound
<1>9. /\ body \in Seq(Chars \cup {Eeprom!ZERO}) /\ Len(body) = k
      /\ \A i \in 1 .. Len(text) : body[i] = text[i]
      /\ body[k] = Eeprom!ZERO
  BY TextBody
<1>10. crc = <<crc[1], crc[2]>>
  BY DEF Eeprom!Crc
<1> HIDE DEF body, crc, record
<1>11. SubSeq(cells, 1, k) = body
  <2> DEFINE S == Chars \cup {Eeprom!ZERO}
  <2>1. \A i \in 1 .. k : cells[i] = body[i] /\ cells[i] \in S
    BY <1>1, <1>5, <1>6, <1>9
  <2>2. body \in Seq(S)
    BY <1>9
  <2> HIDE DEF S
  <2>3. /\ SubSeq(cells, 1, k) \in Seq(S)
        /\ Len(SubSeq(cells, 1, k)) = (IF 1 <= k THEN k - 1 + 1 ELSE 0)
        /\ \A i \in 1 .. k - 1 + 1 : SubSeq(cells, 1, k)[i] = cells[1 + i - 1]
    BY <1>1, <2>1, SubSeqProperties
  <2>4. Len(SubSeq(cells, 1, k)) = Len(body)
    BY <1>1, <1>9, <2>3
  <2>5. \A i \in 1 .. Len(SubSeq(cells, 1, k)) : SubSeq(cells, 1, k)[i] = body[i]
    BY <1>1, <1>9, <2>1, <2>3, <2>4
  <2> QED BY <2>2, <2>3, <2>4, <2>5, SeqEqual
<1>12. SubSeq(cells, 1, k - 1) = text
  <2>1. \A i \in 1 .. k - 1 : cells[i] \in Chars
    BY <1>1, <1>5
  <2>2. /\ SubSeq(cells, 1, k - 1) \in Seq(Chars)
        /\ Len(SubSeq(cells, 1, k - 1)) = (IF 1 <= k - 1 THEN k - 1 - 1 + 1 ELSE 0)
        /\ \A i \in 1 .. k - 1 - 1 + 1 : SubSeq(cells, 1, k - 1)[i] = cells[1 + i - 1]
    BY <1>1, <2>1, SubSeqProperties
  <2>3. Len(SubSeq(cells, 1, k - 1)) = Len(text)
    BY <1>1, <2>2
  <2>4. \A i \in 1 .. Len(SubSeq(cells, 1, k - 1)) : SubSeq(cells, 1, k - 1)[i] = text[i]
    BY <1>1, <1>5, <2>2, <2>3
  <2> QED BY <1>1, <2>2, <2>3, <2>4, SeqEqual
<1>13. SubSeq(cells, k + 1, k + 2) = crc
  <2> DEFINE S == {crc[1], crc[2]}
             part == SubSeq(cells, k + 1, k + 2)
  <2>1. \A i \in k + 1 .. k + 2 : cells[i] \in S
    BY <1>1, <1>6
  <2>2. <<crc[1], crc[2]>> \in Seq(S) /\ Len(<<crc[1], crc[2]>>) = 2
    BY PairIsSequence
  <2>3. crc \in Seq(S) /\ Len(crc) = 2
    BY ONLY <1>10, <2>2
  <2> HIDE DEF S
  <2>4. /\ part \in Seq(S)
        /\ Len(part) = (IF k + 1 <= k + 2 THEN k + 2 - (k + 1) + 1 ELSE 0)
        /\ \A i \in 1 .. k + 2 - (k + 1) + 1 : part[i] = cells[k + 1 + i - 1]
    <3>1. k + 1 \in Int /\ k + 2 \in Int
      BY <1>1
    <3> QED BY <2>1, <3>1, SubSeqProperties
  <2>5. Len(part) = 2 /\ part[1] = cells[k + 1] /\ part[2] = cells[k + 2]
    BY <1>1, <2>4
  <2>6. \A i \in 1 .. Len(part) : part[i] = crc[i]
    BY <1>6, <2>5
  <2> QED BY <2>3, <2>4, <2>5, <2>6, SeqEqual
<1>14. Eeprom!Valid(cells, k)
  BY <1>11, <1>13 DEF Eeprom!Valid, crc
<1>15. Eeprom!GetText(field, ENTRY_SIZE)
         = IF k > 0 /\ k + 2 <= ENTRY_SIZE /\ Eeprom!Valid(cells, k)
           THEN SubSeq(cells, 1, k - 1) ELSE Eeprom!BAD
  BY <1>8 DEF Eeprom!GetText, cells
<1> QED BY <1>1, <1>8, <1>12, <1>14, <1>15 DEF cells

LEMMA RecordsAreIntact ==
  ASSUME Eeprom!Parameters, EepromInv
  PROVE  RecordsIntact
<1>1. Eeprom!ReadsOnlySaved
  BY LevelsRead, TextsRead DEF Eeprom!ReadsOnlySaved, Eeprom!Fields, WifiFields
<1>2. "ssid" \in Eeprom!Fields /\ "password" \in Eeprom!Fields
  BY DEF Eeprom!Fields
<1>3. Eeprom!PairsMatch
  <2>1. SUFFICES ASSUME step = "idle", faults = 0, pairs # {}
                 PROVE  <<Eeprom!GetText("ssid", ENTRY_SIZE), Eeprom!GetText("password", ENTRY_SIZE)>> \in pairs
    BY DEF Eeprom!PairsMatch
  <2>2. PICK pair \in pairs : Holds("ssid", pair[1]) /\ Holds("password", pair[2])
    BY <2>1 DEF EepromInv, RecordsWhole
  <2>3. pair[1] \in Eeprom!Texts /\ pair[2] \in Eeprom!Texts /\ pair = <<pair[1], pair[2]>>
    BY DEF EepromInv, Eeprom!TypeOK
  <2>4. /\ Eeprom!GetText("ssid", ENTRY_SIZE) = pair[1]
        /\ Eeprom!GetText("password", ENTRY_SIZE) = pair[2]
    BY <1>2, <2>2, <2>3, HeldIsRead
  <2> QED BY <2>3, <2>4
<1>4. Eeprom!TerminatorInside
  <2>1. SUFFICES ASSUME faults = 0, NEW field \in WifiFields
                 PROVE  Eeprom!Terminator(Eeprom!ReadBytes(field, ENTRY_SIZE, ENTRY_SIZE)) + 2
                          <= ENTRY_SIZE
    BY DEF Eeprom!TerminatorInside, WifiFields
  <2> DEFINE cells == Eeprom!ReadBytes(field, ENTRY_SIZE, ENTRY_SIZE)
  <2>2. field \in Eeprom!Fields /\ ENTRY_SIZE \in Nat /\ ENTRY_SIZE >= 4
    BY <1>2 DEF WifiFields, Eeprom!Parameters
  <2>3. CASE Untouched(field)
    <3>1. cells = [i \in 1 .. ENTRY_SIZE |-> cells[i]]
      BY DEF Eeprom!ReadBytes
    <3>2. \A i \in 1 .. ENTRY_SIZE : cells[i] # Eeprom!ZERO
      <4>1. ASSUME NEW i \in 1 .. ENTRY_SIZE
            PROVE  Eeprom!Address(field) + i - 1 \in Entry(field)
        BY <2>2, EntriesApart DEF Entry
      <4> QED BY <2>2, <2>3, <4>1 DEF Untouched, Eeprom!ReadBytes, Eeprom!ZERO, Eeprom!BLANK
    <3> HIDE DEF cells
    <3>3. Eeprom!Terminator(cells) = 0
      BY <2>2, <3>1, <3>2, TerminatorFound
    <3> QED BY <2>2, <3>3 DEF cells
  <2>4. CASE \E text \in Eeprom!Texts : Holds(field, text)
    <3>1. PICK text \in Eeprom!Texts : Holds(field, text)
      BY <2>4
    <3>2. Eeprom!Terminator(cells) = Len(text) + 1
      BY <2>2, <3>1, HeldIsRead
    <3>3. Len(text) \in 0 .. MAX_TEXT
      BY TextIsSequence
    <3> QED BY <2>2, <3>2, <3>3 DEF Eeprom!Parameters
  <2> QED BY <2>1, <2>3, <2>4 DEF EepromInv, RecordsWhole
<1> QED BY <1>1, <1>3, <1>4 DEF RecordsIntact

-----------------------------------------------------------------------------
(* The I2C driver.  Command k of a transaction, and how many of the first  *)
(* n are reads.                                                            *)
Command(t, k) == [read |-> k > t.w, restart |-> t.w > 0 /\ k = t.w + 1, stop |-> k = t.w + t.r]
Commands == [read : BOOLEAN, restart : BOOLEAN, stop : BOOLEAN]
Reads(t, n) == IF n > t.w THEN n - t.w ELSE 0

WireTyped ==
  /\ task \in {"free", "begun", "started", "waiting", "told", "misled", "late"}
  /\ bus \in Buses /\ ask \in Transfers /\ count \in Int
  /\ note \in {"none", "own", "old"} /\ stop \in [Buses -> {"none", "own", "old"}]
  /\ wctr \in [Buses -> Nat] /\ rctr \in [Buses -> Nat]
  /\ rcnt \in [Buses -> Nat] /\ rx_fifo \in [Buses -> Nat]
  /\ tx_fifo \in [Buses -> Seq(Commands)] /\ wire \in Seq(Commands)
  /\ mask \in [Buses -> SUBSET {"STOP", "TX_EMPTY", "RX_FULL"}]
  /\ flushed \subseteq Buses /\ late \subseteq Buses /\ restart_on_next \subseteq Buses
  /\ refused \in Nat /\ timedOut \in Nat

(* What is in the FIFOs has room, in that of an abandoned transfer too; the *)
(* handler runs only for the bus the task is on.                           *)
FifosPaced ==
  /\ \A b \in Buses : rx_fifo[b] + Len(tx_fifo[b]) <= FIFO
  /\ \A b \in flushed : tx_fifo[b] = <<>>
  /\ irq \subseteq {bus}
  /\ irq # {} => task \in {"waiting", "told", "misled", "late"}

(* The commands on the wire and behind them those in the FIFO are the first *)
(* of the transaction.                                                     *)
CommandsInOrder ==
  /\ \A k \in 1 .. Len(wire) : k <= ask.w + ask.r /\ wire[k] = Command(ask, k)
  /\ \A k \in 1 .. Len(tx_fifo[bus]) :
       Len(wire) + k <= ask.w + ask.r /\ tx_fifo[bus][k] = Command(ask, Len(wire) + k)

(* The counters say what is still to be written and read, as long as the   *)
(* controller has not discarded anything; rcnt says it in any case.        *)
CountersAgree ==
  LET n == Len(wire) + Len(tx_fifo[bus]) IN
  task # "free" =>
    /\ rcnt[bus] = rx_fifo[bus] + (ask.r - Reads(ask, Len(wire)))
    /\ bus \notin flushed =>
         /\ n <= ask.w + ask.r
         /\ wctr[bus] = (IF n < ask.w THEN ask.w - n ELSE 0)
         /\ rctr[bus] = ask.r - Reads(ask, n)
         /\ bus \in restart_on_next <=> n = ask.w /\ ask.w > 0 /\ ask.r > 0
    /\ task = "begun" =>
         bus \notin flushed /\ wire = <<>> /\ tx_fifo[bus] = <<>> /\ rx_fifo[bus] = 0

(* The result, and what a stop of the transaction says as long as nothing  *)
(* was refused.                                                            *)
ResultsAgree ==
  /\ task \in {"begun", "started", "waiting"} => count = ask.w + ask.r
  /\ task \in {"told", "misled"} /\ ask.r > 0 /\ count = ask.w + ask.r => Len(wire) = ask.w + ask.r
  /\ \A b \in Buses : stop[b] = "own" => b = bus
  /\ refused = 0 =>
       (stop[bus] = "own" \/ note = "own" \/ task = "told" => Len(wire) = ask.w + ask.r)

(* Until the first time-out there is one stop at a time, of the transaction *)
(* that is waited for, and after it nothing is left to be sent.             *)
NothingMore == tx_fifo[bus] = <<>> /\ (bus \in flushed \/ (wctr[bus] = 0 /\ rctr[bus] = 0))
StopsAreOwn ==
  timedOut = 0 =>
    /\ \A b \in Buses \ {bus} : tx_fifo[b] = <<>> /\ stop[b] = "none"
    /\ late = {} /\ note # "old" /\ stop[bus] # "old" /\ task \notin {"misled", "late"}
    /\ task \in {"free", "begun", "started", "told"} => note = "none"
    /\ task \in {"free", "begun", "told"} => stop[bus] = "none" /\ tx_fifo[bus] = <<>>
    /\ stop[bus] = "own" => note = "none" /\ NothingMore
    /\ note = "own" \/ task = "told" => stop[bus] = "none" /\ mask[bus] = {} /\ NothingMore

WireInv ==
  WireTyped /\ FifosPaced /\ CommandsInOrder /\ CountersAgree /\ ResultsAgree /\ StopsAreOwn

(* The smaller of two numbers.                                             *)
LEMMA SmallerOfTwo ==
  ASSUME NEW m \in Int, NEW n \in Int
  PROVE  Wire!Min({m, n}) = IF m <= n THEN m ELSE n
<1> DEFINE least(x) == x \in {m, n} /\ \A y \in {m, n} : x <= y
<1>1. least(IF m <= n THEN m ELSE n)
  OBVIOUS
<1>2. \A x, y : least(x) /\ least(y) => x = y
  OBVIOUS
<1> QED BY <1>1, <1>2 DEF Wire!Min

LEMMA AskedIsNumbers ==
  ASSUME Wire!Parameters, WireInv
  PROVE  /\ ask.w \in Nat /\ ask.r \in Nat /\ ask.w + ask.r > 0
         /\ Len(wire) \in Nat /\ \A b \in Buses : Len(tx_fifo[b]) \in Nat
         /\ FIFO \in Nat \ {0}
<1>1. \A b \in Buses : tx_fifo[b] \in Seq(Commands)
  BY DEF WireInv, WireTyped
<1> QED BY <1>1, LenProperties DEF WireInv, WireTyped, Wire!Parameters

(* Commands put into an empty FIFO.                                        *)
LEMMA PutIntoEmpty ==
  ASSUME WireTyped, tx_fifo[bus] = <<>>, bus \notin flushed,
         NEW s \in Seq(Commands), Wire!Put(bus, s)
  PROVE  /\ tx_fifo' \in [Buses -> Seq(Commands)] /\ tx_fifo'[bus] = s
         /\ \A b \in Buses \ {bus} : tx_fifo'[b] = tx_fifo[b]
<1>1. tx_fifo' = [tx_fifo EXCEPT ![bus] = <<>> \o s]
  BY DEF Wire!Put
<1>2. <<>> \o s = s
  BY ConcatEmptySeq
<1> QED BY <1>1, <1>2 DEF WireTyped

(* A fill of the empty FIFO continues the transaction where it is.         *)
LEMMA FillContinues ==
  ASSUME Wire!Parameters, WireInv, task # "free", tx_fifo[bus] = <<>>,
         \/ wctr[bus] > 0 /\ Wire!TxFillFifo(bus)
         \/ wctr[bus] = 0 /\ Wire!RxFillFifo(bus)
  PROVE  LET n == Len(wire) + Len(tx_fifo'[bus]) IN
         /\ tx_fifo' \in [Buses -> Seq(Commands)]
         /\ wctr' \in [Buses -> Nat] /\ rctr' \in [Buses -> Nat] /\ restart_on_next' \subseteq Buses
         /\ \A b \in Buses \ {bus} : tx_fifo'[b] = tx_fifo[b]
         /\ Len(tx_fifo'[bus]) <= FIFO
         /\ bus \in flushed => tx_fifo'[bus] = <<>>
         /\ \A k \in 1 .. Len(tx_fifo'[bus]) :
              Len(wire) + k <= ask.w + ask.r /\ tx_fifo'[bus][k] = Command(ask, Len(wire) + k)
         /\ bus \notin flushed =>
              /\ n <= ask.w + ask.r
              /\ wctr'[bus] = (IF n < ask.w THEN ask.w - n ELSE 0)
              /\ rctr'[bus] = ask.r - Reads(ask, n)
              /\ bus \in restart_on_next' <=> n = ask.w /\ ask.w > 0 /\ ask.r > 0
         /\ NothingMore =>
              tx_fifo'[bus] = <<>> /\ (bus \in flushed \/ (wctr'[bus] = 0 /\ rctr'[bus] = 0))
<1>0. /\ WireTyped /\ CountersAgree
      /\ ask.w \in Nat /\ ask.r \in Nat /\ Len(wire) \in Nat /\ FIFO \in Nat \ {0}
      /\ wctr[bus] \in Nat /\ rctr[bus] \in Nat /\ bus \in Buses
  BY AskedIsNumbers DEF WireInv, WireTyped
<1>1. Len(tx_fifo[bus]) = 0
  BY EmptySeq
<1>2. CASE bus \in flushed
  <2>1. tx_fifo' = tx_fifo
    BY <1>2 DEF Wire!TxFillFifo, Wire!RxFillFifo, Wire!Put
  <2>2. CASE Wire!TxFillFifo(bus)
    <3>1. /\ wctr' = [wctr EXCEPT ![bus] = @ - wctr[bus]] /\ rctr' = rctr
          /\ restart_on_next' \in {restart_on_next \cup {bus}, restart_on_next \ {bus}}
      BY <1>2, <2>2 DEF Wire!TxFillFifo, Wire!Filled
    <3> QED BY <1>0, <1>1, <1>2, <2>1, <3>1 DEF WireTyped, NothingMore
  <2>3. CASE Wire!RxFillFifo(bus)
    <3>1. /\ rctr' = [rctr EXCEPT ![bus] = @ - rctr[bus]] /\ wctr' = wctr
          /\ restart_on_next' \in {restart_on_next \ {bus}, restart_on_next}
      BY <1>2, <2>3 DEF Wire!RxFillFifo, Wire!Filled, Wire!RestartCleared
    <3> QED BY <1>0, <1>1, <1>2, <2>1, <3>1 DEF WireTyped, NothingMore
  <2> QED BY <2>2, <2>3
<1>3. CASE bus \notin flushed /\ wctr[bus] > 0 /\ Wire!TxFillFifo(bus)
  <2> DEFINE m == IF wctr[bus] <= FIFO THEN wctr[bus] ELSE FIFO
             s == [k \in 1 .. m |-> [read |-> FALSE, restart |-> Wire!Restart(bus, k),
                                    stop |-> k = wctr[bus] /\ rctr[bus] = 0]]
  <2>1. Wire!Filled(bus, wctr[bus]) = m
    BY <1>0, <1>1, <1>3, SmallerOfTwo DEF Wire!Filled, Wire!Room
  <2>2. /\ Len(wire) < ask.w /\ wctr[bus] = ask.w - Len(wire) /\ rctr[bus] = ask.r
        /\ bus \notin restart_on_next
    BY <1>0, <1>1, <1>3 DEF CountersAgree, Reads
  <2>3. m \in 1 .. ask.w - Len(wire) /\ m <= FIFO
    BY <1>0, <1>3, <2>2
  <2>5. Wire!Put(bus, s)
    BY <1>3, <2>1 DEF Wire!TxFillFifo
  <2>6. /\ wctr' = [wctr EXCEPT ![bus] = @ - m] /\ rctr' = rctr
        /\ restart_on_next' = IF m = wctr[bus] /\ rctr[bus] > 0
                              THEN restart_on_next \cup {bus} ELSE restart_on_next \ {bus}
    BY <1>3, <2>1 DEF Wire!TxFillFifo
  <2> HIDE DEF m
  <2>4. s \in Seq(Commands) /\ Len(s) = m /\ \A k \in 1 .. m : s[k] = Command(ask, Len(wire) + k)
    <3>1. \A k \in 1 .. m : s[k] \in Commands
      BY DEF Commands, Wire!Restart
    <3>2. s \in Seq(Commands) /\ Len(s) = m
      BY <2>3, <3>1
    <3>3. ASSUME NEW k \in 1 .. m PROVE s[k] = Command(ask, Len(wire) + k)
      <4>1. s[k] = [read |-> FALSE, restart |-> k = 1 /\ bus \in restart_on_next, stop |-> k = wctr[bus] /\ rctr[bus] = 0]
        BY DEF Wire!Restart
      <4>2. k \in Nat /\ 1 <= k /\ k <= m
        BY <2>3
      <4>3. FALSE = (Len(wire) + k > ask.w)
        BY <1>0, <2>2, <2>3, <4>2
      <4>4. (k = 1 /\ bus \in restart_on_next) <=> (ask.w > 0 /\ Len(wire) + k = ask.w + 1)
        BY <1>0, <2>2, <2>3, <4>2
      <4>5. (k = wctr[bus] /\ rctr[bus] = 0) <=> Len(wire) + k = ask.w + ask.r
        BY <1>0, <2>2, <2>3, <4>2
      <4> QED BY <4>1, <4>3, <4>4, <4>5, Zenon DEF Command
    <3> QED BY <3>2, <3>3
  <2> HIDE DEF s
  <2>7. /\ tx_fifo' \in [Buses -> Seq(Commands)]
        /\ tx_fifo'[bus] = s
        /\ \A b \in Buses \ {bus} : tx_fifo'[b] = tx_fifo[b]
    BY <1>0, <1>3, <2>4, <2>5, PutIntoEmpty
  <2>8. wctr'[bus] = wctr[bus] - m /\ rctr'[bus] = rctr[bus] /\ wctr' \in [Buses -> Nat]
    BY <1>0, <2>2, <2>3, <2>6 DEF WireTyped
  <2>9. /\ Len(wire) + m <= ask.w + ask.r
        /\ wctr'[bus] = (IF Len(wire) + m < ask.w THEN ask.w - (Len(wire) + m) ELSE 0)
        /\ rctr'[bus] = ask.r - Reads(ask, Len(wire) + m)
        /\ bus \in restart_on_next' <=> Len(wire) + m = ask.w /\ ask.w > 0 /\ ask.r > 0
    BY <1>0, <2>2, <2>3, <2>6, <2>8 DEF Reads
  <2>10. ~NothingMore
    BY <1>3, <1>0 DEF NothingMore
  <2>11. wctr' \in [Buses -> Nat] /\ rctr' \in [Buses -> Nat] /\ restart_on_next' \subseteq Buses
    BY <1>0, <2>6, <2>8 DEF WireTyped
  <2>12. Len(tx_fifo'[bus]) = m
    BY <2>4, <2>7
  <2>13. \A k \in 1 .. m :
           Len(wire) + k <= ask.w + ask.r /\ tx_fifo'[bus][k] = Command(ask, Len(wire) + k)
    BY <1>0, <2>3, <2>4, <2>7, <2>9
  <2> QED BY <1>3, <2>3, <2>7, <2>9, <2>10, <2>11, <2>12, <2>13
<1>4. CASE bus \notin flushed /\ wctr[bus] = 0 /\ Wire!RxFillFifo(bus)
  <2> DEFINE m == IF rctr[bus] <= FIFO THEN rctr[bus] ELSE FIFO
             s == [k \in 1 .. m |-> [read |-> TRUE, restart |-> Wire!Restart(bus, k),
                                    stop |-> k = rctr[bus]]]
  <2>1. Wire!Filled(bus, rctr[bus]) = m
    BY <1>0, <1>1, <1>4, SmallerOfTwo DEF Wire!Filled, Wire!Room
  <2>2. /\ Len(wire) >= ask.w /\ rctr[bus] = ask.w + ask.r - Len(wire)
        /\ bus \in restart_on_next <=> Len(wire) = ask.w /\ ask.w > 0 /\ ask.r > 0
    BY <1>0, <1>1, <1>4 DEF CountersAgree, Reads
  <2>3. m \in 0 .. ask.w + ask.r - Len(wire) /\ m <= FIFO /\ (m = 0 <=> rctr[bus] = 0)
    BY <1>0, <2>2
  <2>5. Wire!Put(bus, s)
    BY <1>4, <2>1 DEF Wire!RxFillFifo
  <2>6. /\ rctr' = [rctr EXCEPT ![bus] = @ - m] /\ wctr' = wctr
        /\ restart_on_next' = IF m > 0 THEN restart_on_next \ {bus} ELSE restart_on_next
    BY <1>4, <2>1 DEF Wire!RxFillFifo, Wire!RestartCleared
  <2> HIDE DEF m
  <2>4. s \in Seq(Commands) /\ Len(s) = m /\ \A k \in 1 .. m : s[k] = Command(ask, Len(wire) + k)
    <3>1. \A k \in 1 .. m : s[k] \in Commands
      BY DEF Commands, Wire!Restart
    <3>2. s \in Seq(Commands) /\ Len(s) = m
      BY <2>3, <3>1
    <3>3. ASSUME NEW k \in 1 .. m PROVE s[k] = Command(ask, Len(wire) + k)
      <4>1. s[k] = [read |-> TRUE, restart |-> k = 1 /\ bus \in restart_on_next, stop |-> k = rctr[bus]]
        BY DEF Wire!Restart
      <4>2. k \in Nat /\ 1 <= k /\ k <= m
        BY <2>3
      <4>3. TRUE <=> Len(wire) + k > ask.w
        BY <1>0, <2>2, <2>3, <4>2
      <4>4. (k = 1 /\ bus \in restart_on_next) <=> (ask.w > 0 /\ Len(wire) + k = ask.w + 1)
        BY <1>0, <2>2, <2>3, <4>2
      <4>5. (k = rctr[bus]) <=> Len(wire) + k = ask.w + ask.r
        BY <1>0, <2>2, <2>3, <4>2
      <4> QED BY <4>1, <4>3, <4>4, <4>5, Zenon DEF Command
    <3> QED BY <3>2, <3>3
  <2> HIDE DEF s
  <2>7. /\ tx_fifo' \in [Buses -> Seq(Commands)]
        /\ tx_fifo'[bus] = s
        /\ \A b \in Buses \ {bus} : tx_fifo'[b] = tx_fifo[b]
    BY <1>0, <1>4, <2>4, <2>5, PutIntoEmpty
  <2>8. rctr'[bus] = rctr[bus] - m /\ wctr'[bus] = 0 /\ rctr' \in [Buses -> Nat]
    BY <1>0, <1>4, <2>2, <2>3, <2>6 DEF WireTyped
  <2>9. /\ Len(wire) + m <= ask.w + ask.r
        /\ wctr'[bus] = (IF Len(wire) + m < ask.w THEN ask.w - (Len(wire) + m) ELSE 0)
        /\ rctr'[bus] = ask.r - Reads(ask, Len(wire) + m)
        /\ bus \in restart_on_next' <=> Len(wire) + m = ask.w /\ ask.w > 0 /\ ask.r > 0
    <3>1. m \in Nat /\ Len(wire) + m >= ask.w /\ Len(wire) + m <= ask.w + ask.r
      BY <1>0, <2>2, <2>3
    <3>2. rctr'[bus] = ask.r - Reads(ask, Len(wire) + m)
      BY <1>0, <2>2, <2>8, <3>1 DEF Reads
    <3>3. bus \in restart_on_next' <=> m = 0 /\ bus \in restart_on_next
      BY <2>6, <3>1
    <3>4. m = 0 /\ bus \in restart_on_next <=> Len(wire) + m = ask.w /\ ask.w > 0 /\ ask.r > 0
      BY <1>0, <2>2, <2>3, <3>1
    <3> QED BY <1>0, <2>8, <3>1, <3>2, <3>3, <3>4
  <2>10. NothingMore => tx_fifo'[bus] = <<>> /\ wctr'[bus] = 0 /\ rctr'[bus] = 0
    BY <1>0, <1>4, <2>3, <2>4, <2>7, <2>8, EmptySeq DEF NothingMore
  <2>11. wctr' \in [Buses -> Nat] /\ rctr' \in [Buses -> Nat] /\ restart_on_next' \subseteq Buses
    BY <1>0, <2>6, <2>8 DEF WireTyped
  <2>12. Len(tx_fifo'[bus]) = m
    BY <2>4, <2>7
  <2>13. \A k \in 1 .. m :
           Len(wire) + k <= ask.w + ask.r /\ tx_fifo'[bus][k] = Command(ask, Len(wire) + k)
    BY <1>0, <2>3, <2>4, <2>7, <2>9
  <2> QED BY <1>4, <2>3, <2>7, <2>9, <2>10, <2>11, <2>12, <2>13
<1> QED BY <1>2, <1>3, <1>4

LEMMA WireStarts ==
  ASSUME Wire!Parameters, Wire!Init
  PROVE  WireInv
<1>1. wire = <<>> /\ Len(wire) = 0 /\ \A b \in Buses : tx_fifo[b] = <<>> /\ Len(tx_fifo[b]) = 0
  BY EmptySeq DEF Wire!Init
<1>2. WireTyped
  BY EmptySeq DEF Wire!Init, WireTyped
<1>3. FifosPaced /\ CommandsInOrder
  BY <1>1 DEF Wire!Init, Wire!Parameters, FifosPaced, CommandsInOrder
<1>4. CountersAgree /\ ResultsAgree /\ StopsAreOwn
  BY <1>1 DEF Wire!Init, CountersAgree, ResultsAgree, StopsAreOwn
<1> QED BY <1>2, <1>3, <1>4 DEF WireInv

LEMMA BeginStep ==
  ASSUME Wire!Parameters, WireInv, NEW b \in Buses, NEW t \in Transfers, Wire!Begin(b, t)
  PROVE  WireInv'
<1>0. /\ WireTyped /\ FifosPaced /\ StopsAreOwn
      /\ t.w \in Nat /\ t.r \in Nat /\ t.w + t.r > 0 /\ FIFO \in Nat
  BY DEF WireInv, Wire!Parameters
<1>1. /\ task' = "begun" /\ bus' = b /\ ask' = t /\ count' = t.w + t.r /\ wire' = <<>>
      /\ tx_fifo' = [tx_fifo EXCEPT ![b] = <<>>] /\ rx_fifo' = [rx_fifo EXCEPT ![b] = 0]
      /\ wctr' = [wctr EXCEPT ![b] = t.w] /\ rctr' = [rctr EXCEPT ![b] = t.r]
      /\ rcnt' = [rcnt EXCEPT ![b] = t.r]
      /\ flushed' = flushed \ {b} /\ restart_on_next' = restart_on_next \ {b}
      /\ UNCHANGED <<irq, refused, timedOut>>
  BY DEF Wire!Begin, Wire!faultVars
<1>2. Len(wire') = 0 /\ tx_fifo'[b] = <<>> /\ Len(tx_fifo'[b]) = 0 /\ rx_fifo'[b] = 0
  BY <1>0, <1>1, EmptySeq DEF WireTyped
<1>3. \A c \in Buses \ {b} : tx_fifo'[c] = tx_fifo[c] /\ rx_fifo'[c] = rx_fifo[c]
  BY <1>0, <1>1 DEF WireTyped
<1>4. /\ note' \in {"none", "old"} /\ (note = "none" => note' = "none")
      /\ stop' \in [Buses -> {"none", "old"}] /\ \A c \in Buses : stop[c] = "none" => stop'[c] = "none"
  BY <1>0 DEF Wire!Begin, Wire!Aged, WireTyped
<1>5. /\ late' \subseteq Buses /\ (late = {} /\ tx_fifo[b] = <<>> => late' = {})
      /\ mask' \in [Buses -> SUBSET {"STOP", "TX_EMPTY", "RX_FULL"}]
  BY <1>0 DEF Wire!Begin, WireTyped
<1>6. task = "free" /\ irq = {}
  BY <1>0 DEF Wire!Begin, FifosPaced
<1>7. WireTyped'
  <2>1. stop' \in [Buses -> {"none", "own", "old"}]
    BY <1>4
  <2>2. /\ wctr' \in [Buses -> Nat] /\ rctr' \in [Buses -> Nat]
        /\ rcnt' \in [Buses -> Nat] /\ rx_fifo' \in [Buses -> Nat]
    <3>1. \A f \in [Buses -> Nat], i \in Nat : [f EXCEPT ![b] = i] \in [Buses -> Nat]
      OBVIOUS
    <3>2. /\ wctr \in [Buses -> Nat] /\ rctr \in [Buses -> Nat]
          /\ rcnt \in [Buses -> Nat] /\ rx_fifo \in [Buses -> Nat]
          /\ t.w \in Nat /\ t.r \in Nat /\ 0 \in Nat
      BY <1>0 DEF WireTyped
    <3> QED BY <1>1, <3>1, <3>2
  <2>3. tx_fifo' \in [Buses -> Seq(Commands)] /\ wire' \in Seq(Commands)
    BY <1>0, <1>1, EmptySeq DEF WireTyped
  <2>4. /\ flushed' \subseteq Buses /\ restart_on_next' \subseteq Buses
        /\ refused' \in Nat /\ timedOut' \in Nat
    BY <1>0, <1>1 DEF WireTyped
  <2>5. /\ task' = "begun" /\ bus' \in Buses /\ ask' \in Transfers /\ count' \in Int
        /\ note' \in {"none", "own", "old"}
    BY <1>0, <1>1, <1>4
  <2> QED BY <1>5, <2>1, <2>2, <2>3, <2>4, <2>5 DEF WireTyped
<1>8. FifosPaced'
  BY <1>0, <1>1, <1>2, <1>3, <1>6 DEF FifosPaced
<1>9. CommandsInOrder'
  BY <1>1, <1>2 DEF CommandsInOrder
<1>10. CountersAgree'
  BY <1>0, <1>1, <1>2 DEF CountersAgree, Reads, WireTyped
<1>11. ResultsAgree'
  BY <1>1, <1>4 DEF ResultsAgree
<1>12. StopsAreOwn'
  <2> SUFFICES ASSUME timedOut = 0 PROVE StopsAreOwn'
    BY <1>1 DEF StopsAreOwn
  <2>1. \A c \in Buses : tx_fifo[c] = <<>> /\ stop[c] = "none"
    BY <1>0, <1>6 DEF StopsAreOwn
  <2>2. late = {} /\ note = "none"
    BY <1>0, <1>6 DEF StopsAreOwn
  <2>3. \A c \in Buses : tx_fifo'[c] = <<>> /\ stop'[c] = "none"
    BY <1>2, <1>3, <1>4, <2>1
  <2>4. late' = {} /\ note' = "none"
    BY <1>4, <1>5, <2>1, <2>2
  <2> QED BY <1>1, <2>3, <2>4 DEF StopsAreOwn
<1> QED BY <1>7, <1>8, <1>9, <1>10, <1>11, <1>12 DEF WireInv

LEMMA FirstCommandsStep ==
  ASSUME Wire!Parameters, WireInv, Wire!FirstFill
  PROVE  WireInv'
<1>0. /\ WireTyped /\ FifosPaced /\ CommandsInOrder /\ CountersAgree /\ ResultsAgree /\ StopsAreOwn
      /\ ask.w \in Nat /\ ask.r \in Nat /\ ask.w + ask.r > 0 /\ Len(wire) \in Nat /\ FIFO \in Nat
      /\ bus \in Buses /\ wctr[bus] \in Nat
  BY AskedIsNumbers DEF WireInv, WireTyped
<1>1. /\ task = "begun" /\ task' = "started"
      /\ UNCHANGED <<bus, ask, count, note, rcnt, irq, mask, rx_fifo, stop, flushed, late, wire,
                     refused, timedOut>>
  BY DEF Wire!FirstFill, Wire!faultVars
<1>2. bus \notin flushed /\ wire = <<>> /\ tx_fifo[bus] = <<>> /\ rx_fifo[bus] = 0
  BY <1>0, <1>1 DEF CountersAgree
<1>3. \/ wctr[bus] > 0 /\ Wire!TxFillFifo(bus)
      \/ wctr[bus] = 0 /\ Wire!RxFillFifo(bus)
  BY <1>0 DEF Wire!FirstFill
<1> DEFINE n == Len(wire) + Len(tx_fifo'[bus])
<1>4. /\ tx_fifo' \in [Buses -> Seq(Commands)]
      /\ wctr' \in [Buses -> Nat] /\ rctr' \in [Buses -> Nat] /\ restart_on_next' \subseteq Buses
      /\ \A b \in Buses \ {bus} : tx_fifo'[b] = tx_fifo[b]
      /\ Len(tx_fifo'[bus]) <= FIFO
      /\ \A k \in 1 .. Len(tx_fifo'[bus]) :
           Len(wire) + k <= ask.w + ask.r /\ tx_fifo'[bus][k] = Command(ask, Len(wire) + k)
      /\ n <= ask.w + ask.r
      /\ wctr'[bus] = (IF n < ask.w THEN ask.w - n ELSE 0)
      /\ rctr'[bus] = ask.r - Reads(ask, n)
      /\ bus \in restart_on_next' <=> n = ask.w /\ ask.w > 0 /\ ask.r > 0
  BY <1>1, <1>2, <1>3, FillContinues
<1>5. WireTyped'
  BY <1>0, <1>1, <1>4 DEF WireTyped
<1>6. FifosPaced'
  <2>1. Len(tx_fifo'[bus]) \in Nat
    BY <1>0, <1>4, LenProperties
  <2>2. \A b \in Buses : rx_fifo[b] + Len(tx_fifo'[b]) <= FIFO
    <3> TAKE b \in Buses
    <3>1. CASE b = bus
      BY <1>2, <1>4, <2>1, <3>1
    <3>2. CASE b # bus
      BY <1>0, <1>4, <3>2 DEF FifosPaced
    <3> QED BY <3>1, <3>2
  <2>3. \A b \in flushed : tx_fifo'[b] = <<>>
    BY <1>0, <1>2, <1>4 DEF FifosPaced, WireTyped
  <2> QED BY <1>0, <1>1, <2>2, <2>3 DEF FifosPaced
<1>7. CommandsInOrder'
  BY <1>0, <1>1, <1>4 DEF CommandsInOrder
<1>8. CountersAgree'
  BY <1>0, <1>1, <1>2, <1>4 DEF CountersAgree
<1>9. ResultsAgree'
  BY <1>0, <1>1 DEF ResultsAgree
<1>10. StopsAreOwn'
  BY <1>0, <1>1, <1>4 DEF StopsAreOwn
<1> QED BY <1>5, <1>6, <1>7, <1>8, <1>9, <1>10 DEF WireInv

(* Steps of the task that leave the controller alone.                      *)
LEMMA TaskSteps ==
  ASSUME Wire!Parameters, WireInv,
         Wire!Enable \/ Wire!Notified \/ Wire!TimedOut \/ Wire!Return
  PROVE  WireInv' /\ UNCHANGED rcnt
<1>0. /\ WireTyped /\ FifosPaced /\ CommandsInOrder /\ CountersAgree /\ ResultsAgree /\ StopsAreOwn
      /\ ask.w \in Nat /\ ask.r \in Nat /\ ask.w + ask.r > 0 /\ Len(wire) \in Nat
      /\ bus \in Buses /\ wctr[bus] \in Nat /\ rcnt[bus] \in Nat /\ rx_fifo[bus] \in Nat
  BY AskedIsNumbers DEF WireInv, WireTyped
<1>1. UNCHANGED <<bus, ask, wctr, rctr, rcnt, restart_on_next, mask, tx_fifo, rx_fifo, stop,
                  flushed, late, wire, refused>>
  BY DEF Wire!Enable, Wire!Notified, Wire!TimedOut, Wire!Return, Wire!driverVars, Wire!chipVars,
         Wire!faultVars
<1>2. CommandsInOrder'
  BY <1>0, <1>1 DEF CommandsInOrder
<1>3. task # "free" /\ task' # "begun"
  BY DEF Wire!Enable, Wire!Notified, Wire!TimedOut, Wire!Return
<1>4. CountersAgree'
  BY <1>0, <1>1, <1>3 DEF CountersAgree
<1>5. CASE Wire!Enable
  <2>1. task = "started" /\ task' = "waiting" /\ irq' = irq \cup {bus} /\ UNCHANGED <<count, note, timedOut>>
    BY <1>5 DEF Wire!Enable, Wire!faultVars
  <2>2. WireTyped' /\ FifosPaced'
    BY <1>0, <1>1, <2>1 DEF WireTyped, FifosPaced
  <2>3. ResultsAgree' /\ StopsAreOwn'
    BY <1>0, <1>1, <2>1 DEF ResultsAgree, StopsAreOwn, NothingMore
  <2> QED BY <1>1, <1>2, <1>4, <2>2, <2>3 DEF WireInv
<1>6. CASE Wire!Notified
  <2>1. /\ task = "waiting" /\ note # "none" /\ note' = "none"
        /\ task' = (IF note = "own" THEN "told" ELSE "misled")
        /\ count' = count - (rcnt[bus] + wctr[bus]) /\ UNCHANGED <<irq, timedOut>>
    BY <1>6 DEF Wire!Notified, Wire!NoteTaken, Wire!Missing, Wire!driverVars, Wire!faultVars
  <2>2. count = ask.w + ask.r
    BY <1>0, <2>1 DEF ResultsAgree
  <2>3. WireTyped' /\ FifosPaced'
    <3>1. count' \in Int /\ task' \in {"told", "misled"}
      BY <1>0, <2>1, <2>2
    <3> QED BY <1>0, <1>1, <2>1, <3>1 DEF WireTyped, FifosPaced
  <2>4. count' = ask.w + ask.r /\ ask.r > 0 => Len(wire) = ask.w + ask.r
    <3> SUFFICES ASSUME count' = ask.w + ask.r, ask.r > 0 PROVE Len(wire) = ask.w + ask.r
      OBVIOUS
    <3>1. rcnt[bus] = 0
      BY <1>0, <2>1, <2>2
    <3>2. rcnt[bus] = rx_fifo[bus] + (ask.r - Reads(ask, Len(wire)))
      BY <1>0, <2>1 DEF CountersAgree
    <3>3. Len(wire) >= ask.w + ask.r
      BY <1>0, <3>1, <3>2 DEF Reads
    <3>4. Len(wire) <= ask.w + ask.r
      BY <1>0, <3>3 DEF CommandsInOrder
    <3> QED BY <1>0, <3>3, <3>4
  <2>5. ResultsAgree'
    <3>1. task' \in {"told", "misled"} /\ (task' = "told" => note = "own")
      BY <2>1
    <3> QED BY <1>0, <1>1, <2>1, <2>4, <3>1 DEF ResultsAgree
  <2>6. StopsAreOwn'
    BY <1>0, <1>1, <2>1 DEF StopsAreOwn, NothingMore, WireTyped
  <2> QED BY <1>1, <1>2, <1>4, <2>3, <2>5, <2>6 DEF WireInv
<1>7. CASE Wire!TimedOut
  <2>1. /\ task = "waiting" /\ task' = "late" /\ count' = 0 /\ timedOut' = timedOut + 1
        /\ UNCHANGED <<irq, note>>
    BY <1>7 DEF Wire!TimedOut, Wire!driverVars
  <2>2. WireTyped' /\ FifosPaced'
    BY <1>0, <1>1, <2>1 DEF WireTyped, FifosPaced
  <2>3. ResultsAgree' /\ StopsAreOwn'
    BY <1>0, <1>1, <2>1 DEF WireTyped, ResultsAgree, StopsAreOwn
  <2> QED BY <1>1, <1>2, <1>4, <2>2, <2>3 DEF WireInv
<1>8. CASE Wire!Return
  <2>1. /\ task \in {"told", "misled", "late"} /\ task' = "free" /\ irq' = irq \ {bus}
        /\ UNCHANGED <<count, note, timedOut>>
    BY <1>8 DEF Wire!Return, Wire!Disabled, Wire!faultVars
  <2>2. irq' = {}
    BY <1>0, <2>1 DEF FifosPaced
  <2>3. WireTyped' /\ FifosPaced'
    BY <1>0, <1>1, <2>1, <2>2 DEF WireTyped, FifosPaced
  <2>4. ResultsAgree' /\ StopsAreOwn'
    BY <1>0, <1>1, <2>1 DEF ResultsAgree, StopsAreOwn, NothingMore
  <2> QED BY <1>1, <1>2, <1>4, <2>3, <2>4 DEF WireInv
<1> QED BY <1>1, <1>5, <1>6, <1>7, <1>8

(* The interrupt: what has come goes to the caller first, so that the FIFO *)
(* has room for what is asked for next.                                    *)
LEMMA IsrStep ==
  ASSUME Wire!Parameters, WireInv, NEW b \in Buses, Wire!Isr(b)
  PROVE  WireInv' /\ b = bus /\ task \in {"waiting", "told", "misled", "late"} /\ UNCHANGED bus
                  /\ \A c \in Buses \ {b} : rcnt'[c] = rcnt[c]
<1>0. /\ WireTyped /\ FifosPaced /\ CommandsInOrder /\ CountersAgree /\ ResultsAgree /\ StopsAreOwn
      /\ ask.w \in Nat /\ ask.r \in Nat /\ ask.w + ask.r > 0 /\ Len(wire) \in Nat /\ FIFO \in Nat
      /\ wctr[bus] \in Nat /\ rcnt[bus] \in Nat /\ rx_fifo[bus] \in Nat /\ Len(tx_fifo[bus]) \in Nat
  BY AskedIsNumbers DEF WireInv, WireTyped
<1>1. b = bus /\ task \in {"waiting", "told", "misled", "late"}
  BY <1>0 DEF Wire!Isr, FifosPaced
<1>2. UNCHANGED <<task, bus, ask, count, irq, flushed, late, wire, refused, timedOut>>
  BY DEF Wire!Isr, Wire!callVars, Wire!faultVars
<1>3. rcnt[bus] = rx_fifo[bus] + (ask.r - Reads(ask, Len(wire)))
  BY <1>0, <1>1 DEF CountersAgree
<1>4. Len(wire) <= ask.w + ask.r
  BY <1>0 DEF CommandsInOrder
<1>5. ask.r - Reads(ask, Len(wire)) \in Nat /\ rx_fifo[bus] <= rcnt[bus]
  <2>1. ask.r - Reads(ask, Len(wire)) \in Nat
    BY <1>0, <1>4 DEF Reads
  <2> QED BY <1>0, <1>3, <2>1
<1>50. Wire!Drained(bus) = rx_fifo[bus]
  <2>1. Wire!Drained(bus) = IF rcnt[bus] <= rx_fifo[bus] THEN rcnt[bus] ELSE rx_fifo[bus]
    BY <1>0, SmallerOfTwo DEF Wire!Drained
  <2> QED BY <1>0, <1>5, <2>1
<1>6. /\ rcnt' = [rcnt EXCEPT ![bus] = @ - rx_fifo[bus]]
      /\ rx_fifo' = [rx_fifo EXCEPT ![bus] = @ - rx_fifo[bus]]
  BY <1>1, <1>50 DEF Wire!Isr
<1>7. /\ rcnt' \in [Buses -> Nat] /\ rcnt'[bus] = ask.r - Reads(ask, Len(wire))
      /\ rx_fifo' \in [Buses -> Nat] /\ rx_fifo'[bus] = 0
      /\ \A c \in Buses \ {bus} : rx_fifo'[c] = rx_fifo[c] /\ rcnt'[c] = rcnt[c]
  <2>1. rcnt[bus] - rx_fifo[bus] = ask.r - Reads(ask, Len(wire)) /\ rx_fifo[bus] - rx_fifo[bus] = 0
    BY <1>0, <1>3, <1>5
  <2>2. rcnt \in [Buses -> Nat] /\ rx_fifo \in [Buses -> Nat] /\ bus \in Buses
    BY <1>0, <1>1 DEF WireTyped
  <2>3. rcnt' = [rcnt EXCEPT ![bus] = ask.r - Reads(ask, Len(wire))]
    BY <1>6, <2>1
  <2>4. rx_fifo' = [rx_fifo EXCEPT ![bus] = 0]
    BY <1>6, <2>1
  <2> QED BY <1>5, <2>2, <2>3, <2>4
<1> DEFINE n == Len(wire) + Len(tx_fifo'[bus])
(* Whether it fills the FIFO or not, it leaves the transaction in order.   *)
<1>8. /\ tx_fifo' \in [Buses -> Seq(Commands)]
      /\ wctr' \in [Buses -> Nat] /\ rctr' \in [Buses -> Nat] /\ restart_on_next' \subseteq Buses
      /\ \A c \in Buses \ {bus} : tx_fifo'[c] = tx_fifo[c]
      /\ Len(tx_fifo'[bus]) <= FIFO
      /\ bus \in flushed => tx_fifo'[bus] = <<>>
      /\ \A k \in 1 .. Len(tx_fifo'[bus]) :
           Len(wire) + k <= ask.w + ask.r /\ tx_fifo'[bus][k] = Command(ask, Len(wire) + k)
      /\ bus \notin flushed =>
           /\ n <= ask.w + ask.r
           /\ wctr'[bus] = (IF n < ask.w THEN ask.w - n ELSE 0)
           /\ rctr'[bus] = ask.r - Reads(ask, n)
           /\ bus \in restart_on_next' <=> n = ask.w /\ ask.w > 0 /\ ask.r > 0
      /\ NothingMore =>
           tx_fifo'[bus] = <<>> /\ (bus \in flushed \/ (wctr'[bus] = 0 /\ rctr'[bus] = 0))
  <2>1. CASE Wire!TxEmpty(bus)
    <3>1. tx_fifo[bus] = <<>>
      BY <2>1 DEF Wire!TxEmpty
    <3>2. \/ wctr[bus] > 0 /\ Wire!TxFillFifo(bus)
          \/ wctr[bus] = 0 /\ Wire!RxFillFifo(bus)
      BY <1>1, <2>1 DEF Wire!Isr
    <3>3. task # "free"
      BY <1>1
    <3> QED BY <3>1, <3>2, <3>3, FillContinues
  <2>2. CASE ~Wire!TxEmpty(bus)
    <3>1. UNCHANGED <<tx_fifo, wctr, rctr, restart_on_next>>
      BY <1>1, <2>2 DEF Wire!Isr
    <3>2. Len(tx_fifo[bus]) <= FIFO
      BY <1>0, <1>1 DEF FifosPaced
    <3>3. bus \in flushed => tx_fifo[bus] = <<>>
      BY <1>0 DEF FifosPaced
    <3> QED BY <1>0, <1>1, <3>1, <3>2, <3>3 DEF WireTyped, CommandsInOrder, CountersAgree, NothingMore
  <2> QED BY <2>1, <2>2
<1>9. /\ mask' \in [Buses -> SUBSET {"STOP", "TX_EMPTY", "RX_FULL"}]
      /\ stop[bus] # "none" /\ "STOP" \in mask[bus] => mask'[bus] = {}
  BY <1>0, <1>1 DEF Wire!Isr, WireTyped, Wire!AfterCommands, Wire!Stopped
<1>10. \/ Wire!Stopped(bus) /\ stop' = [stop EXCEPT ![bus] = "none"] /\ note' = stop[bus]
       \/ ~Wire!Stopped(bus) /\ UNCHANGED <<stop, note>>
  BY <1>1 DEF Wire!Isr, Wire!StopCleared
<1>11. mask[bus] # {}
  BY <1>1 DEF Wire!Isr, Wire!TxEmpty, Wire!Stopped, Wire!RxFull
<1>12. WireTyped'
  BY <1>0, <1>2, <1>7, <1>8, <1>9, <1>10 DEF WireTyped
<1>13. FifosPaced'
  <2>1. Len(tx_fifo'[bus]) \in Nat
    BY <1>0, <1>1, <1>8, LenProperties
  <2>2. \A c \in Buses : rx_fifo'[c] + Len(tx_fifo'[c]) <= FIFO
    <3> TAKE c \in Buses
    <3>1. CASE c = bus
      BY <1>7, <1>8, <2>1, <3>1
    <3>2. CASE c # bus
      BY <1>0, <1>7, <1>8, <3>2 DEF FifosPaced
    <3> QED BY <3>1, <3>2
  <2>3. \A c \in flushed : tx_fifo'[c] = <<>>
    BY <1>0, <1>8 DEF FifosPaced, WireTyped
  <2> QED BY <1>0, <1>2, <2>2, <2>3 DEF FifosPaced
<1>14. CommandsInOrder'
  BY <1>0, <1>2, <1>8 DEF CommandsInOrder
<1>15. CountersAgree'
  BY <1>0, <1>1, <1>2, <1>4, <1>7, <1>8 DEF CountersAgree, Reads
<1>16. ResultsAgree'
  BY <1>0, <1>1, <1>2, <1>10 DEF ResultsAgree, WireTyped, Wire!Stopped
<1>17. StopsAreOwn'
  <2> SUFFICES ASSUME timedOut = 0 PROVE StopsAreOwn'
    BY <1>2 DEF StopsAreOwn
  <2>1. /\ \A c \in Buses \ {bus} : tx_fifo[c] = <<>> /\ stop[c] = "none"
        /\ late = {} /\ note # "old" /\ stop[bus] # "old" /\ task = "waiting"
        /\ stop[bus] = "own" => note = "none" /\ NothingMore
        /\ note # "own"
    BY <1>0, <1>1, <1>11 DEF StopsAreOwn
  <2>2. CASE Wire!Stopped(bus)
    <3>1. stop[bus] = "own" /\ note' = "own" /\ NothingMore /\ mask'[bus] = {}
      BY <1>0, <1>1, <1>9, <1>10, <2>1, <2>2 DEF Wire!Stopped, WireTyped
    <3>2. stop' = [stop EXCEPT ![bus] = "none"]
      BY <1>10, <2>2
    <3>3. NothingMore'
      BY <1>2, <1>8, <3>1 DEF NothingMore
    <3> QED BY <1>0, <1>1, <1>2, <1>8, <2>1, <3>1, <3>2, <3>3 DEF StopsAreOwn, WireTyped
  <2>3. CASE ~Wire!Stopped(bus)
    <3>1. UNCHANGED <<stop, note>>
      BY <1>10, <2>3
    <3>2. NothingMore => NothingMore'
      BY <1>2, <1>8 DEF NothingMore
    <3> QED BY <1>0, <1>1, <1>2, <1>8, <2>1, <3>1, <3>2 DEF StopsAreOwn, WireTyped
  <2> QED BY <2>2, <2>3
<1> QED BY <1>1, <1>2, <1>7, <1>12, <1>13, <1>14, <1>15, <1>16, <1>17 DEF WireInv

(* The controller sends a command of the transaction.                      *)
LEMMA SendStep ==
  ASSUME Wire!Parameters, WireInv, Wire!Send(bus)
  PROVE  WireInv'
<1>0. /\ WireTyped /\ FifosPaced /\ CommandsInOrder /\ CountersAgree /\ ResultsAgree /\ StopsAreOwn
      /\ ask.w \in Nat /\ ask.r \in Nat /\ ask.w + ask.r > 0 /\ Len(wire) \in Nat /\ FIFO \in Nat
      /\ bus \in Buses /\ rx_fifo[bus] \in Nat /\ tx_fifo[bus] \in Seq(Commands) /\ wire \in Seq(Commands)
  BY AskedIsNumbers DEF WireInv, WireTyped
<1> DEFINE command == Head(tx_fifo[bus])
<1>1. tx_fifo[bus] # <<>> /\ Len(tx_fifo[bus]) \in Nat \ {0}
  BY <1>0, EmptySeq, LenProperties DEF Wire!Send
<1>2. /\ command \in Commands /\ command = tx_fifo[bus][1]
      /\ Tail(tx_fifo[bus]) \in Seq(Commands) /\ Len(Tail(tx_fifo[bus])) = Len(tx_fifo[bus]) - 1
      /\ \A k \in 1 .. Len(tx_fifo[bus]) - 1 : Tail(tx_fifo[bus])[k] = tx_fifo[bus][k + 1]
  BY <1>0, <1>1, HeadTailProperties
<1>3. command = Command(ask, Len(wire) + 1) /\ Len(wire) + 1 <= ask.w + ask.r
  BY <1>0, <1>1, <1>2 DEF CommandsInOrder
<1>4. /\ command.read = (Len(wire) + 1 > ask.w)
      /\ command.stop = (Len(wire) + 1 = ask.w + ask.r)
  <2> HIDE DEF command
  <2> QED BY <1>3 DEF Command
<1>5. bus \notin flushed
  BY <1>0, <1>1 DEF FifosPaced
<1>6. /\ tx_fifo' = [tx_fifo EXCEPT ![bus] = Tail(@)]
      /\ wire' = Append(wire, command)
      /\ rx_fifo' = (IF command.read THEN [rx_fifo EXCEPT ![bus] = @ + 1] ELSE rx_fifo)
      /\ stop' = (IF command.stop THEN [stop EXCEPT ![bus] = "own"] ELSE stop)
      /\ UNCHANGED <<task, bus, ask, count, note, wctr, rctr, rcnt, restart_on_next, irq, mask,
                     flushed, late, refused, timedOut>>
  BY DEF Wire!Send, Wire!StopOf, Wire!callVars, Wire!driverVars, Wire!faultVars
<1> HIDE DEF command
<1>7. /\ wire' \in Seq(Commands) /\ Len(wire') = Len(wire) + 1 /\ wire'[Len(wire) + 1] = command
      /\ \A k \in 1 .. Len(wire) : wire'[k] = wire[k]
  BY <1>0, <1>2, <1>6, AppendProperties
<1>8. /\ tx_fifo'[bus] \in Seq(Commands) /\ Len(tx_fifo'[bus]) = Len(tx_fifo[bus]) - 1
      /\ \A k \in 1 .. Len(tx_fifo'[bus]) : tx_fifo'[bus][k] = tx_fifo[bus][k + 1]
      /\ \A c \in Buses \ {bus} : tx_fifo'[c] = tx_fifo[c] /\ rx_fifo'[c] = rx_fifo[c] /\ stop'[c] = stop[c]
  BY <1>0, <1>2, <1>6 DEF WireTyped
<1> DEFINE sent == Len(wire)
           left == Len(tx_fifo[bus])
           leftNow == Len(tx_fifo'[bus])
           held == rx_fifo[bus]
           heldNow == rx_fifo'[bus]
<1>80. Len(wire') = sent + 1 /\ leftNow = left - 1 /\ sent \in Nat /\ left \in Nat /\ left >= 1
  BY <1>0, <1>1, <1>7, <1>8
<1>9. /\ rx_fifo' \in [Buses -> Nat]
      /\ rx_fifo'[bus] = rx_fifo[bus] + (IF Len(wire) + 1 > ask.w THEN 1 ELSE 0)
  <2>1. CASE Len(wire) + 1 > ask.w
    <3>1. rx_fifo' = [rx_fifo EXCEPT ![bus] = @ + 1]
      BY <1>4, <1>6, <2>1
    <3> QED BY <1>0, <2>1, <3>1 DEF WireTyped
  <2>2. CASE ~(Len(wire) + 1 > ask.w)
    <3>1. rx_fifo' = rx_fifo
      BY <1>4, <1>6, <2>2
    <3> QED BY <1>0, <2>2, <3>1 DEF WireTyped
  <2> QED BY <2>1, <2>2
<1>10. stop'[bus] = (IF Len(wire) + 1 = ask.w + ask.r THEN "own" ELSE stop[bus])
  BY <1>0, <1>4, <1>6 DEF WireTyped
<1>11. WireTyped'
  <2>1. stop' \in [Buses -> {"none", "own", "old"}] /\ tx_fifo' \in [Buses -> Seq(Commands)]
    BY <1>0, <1>2, <1>6 DEF WireTyped
  <2> QED BY <1>0, <1>6, <1>7, <1>9, <2>1 DEF WireTyped
<1>12. FifosPaced'
  <2>1. \A c \in Buses : rx_fifo'[c] + Len(tx_fifo'[c]) <= FIFO
    <3> TAKE c \in Buses
    <3>1. CASE c = bus
      <4>1. rx_fifo[bus] + Len(tx_fifo[bus]) <= FIFO
        BY <1>0 DEF FifosPaced
      <4> QED BY <1>0, <1>1, <1>8, <1>9, <3>1, <4>1
    <3>2. CASE c # bus
      BY <1>0, <1>8, <3>2 DEF FifosPaced
    <3> QED BY <3>1, <3>2
  <2>2. \A c \in flushed : tx_fifo'[c] = <<>>
    BY <1>0, <1>5, <1>8 DEF FifosPaced, WireTyped
  <2> QED BY <1>0, <1>6, <2>1, <2>2 DEF FifosPaced
<1>13. CommandsInOrder'
  <2>1. \A k \in 1 .. Len(wire') : k <= ask.w + ask.r /\ wire'[k] = Command(ask, k)
    <3> TAKE k \in 1 .. Len(wire')
    <3>1. k \in 1 .. Len(wire) \/ k = Len(wire) + 1
      BY <1>0, <1>7
    <3> QED BY <1>0, <1>3, <1>7, <3>1 DEF CommandsInOrder
  <2>2. ASSUME NEW k \in 1 .. Len(tx_fifo'[bus])
        PROVE  Len(wire') + k <= ask.w + ask.r /\ tx_fifo'[bus][k] = Command(ask, Len(wire') + k)
    <3>1. k + 1 \in 1 .. Len(tx_fifo[bus]) /\ Len(wire) + (k + 1) = Len(wire') + k
      BY <1>0, <1>1, <1>7, <1>8
    <3>2. tx_fifo[bus][k + 1] = Command(ask, Len(wire) + (k + 1)) /\ Len(wire) + (k + 1) <= ask.w + ask.r
      BY <1>0, <3>1 DEF CommandsInOrder
    <3> QED BY <1>8, <3>1, <3>2
  <2> QED BY <1>6, <2>1, <2>2 DEF CommandsInOrder
<1>14. CountersAgree'
  <2> SUFFICES ASSUME task # "free" PROVE CountersAgree'
    BY <1>6 DEF CountersAgree
  <2>1. Len(wire') + Len(tx_fifo'[bus]) = Len(wire) + Len(tx_fifo[bus])
    <3> HIDE DEF sent, left, leftNow
    <3>1. Len(wire') + leftNow = sent + left
      BY <1>80
    <3> QED BY <3>1 DEF sent, left, leftNow
  <2>2. rcnt[bus] = rx_fifo'[bus] + (ask.r - Reads(ask, Len(wire')))
    <3>1. rcnt[bus] = held + (ask.r - Reads(ask, sent))
      BY <1>0 DEF CountersAgree
    <3>2. /\ heldNow = held + (IF sent + 1 > ask.w THEN 1 ELSE 0)
          /\ ask.w \in Nat /\ ask.r \in Nat /\ held \in Nat
      BY <1>0, <1>9
    <3> HIDE DEF sent, left, leftNow, held, heldNow
    <3>3. rcnt[bus] = heldNow + (ask.r - Reads(ask, sent + 1))
      <4>1. CASE sent + 1 > ask.w
        <5>1. heldNow = held + 1 /\ Reads(ask, sent) = sent - ask.w /\ Reads(ask, sent + 1) = sent + 1 - ask.w
          BY <1>80, <3>2, <4>1 DEF Reads
        <5>2. \A i, j, k, l \in Nat : (i + 1) + (j - (k + 1 - l)) = i + (j - (k - l))
          OBVIOUS
        <5>3. (held + 1) + (ask.r - (sent + 1 - ask.w)) = held + (ask.r - (sent - ask.w))
          BY <1>80, <3>2, <5>2
        <5> QED BY <3>1, <5>1, <5>3
      <4>2. CASE ~(sent + 1 > ask.w)
        <5>1. heldNow = held /\ Reads(ask, sent) = 0 /\ Reads(ask, sent + 1) = 0
          BY <1>80, <3>2, <4>2 DEF Reads
        <5> QED BY <3>1, <5>1
      <4> QED BY <4>1, <4>2
    <3> QED BY <1>80, <3>3 DEF heldNow
  <2>3. task # "begun"
    BY <1>0, <1>1 DEF CountersAgree
  <2> QED BY <1>0, <1>5, <1>6, <2>1, <2>2, <2>3 DEF CountersAgree
<1>15. ResultsAgree'
  <2>1. ~(task \in {"told", "misled"} /\ ask.r > 0 /\ count = ask.w + ask.r)
    BY <1>0, <1>3 DEF ResultsAgree
  <2>2. refused = 0 => ~(stop[bus] = "own" \/ note = "own" \/ task = "told")
    BY <1>0, <1>3 DEF ResultsAgree
  <2> QED BY <1>0, <1>6, <1>7, <1>8, <1>10, <2>1, <2>2 DEF ResultsAgree
<1>16. StopsAreOwn'
  <2> SUFFICES ASSUME timedOut = 0 PROVE StopsAreOwn'
    BY <1>6 DEF StopsAreOwn
  <2>1. /\ task \in {"begun", "started", "waiting"} /\ note = "none" /\ stop[bus] = "none"
        /\ late = {} /\ \A c \in Buses \ {bus} : tx_fifo[c] = <<>> /\ stop[c] = "none"
    BY <1>0, <1>1 DEF StopsAreOwn, NothingMore, WireTyped
  <2>2. task # "begun"
    BY <1>0, <1>1, <2>1 DEF CountersAgree
  <2>3. stop'[bus] = "own" => NothingMore'
    <3> SUFFICES ASSUME Len(wire) + 1 = ask.w + ask.r PROVE NothingMore'
      BY <1>10, <2>1
    <3>1. Len(wire) + Len(tx_fifo[bus]) <= ask.w + ask.r
      BY <1>0, <1>5, <2>1 DEF CountersAgree
    <3>2. Len(tx_fifo[bus]) = 1
      <4>1. sent + 1 = ask.w + ask.r /\ sent + left <= ask.w + ask.r
        BY <3>1
      <4> HIDE DEF sent, left, leftNow
      <4>2. left = 1
        BY <1>80, <4>1
      <4> QED BY <4>2 DEF left
    <3>3. tx_fifo'[bus] = <<>>
      BY <1>8, <3>2, EmptySeq
    <3>4. wctr[bus] = 0 /\ rctr[bus] = 0
      BY <1>0, <1>5, <2>1, <3>2 DEF CountersAgree, Reads
    <3> QED BY <1>6, <3>3, <3>4 DEF NothingMore
  <2>4. stop'[bus] \in {"none", "own"}
    BY <1>10, <2>1
  <2> QED BY <1>6, <1>8, <2>1, <2>2, <2>3, <2>4 DEF StopsAreOwn
<1> QED BY <1>11, <1>12, <1>13, <1>14, <1>15, <1>16 DEF WireInv

(* It sends one of a transfer that was cut off on another bus.             *)
LEMMA OtherSendStep ==
  ASSUME Wire!Parameters, WireInv, NEW b \in Buses \ {bus}, Wire!Send(b)
  PROVE  WireInv'
<1>0. /\ WireTyped /\ FifosPaced /\ CommandsInOrder /\ CountersAgree /\ ResultsAgree /\ StopsAreOwn
      /\ bus \in Buses /\ rx_fifo[b] \in Nat /\ tx_fifo[b] \in Seq(Commands)
  BY DEF WireInv, WireTyped
<1>1. tx_fifo[b] # <<>> /\ Len(tx_fifo[b]) \in Nat \ {0}
  BY <1>0, EmptySeq, LenProperties DEF Wire!Send
<1>2. Tail(tx_fifo[b]) \in Seq(Commands) /\ Len(Tail(tx_fifo[b])) = Len(tx_fifo[b]) - 1
  BY <1>0, <1>1, HeadTailProperties
<1>3. /\ tx_fifo' = [tx_fifo EXCEPT ![b] = Tail(@)]
      /\ rx_fifo' \in {rx_fifo, [rx_fifo EXCEPT ![b] = @ + 1]}
      /\ stop' \in {stop, [stop EXCEPT ![b] = "old"]}
      /\ UNCHANGED <<task, bus, ask, count, note, wctr, rctr, rcnt, restart_on_next, irq, mask,
                     flushed, late, wire, refused, timedOut>>
  BY DEF Wire!Send, Wire!StopOf, Wire!callVars, Wire!driverVars, Wire!faultVars
<1>4. /\ Len(tx_fifo'[b]) = Len(tx_fifo[b]) - 1 /\ rx_fifo'[b] \in {rx_fifo[b], rx_fifo[b] + 1}
      /\ \A c \in Buses \ {b} : tx_fifo'[c] = tx_fifo[c] /\ rx_fifo'[c] = rx_fifo[c] /\ stop'[c] = stop[c]
      /\ stop'[b] \in {stop[b], "old"}
  BY <1>0, <1>2, <1>3 DEF WireTyped
<1>5. timedOut # 0
  BY <1>0, <1>1 DEF StopsAreOwn
<1>6. b \notin flushed
  BY <1>0, <1>1 DEF FifosPaced
<1>7. WireTyped'
  <2>1. /\ rx_fifo' \in [Buses -> Nat] /\ tx_fifo' \in [Buses -> Seq(Commands)]
        /\ stop' \in [Buses -> {"none", "own", "old"}]
    <3>1. rx_fifo' \in [Buses -> Nat]
      <4>1. rx_fifo \in [Buses -> Nat] /\ rx_fifo[b] + 1 \in Nat
        BY <1>0 DEF WireTyped
      <4>2. [rx_fifo EXCEPT ![b] = @ + 1] \in [Buses -> Nat]
        BY <4>1
      <4> QED BY <1>3, <4>1, <4>2
    <3>2. tx_fifo' \in [Buses -> Seq(Commands)]
      BY <1>0, <1>2, <1>3 DEF WireTyped
    <3>3. stop' \in [Buses -> {"none", "own", "old"}]
      BY <1>0, <1>3 DEF WireTyped
    <3> QED BY <3>1, <3>2, <3>3
  <2> QED BY <1>0, <1>3, <2>1 DEF WireTyped
<1>8. FifosPaced'
  <2>1. \A c \in Buses : rx_fifo'[c] + Len(tx_fifo'[c]) <= FIFO
    <3> TAKE c \in Buses
    <3>1. CASE c = b
      <4> DEFINE left == Len(tx_fifo[b])
                 leftNow == Len(tx_fifo'[b])
                 held == rx_fifo[b]
                 heldNow == rx_fifo'[b]
      <4>1. held + left <= FIFO /\ left \in Nat /\ held \in Nat /\ leftNow = left - 1 /\ heldNow \in {held, held + 1}
        BY <1>0, <1>1, <1>4 DEF FifosPaced
      <4>2. FIFO \in Nat
        BY DEF Wire!Parameters
      <4> HIDE DEF left, leftNow, held, heldNow
      <4>3. heldNow + leftNow <= FIFO
        BY <4>1, <4>2
      <4> QED BY <3>1, <4>3 DEF heldNow, leftNow
    <3>2. CASE c # b
      BY <1>0, <1>4, <3>2 DEF FifosPaced
    <3> QED BY <3>1, <3>2
  <2>2. \A c \in flushed : tx_fifo'[c] = <<>>
    BY <1>0, <1>4, <1>6 DEF FifosPaced, WireTyped
  <2> QED BY <1>0, <1>3, <2>1, <2>2 DEF FifosPaced
<1>9. tx_fifo'[bus] = tx_fifo[bus] /\ rx_fifo'[bus] = rx_fifo[bus] /\ stop'[bus] = stop[bus]
  BY <1>0, <1>4
<1>10. CommandsInOrder' /\ CountersAgree'
  BY <1>0, <1>3, <1>9 DEF CommandsInOrder, CountersAgree
<1>11. ResultsAgree'
  BY <1>0, <1>3, <1>4, <1>9 DEF ResultsAgree
<1>12. StopsAreOwn'
  BY <1>3, <1>5 DEF StopsAreOwn
<1> QED BY <1>7, <1>8, <1>10, <1>11, <1>12 DEF WireInv

(* A command is refused, and the rest of the transfer is discarded.        *)
LEMMA RefuseStep ==
  ASSUME Wire!Parameters, WireInv, NEW b \in Buses, Wire!Refuse(b)
  PROVE  WireInv'
<1>0. /\ WireTyped /\ FifosPaced /\ CommandsInOrder /\ CountersAgree /\ ResultsAgree /\ StopsAreOwn
      /\ bus \in Buses /\ rx_fifo[b] \in Nat /\ Len(tx_fifo[b]) \in Nat /\ FIFO \in Nat
  BY AskedIsNumbers DEF WireInv, WireTyped
<1>1. /\ tx_fifo[b] # <<>> /\ tx_fifo' = [tx_fifo EXCEPT ![b] = <<>>]
      /\ flushed' = flushed \cup {b} /\ refused' = refused + 1
      /\ stop' = [stop EXCEPT ![b] = IF b = bus THEN "own" ELSE "old"]
      /\ UNCHANGED <<task, bus, ask, count, note, wctr, rctr, rcnt, restart_on_next, irq, mask,
                     rx_fifo, late, wire, timedOut>>
  BY DEF Wire!Refuse, Wire!StopOf, Wire!callVars, Wire!driverVars
<1>2. /\ tx_fifo'[b] = <<>> /\ Len(tx_fifo'[b]) = 0
      /\ stop'[b] = (IF b = bus THEN "own" ELSE "old")
      /\ \A c \in Buses \ {b} : tx_fifo'[c] = tx_fifo[c] /\ stop'[c] = stop[c]
  BY <1>0, <1>1, EmptySeq DEF WireTyped
<1>3. WireTyped'
  <2>1. stop' \in [Buses -> {"none", "own", "old"}] /\ tx_fifo' \in [Buses -> Seq(Commands)]
    BY <1>0, <1>1, EmptySeq DEF WireTyped
  <2> QED BY <1>0, <1>1, <2>1 DEF WireTyped
<1>4. FifosPaced'
  <2>1. \A c \in Buses : rx_fifo[c] + Len(tx_fifo'[c]) <= FIFO
    <3> TAKE c \in Buses
    <3>1. CASE c = b
      <4>1. rx_fifo[b] + Len(tx_fifo[b]) <= FIFO
        BY <1>0 DEF FifosPaced
      <4>2. rx_fifo[b] <= FIFO
        BY <1>0, <4>1
      <4> QED BY <1>0, <1>2, <3>1, <4>2
    <3>2. CASE c # b
      BY <1>0, <1>2, <3>2 DEF FifosPaced
    <3> QED BY <3>1, <3>2
  <2>2. \A c \in flushed' : tx_fifo'[c] = <<>>
    BY <1>0, <1>1, <1>2 DEF FifosPaced, WireTyped
  <2> QED BY <1>0, <1>1, <2>1, <2>2 DEF FifosPaced
<1>5. CommandsInOrder'
  BY <1>0, <1>1, <1>2 DEF CommandsInOrder
<1>6. CountersAgree'
  <2>1. b = bus => task # "begun"
    BY <1>0, <1>1 DEF CountersAgree
  <2>2. CASE b = bus
    BY <1>0, <1>1, <2>1, <2>2 DEF CountersAgree
  <2>3. CASE b # bus
    <3>1. tx_fifo'[bus] = tx_fifo[bus] /\ (bus \in flushed' <=> bus \in flushed)
      BY <1>0, <1>1, <1>2, <2>3
    <3> QED BY <1>0, <1>1, <3>1 DEF CountersAgree
  <2> QED BY <2>2, <2>3
<1>7. ResultsAgree'
  <2>1. refused' # 0
    BY <1>0, <1>1 DEF WireTyped
  <2> QED BY <1>0, <1>1, <1>2, <2>1 DEF ResultsAgree
<1>8. StopsAreOwn'
  <2> SUFFICES ASSUME timedOut = 0 PROVE StopsAreOwn'
    BY <1>1 DEF StopsAreOwn
  <2>1. b = bus
    BY <1>0, <1>1 DEF StopsAreOwn
  <2>2. /\ task \in {"begun", "started", "waiting"} /\ note = "none" /\ late = {}
        /\ \A c \in Buses \ {bus} : tx_fifo[c] = <<>> /\ stop[c] = "none"
    BY <1>0, <1>1, <2>1 DEF StopsAreOwn, NothingMore, WireTyped
  <2>3. task # "begun"
    BY <1>0, <1>1, <2>1, <2>2 DEF CountersAgree
  <2>4. NothingMore'
    BY <1>1, <1>2, <2>1 DEF NothingMore
  <2> QED BY <1>1, <1>2, <2>1, <2>2, <2>3, <2>4 DEF StopsAreOwn
<1> QED BY <1>3, <1>4, <1>5, <1>6, <1>7, <1>8 DEF WireInv

(* A transfer that was cut off comes to its stop.                          *)
LEMMA LateStopStep ==
  ASSUME Wire!Parameters, WireInv, NEW b \in Buses, Wire!LateStop(b)
  PROVE  WireInv'
<1>0. /\ WireTyped /\ FifosPaced /\ CommandsInOrder /\ CountersAgree /\ ResultsAgree /\ StopsAreOwn
  BY DEF WireInv
<1>1. /\ b \in late /\ late' = late \ {b} /\ stop' = [stop EXCEPT ![b] = "old"]
      /\ UNCHANGED <<task, bus, ask, count, note, wctr, rctr, rcnt, restart_on_next, irq, mask,
                     tx_fifo, rx_fifo, flushed, wire, refused, timedOut>>
  BY DEF Wire!LateStop, Wire!callVars, Wire!driverVars, Wire!faultVars
<1>2. timedOut # 0
  BY <1>0, <1>1 DEF StopsAreOwn
<1>3. \A c \in Buses : stop'[c] = "own" => stop[c] = "own"
  BY <1>0, <1>1 DEF WireTyped
<1>4. WireTyped' /\ FifosPaced' /\ CommandsInOrder' /\ CountersAgree'
  BY <1>0, <1>1 DEF WireTyped, FifosPaced, CommandsInOrder, CountersAgree
<1>5. ResultsAgree'
  BY <1>0, <1>1, <1>3 DEF WireTyped, ResultsAgree
<1>6. StopsAreOwn'
  BY <1>1, <1>2 DEF StopsAreOwn
<1> QED BY <1>4, <1>5, <1>6 DEF WireInv

LEMMA WireSteps ==
  ASSUME Wire!Parameters, WireInv, Wire!Next
  PROVE  /\ WireInv'
         /\ \A b \in Buses : rcnt'[b] < rcnt[b] /\ UNCHANGED task =>
              bus = b /\ task \in {"waiting", "told", "misled", "late"}
<1>0. rcnt \in [Buses -> Nat] /\ bus \in Buses
  BY DEF WireInv, WireTyped
<1>1. \A b \in Buses : ~(rcnt[b] < rcnt[b])
  BY <1>0
<1>2. ASSUME NEW b \in Buses, NEW t \in Transfers, Wire!Begin(b, t) PROVE WireInv' /\ task' # task
  BY <1>2, BeginStep DEF Wire!Begin
<1>3. CASE Wire!FirstFill
  BY <1>3, FirstCommandsStep DEF Wire!FirstFill
<1>4. CASE Wire!Enable \/ Wire!Notified \/ Wire!TimedOut \/ Wire!Return
  BY <1>1, <1>4, TaskSteps
<1>5. ASSUME NEW b \in Buses, Wire!Isr(b)
      PROVE  /\ WireInv' /\ b = bus /\ task \in {"waiting", "told", "misled", "late"}
             /\ \A c \in Buses \ {b} : ~(rcnt'[c] < rcnt[c])
  BY <1>1, <1>5, IsrStep
<1>6. ASSUME NEW b \in Buses, Wire!Controller(b) PROVE WireInv' /\ UNCHANGED rcnt
  <2>1. UNCHANGED rcnt
    BY <1>6 DEF Wire!Controller, Wire!Send, Wire!Refuse, Wire!LateStop, Wire!driverVars
  <2>2. WireInv'
    BY <1>6, SendStep, OtherSendStep, RefuseStep, LateStopStep DEF Wire!Controller
  <2> QED BY <2>1, <2>2
<1>7. \/ \E b \in Buses, t \in Transfers : Wire!Begin(b, t)
      \/ Wire!FirstFill
      \/ Wire!Enable \/ Wire!Notified \/ Wire!TimedOut \/ Wire!Return
      \/ \E b \in Buses : Wire!Isr(b)
      \/ \E b \in Buses : Wire!Controller(b)
  BY DEF Wire!Next, Wire!Working
<1> QED BY <1>1, <1>2, <1>3, <1>4, <1>5, <1>6, <1>7

(* What the invariant says of a transfer.                                  *)
LEMMA TransfersAreHonest ==
  ASSUME Wire!Parameters, WireInv
  PROVE  /\ Wire!ReadsArePaced /\ Wire!WireInOrder
         /\ Wire!FullReadIsComplete /\ Wire!FullWriteIsComplete /\ Wire!EndsByOwnStop
<1>0. /\ WireTyped /\ FifosPaced /\ CommandsInOrder /\ ResultsAgree /\ StopsAreOwn
      /\ ask.w \in Nat /\ ask.r \in Nat /\ Len(wire) \in Nat /\ wire \in Seq(Commands) /\ FIFO \in Nat
  BY AskedIsNumbers DEF WireInv, WireTyped
<1> DEFINE total == ask.w + ask.r
<1>1. /\ Wire!Whole(ask) \in Seq(Commands) /\ Len(Wire!Whole(ask)) = total
      /\ \A k \in 1 .. total : Wire!Whole(ask)[k] = Command(ask, k)
  <2>1. Wire!Whole(ask) = [k \in 1 .. total |-> Command(ask, k)]
    BY DEF Wire!Whole, Command
  <2>2. \A k \in 1 .. total : Command(ask, k) \in Commands
    BY DEF Command, Commands
  <2> HIDE DEF Command
  <2> QED BY <1>0, <2>1, <2>2
<1>2. Len(wire) <= total
  BY <1>0 DEF CommandsInOrder
<1>3. wire = SubSeq(Wire!Whole(ask), 1, Len(wire))
  <2>1. /\ SubSeq(Wire!Whole(ask), 1, Len(wire)) \in Seq(Commands)
        /\ Len(SubSeq(Wire!Whole(ask), 1, Len(wire))) = Len(wire)
        /\ \A k \in 1 .. Len(wire) : SubSeq(Wire!Whole(ask), 1, Len(wire))[k] = Wire!Whole(ask)[k]
    BY <1>0, <1>1, <1>2
  <2>2. \A k \in 1 .. Len(wire) : wire[k] = Wire!Whole(ask)[k]
    BY <1>0, <1>1, <1>2 DEF CommandsInOrder
  <2> QED BY <1>0, <2>1, <2>2, SeqEqual
<1>4. Len(wire) = total => wire = Wire!Whole(ask)
  BY <1>1, <1>3, SubSeqFull
<1>5. Wire!ReadsArePaced
  <2> SUFFICES ASSUME NEW b \in Buses
      PROVE  rx_fifo[b] + Wire!Cardinality({k \in 1 .. Len(tx_fifo[b]) : tx_fifo[b][k].read}) <= FIFO
    BY DEF Wire!ReadsArePaced
  <2> DEFINE reads == {k \in 1 .. Len(tx_fifo[b]) : tx_fifo[b][k].read}
  <2>1. Len(tx_fifo[b]) \in Nat /\ rx_fifo[b] \in Nat
    BY <1>0, LenProperties DEF WireTyped
  <2>2. IsFiniteSet(1 .. Len(tx_fifo[b])) /\ Cardinality(1 .. Len(tx_fifo[b])) = Len(tx_fifo[b])
    <3>1. 1 \in Int /\ Len(tx_fifo[b]) \in Int
      BY <2>1
    <3>2. /\ IsFiniteSet(1 .. Len(tx_fifo[b]))
          /\ Cardinality(1 .. Len(tx_fifo[b])) =
               IF 1 > Len(tx_fifo[b]) THEN 0 ELSE Len(tx_fifo[b]) - 1 + 1
      BY <3>1, FS_Interval
    <3> QED BY <2>1, <3>2
  <2>3. reads \subseteq 1 .. Len(tx_fifo[b])
    OBVIOUS
  <2> HIDE DEF reads
  <2>4. Cardinality(reads) \in Nat /\ Cardinality(reads) <= Len(tx_fifo[b])
    BY <2>2, <2>3, FS_Subset, FS_CardinalityType
  <2>5. rx_fifo[b] + Len(tx_fifo[b]) <= FIFO
    BY <1>0 DEF FifosPaced
  <2>6. Wire!Cardinality(reads) = Cardinality(reads)
    BY DEF Wire!Cardinality, Cardinality
  <2>7. rx_fifo[b] + Wire!Cardinality(reads) <= FIFO
    BY <1>0, <2>1, <2>4, <2>5, <2>6
  <2> QED BY <2>7 DEF reads
<1>6. Wire!FullReadIsComplete
  BY <1>0, <1>4 DEF Wire!FullReadIsComplete, ResultsAgree
<1>7. Wire!EndsByOwnStop
  BY <1>0 DEF Wire!EndsByOwnStop, StopsAreOwn
<1>8. Wire!FullWriteIsComplete
  BY <1>0, <1>4, <1>7 DEF Wire!FullWriteIsComplete, Wire!EndsByOwnStop, ResultsAgree
<1> QED BY <1>3, <1>5, <1>6, <1>7, <1>8 DEF Wire!WireInOrder

-----------------------------------------------------------------------------
(* The drivers together: a step of one leaves the variables of the others. *)

LEMMA KnobRests ==
  ASSUME KnobInv, UNCHANGED knobVars
  PROVE  KnobInv'
BY DEF KnobInv, knobVars, Knob!TypeOK

LEMMA UartRests ==
  ASSUME UartInv, UNCHANGED uartVars
  PROVE  UartInv'
BY DEF UartInv, uartVars, Uart!TypeOK, Uart!SentInOrder

LEMMA EepromRests ==
  ASSUME EepromInv, UNCHANGED eepromVars
  PROVE  EepromInv'
<1>1. UNCHANGED <<memory, step, info, saved, pairs, faults>>
  BY DEF eepromVars
<1>2. Eeprom!TypeOK' /\ ChecksumsOfSaved'
  BY <1>1 DEF EepromInv, Eeprom!TypeOK, ChecksumsOfSaved
<1>3. RecordsWhole' = RecordsWhole
  BY <1>1 DEF RecordsWhole, Untouched, Holds
<1> QED BY <1>1, <1>2, <1>3 DEF EepromInv

LEMMA WireRests ==
  ASSUME WireInv, UNCHANGED wireVars
  PROVE  WireInv'
<1>1. WireTyped' /\ FifosPaced'
  BY DEF WireInv, wireVars, WireTyped, FifosPaced
<1>2. CommandsInOrder' /\ CountersAgree'
  BY DEF WireInv, wireVars, CommandsInOrder, CountersAgree
<1>3. ResultsAgree' /\ StopsAreOwn'
  BY DEF WireInv, wireVars, ResultsAgree, StopsAreOwn, NothingMore
<1> QED BY <1>1, <1>2, <1>3 DEF WireInv

DriversInv == KnobInv /\ UartInv /\ EepromInv /\ WireInv
PressesGoApart == lastPress' # lastPress => lastPress' - lastPress >= DEBOUNCE
BuffersInUse ==
  \A b \in Buses :
    rcnt'[b] < rcnt[b] /\ UNCHANGED task =>
      bus = b /\ task \in {"waiting", "told", "misled", "late"}

LEMMA StepOfDrivers ==
  ASSUME Knob!Parameters, Uart!Parameters, Eeprom!Parameters, Wire!Parameters,
         DriversInv, [Next]_vars
  PROVE  DriversInv' /\ PressesGoApart /\ BuffersInUse
<1> USE DEF DriversInv
<1>1. UNCHANGED rcnt => BuffersInUse
  <2>1. \A b \in Buses : ~(rcnt[b] < rcnt[b])
    BY DEF WireInv, WireTyped
  <2> QED BY <2>1 DEF BuffersInUse
<1>2. CASE On("knob") /\ Knob!Next
  <2>1. UNCHANGED <<uartVars, eepromVars, wireVars>>
    BY <1>2 DEF On
  <2> QED BY <1>1, <1>2, <2>1, KnobSteps, UartRests, EepromRests, WireRests DEF wireVars, PressesGoApart
<1>3. CASE On("uart") /\ Uart!Next
  <2>1. UNCHANGED <<knobVars, eepromVars, wireVars>>
    BY <1>3 DEF On
  <2> QED BY <1>1, <1>3, <2>1, UartSteps, KnobRests, EepromRests, WireRests
        DEF knobVars, wireVars, PressesGoApart
<1>4. CASE On("eeprom") /\ Eeprom!Next
  <2>1. UNCHANGED <<knobVars, uartVars, wireVars>>
    BY <1>4 DEF On
  <2> QED BY <1>1, <1>4, <2>1, EepromSteps, KnobRests, UartRests, WireRests
        DEF knobVars, wireVars, PressesGoApart
<1>5. CASE On("wire") /\ Wire!Next
  <2>1. UNCHANGED <<knobVars, uartVars, eepromVars>>
    BY <1>5 DEF On
  <2> QED BY <1>5, <2>1, WireSteps, KnobRests, UartRests, EepromRests
        DEF knobVars, PressesGoApart, BuffersInUse
<1>6. CASE /\ ~(On("knob") /\ Knob!Next)
           /\ ~(On("uart") /\ Uart!Next)
           /\ ~(On("eeprom") /\ Eeprom!Next)
           /\ ~(On("wire") /\ Wire!Next)
  <2>1. UNCHANGED <<knobVars, uartVars, eepromVars, wireVars>>
    <3>1. CASE UNCHANGED vars
      BY <3>1 DEF vars
    <3>2. CASE Next
      <4>1. \E name : On(name) /\ name # "knob" /\ name # "uart" /\ name # "eeprom" /\ name # "wire"
        BY <1>6, <3>2 DEF Next
      <4> QED BY <4>1 DEF On
    <3> QED BY <3>1, <3>2
  <2> QED BY <1>1, <2>1, KnobRests, UartRests, EepromRests, WireRests
        DEF knobVars, wireVars, PressesGoApart
<1> QED BY <1>2, <1>3, <1>4, <1>5, <1>6

LEMMA DriversHold ==
  FairSpec => /\ []DriversInv
              /\ [][PressesGoApart]_(Knob!vars)
              /\ [][BuffersInUse]_(Wire!vars)
<1>1. Knob!Parameters /\ Uart!Parameters /\ Eeprom!Parameters /\ Wire!Parameters
  BY DriverParameters
<1>2. Init => DriversInv
  BY <1>1, KnobStarts, UartStarts, EepromStarts, WireStarts DEF Init, DriversInv
<1>3. DriversInv /\ [Next]_vars
      => DriversInv' /\ [PressesGoApart]_(Knob!vars) /\ [BuffersInUse]_(Wire!vars)
  BY <1>1, StepOfDrivers
<1> QED BY <1>2, <1>3, PTL DEF FairSpec

(* Every tick of the knob is reported once or came between load and        *)
(* clearing, and presses that are reported lie debounceMs apart; the UART  *)
(* sends what write() queued, once and in order, and a byte that waits has *)
(* an interrupt coming.                                                    *)
THEOREM InputAndOutputHold == FairSpec => InputAndOutputAccounted
<1>1. DriversInv => Knob!TicksAccounted
  BY DEF DriversInv, KnobInv, Knob!TicksAccounted
<1>2. DriversInv => Uart!SentInOrder /\ Uart!InterruptComes
  BY DEF DriversInv, UartInv, Uart!InterruptComes
<1> QED BY <1>1, <1>2, DriversHold, PTL
      DEF InputAndOutputAccounted, Knob!PressesApart, PressesGoApart

(* Whatever writes were cut off and however much of a read arrives, a      *)
(* field of the EEPROM reads as a value that was saved for it or as bad;   *)
(* and as long as no write was cut off, SSID and password are of one save. *)
THEOREM RecordsStayIntact == FairSpec => []RecordsIntact
<1>1. Eeprom!Parameters
  BY DriverParameters
<1>2. DriversInv => RecordsIntact
  BY <1>1, RecordsAreIntact DEF DriversInv
<1> QED BY <1>2, DriversHold, PTL

(* Transfers of any length on any number of buses go over the wire in      *)
(* order, with one restart and one stop, never outgrow a FIFO, and are     *)
(* reported as what they were, whatever was refused or timed out before;   *)
(* and the interrupt writes to no buffer whose owner has gone.             *)
THEOREM TransfersHold == FairSpec => TransferIsHonest
<1>1. Wire!Parameters
  BY DriverParameters
<1>2. DriversInv => /\ Wire!ReadsArePaced /\ Wire!WireInOrder
                    /\ Wire!FullReadIsComplete /\ Wire!FullWriteIsComplete /\ Wire!EndsByOwnStop
  BY <1>1, TransfersAreHonest DEF DriversInv
<1> QED BY <1>2, DriversHold, PTL DEF TransferIsHonest, Wire!BufferInUse, BuffersInUse

=============================================================================
