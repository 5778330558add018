---------------------------- MODULE StreamBuffer ----------------------------
(***************************************************************************)
(* The stream and message buffers of the kernel (stream_buffer.c): a ring   *)
(* of bytes between one writer and one reader.  Neither locks the other     *)
(* out: the writer moves only the head, the reader only the tail, each when *)
(* its bytes have been copied.  Who has to wait leaves its name in the      *)
(* buffer and waits for a notification of the other.                        *)
(***************************************************************************)
EXTENDS TaskCalls

CONSTANTS Streams,
          Messages,     \* those that keep messages, each behind its length
          Asked,        \* the number of bytes each is asked to hold
          Header,       \* sbBYTES_TO_STORE_MESSAGE_LENGTH
          Numbers       \* bound: bytes are told apart by their number modulo this

StreamParameters ==
  /\ Messages \subseteq Streams
  /\ {Header, Numbers} \subseteq Nat \ {0}
  /\ Asked \in [Streams -> Nat \ {0}]
  /\ \A b \in Messages : Asked[b] > Header

VARIABLE stream

(* xLength: one byte more than asked for, since a full ring keeps one free. *)
Size(b) == Asked[b] + 1
AtLeastOne(level) == IF level = 0 THEN 1 ELSE level

(* inside holds what was sent and not yet received, and sent the number of  *)
(* the next byte; both are history.                                         *)
NewStream(b, level) ==
  [ring |-> [i \in 0 .. Asked[b] |-> <<"byte", 0>>], head |-> 0, tail |-> 0,
   trigger |-> AtLeastOne(level), toReceive |-> None, toSend |-> None,
   inside |-> <<>>, sent |-> 0]

HeaderOf(b) == IF b \in Messages THEN Header ELSE 0
Lengths(b, n) == [i \in 1 .. HeaderOf(b) |-> <<"length", n>>]
Numbered(b, n) == [i \in 1 .. n |-> <<"byte", (stream[b].sent + i - 1) % Numbers>>]

(* prvBytesInBuffer, xStreamBufferSpacesAvailable *)
BytesIn(b) == (Size(b) + stream[b].head - stream[b].tail) % Size(b)
SpacesIn(b) == (Size(b) + stream[b].tail - stream[b].head - 1) % Size(b)

(* xStreamBufferIsEmpty, xStreamBufferIsFull *)
StreamEmpty(b) == stream[b].head = stream[b].tail
StreamFull(b) == SpacesIn(b) <= HeaderOf(b)

(* prvWriteBytesToBuffer and prvReadBytesFromBuffer, round the end. *)
WriteBytes(b, data, at) ==
  [i \in DOMAIN stream[b].ring |->
     LET j == (i - at) % Size(b)
     IN  IF j < Len(data) THEN data[j + 1] ELSE stream[b].ring[i]]
ReadBytes(b, n, at) == [i \in 1 .. n |-> stream[b].ring[(at + i - 1) % Size(b)]]

(* xStreamBufferNextMessageLengthBytes *)
NextMessageLength(b) ==
  IF BytesIn(b) > HeaderOf(b) /\ b \in Messages THEN ReadBytes(b, 1, stream[b].tail)[1][2] ELSE 0

(* What a call must have room for: all of a message and its length, as much *)
(* of a stream as the ring can hold.                                        *)
Required(b, n) == IF b \in Messages THEN n + Header ELSE Min({n, Asked[b]})
NeverFits(b, n) == b \in Messages /\ Required(b, n) > Asked[b]

(* prvWriteMessageToBuffer: how many bytes of data it takes, and what it    *)
(* writes for them.                                                         *)
Takes(b, n, space) ==
  IF b \in Messages THEN (IF space >= Required(b, n) THEN n ELSE 0) ELSE Min({n, space})
Data(b, n) == Lengths(b, n) \o Numbered(b, n)
Published(b, n) ==
  [stream[b] EXCEPT !.head = (@ + HeaderOf(b) + n) % Size(b), !.inside = @ \o Data(b, n),
                    !.sent = (@ + n) % Numbers]
RingWith(b, n) == WriteBytes(b, Data(b, n), stream[b].head)

(* prvReadMessageFromBuffer: a message too long for the caller's buffer     *)
(* stays where it is.                                                       *)
Gives(b, room, available) ==
  IF b \in Messages
  THEN (IF NextMessageLength(b) > room THEN 0
        ELSE Min({NextMessageLength(b), available - Header}))
  ELSE Min({room, available})
Consumed(b, n) ==
  [stream[b] EXCEPT !.tail = (@ + HeaderOf(b) + n) % Size(b),
                    !.inside = SubSeq(@, HeaderOf(b) + n + 1, Len(@))]

-----------------------------------------------------------------------------
(* Waiting.  The name and the notification's state are set in one critical  *)
(* section with the look at the ring; the name is taken out after the wait. *)

Becomes(t, c) == call' = [call EXCEPT ![t] = c]

(* xTaskNotifyWait(0, 0, NULL, ticks), in two halves. *)
Await(t) ==
  LET c == IF call[t].op = "stream receive" THEN Deadline(call[t]) ELSE call[t] IN
  /\ Running(t, "await")
  /\ kernel' = WaitForNotification(kernel, t, c.ticks)
  /\ Becomes(t, [c EXCEPT !.pc = "awaited"])
  /\ UNCHANGED stream

Awaited(t) ==
  /\ Running(t, "awaited")
  /\ kernel' = [kernel EXCEPT !.notify[t] = "none"]
  /\ Goto(t, "forget")
  /\ UNCHANGED stream

Forget(t) ==
  LET b == call[t].obj
      sends == call[t].op = "stream send"
  IN  /\ Running(t, "forget")
      /\ stream' = IF sends THEN [stream EXCEPT ![b].toSend = None]
                            ELSE [stream EXCEPT ![b].toReceive = None]
      /\ Goto(t, IF sends THEN "again" ELSE "bytes")
      /\ UNCHANGED kernel

(* sbSEND_COMPLETED and sbRECEIVE_COMPLETED: all with the scheduler         *)
(* suspended.  Nobody but the other side changes the name that is read.     *)
NotifyOther(t) ==
  LET b == call[t].obj
      sends == call[t].op = "stream send"
      other == IF sends THEN stream[b].toReceive ELSE stream[b].toSend
      k == SuspendAll(kernel)
  IN  /\ Running(t, "complete")
      /\ kernel' = IF other = None THEN k ELSE NotifiedBy(k, other, "none", 0)
      /\ stream' = IF sends THEN [stream EXCEPT ![b].toReceive = None]
                            ELSE [stream EXCEPT ![b].toSend = None]
      /\ Becomes(t, Leaving(call[t], FALSE, "return"))

-----------------------------------------------------------------------------
(* xStreamBufferSend.  known is what the call last saw of the ring: the     *)
(* space in it, or the bytes; then how many bytes it moves.                 *)

SendBytes(t) ==
  LET c == call[t]
      timed == [c EXCEPT !.pc = "room", !.seen = Now(kernel), !.until = Clock(kernel) + c.ticks]
  IN  /\ In(t, "stream send", "start")
      /\ Becomes(t, IF c.ticks = 0 \/ NeverFits(c.obj, c.value)
                    THEN [c EXCEPT !.pc = "space", !.ticks = 0] ELSE timed)
      /\ UNCHANGED <<kernel, stream>>

WaitForRoom(t) ==
  LET b == call[t].obj
      space == SpacesIn(b)
      waits == space < Required(b, call[t].value)
  IN  /\ Running(t, "room")
      /\ kernel' = IF waits THEN NotificationCleared(kernel, t) ELSE kernel
      /\ stream' = IF waits THEN [stream EXCEPT ![b].toSend = t] ELSE stream
      /\ call' = [call EXCEPT ![t].pc = IF waits THEN "await" ELSE "write", ![t].known = space]

(* When the time is over the space is not looked at again, unless there was *)
(* none when the call went to sleep.                                        *)
Again(t) ==
  LET c == call[t]
      late == [Spent(t) EXCEPT !.pc = IF c.known = 0 THEN "space" ELSE "write"]
  IN  /\ Running(t, "again")
      /\ kernel' = [kernel EXCEPT !.aborted[t] = FALSE]
      /\ Becomes(t, IF TimedOut(t) THEN late ELSE [Counted(c) EXCEPT !.pc = "room"])
      /\ UNCHANGED stream

LookForSpace(t) ==
  /\ Running(t, "space")
  /\ call' = [call EXCEPT ![t].pc = "write", ![t].known = SpacesIn(call[t].obj)]
  /\ UNCHANGED <<kernel, stream>>

Write(t) ==
  LET c == call[t]
      n == Takes(c.obj, c.value, c.known)
  IN  /\ Running(t, "write")
      /\ IF n = 0 THEN Return(t, "full") /\ UNCHANGED stream
         ELSE /\ stream' = [stream EXCEPT ![c.obj].ring = RingWith(c.obj, n)]
              /\ Becomes(t, [c EXCEPT !.pc = "publish", !.known = n,
                               !.result = IF n = c.value THEN "ok" ELSE "part"])
      /\ UNCHANGED kernel

Publish(t) ==
  LET b == call[t].obj IN
  /\ Running(t, "publish")
  /\ stream' = [stream EXCEPT ![b] = Published(b, call[t].known)]
  /\ Goto(t, "tell")
  /\ UNCHANGED kernel

Tell(t) ==
  /\ Running(t, "tell")
  /\ Goto(t, IF BytesIn(call[t].obj) >= stream[call[t].obj].trigger THEN "complete" ELSE "return")
  /\ UNCHANGED <<kernel, stream>>

-----------------------------------------------------------------------------
(* xStreamBufferReceive: it waits once, and comes back with nothing if it   *)
(* is notified of what it has read before.                                  *)

Reading(c, available) ==
  IF available > HeaderOf(c.obj) THEN [c EXCEPT !.pc = "read", !.known = available]
                                 ELSE Free("nothing")

ReceiveBytes(t) ==
  LET c == call[t]
      available == BytesIn(c.obj)
      waits == c.ticks > 0 /\ available <= HeaderOf(c.obj)
  IN  /\ In(t, "stream receive", "start")
      /\ kernel' = IF waits THEN NotificationCleared(kernel, t) ELSE kernel
      /\ stream' = IF waits THEN [stream EXCEPT ![c.obj].toReceive = t] ELSE stream
      /\ Becomes(t, IF waits THEN [c EXCEPT !.pc = "await"] ELSE Reading(c, available))

LookForBytes(t) ==
  /\ Running(t, "bytes")
  /\ Becomes(t, Reading(call[t], BytesIn(call[t].obj)))
  /\ UNCHANGED <<kernel, stream>>

Read(t) ==
  LET c == call[t]
      n == Gives(c.obj, c.value, c.known)
  IN  /\ Running(t, "read")
      /\ IF n = 0 THEN Return(t, "nothing")
         ELSE Becomes(t, [c EXCEPT !.pc = "consume", !.known = n, !.result = "ok"])
      /\ UNCHANGED <<kernel, stream>>

Consume(t) ==
  LET b == call[t].obj IN
  /\ Running(t, "consume")
  /\ stream' = [stream EXCEPT ![b] = Consumed(b, call[t].known)]
  /\ Goto(t, "complete")
  /\ UNCHANGED kernel

-----------------------------------------------------------------------------
(* xStreamBufferReset, refused while somebody waits; the number the next    *)
(* byte gets goes on.                                                       *)
ResetStream(t) ==
  LET b == call[t].obj
      idle == stream[b].toReceive = None /\ stream[b].toSend = None
      empty == [NewStream(b, stream[b].trigger) EXCEPT !.sent = stream[b].sent]
  IN  /\ In(t, "reset stream", "start")
      /\ stream' = IF idle THEN [stream EXCEPT ![b] = empty] ELSE stream
      /\ Return(t, IF idle THEN "ok" ELSE "failed")
      /\ UNCHANGED kernel

(* xStreamBufferSetTriggerLevel *)
SetTriggerLevel(t) ==
  LET c == call[t]
      level == AtLeastOne(c.value)
      fits == level < Size(c.obj)
  IN  /\ In(t, "trigger level", "start")
      /\ stream' = IF fits THEN [stream EXCEPT ![c.obj].trigger = level] ELSE stream
      /\ Return(t, IF fits THEN "ok" ELSE "failed")
      /\ UNCHANGED kernel

StreamSteps(t) ==
  \/ Await(t) \/ Awaited(t) \/ Forget(t) \/ NotifyOther(t)
  \/ SendBytes(t) \/ WaitForRoom(t) \/ Again(t) \/ LookForSpace(t)
  \/ Write(t) \/ Publish(t) \/ Tell(t)
  \/ ReceiveBytes(t) \/ LookForBytes(t) \/ Read(t) \/ Consume(t)
  \/ ResetStream(t) \/ SetTriggerLevel(t)

-----------------------------------------------------------------------------
(* From interrupts; these take all at once what the tasks take in steps.    *)

(* xStreamBufferSendCompletedFromISR, xStreamBufferReceiveCompletedFromISR  *)
SendCompletedFromISR(b, ring) ==
  /\ stream' = [stream EXCEPT ![b] = [ring EXCEPT !.toReceive = None]]
  /\ IF ring.toReceive = None THEN UNCHANGED <<kernel, call>>
     ELSE NotifyFromISR(ring.toReceive, "none", 0)
ReceiveCompletedFromISR(b, ring) ==
  /\ stream' = [stream EXCEPT ![b] = [ring EXCEPT !.toSend = None]]
  /\ IF ring.toSend = None THEN UNCHANGED <<kernel, call>>
     ELSE NotifyFromISR(ring.toSend, "none", 0)

(* xStreamBufferSendFromISR *)
SendBytesFromISR(b, n) ==
  LET count == Takes(b, n, SpacesIn(b))
      ring == [Published(b, count) EXCEPT !.ring = RingWith(b, count)]
  IN  /\ count > 0
      /\ IF BytesIn(b) + HeaderOf(b) + count >= ring.trigger
         THEN SendCompletedFromISR(b, ring)
         ELSE stream' = [stream EXCEPT ![b] = ring] /\ UNCHANGED <<kernel, call>>

(* xStreamBufferReceiveFromISR *)
ReceiveBytesFromISR(b, room) ==
  LET count == Gives(b, room, BytesIn(b)) IN
  /\ BytesIn(b) > HeaderOf(b) /\ count > 0
  /\ ReceiveCompletedFromISR(b, Consumed(b, count))

-----------------------------------------------------------------------------
(* What is in the ring is what was sent and not received, byte by byte, and *)
(* of messages whole ones only, whichever of the two sides is in the middle *)
(* of a call.                                                               *)
StreamsHonest ==
  \A b \in Streams :
    LET inside == stream[b].inside IN
    /\ ReadBytes(b, BytesIn(b), stream[b].tail) = inside
    /\ BytesIn(b) + SpacesIn(b) = Asked[b]
    /\ stream[b].trigger \in 1 .. Asked[b]
    /\ StreamEmpty(b) = (inside = <<>>)
    /\ StreamFull(b) => Takes(b, 1, SpacesIn(b)) = 0
    /\ b \in Messages /\ inside # <<>> =>
         /\ inside[1] = <<"length", NextMessageLength(b)>>
         /\ Len(inside) >= Header + NextMessageLength(b)

(* Whoever waits for the other side has left its name there or has been     *)
(* woken, and while enough is in the ring for it the other side is on its   *)
(* way to tell it.                                                          *)
OnItsWay(b, op) ==
  \E t \in Tasks : call[t].obj = b /\ call[t].op = op /\ call[t].pc \in {"tell", "complete"}
NoStreamSleepsOn ==
  /\ \A t \in Tasks : call[t].pc = "awaited" /\ Sleeps(t) =>
       t = IF call[t].op = "stream send" THEN stream[call[t].obj].toSend
                                        ELSE stream[call[t].obj].toReceive
  /\ \A b \in Streams, t \in Tasks : Sleeps(t) /\ call[t].pc = "awaited" =>
       /\ t = stream[b].toReceive /\ BytesIn(b) >= stream[b].trigger =>
            OnItsWay(b, "stream send")
       /\ t = stream[b].toSend /\ SpacesIn(b) >= Required(b, call[t].value) =>
            OnItsWay(b, "stream receive")
=============================================================================
