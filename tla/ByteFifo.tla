------------------------------ MODULE ByteFifo ------------------------------
(***************************************************************************)
(* What the receive buffer of IPStack promises to SEND and READ: the bytes *)
(* of the answers come out in the order they came in; when there is no     *)
(* room the newest are dropped, and nothing else is.                       *)
(***************************************************************************)
EXTENDS Integers, Sequences

CONSTANTS
  Bytes,      \* what a byte can be
  BUF_SIZE,   \* bytes that can be stored (IPStack.h: 2048)
  MAX_SEGMENT \* bytes that can arrive at once

VARIABLES
  stored,   \* the bytes that were received and not yet taken
  result,   \* the bytes the current, or the last, read has taken
  segment   \* the bytes that came in last

vars == <<stored, result, segment>>

Segments == UNION {[1 .. length -> Bytes] : length \in 1 .. MAX_SEGMENT}

Fitting(bytes) ==
  LET room == BUF_SIZE - Len(stored)
  IN  SubSeq(bytes, 1, IF Len(bytes) < room THEN Len(bytes) ELSE room)

Init == stored = <<>> /\ result = <<>> /\ segment = <<>>

Receive ==
  /\ segment' \in Segments
  /\ stored' = stored \o Fitting(segment')
  /\ UNCHANGED result

BeginRead == result' = <<>> /\ UNCHANGED <<stored, segment>>

\* A read takes bytes from the front, in one go or in two.
Take(n) ==
  /\ stored' = SubSeq(stored, n + 1, Len(stored))
  /\ result' = result \o SubSeq(stored, 1, n)
  /\ UNCHANGED segment

Next == Receive \/ BeginRead \/ \E n \in 1 .. Len(stored) : Take(n)

Spec == Init /\ [][Next]_vars
=============================================================================
