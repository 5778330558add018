--------------------------- MODULE Network_proofs ---------------------------
(***************************************************************************)
(* Proofs about the two halves of IPStack, for every size of the ring and  *)
(* of a segment, every set of connections and every bound: sessions give   *)
(* each connection back once and read nothing that came after a connection *)
(* was closed, and the ring, if count were updated atomically, is the      *)
(* queue of bytes ByteFifo says it is.                                     *)
(***************************************************************************)
EXTENDS MCNetwork, SequenceTheorems, TLAPS

(* States of a connection that lwIP still takes calls for, and of one that *)
(* has got through to the server.                                          *)
Given == {"new", "dialing", "open", "aborted"}
Reached == {"open", "aborted"}

(* The caller owns one connection at most: the one tcp_pcb points to.      *)
(* Callbacks come for that one only, and while it is there its session is  *)
(* past create.                                                            *)
Ownership ==
  /\ \A n \in Connections : conn[n] \in {"new", "dialing", "open"} => n = tcp_pcb
  /\ registered \subseteq {tcp_pcb}
  /\ tcp_pcb # NULL => conn[tcp_pcb] \in Given /\ at \notin {"idle", "resolving", "create"}
  /\ connected => tcp_pcb # NULL /\ conn[tcp_pcb] \in Reached
  /\ at = "dial" => tcp_pcb # NULL /\ conn[tcp_pcb] = "new"
  /\ at \in {"write", "read"} => tcp_pcb # NULL /\ conn[tcp_pcb] \in Reached

SessionInv == Network!TypeOK /\ Ownership /\ Network!NeverClosedTwice /\ Network!StaleWereLeft

-----------------------------------------------------------------------------
(* What the operators on sequences return.                                 *)

(* The smaller of two numbers.                                             *)
LEMMA MinOfTwo ==
  ASSUME NEW m \in Int, NEW n \in Int
  PROVE  Network!Min({m, n}) = IF m <= n THEN m ELSE n
<1> DEFINE least(x) == x \in {m, n} /\ \A y \in {m, n} : x <= y
<1>1. least(IF m <= n THEN m ELSE n)
  OBVIOUS
<1>2. \A x, y : least(x) /\ least(y) => x = y
  OBVIOUS
<1> QED BY <1>1, <1>2 DEF Network!Min

(* A segment is stored up to the ring's room.                              *)
LEMMA FittingFits ==
  ASSUME Network!Parameters, stored \in Seq(Connections), Len(stored) <= RING_SIZE,
         NEW bytes \in Seq(Connections)
  PROVE  /\ stored \o Network!Fitting(bytes) \in Seq(Connections)
         /\ Len(stored \o Network!Fitting(bytes)) <= RING_SIZE
         /\ Network!ToSet(stored \o Network!Fitting(bytes))
              \subseteq Network!ToSet(stored) \cup Network!ToSet(bytes)
<1> DEFINE room == RING_SIZE - Len(stored)
           fits == IF Len(bytes) <= room THEN Len(bytes) ELSE room
           kept == SubSeq(bytes, 1, fits)
<1>1. Len(stored) \in Nat /\ Len(bytes) \in Nat /\ room \in Nat /\ fits \in Nat
  BY LenProperties DEF Network!Parameters
<1>2. Network!Fitting(bytes) = kept
  BY SMTT(30), <1>1, MinOfTwo DEF Network!Fitting
<1>3. /\ kept \in Seq(Connections) /\ Len(kept) = fits
      /\ \A i \in 1 .. fits : kept[i] = bytes[i]
  BY <1>1, SubSeqProperties
<1>4. /\ stored \o kept \in Seq(Connections) /\ Len(stored \o kept) = Len(stored) + fits
      /\ \A i \in 1 .. Len(stored) + fits :
           (stored \o kept)[i] = IF i <= Len(stored) THEN stored[i] ELSE kept[i - Len(stored)]
  BY <1>3, ConcatProperties
<1>5. Network!ToSet(stored \o kept) \subseteq Network!ToSet(stored) \cup Network!ToSet(bytes)
  <2>1. /\ DOMAIN (stored \o kept) = 1 .. Len(stored) + fits
        /\ DOMAIN stored = 1 .. Len(stored) /\ DOMAIN bytes = 1 .. Len(bytes)
    BY <1>4, LenProperties
  <2> SUFFICES ASSUME NEW i \in 1 .. Len(stored) + fits
               PROVE  (stored \o kept)[i] \in Network!ToSet(stored) \cup Network!ToSet(bytes)
    BY <2>1 DEF Network!ToSet
  <2>2. CASE i <= Len(stored)
    BY <1>1, <1>4, <2>1, <2>2 DEF Network!ToSet
  <2>3. CASE i > Len(stored)
    <3>1. (stored \o kept)[i] = bytes[i - Len(stored)] /\ i - Len(stored) \in 1 .. Len(bytes)
      BY <1>1, <1>3, <1>4, <2>3
    <3> QED BY <2>1, <3>1 DEF Network!ToSet
  <2> QED BY <1>1, <2>2, <2>3
<1> QED BY <1>1, <1>2, <1>4, <1>5 DEF Network!Parameters

-----------------------------------------------------------------------------
(* What the types say of the connections.                                  *)
Plain ==
  /\ NULL \notin Connections /\ tcp_pcb \in Connections \cup {NULL}
  /\ conn \in [Connections -> {"none", "new", "dialing", "open", "aborted", "closing"}]
  /\ registered \subseteq Connections /\ left \subseteq Connections /\ connected \in BOOLEAN
  /\ Network!ToSet(stored) \subseteq Connections

LEMMA TypesPlain == Network!Parameters /\ Network!TypeOK => Plain
<1> SUFFICES ASSUME Network!Parameters, Network!TypeOK PROVE Plain
  OBVIOUS
<1>1. Network!ToSet(stored) \subseteq Connections
  BY LenProperties DEF Network!TypeOK, Network!ToSet
<1> QED BY <1>1 DEF Network!Parameters, Network!TypeOK, Plain

(* disconnect(), called at the end of a session and by the callback, hands *)
(* over the connection the caller owns, and nothing that is not in the     *)
(* ring by then will get there.                                            *)
LEMMA DisconnectKeeps ==
  ASSUME Network!Parameters, SessionInv, Network!Disconnect,
         UNCHANGED <<polls, addr, dns_ready, stored, dns, cached, expiries>>,
         \/ at' = "idle"
         \/ UNCHANGED at /\ tcp_pcb # NULL /\ conn[tcp_pcb] = "dialing"
  PROVE  SessionInv'
<1> USE DEF SessionInv, Network!Disconnect, Network!Unregistered, Network!Cleared
<1>1. Plain
  BY TypesPlain
<1>2. Network!TypeOK'
  BY <1>1 DEF Plain, Network!TypeOK
<1>3. Ownership'
  <2>1. tcp_pcb' = NULL /\ ~connected' /\ registered' = {}
    BY <1>1 DEF Plain, Ownership
  <2>2. \A n \in Connections : conn'[n] \notin {"new", "dialing", "open"}
    BY <1>1 DEF Plain, Ownership
  <2>3. at' \notin {"dial", "write", "read"}
    BY DEF Ownership, Reached
  <2> QED BY <2>1, <2>2, <2>3 DEF Ownership
<1>4. Network!NeverClosedTwice'
  BY <1>1 DEF Plain, Ownership, Given, Network!NeverClosedTwice
<1>5. Network!StaleWereLeft'
  BY DEF Network!StaleWereLeft
<1> QED BY <1>2, <1>3, <1>4, <1>5

(* The caller up to the wait for the handshake.                            *)
LEMMA ConnectingKeeps ==
  ASSUME Network!Parameters, SessionInv, Network!Connecting
  PROVE  SessionInv'
<1> USE DEF SessionInv, Network!Stay, Network!memberVars, Network!lwipVars
<1>1. Plain
  BY TypesPlain
<1> USE <1>1 DEF Plain
<1>2. CASE Network!Lookup
  <2>1. /\ at = "idle" /\ at' \in {"idle", "create", "resolving"} /\ connected' = FALSE /\ polls' = 0
        /\ addr' \in {"server", "other"} /\ dns' \in {"none", "asked"} /\ dns_ready' \in BOOLEAN
        /\ UNCHANGED <<tcp_pcb, stored, conn, registered, cached, expiries, handed, left>>
    BY <1>2 DEF Network!Lookup, Network!AddressFromCache, Network!TypeOK
  <2>2. polls' \in 0 .. CONNECT_POLLS
    BY <2>1 DEF Network!Parameters
  <2>3. Network!TypeOK'
    BY <2>1, <2>2 DEF Network!TypeOK
  <2> QED BY <2>1, <2>3 DEF Ownership, Network!NeverClosedTwice, Network!StaleWereLeft
<1>3. CASE Network!Resolved \/ Network!Poll \/ Network!CheckConnected
  BY <1>3
  DEF Network!Resolved, Network!Poll, Network!Polled, Network!CheckConnected, Network!TypeOK,
      Ownership, Given, Reached, Network!NeverClosedTwice, Network!StaleWereLeft,
      Network!Parameters
<1>4. CASE Network!Create
  <2>1. CASE Network!Free # {}
    <3>1. PICK n \in Network!Free :
            \/ /\ tcp_pcb' = n /\ conn' = [conn EXCEPT ![n] = "new"]
               /\ registered' = registered \cup {n} /\ left' = left \ {n} /\ at' = "dial"
            \/ tcp_pcb' = NULL /\ at' = "idle" /\ UNCHANGED <<conn, registered, left>>
      BY <1>4, <2>1 DEF Network!Create
    <3>2. n \in Connections /\ conn[n] = "none" /\ n \notin Network!ToSet(stored)
      BY DEF Network!Free
    <3>3. at = "create" /\ UNCHANGED <<polls, addr, connected, dns_ready, stored, dns, cached,
                                       expiries, handed>>
      BY <1>4 DEF Network!Create
    <3>4. Network!TypeOK'
      BY <3>1, <3>2, <3>3 DEF Network!TypeOK
    <3>5. Ownership'
      BY <3>1, <3>2, <3>3 DEF Ownership, Given, Reached
    <3>6. Network!NeverClosedTwice' /\ Network!StaleWereLeft'
      BY <3>1, <3>2, <3>3
      DEF Network!NeverClosedTwice, Network!StaleWereLeft, Ownership
    <3> QED BY <3>4, <3>5, <3>6
  <2>2. CASE Network!Free = {}
    BY <1>4, <2>2
    DEF Network!Create, Network!TypeOK, Ownership, Given, Reached, Network!NeverClosedTwice,
        Network!StaleWereLeft
  <2> QED BY <2>1, <2>2
<1>5. CASE Network!Dial
  BY <1>5
  DEF Network!Dial, Network!GiveUp, Network!TypeOK, Ownership, Given, Reached,
      Network!NeverClosedTwice, Network!StaleWereLeft
<1> QED BY <1>2, <1>3, <1>4, <1>5 DEF Network!Connecting

(* The caller from there on.                                               *)
LEMMA ExchangeKeeps ==
  ASSUME Network!Parameters, SessionInv, Network!Write \/ Network!Read \/ Network!Close
  PROVE  SessionInv'
<1>1. CASE Network!Write
  BY <1>1
  DEF SessionInv, Network!Write, Network!memberVars, Network!lwipVars, Network!TypeOK, Ownership,
      Given, Reached, Network!NeverClosedTwice, Network!StaleWereLeft
<1>2. CASE Network!Read
  <2>1. Network!ToSet(<<>>) = {}
    BY DEF Network!ToSet
  <2>2. <<>> \in Seq(Connections) /\ Len(<<>>) <= RING_SIZE
    BY EmptySeq DEF Network!Parameters
  <2> QED
    BY <1>2, <2>1, <2>2
    DEF SessionInv, Network!Read, Network!lwipVars, Network!TypeOK, Ownership, Given, Reached,
        Network!NeverClosedTwice, Network!StaleWereLeft
<1>3. CASE Network!Close
  BY <1>3, DisconnectKeeps DEF Network!Close
<1> QED BY <1>1, <1>2, <1>3

(* The callbacks, and what lwIP does by itself.                            *)
LEMMA LwIPKeeps ==
  ASSUME Network!Parameters, SessionInv, Network!LwIP
  PROVE  SessionInv'
<1> USE DEF Network!memberVars, Network!lwipVars
<1>1. Plain
  BY TypesPlain DEF SessionInv
<1> USE <1>1 DEF Plain
<1>2. ASSUME (\E found \in BOOLEAN : Network!DnsCallback(found)) \/ Network!CacheExpires
      PROVE  SessionInv'
  <2>1. UNCHANGED <<at, polls, addr, tcp_pcb, connected, stored, conn, registered, handed, left>>
    BY <1>2 DEF Network!DnsCallback, Network!CacheExpires
  <2>2. dns_ready' \in BOOLEAN /\ cached' \in BOOLEAN /\ dns' \in {"none", "asked"}
    BY <1>2 DEF SessionInv, Network!DnsCallback, Network!CacheExpires, Network!TypeOK
  <2>3. expiries' \in 0 .. EXPIRIES
    <3>1. expiries' = expiries \/ (expiries < EXPIRIES /\ expiries' = expiries + 1)
      BY <1>2 DEF Network!DnsCallback, Network!CacheExpires
    <3> QED BY <3>1 DEF SessionInv, Network!TypeOK, Network!Parameters
  <2>4. Network!TypeOK'
    BY <2>1, <2>2, <2>3 DEF SessionInv, Network!TypeOK
  <2> QED
    BY <2>1, <2>4 DEF SessionInv, Ownership, Network!NeverClosedTwice, Network!StaleWereLeft
<1>3. ASSUME NEW n \in Connections,
             Network!ConnectedCallback(n) \/ Network!ErrCallback(n) \/ Network!Gone(n)
      PROVE  SessionInv'
  <2>1. UNCHANGED <<at, polls, addr, tcp_pcb, dns_ready, stored, dns, cached, expiries, handed, left>>
    BY <1>3 DEF Network!ConnectedCallback, Network!ErrCallback, Network!Gone
  <2>2. Network!TypeOK'
    BY ZenonT(40), <1>3, <2>1
    DEF SessionInv, Network!ConnectedCallback, Network!ErrCallback, Network!Gone, Network!TypeOK
  <2>3. Ownership'
    <3>1. CASE Network!ConnectedCallback(n)
      BY <2>1, <3>1 DEF SessionInv, Network!ConnectedCallback, Ownership, Given, Reached
    <3>2. CASE Network!ErrCallback(n)
      BY <2>1, <3>2 DEF SessionInv, Network!ErrCallback, Ownership, Given, Reached
    <3>3. CASE Network!Gone(n)
      BY <2>1, <3>3 DEF SessionInv, Network!Gone, Ownership, Given, Reached
    <3> QED BY <1>3, <3>1, <3>2, <3>3
  <2>4. Network!NeverClosedTwice' /\ Network!StaleWereLeft'
    BY <1>3, <2>1
    DEF SessionInv, Network!ConnectedCallback, Network!ErrCallback, Network!Gone,
        Network!NeverClosedTwice, Network!StaleWereLeft
  <2> QED BY <2>2, <2>3, <2>4 DEF SessionInv
<1>4. ASSUME NEW n \in Connections, Network!ConnectFailedCallback(n)
      PROVE  SessionInv'
  <2>1. n = tcp_pcb
    BY <1>4 DEF SessionInv, Ownership, Network!ConnectFailedCallback
  <2> QED BY <1>4, <2>1, DisconnectKeeps DEF Network!ConnectFailedCallback
<1>5. ASSUME NEW n \in Connections, Network!RecvCallback(n)
      PROVE  SessionInv'
  <2>1. n = tcp_pcb /\ conn[n] = "open"
    BY <1>5 DEF SessionInv, Ownership, Given, Network!RecvCallback
  <2>2. PICK bytes \in {<<n>>, <<n, n>>} : stored' = stored \o Network!Fitting(bytes)
    BY <1>5 DEF Network!RecvCallback
  <2>3. bytes \in Seq(Connections) /\ Network!ToSet(bytes) = {n}
    <3>1. CASE bytes = <<n>>
      BY <3>1 DEF Network!ToSet
    <3>2. CASE bytes = <<n, n>>
      BY <3>2 DEF Network!ToSet
    <3> QED BY <2>2, <3>1, <3>2
  <2>4. /\ stored' \in Seq(Connections) /\ Len(stored') <= RING_SIZE
        /\ Network!ToSet(stored') \subseteq Network!ToSet(stored) \cup {n}
    BY <2>2, <2>3, FittingFits DEF SessionInv, Network!TypeOK
  <2>5. UNCHANGED <<at, polls, addr, tcp_pcb, connected, dns_ready, conn, registered, dns, cached,
                    expiries, handed, left>>
    BY <1>5 DEF Network!RecvCallback
  <2>6. Network!TypeOK' /\ Ownership' /\ Network!NeverClosedTwice'
    BY <2>4, <2>5 DEF SessionInv, Network!TypeOK, Ownership, Network!NeverClosedTwice
  <2>7. Network!StaleWereLeft'
    BY <2>1, <2>4, <2>5 DEF SessionInv, Network!StaleWereLeft
  <2> QED BY <2>6, <2>7 DEF SessionInv
<1> QED BY <1>2, <1>3, <1>4, <1>5 DEF Network!LwIP

LEMMA SessionStep ==
  Network!Parameters /\ SessionInv /\ [Network!Next]_sessionVars => SessionInv'
<1>1. SessionInv /\ UNCHANGED sessionVars => SessionInv'
  BY DEF SessionInv, sessionVars, Network!TypeOK, Ownership, Network!NeverClosedTwice,
         Network!StaleWereLeft
<1> QED
  BY <1>1, ConnectingKeeps, ExchangeKeeps, LwIPKeeps DEF Network!Next, Network!Caller

LEMMA SessionInit == Network!Parameters /\ Network!Init => SessionInv
<1> SUFFICES ASSUME Network!Parameters, Network!Init PROVE SessionInv
  OBVIOUS
<1>1. <<>> \in Seq(Connections) /\ Len(<<>>) = 0 /\ Network!ToSet(<<>>) = {}
  BY EmptySeq DEF Network!ToSet
<1>2. Network!TypeOK
  <2>1. conn \in [Connections -> {"none", "new", "dialing", "open", "aborted", "closing"}]
    BY DEF Network!Init
  <2>2. polls \in 0 .. CONNECT_POLLS /\ expiries \in 0 .. EXPIRIES /\ Len(stored) <= RING_SIZE
    BY <1>1 DEF Network!Init, Network!Parameters
  <2> QED BY <1>1, <2>1, <2>2 DEF Network!Init, Network!TypeOK
<1>3. Ownership
  BY DEF Network!Init, Ownership
<1> QED
  BY <1>1, <1>2, <1>3
  DEF Network!Init, SessionInv, Network!NeverClosedTwice, Network!StaleWereLeft

-----------------------------------------------------------------------------
(* The ring.  Indices run modulo its size.                                 *)
Wrap(i) == IF i < BUF_SIZE THEN i ELSE i - BUF_SIZE

LEMMA Modulo == \A i \in 0 .. 2 * BUF_SIZE - 1 : i % BUF_SIZE = Wrap(i)
<1> SUFFICES ASSUME NEW i \in 0 .. 2 * BUF_SIZE - 1 PROVE i % BUF_SIZE = Wrap(i)
  OBVIOUS
<1>1. CASE i < BUF_SIZE
  BY <1>1, SizesAssumption DEF Wrap
<1>2. CASE i >= BUF_SIZE
  BY <1>2, SizesAssumption DEF Wrap
<1> QED BY <1>1, <1>2, SizesAssumption

(* What read() has in its locals between two of its steps; the ring holds  *)
(* what it is about to take.                                               *)
ReadInv ==
  /\ pc \in {"copy_first", "copy"} =>
       /\ bytes_to_copy \in 1 .. count /\ result = <<>>
       /\ pc = "copy_first" <=> rd + bytes_to_copy > BUF_SIZE
  /\ pc = "copy" => first_copy = 0
  /\ pc \in {"store_first", "copy_rest"} =>
       /\ first_copy = BUF_SIZE - rd /\ bytes_to_copy > 0
       /\ first_copy + bytes_to_copy <= BUF_SIZE /\ first_copy + bytes_to_copy <= RESULT_BUF_SIZE
       /\ Len(result) = first_copy
  /\ pc = "store_first" =>
       loaded = count /\ first_copy + bytes_to_copy <= count /\ result = Copy(rd, first_copy)
  /\ pc = "copy_rest" => bytes_to_copy <= count
  /\ pc = "store_rest" =>
       /\ loaded = count /\ bytes_to_copy \in 1 .. count
       /\ Len(result) = first_copy + bytes_to_copy
       /\ \A i \in 1 .. bytes_to_copy : result[first_copy + i] = buffer[(Front + i - 1) % BUF_SIZE]

RingInv == TypeOK /\ CountIsStored /\ ReadInv

Contents == Bytes \cup {NoByte}

LEMMA FrontInRing ==
  ASSUME RingInv
  PROVE  /\ Front \in Cells /\ Wrap(Front + count) = wr
         /\ pc = "store_rest" => Front = IF rd < bytes_to_copy THEN rd + BUF_SIZE - bytes_to_copy
                                                               ELSE rd - bytes_to_copy
<1> USE SizesAssumption DEF RingInv, TypeOK, Cells
<1>1. /\ Front \in Cells
      /\ pc = "store_rest" => Front = IF rd < bytes_to_copy THEN rd + BUF_SIZE - bytes_to_copy
                                                            ELSE rd - bytes_to_copy
  <2>1. CASE pc = "store_rest"
    <3>1. bytes_to_copy \in 1 .. BUF_SIZE
      BY <2>1 DEF ReadInv
    <3>2. rd + BUF_SIZE - bytes_to_copy \in 0 .. 2 * BUF_SIZE - 1
      BY <3>1
    <3>3. Front = Wrap(rd + BUF_SIZE - bytes_to_copy)
      BY <2>1, <3>2, Modulo DEF Front
    <3> QED BY <3>1, <3>3 DEF Wrap
  <2>2. CASE pc # "store_rest"
    BY <2>2 DEF Front
  <2> QED BY <2>1, <2>2
<1>2. Front + count \in 0 .. 2 * BUF_SIZE - 1
  BY <1>1
<1> QED BY <1>1, <1>2, Modulo DEF CountIsStored

(* Bytes copied into the array.                                            *)
LEMMA StoreStores ==
  ASSUME NEW array \in [Cells -> Contents], NEW from \in Int, NEW bytes \in Seq(Contents)
  PROVE  /\ Store(array, from, bytes) \in [Cells -> Contents]
         /\ \A i \in Cells : Store(array, from, bytes)[i] =
              IF i \in from .. from + Len(bytes) - 1 THEN bytes[i - from + 1] ELSE array[i]
<1>1. Len(bytes) \in Nat /\ \A i \in 1 .. Len(bytes) : bytes[i] \in Contents
  BY ElementOfSeq, LenProperties
<1>2. \A i \in Cells : i \in from .. from + Len(bytes) - 1 => i - from + 1 \in 1 .. Len(bytes)
  BY <1>1, SizesAssumption DEF Cells
<1> QED BY <1>1, <1>2 DEF Store

(* A segment goes behind what is stored, in order, round the end of the    *)
(* array; nothing else changes.                                            *)
LEMMA ReceiveStores ==
  ASSUME RingInv, Receive,
         NEW kept, kept = Kept(segment'), NEW n, n = Len(kept)
  PROVE  /\ segment' \in Seq(Bytes) /\ kept \in Seq(Bytes)
         /\ n \in 0 .. BUF_SIZE - count
         /\ count' = count + n /\ wr' = Wrap(wr + n) /\ wr' \in Cells
         /\ buffer' \in [Cells -> Contents]
         /\ \A j \in 1 .. n : buffer'[Wrap(wr + j - 1)] = kept[j]
         /\ \A i \in Cells : (\A j \in 1 .. n : Wrap(wr + j - 1) # i) => buffer'[i] = buffer[i]
<1> USE SizesAssumption
<1>1. /\ count \in 0 .. BUF_SIZE /\ wr \in Cells /\ wr \in 0 .. BUF_SIZE - 1
      /\ buffer \in [Cells -> Contents]
  BY DEF RingInv, TypeOK, Contents, Cells
<1>2. segment' \in Seq(Bytes)
  BY DEF Receive, Segments
<1>3. kept \in Seq(Bytes) /\ n \in 0 .. BUF_SIZE - count
  <2>1. Len(segment') \in Nat
    BY <1>2, LenProperties
  <2>2. Smaller(Len(segment'), BUF_SIZE - count) \in 0 .. BUF_SIZE - count
        /\ Smaller(Len(segment'), BUF_SIZE - count) <= Len(segment')
    BY <1>1, <2>1 DEF Smaller
  <2>3. /\ kept \in Seq(Bytes)
        /\ n = IF 1 <= Smaller(Len(segment'), BUF_SIZE - count)
               THEN Smaller(Len(segment'), BUF_SIZE - count) ELSE 0
    BY <1>2, <2>1, <2>2, SubSeqProperties DEF Kept
  <2> QED BY <2>2, <2>3
<1> DEFINE first == IF wr + n > BUF_SIZE THEN BUF_SIZE - wr ELSE 0
           from == IF first > 0 THEN 0 ELSE wr
           front == SubSeq(kept, 1, first)
           rest == SubSeq(kept, first + 1, n)
<1>4. first \in 0 .. n /\ from \in Int /\ kept \in Seq(Contents)
  BY <1>1, <1>3, SeqMonotonic DEF Contents
<1>5. /\ front \in Seq(Contents) /\ Len(front) = first
      /\ \A i \in 1 .. first : front[i] = kept[i]
  BY <1>3, <1>4, SubSeqProperties
<1>6. /\ rest \in Seq(Contents) /\ Len(rest) = n - first
      /\ \A i \in 1 .. n - first : rest[i] = kept[first + i]
  BY SMTT(30), <1>3, <1>4, SubSeqProperties
<1>7. /\ buffer' = Store(Store(buffer, wr, front), from, rest)
      /\ wr' = (from + Len(rest)) % BUF_SIZE
      /\ count' = count + n
  BY DEF Receive, Rest
<1>8. /\ buffer' \in [Cells -> Contents]
      /\ \A i \in Cells : buffer'[i] =
           IF i \in from .. from + n - first - 1 THEN kept[first + i - from + 1]
           ELSE IF i \in wr .. wr + first - 1 THEN kept[i - wr + 1] ELSE buffer[i]
  <2> HIDE DEF first, from, front, rest
  <2>1. /\ Store(buffer, wr, front) \in [Cells -> Contents]
        /\ \A i \in Cells : Store(buffer, wr, front)[i] =
             IF i \in wr .. wr + first - 1 THEN front[i - wr + 1] ELSE buffer[i]
    BY <1>1, <1>5, StoreStores
  <2>2. /\ buffer' \in [Cells -> Contents]
        /\ \A i \in Cells : buffer'[i] =
             IF i \in from .. from + (n - first) - 1 THEN rest[i - from + 1]
             ELSE Store(buffer, wr, front)[i]
    BY <1>4, <1>6, <1>7, <2>1, StoreStores
  <2>3. ASSUME NEW i \in Cells
        PROVE  /\ i \in from .. from + (n - first) - 1 =>
                    rest[i - from + 1] = kept[first + i - from + 1]
               /\ i \in wr .. wr + first - 1 => front[i - wr + 1] = kept[i - wr + 1]
    <3>1. i \in Int /\ wr \in Int /\ n \in Int /\ first \in Int /\ from \in Int
      BY <1>1, <1>3, <1>4 DEF Cells
    <3>2. i \in from .. from + (n - first) - 1 =>
            i - from + 1 \in 1 .. n - first /\ first + (i - from + 1) = first + i - from + 1
      BY <3>1
    <3>3. i \in wr .. wr + first - 1 => i - wr + 1 \in 1 .. first
      BY <3>1
    <3> QED BY <1>5, <1>6, <3>2, <3>3
  <2>4. from + n - first - 1 = from + (n - first) - 1
    BY <1>3, <1>4
  <2> QED BY <2>1, <2>2, <2>3, <2>4
<1>9. wr' = Wrap(wr + n) /\ wr' \in Cells
  <2> HIDE DEF front, rest
  <2>1. from + Len(rest) \in 0 .. 2 * BUF_SIZE - 1
    BY <1>1, <1>3, <1>6
  <2>2. wr' = Wrap(from + Len(rest))
    BY <1>7, <2>1, Modulo
  <2>3. from + Len(rest) = IF wr + n > BUF_SIZE THEN wr + n - BUF_SIZE ELSE wr + n
    <3>1. Len(rest) = n - first
      BY <1>6
    <3> QED BY <1>1, <1>3, <3>1
  <2>4. Wrap(from + Len(rest)) = Wrap(wr + n) /\ Wrap(wr + n) \in 0 .. BUF_SIZE - 1
    <3> HIDE DEF first, from
    <3> QED BY <1>1, <1>3, <2>3 DEF Wrap
  <2> QED BY <2>2, <2>4 DEF Cells
<1>10. \A j \in 1 .. n : buffer'[Wrap(wr + j - 1)] = kept[j]
  <2> SUFFICES ASSUME NEW j \in 1 .. n PROVE buffer'[Wrap(wr + j - 1)] = kept[j]
    OBVIOUS
  <2>1. Wrap(wr + j - 1) \in Cells
    BY <1>1, <1>3 DEF Wrap, Cells
  <2> QED BY SMTT(30), <1>1, <1>3, <1>8, <2>1 DEF Wrap
<1>11. ASSUME NEW i \in Cells, \A j \in 1 .. n : Wrap(wr + j - 1) # i
       PROVE  buffer'[i] = buffer[i]
  <2>1. i \in 0 .. BUF_SIZE - 1
    BY DEF Cells
  <2>2. ~(i \in wr .. wr + first - 1)
    <3>1. i \in wr .. wr + first - 1 => i - wr + 1 \in 1 .. n /\ Wrap(wr + (i - wr + 1) - 1) = i
      BY <1>1, <1>4, <2>1 DEF Wrap
    <3> QED BY <1>11, <3>1
  <2>3. ~(i \in from .. from + n - first - 1)
    <3>1. i \in from .. from + n - first - 1 =>
            first + i - from + 1 \in 1 .. n /\ Wrap(wr + (first + i - from + 1) - 1) = i
      BY <1>1, <1>3, <1>4, <2>1 DEF Wrap
    <3> QED BY <1>11, <3>1
  <2> QED BY <1>8, <2>2, <2>3
<1> QED BY <1>2, <1>3, <1>7, <1>8, <1>9, <1>10, <1>11

(* What the ring stands for.                                               *)
BytesInOrder ==
  /\ storedBar \in Seq(Contents) /\ Len(storedBar) = count /\ count \in 0 .. BUF_SIZE
  /\ \A i \in 1 .. count :
       Wrap(Front + i - 1) \in Cells /\ storedBar[i] = buffer[Wrap(Front + i - 1)]

LEMMA StoredBytes == RingInv => BytesInOrder
<1> SUFFICES ASSUME RingInv PROVE BytesInOrder
  OBVIOUS
<1> USE SizesAssumption
<1>1. /\ count \in 0 .. BUF_SIZE /\ Front \in 0 .. BUF_SIZE - 1
      /\ buffer \in [0 .. BUF_SIZE - 1 -> Contents]
  BY FrontInRing DEF RingInv, TypeOK, Cells, Contents
<1>2. ASSUME NEW i \in 1 .. count
      PROVE  /\ (Front + i - 1) % BUF_SIZE = Wrap(Front + i - 1)
             /\ Wrap(Front + i - 1) \in 0 .. BUF_SIZE - 1
  <2>1. Front + i - 1 \in 0 .. 2 * BUF_SIZE - 1
    BY <1>1
  <2> QED BY <2>1, Modulo DEF Wrap
<1>3. storedBar = [i \in 1 .. count |-> buffer[Wrap(Front + i - 1)]]
  BY <1>2 DEF storedBar
<1>4. storedBar \in [1 .. count -> Contents]
  BY <1>1, <1>2, <1>3
<1>5. storedBar \in Seq(Contents) /\ Len(storedBar) = count
  BY <1>1, <1>4
<1>6. \A i \in 1 .. count : Wrap(Front + i - 1) \in Cells
  BY <1>2 DEF Cells
<1>7. \A i \in 1 .. count : storedBar[i] = buffer[Wrap(Front + i - 1)]
  BY <1>3
<1> QED BY <1>1, <1>5, <1>6, <1>7 DEF BytesInOrder

LEMMA StoredBytesNext == RingInv' => BytesInOrder'
  BY StoredBytes, PTL

(* The callback appends what fits.                                         *)
LEMMA ReceiveAppends ==
  ASSUME RingInv, RingInv', Receive, ~Subtracting
  PROVE  Fifo!Receive
<1> DEFINE kept == Kept(segment')
           n == Len(kept)
<1>1. /\ segment' \in Seq(Bytes) /\ kept \in Seq(Bytes)
      /\ n \in 0 .. BUF_SIZE - count
      /\ count' = count + n
      /\ buffer' \in [Cells -> Contents]
      /\ \A j \in 1 .. n : buffer'[Wrap(wr + j - 1)] = kept[j]
      /\ \A i \in Cells : (\A j \in 1 .. n : Wrap(wr + j - 1) # i) => buffer'[i] = buffer[i]
  BY ReceiveStores
<1>2. UNCHANGED <<rd, pc, bytes_to_copy, first_copy, loaded, result>>
  BY DEF Receive, readVars
<1>3. Front' = Front /\ resultBar' = resultBar
  BY <1>2 DEF Subtracting, Front, resultBar
<1>4. Fifo!Fitting(segment') = kept
  BY StoredBytes DEF BytesInOrder, Fifo!Fitting, Kept, Smaller
<1>5. Front \in 0 .. BUF_SIZE - 1 /\ Wrap(Front + count) = wr /\ count \in 0 .. BUF_SIZE
  BY FrontInRing, StoredBytes DEF BytesInOrder, Cells
<1> HIDE DEF kept
<1>6. storedBar' = storedBar \o kept
  <2>1. /\ storedBar' \in Seq(Contents) /\ Len(storedBar') = count + n
        /\ \A i \in 1 .. count + n : storedBar'[i] = buffer'[Wrap(Front + i - 1)]
    BY <1>1, <1>3, StoredBytesNext DEF BytesInOrder
  <2>2. kept \in Seq(Contents) /\ storedBar \in Seq(Contents) /\ Len(storedBar) = count
    BY <1>1, SeqMonotonic, StoredBytes DEF BytesInOrder, Contents
  <2>3. /\ storedBar \o kept \in Seq(Contents) /\ Len(storedBar \o kept) = count + n
        /\ \A i \in 1 .. count + n :
             (storedBar \o kept)[i] = IF i <= count THEN storedBar[i] ELSE kept[i - count]
    BY <2>2, ConcatProperties
  <2>4. ASSUME NEW i \in 1 .. count + n
        PROVE  buffer'[Wrap(Front + i - 1)] = IF i <= count THEN storedBar[i] ELSE kept[i - count]
    <3>1. CASE i <= count
      <4>1. i \in 1 .. count
        BY <3>1
      <4>2. Wrap(Front + i - 1) \in Cells /\ storedBar[i] = buffer[Wrap(Front + i - 1)]
        BY <4>1, StoredBytes DEF BytesInOrder
      <4>3. \A j \in 1 .. n : Wrap(wr + j - 1) # Wrap(Front + i - 1)
        BY <1>1, <1>5, <4>1, SizesAssumption DEF Wrap
      <4> QED BY <1>1, <3>1, <4>2, <4>3
    <3>2. CASE i > count
      <4>1. i - count \in 1 .. n
        BY <1>1, <1>5, <3>2
      <4>2. Wrap(wr + (i - count) - 1) = Wrap(Front + i - 1)
        BY <1>1, <1>5, <3>2, SizesAssumption DEF Wrap
      <4>3. buffer'[Wrap(wr + (i - count) - 1)] = kept[i - count]
        BY <1>1, <4>1
      <4> QED BY <1>1, <1>5, <3>2, <4>2, <4>3
    <3> QED BY <1>1, <1>5, <3>1, <3>2
  <2>5. \A i \in 1 .. count + n : storedBar'[i] = (storedBar \o kept)[i]
    BY <2>1, <2>3, <2>4
  <2> QED BY <2>1, <2>3, <2>5, SeqEqual
<1>7. segment' \in Fifo!Segments
  BY DEF Receive, Segments, Fifo!Segments
<1> QED BY <1>3, <1>4, <1>6, <1>7 DEF Fifo!Receive

-----------------------------------------------------------------------------
(* The invariant of the ring, step by step.                                *)

LEMMA WrapSum ==
  ASSUME NEW front \in 0 .. BUF_SIZE - 1, NEW m \in 0 .. BUF_SIZE, NEW n \in 0 .. BUF_SIZE - m
  PROVE  (front + (m + n)) % BUF_SIZE = Wrap(Wrap(front + m) + n)
<1>1. front + (m + n) \in 0 .. 2 * BUF_SIZE - 1
  BY SizesAssumption
<1>2. Wrap(front + (m + n)) = Wrap(Wrap(front + m) + n)
  BY SizesAssumption DEF Wrap
<1> QED BY <1>1, <1>2, Modulo

LEMMA RingInit == Init => RingInv
<1> SUFFICES ASSUME Init PROVE RingInv
  OBVIOUS
<1> USE SizesAssumption DEF Init
<1>1. TypeOK
  <2>1. buffer \in [Cells -> Bytes \cup {NoByte}] /\ 0 \in Cells
    BY DEF Cells
  <2>2. <<>> \in Seq(Bytes \cup {NoByte}) /\ Len(<<>>) = 0
    BY EmptySeq
  <2> QED BY <2>1, <2>2 DEF TypeOK
<1>2. CountIsStored
  <2>1. 0 % BUF_SIZE = 0
    BY Modulo DEF Wrap
  <2> QED BY <2>1 DEF CountIsStored, Front
<1>3. ReadInv
  BY DEF ReadInv
<1> QED BY <1>1, <1>2, <1>3 DEF RingInv

LEMMA ReceiveKeeps ==
  ASSUME RingInv, Receive, ~Subtracting
  PROVE  RingInv'
<1> DEFINE n == Len(Kept(segment'))
<1> USE SizesAssumption
<1>1. /\ n \in 0 .. BUF_SIZE - count
      /\ count' = count + n /\ wr' = Wrap(wr + n) /\ wr' \in Cells
      /\ buffer' \in [Cells -> Contents]
  BY ReceiveStores
<1> HIDE DEF n
<1>2. UNCHANGED <<rd, pc, bytes_to_copy, first_copy, loaded, result>> /\ segment' \in Segments
  BY DEF Receive, readVars
<1>3. count \in 0 .. BUF_SIZE /\ count' \in 0 .. BUF_SIZE /\ wr \in 0 .. BUF_SIZE - 1
  BY <1>1 DEF RingInv, TypeOK, Cells
<1>4. TypeOK'
  BY <1>1, <1>2, <1>3 DEF RingInv, TypeOK, Contents
<1>5. CountIsStored'
  <2>1. Front' = Front
    BY <1>2 DEF Front, Subtracting
  <2>2. Front \in 0 .. BUF_SIZE - 1 /\ Wrap(Front + count) = wr
    BY FrontInRing DEF Cells
  <2>3. (Front + (count + n)) % BUF_SIZE = Wrap(wr + n)
    BY <1>1, <1>3, <2>2, WrapSum
  <2> QED BY <1>1, <2>1, <2>3 DEF CountIsStored
<1>6. ReadInv'
  <2>1. bytes_to_copy \in Int /\ count <= count'
    BY <1>1, <1>3 DEF RingInv, TypeOK
  <2> QED BY <1>2, <1>3, <2>1 DEF RingInv, ReadInv, Subtracting
<1> QED BY <1>4, <1>5, <1>6 DEF RingInv

(* A copy out of the ring that does not pass its end.                      *)
LEMMA CopyCopies ==
  ASSUME RingInv, NEW from \in Nat, NEW n \in Nat, from + n <= BUF_SIZE
  PROVE  /\ Copy(from, n) \in Seq(Contents) /\ Len(Copy(from, n)) = n
         /\ \A i \in 1 .. n : Copy(from, n)[i] = buffer[from + i - 1]
<1>1. \A i \in 1 .. n : from + i - 1 \in Cells
  BY SizesAssumption DEF Cells
<1>2. Copy(from, n) \in [1 .. n -> Contents]
  BY <1>1 DEF Copy, RingInv, TypeOK, Contents
<1>3. Copy(from, n) \in Seq(Contents) /\ Len(Copy(from, n)) = n
  BY <1>2
<1>4. \A i \in 1 .. n : Copy(from, n)[i] = buffer[from + i - 1]
  BY DEF Copy
<1> QED BY <1>3, <1>4

(* What the types say of the numbers.                                      *)
LEMMA Numbers ==
  ASSUME RingInv
  PROVE  /\ count \in 0 .. BUF_SIZE /\ loaded \in 0 .. BUF_SIZE
         /\ rd \in 0 .. BUF_SIZE - 1 /\ wr \in 0 .. BUF_SIZE - 1
         /\ bytes_to_copy \in 0 .. RESULT_BUF_SIZE /\ first_copy \in 0 .. RESULT_BUF_SIZE
         /\ BUF_SIZE \in Nat \ {0} /\ RESULT_BUF_SIZE \in Nat \ {0}
BY SizesAssumption DEF RingInv, TypeOK, Cells, Contents

LEMMA BeginReadKeeps == RingInv /\ BeginRead => RingInv'
<1> SUFFICES ASSUME RingInv, BeginRead PROVE RingInv'
  OBVIOUS
<1> USE Numbers DEF BeginRead, ringVars
<1>1. /\ bytes_to_copy' \in 0 .. count /\ bytes_to_copy' <= RESULT_BUF_SIZE /\ first_copy' = 0
      /\ result' = <<>> /\ UNCHANGED <<buffer, count, wr, rd, loaded, segment>>
  BY DEF Smaller
<1>2. <<>> \in Seq(Bytes \cup {NoByte}) /\ Len(<<>>) = 0
  BY EmptySeq
<1>3. TypeOK'
  BY <1>1, <1>2 DEF RingInv, TypeOK
<1>4. CountIsStored'
  BY <1>1 DEF RingInv, CountIsStored, Front
<1>5. ReadInv'
  BY <1>1 DEF ReadInv
<1> QED BY <1>3, <1>4, <1>5 DEF RingInv

LEMMA CopyFirstKeeps == RingInv /\ CopyFirst => RingInv'
<1> SUFFICES ASSUME RingInv, CopyFirst PROVE RingInv'
  OBVIOUS
<1>1. /\ bytes_to_copy \in 1 .. count /\ rd + bytes_to_copy > BUF_SIZE
      /\ pc = "copy_first" /\ pc' = "store_first"
      /\ UNCHANGED <<buffer, count, wr, rd, segment>>
      /\ first_copy' = BUF_SIZE - rd /\ bytes_to_copy' = bytes_to_copy - first_copy'
      /\ loaded' = count /\ result' = Copy(rd, first_copy')
  BY DEF RingInv, ReadInv, CopyFirst, ringVars
<1>2. /\ first_copy' \in 1 .. RESULT_BUF_SIZE /\ bytes_to_copy' \in 1 .. RESULT_BUF_SIZE
      /\ first_copy' + bytes_to_copy' = bytes_to_copy
      /\ rd + first_copy' <= BUF_SIZE /\ first_copy' \in Nat /\ rd \in Nat
  <2>1. /\ first_copy' = BUF_SIZE - rd /\ bytes_to_copy' = bytes_to_copy - first_copy'
        /\ rd + bytes_to_copy > BUF_SIZE
    BY <1>1
  <2> QED BY <2>1, Numbers
<1>3. /\ result' \in Seq(Contents) /\ Len(result') = first_copy'
      /\ result' = Copy(rd, first_copy)'
  <2>1. result' \in Seq(Contents) /\ Len(result') = first_copy'
    BY <1>1, <1>2, CopyCopies
  <2>2. result' = Copy(rd, first_copy)'
    BY <1>1 DEF Copy
  <2> QED BY <2>1, <2>2
<1>4. TypeOK'
  <2>1. /\ first_copy' \in 0 .. RESULT_BUF_SIZE /\ bytes_to_copy' \in 0 .. RESULT_BUF_SIZE
        /\ loaded' \in 0 .. BUF_SIZE /\ Len(result') <= RESULT_BUF_SIZE
    <3>1. loaded' = count /\ Len(result') = first_copy'
      BY <1>1, <1>3
    <3> QED BY <1>2, <3>1, Numbers
  <2>2. result' \in Seq(Bytes \cup {NoByte})
    BY <1>3 DEF Contents
  <2> QED BY <1>1, <2>1, <2>2 DEF RingInv, TypeOK
<1>5. CountIsStored'
  BY <1>1 DEF RingInv, CountIsStored, Front
<1>6. ReadInv'
  <2>1. first_copy' + bytes_to_copy' <= count' /\ count' <= BUF_SIZE
        /\ first_copy' + bytes_to_copy' <= RESULT_BUF_SIZE
    BY <1>1, <1>2, Numbers
  <2>2. first_copy' = BUF_SIZE - rd' /\ bytes_to_copy' > 0
        /\ first_copy' + bytes_to_copy' <= BUF_SIZE /\ loaded' = count'
    BY <1>1, <1>2, <2>1, Numbers
  <2> QED BY <1>1, <1>3, <2>1, <2>2 DEF ReadInv
<1> QED BY <1>4, <1>5, <1>6 DEF RingInv

LEMMA StoreFirstKeeps == RingInv /\ StoreFirst => RingInv'
<1> SUFFICES ASSUME RingInv, StoreFirst PROVE RingInv'
  OBVIOUS
<1>1. /\ pc = "store_first" /\ pc' = "copy_rest" /\ count' = count - first_copy
      /\ UNCHANGED <<buffer, wr, rd, bytes_to_copy, first_copy, loaded, result, segment>>
      /\ first_copy = BUF_SIZE - rd /\ bytes_to_copy > 0 /\ first_copy + bytes_to_copy <= count
      /\ first_copy + bytes_to_copy <= BUF_SIZE /\ first_copy + bytes_to_copy <= RESULT_BUF_SIZE
      /\ Len(result) = first_copy
  BY DEF RingInv, ReadInv, StoreFirst
<1>2. count' \in 0 .. BUF_SIZE /\ bytes_to_copy <= count'
  BY <1>1, Numbers
<1>3. TypeOK'
  BY <1>1, <1>2 DEF RingInv, TypeOK
<1>4. CountIsStored'
  <2>1. Front = rd /\ Front' = 0 /\ Wrap(rd + count) = wr
    BY <1>1, FrontInRing DEF Front
  <2>2. Wrap(count') = wr
    <3>1. /\ count' = count - first_copy /\ first_copy = BUF_SIZE - rd
          /\ first_copy <= count
      BY <1>1, Numbers
    <3>2. count' = rd + count - BUF_SIZE /\ rd + count >= BUF_SIZE /\ rd + count < 2 * BUF_SIZE
      BY <3>1, Numbers
    <3> QED BY <2>1, <3>2, Numbers DEF Wrap
  <2>3. count' \in 0 .. 2 * BUF_SIZE - 1
    BY <1>2, SizesAssumption
  <2>4. (0 + count') % BUF_SIZE = wr
    BY <2>2, <2>3, Modulo
  <2> QED BY <1>1, <2>1, <2>4 DEF CountIsStored
<1>5. ReadInv'
  BY <1>1, <1>2 DEF ReadInv
<1> QED BY <1>3, <1>4, <1>5 DEF RingInv

(* The second of two sequences in a row.                                   *)
LEMMA ConcatBehind ==
  ASSUME NEW Items, NEW s \in Seq(Items), NEW t \in Seq(Items)
  PROVE  \A i \in 1 .. Len(t) : (s \o t)[Len(s) + i] = t[i]
<1> SUFFICES ASSUME NEW i \in 1 .. Len(t) PROVE (s \o t)[Len(s) + i] = t[i]
  OBVIOUS
<1>1. Len(s) \in Nat /\ Len(t) \in Nat
  BY LenProperties
<1>2. /\ Len(s) + i \in 1 .. Len(s) + Len(t) /\ ~(Len(s) + i <= Len(s))
      /\ Len(s) + i - Len(s) = i
  BY <1>1
<1> QED BY <1>2, ConcatProperties

LEMMA CopyRestKeeps == RingInv /\ CopyRest => RingInv'
<1> SUFFICES ASSUME RingInv, CopyRest PROVE RingInv'
  OBVIOUS
<1>1. /\ pc = "copy_rest" /\ pc' = "store_rest" /\ rd' = bytes_to_copy /\ loaded' = count
      /\ UNCHANGED <<buffer, count, wr, bytes_to_copy, first_copy, segment>>
      /\ result' = result \o Copy(0, bytes_to_copy)
      /\ first_copy = BUF_SIZE - rd /\ bytes_to_copy > 0 /\ bytes_to_copy <= count
      /\ first_copy + bytes_to_copy <= BUF_SIZE /\ first_copy + bytes_to_copy <= RESULT_BUF_SIZE
      /\ Len(result) = first_copy /\ result \in Seq(Contents)
  BY DEF RingInv, ReadInv, TypeOK, Contents, CopyRest
<1>2. bytes_to_copy \in 1 .. BUF_SIZE - 1
  <2>1. first_copy >= 1
    BY <1>1, Numbers
  <2> QED BY <1>1, <2>1, Numbers
<1>3. /\ Copy(0, bytes_to_copy) \in Seq(Contents) /\ Len(Copy(0, bytes_to_copy)) = bytes_to_copy
      /\ \A i \in 1 .. bytes_to_copy : Copy(0, bytes_to_copy)[i] = buffer[i - 1]
  <2>1. /\ Copy(0, bytes_to_copy) \in Seq(Contents) /\ Len(Copy(0, bytes_to_copy)) = bytes_to_copy
        /\ \A i \in 1 .. bytes_to_copy : Copy(0, bytes_to_copy)[i] = buffer[0 + i - 1]
    <3>1. 0 \in Nat /\ bytes_to_copy \in Nat /\ 0 + bytes_to_copy <= BUF_SIZE
      BY <1>2, SizesAssumption
    <3> QED BY ONLY RingInv, <3>1, CopyCopies
  <2>2. \A i \in 1 .. bytes_to_copy : 0 + i - 1 = i - 1
    BY <1>2, SizesAssumption
  <2> QED BY <2>1, <2>2
<1>4. /\ result' \in Seq(Contents) /\ Len(result') = first_copy + bytes_to_copy
      /\ \A i \in 1 .. bytes_to_copy : result'[first_copy + i] = buffer[i - 1]
  <2>1. /\ result' \in Seq(Contents) /\ Len(result') = Len(result) + Len(Copy(0, bytes_to_copy))
    BY <1>1, <1>3, ConcatProperties
  <2>2. \A i \in 1 .. bytes_to_copy : result'[first_copy + i] = Copy(0, bytes_to_copy)[i]
    BY <1>1, <1>3, ConcatBehind
  <2> QED BY <1>1, <1>3, <2>1, <2>2
<1>5. Front = 0 /\ Front' = 0
  <2>1. (rd' + BUF_SIZE - bytes_to_copy') % BUF_SIZE = 0
    <3>1. rd' + BUF_SIZE - bytes_to_copy' = BUF_SIZE
      BY <1>1, <1>2, SizesAssumption
    <3>2. BUF_SIZE % BUF_SIZE = 0
      BY SizesAssumption, Modulo DEF Wrap
    <3> QED BY <3>1, <3>2
  <2> QED BY <1>1, <2>1 DEF Front
<1>6. TypeOK'
  <2>1. rd' \in Cells /\ loaded' \in 0 .. BUF_SIZE
    BY <1>1, <1>2, Numbers DEF Cells
  <2>2. result' \in Seq(Bytes \cup {NoByte}) /\ Len(result') <= RESULT_BUF_SIZE
    BY <1>1, <1>4 DEF Contents
  <2> QED BY <1>1, <2>1, <2>2 DEF RingInv, TypeOK
<1>7. CountIsStored'
  BY <1>1, <1>5 DEF RingInv, CountIsStored
<1>8. ReadInv'
  <2>1. \A i \in 1 .. bytes_to_copy : (0 + i - 1) % BUF_SIZE = i - 1
    <3> SUFFICES ASSUME NEW i \in 1 .. bytes_to_copy PROVE (0 + i - 1) % BUF_SIZE = i - 1
      OBVIOUS
    <3>1. i - 1 \in 0 .. 2 * BUF_SIZE - 1 /\ i - 1 < BUF_SIZE /\ 0 + i - 1 = i - 1
      BY <1>2, SizesAssumption
    <3> QED BY <3>1, Modulo DEF Wrap
  <2>2. \A i \in 1 .. bytes_to_copy' :
          result'[first_copy' + i] = buffer'[(Front' + i - 1) % BUF_SIZE]
    <3>1. \A i \in 1 .. bytes_to_copy : result'[first_copy + i] = buffer[(0 + i - 1) % BUF_SIZE]
      BY <1>4, <2>1
    <3> QED BY <1>1, <1>5, <3>1
  <2>3. loaded' = count' /\ bytes_to_copy' \in 1 .. count' /\ Len(result') = first_copy' + bytes_to_copy'
    BY <1>1, <1>2, <1>4, Numbers
  <2> QED BY <1>1, <2>2, <2>3 DEF ReadInv
<1> QED BY <1>6, <1>7, <1>8 DEF RingInv

LEMMA CopyAllKeeps == RingInv /\ CopyAll => RingInv' /\ Front' = Front
<1> SUFFICES ASSUME RingInv, CopyAll PROVE RingInv' /\ Front' = Front
  OBVIOUS
<1>1. /\ pc = "copy" /\ pc' = "store_rest" /\ loaded' = count
      /\ rd' = (rd + bytes_to_copy) % BUF_SIZE
      /\ UNCHANGED <<buffer, count, wr, bytes_to_copy, first_copy, segment>>
      /\ result' = Copy(rd, bytes_to_copy)
      /\ first_copy = 0 /\ bytes_to_copy \in 1 .. count /\ ~(rd + bytes_to_copy > BUF_SIZE)
  BY DEF RingInv, ReadInv, CopyAll
<1>2. bytes_to_copy \in 1 .. BUF_SIZE /\ rd + bytes_to_copy <= BUF_SIZE /\ rd \in Nat
  BY <1>1, Numbers
<1>3. rd' = Wrap(rd + bytes_to_copy) /\ rd' \in 0 .. BUF_SIZE - 1
  <2>1. rd + bytes_to_copy \in 0 .. 2 * BUF_SIZE - 1
    BY <1>2, Numbers
  <2>2. rd' = Wrap(rd + bytes_to_copy)
    BY <1>1, <2>1, Modulo
  <2> QED BY <1>2, <2>2, Numbers DEF Wrap
<1>4. Front = rd /\ Front' = rd
  <2>1. rd' + BUF_SIZE - bytes_to_copy \in 0 .. 2 * BUF_SIZE - 1
    BY <1>2, <1>3, Numbers
  <2>2. Wrap(rd' + BUF_SIZE - bytes_to_copy) = rd
    BY <1>2, <1>3, Numbers DEF Wrap
  <2>3. (rd' + BUF_SIZE - bytes_to_copy') % BUF_SIZE = rd
    BY <1>1, <2>1, <2>2, Modulo
  <2> QED BY <1>1, <2>3 DEF Front
<1>5. /\ result' \in Seq(Contents) /\ Len(result') = bytes_to_copy
      /\ \A i \in 1 .. bytes_to_copy : result'[i] = buffer[rd + i - 1]
  BY <1>1, <1>2, CopyCopies
<1>6. TypeOK'
  <2>1. rd' \in Cells /\ loaded' \in 0 .. BUF_SIZE
    BY <1>1, <1>3, Numbers DEF Cells
  <2>2. result' \in Seq(Bytes \cup {NoByte}) /\ Len(result') <= RESULT_BUF_SIZE
    BY <1>5, Numbers DEF Contents
  <2> QED BY <1>1, <2>1, <2>2 DEF RingInv, TypeOK
<1>7. CountIsStored'
  BY <1>1, <1>4 DEF RingInv, CountIsStored
<1>8. ReadInv'
  <2>1. \A i \in 1 .. bytes_to_copy : (rd + i - 1) % BUF_SIZE = rd + i - 1 /\ 0 + i = i
    <3> SUFFICES ASSUME NEW i \in 1 .. bytes_to_copy
                 PROVE  (rd + i - 1) % BUF_SIZE = rd + i - 1 /\ 0 + i = i
      OBVIOUS
    <3>1. rd + i - 1 \in 0 .. 2 * BUF_SIZE - 1 /\ rd + i - 1 < BUF_SIZE /\ 0 + i = i
      BY <1>2, Numbers
    <3> QED BY <3>1, Modulo DEF Wrap
  <2>2. \A i \in 1 .. bytes_to_copy' :
          result'[first_copy' + i] = buffer'[(Front' + i - 1) % BUF_SIZE]
    BY <1>1, <1>4, <1>5, <2>1
  <2>3. loaded' = count' /\ bytes_to_copy' \in 1 .. count' /\ Len(result') = first_copy' + bytes_to_copy'
    BY <1>1, <1>2, <1>5, Numbers
  <2> QED BY <1>1, <2>2, <2>3 DEF ReadInv
<1> QED BY <1>4, <1>6, <1>7, <1>8 DEF RingInv

LEMMA StoreRestKeeps == RingInv /\ StoreRest => RingInv' /\ Front' = Wrap(Front + bytes_to_copy)
<1> SUFFICES ASSUME RingInv, StoreRest PROVE RingInv' /\ Front' = Wrap(Front + bytes_to_copy)
  OBVIOUS
<1>1. /\ pc = "store_rest" /\ pc' = "wait" /\ count' = count - bytes_to_copy
      /\ UNCHANGED <<buffer, wr, rd, bytes_to_copy, first_copy, loaded, result, segment>>
      /\ bytes_to_copy \in 1 .. count
  BY DEF RingInv, ReadInv, StoreRest
<1>2. count' \in 0 .. BUF_SIZE
  BY <1>1, Numbers
<1>3. /\ Front' = rd /\ Wrap(Front + count) = wr /\ Front \in 0 .. BUF_SIZE - 1
      /\ Front = IF rd < bytes_to_copy THEN rd + BUF_SIZE - bytes_to_copy ELSE rd - bytes_to_copy
  BY <1>1, FrontInRing DEF Front, Cells
<1>4. rd = Wrap(Front + bytes_to_copy)
  <2>1. bytes_to_copy \in 1 .. BUF_SIZE
    BY <1>1, Numbers
  <2> QED BY <1>3, <2>1, Numbers DEF Wrap
<1>5. (rd + count') % BUF_SIZE = wr
  <2>1. rd + count' \in 0 .. 2 * BUF_SIZE - 1
    BY <1>2, Numbers
  <2>2. Wrap(rd + count') = Wrap(Front + count)
    BY <1>1, <1>3, Numbers DEF Wrap
  <2> QED BY <1>3, <2>1, <2>2, Modulo
<1>6. TypeOK'
  BY <1>1, <1>2 DEF RingInv, TypeOK
<1>7. CountIsStored'
  BY <1>1, <1>3, <1>5 DEF CountIsStored
<1>8. ReadInv'
  BY <1>1 DEF ReadInv
<1> QED BY <1>3, <1>4, <1>6, <1>7, <1>8 DEF RingInv

(* The callback between any two steps of read() but inside "count -= n".   *)
LEMMA RingStep == RingInv /\ [AtomicNext]_vars => RingInv'
<1>1. RingInv /\ UNCHANGED vars => RingInv'
  BY DEF vars, ringVars, readVars, RingInv, TypeOK, CountIsStored, ReadInv, Front, Copy
<1> QED
  BY <1>1, ReceiveKeeps, BeginReadKeeps, CopyFirstKeeps, StoreFirstKeeps, CopyRestKeeps,
     CopyAllKeeps, StoreRestKeeps
  DEF AtomicNext, Read

(* With an atomic count, count, write and read index agree, and what       *)
(* read() has copied so far is what stood at the front of the ring.        *)
THEOREM RingHolds == AtomicSpec => []RingInv
  BY RingInit, RingStep, PTL DEF AtomicSpec

-----------------------------------------------------------------------------
(* The ring is the queue of bytes: what each step does to the bytes that   *)
(* are stored and those that were taken.                                   *)

LEMMA SameBytes ==
  ASSUME UNCHANGED <<buffer, count>>, Front' = Front
  PROVE  storedBar' = storedBar
BY DEF storedBar

(* Taking moves the front on.                                              *)
LEMMA TakenFromFront ==
  ASSUME RingInv, RingInv', NEW n \in 1 .. count,
         count' = count - n, UNCHANGED buffer, Front' = Wrap(Front + n)
  PROVE  storedBar' = SubSeq(storedBar, n + 1, Len(storedBar))
<1> DEFINE tail == SubSeq(storedBar, n + 1, Len(storedBar))
<1>1. /\ storedBar \in Seq(Contents) /\ Len(storedBar) = count /\ count \in 0 .. BUF_SIZE
      /\ \A i \in 1 .. count : storedBar[i] = buffer[Wrap(Front + i - 1)]
  BY StoredBytes DEF BytesInOrder
<1>2. /\ storedBar' \in Seq(Contents) /\ Len(storedBar') = count'
      /\ \A i \in 1 .. count' : storedBar'[i] = buffer'[Wrap(Front' + i - 1)]
  BY StoredBytesNext DEF BytesInOrder
<1>3. /\ tail \in Seq(Contents) /\ Len(tail) = count - n
      /\ \A i \in 1 .. count - n : tail[i] = storedBar[i + n]
  <2>1. \A i \in 1 .. count - (n + 1) + 1 : (n + 1) + i - 1 = i + n
    BY <1>1, SizesAssumption
  <2>2. n + 1 \in 1 .. count + 1 /\ count \in 0 .. count /\ count - (n + 1) + 1 = count - n
    BY <1>1, SizesAssumption
  <2> QED BY <1>1, <2>1, <2>2, SubSeqProperties, SizesAssumption
<1>4. ASSUME NEW i \in 1 .. count - n
      PROVE  Wrap(Wrap(Front + n) + i - 1) = Wrap(Front + (i + n) - 1) /\ i + n \in 1 .. count
  <2>1. Front \in 0 .. BUF_SIZE - 1
    BY FrontInRing DEF Cells
  <2> QED BY <1>1, <2>1, SizesAssumption DEF Wrap
<1>5. \A i \in 1 .. Len(storedBar') : storedBar'[i] = tail[i]
  <2> HIDE DEF tail
  <2> SUFFICES ASSUME NEW i \in 1 .. count - n PROVE storedBar'[i] = tail[i]
    BY <1>2
  <2>1. storedBar'[i] = buffer[Wrap(Wrap(Front + n) + i - 1)]
    BY <1>2
  <2>2. tail[i] = buffer[Wrap(Front + (i + n) - 1)]
    BY <1>1, <1>3, <1>4
  <2> QED BY <1>4, <2>1, <2>2
<1> HIDE DEF tail
<1>6. storedBar' = tail
  BY <1>2, <1>3, <1>5, SeqEqual
<1> QED BY <1>6 DEF tail

(* The bytes at the front, as read() copies them.                          *)
LEMMA FrontBytes ==
  ASSUME RingInv, NEW n \in 1 .. count, NEW bytes \in Seq(Contents), Len(bytes) = n,
         \A i \in 1 .. n : bytes[i] = buffer[Wrap(Front + i - 1)]
  PROVE  SubSeq(storedBar, 1, n) = bytes
<1> DEFINE head == SubSeq(storedBar, 1, n)
<1>1. /\ storedBar \in Seq(Contents) /\ Len(storedBar) = count /\ count \in 0 .. BUF_SIZE
      /\ \A i \in 1 .. count : storedBar[i] = buffer[Wrap(Front + i - 1)]
  BY StoredBytes DEF BytesInOrder
<1>2. \A i \in 1 .. n - 1 + 1 : 1 + i - 1 = i
  BY <1>1, SizesAssumption
<1>3. 1 \in 1 .. count + 1 /\ n \in 0 .. count /\ n - 1 + 1 = n
  BY <1>1, SizesAssumption
<1>4. /\ head \in Seq(Contents) /\ Len(head) = n
      /\ \A i \in 1 .. n : head[i] = storedBar[i]
  BY <1>1, <1>2, <1>3, SubSeqProperties, SizesAssumption
<1>5. \A i \in 1 .. n : i \in 1 .. count
  BY <1>1, SizesAssumption
<1> HIDE DEF head
<1>6. \A i \in 1 .. Len(head) : head[i] = bytes[i]
  BY <1>1, <1>4, <1>5
<1>7. head = bytes
  BY <1>4, <1>6, SeqEqual
<1> QED BY <1>7 DEF head

(* A sequence cut in two.                                                  *)
LEMMA CutInTwo ==
  ASSUME NEW Items, NEW s \in Seq(Items), NEW k \in Nat, NEW n \in Nat, Len(s) = k + n
  PROVE  /\ SubSeq(s, 1, k) \o SubSeq(s, k + 1, k + n) = s
         /\ SubSeq(s, k + 1, k + n) \in Seq(Items) /\ Len(SubSeq(s, k + 1, k + n)) = n
         /\ \A i \in 1 .. n : SubSeq(s, k + 1, k + n)[i] = s[k + i]
<1>1. SubSeq(s, 1, k) \o SubSeq(s, k + 1, k + n) = s
  <2>1. 1 \in 1 .. Len(s) + 1 /\ k \in 1 - 1 .. Len(s) /\ k + n \in k .. Len(s)
    OBVIOUS
  <2>2. SubSeq(s, 1, k) \o SubSeq(s, k + 1, k + n) = SubSeq(s, 1, k + n)
    BY <2>1, ConcatAdjacentSubSeq
  <2> QED BY <2>2, SubSeqFull
<1>2. \A i \in k + 1 .. k + n : s[i] \in Items
  BY ElementOfSeq
<1>3. /\ SubSeq(s, k + 1, k + n) \in Seq(Items)
      /\ Len(SubSeq(s, k + 1, k + n)) = IF k + 1 <= k + n THEN k + n - (k + 1) + 1 ELSE 0
      /\ \A i \in 1 .. k + n - (k + 1) + 1 : SubSeq(s, k + 1, k + n)[i] = s[k + 1 + i - 1]
  BY SMTT(30), <1>2, SubSeqProperties
<1>4. /\ k + n - (k + 1) + 1 = n
      /\ \A i \in 1 .. n : k + 1 + i - 1 = k + i
  OBVIOUS
<1>5. Len(SubSeq(s, k + 1, k + n)) = n
  BY <1>3
<1>6. \A i \in 1 .. n : SubSeq(s, k + 1, k + n)[i] = s[k + i]
  BY <1>3, <1>4
<1> QED BY <1>1, <1>3, <1>5, <1>6

LEMMA FifoInit == Init => Fifo!Init
<1> SUFFICES ASSUME Init PROVE Fifo!Init
  OBVIOUS
<1>1. storedBar = <<>>
  <2>1. storedBar \in Seq(Contents) /\ Len(storedBar) = 0
    BY RingInit, StoredBytes DEF BytesInOrder, Init
  <2> QED BY <2>1, EmptySeq
<1>2. resultBar = <<>> /\ segment = <<>>
  BY DEF Init, resultBar
<1> QED BY <1>1, <1>2 DEF Fifo!Init

LEMMA BeginReadMaps == RingInv /\ BeginRead => Fifo!BeginRead
<1> SUFFICES ASSUME RingInv, BeginRead PROVE Fifo!BeginRead
  OBVIOUS
<1>1. /\ UNCHANGED <<buffer, count, rd, segment>> /\ result' = <<>>
      /\ pc = "wait" /\ pc' \in {"wait", "copy_first", "copy"}
  BY DEF BeginRead, ringVars
<1>2. Front' = Front /\ resultBar' = <<>>
  BY <1>1 DEF Front, resultBar
<1> QED BY <1>1, <1>2, SameBytes DEF Fifo!BeginRead

LEMMA CopyFirstMaps == RingInv /\ CopyFirst => UNCHANGED Fifo!vars
<1> SUFFICES ASSUME RingInv, CopyFirst PROVE UNCHANGED Fifo!vars
  OBVIOUS
<1>1. /\ UNCHANGED <<buffer, count, rd, segment>> /\ result = <<>>
      /\ pc = "copy_first" /\ pc' = "store_first"
  BY DEF RingInv, ReadInv, CopyFirst, ringVars
<1>2. Front' = Front /\ resultBar' = resultBar
  BY <1>1 DEF Front, resultBar
<1> QED BY <1>1, <1>2, SameBytes DEF Fifo!vars

LEMMA StoreFirstMaps == RingInv /\ StoreFirst => Fifo!Take(first_copy) /\ first_copy \in 1 .. count
<1> SUFFICES ASSUME RingInv, StoreFirst
             PROVE  Fifo!Take(first_copy) /\ first_copy \in 1 .. count
  OBVIOUS
<1>1. /\ pc = "store_first" /\ pc' = "copy_rest" /\ count' = count - first_copy
      /\ UNCHANGED <<buffer, rd, first_copy, result, segment>>
      /\ first_copy = BUF_SIZE - rd /\ bytes_to_copy > 0 /\ first_copy + bytes_to_copy <= count
      /\ result = Copy(rd, first_copy)
  BY DEF RingInv, ReadInv, StoreFirst
<1>2. first_copy \in 1 .. count /\ first_copy \in Nat /\ rd \in Nat /\ rd + first_copy <= BUF_SIZE
  BY <1>1, Numbers
<1>3. Front = rd /\ Front' = 0 /\ Wrap(rd + first_copy) = 0
  BY <1>1, Numbers DEF Front, Wrap
<1>4. storedBar' = SubSeq(storedBar, first_copy + 1, Len(storedBar))
  BY <1>1, <1>2, <1>3, StoreFirstKeeps, TakenFromFront
<1>5. /\ result \in Seq(Contents) /\ Len(result) = first_copy
      /\ \A i \in 1 .. first_copy : result[i] = buffer[rd + i - 1]
  BY <1>1, <1>2, CopyCopies
<1>6. \A i \in 1 .. first_copy : Wrap(rd + i - 1) = rd + i - 1
  BY <1>1, <1>2, Numbers DEF Wrap
<1>7. SubSeq(storedBar, 1, first_copy) = result
  BY ZenonT(40), <1>2, <1>3, <1>5, <1>6, FrontBytes
<1>8. resultBar = <<>> /\ resultBar' = result
  BY <1>1 DEF resultBar
<1>9. resultBar' = resultBar \o SubSeq(storedBar, 1, first_copy)
  BY <1>5, <1>7, <1>8, ConcatEmptySeq
<1> QED BY <1>1, <1>2, <1>4, <1>9 DEF Fifo!Take

LEMMA CopyRestMaps == RingInv /\ CopyRest => UNCHANGED Fifo!vars
<1> SUFFICES ASSUME RingInv, CopyRest PROVE UNCHANGED Fifo!vars
  OBVIOUS
<1>1. /\ UNCHANGED <<buffer, count, first_copy, segment>>
      /\ result' = result \o Copy(0, bytes_to_copy) /\ result \in Seq(Contents)
      /\ pc = "copy_rest" /\ pc' = "store_rest"
      /\ rd' = bytes_to_copy /\ UNCHANGED bytes_to_copy
      /\ bytes_to_copy \in 1 .. BUF_SIZE /\ Len(result) = first_copy
  <2>1. bytes_to_copy > 0 /\ bytes_to_copy <= count
    BY DEF CopyRest, RingInv, ReadInv
  <2>2. bytes_to_copy \in 1 .. BUF_SIZE
    BY <2>1, Numbers
  <2> QED BY <2>2 DEF RingInv, ReadInv, TypeOK, Contents, CopyRest
<1>2. Front = 0 /\ Front' = 0
  <2>1. rd' + BUF_SIZE - bytes_to_copy' = BUF_SIZE
    BY <1>1, SizesAssumption
  <2>2. BUF_SIZE % BUF_SIZE = 0
    BY SizesAssumption, Modulo DEF Wrap
  <2> QED BY <1>1, <2>1, <2>2 DEF Front
<1>3. SubSeq(result', 1, first_copy) = result
  <2> DEFINE behind == Copy(0, bytes_to_copy)
  <2>1. behind \in Seq(Contents)
    BY <1>1, CopyCopies, SizesAssumption
  <2>2. first_copy \in Nat
    BY Numbers
  <2> HIDE DEF behind
  <2>3. SubSeq(result \o behind, 1, Len(result)) = SubSeq(result, 1, Len(result))
    BY <1>1, <2>1, <2>2, SubSeqOfConcat1
  <2>4. SubSeq(result, 1, Len(result)) = result
    BY <1>1, SubSeqFull
  <2> QED BY <1>1, <2>3, <2>4 DEF behind
<1>4. resultBar' = resultBar
  BY <1>1, <1>3 DEF resultBar
<1> QED BY <1>1, <1>2, <1>4, SameBytes DEF Fifo!vars

LEMMA CopyAllMaps == RingInv /\ CopyAll => UNCHANGED Fifo!vars
<1> SUFFICES ASSUME RingInv, CopyAll PROVE UNCHANGED Fifo!vars
  OBVIOUS
<1>1. /\ UNCHANGED <<buffer, count, segment>> /\ result = <<>>
      /\ pc = "copy" /\ pc' = "store_rest" /\ first_copy' = 0
  BY DEF RingInv, ReadInv, CopyAll
<1>2. SubSeq(result', 1, 0) = <<>>
  BY SubSeqEmpty
<1>3. Front' = Front /\ resultBar' = resultBar
  BY <1>1, <1>2, CopyAllKeeps DEF resultBar
<1> QED BY <1>1, <1>3, SameBytes DEF Fifo!vars

LEMMA StoreRestMaps ==
  RingInv /\ StoreRest => Fifo!Take(bytes_to_copy) /\ bytes_to_copy \in 1 .. count
<1> SUFFICES ASSUME RingInv, StoreRest
             PROVE  Fifo!Take(bytes_to_copy) /\ bytes_to_copy \in 1 .. count
  OBVIOUS
<1> DEFINE taken == SubSeq(result, 1, first_copy)
           behind == SubSeq(result, first_copy + 1, first_copy + bytes_to_copy)
<1>1. /\ pc = "store_rest" /\ pc' = "wait" /\ count' = count - bytes_to_copy
      /\ UNCHANGED <<buffer, result, segment>>
      /\ bytes_to_copy \in 1 .. count /\ Len(result) = first_copy + bytes_to_copy
      /\ \A i \in 1 .. bytes_to_copy : result[first_copy + i] = buffer[(Front + i - 1) % BUF_SIZE]
      /\ result \in Seq(Contents)
  BY DEF RingInv, ReadInv, TypeOK, Contents, StoreRest
<1>2. storedBar' = SubSeq(storedBar, bytes_to_copy + 1, Len(storedBar))
  BY <1>1, StoreRestKeeps, TakenFromFront
<1>3. /\ behind \in Seq(Contents) /\ Len(behind) = bytes_to_copy
      /\ \A i \in 1 .. bytes_to_copy : behind[i] = result[first_copy + i]
      /\ result = taken \o behind
  <2>1. first_copy \in Nat /\ bytes_to_copy \in Nat
    BY Numbers
  <2> QED BY <1>1, <2>1, CutInTwo
<1>4. \A i \in 1 .. bytes_to_copy : (Front + i - 1) % BUF_SIZE = Wrap(Front + i - 1)
  <2> SUFFICES ASSUME NEW i \in 1 .. bytes_to_copy
               PROVE  (Front + i - 1) % BUF_SIZE = Wrap(Front + i - 1)
    OBVIOUS
  <2>1. Front \in 0 .. BUF_SIZE - 1
    BY FrontInRing DEF Cells
  <2>2. Front + i - 1 \in 0 .. 2 * BUF_SIZE - 1
    BY SMTT(30), <1>1, <2>1, Numbers
  <2> QED BY <2>2, Modulo
<1> HIDE DEF taken, behind
<1>5. SubSeq(storedBar, 1, bytes_to_copy) = behind
  BY <1>1, <1>3, <1>4, FrontBytes
<1>6. resultBar = taken /\ resultBar' = result
  BY <1>1 DEF resultBar, taken
<1> QED BY <1>1, <1>2, <1>3, <1>5, <1>6 DEF Fifo!Take

LEMMA FifoStep == RingInv /\ RingInv' /\ [AtomicNext]_vars => [Fifo!Next]_(Fifo!vars)
<1> SUFFICES ASSUME RingInv, RingInv', [AtomicNext]_vars PROVE [Fifo!Next]_(Fifo!vars)
  OBVIOUS
<1>1. Len(storedBar) = count
  BY StoredBytes DEF BytesInOrder
<1>2. CASE ~Subtracting /\ Receive
  BY <1>2, ReceiveAppends DEF Fifo!Next
<1>3. CASE BeginRead
  BY <1>3, BeginReadMaps DEF Fifo!Next
<1>4. CASE StoreFirst
  BY <1>1, <1>4, StoreFirstMaps DEF Fifo!Next
<1>5. CASE StoreRest
  BY <1>1, <1>5, StoreRestMaps DEF Fifo!Next
<1>6. CASE CopyFirst \/ CopyRest \/ CopyAll
  BY <1>6, CopyFirstMaps, CopyRestMaps, CopyAllMaps
<1>7. CASE UNCHANGED vars
  <2>1. UNCHANGED <<buffer, count, result, segment, pc, first_copy>> /\ Front' = Front
    BY <1>7 DEF vars, ringVars, readVars, Front
  <2>2. resultBar' = resultBar
    BY <2>1 DEF resultBar
  <2> QED BY <2>1, <2>2, SameBytes DEF Fifo!vars
<1> QED BY <1>2, <1>3, <1>4, <1>5, <1>6, <1>7 DEF AtomicNext, Read

(* If only count were updated atomically, the ring would be the queue of   *)
(* bytes that SEND and READ take it for, for every size of the ring, of    *)
(* the caller's buffer and of a segment.                                   *)
THEOREM RingIsFifo == AtomicSpec => Fifo!Spec
  BY FifoInit, FifoStep, RingHolds, RingStep, PTL DEF AtomicSpec, Fifo!Spec

-----------------------------------------------------------------------------
(* Both halves, as one behaviour runs one of them.                         *)

(* The caller owns one connection at most, and tcp_pcb points to it.       *)
THEOREM SessionsHold == HalvesSpec => []SessionInv
<1>1. HalvesInit => SessionInv
  BY SessionParameters, SessionInit DEF HalvesInit
<1>2. SessionInv /\ [HalvesNext]_<<half, vars, sessionVars>> => SessionInv'
  BY SessionParameters, SessionStep DEF HalvesNext
<1> QED BY <1>1, <1>2, PTL DEF HalvesSpec

(* The ring beside the sessions: what RingHolds says of it alone.          *)
THEOREM RingsHold == HalvesSpec => []RingInv
<1>1. HalvesInit => RingInv
  BY RingInit DEF HalvesInit
<1>2. RingInv /\ [HalvesNext]_<<half, vars, sessionVars>> => RingInv'
  BY RingStep DEF HalvesNext
<1> QED BY <1>1, <1>2, PTL DEF HalvesSpec

(* With "count += n" and "count -= n" undivided, the bytes count speaks of *)
(* reach from the oldest one to the write index, at every step of a read   *)
(* and of a callback; and indices, count and session keep their types.  If *)
(* they are divided, a count gets lost (the run ring_race).                *)
THEOREM BytesAreCounted == HalvesSpec => [](BothTypeOK /\ CountIsStored)
<1>1. RingInv /\ SessionInv => BothTypeOK /\ CountIsStored
  BY DEF RingInv, SessionInv, BothTypeOK
<1> QED BY <1>1, RingsHold, SessionsHold, PTL

(* However the callbacks fall between the steps of connect(), write() and  *)
(* read(): a connection is closed once, is not left behind by its session, *)
(* and is not pointed to after it.                                         *)
THEOREM ConnectionsAreAccounted == HalvesSpec => []ConnectionsAccounted
<1>1. SessionInv => ConnectionsAccounted
  <2> SUFFICES ASSUME SessionInv PROVE ConnectionsAccounted
    OBVIOUS
  <2>1. conn \in [Connections -> {"none", "new", "dialing", "open", "aborted", "closing"}]
        /\ NULL \notin Connections
    BY SessionParameters, TypesPlain DEF SessionInv, Plain
  <2>2. Network!NothingLeaked
    BY <2>1 DEF SessionInv, Ownership, Network!NothingLeaked
  <2>3. Network!DanglesInSessionOnly
    BY <2>1 DEF SessionInv, Ownership, Given, Network!DanglesInSessionOnly
  <2> QED BY <2>2, <2>3 DEF SessionInv, ConnectionsAccounted
<1> QED BY <1>1, SessionsHold, PTL

(* Bytes a session finds in the ring and did not receive itself lay there  *)
(* when an earlier one disconnected.                                       *)
THEOREM StaleBytesWereLeft == HalvesSpec => []StaleWereLeft
<1>1. SessionInv => StaleWereLeft
  BY DEF SessionInv, StaleWereLeft
<1> QED BY <1>1, SessionsHold, PTL

(* The half with the ring implements the queue of bytes.                   *)
THEOREM RingImplementsFifo == HalvesSpec => ImplementsFifo
<1>1. HalvesInit => Fifo!Init
  BY FifoInit DEF HalvesInit
<1>2. RingInv /\ RingInv' /\ [HalvesNext]_<<half, vars, sessionVars>> => [Fifo!Next]_(Fifo!vars)
  BY FifoStep DEF HalvesNext
<1> QED BY <1>1, <1>2, RingsHold, PTL DEF HalvesSpec, ImplementsFifo, Fifo!Spec
=============================================================================
