------------------------------- MODULE Session -------------------------------
(***************************************************************************)
(* One network session after the other, as SEND and READ run them through  *)
(* src/ipstack/IPStack.cpp with ipstack_mtx in hand: resolve the name,     *)
(* create a TLS connection, dial, write the request, read the reply,       *)
(* disconnect.  lwIP runs in a task of its own with a higher priority, so  *)
(* its callbacks fall between any two steps of the caller; only what is    *)
(* done between cyw43_arch_lwip_begin and _end is one step.                *)
(*                                                                         *)
(* A byte is the connection it came from, the receive ring is the queue of *)
(* bytes ByteFifo says it is.                                              *)
(***************************************************************************)
EXTENDS Integers, Sequences, SequencesExt

CONSTANTS
  Connections,    \* what altcp_tls_new can return
  NULL,           \* nullptr
  BUF_SIZE,       \* bytes in the ring
  CONNECT_POLLS,  \* polls of 50 ms in the 5 s a TLS connection may take
  EXPIRIES        \* how often lwIP forgets the address it has cached

Parameters ==
  /\ NULL \notin Connections
  /\ BUF_SIZE \in Nat \ {0} /\ CONNECT_POLLS \in Nat /\ EXPIRIES \in Nat

VARIABLES
  at,          \* where the caller is
  polls,       \* of the wait for the TLS connection
  addr,        \* local of connect(): "server", or "other" while nothing was stored
  tcp_pcb, connected, dns_ready, stored,   \* members of IPStack
  conn,        \* lwIP: what became of each connection
  registered,  \* lwIP: connections with callbacks
  dns, cached, expiries,   \* lwIP: request under way, address known
  handed,      \* history: what the connection last handed to lwIP was
  left         \* history: connections that left bytes in the ring

memberVars == <<tcp_pcb, connected, dns_ready, stored>>
lwipVars == <<conn, registered, dns, cached, expiries>>
vars == <<at, polls, addr, memberVars, lwipVars, handed, left>>

Init ==
  /\ at = "idle" /\ polls = 0 /\ addr = "other"
  /\ tcp_pcb = NULL /\ connected = FALSE /\ dns_ready = FALSE /\ stored = <<>>
  /\ conn = [n \in Connections |-> "none"] /\ registered = {}
  /\ dns = "none" /\ cached = FALSE /\ expiries = 0
  /\ handed = "new" /\ left = {}

-----------------------------------------------------------------------------
(* disconnect().                                                           *)

\* Slips: the callbacks stay, the pointer stays.
UnregisteredNot == registered
Unregistered == registered \ {tcp_pcb}
Cleared == NULL

\* Closing, or aborting when closing fails, ends the connection for the caller.
Disconnect ==
  /\ connected' = IF tcp_pcb = NULL THEN connected ELSE FALSE
  /\ tcp_pcb' = IF tcp_pcb = NULL THEN NULL ELSE Cleared
  /\ registered' = Unregistered
  /\ conn' = [n \in Connections |-> IF n = tcp_pcb THEN "closing" ELSE conn[n]]
  /\ handed' = IF tcp_pcb = NULL THEN handed ELSE conn[tcp_pcb]
  /\ left' = ToSet(stored)

-----------------------------------------------------------------------------
(* The caller.                                                             *)

Stay == UNCHANGED <<polls, addr, tcp_pcb, connected, dns_ready, stored, lwipVars, handed, left>>

\* dns_gethostbyname answers from its cache, starts a request, or refuses.
\* Slip: only the callback is taken to have the address.
AddressIgnored == "other"
AddressFromCache == "server"

Lookup ==
  /\ at = "idle"
  /\ connected' = FALSE
  /\ polls' = 0
  /\ \/ /\ cached
        /\ addr' = AddressFromCache /\ dns_ready' = TRUE
        /\ at' = "create" /\ UNCHANGED dns
     \/ /\ ~cached
        /\ addr' \in {"server", "other"}   \* not initialised
        /\ dns_ready' = FALSE /\ dns' = "asked" /\ at' = "resolving"
     \/ /\ ~cached
        /\ at' = "idle" /\ dns_ready' = FALSE
        /\ UNCHANGED <<addr, dns>>
  /\ UNCHANGED <<tcp_pcb, stored, conn, registered, cached, expiries, handed, left>>

\* The loop on dns_ready: the resolved address is not read.
Resolved ==
  /\ at = "resolving" /\ dns_ready
  /\ at' = "create"
  /\ Stay

\* A connection lwIP has nothing of any more.
Free == {n \in Connections : conn[n] = "none" /\ n \notin ToSet(stored) /\ n # tcp_pcb}

Create ==
  /\ at = "create"
  /\ \/ /\ Free # {}
        /\ LET n == CHOOSE free \in Free : TRUE IN
          /\ tcp_pcb' = n
          /\ conn' = [conn EXCEPT ![n] = "new"]
          /\ registered' = registered \cup {n}
          /\ left' = left \ {n}
          /\ at' = "dial"
     \/ tcp_pcb' = NULL /\ at' = "idle" /\ UNCHANGED <<conn, registered, left>>
  /\ UNCHANGED <<polls, addr, connected, dns_ready, stored, dns, cached, expiries, handed>>

\* altcp_connect failed.  Slip: its connection is not given back.
GiveUpForgotten == "idle"
GiveUp == "disconnect"

Dial ==
  /\ at = "dial"
  /\ \/ conn' = [conn EXCEPT ![tcp_pcb] = "dialing"] /\ at' = "dialing"
     \/ at' = GiveUp /\ UNCHANGED conn
  /\ UNCHANGED <<polls, addr, memberVars, registered, dns, cached, expiries, handed, left>>

Polled == polls + 1

Poll ==
  /\ at = "dialing"
  /\ IF ~connected /\ polls < CONNECT_POLLS
     THEN polls' = Polled /\ UNCHANGED at
     ELSE at' = "check" /\ UNCHANGED polls
  /\ UNCHANGED <<addr, memberVars, lwipVars, handed, left>>

\* connected is read again after the loop.
CheckConnected ==
  /\ at = "check"
  /\ at' = IF connected THEN "write" ELSE "disconnect"
  /\ Stay

\* write(): lwIP takes the request or not, whatever became of the connection.
Write ==
  /\ at = "write"
  /\ handed' = IF tcp_pcb = NULL THEN "null" ELSE conn[tcp_pcb]
  /\ at' \in {"read", "disconnect"}
  /\ UNCHANGED <<polls, addr, memberVars, lwipVars, left>>

\* read(): enough bytes or the time-out; all that is there is taken.
Read ==
  /\ at = "read"
  /\ stored' = <<>>
  /\ at' = "disconnect"
  /\ UNCHANGED <<polls, addr, tcp_pcb, connected, dns_ready, lwipVars, handed, left>>

Close ==
  /\ at = "disconnect"
  /\ at' = "idle"
  /\ Disconnect
  /\ UNCHANGED <<polls, addr, dns_ready, stored, dns, cached, expiries>>

Connecting == Lookup \/ Resolved \/ Create \/ Dial \/ Poll \/ CheckConnected
Caller == Connecting \/ Write \/ Read \/ Close

-----------------------------------------------------------------------------
(* lwIP and its callbacks.                                                 *)

\* dns_callback, with an address or without: ready in any case.
DnsCallback(found) ==
  /\ dns = "asked"
  /\ dns' = "none"
  /\ cached' = found
  /\ dns_ready' = TRUE
  /\ UNCHANGED <<at, polls, addr, tcp_pcb, connected, stored, conn, registered, expiries, handed, left>>

CacheExpires ==
  /\ cached /\ cached' = FALSE
  /\ expiries < EXPIRIES /\ expiries' = expiries + 1
  /\ UNCHANGED <<at, polls, addr, memberVars, conn, registered, dns, handed, left>>

\* tcp_client_connected after the handshake; the certificate is the server's only.
ConnectedCallback(n) ==
  /\ conn[n] = "dialing" /\ addr = "server" /\ n \in registered
  /\ conn' = [conn EXCEPT ![n] = "open"]
  /\ connected' = TRUE
  /\ UNCHANGED <<at, polls, addr, tcp_pcb, dns_ready, stored, registered, dns, cached, expiries, handed, left>>

\* tcp_client_connected with an error disconnects.
ConnectFailedCallback(n) ==
  /\ conn[n] = "dialing" /\ n \in registered
  /\ Disconnect
  /\ UNCHANGED <<at, polls, addr, dns_ready, stored, dns, cached, expiries>>

\* tcp_client_err: lwIP has freed the connection, the callback does nothing.
ErrCallback(n) ==
  /\ conn[n] \in {"dialing", "open"} /\ n \in registered
  /\ conn' = [conn EXCEPT ![n] = "aborted"]
  /\ UNCHANGED <<at, polls, addr, memberVars, registered, dns, cached, expiries, handed, left>>

\* What of a segment fits.
Fitting(bytes) == SubSeq(bytes, 1, Min({Len(bytes), BUF_SIZE - Len(stored)}))

\* tcp_client_recv; without its callback a connection discards what comes.
RecvCallback(n) ==
  /\ conn[n] \in {"open", "closing"} /\ n \in registered
  /\ \E bytes \in {<<n>>, <<n, n>>} : stored' = stored \o Fitting(bytes)
  /\ UNCHANGED <<at, polls, addr, tcp_pcb, connected, dns_ready, lwipVars, handed, left>>

\* lwIP is done with a connection the caller has closed or lwIP aborted.
Gone(n) ==
  /\ conn[n] = "closing" \/ (conn[n] = "aborted" /\ n # tcp_pcb)
  /\ conn' = [conn EXCEPT ![n] = "none"]
  /\ registered' = registered \ {n}
  /\ UNCHANGED <<at, polls, addr, memberVars, dns, cached, expiries, handed, left>>

LwIP ==
  \/ \E found \in BOOLEAN : DnsCallback(found)
  \/ CacheExpires
  \/ \E n \in Connections :
       \/ ConnectedCallback(n) \/ ConnectFailedCallback(n) \/ ErrCallback(n)
       \/ RecvCallback(n) \/ Gone(n)

Next == Caller \/ LwIP

Spec == Init /\ [][Next]_vars

DnsAnswers == \E found \in BOOLEAN : DnsCallback(found)

(* The network works again and again: a name is found, memory suffices,    *)
(* the server accepts in time.                                             *)
NetworkWorks ==
  /\ SF_vars(DnsCallback(TRUE))
  /\ SF_vars(Lookup /\ at' # "idle")
  /\ SF_vars(Create /\ at' = "dial")
  /\ SF_vars(Dial /\ at' = "dialing")
  /\ \A n \in Connections : SF_vars(ConnectedCallback(n))

-----------------------------------------------------------------------------
\* Type invariant: the ring never holds more than it has room for.
TypeOK ==
  /\ at \in {"idle", "resolving", "create", "dial", "dialing", "check", "write", "read", "disconnect"}
  /\ polls \in 0 .. CONNECT_POLLS /\ addr \in {"server", "other"}
  /\ tcp_pcb \in Connections \cup {NULL}
  /\ connected \in BOOLEAN /\ dns_ready \in BOOLEAN /\ cached \in BOOLEAN
  /\ stored \in Seq(Connections) /\ Len(stored) <= BUF_SIZE
  /\ conn \in [Connections -> {"none", "new", "dialing", "open", "aborted", "closing"}]
  /\ registered \subseteq Connections /\ left \subseteq Connections
  /\ dns \in {"none", "asked"} /\ expiries \in 0 .. EXPIRIES

(* Neither the callback's disconnect, nor the one after a time-out, nor    *)
(* the one at the end hands lwIP a connection it was told to close before, *)
(* however the callbacks fall between the steps of connect().              *)
NeverClosedTwice == handed \notin {"closing", "none", "null"}

(* A session that is over leaves nothing behind in lwIP: on every path     *)
(* through its failures the connection is given back and forgotten.        *)
NothingLeaked ==
  at = "idle" => tcp_pcb = NULL /\ \A n \in Connections : conn[n] \in {"none", "closing", "aborted"}

(* tcp_client_err does not clear tcp_pcb: the pointer dangles, but only    *)
(* until the end of the session in which lwIP gave the connection up.      *)
DanglesInSessionOnly ==
  tcp_pcb # NULL => conn[tcp_pcb] \in {"new", "dialing", "open", "aborted"} /\ at # "idle"

(* The ring is never emptied, so a session can read bytes of an earlier    *)
(* one: only those that lay in the ring when that one disconnected, none   *)
(* that arrive later.                                                      *)
StaleWereLeft ==
  \A n \in ToSet(stored) : n \in left \/ (n = tcp_pcb /\ conn[n] \in {"open", "aborted"})

(* The waits for the name and for the handshake, with the network mutex in *)
(* hand, end, and so does every session.                                   *)
SessionEnds == at # "idle" ~> at = "idle"

(* The address the callback brings is not used, so a session that had to   *)
(* ask for it dials whatever addr held; the cache saves the next one: as   *)
(* long as the network works, sessions with the server go on.              *)
ServerReached ==
  NetworkWorks => []<>(\E n \in Connections : conn[n] = "open")
=============================================================================
