----------------------------- MODULE MCNetwork -----------------------------
(* The two halves of IPStack: the ring in bytes, and the sessions over a   *)
(* ring that is the queue the ring's run shows it to be.  A behaviour runs *)
(* one of them, the other stays where it began.                            *)
EXTENDS IPStack

CONSTANTS Connections, NULL, RING_SIZE, CONNECT_POLLS, EXPIRIES   \* of Session

VARIABLES
  half,
  at, polls, addr, tcp_pcb, connected, dns_ready, stored, conn, registered, dns, cached,
  expiries, handed, left

Network == INSTANCE Session WITH BUF_SIZE <- RING_SIZE

ASSUME SessionParameters == Network!Parameters

sessionVars == <<at, polls, addr, tcp_pcb, connected, dns_ready, stored, conn, registered,
                 dns, cached, expiries, handed, left>>

HalvesInit == half \in {"ring", "sessions"} /\ Init /\ Network!Init

HalvesNext ==
  /\ UNCHANGED half
  /\ \/ half = "ring" /\ AtomicNext /\ UNCHANGED sessionVars
     \/ half = "sessions" /\ Network!Next /\ UNCHANGED vars

OnSessions == half = "sessions" /\ UNCHANGED <<half, vars>>

(* The caller is scheduled and its time-outs fire, lwIP answers a request  *)
(* for a name (it gives up after some retries) and finishes what is        *)
(* closed.                                                                 *)
Fairness ==
  /\ WF_sessionVars(OnSessions /\ Network!Caller)
  /\ WF_sessionVars(OnSessions /\ Network!DnsAnswers)
  /\ \A n \in Connections : WF_sessionVars(OnSessions /\ Network!Gone(n))

HalvesSpec == HalvesInit /\ [][HalvesNext]_<<half, vars, sessionVars>> /\ Fairness

-----------------------------------------------------------------------------
(* The properties, explained in the modules they come from.                *)

(* The ring's indices and count, and the state of a session, keep their    *)
(* types; no segment is stored beyond the ring.                            *)
BothTypeOK == TypeOK /\ Network!TypeOK

(* A connection is closed at most once, is not left behind by the session  *)
(* it was opened in, and tcp_pcb dangles until that session's end at most. *)
ConnectionsAccounted ==
  Network!NeverClosedTwice /\ Network!NothingLeaked /\ Network!DanglesInSessionOnly

\* Bytes of an earlier session are those it left in the ring.
StaleWereLeft == Network!StaleWereLeft

(* Every session comes to an end, and as long as the network works there   *)
(* is again and again one with the server.                                 *)
SessionsGoOn == Network!SessionEnds /\ (half = "sessions" => Network!ServerReached)
=============================================================================
