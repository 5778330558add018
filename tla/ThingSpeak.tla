----------------------------- MODULE ThingSpeak -----------------------------
(***************************************************************************)
(* The three network tasks of src/ipstack/thingspeak.cpp.                  *)
(*                                                                         *)
(* CONNECT waits for one Wi-Fi configuration, joins the network, publishes *)
(* the result in the event group and wakes the other two, or suspends      *)
(* itself for good.  SEND uploads samples, READ polls TalkBack for a       *)
(* setpoint every 10 s.  SEND and READ share one IPStack under             *)
(* ipstack_mtx and hold it for a whole HTTPS session; READ posts to        *)
(* controllerQueue inside its session and waits there for room without a   *)
(* limit.  What a server answers, and whether a connection or a write      *)
(* succeeds, is a choice of the environment.  Times are left out: the 10 s *)
(* pause of READ can end at any time.                                      *)
(***************************************************************************)
EXTENDS Integers, Sequences

CONSTANTS
  Configs,       \* the Wi-Fi configurations the UI can send
  Samples,       \* the samples the controller can send
  Setpoints,     \* integers TalkBack can answer, out of range ones included
  UILevels,      \* the setpoints the UI posts, in the range Accepted
  QUEUE_LENGTH   \* length of the queues (main.cpp: 3)

SEND == "SEND"
READ == "READ"
Workers == {SEND, READ}
Nobody == "nobody"
NoConfig == <<>>

EVENT_BIT_0 == 0
EVENT_BIT_1 == 1
EVENT_BIT_2 == 2

\* The range read_task accepts.
Accepted == 0 .. 1500

VARIABLES
  connectPc,     \* where CONNECT is
  workerPc,      \* where SEND and READ are
  notified,      \* the workers that CONNECT has woken
  joined,        \* what the IPStack was constructed with, or NoConfig
  ipstack_mtx,   \* the worker that holds the mutex, or Nobody
  session,       \* the worker whose connection the IPStack has open, or Nobody
  command,       \* the setpoint READ has parsed
  eventGroup, wifiQueue, cloudQueue, controllerQueue   \* shared

netVars == <<connectPc, workerPc, notified, joined, ipstack_mtx, session, command>>
sharedVars == <<eventGroup, wifiQueue, cloudQueue, controllerQueue>>
vars == <<netVars, sharedVars>>

\* The points at which a worker is inside its critical section.
InSession == {"connect", "write", "read", "post", "disconnect", "give"}
WorkerPoints == {"await_notify", "receive", "take", "pause"} \cup InSession

At(worker, point) == workerPc[worker] = point
GotoW(worker, point) == workerPc' = [workerPc EXCEPT ![worker] = point]

-----------------------------------------------------------------------------
Init ==
  /\ connectPc = "await_config"
  /\ workerPc = [w \in Workers |-> "await_notify"]
  /\ notified = {}
  /\ joined = NoConfig
  /\ ipstack_mtx = Nobody
  /\ session = Nobody
  /\ command = 0
  /\ eventGroup = {}
  /\ wifiQueue = <<>>
  /\ cloudQueue = <<>>
  /\ controllerQueue = <<>>

(* connect_task                                                            *)

\* The IPStack is constructed with the one configuration that is ever taken.
AwaitConfig ==
  /\ connectPc = "await_config"
  /\ wifiQueue # <<>>
  /\ joined' = Head(wifiQueue)
  /\ wifiQueue' = Tail(wifiQueue)
  /\ connectPc' = "join"
  /\ UNCHANGED <<workerPc, notified, ipstack_mtx, session, command,
                 eventGroup, cloudQueue, controllerQueue>>

\* Slip: the workers are woken in either case.
JoinAndWake ==
  /\ connectPc = "join"
  /\ connectPc' = "notify_read"
  /\ \E bit \in {EVENT_BIT_0, EVENT_BIT_1} : eventGroup' = eventGroup \cup {bit}
  /\ UNCHANGED <<workerPc, notified, joined, ipstack_mtx, session, command,
                 wifiQueue, cloudQueue, controllerQueue>>

\* Slip: the network is tried again after a failure was published.
JoinRetry ==
  /\ connectPc = "join"
  /\ \/ eventGroup' = eventGroup \cup {EVENT_BIT_0} /\ connectPc' = "notify_read"
     \/ eventGroup' = eventGroup \cup {EVENT_BIT_1} /\ UNCHANGED connectPc
  /\ UNCHANGED <<workerPc, notified, joined, ipstack_mtx, session, command,
                 wifiQueue, cloudQueue, controllerQueue>>

\* The interface is up after at most 30 s, or the task suspends itself.
Join ==
  /\ connectPc = "join"
  /\ \/ eventGroup' = eventGroup \cup {EVENT_BIT_0} /\ connectPc' = "notify_read"
     \/ eventGroup' = eventGroup \cup {EVENT_BIT_1} /\ connectPc' = "suspended"
  /\ UNCHANGED <<workerPc, notified, joined, ipstack_mtx, session, command,
                 wifiQueue, cloudQueue, controllerQueue>>

Notify ==
  /\ \/ connectPc = "notify_read" /\ notified' = notified \cup {READ} /\ connectPc' = "notify_send"
     \/ connectPc = "notify_send" /\ notified' = notified \cup {SEND} /\ connectPc' = "deleted"
  /\ UNCHANGED <<workerPc, joined, ipstack_mtx, session, command, sharedVars>>

Connect == AwaitConfig \/ Join \/ Notify

-----------------------------------------------------------------------------
(* send_task and read_task.  A session is the same for both up to what is  *)
(* done with the answer.                                                   *)

Woken(worker) ==
  /\ At(worker, "await_notify")
  /\ worker \in notified
  /\ notified' = notified \ {worker}
  /\ GotoW(worker, IF worker = SEND THEN "receive" ELSE "take")
  /\ UNCHANGED <<connectPc, joined, ipstack_mtx, session, command, sharedVars>>

\* SEND waits for a sample; it is gone from the queue whether or not the
\* upload succeeds.
ReceiveSample ==
  /\ At(SEND, "receive")
  /\ cloudQueue # <<>>
  /\ cloudQueue' = Tail(cloudQueue)
  /\ GotoW(SEND, "take")
  /\ UNCHANGED <<connectPc, notified, joined, ipstack_mtx, session, command,
                 eventGroup, wifiQueue, controllerQueue>>

\* Slip: the mutex is not asked for.
TakeUnguarded(worker) ==
  /\ At(worker, "take")
  /\ ipstack_mtx' = worker
  /\ GotoW(worker, "connect")
  /\ UNCHANGED <<connectPc, notified, joined, session, command, sharedVars>>

Take(worker) ==
  /\ At(worker, "take")
  /\ ipstack_mtx = Nobody
  /\ ipstack_mtx' = worker
  /\ GotoW(worker, "connect")
  /\ UNCHANGED <<connectPc, notified, joined, session, command, sharedVars>>

\* IPStack::connect: any failure leaves no connection behind.
OpenSession(worker) ==
  /\ At(worker, "connect")
  /\ \/ session' = worker /\ GotoW(worker, "write")
     \/ session' = Nobody /\ GotoW(worker, "give")
  /\ UNCHANGED <<connectPc, notified, joined, ipstack_mtx, command, sharedVars>>

Write(worker) ==
  /\ At(worker, "write")
  /\ \E point \in {"read", "disconnect"} : GotoW(worker, point)
  /\ UNCHANGED <<connectPc, notified, joined, ipstack_mtx, session, command, sharedVars>>

\* SEND prints the answer.
ReadReply ==
  /\ At(SEND, "read")
  /\ GotoW(SEND, "disconnect")
  /\ UNCHANGED <<connectPc, notified, joined, ipstack_mtx, session, command, sharedVars>>

\* Slip: the range of a parsed setpoint is not tested.
AcceptAny(level) == TRUE
Accept(level) == level \in Accepted

\* READ parses the answer; without an acceptable setpoint it is done.
ReadCommand ==
  /\ At(READ, "read")
  /\ \/ GotoW(READ, "disconnect") /\ UNCHANGED command
     \/ \E level \in Setpoints :
          Accept(level) /\ command' = level /\ GotoW(READ, "post")
  /\ UNCHANGED <<connectPc, notified, joined, ipstack_mtx, session, sharedVars>>

\* xQueueSendToBack with portMAX_DELAY: blocks, mutex in hand, until there is room.
Post ==
  /\ At(READ, "post")
  /\ Len(controllerQueue) < QUEUE_LENGTH
  /\ controllerQueue' = Append(controllerQueue, command)
  /\ command' = 0
  /\ GotoW(READ, "disconnect")
  /\ UNCHANGED <<connectPc, notified, joined, ipstack_mtx, session,
                 eventGroup, wifiQueue, cloudQueue>>

Disconnect(worker) ==
  /\ At(worker, "disconnect")
  /\ session' = Nobody
  /\ GotoW(worker, "give")
  /\ UNCHANGED <<connectPc, notified, joined, ipstack_mtx, command, sharedVars>>

Give(worker) ==
  /\ At(worker, "give")
  /\ ipstack_mtx' = Nobody
  /\ GotoW(worker, IF worker = SEND THEN "receive" ELSE "pause")
  /\ UNCHANGED <<connectPc, notified, joined, session, command, sharedVars>>

PauseOver ==
  /\ At(READ, "pause")
  /\ GotoW(READ, "take")
  /\ UNCHANGED <<connectPc, notified, joined, ipstack_mtx, session, command, sharedVars>>

Send ==
  \/ ReceiveSample \/ ReadReply
  \/ Woken(SEND) \/ Take(SEND) \/ OpenSession(SEND) \/ Write(SEND) \/ Disconnect(SEND) \/ Give(SEND)
Read ==
  \/ ReadCommand \/ Post \/ PauseOver
  \/ Woken(READ) \/ Take(READ) \/ OpenSession(READ) \/ Write(READ) \/ Disconnect(READ) \/ Give(READ)

Network == Connect \/ Send \/ Read

-----------------------------------------------------------------------------
(* What UI and CONTROLLER do to the shared objects.                        *)

EnvConfig ==
  /\ Len(wifiQueue) < QUEUE_LENGTH
  /\ \E config \in Configs : wifiQueue' = Append(wifiQueue, config)
  /\ UNCHANGED <<netVars, eventGroup, cloudQueue, controllerQueue>>

EnvOffline ==
  /\ EVENT_BIT_1 \in eventGroup
  /\ eventGroup' = eventGroup \cup {EVENT_BIT_2}
  /\ UNCHANGED <<netVars, wifiQueue, cloudQueue, controllerQueue>>

EnvSample ==
  /\ Len(cloudQueue) < QUEUE_LENGTH
  /\ \E sample \in Samples : cloudQueue' = Append(cloudQueue, sample)
  /\ UNCHANGED <<netVars, eventGroup, wifiQueue, controllerQueue>>

\* UI posts setpoints.
EnvPost ==
  /\ Len(controllerQueue) < QUEUE_LENGTH
  /\ \E level \in UILevels : controllerQueue' = Append(controllerQueue, level)
  /\ UNCHANGED <<netVars, eventGroup, wifiQueue, cloudQueue>>

\* CONTROLLER takes them.
EnvTake ==
  /\ controllerQueue # <<>>
  /\ controllerQueue' = Tail(controllerQueue)
  /\ UNCHANGED <<netVars, eventGroup, wifiQueue, cloudQueue>>

Environment == EnvConfig \/ EnvOffline \/ EnvSample \/ EnvPost \/ EnvTake

Next == Network \/ Environment

Spec == Init /\ [][Next]_vars

-----------------------------------------------------------------------------
\* Type invariant.
TypeOK ==
  /\ connectPc \in {"await_config", "join", "notify_read", "notify_send", "suspended", "deleted"}
  /\ workerPc \in [Workers -> WorkerPoints]
  /\ notified \subseteq Workers
  /\ joined \in Configs \cup {NoConfig}
  /\ ipstack_mtx \in Workers \cup {Nobody}
  /\ session \in Workers \cup {Nobody}
  /\ command \in Accepted
  /\ eventGroup \subseteq {EVENT_BIT_0, EVENT_BIT_1, EVENT_BIT_2}
  /\ wifiQueue \in Seq(Configs) /\ Len(wifiQueue) <= QUEUE_LENGTH
  /\ cloudQueue \in Seq(Samples) /\ Len(cloudQueue) <= QUEUE_LENGTH
  /\ controllerQueue \in Seq(Accepted) /\ Len(controllerQueue) <= QUEUE_LENGTH

(* A session belongs to the worker that holds the mutex: no step of the    *)
(* other worker, on any path through failures, touches a live connection.  *)
SessionExclusive ==
  /\ \A w \in Workers : workerPc[w] \in InSession <=> ipstack_mtx = w
  /\ session # Nobody =>
       session = ipstack_mtx /\ workerPc[session] \in {"write", "read", "post", "disconnect"}

(* SEND and READ use ts->ipstack only after CONNECT constructed it and     *)
(* found the interface up: they copy the pointer when they are woken.      *)
WorkersNeedUplink ==
  (\E w \in Workers : workerPc[w] # "await_notify")
    => joined # NoConfig /\ EVENT_BIT_0 \in eventGroup /\ EVENT_BIT_1 \notin eventGroup
=============================================================================
