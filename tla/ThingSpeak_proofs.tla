------------------------- MODULE ThingSpeak_proofs -------------------------
(***************************************************************************)
(* Proofs about ThingSpeak for every set of configurations, samples and    *)
(* setpoints and every queue length: a network session belongs to the      *)
(* holder of the mutex, and no worker runs without an uplink.              *)
(***************************************************************************)
EXTENDS ThingSpeak, SequenceTheorems, TLAPS

(* The part of the types that the two arguments need.                      *)
NetTypes ==
  /\ connectPc \in {"await_config", "join", "notify_read", "notify_send", "suspended", "deleted"}
  /\ workerPc \in [Workers -> WorkerPoints]
  /\ notified \subseteq Workers
  /\ ipstack_mtx \in Workers \cup {Nobody}
  /\ session \in Workers \cup {Nobody}

(* It is inductive.                                                        *)
LEMMA NetTypesStep == NetTypes /\ [Next]_vars => NetTypes'
<1> SUFFICES ASSUME NetTypes, [Next]_vars PROVE NetTypes'
  OBVIOUS
<1> USE DEF NetTypes, Workers, WorkerPoints, InSession, GotoW, SEND, READ, Nobody, sharedVars
<1>1. CASE Connect
  BY <1>1 DEF Connect, AwaitConfig, Join, Notify
<1>2. CASE ReceiveSample \/ ReadReply \/ ReadCommand \/ Post \/ PauseOver
  BY <1>2 DEF ReceiveSample, ReadReply, ReadCommand, Post, PauseOver
<1>3. ASSUME NEW w \in Workers, Woken(w) \/ Take(w) \/ Give(w)
      PROVE  NetTypes'
  BY ZenonT(40), <1>3 DEF Woken, Take, Give
<1>4. ASSUME NEW w \in Workers, OpenSession(w) \/ Write(w) \/ Disconnect(w)
      PROVE  NetTypes'
  BY ZenonT(40), <1>4 DEF OpenSession, Write, Disconnect
<1>5. CASE Environment \/ UNCHANGED vars
  BY <1>5 DEF Environment, EnvConfig, EnvOffline, EnvSample, EnvPost, EnvTake, vars, netVars
<1> QED
  BY <1>1, <1>2, <1>3, <1>4, <1>5 DEF Next, Network, Send, Read

(* And it holds of every reachable state.                                  *)
THEOREM NetTypesHold == Spec => []NetTypes
<1>1. Init => NetTypes
  BY DEF Init, NetTypes, Workers, WorkerPoints, InSession, Nobody
<1> QED BY <1>1, NetTypesStep, PTL DEF Spec

-----------------------------------------------------------------------------
(* Sessions.  SessionExclusive is inductive: a worker enters its critical  *)
(* section with a free mutex, and leaves it only by Give, which it reaches *)
(* only without an open connection.                                        *)
LEMMA SessionStep == NetTypes /\ SessionExclusive /\ [Next]_vars => SessionExclusive'
<1> SUFFICES ASSUME NetTypes, SessionExclusive, [Next]_vars PROVE SessionExclusive'
  OBVIOUS
<1> USE DEF NetTypes, SessionExclusive, Workers, WorkerPoints, InSession, At, GotoW,
            SEND, READ, Nobody, sharedVars
<1>1. CASE Connect
  BY <1>1 DEF Connect, AwaitConfig, Join, Notify
<1>2. CASE ReceiveSample \/ ReadReply \/ ReadCommand \/ Post \/ PauseOver
  BY <1>2 DEF ReceiveSample, ReadReply, ReadCommand, Post, PauseOver
<1>3. ASSUME NEW w \in Workers, Woken(w)
      PROVE  SessionExclusive'
  BY <1>3 DEF Woken
<1>4. ASSUME NEW w \in Workers, Take(w)
      PROVE  SessionExclusive'
  BY <1>4 DEF Take
<1>5. ASSUME NEW w \in Workers, OpenSession(w)
      PROVE  SessionExclusive'
  BY <1>5 DEF OpenSession
<1>6. ASSUME NEW w \in Workers, Write(w)
      PROVE  SessionExclusive'
  BY <1>6 DEF Write
<1>7. ASSUME NEW w \in Workers, Disconnect(w)
      PROVE  SessionExclusive'
  BY <1>7 DEF Disconnect
<1>8. ASSUME NEW w \in Workers, Give(w)
      PROVE  SessionExclusive'
  BY <1>8 DEF Give
<1>9. CASE Environment \/ UNCHANGED vars
  BY <1>9 DEF Environment, EnvConfig, EnvOffline, EnvSample, EnvPost, EnvTake, vars, netVars
<1> QED
  BY <1>1, <1>2, <1>3, <1>4, <1>5, <1>6, <1>7, <1>8, <1>9 DEF Next, Network, Send, Read

(* A session belongs to the worker that holds the mutex, on every path     *)
(* through the failures of connect, write and read.                        *)
THEOREM SessionsAreExclusive == Spec => []SessionExclusive
<1>1. Init => SessionExclusive
  BY DEF Init, SessionExclusive, Workers, InSession, SEND, READ, Nobody
<1> QED BY <1>1, SessionStep, NetTypesHold, PTL DEF Spec

-----------------------------------------------------------------------------
(* The uplink.  What CONNECT has achieved where it is: bits are set by its *)
(* verdict, and the workers are woken only after a good one.               *)
UplinkInv ==
  /\ wifiQueue \in Seq(Configs)
  /\ connectPc \in {"await_config", "join"} => eventGroup = {}
  /\ connectPc # "await_config" => joined # NoConfig
  /\ connectPc \in {"notify_read", "notify_send", "deleted"}
       => EVENT_BIT_0 \in eventGroup /\ EVENT_BIT_1 \notin eventGroup
  /\ notified # {} \/ (\E w \in Workers : workerPc[w] # "await_notify")
       => connectPc \in {"notify_send", "deleted"}

(* UplinkInv is inductive if a configuration is not NoConfig.              *)
LEMMA UplinkStep ==
  ASSUME NoConfig \notin Configs, NetTypes, UplinkInv, [Next]_vars
  PROVE  UplinkInv'
<1> USE DEF NetTypes, UplinkInv, Workers, WorkerPoints, InSession, At, GotoW, SEND, READ,
            EVENT_BIT_0, EVENT_BIT_1, sharedVars
<1>1. CASE AwaitConfig
  <2>1. Head(wifiQueue) \in Configs /\ Tail(wifiQueue) \in Seq(Configs)
    BY <1>1, HeadTailProperties DEF AwaitConfig
  <2> QED BY <1>1, <2>1 DEF AwaitConfig
<1>2. CASE Join
  BY <1>2 DEF Join
<1>3. CASE Notify
  BY <1>3 DEF Notify
<1>4. CASE ReceiveSample \/ ReadReply \/ ReadCommand \/ Post \/ PauseOver
  BY <1>4 DEF ReceiveSample, ReadReply, ReadCommand, Post, PauseOver
<1>5. ASSUME NEW w \in Workers, Woken(w) \/ Take(w) \/ Give(w)
      PROVE  UplinkInv'
  BY <1>5 DEF Woken, Take, Give
<1>6. ASSUME NEW w \in Workers, OpenSession(w) \/ Write(w) \/ Disconnect(w)
      PROVE  UplinkInv'
  BY <1>6 DEF OpenSession, Write, Disconnect
<1>7. CASE EnvConfig
  <2>1. ASSUME NEW config \in Configs
        PROVE  Append(wifiQueue, config) \in Seq(Configs)
    BY AppendProperties
  <2> QED BY <1>7, <2>1 DEF EnvConfig, netVars
<1>8. CASE EnvOffline
  BY <1>8 DEF EnvOffline, netVars, EVENT_BIT_2
<1>9. CASE EnvSample \/ EnvPost \/ EnvTake \/ UNCHANGED vars
  BY <1>9 DEF EnvSample, EnvPost, EnvTake, vars, netVars
<1> QED
  BY <1>1, <1>2, <1>3, <1>4, <1>5, <1>6, <1>7, <1>8, <1>9
  DEF Next, Network, Connect, Send, Read, Environment

(* No worker gets past its notification without an uplink.                 *)
THEOREM WorkersHaveUplink ==
  ASSUME NoConfig \notin Configs
  PROVE  Spec => []WorkersNeedUplink
<1>1. Init => UplinkInv
  <2>1. <<>> \in Seq(Configs)
    BY EmptySeq
  <2> QED BY <2>1 DEF Init, UplinkInv, Workers
<1>2. NetTypes /\ UplinkInv /\ [Next]_vars => UplinkInv'
  BY UplinkStep
<1>3. UplinkInv => WorkersNeedUplink
  BY DEF UplinkInv, WorkersNeedUplink
<1> QED BY <1>1, <1>2, <1>3, NetTypesHold, PTL DEF Spec
-----------------------------------------------------------------------------
(* The types of everything.  The queues have room when something is put in *)
(* and hold something when it is taken.                                    *)

LEMMA QueueSteps ==
  ASSUME QUEUE_LENGTH \in Nat, NEW Items, NEW queue \in Seq(Items), Len(queue) <= QUEUE_LENGTH
  PROVE  /\ queue # <<>> =>
              /\ Head(queue) \in Items
              /\ Tail(queue) \in Seq(Items) /\ Len(Tail(queue)) <= QUEUE_LENGTH
         /\ \A item \in Items : Len(queue) < QUEUE_LENGTH =>
              /\ Append(queue, item) \in Seq(Items)
              /\ Len(Append(queue, item)) <= QUEUE_LENGTH
<1>1. Len(queue) \in Nat
  BY LenProperties
<1>2. ASSUME queue # <<>>
      PROVE  /\ Head(queue) \in Items
             /\ Tail(queue) \in Seq(Items) /\ Len(Tail(queue)) = Len(queue) - 1
  BY <1>2, HeadTailProperties
<1>3. ASSUME NEW item \in Items
      PROVE  Append(queue, item) \in Seq(Items) /\ Len(Append(queue, item)) = Len(queue) + 1
  BY AppendProperties
<1> QED BY <1>1, <1>2, <1>3

(* What TypeOK adds to NetTypes.                                           *)
ContentTypes ==
  /\ joined \in Configs \cup {NoConfig}
  /\ command \in Accepted
  /\ eventGroup \subseteq {EVENT_BIT_0, EVENT_BIT_1, EVENT_BIT_2}
  /\ wifiQueue \in Seq(Configs) /\ Len(wifiQueue) <= QUEUE_LENGTH
  /\ cloudQueue \in Seq(Samples) /\ Len(cloudQueue) <= QUEUE_LENGTH
  /\ controllerQueue \in Seq(Accepted) /\ Len(controllerQueue) <= QUEUE_LENGTH

LEMMA ContentStep ==
  ASSUME QUEUE_LENGTH \in Nat, UILevels \subseteq Accepted, ContentTypes, [Next]_vars
  PROVE  ContentTypes'
<1> USE DEF ContentTypes, sharedVars
<1>1. CASE AwaitConfig
  BY <1>1, QueueSteps DEF AwaitConfig
<1>2. CASE Join \/ Notify
  BY <1>2 DEF Join, Notify
<1>3. CASE ReceiveSample
  BY <1>3, QueueSteps DEF ReceiveSample
<1>4. CASE ReadCommand
  BY <1>4 DEF ReadCommand, Accept
<1>5. CASE Post
  <2>1. 0 \in Accepted
    BY DEF Accepted
  <2> QED BY <1>5, <2>1, QueueSteps DEF Post
<1>6. CASE ReadReply \/ PauseOver
  BY <1>6 DEF ReadReply, PauseOver
<1>7. ASSUME NEW w \in Workers,
             \/ Woken(w) \/ Take(w) \/ Give(w)
             \/ OpenSession(w) \/ Write(w) \/ Disconnect(w)
      PROVE  ContentTypes'
  BY <1>7 DEF Woken, Take, Give, OpenSession, Write, Disconnect
<1>8. CASE EnvConfig \/ EnvOffline
  BY <1>8, QueueSteps DEF EnvConfig, EnvOffline, netVars
<1>9. CASE EnvSample \/ EnvPost \/ EnvTake
  <2>1. CASE EnvSample
    BY <2>1, QueueSteps DEF EnvSample, netVars
  <2>2. CASE EnvPost
    BY <2>2, QueueSteps DEF EnvPost, netVars
  <2>3. CASE EnvTake
    BY <2>3, QueueSteps DEF EnvTake, netVars
  <2> QED BY <1>9, <2>1, <2>2, <2>3
<1>10. CASE UNCHANGED vars
  BY <1>10 DEF vars, netVars
<1> QED
  BY <1>1, <1>2, <1>3, <1>4, <1>5, <1>6, <1>7, <1>8, <1>9, <1>10
  DEF Next, Network, Connect, Send, Read, Environment, Workers

(* No queue outgrows its length, and READ never posts what it should have  *)
(* refused, if UI posts nothing else.                                      *)
THEOREM NetworkTyped ==
  ASSUME QUEUE_LENGTH \in Nat, UILevels \subseteq Accepted
  PROVE  Spec => []TypeOK
<1>1. Init => ContentTypes
  <2>1. \A Items : <<>> \in Seq(Items) /\ Len(<<>>) = 0
    BY EmptySeq
  <2> QED BY <2>1 DEF Init, ContentTypes, Accepted
<1>2. ContentTypes /\ [Next]_vars => ContentTypes'
  BY ContentStep
<1>3. NetTypes /\ ContentTypes => TypeOK
  BY DEF NetTypes, ContentTypes, TypeOK
<1> QED BY <1>1, <1>2, <1>3, NetTypesHold, PTL DEF Spec
=============================================================================
