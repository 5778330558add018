------------------------- MODULE Greenhouse_proofs -------------------------
(***************************************************************************)
(* Proofs about Greenhouse for every set of names, levels and commands and  *)
(* every queue length: each task meets the environment it was modelled     *)
(* with, the snapshot of CONTROLLER agrees with the verdict, and nothing   *)
(* is put into a queue that nobody takes from.                             *)
(***************************************************************************)
EXTENDS Greenhouse, SequenceTheorems, TLAPS

Phases == {"wait", "start_up", "first", "measure", "act", "idle"}
Connects == {"await_config", "join", "notify_read", "notify_send", "suspended", "deleted"}
Up == {Ctl!EVENT_BIT_0}
Downs == {{Ctl!EVENT_BIT_1}, {Ctl!EVENT_BIT_1, Ctl!EVENT_BIT_2}}

(* Where CONNECT is tells what the event group holds and where UI can be;  *)
(* one configuration was sent when UI has left its first stage.            *)
VerdictInv ==
  /\ stage \in Ui!Stages
  /\ connectPc \in Connects
  /\ connectPc \in {"await_config", "join"} => eventGroup = {}
  /\ connectPc \in {"notify_read", "notify_send", "deleted"} => eventGroup = Up
  /\ connectPc = "suspended" => eventGroup \in Downs
  /\ stage = "error" => connectPc = "suspended"
  /\ stage = "wifi" => connectPc = "await_config" /\ wifiQueue = <<>>
  /\ wifiQueue \in Seq(Ui!Configs) /\ Len(wifiQueue) <= 1
  /\ connectPc # "await_config" => wifiQueue = <<>>

(* What CONTROLLER knows, and what it has sent.                            *)
SnapshotInv ==
  /\ phase \in Phases
  /\ eventBits \subseteq eventGroup
  /\ phase # "wait" => eventBits \cap Ctl!StartBits # {}
  /\ cloudQueue # <<>> => Ctl!EVENT_BIT_0 \in eventBits

(* The setpoints that are about to be posted.                              *)
LevelInv ==
  /\ savedLevel \in BootLevels \cup UserLevels \cup {Ui!BAD_LEVEL}
  /\ stage = "save_level" => currentSetpoint \in UserLevels
  /\ workerPc \in [Net!Workers -> Net!WorkerPoints]
  /\ workerPc[Net!READ] = "post" => command \in Accepted

GInv == VerdictInv /\ SnapshotInv /\ LevelInv

(* The instances give each component's bits their own names.               *)
LEMMA BitValues ==
  /\ Ctl!EVENT_BIT_0 = 0 /\ Ctl!EVENT_BIT_1 = 1 /\ Ctl!EVENT_BIT_2 = 2
  /\ Ui!EVENT_BIT_0 = 0 /\ Ui!EVENT_BIT_1 = 1 /\ Ui!EVENT_BIT_2 = 2
  /\ Net!EVENT_BIT_0 = 0 /\ Net!EVENT_BIT_1 = 1 /\ Net!EVENT_BIT_2 = 2
  /\ Ctl!StartBits = {0, 2} /\ Up = {0} /\ Downs = {{1}, {1, 2}}
  BY DEF Ctl!EVENT_BIT_0, Ctl!EVENT_BIT_1, Ctl!EVENT_BIT_2, Ui!EVENT_BIT_0, Ui!EVENT_BIT_1,
         Ui!EVENT_BIT_2, Net!EVENT_BIT_0, Net!EVENT_BIT_1, Net!EVENT_BIT_2, Ctl!StartBits, Up, Downs

LEMMA InvInit == Init => GInv
<1> SUFFICES ASSUME Init PROVE GInv
  OBVIOUS
<1>1. VerdictInv
  BY EmptySeq DEF Init, Ui!Init, Net!Init, VerdictInv, Ui!Stages, Connects
<1>2. SnapshotInv
  BY DEF Init, Ctl!Init, SnapshotInv, Phases
<1>3. LevelInv
  <2>1. stage = "wifi" /\ savedLevel \in BootLevels \cup {Ui!BAD_LEVEL}
    BY DEF Init, Ui!Init
  <2>2. workerPc = [w \in Net!Workers |-> "await_notify"]
    BY DEF Init, Net!Init
  <2>3. workerPc \in [Net!Workers -> Net!WorkerPoints] /\ workerPc[Net!READ] = "await_notify"
    BY <2>2 DEF Net!Workers, Net!WorkerPoints
  <2> QED BY <2>1, <2>3 DEF LevelInv
<1> QED BY <1>1, <1>2, <1>3 DEF GInv

-----------------------------------------------------------------------------
(* CONTROLLER keeps the invariant.                                         *)
LEMMA ControllerKeeps == GInv /\ Controller => GInv'
<1> SUFFICES ASSUME GInv, Controller PROVE GInv'
  OBVIOUS
<1>1. UNCHANGED <<uiVars, netVars, wifiQueue, eventGroup>>
  BY DEF Controller, Ctl!Controller, Ctl!Start, Ctl!StartUpOver, Ctl!TakeLevel, Ctl!RoundDue,
         Ctl!Measure, Ctl!Act, Ctl!sharedVars
<1>2. VerdictInv'
  BY <1>1 DEF GInv, VerdictInv, uiVars, netVars
<1>3. LevelInv'
  BY <1>1 DEF GInv, LevelInv, uiVars, netVars
<1>4. SnapshotInv'
  <2> USE DEF GInv, SnapshotInv, Phases
  <2>1. CASE Ctl!Start
    BY <2>1 DEF Ctl!Start, Ctl!sharedVars
  <2>2. CASE Ctl!StartUpOver \/ Ctl!TakeLevel \/ Ctl!RoundDue \/ Ctl!Act
    BY <2>2 DEF Ctl!StartUpOver, Ctl!TakeLevel, Ctl!RoundDue, Ctl!Act, Ctl!sharedVars
  <2>3. CASE Ctl!Measure
    BY <2>3 DEF Ctl!Measure
  <2> QED BY <2>1, <2>2, <2>3 DEF Controller, Ctl!Controller
<1> QED BY <1>2, <1>3, <1>4 DEF GInv

(* The levels UI posts are those CONTROLLER was modelled with.             *)
LEMMA LevelsRead ==
  ASSUME LevelInv
  PROVE  Ui!LevelRead \subseteq UILevels
BY LevelsAssumption
DEF LevelInv, Ui!LevelRead, UILevels, Ui!BAD_LEVEL, Ui!DEFAULT_LEVEL, DEFAULT_LEVEL

(* UI keeps it: it sends once, from its first stage, and says "without     *)
(* connection" only where CONNECT has suspended itself.                    *)
LEMMA UIKeeps == GInv /\ UI => GInv'
<1> SUFFICES ASSUME GInv, UI PROVE GInv'
  OBVIOUS
<1>1. UNCHANGED <<ctlVars, netVars, cloudQueue>>
  BY DEF UI
<1>2. CASE Ui!PressError
  <2>1. eventGroup \in Downs /\ eventGroup' = {1, 2} /\ connectPc = "suspended"
    BY <1>2, BitValues DEF GInv, VerdictInv, Ui!PressError
  <2>2. VerdictInv'
    BY <1>1, <1>2, <2>1, BitValues DEF GInv, VerdictInv, Ui!PressError, Ui!Stages, netVars
  <2>3. SnapshotInv'
    BY <1>1, <1>2, <2>1, BitValues DEF GInv, SnapshotInv, Ui!PressError, ctlVars
  <2>4. LevelInv'
    BY <1>1, <1>2 DEF GInv, LevelInv, Ui!PressError, netVars
  <2> QED BY <2>2, <2>3, <2>4 DEF GInv
<1>3. CASE Ui!SendConfig \/ Ui!SendDefault
  <2>1. /\ stage = "wifi" /\ connectPc = "await_config" /\ wifiQueue = <<>>
        /\ UNCHANGED <<eventGroup, savedLevel, currentSetpoint>>
        /\ stage' \in {"connecting", "default_check"}
    BY <1>3 DEF GInv, VerdictInv, Ui!SendConfig, Ui!SendDefault
  <2>2. PICK sentConfig \in Ui!Configs : wifiQueue' = Ui!Offer(wifiQueue, sentConfig)
    BY <1>3 DEF Ui!SendConfig, Ui!SendDefault
  <2>3. wifiQueue' = <<sentConfig>>
    BY <2>1, <2>2, QueueAssumption DEF Ui!Offer
  <2>4. VerdictInv'
    BY <1>1, <2>1, <2>3 DEF GInv, VerdictInv, Ui!Stages, netVars
  <2>5. SnapshotInv'
    BY <1>1, <2>1 DEF GInv, SnapshotInv, ctlVars
  <2>6. LevelInv'
    BY <1>1, <2>1 DEF GInv, LevelInv, netVars
  <2> QED BY <2>4, <2>5, <2>6 DEF GInv
<1>4. CASE \/ Ui!CheckBits \/ Ui!SaveSsid \/ Ui!SavePwd \/ Ui!Saved \/ Ui!DefaultLevel
           \/ Ui!SaveLevel \/ Ui!UseSaved \/ Ui!StartEdit \/ Ui!Confirm
  <2>1. /\ UNCHANGED <<eventGroup, wifiQueue>>
        /\ stage # "wifi" /\ stage' \in Ui!Stages \ {"wifi"}
    BY <1>4
    DEF Ui!CheckBits, Ui!SaveSsid, Ui!SavePwd, Ui!Saved, Ui!DefaultLevel, Ui!SaveLevel,
        Ui!UseSaved, Ui!StartEdit, Ui!Confirm, Ui!Stages, Ui!sharedVars
  <2>2. stage' = "error" => connectPc = "suspended"
    <3>1. stage' = "error" => Ui!CheckBits /\ Ui!Down
      BY <1>4
      DEF Ui!CheckBits, Ui!SaveSsid, Ui!SavePwd, Ui!Saved, Ui!DefaultLevel, Ui!SaveLevel,
          Ui!UseSaved, Ui!StartEdit, Ui!Confirm
    <3>2. Ui!Down => 1 \in eventGroup
      BY BitValues DEF Ui!Down
    <3> QED BY <3>1, <3>2, BitValues DEF GInv, VerdictInv, Connects
  <2>3. VerdictInv'
    BY <1>1, <2>1, <2>2 DEF GInv, VerdictInv, netVars
  <2>4. SnapshotInv'
    BY <1>1, <2>1 DEF GInv, SnapshotInv, ctlVars
  <2>5. LevelInv'
    BY <1>1, <1>4
    DEF GInv, LevelInv, netVars, Ui!CheckBits, Ui!SaveSsid, Ui!SavePwd, Ui!Saved,
        Ui!DefaultLevel, Ui!SaveLevel, Ui!UseSaved, Ui!StartEdit, Ui!Confirm
  <2> QED BY <2>3, <2>4, <2>5 DEF GInv
<1> QED BY <1>2, <1>3, <1>4 DEF UI, Ui!UI, Ui!Automatic, Ui!User

(* The network tasks keep it.                                              *)
LEMMA NetworkKeeps == GInv /\ Network => GInv'
<1> SUFFICES ASSUME GInv, Network PROVE GInv'
  OBVIOUS
<1> USE DEF Net!GotoW, Net!At, Net!Workers, Net!WorkerPoints, Net!InSession, Net!SEND, Net!READ,
            Net!sharedVars
<1>1. UNCHANGED <<ctlVars, uiVars>>
  BY DEF Network
<1>2. CASE Net!AwaitConfig
  <2>1. /\ connectPc = "await_config" /\ connectPc' = "join" /\ wifiQueue # <<>>
        /\ wifiQueue' = Tail(wifiQueue) /\ UNCHANGED <<workerPc, command, eventGroup, cloudQueue>>
    BY <1>2 DEF Net!AwaitConfig
  <2>2. wifiQueue' = <<>>
    <3>1. Tail(wifiQueue) \in Seq(Ui!Configs) /\ Len(Tail(wifiQueue)) = Len(wifiQueue) - 1
      BY <2>1, HeadTailProperties DEF GInv, VerdictInv
    <3>2. Len(wifiQueue) = 1
      <4>1. wifiQueue \in Seq(Ui!Configs) /\ Len(wifiQueue) <= 1
        BY DEF GInv, VerdictInv
      <4>2. Len(wifiQueue) \in Nat /\ Len(wifiQueue) # 0
        BY <2>1, <4>1, LenProperties, EmptySeq
      <4> QED BY <4>1, <4>2
    <3> QED BY <2>1, <3>1, <3>2, EmptySeq
  <2>3. VerdictInv'
    BY <1>1, <2>1, <2>2, EmptySeq DEF GInv, VerdictInv, Connects, uiVars
  <2> QED BY <1>1, <2>1, <2>3 DEF GInv, SnapshotInv, LevelInv, ctlVars, uiVars
<1>3. CASE Net!Join
  <2>1. /\ connectPc = "join" /\ eventGroup = {} /\ wifiQueue = <<>>
        /\ UNCHANGED <<workerPc, command, wifiQueue, cloudQueue>>
        /\ \/ connectPc' = "notify_read" /\ eventGroup' = {0}
           \/ connectPc' = "suspended" /\ eventGroup' = {1}
    BY <1>3, BitValues DEF Net!Join, GInv, VerdictInv
  <2>2. stage # "wifi" /\ stage # "error"
    BY <2>1 DEF GInv, VerdictInv
  <2>3. VerdictInv'
    BY <1>1, <2>1, <2>2, EmptySeq, BitValues DEF GInv, VerdictInv, Connects, uiVars
  <2>4. SnapshotInv'
    BY <1>1, <2>1 DEF GInv, SnapshotInv, ctlVars
  <2> QED BY <1>1, <2>1, <2>3, <2>4 DEF GInv, LevelInv, uiVars
<1>4. CASE Net!Notify
  <2>1. /\ connectPc \in {"notify_read", "notify_send"} /\ connectPc' \in {"notify_send", "deleted"}
        /\ UNCHANGED <<workerPc, command, eventGroup, wifiQueue, cloudQueue>>
    BY <1>4 DEF Net!Notify
  <2>2. VerdictInv'
    BY <1>1, <2>1 DEF GInv, VerdictInv, Connects, uiVars
  <2> QED BY <1>1, <2>1, <2>2 DEF GInv, SnapshotInv, LevelInv, ctlVars, uiVars
<1>5. CASE Net!Send \/ Net!Read
  <2>1. UNCHANGED <<connectPc, eventGroup, wifiQueue>>
    BY <1>5
    DEF Net!Send, Net!Read, Net!ReceiveSample, Net!ReadReply, Net!Woken, Net!Take,
        Net!OpenSession, Net!Write, Net!Disconnect, Net!Give, Net!ReadCommand, Net!Post,
        Net!PauseOver
  <2>2. cloudQueue' # <<>> => cloudQueue # <<>>
    BY <1>5
    DEF Net!Send, Net!Read, Net!ReceiveSample, Net!ReadReply, Net!Woken, Net!Take,
        Net!OpenSession, Net!Write, Net!Disconnect, Net!Give, Net!ReadCommand, Net!Post,
        Net!PauseOver
  <2>3. workerPc \in [{"SEND", "READ"} -> Net!WorkerPoints]
    BY DEF GInv, LevelInv
  <2>4. /\ workerPc' \in [Net!Workers -> Net!WorkerPoints]
        /\ workerPc'["READ"] = "post" => command' \in Accepted
    <3>1. CASE Net!ReceiveSample \/ Net!ReadReply \/ Net!PauseOver
      BY <2>3, <3>1 DEF GInv, LevelInv, Net!ReceiveSample, Net!ReadReply, Net!PauseOver
    <3>2. CASE Net!ReadCommand
      BY <2>3, <3>2
      DEF GInv, LevelInv, Net!ReadCommand, Net!Accept, Net!Accepted, Accepted
    <3>3. CASE Net!Post
      BY <2>3, <3>3 DEF Net!Post
    <3>4. ASSUME NEW w \in Net!Workers, Net!Woken(w) \/ Net!Take(w) \/ Net!Give(w)
          PROVE  /\ workerPc' \in [Net!Workers -> Net!WorkerPoints]
                 /\ workerPc'["READ"] = "post" => command' \in Accepted
      BY <2>3, <3>4 DEF GInv, LevelInv, Net!Woken, Net!Take, Net!Give
    <3>5. ASSUME NEW w \in Net!Workers, Net!OpenSession(w) \/ Net!Write(w) \/ Net!Disconnect(w)
          PROVE  /\ workerPc' \in [Net!Workers -> Net!WorkerPoints]
                 /\ workerPc'["READ"] = "post" => command' \in Accepted
      BY <2>3, <3>5 DEF GInv, LevelInv, Net!OpenSession, Net!Write, Net!Disconnect
    <3> QED BY <1>5, <3>1, <3>2, <3>3, <3>4, <3>5 DEF Net!Send, Net!Read
  <2>5. VerdictInv'
    BY <1>1, <2>1 DEF GInv, VerdictInv, uiVars
  <2>6. SnapshotInv'
    BY <1>1, <2>1, <2>2 DEF GInv, SnapshotInv, ctlVars
  <2>7. LevelInv'
    BY <1>1, <2>4 DEF GInv, LevelInv, uiVars
  <2> QED BY <2>5, <2>6, <2>7 DEF GInv
<1> QED BY <1>2, <1>3, <1>4, <1>5 DEF Network, Net!Network, Net!Connect

LEMMA InvStep == GInv /\ [Next]_vars => GInv'
<1>1. GInv /\ UNCHANGED vars => GInv'
  BY DEF GInv, VerdictInv, SnapshotInv, LevelInv, vars, ctlVars, uiVars, netVars
<1> QED BY <1>1, ControllerKeeps, UIKeeps, NetworkKeeps DEF Next

(* Where CONNECT is fits the event bits, the stage of the UI, what lies in *)
(* wifiQueue and the snapshot CONTROLLER works with.                       *)
THEOREM InvHolds == Spec => []GInv
  BY InvInit, InvStep, PTL DEF Spec

-----------------------------------------------------------------------------
(* The one snapshot CONTROLLER takes of the event group, while UI and      *)
(* CONNECT still set bits, agrees with the final verdict on the network.   *)
THEOREM SnapshotAgrees == Spec => []UplinkKnown
<1>1. GInv => UplinkKnown
  BY BitValues DEF GInv, VerdictInv, SnapshotInv, UplinkKnown, Connects
<1> QED BY <1>1, InvHolds, PTL

(* No sample and no configuration is put where no task is left to take it. *)
THEOREM NothingIsStranded == Spec => []NothingStranded
<1>1. GInv => NothingStranded
  BY BitValues
  DEF GInv, VerdictInv, SnapshotInv, NothingStranded, NoOrphanSamples, NoConfigIgnored, Connects
<1> QED BY <1>1, InvHolds, PTL

-----------------------------------------------------------------------------
(* Each component meets its environment: a step of another task is a step  *)
(* of the environment it was modelled with, or touches nothing it sees.    *)

(* A post with time-out 0 is a post or leaves the queue as it is.          *)
LEMMA OfferCases ==
  ASSUME NEW queue, NEW item
  PROVE  \/ Ui!Offer(queue, item) = queue
         \/ Len(queue) < QUEUE_LENGTH /\ Ui!Offer(queue, item) = Append(queue, item)
  BY DEF Ui!Offer

(* What UI does, as the others see it.                                     *)
LEMMA UISeen ==
  ASSUME GInv, UI
  PROVE  \/ /\ UNCHANGED <<eventGroup, wifiQueue>>
            /\ \/ UNCHANGED controllerQueue
               \/ \E level \in UILevels :
                    /\ Len(controllerQueue) < QUEUE_LENGTH
                    /\ controllerQueue' = Append(controllerQueue, level)
         \/ /\ UNCHANGED <<eventGroup, controllerQueue>>
            /\ \E sentConfig \in Ui!Configs :
                 Len(wifiQueue) < QUEUE_LENGTH /\ wifiQueue' = Append(wifiQueue, sentConfig)
         \/ /\ UNCHANGED <<controllerQueue, wifiQueue>>
            /\ eventGroup \in Downs /\ eventGroup' = {1, 2}
<1>1. CASE Ui!SendConfig \/ Ui!SendDefault
  <2>1. /\ UNCHANGED <<eventGroup, controllerQueue>>
        /\ \E sentConfig \in Ui!Configs : wifiQueue' = Ui!Offer(wifiQueue, sentConfig)
    BY <1>1 DEF Ui!SendConfig, Ui!SendDefault
  <2> QED BY <2>1, OfferCases
<1>2. CASE Ui!PressError
  BY <1>2, BitValues DEF GInv, VerdictInv, Ui!PressError
<1>3. CASE Ui!DefaultLevel \/ Ui!UseSaved
  <2>1. /\ UNCHANGED <<eventGroup, wifiQueue>>
        /\ \E level \in Ui!LevelRead : controllerQueue' = Ui!Offer(controllerQueue, level)
    BY <1>3 DEF Ui!DefaultLevel, Ui!UseSaved, Ui!PostSavedLevel
  <2>2. Ui!LevelRead \subseteq UILevels
    BY LevelsRead DEF GInv
  <2> QED BY <2>1, <2>2, OfferCases
<1>4. CASE Ui!Confirm
  <2>1. /\ UNCHANGED <<eventGroup, wifiQueue>>
        /\ \E level \in UserLevels : controllerQueue' = Ui!Offer(controllerQueue, level)
    BY <1>4 DEF Ui!Confirm
  <2> QED BY <2>1, OfferCases DEF UILevels
<1>5. CASE Ui!CheckBits \/ Ui!SaveSsid \/ Ui!SavePwd \/ Ui!Saved \/ Ui!SaveLevel \/ Ui!StartEdit
  BY <1>5
  DEF Ui!CheckBits, Ui!SaveSsid, Ui!SavePwd, Ui!Saved, Ui!SaveLevel, Ui!StartEdit, Ui!sharedVars
<1> QED BY <1>1, <1>2, <1>3, <1>4, <1>5 DEF UI, Ui!UI, Ui!Automatic, Ui!User

(* What the network tasks do, as the others see it.                        *)
LEMMA NetworkSeen ==
  ASSUME GInv, Network
  PROVE  \/ UNCHANGED <<eventGroup, controllerQueue, cloudQueue, wifiQueue>>
         \/ /\ UNCHANGED <<eventGroup, controllerQueue, cloudQueue>>
            /\ wifiQueue # <<>> /\ wifiQueue' = Tail(wifiQueue)
         \/ /\ UNCHANGED <<controllerQueue, cloudQueue, wifiQueue>>
            /\ stage # "wifi" /\ eventGroup = {} /\ eventGroup' \in {{0}, {1}}
         \/ /\ UNCHANGED <<eventGroup, controllerQueue, wifiQueue>>
            /\ cloudQueue # <<>> /\ cloudQueue' = Tail(cloudQueue)
         \/ /\ UNCHANGED <<eventGroup, cloudQueue, wifiQueue>>
            /\ Len(controllerQueue) < QUEUE_LENGTH
            /\ \E level \in Accepted : controllerQueue' = Append(controllerQueue, level)
<1>1. CASE Net!AwaitConfig \/ Net!Notify
  BY <1>1 DEF Net!AwaitConfig, Net!Notify, Net!sharedVars
<1>2. CASE Net!Join
  BY <1>2, BitValues DEF GInv, VerdictInv, Net!Join
<1>3. CASE Net!ReceiveSample \/ Net!ReadReply \/ Net!ReadCommand \/ Net!PauseOver
  BY <1>3 DEF Net!ReceiveSample, Net!ReadReply, Net!ReadCommand, Net!PauseOver, Net!sharedVars
<1>4. CASE Net!Post
  BY <1>4 DEF GInv, LevelInv, Net!Post, Net!At
<1>5. ASSUME NEW w \in Net!Workers,
             \/ Net!Woken(w) \/ Net!Take(w) \/ Net!Give(w)
             \/ Net!OpenSession(w) \/ Net!Write(w) \/ Net!Disconnect(w)
      PROVE  UNCHANGED <<eventGroup, controllerQueue, cloudQueue, wifiQueue>>
  BY <1>5
  DEF Net!Woken, Net!Take, Net!Give, Net!OpenSession, Net!Write, Net!Disconnect, Net!sharedVars
<1> QED
  BY <1>1, <1>2, <1>3, <1>4, <1>5
  DEF Network, Net!Network, Net!Connect, Net!Send, Net!Read, Net!Workers

(* CONTROLLER, as the others see it.                                       *)
LEMMA ControllerSeen ==
  ASSUME Controller
  PROVE  /\ UNCHANGED <<eventGroup, wifiQueue>>
         /\ \/ UNCHANGED <<controllerQueue, cloudQueue>>
            \/ /\ UNCHANGED cloudQueue
               /\ controllerQueue # <<>> /\ controllerQueue' = Tail(controllerQueue)
            \/ /\ UNCHANGED controllerQueue
               /\ Len(cloudQueue) < QUEUE_LENGTH /\ cloudQueue' = Append(cloudQueue, Ctl!SAMPLE)
  BY DEF Controller, Ctl!Controller, Ctl!Start, Ctl!StartUpOver, Ctl!TakeLevel, Ctl!RoundDue,
         Ctl!Measure, Ctl!Act, Ctl!sharedVars

LEMMA ControllerMet == GInv /\ [Next]_vars => [Ctl!Next]_(Ctl!vars)
<1> SUFFICES ASSUME GInv, [Next]_vars PROVE [Ctl!Next]_(Ctl!vars)
  OBVIOUS
<1> USE DEF Ctl!vars, Ctl!ctlVars, Ctl!sharedVars
<1>1. CASE Controller
  BY <1>1 DEF Controller, Ctl!Next
<1>2. CASE UI
  <2>1. UNCHANGED <<ctlVars, cloudQueue>>
    BY <1>2 DEF UI
  <2>2. (\E level \in UILevels :
           Len(controllerQueue) < QUEUE_LENGTH /\ controllerQueue' = Append(controllerQueue, level))
        /\ UNCHANGED eventGroup => Ctl!EnvPost
    BY <2>1 DEF ctlVars, Ctl!EnvPost
  <2>3. eventGroup \in Downs /\ eventGroup' = {1, 2} /\ UNCHANGED controllerQueue
        => Ctl!EnvSetBits \/ UNCHANGED Ctl!vars
    BY <2>1, BitValues DEF ctlVars, Ctl!EnvSetBits
  <2> QED BY <1>2, <2>1, <2>2, <2>3, UISeen DEF ctlVars, Ctl!Next
<1>3. CASE Network
  <2>1. UNCHANGED ctlVars
    BY <1>3 DEF Network
  <2>2. eventGroup = {} /\ eventGroup' \in {{0}, {1}} /\ UNCHANGED <<controllerQueue, cloudQueue>>
        => Ctl!EnvSetBits
    BY <2>1, BitValues DEF ctlVars, Ctl!EnvSetBits
  <2>3. /\ cloudQueue # <<>>
        /\ cloudQueue' = Tail(cloudQueue)
        /\ UNCHANGED <<eventGroup, controllerQueue>>
        => Ctl!EnvSend
    BY <2>1 DEF ctlVars, Ctl!EnvSend
  <2>4. /\ Len(controllerQueue) < QUEUE_LENGTH
        /\ \E level \in Accepted : controllerQueue' = Append(controllerQueue, level)
        /\ UNCHANGED <<eventGroup, cloudQueue>>
        => Ctl!EnvPost
    BY <2>1 DEF ctlVars, Ctl!EnvPost
  <2> QED BY <1>3, <2>1, <2>2, <2>3, <2>4, NetworkSeen DEF ctlVars, Ctl!Next
<1>4. CASE UNCHANGED vars
  BY <1>4 DEF vars, ctlVars
<1> QED BY <1>1, <1>2, <1>3, <1>4 DEF Next

LEMMA UIMet == GInv /\ [Next]_vars => [Ui!Next]_(Ui!vars)
<1> SUFFICES ASSUME GInv, [Next]_vars PROVE [Ui!Next]_(Ui!vars)
  OBVIOUS
<1> USE DEF Ui!vars, Ui!uiVars, Ui!sharedVars
<1>1. CASE UI
  BY <1>1 DEF UI, Ui!Next
<1>2. CASE Controller
  <2>1. UNCHANGED uiVars
    BY <1>2 DEF Controller
  <2>2. controllerQueue # <<>> /\ controllerQueue' = Tail(controllerQueue)
        /\ UNCHANGED <<eventGroup, wifiQueue>> => Ui!EnvControllerQueue
    BY <2>1 DEF uiVars, Ui!EnvControllerQueue
  <2> QED BY <1>2, <2>1, <2>2, ControllerSeen DEF uiVars, Ui!Next
<1>3. CASE Network
  <2>1. UNCHANGED uiVars
    BY <1>3 DEF Network
  <2>2. /\ wifiQueue # <<>>
        /\ wifiQueue' = Tail(wifiQueue)
        /\ UNCHANGED <<eventGroup, controllerQueue>>
        => Ui!EnvTakeConfig
    BY <2>1 DEF uiVars, Ui!EnvTakeConfig
  <2>3. stage # "wifi" /\ eventGroup = {} /\ eventGroup' \in {{0}, {1}}
        /\ UNCHANGED <<controllerQueue, wifiQueue>> => Ui!EnvSetBits
    BY <2>1, BitValues DEF uiVars, Ui!EnvSetBits
  <2>4. /\ Len(controllerQueue) < QUEUE_LENGTH
        /\ \E level \in Accepted : controllerQueue' = Append(controllerQueue, level)
        /\ UNCHANGED <<eventGroup, wifiQueue>>
        => Ui!EnvControllerQueue
    BY <2>1 DEF uiVars, Ui!EnvControllerQueue
  <2> QED BY <1>3, <2>1, <2>2, <2>3, <2>4, NetworkSeen DEF uiVars, Ui!Next
<1>4. CASE UNCHANGED vars
  BY <1>4 DEF vars, uiVars
<1> QED BY <1>1, <1>2, <1>3, <1>4 DEF Next

LEMMA NetworkMet == GInv /\ [Next]_vars => [Net!Next]_(Net!vars)
<1> SUFFICES ASSUME GInv, [Next]_vars PROVE [Net!Next]_(Net!vars)
  OBVIOUS
<1> USE DEF Net!vars, Net!netVars, Net!sharedVars
<1>1. CASE Network
  BY <1>1 DEF Network, Net!Next
<1>2. CASE Controller
  <2>1. UNCHANGED netVars
    BY <1>2 DEF Controller
  <2>2. controllerQueue # <<>> /\ controllerQueue' = Tail(controllerQueue)
        /\ UNCHANGED <<eventGroup, wifiQueue, cloudQueue>> => Net!EnvTake
    BY <2>1 DEF netVars, Net!EnvTake
  <2>3. Len(cloudQueue) < QUEUE_LENGTH /\ cloudQueue' = Append(cloudQueue, Ctl!SAMPLE)
        /\ UNCHANGED <<eventGroup, wifiQueue, controllerQueue>> => Net!EnvSample
    BY <2>1 DEF netVars, Net!EnvSample
  <2> QED BY <1>2, <2>1, <2>2, <2>3, ControllerSeen DEF netVars, Net!Next, Net!Environment
<1>3. CASE UI
  <2>1. UNCHANGED <<netVars, cloudQueue>>
    BY <1>3 DEF UI
  <2>2. (\E level \in UILevels :
           Len(controllerQueue) < QUEUE_LENGTH /\ controllerQueue' = Append(controllerQueue, level))
        /\ UNCHANGED <<eventGroup, wifiQueue>> => Net!EnvPost
    BY <2>1 DEF netVars, Net!EnvPost
  <2>3. (\E sentConfig \in Ui!Configs :
           Len(wifiQueue) < QUEUE_LENGTH /\ wifiQueue' = Append(wifiQueue, sentConfig))
        /\ UNCHANGED <<eventGroup, controllerQueue>> => Net!EnvConfig
    BY <2>1 DEF netVars, Net!EnvConfig, Ui!Configs
  <2>4. eventGroup \in Downs /\ eventGroup' = {1, 2} /\ UNCHANGED <<controllerQueue, wifiQueue>>
        => Net!EnvOffline
    BY <2>1, BitValues DEF netVars, Net!EnvOffline
  <2> QED BY <1>3, <2>1, <2>2, <2>3, <2>4, UISeen DEF netVars, Net!Next, Net!Environment
<1>4. CASE UNCHANGED vars
  BY <1>4 DEF vars, netVars
<1> QED BY <1>1, <1>2, <1>3, <1>4 DEF Next

(* In the program each task sees only what it was modelled and checked     *)
(* with: what is shown of CONTROLLER, UI and the network tasks alone holds *)
(* of them together, for all names, levels and commands.                   *)
THEOREM EnvironmentsAreMet == Spec => EnvironmentsMet
<1>1. Init => Ctl!Init /\ Ui!Init /\ Net!Init
  BY DEF Init
<1>2. Spec => Ctl!Spec
  BY <1>1, InvHolds, ControllerMet, PTL DEF Spec, Ctl!Spec
<1>3. Spec => Ui!Spec
  BY <1>1, InvHolds, UIMet, PTL DEF Spec, Ui!Spec
<1>4. Spec => Net!Spec
  BY <1>1, InvHolds, NetworkMet, PTL DEF Spec, Net!Spec
<1> QED
  BY <1>2, <1>3, <1>4
  DEF EnvironmentsMet, ControllerInItsEnvironment, UIInItsEnvironment, NetworkInItsEnvironment

-----------------------------------------------------------------------------
(* What was proved of the network tasks alone, in the program.             *)
NetP == INSTANCE ThingSpeak_proofs WITH
  Configs <- [ssid : Fields, pwd : Fields], Samples <- {Ctl!SAMPLE}, Setpoints <- Commands

(* Both instances are of the same module.                                  *)
LEMMA SameInit == Net!Init => NetP!Init
  BY DEF Net!Init, NetP!Init, Net!Workers, NetP!Workers, Net!SEND, NetP!SEND, Net!READ, NetP!READ,
         Net!Nobody, NetP!Nobody, Net!NoConfig, NetP!NoConfig

LEMMA SameNext == [Net!Next]_(Net!vars) => [NetP!Next]_(NetP!vars)
  BY DEF
    Net!Next, Net!vars, Net!netVars, Net!sharedVars, Net!Network, Net!Environment, Net!Connect,
    Net!Send, Net!Read, Net!EnvConfig, Net!EnvOffline, Net!EnvSample, Net!EnvPost, Net!EnvTake,
    Net!AwaitConfig, Net!Join, Net!Notify, Net!ReceiveSample, Net!ReadReply, Net!ReadCommand,
    Net!Post, Net!PauseOver, Net!Woken, Net!Take, Net!OpenSession, Net!Write, Net!Disconnect,
    Net!Give, Net!At, Net!GotoW, Net!SEND, Net!READ, Net!Nobody, Net!Accept, Net!Accepted,
    Net!EVENT_BIT_0, Net!EVENT_BIT_1, Net!EVENT_BIT_2,
    NetP!Next, NetP!vars, NetP!netVars, NetP!sharedVars, NetP!Network, NetP!Environment,
    NetP!Connect, NetP!Send, NetP!Read, NetP!EnvConfig, NetP!EnvOffline, NetP!EnvSample,
    NetP!EnvPost, NetP!EnvTake, NetP!AwaitConfig, NetP!Join, NetP!Notify, NetP!ReceiveSample,
    NetP!ReadReply, NetP!ReadCommand, NetP!Post, NetP!PauseOver, NetP!Woken, NetP!Take,
    NetP!OpenSession, NetP!Write, NetP!Disconnect, NetP!Give, NetP!At, NetP!GotoW, NetP!SEND,
    NetP!READ, NetP!Nobody, NetP!Accept, NetP!Accepted, NetP!EVENT_BIT_0, NetP!EVENT_BIT_1,
    NetP!EVENT_BIT_2

LEMMA NetworkProved == Spec => NetP!Spec
<1>1. Init => NetP!Init
  BY SameInit DEF Init
<1>2. GInv /\ [Next]_vars => [NetP!Next]_(NetP!vars)
  BY NetworkMet, SameNext
<1> QED BY <1>1, <1>2, InvHolds, PTL DEF Spec, NetP!Spec

(* With CONTROLLER and UI on the same queues and event group, a session    *)
(* still belongs to the worker that holds the mutex.                       *)
THEOREM SystemSessionsExclusive == Spec => []SessionExclusive
<1>1. NetP!SessionExclusive => SessionExclusive
  BY DEF NetP!SessionExclusive, SessionExclusive, Net!SessionExclusive, NetP!Workers, Net!Workers,
         NetP!InSession, Net!InSession, NetP!SEND, Net!SEND, NetP!READ, Net!READ, NetP!Nobody,
         Net!Nobody
<1>2. NetP!Spec => []NetP!SessionExclusive
  BY NetP!SessionsAreExclusive
<1> QED BY <1>1, <1>2, NetworkProved, PTL

(* And no worker runs without an uplink: the bits that UI sets do not      *)
(* disturb the verdict.                                                    *)
THEOREM SystemWorkersHaveUplink == Spec => []WorkersNeedUplink
<1>1. NetP!NoConfig \notin [ssid : Fields, pwd : Fields]
  <2>1. \A record \in [ssid : Fields, pwd : Fields] : DOMAIN record = {"ssid", "pwd"}
    OBVIOUS
  <2>2. DOMAIN NetP!NoConfig = {}
    BY DEF NetP!NoConfig
  <2> QED BY <2>1, <2>2
<1>2. NetP!Spec => []NetP!WorkersNeedUplink
  BY <1>1, NetP!WorkersHaveUplink
<1>3. NetP!WorkersNeedUplink => WorkersNeedUplink
  BY DEF NetP!WorkersNeedUplink, WorkersNeedUplink, Net!WorkersNeedUplink, NetP!Workers,
         Net!Workers, NetP!SEND, Net!SEND, NetP!READ, Net!READ, NetP!NoConfig, Net!NoConfig,
         NetP!EVENT_BIT_0, Net!EVENT_BIT_0, NetP!EVENT_BIT_1, Net!EVENT_BIT_1
<1> QED BY <1>2, <1>3, NetworkProved, PTL

-----------------------------------------------------------------------------
(* The EEPROM.  Between the choice of a configuration and its two writes   *)
(* CONNECT has taken that same configuration from the queue.               *)
EepromFields == Fields \cup BootFields \cup {BAD}
JoinInv ==
  /\ savedConfig \in [ssid : EepromFields, pwd : EepromFields]
  /\ stage # "wifi" => config \in Ui!Configs
  /\ connectPc = "await_config" /\ wifiQueue # <<>> => wifiQueue = <<config>>
  /\ connectPc # "await_config" => joined = config
  /\ stage \in {"save_ssid", "save_pwd"} => connectPc # "await_config"

LEMMA JoinInit == Init => JoinInv
<1> SUFFICES ASSUME Init PROVE JoinInv
  OBVIOUS
<1>1. savedConfig \in [ssid : BootFields, pwd : BootFields] /\ stage = "wifi" /\ wifiQueue = <<>>
  BY DEF Init, Ui!Init
<1>2. connectPc = "await_config"
  BY DEF Init, Net!Init
<1> QED BY <1>1, <1>2 DEF JoinInv, EepromFields

LEMMA JoinUI == GInv /\ JoinInv /\ UI => JoinInv'
<1> SUFFICES ASSUME GInv, JoinInv, UI PROVE JoinInv'
  OBVIOUS
<1>1. UNCHANGED <<connectPc, joined>>
  BY DEF UI, netVars
<1>2. CASE Ui!SendConfig \/ Ui!SendDefault
  <2>1. /\ stage = "wifi" /\ stage' \in {"connecting", "default_check"} /\ config' \in Ui!Configs
        /\ wifiQueue' = Ui!Offer(wifiQueue, config') /\ UNCHANGED savedConfig
    BY <1>2 DEF Ui!SendConfig, Ui!SendDefault
  <2>2. wifiQueue' = <<config'>> /\ connectPc = "await_config"
    BY <2>1, QueueAssumption DEF GInv, VerdictInv, Ui!Offer
  <2> QED BY <1>1, <2>1, <2>2 DEF JoinInv
<1>3. CASE Ui!CheckBits
  <2>1. stage' = "save_ssid" => connectPc # "await_config"
    BY <1>3, BitValues DEF GInv, VerdictInv, Ui!CheckBits, Ui!Up
  <2>2. stage # "wifi" /\ stage' # "save_pwd" /\ UNCHANGED <<config, savedConfig, wifiQueue>>
    BY <1>3 DEF Ui!CheckBits, Ui!sharedVars
  <2> QED BY <1>1, <2>1, <2>2 DEF JoinInv
<1>4. CASE Ui!SaveSsid \/ Ui!SavePwd
  <2>1. /\ stage \in {"save_ssid", "save_pwd"} /\ stage' \in {"save_pwd", "saved"}
        /\ UNCHANGED <<config, wifiQueue>>
    BY <1>4 DEF Ui!SaveSsid, Ui!SavePwd, Ui!sharedVars
  <2>2. config \in Ui!Configs
    BY <2>1 DEF JoinInv
  <2>3. savedConfig' \in [ssid : EepromFields, pwd : EepromFields]
    BY <1>4, <2>2 DEF JoinInv, EepromFields, Ui!Configs, Ui!SaveSsid, Ui!SavePwd
  <2> QED BY <1>1, <2>1, <2>3 DEF JoinInv
<1>5. CASE \/ Ui!Saved \/ Ui!DefaultLevel \/ Ui!SaveLevel
           \/ Ui!PressError \/ Ui!UseSaved \/ Ui!StartEdit \/ Ui!Confirm
  <2>1. /\ UNCHANGED <<config, savedConfig, wifiQueue>>
        /\ stage # "wifi" /\ stage' \notin {"save_ssid", "save_pwd"}
    BY <1>5
    DEF Ui!Saved, Ui!DefaultLevel, Ui!SaveLevel, Ui!PressError, Ui!UseSaved, Ui!StartEdit,
        Ui!Confirm, Ui!sharedVars
  <2> QED BY <1>1, <2>1 DEF JoinInv
<1> QED BY <1>2, <1>3, <1>4, <1>5 DEF UI, Ui!UI, Ui!Automatic, Ui!User

LEMMA JoinNetwork == GInv /\ JoinInv /\ Network => JoinInv'
<1> SUFFICES ASSUME GInv, JoinInv, Network PROVE JoinInv'
  OBVIOUS
<1>1. UNCHANGED <<stage, config, savedConfig>>
  BY DEF Network, uiVars
<1>2. CASE Net!AwaitConfig
  <2>1. /\ connectPc = "await_config" /\ connectPc' = "join" /\ wifiQueue # <<>>
        /\ joined' = Head(wifiQueue)
    BY <1>2 DEF Net!AwaitConfig
  <2>2. joined' = config
    BY <2>1 DEF JoinInv
  <2> QED BY <1>1, <2>1, <2>2 DEF JoinInv
<1>3. CASE Net!Join \/ Net!Notify
  <2>1. connectPc # "await_config" /\ connectPc' # "await_config" /\ UNCHANGED joined
    BY <1>3 DEF Net!Join, Net!Notify
  <2> QED BY <1>1, <2>1 DEF JoinInv
<1>4. CASE Net!Send \/ Net!Read
  <2>1. UNCHANGED <<connectPc, joined, wifiQueue>>
    BY <1>4
    DEF Net!Send, Net!Read, Net!ReceiveSample, Net!ReadReply, Net!Woken, Net!Take,
        Net!OpenSession, Net!Write, Net!Disconnect, Net!Give, Net!ReadCommand, Net!Post,
        Net!PauseOver, Net!sharedVars
  <2> QED BY <1>1, <2>1 DEF JoinInv
<1> QED BY <1>2, <1>3, <1>4 DEF Network, Net!Network, Net!Connect

LEMMA JoinStep == GInv /\ JoinInv /\ [Next]_vars => JoinInv'
<1>1. JoinInv /\ Controller => JoinInv'
  BY ControllerSeen DEF Controller, uiVars, netVars, JoinInv
<1>2. JoinInv /\ UNCHANGED vars => JoinInv'
  BY DEF vars, uiVars, netVars, JoinInv
<1> QED BY <1>1, <1>2, JoinUI, JoinNetwork DEF Next

(* The EEPROM is written with nothing but the configuration the network    *)
(* was joined with, field by field, or is left with a bad checksum.        *)
THEOREM EepromHoldsJoined == Spec => SavedWasJoined
<1> DEFINE saved ==
      /\ savedConfig'.ssid # savedConfig.ssid => savedConfig'.ssid \in {joined.ssid, BAD}
      /\ savedConfig'.pwd # savedConfig.pwd => savedConfig'.pwd \in {joined.pwd, BAD}
<1>1. ASSUME JoinInv, Ui!SaveSsid
      PROVE  saved
  <2>1. joined = config /\ savedConfig \in [ssid : EepromFields, pwd : EepromFields]
    BY <1>1 DEF JoinInv, Ui!SaveSsid
  <2>2. PICK field \in {config.ssid, savedConfig.ssid, BAD} :
          savedConfig' = [savedConfig EXCEPT !.ssid = field]
    BY <1>1 DEF Ui!SaveSsid
  <2> QED BY <2>1, <2>2
<1>2. ASSUME JoinInv, Ui!SavePwd
      PROVE  saved
  <2>1. joined = config /\ savedConfig \in [ssid : EepromFields, pwd : EepromFields]
    BY <1>2 DEF JoinInv, Ui!SavePwd
  <2>2. PICK field \in {config.pwd, savedConfig.pwd, BAD} :
          savedConfig' = [savedConfig EXCEPT !.pwd = field]
    BY <1>2 DEF Ui!SavePwd
  <2> QED BY <2>1, <2>2
<1>3. ASSUME Next, ~Ui!SaveSsid, ~Ui!SavePwd
      PROVE  UNCHANGED savedConfig
  BY <1>3
  DEF Next, Controller, Network, uiVars, UI, Ui!UI, Ui!Automatic, Ui!User, Ui!SendConfig,
      Ui!SendDefault, Ui!CheckBits, Ui!Saved, Ui!DefaultLevel, Ui!SaveLevel, Ui!PressError,
      Ui!UseSaved, Ui!StartEdit, Ui!Confirm
<1>4. JoinInv /\ [Next]_vars => [saved]_vars
  BY <1>1, <1>2, <1>3
<1>5. Spec => []JoinInv
  BY JoinInit, JoinStep, InvHolds, PTL DEF Spec
<1> QED BY <1>4, <1>5, PTL DEF Spec, SavedWasJoined
-----------------------------------------------------------------------------
(* The types of the program.  The setpoint in force was posted by UI or    *)
(* READ, or is the default.                                                *)
Levels == Accepted \cup UILevels
SetpointInv == co2Level \in Levels /\ controllerQueue \in Seq(Levels)

LEMMA SetpointStep == GInv /\ SetpointInv /\ [Next]_vars => SetpointInv'
<1> SUFFICES ASSUME GInv, SetpointInv, [Next]_vars PROVE SetpointInv'
  OBVIOUS
<1>1. controllerQueue # <<>> =>
        Head(controllerQueue) \in Levels /\ Tail(controllerQueue) \in Seq(Levels)
  BY HeadTailProperties DEF SetpointInv
<1>2. \A level \in Levels : Append(controllerQueue, level) \in Seq(Levels)
  BY AppendProperties DEF SetpointInv
<1>3. CASE Controller
  <2>1. \/ UNCHANGED <<co2Level, controllerQueue>>
        \/ /\ controllerQueue # <<>>
           /\ co2Level' = Head(controllerQueue) /\ controllerQueue' = Tail(controllerQueue)
    BY <1>3
    DEF Controller, Ctl!Controller, Ctl!Start, Ctl!StartUpOver, Ctl!TakeLevel, Ctl!RoundDue,
        Ctl!Measure, Ctl!Act, Ctl!sharedVars
  <2> QED BY <1>1, <2>1 DEF SetpointInv
<1>4. CASE UI \/ Network
  <2>1. UNCHANGED co2Level
    BY <1>4 DEF UI, Network, ctlVars
  <2>2. \/ UNCHANGED controllerQueue
        \/ \E level \in Levels : controllerQueue' = Append(controllerQueue, level)
    BY <1>4, UISeen, NetworkSeen DEF Levels
  <2> QED BY <1>2, <2>1, <2>2 DEF SetpointInv
<1>5. CASE UNCHANGED vars
  BY <1>5 DEF vars, ctlVars, SetpointInv
<1> QED BY <1>3, <1>4, <1>5 DEF Next

(* Every variable of the program keeps its type.  No queue outgrows its    *)
(* length though several tasks post to one, and every setpoint on its way  *)
(* to the controller, or in force, is in the range the tasks accept.       *)
THEOREM ProgramTyped == Spec => []TypeOK
<1>1. Init => SetpointInv
  BY EmptySeq DEF Init, Ctl!Init, SetpointInv, Levels, UILevels, DEFAULT_LEVEL, Ctl!DEFAULT_LEVEL
<1>2. Spec => []SetpointInv
  BY <1>1, SetpointStep, InvHolds, PTL DEF Spec
<1>3. Spec => []NetP!TypeOK
  <2>1. QUEUE_LENGTH \in Nat /\ UILevels \subseteq NetP!Accepted
    BY QueueAssumption, LevelsAssumption DEF UILevels, DEFAULT_LEVEL, NetP!Accepted
  <2>2. NetP!Spec => []NetP!TypeOK
    BY <2>1, NetP!NetworkTyped
  <2> QED BY <2>2, NetworkProved, PTL
<1>4. NetP!TypeOK => Net!TypeOK
  BY DEF NetP!TypeOK, Net!TypeOK, NetP!Workers, Net!Workers, NetP!WorkerPoints, Net!WorkerPoints,
         NetP!InSession, Net!InSession, NetP!SEND, Net!SEND, NetP!READ, Net!READ, NetP!Nobody,
         Net!Nobody, NetP!NoConfig, Net!NoConfig, NetP!Accepted, Net!Accepted,
         NetP!EVENT_BIT_0, Net!EVENT_BIT_0, NetP!EVENT_BIT_1, Net!EVENT_BIT_1,
         NetP!EVENT_BIT_2, Net!EVENT_BIT_2
<1>5. GInv /\ SetpointInv /\ Net!TypeOK => TypeOK
  BY DEF GInv, VerdictInv, SnapshotInv, SetpointInv, Phases, Levels, TypeOK
<1> QED BY <1>2, <1>3, <1>4, <1>5, InvHolds, PTL
=============================================================================
