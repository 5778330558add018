----------------------------- MODULE Greenhouse -----------------------------
(***************************************************************************)
(* The whole program: main.cpp creates four queues, an event group and the *)
(* tasks CONTROLLER, UI, CONNECT, SEND and READ.  CONTROLLER and UI appear *)
(* as the views that CO2Controller and UITask are shown to implement       *)
(* (ImplementsFairView in both), the network tasks as they are in          *)
(* ThingSpeak.  One step of the system is one step of one task.            *)
(***************************************************************************)
EXTENDS Integers, Sequences

CONSTANTS
  Fields, BAD, BootFields,   \* Wi-Fi names and passwords, see UIView
  BootLevels, UserLevels,    \* levels in the EEPROM and levels the user can enter
  Commands,                  \* setpoints TalkBack can answer
  QUEUE_LENGTH               \* length of the queues (main.cpp: 3)

NoConfig == <<>>
DEFAULT_LEVEL == 1200
Accepted == Commands \cap 0 .. 1500
UILevels == BootLevels \cup UserLevels \cup {DEFAULT_LEVEL}

ASSUME LevelsAssumption ==
  BootLevels \subseteq 0 .. 1500 /\ UserLevels \subseteq 0 .. 1500 /\ Commands \subseteq Int
ASSUME QueueAssumption == QUEUE_LENGTH \in Nat \ {0}

VARIABLES
  phase, co2Level, eventBits,                                       \* CONTROLLER
  stage, config, checkDefault, currentSetpoint, savedLevel, savedConfig,   \* UI
  connectPc, workerPc, notified, joined, ipstack_mtx, session, command,   \* network
  eventGroup, controllerQueue, cloudQueue, wifiQueue

ctlVars == <<phase, co2Level, eventBits>>
uiVars == <<stage, config, checkDefault, currentSetpoint, savedLevel, savedConfig>>
netVars == <<connectPc, workerPc, notified, joined, ipstack_mtx, session, command>>
vars == <<ctlVars, uiVars, netVars, eventGroup, controllerQueue, cloudQueue, wifiQueue>>

Ctl == INSTANCE ControllerView WITH Setpoints <- Accepted \cup UILevels
Ui == INSTANCE UIView WITH EnvLevels <- Accepted
Net == INSTANCE ThingSpeak WITH
  Configs <- [ssid : Fields, pwd : Fields], Samples <- {Ctl!SAMPLE}, Setpoints <- Commands

Init == Ctl!Init /\ Ui!Init /\ Net!Init

Controller == Ctl!Controller /\ UNCHANGED <<uiVars, netVars, wifiQueue>>

UI == Ui!UI /\ UNCHANGED <<ctlVars, netVars, cloudQueue>>

Network == Net!Network /\ UNCHANGED <<ctlVars, uiVars>>

Next == Controller \/ UI \/ Network

Spec == Init /\ [][Next]_vars

(* The scheduler runs ready tasks; nothing is assumed of the user.  Taking *)
(* the mutex is strongly fair: READ pauses for 10 s after each session and *)
(* SEND gets at most one sample per round.  Post is strongly fair because  *)
(* UI can take the room it waits for; the queue serves a waiting sender    *)
(* first.                                                                  *)
Fairness ==
  /\ WF_vars(Controller)
  /\ WF_vars(Ui!Automatic /\ UI)
  /\ WF_vars(Net!Connect /\ Network)
  /\ WF_vars(Net!Send /\ Network)
  /\ WF_vars(Net!Read /\ Network)
  /\ SF_vars(Net!Take(Net!SEND) /\ Network)
  /\ SF_vars(Net!Take(Net!READ) /\ Network)
  /\ SF_vars(Net!Post /\ Network)

FairSpec == Spec /\ Fairness

-----------------------------------------------------------------------------
(* Each component meets in the others the environment it was modelled and  *)
(* checked with.                                                           *)

(* CONTROLLER: bits are set once, bit 2 only after bit 1.                  *)
ControllerInItsEnvironment == Ctl!Spec
(* UI: the verdict on the network comes after the configuration.           *)
UIInItsEnvironment == Ui!Spec
(* The network tasks: UI sets nothing but bit 2, and only after bit 1.     *)
NetworkInItsEnvironment == Net!Spec

\* Together: none of the five tasks is ever in a situation it was not checked in.
EnvironmentsMet ==
  ControllerInItsEnvironment /\ UIInItsEnvironment /\ NetworkInItsEnvironment

\* Type invariant (the types of a component are checked with it).
TypeOK ==
  /\ phase \in {"wait", "start_up", "first", "measure", "act", "idle"}
  /\ stage \in Ui!Stages
  /\ co2Level \in Accepted \cup UILevels
  /\ eventBits \subseteq eventGroup
  /\ Net!TypeOK

(* A session belongs to the worker that holds the mutex: no step of the    *)
(* other worker, on any path through failures, touches a live connection.  *)
SessionExclusive == Net!SessionExclusive

(* SEND and READ use the IPStack only after CONNECT constructed it and     *)
(* found the interface up: they copy the pointer when they are woken.      *)
WorkersNeedUplink == Net!WorkersNeedUplink

(* The snapshot of the event group that decides for ever whether samples   *)
(* go to the cloud is taken once, while UI and CONNECT still set bits; it  *)
(* agrees with the final verdict on the network.                           *)
UplinkKnown ==
  phase # "wait" =>
    (Ctl!EVENT_BIT_0 \in eventBits <=> Ctl!EVENT_BIT_0 \in eventGroup /\ connectPc # "suspended")

(* Nothing is sent to the cloud that no task will ever take.               *)
NoOrphanSamples == cloudQueue # <<>> => connectPc \in {"notify_read", "notify_send", "deleted"}

(* The EEPROM ends up with the configuration the network was joined with,  *)
(* field by field, whatever other configuration the UI handles meanwhile.  *)
SavedWasJoined ==
  [][/\ savedConfig'.ssid # savedConfig.ssid => savedConfig'.ssid \in {joined.ssid, BAD}
     /\ savedConfig'.pwd # savedConfig.pwd => savedConfig'.pwd \in {joined.pwd, BAD}]_vars

(* The queue of configurations is CONNECT's alone and it takes one: after  *)
(* that none may be left in it, or a choice of the user would be ignored.  *)
NoConfigIgnored == connectPc # "await_config" => wifiQueue = <<>>

\* Neither of the two queues holds what no task is left to take.
NothingStranded == NoOrphanSamples /\ NoConfigIgnored

(* READ waits for room in controllerQueue with the network mutex in hand,  *)
(* and CONTROLLER, through warm-up and rounds, makes that room.            *)
PostEnds == Net!At(Net!READ, "post") ~> Net!At(Net!READ, "pause")

(* SEND's sample gets its session while READ polls.                        *)
SendGetsSession == Net!At(Net!SEND, "take") ~> Net!At(Net!SEND, "connect")

\* Neither worker holds up the other for good.
WorkersProceed == PostEnds /\ SendGetsSession

(* A boot nobody attends controls the greenhouse if the network comes up.  *)
UnattendedOnline ==
  checkDefault /\ Ctl!EVENT_BIT_0 \in eventGroup ~> phase = "measure"

(* The comment at the start menu's time-out: "if power loss, able to       *)
(* recover itself".                                                        *)
UnattendedRecovers == checkDefault ~> phase = "measure"
=============================================================================
