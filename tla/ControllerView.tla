--------------------------- MODULE ControllerView ---------------------------
(***************************************************************************)
(* What the CONTROLLER task promises to the other tasks: it starts when    *)
(* the network is up or the user goes on without, waits for a first        *)
(* setpoint, and from then on takes setpoints in the order they were       *)
(* posted and sends a sample per round to the cloud, if the network was up *)
(* when it started.  CO2Controller implements this, and Greenhouse         *)
(* composes it with the other tasks.                                       *)
(***************************************************************************)
EXTENDS Integers, Sequences

CONSTANTS
  Setpoints,     \* the setpoints that are posted
  QUEUE_LENGTH   \* length of the queues (main.cpp: 3)

DEFAULT_LEVEL == 1200

EVENT_BIT_0 == 0
EVENT_BIT_1 == 1
EVENT_BIT_2 == 2
StartBits == {EVENT_BIT_0, EVENT_BIT_2}

SAMPLE == "sample"   \* what is in a sample matters to no other task

VARIABLES
  phase,      \* "wait", "start_up", "first", "measure", "act" or "idle"
  co2Level,   \* the setpoint in force
  eventBits,  \* what the event group held when the task started
  eventGroup, controllerQueue, cloudQueue   \* shared

ctlVars == <<phase, co2Level, eventBits>>
sharedVars == <<eventGroup, controllerQueue, cloudQueue>>
vars == <<ctlVars, sharedVars>>

Init ==
  /\ phase = "wait"
  /\ co2Level = DEFAULT_LEVEL
  /\ eventBits = {}
  /\ eventGroup = {}
  /\ controllerQueue = <<>>
  /\ cloudQueue = <<>>

\* Slip: the task starts without waiting for the network or the user.
StartAtOnce ==
  /\ phase = "wait"
  /\ phase' = "start_up"
  /\ eventBits' = eventGroup
  /\ UNCHANGED <<co2Level, sharedVars>>

Start ==
  /\ phase = "wait"
  /\ eventGroup \cap StartBits # {}
  /\ phase' = "start_up"
  /\ eventBits' = eventGroup
  /\ UNCHANGED <<co2Level, sharedVars>>

StartUpOver ==
  /\ phase = "start_up"
  /\ phase' = "first"
  /\ UNCHANGED <<co2Level, eventBits, sharedVars>>

\* Slip: setpoints are taken at the start only.
TakeLevelOnce ==
  /\ phase = "first"
  /\ controllerQueue # <<>>
  /\ co2Level' = Head(controllerQueue)
  /\ controllerQueue' = Tail(controllerQueue)
  /\ phase' = "measure"
  /\ UNCHANGED <<eventBits, eventGroup, cloudQueue>>

TakeLevel ==
  /\ phase \in {"first", "idle"}
  /\ controllerQueue # <<>>
  /\ co2Level' = Head(controllerQueue)
  /\ controllerQueue' = Tail(controllerQueue)
  /\ phase' = "measure"
  /\ UNCHANGED <<eventBits, eventGroup, cloudQueue>>

RoundDue ==
  /\ phase = "idle"
  /\ controllerQueue = <<>>
  /\ phase' = "measure"
  /\ UNCHANGED <<co2Level, eventBits, sharedVars>>

\* Slip: the connection is not asked for.
MeasureAndSend ==
  /\ phase = "measure"
  /\ phase' = "act"
  /\ Len(cloudQueue) < QUEUE_LENGTH
  /\ cloudQueue' = Append(cloudQueue, SAMPLE)
  /\ UNCHANGED <<co2Level, eventBits, eventGroup, controllerQueue>>

\* A sample is sent if the readings are accurate, and dropped if the queue is full.
Measure ==
  /\ phase = "measure"
  /\ phase' = "act"
  /\ \/ UNCHANGED cloudQueue
     \/ /\ EVENT_BIT_0 \in eventBits
        /\ Len(cloudQueue) < QUEUE_LENGTH
        /\ cloudQueue' = Append(cloudQueue, SAMPLE)
  /\ UNCHANGED <<co2Level, eventBits, eventGroup, controllerQueue>>

Act ==
  /\ phase = "act"
  /\ phase' = "idle"
  /\ UNCHANGED <<co2Level, eventBits, sharedVars>>

Controller == Start \/ StartUpOver \/ TakeLevel \/ RoundDue \/ Measure \/ Act

\* What it assumes of the other tasks: one verdict on the network, bit 2 only
\* after a bad one.
EnvSetBits ==
  /\ \/ eventGroup = {} /\ \E bit \in {EVENT_BIT_0, EVENT_BIT_1} : eventGroup' = {bit}
     \/ eventGroup = {EVENT_BIT_1} /\ eventGroup' = {EVENT_BIT_1, EVENT_BIT_2}
  /\ UNCHANGED <<ctlVars, controllerQueue, cloudQueue>>

EnvPost ==
  /\ Len(controllerQueue) < QUEUE_LENGTH
  /\ \E level \in Setpoints : controllerQueue' = Append(controllerQueue, level)
  /\ UNCHANGED <<ctlVars, eventGroup, cloudQueue>>

EnvSend ==
  /\ cloudQueue # <<>>
  /\ cloudQueue' = Tail(cloudQueue)
  /\ UNCHANGED <<ctlVars, eventGroup, controllerQueue>>

Next == Controller \/ EnvSetBits \/ EnvPost \/ EnvSend

Spec == Init /\ [][Next]_vars
\* It takes setpoints and measures for ever.
FairSpec == Spec /\ WF_vars(Controller)
=============================================================================
