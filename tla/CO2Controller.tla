--------------------------- MODULE CO2Controller ---------------------------
(***************************************************************************)
(* The CONTROLLER task of src/controller/CO2Controller.cpp together with   *)
(* its one-shot valve timer and the two actuators it drives.               *)
(*                                                                         *)
(* The task runs at priority 1, the timer daemon at the highest priority   *)
(* of a single core: once the valve timer is due its callback runs before  *)
(* the task takes another step (TimerDue guards Task).  A step of the task *)
(* is what it does between two points where it can be descheduled with     *)
(* visible effect: a Modbus transaction, a delay, a queue call, the valve  *)
(* pin, the timer call.  The mutex "guard" is taken by this task only, so  *)
(* it never blocks and is left out.  Values of temperature and humidity    *)
(* matter only for being 0.0 or not.                                       *)
(*                                                                         *)
(* The event group and the queues are shared with other tasks; this module *)
(* gives them the most general environment (the Env... actions) that the   *)
(* other tasks can present; Greenhouse.tla shows that the real ones do.    *)
(***************************************************************************)
EXTENDS Integers, Sequences

CONSTANTS
  Readings,            \* values the CO2 register can read as; 0 is a failed read
  Setpoints,           \* values that are posted to controllerQueue
  QUEUE_LENGTH,        \* length of the three queues (main.cpp: 3)
  VALVE_OPEN_TIME,     \* 1500 ms, in ticks of the model, like all times below
  CO2_WARM_UP_TIME,    \* 12000 ms
  PROBE_DELAY,         \* 2000 ms between two probes of the sensor
  START_UP_MAX_TIME,   \* 180000 ms
  measuringInterval    \* 30000 ms

ASSUME ReadingsAssumption == Readings \subseteq Nat /\ 0 \in Readings
ASSUME SetpointsAssumption == Setpoints \subseteq Nat
ASSUME QueueAssumption == QUEUE_LENGTH \in Nat \ {0}
ASSUME TimesAssumption ==
  /\ VALVE_OPEN_TIME \in Nat \ {0}
  /\ CO2_WARM_UP_TIME \in Nat
  /\ PROBE_DELAY \in Nat \ {0}
  /\ START_UP_MAX_TIME \in Nat
  /\ measuringInterval \in Nat
  /\ VALVE_OPEN_TIME < measuringInterval

DEFAULT_LEVEL == 1200   \* CO2Controller.h: float co2Level = 1200
HYSTERESIS == 40        \* the valve opens at co2Level - 40
FAN_LIMIT == 2000       \* the fan runs from 2000 ppm
FAN_ON_MAX == 1000      \* the speed register of the fan at 100 %

EVENT_BIT_0 == 0        \* cloud connected
EVENT_BIT_1 == 1        \* cloud not connected
EVENT_BIT_2 == 2        \* the user goes on without a connection
EventBits == {EVENT_BIT_0, EVENT_BIT_1, EVENT_BIT_2}
StartBits == {EVENT_BIT_0, EVENT_BIT_2}

Dormant == -1           \* a timer that is not running

VARIABLES
  pc,                \* where the task is
  co2Level, co2, fan, measurementCount, eventBits,   \* members of CO2Controller
  delay,             \* ticks left of the task's vTaskDelay or receive timeout
  elapsed,           \* ticks since sensorStartUp began (saturates past its limit)
  valve,             \* the pin of the valve
  valveTimer,        \* ticks until valveTimer expires, or Dormant
  fanSpeed,          \* the speed register in the fan's controller
  eventGroup, controllerQueue, displayQueue, cloudQueue,   \* shared
  setpointsSinceOpen \* history: setpoints taken since the valve was opened (saturates)

taskVars == <<pc, co2Level, co2, fan, measurementCount, eventBits, delay, elapsed>>
plantVars == <<valve, valveTimer, fanSpeed>>
sharedVars == <<eventGroup, controllerQueue, displayQueue, cloudQueue>>
historyVars == <<setpointsSinceOpen>>
vars == <<taskVars, plantVars, sharedVars, historyVars>>

\* Program points.  "start_up" are the points inside sensorStartUp.
StartUp == {"warm_up", "probe", "probe_delay"}
Points == {"wait_bits"} \cup StartUp \cup {"first_setpoint", "read", "fan", "valve", "arm", "idle"}

\* What readSensors packs into a sensorData.
Sample == [co2 : Readings, fan : {0, 100}, co2Set : Setpoints \cup {DEFAULT_LEVEL}]

\* The contents a queue of items of S can have.
QueueOf(S) == {queue \in Seq(S) : Len(queue) <= QUEUE_LENGTH}

\* Slip: no test for a full queue.
OfferUnbounded(queue, item) == Append(queue, item)
\* Slip: a full queue makes room by dropping the oldest item.
OfferNewest(queue, item) ==
  IF Len(queue) < QUEUE_LENGTH THEN Append(queue, item) ELSE Append(Tail(queue), item)
\* xQueueSend with timeout 0: a full queue drops the new item.
Offer(queue, item) == IF Len(queue) < QUEUE_LENGTH THEN Append(queue, item) ELSE queue

\* A counter the model keeps below a bound.
Bounded(n, bound) == IF n < bound THEN n ELSE bound

TimerDue == valveTimer = 0

Goto(point) == pc' = point

(* The decisions of the task.  A definition marked "slip" is a plausible   *)
(* mistake in the decision below it: no action uses it, it shows that a    *)
(* property notices the mistake.                                           *)

\* Slip: probe until there is a reading, without the limit.
StillProbingForever == co2 = 0
\* The condition of the do-while in sensorStartUp.
StillProbing == co2 = 0 /\ elapsed <= START_UP_MAX_TIME

\* Slip: one sound value is enough.
AccurateIfAny(reading, others) == reading # 0 \/ others
\* The negation of the test in readSensors.
Accurate(reading, others) == reading # 0 /\ others

\* Slip: start the fan by what was last reported, not by its status.
FanToStartByReport(stopped) == co2 >= FAN_LIMIT /\ fan = 0
FanToStart(stopped) == co2 >= FAN_LIMIT /\ stopped
FanToStop(stopped) == co2 < FAN_LIMIT /\ ~stopped

\* Slip: one measured round is enough.
ValveWantedEarly == measurementCount >= 1 /\ co2 <= co2Level - HYSTERESIS
ValveWanted == measurementCount >= 2 /\ co2 <= co2Level - HYSTERESIS

-----------------------------------------------------------------------------
(* Power-on of the board: the fan's controller has its own supply and may  *)
(* still run at the speed it was given before.                             *)
Init ==
  /\ pc = "wait_bits"
  /\ co2Level = DEFAULT_LEVEL
  /\ co2 = 0
  /\ fan = 0
  /\ measurementCount = 1
  /\ eventBits = {}
  /\ delay = 0
  /\ elapsed = 0
  /\ valve = 0
  /\ valveTimer = Dormant
  /\ fanSpeed \in {0, FAN_ON_MAX}
  /\ eventGroup = {}
  /\ controllerQueue = <<>>
  /\ displayQueue = <<>>
  /\ cloudQueue = <<>>
  /\ setpointsSinceOpen = 0

\* runner: wait for bit 0 or bit 2 and keep what the group held then.  The
\* warm-up takes what is left of 12 s since boot, so any delay up to that.
StartTask ==
  /\ pc = "wait_bits"
  /\ eventGroup \cap StartBits # {}
  /\ eventBits' = eventGroup
  /\ delay' \in 0 .. CO2_WARM_UP_TIME
  /\ Goto("warm_up")
  /\ UNCHANGED <<co2Level, co2, fan, measurementCount, elapsed, plantVars, sharedVars, historyVars>>

WarmedUp ==
  /\ pc = "warm_up"
  /\ delay = 0
  /\ Goto("probe")
  /\ UNCHANGED <<co2Level, co2, fan, measurementCount, eventBits, delay, elapsed,
                 plantVars, sharedVars, historyVars>>

ProbeSensor ==
  /\ pc = "probe"
  /\ co2' \in Readings
  /\ delay' = PROBE_DELAY
  /\ Goto("probe_delay")
  /\ UNCHANGED <<co2Level, fan, measurementCount, eventBits, elapsed,
                 plantVars, sharedVars, historyVars>>

\* The condition of the do-while; the task goes on in either case.
ProbeDone ==
  /\ pc = "probe_delay"
  /\ delay = 0
  /\ IF StillProbing
       THEN Goto("probe") /\ UNCHANGED elapsed
       ELSE Goto("first_setpoint") /\ elapsed' = 0
  /\ UNCHANGED <<co2Level, co2, fan, measurementCount, eventBits, delay,
                 plantVars, sharedVars, historyVars>>

\* xQueueReceive succeeded: the front of the queue is the new level.
TakeSetpoint ==
  /\ controllerQueue # <<>>
  /\ co2Level' = Head(controllerQueue)
  /\ controllerQueue' = Tail(controllerQueue)
  /\ setpointsSinceOpen' = Bounded(setpointsSinceOpen + 1, 2)
  /\ UNCHANGED <<eventGroup, displayQueue, cloudQueue>>

FirstSetpoint ==
  /\ pc = "first_setpoint"
  /\ TakeSetpoint
  /\ Goto("read")
  /\ UNCHANGED <<co2, fan, measurementCount, eventBits, delay, elapsed, plantVars>>

\* readSensors: others says whether temperature and humidity were both read.
ReadSensors ==
  /\ pc = "read"
  /\ co2' \in Readings
  /\ \E others \in BOOLEAN :
       LET accurate == Accurate(co2', others)
           data == [co2 |-> co2', fan |-> fan, co2Set |-> co2Level]
       IN  /\ cloudQueue' = IF accurate /\ EVENT_BIT_0 \in eventBits
                              THEN Offer(cloudQueue, data) ELSE cloudQueue
           /\ displayQueue' = IF accurate THEN Offer(displayQueue, data) ELSE displayQueue
  /\ measurementCount' = Bounded(measurementCount + 1, 2)
  /\ Goto("fan")
  /\ UNCHANGED <<co2Level, fan, eventBits, delay, elapsed, plantVars,
                 eventGroup, controllerQueue, historyVars>>

\* controlFan.  stopped is what getStatus returns: neither of two reads showed
\* the fan rotating (a failed read shows nothing).  delivered says whether the
\* write reached the fan; the task does not learn it.
FanStep(stopped, delivered) ==
  /\ pc = "fan"
  /\ CASE FanToStart(stopped) ->
            /\ fan' = 100
            /\ fanSpeed' = IF delivered THEN FAN_ON_MAX ELSE fanSpeed
       [] FanToStop(stopped) ->
            /\ fan' = 0
            /\ fanSpeed' = IF delivered THEN 0 ELSE fanSpeed
       [] OTHER -> UNCHANGED <<fan, fanSpeed>>
  /\ Goto("valve")
  /\ UNCHANGED <<co2Level, co2, measurementCount, eventBits, delay, elapsed,
                 valve, valveTimer, sharedVars, historyVars>>

ControlFan == \E stopped, delivered \in BOOLEAN : FanStep(stopped, delivered)

\* The queue call at the end of the loop: wait for a setpoint or the interval.
KeepValve ==
  /\ pc = "valve"
  /\ ~ValveWanted
  /\ delay' = measuringInterval
  /\ Goto("idle")
  /\ UNCHANGED <<co2Level, co2, fan, measurementCount, eventBits, elapsed,
                 plantVars, sharedVars, historyVars>>

OpenValve ==
  /\ pc = "valve"
  /\ ValveWanted
  /\ valve' = 1
  /\ setpointsSinceOpen' = 0
  /\ Goto("arm")
  /\ UNCHANGED <<co2Level, co2, fan, measurementCount, eventBits, delay, elapsed,
                 valveTimer, fanSpeed, sharedVars>>

\* Slip: the timer is left alone.
ArmTimerForgotten ==
  /\ pc = "arm"
  /\ measurementCount' = 0
  /\ delay' = measuringInterval
  /\ Goto("idle")
  /\ UNCHANGED <<co2Level, co2, fan, eventBits, elapsed, plantVars,
                 sharedVars, historyVars>>

\* xTimerStart(valveTimer, 0): the daemon preempts the caller to take the
\* command, so its queue is never full.  A running timer starts anew.
ArmTimer ==
  /\ pc = "arm"
  /\ valveTimer' = VALVE_OPEN_TIME
  /\ measurementCount' = 0
  /\ delay' = measuringInterval
  /\ Goto("idle")
  /\ UNCHANGED <<co2Level, co2, fan, eventBits, elapsed, valve, fanSpeed,
                 sharedVars, historyVars>>

ReceiveSetpoint ==
  /\ pc = "idle"
  /\ TakeSetpoint
  /\ delay' = 0
  /\ Goto("read")
  /\ UNCHANGED <<co2, fan, measurementCount, eventBits, elapsed, plantVars>>

IntervalOver ==
  /\ pc = "idle"
  /\ delay = 0
  /\ controllerQueue = <<>>
  /\ Goto("read")
  /\ UNCHANGED <<co2Level, co2, fan, measurementCount, eventBits, delay, elapsed,
                 plantVars, sharedVars, historyVars>>

Task ==
  /\ ~TimerDue
  /\ \/ StartTask \/ WarmedUp \/ ProbeSensor \/ ProbeDone \/ FirstSetpoint
     \/ ReadSensors \/ ControlFan \/ KeepValve \/ OpenValve \/ ArmTimer
     \/ ReceiveSetpoint \/ IntervalOver

\* The daemon runs valveTimerCallback, without taking "guard".
ValveTimerCallback ==
  /\ TimerDue
  /\ valveTimer' = Dormant
  /\ valve' = 0
  /\ UNCHANGED <<taskVars, fanSpeed, sharedVars, setpointsSinceOpen>>

\* A tick of the kernel.
Tick ==
  /\ ~TimerDue
  /\ valveTimer' = IF valveTimer > 0 THEN valveTimer - 1 ELSE valveTimer
  /\ delay' = IF delay > 0 THEN delay - 1 ELSE 0
  /\ elapsed' = IF pc \in StartUp THEN Bounded(elapsed + 1, START_UP_MAX_TIME + 1) ELSE elapsed
  /\ UNCHANGED <<pc, co2Level, co2, fan, measurementCount, eventBits, valve, fanSpeed,
                 sharedVars, setpointsSinceOpen>>

-----------------------------------------------------------------------------
(* What the other tasks do to the shared objects.                          *)

\* CONNECT sets one of bits 0 and 1, UITask sets bit 2 after it saw bit 1.
EnvSetBits ==
  /\ \/ eventGroup = {} /\ \E bit \in {EVENT_BIT_0, EVENT_BIT_1} : eventGroup' = {bit}
     \/ eventGroup = {EVENT_BIT_1} /\ eventGroup' = {EVENT_BIT_1, EVENT_BIT_2}
  /\ UNCHANGED <<taskVars, plantVars, controllerQueue, displayQueue, cloudQueue, historyVars>>

\* UITask and READ post setpoints.
EnvPost ==
  /\ Len(controllerQueue) < QUEUE_LENGTH
  /\ \E level \in Setpoints : controllerQueue' = Append(controllerQueue, level)
  /\ UNCHANGED <<taskVars, plantVars, eventGroup, displayQueue, cloudQueue, historyVars>>

\* UITask takes a sample to display.
EnvDisplay ==
  /\ displayQueue # <<>>
  /\ displayQueue' = Tail(displayQueue)
  /\ UNCHANGED <<taskVars, plantVars, eventGroup, controllerQueue, cloudQueue, historyVars>>

\* SEND takes a sample to upload.
EnvSend ==
  /\ cloudQueue # <<>>
  /\ cloudQueue' = Tail(cloudQueue)
  /\ UNCHANGED <<taskVars, plantVars, eventGroup, controllerQueue, displayQueue, historyVars>>

Environment == EnvSetBits \/ EnvPost \/ EnvDisplay \/ EnvSend

Next == Task \/ ValveTimerCallback \/ Tick \/ Environment

Spec == Init /\ [][Next]_vars

\* The scheduler runs a ready task, the daemon and the tick.  The strong
\* conjunct is about the fan's bus: not every status read and speed write of
\* infinitely many fails.
Fairness ==
  /\ WF_vars(Task)
  /\ WF_vars(ValveTimerCallback)
  /\ WF_vars(Tick)
  /\ SF_vars(~TimerDue /\ FanStep(fanSpeed = 0, TRUE))

FairSpec == Spec /\ Fairness

-----------------------------------------------------------------------------
\* Type invariant.
TypeOK ==
  /\ pc \in Points
  /\ co2Level \in Setpoints \cup {DEFAULT_LEVEL}
  /\ co2 \in Readings
  /\ fan \in {0, 100}
  /\ measurementCount \in 0 .. 2
  /\ eventBits \subseteq EventBits
  /\ delay \in Nat
  /\ elapsed \in 0 .. START_UP_MAX_TIME + 1
  /\ valve \in {0, 1}
  /\ valveTimer \in {Dormant} \cup 0 .. VALVE_OPEN_TIME
  /\ fanSpeed \in {0, FAN_ON_MAX}
  /\ eventGroup \subseteq EventBits
  /\ controllerQueue \in QueueOf(Setpoints)
  /\ displayQueue \in QueueOf(Sample)
  /\ cloudQueue \in QueueOf(Sample)
  /\ setpointsSinceOpen \in 0 .. 2

(* The gas never runs unattended: whenever the valve is open the timer is  *)
(* running towards the callback that closes it, or the task is between the *)
(* pin write and xTimerStart.  The callback takes no lock and can fall     *)
(* between the two calls, so this needs the order of the two calls.        *)
ValveGuarded == valve = 1 => valveTimer # Dormant \/ pc = "arm"

(* The valve is re-opened while it is still open only if two setpoints     *)
(* arrived since it was opened: without them the two rounds that have to   *)
(* be measured in between last longer than the timer.                      *)
ReopenNeedsTwoSetpoints ==
  [][OpenValve /\ valve = 1 => setpointsSinceOpen = 2]_vars

(* An inaccurate reading is not forwarded (comment above the test in       *)
(* readSensors), and the cloud queue gets nothing without a connection,    *)
(* whatever the event group becomes after the task started.                *)
ForwardedAccurate ==
  /\ \A i \in 1 .. Len(displayQueue) : displayQueue[i].co2 # 0
  /\ \A i \in 1 .. Len(cloudQueue) : cloudQueue[i].co2 # 0
  /\ cloudQueue # <<>> => EVENT_BIT_0 \in eventGroup

(* A sample that is forwarded goes to both tasks that are there.  Where one *)
(* lags behind and its queue is full that task loses the sample, but what  *)
(* waits in the queue is not touched, and the other task loses nothing.    *)
AddedOrLost(queue, after, data) ==
  after = IF Len(queue) = QUEUE_LENGTH THEN queue ELSE queue \o <<data>>
LostOnlyWhenFull ==
  pc = "read" /\ pc' # pc /\ ~UNCHANGED <<displayQueue, cloudQueue>> =>
    LET data == [co2 |-> co2', fan |-> fan, co2Set |-> co2Level]
    IN  /\ AddedOrLost(displayQueue, displayQueue', data)
        /\ IF EVENT_BIT_0 \in eventBits THEN AddedOrLost(cloudQueue, cloudQueue', data)
                                         ELSE UNCHANGED cloudQueue

(* What readSensors forwards, and what becomes of it.                      *)
SamplesForwarded == []ForwardedAccurate /\ [][LostOnlyWhenFull]_vars

(* Once no setpoints cut the rounds short, an open valve gets closed.      *)
ValveCloses == <>[](controllerQueue = <<>>) => []<>(valve = 0)

\* The rounds of measuring and acting.
Measuring == pc \in {"read", "fan", "valve", "arm", "idle"}
(* The fan follows the readings, failed ones included, in spite of lost    *)
(* writes and status reads that show nothing: the status is asked again    *)
(* every round.                                                            *)
FanFollows ==
  <>Measuring =>
    /\ <>[](co2 >= FAN_LIMIT) => <>[](fanSpeed = FAN_ON_MAX)
    /\ <>[](co2 < FAN_LIMIT) => <>[](fanSpeed = 0)

-----------------------------------------------------------------------------
(* This implements ControllerView: sensor start-up is one phase, fan and   *)
(* valve are one phase, and a sample is just a sample.                     *)

phaseBar ==
  CASE pc = "wait_bits" -> "wait"
    [] pc \in StartUp -> "start_up"
    [] pc = "first_setpoint" -> "first"
    [] pc = "read" -> "measure"
    [] pc \in {"fan", "valve", "arm"} -> "act"
    [] pc = "idle" -> "idle"

View == INSTANCE ControllerView WITH
  phase <- phaseBar,
  cloudQueue <- [i \in 1 .. Len(cloudQueue) |-> "sample"]

(* Every step of the controller, its timer and its sensors is a step that  *)
(* ControllerView allows, or invisible to the other tasks; and it does not *)
(* stop taking setpoints and measuring, whatever the sensors, the fan and  *)
(* the valve do: in particular sensor start-up ends.                       *)
ImplementsFairView == View!FairSpec
=============================================================================
