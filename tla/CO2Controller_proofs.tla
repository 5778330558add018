----------------------- MODULE CO2Controller_proofs ------------------------
(***************************************************************************)
(* Proofs about CO2Controller for every value of its constants: its types, *)
(* that the open valve is always guarded by its timer, and that the valve  *)
(* is re-opened while open only after two setpoints.                       *)
(***************************************************************************)
EXTENDS CO2Controller, SequenceTheorems, TLAPS

-----------------------------------------------------------------------------
(* The queues.                                                             *)

(* Appending an item that fits keeps a queue a queue: this is what a post  *)
(* of UITask or READ does.                                                 *)
LEMMA AppendKeepsQueue ==
  ASSUME NEW S, NEW q \in QueueOf(S), NEW e \in S, Len(q) < QUEUE_LENGTH
  PROVE  Append(q, e) \in QueueOf(S)
<1>1. Append(q, e) \in Seq(S) /\ Len(Append(q, e)) = Len(q) + 1
  BY AppendProperties DEF QueueOf
<1> QED BY <1>1, QueueAssumption DEF QueueOf

(* xQueueSend with timeout 0 keeps a queue a queue, full or not.           *)
LEMMA OfferKeepsQueue ==
  ASSUME NEW S, NEW q \in QueueOf(S), NEW e \in S
  PROVE  Offer(q, e) \in QueueOf(S)
BY AppendKeepsQueue DEF Offer

(* Receiving takes an item of S and leaves a queue.                        *)
LEMMA TailKeepsQueue ==
  ASSUME NEW S, NEW q \in QueueOf(S), q # <<>>
  PROVE  Head(q) \in S /\ Tail(q) \in QueueOf(S)
<1>1. Head(q) \in S /\ Tail(q) \in Seq(S) /\ Len(Tail(q)) = Len(q) - 1
  BY HeadTailProperties DEF QueueOf
<1>2. Len(q) \in Nat
  BY LenProperties DEF QueueOf
<1> QED BY <1>1, <1>2, QueueAssumption DEF QueueOf

(* A receive of a setpoint keeps the types of all it touches.              *)
LEMMA TakeSetpointType ==
  ASSUME controllerQueue \in QueueOf(Setpoints), setpointsSinceOpen \in 0 .. 2, TakeSetpoint
  PROVE  /\ co2Level' \in Setpoints
         /\ controllerQueue' \in QueueOf(Setpoints)
         /\ setpointsSinceOpen' \in 0 .. 2
         /\ setpointsSinceOpen' = Bounded(setpointsSinceOpen + 1, 2)
<1>1. Head(controllerQueue) \in Setpoints /\ Tail(controllerQueue) \in QueueOf(Setpoints)
  BY TailKeepsQueue DEF TakeSetpoint
<1> QED BY <1>1 DEF TakeSetpoint, Bounded

-----------------------------------------------------------------------------
(* Types.                                                                  *)

(* The initial state is well typed.                                        *)
LEMMA InitType == Init => TypeOK
<1> SUFFICES ASSUME Init PROVE TypeOK
  OBVIOUS
<1>1. <<>> \in Seq(Setpoints) /\ <<>> \in Seq(Sample) /\ Len(<<>>) = 0
  BY EmptySeq
<1> QED
  BY <1>1, ReadingsAssumption, QueueAssumption, TimesAssumption
  DEF Init, TypeOK, Points, EventBits, Dormant, QueueOf

(* Every step of the task keeps the types.                                 *)
LEMMA TaskType == TypeOK /\ Task => TypeOK'
<1> SUFFICES ASSUME TypeOK, Task PROVE TypeOK'
  OBVIOUS
<1> USE TimesAssumption
    DEF taskVars, plantVars, sharedVars, historyVars, Goto, Points, StartUp
<1>1. CASE StartTask
  BY <1>1 DEF TypeOK, StartTask
<1>2. CASE WarmedUp
  BY <1>2 DEF TypeOK, WarmedUp
<1>3. CASE ProbeSensor
  BY <1>3 DEF TypeOK, ProbeSensor
<1>4. CASE ProbeDone
  BY <1>4 DEF TypeOK, ProbeDone
<1>5. CASE FirstSetpoint
  <2>1. TakeSetpoint
    BY <1>5 DEF FirstSetpoint
  <2>2. co2Level' \in Setpoints /\ controllerQueue' \in QueueOf(Setpoints) /\ setpointsSinceOpen' \in 0 .. 2
    BY <2>1, TakeSetpointType DEF TypeOK
  <2> QED BY <1>5, <2>1, <2>2 DEF TypeOK, FirstSetpoint, TakeSetpoint
<1>6. CASE ReadSensors
  <2>1. displayQueue \in QueueOf(Sample) /\ cloudQueue \in QueueOf(Sample)
    BY DEF TypeOK
  <2>2. [co2 |-> co2', fan |-> fan, co2Set |-> co2Level] \in Sample
    BY <1>6 DEF ReadSensors, Sample, TypeOK
  <2>3. displayQueue' \in QueueOf(Sample) /\ cloudQueue' \in QueueOf(Sample)
    BY <1>6, <2>1, <2>2, OfferKeepsQueue DEF ReadSensors
  <2>4. measurementCount' \in 0 .. 2
    BY <1>6 DEF ReadSensors, Bounded, TypeOK
  <2> QED BY <1>6, <2>3, <2>4 DEF TypeOK, ReadSensors
<1>7. CASE ControlFan
  <2> PICK stopped, delivered \in BOOLEAN : FanStep(stopped, delivered)
    BY <1>7 DEF ControlFan
  <2>1. fan' \in {0, 100} /\ fanSpeed' \in {0, FAN_ON_MAX}
    BY DEF FanStep, TypeOK
  <2> QED BY <2>1 DEF TypeOK, FanStep
<1>8. CASE KeepValve
  BY <1>8 DEF TypeOK, KeepValve
<1>9. CASE OpenValve
  BY <1>9 DEF TypeOK, OpenValve
<1>10. CASE ArmTimer
  BY <1>10 DEF TypeOK, ArmTimer
<1>11. CASE ReceiveSetpoint
  <2>1. TakeSetpoint
    BY <1>11 DEF ReceiveSetpoint
  <2>2. co2Level' \in Setpoints /\ controllerQueue' \in QueueOf(Setpoints) /\ setpointsSinceOpen' \in 0 .. 2
    BY <2>1, TakeSetpointType DEF TypeOK
  <2> QED BY <1>11, <2>1, <2>2 DEF TypeOK, ReceiveSetpoint, TakeSetpoint
<1>12. CASE IntervalOver
  BY <1>12 DEF TypeOK, IntervalOver
<1> QED
  BY <1>1, <1>2, <1>3, <1>4, <1>5, <1>6, <1>7, <1>8, <1>9, <1>10, <1>11, <1>12 DEF Task

(* The callback, the tick and the other tasks keep the types.              *)
LEMMA RestType == TypeOK /\ (ValveTimerCallback \/ Tick \/ Environment) => TypeOK'
<1> SUFFICES ASSUME TypeOK, ValveTimerCallback \/ Tick \/ Environment PROVE TypeOK'
  OBVIOUS
<1> USE DEF taskVars, plantVars, sharedVars, historyVars
<1>1. CASE ValveTimerCallback
  BY <1>1, TimesAssumption DEF TypeOK, ValveTimerCallback, Dormant
<1>2. CASE Tick
  BY <1>2, TimesAssumption DEF TypeOK, Tick, TimerDue, Dormant, Bounded
<1>3. CASE EnvSetBits
  BY <1>3 DEF TypeOK, EnvSetBits, EventBits
<1>4. CASE EnvPost
  <2>1. controllerQueue' \in QueueOf(Setpoints)
    BY <1>4, AppendKeepsQueue DEF EnvPost, TypeOK
  <2> QED BY <1>4, <2>1 DEF TypeOK, EnvPost
<1>5. CASE EnvDisplay
  <2>1. displayQueue' \in QueueOf(Sample)
    BY <1>5, TailKeepsQueue DEF EnvDisplay, TypeOK
  <2> QED BY <1>5, <2>1 DEF TypeOK, EnvDisplay
<1>6. CASE EnvSend
  <2>1. cloudQueue' \in QueueOf(Sample)
    BY <1>6, TailKeepsQueue DEF EnvSend, TypeOK
  <2> QED BY <1>6, <2>1 DEF TypeOK, EnvSend
<1> QED BY <1>1, <1>2, <1>3, <1>4, <1>5, <1>6 DEF Environment

(* A stuttering step keeps the types.                                      *)
LEMMA StutterType == TypeOK /\ UNCHANGED vars => TypeOK'
BY DEF TypeOK, vars, taskVars, plantVars, sharedVars, historyVars

(* TypeOK is an invariant for every length of the queues and all times.    *)
THEOREM TypeCorrect == Spec => []TypeOK
<1>1. Init => TypeOK
  BY InitType
<1>2. TypeOK /\ [Next]_vars => TypeOK'
  BY TaskType, RestType, StutterType DEF Next
<1> QED BY <1>1, <1>2, PTL DEF Spec

-----------------------------------------------------------------------------
(* The valve.                                                              *)

(* ValveGuarded is inductive on top of the types: the only step that opens *)
(* the valve goes to "arm", the only step that leaves "arm" starts the     *)
(* timer, and the only step that stops the timer closes the valve.         *)
LEMMA ValveGuardedStep == TypeOK /\ ValveGuarded /\ [Next]_vars => ValveGuarded'
<1> SUFFICES ASSUME TypeOK, ValveGuarded, [Next]_vars PROVE ValveGuarded'
  OBVIOUS
<1> USE DEF ValveGuarded, plantVars, taskVars, Goto
<1>1. CASE Task /\ ~OpenValve /\ ~ArmTimer
  <2>1. valve' = valve /\ valveTimer' = valveTimer /\ pc # "arm"
    BY <1>1 DEF Task, StartTask, WarmedUp, ProbeSensor, ProbeDone, FirstSetpoint, ReadSensors,
                ControlFan, FanStep, KeepValve, ReceiveSetpoint, IntervalOver, OpenValve, ArmTimer
  <2> QED BY <2>1
<1>2. CASE OpenValve
  BY <1>2 DEF OpenValve
<1>3. CASE ArmTimer
  BY <1>3, TimesAssumption DEF ArmTimer, Dormant
<1>4. CASE ValveTimerCallback
  BY <1>4 DEF ValveTimerCallback
<1>5. CASE Tick
  BY <1>5 DEF Tick, Dormant, TypeOK
<1>6. CASE Environment
  BY <1>6 DEF Environment, EnvSetBits, EnvPost, EnvDisplay, EnvSend
<1>7. CASE UNCHANGED vars
  BY <1>7 DEF vars
<1> QED BY <1>1, <1>2, <1>3, <1>4, <1>5, <1>6, <1>7 DEF Next, Task

(* An open valve always has its timer running or about to be started.      *)
THEOREM ValveIsGuarded == Spec => []ValveGuarded
<1>1. Init => ValveGuarded
  BY DEF Init, ValveGuarded
<1>2. TypeOK /\ ValveGuarded /\ [Next]_vars => ValveGuarded'
  BY ValveGuardedStep
<1> QED BY <1>1, <1>2, TypeCorrect, PTL DEF Spec

(* Why the rounds after an opening need setpoints: while the valve is open *)
(* and armed, the wait that ends a round outlasts the timer, so a round    *)
(* only begins because a setpoint was received.  Each measured round was   *)
(* hence begun by a setpoint of its own.                                   *)
OpenRounds ==
  valve = 1 /\ pc # "arm" =>
    /\ pc \in {"read", "fan", "valve", "idle"}
    /\ pc = "idle" => valveTimer < delay
    /\ pc = "read" => setpointsSinceOpen >= Bounded(measurementCount + 1, 2)
    /\ pc # "read" => setpointsSinceOpen >= measurementCount

(* OpenRounds is inductive on top of the types and ValveGuarded.           *)
LEMMA OpenRoundsStep ==
  TypeOK /\ ValveGuarded /\ OpenRounds /\ [Next]_vars => OpenRounds'
<1> SUFFICES ASSUME TypeOK, ValveGuarded, OpenRounds, [Next]_vars PROVE OpenRounds'
  OBVIOUS
<1> USE TimesAssumption
    DEF OpenRounds, Bounded, taskVars, plantVars, sharedVars, historyVars, Goto
<1>1. CASE StartTask \/ WarmedUp \/ ProbeSensor \/ ProbeDone \/ FirstSetpoint
  <2>1. valve # 1
    BY <1>1 DEF StartTask, WarmedUp, ProbeSensor, ProbeDone, FirstSetpoint
  <2>2. valve' = valve
    BY <1>1 DEF StartTask, WarmedUp, ProbeSensor, ProbeDone, FirstSetpoint
  <2> QED BY <2>1, <2>2
<1>2. CASE ReadSensors
  BY <1>2 DEF ReadSensors, TypeOK
<1>3. CASE ControlFan
  BY <1>3 DEF ControlFan, FanStep
<1>4. CASE KeepValve
  BY <1>4 DEF KeepValve, TypeOK, Dormant
<1>5. CASE OpenValve
  BY <1>5 DEF OpenValve
<1>6. CASE ArmTimer
  BY <1>6 DEF ArmTimer, TypeOK
<1>7. CASE ReceiveSetpoint
  BY <1>7 DEF ReceiveSetpoint, TakeSetpoint, TypeOK
<1>8. CASE IntervalOver
  <2>1. valve # 1
    BY <1>8 DEF IntervalOver, ValveGuarded, TypeOK, Dormant
  <2> QED BY <1>8, <2>1 DEF IntervalOver
<1>9. CASE ValveTimerCallback
  BY <1>9 DEF ValveTimerCallback
<1>10. CASE Tick
  BY <1>10 DEF Tick, TimerDue, ValveGuarded, TypeOK, Dormant
<1>11. CASE Environment
  BY <1>11 DEF Environment, EnvSetBits, EnvPost, EnvDisplay, EnvSend
<1>12. CASE UNCHANGED vars
  BY <1>12 DEF vars
<1> QED
  BY <1>1, <1>2, <1>3, <1>4, <1>5, <1>6, <1>7, <1>8, <1>9, <1>10, <1>11, <1>12 DEF Next, Task

(* The valve is re-opened while open only after two setpoints, whatever    *)
(* the interval and the open time as long as the interval is longer.       *)
THEOREM ReopenAfterTwoSetpoints == Spec => ReopenNeedsTwoSetpoints
<1>1. Init => OpenRounds
  BY DEF Init, OpenRounds
<1>2. TypeOK /\ ValveGuarded /\ OpenRounds /\ [Next]_vars => OpenRounds'
  BY OpenRoundsStep
<1>3. TypeOK /\ OpenRounds => [OpenValve /\ valve = 1 => setpointsSinceOpen = 2]_vars
  BY DEF OpenRounds, TypeOK, OpenValve, ValveWanted
<1> QED
  BY <1>1, <1>2, <1>3, TypeCorrect, ValveIsGuarded, PTL DEF Spec, ReopenNeedsTwoSetpoints

-----------------------------------------------------------------------------
(* What is forwarded.                                                      *)

(* A queue that holds accurate samples only.                               *)
Clean(queue) == \A i \in 1 .. Len(queue) : queue[i].co2 # 0

(* Offering an accurate sample and taking a sample keep a queue clean.     *)
LEMMA OfferKeepsClean ==
  ASSUME NEW queue \in QueueOf(Sample), Clean(queue), NEW data \in Sample, data.co2 # 0
  PROVE  Clean(Offer(queue, data))
<1>1. /\ queue \in Seq(Sample) /\ Len(queue) \in Nat
      /\ Len(Append(queue, data)) = Len(queue) + 1
      /\ \A i \in 1 .. Len(queue) : Append(queue, data)[i] = queue[i]
      /\ Append(queue, data)[Len(queue) + 1] = data
  BY AppendProperties, LenProperties DEF QueueOf
<1>2. Clean(Append(queue, data))
  BY <1>1 DEF Clean
<1> QED BY <1>2 DEF Offer

LEMMA TailKeepsClean ==
  ASSUME NEW queue \in QueueOf(Sample), Clean(queue), queue # <<>>
  PROVE  Clean(Tail(queue))
<1>1. /\ Len(queue) \in Nat \ {0} /\ Len(Tail(queue)) = Len(queue) - 1
      /\ \A i \in 1 .. Len(Tail(queue)) : Tail(queue)[i] = queue[i + 1]
  BY HeadTailProperties, LenProperties, EmptySeq DEF QueueOf
<1>2. \A i \in 1 .. Len(Tail(queue)) : i + 1 \in 1 .. Len(queue)
  BY <1>1
<1> QED BY <1>1, <1>2 DEF Clean

(* What the task remembers of the event group stays true of it: bit 0 is   *)
(* never cleared.                                                          *)
Remembered ==
  /\ EVENT_BIT_0 \in eventBits => EVENT_BIT_0 \in eventGroup
  /\ cloudQueue # <<>> => EVENT_BIT_0 \in eventGroup
ForwardedInv == Clean(displayQueue) /\ Clean(cloudQueue) /\ Remembered

(* Every step keeps ForwardedInv: samples are offered by ReadSensors only. *)
LEMMA ForwardedStep == TypeOK /\ ForwardedInv /\ [Next]_vars => ForwardedInv'
<1> SUFFICES ASSUME TypeOK, ForwardedInv, [Next]_vars PROVE ForwardedInv'
  OBVIOUS
<1> USE DEF ForwardedInv, Remembered, taskVars, plantVars, sharedVars, historyVars
<1>1. CASE ReadSensors
  <2> PICK others \in BOOLEAN :
        LET accurate == Accurate(co2', others)
            data == [co2 |-> co2', fan |-> fan, co2Set |-> co2Level]
        IN  /\ cloudQueue' = IF accurate /\ EVENT_BIT_0 \in eventBits
                               THEN Offer(cloudQueue, data) ELSE cloudQueue
            /\ displayQueue' = IF accurate THEN Offer(displayQueue, data) ELSE displayQueue
    BY <1>1 DEF ReadSensors
  <2> DEFINE data == [co2 |-> co2', fan |-> fan, co2Set |-> co2Level]
  <2>1. data \in Sample /\ data.co2 = co2'
    BY <1>1 DEF ReadSensors, Sample, TypeOK
  <2>2. displayQueue \in QueueOf(Sample) /\ cloudQueue \in QueueOf(Sample)
    BY DEF TypeOK
  <2>3. Clean(displayQueue') /\ Clean(cloudQueue')
    BY <2>1, <2>2, OfferKeepsClean DEF Accurate
  <2>4. Remembered'
    BY <1>1 DEF ReadSensors
  <2> QED BY <2>3, <2>4 DEF Clean
<1>2. CASE Task /\ ~ReadSensors
  <2>1. UNCHANGED <<displayQueue, cloudQueue, eventGroup>>
    BY <1>2 DEF Task, StartTask, WarmedUp, ProbeSensor, ProbeDone, FirstSetpoint, TakeSetpoint,
                ControlFan, FanStep, KeepValve, OpenValve, ArmTimer, ReceiveSetpoint, IntervalOver
  <2>2. eventBits' \in {eventBits, eventGroup}
    BY <1>2 DEF Task, StartTask, WarmedUp, ProbeSensor, ProbeDone, FirstSetpoint, TakeSetpoint,
                ControlFan, FanStep, KeepValve, OpenValve, ArmTimer, ReceiveSetpoint, IntervalOver
  <2> QED BY <2>1, <2>2 DEF Clean
<1>3. CASE ValveTimerCallback \/ Tick
  BY <1>3 DEF ValveTimerCallback, Tick, Clean
<1>4. CASE EnvSetBits \/ EnvPost
  BY <1>4 DEF EnvSetBits, EnvPost, Clean, EVENT_BIT_0, EVENT_BIT_1
<1>5. CASE EnvDisplay
  <2>1. Clean(Tail(displayQueue))
    BY <1>5, TailKeepsClean DEF EnvDisplay, TypeOK
  <2> QED BY <1>5, <2>1 DEF EnvDisplay, Clean
<1>6. CASE EnvSend
  <2>1. Clean(Tail(cloudQueue))
    BY <1>6, TailKeepsClean DEF EnvSend, TypeOK
  <2> QED BY <1>6, <2>1 DEF EnvSend, Clean
<1>7. CASE UNCHANGED vars
  BY <1>7 DEF vars, Clean
<1> QED BY <1>1, <1>2, <1>3, <1>4, <1>5, <1>6, <1>7 DEF Next, Environment

(* One sample is offered to both queues, and a queue that cannot take it   *)
(* stays as it is.                                                         *)
LEMMA OfferAddsOrLoses ==
  ASSUME NEW queue \in QueueOf(Sample), NEW data \in Sample
  PROVE  AddedOrLost(queue, Offer(queue, data), data)
<1>1. Len(queue) \in Nat /\ Len(queue) <= QUEUE_LENGTH /\ queue \in Seq(Sample)
  BY LenProperties DEF QueueOf
<1>2. Append(queue, data) = queue \o <<data>>
  BY <1>1, AppendIsConcat
<1> QED BY <1>1, <1>2, QueueAssumption DEF Offer, AddedOrLost

LEMMA LossStep == TypeOK /\ [Next]_vars => [LostOnlyWhenFull]_vars
<1> SUFFICES ASSUME TypeOK, Next, pc = "read", pc' # pc, ~UNCHANGED <<displayQueue, cloudQueue>>
             PROVE  LostOnlyWhenFull
  BY DEF LostOnlyWhenFull
<1>1. ReadSensors
  BY DEF Next, Task, Environment, StartTask, WarmedUp, ProbeSensor, ProbeDone, FirstSetpoint,
         ControlFan, FanStep, KeepValve, OpenValve, ArmTimer, ReceiveSetpoint, IntervalOver,
         ValveTimerCallback, Tick, EnvSetBits, EnvPost, EnvDisplay, EnvSend, taskVars
<1> DEFINE data == [co2 |-> co2', fan |-> fan, co2Set |-> co2Level]
<1>2. PICK others \in BOOLEAN :
        /\ cloudQueue' = IF Accurate(co2', others) /\ EVENT_BIT_0 \in eventBits
                           THEN Offer(cloudQueue, data) ELSE cloudQueue
        /\ displayQueue' = IF Accurate(co2', others) THEN Offer(displayQueue, data)
                                                     ELSE displayQueue
  BY <1>1 DEF ReadSensors
<1>3. Accurate(co2', others)
  BY <1>2
<1>4. data \in Sample
  BY <1>1 DEF ReadSensors, Sample, TypeOK
<1>5. /\ AddedOrLost(displayQueue, Offer(displayQueue, data), data)
      /\ AddedOrLost(cloudQueue, Offer(cloudQueue, data), data)
  BY <1>4, OfferAddsOrLoses DEF TypeOK
<1> QED BY <1>2, <1>3, <1>5 DEF LostOnlyWhenFull

(* No inaccurate sample is forwarded to the display or to the cloud, and   *)
(* none to the cloud before there is a connection (readSensors); a sample  *)
(* is lost to a task whose queue is full, and then to that task only.      *)
THEOREM SamplesAreForwarded == Spec => SamplesForwarded
<1>1. Init => ForwardedInv
  BY EmptySeq DEF Init, ForwardedInv, Remembered, Clean
<1>2. TypeOK /\ ForwardedInv /\ [Next]_vars => ForwardedInv'
  BY ForwardedStep
<1>3. ForwardedInv => ForwardedAccurate
  BY DEF ForwardedInv, Remembered, Clean, ForwardedAccurate
<1> QED BY <1>1, <1>2, <1>3, LossStep, TypeCorrect, PTL DEF Spec, SamplesForwarded

-----------------------------------------------------------------------------
(* The safety half of ImplementsFairView for every value of the            *)
(* constants: each step of the controller, its timer, its clock and its    *)
(* environment is a step of ControllerView or invisible to the others.     *)

(* A queue as the other tasks see it.                                      *)
Seen(queue) == [i \in 1 .. Len(queue) |-> "sample"]

LEMMA SeenIsSeq ==
  ASSUME NEW S, NEW queue \in Seq(S)
  PROVE  /\ Seen(queue) \in Seq({"sample"}) /\ Len(Seen(queue)) = Len(queue)
         /\ \A i \in 1 .. Len(queue) : Seen(queue)[i] = "sample"
<1>1. Len(queue) \in Nat
  BY LenProperties
<1> QED BY <1>1 DEF Seen

(* Appending and taking look like appending and taking.                    *)
LEMMA SeenAppend ==
  ASSUME NEW S, NEW queue \in Seq(S), NEW item \in S
  PROVE  Seen(Append(queue, item)) = Append(Seen(queue), "sample")
<1> DEFINE left == Seen(Append(queue, item))
           right == Append(Seen(queue), "sample")
<1>1. /\ Append(queue, item) \in Seq(S)
      /\ Len(Append(queue, item)) = Len(queue) + 1
      /\ Len(queue) \in Nat
  BY AppendProperties, LenProperties
<1>2. /\ left \in Seq({"sample"}) /\ Len(left) = Len(queue) + 1
      /\ \A i \in 1 .. Len(queue) + 1 : left[i] = "sample"
  BY <1>1, SeenIsSeq
<1>3. /\ Seen(queue) \in Seq({"sample"}) /\ Len(Seen(queue)) = Len(queue)
      /\ \A i \in 1 .. Len(queue) : Seen(queue)[i] = "sample"
  BY SeenIsSeq
<1>4. /\ right \in Seq({"sample"}) /\ Len(right) = Len(queue) + 1
      /\ \A i \in 1 .. Len(queue) + 1 : right[i] = "sample"
  BY <1>1, <1>3, AppendProperties
<1> HIDE DEF left, right
<1>5. left = right
  BY <1>1, <1>2, <1>4, SeqEqual
<1> QED BY <1>5 DEF left, right

LEMMA SeenTail ==
  ASSUME NEW S, NEW queue \in Seq(S), queue # <<>>
  PROVE  Seen(Tail(queue)) = Tail(Seen(queue)) /\ Seen(queue) # <<>>
<1> DEFINE left == Seen(Tail(queue))
           right == Tail(Seen(queue))
<1>1. Tail(queue) \in Seq(S) /\ Len(Tail(queue)) = Len(queue) - 1 /\ Len(queue) \in Nat \ {0}
  BY HeadTailProperties, LenProperties, EmptySeq
<1>2. /\ left \in Seq({"sample"}) /\ Len(left) = Len(queue) - 1
      /\ \A i \in 1 .. Len(queue) - 1 : left[i] = "sample"
  BY <1>1, SeenIsSeq
<1>3. /\ Seen(queue) \in Seq({"sample"}) /\ Len(Seen(queue)) = Len(queue)
      /\ \A i \in 1 .. Len(queue) : Seen(queue)[i] = "sample"
  BY SeenIsSeq
<1>4. Seen(queue) # <<>>
  BY <1>1, <1>3
<1>5. /\ right \in Seq({"sample"}) /\ Len(right) = Len(queue) - 1
      /\ \A i \in 1 .. Len(queue) - 1 : right[i] = Seen(queue)[i + 1]
  BY <1>3, <1>4, HeadTailProperties
<1>6. \A i \in 1 .. Len(queue) - 1 : right[i] = "sample"
  BY <1>1, <1>3, <1>5
<1> HIDE DEF left, right
<1>7. left = right
  BY <1>1, <1>2, <1>5, <1>6, SeqEqual
<1> QED BY <1>4, <1>7 DEF left, right

-----------------------------------------------------------------------------
(* A boot of the controller looks like a boot of the view.                 *)
LEMMA ViewInit == Init => View!Init
<1> SUFFICES ASSUME Init PROVE View!Init
  OBVIOUS
<1>1. phaseBar = "wait"
  BY DEF Init, phaseBar, StartUp
<1>2. [i \in 1 .. Len(cloudQueue) |-> "sample"] = <<>>
  <2>1. cloudQueue \in Seq({}) /\ Len(cloudQueue) = 0
    BY EmptySeq DEF Init
  <2>2. Seen(cloudQueue) \in Seq({"sample"}) /\ Len(Seen(cloudQueue)) = 0
    BY <2>1, SeenIsSeq
  <2> QED BY <2>2, EmptySeq DEF Seen
<1> QED BY <1>1, <1>2 DEF Init, View!Init, DEFAULT_LEVEL, View!DEFAULT_LEVEL

(* The steps that need a step of the view.                                 *)
LEMMA ViewTakesLevel ==
  ASSUME TypeOK, FirstSetpoint \/ ReceiveSetpoint
  PROVE  View!TakeLevel
<1>1. phaseBar \in {"first", "idle"} /\ phaseBar' = "measure"
  BY DEF FirstSetpoint, ReceiveSetpoint, phaseBar, Goto, StartUp
<1>2. TakeSetpoint /\ UNCHANGED eventBits
  BY DEF FirstSetpoint, ReceiveSetpoint
<1> QED BY <1>1, <1>2 DEF TakeSetpoint, View!TakeLevel

LEMMA ViewMeasures ==
  ASSUME TypeOK, ReadSensors
  PROVE  View!Measure
<1>1. phaseBar = "measure" /\ phaseBar' = "act"
  BY DEF ReadSensors, phaseBar, Goto, StartUp
<1>2. UNCHANGED <<co2Level, eventBits, eventGroup, controllerQueue>>
  BY DEF ReadSensors, historyVars
<1>3. cloudQueue \in Seq(Sample)
  BY DEF TypeOK, QueueOf
<1>4. PICK others \in BOOLEAN :
        cloudQueue' = IF Accurate(co2', others) /\ EVENT_BIT_0 \in eventBits
                        THEN Offer(cloudQueue, [co2 |-> co2', fan |-> fan, co2Set |-> co2Level])
                        ELSE cloudQueue
  BY DEF ReadSensors
<1> DEFINE data == [co2 |-> co2', fan |-> fan, co2Set |-> co2Level]
<1>5. data \in Sample
  BY DEF ReadSensors, TypeOK, Sample
<1>6. CASE cloudQueue' = cloudQueue
  BY <1>1, <1>2, <1>6 DEF View!Measure
<1>7. CASE /\ EVENT_BIT_0 \in eventBits /\ Len(cloudQueue) < QUEUE_LENGTH
           /\ cloudQueue' = Append(cloudQueue, data)
  <2>1. Seen(cloudQueue)' = Append(Seen(cloudQueue), "sample")
    BY <1>3, <1>5, <1>7, SeenAppend DEF Seen
  <2>2. Len(Seen(cloudQueue)) < QUEUE_LENGTH
    BY <1>3, <1>7, SeenIsSeq
  <2> QED
    BY <1>1, <1>2, <1>7, <2>1, <2>2
    DEF View!Measure, View!SAMPLE, View!EVENT_BIT_0, EVENT_BIT_0, Seen
<1> QED BY <1>4, <1>6, <1>7 DEF Offer

LEMMA ViewActs ==
  ASSUME TypeOK, KeepValve \/ ArmTimer
  PROVE  View!Act
<1>1. phaseBar = "act" /\ phaseBar' = "idle"
  BY DEF KeepValve, ArmTimer, phaseBar, Goto, StartUp
<1> QED BY <1>1 DEF KeepValve, ArmTimer, sharedVars, View!Act, View!sharedVars

LEMMA ViewStarts ==
  ASSUME TypeOK, StartTask \/ ProbeDone \/ IntervalOver
  PROVE  View!Start \/ View!StartUpOver \/ View!RoundDue \/ UNCHANGED View!vars
<1>1. CASE StartTask
  <2>1. phaseBar = "wait" /\ phaseBar' = "start_up"
    BY <1>1 DEF StartTask, phaseBar, Goto, StartUp
  <2> QED
    BY <1>1, <2>1
    DEF StartTask, sharedVars, View!Start, View!sharedVars, StartBits, View!StartBits,
        EVENT_BIT_0, EVENT_BIT_2, View!EVENT_BIT_0, View!EVENT_BIT_2
<1>2. CASE ProbeDone
  <2>1. phaseBar = "start_up" /\ phaseBar' \in {"start_up", "first"}
    BY <1>2 DEF ProbeDone, phaseBar, Goto, StartUp
  <2> QED
    BY <1>2, <2>1
    DEF ProbeDone, sharedVars, View!StartUpOver, View!vars, View!ctlVars, View!sharedVars
<1>3. CASE IntervalOver
  <2>1. phaseBar = "idle" /\ phaseBar' = "measure"
    BY <1>3 DEF IntervalOver, phaseBar, Goto, StartUp
  <2> QED BY <1>3, <2>1 DEF IntervalOver, sharedVars, View!RoundDue, View!sharedVars
<1> QED BY <1>1, <1>2, <1>3

(* The steps that nobody else sees.                                        *)
LEMMA ViewStutters ==
  ASSUME TypeOK,
         \/ WarmedUp \/ ProbeSensor \/ ControlFan \/ OpenValve \/ ValveTimerCallback \/ Tick
         \/ EnvDisplay \/ UNCHANGED vars
  PROVE  UNCHANGED View!vars
<1>1. phaseBar' = phaseBar
  BY DEF WarmedUp, ProbeSensor, ControlFan, FanStep, OpenValve, ValveTimerCallback, Tick,
         EnvDisplay, vars, taskVars, phaseBar, Goto, StartUp
<1>2. UNCHANGED <<co2Level, eventBits, eventGroup, controllerQueue, cloudQueue>>
  BY DEF WarmedUp, ProbeSensor, ControlFan, FanStep, OpenValve, ValveTimerCallback, Tick,
         EnvDisplay, vars, taskVars, sharedVars
<1> QED BY <1>1, <1>2 DEF View!vars, View!ctlVars, View!sharedVars

LEMMA ViewEnvironment ==
  ASSUME TypeOK, EnvSetBits \/ EnvPost \/ EnvSend
  PROVE  View!EnvSetBits \/ View!EnvPost \/ View!EnvSend
<1>1. phaseBar' = phaseBar /\ UNCHANGED <<co2Level, eventBits>>
  BY DEF EnvSetBits, EnvPost, EnvSend, taskVars, phaseBar
<1>2. CASE EnvSetBits
  BY <1>1, <1>2
  DEF EnvSetBits, View!EnvSetBits, View!ctlVars, EVENT_BIT_0, EVENT_BIT_1, EVENT_BIT_2,
      View!EVENT_BIT_0, View!EVENT_BIT_1, View!EVENT_BIT_2
<1>3. CASE EnvPost
  BY <1>1, <1>3 DEF EnvPost, View!EnvPost, View!ctlVars
<1>4. CASE EnvSend
  <2>1. cloudQueue \in Seq(Sample) /\ cloudQueue # <<>>
    BY <1>4 DEF EnvSend, TypeOK, QueueOf
  <2>2. Seen(cloudQueue)' = Tail(Seen(cloudQueue)) /\ Seen(cloudQueue) # <<>>
    BY <1>4, <2>1, SeenTail DEF EnvSend, Seen
  <2> QED BY <1>1, <1>4, <2>2 DEF EnvSend, View!EnvSend, View!ctlVars, Seen
<1> QED BY <1>2, <1>3, <1>4

(* What CONTROLLER does, the valve, the fan and the failures of the        *)
(* sensors included, is what ControllerView tells the other tasks: it      *)
(* waits for its bits, takes setpoints in order, sends a sample per round  *)
(* at most and none without the uplink, whatever the times and readings.   *)
THEOREM ControllerImplementsView == Spec => View!Spec
<1>1. TypeOK /\ [Next]_vars => [View!Next]_(View!vars)
  BY ViewTakesLevel, ViewMeasures, ViewActs, ViewStarts, ViewStutters, ViewEnvironment
  DEF Next, Task, Environment, View!Next, View!Controller
<1> QED BY <1>1, ViewInit, TypeCorrect, PTL DEF Spec, View!Spec
=============================================================================
