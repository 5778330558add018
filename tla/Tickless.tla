------------------------------ MODULE Tickless ------------------------------
(***************************************************************************)
(* Idle without ticks (configUSE_TICKLESS_IDLE): when nothing has to be     *)
(* done for a while the idle task stops the tick, sleeps until the next     *)
(* task is due or an interrupt comes, and steps the counter on by the ticks *)
(* that did not happen.  Here at and value of the idle task's call are the  *)
(* ticks that have passed while it slept and how many it may sleep; cut     *)
(* says that the timer has counted to zero.                                 *)
(***************************************************************************)
EXTENDS TaskCalls

CONSTANTS
  MinSleep,             \* configEXPECTED_IDLE_TIME_BEFORE_SLEEP
  MaxSuppressed         \* xMaximumPossibleSuppressedTicks

TicklessParameters == MinSleep \in Nat \ {0, 1} /\ MaxSuppressed \in Nat \ {0}

(* prvGetExpectedIdleTime *)
OthersReady(k) ==
  \/ k.prio[k.current] > 0 \/ Len(k.ready[0]) > 2
  \/ \E p \in Priorities \ {0} : HasEntries(k.ready[p])
ExpectedIdleTime(k) == IF OthersReady(k) THEN 0 ELSE k.nextUnblock - k.tick

(* The idle task looks whether it is worth it, and again when no task can   *)
(* become ready any more.                                                   *)
ConsiderSleep ==
  /\ Running(Idle, "user") /\ kernel.dying = <<>>
  /\ ExpectedIdleTime(kernel) >= MinSleep
  /\ kernel' = SuspendAll(kernel)
  /\ call' = [call EXCEPT ![Idle] = [Enters("sleep", None, {}, 0, 0) EXCEPT !.pc = "suspended"]]

Suppressed(expected) == IF expected > MaxSuppressed THEN MaxSuppressed ELSE expected
StopTick ==
  LET expected == ExpectedIdleTime(kernel) IN
  /\ Running(Idle, "suspended")
  /\ call' = [call EXCEPT ![Idle] =
                IF expected >= MinSleep THEN [@ EXCEPT !.pc = "stopped", !.value = Suppressed(expected)]
                                        ELSE Leaving(@, FALSE, "return")]
  /\ UNCHANGED kernel

(* eTaskConfirmSleepModeStatus, with the interrupts masked: an interrupt    *)
(* may have come since the scheduler was suspended.                         *)
AbortsSleep(k) == k.pending # <<>> \/ k.yieldPending \/ k.pended # 0
Confirm ==
  /\ Running(Idle, "stopped")
  /\ call' = [call EXCEPT ![Idle] = IF AbortsSleep(kernel) THEN Leaving(@, FALSE, "return")
                                                         ELSE [@ EXCEPT !.pc = "asleep"]]
  /\ UNCHANGED kernel

(* A tick period passes while the tick is stopped.  The last one interrupts *)
(* as soon as interrupts are let through, and is counted as pended.         *)
Sleeping == call[Idle].pc \in {"asleep", "awake"}
PeriodPasses ==
  LET c == call[Idle]
      last == c.at + 1 = c.value
  IN  /\ Sleeping /\ ~c.cut
      /\ Clock(kernel) + kernel.pended + c.at < Horizon
      /\ kernel' = IF last THEN IncrementTick(kernel).state ELSE kernel
      /\ call' = [call EXCEPT ![Idle] = IF last THEN [@ EXCEPT !.pc = "awake", !.cut = TRUE]
                                                ELSE [@ EXCEPT !.at = @ + 1]]

(* Another interrupt ends the sleep; it is handled before the next step. *)
Awake ==
  /\ Running(Idle, "asleep")
  /\ Goto(Idle, "awake")
  /\ UNCHANGED kernel

(* vTaskStepTick, with the whole periods that were slept through, of which  *)
(* the timer's interrupt counts the last.                                   *)
StepsTo(k, ticks) ==
  IF k.tick + ticks = k.nextUnblock
  THEN [k EXCEPT !.tick = @ + ticks - 1, !.pended = @ + 1]
  ELSE [k EXCEPT !.tick = @ + ticks]
StepTick ==
  /\ Running(Idle, "awake")
  /\ kernel' = StepsTo(kernel, call[Idle].at)
  /\ call' = [call EXCEPT ![Idle] = Leaving([@ EXCEPT !.at = 0], FALSE, "return")]

SleepSteps == ConsiderSleep \/ StopTick \/ Confirm \/ PeriodPasses \/ Awake \/ StepTick

(* xTaskCatchUpTicks: ticks that were missed, made up for as pended ones. *)
CatchUpTicks(t) ==
  /\ In(t, "catch up", "start")
  /\ Clock(kernel) + kernel.pended + call[t].value <= Horizon
  /\ kernel' = [SuspendAll(kernel) EXCEPT !.pended = @ + call[t].value]
  /\ call' = [call EXCEPT ![t] = Leaving([@ EXCEPT !.result = "ok"], FALSE, "return")]

-----------------------------------------------------------------------------
(* The time that has really passed is not changed by going to sleep or      *)
(* waking: no tick is lost and none counted twice; and nobody sleeps past   *)
(* the moment a task is due (configASSERT in vTaskStepTick).                *)
TrueTime == Clock(kernel) + kernel.pended + call[Idle].at
SleepKeepsTime ==
  /\ call'[Idle].pc # call[Idle].pc /\ ~(~call[Idle].cut /\ call'[Idle].cut) => TrueTime' = TrueTime
  /\ Sleeping => kernel.tick + kernel.pended + call[Idle].at <= kernel.nextUnblock
=============================================================================
