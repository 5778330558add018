---------------------------- MODULE PendedCalls ----------------------------
(***************************************************************************)
(* Functions that are left to the timer task (xTimerPendFunctionCall), as   *)
(* interrupts do to set and clear the bits of event groups, and what the    *)
(* port builds on event groups: the locks of the Pico SDK (port.c), with    *)
(* which the C library guards its heap and its output.  A task that finds   *)
(* such a lock taken waits for the bit of the lock's spin lock; whoever     *)
(* gives the lock back sets that bit.                                       *)
(***************************************************************************)
EXTENDS EventGroup, Timers

CONSTANTS Locks, SdkGroup, SdkBit

PendedParameters ==
  /\ SdkGroup \in Groups
  /\ SdkBit \in [Locks -> Bits]
  /\ (Groups \cup Timers \cup {"set bits", "clear bits", "period", "start", "stop"})
       \cap Bits = {}

VARIABLE owner          \* of each lock of the SDK

(* The message that asks the timer task for a call. *)
Ask(what, g, some) == [Token EXCEPT !.arg = {what, g} \cup some]

(* xEventGroupSetBitsFromISR, xEventGroupClearBitsFromISR: the queue of the *)
(* timer task may be full, and then nothing happens.  Clearing does not ask *)
(* whether a task was woken: the yield waits for the next tick.             *)
SetBitsFromISR(g, some) == SendFromISR(TimerQueue, Ask("set bits", g, some), TRUE)
ClearBitsFromISR(g, some) == SendFromISR(TimerQueue, Ask("clear bits", g, some), FALSE)

(* xTimerPendFunctionCall *)
PendFunctionCall(t) ==
  /\ In(t, "pend", "start")
  /\ call' = [call EXCEPT ![t].op = "send", ![t].obj = TimerQueue,
                ![t].arg = @ \cup {call[t].obj} \cup call[t].sets]
  /\ UNCHANGED <<kernel, queue, bits, owner>>

(* prvProcessReceivedCommands: vEventGroupSetBitsCallback or                *)
(* vEventGroupClearBitsCallback, in the timer task.                         *)
HandlePended ==
  LET c == call[Daemon]
      some == c.arg \cap Bits
      back == [DaemonCall EXCEPT !.pc = "commands"]
  IN  /\ DaemonIs("handle")
      /\ \E g \in c.arg \cap Groups :
           \/ /\ "set bits" \in c.arg
              /\ kernel' = Answered(kernel, g, bits[g] \cup some)
              /\ bits' = [bits EXCEPT ![g] = Left(kernel, g, @ \cup some)]
              /\ call' = [call EXCEPT ![Daemon] = Leaving(back, FALSE, "commands")]
           \/ /\ "clear bits" \in c.arg
              /\ bits' = [bits EXCEPT ![g] = @ \ some]
              /\ call' = [call EXCEPT ![Daemon] = back]
              /\ UNCHANGED kernel
      /\ UNCHANGED <<queue, owner>>

-----------------------------------------------------------------------------
(* The locks of the SDK; their spin lock masks the interrupts.              *)

(* vPortLockInternalSpinUnlockWithWait: the spin lock is kept until         *)
(* xTaskResumeAll enables the interrupts, at the end of the first half of   *)
(* xEventGroupWaitBits.  If the bit is set it only clears it.               *)
SpinUnlockWithWait(t, ticks, rest) ==
  LET bit == {SdkBit[call[t].obj]}
      waits == bit \cap bits[SdkGroup] = {}
      k == PlaceOnUnorderedEventList(SuspendAll(kernel), <<SdkGroup, "bits">>,
                                     bit \cup {"clear", "in use"}, ticks)
  IN  /\ kernel' = ResumeAll(IF waits THEN k ELSE SuspendAll(kernel))
      /\ bits' = [bits EXCEPT ![SdkGroup] = @ \ bit]
      /\ call' = [call EXCEPT
           ![t].pc = IF ~waits THEN rest
                     ELSE IF AlreadyYielded(k) THEN "locked out" ELSE "yield",
           ![t].then = IF waits THEN "locked out" ELSE @]
      /\ UNCHANGED owner

TakesLock(t) ==
  /\ owner[call[t].obj] = None
  /\ owner' = [owner EXCEPT ![call[t].obj] = t]
  /\ Return(t, "ok")
  /\ UNCHANGED <<kernel, bits>>

(* mutex_enter_blocking *)
EnterLock(t) ==
  /\ In(t, "lock", "start")
  /\ TakesLock(t) \/ (owner[call[t].obj] # None /\ SpinUnlockWithWait(t, MaxDelay, "start"))
  /\ UNCHANGED queue

(* mutex_enter_block_until, over                                            *)
(* xPortLockInternalSpinUnlockWithBestEffortWaitOrTimeout: it waits a tick  *)
(* less than what is left, rounded down (prvGetTicksToWaitBefore), and does *)
(* the rest by asking again and again.                                      *)
EnterLockUntil(t) ==
  /\ In(t, "lock until", "start")
  /\ call' = [call EXCEPT ![t] = [Deadline(@) EXCEPT !.pc = "try"]]
  /\ UNCHANGED <<kernel, queue, bits, owner>>

TicksToWaitBefore(moment) == {moment - Clock(kernel) - 1, moment - Clock(kernel) - 2}
TryLock(t) ==
  /\ In(t, "lock until", "try")
  /\ \/ TakesLock(t)
     \/ /\ owner[call[t].obj] # None
        /\ \E ticks \in TicksToWaitBefore(call[t].until) :
             \/ ticks > 0 /\ SpinUnlockWithWait(t, ticks, "time")
             \/ ticks <= 0 /\ Goto(t, "time") /\ UNCHANGED <<kernel, bits, owner>>
  /\ UNCHANGED queue

TimeReached(t) ==
  /\ Running(t, "time")
  /\ \/ /\ Clock(kernel) >= call[t].until
        /\ Return(t, "timeout") /\ UNCHANGED kernel
     \/ /\ Clock(kernel) < call[t].until
        /\ kernel' = Yield(kernel) /\ Goto(t, "try")
  /\ UNCHANGED <<queue, bits, owner>>

(* The rest of xEventGroupWaitBits, and back to look at the lock again. *)
LockedOut(t) ==
  LET bit == {SdkBit[call[t].obj]} IN
  /\ Running(t, "locked out")
  /\ kernel' = ItemReset(kernel, t)
  /\ bits' = [bits EXCEPT ![SdkGroup] = IF "hit" \in kernel.mark[t] THEN @ ELSE @ \ bit]
  /\ Goto(t, IF call[t].op = "lock" THEN "start" ELSE "time")
  /\ UNCHANGED <<queue, owner>>

(* mutex_exit, over vPortLockInternalSpinUnlockWithNotify in a task. *)
ExitLock(t) ==
  LET l == call[t].obj IN
  /\ In(t, "unlock", "start")
  /\ owner' = [owner EXCEPT ![l] = None]
  /\ call' = [call EXCEPT ![t].op = "set bits", ![t].obj = SdkGroup, ![t].sets = {SdkBit[l]}]
  /\ UNCHANGED <<kernel, queue, bits>>

PendedSteps(t) ==
  \/ PendFunctionCall(t)
  \/ EnterLock(t) \/ EnterLockUntil(t) \/ TryLock(t) \/ TimeReached(t) \/ LockedOut(t)
  \/ ExitLock(t)
=============================================================================
