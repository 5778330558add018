------------------------------- MODULE Timers -------------------------------
(***************************************************************************)
(* The software timers of the kernel (timers.c).  A timer is started or     *)
(* stopped by a message to the timer task, which is the daemon of highest   *)
(* priority; the daemon keeps the active timers in a list for the present   *)
(* turn of the tick counter and in one for the next, and swaps them when it *)
(* sees that the counter has wrapped.                                       *)
(***************************************************************************)
EXTENDS Queue

CONSTANTS Daemon, TimerQueue, Timers, Period, Reloading

TimerParameters ==
  /\ Daemon \in Tasks /\ TimerQueue \in Queues
  /\ Period \in [Timers -> 1 .. MaxDelay] /\ Reloading \subseteq Timers

VARIABLE timers

NewTimers ==
  [current |-> <<>>, next |-> <<>>,         \* pxCurrentTimerList, pxOverflowTimerList
   value |-> [x \in Timers |-> 0], period |-> Period, active |-> {},
   reloads |-> Reloading,                   \* the status bit of each
   last |-> kernel.tick,                    \* xLastTime
   expire |-> 0, empty |-> TRUE,            \* the daemon's locals
   due |-> [x \in Timers |-> 0],            \* history: when the timer should fire
   fired |-> [x \in Timers |-> 0]]          \* history: how often it has

(* The daemon starts in its loop, and is in it for ever. *)
DaemonCall == [Enters("daemon", TimerQueue, {}, 0, 0) EXCEPT !.pc = "look"]

(* xTimerGenericCommand: the message carries the time at which it was made. *)
Command(t) ==
  /\ In(t, "command", "start")
  /\ call' = [call EXCEPT ![t].op = "send", ![t].obj = TimerQueue, ![t].at = Clock(kernel),
                ![t].value = IF "period" \in call[t].arg THEN @ ELSE kernel.tick]
  /\ UNCHANGED kernel

(* vTimerSetReloadMode changes the timer itself, whatever the daemon does. *)
SetReloadMode(t) ==
  /\ In(t, "reload mode", "start")
  /\ timers' = [timers EXCEPT !.reloads = IF "reload" \in call[t].arg THEN @ \cup call[t].sets
                                                                     ELSE @ \ call[t].sets]
  /\ Return(t, "ok")
  /\ UNCHANGED <<kernel, queue>>

Fire(ts, x) == [ts EXCEPT !.fired[x] = @ + 1, !.due[x] = @ + ts.period[x]]
Unlist(ts, x) == [ts EXCEPT !.current = Remove(@, x), !.next = Remove(@, x)]

(* prvInsertTimerInActiveList: whether the timer is overdue already, and    *)
(* otherwise the list it goes into.                                         *)
Overdue(ts, x, expiry, now, commanded) ==
  IF expiry <= now THEN (now - commanded) % Wrap >= ts.period[x]
                   ELSE now < commanded /\ expiry >= commanded
Insert(ts, x, expiry, now) ==
  LET set == [ts EXCEPT !.value[x] = expiry]
  IN  IF expiry <= now THEN [set EXCEPT !.next = InsertInOrder(@, x, set.value)]
                       ELSE [set EXCEPT !.current = InsertInOrder(@, x, set.value)]

(* prvReloadTimer: a timer that reloads fires once for every period missed. *)
Reload(ts, x, expired, now) ==
  LET following(e) == (e + ts.period[x]) % Wrap
      one(s, i) ==
        IF s.done THEN s
        ELSE IF Overdue(s.ts, x, following(s.expired), now, s.expired)
        THEN [s EXCEPT !.ts = Fire(@, x), !.expired = following(@)]
        ELSE [s EXCEPT !.ts = Insert(@, x, following(s.expired), now), !.done = TRUE]
  IN  FoldLeft(one, [ts |-> ts, expired |-> expired, done |-> FALSE], [i \in 1 .. Wrap |-> i]).ts

AfterExpiry(ts, x, expired, now) ==
  IF x \in ts.reloads THEN Reload(ts, x, expired, now) ELSE [ts EXCEPT !.active = @ \ {x}]

(* prvProcessExpiredTimer *)
ProcessExpired(ts, x, expired, now) == Fire(AfterExpiry(Unlist(ts, x), x, expired, now), x)

(* prvSampleTimeNow; when the counter has wrapped, all that is left in the  *)
(* current list expires (prvSwitchTimerLists).                              *)
Wrapped == kernel.tick < timers.last
Sampled(ts) ==
  LET one(s, x) == ProcessExpired(s, x, s.value[x], MaxDelay)
      done == FoldLeft(one, ts, ts.current)
      swapped == [done EXCEPT !.current = done.next, !.next = done.current]
  IN  [(IF Wrapped THEN swapped ELSE ts) EXCEPT !.last = kernel.tick]

-----------------------------------------------------------------------------
(* prvTimerTask: look, wait or process a timer, then the commands.          *)

DaemonIs(pc) == Running(Daemon, pc) /\ call[Daemon].op = "daemon"

(* prvGetNextExpireTime *)
Look ==
  /\ DaemonIs("look")
  /\ timers' = [timers EXCEPT !.empty = (timers.current = <<>>),
       !.expire = IF timers.current = <<>> THEN 0 ELSE timers.value[Head(timers.current)]]
  /\ Goto(Daemon, "sample")
  /\ UNCHANGED <<kernel, queue>>

(* prvProcessTimerOrBlockTask *)
Sample ==
  LET c == [call[Daemon] EXCEPT !.value = kernel.tick]
      forever == timers.empty /\ timers.next = <<>>
  IN  /\ DaemonIs("sample")
      /\ kernel' = SuspendAll(kernel)
      /\ timers' = Sampled(timers)
      /\ call' = [call EXCEPT ![Daemon] =
           IF Wrapped THEN Leaving(c, FALSE, "commands")
           ELSE IF ~timers.empty /\ timers.expire <= kernel.tick
           THEN Leaving(c, FALSE, "expire")
           ELSE [c EXCEPT !.pc = "lock", !.arg = IF forever THEN {"forever"} ELSE {},
                          !.ticks = (timers.expire - kernel.tick) % Wrap]]
      /\ UNCHANGED queue

(* vQueueWaitForMessageRestricted, once the queue is locked. *)
WaitForMessage ==
  LET c == call[Daemon]
      waiting == PlaceOnEventListRestricted(kernel, Receivers(TimerQueue), c.ticks,
                                            "forever" \in c.arg)
  IN  /\ DaemonIs("check")
      /\ kernel' = IF IsEmpty(TimerQueue) THEN waiting ELSE kernel
      /\ call' = [call EXCEPT ![Daemon] = [Leaving(Deadline(c), TRUE, "commands")
                                             EXCEPT !.pc = "unlock"]]
      /\ UNCHANGED <<queue, timers>>

Expire ==
  /\ DaemonIs("expire")
  /\ timers' = ProcessExpired(timers, Head(timers.current), timers.expire, call[Daemon].value)
  /\ Goto(Daemon, "commands")
  /\ UNCHANGED <<kernel, queue>>

(* prvProcessReceivedCommands: one message after the other, then again.     *)
NextCommand ==
  LET item == Head(queue[TimerQueue].items) IN
  /\ DaemonIs("commands")
  /\ IF IsEmpty(TimerQueue)
     THEN /\ call' = [call EXCEPT ![Daemon] = DaemonCall]
          /\ UNCHANGED <<kernel, queue>>
     ELSE /\ kernel' = WakeOne(kernel, Senders(TimerQueue), FALSE)
          /\ queue' = [queue EXCEPT ![TimerQueue].items = Tail(@)]
          /\ call' = [call EXCEPT ![Daemon] = [DaemonCall EXCEPT !.pc = "handle",
                        !.arg = item.arg, !.value = item.value, !.at = item.at]]
  /\ UNCHANGED timers

Started(ts, x, command, at, now) ==
  LET on == [ts EXCEPT !.active = @ \cup {x}, !.due[x] = at + ts.period[x]]
      expiry == (command + ts.period[x]) % Wrap
  IN  IF Overdue(ts, x, expiry, now, command)
      THEN Fire(AfterExpiry(on, x, expiry, now), x)
      ELSE Insert(on, x, expiry, now)
ChangedPeriod(ts, x, period, now) ==
  Insert([ts EXCEPT !.active = @ \cup {x}, !.period[x] = period,
                    !.due[x] = Clock(kernel) + period], x, (now + period) % Wrap, now)

Handle ==
  LET c == call[Daemon] IN
  /\ DaemonIs("handle")
  /\ \E x \in c.arg \cap Timers :
       LET out == Sampled(Unlist(timers, x))
       IN  timers' = CASE "start" \in c.arg -> Started(out, x, c.value, c.at, kernel.tick)
                       [] "period" \in c.arg -> ChangedPeriod(out, x, c.value, kernel.tick)
                       [] OTHER -> [out EXCEPT !.active = @ \ {x}]
  /\ call' = [call EXCEPT ![Daemon] = [DaemonCall EXCEPT !.pc = "commands"]]
  /\ UNCHANGED <<kernel, queue>>

TimerSteps ==
  \/ Look \/ Sample \/ WaitForMessage \/ Expire \/ NextCommand \/ Handle
  \/ \E t \in Tasks : SetReloadMode(t)
=============================================================================
