----------------------------- MODULE TaskCalls ------------------------------
(***************************************************************************)
(* The calls of tasks.c: delays, notifications, suspending, resuming and    *)
(* deleting tasks, asking about them, and what runs them: the idle task,    *)
(* the tick interrupt and the context switch.  A call is a sequence of      *)
(* steps, one for each stretch of code that interrupts cannot divide or     *)
(* whose division nothing can see.                                          *)
(***************************************************************************)
EXTENDS Scheduler

CONSTANTS
  Horizon,              \* bound: the moment the clock stops at
  TaskName              \* pcTaskName; nothing makes the names differ

(* A task that is in no call, with what its last call returned. *)
Free(result) ==
  [op |-> "none", pc |-> "user", then |-> "user", yields |-> FALSE, obj |-> None,
   arg |-> {}, sets |-> {}, value |-> 0, ticks |-> 0, seen |-> [overflows |-> 0, tick |-> 0],
   boosted |-> FALSE, until |-> 0, cut |-> FALSE, at |-> 0, known |-> 0, result |-> result]

(* until is the moment the time-out of the call expires, cut whether another *)
(* task cut the wait short and at the moment a timer command is made; no    *)
(* code reads them.                                                         *)
Enters(op, obj, arg, value, ticks) ==
  [Free("none") EXCEPT !.op = op, !.pc = "start", !.obj = obj, !.arg = arg,
                       !.value = value, !.ticks = ticks]

Running(t, pc) == ~kernel.pendsv /\ kernel.current = t /\ call[t].pc = pc
In(t, op, pc) == Running(t, pc) /\ call[t].op = op

(* uxCurrentNumberOfTasks *)
NumberOfTasks ==
  Cardinality({t \in Tasks : call[t].pc # "gone" \/ t \in ToSet(kernel.dying)})

Goto(t, pc) == call' = [call EXCEPT ![t].pc = pc]
Return(t, result) == call' = [call EXCEPT ![t] = Free(result)]

(* Leave through xTaskResumeAll, and yield after it if it has not done so.  *)
Leaving(c, yields, then) == [c EXCEPT !.pc = "resume", !.yields = yields, !.then = then]
Deadline(c) == [c EXCEPT !.until = Clock(kernel) + c.ticks]

-----------------------------------------------------------------------------
(* Time-outs (vTaskInternalSetTimeOutState, xTaskCheckForTimeOut).          *)

Elapsed(c) == (kernel.tick - c.seen.tick) % Wrap
Expired(c) ==
  /\ c.ticks # MaxDelay
  /\ \/ kernel.overflows # c.seen.overflows /\ kernel.tick >= c.seen.tick
     \/ Elapsed(c) >= c.ticks
TimedOut(t) == kernel.aborted[t] \/ Expired(call[t])

(* Nothing is left of the time that is over; an aborted wait leaves it alone. *)
Spent(t) == IF kernel.aborted[t] THEN call[t] ELSE [call[t] EXCEPT !.ticks = 0]

(* What is left of the time, counted from now. *)
Counted(c) ==
  IF c.ticks = MaxDelay THEN c
  ELSE [c EXCEPT !.ticks = c.ticks - Elapsed(c), !.seen = Now(kernel)]

Sleeps(t) == t \in Timed(kernel) \cup kernel.suspended /\ t \notin ToSet(kernel.pending)

-----------------------------------------------------------------------------
Resume(t) ==
  /\ Running(t, "resume")
  /\ kernel' = ResumeAll(kernel)
  /\ Goto(t, IF AlreadyYielded(kernel) \/ ~call[t].yields THEN call[t].then ELSE "yield")

YieldWithinApi(t) ==
  /\ Running(t, "yield")
  /\ kernel' = Yield(kernel)
  /\ Goto(t, call[t].then)

Finish(t) ==
  /\ Running(t, "return")
  /\ Return(t, call[t].result)
  /\ UNCHANGED kernel

(* vTaskDelay *)
Delay(t) ==
  LET c == Deadline([call[t] EXCEPT !.result = "ok"]) IN
  /\ In(t, "delay", "start")
  /\ \/ /\ c.ticks > 0
        /\ kernel' = AddCurrentToDelayed(SuspendAll(kernel), c.ticks, FALSE)
        /\ call' = [call EXCEPT ![t] = Leaving(c, TRUE, "return")]
     \/ /\ c.ticks = 0
        /\ kernel' = Yield(kernel)
        /\ call' = [call EXCEPT ![t] = [c EXCEPT !.pc = "return"]]

(* xTaskDelayUntil: previous is the caller's variable, the moment it was    *)
(* last due at; the counter may have wrapped between that moment and now,   *)
(* between now and the next one, or both.                                   *)
SleepsUntil(previous, wake) ==
  IF kernel.tick < previous THEN wake < previous /\ wake > kernel.tick
                            ELSE wake < previous \/ wake > kernel.tick
DelayUntil(t) ==
  LET due == kernel.previous[t] + call[t].ticks
      k == [SuspendAll(kernel) EXCEPT !.previous[t] = due]
      c == [call[t] EXCEPT !.until = due, !.result = "ok"]
  IN  /\ In(t, "delay until", "start")
      /\ kernel' = IF SleepsUntil(kernel.previous[t] % Wrap, due % Wrap)
                   THEN AddCurrentToDelayed(k, (due - kernel.tick) % Wrap, FALSE) ELSE k
      /\ call' = [call EXCEPT ![t] = Leaving(c, TRUE, "return")]

-----------------------------------------------------------------------------
(* Notifications.                                                           *)

(* ulTaskNotifyTake: wait for the value, then take it. *)
NotifyWaits(t) ==
  LET k == [kernel EXCEPT !.notify[t] = "waiting"] IN
  /\ In(t, "take notification", "start")
  /\ kernel' = IF kernel.value[t] # 0 THEN kernel
               ELSE IF call[t].ticks = 0 THEN k
               ELSE Yield(AddCurrentToDelayed(k, call[t].ticks, TRUE))
  /\ call' = [call EXCEPT ![t] = [Deadline(@) EXCEPT !.pc = "taken"]]

NotifyTaken(t) ==
  LET value == kernel.value[t]
      left == IF value = 0 \/ "clear" \in call[t].arg THEN 0 ELSE value - 1
  IN  /\ Running(t, "taken")
      /\ kernel' = [kernel EXCEPT !.value[t] = left, !.notify[t] = "none"]
      /\ Return(t, IF value = 0 THEN "timeout" ELSE "ok")

(* xTaskGenericNotifyWait: wait for a notification, whatever its value; the *)
(* bits it may clear on the way in and out are all of them or none.         *)
WaitForNotification(k, t, ticks) ==
  LET waiting == [k EXCEPT !.notify[t] = "waiting"]
  IN  IF k.notify[t] = "received" THEN k
      ELSE IF ticks = 0 THEN waiting
      ELSE Yield(AddCurrentToDelayed(waiting, ticks, TRUE))
NotifyWaitBegins(t) ==
  LET clears == "clear on entry" \in call[t].arg /\ kernel.notify[t] # "received" IN
  /\ In(t, "wait notification", "start")
  /\ kernel' = WaitForNotification([kernel EXCEPT !.value[t] = IF clears THEN 0 ELSE @],
                                   t, call[t].ticks)
  /\ call' = [call EXCEPT ![t] = [Deadline(@) EXCEPT !.pc = "notified"]]

NotifyWaitEnds(t) ==
  LET received == kernel.notify[t] = "received"
      left == IF received /\ "clear on exit" \in call[t].arg THEN 0 ELSE kernel.value[t]
  IN  /\ Running(t, "notified")
      /\ kernel' = [kernel EXCEPT !.value[t] = left, !.notify[t] = "none"]
      /\ Return(t, IF received THEN "ok" ELSE "timeout")

(* xTaskGenericNotifyStateClear and ulTaskGenericNotifyValueClear, of all   *)
(* bits.  A task that was notified and has not yet run finds nothing.       *)
NotificationCleared(k, x) ==
  [k EXCEPT !.notify[x] = IF @ = "received" THEN "none" ELSE @]
NotifyStateClear(t) ==
  LET x == call[t].obj
      received == kernel.notify[x] = "received"
  IN  /\ In(t, "clear state", "start")
      /\ kernel' = NotificationCleared(kernel, x)
      /\ call' = [call EXCEPT ![t] = Free(IF received THEN "ok" ELSE "failed"),
                    ![x].cut = @ \/ x # t]
NotifyValueClear(t) ==
  LET x == call[t].obj IN
  /\ In(t, "clear value", "start")
  /\ kernel' = [kernel EXCEPT !.value[x] = 0]
  /\ call' = [call EXCEPT ![t] = Free("ok"), ![x].cut = @ \/ x # t]

(* The value and the state of the notified task, by the action asked for. *)
NotifyValue(k, t, action, value) ==
  CASE action = "increment" -> k.value[t] + 1
    [] action = "overwrite" -> value
    [] action = "keep" -> IF k.notify[t] = "received" THEN k.value[t] ELSE value
    [] OTHER -> k.value[t]
Notified(k, t, action, value) ==
  [k EXCEPT !.value[t] = NotifyValue(k, t, action, value), !.notify[t] = "received"]

(* xTaskGenericNotify; eSetBits, which nobody asks for, is left out. *)
NotifiedBy(k, to, action, value) ==
  LET told == Notified(k, to, action, value)
  IN  IF k.notify[to] # "waiting" THEN told
      ELSE YieldIf(Outranks(told, to), AddToReady(RemoveState(told, to), to))
Notify(t) ==
  LET to == call[t].obj IN
  /\ In(t, "notify", "start")
  /\ \E action \in call[t].arg :
       LET kept == action = "keep" /\ kernel.notify[to] = "received" IN
       /\ kernel' = NotifiedBy(kernel, to, action, call[t].value)
       /\ Return(t, IF kept THEN "failed" ELSE "ok")

(* xTaskGenericNotifyFromISR, and the yield its caller makes of the answer. *)
NotifyFromISR(to, action, value) ==
  LET k == Notified(kernel, to, action, value) IN
  /\ kernel' = IF kernel.notify[to] # "waiting" THEN k
               ELSE YieldIf(Outranks(k, to), PendYieldFor(Release(k, to), to))
  /\ UNCHANGED call

(* vTaskGenericNotifyGiveFromISR *)
NotifyGiveFromISR(to) == NotifyFromISR(to, "increment", 0)

-----------------------------------------------------------------------------
(* One task and another.                                                    *)

(* vTaskSuspend: out of every list, and a wait for a notification is given up. *)
Suspended(k, x) ==
  LET out == RemoveEvent(RemoveState(k, x), x)
  IN  ResetNextUnblock([out EXCEPT !.suspended = @ \cup {x},
                          !.notify[x] = IF @ = "waiting" THEN "none" ELSE @])
Suspend(t) ==
  LET x == call[t].obj IN
  /\ In(t, "suspend", "start")
  /\ kernel' = Suspended(kernel, x)
  /\ IF x = t THEN call' = [call EXCEPT ![t].pc = "yield", ![t].then = "return"]
              ELSE call' = [call EXCEPT ![t] = Free("ok"), ![x].cut = TRUE]

(* prvTaskIsTaskSuspended: in that list, and waiting for no event in any. *)
IsSuspended(k, x) ==
  /\ x \in k.suspended
  /\ x \notin ToSet(k.pending)
  /\ WaitsFor(k, x) = {}

(* vTaskResume *)
ResumeTask(t) ==
  LET x == call[t].obj IN
  /\ In(t, "resume task", "start")
  /\ kernel' = IF x = t \/ ~IsSuspended(kernel, x) THEN kernel
               ELSE YieldIf(Outranks(kernel, x), AddToReady(RemoveState(kernel, x), x))
  /\ Return(t, "ok")

(* xTaskResumeFromISR: while the scheduler is suspended the task stays in   *)
(* the suspended list and is put in the pending one as well.                *)
ResumeFromISR(x) ==
  /\ kernel' = IF ~IsSuspended(kernel, x) THEN kernel
               ELSE IF kernel.suspensions > 0 THEN Release(kernel, x)
               ELSE YieldIf(Outranks(kernel, x), PendYieldFor(MakeReady(kernel, x), x))
  /\ UNCHANGED call

(* eTaskGetState *)
StateOf(k, x) ==
  CASE x = k.current -> "running"
    [] x \in ToSet(k.pending) -> "ready"
    [] x \in Timed(k) -> "blocked"
    [] x \in k.suspended ->
         IF WaitsFor(k, x) # {} \/ k.notify[x] = "waiting" THEN "blocked" ELSE "suspended"
    [] ReadyAt(k, x) # {} -> "ready"
    [] OTHER -> "deleted"

(* xTaskAbortDelay *)
Aborted(k, x) ==
  LET out == [RemoveEvent(k, x) EXCEPT !.aborted[x] = @ \/ WaitsFor(k, x) # {}]
  IN  PendYieldFor(AddToReady(RemoveState(out, x), x), x)
AbortDelay(t) ==
  LET x == call[t].obj
      cut == StateOf(SuspendAll(kernel), x) = "blocked"
      c == Leaving([call[t] EXCEPT !.result = "ok"], FALSE, "return")
  IN  /\ In(t, "abort delay", "start")
      /\ kernel' = IF cut THEN Aborted(SuspendAll(kernel), x) ELSE SuspendAll(kernel)
      /\ call' = [call EXCEPT ![t] = c, ![x].cut = @ \/ cut]

(* vTaskPrioritySet: an inherited priority outlives a change of the base. *)
PrioritySetYields(k, x, priority) ==
  IF priority > k.base[x] THEN x # k.current /\ priority > k.prio[k.current]
                          ELSE x = k.current
PrioritySet(t) ==
  LET x == call[t].obj
      priority == call[t].value
      own == IF kernel.base[x] = kernel.prio[x] THEN priority ELSE kernel.prio[x]
      k == RankBy([kernel EXCEPT !.base[x] = priority], x, priority)
  IN  /\ In(t, "set priority", "start")
      /\ kernel' = IF kernel.base[x] = priority THEN kernel
                   ELSE YieldIf(PrioritySetYields(kernel, x, priority), MoveTo(k, x, own))
      /\ Return(t, "ok")

(* vTaskDelete: a task that deletes itself is left to the idle task. *)
Delete(t) ==
  LET x == call[t].obj
      out == RemoveEvent(RemoveState(kernel, x), x)
  IN  /\ In(t, "delete", "start")
      /\ IF x = t
         THEN /\ kernel' = [out EXCEPT !.dying = InsertEnd(@, x)]
              /\ call' = [call EXCEPT ![t].pc = "yield", ![t].then = "gone"]
         ELSE /\ kernel' = ResetNextUnblock(out)
              /\ call' = [call EXCEPT ![t] = Free("ok"), ![x] = [Free("none") EXCEPT !.pc = "gone"]]

(* prvAddNewTaskToReadyList: a task made anew where one was deleted. *)
Reborn(k, x) ==
  [k EXCEPT !.prio[x] = BasePriority[x], !.base[x] = BasePriority[x], !.held[x] = 0,
            !.rank[x] = MaxPriorities - BasePriority[x], !.mark[x] = {},
            !.notify[x] = "none", !.value[x] = 0, !.aborted[x] = FALSE, !.wake[x] = 0]
Create(t) ==
  LET x == call[t].obj
      k == AddToReady(Reborn(kernel, x), x)
  IN  /\ In(t, "create", "start")
      /\ kernel' = YieldIf(Outranks(k, x), k)
      /\ call' = [call EXCEPT ![t] = Free("ok"), ![x] = Free("none")]

-----------------------------------------------------------------------------
(* prvCheckTasksWaitingTermination, by the idle task. *)
CleanUp ==
  /\ Running(Idle, "user")
  /\ kernel.dying # <<>>
  /\ kernel' = RemoveState(kernel, Head(kernel.dying))
  /\ call' = [call EXCEPT ![Head(kernel.dying)] = [Free("none") EXCEPT !.pc = "gone"]]

(* configIDLE_SHOULD_YIELD *)
IdleYields ==
  /\ Running(Idle, "user")
  /\ kernel.dying = <<>> /\ Len(kernel.ready[0]) > 2
  /\ kernel' = Yield(kernel)
  /\ UNCHANGED call

(* Unless the idle task has stopped it. *)
TickStopped == call[Idle].pc \in {"stopped", "asleep", "awake"}
SysTick ==
  LET r == IncrementTick(kernel) IN
  /\ ~kernel.pendsv /\ ~TickStopped
  /\ Clock(kernel) + kernel.pended < Horizon
  /\ kernel' = YieldIf(r.switch, r.state)
  /\ UNCHANGED call

PendSV ==
  /\ kernel.pendsv
  /\ kernel' = SwitchContext([kernel EXCEPT !.pendsv = FALSE])
  /\ UNCHANGED call

TaskSteps(t) ==
  \/ Resume(t) \/ YieldWithinApi(t) \/ Finish(t)
  \/ Delay(t) \/ DelayUntil(t)
  \/ NotifyWaits(t) \/ NotifyTaken(t) \/ NotifyWaitBegins(t) \/ NotifyWaitEnds(t)
  \/ Notify(t) \/ NotifyStateClear(t) \/ NotifyValueClear(t)
  \/ Suspend(t) \/ ResumeTask(t) \/ AbortDelay(t) \/ PrioritySet(t)
  \/ Delete(t) \/ Create(t)

-----------------------------------------------------------------------------
(* What tasks.c tells of its tasks: the state of one, the table of all, and *)
(* the task of a given name.  The table and the search walk the lists with  *)
(* the same index that shares out the processor, and leave it elsewhere.    *)

Entries(list) == SelectSeq(list, LAMBDA x : x # End)

(* The order in which a list is walked: the walk notes the first entry the  *)
(* index comes to, starts with the second, and ends at the first.           *)
Walk(list) == Entries(Advance(Advance(list)))
Walked(list) == IF HasEntries(list) THEN Advance(list) ELSE list

(* vTaskGetInfo, given the list in which the task was found.  It takes a    *)
(* task of the suspended list that waits for no event to be suspended.      *)
ListState(k, t) ==
  CASE t \in Timed(k) -> "blocked"
    [] t \in ToSet(k.dying) -> "deleted"
    [] t \in k.suspended -> IF WaitsFor(k, t) # {} THEN "blocked" ELSE "suspended"
    [] OTHER -> "ready"
InfoState(k, t) ==
  IF t = k.current THEN "running" ELSE IF t \in ToSet(k.pending) THEN "ready" ELSE ListState(k, t)

(* vTaskList: an array for as many tasks as there are, then a row of each;  *)
(* their number is read once for the rows and once more for the array.      *)
CountTasks(t) ==
  /\ In(t, "list tasks", "start")
  /\ call' = [call EXCEPT ![t].value = NumberOfTasks, ![t].pc = "array"]
  /\ UNCHANGED kernel

AllocateArray(t) ==
  /\ Running(t, "array")
  /\ call' = [call EXCEPT ![t].known = NumberOfTasks, ![t].pc = "rows"]
  /\ UNCHANGED kernel

(* uxTaskGetSystemState *)
SystemStateRows(room) == IF room >= NumberOfTasks THEN NumberOfTasks ELSE 0
FillArray(t) ==
  LET rows == SystemStateRows(call[t].value)
      k == SuspendAll(kernel)
      walked == [p \in Priorities |-> Walked(k.ready[p])]
      c == [call[t] EXCEPT !.value = rows, !.result = IF rows = 0 THEN "failed" ELSE "ok"]
  IN  /\ Running(t, "rows")
      /\ kernel' = IF rows = 0 THEN k ELSE [k EXCEPT !.ready = walked]
      /\ call' = [call EXCEPT ![t] = Leaving(c, FALSE, "return")]

-----------------------------------------------------------------------------
(* xTaskGetHandle: the lists are searched in this order, the ready ones     *)
(* from the highest priority down (prvSearchForNameWithinSingleList).       *)
Named(list, name) == SelectSeq(list, LAMBDA x : TaskName[x] = name)
Searched(k) == [i \in 1 .. MaxPriorities |-> Walk(k.ready[MaxPriorities - i])]
               \o <<k.delayed, k.overflow, SetToSeq(k.suspended), k.dying>>
TaskNamed(k, name) ==
  LET found == FlattenSeq([i \in DOMAIN Searched(k) |-> Named(Searched(k)[i], name)])
  IN  IF found = <<>> THEN None ELSE Head(found)

(* The ready lists after the search: the index stays at the task that was   *)
(* found, and the lists below it were not looked at.                        *)
UpTo(list, t) == LET i == Min({j \in DOMAIN list : list[j] = t})
                 IN  SubSeq(list, i, Len(list)) \o SubSeq(list, 1, i - 1)
AfterSearch(k, t) ==
  LET at == IF t # None /\ ReadyAt(k, t) # {} THEN k.prio[t] ELSE -1
      after(p) == IF p = at THEN UpTo(k.ready[p], t)
                  ELSE IF p > at THEN Walked(k.ready[p]) ELSE k.ready[p]
  IN  [k EXCEPT !.ready = [p \in Priorities |-> after(p)]]

FindTask(t) ==
  /\ In(t, "find", "start")
  /\ \E name \in call[t].arg :
       LET k == SuspendAll(kernel)
           found == TaskNamed(k, name)
       IN  /\ kernel' = AfterSearch(k, found)
           /\ call' = [call EXCEPT ![t] = Leaving([@ EXCEPT !.result = found], FALSE, "return")]

InfoSteps(t) == CountTasks(t) \/ AllocateArray(t) \/ FillArray(t) \/ FindTask(t)

-----------------------------------------------------------------------------
(* The two ways to ask for a task's state agree, but for a task that waits  *)
(* for ever for a notification; no row is written past the array, where no  *)
(* task is made anew meanwhile; a name is found if and only if a task has   *)
(* it; and looking has not changed who is in which list.                    *)
InfoHonest ==
  /\ \A t \in Tasks :
       LET state == StateOf(kernel, t) IN
         state # "deleted" =>
           \/ InfoState(kernel, t) = state
           \/ InfoState(kernel, t) = "suspended" /\ kernel.notify[t] = "waiting"
  /\ \A t \in Tasks : call[t].op = "list tasks" /\ call[t].pc \in {"resume", "return"} =>
       call[t].value <= call[t].known
  /\ \A t \in Tasks : call[t].op = "find" /\ call[t].pc = "resume" =>
       IF call[t].result # None THEN TaskName[call[t].result] \in call[t].arg
       ELSE \A x \in Tasks : TaskName[x] \in call[t].arg => StateOf(kernel, x) = "deleted"
=============================================================================
