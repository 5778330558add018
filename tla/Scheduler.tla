----------------------------- MODULE Scheduler ------------------------------
(***************************************************************************)
(* The scheduler of the FreeRTOS kernel (tasks.c) as this program builds it: *)
(* one core, preemption, time slicing, priority inheritance.                *)
(*                                                                         *)
(* Everything tasks.c keeps is one record, kernel, and every function that  *)
(* changes it is an operator from such a record to the next, so that a      *)
(* critical section that calls several of them is their composition and one *)
(* step.  Interrupts and the tick come between the steps of a task.  A yield *)
(* only pends the context switch (PendSV): the task goes no further before  *)
(* the switch has been made.                                                *)
(***************************************************************************)
EXTENDS TaskList, FiniteSets

CONSTANTS Tasks, Idle, None,
          MaxPriorities,        \* configMAX_PRIORITIES
          BasePriority,         \* the priority each task is created with
          Wrap,                 \* TickType_t counts modulo this
          EventLists            \* the lists a task may wait in for an event

SchedulerParameters ==
  /\ Idle \in Tasks /\ None \notin Tasks /\ End \notin Tasks
  /\ BasePriority \in [Tasks -> 0 .. MaxPriorities - 1]
  /\ BasePriority[Idle] = 0
  /\ Wrap \in Nat /\ Wrap > 2

VARIABLES
  kernel,       \* the lists, the task control blocks and the counters
  call          \* the kernel call each task is in, and how far it has got

MaxDelay == Wrap - 1                    \* portMAX_DELAY
Priorities == 0 .. MaxPriorities - 1

(* Where the functions of the kernel look a task up. *)
Timed(k) == ToSet(k.delayed) \cup ToSet(k.overflow)
ReadyAt(k, t) == {p \in Priorities : t \in ToSet(k.ready[p])}
WaitsFor(k, t) == {l \in EventLists : t \in ToSet(k.events[l])}
Outranks(k, t) == k.prio[t] > k.prio[k.current]

(* The time since the start, and the moment as xTaskCheckForTimeOut notes it. *)
Clock(k) == k.overflows * Wrap + k.tick
Now(k) == [overflows |-> k.overflows, tick |-> k.tick]

Yield(k) == [k EXCEPT !.pendsv = TRUE]
YieldIf(condition, k) == IF condition THEN Yield(k) ELSE k

-----------------------------------------------------------------------------
(* Moving a task between the lists.                                         *)

AddToReady(k, t) == [k EXCEPT !.ready[k.prio[t]] = InsertEnd(@, t)]

RemoveState(k, t) ==
  [k EXCEPT !.ready = [p \in Priorities |->
                         IF t \in ToSet(@[p]) THEN RemoveEntry(@[p], t) ELSE @[p]],
            !.delayed = Remove(@, t), !.overflow = Remove(@, t),
            !.suspended = @ \ {t}, !.dying = Remove(@, t)]

RemoveEvent(k, t) ==
  [k EXCEPT !.pending = Remove(@, t),
            !.events = [l \in EventLists |-> Remove(@[l], t)]]

MakeReady(k, t) == AddToReady(RemoveState(RemoveEvent(k, t), t), t)

(* A task whose priority changes is moved only if it is in a ready list. *)
MoveToInPlace(k, t, priority) == [k EXCEPT !.prio[t] = priority]   \* slip: never moved
MoveTo(k, t, priority) ==
  IF ReadyAt(k, t) # {} THEN AddToReady([RemoveState(k, t) EXCEPT !.prio[t] = priority], t)
                        ELSE [k EXCEPT !.prio[t] = priority]

(* The value an event list sorts by, unless an event group uses the item. *)
RankBy(k, t, priority) ==
  IF k.mark[t] = {} THEN [k EXCEPT !.rank[t] = MaxPriorities - priority] ELSE k

ResetNextUnblock(k) ==
  [k EXCEPT !.nextUnblock = IF k.delayed = <<>> THEN MaxDelay ELSE k.wake[Head(k.delayed)]]

(* prvAddCurrentTaskToDelayedList *)
AddCurrentToDelayedInOne(k, ticks, forever) ==  \* slip: no list for the next turn
  LET t == k.current
      timed == [RemoveState(k, t) EXCEPT !.aborted[t] = FALSE, !.wake[t] = (k.tick + ticks) % Wrap]
  IN  [timed EXCEPT !.delayed = InsertInOrder(@, t, timed.wake),
                    !.nextUnblock = IF timed.wake[t] < @ THEN timed.wake[t] ELSE @]
AddCurrentToDelayed(k, ticks, forever) ==
  LET t == k.current
      wake == (k.tick + ticks) % Wrap
      out == [RemoveState(k, t) EXCEPT !.aborted[t] = FALSE]
      timed == [out EXCEPT !.wake[t] = wake]
  IN  IF ticks = MaxDelay /\ forever
      THEN [out EXCEPT !.suspended = @ \cup {t}]
      ELSE IF wake < k.tick
      THEN [timed EXCEPT !.overflow = InsertInOrder(@, t, timed.wake)]
      ELSE [timed EXCEPT !.delayed = InsertInOrder(@, t, timed.wake),
                         !.nextUnblock = IF wake < @ THEN wake ELSE @]

-----------------------------------------------------------------------------
(* Waiting for an event and being woken.                                    *)

PlaceOnEventList(k, l, ticks) ==
  AddCurrentToDelayed([k EXCEPT !.events[l] = InsertInOrder(@, k.current, k.rank)], ticks, TRUE)

PlaceOnEventListRestricted(k, l, ticks, forever) ==
  AddCurrentToDelayed([k EXCEPT !.events[l] = InsertEnd(@, k.current)],
                      IF forever THEN MaxDelay ELSE ticks, forever)

PlaceOnUnorderedEventList(k, l, mark, ticks) ==
  AddCurrentToDelayed([k EXCEPT !.events[l] = InsertEnd(@, k.current),
                                !.mark[k.current] = mark], ticks, TRUE)

(* While the scheduler is suspended a woken task waits in the pending list. *)
Release(k, t) ==
  IF k.suspensions = 0 THEN MakeReady(k, t)
  ELSE [RemoveEvent(k, t) EXCEPT !.pending = InsertEnd(@, t)]

PendYieldForNobody(k, t) == k               \* slip: the missed yield is not noted
PendYieldFor(k, t) == [k EXCEPT !.yieldPending = @ \/ Outranks(k, t)]

(* xTaskRemoveFromEventList, and whether it returns true. *)
Waiting(k, l) == k.events[l] # <<>>
Unblocks(k, l) == Waiting(k, l) /\ Outranks(k, Head(k.events[l]))
Unblock(k, l) == LET t == Head(k.events[l]) IN PendYieldFor(Release(k, t), t)

(* vTaskRemoveFromUnorderedEventList *)
UnblockMarked(k, t, mark) ==
  PendYieldFor(MakeReady([k EXCEPT !.mark[t] = mark], t), t)

-----------------------------------------------------------------------------
(* The tick.                                                                *)

(* xTickCount moves on; at zero the two delayed lists change places. *)
Ticked(k) ==
  LET on == [k EXCEPT !.tick = (@ + 1) % Wrap]
  IN  IF on.tick # 0 THEN on
      ELSE ResetNextUnblock([on EXCEPT !.delayed = k.overflow, !.overflow = k.delayed,
                                       !.overflows = @ + 1])

(* The tasks at the head of the delayed list whose time has come. *)
Due(k) ==
  LET early == {i \in DOMAIN k.delayed : k.wake[k.delayed[i]] > k.tick}
  IN  IF k.tick < k.nextUnblock THEN <<>>
      ELSE IF early = {} THEN k.delayed ELSE SubSeq(k.delayed, 1, Min(early) - 1)

(* xTaskIncrementTick: the state it leaves and the answer it gives. *)
IncrementTick(k) ==
  LET on == Ticked(k)
      woken == FoldLeft(MakeReady, on, Due(on))
      after == IF on.tick < on.nextUnblock THEN on ELSE ResetNextUnblock(woken)
  IN  IF k.suspensions > 0
      THEN [state |-> [k EXCEPT !.pended = @ + 1], switch |-> FALSE]
      ELSE [state |-> after,
            switch |-> \/ \E t \in ToSet(Due(on)) : Outranks(on, t)
                       \/ Len(after.ready[after.prio[after.current]]) > 2
                       \/ after.yieldPending]

-----------------------------------------------------------------------------
(* Suspending the scheduler, and the context switch.                        *)

SuspendAll(k) == [k EXCEPT !.suspensions = @ + 1]

(* xTaskResumeAll: the pending tasks, then the pended ticks, then a yield. *)
CatchUp(k) ==
  LET one(a, i) == LET r == IncrementTick(a)
                   IN  [r.state EXCEPT !.yieldPending = @ \/ r.switch]
  IN  [FoldLeft(one, k, [i \in 1 .. k.pended |-> i]) EXCEPT !.pended = 0]

Resumed(k) ==
  LET open == [k EXCEPT !.suspensions = @ - 1]
      one(a, t) == PendYieldFor(MakeReady(a, t), t)
      moved == FoldLeft(one, open, k.pending)
      reset == IF k.pending = <<>> THEN moved ELSE ResetNextUnblock(moved)
  IN  IF open.suspensions > 0 THEN open ELSE CatchUp(reset)

AlreadyYielded(k) == LET r == Resumed(k) IN r.suspensions = 0 /\ r.yieldPending
ResumeAll(k) == YieldIf(AlreadyYielded(k), Resumed(k))

(* vTaskSwitchContext *)
SwitchContext(k) ==
  LET top == Max({p \in Priorities : HasEntries(k.ready[p])})
      list == Advance(k.ready[top])
  IN  IF k.suspensions > 0 THEN [k EXCEPT !.yieldPending = TRUE]
      ELSE [k EXCEPT !.yieldPending = FALSE, !.ready[top] = list, !.current = Head(list)]

-----------------------------------------------------------------------------
(* Priority inheritance.                                                    *)

(* xTaskPriorityInherit: the holder is raised to the current task's priority, *)
(* and the answer says whether it owes its priority to this mutex.          *)
Inherits(k, holder) ==
  holder # None /\ (k.prio[holder] < k.prio[k.current] \/ k.base[holder] < k.prio[k.current])
PriorityInherit(k, holder) ==
  IF holder # None /\ k.prio[holder] < k.prio[k.current]
  THEN MoveTo(RankBy(k, holder, k.prio[k.current]), holder, k.prio[k.current])
  ELSE k

(* xTaskPriorityDisinherit *)
Disinherits(k, holder) ==
  holder # None /\ k.prio[holder] # k.base[holder] /\ k.held[holder] = 1
PriorityDisinherit(k, holder) ==
  LET less == [k EXCEPT !.held[holder] = @ - 1]
      low == [RemoveState(less, holder) EXCEPT !.prio[holder] = k.base[holder],
                !.rank[holder] = MaxPriorities - k.base[holder]]
  IN  IF holder = None THEN k
      ELSE IF Disinherits(k, holder) THEN AddToReady(low, holder) ELSE less

(* vTaskPriorityDisinheritAfterTimeout: only a holder of one mutex is       *)
(* lowered, and not below the tasks that still wait for it.                 *)
DisinheritToBase(k, holder, waiting) ==     \* slip: whoever still waits
  IF holder # None /\ k.held[holder] = 1
  THEN MoveTo(RankBy(k, holder, k.base[holder]), holder, k.base[holder]) ELSE k
DisinheritAfterTimeout(k, holder, waiting) ==
  LET priority == IF k.base[holder] < waiting THEN waiting ELSE k.base[holder]
  IN  IF holder # None /\ k.prio[holder] # priority /\ k.held[holder] = 1
      THEN MoveTo(RankBy(k, holder, priority), holder, priority)
      ELSE k
=============================================================================
