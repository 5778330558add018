------------------------------- MODULE Kernel -------------------------------
(***************************************************************************)
(* The FreeRTOS kernel under load: tasks that make any of the calls their   *)
(* scenario allows, in any order and at any time, the timer daemon, the     *)
(* idle task, the tick and the interrupts of devices.                       *)
(***************************************************************************)
EXTENDS PendedCalls, StreamBuffer, Tickless

CONSTANTS Scenarios,
          Participants(_),      \* the tasks that take part in a scenario
          Calls(_, _),          \* the calls a task may make in it
          Interrupts(_),        \* what a device's interrupt may do in it
          Start(_),             \* the tick it begins with, short of the wrap
          TicklessIdle,         \* the scenarios of a build that stops the tick
          MaxInterrupts         \* bound: how often one does

KernelParameters ==
  /\ SchedulerParameters /\ QueueParameters /\ GroupParameters /\ TimerParameters
  /\ PendedParameters /\ StreamParameters /\ TicklessParameters
  /\ \A s \in Scenarios : Participants(s) \subseteq Tasks \ {Idle} /\ Start(s) \in 0 .. MaxDelay
  /\ Horizon \in Nat /\ MaxInterrupts \in Nat

VARIABLES scenario, interrupts

vars == <<kernel, call, queue, bits, timers, owner, stream, scenario, interrupts>>

(* The tasks have been created and the scheduler picks the first to run.    *)
(* The tick counter is short of its wrap: the system has been up for long.  *)
NewKernel(present, tick) ==
  LET none ==
        [ready |-> [p \in Priorities |-> EmptyList], delayed |-> <<>>, overflow |-> <<>>,
         pending |-> <<>>, suspended |-> Tasks \ (present \cup {Idle}), dying |-> <<>>,
         events |-> [l \in EventLists |-> <<>>],
         prio |-> BasePriority, base |-> BasePriority,
         rank |-> [t \in Tasks |-> MaxPriorities - BasePriority[t]],
         wake |-> [t \in Tasks |-> 0], mark |-> [t \in Tasks |-> {}],
         held |-> [t \in Tasks |-> 0], aborted |-> [t \in Tasks |-> FALSE],
         notify |-> [t \in Tasks |-> "none"], value |-> [t \in Tasks |-> 0],
         previous |-> [t \in Tasks |-> tick],
         current |-> Idle, tick |-> tick, overflows |-> 0, pended |-> 0,
         nextUnblock |-> MaxDelay, suspensions |-> 0, yieldPending |-> FALSE,
         pendsv |-> FALSE]
  IN  SwitchContext(FoldLeft(AddToReady, none, SetToSeq(present \cup {Idle})))

Init ==
  /\ scenario \in Scenarios
  /\ interrupts = 0
  /\ kernel = NewKernel(Participants(scenario), Start(scenario))
  /\ call = [t \in Tasks |-> IF t = Daemon THEN DaemonCall ELSE Free("none")]
  /\ queue = [q \in Queues |-> NewQueue(q)]
  /\ bits = [g \in Groups |-> {}]
  /\ timers = NewTimers
  /\ owner = [l \in Locks |-> None]
  /\ stream = [b \in Streams |-> NewStream(b, 0)]

Gone(t) == call[t].pc = "gone" /\ t \notin ToSet(kernel.dying)

(* A task calls the kernel.  Only its holder gives a mutex or a lock of the *)
(* SDK, and it does not take it twice; nobody is deleted with a mutex in    *)
(* hand; what a set said can be had is taken, and before anything else;     *)
(* nobody waits for a queue that is in a set; nobody calls a group that has *)
(* been or is being deleted; and a stream is not reset under the hands of a *)
(* task that moves bytes.                                                   *)
Names(b) == {stream[b].toReceive, stream[b].toSend}
Legal(t, c) ==
  /\ c.obj \in Mutexes /\ c.op \in {"send", "take"} => (c.op = "send") = (queue[c.obj].holder = t)
  /\ c.op \in {"lock", "lock until", "unlock"} => (c.op = "unlock") = (owner[c.obj] = t)
  /\ c.op = "take recursive" => queue[c.obj].depth < 2
  /\ call[t].result \in Queues => c.op = "receive" /\ c.obj = call[t].result
  /\ c.op = "reset stream" => \A x \in Tasks : call[x].obj = c.obj => x \in Names(c.obj)
  /\ c.op = "receive" /\ InSet(queue, c.obj) => call[t].result = c.obj
  /\ c.op = "delete" => kernel.held[c.obj] = 0
  /\ c.obj \in Groups =>
       /\ "gone" \notin bits[c.obj]
       /\ \A x \in Tasks : call[x].obj = c.obj /\ call[x].pc = "start" =>
            "delete group" \notin {c.op, call[x].op}
  /\ c.op = "create" => Gone(c.obj)
  /\ c.op \in {"suspend", "delete", "set priority", "abort delay", "notify", "clear state",
              "clear value"} =>
       call[c.obj].pc # "gone" /\ c.obj \notin ToSet(kernel.dying)
Begin(t) ==
  /\ Running(t, "user") /\ t # Idle
  /\ \E c \in Calls(scenario, t) :
       Legal(t, c) /\ call' = [call EXCEPT ![t] = [c EXCEPT !.result = "none"]]
  /\ UNCHANGED kernel

(* An interrupt of a device, in which it makes a call or several. *)
Interrupt ==
  /\ interrupts < MaxInterrupts /\ call[Idle].pc # "asleep"
  /\ interrupts' = interrupts + 1
  /\ \E i \in Interrupts(scenario) :
       \/ /\ \/ i.does = "send" /\ SendFromISR(i.to, [Token EXCEPT !.value = 1], TRUE)
             \/ i.does = "give" /\ GiveFromISR(i.to)
             \/ i.does = "receive" /\ ReceiveFromISR(i.to)
             \/ i.does = "set bits" /\ SetBitsFromISR(i.to, {"red"})
             \/ i.does = "clear bits" /\ ClearBitsFromISR(i.to, {"red"})
          /\ UNCHANGED stream
       \/ /\ \/ i.does = "notify" /\ NotifyFromISR(i.to, "overwrite", 1)
             \/ i.does = "give notification" /\ NotifyGiveFromISR(i.to)
             \/ i.does = "resume" /\ ResumeFromISR(i.to)
          /\ UNCHANGED <<queue, stream>>
       \/ /\ \/ i.does = "send bytes" /\ SendBytesFromISR(i.to, i.bytes)
             \/ i.does = "receive bytes" /\ ReceiveBytesFromISR(i.to, i.bytes)
             \/ i.does = "sent" /\ SendCompletedFromISR(i.to, stream[i.to])
             \/ i.does = "received" /\ ReceiveCompletedFromISR(i.to, stream[i.to])
          /\ UNCHANGED queue
  /\ UNCHANGED <<bits, timers, owner, scenario>>

Machine == SysTick \/ PendSV \/ CleanUp \/ IdleYields

(* Only the current task makes steps. *)
Next ==
  LET t == kernel.current IN
  \/ Interrupt
  \/ /\ UNCHANGED <<scenario, interrupts>>
     /\ \/ (Machine \/ Begin(t) \/ TaskSteps(t) \/ InfoSteps(t) \/ Command(t)
                  \/ CatchUpTicks(t) \/ (scenario \in TicklessIdle /\ SleepSteps))
              /\ UNCHANGED <<queue, bits, timers, owner, stream>>
        \/ QueueSteps(t) /\ UNCHANGED <<bits, timers, owner, stream>>
        \/ GroupSteps(t) /\ UNCHANGED <<queue, timers, owner, stream>>
        \/ TimerSteps /\ UNCHANGED <<bits, owner, stream>>
        \/ (HandlePended \/ PendedSteps(t)) /\ UNCHANGED <<timers, stream>>
        \/ StreamSteps(t) /\ UNCHANGED <<queue, bits, timers, owner>>

Spec == Init /\ [][Next]_vars

-----------------------------------------------------------------------------
(* Where a task is: each is in one list, unless it has been deleted, and in *)
(* one list of those who wait for an event only if it is blocked.  The      *)
(* delayed lists are in order and the next wake-up is never noted too late. *)
Places(k, t) ==
  {l \in {"delayed", "overflow", "dying", "suspended"} :
     t \in (IF l = "suspended" THEN k.suspended ELSE ToSet(k[l]))}
InOrder(k, list) == \A i, j \in DOMAIN list : i < j => k.wake[list[i]] <= k.wake[list[j]]

TypeOK ==
  /\ \A t \in Tasks :
       LET at == ReadyAt(kernel, t)
           waits == WaitsFor(kernel, t)
       IN  /\ Cardinality(at) + Cardinality(Places(kernel, t)) = IF Gone(t) THEN 0 ELSE 1
           /\ at \subseteq {kernel.prio[t]}
           /\ Cardinality(waits) <= 1
           /\ waits # {} => t \in Timed(kernel) \cup kernel.suspended
  /\ kernel.pending # <<>> => kernel.suspensions > 0
  /\ kernel.pended > 0 => kernel.suspensions > 0
  /\ kernel.suspensions \in {0, 1} /\ kernel.tick \in 0 .. MaxDelay
  /\ InOrder(kernel, kernel.delayed) /\ InOrder(kernel, kernel.overflow)
  /\ kernel.delayed # <<>> => kernel.nextUnblock <= kernel.wake[Head(kernel.delayed)]
  /\ \A q \in Queues : queue[q].tx > Unlocked => kernel.suspensions > 0
  /\ \A q \in Queues : Len(queue[q].items) <= Length[q]
  /\ \A m \in Mutexes : queue[m].depth \in 0 .. 2

(* Preemption: whenever the scheduler is running and no context switch is   *)
(* pending, now or noted for the next tick, the current task is ready and   *)
(* no ready task outranks it, except that it has put itself to wait and is  *)
(* about to yield.                                                          *)
Leaves(t) == call[t].pc = "yield"
HighestRuns ==
  kernel.suspensions = 0 /\ ~kernel.pendsv /\ ~kernel.yieldPending =>
    /\ ReadyAt(kernel, kernel.current) # {} \/ Leaves(kernel.current)
    /\ \A t \in Tasks : ReadyAt(kernel, t) # {} =>
         ~Outranks(kernel, t) \/ Leaves(kernel.current)

(* No wake-up is lost: while a task sleeps in a queue's list, every item it *)
(* could take has a woken task on the way to it or is counted in the lock;  *)
(* the same for the free places and those who wait for one, unless the      *)
(* queue was reset, which wakes one of them only; nobody sleeps on a        *)
(* notification or on bits that are there, on a group that is deleted, or   *)
(* on a free lock of the SDK that nobody is about to tell of; and each item *)
(* in a queue of a set is announced there once, counted in the lock or      *)
(* about to be taken.                                                       *)
Coming(q, ops) == {t \in Tasks : call[t].obj = q /\ call[t].op \in ops /\ WaitsFor(kernel, t) = {}}
Takers == Taking \cup {"daemon"}
Givers == {"send", "front"}
Counted0(lock) == IF lock = Unlocked THEN 0 ELSE lock
Telling(l) ==
  \E t \in Tasks : call[t].op = "set bits" /\ call[t].obj = SdkGroup
                     /\ call[t].sets = {SdkBit[l]} /\ call[t].pc = "start"
Announcements(q) ==
  Cardinality({i \in DOMAIN queue[queue[q].set].items : queue[queue[q].set].items[i] = Name(q)})
AboutToTake(q) ==
  {t \in Tasks : call[t].result = q \/ (call[t].op = "receive" /\ call[t].obj = q)}
NoLostWakeUp ==
  /\ \A q \in Queues :
       /\ Waiting(kernel, Receivers(q)) =>
            Len(queue[q].items) <= Cardinality(Coming(q, Takers)) + Counted0(queue[q].tx)
       /\ Waiting(kernel, Senders(q)) /\ ~queue[q].reset =>
            Length[q] - Len(queue[q].items) <= Cardinality(Coming(q, Givers)) + Counted0(queue[q].rx)
       /\ Waiting(kernel, Senders(q)) /\ IsEmpty(q) =>
            Coming(q, Givers) # {} \/ Counted0(queue[q].rx) > 0
       /\ queue[q].set # None =>
            Len(queue[q].items) = Announcements(q) + Counted0(queue[q].tx)
                                  + Cardinality(AboutToTake(q))
  /\ \A l \in Locks : \A t \in Tasks :
       call[t].obj = l /\ WaitsFor(kernel, t) # {} => owner[l] # None \/ Telling(l)
  /\ NoStreamSleepsOn
  /\ \A t \in Tasks : call[t].pc \in {"taken", "notified", "awaited"} /\ ~call[t].cut /\ Sleeps(t) =>
       kernel.notify[t] = "waiting"
  /\ \A g \in Groups : \A t \in ToSet(kernel.events[Waiters(g)]) :
       "gone" \notin bits[g] /\ ~Met(bits[g], Wanted(kernel.mark[t]), kernel.mark[t])

(* Time: a sleeping task is woken at its time and not after it, whatever    *)
(* the tick counter wraps; no call reports a time-out, and no delay ends,   *)
(* before its time is over; no timer fires early, and when the daemon has   *)
(* gone to sleep none is overdue; and no tick is lost or counted twice when *)
(* the idle task sleeps through some of them.                               *)
WakesAt(t) ==
  kernel.wake[t] + Wrap * (kernel.overflows + IF t \in ToSet(kernel.overflow) THEN 1 ELSE 0)
Punctual ==
  /\ \A t \in Timed(kernel) : Clock(kernel) < WakesAt(t) /\ (call[t].op = "stream send" \/ WakesAt(t) <= call[t].until)
  /\ kernel.current # Daemon /\ Sleeps(Daemon) /\ IsEmpty(TimerQueue) =>
       \A x \in timers.active : Clock(kernel) < timers.due[x]
NotEarly ==
  /\ \A t \in Tasks :
       /\ call[t].pc # "user" /\ call'[t].pc = "user" /\ call[t].ticks # MaxDelay /\ ~call[t].cut
       /\ call'[t].result \in {"timeout", "full"} \/ call[t].op \in {"delay", "delay until"}
       => Clock(kernel) >= call[t].until
  /\ \A x \in Timers : timers'.fired[x] > timers.fired[x] =>
       Clock(kernel) >= timers'.due[x] - timers.period[x]
WaitsKeepTime == [][Punctual' /\ NotEarly /\ SleepKeepsTime]_vars

(* Mutexes: one holder while taken; a holder is never outranked by a task   *)
(* that waits for its mutex; and a priority above its own is one it owes to *)
(* a task that is still taking the mutex it holds.                          *)
Held(t) == {m \in Mutexes : queue[m].holder = t}
ObjectsHonest ==
  /\ StreamsHonest /\ InfoHonest
  /\ \A m \in Mutexes : (queue[m].holder = None) = (queue[m].items # <<>>)
  /\ \A t \in Tasks : kernel.held[t] = Cardinality(Held(t))
  /\ \A m \in Mutexes : queue[m].holder = None => queue[m].depth = 0
  /\ \A t \in Tasks : call[t].pc = "count" =>
       queue[call[t].obj].holder = t /\ queue[call[t].obj].depth = 0
  /\ \A m \in Mutexes : \A t \in ToSet(kernel.events[Receivers(m)]) :
       queue[m].holder # None => kernel.prio[queue[m].holder] >= kernel.prio[t]
  /\ \A t \in Tasks : kernel.prio[t] # kernel.base[t] =>
       \E m \in Held(t), x \in Tasks :
         call[x].op = "take" /\ call[x].obj = m /\ kernel.prio[x] = kernel.prio[t]

(* What tasks.c:4277 says of giving a mutex back: a context switch should   *)
(* occur when the last one is returned, whether a task waits for it or not. *)
(* It is asked here only where it matters, where a ready task outranks the  *)
(* priority the giver is left with.                                         *)
Lowered(t) == kernel.held[t] = 1 /\ kernel'.held[t] = 0 /\ kernel'.prio[t] < kernel.prio[t]
LastMutexSwitches ==
  [][\A t, x \in Tasks :
       Lowered(t) /\ ReadyAt(kernel', x) # {} /\ kernel'.prio[x] > kernel'.prio[t]
       => kernel'.pendsv]_vars
=============================================================================
