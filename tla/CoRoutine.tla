------------------------------ MODULE CoRoutine ------------------------------
(***************************************************************************)
(* The co-routines of croutine.c and the calls of queue.c made for them.    *)
(* They share one stack: the idle task calls vCoRoutineSchedule, which      *)
(* calls one of them, which returns when it has to wait.  Nothing locks the *)
(* lists of ready and delayed co-routines, so an interrupt may touch only   *)
(* the event lists and the list of those an event has woken; it can come    *)
(* between any two steps.                                                   *)
(***************************************************************************)
EXTENDS TaskList, FiniteSets

CONSTANTS
  Routines, None,
  Asked,                \* the priority each is created with
  MaxPriorities,        \* configMAX_CO_ROUTINE_PRIORITIES
  Wrap,                 \* TickType_t counts modulo this
  Length,               \* of the queue they share
  Calls(_),             \* what each may call: [op, ticks]
  Horizon,              \* bound: the moment the clock stops at
  MaxInterrupts         \* bound: how often the device interrupts

Parameters ==
  /\ None \notin Routines /\ End \notin Routines
  /\ Asked \in [Routines -> Nat] /\ MaxPriorities \in Nat \ {0}
  /\ Wrap \in Nat /\ Wrap > 1 /\ Length \in Nat \ {0}
  /\ Horizon \in Nat /\ MaxInterrupts \in Nat
  /\ \A c \in Routines : \A x \in Calls(c) :
       x.op \in {"delay", "send", "receive"} /\ x.ticks \in 0 .. Wrap - 1

VARIABLES
  cr,           \* the lists and counters of croutine.c
  state,        \* what each co-routine is in, and whether it waited (uxState)
  at,           \* where vCoRoutineSchedule is
  waiting,      \* uxMessagesWaiting of the queue
  clock,        \* the ticks since the start
  interrupts,   \* how often the device has interrupted
  unwoken       \* history: an interrupt left a waiting co-routine asleep

vars == <<cr, state, at, waiting, clock, interrupts, unwoken>>

-----------------------------------------------------------------------------
Priorities == 0 .. MaxPriorities - 1
PriorityOf(c) == IF Asked[c] >= MaxPriorities THEN MaxPriorities - 1 ELSE Asked[c]
EventOrderUp == [c \in Routines |-> PriorityOf(c)]   \* a slip, for comparison
EventOrder == [c \in Routines |-> MaxPriorities - PriorityOf(c)]
Free == [op |-> "none", again |-> FALSE, until |-> 0]

(* prvAddCoRoutineToReadyQueue *)
AddToReady(k, c) ==
  [k EXCEPT !.top = IF PriorityOf(c) > @ THEN PriorityOf(c) ELSE @,
            !.ready[PriorityOf(c)] = InsertEnd(@, c)]

TakeOut(lists, c) == [p \in DOMAIN lists |-> IF c \in ToSet(lists[p]) THEN RemoveEntry(lists[p], c) ELSE lists[p]]
RemoveEvent(k, c) ==
  [k EXCEPT !.pending = Remove(@, c), !.send = Remove(@, c), !.receive = Remove(@, c)]

(* vCoRoutineAddToDelayedList, with the list of those who wait for the same *)
(* event, if there is one.  There is no time that stands for ever.          *)
AddToDelayed(k, ticks, event) ==
  LET c == k.current
      wake == (k.tick + ticks) % Wrap
      asleep == [k EXCEPT !.ready = TakeOut(@, c), !.wake[c] = wake]
      timed == IF wake < k.tick
               THEN [asleep EXCEPT !.overflow = InsertInOrder(@, c, asleep.wake)]
               ELSE [asleep EXCEPT !.delayed = InsertInOrder(@, c, asleep.wake)]
  IN  IF event = "none" THEN timed
      ELSE [timed EXCEPT ![event] = InsertInOrder(@, c, EventOrder)]

(* xCoRoutineRemoveFromEventList, and whether the one that is woken should  *)
(* run first; it stays in the delayed list for the time being.              *)
Woken(k, event) ==
  [k EXCEPT ![event] = Tail(@), !.pending = InsertEnd(@, Head(k[event]))]
Precedes(k, event) == PriorityOf(Head(k[event])) >= PriorityOf(k.current)

-----------------------------------------------------------------------------
NewLists ==
  [ready |-> [p \in Priorities |-> EmptyList], delayed |-> <<>>, overflow |-> <<>>,
   pending |-> <<>>, send |-> <<>>, receive |-> <<>>, current |-> None, top |-> 0,
   tick |-> 0, last |-> 0, passed |-> 0, wake |-> [c \in Routines |-> 0],
   made |-> {}, turns |-> 0]

Init ==
  /\ cr = NewLists
  /\ state = [c \in Routines |-> Free]
  /\ at = "main" /\ waiting = 0 /\ clock = 0 /\ interrupts = 0 /\ unwoken = FALSE

(* xCoRoutineCreate, before the scheduler of the tasks is started.  *)
Create(c) ==
  /\ at = "main" /\ c \notin cr.made
  /\ cr' = AddToReady([cr EXCEPT !.made = @ \cup {c},
                                 !.current = IF @ = None THEN c ELSE @], c)
  /\ UNCHANGED <<state, at, waiting, clock, interrupts, unwoken>>

(* The idle task calls vCoRoutineSchedule. *)
Schedule ==
  /\ at \in {"main", "idle"} /\ cr.made # {}
  /\ at' = "pending"
  /\ UNCHANGED <<cr, state, waiting, clock, interrupts, unwoken>>

(* prvCheckPendingReadyList, one at a time; then the ticks that have passed *)
(* since the last time are counted.                                         *)
CheckPending ==
  /\ at = "pending"
  /\ \/ /\ cr.pending # <<>>
        /\ LET c == Head(cr.pending)
               out == [RemoveEvent(cr, c) EXCEPT !.delayed = Remove(@, c), !.overflow = Remove(@, c)]
           IN  cr' = AddToReady(out, c)
        /\ UNCHANGED at
     \/ /\ cr.pending = <<>>
        /\ cr' = [cr EXCEPT !.passed = (clock - cr.last) % Wrap]
        /\ at' = "ticks"
  /\ UNCHANGED <<state, waiting, clock, interrupts, unwoken>>

(* prvCheckDelayedList: the counter is taken through every tick, and with   *)
(* each those are woken whose time it is, whatever else they wait for.      *)
PassTick ==
  LET tick == (cr.tick + 1) % Wrap
      next == [cr EXCEPT !.tick = tick, !.passed = @ - 1]
  IN  /\ at = "ticks"
      /\ \/ /\ cr.passed > 0
            /\ cr' = IF tick = 0 THEN [next EXCEPT !.delayed = cr.overflow, !.overflow = cr.delayed,
                                                   !.turns = @ + 1]
                                 ELSE next
            /\ at' = "expire"
         \/ /\ cr.passed = 0
            /\ cr' = [cr EXCEPT !.last = cr.tick]
            /\ at' = "choose"
      /\ UNCHANGED <<state, waiting, clock, interrupts, unwoken>>

Expired == cr.delayed # <<>> /\ cr.wake[Head(cr.delayed)] <= cr.tick
Expire ==
  /\ at = "expire"
  /\ \/ /\ Expired
        /\ LET c == Head(cr.delayed)
           IN  cr' = AddToReady([RemoveEvent(cr, c) EXCEPT !.delayed = Tail(@)], c)
        /\ UNCHANGED at
     \/ ~Expired /\ at' = "ticks" /\ UNCHANGED cr
  /\ UNCHANGED <<state, waiting, clock, interrupts, unwoken>>

(* The rest of vCoRoutineSchedule: the highest list with an entry, and the  *)
(* next one in it.                                                          *)
Choose ==
  LET filled == {p \in 0 .. cr.top : HasEntries(cr.ready[p])}
      top == Max({0} \cup filled)
      ready == Advance(cr.ready[top])
  IN  /\ at = "choose"
      /\ \/ /\ filled = {}
            /\ cr' = [cr EXCEPT !.top = 0]
            /\ at' = "idle"
         \/ /\ filled # {}
            /\ cr' = [cr EXCEPT !.top = top, !.ready[top] = ready, !.current = Head(ready)]
            /\ at' = "run"
      /\ UNCHANGED <<state, waiting, clock, interrupts, unwoken>>

-----------------------------------------------------------------------------
(* The co-routine that was called.  until is the moment its wait is over at *)
(* the latest; no code reads it.                                            *)
Blocked(op) == IF op = "send" THEN waiting = Length ELSE waiting = 0
MomentOf(k) == k.turns * Wrap + k.tick

(* crDELAY, and the first critical section of xQueueCRSend and              *)
(* xQueueCRReceive: wait, give up or go on.                                 *)
Call ==
  /\ at = "run" /\ ~state[cr.current].again
  /\ \E x \in Calls(cr.current) :
       LET call == [op |-> x.op, again |-> TRUE, until |-> MomentOf(cr) + x.ticks] IN
       \/ /\ x.op = "delay"
          /\ cr' = IF x.ticks > 0 THEN AddToDelayed(cr, x.ticks, "none") ELSE cr
          /\ state' = [state EXCEPT ![cr.current] = [call EXCEPT !.again = FALSE]]
          /\ at' = "idle"
       \/ /\ x.op # "delay" /\ Blocked(x.op) /\ x.ticks > 0
          /\ cr' = AddToDelayed(cr, x.ticks, x.op)
          /\ state' = [state EXCEPT ![cr.current] = call]
          /\ at' = "idle"
       \/ /\ x.op # "delay" /\ Blocked(x.op) /\ x.ticks = 0
          /\ UNCHANGED <<cr, state, at>>
       \/ /\ x.op # "delay" /\ ~Blocked(x.op)
          /\ state' = [state EXCEPT ![cr.current] = [call EXCEPT !.again = FALSE]]
          /\ at' = "move" /\ UNCHANGED cr
  /\ UNCHANGED <<waiting, clock, interrupts, unwoken>>

(* After it waited it calls once more, and does not wait. *)
CallAgain ==
  LET c == cr.current IN
  /\ at = "run" /\ state[c].again
  /\ \/ Blocked(state[c].op) /\ state' = [state EXCEPT ![c] = Free] /\ UNCHANGED at
     \/ ~Blocked(state[c].op) /\ state' = [state EXCEPT ![c].again = FALSE] /\ at' = "move"
  /\ UNCHANGED <<cr, waiting, clock, interrupts, unwoken>>

(* The second critical section, in which an interrupt may have been faster; *)
(* a co-routine that wakes a more important one returns, another goes on.   *)
Move ==
  LET c == cr.current
      op == state[c].op
      others == IF op = "send" THEN "receive" ELSE "send"
      wakes == ~Blocked(op) /\ cr[others] # <<>>
  IN  /\ at = "move"
      /\ waiting' = IF Blocked(op) THEN waiting ELSE IF op = "send" THEN waiting + 1 ELSE waiting - 1
      /\ cr' = IF wakes THEN Woken(cr, others) ELSE cr
      /\ at' = IF wakes /\ Precedes(cr, others) THEN "idle" ELSE "run"
      /\ state' = [state EXCEPT ![c] = Free]
      /\ UNCHANGED <<clock, interrupts, unwoken>>

-----------------------------------------------------------------------------
(* xQueueCRSendFromISR and xQueueCRReceiveFromISR, once or twice in one     *)
(* interrupt, which passes on from one call to the next that it has woken a *)
(* co-routine of the same or a higher priority; then the next call wakes    *)
(* nobody.                                                                  *)
Interrupted(s, op) ==
  LET others == IF op = "send" THEN "receive" ELSE "send"
      moves == IF op = "send" THEN s.waiting < Length ELSE s.waiting > 0
      wakes == moves /\ ~s.woken /\ s.cr[others] # <<>>
  IN  [waiting |-> IF ~moves THEN s.waiting ELSE IF op = "send" THEN s.waiting + 1 ELSE s.waiting - 1,
       cr |-> IF wakes THEN Woken(s.cr, others) ELSE s.cr,
       woken |-> s.woken \/ (wakes /\ Precedes(s.cr, others)),
       unwoken |-> s.unwoken \/ (moves /\ s.woken /\ s.cr[others] # <<>>)]

Interrupt ==
  /\ interrupts < MaxInterrupts
  /\ interrupts' = interrupts + 1
  /\ \E op \in {"send", "receive"}, n \in {1, 2} :
       LET start == [waiting |-> waiting, cr |-> cr, woken |-> FALSE, unwoken |-> unwoken]
           once == Interrupted(start, op)
           end == IF n = 1 THEN once ELSE Interrupted(once, op)
       IN  waiting' = end.waiting /\ cr' = end.cr /\ unwoken' = end.unwoken
  /\ UNCHANGED <<state, at, clock>>

Tick ==
  /\ at # "main" /\ clock < Horizon
  /\ clock' = clock + 1
  /\ UNCHANGED <<cr, state, at, waiting, interrupts, unwoken>>

Next ==
  \/ \E c \in Routines : Create(c)
  \/ Schedule \/ CheckPending \/ PassTick \/ Expire \/ Choose
  \/ Call \/ CallAgain \/ Move
  \/ Interrupt \/ Tick

-----------------------------------------------------------------------------
Timed == ToSet(cr.delayed) \cup ToSet(cr.overflow)
InOrder(list) == \A i, j \in DOMAIN list : i < j => cr.wake[list[i]] <= cr.wake[list[j]]
ByImportance(list) ==
  \A i, j \in DOMAIN list : i < j => PriorityOf(list[i]) >= PriorityOf(list[j])

(* Each co-routine is ready at its priority or sleeps, in one list and      *)
(* once; only a sleeping one waits for an event or has been woken by one,   *)
(* and not both; the most important waits in front; the highest priority in *)
(* use is not above top; and when the delayed lists change places nobody is *)
(* left in the old one, which the comment at croutine.c:242 calls an error. *)
ListsHold ==
  /\ \A c \in cr.made :
       Cardinality({p \in Priorities : c \in ToSet(cr.ready[p])})
         + Cardinality({l \in {"delayed", "overflow"} : c \in ToSet(cr[l])}) = 1
  /\ \A p \in Priorities : \A c \in ToSet(cr.ready[p]) \ {End} :
       PriorityOf(c) = p /\ p <= cr.top
  /\ \A l, l2 \in {"send", "receive", "pending"} :
       ToSet(cr[l]) \subseteq Timed /\ (l # l2 => ToSet(cr[l]) \cap ToSet(cr[l2]) = {})
  /\ InOrder(cr.delayed) /\ InOrder(cr.overflow) /\ ByImportance(cr.send) /\ ByImportance(cr.receive)
  /\ at = "ticks" /\ cr.passed > 0 /\ cr.tick = Wrap - 1 => cr.delayed = <<>>
  /\ waiting \in 0 .. Length

(* A co-routine is woken by its own time and by no other, across the wrap   *)
(* of both counters; the counter never runs ahead of the ticks, and those   *)
(* that come while others are counted are counted the next time.            *)
WakesOnTime ==
  /\ \A c \in ToSet(cr.delayed) : cr.turns * Wrap + cr.wake[c] = state[c].until
  /\ \A c \in ToSet(cr.overflow) : (cr.turns + 1) * Wrap + cr.wake[c] = state[c].until
  /\ at \in {"choose", "run", "move", "idle"} => \A c \in Timed : MomentOf(cr) < state[c].until
  /\ MomentOf(cr) + cr.passed <= clock
  /\ at = "pending" /\ clock - MomentOf(cr) < Wrap =>
       (clock - cr.last) % Wrap = clock - MomentOf(cr)

(* While one waits for an item, every item in the queue has another that    *)
(* has been woken or is about to take it, unless an interrupt woke only     *)
(* one; the same for those who wait for room.                               *)
OnTheWay(op) ==
  {c \in Routines : state[c].op = op /\ (IF state[c].again THEN c \notin ToSet(cr[op])
                                                           ELSE at = "move" /\ c = cr.current)}
NobodyOverlooked ==
  ~unwoken =>
    /\ cr.receive # <<>> => waiting <= Cardinality(OnTheWay("receive"))
    /\ cr.send # <<>> => Length - waiting <= Cardinality(OnTheWay("send"))

(* The one that is called is the most important that was ready.             *)
MostImportantCalled ==
  at = "run" => \A p \in Priorities : HasEntries(cr.ready[p]) => p <= PriorityOf(cr.current)

CoRoutinesSound == ListsHold /\ WakesOnTime /\ NobodyOverlooked /\ MostImportantCalled
=============================================================================
