------------------------------- MODULE Queue --------------------------------
(***************************************************************************)
(* The queues and mutexes of the kernel (queue.c).  The ring of storage and *)
(* its two pointers are the sequence of the items stored, oldest first; a   *)
(* mutex holds one token while it is free.  While a task decides to wait it *)
(* locks the queue: an interrupt then only counts what it did, and the      *)
(* waiting tasks it should have woken are woken when the queue is unlocked. *)
(***************************************************************************)
EXTENDS TaskCalls

CONSTANTS Queues,
          Length,       \* uxLength of each
          Mutexes       \* those created by xQueueCreateMutex

QueueParameters ==
  /\ Mutexes \subseteq Queues
  /\ Length \in [Queues -> Nat \ {0}]
  /\ \A m \in Mutexes : Length[m] = 1
  /\ Queues \X {"send", "receive"} \subseteq EventLists

VARIABLE queue

Unlocked == -1                          \* queueUNLOCKED
Token == [arg |-> {}, value |-> 0, at |-> 0]    \* what a free mutex holds

Senders(q) == <<q, "send">>
Receivers(q) == <<q, "receive">>
IsEmpty(q) == queue[q].items = <<>>
IsFull(q) == Len(queue[q].items) = Length[q]

(* xQueueGenericReset of a new queue; a mutex is created free. *)
NewQueue(q) ==
  [items |-> IF q \in Mutexes THEN <<Token>> ELSE <<>>,
   tx |-> Unlocked, rx |-> Unlocked, holder |-> None,
   depth |-> 0,                         \* uxRecursiveCallCount
   set |-> None,                        \* pxQueueSetContainer
   reset |-> FALSE]                     \* history: whether it was ever reset

(* prvCopyDataToQueue, by the place asked for. *)
Copied(items, item, position) ==
  [back |-> Append(items, item), front |-> <<item>> \o items,
   overwrite |-> <<item>>][position]

HasRoom(q, position) == Len(queue[q].items) < Length[q] \/ position = "overwrite"

(* A task that waits is woken; failing that, the caller may have to yield.  *)
WakeOne(k, list, otherwise) ==
  IF Waiting(k, list) THEN YieldIf(Unblocks(k, list), Unblock(k, list))
                      ELSE YieldIf(otherwise, k)

(* prvIncrementQueueTxLock, prvIncrementQueueRxLock *)
CountsNot(lock) == lock                 \* slip: the locked queue forgets the item
Counts(lock) == IF lock < NumberOfTasks THEN lock + 1 ELSE lock

(* What a call puts into the queue. *)
Item(c) == [arg |-> c.arg, value |-> c.value, at |-> c.at]

-----------------------------------------------------------------------------
(* Queue sets: a set is a queue of the queues in which something can be had. *)

Name(q) == [Token EXCEPT !.arg = {q}]
InSet(qs, q) == qs[q].set # None

(* prvNotifyQueueSetContainer: the queue it leaves and the task it wakes.   *)
Announced(qs, q) ==
  LET s == qs[q].set IN
  IF Len(qs[s].items) < Length[s]
  THEN [qs EXCEPT ![s].items = Append(@, Name(q)),
                  ![s].tx = IF @ = Unlocked THEN @ ELSE Counts(@)]
  ELSE qs
AnnouncedTo(qs, q) ==
  LET s == qs[q].set
  IN  IF Len(qs[s].items) < Length[s] /\ qs[s].tx = Unlocked THEN {Receivers(s)} ELSE {}

(* The tasks to wake for an item: those that wait for the set, or the queue. *)
WakesFor(qs, q) == IF InSet(qs, q) THEN AnnouncedTo(qs, q) ELSE {Receivers(q)}

-----------------------------------------------------------------------------
(* The critical section each call begins with, and comes back to when woken. *)

Tries(t, op) == In(t, op, "start") \/ In(t, op, "try")

(* Nothing to take or no room: return, or note the time and prepare to wait. *)
GoesOn(t, failure) ==
  LET c == [call[t] EXCEPT !.pc = "suspend"] IN
  /\ UNCHANGED <<kernel, queue>>
  /\ IF call[t].ticks = 0 THEN Return(t, failure)
     ELSE call' = [call EXCEPT ![t] = IF @.pc = "try" THEN c
                                      ELSE [Deadline(c) EXCEPT !.seen = Now(kernel)]]

(* xQueueGenericSend; giving a mutex takes its holder's inherited priority. *)
(* A set hears nothing of an item that replaces another.                    *)
Sent(t, position) ==
  LET q == call[t].obj
      holder == queue[q].holder
      k == PriorityDisinherit(kernel, holder)
      qs == [queue EXCEPT ![q].items = Copied(@, Item(call[t]), position), ![q].holder = None]
      replaces == position = "overwrite" /\ ~IsEmpty(q)
  IN  /\ kernel' = IF ~InSet(queue, q)
                   THEN WakeOne(k, Receivers(q), Disinherits(kernel, holder))
                   ELSE IF replaces THEN k
                   ELSE FoldSet(LAMBDA l, a : WakeOne(a, l, FALSE), k, AnnouncedTo(queue, q))
      /\ queue' = IF InSet(queue, q) /\ ~replaces THEN Announced(qs, q) ELSE qs
      /\ Return(t, "ok")

Position(t) == IF call[t].op = "send" THEN "back" ELSE call[t].op
GenericSend(t) ==
  \E op \in {"send", "front", "overwrite"} :
    /\ Tries(t, op)
    /\ IF HasRoom(call[t].obj, Position(t)) THEN Sent(t, Position(t)) ELSE GoesOn(t, "full")

(* xQueueReceive; of a set, it tells the queue in which something is. *)
Received(q) ==
  LET from == Head(queue[q].items).arg \cap Queues
  IN  IF from = {} THEN "ok" ELSE CHOOSE x \in from : TRUE
Receive(t) ==
  LET q == call[t].obj IN
  /\ Tries(t, "receive")
  /\ IF IsEmpty(q) THEN GoesOn(t, "timeout")
     ELSE /\ kernel' = WakeOne(kernel, Senders(q), FALSE)
          /\ queue' = [queue EXCEPT ![q].items = Tail(@)]
          /\ Return(t, Received(q))

(* xQueuePeek: the item stays, so the next task that waits is woken too. *)
Peek(t) ==
  LET q == call[t].obj IN
  /\ Tries(t, "peek")
  /\ IF IsEmpty(q) THEN GoesOn(t, "timeout")
     ELSE /\ kernel' = WakeOne(kernel, Receivers(q), FALSE)
          /\ Return(t, "ok")
          /\ UNCHANGED queue

(* xQueueSemaphoreTake of a mutex; the task becomes its holder. *)
Take(t) ==
  LET q == call[t].obj IN
  /\ Tries(t, "take")
  /\ IF IsEmpty(q) THEN GoesOn(t, "timeout")
     ELSE /\ kernel' = WakeOne([kernel EXCEPT !.held[t] = @ + 1], Senders(q), FALSE)
          /\ queue' = [queue EXCEPT ![q].items = Tail(@), ![q].holder = t]
          /\ IF "recursive" \in call[t].arg THEN Goto(t, "count") ELSE Return(t, "ok")

(* xQueueTakeMutexRecursive and xQueueGiveMutexRecursive: only the holder   *)
(* counts, and so it does outside of critical sections.                     *)
TakeRecursive(t) ==
  LET q == call[t].obj IN
  /\ In(t, "take recursive", "start")
  /\ IF queue[q].holder = t
     THEN /\ queue' = [queue EXCEPT ![q].depth = @ + 1]
          /\ Return(t, "ok")
     ELSE /\ call' = [call EXCEPT ![t].op = "take", ![t].arg = {"recursive"}]
          /\ UNCHANGED queue
  /\ UNCHANGED kernel

CountTake(t) ==
  /\ Running(t, "count")
  /\ queue' = [queue EXCEPT ![call[t].obj].depth = @ + 1]
  /\ Return(t, "ok")
  /\ UNCHANGED kernel

GiveRecursive(t) ==
  LET q == call[t].obj IN
  /\ In(t, "give recursive", "start")
  /\ IF queue[q].holder # t THEN Return(t, "failed") /\ UNCHANGED queue
     ELSE /\ queue' = [queue EXCEPT ![q].depth = @ - 1]
          /\ IF queue[q].depth > 1 THEN Return(t, "ok")
             ELSE call' = [call EXCEPT ![t].op = "send"]
  /\ UNCHANGED kernel

(* xQueueGenericReset: one of those who wait for room is woken. *)
Reset(t) ==
  LET q == call[t].obj IN
  /\ In(t, "reset", "start")
  /\ kernel' = WakeOne(kernel, Senders(q), FALSE)
  /\ queue' = [queue EXCEPT ![q].items = <<>>, ![q].tx = Unlocked, ![q].rx = Unlocked,
                            ![q].reset = TRUE]
  /\ Return(t, "ok")

(* xQueueAddToSet *)
AddToSet(t) ==
  LET q == call[t].obj IN
  /\ In(t, "add to set", "start")
  /\ IF InSet(queue, q) \/ ~IsEmpty(q) THEN Return(t, "failed") /\ UNCHANGED queue
     ELSE \E s \in call[t].arg :
            queue' = [queue EXCEPT ![q].set = s] /\ Return(t, "ok")
  /\ UNCHANGED kernel

-----------------------------------------------------------------------------
(* Waiting: suspend the scheduler, lock, look again, wait, unlock, resume.  *)

SuspendToWait(t) ==
  /\ Running(t, "suspend")
  /\ kernel' = SuspendAll(kernel)
  /\ Goto(t, "lock")
  /\ UNCHANGED queue

(* prvLockQueue *)
Lock(t) ==
  LET q == call[t].obj
      locked(lock) == IF lock = Unlocked THEN 0 ELSE lock
  IN  /\ Running(t, "lock")
      /\ queue' = [queue EXCEPT ![q].tx = locked(@), ![q].rx = locked(@)]
      /\ Goto(t, "check")
      /\ UNCHANGED kernel

(* Where the call goes when its time is over. *)
Taking == {"receive", "peek", "take"}
AfterTimeOut(c) ==
  IF c.op \in Taking THEN Leaving(c, FALSE, "recheck")
  ELSE Leaving([c EXCEPT !.result = "full"], FALSE, "return")

(* xTaskCheckForTimeOut, then prvIsQueueEmpty or prvIsQueueFull.  The flag  *)
(* of an aborted delay may be left over from a call that got what it wanted *)
(* all the same; this one then ends early.  A call whose time is over has   *)
(* no ticks left: if it finds something but another task is faster, its    *)
(* next try is its last.                                                   *)
MustWait(t) == IF call[t].op \in Taking THEN IsEmpty(call[t].obj) ELSE IsFull(call[t].obj)
Check(t) ==
  LET c == call[t]
      goes == IF TimedOut(t) THEN AfterTimeOut(Spent(t))
              ELSE IF MustWait(t) THEN Leaving(Counted(c), TRUE, "try")
              ELSE Leaving(Counted(c), FALSE, "try")
      pc == IF goes.yields THEN "place" ELSE "unlock"
  IN  /\ Running(t, "check") /\ c.op # "daemon"
      /\ kernel' = [kernel EXCEPT !.aborted[t] = FALSE]
      /\ call' = [call EXCEPT ![t] = [goes EXCEPT !.pc = pc, !.cut = @ \/ kernel.aborted[t]]]
      /\ UNCHANGED queue

(* The holder of the mutex inherits, then the task is put to wait. *)
Place(t) ==
  LET q == call[t].obj
      takes == call[t].op = "take"
      list == IF call[t].op \in Taking THEN Receivers(q) ELSE Senders(q)
      k == IF takes THEN PriorityInherit(kernel, queue[q].holder) ELSE kernel
  IN  /\ Running(t, "place")
      /\ kernel' = PlaceOnEventList(k, list, call[t].ticks)
      /\ call' = [call EXCEPT ![t].pc = "unlock",
                    ![t].boosted = IF takes THEN Inherits(kernel, queue[q].holder) ELSE @]
      /\ UNCHANGED queue

(* prvUnlockQueue: one critical section for each of the two counts. *)
UnblockAll(k, list, count) ==
  LET n == Min({count, Len(k.events[list])})
      one(a, i) == IF Unblocks(a, list) THEN [Unblock(a, list) EXCEPT !.yieldPending = TRUE]
                                        ELSE Unblock(a, list)
  IN  FoldLeft(one, k, [i \in 1 .. n |-> i])

UnlockTx(t) ==
  LET q == call[t].obj
      one(r, i) == [k |-> FoldSet(LAMBDA l, a : UnblockAll(a, l, 1), r.k, AnnouncedTo(r.qs, q)),
                    qs |-> Announced(r.qs, q)]
      told == FoldLeft(one, [k |-> kernel, qs |-> queue], [i \in 1 .. queue[q].tx |-> i])
  IN  /\ Running(t, "unlock")
      /\ kernel' = IF InSet(queue, q) THEN told.k
                   ELSE UnblockAll(kernel, Receivers(q), queue[q].tx)
      /\ queue' = [(IF InSet(queue, q) THEN told.qs ELSE queue) EXCEPT ![q].tx = Unlocked]
      /\ Goto(t, "unlock senders")

UnlockRx(t) ==
  LET q == call[t].obj IN
  /\ Running(t, "unlock senders")
  /\ kernel' = UnblockAll(kernel, Senders(q), queue[q].rx)
  /\ queue' = [queue EXCEPT ![q].rx = Unlocked]
  /\ Goto(t, "resume")

-----------------------------------------------------------------------------
(* Too late: once more whether the queue is empty, with the scheduler running. *)
Recheck(t) ==
  /\ Running(t, "recheck")
  /\ IF ~IsEmpty(call[t].obj) THEN Goto(t, "try")
     ELSE IF call[t].op = "take" /\ call[t].boosted THEN Goto(t, "disinherit")
     ELSE Return(t, "timeout")
  /\ UNCHANGED <<kernel, queue>>

(* prvGetDisinheritPriorityAfterTimeout *)
HighestWaiting(k, q) ==
  IF Waiting(k, Receivers(q)) THEN MaxPriorities - k.rank[Head(k.events[Receivers(q)])] ELSE 0

(* The task that gave up no longer lends its priority to the holder. *)
GiveUpBoost(t) ==
  LET q == call[t].obj IN
  /\ Running(t, "disinherit")
  /\ kernel' = DisinheritAfterTimeout(kernel, queue[q].holder, HighestWaiting(kernel, q))
  /\ Return(t, "timeout")
  /\ UNCHANGED queue

-----------------------------------------------------------------------------
(* From interrupts (xQueueGenericSendFromISR, xQueueReceiveFromISR), with   *)
(* the yield their callers make of the answer, when they ask for one.       *)
WakeFromISR(lists, asks) ==
  LET one(l, k) == IF asks THEN WakeOne(k, l, FALSE)
                   ELSE IF Waiting(k, l) THEN Unblock(k, l) ELSE k
  IN  kernel' = FoldSet(one, kernel, lists)

SendFromISR(q, item, asks) ==
  LET locked == queue[q].tx # Unlocked
      qs == [queue EXCEPT ![q].items = Copied(@, item, "back"),
                          ![q].tx = IF locked THEN Counts(@) ELSE @]
  IN  /\ HasRoom(q, "back")
      /\ queue' = IF InSet(queue, q) /\ ~locked THEN Announced(qs, q) ELSE qs
      /\ IF locked THEN UNCHANGED kernel ELSE WakeFromISR(WakesFor(queue, q), asks)
      /\ UNCHANGED call

(* xQueueGiveFromISR: a semaphore is given as an item is sent. *)
GiveFromISR(q) == SendFromISR(q, Token, TRUE)

ReceiveFromISR(q) ==
  LET locked == queue[q].rx # Unlocked IN
  /\ ~IsEmpty(q)
  /\ queue' = [queue EXCEPT ![q].items = Tail(@),
                            ![q].rx = IF locked THEN Counts(@) ELSE @]
  /\ IF locked THEN UNCHANGED kernel ELSE WakeFromISR({Senders(q)}, TRUE)
  /\ UNCHANGED call

QueueSteps(t) ==
  \/ GenericSend(t) \/ Receive(t) \/ Peek(t) \/ Take(t)
  \/ TakeRecursive(t) \/ CountTake(t) \/ GiveRecursive(t) \/ Reset(t) \/ AddToSet(t)
  \/ SuspendToWait(t) \/ Lock(t) \/ Check(t) \/ Place(t) \/ UnlockTx(t) \/ UnlockRx(t)
  \/ Recheck(t) \/ GiveUpBoost(t)
=============================================================================
