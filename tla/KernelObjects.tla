--------------------------- MODULE KernelObjects ----------------------------
(***************************************************************************)
(* Making and deleting the objects of the kernel: what of their memory is   *)
(* taken from the heap, in which order, and who gives it back; the registry *)
(* of named queues; and the start, when main has made its objects and the   *)
(* scheduler adds the idle task, the timer queue and the timer task.        *)
(* Memory that the caller brought is never the kernel's to free.            *)
(***************************************************************************)
EXTENDS Integers, Sequences, FiniteSets

CONSTANTS
  Callers,              \* tasks of the application that make and delete
  Requests(_),          \* what each asks for: [kind, memory, length, size, count, named]
  Sizes,                \* the size of each structure
  TOP,                  \* SIZE_MAX + 1
  Slots,                \* configQUEUE_REGISTRY_SIZE
  MaxMade,              \* bound: the address after which nothing more is asked for
  None

Actors == Callers \cup {"main", "idle"}
Queues == {"queue", "mutex", "semaphore"}
Kinds == Queues \cup {"timer", "group", "stream"}
Parameters ==
  /\ {"main", "idle", "timers"} \cap Callers = {}
  /\ \A a \in Callers \cup {"main"} : \A r \in Requests(a) :
       /\ r.kind \in Kinds \cup {"task"} /\ {r.length, r.size, r.count} \subseteq 0 .. TOP - 1
       /\ r.memory \in IF r.kind = "task" THEN {"heap", "own_stack", "own"} ELSE {"heap", "own"}
       /\ r.named \in BOOLEAN /\ (r.named => r.kind \in Queues)
  /\ TOP \in Nat /\ TOP > 2
  /\ Sizes \in [{"task", "queue", "stream", "timer", "group"} -> 0 .. TOP - 1]
  /\ Slots \in Nat /\ MaxMade \in Nat /\ None \notin Nat

VARIABLES
  heap,         \* the blocks taken from it: [id, bytes]
  objects,      \* the objects there are
  work,         \* the call each actor is in
  phase,        \* "main", "running" or "halted"
  tasksMade,    \* uxCurrentNumberOfTasks
  current,      \* pxCurrentTCB, up to the start
  dying,        \* xTasksWaitingTermination
  registry,     \* xQueueRegistry
  ids,          \* the last address given out
  mixed,        \* history: two calls were in the registry at the same time
  misfreed      \* history: something was freed that was not taken

vars == <<heap, objects, work, phase, tasksMade, current, dying, registry, ids, mixed, misfreed>>

-----------------------------------------------------------------------------
Nothing == [pc |-> "none", asks |-> None, parts |-> <<>>, object |-> None, slot |-> 0]
IdleTask == [kind |-> "task", memory |-> "heap", length |-> 0, size |-> 1, count |-> 0, named |-> FALSE]
TimerTask == [IdleTask EXCEPT !.count = TOP - 1]        \* the priority of a task is its count
TimerQueue == [kind |-> "queue", memory |-> "heap", length |-> 2, size |-> 1, count |-> 0, named |-> TRUE]

Init ==
  /\ heap = {} /\ objects = {} /\ work = [a \in Actors |-> Nothing]
  /\ phase = "main" /\ tasksMade = 0 /\ current = None /\ dying = <<>>
  /\ registry = [s \in 1 .. Slots |-> [named |-> None, handle |-> None]]
  /\ ids = 0 /\ mixed = FALSE /\ misfreed = FALSE

Works(a) == CASE a = "main" -> phase \in {"main", "idle_task", "timer_queue", "timer_task"}
              [] OTHER -> phase = "running"
At(a, pc) == Works(a) /\ work[a].pc = pc
Tasks == {o \in objects : o.asks.kind = "task"}
Block(bytes) == [id |-> ids + 1, bytes |-> bytes]
Bytes(b) == (CHOOSE h \in heap : h.id = b).bytes

(* What a call leaves unchanged, by the part of the state it is about. *)
memory == <<heap, ids, misfreed>>
start == <<phase, current>>
deaths == <<tasksMade, dying>>
names == <<registry, mixed>>

Go(a, pc) == work' = [work EXCEPT ![a].pc = pc]

(* A call has failed: NULL is returned, and without its tasks or its queue  *)
(* the scheduler does not start.                                            *)
Fail(a) ==
  /\ work' = [work EXCEPT ![a] = Nothing]
  /\ phase' = IF phase \in {"main", "running"} THEN phase ELSE "halted"

-----------------------------------------------------------------------------
(* Sizes, as size_t counts.  A queue whose storage would overflow is        *)
(* refused, and a stream buffer too, whose storage is one byte longer.      *)
QueueFits(r) ==
  /\ r.length > 0 /\ (TOP - 1) \div r.length >= r.size
  /\ TOP - 1 - Sizes.queue >= (r.length * r.size) % TOP
StreamFits(r) == r.size < (r.size + 1 + Sizes.stream) % TOP
LimitKept(r) == r.length > 0 /\ r.count <= r.length
Allowed(r) ==
  CASE r.kind \in {"queue", "mutex"} -> QueueFits(r)
    [] r.kind = "semaphore" -> LimitKept(r) /\ QueueFits(r)
    [] r.kind = "stream" -> StreamFits(r)
    [] OTHER -> TRUE
Asked(r) ==
  CASE r.kind = "stream" -> (r.size + 1 + Sizes.stream) % TOP
    [] r.kind \in Queues -> (r.length * r.size + Sizes.queue) % TOP
    [] OTHER -> Sizes[r.kind]

(* pvPortMalloc, which may always fail. *)
Malloc(bytes) == heap' = heap \cup {Block(bytes)} /\ ids' = ids + 1
NoMemory == UNCHANGED <<heap, ids>>

-----------------------------------------------------------------------------
(* Making an object.                                                        *)

FirstStep(r) ==
  CASE r.kind = "task" /\ r.memory = "heap" -> "stack"
    [] r.kind = "task" /\ r.memory = "own_stack" -> "tcb"
    [] r.kind # "task" /\ r.memory = "heap" -> "alloc"
    [] OTHER -> "make"
Begin(a) ==
  /\ At(a, "none") /\ a # "idle" /\ phase \in {"main", "running"}
  /\ ids < MaxMade
  /\ \E r \in Requests(a) :
       work' = [work EXCEPT ![a] = [Nothing EXCEPT !.pc = FirstStep(r), !.asks = r]]
  /\ UNCHANGED <<memory, objects, start, deaths, names>>

(* xTaskCreate, xTaskCreateRestricted: the stack, then the control block;   *)
(* without the second the first is given back.                              *)
AllocStack(a) ==
  /\ At(a, "stack")
  /\ \/ /\ Malloc(work[a].asks.size)
        /\ work' = [work EXCEPT ![a].pc = "tcb", ![a].parts = <<ids + 1>>]
        /\ UNCHANGED phase
     \/ NoMemory /\ Fail(a)
  /\ UNCHANGED <<objects, current, deaths, names, misfreed>>

AllocTcb(a) ==
  /\ At(a, "tcb")
  /\ \/ /\ Malloc(Sizes.task)
        /\ work' = [work EXCEPT ![a].pc = "make", ![a].parts = Append(@, ids + 1)]
        /\ UNCHANGED phase
     \/ /\ NoMemory
        /\ IF work[a].parts = <<>> THEN Fail(a) ELSE Go(a, "give_back") /\ UNCHANGED phase
  /\ UNCHANGED <<objects, current, deaths, names, misfreed>>

GiveBack(a) ==
  /\ At(a, "give_back")
  /\ heap' = {h \in heap : h.id # work[a].parts[1]}
  /\ Fail(a)
  /\ UNCHANGED <<objects, current, deaths, names, ids, misfreed>>

(* The other objects take one block, for the structure and what it stores. *)
Alloc(a) ==
  LET r == work[a].asks IN
  /\ At(a, "alloc")
  /\ \/ /\ Allowed(r)
        /\ Malloc(Asked(r))
        /\ work' = [work EXCEPT ![a].pc = "make", ![a].parts = <<ids + 1>>]
        /\ UNCHANGED phase
     \/ NoMemory /\ Fail(a)
  /\ UNCHANGED <<objects, current, deaths, names, misfreed>>

CallersMemory == 0           \* an address in the memory of the caller
Brought(r) == IF r.memory = "heap" THEN <<>> ELSE <<CallersMemory>>
Items(r) == IF r.kind = "mutex" THEN 1 ELSE r.count
Made(a) ==
  LET r == work[a].asks IN
  [id |-> ids + 1, asks |-> r, parts |-> Brought(r) \o work[a].parts, by |-> a,
   items |-> Items(r)]
Outdoes(o) ==
  \/ current = None
  \/ phase # "running" /\ \E c \in objects : c.id = current /\ c.asks.count <= o.asks.count

(* prvAddNewTaskToReadyList, up to the scheduler's start. *)
MakeTask(a) ==
  /\ At(a, "make") /\ work[a].asks.kind = "task"
  /\ objects' = objects \cup {Made(a)} /\ ids' = ids + 1
  /\ tasksMade' = tasksMade + 1
  /\ current' = IF Outdoes(Made(a)) THEN ids + 1 ELSE current
  /\ work' = [work EXCEPT ![a] = Nothing]
  /\ phase' = CASE phase = "idle_task" -> "timer_queue"
                [] phase = "timer_task" -> "running"
                [] OTHER -> phase
  /\ UNCHANGED <<heap, misfreed, dying, names>>

(* prvInitialiseNewQueue and its like; that what the caller brought has the *)
(* room for it is for the caller to know.                                   *)
Asserted(r) == (r.kind \in Queues => r.length > 0)
               /\ (r.kind = "semaphore" => LimitKept(r))
MakeOther(a) ==
  LET r == work[a].asks IN
  /\ At(a, "make") /\ r.kind \notin {"task", "timer"}
  /\ r.memory = "own" => Asserted(r)
  /\ objects' = objects \cup {Made(a)} /\ ids' = ids + 1
  /\ work' = [work EXCEPT ![a] = IF r.named THEN [Nothing EXCEPT !.pc = "search", !.object = ids + 1]
                                            ELSE Nothing]
  /\ UNCHANGED <<heap, misfreed, start, deaths, names>>

(* prvCheckForValidListAndQueue, in a critical section: the queue of the    *)
(* timers is made and registered once, by whoever comes first.              *)
HasTimerQueue == \E o \in objects : o.by = "timers"
FreeSlots(entries) == {s \in DOMAIN entries : entries[s].named = None}
Least(S) == CHOOSE s \in S : \A x \in S : s <= x
WithTimerQueue(id) ==
  [id |-> id, asks |-> TimerQueue, parts |-> <<id>>, by |-> "timers", items |-> 0]
CheckForValidListAndQueue(id) ==
  \/ HasTimerQueue /\ UNCHANGED <<memory, objects, registry>>
  \/ ~HasTimerQueue /\ UNCHANGED <<memory, objects, registry>>
  \/ /\ ~HasTimerQueue /\ Allowed(TimerQueue)
     /\ heap' = heap \cup {[id |-> id, bytes |-> Asked(TimerQueue)]}
     /\ objects' = objects \cup {WithTimerQueue(id)}
     /\ registry' = IF FreeSlots(registry) = {} THEN registry
                    ELSE [registry EXCEPT ![Least(FreeSlots(registry))] = [named |-> id, handle |-> id]]
     /\ ids' = id /\ UNCHANGED misfreed

(* xTimerCreate: the block, then the queue if there is none yet; the timer  *)
(* is made whether there is one then or not.                                *)
CheckQueue(a) ==
  /\ At(a, "make") /\ work[a].asks.kind = "timer"
  /\ CheckForValidListAndQueue(ids + 1)
  /\ Go(a, "fill_in")
  /\ UNCHANGED <<start, deaths, mixed>>
FillInTimer(a) ==
  /\ At(a, "fill_in")
  /\ objects' = objects \cup {Made(a)} /\ ids' = ids + 1
  /\ work' = [work EXCEPT ![a] = Nothing]
  /\ UNCHANGED <<heap, misfreed, start, deaths, names>>

-----------------------------------------------------------------------------
(* vQueueAddToRegistry and vQueueUnregisterQueue, which nothing protects:   *)
(* the search for a slot, the name, the handle.                             *)
Registering == {"search", "name", "handle", "unregister", "unname", "forget"}
Mixes(a) == mixed' = (mixed \/ \E x \in Actors \ {a} : work[x].pc \in Registering)
SlotFor(handle) ==
  LET same == {s \in DOMAIN registry : registry[s].handle = handle}
  IN  IF same # {} THEN Least(same)
      ELSE IF FreeSlots(registry) # {} THEN Least(FreeSlots(registry)) ELSE 0
Search(a) ==
  LET slot == SlotFor(work[a].object) IN
  /\ At(a, "search") /\ Mixes(a)
  /\ work' = [work EXCEPT ![a] = IF slot = 0 THEN Nothing ELSE [@ EXCEPT !.pc = "name", !.slot = slot]]
  /\ UNCHANGED <<memory, objects, start, deaths, registry>>
WriteName(a) ==
  /\ At(a, "name") /\ Mixes(a)
  /\ registry' = [registry EXCEPT ![work[a].slot].named = work[a].object]
  /\ Go(a, "handle")
  /\ UNCHANGED <<memory, objects, start, deaths>>
WriteHandle(a) ==
  /\ At(a, "handle") /\ Mixes(a)
  /\ registry' = [registry EXCEPT ![work[a].slot].handle = work[a].object]
  /\ work' = [work EXCEPT ![a] = Nothing]
  /\ UNCHANGED <<memory, objects, start, deaths>>

Unregister(a) ==
  LET same == {s \in DOMAIN registry : registry[s].handle = work[a].object} IN
  /\ At(a, "unregister") /\ Mixes(a)
  /\ work' = [work EXCEPT ![a].pc = IF same = {} THEN "free" ELSE "unname",
                          ![a].slot = IF same = {} THEN 0 ELSE Least(same)]
  /\ UNCHANGED <<memory, objects, start, deaths, registry>>
Unname(a) ==
  /\ At(a, "unname") /\ Mixes(a)
  /\ registry' = [registry EXCEPT ![work[a].slot].named = None]
  /\ Go(a, "forget")
  /\ UNCHANGED <<memory, objects, start, deaths>>
Forget(a) ==
  /\ At(a, "forget") /\ Mixes(a)
  /\ registry' = [registry EXCEPT ![work[a].slot].handle = None]
  /\ Go(a, "free")
  /\ UNCHANGED <<memory, objects, start, deaths>>

-----------------------------------------------------------------------------
(* Deleting.  What to free was noted when the object was made: nothing of   *)
(* one in the caller's memory, of a task with its own stack only the block. *)
ToFree(o) == IF o.asks.memory = "heap" THEN o.parts ELSE Tail(o.parts)

Unclaimed(o) == \A a \in Actors : work[a].object # o.id
Deletable(o) ==
  /\ o.asks \notin {IdleTask, TimerTask, TimerQueue} /\ Unclaimed(o)
  /\ \A i \in DOMAIN dying : dying[i].id # o.id
Claim(a, o, pc) ==
  work' = [work EXCEPT ![a] = [Nothing EXCEPT !.pc = pc, !.object = o.id, !.parts = ToFree(o)]]

(* vTaskDelete of another task: off the lists, and then its memory. *)
DeleteTask(a) ==
  /\ At(a, "none") /\ a \in Callers
  /\ \E o \in Tasks :
       /\ Deletable(o)
       /\ Claim(a, o, "free")
       /\ objects' = objects \ {o} /\ tasksMade' = tasksMade - 1
  /\ UNCHANGED <<memory, start, dying, names>>

(* vQueueDelete, vEventGroupDelete and vStreamBufferDelete.  A timer is     *)
(* freed by the timer task.                                                 *)
DeleteObject(a) ==
  /\ At(a, "none") /\ a \in Callers
  /\ \E o \in objects \ Tasks :
       /\ Deletable(o)
       /\ Claim(a, o, IF o.asks.kind \in Queues THEN "unregister" ELSE "free")
       /\ objects' = objects \ {o}
  /\ UNCHANGED <<memory, start, deaths, names>>

(* A task deletes itself, and does not run again. *)
DeleteSelf(o) ==
  /\ phase = "running" /\ o \in Tasks /\ Deletable(o)
  /\ dying' = Append(dying, o)
  /\ UNCHANGED <<memory, objects, work, start, tasksMade, names>>

(* prvCheckTasksWaitingTermination *)
CleanUp ==
  /\ At("idle", "none") /\ dying # <<>>
  /\ Claim("idle", Head(dying), "free")
  /\ objects' = objects \ {Head(dying)}
  /\ dying' = Tail(dying) /\ tasksMade' = tasksMade - 1
  /\ UNCHANGED <<memory, start, names>>

(* vPortFree of each part: prvDeleteTCB frees the stack and then the block. *)
Free(a) ==
  LET parts == work[a].parts IN
  /\ At(a, "free")
  /\ \/ /\ parts # <<>>
        /\ heap' = {h \in heap : h.id # Head(parts)}
        /\ misfreed' = (misfreed \/ \A h \in heap : h.id # Head(parts))
        /\ work' = [work EXCEPT ![a].parts = Tail(@)]
     \/ /\ parts = <<>>
        /\ work' = [work EXCEPT ![a] = Nothing]
        /\ UNCHANGED <<heap, misfreed>>
  /\ UNCHANGED <<objects, ids, start, deaths, names>>

-----------------------------------------------------------------------------
(* vTaskStartScheduler and xTimerCreateTimerTask.                           *)
StartScheduler ==
  /\ At("main", "none") /\ phase = "main"
  /\ phase' = "idle_task"
  /\ work' = [work EXCEPT !["main"] = [Nothing EXCEPT !.pc = FirstStep(IdleTask), !.asks = IdleTask]]
  /\ UNCHANGED <<memory, objects, current, deaths, names>>

CreateTimerTask ==
  /\ At("main", "none") /\ phase = "timer_queue"
  /\ CheckForValidListAndQueue(ids + 1)
  /\ IF \E o \in objects' : o.by = "timers"
     THEN /\ phase' = "timer_task"
          /\ work' = [work EXCEPT !["main"] =
                        [Nothing EXCEPT !.pc = FirstStep(TimerTask), !.asks = TimerTask]]
     ELSE phase' = "halted" /\ UNCHANGED work
  /\ UNCHANGED <<current, deaths, mixed>>

Create(a) ==
  \/ Begin(a) \/ AllocStack(a) \/ AllocTcb(a) \/ GiveBack(a) \/ Alloc(a)
  \/ MakeTask(a) \/ MakeOther(a) \/ CheckQueue(a) \/ FillInTimer(a)
  \/ Search(a) \/ WriteName(a) \/ WriteHandle(a)
Destroy(a) == DeleteTask(a) \/ DeleteObject(a) \/ Unregister(a) \/ Unname(a) \/ Forget(a) \/ Free(a)

Next ==
  \/ \E a \in Actors : Create(a) \/ Destroy(a)
  \/ \E o \in Tasks : DeleteSelf(o)
  \/ CleanUp \/ StartScheduler \/ CreateTimerTask

-----------------------------------------------------------------------------
(* Every block that is taken belongs to one object or one call, which has   *)
(* it once, and nobody frees what is not taken: no failure and no deletion  *)
(* leaks or returns memory twice, and none that the caller brought.         *)
Owners(b) == {o \in objects : \E i \in DOMAIN o.parts : o.parts[i] = b}
Users(b) == {a \in Actors : \E i \in DOMAIN work[a].parts : work[a].parts[i] = b}
MemoryAccounted ==
  /\ ~misfreed
  /\ \A h \in heap : Cardinality(Owners(h.id)) + Cardinality(Users(h.id)) = 1
  /\ \A o \in objects : \A i \in DOMAIN o.parts :
       o.parts[i] # CallersMemory => \E h \in heap : h.id = o.parts[i]

(* A queue and a stream buffer have the room they are believed to have,     *)
(* however large the product; a semaphore counts no further than its limit. *)
StorageFits ==
  \A o \in objects :
    /\ o.asks.kind \in {"queue", "stream"} /\ o.asks.memory = "heap" =>
         Bytes(o.parts[1]) = IF o.asks.kind = "queue" THEN Sizes.queue + o.asks.length * o.asks.size
                                                      ELSE Sizes.stream + o.asks.size + 1
    /\ o.asks.kind \in {"semaphore", "mutex"} => o.items <= o.asks.length

(* The number of tasks is right; the task that runs first is the last made  *)
(* of the most important; and the scheduler starts only with an idle task,  *)
(* a timer task and one queue between it and the others.                    *)
StartsWhole ==
  /\ tasksMade = Cardinality(Tasks)
  /\ phase # "running" /\ Tasks # {} =>
       \E o \in Tasks : o.id = current /\ \A x \in Tasks :
         x.asks.count < o.asks.count \/ (x.asks.count = o.asks.count /\ x.id <= o.id)
  /\ phase = "running" =>
       /\ HasTimerQueue
       /\ \A r \in {IdleTask, TimerTask} : \E o \in Tasks : o.asks = r
  /\ Cardinality({o \in objects : o.by = "timers"}) <= 1

(* No slot of the registry holds a queue that has been freed, no queue has  *)
(* two, and unless calls were mixed each slot in use has its own name, so   *)
(* that it can be freed and found.                                          *)
InHand(h) == \E a \in Actors : work[a].object = h
RegistryHonest ==
  /\ \A s \in DOMAIN registry :
       LET h == registry[s].handle IN h # None => InHand(h) \/ \E o \in objects : o.id = h
  /\ \A s, x \in DOMAIN registry : registry[s].handle # None /\ s # x => registry[s].handle # registry[x].handle
  /\ ~mixed => \A s \in DOMAIN registry :
       registry[s].named = registry[s].handle \/ \E a \in Actors : work[a].slot = s

ObjectsSound == MemoryAccounted /\ StorageFits /\ StartsWhole /\ RegistryHonest
=============================================================================
