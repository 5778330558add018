---------------------------- MODULE MpuWrappers -----------------------------
(***************************************************************************)
(* portable/Common/mpu_wrappers_v2.c: with memory protection the tasks     *)
(* have no pointers to kernel objects, but handles, which are indices of a *)
(* pool.  Every function of the kernel has a wrapper that looks the handle *)
(* up; those that create and delete also keep the pool.  They run in the   *)
(* calling task, and others come in between.                               *)
(*                                                                         *)
(* A wrapper that finds something wrong (a buffer or argument, the handle, *)
(* the access to it) returns and has changed nothing, so only the calls    *)
(* that go on are steps.  Who may access which handle is up to the port,   *)
(* and none with memory protection is part of this kernel: a task is       *)
(* authorized or it is not.  Of two handles each is looked up like one.    *)
(* The kernel makes and ends objects; memory of one that is gone can be    *)
(* the address of the next.  The application deletes an object once, when  *)
(* its creation is over, by the handle it was given.                       *)
(***************************************************************************)
EXTENDS Integers, FiniteSets

CONSTANTS
  SIZE,           \* configPROTECTED_KERNEL_OBJECT_POOL_SIZE
  Objects, FIRST, \* addresses of kernel objects; the timer task, which has no handle
  NULL, RESERVED, \* the addresses 0 and ~0
  Callbacks,      \* the callbacks of timers
  Wanted,         \* what the application creates
  BUSY            \* bound: so many tasks are in wrappers at a time

INDEX_OFFSET == 1
Kinds == {"QUEUE", "TASK", "STREAM_BUFFER", "EVENT_GROUP", "TIMER"}
NoKind == "INVALID"

Slots == 0 .. SIZE - 1
None == -1

-----------------------------------------------------------------------------
(* The functions, as far as their wrappers differ: the kind of object the  *)
(* handle is to name, whether the caller has to be privileged, the kind of *)
(* object the result names.  Of a task, the handle 0 mostly means the      *)
(* caller.                                                                 *)

On(kind, name) ==
  [name |-> name, kind |-> kind, privileged |-> FALSE, result |-> NoKind]
Privileged(f) == [f EXCEPT !.privileged = TRUE]
Naming(kind, f) == [f EXCEPT !.result = kind]
Without(name) == On(NoKind, name)
OnSelf(name) == {Without(name), On("TASK", name)}

TaskDelays ==
  {Without("xTaskDelayUntil"), On("TASK", "xTaskAbortDelay"), Without("vTaskDelay"),
   On("TASK", "eTaskGetState")} \cup OnSelf("uxTaskPriorityGet")

\* Others are suspended by privileged tasks only; the idle task is not named by a handle.
TaskSuspension ==
  {Without("xTaskGetIdleTaskHandle"), Without("vTaskSuspend"),
   Privileged(On("TASK", "vTaskSuspend")), On("TASK", "vTaskResume")} \cup OnSelf("vTaskGetInfo")

TaskFigures ==
  {Without("xTaskGetTickCount"), Without("uxTaskGetNumberOfTasks")}
  \cup OnSelf("pcTaskGetName") \cup OnSelf("ulTaskGetRunTimeCounter") \cup OnSelf("ulTaskGetRunTimePercent")

TaskTags ==
  {Without("ulTaskGetIdleRunTimePercent"), Without("ulTaskGetIdleRunTimeCounter")}
  \cup OnSelf("vTaskSetApplicationTaskTag") \cup OnSelf("xTaskGetApplicationTaskTag")
  \cup OnSelf("vTaskSetThreadLocalStoragePointer")

TaskStorage ==
  {Without("uxTaskGetSystemState")} \cup OnSelf("pvTaskGetThreadLocalStoragePointer")
  \cup OnSelf("uxTaskGetStackHighWaterMark")

TaskTime ==
  {Naming("TASK", Without("xTaskGetCurrentTaskHandle")), Without("xTaskGetSchedulerState"),
   Without("vTaskSetTimeOutState"), Without("xTaskCheckForTimeOut")}
  \cup OnSelf("uxTaskGetStackHighWaterMark2")

Notifying == {On("TASK", "xTaskGenericNotify")}
NotifyWaiting == {Without("xTaskGenericNotifyWait"), Without("ulTaskGenericNotifyTake")}
NotifyClearing == OnSelf("xTaskGenericNotifyStateClear") \cup OnSelf("ulTaskGenericNotifyValueClear")

PrivilegedTaskCalls ==
  {Privileged(f) : f \in OnSelf("vTaskPrioritySet") \cup OnSelf("xTaskCallApplicationTaskHook")
                         \cup {Naming("TASK", Without("xTaskGetHandle"))}}

PrivilegedTaskData ==
  {Privileged(f) : f \in OnSelf("vTaskAllocateMPURegions") \cup OnSelf("xTaskGetStaticBuffers")}

TaskCallsFromISR ==
  {Privileged(f) : f \in OnSelf("uxTaskPriorityGetFromISR")
                         \cup OnSelf("xTaskGetApplicationTaskTagFromISR")
                         \cup {On("TASK", "xTaskResumeFromISR"), On("TASK", "xTaskGenericNotifyFromISR"),
                               On("TASK", "vTaskGenericNotifyGiveFromISR")}}

QueueSending ==
  {On("QUEUE", "xQueueGenericSend"), On("QUEUE", "uxQueueMessagesWaiting"),
   On("QUEUE", "uxQueueSpacesAvailable")}
QueueReceiving ==
  {On("QUEUE", "xQueueReceive"), On("QUEUE", "xQueuePeek"), On("QUEUE", "xQueueSemaphoreTake")}
QueueMutexes ==
  {Naming("TASK", On("QUEUE", "xQueueGetMutexHolder")), On("QUEUE", "xQueueTakeMutexRecursive"),
   On("QUEUE", "xQueueGiveMutexRecursive")}
QueueSets == {Naming("QUEUE", On("QUEUE", "xQueueSelectFromSet")), On("QUEUE", "xQueueAddToSet")}
QueueRegistry ==
  {On("QUEUE", "vQueueAddToRegistry"), On("QUEUE", "vQueueUnregisterQueue"),
   On("QUEUE", "pcQueueGetName")}

PrivilegedQueueCalls ==
  {Privileged(On("QUEUE", name)) :
     name \in {"xQueueGenericReset", "xQueueRemoveFromSet", "xQueueGenericGetStaticBuffers"}}
QueueCallsFromISR ==
  {Privileged(On("QUEUE", name)) :
     name \in {"xQueueGenericSendFromISR", "xQueueGiveFromISR", "xQueuePeekFromISR",
               "xQueueReceiveFromISR", "xQueueIsQueueEmptyFromISR", "xQueueIsQueueFullFromISR"}}
QueueAnswersFromISR ==
  {Privileged(On("QUEUE", "uxQueueMessagesWaitingFromISR")),
   Privileged(Naming("TASK", On("QUEUE", "xQueueGetMutexHolderFromISR"))),
   Privileged(Naming("QUEUE", On("QUEUE", "xQueueSelectFromSetFromISR")))}

\* Nor is the timer task.
TimerData ==
  {On("TIMER", "pvTimerGetTimerID"), On("TIMER", "vTimerSetTimerID"),
   On("TIMER", "xTimerIsTimerActive"), Without("xTimerGetTimerDaemonTaskHandle")}
TimerCommands ==
  {On("TIMER", "xTimerGenericCommand"), Privileged(On("TIMER", "xTimerGenericCommandPriv"))}
TimerModes ==
  {On("TIMER", "pcTimerGetName"), On("TIMER", "vTimerSetReloadMode"),
   On("TIMER", "xTimerGetReloadMode")}
TimerTimes ==
  {On("TIMER", "uxTimerGetReloadMode"), On("TIMER", "xTimerGetPeriod"),
   On("TIMER", "xTimerGetExpiryTime")}
PrivilegedTimerCalls == {Privileged(On("TIMER", "xTimerGetStaticBuffer"))}

EventGroupBits ==
  {On("EVENT_GROUP", "xEventGroupWaitBits"), On("EVENT_GROUP", "xEventGroupClearBits"),
   On("EVENT_GROUP", "xEventGroupSetBits")}
EventGroupSync ==
  {On("EVENT_GROUP", "xEventGroupSync"), On("EVENT_GROUP", "uxEventGroupGetNumber"),
   On("EVENT_GROUP", "vEventGroupSetNumber")}
PrivilegedEventGroupCalls ==
  {Privileged(On("EVENT_GROUP", name)) :
     name \in {"xEventGroupGetStaticBuffer", "xEventGroupClearBitsFromISR",
               "xEventGroupSetBitsFromISR", "xEventGroupGetBitsFromISR"}}

StreamBufferTransfers ==
  {On("STREAM_BUFFER", "xStreamBufferSend"), On("STREAM_BUFFER", "xStreamBufferReceive")}
StreamBufferState ==
  {On("STREAM_BUFFER", "xStreamBufferIsFull"), On("STREAM_BUFFER", "xStreamBufferIsEmpty"),
   On("STREAM_BUFFER", "xStreamBufferSpacesAvailable")}
StreamBufferLevels ==
  {On("STREAM_BUFFER", "xStreamBufferBytesAvailable"),
   On("STREAM_BUFFER", "xStreamBufferSetTriggerLevel"),
   On("STREAM_BUFFER", "xStreamBufferNextMessageLengthBytes")}

\* xStreamBufferGetStaticBuffers looks the address it finds up as a handle, which it is
\* not, and so never gets to the kernel.
PrivilegedStreamBufferCalls == {Privileged(On("STREAM_BUFFER", "xStreamBufferReset"))}
StreamBufferCallsFromISR ==
  {Privileged(On("STREAM_BUFFER", name)) :
     name \in {"xStreamBufferSendFromISR", "xStreamBufferReceiveFromISR",
               "xStreamBufferSendCompletedFromISR", "xStreamBufferReceiveCompletedFromISR"}}

Functions ==
  UNION {TaskDelays, TaskSuspension, TaskFigures, TaskTags, TaskStorage, TaskTime, Notifying,
         NotifyWaiting, NotifyClearing, PrivilegedTaskCalls, PrivilegedTaskData, TaskCallsFromISR,
         QueueSending, QueueReceiving, QueueMutexes, QueueSets, QueueRegistry,
         PrivilegedQueueCalls, QueueCallsFromISR, QueueAnswersFromISR,
         TimerData, TimerCommands, TimerModes, TimerTimes, PrivilegedTimerCalls,
         EventGroupBits, EventGroupSync, PrivilegedEventGroupCalls,
         StreamBufferTransfers, StreamBufferState, StreamBufferLevels,
         PrivilegedStreamBufferCalls, StreamBufferCallsFromISR}

-----------------------------------------------------------------------------
(* The functions that create an object and give it a handle.               *)

TaskCreators == {On("TASK", "xTaskCreate"), On("TASK", "xTaskCreateStatic")}
RestrictedTaskCreators ==
  {On("TASK", "xTaskCreateRestricted"), On("TASK", "xTaskCreateRestrictedStatic")}
SemaphoreCreators ==
  {On("QUEUE", "xQueueCreateMutex"), On("QUEUE", "xQueueCreateMutexStatic"),
   On("QUEUE", "xQueueCreateCountingSemaphore"),
   On("QUEUE", "xQueueCreateCountingSemaphoreStatic")}
QueueCreators ==
  {On("QUEUE", "xQueueGenericCreate"), On("QUEUE", "xQueueGenericCreateStatic"),
   On("QUEUE", "xQueueCreateSet")}
TimerCreators == {On("TIMER", "xTimerCreate"), On("TIMER", "xTimerCreateStatic")}
EventGroupCreators ==
  {On("EVENT_GROUP", "xEventGroupCreate"), On("EVENT_GROUP", "xEventGroupCreateStatic")}
StreamBufferCreators ==
  {On("STREAM_BUFFER", "xStreamBufferGenericCreate"),
   On("STREAM_BUFFER", "xStreamBufferGenericCreateStatic")}

Creators ==
  UNION {TaskCreators, RestrictedTaskCreators, SemaphoreCreators, QueueCreators, TimerCreators,
         EventGroupCreators, StreamBufferCreators}

\* What there can be at an address: tasks are privileged or not, timers have a callback.
Things ==
  {x \in [kind : Kinds, privileged : BOOLEAN, callback : Callbacks \cup {NULL}] :
     /\ x.privileged => x.kind = "TASK"
     /\ x.callback # NULL <=> x.kind = "TIMER"}
Some(kind) == [kind |-> kind, privileged |-> FALSE, callback |-> NULL]
Dead == Some(NoKind)

Parameters ==
  /\ SIZE \in Nat \ {0} /\ FIRST \in Objects /\ BUSY \in Nat
  /\ NULL \notin Objects \cup Callbacks /\ RESERVED \notin Objects /\ NULL # RESERVED
  /\ Wanted \subseteq Things /\ \A x \in Wanted : \E f \in Creators : f.kind = x.kind

-----------------------------------------------------------------------------
VARIABLES
  pool,     \* xKernelObjectPool
  object,   \* what there is at an address
  doing,    \* the wrapper that a task is in, and how far it got
  given,    \* history: the slot of which an object got the handle
  lost      \* history: slots in use that nobody will free

poolVars == <<pool, object, doing, given, lost>>

Empty == [handle |-> NULL, kind |-> NoKind, data |-> NULL]

\* The step the wrapper is before; its slot; the object it creates, or found, at `on`; what it
\* creates, or the kind it looks for; the kind of object that it returns; whether the object
\* it is about was deleted meanwhile, or the slot is that of one deleted before.
Nothing ==
  [op |-> "none", slot |-> None, on |-> NULL, what |-> Dead, result |-> NoKind, raced |-> FALSE]
Filling == {"handle", "kind", "data"}
Holding == Filling \cup {"create", "free"}
Using == {"read", "fetch", "kernel", "lookup", "answer"}

Live(o) == object[o].kind # NoKind
Holds(t, i) == doing[t].op \in Holding /\ doing[t].slot = i
Held(i) == \E t \in Objects : Holds(t, i)
BeingFreed(i) == \E t \in Objects : doing[t].op = "free" /\ doing[t].slot = i
Fills(t, o) == doing[t].op \in Filling /\ doing[t].on = o

Init ==
  /\ pool = [i \in Slots |-> Empty]
  /\ object = [o \in Objects |->
                 IF o = FIRST THEN [kind |-> "TASK", privileged |-> TRUE, callback |-> NULL] ELSE Dead]
  /\ doing = [o \in Objects |-> Nothing]
  /\ given = [o \in Objects |-> None]
  /\ lost = {}

\* A task begins to call a wrapper.
Idle(t) ==
  /\ object[t].kind = "TASK" /\ doing[t] = Nothing
  /\ Cardinality({u \in Objects : doing[u] # Nothing}) < BUSY
MayManage(t) == Idle(t) /\ object[t].privileged

-----------------------------------------------------------------------------
(* Creating.                                                               *)

\* MPU_GetFreeIndexInKernelObjectPool, with the scheduler suspended.
Lowest(i) == pool[i].handle = NULL /\ \A j \in Slots : j < i => pool[j].handle # NULL

Reserve(t) ==
  /\ MayManage(t)
  /\ \E i \in Slots, x \in Wanted :
       /\ Lowest(i)
       /\ pool' = [pool EXCEPT ![i].handle = RESERVED]
       /\ doing' = [doing EXCEPT ![t] = [Nothing EXCEPT !.op = "create", !.slot = i, !.what = x]]
  /\ UNCHANGED <<object, given, lost>>

\* xTaskCreate makes privileged tasks only; asked for another, it leaves the slot reserved.
LoseSlot(t) ==
  /\ MayManage(t)
  /\ \E x \in Wanted : x.kind = "TASK"
  /\ \E i \in Slots :
       /\ Lowest(i)
       /\ pool' = [pool EXCEPT ![i].handle = RESERVED]
       /\ lost' = lost \cup {i}
  /\ UNCHANGED <<object, doing, given>>

\* A new task can run at once.
KernelCreate(t) ==
  /\ doing[t].op = "create"
  /\ \E o \in Objects :
       /\ ~Live(o)
       /\ object' = [object EXCEPT ![o] = doing[t].what]
       /\ doing' = [doing EXCEPT ![t].op = "handle", ![t].on = o]
  /\ UNCHANGED <<pool, given, lost>>

KernelRefuses(t) ==
  /\ doing[t].op = "create"
  /\ doing' = [doing EXCEPT ![t].op = "free"]
  /\ UNCHANGED <<pool, object, given, lost>>

\* MPU_StoreHandleAndDataAtIndex, which stores one after the other.
StoreHandle(t) ==
  /\ doing[t].op = "handle"
  /\ pool' = [pool EXCEPT ![doing[t].slot].handle = doing[t].on]
  /\ doing' = [doing EXCEPT ![t].op = "kind"]
  /\ UNCHANGED <<object, given, lost>>

StoreKind(t) ==
  /\ doing[t].op = "kind"
  /\ pool' = [pool EXCEPT ![doing[t].slot].kind = doing[t].what.kind]
  /\ doing' = [doing EXCEPT ![t].op = "data"]
  /\ given' = IF doing[t].slot \in lost THEN given
              ELSE [given EXCEPT ![doing[t].on] = doing[t].slot]
  /\ UNCHANGED <<object, lost>>

StoreData(t) ==
  /\ doing[t].op = "data"
  /\ pool' = [pool EXCEPT ![doing[t].slot].data = doing[t].what.callback]
  /\ doing' = [doing EXCEPT ![t] = Nothing]
  /\ UNCHANGED <<object, given, lost>>

-----------------------------------------------------------------------------
(* Deleting.                                                               *)

\* MPU_SetIndexFreeInKernelObjectPool, in a critical section.
SetFree(t) ==
  /\ doing[t].op = "free"
  /\ pool' = [pool EXCEPT ![doing[t].slot] = Empty]
  /\ doing' = [doing EXCEPT ![t] = Nothing]
  /\ UNCHANGED <<object, given, lost>>

\* The object o is no more, a task not in the middle of what it did.  What named it or
\* was in its hands stays as it is, except for the slots kept, which are freed next.
Left(o, kept) ==
  {i \in Slots :
     \/ pool[i].handle = o /\ ~Held(i)
     \/ Holds(o, i)
     \/ \E u \in Objects : Holds(u, i) /\ Fills(u, o)} \ kept
GivenAfter(o, kept) ==
  [p \in Objects |-> IF p = o \/ given[p] \in Left(o, kept) THEN None ELSE given[p]]
About(u, o) ==
  /\ doing[u].op \in Using
  /\ doing[u].on = o \/ \E i \in Slots : doing[u].slot = i /\ pool[i].handle = o
After(o) == [u \in Objects |->
  IF u = o THEN Nothing ELSE IF About(u, o) THEN [doing[u] EXCEPT !.raced = TRUE] ELSE doing[u]]

\* vTaskDelete, vQueueDelete, vEventGroupDelete and vStreamBufferDelete by handle.
Delete(t) ==
  /\ MayManage(t)
  /\ \E i \in Slots, o \in Objects \ {t} :
       /\ given[o] = i /\ ~Held(i)
       /\ object[o].kind # "TIMER"
       /\ pool[i].kind = object[o].kind /\ pool[i].handle = o
       /\ object' = [object EXCEPT ![o] = Dead]
       /\ given' = GivenAfter(o, {i})
       /\ lost' = lost \cup Left(o, {i})
       /\ doing' = [After(o) EXCEPT ![t] = [Nothing EXCEPT !.op = "free", !.slot = i]]
  /\ UNCHANGED pool

\* An object that ends without its wrapper freeing the slot.
EndsUnnoticed(o) ==
  /\ object' = [object EXCEPT ![o] = Dead]
  /\ given' = GivenAfter(o, {})
  /\ lost' = lost \cup Left(o, {})
  /\ doing' = After(o)
  /\ UNCHANGED pool

\* vTaskDelete(NULL) does not return to what would free the slot.
DeleteSelf(t) == t # FIRST /\ MayManage(t) /\ EndsUnnoticed(t)

\* The timer task gets to tmrCOMMAND_DELETE, which came through MPU_xTimerGenericCommand.
TimerEnds(o) == object[o].kind = "TIMER" /\ given[o] # None /\ ~Held(given[o]) /\ EndsUnnoticed(o)

-----------------------------------------------------------------------------
(* Calling.                                                                *)

\* What the steps of a call depend on; it is about a kind of object that there is.
Calls ==
  {[kind |-> f.kind, privileged |-> f.privileged, result |-> f.result] :
     f \in {g \in Functions : g.kind = NoKind \/ \E x \in Wanted : x.kind = g.kind}}

\* The handle is an index of the pool, from wherever the task has it, and the task is
\* authorized; or the wrapper looks up none.
Check(t) ==
  /\ Idle(t)
  /\ \E f \in Calls :
       /\ f.privileged => object[t].privileged
       /\ LET call == [Nothing EXCEPT !.what = Some(f.kind), !.result = f.result] IN
          IF f.kind = NoKind THEN doing' = [doing EXCEPT ![t] = [call EXCEPT !.op = "kernel", !.on = t]]
          ELSE \E external \in INDEX_OFFSET .. SIZE + INDEX_OFFSET - 1 :
                 doing' = [doing EXCEPT ![t] =
                   [call EXCEPT !.op = "read", !.slot = external - INDEX_OFFSET,
                                !.raced = BeingFreed(external - INDEX_OFFSET)]]
  /\ UNCHANGED <<pool, object, given, lost>>

\* MPU_GetHandleAtIndex compares the kind, then reads the handle.
ReadKind(t) ==
  /\ doing[t].op = "read"
  /\ doing' = [doing EXCEPT ![t] =
       IF pool[doing[t].slot].kind = doing[t].what.kind THEN [doing[t] EXCEPT !.op = "fetch"]
       ELSE Nothing]
  /\ UNCHANGED <<pool, object, given, lost>>

ReadHandle(t) ==
  /\ doing[t].op = "fetch"
  /\ LET h == pool[doing[t].slot].handle IN
     doing' = [doing EXCEPT ![t] =
       IF h = NULL THEN Nothing ELSE [doing[t] EXCEPT !.op = "kernel", !.on = h]]
  /\ UNCHANGED <<pool, object, given, lost>>

\* The kernel returns, with an object of its own or none.
KernelReturns(t) ==
  /\ doing[t].op = "kernel"
  /\ \/ doing' = [doing EXCEPT ![t] = Nothing]
     \/ \E o \in Objects :
          /\ doing[t].result # NoKind /\ object[o].kind = doing[t].result
          /\ doing' = [doing EXCEPT ![t] =
               [Nothing EXCEPT !.op = "lookup", !.on = o, !.what = Some(doing[t].result)]]
  /\ UNCHANGED <<pool, object, given, lost>>

\* MPU_GetIndexForHandle; an object that keeps its handle meanwhile is found as at once.
FirstMatch(i, o, kind) ==
  /\ pool[i].handle = o /\ pool[i].kind = kind
  /\ \A j \in Slots : j < i => pool[j].handle # o \/ pool[j].kind # kind

LookUp(t) ==
  /\ doing[t].op = "lookup"
  /\ \/ \E i \in Slots :
          /\ FirstMatch(i, doing[t].on, doing[t].what.kind)
          /\ doing' = [doing EXCEPT ![t].op = "answer", ![t].slot = i,
                                    ![t].raced = @ \/ BeingFreed(i)]
     \/ /\ \A i \in Slots : ~FirstMatch(i, doing[t].on, doing[t].what.kind)
        /\ doing' = [doing EXCEPT ![t] = Nothing]
  /\ UNCHANGED <<pool, object, given, lost>>

\* MPU_TimerCallback, in the timer task, which alone ends timers.
Fire(o) ==
  /\ Idle(FIRST)
  /\ object[o].kind = "TIMER" /\ given[o] # None /\ ~Held(given[o])
  /\ \E i \in Slots :
       /\ FirstMatch(i, o, "TIMER")
       /\ doing' = [doing EXCEPT ![FIRST] =
            [Nothing EXCEPT !.op = "answer", !.slot = i, !.on = o,
                            !.what = [Some("TIMER") EXCEPT !.callback = pool[i].data]]]
  /\ UNCHANGED <<pool, object, given, lost>>

\* The caller, or the callback, has the handle and goes on.
Return(t) ==
  /\ doing[t].op = "answer"
  /\ doing' = [doing EXCEPT ![t] = Nothing]
  /\ UNCHANGED <<pool, object, given, lost>>

Creating(t) ==
  \/ Reserve(t) \/ LoseSlot(t) \/ KernelCreate(t) \/ KernelRefuses(t)
  \/ StoreHandle(t) \/ StoreKind(t) \/ StoreData(t)
Deleting(t) == Delete(t) \/ SetFree(t) \/ DeleteSelf(t) \/ TimerEnds(t)
Calling(t) ==
  \/ Check(t) \/ ReadKind(t) \/ ReadHandle(t) \/ KernelReturns(t)
  \/ LookUp(t) \/ Fire(t) \/ Return(t)

Next == \E o \in Objects : Creating(o) \/ Deleting(o) \/ Calling(o)

Spec == Init /\ [][Next]_poolVars

-----------------------------------------------------------------------------
Doing ==
  [op : {"none"} \cup Holding \cup Using, slot : Slots \cup {None}, on : Objects \cup {NULL, RESERVED},
   what : [kind : Kinds \cup {NoKind}, privileged : BOOLEAN, callback : Callbacks \cup {NULL}],
   result : Kinds \cup {NoKind}, raced : BOOLEAN]

(* A slot is free, reserved or names an object; only timers have data.     *)
TypeOK ==
  /\ pool \in [Slots -> [handle : Objects \cup {NULL, RESERVED}, kind : Kinds \cup {NoKind},
                         data : Callbacks \cup {NULL}]]
  /\ object \in [Objects -> Things \cup {Dead}]
  /\ doing \in [Objects -> Doing]
  /\ given \in [Objects -> Slots \cup {None}]
  /\ lost \subseteq Slots

(* Every slot that is not free has one user: a wrapper that will fill or   *)
(* free it, an object that was given its handle, or nobody any more, as    *)
(* after xTaskCreate for an unprivileged task, after a task that deleted   *)
(* itself or was deleted in a wrapper, and after a timer.                  *)
SlotsAccounted ==
  \A i \in Slots :
    /\ pool[i] # Empty => Held(i) \/ i \in lost \/ \E o \in Objects : given[o] = i
    /\ \A t, u \in Objects : Holds(t, i) /\ Holds(u, i) => t = u
    /\ \A o, p \in Objects : given[o] = i /\ given[p] = i => o = p

(* A handle that was given names its object until this is deleted: the     *)
(* address, the kind and, when the creation is over, the callback.         *)
HandlesNamed ==
  \A o \in Objects : given[o] # None =>
    /\ Live(o) /\ given[o] \notin lost
    /\ pool[given[o]].handle = o /\ pool[given[o]].kind = object[o].kind
    /\ pool[given[o]].data = object[o].callback \/ \E t \in Objects : Holds(t, given[o]) /\ Fills(t, o)

(* Whatever handle a task uses, and whatever is created, deleted and       *)
(* reserved while its wrapper looks this up, the kernel is given a live    *)
(* object of the kind that the function is about, unless the object of     *)
(* that handle was deleted meanwhile or its slot is one that was not freed.*)
ReachesItsObject ==
  \A t \in Objects :
    doing[t].op = "kernel" /\ doing[t].what.kind # NoKind /\ ~doing[t].raced =>
      \/ doing[t].slot \in lost
      \/ doing[t].on \in Objects /\ object[doing[t].on].kind = doing[t].what.kind

(* The handle that a function or a timer callback gets for an object is    *)
(* the one that was given for it, and the callback is the timer's own,     *)
(* unless an older slot that was not freed, or not yet, still names the    *)
(* same address.                                                           *)
AnswersGiven ==
  \A t \in Objects :
    doing[t].op = "answer" /\ ~doing[t].raced =>
      \/ doing[t].slot \in lost
      \/ /\ given[doing[t].on] = doing[t].slot
         /\ doing[t].what.callback = object[doing[t].on].callback

(* The pool leads from handles to objects and back.                        *)
HandlesSound == SlotsAccounted /\ HandlesNamed /\ ReachesItsObject /\ AnswersGiven
=============================================================================
