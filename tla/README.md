# Verification of the greenhouse CO2 controller

TLA+ models of the firmware in `src/` (RP2040, FreeRTOS 10.6.2, lwIP) and of the
kernel it runs on, their TLC configurations, and proofs checked by TLAPS. Paths
below are relative to the repository; `src/src` is the firmware,
`src/FreeRTOS-KernelV10.6.2` the kernel.

The firmware keeps the CO2 concentration of a greenhouse near a setpoint: it
measures over Modbus, opens a gas valve for a short time when the reading is
too low, runs a fan when it is too high, shows the readings on a display, and
exchanges samples and setpoints with a cloud service over Wi-Fi. Gas that keeps
flowing, a controller that never starts, and a setpoint that gets lost are the
failures that matter; all of them depend on the order in which five tasks, a
timer and a few interrupts run.

## 1. Inventory

`main()` (`src/src/main.cpp`) creates four queues of length 3, one event group
and the objects whose constructors create the tasks. Everything runs on one
core with preemption and time slicing.

| Part | Source | State it keeps | Operations | Modelled |
|---|---|---|---|---|
| CONTROLLER task (prio 1) | `controller/CO2Controller.*` | level in force, last readings, rounds since the valve was opened, snapshot of the event bits | wait for bits, warm up, probe, first setpoint, then rounds: read, fan, valve, wait for a setpoint or 30 s | yes |
| valve timer (timer daemon) | same | one-shot timer of 1.5 s | start (restarts a running timer), callback closes the valve | yes |
| UI task (prio 1) | `ui/UITask.*` | screen, menu selections, the text being typed, the configuration, the setpoint, time of the last activity | one turn every 200 ms: take a sample, rotation and press, time-outs, draw | yes |
| CONNECT task (prio 2) | `ipstack/thingspeak.cpp` | - | take one configuration, join, set bit 0 or 1, wake SEND and READ or suspend for good | yes |
| SEND, READ tasks (prio 1) | same | - | sessions under `ipstack_mtx`: upload a sample; poll for a setpoint every 10 s | yes |
| IPStack (and the lwIP task) | `ipstack/IPStack.*` | connection, flags, receive ring with `count`, `wr`, `rd` | connect, write, read, disconnect; callbacks of lwIP | yes |
| EEPROM configuration | `storage/*` | three fields with a checksum each | load and save setpoint and Wi-Fi configuration | yes |
| actuators, sensors | `actuators/*`, `sensors/*` | valve pin; fan speed register (in the fan) | set, status, read | as CONTROLLER sees them |
| rotary encoder | `input/*` | ticks, pressed flag | interrupt; `getDelta`, `wasButtonPressed` | yes |
| I2C driver | `i2c/*` | counters of a transfer, FIFOs of the chip, task notification | a transaction with a time-out against its interrupt, on two buses | yes |
| UART driver | `uart/*` | receive and transmit queue, FIFO | read and write against the interrupt | yes |
| Modbus | `modbus/*` | message buffer, error code | read and write one register | the calls made |
| display | `display/*` | frame buffer | drawing; commands to the chip | the drawing |
| kernel: tasks | `tasks.c`, `list.c`, `port.c` | ready, delayed, pending, suspended lists, tick counter, notifications | scheduling, the tick, delays, notifications, task control, queries, sleep without ticks, locks of the SDK | most |
| kernel: queues | `queue.c` | items, the lock, holder and depth of a mutex, sets | send, receive, peek, reset, from tasks and interrupts; mutexes; sets | most |
| kernel: event groups | `event_groups.c` | bits | wait, set, clear, rendezvous, delete | yes |
| kernel: timers | `timers.c` | two lists of active timers | commands, expiry, pended calls | most |
| kernel: stream and message buffers | `stream_buffer.c` | a ring of bytes, who waits | send, receive, trigger level, reset, from tasks and interrupts | most |
| kernel: co-routines | `croutine.c` | ready, delayed, woken lists | schedule, delay, send, receive | yes |
| kernel: making and deleting objects | `tasks.c`, `queue.c`, `timers.c`, `event_groups.c`, `stream_buffer.c` | whose memory an object lies in, the registry of queues, the start of the scheduler | create, delete, register, start | most |
| kernel: handles of protected tasks | `mpu_wrappers_v2.c` | the pool that leads from handles to objects | a wrapper for every call: look the handle up; create and delete | yes, not compiled in |
| kernel: heaps | `heap_4.c`; `heap_5.c`, `heap_2.c`, `heap_1.c` | headers, list of free blocks | allocate, return | yes |
| `Fmutex`, blinker, TLS options, `webserver/`, other kernel files | | | helpers, vendored, or not part of the firmware | no, see 5 |

How they interact:

- `controllerQueue`: setpoints from UI (time-out 0, result ignored) and READ
  (waits without a limit, mutex in hand) to CONTROLLER.
- `displayQueue`, `cloudQueue`: samples from CONTROLLER (time-out 0) to UI and SEND.
- `wifiQueue`: configurations from UI to CONNECT, which takes one per boot.
- event group: bit 0 "network up" and bit 1 "network down" from CONNECT, bit 2
  "go on without" from UI; CONTROLLER waits for 0 or 2 and keeps a snapshot, UI
  looks at 0 and 1. Nothing ever clears a bit.
- task notifications CONNECT -> READ, SEND, and from the I2C interrupts of both
  buses to UI; `ipstack_mtx` between SEND and READ.
- lwIP callbacks write into the IPStack that SEND and READ use.
- drivers and their interrupts share queues, counters and flags; only kernel
  queues are safe to share without further care.

What is hard, and what makes each part correct:

- **CONTROLLER.** A setpoint ends the wait of a round at once, so the rate of
  rounds is in the hands of others while the valve is timed by a daemon that
  takes no lock. Correct: an open valve is always about to be closed; rounds
  cannot keep it open by themselves; start-up ends even with a dead sensor; the
  fan follows the readings although writes and status reads fail unnoticed; no
  inaccurate sample is forwarded, and none to a cloud that is not there.
- **UI.** Eleven screens, a text and a flag shared by two of them, two kinds of
  input and four time-outs. Correct: one configuration per boot, made of what
  was typed for it; "without connection" only after a failure; a start menu
  nobody touches gets to HOME; the connecting screen follows the verdict.
- **Network tasks.** Any step of a session can fail. Correct: one session at a
  time, owned by the holder of the mutex, never without an uplink; the blocking
  post cannot lock the system up; SEND is not starved.
- **Program.** The bits, queues and notifications have to fit together: the
  snapshot of CONTROLLER agrees with the final verdict, the EEPROM gets the
  configuration that was joined, nothing is put where nobody takes it.
- **Sessions and receive ring.** Callbacks of a task of higher priority fall
  between any two steps of `connect`, `read` and `disconnect`. Correct: the ring
  is a queue of bytes; every connection is given back once; old bytes are only
  those that lay in the ring at the end of a session; sessions end and go on.
- **Sensor line.** Requests and answers carry no number, bytes of one answer
  are taken in parts, and each part can fail. Correct: a read returns what the
  asked device said to this request, or reports that it did not; it always ends;
  one transaction leaves nothing for the next.
- **Drivers.** An interrupt and a task share a few variables; the interrupt can
  come in any gap and after the time-out of the wait for it. Correct: counts
  and results say what happened on the wire, nothing is lost or sent twice, no
  buffer is written after its owner has gone, every wait ends.
- **EEPROM.** Three fields, two of which belong together, written one by one;
  any write can be cut off. Correct: a field reads as something that was saved
  for it or as bad, and the UI has a default for bad ones.
- **Kernel.** Every call is divided into critical sections, and an interrupt or
  the tick can come between them; the tick counter wraps. Correct: the highest
  ready task runs; no wake-up is lost; time-outs are neither early nor late;
  priorities that are lent are owed and paid back; memory belongs to one owner
  and is freed once.

## 2. Modules

| Module | What it is |
|---|---|
| `CO2Controller` | CONTROLLER, the valve timer, the valve and the fan, in ticks, with the most general environment on the queues and the event group |
| `ControllerView` | what CONTROLLER promises to the other tasks; that CO2Controller implements it is stated at the end of `CO2Controller` |
| `UITask` | the UI task, cut where others see it, time in turns, with the EEPROM and an environment |
| `UIView` | the dialogue UI promises to the other tasks; that UITask implements it is stated at the end of `UITask` |
| `ThingSpeak` | CONNECT, SEND and READ |
| `Greenhouse` | the program: ControllerView, UIView and ThingSpeak on shared queues and event group |
| `ByteFifo`, `IPStack` | a queue of bytes with a limit; the receive ring that should implement it |
| `Session` | connect, write, read and disconnect against the callbacks of lwIP, over such a ring |
| `Modbus` | the client as the firmware uses it, its receive queue, the wire and the devices, byte by byte |
| `ModbusServer` | the whole library: all functions of client and server, and a device beside them |
| `ModbusFrame` | the bytes of a message, for both |
| `PicoI2C` | a transaction, its interrupt and the I2C controller of two buses |
| `Storage` | the records in the EEPROM |
| `RotaryEncoder`, `UartTransmit` | the knob; the transmitting half of the UART driver |
| `Framebuf` | drawing into the buffer of the display |
| `Heap`, `HeapBySize`, `HeapOnce` | the heap the firmware links, in one region or several; one in order of size that never merges; one that only hands out |
| `TaskList`, `Scheduler` | the lists of the kernel; ready, delayed and pending tasks, the tick, the switch, inheritance |
| `TaskCalls` | the calls of `tasks.c`, step by step, the queries among them |
| `Tickless` | the idle task sleeping without ticks |
| `Queue`, `EventGroup`, `Timers`, `StreamBuffer` | the calls of the other kernel files, on TaskCalls |
| `CoRoutine` | co-routines and the queue calls made for them |
| `KernelObjects` | making and deleting the objects of the kernel, and the start of the scheduler |
| `MpuWrappers` | the handles that tasks have with memory protection, created, deleted and looked up against each other |
| `PendedCalls` | calls left to the timer task, and the locks of the SDK |
| `Kernel` | the kernel put together, the tasks and interrupts that call it, and its properties |
| `CO2Controller_proofs`, `UITask_proofs`, `ThingSpeak_proofs`, `Greenhouse_proofs` | the proofs about the module each is named after, the refinements of the first two included |
| `Network_proofs`, `Drivers_proofs` | the proofs about IPStack and Session; about RotaryEncoder, UartTransmit, Storage and PicoI2C |
| `Modbus_proofs` | the proof about the sensor line |
| `Memory_proofs` | the proofs about the heaps in order of address, the one that only hands out, the handles and the objects |
| `MC...` | values for the constants; `MCNetwork` puts IPStack and Session beside each other, `MCDrivers` the parts below the tasks |

Which module is built on which:

    CO2Controller --implements--> ControllerView --.
    UITask        --implements--> UIView         --+--> Greenhouse
    ThingSpeak    ---------------------------------'
       |  its sessions: Session   over   ByteFifo <--implements-- IPStack
    CO2Controller's readings: Modbus over UartTransmit;  UITask's knob, EEPROM
    and picture: RotaryEncoder, Storage over PicoI2C, Framebuf
    all of them on: TaskList - Scheduler - TaskCalls - Queue, EventGroup - Timers
                    - PendedCalls - Kernel, with Tickless and StreamBuffer;
                    CoRoutine on TaskList; KernelObjects, Heap; MpuWrappers

An upper module takes any outcome the lower one can have: CONTROLLER any result of
a read, UI any rotation and any field that is good, lost or torn, a session any
failure. The two refinements and `EnvironmentsMet` make the upper composition
exact; between the tasks and the drivers it is by reading.

A definition keeps the name of the function it comes from where it can
(`ReadSensors`, `ControlFan`, `CheckEventBits`, `Receive`), and a comment where
it cannot. A definition marked *slip* in its comment is no part of a model: it
is a mistake one could make at that place, used to see that a property notices.
Variables marked *history* are read by properties only.

### CO2Controller

`pc` is the point in `run()`; `co2Level`, `co2`, `fan`, `measurementCount` and
`eventBits` are the members; `delay` is what is left of `vTaskDelay` or of the
receive time-out, `valveTimer` what is left of the timer. One action is what
happens up to the next point where another task, the daemon or the clock can
matter. `OpenValve` and `ArmTimer` are separate because the daemon does not
take `guard`. `guard` itself is taken by this task only and never blocks, so it
is left out. When the timer is due (`TimerDue`) only the callback can run: the
daemon has the highest priority. `TakeSetpoint` is shared by the first, the
unlimited, wait and the one that ends a round. A read of a register may fail
(0); a write to the fan may not arrive; the status may show "stopped" whatever
the fan does. `setpointsSinceOpen` is history. A full queue loses the newest
sample, as the posts without a wait do: `SamplesForwarded` says what that must
not cost, the other task's sample and those that wait.

### UITask

`uiPc` is the place in a turn. A turn is cut at queues, event group and EEPROM
fields: the screens change in one step with the press that changes them, but
`SaveSsid` and `SavePwd` are two, and each may be lost or torn. A character is
the screen it was typed on, a text the sequence of those; that is all the
properties about credentials need. `idle` counts turns since `lastActive` and
saturates above the longest time-out. A boot starts in `Init`, and `Init`
allows every content of the EEPROM that a previous run, cut off anywhere, can
leave (each field good or bad on its own); this stands for losing power. It is
more general than an action that restarts the model, and keeps the state space
small. `unattended` is history: from some turn on nobody uses the encoder.

### ThingSpeak, Session, IPStack

In ThingSpeak `connectPc` and `workerPc` are the points of the three tasks; SEND
and READ share the actions of a session. DNS, TLS and TCP are outcomes:
`OpenSession` may fail, `Write` may fail, an answer may hold a setpoint or not.
`session` is the open connection. The 10 s pause of READ can end at any time.

Session opens this up: `at` is the point in `connect`, `write`, `read` or
`disconnect`, `tcp_pcb`, `connected` and `dns_ready` are the members, `conn` is
what lwIP has made of each connection. Callbacks come between any two steps but
not inside `cyw43_arch_lwip_begin`/`_end`. A byte is the connection it came
from. `addr` is the local variable of `connect` into which the address the
resolver delivers later is not written. A pointer that lwIP has freed is not
dereferenced in the model: `altcp_close` of it is taken to do nothing, and that
it happens at all is what `DanglesInSessionOnly` bounds.

In IPStack `buffer`, `count`, `wr` and `rd` are the members, the other variables
the locals of `read()`. The callback is one step, as it runs in a task of higher
priority; `read()` is cut at every access to `count`, and `count -= n` is a load
and a store. `Spec` lets the callback run anywhere, `AtomicSpec` anywhere but
between a load and its store. The number of dropped bytes is only ever counted
and is left out. `segment`, what came in last, is history.

### Greenhouse

The two big tasks appear as their views, the network tasks as they are.
`EnvironmentsMet` is the other half of this argument: in the program each
component sees only what it was modelled to see. displayQueue is not in the
views: UI takes one sample per turn and never waits for it, so no other task can
tell. A sample in `cloudQueue` is a token, since no other task looks at its
contents.

### Modbus

One transaction is one call of `ModbusRegister::read` or `write`. `pc` says which
`recv` the client waits in; `buf` is the message buffer, `need` the length the
answer announced, `value` the caller's variable, `err` the error code that
`ModbusRegister` throws away. Each `recv` is one action, guarded by the number
of bytes in `rx`; the checks behind it decide where it goes on. `TimeOut` takes
what there is, as `PicoOsUart::read` does, and ends the transaction: the rest of
a frame, if it comes, stays in `rx`. `due` holds what the devices have heard and
not answered; `Answer` puts a whole frame on the wire and `Deliver` is the
receive interrupt. A byte carries, as history, the request it answers and
whether that is still the current one. A CRC is the message it was computed
from, so "no other message has this CRC" is assumed.

### PicoI2C

`task` is the point in `transaction()`, `wctr`, `rctr` and `rcnt` the counters
it shares with `isr`, `mask` the causes it enables, `note` the one notification
the UI task has for both buses. The rest is the controller: `tx_fifo` of
commands, `rx_fifo`, `stop` (STOP_DET), `flushed` (after a refusal the FIFO
discards commands until the controller is disabled), `late` (an abandoned
transfer that has yet to stop). Faults are a device that refuses a byte and a
transfer that outlasts the second. Of the controller it is assumed that
disabling it empties its FIFOs and may leave STOP_DET set, and that the handler
is done before another byte is.

### Storage, RotaryEncoder, UartTransmit

Storage writes records of body, terminator and checksum into entries of the
EEPROM byte by byte; a write may stop after any byte, as a refused or unpowered
write does, and the EEPROM keeps what arrived. The caller's result is ignored
as in the code. The checksum is taken to tell any two bodies apart; its second
byte may be zero, which is what the search for the terminator has to survive.

RotaryEncoder cuts `getDelta` and `wasButtonPressed` between their reads and
writes; the tick counter wraps.

UartTransmit has `write()`'s steps around the interrupt: queue a byte, first
filling with the interrupt shut off in the processor, enabling the cause in the
UART. The UART raises its condition when the FIFO falls to its watermark, not
while it lies below it. The handlers call `uart_irq_tx` whatever the UART
interrupts for, so `IrqTx` needs no more than that the processor lets interrupts
through: a receive interrupt can empty the queue while `write()` still fills it and
the transmit interrupt is off, or fill the FIFO above its watermark and take the
condition away. It never switches the transmit interrupt on. `AsksForBytes` tells
the transmit interrupt from the others; only fairness asks for it, as nothing
promises that bytes are received. A `write()` that finds no room in time drops the
rest (`NoRoom`), and interrupts may still come before it holds them off.

### Framebuf, the heaps, KernelObjects

A byte of the buffer is the set of its lit bits; `drawn` is the picture that was
asked for, by the meaning of the calls. Every drawing call of the class is an
action. Filling rectangles is not clipped in the code, so callers stay inside;
lines may leave the display by one pixel.

Heap keeps the headers by address and the list of free blocks as pointers, as
the code does. `pvPortMalloc` and the list part of `vPortFree` are one step
each (the scheduler is suspended); `vPortFree` marks the block as free before
that, in a step of its own. Sizes are those of a `size_t` and overflow.
`regions` is history: what the application holds. With `Regions` of several
entries it is `heap_5.c`. HeapBySize (`heap_2.c`) keeps its blocks by size and
HeapOnce (`heap_1.c`) an offset. Of the four only `heap_4.c` is linked.

KernelObjects takes an object's parts from the heap one allocation at a time, any
of which may fail, and gives them back on deletion; sizes overflow as a `size_t`
does. A task, queue, semaphore, timer, group or stream may lie in memory of the
caller, a task also with its stack only. The registry of named queues has no lock,
so its searches and stores are steps of their own, and `mixed` is history: two
calls were in it at once. `main` makes its objects before the scheduler is started;
that adds the idle task, the timer queue and the timer task or halts.

### CoRoutine

`vCoRoutineSchedule` runs one co-routine to its next wait; an interrupt may come
between any two steps, since the lists are not locked, and touches only the event
lists and the list of the woken. The tick counter co-routines wait by is their
own and lags behind the kernel's until they are scheduled, so a delay counts from
there; there is no "for ever", and one interrupt wakes one co-routine. They are
created before the scheduler runs. The build does not use them
(`configUSE_CO_ROUTINES` is 0).

### MpuWrappers

With memory protection a task holds no pointers to kernel objects: a handle is an
index into a pool, and each wrapper looks it up before it calls the kernel. The
lookups are not locked, so `pool` is read and written field by field, and wrappers of
several tasks interleave. `doing[t]` is the wrapper that task t is in: the step it is
before, the slot, the object it found. A function is what its wrapper makes of it: the
kind of object its handle is to name, whether the caller must be privileged, the kind
of object whose handle it returns (`Functions`, `Creators`). A wrapper that refuses
has changed nothing and is no step. Whether a task may use a handle is up to the port;
the repository has none with memory protection, so it is a choice. The kernel makes
and ends objects, and the memory of one that ended can be the next one's. `given` and
`lost` are history: the slot of an object, and the slots nobody will free any more.

### Kernel

All that `tasks.c` keeps is one record, `kernel`; each of its functions is an
operator from such a record to the next, and a critical section, which calls
several, is their composition and one step. `call[t]` is the kernel call a task is
in and how far it has got. Between two steps of a task any interrupt and the
tick may come. A yield only sets `pendsv`; the task takes no further step before
`SwitchContext`. A time-out found to have expired leaves no ticks to wait (`Spent`):
a caller that then loses the item it saw returns at once. `TaskCalls`, `Queue`, `EventGroup`, `Timers` and `PendedCalls`
have an operator for each step of each call. In `Kernel` a behaviour runs one
*scenario*: which tasks take part, which calls each may make, which interrupts
come, and the tick it begins with. A task that is in no call makes any of its
calls; what a task does in between is not modelled, and it may do it for as long
as it likes, so nothing is assumed about how fast tasks are.

Tickless stops the tick when the idle task finds nothing to do before the next
time-out: `value` is how many ticks it may sleep, `at` how many have passed, and the
counter is stepped on when it wakes. What is lost of a tick while the timer is
reprogrammed is left out, and with this port the step never reaches the time at
which the kernel would have to leave one tick to the handler. The build has
`configUSE_TICKLESS_IDLE` 0. A lock of the SDK with a deadline counts in
microseconds: what is left of it when the group is waited on is one or two ticks
less than the deadline says, which is a choice here. In StreamBuffer writer and
reader do not lock each other out: bytes are copied in one step and head or tail
moved in the next.

`Legal` keeps tasks to the rules the kernel states for its callers: a mutex is
given back by the task that holds it and not taken twice by one unless it is
recursive (to depth 2), the queue a set names is the next one to be read, a task
that holds a mutex is not deleted, and nothing is asked of a task that is gone.
`until`, `cut`, `at`, `due`, `fired` and `reset` are history: the moment a
time-out ends, whether another task cut a wait short, when a timer command was
made, when a timer has to fire and how often it has, whether a queue was reset.

## 3. Runs

| Run | Module / configuration | What it shows |
|---|---|---|
| `controller` | `CO2Controller` / `CO2Controller.cfg` | types, `ValveGuarded`, `SamplesForwarded`, `ReopenNeedsTwoSetpoints`, `ValveCloses`, `FanFollows`; ControllerView is implemented, with its fairness: `ImplementsFairView` |
| `ui` | `UITask` / `UITask.cfg` | types, `OneConfigPerBoot`, `CredentialsTyped`, `ScreensMoveOn`; UIView is implemented, with its fairness: `ImplementsFairView` |
| `ui_ssid` | `UITask` / `UITaskSsid.cfg` | **violated**: a password can be saved as the SSID |
| `system` | `MCGreenhouse` / `Greenhouse.cfg` | types, `SessionExclusive`, `WorkersNeedUplink`, `UplinkKnown`, `NothingStranded`, `SavedWasJoined`, `EnvironmentsMet` |
| `system_liveness` | `MCGreenhouse` / `GreenhouseLive.cfg` | `WorkersProceed`, `UnattendedOnline` |
| `system_recovery` | `MCGreenhouse` / `GreenhouseRecovery.cfg` | **violated**: an unattended boot without a network never controls |
| `network` | `MCNetwork` / `Network.cfg` | types; with an atomic `count` the ring implements ByteFifo (`ImplementsFifo`); `ConnectionsAccounted`, `StaleWereLeft`, `SessionsGoOn` |
| `ring_race` | `IPStack` / `IPStackRace.cfg` | **violated**: as written, `count` loses a segment |
| `drivers` | `MCDrivers` / `Drivers.cfg` | types; `AnswersHonest` of the sensor line and of client and server of the Modbus library, `TransferIsHonest` of I2C, `RecordsIntact` of the EEPROM, `InputAndOutputAccounted` of the knob and the UART, `PictureDrawn`, `MemoryIsSound` of the heaps, the objects in them and the handles of protected tasks, `CoRoutinesSound`; `EveryWaitEnds` |
| `modbus_late` | `MCModbus` / `ModbusLate.cfg` | **violated**: a late answer is taken for that to the next request |
| `kernel` | `MCKernel` / `Kernel.cfg` | types, `HighestRuns`, `NoLostWakeUp`, `ObjectsHonest` (mutexes, groups, locks, streams), `WaitsKeepTime` |
| `kernel_disinherit` | `MCKernel` / `KernelDisinherit.cfg` | **violated**: a task that has returned its last mutex goes on although another outranks it |

The violated runs check what a comment or the screen says:

1. `SsidTyped`. A text of full length leaves the "New password: " screen
   (`UITask.cpp:254`) by a press, without `setWifiPwd`, which only the time-out
   sets; the confirmation then takes the text for an SSID.
2. `UnattendedRecovers`. "if power loss, able to recover itself"
   (`UITask.cpp:197`). With bit 1 set the UI is at HOME, where nothing sets bit
   2, so neither it nor a user who comes later can start the controller.
   `UnattendedOnline` is the half that holds.
3. `CountIsStored`. "reduce count by the rest of the copied bytes"
   (`IPStack.cpp:280`), against "increment count ..." in the callback.
4. `AnswersAsked`. "Send a FC 03 (0x03) Read Holding Registers request" from a
   "starting address", "NMBS_ERROR_NONE if successful" (`nanomodbus.h:318-324`).
   Temperature and humidity are registers of one device: the answer to the
   first, when it misses the time-out, is in the queue when the second is asked
   for, has the right unit and function code, and carries no address.
   `LineIsHonest` says that this takes a disturbance. With another device next,
   the header is refused after two bytes, and the other five are read as headers
   by the transactions that follow.
5. `LastMutexSwitches`. "a context switch should occur when the last mutex is
   returned whether a task is waiting on it or not" (`tasks.c:4277`).
   `xQueueGenericSend` passes on the yield that `xTaskPriorityDisinherit` asks
   for only if no task waits for the mutex (`queue.c:983-1005`). Take a holder that
   inherited from a task whose wait has timed out, in the tick that made the
   holder ready again, while a task of lower priority waits too: the holder's
   priority falls below the first one's, and no switch is pending. In the
   passing run, where only one of the three tasks gives up, `HighestRuns` holds.

What the properties do not condemn but a reader should know:

- Two setpoints that arrive while the valve is open make two rounds follow at
  once, the valve is opened again, and `xTimerStart` restarts the timer, so it can
  stay open for longer than the 1.5 s of `CO2Controller.cpp:23`.
  `ReopenNeedsTwoSetpoints` says that this is the only way.
- The address that the resolver delivers is stored as text and not used
  (`IPStack.cpp:96`); the session that had to ask dials whatever `addr` held.
  The next one finds the address in lwIP's cache, hence `SessionsGoOn`.
- The ring is not emptied between sessions; `StaleWereLeft` bounds what the next
  one reads.
- A tick of the knob between load and clearing is lost; `InputAndOutputAccounted`
  counts exactly those.
- `xQueueReset` wakes one waiting sender, although all places have become free;
  `NoLostWakeUp` exempts a queue that was reset.
- `xEventGroupClearBitsFromISR` passes no flag for a yield, so the daemon it wakes
  runs at the next tick; a yield "noted for the next tick" is what `HighestRuns`
  allows.
- The queries of `tasks.c` are not snapshots: one that walks the ready lists moves
  the index the switch takes its next task from, so that asking changes whose turn
  it is; a task that waits for a notification for ever is reported as suspended.
- A receiver of a stream may return with nothing before its time is over, and a
  sender whose time is over stores by the room it saw before it slept.
- A task whose wait for bits has timed out but that has not run again looks at its
  group when it does; when the group was deleted meanwhile, this memory was given
  back. The model reads what was last there.
- `heap_5.c` merges a free block at the end of a region with the link to the next
  one, to no harm. `heap_2.c` never merges, so that what it refuses may well be free;
  only for the others `RefusedOnlyWhenFull` is claimed.
- Slots of the pool of handles are lost: the wrapper of `xTaskCreate` reserves one
  before it refuses a privileged priority to an unprivileged caller; a timer, a task
  that deletes itself and one deleted inside a wrapper leave theirs. A slot that still
  names an address answers for the next object there. The wrappers that delete end the
  object before they free its slot, so that a lookup in between finds the old handle
  too, and a new task that runs before its handle is stored is told that it has none.
  `HandlesSound` holds with these exceptions.
- `vStreamBufferDelete` frees the slot it looks up whatever that holds, and
  `xStreamBufferGetStaticBuffers` looks the address it found up once more, as a handle,
  and so never reaches the kernel.

### Bounds

The queues between the tasks hold 3 items in the code; here they hold 1: a queue
of 1 is empty or full, which is what the guards tell apart, and makes "full"
happen soonest. History counters saturate above the value a property compares
them with.

- CO2Controller: a tick is about 750 ms. The timer runs for 2 and a round for 3,
  the smallest with `VALVE_OPEN_TIME < measuringInterval`; start-up has room for
  two probes. Readings are a failed read, one that asks for gas, one for the fan;
  the level is the initial 1200 or the setpoint 1000.
- UITask: times count in turns. The entry and confirm screens time out in the
  first turn without activity and the start menu in the second, so that the
  short time-outs are told apart from the long one, and each can race a press. A
  text is full after one character, so it is typed empty and in full. A setpoint
  step is 1500, so that clamping happens at both ends. In `ui` the knob turns one
  way only and the EEPROM starts with no good setpoint; the proofs, `ui_ssid` and
  `system` have the rest.
- Greenhouse: the saved and one typed configuration, one setpoint from each
  source, and one answer of the cloud that is out of range.
- IPStack and Session (`Network.cfg`): a ring of 3 bytes of 2 values, segments of 1 to 4 bytes: shorter, as
  long and longer than the ring, in all alignments. Session: a ring of 2, three
  connections (two that lwIP is not done with and a third), one poll, and the
  resolver's cache may expire once.
- Modbus: two registers of one device, one of another and the write to the fan
  (in `drivers` without the third), three transactions and one disturbance at any
  byte: the first can go wrong, the second finds what it left, and the third what
  those two left; the receive queue holds 12 bytes, so that the second answer does
  not fit behind a leftover. The word of data (in `modbus_late` there are two) holds
  the fan's unit and function code, so that a shifted header can be taken for a good
  one. One disturbance is also the bound of `NotFromParts`, that an accepted answer is
  not put together from two. With six it can be (the rest of one answer is lost, and
  the head of another that begins alike): TLC shows it for two transactions and a bound
  of eight.
- ModbusServer: the data of a file record is swapped in place, at an odd address, where
  the processor stops, and a length in an answer is taken on trust; the model goes on as
  written or is "halted", as it chooses. Each function once with small numbers, once with the largest it
  takes (a frame of the full 256 bytes), once where either end refuses; two file
  records in one request, raw requests, the other device and all of them; then
  two reads that could be given what was left over. One disturbance, of frames of
  up to 20 bytes. No fairness: which messages come is up to the line.
- The drivers that are proved about take their constants from `Drivers.cfg`, the
  rest of `drivers` is given its values in `MCDrivers`.
- PicoI2C: two buses, FIFOs of 2, transfers of 1 to 5 bytes, that is within and
  beyond the FIFO with and without a read, and one fault of each kind.
- Storage: entries of 5 bytes with texts of up to 2 characters, so that the
  longest just fits as in the code; two saves, one of them cut off anywhere.
- RotaryEncoder: 3 ticks of the knob, 7 of a clock of 4 values, which wraps, a
  debounce of 2. UartTransmit: a queue and a FIFO of 3 with a watermark of 1, 9
  bytes in messages of up to 5: the queue fills, the FIFO runs empty.
- Framebuf: 5 by 3 pixels, two rows in a byte, so that the last byte of a column
  is half used; glyphs of 2 columns, two calls after each other. Heap: 27 bytes
  at an odd address, two callers, sizes that fit, that do not, that leave a rest
  too small for a block, and that overflow the 6 bit `size_t`; the other heaps alike,
  heap_5 with a second region that follows the first at once. KernelObjects: each kind
  of object once, a queue and a stream whose size overflows, one slot less in the
  registry than queues to name. CoRoutine: two that wait for what a third sends, on a
  queue of 2, a counter of 3 values. MpuWrappers: a pool of 2, two tasks in wrappers at
  a time; objects of two kinds, privileged tasks and timers, the ones with something
  particular about them (a look at who calls, callbacks, slots that stay). TLC has checked the
  inductive invariant of the proof with a pool of 3 too.
- Kernel: the tick counter has 8 values and a scenario starts at 6 or 7, so that
  every time-out of 1 to 3 ticks can cross the wrap; `Horizon` stops the clock two
  or three ticks later, which is enough for a wait, its time-out and one more, and
  is why deadlock is not checked. Two interrupts. Three tasks of different, or of
  equal, priority besides idle and daemon; an item of a queue, which has room for
  1 or 2. The 25 scenarios: `queue`, `uart` (interrupt at the taking end), `mutex`,
  `notify`, `group`, `timer`, `reload`, `control` (suspend, resume, abort,
  re-prioritise), `lives` (delete and create), `peek`, `recursive`, `reset`, `set`,
  `periodic` (delay until), `wait` (notification with bits), `sync` (rendezvous, and
  deleting its group), `pended`, `sdk` (locks, with and without deadline), `resume`
  (from an interrupt), `info` (queries while tasks are deleted and suspended), `stream`,
  `message`, `bytes in` and `bytes out` (streams against an interrupt), `sleep`
  (without ticks; it begins at 4, so that there is something to sleep for).
  In `mutex` one task gives up; `kernel_disinherit` runs a scenario in which all may.

### Fairness

- CO2Controller: the task, the daemon and the clock are weakly fair (ready
  tasks of equal priority are time sliced, the daemon has the highest
  priority). One conjunct is strong: not all of infinitely many fan commands
  are lost or preceded by a failed status read. Without it no controller could
  move the fan. `ValveCloses` and `FanFollows` state in their premise what the
  readings and the setpoints eventually do.
- UITask: the turns go on. Nothing is assumed of the user.
- Greenhouse: tasks are weakly fair. `Take` of the mutex is strongly fair,
  because READ pauses for 10 s between sessions and the kernel hands a mutex to
  a waiting task; `Post` is strongly fair because the kernel serves a waiting
  sender before a later one. A session ends, which `network` shows.
- Session: the caller is scheduled and its time-outs fire, lwIP answers a request
  for a name (it gives up after some retries) and finishes what is closed.
  `ServerReached` has the premise `NetworkWorks`: names are found, memory
  suffices and the server accepts again and again.
- Drivers: tasks are scheduled and time-outs fire, interrupts are served, devices
  answer or do not, the I2C controller and the UART go on sending. The UART's
  interrupt for more bytes (`AsksForBytes /\ IrqTx`) is strongly fair, since `write`
  shuts it off for a moment each time; that a byte is received is not promised, so
  no wait ends thanks to a receive interrupt.
  Requests, presses and messages are not fair.
- Kernel: only safety, no fairness.

## 4. Proofs

Everything below is proved for every value of the constants that the named
assumptions of the modules allow.

`CO2Controller_proofs`:

- `TypeCorrect`: `Spec => []TypeOK`. One step per action; the queues need the
  lemmas on `Append`, `Tail` and `Offer`.
- `ValveIsGuarded`: `Spec => []ValveGuarded`. Inductive with types: the pin is
  set only on the way to "arm", where nothing but `ArmTimer` leaves, and the
  timer becomes dormant only in the callback, which clears the pin.
- `ReopenAfterTwoSetpoints`: `Spec => ReopenNeedsTwoSetpoints`. "The rounds in
  between last longer than the timer" is not visible in the state in which the
  valve is re-opened. The invariant `OpenRounds` relates, while the timer runs,
  how many rounds were measured, how many setpoints were taken, and how much of
  the current wait is left compared with the timer: with no setpoint the first
  wait outlasts the timer, and with one the second does. Only
  `VALVE_OPEN_TIME < measuringInterval` is used of the times.

- `SamplesAreForwarded`: `Spec => SamplesForwarded`. `ForwardedInv`: what lies in a
  queue was good when it was put there, and bit 0, once remembered, stays set. What
  becomes of a sample (`LossStep`) is a fact about a single step, `ReadSensors`, the
  only one that touches a queue at "read": `OfferAddsOrLoses` says that it goes behind
  what waits, or nowhere if the queue is full.
- `ControllerImplementsView`: `Spec => View!Spec`, the safety half of
  `ImplementsFairView`. A sample in a queue becomes a token, so the lemmas
  `SeenAppend` and `SeenTail` say that appending and taking look alike on both
  sides; then one lemma for each group of actions: those that are a step of the
  view, and those nobody else sees.

`UITask_proofs`:

- `OneConfig`: `Spec => []OneConfigPerBoot`. `OneInv` adds which points of a turn
  and which screens can still be before the sending, and that these are never
  reached again.
- `CredentialsAreTyped`: `Spec => []CredentialsTyped`. `CredInv` says for each
  screen what the text, the flag and the configuration may hold; `EntryTexts`
  and `ReadsTyped` are about texts and fields of any length.
- `TypesHold`: `Spec => []TypeOK`. A text stays within its limit because its last
  character also ends the entry.
- `UIImplementsView`: `Spec => View!Spec`. The stage of the view is a function of
  screen and point (`StageIs`); `DefaultInv` says that the check for a default
  start runs only when that was chosen.

`ThingSpeak_proofs`:

- `NetTypesHold`, the types of the points, the mutex and the session; `NetworkTyped`
  adds the queues and what lies in them.
- `SessionsAreExclusive`: `Spec => []SessionExclusive`, inductive with the types:
  each action of a worker is checked against both workers, since an action of
  one must not put the other inside.
- `WorkersHaveUplink`: `Spec => []WorkersNeedUplink`, assuming only that
  `NoConfig` is no configuration. The strengthening says where CONNECT is when
  a worker is notified or past its wait, that bit 1 and bit 0 exclude each
  other, and that a configuration was taken before the join.

`Greenhouse_proofs`:

- `SnapshotAgrees` (`UplinkKnown`) and `NothingIsStranded`, from `GInv`, which
  relates where CONNECT is to the event bits, to the stage of the UI and to what
  lies in `wifiQueue` (`VerdictInv`), the snapshot to the bits (`SnapshotInv`),
  and bounds the setpoints that are about to be posted (`LevelInv`).
- `EnvironmentsAreMet`: every step of the program is, for each component, one of
  its own steps, one of its environment, or none. `UISeen`, `NetworkSeen` and
  `ControllerSeen` say what a task does to the shared objects.
- `SystemSessionsExclusive`, `SystemWorkersHaveUplink`: the two results on
  ThingSpeak, carried over by the above.
- `EepromHoldsJoined`: `Spec => SavedWasJoined`, by `JoinInv`: from the sending to
  the verdict the UI's configuration, the queue's and CONNECT's are one.

- `ProgramTyped`: `Spec => []TypeOK`, with `NetworkTyped`; a setpoint on its way is
  one the UI can choose or the check of the answer lets through.

Together: CO2Controller implements ControllerView, UITask implements UIView, and in
the program of views and ThingSpeak each meets its environment.

`Network_proofs`, about both halves that `network` runs (`HalvesSpec`):

- `RingImplementsFifo`: `HalvesSpec => ImplementsFifo`, and `RingIsFifo` of the ring
  alone, `AtomicSpec => Fifo!Spec`, for every size of the ring, of the caller's
  buffer and of a segment. `RingInv` says that `Wrap(Front + count) = wr` at every
  point of `read()`, where `Front` is the index of the oldest byte (behind it while
  `rd` has moved on and `count` has not), and that what was copied so far is what
  stood there. `Modulo` and `WrapSum` are the facts about `%`, `StoreStores` and
  `CopyCopies` what the copying in two parts does. The refinement then needs that a
  segment is appended (`ReceiveAppends`) and that what is taken comes from the front
  (`TakenFromFront`, `CutInTwo`). That `count -= n` is not interrupted is assumed by
  the specification; `ring_race` shows what happens if it is.
- `ConnectionsAreAccounted`, `StaleBytesWereLeft`, by `SessionInv`: the caller owns
  one connection at most, the one `tcp_pcb` points to, and where a session is says
  whether there is one (`Ownership`). The properties themselves are not inductive:
  that a connection is closed once needs that nobody else points to it.
- `BytesAreCounted`: `HalvesSpec => [](BothTypeOK /\ CountIsStored)`. The counted
  bytes reach from the oldest to the write index at every step, by `RingInv`;
  `ring_race` shows that this fails once `count -= n` can be interrupted. Types alone,
  which only bound `count`, do not notice it.

`Drivers_proofs`, about the four drivers whose sizes `MCDrivers` leaves open, assuming
`DriverParameters` (each module's own `Parameters`). A behaviour runs one of them;
`DriversInv` joins their invariants.

- `InputAndOutputHold`: `FairSpec => InputAndOutputAccounted`. For the knob `KnobInv`
  says at every moment, also between load and clearing, that ticks returned, lost,
  loaded and counted make up those there were, and that `lastButtonTick` is the moment
  of the last press modulo the clock; `WrappedDistance` says that two moments never
  look further apart than they are, which is why a clock that wraps delays a press
  and never lets a bounce through. For the UART `UartInv` adds to the order of the
  bytes when the interrupt's cause may be disabled with bytes waiting: only while
  `write()` is about to enable it. `IrqTxStep` assumes nothing of why the interrupt
  came.
- `RecordsStayIntact`: `FairSpec => []RecordsIntact`. Not inductive: `EepromInv` says
  that wherever a body of a record stands with its checksum it is one that was saved,
  in which entries mixed of two records never match, and what each entry holds while
  no write was cut off. `TerminatorFound` is about the search for the terminator,
  which finds the text's own however the checksum behind it looks.
- `TransfersHold`: `FairSpec => TransferIsHonest`. `WireInv`: the commands on the wire
  followed by those in the FIFO are the first of the transaction (`CommandsInOrder`),
  the three counters are functions of how many these are (`CountersAgree`), what the
  result and a stop say of the wire (`ResultsAgree`), and that until the first time-out
  there is one stop at a time, of the transaction waited for, with nothing left to
  send behind it (`StopsAreOwn`). The last is what fails after a time-out, and why the
  properties about the own stop and the full write exempt it.

`Modbus_proofs`, assuming `Parameters` and that the receive queue holds one answer
(8 bytes; in the code 256):

- `LineIsHonest`: `Spec => [](TypeOK /\ NothingLeftOver /\ ReadsCurrent /\
  AcceptedWhole)`. Two arguments in one invariant, `LineInv`. Without disturbances
  (`Undisturbed`) what the transaction has read, what is in the queue and what is on
  the line are, in this order, one answer to its request (`Stream`), and where the
  client is in it agrees with which of the three answers it is (`Place`); so recv()
  does not run out of bytes while an answer is read (`ReadingWaits`). With
  disturbances hardly anything is known of the queue but that each byte is a number or
  belongs to a checksum (`Items`); yet the checksum at the end tells the whole message
  (`ChecksumTells`), the header was compared with the request (`HeaderRead`), and the
  verdict compares the function code (`FooterAccepts`).

`Memory_proofs`, about Heap, assuming `Parameters` (regions apart from each other and upwards, each
large enough for a block; an alignment that divides the size of a header; an address
space in which the highest bit of a size marks nothing):

- `HeapIsSound`: `Spec => []HeapSound`, where `HeapSound` are the five properties of
  `Heap` that `drivers` checks, for every place and size of the memory, every
  alignment, all requests and any number of callers; `RegionsAreSound` the same of
  `heap_5.c` with any number of regions (`RegionsNext`). None of the five is inductive.
  `HeapInv` says that the blocks cover each region from end to end and the list leads
  upwards through those whose pointer is not cleared, no two of which touch (`Good`);
  that each other block has one owner, a caller that returns it or the application
  (`Owned`); and that the free bytes are a sum over the list (`Counted`).
  A link at the end of a region is a block of size 0 that a merge may swallow.
  The sum is a function of the address that grows by the size of each listed block
  (`SumsTo`), so that a change of one block is a change of one step (`SumMoves`) and
  no fold has to be unrolled; `BytesCounted` shows that it is the number of bytes in
  the free blocks, which `NothingLost` speaks of. `InsertGood` is about
  `prvInsertBlockIntoFreeList`, once for the rest of a split and for what is returned;
  `TakeSound` about a block that is taken whole or cut; `StartGood` about the
  first headers. `HeapInvRefuses` adds that a stretch of free memory in which a request
  would fit is part of one block.

About MpuWrappers (the instance `P`), assuming its `Parameters`:

- `HandlesAreSound`: `Spec => [](TypeOK /\ HandlesSound)`, for any pool, tasks, objects
  and number of wrappers at once. Of `HandlesSound` only the first two parts are in the
  invariant as they are. It adds who may still write to a slot and what that wrapper
  finds there (`HoldersHold`), that a new object is in one wrapper's hands until its
  handle is complete (`FillersFill`), that a slot without an address is free for
  everybody (`FreeIsFree`), and what each step of a lookup knows, which is true as long
  as nobody deletes the object in between (`UsersUse`). `WrapperStep` is about all steps
  that change nothing but how far a call is, `EndStep` about all that end an object;
  then one lemma for each action.

About KernelObjects (the instance `K`) and HeapOnce (`O`), assuming their `Parameters`:

- `ObjectsAreSound`: `Init /\ [][Next]_vars => []ObjectsSound`, for any callers, requests,
  sizes and slots of the registry. The invariant (`KInv`) says of each call which parts
  it has where it stands (`ShapesOK`), that every block is in the hands of one call or
  one object (`MemoryOK`) and large enough for what it was taken for (`RoomsOK`), what
  is there at each point of the start (`StartOK`), that no two calls work on one object
  and none on one that waits for the idle task (`ClaimsOK`), and which handles a slot of
  the registry may hold and who is about to change it (`NamesOK`). The lemmas are about
  the ways a step touches these parts: one that only moves a call on, takes a block,
  gives one back, turns the parts of a call into an object, or takes an object apart;
  then one for each action.
- `OnceIsSound`: the same of `HandedOutOnce`; the sum of `Fits` may wrap, and then it is
  not larger than the offset.

What a theorem states of a specification with fairness (`FairSpec`, `HalvesSpec`) uses
only its safety part.

Left to TLC:

- Liveness: `ValveCloses`, `FanFollows`, `ScreensMoveOn`, `WorkersProceed`,
  `UnattendedOnline`, `SessionsGoOn`, `EveryWaitEnds`, and the fair halves of
  `ImplementsFairView` (fairness is about ENABLED).
- Of `AnswersHonest` what is about the whole library (lengths that a frame announces
  and a loop takes apart, which are folds), and `NotFromParts`: an invariant would have
  to say of every queue of bytes which parts of which frames one disturbance leaves.
- `PictureDrawn`: drawing is a fold over pixels, that is induction over data.
- Of `MemoryIsSound` the heap in order of size (HeapBySize), whose list and count of
  free bytes are folds; `CoRoutinesSound`; the kernel's `HighestRuns`, `NoLostWakeUp`,
  `ObjectsHonest`, `WaitsKeepTime`, and with them the types in `MCDrivers` and `Kernel`.
  These are within the prover's reach but for the folds (a tick that wakes several
  tasks, the pended ticks); what is missing are their inductive invariants, which for
  the kernel relate the point each task has reached in its call to every list. `HighestRuns`
  cannot be a theorem for all constants: `kernel_disinherit` is a choice of them in
  which it fails.

No module declares a RECURSIVE operator.

## 5. What is not modelled

Hazards that no property covers, because they are values and not orders of events
or lie in memory outside the models: a failed CO2 read counts as 0 and opens the
valve (`CO2Controller.cpp:61`); the reported fan value follows the wish and not
the fan (`:79`); a setpoint that finds the queue full is saved but not used
(`UITask.cpp:170`); an entry screen nobody touches alternates with WIFI_CONFIRM
(`:188`); the connection is created without the lock of lwIP (`IPStack.cpp:81`);
a read that fills the buffer writes one byte past it (`thingspeak.cpp:206`).

Firmware:

- The commands `ssd1306os` sends to the display before the picture, and
  `ssd1306`, which nothing uses: they mean something only to a model of the chip.
- Modbus over TCP, which `nmbs_create` would take and ModbusClient does not choose;
  requests whose inner lengths contradict each other or that are longer than the
  buffer; and what a length above 2 in a broken answer makes the client store
  behind the caller's variable.
- The bytes of HTTP and JSON, the CRCs, the font.
- Losing power is an initial state of UITask, not an action.
- The joining of the Wi-Fi, mbedTLS and lwIP are external; the models use of them
  what their interfaces promise. So are `mutex_enter` and `mutex_exit` of the SDK.
- Stack sizes and the time a computation takes.
- The blinker is never created; the hooks of critical sections count for the C
  library; `picow_tls_client` and `http_test` are examples nobody calls;
  `webserver/` is a page of its own.

Kernel:

- Left out of the files that are modelled: run-time statistics, thread-local storage,
  deleting timers and stream buffers that others wait on, the callbacks of stream
  buffers, taking a queue out of a set (its check for emptiness is outside the critical
  section), tasks with regions of their own for the MPU, and giving a lock of the SDK
  back from an interrupt (the port ignores that the timer queue may be full).
- `heap_3.c`, which calls the C library, and the statistics of the heaps other than
  `heap_4.c`; the older MPU
  wrappers (`mpu_wrappers.c`), which only raise the privilege around each call;
  registers, stacks and the second core in the
  port.
- A list item's order in an event list is not changed when its task inherits a
  priority, and a delay that was aborted may be reported late to a later wait:
  both are in the model as in the code, and no property speaks of them.

## 6. Plan

Done, in this order: CO2Controller with its proofs, UITask, ThingSpeak, the two
views with their refinements, Greenhouse, IPStack's ring, Modbus, sessions, the
drivers, the EEPROM, the kernel, its heap, drawing; the proofs of UITask, of both
refinements and of the program; the rest of the kernel (streams, co-routines, object
creation, the other heaps, sleep without ticks); the proofs of the ring, the
sessions, the knob, the UART, the EEPROM, the I2C driver and the sensor line; the
handles of protected tasks with their proof; the proofs of the heaps, and of the
objects.

Next, proofs:

1. Of the kernel, first that a task is in one list (the type invariant).
2. CoRoutine, which has few steps and the same lists.
