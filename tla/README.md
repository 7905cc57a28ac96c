# CSPD-BSP: TLA+ models and proofs

This directory holds the TLA+ specifications of the board support package in
this repository, the TLC configurations that check them on small instances, and
TLAPS proofs of the properties that matter most. The source paths below are
relative to the repository's root.

Contents: [the system](#1-the-system), [modules](#2-modules),
[OsalQueue](#3-osalqueue), [OsalTask](#4-osaltask), [CAN and satellite](#5-halcan-and-pdlsatellite),
[the rest of OSAL and the application](#6-the-rest-of-osal-and-the-application),
[drivers and boards](#7-drivers-and-boards),
[runs](#8-runs-and-bounds), [proofs](#9-proofs),
[findings](#10-what-the-models-found), [not modelled](#11-what-is-not-modelled),
[plan](#12-plan).

## 1. The system

Five layers, each a library, one above the other:

    apps/sample_app   worker and statistics tasks, one queue
    PDL               satellite service, BMC and MCU drivers
    HAL               CAN, serial, I2C, SPI on Linux
    OSAL              tasks, queues, mutexes, log, heap, resource tracker
    PCL               tables that describe the boards

Everything runs in one process with several threads. The layers talk by calls;
inside OSAL the state is shared between threads and guarded by mutexes. The PDL
drivers create OSAL tasks and mutexes and talk to hardware through the HAL.

| component | state | operations | hard behaviour | what makes it correct |
|---|---|---|---|---|
| OSAL queue, `osal/src/posix/ipc/osal_queue.c` | a table of records, per queue a ring, two condition variables, `valid`, `ref_count` | Create, Put, Get, Delete, GetIdByName | deletion under blocked readers and writers, a slot found in one critical section and filled in another, ETIMEDOUT against a late Put | no use after free, exact count, FIFO delivery, no lost wake-up, a deleted queue is freed and its callers return |
| OSAL task, `osal/src/posix/ipc/osal_task.c` | a table of records, an id bit map, per record an exit flag with its mutex and condition, the shutdown flag; the threads | Create, Delete, GetId, ShouldShutdown, GetIdByName, SetPriority, GetInfo | Delete keeps a slot number while it waits up to 5 s; ids and slots are reused at once; threads find their record by id | no thread, id or exit signal is lost; a thread finds its own record; Delete returns |
| OSAL mutex, `osal/src/posix/ipc/osal_mutex.c` | a table of records, each a `pthread_mutex_t` and `valid` | Create, Delete, Lock, LockTimeout, Unlock, SetDeadlockDetection | Lock uses the pthread mutex after the table is unlocked; Delete destroys it | mutual exclusion; no Lock on a destroyed mutex; the holder can always unlock |
| Resource tracker, `osal/src/posix/util/osal_resource_tracker.c` | 256 entries, statistics | Register, Unregister, CheckLeaks, GetStats, ResetStats | called after the owner's table is unlocked; entries dropped when full | every resource in use is listed |
| OSAL log, `osal/src/posix/util/osal_log.c` | the open file, the rotated files, the level | Init, Shutdown, write, rotate | a failed `fopen` after the renames; writes before Init | the newest messages are never lost by a rotation |
| OSAL heap monitor, `osal/src/posix/lib/osal_heap.c` | a usage counter, a threshold, an alert latch | GetInfo, SetThreshold, CheckThreshold, Malloc, Free | 32-bit arithmetic; a counter overwritten by VmRSS | the counter is the sum of the blocks that are out, in whatever order they are counted |
| HAL CAN, `hal/src/linux/hal_can.c` | socket, statistics, consecutive errors | Init, Deinit, Send, Recv, SetFilter, GetStats, callbacks | recovery closes and opens the socket that another thread polls; no lock | a transient bus error does not end communication |
| HAL I2C and SPI, `hal/src/linux/hal_i2c.c`, `hal_spi.c` | a descriptor with a lock; the settings of the SPI device | Open, Close, Read, Write, Transfer, registers, SetConfig | the device remembers the last slave it was told; settings are made one by one and may fail half-way | a transfer reaches its own slave; context and device agree |
| HAL serial, `hal/src/linux/hal_serial.c` | a descriptor with a lock | Open, Close, Read, Write, Flush, SetConfig | the lock is held through `select`; positive error codes | data that select has announced is there; the lock is freed |
| PDL satellite service, `pdl/src/pdl_satellite/` | context with two tasks, a mutex, a callback | Init, Deinit, RegisterCallback, SendResponse, SendHeartbeat, GetStats | tasks against Deinit; a Delete that times out | tasks never use a freed context |
| PDL BMC, `pdl/src/pdl_bmc/` | two channels, the current one, statistics | Init, power and sensor commands, SwitchChannel | timeouts, late answers, the channel that is not open | an answer is of the request; success means the board answered |
| PDL MCU, `pdl/src/pdl_mcu/` | one channel, CRC framing | Init, GetVersion, GetStatus, Reset, commands | as BMC; frames packed here are checked elsewhere | pack and unpack agree |
| PCL, `pcl/src/pcl_api.c` | the registry of boards | Init, Register, Find, List, Cleanup | limits, duplicates, tables with NULL entries | no query follows a NULL pointer; every shipped board is found with its devices |
| PCL platform tables, `pcl/platform/` | six constant tables | | a table that validation drops silently | every board is valid and has what its applications require |
| Sample application, `apps/sample_app/src/main.c` | shutdown flag, worker, statistics, queue | main, signal handler | shutdown in the order worker, statistics, queue | it terminates |

The macOS HAL files are stubs, and the rest of OSAL (files, sockets, clock,
strings, atomics...) wraps one system call per function.

## 2. Modules

| module | what it is |
|---|---|
| `BoundedFifo` | what a queue promises its callers: a FIFO of bounded length that is opened once and closed once |
| `OsalQueue` | the queue as it is coded, threads and critical sections; refines `BoundedFifo` |
| `OsalQueueProofs` | its safety and the refinement, proved |
| `MCOsalQueue` | symmetry sets for TLC |
| `TaskService` | what OSAL promises those who create and delete tasks, with no slots, locks or bit map |
| `OsalTask` | tasks as they are coded: clients and the threads they start; refines `TaskService` |
| `OsalTaskProofs` | its safety invariants and the refinement, proved, and what is left of the former for any callers |
| `MCOsalTask` | symmetry sets for TLC |
| `CanPort` | what the CAN driver promises its users |
| `HalCan` | the CAN driver as it is coded, with the interface and the descriptors of the process; refines `CanPort` |
| `HalCanProofs` | its types, its safety when calls do not overlap and the refinement, proved |
| `MCHalCan` | symmetry sets for TLC |
| `PdlSatellite` | the satellite service and its tasks over `CanPort` |
| `PdlSatelliteProofs` | its types, its safety and that it keeps `CanPort`, proved |
| `MCPdlSatellite` | the module TLC runs for it |
| `OsalCodes` | the return codes that are taken for byte counts |
| `OsalMutex` | mutexes as they are coded |
| `OsalTracker` | the resource tracker and the objects it follows |
| `OsalHeap` | `OSAL_Malloc`, `OSAL_Free` and the heap monitor |
| `OsalLog` | which file holds which lines: the log and its rotation |
| `OsalSupportProofs` | the safety of mutexes, of the tracker, of the heap, of the log and of the application, proved |
| `SampleApp` | the sample application over OSAL's tasks and queue |
| `MCOsalSupport` | mutexes, tracker, heap, log and application as TLC runs them |
| `HalSerial` | the serial driver |
| `HalBus` | the I2C and the SPI driver |
| `HalDeviceProofs` | the safety of the three drivers, proved |
| `PdlBmc` | the BMC driver, its two channels and the BMC |
| `PdlMcu` | the MCU driver over CAN or serial, and the MCU |
| `PdlDriverProofs` | the safety of the BMC and the MCU driver, proved |
| `PclBoards` | the board tables of the repository as records |
| `Pcl` | the board library over them: registry, validation, queries, choice of a board |
| `PclProofs` | that the registry is sound and holds the boards of the repository, proved |
| `MCPcl` | boards with one defect each, to be registered |
| `MCDrivers` | serial, I2C, SPI, BMC, MCU and PCL as TLC runs them |

A definition named `Mut...` is a plausible fault of the definition below it. No
specification uses one: put in the place of the definition, it shows that a
property fails when the code is wrong in that way.

The smaller components do not share state with each other in the code, and each
module can be checked alone. `MCOsalSupport` and `MCDrivers` extend several of
them, which is why their definitions carry a prefix (`Mutex...`, `Bmc...`), and
a variable `part` picks the component a behaviour is about; the others stay in
their initial state. So one run answers for each of them, and the state spaces
add up and do not multiply.

Conventions of the modules of OSAL. One step is one critical section (or one atomic
operation, or one event inside a wait): what the code reads and writes under one
mutex happens at once, what it reads after unlocking is a separate step. Where
the code takes a second lock inside the first (`task_wrapper` takes `exit_mutex`
with the table locked) that is still one step. A call that returns at once and
changes nothing, such as a look-up, a NULL argument or an id that is not in the
table, is a stuttering step. What a caller keeps between two critical sections
(the pointer to its queue, the slot it found, the thread to join) is a variable
of that caller, so stale values are possible wherever the code allows them.

## 3. OsalQueue

| model | code (`osal_queue.c`) |
|---|---|
| `tbl`, `nextId` | `g_osal_queue_table`, `g_next_queue_id` |
| `mem`, `valid`, `refs` | whether a `queue_impl_t` is allocated, its `valid` and `ref_count` |
| `ring` | `head`, `tail`, `count`, `buffer` |
| `tracked` | the ids `OSAL_ResourceRegister` holds |
| `pc`, `op`, `cur`, `arg`, `slot`, `res`, `hand` | per thread: the point of the call, the call, `impl`, the argument, the slot found, the return value, the caller's buffer |
| `CreateFind`, `CreateFill`, `CreateFail` | `OSAL_QueueCreate`: the two critical sections, and the failures of the second |
| `PutCall`, `GetCall` | `osal_queue_acquire` |
| `PutOversize` ... `PutStore`, `GetInvalid` ... `GetTake` | `OSAL_QueuePut` and `OSAL_QueueGet` after that |
| `DeleteCall`, `DeleteMark`, `Unregister` | `OSAL_QueueDelete`: the record leaves the table, `valid` is cleared with both broadcasts, the tracker is told |
| `Release`, `Drop` | `osal_queue_release`: the atomic decrement, and the look at `valid` after it |
| `GetExpire`, `SpuriousWake` | `pthread_cond_timedwait`, `pthread_cond_wait` |

An id names its `queue_impl_t`, because the counter is incremented once for each
queue entered in the table. Messages are model values; a message is within
`msg_size` or is `TooBig`.

`ImplementsFifo` is the refinement: the content of the abstract queue is the ring
read from `head`, it is open while `valid`, and every step of the code is a step
of the abstract queue or changes nothing it can see.

## 4. OsalTask

| model | code (`osal_task.c`) |
|---|---|
| `tbl` | `g_osal_task_table`: `is_used`, `id`, `name`, `thread`, `state`, `shutdown_requested`, `exited`; `sync` says whether `exit_mutex` and `exit_cond` are initialised |
| `ids` | `g_task_id_bitmap` |
| `at`, `tid`, `pthread`, `nextThread` | the threads: how far each has come, the `task_id` its wrapper was given, its `pthread_t` |
| `tracked` | how often the tracker lists an id: ids are reused, so one may be listed twice |
| `pc`, `arg`, `slot`, `thr` | per client: the point of the call, its argument, `slot` or `slot_index`, `thread_to_delete` |
| `asked` | a history variable: the threads `OSAL_TaskDelete` was called for |
| `CreateFind`, `CreateFill`, `CreateFail`, `CreateUndo`, `Register` | `OSAL_TaskCreate`: the search, the second critical section with its early returns and its failures that undo the record, the tracker |
| `TaskStart`, `TaskObey`, `TaskReturn`, `TaskMark`, `TaskEnd` | `task_wrapper` and the entry function |
| `DeleteFind` ... `Unregister` | `OSAL_TaskDelete`: the look-up, the wait, its expiry, `pthread_join`, the removal, the tracker |

Two parameters say how callers use the interface. `Creators` are the clients
that create tasks: with two, the defect of section 10 that is checked for the
queue loses a record here too. `Exclusive` says that callers never delete one
task twice at the same time, which the code does not prevent. The passing run
and most theorems are for one creator and exclusive deletes, as in the sample
application, where `main` does both; a Delete that timed out may be repeated, by
another client too. With `Exclusive = FALSE` `SyncLive` fails (section 10), and
section 9 says what is left.
`ImplementsService` is the refinement of `TaskService`. There a task is an id, a name
and a thread; it is listed from its creation until it is removed, under an id and
a name no other has, its thread runs once, and it is removed only when that has
ended. `Listed` reads this off the records in use, `Life` off `at`; the flags,
conditions and slots of the code, and where a client is, cannot be seen. A Create
that put its record over another's, or a Delete that came back to somebody else's,
would be a step of no kind that `TaskService` has.

Threads are numbered, and a record keeps the number in the place of the
`pthread_t`. A `pthread_t` may be given out again as soon as its thread is joined
(`FreePthread`), which is before its record is removed, so the look-ups of
`OSAL_TaskGetId` and `OSAL_TaskShouldShutdown` stop at the first record with the
`pthread_t` of the caller (`Mine`, `FirstMine`), whosever it is. `OwnRecord` says
what they can meet: a thread has exactly one record of its own, and every other
with its `pthread_t` is one that an `OSAL_TaskDelete` which has joined its thread
is about to remove. A `pthread_join` that comes late to a `pthread_t` given out
again waits for the new thread (`Joinable`).

The model allows a task to be deleted by name before its `OSAL_TaskCreate` has
registered it: its entry then stays in the tracker for ever, so `LeaksSeen`
states one direction only.

## 5. HalCan and PdlSatellite

| model | code (`hal_can.c`) |
|---|---|
| `alive`, `sockfd`, `consec`, `tx` | the handle: `initialized`, `sockfd`, `consecutive_errors`, `tx_count` |
| `file`, `link` | the descriptors of the process; the CAN interface: up, down, gone |
| `op`, `step`, `fd`, `tmp`, `ret`, `stale` | per thread: the call, the point of the call, the descriptor and the count it loaded, the result, whether its socket was closed since it called |
| `Open`, `Close` | `HAL_CAN_Init`, `HAL_CAN_Deinit` |
| `Refused`, `SendEnter`, `Write`, `Sent` | `HAL_CAN_Send` |
| `RecvEnter`, `Poll`, `Read`, `Arrive`, `Received` | `HAL_CAN_Recv` |
| `Fail`, `Count`, `Test` | the error path that both share |
| `RecClose` ... `RecForget` | `hal_can_recover`, one system call or one store at a time |
| `LinkFails` ... `OtherCloses` | the interface and the other files of the process |

The driver has no lock, so a step is one access to the handle or one system
call. `Serial` says that calls do not overlap, which `pdl_mcu_can.c` guarantees
with the lock of its service and `pdl_satellite_can.c` does not. The kernel
gives out the lowest free descriptor, and a descriptor is free as soon as it is
closed: that is what `NoForeignFile` is about. `consec` stops at `Threshold`,
because the code only asks whether it has been reached. A recovery that finds no
interface or no free descriptor gives the socket up, and no call recovers again
(section 10). `LinkComesBack` is about an interface that stays up from some time on
while somebody sends: it is used again and again if every recovery found what it
needed (`Served`), and otherwise it is, or the handle is given up for good
(`GivenUp`); the bus is not lost in a third way.

`CanPort` is the contract: a call ends once, `tx_count` counts exactly the sends
that return `OSAL_SUCCESS`, and Deinit comes when no call is running. `HalCan`
implements it whether calls overlap or not (checked and proved); Deinit with no
call running is the duty of the user, and `DriverUnused` shows that the service
keeps it.

| model | code (`pdl_satellite.c`, `pdl_satellite_can.c`) |
|---|---|
| `ctx`, `mutex`, `holder` | the context and its mutex |
| `callback`, `userData`, `stats` | the fields of the context |
| `named`, `asked` | OSAL: the tasks with a record, those with `shutdown_requested` |
| `at`, `cnt`, `val`, `snap` | per thread: where it is, the statistic it counts, the value and the callback it loaded |
| `InitContext`, `InitCan`, `InitRx`, `InitHb` | `PDL_Satellite_Init`; the failures lead into the releases in the code's order |
| `Beat`, `Wake` | `heartbeat_task` |
| `Listen`, `ListenEnds`, `PeekCallback`, `PeekData`, `CallbackReturns`, `CallbackAnswers` | `can_rx_task` |
| `Register`, `RegisterData`, `AppSends` | the calls of the application |
| `Ask`, `Join`, `CanDeinit`, `MutexDelete`, `Free` | `PDL_Satellite_Deinit` and the failures of Init |

OSAL is taken from `OsalTask`: `Ask` and `Join` are the two halves of
`OSAL_TaskDelete`, whose time-out leaves the record (`named`) as it is, and a
new task may find `shutdown_requested` set by the task that had its slot.
`Prompt` says that a receive or a callback takes less than the 5 s of
`OSAL_TaskDelete`. The passing run needs it; a heartbeat task that sleeps may
overrun in any case.

## 6. The rest of OSAL and the application

| model | code |
|---|---|
| `mutexTable`, `nextMutexId`, `detection` | `g_osal_mutex_table`, `g_next_mutex_id`, the threshold and callback of `osal_mutex.c`; `live` and `owner` are the state of the pthread mutex in a record |
| `MutexCreate`, `MutexRegister` | `OSAL_MutexCreate` |
| `MutexLookUp`, `MutexAcquire`, `MutexRelease` | the look-up under the table's lock, and the pthread call made after it: `OSAL_MutexLock`, `_LockTimeout`, `_Unlock` |
| `MutexExpire`, `MutexReadDetection`, `MutexCallback`, `MutexTimedOut` | a timed lock that has expired and reports |
| `MutexDeleteFind`, `MutexDestroy`, `MutexClear`, `MutexUnregister` | `OSAL_MutexDelete` |
| `trackerTable`, `trackerStats` | `g_resource_table`, `g_resource_stats` of `osal_resource_tracker.c` |
| `object` | the tasks, queues and mutexes it is told about: whether each lives, and whether its Register and its Unregister have come |
| `ResourceRegister` ... `ResourceResetStats`, `ResourceCheckLeaks`, `ResourceGetStats` | the functions of these names |
| `heapCurrent` ... `heapAlert` | the fields of the monitor in `osal_heap.c` |
| `HeapMalloc`, `HeapCount`; `HeapFree`, `HeapRelease` | `OSAL_Malloc` and `OSAL_Free`: the C library's call and the critical section are separate steps |
| `HeapGetInfo`, `HeapSetThreshold`, `HeapCheckUsage`, `HeapCheckThreshold` | the functions of these names; a check computes first and takes the lock for the alert afterwards |
| `logNames`, `logLines` | the files on disk: which file has which name, and how long the newest is |
| `LogInit` ... `LogSetMaxFiles`, `Rotate`, `LogInternal` | `osal_log.c`; `Rotate` is `rotate_log_file` with any set of failures |
| `appMain`, `appTask`, `appShut`, `appQueue`, `appCount` | `main`, the two tasks and the queue of `apps/sample_app/src/main.c` |

**Mutex.** The pointer a call keeps after the table is unlocked is `mutexSlot`,
so a slot that is given to another mutex meanwhile would be used. `Quiet` is what
callers have to promise, because the code does not see to it: a mutex is deleted
only when nobody holds it and no call on it is under way. Even then a deletion
takes three steps and the slot may be asked for between them; `MutexPointers`
says that it is not given away too early and that a look-up that comes in between
finds nothing. The waits of `LockTimeout` have no clock: a timed lock may expire
at any time, after any of `Waits`.

**Tracker.** `object` lets keys be reused between the end of an object and its
`Unregister`, as `OSAL_TaskDelete` does with ids, lets an object be deleted, and
unregistered, before its creator has registered it, and lets two deletions of one
object unregister it twice. Three history variables say what has gone wrong: a key
unregistered before it was registered (`trackerEarly`), whose late entry stays for
ever; a key of which an entry was dropped by a full table, or one too many removed
(`trackerMissed`); and that the statistics were reset (`trackerReset`).
`TrackerExact` says that nothing else makes the report wrong: each of its parts
has the one condition it needs, so a key that was registered late may be listed
too often but no object of it is missed.

**Heap.** Counters are modulo `HeapWord`; a percentage of `HeapFull` = 4 and
words of 16 make the product wrap as it does at 42 MB with 100 and 2^32. What
the process reads in `/proc` is a constant set of pairs, an empty reading
included.

**Log.** A file has a number in the order of creation, so that "newest" is a
comparison. All renames, the removal and `fopen` may fail in every combination.
`logSteady` says that nothing has failed and that the number of files has not
been changed after a rotation: then the backups are exactly the last ones.

**Application.** There is no clock, so a time-out is taken only where the time
really can pass (`Outlasts`). It rests on what `OsalTask` and `OsalQueue` show: a
`OSAL_TaskDelete` returns, and a blocked Put ends when somebody reads or deletes.

## 7. Drivers and boards

| model | code |
|---|---|
| `serialConfig`, `serialLine`, `serialLock`, `serialInput` | the context of `hal_serial.c`, the terminal it has set, its lock, the input queue of the kernel |
| `SerialOpen` ... `SerialSetConfig` | the functions of these names; `SerialSelected`, `SerialTimeout`, `SerialFails` are what `select` and the calls answer |
| `Termios` | `hal_serial_get_baudrate` and the settings in `HAL_Serial_Open` and `HAL_Serial_SetConfig`: what a configuration makes of the terminal |
| `i2cSlave`, `i2cLock` | what `I2C_SLAVE` has told the device; the lock of `hal_i2c.c` |
| `I2cBegin` ... `I2cIo`, `I2cCombined` | Write, Read, WriteReg; ReadReg and Transfer, which are one system call without the lock |
| `spiCtx`, `spiDev` | what the context of `hal_spi.c` believes, what the device is set to |
| `SpiSame`, `SpiIoctl`, `SpiIoctlFails`, `SpiAssign` | `HAL_SPI_SetConfig`, for mode, bits and speed in turn |
| `bmcHandle`, `bmcChannel`, `bmcConnected`, `bmcStats`, `bmcLock` | the context of `pdl_bmc.c` |
| `BmcOpen`, `BmcClose`, `PowerOn` ..., `BmcSwitch` | its interface |
| `BmcTake`, `BmcSend`, `BmcReceive`, `BmcReceiveEnd`, `BmcTimeout`, `BmcReceiveFails`, `BmcCount` | `pdl_bmc.c` with `pdl_bmc_redfish.c`: a command under the mutex |
| `BmcAnswer`, `BmcAnswerInPart`, `BmcHangUp`, `BmcLose` | the board at the other end |
| `mcuLink`, `mcuCrc`, `mcuRightId`, `mcuLock`, `mcuRxLock` | the contexts of `pdl_mcu.c`, `pdl_mcu_can.c` and `pdl_mcu_serial.c` |
| `McuOpen` ... `McuUnlock` | Init, the six commands and Deinit |
| `McuAnswers` ... `McuForeignFrame` | the MCU, the line and the other nodes of the bus |
| `pclRegistry`, `pclInitialized` | `g_registry`, `g_initialized` of `pcl_api.c` |
| `Validate`, `Registered`, `RegisteredAll`, `Find`, `SelectDefault`, `Hw...`, `App...` | the functions of these names |
| `H200...`, `Demo...` | the tables of `pcl/platform/` |

**Serial.** The line is raw with VMIN = VTIME = 0, as `HAL_Serial_Open`
sets it, so a read takes what is there. The port is opened and closed when no
other thread is in a call: nothing in the code protects against that, and the
drivers above keep it.

**I2C and SPI.** Every system call may fail. `SpiSetters` are the threads that
call `HAL_SPI_SetConfig`, which has no lock; the run has one such thread.

**BMC.** A command and its answer are a number; a command is answered in its own
time or never, on the serial line it may be lost, and the network connection may
be closed by the BMC. An answer may come in two pieces. The driver reads once,
what has come by then and at most 16 bytes, so that a read may leave any part of
what is there (`Unread`), and it takes the first piece of an answer for the whole.
`Noise` is what a buffer nobody wrote holds: the serial driver says that a
time-out or a failed read has happened with a positive number, which is taken for
so many bytes (`BmcNothing`). The protocol has no sequence number, so what a
command leaves behind, because it timed out, failed or took a part, is taken by a
later one. `clean` is a history variable of a command: when it was sent, no
command that had ended had left anything on its channel, neither an answer still
to come nor one unread. `BmcOwnAnswer` says that such a command takes its own
answer or none, and so that nothing but such a rest mixes answers up: not two
threads, not a switch of the channel between a request and its answer. A command
sent on top of a rest has no such promise, and takes whatever comes first.
`BmcCounts` has no condition.

**MCU.** `PDL_MCU_Init` passes a part of its configuration where the whole is
expected, so that device, identifiers and the CRC flag are read from behind that
part: what is there is chosen freely in `McuCanInit` and `McuSerialInit`. The two
ranges of the CRC are kept as what they are, so that with a CRC no serial answer
passes. `clean` is the history variable of the same name and meaning. A receive
may fail with something to be read (`McuReceiveFails`), and a failing call of the
CAN driver may recover, which replaces the socket and loses what the old one had
received (`McuReopened`).

**Boards.** The library has no lock and is used by one thread, so an action is a
call. A query that follows a NULL pointer is an expression TLC cannot evaluate,
and `PclRegistrySound` says which pointers have been validated. `MCPcl` offers
boards that each have one defect, among them every defect `PCL_Validate` looks
for, and boards at the limits of its ranges. `PclShipped` is about the tables
themselves.

## 8. Runs and bounds

| run | expects | question |
|---|---|---|
| `queue_lifetime` | pass | three threads, each making any call, two slots, two ids, depth 1: memory and count |
| `queue_data` | pass | one queue of depth 2, two messages, three threads: wake-ups, what Get reports, and the refinement of `BoundedFifo` |
| `queue_live` | pass | one queue of depth 1: freed after Delete, and every blocked call returns |
| `queue_slot_race` | violation | two creators, one slot: `Reachable` |
| `task_life` | pass | one creator, two deleters, two slots and ids, three threads over two `pthread_t`: ids, records, exit signals, the tracker, the refinement of `TaskService`; Delete returns and a cooperative task that is asked ends |
| `task_stale_stop` | violation | one slot used twice: `StopOnlyIfAsked` |
| `can_serial` | pass | two threads in turn, three descriptors, three other files, threshold 2: the safety of the driver, and that it uses an interface again that comes back, unless a recovery found no interface or no descriptor |
| `can_shared` | pass | two threads at once, two descriptors, one other file, threshold 1: the refinement of `CanPort` |
| `can_replug` | violation | one thread, an interface that is unplugged for long: `RecoversAfterReplug` |
| `sat_service` | pass | the service with its three threads and one callback, started and stopped without bound: all its safety, and that Deinit ends |
| `osal_support` | pass | mutex, tracker, heap, log and application: no mutex is used after it is gone, a report has the threshold it was set with, the tracker and the heap counter are exact, backups are in order, a timed lock returns, the application ends |
| `drivers` | pass | serial, I2C, SPI, BMC, MCU and PCL: announced input is there, transfers reach their slave, context and device agree, answers and counts of the BMC and the MCU, the registry and the shipped boards, the serial lock is freed |

Why the bounds are enough for the cases that matter. Three threads are the least
at which a reader, a writer and a deleter meet, or two readers are blocked when
one message arrives. Two ids and two slots let a slot be reused while a thread
still holds the queue that had it. Depth 2 makes `head` and `tail` differ and
wrap. For tasks, three threads over two ids and two slots are the least at which
an id is reused while another task is in the table; two `pthread_t` let the third
thread get that of the first, in an earlier slot or a later one, while the record
of the first is still to be removed. Symmetry is used in the safety runs only, and
only between threads, clients or names that the specification does not tell apart;
the liveness runs have none. `MaxId` and `MaxThreads` bound how often something is
created. For the driver, threshold 2 has a streak that is begun, interrupted and
completed; with three descriptors and three other files the number of a closed
socket is taken by somebody else, and a recovery may find none left
(`RecNoSocket`). The service needs no bound but `Wrap`, the modulus of its
counters: with 3, a lost or doubled count shows.

`osal_support` has two threads, two slots and three ids for mutexes: a slot is
used again while a call of the first mutex is between its two halves. Three
objects over a table of two entries and two keys fill the table and reuse a key
before it is unregistered. Two blocks of sizes 1 and 3 can be freed in either
order, also after a reading has made the counter smaller than a block. Numbers of
files 1, 2 and 4 have no loop, a loop of one and a loop of three turns;
five files are one more than the names. The application needs no bound but the
depth of its queue, 2.

`drivers` has two threads everywhere. Two commands of the BMC and one switch let
an answer that is late, or the rest of one that was cut, meet the next command on
either channel; two commands of the MCU and one foreign frame do the same there.
With three commands of the BMC the same properties hold, in 3.8 million states
instead of half a million. `PclMax` = 4 fills the registry with the three boards
of the repository and one more. `MaxInput` = 2 leaves a byte in the queue or takes
all.

Deadlock checking is on for the CAN driver and the service, which never stop,
and off for the other runs: the system may stop when every
thread is idle and the bounded ids, files or commands are used up, when a writer
is blocked on a full queue nobody reads, or when the application has exited.
What must not stop is stated as liveness.

Fairness of OSAL. A thread that is not blocked runs and gets the mutex it asks for in
the end (weak fairness of `Step`, `WrapperStep`): POSIX threads under a fair
scheduler. A deadline is absolute, so a waiter that is woken and waits again
meets it (strong fairness of `GetExpire`, `DeleteExpire`). Entry functions named
`Cooperative` ask `OSAL_TaskShouldShutdown` in their loop, as
`osal/docs/USAGE_GUIDE.md:64` tells them to. No fairness makes anybody call
anything, and no other entry function needs to return.

Fairness of the CAN driver. A thread in it goes on, except in a `read` that waits
for a frame (`Arrive`, which has no fairness), and somebody sends again and again
when sending is possible again and again: the heartbeat task. Fairness of the
service. Every thread runs, a call of the driver ends, the delay and the callback
end, and a thread that waits for the lock gets it when it is free again and again
(strong fairness of `CountLoad` and `PeekCallback`): no thread holds it while it
waits for anything, and the others sleep or poll between two acquisitions. That a
call of the driver ends rests on its time-outs: `poll` has one, and the socket of
`HAL_CAN_Init` has two of 1 s. The socket made by a recovery has none, and a
`read` on it may wait for a frame; `OSAL_TaskDelete` gives that thread up after 5
s, so that Deinit ends all the same.

Fairness of the others. A timed lock of a mutex is woken at its absolute deadline
and its report callback returns (`MutexFairness`); nothing makes a plain lock
succeed. The threads of the application go on (`AppFairness`, in the behaviours
of the application only); nothing makes the queue have room. In the serial driver
the thread that has the lock goes on, because `select` ends at its time-out
(`SerialFairness`); nobody else has to. BMC, MCU, I2C, SPI, log, heap, tracker
and boards state no liveness.

## 9. Proofs

The theorems hold for every value of the constants that satisfies the named
assumption of its module (`QueueAssumption`, `TaskAssumption`...): any finite set
of threads, any table sizes, depths and numbers of commands. Those assumptions are
about the choice of values for TLC's parameters (`None` is no thread, counts are
numbers, a setting of SPI is a record of numbers), not about behaviour.
Conditions on behaviour are hypotheses of the theorem:

| hypothesis | what it says | theorems |
|---|---|---|
| `SoleCreator`, `Exclusive` | one client creates tasks; nobody deletes a task another client is deleting | `TaskLife`, `TaskOwnRecord`, `TaskSync`, `TaskExit`, `TaskRequestKept`, `TaskLeaksSeen`, `TaskImplementsService`, `TaskServiceSound`; `TaskIds` needs `SoleCreator` only; `TaskTypes`, `TaskNames`, `TaskDeleteWaits` and `TaskOwnId` need neither |
| `Serial` | calls of the CAN driver do not overlap | `CanSerial`, `CanOneSocket`, `CanNoForeignFile`, `CanStreak` |
| one setter | at most one thread calls `HAL_SPI_SetConfig` | `SpiInStepAlways` |
| `Quiet` | a mutex is deleted when nobody holds it or is in a call of it | `MutexPointersAlways` |
| `Prompt` | a receive or a callback takes less than 5 s | those of `PdlSatelliteProofs` but the types |
| `HeapFits` | the blocks that are out never are 2^32 bytes in all | `HeapUsageAlways`; `HeapWordsAlways` does without |
| `StandInsResolve` | a valid board that a program offers under the triple of a table has what its applications require | `PclShippedAlways` |
| `NullIsNothing` | `NULL` is not a text, a structure or an array | `PclShippedAlways` |

Section 10 says what goes wrong without each of the first five. `HeapFits` is a
condition on the whole behaviour, `HeapSpec /\ []HeapFits => []HeapUsage`: beyond it
the 32-bit counter of the code is not the sum, and no code prevents that. Without
`StandInsResolve` a program could register a board under the name of a shipped one
first; its own conditions are then all that is checked. `NullIsNothing` is about the
model: `NULL` is a value of TLA+ of its own, and the prover does not know that
it is no text. The other theorems, among them all of the queue and the refinements
of the queue and the CAN driver, have no hypothesis.

**Queue.** `QueueLife` proves `Spec => []LifeInv`. None of the properties is
inductive on its own: that the count is exact needs that nobody drops a reference
of a freed queue, which needs that a freed queue is in no slot, which needs that
the count is exact. `LifeInv` is their conjunction with what a thread knows of its
arguments (`LocalInv`), that ids are fresh (`FreshInv`), that one thread at most
deletes a queue (`DeleteInv`), and that the thread that saw the count fall to 0
is alone (`DropInv`). The count is a cardinality, so each action that moves a
thread into or out of `Holders` uses the theorems on finite sets.

`NoLostWakeup` is inductive together with `LifeInv`: a signal either wakes a
waiter, which keeps up with the message that was stored, or finds none, and then
nobody is blocked. Readers and writers are argued about at once (`Covered`).
`DataInv` says that the cells from `head` on hold messages (`RingHolds`) and what
the point a thread is at says of its answer (`AnswerInv`); `GetReportsDelivery`
follows. For `ImplementsFifo` three lemmas do the arithmetic modulo the depth:
`ContentSeq` (what is read from `head` is a sequence of messages), `WrittenHolds`
(storing appends to it) and `TakenHolds` (taking removes its first element).
`FifoStep` then shows that each step is a step of `BoundedFifo` or changes nothing
it can see. `TrackInv` proves `TrackedExactly`: the tracker has the valid
queues and those whose delete is not over, and memory without a reference has
somebody about to free it. `UniqueNames` holds because the name is compared
in the critical section that fills the slot.

**Tasks.** `TaskLife` proves `Spec => []TaskInv`. The heart of `TaskInv` is
`ClientInv` with `RecordInv`: while a client waits in `OSAL_TaskDelete` with
nothing but a slot number, the slot still holds the record it found, because only
the one client that joined the thread removes it and ids in the table are
distinct. `PthreadInv` makes `pthread_join` wait for the thread of that record and
for no other, and leaves for `OwnRecord` just the records that are about to be
removed. `ShutInv` and `ToldInv` say that a record being deleted has
`shutdown_requested` set, so a request is not forgotten when a look-up stops at
such a record first (`TaskRequestKept`). With several creators or two deletes of
one task the slot may hold another record, and a client come back to somebody
else's. What is left then is proved from `BaseInv`, which has the types and says
only that a call has its argument: names stay distinct (`TaskNames`), because the
name is compared in the critical section that fills the slot; a deletion that goes
on has joined the thread it found (`TaskDeleteWaits`), and a thread that asks for
its id is told its own or that of a joined thread whose `pthread_t` it was given
(`TaskOwnId`), because the thread of every record in use was given the id of the
record (`JoinedInv`) and no two threads that are still to be joined have one
`pthread_t` (`PthreadInv`). The bit map needs one creator, but no exclusive
deletes (`TaskIds`, from `IdsInv`): a deletion that comes late removes a record
only if the slot holds its id, and the id goes with it. `LeaksSeen` rests on
`LedgerInv`: the entries of an id with the registrations under way cover the task
of that id and the removals under way. One client more or less in either set is
one entry more or less.

`TaskImplementsService` follows the steps: `FillStarts` shows that the slot that is filled
is still free and the thread new, so that a row is added and none is lost;
`RemoveRemoves` that the record removed is that of the thread that was joined;
`ListedMarked` that no other step touches what callers can see of a record. That
a thread that runs is listed and that no two tasks share an id, a name or a thread
(`TaskServiceSound`) then follows from `TaskService` alone, by an invariant of two
lines (`ServiceFresh`).

**CAN.** `CanInv` adds to the properties what they depend on: only one thread is
not idle, and the handle names an open CAN socket except between the `close` of
the recovery and the store that follows it. What holds without `Serial`, and is
proved without it, are the types and `CanImplementsPort`: from the invariant that
the step of a thread fits its call, every step of `HalCan` is a step of `CanPort`
or changes nothing it can see. `PdlSatellite`, whose threads overlap, rests on that
theorem only.

**Serial, I2C, SPI.** In each the invariant is who has the lock: a call is past the
lock exactly while it has it. So what `select` announced or the slave the device
was told stays until it is used. For SPI, which has no lock, it is what the only
setter is about to do: a field in which context and device differ is the one it
has just set and not yet stored.

**BMC and MCU.** `BmcTally` counts the command of the holder of the mutex as the
only one without an outcome. For the answers, `BmcInTurn` and `McuInTurn` say that
while a command waits that found nothing of an ended one when it was sent, all
that is still to come on its channel and all that has come is of its own number
(`BmcOf`, `McuOf`; on the bus also frames of other nodes): nobody else sends, as
only the holder of the mutex waits (`BmcOneWaits`, `McuOneWaits`), and a piece, a
loss, a hang-up or a new socket adds nothing of another. So whatever a read takes
is its own.

**Satellite service.** `Standing` says what each phase of Init and Deinit has
built and which threads are there (`Phases`), that a thread is in the driver
exactly where its code calls it (`Driving`), and who holds the mutex (`Holding`).
`NothingLeft` and `DriverUnused` follow from it, and from `Driving` also that the
service never deinitialises the driver under a call: so every step of it is a
step of `CanPort` (`SatelliteKeepsPort`), the specification that `HalCan` is
proved to implement for its side. `Paired` adds the callback and
its data, `Counting` that a value loaded is the one still stored and that the
difference to the driver is the number of threads in between.

**Mutexes.** `MutexInv` says for each point of a call what the slot it keeps holds
(`MutexAt`), that one thread at most deletes an id, and that a record in use is
initialised unless it is being deleted. **Log.** `LogInv` follows the renames of a
rotation from the last name down; a file that stays behind is older than all that
come after it. **Tracker.** For each key the entries are
bounded from both sides by the objects registered (`KeyExact`), where registrations
overtaken by their Unregister count on one side and `trackerEarly` excludes the
other; for each type there is an equation (`TypeExact`). Both are about
cardinalities. **Heap.**
`HeapInv` says that the counter is the sum of the blocks that are out (`HeapOut`)
until a reading of /proc overwrites it. The sum is a fold over a set, whose
recursion is a fact about every finite set, and the library's induction over
finite sets takes an operator. The proof goes around it: the sum has a closed
form, the number of pairs of a block and a byte of it (`BytePairs`), which
satisfies the recursion of the fold (`SumsUp`); and if some subset of the blocks
had another sum, there would be a smallest such subset, since strict inclusion is
well founded (`WFMin`, which takes sets and no operator), and taking a block from
it leaves one with the right sum (`BytesCounted`). `BytesWithout` then moves a
block in or out of the sum.

**Boards.** `RegistryInv` says that every board in the registry has passed
`PCL_Validate`; `RegisterAllKeeps` covers the three of the repository.
`PclShippedAlways` is about the contents of the tables: each is taken apart into
its lists (`BaseValid`, `V1Valid`, `V2Valid`) and checked by the prover line by line,
then `ShippedInv` says that a board once registered stays, that `RegisterAll` finds
room for those still missing, and `FoundByTriple` that the search ends at them.

**Application.** `AppInv` follows the order of the deletions in main: while the
worker may be in Put, the statistics task has not been asked to end and the queue
is there, so a full queue is emptied; only then is the reader stopped.
`AppLeavesNoWorker` is the safety half of `AppShutsDown`.

Proved and not part of a run: the types (`QueueTypes`, `CanTypes`,
`SatelliteTypes`, `MutexTypeOKAlways`, `TaskTypes`, `HeapWords`), the inductive
invariants, who has which lock (`SerialLocked`, `BmcLocked`, `McuLocked`),
`TableLive`, `UniqueNames`, `TrackedExactly`, `StreakBelowThreshold` of the CAN driver, the `JoinedOnce`, `ExitedExact`,
`RequestKept`, `UniqueNames`, `DeletedEnded` and `OwnIdOnly` of tasks, that the
satellite service keeps `CanPort`, what `TaskService` gives (`ServiceSound`), and `NoWorkerLeft`. Every safety property that a
passing run checks is stated by a theorem.

Model-checked only:

- Every liveness property (`DeletedIsFreed`, `BlockedCallReturns`, `DeleteReturns`,
  `AskedEnds`, `LinkComesBack`, `DeinitEnds`, `MutexTimedReturns`, `AppShutsDown`,
  `SerialLockFreed`): fairness and `ENABLED` are out of reach of the prover.
- The violations, which are about one behaviour each.

`TimedGetReturns` of the queue is stated and neither proved nor part of a run.

## 10. What the models found

`PROJECT.json` lists them with the lines they quote. Those with a run are named
with it; the others were read off the code while it was modelled, and the model
does what the code does.

OSAL:

- Two creators of queues can fill the same slot; the first queue is lost
  (`queue_slot_race`). `osal_task.c` searches and fills its table the same way.
- `OSAL_QueuePut` on a full queue waits for ever, where its header documents
  `OSAL_ERR_QUEUE_FULL`.
- A task created in the slot of a deleted one is told to shut down at once:
  `shutdown_requested` is not reset (`task_stale_stop`).
- Two deletes of one task: one destroys the condition variable and the mutex the
  other is about to use (`SyncLive` fails with `Exclusive = FALSE`).
- A timed-out `OSAL_TaskDelete` does not detach the thread, as the documentation
  says it does; a later Delete finishes the work.
- A `pthread_t` is free again after `pthread_join`, while its record is removed in a
  later critical section: a task created in between may be answered the id of the
  deleted one by `OSAL_TaskGetId`, and told to shut down (`OwnRecord` and `OwnIdOnly`
  say that this is all that can happen).
- A task or mutex deleted by its name before its creator has registered it leaves
  an entry in the tracker, which `OSAL_ResourceCheckLeaks` reports for ever
  (`trackerEarly`).
- `OSAL_MutexDelete` destroys a mutex that a Lock has just looked up
  (`MutexPointers` fails with `Quiet = FALSE`); `valid` does not prevent it.
- The percentage of the heap monitor is computed in 32 bits and is wrong above
  about 42 MB; nothing calls `OS_HeapInit`; two error codes differ from the header.
- The log keeps one backup less than documented, writes to the terminal only after
  a failed `fopen`, and its Init and Shutdown take no lock.
- The deletion of the statistics task may time out, as its Get waits as long as
  `OSAL_TaskDelete` does.

Drivers:

- A recovery of the CAN socket that is tried while the interface is gone gives
  the socket up, and no later call tries again (`can_replug`). One that finds no
  free descriptor does so too, with the interface up all the time (`RecNoSocket`).
- Two threads in the CAN driver: the recovery of one closes the descriptor the
  other is about to write to or close, and somebody else's file may have its
  number by then (`NoForeignFile` fails with `Serial = FALSE`).
- The socket made by the recovery has no time-outs and no filter.
- The serial driver returns positive error codes where a byte count is expected,
  and treats a time-out of -1 as 0.
- `HAL_SPI_SetConfig` takes no lock (`SpiInStep` fails with two setters).

Services and boards:

- `PDL_Satellite_Deinit` frees its context when `OSAL_TaskDelete` has timed out,
  and the name `SAT_HB` of a heartbeat task that overran stays taken, so that the
  service cannot be started again.
- The BMC driver never switches channels by itself; on the serial channel a
  time-out and a failed read are reported as success, and so is a network connection
  that the BMC has closed. It reads once: the first bytes of an answer pass for the
  whole, and the rest is read as the answer of the next command.
- The MCU driver reads its configuration behind its end, checks the CRC over
  other bytes than it computes it over, reports a serial time-out as
  `OSAL_ERR_GENERIC`, and uses a size that an answer without data leaves unset.
- The base devices are not merged into version 1 of the H200_100P board, as its
  comments say they are; `PCL_GetBoard` always answers NULL.

## 11. What is not modelled

- Message sizes below `msg_size`: `OSAL_QueueGet` copies and reports `msg_size`
  bytes whatever Put wrote. The model has one size.
- The wrap of `g_next_queue_id` and `g_next_mutex_id` after 2^32 creations.
- `priority` and `stack_size` of a task: stored, and read back by
  `OSAL_TaskGetInfo` only; so is what `OSAL_TaskSetPriority` stores. `ref_count`
  of a task: initialised to 1 and never changed, so the branch that answers
  `OSAL_ERR_BUSY` is dead.
- Names are values that are equal or not; their length is not modelled.
- Failures of `pthread_mutex_lock` and of `clock_gettime`, which the code ignores.
- A mutex deleted while it is held or waited for (`Quiet`): its holder is refused
  by Unlock and its waiters sleep on.
- The text of a log line, colours, and the terminal.
- Of the CAN driver: SetFilter, GetStats, SetErrorThreshold, the error callback
  (nothing in the code sets one), `rx_count`, `err_count`, a negative timeout and
  a DLC above 8 in a send (no caller passes them), and what is in a frame.
- Of the satellite service: GetStats, which only reads, `running`, which nothing
  reads, and the fields of a message but for its type.
- What I2C and SPI transfer, and what BMC and MCU say to each other but for whose
  answer it is (`pdl_bmc_ipmi.c` packs and unpacks the former). The raw command of
  the BMC, the firmware update of the MCU and its I2C and SPI links are refused at
  once by the code.
- `PCL_Print`, which prints; of the tables, descriptions, GPIO pins and passwords.
- The components listed as `not_modelled` in `PROJECT.json`, each with its
  reason: wrappers of one call each, stubs for macOS, the test framework.

## 12. Plan

1. What `SampleApp` takes from OSAL stated over `TaskService` and `BoundedFifo`, which
   `OsalTask` and `OsalQueue` implement: the deletion of a task and of the queue as
   steps of those modules.
2. The remaining operations of `HalCan` (SetFilter, SetErrorThreshold, the error
   callback), and two MCU contexts over `OsalMutex`, whose second Init meets the
   name of the first.
3. Message sizes in the queue, as a data refinement of its ring.
