# contor_device: TLA+ models, model checking and proofs

`contor_device` is one C++17 program (`sjt`) that drives a multi-axis CNC camera
rig and a two-axis turntable. Clients give commands over WebSocket, HTTP and a
TCP link; the program splits them, sends them to a serial CNC controller and to a
Modbus/TCP drive, and reports their end. Most of what can go wrong in it is
between threads. This directory holds TLA+ modules of its core, configurations
that model-check them with TLC, and proofs checked with TLAPS.

Paths below are relative to `src/src/`. `PROJECT.json` lists components, runs,
mutants, the lines each definition models, findings, hazards and theorems.

## 1. The system

| component | state | operations | talks to |
|---|---|---|---|
| **ModbusBusiness** (`modbus_business.*`), turntable executor | request queue, `current_task_id_`, `active_axis_`, last commanded and polled positions, verification flags | `pushCompositeTask`, `resetTask`, `stop`; movement thread; polling thread; `axisRunSpeed`, `execute_command` | ModbusProtocol; callback of each request; ProtocolProcess |
| **ModbusProtocol** (`modbus_protocol.*`) | libmodbus context, `mtx_` | one request and its reply per call | the drive |
| **WebSocketService** (`websocket_service.h`) | task id of each connection, `active_tasks_`, `next_task_id_`, `test_task` | open, message, close (event loop); `sub_task_callback` (executors' threads); cleanup thread | CNC controller ("first"), ModbusBusiness ("second") |
| **TCPClient** (`tcp_client.h`), command link | `running_`, `connected_`, `socket_`, attempts, send queue | `connect`, `disconnect`, `send`; connect, receive and send threads | ControlLayer's data callback |
| **ControlLayer** (`control_layer.*`) | console pointer, link | `start`, `setCncController`, data callback | TCPClient, CNCConsole |
| **CNCConsole** (`CNCConsole.*`) | command queue, `running_` | `start`, `stop`, `pushCommand`; command thread | YX20KController |
| **YX20KController** (`YX20KController.*`) | `move_flag_`, `current_callback_`, targets, last positions | `updatePara`, `moveAbsolute2`, `moveAbsolute`, `moveAxis2`, polling thread | serial port |
| **HttpServer** (`http_service.h`) | none of its own | POST handlers, httplib's thread pool | all executors |
| **Controller** (`controller.h`) | status-poll counters | only in the `Manual_Control` variant, which does not compile | serial port |
| **JrtB9xSensor / SensorManager**, **LaserRangeFinder / LaserManager** | mode and stop flags | compiled, never instantiated | serial port |
| Config, Common, HttpClient, ProtocolProcess, SerialPort | configuration | file, serial and HTTP I/O | |
| `httplib.h`, `ini.h` | | vendored code | |

`main` creates one console, one executor, the two servers and the link, and waits
for ever. The servers share the executors; a WebSocket command becomes up to two
parts, each with the same callback, and executors call it from their threads.
Mutexes are taken in the order `queue_mutex_`, `tasks_mutex_`, `mutex_data_`
(a refused push calls back under `queue_mutex_`; a callback resets the turntable
under `tasks_mutex_`); nothing takes them in another order.

### What is hard, and what makes each component correct

* **ModbusBusiness**: pushes, cancellations, the movement and the polling thread
  interleave under three mutexes that do not protect the same things. Correct
  means: a request is told of its end once; a cancellation stays within the
  movement it cancels and stops it; the busy flag is truthful; movements end on a
  dead link; no request is forgotten; the cache of commanded values is honest.
* **WebSocketService**: callbacks, timeout, close and an exception race for the end
  of a task. Correct means: one answer per task, always one; "completed" only
  when all is done; the client freed exactly when its task is over; the turntable
  told.
* **TCPClient**: four threads share `socket_` without a lock. Correct means: each
  loss handled once, a closed descriptor never kept, no lost wakeup, reconnection.
* **YX20KController, CNCConsole, ControlLayer**: one callback slot and one flag
  shared by several callers, positions read while written, replies that come late,
  torn or to another reader, a byte stream taken for commands. Correct means: a jog
  starts from where the machine is, two jogs do not run into each other, each
  move's callback is called.
* **ModbusProtocol**: requests and replies without numbers on one connection, with
  timeouts. Correct means: a reply is used for its own request; a value that is
  remembered as sent is the drive's.
* **Together**: callbacks run under the caller's mutexes, in both directions
  between the two classes. Correct means: no circular wait, the event loop always
  comes back, an ended task leaves the turntable.
* **HttpServer**: its handlers answer first and act afterwards; what they do is a
  call of the other components.

## 2. The modules

| module | models | checked with |
|---|---|---|
| `MovementService` | abstract: what the executor promises about requests | the refinement `ModbusBusiness => MovementService` |
| `RegisterBank` | abstract: what the link promises about calls, until one times out | the refinement `ModbusProtocol => RegisterBank` |
| `TaskLedger` | abstract: what the front end promises about commands | the refinement `WebSocketService => TaskLedger` |
| `ModbusBusiness` | the executor, the link and the drive as it sees them | `MCModbusBusiness`, 4 configurations |
| `ModbusProtocol` | the link itself and the calls that write registers directly | `MCModbusProtocol`, 1 configuration |
| `WebSocketService` | the front end, executors as environment | 2 configurations |
| `Turntable` | front ends and executor together, at the grain of their mutexes | 1 configuration |
| `CNCController` | console, controller, control layer, serial port, machine | `MCCNCController`, 2 configurations |
| `TCPClient` | the command link | 2 configurations |
| `*_proofs` | theorems about the module of that name | TLAPS |

`Turntable` composes the front ends with the executor: it keeps the task table, the
queue, `current_task_id_` and the three mutexes, and leaves what a task and a
movement do to the two larger modules. `ModbusProtocol` discharges what
`ModbusBusiness` assumes of a query (section 4). `CNCController` takes each chunk
`TCPClient` hands to its data callback, and its missing callback is the executor
that never calls back of `WebSocketService`.

A definition that only exists to be compared with the real one ("Variant: ...")
stands before it; the specifications do not use it. `PROJECT.json` lists under
`mutants` which property each variant breaks.

### ModbusBusiness

Variables carry the name of the member they stand for in their comments;
`mpc` and `ppc` are the places of the two threads. One action is one stretch of
code between two accesses of shared state:

* `PushRejected`, `PushNothingToDo`, `PushQueued` are the three ways through
  `pushCompositeTask`, atomic under `queue_mutex_`. They wait while the movement
  thread is at `toBlock`, between its predicate and its sleep, where it holds the
  mutex. `Stop` does not take it, and its notification is lost there.
* `Cancel`, `ResetSwap`, `ResetClear` are `resetTask`, in the three steps other
  threads can observe. The movement thread runs the same steps at the end of each
  movement (`EndReset`). `Cancel` is offered for every id a WebSocket client can
  cancel, at any time; id 0 fails the guard as in the code.
* `Take` ... `Release` are `processMovement` with `run_axis_to_completion`
  unfolded for X and Z. `Terminate` is the exception of `stringToBytes`, which
  ends the process.
* `ReadActive`, `Poll`, `Verify`, `FixX`, `FixZ` are the polling thread; what it
  read before is used later, as in the code.
* `DriveMoves` and the outcomes of `SendCommand` and `Query` are the environment:
  the drive arrives sooner or later, the link may fail at any exchange
  (`LinkMayFail`), and a query then returns 0, or a value of `Stray`: a late reply
  to another request, or what a reply too short to be decoded leaves in the buffer.

Merged into one action: the Modbus write and the assignment of
`last_x_commanded_` after it (the polling thread could only come in between with
an assignment that is overwritten); the report and the arming of the verification
after it; a query and the store of its result. A sleep is no action: any delay
between two steps is possible anyway. `resetTask` also clears members only the
unused `processQueue` reads. A push concurrent with the swap of `resetTask`
is a data race in C++ (two mutexes); the model orders the two. The same holds for
the plain `int current_task_id_` and `bool run_`.

### WebSocketService

`open` is the set of addresses of open connections. Memory of a closed connection
may serve the next one, so `Open(w)` may reuse an address a task still holds;
when nobody has taken it, the write to freed memory has no effect in the model.
`busy[w]` is `PerSocketData.task_id`. `handle_message` is `Malformed`, `AnswerOnly`,
`AnswerTest` or `Begin`; after `Begin` the event loop is dispatching (`loop`),
part by part, with `HandOver` (the executor keeps the callback), `CallBackAtOnce`
(nothing to do, or the turntable refuses) or `DispatchThrows` (a wrong type in
the part). `resets` counts the calls of `resetTask` for a task; what a call does is
modelled in `Turntable`. The answer to a test command, "completed" by text
(`websocket_service.h:140-143`), belongs to no task and no property is about it. `ExecutorReports` runs the callback on an executor's thread, at any
time, also during the dispatch. In the present build the CNC controller never
calls back for a part that moves (`CNCController`, run `cnc_callback`); the module
leaves it open. `Cleanup` ends the tasks up to some id: start times grow with ids.
`CallBack` and `Cleanup` are atomic under `tasks_mutex_`.

`TaskLedger` is what this comes to: a task is new, running, then completed, failed
or dropped with its client, and stays there. It is completed by the callback that
takes the last missing part, if it is still running then. `Standing` and `Done`
map the service to it: a task runs while it is in `active_tasks_`, and one that is
gone without having been published was dropped. A part that throws leaves its
task running in the ledger as it does in the code, until the timeout fails it.

### TCPClient

`fds` is the set of open descriptors, handed out lowest first as the kernel does.
`pc` places the three threads; the owner is a fourth one in `connect` and
`disconnect`, and a sender a fifth. `connected_`, `socket_` and the close are
separate steps in `handleDisconnect`, `attemptConnection` (`CCloseOld` and `CCreate`,
`CRefused` and `CForget`) and `disconnect`. Merged:
the loop test and the wait predicate of `connectLoop`, both of which only read;
`connected_ = true` with the callback that follows. `FD_SET(-1)` is undefined; in
a default build it touches no descriptor, which `RSelect` models as a time-out.

### ModbusProtocol

A call of any thread goes `Call`, `Send` or `SendFails`, `Receive` or `TimesOut`,
`Return`: `packData`, `packRegisterData` and `packSingleCoilData` are the same
under `mtx_` and differ in what they send (`Register`, `Fixed`, from the bodies of
the commands). `pipe` is the connection: the first `served` entries are replies
nobody has read, the rest requests the drive has not got to. Nothing drains it and
`modbus_receive_confirmation` compares no number, so after a timeout the next
caller reads its predecessor's reply. `Silent` drops a request, `Refuse` answers it
with an exception. `Decode` is the read of bytes 9 and 10, which for the echo of a
write are an address byte and a value byte, and for an exception, which ends before
them, bytes of a stack buffer nobody has written: any of `Unread`. `CallText` is the value `stoi` cannot read, which sends nothing and is
remembered by `axisRunSpeed` all the same; a number outside 0..65535 throws before
anything changes. History are the number `n` of a request, the three counters, `held`,
`garbled` (axes a query of which was refused), `spoilt` (callers whose speed command
failed or overlapped another) and `disturbed` (axes whose last speed command to return
was such a one, or not `axisRunSpeed`; the next good one removes the axis).
The 200 ms sleep under `mtx_` is no action.

`RegisterBank` has no pipe and no mutex: a call takes effect on the registers at one
moment, or fails without effect, and a coordinate may change by itself. A call of
`ModbusProtocol` takes effect there when the drive serves its request; `Receive` is a
stutter; `Refuse` is a call that fails, with whatever value its reader finds. Once an exchange has timed out (`timeouts > 0`) the bank promises nothing.

### CNCController

`pc` places the console's command thread (`commandLoop`), the polling thread and one
thread per move; `receiver` and `owner` are in `pushCommand` and `stop`. `Exchange` is
`writeCmd` and `writeAndRead` under `io_mtx_`: the write fails, or the machine has
answered before the read, or it has not got to the command yet (`todo`) and the
answer will be read by whoever reads next (`inbox`). `Readable` is the search of
`queryPosition` in what was read: the first position, whose last number may be cut
short when it is still arriving. `PollThrows` is the cut that leaves a sign or a point
only: `std::stod` throws on the polling thread and the process ends (`Alive`). `Settle` translates both branches of the polling
loop; with `CameraFlag`, as the code initialises it, only the first is taken. `Seen`
is what a thread reads of `last_*` while the polling thread stores it.
`AcceptJog` and `MoveSelective` make the tests and assignments of one call in one
step. What may come in between in the code is the polling thread, which clears a flag
the call is about to set and stores positions, which `Seen` covers, and another
call, which sets the same flag.
Two concurrent `moveAbsolute2` calls are ordered. `told` counts callbacks and posts
of a move's end, `been` where an axis has been, `jogs` the jogs since a position was
last stored: all three are history.

### Turntable

`pc` places the event loop, the cleanup thread, the movement thread and the HTTP pool;
`owner` holds the mutexes. `AnswerAtOnce` keeps `queue` and goes on to `Callback`,
which keeps `tasks` and goes on to `Reset`, which takes `data`: the three mutexes
nest as in the code. A thread that takes and releases a mutex around one access
does it in one step. A timeout or a close is `EndTask` and `Close`; how a task is
chosen for it does not matter here, so any active task may be. The movement
itself is `Finish(last)`, where `last` says whether its callback ends the task.

## 3. The runs

All runs use the modules' own definitions; constants only are given. Deadlock is
not an error for `ModbusBusiness`, `CNCController` and `TCPClient`, which really stop
(process terminated, threads exited); it is checked for all the others.

| run | specification | shows |
|---|---|---|
| `business_safety` | `Spec`, requests `ws0 ws1 ws2`, failing link with stray answers, `stop` | `TypeOK`, `AtMostOneAnswer`, `ResetConfined`, `BusyMeansServing`, `ActiveAxisOwned`, `CancelStopsWithinOneCommand`, `NoPushMissed`, `MovementAdvances` |
| `business_service` | `FairSpec`, requests `ws1 http none` | `ServingEnds`, `QueuedLeaves`, `ImplementsService` |
| `ws_service` | `FairSpec`, 2 addresses, 2 tasks, 1 test command | `TypeOK`, `OneAnswer`, `CompletedMeansAll`, `NeverStuckBusy`, `ResetAtEnd`, `EveryTaskAnswered`, `ImplementsLedger` |
| `turntable_locks` | `FairSpec`, event loop, cleanup, movement and 1 HTTP thread, tasks 0 and 1 | `TypeOK`, `NoCircularWait`, `EndedLeaves`, `LoopReturns` |
| `modbus_link` | `FairSpec`, 3 callers, 6 calls, 3 requests, exceptions | `TypeOK`, `AnswerLag`, `CoordinateReal`, `SpeedCacheTrue`, `ExchangeEnds`, `AtomicCalls` |
| `cnc_jog` | `FairSpec`, 2 jogs, a move with a callback, a raw move, 1 late reply | `TypeOK`, `JogFromRealPosition`, `JogsPerPosition`, `OneCommandAfterStop`, `CommandNotMissed`, `CommandWakesConsole` |
| `tcp_link` | `FairSpec`, 2 descriptors, 2 attempts, 3 connections, 1 packet, 2 starts | `TypeOK`, `LossHandledOnce`, `ClosedSocketReplaced`, `PacketNotMissed`, `PacketWakesSender` |
| `business_reset` | violated | `OnlyResetTaskCleared`: the reset of one task drops the others' requests |
| `business_cache` | violated | `SuccessMeansCommanded`: success is reported for a command that was lost |
| `ws_command` | violated | `OneTaskPerClient`: an exception while dispatching frees the client and leaves the task |
| `cnc_callback` | violated, `LiveSpec` | `CallbackComes`: a move's stored callback is never called, the process alive and nobody calling `stop` |
| `tcp_reconnect` | violated | `LossWakesConnect`: a lost wakeup, the link stays down |

What some of the properties say, and where they stop:

* `AnswerLag`: a reply is read at most as many requests late as the link has ever
  timed out. Without a timeout each reply is its request's own, whichever threads
  share the link; after one, the code stays out of step for good, which is why
  `CoordinateReal` and `AtomicCalls` are stated for a link without a timeout.
* `AtomicCalls`: the same promise without numbers: until a timeout the connection is a
  `RegisterBank`. It follows that what `OneAxisCurrentCoordinates` returns was the
  coordinate at a moment of that call, whoever else was calling.
* `NoPushMissed`, `PacketNotMissed`, `CommandNotMissed`: none of the three consumer
  threads sleeps over work nobody will notify it of. All three queues are pushed to
  under the mutex the consumer waits with; Stores of `connected_` and
  `running_` are not guarded so, which `tcp_reconnect` shows for a loss. `disconnect`
  has the same gap (`tcp_client.h:100`): with the send thread at `toBlock` when the owner
  passes `WakeSend`, it sleeps afterwards and the owner stays at `join`. TLC finds that
  trace in ten steps when `(owner = "join") ~> (owner = "off")` is asked of `FairSpec`;
  it is no run of its own, since only the destructor calls `disconnect`.
* `MovementAdvances`: a movement is at most `2 * (SettleCycles + WatchCycles + 5) + 5`
  steps of its thread, which nobody else can give back. It is the safety half of
  `ServingEnds`; with the code's 4 and 100 it bounds the waits of one movement at
  about 106 half seconds per axis.
* `CoordinateReal`: without a timeout, and on an axis whose queries were not refused, a
  polled coordinate is one the axis has had, or the 0 of a failed exchange, which it
  does not tell from a real 0. `ModbusBusiness.Query` allows these values, and `Stray`
  for the cases outside the property.
* `SpeedCacheTrue`: from the moment an `axisRunSpeed` that ran alone has read its own
  normal answer, the speed it will not send again is the drive's, whatever went wrong
  before; a request that timed out earlier is served before it, since the drive keeps
  the order. A failed, direct or overlapping command puts the cache in doubt again
  (`disturbed`), and its repetition may then be skipped wrongly.
* `ResetAtEnd`: each way out of a task calls `resetTask` for it, once, and nothing calls
  it for an active task. It does not say that the movement was cancelled: `resetTask`
  ignores id 0 and ids that are not current. `EndedLeaves` says what becomes of it.
* `JogsPerPosition`: two jogs at most from one stored position: `pollingLoop` stores
  `last_*` (line 285), then clears `move_flag_` (290-296), so one jog may be accepted
  between the two and another after.
* `ClosedSocketReplaced`: a closed number is in `socket_` only between a close and the
  assignment that follows it, in four places. In those windows it is exposed, and
  `handleDisconnect` may close a connection just made: both are behaviours of the model.
* `JogFromRealPosition`: from the first answered query on. Before it, the polling
  thread stores its zeros as positions, and a jog starts from there; `heard` says so.
  It is stated for X and Y: C, the last number of a reply, can be read short.
* `EndedLeaves`: an ended task is being reset, or was taken from the queue after its
  end, or is task 0. The last two are behaviours of the code (`modbus_business.cpp:79`
  tests `current_task_id_ > 0`), excepted by name.

The violated runs are disagreements between the code and its own comments or
messages; `findings` quotes both and tells the story of the trace.

**Bounds, and why they are enough.** Three requests are one in service, one
waiting behind it and one that comes in during the service. Targets cover: both
axes, one axis, the value 0 a dead link also reads, a value that does not fit a
register, and nothing at all. `SettleCycles = 1`, `WatchCycles = 0`,
`VerifyPeriod = 0` or `1`, `IdleCycles = 1` or `2` shorten the 4, 100, 30 and 2 of the
code; each loop still runs, times out and is left early. `Stray = {1}`, the target of two
requests, lets a wrong answer end a movement early in `business_safety`; it is empty in
the other runs, which ask nothing a value could change. Two tasks on two
addresses let a task outlive its connection while another runs at its address.
Tasks 0 and 1 are the id `resetTask` ignores and one it does not; one HTTP thread
beside the three fixed ones is enough for every pair of lock orders. Three
requests let a reply be late by two, or a failed command be followed by a good one and
a query; `Unread = {9}` is a value no register holds. Two jogs can start from one
position; one late
command puts one reply of the machine behind. Two descriptors
let one be reused while another is open or none be left; three connections let a
loss be handled while the next connection is made and lost again; `MaxUps` bounds
only connections (an attempt can always be refused). The safety properties that
are proved do not depend on these bounds (section 4).

**Fairness.** `ModbusBusiness`: weak fairness of the movement thread and of a
`resetTask` in progress, since a thread that can run is scheduled; nothing of callers,
link, drive, poller or spurious wakeups. `ServingEnds` therefore holds on a dead
link. `WebSocketService`: weak fairness of the cleanup thread, which runs every
5 s while tasks grow older than 40 s; nothing of clients and executors.
`Turntable`: weak fairness of each thread inside a call, and strong fairness of
`resetTask`, because `mutex_data_` can be taken by others again and again while a
thread waits; the movement thread holds it once per movement, for microseconds.
Nothing makes a client send, a task time out or a movement end.
`ModbusProtocol`: weak fairness of a caller that has sent (the wait has a limit) and
of its return; nothing of the drive, so `ExchangeEnds` holds with a silent one.
`CNCController`: `FairSpec` has weak fairness of the command thread and of the thread
that pushes to it. `LiveSpec`, for the violated run only, adds the polling thread,
the machine, and strong fairness of each exchange (the polling thread sleeps with
`io_mtx_` free), so that the counterexample is not one of a machine that stops.
`TCPClient`: weak fairness of each thread, of a `send` and of a `disconnect` in
progress; nothing of the network, and none of the start of a call. The step that sends a
packet (`SSend`) has none: its `EAGAIN` loop can spin as long as the peer reads nothing.

## 4. The proofs

TLAPS proves the following for every value of the constants that satisfies the
assumption its module names (`ConstantsAssumption`, `ServiceAssumption`,
`LinkAssumption`, `ControllerAssumption`, `TurntableAssumption`, `ClientAssumption`:
sets of the right kind, ids and bounds naturals, thread names distinct); no other
assumption is made. Every safety property and every refinement a passing run checks
is a theorem.

**ModbusBusiness_proofs** proves `Spec => []IInv` (theorem `Invariance`), and from it
`TypeCorrect`, `AnsweredOnce`, `ResetStaysInItsMovement`, `BusyFlagTruthful`,
`PolledAxisOwned`, `CancelStops`, `PushNeverMissed`, `MovementBounded`, and `Refinement`
(`Spec => Service!Spec`). None of the
safety properties is inductive alone. `IInv` adds:

* `ServingInv`: a request is in service exactly while the thread is away from its queue;
* `ResetInv`: who holds `mutex_data_`, and that nothing is left to cancel once the
  movement thread is past its own `resetTask` (its guard fails, or it has reset);
  this is what confines every reset to a movement, and with it makes the
  unlocked swap of the queue harmless to the pop;
* `QueueInv`: requests wait once, untold, and not while in service;
* `ToldInv`: the request in service has been told exactly when the report is behind it;
* `LateInv`: after a late command the next check sees the cancellation;
* `WaitsInv`: the counter of each wait is within that wait's bound while it lasts.

`NoPushMissed` is inductive once the push is known to wait for `toBlock` to pass.
`MovementBounded` counts the steps left (`StepsLeft`) from the place, the axis and the
waits: each action of the movement thread and of its `resetTask` lowers the count,
by one lemma per return of `run_axis_to_completion`, and every other actor keeps the
variables it is computed from.

The proof goes one action at a time, the conjuncts of `IInv` grouped into lemmas by
what an action can disturb. The refinement maps `pushed`, `queue`, `serving`, the
requests with an answer or a post, and `wiped` to the five variables of
`MovementService`; each action is one abstract action or a stutter.

**WebSocketService_proofs** proves `Spec => []IInv` and from it `TypeCorrect`,
`AnsweredOnce`, `ClientFreed`, `ResetCalledAtEnd`, `CompletedIsComplete`, and `LedgerRefined`
(`Spec => Ledger!Spec`). `IInv` adds
`PublishInv` (a task is in `active_tasks_` only until its end is published) and
`PartsInv` (each part is to be dispatched, or with its executor, or over, and
`completed_sub_tasks` counts the parts that succeeded). The counting needs the
library's facts on the cardinality of a set with one element added. `FinalInv` (a
completed task is not active) is what the refinement needs besides: without it a
timeout could turn a completion into a failure. A callback is one of three ledger
steps, or none: `CallBackLedger` shows that the code's test of
`completed_sub_tasks` holds exactly when the part called back for is the only one missing.

**ModbusProtocol_proofs** proves `Typing`, `AnswersMatch`, `CoordinatesReal` and `SpeedCacheHolds`. `InOrder` ties
the counters to the pipe: only the holder of `mtx_` waits, every request sent has
been answered, timed out or is under way, and the entry at place `i` is at least the
`i`-th after the replies read. `AnswerLag` is arithmetic from there. `Truthful` adds
that the newest entry is the holder's own request, that each unread reply to a read
carries a coordinate its axis has had, and so does what a caller carries back. For
`SpeedCacheHolds` the invariant `SpeedInv` says of each axis: a call that is not `spoilt` is the only one setting
its speed; once it has its answer the drive holds its value and no request that sets the
speed is left in the pipe to undo it; on an axis that is not disturbed such a request
belongs to the holder of `mtx_`, and while nobody sets the speed the cache is empty or the
drive's.

**RegisterBank_proofs** proves `CallsAreAtomic` (`Spec => Bank!Spec`) on top of `InOrder` and
`Truthful`: without a timeout the pipe holds nothing but the request of the
holder of `mtx_`, so the drive's step is that caller's `Effect`, and what it will read is
what the register held then.

**CNCController_proofs** proves `Typing`, `JogsSeparated`, `StopIsHeeded`, `JogsStartReal` and `CommandHeard`.
`Typed` extends `TypeOK` to the port, whose contents are queries, motions, positions and
acknowledgements. `JogFlag`: a second jog from one position leaves `move_flag_` set, and
so does the first while the polling thread is about to clear it, so that no third can come. `LastCommand`: a
command taken after `stop()` leaves the thread on its way to the loop test, which
fails. `Positions`: every position on its way to `last_*` (the machine's, the unread
replies', the polling thread's) is one where X and Y have been; the cut of the
last number does not touch X and Y.

**Turntable_proofs** proves `Typing`, `NoDeadlock` and `EndedTasksLeave`. `LockOrder` says where
a thread can be while it holds each mutex; what it then waits for comes later in
the order queue, tasks, data. From that, a set of threads waiting on one another
would need a last mutex whose holder, waiting too, waits for a later one.
`Args` keeps what is registered and pushed among the ids.

**TCPClient_proofs** proves `Typing`, `SocketReplaced`, `LossesHandledOnce` and `PacketHeard`. `Bounds` relates each
counter to the place of the thread that has tested it. `SocketInv` is
`ClosedSocketReplaced` with the fact that no thread runs between `disconnect` and
`connect`. `Losses` rewrites the cardinality of `LossHandledOnce` as one summand per
handler; the exchange of `connected_` moves one unit from the last summand to a
handler.

Both `IInv` and every property that is proved were model-checked first.

**Only model-checked**: the liveness properties (`ServingEnds`, `QueuedLeaves`,
`EveryTaskAnswered`, `LoopReturns`, `ExchangeEnds`, `CommandWakesConsole`,
`PacketWakesSender`), because fairness and ENABLED are out of the prover's reach. Their
safety halves are proved where they have one: `MovementAdvances`, `NoPushMissed`,
`PacketNotMissed` and `CommandNotMissed` say that the thread in question is never stuck
for want of a step or of a notification. The violated properties have no proof.

## 5. Not modelled

* **Vendored code**: `httplib.h` (10244 lines) and `ini.h` (784), two thirds of the lines
  under `src/src/`; uWebSockets and libmodbus are modelled from their use.
* **Code no build runs**: `controller.h` (created by `HttpServer::start2`, which `main`
  calls only under `Manual_Control`; that variant uses a variable of the other branch at
  `modbus_new_tcp.cpp:54` and does not compile); the two laser sensors with their managers
  and `serial_port.h` (the only lines that would create them, `http_service.h:48-51`, are
  commented out). A model of them would have no caller to take its inputs from.
* **Dead operations of modelled classes**: `pushData`, `processQueue`, `axisRunLength`,
  `get_length`, `bjlenght`, `keyboard_listener`; `packData2`, `packReadRegisterData`, `readData`;
  `cameraMove`, `setPosition`, `queryInputs`, `readLine`, `readBytes`; `inputLoop`.
* **Checksums**: `calculateCRC` and `parseAndValidate` are computed and printed; nothing
  depends on their result.
* **Pure I/O and text**: `HttpClient`, `Config`, `Common`, the wording of messages and logs,
  the speeds and their limits (values are abstract in `ModbusProtocol`).
* **Undefined behaviour beyond the values it yields**: unsynchronised access to
  `std::queue` (`modbus_business.cpp:85`), `std::string` (`current_name_`, `x_speed_`),
  `std::function` (`current_callback_`) and `std::shared_ptr` (`control_layer.cpp:22`) is ordered
  in the models; a crash in such an access is not represented. Nor is the access
  to a closed connection's memory (`websocket_service.h:170`, `:251`) beyond its effect on a
  connection that has taken its place.
