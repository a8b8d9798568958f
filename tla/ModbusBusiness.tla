-------------------------- MODULE ModbusBusiness --------------------------
(* The two-axis turntable executor (modbus_business.cpp): callers queue     *)
(* composite moves with pushCompositeTask and cancel them with resetTask,   *)
(* the movement thread (processMovement) serves one move at a time, and the *)
(* polling thread (pollPositions) copies the drive's coordinates and keeps  *)
(* the cache of last commanded values.  The drive and the Modbus link are   *)
(* modelled from how this code uses them.                                   *)
EXTENDS Integers, Sequences, SequencesExt

CONSTANTS
  Requests,       \* the calls of pushCompositeTask, each made at most once
  TaskId,         \* [Requests -> Nat]: argument task_id
  Target,         \* [Requests -> [Axes -> Int]]: argument task
  HasCallback,    \* [Requests -> BOOLEAN]: argument cb is not nullptr
  SettleCycles,   \* 500 ms sleeps after a command: 4
  WatchCycles,    \* timeout_wait: 100
  VerifyPeriod,   \* verification_countdown_: 30
  IdleCycles,     \* idle_poll_cycles: 2
  LinkMayFail,    \* whether a Modbus exchange may fail
  Stray,          \* what a query may return besides the coordinate and 0
  MayStop         \* whether stop() may be called

Axes == {"X", "Z"}
NoTask == -1          \* current_task_id_ when nothing runs
NoAxis == "none"      \* active_axis_ == '\0'
Skip == -80000        \* the value "-80000": leave this axis alone
NeverSet == -1        \* the initial "-1" of last_x_commanded_
Nobody == "nobody"    \* no request is being served
Words == 0 .. 65535   \* a register, uint16_t

ASSUME ConstantsAssumption ==
  /\ Nobody \notin Requests
  /\ TaskId \in [Requests -> Nat]
  /\ Target \in [Requests -> [Axes -> Int]]
  /\ HasCallback \in [Requests -> BOOLEAN]
  /\ SettleCycles \in Nat \ {0} /\ WatchCycles \in Nat
  /\ VerifyPeriod \in Nat /\ IdleCycles \in Nat \ {0}
  /\ LinkMayFail \in BOOLEAN /\ Stray \subseteq Words /\ MayStop \in BOOLEAN

VARIABLES
  queue,        \* data_queue_ex_
  current,      \* current_task_id_
  stopping,     \* run_, true once stop() was called
  active,       \* active_axis_
  last,         \* last_x_commanded_, last_z_commanded_
  polled,       \* current_x_pos_, current_z_pos_
  pending,      \* verification_pending_
  countdown,    \* verification_countdown_
  mpc,          \* where the movement thread is
  serving,      \* its current_task
  axis,         \* its axis argument in run_axis_to_completion
  waits,        \* its loop counters i and timeout_wait
  ok,           \* the result of the last axis it ran
  resetBy,      \* who holds mutex_data_ past the guard of resetTask
  resetStep,    \* what that resetTask does next
  ppc,          \* where the polling thread is
  idle,         \* its idle_counter
  goal,         \* drive: the position last written to each axis
  pos,          \* drive: where each axis is
  pushed,       \* history: requests whose push has happened
  wiped,        \* history: requests removed from the queue by resetTask
  answers,      \* history: calls of each request's callback
  posts,        \* history: "ok" messages posted at each request's end
  late          \* history: commands sent for the served task after its cancel

queueVars  == <<queue, pushed, wiped>>
resetVars  == <<resetBy, resetStep>>
pollerVars == <<ppc, idle>>
tellVars   == <<answers, posts>>
cacheVars  == <<last, pending, countdown>>
vars == <<queueVars, current, stopping, active, cacheVars, polled,
          mpc, serving, axis, waits, ok, resetVars, pollerVars, goal, pos,
          tellVars, late>>

AxisPCs == {"enter", "arm", "command", "settle", "watch"}
MoverPCs == {"test", "toBlock", "blocked", "report", "reset", "resetting",
             "release", "exited", "terminated"} \cup AxisPCs
PollerPCs == {"read", "activeX", "activeZ", "idleX", "idleZ", "verify",
              "fixX", "fixZ", "exited"}

Init ==
  /\ queue = <<>> /\ pushed = {} /\ wiped = {}
  /\ current = NoTask
  /\ stopping = FALSE
  /\ active = NoAxis
  /\ last = [a \in Axes |-> NeverSet]
  /\ polled = [a \in Axes |-> 0]
  /\ pending = FALSE /\ countdown = 0
  /\ mpc = "test" /\ serving = Nobody /\ axis = "X" /\ waits = 0 /\ ok = FALSE
  /\ resetBy = Nobody /\ resetStep = "none"
  /\ ppc = "read" /\ idle = 0
  /\ goal = [a \in Axes |-> 0] /\ pos = goal
  /\ answers = [r \in Requests |-> 0] /\ posts = answers
  /\ late = 0

----------------------------------------------------------------------------
(* Callers: pushCompositeTask runs under queue_mutex_, which the movement   *)
(* thread holds from its predicate test until it blocks ("toBlock").        *)

\* What a push and stop() leave alone: everything of the threads but a wakeup.
CallerUnchanged ==
  UNCHANGED <<wiped, current, active, cacheVars, polled, serving, axis, waits,
              ok, resetVars, pollerVars, goal, pos, posts, late>>

\* std::terminate ends every thread at once.
Running == mpc # "terminated"

Calls(r) == Running /\ r \notin pushed /\ mpc # "toBlock" /\ pushed' = pushed \cup {r}
CallBack(r) == answers' = IF HasCallback[r] THEN [answers EXCEPT ![r] = @ + 1]
                                            ELSE answers
\* Variant: the push forgets to notify.
NotifyNobody == mpc' = mpc

\* cv_.notify_one()
Notify == mpc' = IF mpc = "blocked" THEN "test" ELSE mpc

\* Variant: no return after the refusal.
PushRejectedFallsThrough(r) ==
  /\ Calls(r)
  /\ current # NoTask
  /\ CallBack(r)
  /\ queue' = Append(queue, r)
  /\ Notify
  /\ CallerUnchanged /\ UNCHANGED stopping

PushRejected(r) ==
  /\ Calls(r)
  /\ current # NoTask
  /\ CallBack(r)
  /\ CallerUnchanged /\ UNCHANGED <<queue, mpc, stopping>>

PushNothingToDo(r) ==
  /\ Calls(r)
  /\ current = NoTask
  /\ \A a \in Axes : Target[r][a] = Skip
  /\ CallBack(r)
  /\ CallerUnchanged /\ UNCHANGED <<queue, mpc, stopping>>

PushQueued(r) ==
  /\ Calls(r)
  /\ current = NoTask
  /\ \E a \in Axes : Target[r][a] # Skip
  /\ queue' = Append(queue, r)
  /\ Notify
  /\ CallerUnchanged /\ UNCHANGED <<answers, stopping>>

\* stop(): the flag is set and cv_ notified without queue_mutex_, so a movement
\* thread at "toBlock" misses the notification.
Stop ==
  /\ Running /\ MayStop /\ ~stopping
  /\ stopping' = TRUE
  /\ Notify
  /\ CallerUnchanged /\ UNCHANGED <<queue, pushed, answers>>

----------------------------------------------------------------------------
(* resetTask, under mutex_data_: its guard and first assignment, the swap   *)
(* of the queue, then the flags.  An id that is not positive fails the      *)
(* guard, whoever calls.                                                    *)

ResetUnchanged ==
  UNCHANGED <<pushed, stopping, cacheVars, polled, serving, axis, waits, ok,
              pollerVars, goal, pos, tellVars, late>>

ResetStarts(who) ==
  /\ current' = NoTask
  /\ resetBy' = who /\ resetStep' = "swap"

\* A caller cancels task id (a socket closes, a task times out, a sub-task fails).
Cancel(id) ==
  /\ Running /\ resetBy = Nobody
  /\ current > 0 /\ current = id
  /\ ResetStarts("caller")
  /\ ResetUnchanged /\ UNCHANGED <<queue, wiped, active, mpc>>

ResetSwap ==
  /\ Running /\ resetStep = "swap"
  /\ wiped' = wiped \cup ToSet(queue)
  /\ queue' = <<>>
  /\ resetStep' = "clear"
  /\ ResetUnchanged /\ UNCHANGED <<current, active, mpc, resetBy>>

ResetClear ==
  /\ Running /\ resetStep = "clear"
  /\ active' = NoAxis
  /\ resetBy' = Nobody /\ resetStep' = "none"
  /\ mpc' = IF resetBy = "mover" THEN "release" ELSE mpc
  /\ ResetUnchanged /\ UNCHANGED <<current, queue, wiped>>

----------------------------------------------------------------------------
(* The movement thread.                                                     *)

\* Variant: an id that was reset to -1 does not count as a cancellation.
CancelledOtherTask == current \notin {NoTask, TaskId[serving]}

Cancelled == current # TaskId[serving]

\* What no step of the movement thread changes ...
MoverUnchanged == UNCHANGED <<pushed, wiped, stopping, polled, pollerVars, pos>>
\* ... and what most of its steps leave alone as well.
MoverMoves ==
  MoverUnchanged /\ UNCHANGED <<queue, current, cacheVars, resetVars, goal,
                                tellVars, late, serving>>

Take ==
  /\ mpc = "test" /\ ~stopping /\ queue # <<>>
  /\ serving' = Head(queue) /\ queue' = Tail(queue)
  /\ current' = TaskId[Head(queue)]
  /\ pending' = FALSE
  /\ mpc' = "enter" /\ axis' = "X"
  /\ late' = 0
  /\ MoverUnchanged
  /\ UNCHANGED <<active, last, countdown, waits, ok, resetVars, goal, tellVars>>

\* The predicate of cv_.wait is false: the thread keeps queue_mutex_ until it sleeps.
FindNothing ==
  /\ mpc = "test" /\ ~stopping /\ queue = <<>>
  /\ mpc' = "toBlock"
  /\ MoverMoves /\ UNCHANGED <<active, axis, waits, ok>>

Block ==
  /\ mpc = "toBlock"
  /\ mpc' = "blocked"
  /\ MoverMoves /\ UNCHANGED <<active, axis, waits, ok>>

SpuriousWake ==
  /\ mpc = "blocked"
  /\ mpc' = "test"
  /\ MoverMoves /\ UNCHANGED <<active, axis, waits, ok>>

MoverExit ==
  /\ mpc = "test" /\ stopping
  /\ mpc' = "exited"
  /\ MoverMoves /\ UNCHANGED <<active, axis, waits, ok>>

\* run_axis_to_completion returns b: Z follows a successful X, else the report.
AxisReturns(b) ==
  /\ ok' = b
  /\ axis' = IF axis = "X" /\ b THEN "Z" ELSE axis
  /\ mpc' = IF axis = "X" /\ b THEN "enter" ELSE "report"
  /\ MoverMoves /\ UNCHANGED waits

AlreadyThere == Target[serving][axis] = Skip \/ Target[serving][axis] = last[axis]

SkipAxis == mpc = "enter" /\ AlreadyThere /\ AxisReturns(TRUE) /\ UNCHANGED active

EnterCancelled ==
  mpc = "enter" /\ ~AlreadyThere /\ Cancelled /\ AxisReturns(FALSE) /\ UNCHANGED active

EnterAxis ==
  /\ mpc = "enter" /\ ~AlreadyThere /\ ~Cancelled
  /\ mpc' = "arm"
  /\ MoverMoves /\ UNCHANGED <<active, axis, waits, ok>>

Arm ==
  /\ mpc = "arm"
  /\ active' = axis
  /\ mpc' = "command"
  /\ MoverMoves /\ UNCHANGED <<axis, waits, ok>>

\* The length command is written, or lost with the link; nobody looks which.
\* Then the value is remembered as the last one commanded.
SendCommand ==
  /\ mpc = "command"
  /\ Target[serving][axis] \in Words
  /\ \/ goal' = [goal EXCEPT ![axis] = Target[serving][axis]]
     \/ LinkMayFail /\ goal' = goal
  /\ last' = [last EXCEPT ![axis] = Target[serving][axis]]
  /\ late' = IF current # TaskId[serving] THEN late + 1 ELSE late
  /\ mpc' = "settle" /\ waits' = SettleCycles
  /\ MoverUnchanged
  /\ UNCHANGED <<queue, current, active, pending, countdown, serving, axis, ok,
                 resetVars, tellVars>>

\* stringToBytes throws and nobody catches it on this thread.
Terminate ==
  /\ mpc = "command"
  /\ Target[serving][axis] \notin Words
  /\ mpc' = "terminated"
  /\ MoverMoves /\ UNCHANGED <<active, axis, waits, ok>>

\* Every return after the command clears active_axis_.
LeaveAxis(b) == active' = NoAxis /\ AxisReturns(b)

Settle ==
  /\ mpc = "settle" /\ ~stopping /\ ~Cancelled
  /\ mpc' = IF waits > 1 THEN mpc ELSE "watch"
  /\ waits' = IF waits > 1 THEN waits - 1 ELSE WatchCycles
  /\ MoverMoves /\ UNCHANGED <<active, axis, ok>>

SettleCancelled == mpc = "settle" /\ (stopping \/ Cancelled) /\ LeaveAxis(FALSE)

Reached == polled[axis] = Target[serving][axis]
Watching == mpc = "watch" /\ ~stopping /\ ~Cancelled

\* Variant: timeout_wait is not counted down.
WatchForever ==
  /\ Watching /\ ~Reached /\ waits >= 0
  /\ waits' = waits
  /\ MoverMoves /\ UNCHANGED <<active, mpc, axis, ok>>

Watch ==
  /\ Watching /\ ~Reached /\ waits >= 0
  /\ waits' = waits - 1
  /\ MoverMoves /\ UNCHANGED <<active, mpc, axis, ok>>

WatchReached == Watching /\ Reached /\ LeaveAxis(TRUE)
\* Variant: the timeout leaves active_axis_ set.
WatchTimeoutKeepsAxis ==
  Watching /\ ~Reached /\ waits < 0 /\ AxisReturns(FALSE) /\ UNCHANGED active

\* Variant: the command is sent again when the wait is over.
WatchTimeoutRetries ==
  /\ Watching /\ ~Reached /\ waits < 0
  /\ mpc' = "command"
  /\ MoverMoves /\ UNCHANGED <<active, axis, waits, ok>>

WatchTimeout == Watching /\ ~Reached /\ waits < 0 /\ LeaveAxis(FALSE)
WatchCancelled == mpc = "watch" /\ ~stopping /\ Cancelled /\ LeaveAxis(FALSE)
WatchStopped   == mpc = "watch" /\ stopping /\ LeaveAxis(TRUE)

\* Variant: the callback hears of success only.
ReportSuccessOnly ==
  /\ mpc = "report"
  /\ answers' = IF ok /\ HasCallback[serving] THEN [answers EXCEPT ![serving] = @ + 1]
                                              ELSE answers
  /\ mpc' = "reset"
  /\ MoverUnchanged
  /\ UNCHANGED <<queue, current, active, cacheVars, serving, axis, waits, ok,
                 resetVars, goal, posts, late>>

\* The callback of a task that is still current, or "ok" posted for any other
\* end; success starts the verification period.
Report ==
  /\ mpc = "report"
  /\ IF current # NoTask /\ HasCallback[serving]
     THEN answers' = [answers EXCEPT ![serving] = @ + 1] /\ UNCHANGED posts
     ELSE posts' = [posts EXCEPT ![serving] = @ + 1] /\ UNCHANGED answers
  /\ pending' = (pending \/ ok)
  /\ countdown' = IF ok THEN VerifyPeriod ELSE countdown
  /\ mpc' = "reset"
  /\ MoverUnchanged
  /\ UNCHANGED <<queue, current, active, last, serving, axis, waits, ok, resetVars, goal, late>>

\* Variant: the movement thread does not reset its task under mutex_data_.
EndWithoutReset ==
  /\ mpc = "reset"
  /\ mpc' = "release"
  /\ MoverMoves /\ UNCHANGED <<active, axis, waits, ok>>

\* resetTask(current_task_id_) waits for mutex_data_.
EndReset ==
  /\ mpc = "reset" /\ resetBy = Nobody
  /\ \/ current > 0 /\ ResetStarts("mover") /\ mpc' = "resetting"
     \/ ~(current > 0) /\ mpc' = "release" /\ UNCHANGED <<current, resetVars>>
  /\ MoverUnchanged
  /\ UNCHANGED <<queue, active, cacheVars, serving, axis, waits, ok, goal, tellVars, late>>

\* Variant: the end of the task relies on resetTask alone to free the flag.
ReleaseKeepsTask ==
  /\ mpc = "release"
  /\ serving' = Nobody
  /\ mpc' = "test"
  /\ MoverUnchanged
  /\ UNCHANGED <<queue, current, active, cacheVars, axis, waits, ok, resetVars,
                 goal, tellVars, late>>

Release ==
  /\ mpc = "release"
  /\ current' = NoTask
  /\ serving' = Nobody
  /\ mpc' = "test"
  /\ MoverUnchanged
  /\ UNCHANGED <<queue, active, cacheVars, axis, waits, ok, resetVars, goal, tellVars, late>>

Mover ==
  \/ Take \/ FindNothing \/ Block \/ MoverExit
  \/ SkipAxis \/ EnterCancelled \/ EnterAxis \/ Arm \/ SendCommand \/ Terminate
  \/ Settle \/ SettleCancelled
  \/ Watch \/ WatchReached \/ WatchTimeout \/ WatchCancelled \/ WatchStopped
  \/ Report \/ EndReset \/ Release

----------------------------------------------------------------------------
(* The polling thread, and the drive.                                       *)

PollerUnchanged ==
  UNCHANGED <<queueVars, current, stopping, active, mpc, serving, axis, waits, ok,
              resetVars, goal, pos, tellVars, late>>

ReadActive ==
  /\ Running /\ ppc = "read" /\ ~stopping
  /\ \/ active = "X" /\ ppc' = "activeX" /\ idle' = 0
     \/ active = "Z" /\ ppc' = "activeZ" /\ idle' = 0
     \/ active = NoAxis /\ idle + 1 >= IdleCycles /\ ppc' = "idleX" /\ idle' = 0
     \/ active = NoAxis /\ idle + 1 < IdleCycles /\ ppc' = "verify" /\ idle' = idle + 1
  /\ PollerUnchanged /\ UNCHANGED <<cacheVars, polled>>

PollerExit ==
  /\ Running /\ ppc = "read" /\ stopping
  /\ ppc' = "exited"
  /\ PollerUnchanged /\ UNCHANGED <<idle, cacheVars, polled>>

\* Variant: a failed exchange returns -1, an error code.
QueryErrorCode(a) ==
  \/ polled' = [polled EXCEPT ![a] = pos[a]]
  \/ LinkMayFail /\ polled' = [polled EXCEPT ![a] = -1]

\* packData returns the coordinate; 0 when the exchange fails; anything in Stray
\* when the reply is another request's, late after a timeout, or too short.
Query(a) ==
  \/ polled' = [polled EXCEPT ![a] = pos[a]]
  \/ LinkMayFail /\ \E v \in {0} \cup Stray : polled' = [polled EXCEPT ![a] = v]

Poll ==
  /\ Running
  /\ \/ ppc = "activeX" /\ Query("X") /\ ppc' = "read"
     \/ ppc = "activeZ" /\ Query("Z") /\ ppc' = "read"
     \/ ppc = "idleX" /\ Query("X") /\ ppc' = "idleZ"
     \/ ppc = "idleZ" /\ Query("Z") /\ ppc' = "verify"
  /\ PollerUnchanged /\ UNCHANGED <<idle, cacheVars>>

\* verification_countdown_-- <= 0, only while verification_pending_.
Verify ==
  /\ Running /\ ppc = "verify"
  /\ countdown' = IF pending THEN countdown - 1 ELSE countdown
  /\ ppc' = IF pending /\ countdown <= 0 THEN "fixX" ELSE "read"
  /\ PollerUnchanged /\ UNCHANGED <<idle, last, pending, polled>>

\* The cache takes the polled coordinate, without last_command_mutex_.
FixX ==
  /\ Running /\ ppc = "fixX"
  /\ last' = [last EXCEPT !["X"] = polled["X"]]
  /\ ppc' = "fixZ"
  /\ PollerUnchanged /\ UNCHANGED <<idle, pending, countdown, polled>>

FixZ ==
  /\ Running /\ ppc = "fixZ"
  /\ last' = [last EXCEPT !["Z"] = polled["Z"]]
  /\ countdown' = VerifyPeriod
  /\ ppc' = "read"
  /\ PollerUnchanged /\ UNCHANGED <<idle, pending, polled>>

Poller == ReadActive \/ PollerExit \/ Poll \/ Verify \/ FixX \/ FixZ

\* An axis that was told to move arrives, sooner or later.
DriveMoves(a) ==
  /\ Running /\ pos[a] # goal[a]
  /\ pos' = [pos EXCEPT ![a] = goal[a]]
  /\ UNCHANGED <<queueVars, current, stopping, active, cacheVars, polled, mpc,
                 serving, axis, waits, ok, resetVars, pollerVars, goal, tellVars, late>>

----------------------------------------------------------------------------
Callers ==
  \/ \E r \in Requests : PushRejected(r) \/ PushNothingToDo(r) \/ PushQueued(r)
  \/ \E r \in Requests : HasCallback[r] /\ Cancel(TaskId[r])
  \/ Stop

Next ==
  \/ Callers \/ Mover \/ SpuriousWake
  \/ ResetSwap \/ ResetClear
  \/ Poller
  \/ \E a \in Axes : DriveMoves(a)

Spec == Init /\ [][Next]_vars

\* A thread that can take a step takes one; nothing is assumed of callers, of
\* spurious wakeups, of the poller, of the link or of the drive.
FairSpec ==
  /\ Spec
  /\ WF_vars(Mover)
  /\ WF_vars(ResetSwap \/ ResetClear)

----------------------------------------------------------------------------
(* Properties.                                                              *)

TypeOK ==
  /\ queue \in Seq(Requests) /\ pushed \subseteq Requests /\ wiped \subseteq Requests
  /\ current \in Nat \cup {NoTask}
  /\ stopping \in BOOLEAN
  /\ active \in Axes \cup {NoAxis}
  /\ last \in [Axes -> Int] /\ polled \in [Axes -> Words]
  /\ pending \in BOOLEAN /\ countdown \in Int
  /\ mpc \in MoverPCs /\ serving \in Requests \cup {Nobody}
  /\ axis \in Axes /\ waits \in Int /\ ok \in BOOLEAN
  /\ resetBy \in {Nobody, "caller", "mover"} /\ resetStep \in {"none", "swap", "clear"}
  /\ ppc \in PollerPCs /\ idle \in Nat
  /\ goal \in [Axes -> Words] /\ pos \in [Axes -> Words]
  /\ answers \in [Requests -> Nat] /\ posts \in [Requests -> Nat]
  /\ late \in Nat

\* However pushes, cancellations and the end of a move interleave, a request is
\* told of its end once at most: by its callback or by the posted "ok", never
\* by both and never twice (pushCompositeTask, processMovement).
AtMostOneAnswer == \A r \in Requests : answers[r] + posts[r] <= 1

\* What resetTask does after its guard (emptying the queue, clearing
\* active_axis_) falls within the movement it cancels: the movement thread
\* still serves a request, it has not gone back to the queue and is not about
\* to start the next one, whichever thread runs resetTask.
ResetConfined ==
  resetStep # "none" =>
    /\ current = NoTask
    /\ serving # Nobody
    /\ mpc \notin {"test", "toBlock", "blocked", "release", "exited"}

\* The busy flag that callers test names the request in service: a task id left
\* behind by an earlier move would refuse callers for ever.
BusyMeansServing == current # NoTask => serving # Nobody /\ current = TaskId[serving]

\* The polling thread follows an axis only while the movement thread runs it,
\* whatever way out run_axis_to_completion takes.
ActiveAxisOwned ==
  active # NoAxis => /\ mpc \in {"command", "settle", "watch", "terminated"}
                     /\ active = axis

\* A cancelled request moves nothing more, but for one command that was already
\* past its last check when the cancellation came.
CancelStopsWithinOneCommand == late <= 1

\* The movement thread does not go to sleep, or sleep, on a queued request: a push
\* notifies it under queue_mutex_, which it holds from its test until it sleeps.
NoPushMissed == mpc \in {"toBlock", "blocked"} => queue = <<>>

\* How many steps the movement thread has left in its movement, at most: it counts
\* places and waits, never what the link, the drive or callers do.
AxisSteps == SettleCycles + WatchCycles + 5
AxisLeft ==
  CASE mpc = "enter" -> AxisSteps [] mpc = "arm" -> AxisSteps - 1
    [] mpc = "command" -> AxisSteps - 2 [] mpc = "settle" -> waits + WatchCycles + 2
    [] mpc = "watch" -> waits + 2
StepsLeft ==
  CASE mpc \in AxisPCs -> AxisLeft + 5 + (IF axis = "X" THEN AxisSteps ELSE 0)
    [] mpc = "report" -> 5 [] mpc = "reset" -> 4
    [] mpc = "resetting" -> IF resetStep = "swap" THEN 3 ELSE 2
    [] mpc = "release" -> 1 [] OTHER -> 0

\* A movement is a bounded number of steps of its thread: each of them, and of its
\* resetTask, uses one up, and no push, cancellation, stop(), poll or drive gives any
\* back (run_axis_to_completion and its two waits).
MovementAdvances ==
  [][/\ StepsLeft' \in 0 .. 2 * AxisSteps + 5
     /\ serving # Nobody /\ serving' = serving =>
          /\ StepsLeft' <= StepsLeft
          /\ Mover \/ (resetBy = "mover" /\ (ResetSwap \/ ResetClear)) => StepsLeft' < StepsLeft]_vars

\* Every movement ends, whatever the link and the drive do: it is reported, or
\* the process has terminated.
ServingEnds ==
  \A r \in Requests : (serving = r) ~> (serving # r \/ mpc = "terminated")

\* No queued request is forgotten by a sleeping movement thread: it is taken, or
\* removed by resetTask, unless the thread was told to stop.
QueuedLeaves ==
  \A r \in Requests :
    (r \in ToSet(queue)) ~> (r \notin ToSet(queue) \/ stopping \/ mpc = "terminated")

\* The executor is a MovementService: one request in service, in order of
\* acceptance, its end told exactly once before the next starts, and waiting
\* requests dropped only during a service.
Service == INSTANCE MovementService WITH
             known <- pushed, waiting <- queue, running <- serving,
             told <- {r \in Requests : answers[r] + posts[r] > 0}, dropped <- wiped

ImplementsService == Service!Spec

\* "Clear any pending commands for the cancelled task" (resetTask): the requests
\* a reset removes from the queue carry the id of the task it resets.
OnlyResetTaskCleared ==
  [][\A r \in wiped' \ wiped : TaskId[r] = TaskId[serving]]_vars

\* A move reported as a success has commanded each of its axes to the target.
SuccessMeansCommanded ==
  mpc = "report" /\ ok =>
    \A a \in Axes : Target[serving][a] \in {Skip, goal[a]}

----------------------------------------------------------------------------
(* What the safety properties above rest on: an inductive invariant, proved  *)
(* part by part in ModbusBusiness_proofs.                                    *)

InService == AxisPCs \cup {"report", "reset", "resetting", "release", "terminated"}
Told(r) == answers[r] + posts[r]

\* The movement thread serves a request exactly while it is away from the queue.
ServingInv == serving # Nobody <=> mpc \in InService

\* mutex_data_ is held exactly during a reset, and when the movement thread is
\* past its own resetTask nothing is left to cancel.
ResetInv ==
  /\ resetBy = Nobody <=> resetStep = "none"
  /\ resetBy = "mover" <=> mpc = "resetting"
  /\ mpc = "release" => current <= 0

ControlInv == ServingInv /\ ResetInv /\ ResetConfined /\ BusyMeansServing

\* Requests wait once, untold, and none of them is the one in service.
QueueInv ==
  /\ \A i, j \in DOMAIN queue : queue[i] = queue[j] => i = j
  /\ \A i \in DOMAIN queue :
       queue[i] \in pushed /\ queue[i] # serving /\ Told(queue[i]) = 0

\* The request in service has been told when, and only when, Report is behind it.
ToldInv ==
  /\ \A r \in Requests \ pushed : Told(r) = 0
  /\ serving # Nobody =>
       /\ serving \in pushed
       /\ Told(serving) = IF mpc \in {"reset", "resetting", "release"} THEN 1 ELSE 0

\* A command sent after the cancellation is the last: the next check sees it.
LateInv ==
  /\ late <= 1
  /\ late > 0 => /\ mpc \notin {"enter", "arm", "command", "watch", "terminated"}
                 /\ mpc = "settle" => current # TaskId[serving]

\* The loop counters stay within their loops.
WaitsInv ==
  /\ mpc = "settle" => waits \in 1 .. SettleCycles
  /\ mpc = "watch" => waits \in -1 .. WatchCycles

IInv == TypeOK /\ ControlInv /\ QueueInv /\ ToldInv /\ AtMostOneAnswer
        /\ LateInv /\ ActiveAxisOwned /\ WaitsInv /\ NoPushMissed
============================================================================
