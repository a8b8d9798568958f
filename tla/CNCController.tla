--------------------------- MODULE CNCController ---------------------------
(* The multi-axis machine: jog commands reach the console's command thread   *)
(* from the command link (control_layer.cpp, CNCConsole.cpp), absolute moves *)
(* are called by the services' threads, a polling thread reads positions,    *)
(* and all of them share the controller's state without a lock and one       *)
(* serial port under io_mtx_ (YX20KController.cpp).  The machine at the      *)
(* other end is modelled from how the port is used.                          *)
EXTENDS Integers, Sequences, FiniteSets

CONSTANTS
  Chunks,        \* what the command link delivers: jog commands, or Malformed
  Moves,         \* the calls of moveAbsolute2, moveAbsolute and moveAxis2, each made once
  Target,        \* [Moves -> [Axes -> Int]]: arguments x, y, z, c
  HasCallback,   \* [Moves -> BOOLEAN]: argument cb is not nullptr
  Direct,        \* the moves that are calls of moveAbsolute or moveAxis2, which only write
  StartPosition, \* [Axes -> Int]: where the machine stands at power-on
  Gradient,      \* JogCommand.gradient, the length of a jog
  MaxChunks,     \* bound: chunks delivered
  MaxLate        \* bound: commands the machine has not got to

Axes == {"X", "Y", "Z", "C"}
JogAxes == {"X", "Y"}
MoveAxes == {"X", "Z", "C"}
Skip == -80000        \* isDefaultValue: leave this axis alone
Unknown == -80000     \* the initial last_x_, before the first poll
Malformed == [axis |-> "none", dir |-> 0]   \* text that does not parse
Nobody == "nobody"
Threads == {"console", "poll"} \cup Moves

ASSUME ControllerAssumption ==
  /\ Nobody \notin Threads /\ Moves \cap {"console", "poll"} = {}
  /\ Target \in [Moves -> [Axes -> Int]]
  /\ HasCallback \in [Moves -> BOOLEAN] /\ Direct \subseteq Moves
  /\ StartPosition \in [Axes -> Int]
  /\ \A c \in Chunks \ {Malformed} : c \in [axis : Axes, dir : Int]
  /\ Gradient \in Nat \ {0} /\ MaxChunks \in Nat /\ MaxLate \in Nat

VARIABLES
  attached,   \* cnc_controller_ptr_ is set in the control layer
  receiver,   \* where the link's receive thread is in pushCommand
  cmds,       \* commandQueue_
  running,    \* running_ of the console
  owner,      \* where the owner is in stop()
  pc,         \* where each thread is
  jog,        \* the command processCommand works on
  moveFlag,   \* move_flag_
  last,       \* last_x_, last_y_, last_z_, last_c_
  camera,     \* camera_move_x_, camera_move_y_
  aim,        \* move_x_, move_z_, move_c_
  callback,   \* current_callback_: the move it belongs to, or Nobody
  command,    \* what each thread writes to the port
  p,          \* the polling thread's Position
  heard,      \* whether p was ever read from the machine
  todo,       \* commands the machine has received
  inbox,      \* replies waiting in the port
  pos, goal,  \* where the machine is and is going
  told,       \* history: how often each move's end was told
  been,       \* history: where each axis has been
  jogs,       \* history: jogs accepted since a position was last stored in last_*
  chunks,     \* history: chunks delivered
  afterStop   \* history: commands taken after stop()

console == <<receiver, cmds, running, owner, jog, chunks, afterStop>>
control == <<moveFlag, last, camera, aim, callback, told, jogs>>
polling == <<p, heard>>
machine == <<todo, inbox, pos, goal, been>>
vars == <<attached, console, pc, control, command, polling, machine>>

Nothing == [a \in {} |-> 0]
Query == [query |-> 0]   \* "CJXSA"; a motion is a target per axis
Ack == Nothing

Init ==
  /\ attached = FALSE /\ receiver = "idle"
  /\ cmds = <<>> /\ running = TRUE /\ owner = "on" /\ jog = Malformed
  /\ pc = [t \in Threads |-> CASE t = "console" -> "test" [] t = "poll" -> "write"
                                  [] OTHER -> "call"]
  /\ moveFlag = FALSE /\ callback = Nobody
  /\ last = [a \in Axes |-> Unknown]
  /\ camera = [a \in JogAxes |-> -1] /\ aim = [a \in MoveAxes |-> -10000]
  /\ command = [t \in Threads |-> IF t = "poll" THEN Query ELSE Nothing]
  /\ p = [a \in Axes |-> 0] /\ heard = FALSE
  /\ todo = <<>> /\ inbox = <<>>
  /\ pos = StartPosition /\ goal = StartPosition
  /\ told = [m \in Moves |-> 0]
  /\ been = [a \in Axes |-> {StartPosition[a]}]
  /\ jogs = 0 /\ chunks = 0 /\ afterStop = 0

\* std::terminate, on the polling thread, ends every thread at once.
Alive == pc["poll"] # "terminated"

Goes(t, from, to) == Alive /\ pc[t] = from /\ pc' = [pc EXCEPT ![t] = to]

----------------------------------------------------------------------------
(* The serial port.  An exchange writes, waits and reads under io_mtx_: what  *)
(* it reads is what has arrived by then, which may be late replies of earlier *)
(* exchanges, nothing at all, or a reply that is still arriving.              *)

After(t) == CASE t = "console" -> "test" [] t = "poll" -> "store" [] OTHER -> "done"

\* The last number of a reply that is still arriving is read short; with no digit of
\* it there is nothing to read, or nothing that stod can read.
Short(n) == IF n >= 0 THEN n \div 10 ELSE -((-n) \div 10)
Digits(n) == n \notin -9 .. 9

\* queryPosition takes the first position in what it reads, if it is complete up
\* to the last number.
Readable(replies) ==
  LET positions == {i \in DOMAIN replies : replies[i] # Ack} IN
  UNION {IF i < Len(replies)
         THEN {replies[i]}
         ELSE {replies[i]} \cup (IF Digits(replies[i]["C"])
                                THEN {[replies[i] EXCEPT !["C"] = Short(@)]} ELSE {}) :
           i \in {j \in positions : \A k \in positions : j <= k}}

\* The first position in what is read is the last reply: it may still be arriving.
Tearable(replies) ==
  \E i \in DOMAIN replies :
    i = Len(replies) /\ replies[i] # Ack /\ \A k \in 1 .. i - 1 : replies[k] = Ack

\* Variant: whatever was read is taken for a position.
ReadsAnything(t, replies) ==
  /\ inbox' = <<>>
  /\ \/ t = "poll" /\ p' \in {replies[i] : i \in DOMAIN replies} /\ heard' = TRUE
     \/ UNCHANGED polling

Reads(t, replies) ==
  /\ inbox' = <<>>
  /\ \/ t = "poll" /\ p' \in Readable(replies) /\ heard' = TRUE
     \/ UNCHANGED polling

Reply(cmd) == IF cmd = Query THEN pos ELSE Ack
MovesTo(cmd) ==
  goal' = [a \in Axes |-> IF cmd # Query /\ a \in DOMAIN cmd THEN cmd[a] ELSE goal[a]]

\* The write fails, or the machine gets to the command after the read, or before.
Exchange(t) ==
  /\ Goes(t, "write", After(t))
  /\ \/ UNCHANGED <<todo, inbox, goal, polling>>
     \/ /\ Len(todo) < MaxLate /\ todo' = Append(todo, command[t])
        /\ Reads(t, inbox) /\ goal' = goal
     \/ /\ todo = <<>> /\ todo' = todo
        /\ Reads(t, Append(inbox, Reply(command[t]))) /\ MovesTo(command[t])
  /\ command' = IF t = "poll" THEN command ELSE [command EXCEPT ![t] = Nothing]
  /\ UNCHANGED <<attached, console, control, pos, been>>

\* Of the last number only the sign or the point has arrived: stod throws on the
\* polling thread, where nobody catches it, and the process ends; the machine is not
\* followed any further.
PollThrows ==
  /\ Goes("poll", "write", "terminated")
  /\ \/ Len(todo) < MaxLate /\ Tearable(inbox)
     \/ todo = <<>> /\ Tearable(Append(inbox, pos))
  /\ UNCHANGED <<attached, console, control, command, polling, machine>>

MachineUnchanged == UNCHANGED <<attached, console, pc, control, command, polling>>

MachineHandles ==
  /\ Alive /\ todo # <<>> /\ todo' = Tail(todo)
  /\ inbox' = Append(inbox, Reply(Head(todo))) /\ MovesTo(Head(todo))
  /\ MachineUnchanged /\ UNCHANGED <<pos, been>>

MachineMoves(a) ==
  /\ Alive /\ pos[a] # goal[a]
  /\ pos' = [pos EXCEPT ![a] = goal[a]]
  /\ been' = [been EXCEPT ![a] = @ \cup {goal[a]}]
  /\ MachineUnchanged /\ UNCHANGED <<todo, inbox, goal>>

----------------------------------------------------------------------------
(* The polling thread.                                                       *)

PollUnchanged == UNCHANGED <<attached, console, command, polling, machine>>

\* last_* take the Position, read or not: fisrt_start is never set.
Store ==
  /\ Goes("poll", "store", "settle")
  /\ last' = p /\ jogs' = 0
  /\ PollUnchanged /\ UNCHANGED <<moveFlag, camera, aim, callback, told>>

CameraFlag == TRUE    \* camera_move_flag_, never changed
Tell(m) == told' = [told EXCEPT ![m] = @ + 1]

\* Every branch for camera moves clears move_flag_ whether the axis has arrived or
\* not; the one that waits for the target and calls back is never taken.
Settle ==
  /\ Goes("poll", "settle", "write")
  /\ LET arrived == moveFlag /\ \A a \in MoveAxes : p[a] = aim[a] IN
     IF CameraFlag \/ arrived
     THEN /\ moveFlag' = FALSE
          /\ callback' = IF CameraFlag THEN callback ELSE Nobody
          /\ IF CameraFlag \/ callback = Nobody THEN told' = told ELSE Tell(callback)
     ELSE UNCHANGED <<moveFlag, callback, told>>
  /\ PollUnchanged /\ UNCHANGED <<last, camera, aim, jogs>>

\* What a thread reads of last_* while the polling thread may be storing it.
Seen(a) == {last[a]} \cup (IF pc["poll"] = "store" THEN {p[a]} ELSE {})

----------------------------------------------------------------------------
(* The control layer's callback on the link's receive thread: pushCommand.   *)

ReceiverUnchanged ==
  UNCHANGED <<running, owner, jog, afterStop, control, command, polling, machine>>

Attach ==
  /\ Alive /\ ~attached /\ attached' = TRUE
  /\ UNCHANGED <<console, pc, control, command, polling, machine>>

\* A chunk is a command; it is lost before setCncController.
Deliver(c) ==
  /\ Alive /\ receiver = "idle" /\ chunks < MaxChunks
  /\ \/ ~attached /\ UNCHANGED <<cmds, receiver, chunks>>
     \/ /\ attached /\ pc["console"] # "toBlock"
        /\ cmds' = Append(cmds, c) /\ receiver' = "notify" /\ chunks' = chunks + 1
  /\ ReceiverUnchanged /\ UNCHANGED <<attached, pc>>

WakeConsole == pc' = [pc EXCEPT !["console"] = IF @ = "blocked" THEN "lock" ELSE @]

\* Variant: the command is queued and nobody notified.
NotifyNobody ==
  /\ Alive /\ receiver = "notify" /\ receiver' = "idle"
  /\ ReceiverUnchanged /\ UNCHANGED <<attached, cmds, chunks, pc>>

Notify ==
  /\ Alive /\ receiver = "notify" /\ receiver' = "idle" /\ WakeConsole
  /\ ReceiverUnchanged /\ UNCHANGED <<attached, cmds, chunks>>

----------------------------------------------------------------------------
(* The console's command thread: commandLoop, processCommand, updatePara.    *)

ConsoleMoves == UNCHANGED <<attached, receiver, running, owner, chunks, command, polling, machine>>

\* Variant: while (true), leaving the test to the predicate.
LoopForEver ==
  /\ Goes("console", "test", "lock")
  /\ ConsoleMoves /\ UNCHANGED <<cmds, jog, afterStop, control>>

LoopHead ==
  /\ Goes("console", "test", IF running THEN "lock" ELSE "exited")
  /\ ConsoleMoves /\ UNCHANGED <<cmds, jog, afterStop, control>>

\* The predicate, with queueMutex_ held until the thread sleeps.
TakeCommand ==
  /\ Goes("console", "lock", "process") /\ cmds # <<>>
  /\ jog' = Head(cmds) /\ cmds' = Tail(cmds)
  /\ afterStop' = IF running THEN 0 ELSE afterStop + 1
  /\ ConsoleMoves /\ UNCHANGED control
NothingToTake ==
  /\ Goes("console", "lock", IF running THEN "toBlock" ELSE "exited") /\ cmds = <<>>
  /\ ConsoleMoves /\ UNCHANGED <<cmds, jog, afterStop, control>>
Block ==
  /\ Goes("console", "toBlock", "blocked")
  /\ ConsoleMoves /\ UNCHANGED <<cmds, jog, afterStop, control>>
SpuriousWake ==
  /\ Goes("console", "blocked", "lock")
  /\ ConsoleMoves /\ UNCHANGED <<cmds, jog, afterStop, control>>

ProcessMoves ==
  UNCHANGED <<attached, console, last, aim, callback, told, polling, machine>>

\* The text does not parse, or a move is thought to be under way.
Refuse ==
  /\ Goes("console", "process", "test")
  /\ jog = Malformed \/ moveFlag
  /\ ProcessMoves /\ UNCHANGED <<moveFlag, camera, jogs, command>>

JogTarget(from) ==
  CASE jog.dir = 0 -> from - Gradient [] jog.dir = 1 -> from + Gradient
    [] OTHER -> camera[jog.axis]

\* Variant: the target is accumulated in last_*, as cameraMove did.
AccumulateJog ==
  /\ Goes("console", "process", "write")
  /\ jog # Malformed /\ ~moveFlag
  /\ moveFlag' = TRUE /\ jogs' = jogs + 1
  /\ jog.axis \in JogAxes
  /\ last' = [last EXCEPT ![jog.axis] = JogTarget(@)]
  /\ command' = [command EXCEPT !["console"] = [a \in {jog.axis} |-> last'[a]]]
  /\ UNCHANGED <<camera, attached, console, aim, callback, told, polling, machine>>

\* Variant: updatePara does not test move_flag_.
JogAlways ==
  /\ Goes("console", "process", "write")
  /\ jog # Malformed
  /\ moveFlag' = TRUE /\ jogs' = jogs + 1
  /\ UNCHANGED <<camera, command>>
  /\ ProcessMoves

\* updatePara and cameraMoveAbsolute: another axis is commanded without a target.
AcceptJog ==
  /\ Goes("console", "process", "write")
  /\ jog # Malformed /\ ~moveFlag
  /\ moveFlag' = TRUE /\ jogs' = jogs + 1
  /\ \/ /\ jog.axis \in JogAxes
        /\ \E from \in Seen(jog.axis) :
             camera' = [camera EXCEPT ![jog.axis] = JogTarget(from)]
        /\ command' = [command EXCEPT !["console"] = [a \in {jog.axis} |-> camera'[a]]]
     \/ /\ jog.axis \notin JogAxes /\ camera' = camera
        /\ command' = [command EXCEPT !["console"] = Nothing]
  /\ ProcessMoves

CommandLoop ==
  LoopHead \/ TakeCommand \/ NothingToTake \/ Block \/ Refuse \/ AcceptJog

\* stop(): running_ is cleared without queueMutex_, then notify, then join.
OwnerMoves(from, to) ==
  /\ Alive /\ owner = from /\ owner' = to
  /\ UNCHANGED <<attached, receiver, cmds, jog, chunks, afterStop, control, command, polling, machine>>
Stop == OwnerMoves("on", "notify") /\ running' = FALSE /\ pc' = pc
StopNotify == OwnerMoves("notify", "join") /\ WakeConsole /\ running' = running

----------------------------------------------------------------------------
(* Absolute moves, on the threads of the WebSocket and the HTTP services.    *)

MoveUnchanged == UNCHANGED <<attached, console, last, camera, jogs, polling, machine>>

\* moveAbsolute writes all axes, moveAxis2 one, to a position or home, where it is 0;
\* neither waits for the machine or remembers what it wrote.
MoveDirect(m) ==
  /\ m \in Direct /\ Goes(m, "call", "write")
  /\ LET named == {a \in Axes : Target[m][a] # Skip} IN
     command' = [command EXCEPT ![m] = [a \in named |-> Target[m][a]]]
  /\ MoveUnchanged /\ UNCHANGED <<moveFlag, aim, callback, told>>

\* moveAbsolute2: the axes that are not where they should be, if there are any;
\* otherwise the end is told at once, to the callback or by a post.
MoveSelective(m) ==
  /\ m \in Moves \ Direct
  /\ \E seen \in [MoveAxes -> UNION {Seen(a) : a \in MoveAxes}] :
       /\ \A a \in MoveAxes : seen[a] \in Seen(a)
       /\ LET needed == {a \in MoveAxes : Target[m][a] \notin {Skip, seen[a]}} IN
          \/ /\ needed = {} /\ Goes(m, "call", "done") /\ Tell(m)
             /\ UNCHANGED <<moveFlag, aim, callback, command>>
          \/ /\ needed # {} /\ Goes(m, "call", "write")
             /\ aim' = [a \in MoveAxes |-> IF a \in needed THEN Target[m][a] ELSE aim[a]]
             /\ command' = [command EXCEPT ![m] = [a \in needed |-> Target[m][a]]]
             /\ moveFlag' = TRUE
             /\ callback' = IF HasCallback[m] THEN m ELSE Nobody
             /\ told' = told
  /\ MoveUnchanged

----------------------------------------------------------------------------
Next ==
  \/ (\E t \in Threads : Exchange(t)) \/ PollThrows
  \/ MachineHandles \/ \E a \in Axes : MachineMoves(a)
  \/ Store \/ Settle
  \/ Attach \/ (\E c \in Chunks : Deliver(c)) \/ Notify
  \/ CommandLoop \/ SpuriousWake
  \/ Stop \/ StopNotify
  \/ \E m \in Moves : MoveDirect(m) \/ MoveSelective(m)

Spec == Init /\ [][Next]_vars

\* The command thread and the thread that pushes to it run when they can.
FairSpec == Spec /\ WF_vars(CommandLoop) /\ WF_vars(Notify)

\* So do the others; the polling thread sleeps 300 ms with the port free, so that
\* everybody gets it, and the machine answers and moves.
LiveSpec ==
  /\ FairSpec
  /\ WF_vars(Store \/ Settle) /\ WF_vars(MachineHandles)
  /\ \A t \in Threads : SF_vars(Exchange(t))
  /\ \A a \in Axes : WF_vars(MachineMoves(a))

----------------------------------------------------------------------------
(* Properties.                                                              *)

TypeOK ==
  /\ attached \in BOOLEAN /\ receiver \in {"idle", "notify"}
  /\ cmds \in Seq(Chunks) /\ running \in BOOLEAN
  /\ owner \in {"on", "notify", "join"} /\ jog \in Chunks \cup {Malformed}
  /\ pc \in [Threads -> {"test", "lock", "toBlock", "blocked", "process", "write",
                         "store", "settle", "call", "done", "exited", "terminated"}]
  /\ moveFlag \in BOOLEAN /\ callback \in Moves \cup {Nobody}
  /\ last \in [Axes -> Int] /\ camera \in [JogAxes -> Int] /\ aim \in [MoveAxes -> Int]
  /\ p \in [Axes -> Int] /\ heard \in BOOLEAN
  /\ pos \in [Axes -> Int] /\ goal \in [Axes -> Int]
  /\ told \in [Moves -> Nat] /\ jogs \in Nat
  /\ chunks \in 0 .. MaxChunks /\ afterStop \in Nat

\* Once the machine has answered a query, a jog starts from a coordinate at which
\* the machine has really been, however late or torn the replies are and whoever
\* else has read them from the port (queryPosition, cameraMoveAbsolute).
JogFromRealPosition ==
  heard /\ pc["poll"] # "store" => \A a \in JogAxes : last[a] \in been[a]

\* Two jogs at most start from one stored position, and no more than one until the
\* polling thread has cleared move_flag_ for it: the flag, shared by four threads without
\* a lock, keeps jogs apart, but it is cleared before the jog can show in a position
\* (YX20KController.cpp:285-296).
JogsPerPosition == jogs <= IF pc["poll"] = "settle" THEN 1 ELSE 2

\* stop() leaves the command thread one more command at most, which it had been
\* about to take.
OneCommandAfterStop == afterStop <= 1

\* While a command waits, the command thread is not on its way to sleep, and if it
\* sleeps the receive thread is about to notify it: pushCommand takes queueMutex_ for the
\* push, stop() takes it for nothing.
CommandNotMissed ==
  cmds # <<>> => /\ pc["console"] # "toBlock"
                 /\ pc["console"] = "blocked" => receiver = "notify"

\* The command thread does not sleep on a command that was pushed, although stop()
\* changes what it waits for without the mutex; or the process has ended.
CommandWakesConsole ==
  (cmds # <<>> /\ pc["console"] = "blocked") ~> (pc["console"] # "blocked" \/ ~Alive)

\* "Execute the WebSocket callback": a move that was sent with a callback and has
\* brought its axes to their targets is told its end, if nobody calls stop() and the
\* process lives.
CallbackComes ==
  \A m \in Moves :
    (callback = m /\ \A a \in MoveAxes : Target[m][a] \in {Skip, pos[a]})
      ~> (told[m] > 0 \/ owner # "on" \/ ~Alive)
============================================================================
