------------------------- MODULE WebSocketService -------------------------
(* The WebSocket front end (websocket_service.h): the event-loop thread      *)
(* handles opens, messages and closes; a command is split into a "first"     *)
(* part for the CNC controller and a "second" part for the turntable, whose  *)
(* executors call sub_task_callback from threads of their own; the cleanup   *)
(* thread times tasks out.  Executors are modelled from how they are called  *)
(* here: each takes a part and calls back at once, later, or never.          *)
EXTENDS Integers, FiniteSets, Functions

CONSTANTS
  Sockets,     \* the addresses at which a connection may live
  MaxTasks,    \* bound: commands that get a task id
  TestTasks    \* test_task: commands answered without being executed, 1000

ASSUME ServiceAssumption == MaxTasks \in Nat /\ TestTasks \in Nat

NoTask == -1
Parts == {"first", "second"}
TaskIds == 0 .. (MaxTasks - 1)
Idle == [ws |-> "none", task |-> NoTask, todo |-> {}]

VARIABLES
  open,        \* the addresses of the connections that are open
  busy,        \* PerSocketData.task_id at each address
  tasks,       \* active_tasks_
  nextId,      \* next_task_id_
  testLeft,    \* test_task
  loop,        \* the command handle_message is dispatching, or Idle
  handed,      \* parts an executor holds a callback for
  resets,      \* history: how often resetTask of the turntable was called with each id
  wanted,      \* history: the parts of each task
  succeeded,   \* history: parts whose callback reported success
  published,   \* history: how often each task's end was published
  completed    \* history: tasks published as completed

taskVars == <<busy, tasks, resets, published, completed>>
vars == <<open, taskVars, nextId, testLeft, loop, handed, wanted, succeeded>>

Init ==
  /\ open = {}
  /\ busy = [w \in Sockets |-> NoTask]
  /\ tasks = <<>> /\ nextId = 0
  /\ testLeft = TestTasks
  /\ loop = Idle
  /\ handed = {}
  /\ wanted = [t \in TaskIds |-> {}]
  /\ succeeded = {} /\ completed = {}
  /\ published = [t \in TaskIds |-> 0] /\ resets = published

\* One more for each task of S.
OneMore(f, S) == [t \in TaskIds |-> IF t \in S THEN f[t] + 1 ELSE f[t]]

----------------------------------------------------------------------------
(* The end of tasks, always under tasks_mutex_: publish, free the client,   *)
(* forget the task, reset the turntable.                                    *)

\* Variant: the task stays in active_tasks_.
EndTasksKeepsTask(S) ==
  /\ busy' = [w \in Sockets |-> IF \E t \in S : tasks[t].ws = w THEN NoTask ELSE busy[w]]
  /\ tasks' = tasks
  /\ resets' = OneMore(resets, S) /\ published' = OneMore(published, S)

\* Variant: the client is not freed.
EndTasksLeavesBusy(S) ==
  /\ busy' = busy
  /\ tasks' = Restrict(tasks, DOMAIN tasks \ S)
  /\ resets' = OneMore(resets, S) /\ published' = OneMore(published, S)

EndTasks(S) ==
  /\ busy' = [w \in Sockets |-> IF \E t \in S : tasks[t].ws = w THEN NoTask ELSE busy[w]]
  /\ tasks' = Restrict(tasks, DOMAIN tasks \ S)
  /\ resets' = OneMore(resets, S) /\ published' = OneMore(published, S)

\* Variant: a part that fails counts as done.
CallBackCountsFailures(t, success) ==
  LET last == tasks[t].done + 1 >= tasks[t].total IN
  \/ t \notin DOMAIN tasks /\ UNCHANGED taskVars
  \/ /\ t \in DOMAIN tasks /\ ~last
     /\ tasks' = [tasks EXCEPT ![t].done = @ + 1]
     /\ UNCHANGED <<busy, resets, published, completed>>
  \/ /\ t \in DOMAIN tasks /\ last
     /\ EndTasks({t}) /\ completed' = completed \cup {t}

\* sub_task_callback(success): a task that is gone is ignored.
CallBack(t, success) ==
  LET last == tasks[t].done + 1 >= tasks[t].total IN
  \/ t \notin DOMAIN tasks /\ UNCHANGED taskVars
  \/ /\ t \in DOMAIN tasks /\ ~success
     /\ EndTasks({t}) /\ UNCHANGED completed
  \/ /\ t \in DOMAIN tasks /\ success /\ ~last
     /\ tasks' = [tasks EXCEPT ![t].done = @ + 1]
     /\ UNCHANGED <<busy, resets, published, completed>>
  \/ /\ t \in DOMAIN tasks /\ success /\ last
     /\ EndTasks({t}) /\ completed' = completed \cup {t}

Succeeds(t, p, success) ==
  succeeded' = IF success THEN succeeded \cup {<<t, p>>} ELSE succeeded

----------------------------------------------------------------------------
(* The event-loop thread.                                                   *)

LoopFree == loop = Idle

Open(w) ==
  /\ LoopFree /\ w \notin open
  /\ open' = open \cup {w}
  /\ busy' = [busy EXCEPT ![w] = NoTask]
  /\ UNCHANGED <<tasks, resets, published, completed, nextId, testLeft, loop, handed,
                 wanted, succeeded>>

\* Variant: the turntable is not told.
CloseWithoutReset(w) ==
  /\ LoopFree /\ w \in open
  /\ open' = open \ {w}
  /\ tasks' = Restrict(tasks, DOMAIN tasks \ {busy[w]})
  /\ UNCHANGED <<busy, resets, published, completed, nextId, testLeft, loop, handed,
                 wanted, succeeded>>

\* The connection's task goes with it; its memory, whose address a task may still
\* hold, may serve the next connection.
Close(w) ==
  /\ LoopFree /\ w \in open
  /\ open' = open \ {w}
  /\ tasks' = Restrict(tasks, DOMAIN tasks \ {busy[w]})
  /\ resets' = OneMore(resets, {busy[w]})
  /\ UNCHANGED <<busy, published, completed, nextId, testLeft, loop, handed,
                 wanted, succeeded>>

Message(w) == LoopFree /\ w \in open
CommandTaken(w) == Message(w) /\ busy[w] = NoTask

\* json::parse throws, or "name" has the wrong type: the handler's catch frees
\* the client, whatever it was busy with.
Malformed(w) ==
  /\ Message(w)
  /\ busy' = [busy EXCEPT ![w] = NoTask]
  /\ UNCHANGED <<open, tasks, resets, published, completed, nextId, testLeft, loop,
                 handed, wanted, succeeded>>

\* The client is busy, or the command is disabled or empty: an answer, no more.
AnswerOnly(w) == Message(w) /\ UNCHANGED vars

\* Variant: the end of the test commands is not tested.
AnswerTestForEver(w) ==
  /\ CommandTaken(w)
  /\ testLeft' = testLeft - 1
  /\ UNCHANGED <<open, taskVars, nextId, loop, handed, wanted, succeeded>>

AnswerTest(w) ==
  /\ CommandTaken(w) /\ testLeft > 0
  /\ testLeft' = testLeft - 1
  /\ UNCHANGED <<open, taskVars, nextId, loop, handed, wanted, succeeded>>

Begin(w, parts) ==
  /\ CommandTaken(w) /\ testLeft = 0 /\ nextId < MaxTasks
  /\ nextId' = nextId + 1
  /\ busy' = [busy EXCEPT ![w] = nextId]
  /\ tasks' = [t \in DOMAIN tasks \cup {nextId} |->
                 IF t = nextId THEN [ws |-> w, total |-> Cardinality(parts), done |-> 0]
                               ELSE tasks[t]]
  /\ wanted' = [wanted EXCEPT ![nextId] = parts]
  /\ loop' = [ws |-> w, task |-> nextId, todo |-> parts]
  /\ UNCHANGED <<open, resets, published, completed, testLeft, handed, succeeded>>

\* The part dispatched next: "first" goes to the CNC controller before "second"
\* goes to the turntable.
NextPart == IF "first" \in loop.todo THEN "first" ELSE "second"
PartGone == loop' = IF loop.todo = {NextPart} THEN Idle
                                             ELSE [loop EXCEPT !.todo = {"second"}]

\* The executor keeps the callback.
HandOver ==
  /\ ~LoopFree
  /\ handed' = handed \cup {<<loop.task, NextPart>>}
  /\ PartGone
  /\ UNCHANGED <<open, taskVars, nextId, testLeft, wanted, succeeded>>

\* The executor calls back before it returns: the turntable may be busy, and
\* either may have nothing to do.
CallBackAtOnce(success) ==
  /\ ~LoopFree
  /\ success \/ NextPart = "second"
  /\ CallBack(loop.task, success)
  /\ Succeeds(loop.task, NextPart, success)
  /\ PartGone
  /\ UNCHANGED <<open, nextId, testLeft, handed, wanted>>

\* A field of the part has the wrong type, or its speed does not fit a register.
DispatchThrows ==
  /\ ~LoopFree
  /\ busy' = [busy EXCEPT ![loop.ws] = NoTask]
  /\ loop' = Idle
  /\ UNCHANGED <<open, tasks, resets, published, completed, nextId, testLeft, handed,
                 wanted, succeeded>>

----------------------------------------------------------------------------
(* The executors' threads, and the cleanup thread.                          *)

ExecutorReports(t, p, success) ==
  /\ <<t, p>> \in handed
  /\ handed' = handed \ {<<t, p>>}
  /\ CallBack(t, success)
  /\ Succeeds(t, p, success)
  /\ UNCHANGED <<open, nextId, testLeft, loop, wanted>>

\* Variant: the timeout frees the client without telling it.
CleanupSilently ==
  /\ \E t \in DOMAIN tasks :
       /\ busy' = [busy EXCEPT ![tasks[t].ws] = NoTask]
       /\ tasks' = Restrict(tasks, DOMAIN tasks \ {t})
       /\ resets' = OneMore(resets, {t})
  /\ UNCHANGED <<open, published, completed, nextId, testLeft, loop, handed, wanted, succeeded>>

\* One pass of cleanup_loop: tasks were started in the order of their ids, so
\* those that are over TASK_TIMEOUT are the ones up to some id.
Cleanup ==
  /\ \E oldest \in DOMAIN tasks : EndTasks({t \in DOMAIN tasks : t <= oldest})
  /\ UNCHANGED <<open, completed, nextId, testLeft, loop, handed, wanted, succeeded>>

Next ==
  \/ \E w \in Sockets :
       \/ Open(w) \/ Close(w)
       \/ Malformed(w) \/ AnswerOnly(w) \/ AnswerTest(w)
       \/ \E parts \in (SUBSET Parts) \ {{}} : Begin(w, parts)
  \/ HandOver \/ DispatchThrows
  \/ \E success \in BOOLEAN :
       \/ CallBackAtOnce(success)
       \/ \E t \in TaskIds, p \in Parts : ExecutorReports(t, p, success)
  \/ Cleanup

Spec == Init /\ [][Next]_vars

\* The cleanup thread runs every 5 s and every task grows old; nothing is assumed
\* of clients or executors.
FairSpec == Spec /\ WF_vars(Cleanup)

----------------------------------------------------------------------------
(* Properties.                                                              *)

TypeOK ==
  /\ open \subseteq Sockets
  /\ busy \in [Sockets -> TaskIds \cup {NoTask}]
  /\ DOMAIN tasks \subseteq TaskIds
  /\ \A t \in DOMAIN tasks : tasks[t] \in [ws : Sockets, total : 1 .. 2, done : 0 .. 1]
  /\ nextId \in 0 .. MaxTasks /\ testLeft \in 0 .. TestTasks
  /\ loop \in {Idle} \cup [ws : Sockets, task : TaskIds, todo : (SUBSET Parts) \ {{}}]
  /\ handed \subseteq TaskIds \X Parts /\ resets \in [TaskIds -> Nat]
  /\ wanted \in [TaskIds -> SUBSET Parts] /\ succeeded \subseteq TaskIds \X Parts
  /\ published \in [TaskIds -> Nat] /\ completed \subseteq TaskIds

\* Callbacks of both executors, the cleanup thread and a closing client race for
\* the end of a task; its client hears of it once at most.
OneAnswer == \A t \in TaskIds : published[t] <= 1

\* "completed" is published only when every part of the command has succeeded,
\* in whatever order the executors call back.
CompletedMeansAll == \A t \in completed : \A p \in wanted[t] : <<t, p>> \in succeeded

\* A connected client that is refused as busy really has a task: no way out of a
\* task (callback, timeout, close, exception) leaves its flag behind.
NeverStuckBusy ==
  \A w \in Sockets :
    w \in open /\ busy[w] # NoTask =>
      busy[w] \in DOMAIN tasks /\ tasks[busy[w]].ws = w

\* resetTask is called with the id of a task when the task ends for its client, in each
\* of the ways it can (callback, timeout, close), and at no other time: not while the task
\* is active, when it would cut its movement off, and not twice.  What the call does is
\* the turntable's matter: it ignores id 0 and an id that is not current.
ResetAtEnd ==
  \A t \in TaskIds : resets[t] = IF t < nextId /\ t \notin DOMAIN tasks THEN 1 ELSE 0

\* Every command that was accepted is answered, even if no executor ever calls
\* back and whatever the client sent since, unless the client has gone.
EveryTaskAnswered ==
  \A t \in TaskIds :
    (t \in DOMAIN tasks) ~>
      (published[t] = 1 \/ \E w \in Sockets : busy[w] = t /\ w \notin open)

\* The service is a TaskLedger: callbacks in any order and from any thread, exceptions,
\* closed connections and the cleanup thread bring each task to one final end, which is
\* "completed" exactly when its last part succeeds while it is active.
Standing(t) ==
  IF t >= nextId THEN "new"
  ELSE IF t \in DOMAIN tasks THEN "running"
  ELSE IF t \in completed THEN "completed"
  ELSE IF published[t] > 0 THEN "failed"
  ELSE "dropped"

\* The parts of t that have succeeded.
Done(t) == {p \in Parts : <<t, p>> \in succeeded}

Ledger == INSTANCE TaskLedger WITH
            Ids <- TaskIds,
            state <- [t \in TaskIds |-> Standing(t)],
            missing <- [t \in TaskIds |-> wanted[t] \ Done(t)]

ImplementsLedger == Ledger!Spec

\* "Server is busy with a previous task": a client has one task at a time.
OneTaskPerClient ==
  \A t, u \in DOMAIN tasks : tasks[t].ws = tasks[u].ws => t = u

----------------------------------------------------------------------------
(* What the safety properties rest on: an inductive invariant, proved in     *)
(* WebSocketService_proofs.                                                 *)

\* A task is in active_tasks_ from its number on until its end is published.
PublishInv ==
  /\ \A t \in DOMAIN tasks : t < nextId /\ published[t] = 0
  /\ \A t \in TaskIds : published[t] > 0 => t < nextId

\* Each part of a task is still to be dispatched, or with its executor, or over;
\* completed_sub_tasks counts those that succeeded.
PartsInv ==
  /\ \A p \in loop.todo : /\ loop.task \in 0 .. nextId - 1 /\ p \in wanted[loop.task]
                          /\ <<loop.task, p>> \notin handed \cup succeeded
  /\ \A t \in TaskIds, p \in Parts :
       /\ <<t, p>> \in handed \cup succeeded => t < nextId /\ p \in wanted[t]
       /\ <<t, p>> \notin handed \cap succeeded
  /\ \A t \in DOMAIN tasks : /\ tasks[t].total = Cardinality(wanted[t])
                             /\ tasks[t].done = Cardinality(Done(t))
  /\ \A t \in completed : t < nextId

\* A completed task is not active: no timeout can fail it afterwards.
FinalInv == \A t \in completed : t \notin DOMAIN tasks

IInv ==
  TypeOK /\ PublishInv /\ OneAnswer /\ NeverStuckBusy /\ ResetAtEnd
  /\ PartsInv /\ CompletedMeansAll /\ FinalInv
============================================================================
