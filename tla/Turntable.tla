----------------------------- MODULE Turntable -----------------------------
(* The WebSocket front end and the turntable executor together, at the grain *)
(* of their three mutexes: tasks_mutex_ (websocket_service.h), queue_mutex_  *)
(* and mutex_data_ (modbus_business.cpp).  A callback runs with the caller's  *)
(* locks: pushCompositeTask refuses a request with queue_mutex_ held, and the *)
(* end of a task resets the turntable with tasks_mutex_ held.  What a task    *)
(* is made of and what a movement does are in WebSocketService and            *)
(* ModbusBusiness.                                                            *)
EXTENDS Integers, Sequences

CONSTANTS
  Pool,        \* the threads of the HTTP front end
  Tasks,       \* the task ids the event loop gives out
  HttpId,      \* 7777: the id of every request of the HTTP front end
  MaxQueue     \* bound: the queue an HTTP request is added to

Threads == Pool \cup {"loop", "cleanup", "mover"}
Locks == {"queue", "tasks", "data"}
NoTask == -1
Nobody == "nobody"

ASSUME TurntableAssumption ==
  /\ Nobody \notin Threads /\ Pool \cap {"loop", "cleanup", "mover"} = {}
  /\ Tasks \subseteq Nat /\ HttpId \in Nat \ Tasks /\ MaxQueue \in Nat

VARIABLES
  owner,     \* [Locks -> thread that holds it, or Nobody]
  pc,        \* where each thread is
  arg,       \* the task it works on
  ends,      \* whether its callback ends the task: failure, or the last part
  fresh,     \* ids not given out yet
  active,    \* active_tasks_
  queue,     \* data_queue_ex_, ids only
  current,   \* current_task_id_
  stale      \* history: whether the request served was taken after its task's end

vars == <<owner, pc, arg, ends, fresh, active, queue, current, stale>>

Init ==
  /\ owner = [l \in Locks |-> Nobody]
  /\ pc = [h \in Threads |-> IF h = "mover" THEN "take" ELSE "idle"]
  /\ arg = [h \in Threads |-> NoTask] /\ ends = [h \in Threads |-> FALSE]
  /\ fresh = Tasks /\ active = {} /\ queue = <<>>
  /\ current = NoTask /\ stale = FALSE

Goes(h, from, to) == pc[h] = from /\ pc' = [pc EXCEPT ![h] = to]
Free(l) == owner[l] = Nobody
Takes(h, l) == Free(l) /\ owner' = [owner EXCEPT ![l] = h]

\* Variant: resetTask guards the queue it swaps with the queue's mutex.
ResetLockQueue == "queue"

\* The mutex of resetTask.
ResetLock == "data"

\* What a thread waits for where it is.
Wants(h) ==
  CASE pc[h] \in {"push", "take"} -> "queue"
    [] pc[h] \in {"begin", "callback", "close"} -> "tasks"
    [] pc[h] \in {"reset", "lastReset"} -> ResetLock
    [] OTHER -> "nothing"

----------------------------------------------------------------------------
(* The services' threads.                                                    *)

\* handle_message gives the command an id, and puts the task into active_tasks_
\* before it pushes the "second" part.
Command ==
  /\ Goes("loop", "idle", "begin")
  /\ \E t \in fresh : /\ \A u \in fresh : t <= u
                       /\ fresh' = fresh \ {t} /\ arg' = [arg EXCEPT !["loop"] = t]
  /\ UNCHANGED <<owner, ends, active, queue, current, stale>>

\* Variant: the task is registered under the id the turntable works on.
BeginCurrent ==
  /\ Goes("loop", "begin", "push") \/ Goes("loop", "begin", "idle")
  /\ Free("tasks")
  /\ active' = active \cup {current}
  /\ UNCHANGED <<owner, arg, ends, fresh, queue, current, stale>>

\* Not every command has a "second" part, and the dispatch may throw before it.
Begin ==
  /\ Goes("loop", "begin", "push") \/ Goes("loop", "begin", "idle")
  /\ Free("tasks")
  /\ active' = active \cup {arg["loop"]}
  /\ UNCHANGED <<owner, arg, ends, fresh, queue, current, stale>>

Request(h) ==
  /\ h \in Pool /\ Goes(h, "idle", "push") /\ arg' = [arg EXCEPT ![h] = HttpId]
  /\ UNCHANGED <<owner, ends, fresh, active, queue, current, stale>>

\* pushCompositeTask, refused or with nothing to do: the callback runs under
\* queue_mutex_.  A refusal ends the task, a success if no other part is missing.
AnswerAtOnce(h) ==
  /\ IF h \in Pool THEN Goes(h, "push", "idle") /\ Free("queue") /\ UNCHANGED <<owner, ends>>
     ELSE /\ Goes(h, "push", "callback") /\ Takes(h, "queue")
          /\ \E last \in BOOLEAN : /\ current # NoTask => last
                                  /\ ends' = [ends EXCEPT ![h] = last]
  /\ UNCHANGED <<arg, fresh, active, queue, current, stale>>

Push(h) ==
  /\ current = NoTask
  /\ Goes(h, "push", "idle") /\ Free("queue")
  /\ h \in Pool => Len(queue) < MaxQueue
  /\ queue' = Append(queue, arg[h])
  /\ UNCHANGED <<owner, arg, ends, fresh, active, current, stale>>

\* The connection of a task closes, or cleanup_loop finds the task too old.
EndTask(h) ==
  /\ h \in {"loop", "cleanup"} /\ Goes(h, "idle", "close")
  /\ \E t \in active : arg' = [arg EXCEPT ![h] = t]
  /\ UNCHANGED <<owner, ends, fresh, active, queue, current, stale>>

\* Variant: the task is erased and the turntable not told.
CloseOnly(h) ==
  /\ Goes(h, "close", "unlock") /\ Takes(h, "tasks")
  /\ active' = active \ {arg[h]}
  /\ UNCHANGED <<arg, ends, fresh, queue, current, stale>>

Close(h) ==
  /\ Goes(h, "close", IF arg[h] \in active THEN "reset" ELSE "unlock") /\ Takes(h, "tasks")
  /\ active' = active \ {arg[h]}
  /\ UNCHANGED <<arg, ends, fresh, queue, current, stale>>

\* sub_task_callback.
Callback(h) ==
  /\ Takes(h, "tasks")
  /\ IF arg[h] \in active /\ ends[h]
     THEN Goes(h, "callback", "reset") /\ active' = active \ {arg[h]}
     ELSE Goes(h, "callback", "unlock") /\ active' = active
  /\ UNCHANGED <<arg, ends, fresh, queue, current, stale>>

\* resetTask: its mutex, and then its test; the id of the first task is 0.
Reset(h) ==
  /\ Goes(h, "reset", "clear") \/ Goes(h, "lastReset", "lastClear")
  /\ Takes(h, ResetLock)
  /\ UNCHANGED <<arg, ends, fresh, active, queue, current, stale>>

\* Variant: the reset tries until the task is the one that is served.
ClearRetries(h) ==
  /\ IF current = arg[h]
     THEN /\ Goes(h, "clear", "unlock") \/ Goes(h, "lastClear", "forget")
          /\ current' = NoTask /\ queue' = <<>>
     ELSE /\ Goes(h, "clear", "reset") \/ Goes(h, "lastClear", "lastReset")
          /\ UNCHANGED <<current, queue>>
  /\ owner' = [owner EXCEPT ![ResetLock] = Nobody]
  /\ UNCHANGED <<arg, ends, fresh, active, stale>>

Clear(h) ==
  /\ Goes(h, "clear", "unlock") \/ Goes(h, "lastClear", "forget")
  /\ IF current > 0 /\ current = arg[h]
     THEN current' = NoTask /\ queue' = <<>>
     ELSE UNCHANGED <<current, queue>>
  /\ owner' = [owner EXCEPT ![ResetLock] = Nobody]
  /\ UNCHANGED <<arg, ends, fresh, active, stale>>

\* The lock guards that are left.
Unlock(h) ==
  /\ Goes(h, "unlock", IF h = "mover" THEN "finish" ELSE "idle")
  /\ owner' = [l \in Locks |-> IF owner[l] = h THEN Nobody ELSE owner[l]]
  /\ UNCHANGED <<arg, ends, fresh, active, queue, current, stale>>

----------------------------------------------------------------------------
(* The movement thread.                                                      *)

Take ==
  /\ Goes("mover", "take", "run") /\ Free("queue") /\ queue # <<>>
  /\ current' = Head(queue) /\ queue' = Tail(queue)
  /\ arg' = [arg EXCEPT !["mover"] = Head(queue)]
  /\ stale' = (Head(queue) \notin active)
  /\ UNCHANGED <<owner, ends, fresh, active>>

\* The movement is over: it reports unless it was cancelled or has no callback.
Finish(last) ==
  /\ ends' = [ends EXCEPT !["mover"] = last]
  /\ Goes("mover", "run",
          IF current # NoTask /\ arg["mover"] # HttpId THEN "callback" ELSE "finish")
  /\ UNCHANGED <<owner, arg, fresh, active, queue, current, stale>>

\* resetTask(current_task_id_), whatever that is by now.
LastReset ==
  /\ Goes("mover", "finish", "lastReset")
  /\ arg' = [arg EXCEPT !["mover"] = current]
  /\ UNCHANGED <<owner, ends, fresh, active, queue, current, stale>>

Forget ==
  /\ Goes("mover", "forget", "take") /\ current' = NoTask
  /\ UNCHANGED <<owner, arg, ends, fresh, active, queue, stale>>

Next ==
  \/ Command \/ Begin
  \/ \E h \in Threads : \/ Request(h) \/ AnswerAtOnce(h) \/ Push(h) \/ EndTask(h) \/ Close(h)
                        \/ Callback(h) \/ Reset(h) \/ Clear(h) \/ Unlock(h)
  \/ Take \/ LastReset \/ Forget \/ \E last \in BOOLEAN : Finish(last)

Spec == Init /\ [][Next]_vars

\* A thread inside a call runs on, and gets a mutex that is free again and again:
\* the movement thread takes mutex_data_ once per movement, for microseconds.
FairSpec ==
  /\ Spec /\ WF_vars(Begin)
  /\ \A h \in Threads : /\ WF_vars(AnswerAtOnce(h) \/ Push(h)) /\ WF_vars(Close(h) \/ Callback(h))
                         /\ SF_vars(Reset(h)) /\ WF_vars(Clear(h)) /\ WF_vars(Unlock(h))

----------------------------------------------------------------------------
PCs == {"idle", "begin", "push", "callback", "close", "reset", "clear", "unlock",
        "take", "run", "finish", "lastReset", "lastClear", "forget"}
Ids == Tasks \cup {HttpId, NoTask}

TypeOK ==
  /\ owner \in [Locks -> Threads \cup {Nobody}] /\ pc \in [Threads -> PCs]
  /\ arg \in [Threads -> Ids] /\ ends \in [Threads -> BOOLEAN]
  /\ fresh \subseteq Tasks /\ active \subseteq Tasks
  /\ queue \in Seq(Tasks \cup {HttpId}) /\ current \in Ids /\ stale \in BOOLEAN

(* However callbacks nest (a refusal at push ends the task and resets the    *)
(* turntable with all three mutexes held), no threads ever wait for mutexes  *)
(* that they hold among themselves.                                          *)
NoCircularWait ==
  \A S \in SUBSET Threads :
    S # {} => \E h \in S : Wants(h) \notin Locks \/ owner[Wants(h)] \notin S

(* The event-loop thread, which serves every client, comes back from each     *)
(* command and each close: what it waits for is always released.             *)
LoopReturns == pc["loop"] # "idle" ~> pc["loop"] = "idle"

(* A task that has ended for its client does not keep the turntable: it is   *)
(* being reset, or it was still queued when it ended (resetTask knows only   *)
(* the request that is served), or it is the first task, whose id 0          *)
(* resetTask ignores (modbus_business.cpp:79).                               *)
EndedLeaves ==
  current \in Tasks \ active =>
    \/ stale \/ current = 0
    \/ \E h \in Threads : arg[h] = current /\ pc[h] \in {"reset", "clear"}
============================================================================
