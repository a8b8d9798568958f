-------------------------- MODULE Turntable_proofs --------------------------
(* Theorems about Turntable, for any pool of HTTP threads and any tasks.      *)
EXTENDS Turntable, SequenceTheorems, TLAPS

Requests == Tasks \cup {HttpId}

LEMMA Names ==
  /\ Nobody \notin Threads
  /\ {"loop", "cleanup", "mover"} \subseteq Threads /\ Pool \subseteq Threads
  /\ "loop" \notin Pool /\ "mover" \notin Pool
  /\ Requests \subseteq Ids /\ NoTask \in Ids /\ HttpId \in Ids
BY TurntableAssumption DEF TurntableAssumption, Threads, Ids, Requests

\* What the loop is about to register is a task, and what is pushed is a request.
Args ==
  /\ pc["loop"] = "begin" => arg["loop"] \in Tasks
  /\ \A h \in Threads : pc[h] = "push" => arg[h] \in Requests

LEMMA InitType == Init => TypeOK /\ Args
BY Names, EmptySeq DEF Init, TypeOK, Args, PCs, Ids

LEMMA StepType == TypeOK /\ Args /\ [Next]_vars => TypeOK'
<1> SUFFICES ASSUME TypeOK, Args, [Next]_vars PROVE TypeOK'
  OBVIOUS
<1> USE DEF Goes, Takes, Free, Requests
<1>1. CASE Command
  BY <1>1, Names DEF Command, TypeOK, PCs, Ids
<1>2. CASE Begin
  <2>1. arg["loop"] \in Tasks
    BY <1>2, Names DEF Begin, Args
  <2> QED
    BY <1>2, <2>1, Names DEF Begin, TypeOK, PCs
<1>3. ASSUME NEW h \in Threads, Request(h) PROVE TypeOK'
  BY <1>3, Names DEF Request, TypeOK, PCs
<1>4. ASSUME NEW h \in Threads, AnswerAtOnce(h) PROVE TypeOK'
  BY <1>4 DEF AnswerAtOnce, TypeOK, PCs, Locks
<1>5. ASSUME NEW h \in Threads, Push(h) PROVE TypeOK'
  <2>1. arg[h] \in Requests
    BY <1>5 DEF Push, Args
  <2> QED
    BY <1>5, <2>1 DEF Push, TypeOK, PCs
<1>6. ASSUME NEW h \in Threads, EndTask(h) PROVE TypeOK'
  BY <1>6, Names DEF EndTask, TypeOK, PCs
<1>7. ASSUME NEW h \in Threads, Close(h) PROVE TypeOK'
  BY <1>7 DEF Close, TypeOK, PCs, Locks
<1>8. ASSUME NEW h \in Threads, Callback(h) PROVE TypeOK'
  BY <1>8 DEF Callback, TypeOK, PCs, Locks
<1>9. ASSUME NEW h \in Threads, Reset(h) PROVE TypeOK'
  BY <1>9 DEF Reset, ResetLock, TypeOK, PCs, Locks
<1>10. ASSUME NEW h \in Threads, Clear(h) PROVE TypeOK'
  BY <1>10, Names, EmptySeq DEF Clear, ResetLock, TypeOK, PCs, Locks
<1>11. ASSUME NEW h \in Threads, Unlock(h) PROVE TypeOK'
  BY <1>11 DEF Unlock, TypeOK, PCs
<1>12. CASE Take
  BY <1>12, Names, HeadTailProperties DEF Take, TypeOK, PCs
<1>13. ASSUME NEW last \in BOOLEAN, Finish(last) PROVE TypeOK'
  BY <1>13, Names DEF Finish, TypeOK, PCs
<1>14. CASE LastReset
  BY <1>14, Names DEF LastReset, TypeOK, PCs
<1>15. CASE Forget
  BY <1>15, Names DEF Forget, TypeOK, PCs
<1>16. CASE UNCHANGED vars
  BY <1>16 DEF vars, TypeOK
<1> QED
  BY <1>1, <1>2, <1>3, <1>4, <1>5, <1>6, <1>7, <1>8, <1>9, <1>10, <1>11, <1>12, <1>13,
     <1>14, <1>15, <1>16 DEF Next

LEMMA StepArgs == TypeOK /\ Args /\ [Next]_vars => Args'
<1> SUFFICES ASSUME TypeOK, Args, [Next]_vars PROVE Args'
  OBVIOUS
<1> USE DEF Goes, Requests
<1>1. CASE Command
  BY <1>1, Names DEF Command, TypeOK, Args
<1>2. CASE Begin
  BY <1>2, Names DEF Begin, TypeOK, Args
<1>3. ASSUME NEW h \in Threads, Request(h) PROVE Args'
  BY <1>3, Names DEF Request, TypeOK, Args
<1>4. ASSUME NEW h \in Threads, AnswerAtOnce(h) PROVE Args'
  BY <1>4, Names DEF AnswerAtOnce, TypeOK, Args
<1>5. ASSUME NEW h \in Threads, Push(h) PROVE Args'
  BY <1>5, Names DEF Push, TypeOK, Args
<1>6. ASSUME NEW h \in Threads, EndTask(h) PROVE Args'
  BY <1>6, Names DEF EndTask, TypeOK, Args
<1>7. ASSUME NEW h \in Threads, Close(h) PROVE Args'
  BY <1>7, Names DEF Close, TypeOK, Args
<1>8. ASSUME NEW h \in Threads, Callback(h) PROVE Args'
  BY <1>8, Names DEF Callback, TypeOK, Args
<1>9. ASSUME NEW h \in Threads, Reset(h) PROVE Args'
  BY <1>9, Names DEF Reset, ResetLock, TypeOK, Args
<1>10. ASSUME NEW h \in Threads, Clear(h) PROVE Args'
  BY <1>10, Names DEF Clear, ResetLock, TypeOK, Args
<1>11. ASSUME NEW h \in Threads, Unlock(h) PROVE Args'
  BY <1>11, Names DEF Unlock, TypeOK, Args
<1>12. CASE Take
  BY <1>12, Names DEF Take, TypeOK, Args
<1>13. ASSUME NEW last \in BOOLEAN, Finish(last) PROVE Args'
  BY <1>13, Names DEF Finish, TypeOK, Args
<1>14. CASE LastReset
  BY <1>14, Names DEF LastReset, TypeOK, Args
<1>15. CASE Forget
  BY <1>15, Names DEF Forget, TypeOK, Args
<1>16. CASE UNCHANGED vars
  BY <1>16 DEF vars, Args
<1> QED
  BY <1>1, <1>2, <1>3, <1>4, <1>5, <1>6, <1>7, <1>8, <1>9, <1>10, <1>11, <1>12, <1>13,
     <1>14, <1>15, <1>16 DEF Next

----------------------------------------------------------------------------
(* The order of the mutexes: queue_mutex_, tasks_mutex_, mutex_data_.  Where   *)
(* a thread holds one of them, it can only wait for a later one.               *)

LockOrder ==
  \A h \in Threads :
    /\ owner["queue"] = h => pc[h] \in {"callback", "reset", "clear", "unlock"}
    /\ owner["tasks"] = h => pc[h] \in {"reset", "clear", "unlock"}
    /\ owner["data"] = h => pc[h] \in {"clear", "lastClear"}

LEMMA InitLockOrder == Init => LockOrder
BY Names DEF Init, LockOrder, Locks

LEMMA StepLockOrder == TypeOK /\ LockOrder /\ [Next]_vars => LockOrder'
<1> SUFFICES ASSUME TypeOK, LockOrder, [Next]_vars PROVE LockOrder'
  OBVIOUS
<1> USE DEF Goes, Takes, Free
<1>1. CASE Command
  BY <1>1, Names DEF Command, TypeOK, LockOrder
<1>2. CASE Begin
  BY <1>2, Names DEF Begin, TypeOK, LockOrder
<1>3. ASSUME NEW h \in Threads, Request(h) PROVE LockOrder'
  BY <1>3 DEF Request, TypeOK, LockOrder
<1>4. ASSUME NEW h \in Threads, AnswerAtOnce(h) PROVE LockOrder'
  BY <1>4 DEF AnswerAtOnce, TypeOK, LockOrder, Locks
<1>5. ASSUME NEW h \in Threads, Push(h) PROVE LockOrder'
  BY <1>5 DEF Push, TypeOK, LockOrder
<1>6. ASSUME NEW h \in Threads, EndTask(h) PROVE LockOrder'
  BY <1>6 DEF EndTask, TypeOK, LockOrder
<1>7. ASSUME NEW h \in Threads, Close(h) PROVE LockOrder'
  BY <1>7 DEF Close, TypeOK, LockOrder, Locks
<1>8. ASSUME NEW h \in Threads, Callback(h) PROVE LockOrder'
  BY <1>8 DEF Callback, TypeOK, LockOrder, Locks
<1>9. ASSUME NEW h \in Threads, Reset(h) PROVE LockOrder'
  BY <1>9 DEF Reset, ResetLock, TypeOK, LockOrder, Locks
<1>10. ASSUME NEW h \in Threads, Clear(h) PROVE LockOrder'
  BY <1>10, Names DEF Clear, ResetLock, TypeOK, LockOrder, Locks
<1>11. ASSUME NEW h \in Threads, Unlock(h) PROVE LockOrder'
  BY <1>11, Names DEF Unlock, TypeOK, LockOrder, Locks
<1>12. CASE Take
  BY <1>12, Names DEF Take, TypeOK, LockOrder
<1>13. ASSUME NEW last \in BOOLEAN, Finish(last) PROVE LockOrder'
  BY <1>13, Names DEF Finish, TypeOK, LockOrder
<1>14. CASE LastReset
  BY <1>14, Names DEF LastReset, TypeOK, LockOrder
<1>15. CASE Forget
  BY <1>15, Names DEF Forget, TypeOK, LockOrder
<1>16. CASE UNCHANGED vars
  BY <1>16 DEF vars, LockOrder
<1> QED
  BY <1>1, <1>2, <1>3, <1>4, <1>5, <1>6, <1>7, <1>8, <1>9, <1>10, <1>11, <1>12, <1>13,
     <1>14, <1>15, <1>16 DEF Next

\* Among threads that wait for each other, none can wait for mutex_data_, whose
\* holder waits for nothing; so none for tasks_mutex_, and none for queue_mutex_.
LEMMA OrderNoCircle == LockOrder => NoCircularWait
<1> SUFFICES ASSUME LockOrder, NEW S \in SUBSET Threads, S # {},
                    \A h \in S : Wants(h) \in Locks /\ owner[Wants(h)] \in S
             PROVE  FALSE
  BY DEF NoCircularWait
<1>1. \A h \in S : Wants(h) # "data"
  BY DEF LockOrder, Wants, ResetLock, Locks
<1>2. \A h \in S : Wants(h) # "tasks"
  BY <1>1 DEF LockOrder, Wants, ResetLock, Locks
<1>3. \A h \in S : Wants(h) # "queue"
  BY <1>1, <1>2 DEF LockOrder, Wants, ResetLock, Locks
<1> QED
  BY <1>1, <1>2, <1>3 DEF Locks

----------------------------------------------------------------------------
(* The request that is served.                                                *)

LEMMA InitEnded == Init => EndedLeaves
BY TurntableAssumption DEF TurntableAssumption, Init, EndedLeaves, NoTask

LEMMA StepEnded == TypeOK /\ EndedLeaves /\ [Next]_vars => EndedLeaves'
<1> SUFFICES ASSUME TypeOK, EndedLeaves, [Next]_vars PROVE EndedLeaves'
  OBVIOUS
<1>a. NoTask \notin Tasks /\ \A t \in Tasks : t > 0 \/ t = 0
  BY TurntableAssumption DEF TurntableAssumption, NoTask
<1> USE <1>a DEF Goes
<1>1. CASE Command
  BY <1>1, Names DEF Command, TypeOK, EndedLeaves
<1>2. CASE Begin
  BY <1>2, Names DEF Begin, TypeOK, EndedLeaves
<1>3. ASSUME NEW h \in Threads, Request(h) PROVE EndedLeaves'
  BY <1>3, Names DEF Request, TypeOK, EndedLeaves
<1>4. ASSUME NEW h \in Threads, AnswerAtOnce(h) PROVE EndedLeaves'
  BY <1>4, Names DEF AnswerAtOnce, TypeOK, EndedLeaves
<1>5. ASSUME NEW h \in Threads, Push(h) PROVE EndedLeaves'
  BY <1>5, Names DEF Push, TypeOK, EndedLeaves
<1>6. ASSUME NEW h \in Threads, EndTask(h) PROVE EndedLeaves'
  BY <1>6, Names DEF EndTask, TypeOK, EndedLeaves
<1>7. ASSUME NEW h \in Threads, Close(h) PROVE EndedLeaves'
  BY <1>7, Names DEF Close, TypeOK, EndedLeaves
<1>8. ASSUME NEW h \in Threads, Callback(h) PROVE EndedLeaves'
  BY <1>8, Names DEF Callback, TypeOK, EndedLeaves
<1>9. ASSUME NEW h \in Threads, Reset(h) PROVE EndedLeaves'
  BY <1>9, Names DEF Reset, ResetLock, TypeOK, EndedLeaves
<1>10. ASSUME NEW h \in Threads, Clear(h) PROVE EndedLeaves'
  BY <1>10, Names DEF Clear, ResetLock, TypeOK, EndedLeaves
<1>11. ASSUME NEW h \in Threads, Unlock(h) PROVE EndedLeaves'
  BY <1>11, Names DEF Unlock, TypeOK, EndedLeaves
<1>12. CASE Take
  BY <1>12, Names DEF Take, TypeOK, EndedLeaves
<1>13. ASSUME NEW last \in BOOLEAN, Finish(last) PROVE EndedLeaves'
  BY <1>13, Names DEF Finish, TypeOK, EndedLeaves
<1>14. CASE LastReset
  BY <1>14, Names DEF LastReset, TypeOK, EndedLeaves
<1>15. CASE Forget
  BY <1>15, Names DEF Forget, TypeOK, EndedLeaves
<1>16. CASE UNCHANGED vars
  BY <1>16 DEF vars, EndedLeaves
<1> QED
  BY <1>1, <1>2, <1>3, <1>4, <1>5, <1>6, <1>7, <1>8, <1>9, <1>10, <1>11, <1>12, <1>13,
     <1>14, <1>15, <1>16 DEF Next

----------------------------------------------------------------------------
(* Every variable keeps its type.                                             *)
THEOREM Typing == Spec => []TypeOK
<1>1. TypeOK /\ Args /\ [Next]_vars => (TypeOK /\ Args)'
  BY StepType, StepArgs
<1> QED
  BY InitType, <1>1, PTL DEF Spec

(* No threads of the front ends, the cleanup and the movement thread ever     *)
(* wait for each other in a circle, although callbacks take tasks_mutex_ and  *)
(* mutex_data_ under queue_mutex_ (modbus_business.cpp:187).                  *)
THEOREM NoDeadlock == Spec => []NoCircularWait
<1>1. TypeOK /\ LockOrder /\ [Next]_vars => LockOrder'
  BY StepLockOrder
<1>2. LockOrder => NoCircularWait
  BY OrderNoCircle
<1> QED
  BY InitLockOrder, Typing, <1>1, <1>2, PTL DEF Spec

(* A task that has ended for its client, by failure, timeout or close, is     *)
(* taken off the turntable, but for the cases EndedLeaves names.              *)
THEOREM EndedTasksLeave == Spec => []EndedLeaves
<1>1. TypeOK /\ EndedLeaves /\ [Next]_vars => EndedLeaves'
  BY StepEnded
<1> QED
  BY InitEnded, Typing, <1>1, PTL DEF Spec
============================================================================
