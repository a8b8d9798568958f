---------------------- MODULE WebSocketService_proofs ----------------------
(* Theorems about WebSocketService, for every set of connections, any number *)
(* of commands and of test commands.                                        *)
EXTENDS WebSocketService, FiniteSetTheorems, TLAPS

USE ServiceAssumption DEF ServiceAssumption, vars, taskVars, NoTask

----------------------------------------------------------------------------
(* The two parts of a command, counted.                                     *)

LEMMA PartSets ==
  ASSUME NEW P \in SUBSET Parts
  PROVE  /\ IsFiniteSet(P) /\ Cardinality(P) \in 0 .. 2
         /\ P # {} => Cardinality(P) \in 1 .. 2
<1>1. IsFiniteSet({"first"}) /\ Cardinality({"first"}) = 1
  BY FS_Singleton
<1>2. Parts = {"first"} \cup {"second"}
  BY DEF Parts
<1>3. IsFiniteSet(Parts) /\ Cardinality(Parts) = 2
  BY <1>1, <1>2, FS_AddElement
<1>4. IsFiniteSet(P) /\ Cardinality(P) <= 2
  BY <1>3, FS_Subset
<1>5. Cardinality(P) \in Nat
  BY <1>4, FS_CardinalityType
<1>6. P # {} => Cardinality(P) # 0
  BY <1>4, FS_EmptySet
<1> QED
  BY <1>4, <1>5, <1>6

\* One part more: the count grows by one, and is complete when it reaches the total.
LEMMA OnePartMore ==
  ASSUME NEW Q \in SUBSET Parts, NEW P \in SUBSET Q, NEW p \in Q, p \notin P
  PROVE  /\ Cardinality(P \cup {p}) = Cardinality(P) + 1
         /\ Cardinality(P \cup {p}) <= Cardinality(Q)
         /\ Cardinality(P) + 1 >= Cardinality(Q) => P \cup {p} = Q
<1>1. IsFiniteSet(Q) /\ IsFiniteSet(P)
  BY PartSets
<1>2. Cardinality(P \cup {p}) = Cardinality(P) + 1
  BY <1>1, FS_AddElement
<1>3. P \cup {p} \in SUBSET Q
  OBVIOUS
<1>4. /\ Cardinality(P \cup {p}) <= Cardinality(Q)
      /\ Cardinality(Q) = Cardinality(P \cup {p}) => Q = P \cup {p}
  BY <1>1, <1>3, FS_Subset
<1>5. Cardinality(P) \in Nat /\ Cardinality(Q) \in Nat
  BY <1>1, FS_CardinalityType
<1> QED
  BY <1>2, <1>4, <1>5

----------------------------------------------------------------------------
(* Type correctness.                                                        *)

LEMMA InitType == Init => TypeOK
<1> SUFFICES ASSUME Init PROVE TypeOK
  OBVIOUS
<1>1. DOMAIN tasks = {}
  BY DEF Init
<1> QED
  BY <1>1 DEF Init, TypeOK, TaskIds

LEMMA EndTasksType ==
  ASSUME TypeOK, NEW S \in SUBSET DOMAIN tasks, EndTasks(S)
  PROVE  /\ busy' \in [Sockets -> TaskIds \cup {NoTask}]
         /\ DOMAIN tasks' \subseteq TaskIds
         /\ \A t \in DOMAIN tasks' : tasks'[t] \in [ws : Sockets, total : 1 .. 2, done : 0 .. 1]
         /\ resets' \in [TaskIds -> Nat]
         /\ published' \in [TaskIds -> Nat]
  BY DEF TypeOK, EndTasks, Restrict, OneMore

LEMMA CallBackType ==
  ASSUME TypeOK, NEW t \in TaskIds, NEW success \in BOOLEAN, CallBack(t, success)
  PROVE  /\ busy' \in [Sockets -> TaskIds \cup {NoTask}]
         /\ DOMAIN tasks' \subseteq TaskIds
         /\ \A u \in DOMAIN tasks' : tasks'[u] \in [ws : Sockets, total : 1 .. 2, done : 0 .. 1]
         /\ resets' \in [TaskIds -> Nat]
         /\ published' \in [TaskIds -> Nat]
         /\ completed' \subseteq TaskIds
<1>1. CASE t \notin DOMAIN tasks
  BY <1>1 DEF CallBack, TypeOK
<1>2. CASE t \in DOMAIN tasks /\ EndTasks({t})
  <2>1. {t} \in SUBSET DOMAIN tasks
    BY <1>2
  <2>2. completed' \subseteq TaskIds
    BY <1>2 DEF CallBack, TypeOK
  <2> QED
    BY <1>2, <2>1, <2>2, EndTasksType
<1>3. CASE /\ t \in DOMAIN tasks /\ ~(tasks[t].done + 1 >= tasks[t].total)
           /\ tasks' = [tasks EXCEPT ![t].done = @ + 1]
           /\ UNCHANGED <<busy, resets, published, completed>>
  <2>1. tasks[t].done + 1 \in 0 .. 1
    BY <1>3 DEF TypeOK
  <2> QED
    BY <1>3, <2>1 DEF TypeOK
<1> QED
  BY <1>1, <1>2, <1>3 DEF CallBack

LEMMA PartGoneType ==
  ASSUME TypeOK, ~LoopFree, PartGone
  PROVE  /\ loop' \in {Idle} \cup [ws : Sockets, task : TaskIds, todo : (SUBSET Parts) \ {{}}]
         /\ NextPart \in loop.todo /\ NextPart \in Parts
         /\ loop.task \in TaskIds /\ loop.ws \in Sockets
         /\ loop'.todo = loop.todo \ {NextPart}
         /\ loop' # Idle => loop'.task = loop.task
<1>1. /\ loop \in [ws : Sockets, task : TaskIds, todo : (SUBSET Parts) \ {{}}]
      /\ loop.task \in TaskIds /\ loop.ws \in Sockets
  BY DEF TypeOK, LoopFree
<1>2. /\ NextPart \in loop.todo /\ NextPart \in Parts
      /\ loop.todo # {NextPart} => loop.todo \ {NextPart} = {"second"}
  BY <1>1 DEF NextPart, Parts
<1>3. CASE loop.todo = {NextPart}
  <2>1. loop' = Idle
    BY <1>3 DEF PartGone
  <2> QED
    BY <1>1, <1>2, <1>3, <2>1 DEF Idle
<1>4. CASE loop.todo # {NextPart}
  <2>1. loop' = [loop EXCEPT !.todo = {"second"}]
    BY <1>4 DEF PartGone
  <2>2. {"second"} \in (SUBSET Parts) \ {{}}
    BY DEF Parts
  <2>3. /\ loop' \in [ws : Sockets, task : TaskIds, todo : (SUBSET Parts) \ {{}}]
        /\ loop'.todo = {"second"} /\ loop'.task = loop.task
    BY <1>1, <2>1, <2>2
  <2> QED
    BY <1>1, <1>2, <1>4, <2>3
<1> QED
  BY <1>3, <1>4

LEMMA NextType == TypeOK /\ [Next]_vars => TypeOK'
<1> SUFFICES ASSUME TypeOK, [Next]_vars PROVE TypeOK'
  OBVIOUS
<1>1. ASSUME NEW w \in Sockets, Open(w) PROVE TypeOK'
  BY <1>1 DEF Open, TypeOK
<1>2. ASSUME NEW w \in Sockets, Close(w) PROVE TypeOK'
  <2>1. busy[w] \in TaskIds \cup {NoTask} /\ resets' \in [TaskIds -> Nat]
    BY <1>2 DEF Close, TypeOK, OneMore
  <2>2. /\ DOMAIN tasks' \subseteq TaskIds
        /\ \A t \in DOMAIN tasks' : tasks'[t] \in [ws : Sockets, total : 1 .. 2, done : 0 .. 1]
    BY <1>2 DEF Close, TypeOK, Restrict
  <2> QED
    BY <1>2, <2>1, <2>2 DEF Close, TypeOK
<1>3. ASSUME NEW w \in Sockets, Malformed(w) PROVE TypeOK'
  BY <1>3 DEF Malformed, TypeOK
<1>4. ASSUME NEW w \in Sockets, AnswerTest(w) PROVE TypeOK'
  BY <1>4 DEF AnswerTest, TypeOK
<1>5. ASSUME NEW w \in Sockets, NEW parts \in (SUBSET Parts) \ {{}}, Begin(w, parts) PROVE TypeOK'
  <2>1. Cardinality(parts) \in 1 .. 2
    BY PartSets
  <2>2. nextId \in TaskIds /\ nextId + 1 \in 0 .. MaxTasks
    BY <1>5 DEF Begin, TypeOK, TaskIds
  <2>3. /\ DOMAIN tasks' \subseteq TaskIds
        /\ \A t \in DOMAIN tasks' : tasks'[t] \in [ws : Sockets, total : 1 .. 2, done : 0 .. 1]
    BY <1>5, <2>1, <2>2 DEF Begin, TypeOK
  <2>4. busy' \in [Sockets -> TaskIds \cup {NoTask}] /\ wanted' \in [TaskIds -> SUBSET Parts]
    BY <1>5, <2>2 DEF Begin, TypeOK
  <2>5. loop' \in [ws : Sockets, task : TaskIds, todo : (SUBSET Parts) \ {{}}]
    BY <1>5, <2>2 DEF Begin
  <2> QED
    BY <1>5, <2>2, <2>3, <2>4, <2>5 DEF Begin, TypeOK
<1>6. CASE HandOver
  <2>1. <<loop.task, NextPart>> \in TaskIds \X Parts
    BY <1>6, PartGoneType DEF HandOver
  <2>2. loop' \in {Idle} \cup [ws : Sockets, task : TaskIds, todo : (SUBSET Parts) \ {{}}]
    BY <1>6, PartGoneType DEF HandOver
  <2> QED
    BY <1>6, <2>1, <2>2 DEF HandOver, TypeOK
<1>7. CASE DispatchThrows
  BY <1>7 DEF DispatchThrows, TypeOK, LoopFree, Idle
<1>8. ASSUME NEW success \in BOOLEAN, CallBackAtOnce(success) PROVE TypeOK'
  <2>1. loop.task \in TaskIds /\ NextPart \in Parts
    BY <1>8, PartGoneType DEF CallBackAtOnce
  <2>2. loop' \in {Idle} \cup [ws : Sockets, task : TaskIds, todo : (SUBSET Parts) \ {{}}]
    BY <1>8, PartGoneType DEF CallBackAtOnce
  <2>3. succeeded' \subseteq TaskIds \X Parts
    BY <1>8, <2>1 DEF CallBackAtOnce, Succeeds, TypeOK
  <2>4. /\ open' \subseteq Sockets
        /\ nextId' \in 0 .. MaxTasks /\ testLeft' \in 0 .. TestTasks
        /\ handed' \subseteq TaskIds \X Parts /\ wanted' \in [TaskIds -> SUBSET Parts]
    BY <1>8 DEF CallBackAtOnce, TypeOK
  <2>5. CallBack(loop.task, success)
    BY <1>8 DEF CallBackAtOnce
  <2> QED
    BY <2>1, <2>2, <2>3, <2>4, <2>5, CallBackType DEF TypeOK
<1>9. ASSUME NEW success \in BOOLEAN, NEW t \in TaskIds, NEW p \in Parts,
             ExecutorReports(t, p, success)
      PROVE  TypeOK'
  <2>1. succeeded' \subseteq TaskIds \X Parts
    BY <1>9 DEF ExecutorReports, Succeeds, TypeOK
  <2>2. /\ open' \subseteq Sockets /\ loop' = loop
        /\ nextId' \in 0 .. MaxTasks /\ testLeft' \in 0 .. TestTasks
        /\ handed' \subseteq TaskIds \X Parts /\ wanted' \in [TaskIds -> SUBSET Parts]
    BY <1>9 DEF ExecutorReports, TypeOK
  <2>3. CallBack(t, success)
    BY <1>9 DEF ExecutorReports
  <2> QED
    BY <2>1, <2>2, <2>3, CallBackType DEF TypeOK
<1>10. CASE Cleanup
  <2>1. PICK oldest \in DOMAIN tasks : EndTasks({t \in DOMAIN tasks : t <= oldest})
    BY <1>10 DEF Cleanup
  <2> DEFINE S == {t \in DOMAIN tasks : t <= oldest}
  <2>2. S \in SUBSET DOMAIN tasks /\ EndTasks(S)
    BY <2>1
  <2> HIDE DEF S
  <2> QED
    BY <1>10, <2>2, EndTasksType DEF Cleanup, TypeOK
<1>11. CASE UNCHANGED vars
  BY <1>11 DEF TypeOK
<1> QED
  BY <1>1, <1>2, <1>3, <1>4, <1>5, <1>6, <1>7, <1>8, <1>9, <1>10, <1>11
     DEF Next, AnswerOnly

\* Every variable keeps its type, and every counter its bound.
THEOREM TypeCorrect == Spec => []TypeOK
  BY InitType, NextType, PTL DEF Spec

----------------------------------------------------------------------------
(* How tasks end: by EndTasks, whoever calls it.                             *)

\* What a callback does to a task: nothing, its end, or one part more.
LEMMA CallBackCases ==
  ASSUME TypeOK, NEW t \in TaskIds, NEW success \in BOOLEAN, CallBack(t, success)
  PROVE  \/ t \notin DOMAIN tasks /\ UNCHANGED taskVars
         \/ t \in DOMAIN tasks /\ EndTasks({t})
         \/ /\ t \in DOMAIN tasks
            /\ DOMAIN tasks' = DOMAIN tasks
            /\ \A u \in DOMAIN tasks : tasks'[u].ws = tasks[u].ws
            /\ UNCHANGED <<busy, resets, published, completed>>
<1>1. ASSUME tasks' = [tasks EXCEPT ![t].done = @ + 1], t \in DOMAIN tasks
      PROVE  \A u \in DOMAIN tasks : tasks'[u].ws = tasks[u].ws
  BY <1>1 DEF TypeOK
<1> QED
  BY <1>1 DEF CallBack

TellInv == PublishInv /\ OneAnswer

LEMMA EndTasksTell ==
  ASSUME TypeOK, TellInv, NEW S \in SUBSET DOMAIN tasks, EndTasks(S), nextId' = nextId
  PROVE  TellInv'
<1>1. DOMAIN tasks' = DOMAIN tasks \ S
  BY DEF EndTasks, Restrict
<1>2. \A t \in TaskIds : published'[t] = IF t \in S THEN published[t] + 1 ELSE published[t]
  BY DEF EndTasks, OneMore
<1> QED
  BY <1>1, <1>2 DEF TellInv, PublishInv, OneAnswer, TypeOK

LEMMA CallBackTell ==
  ASSUME TypeOK, TellInv, NEW t \in TaskIds, NEW success \in BOOLEAN,
         CallBack(t, success), nextId' = nextId
  PROVE  TellInv'
<1>1. CASE t \in DOMAIN tasks /\ EndTasks({t})
  BY <1>1, EndTasksTell
<1>2. CASE UNCHANGED taskVars
  BY <1>2 DEF TellInv, PublishInv, OneAnswer
<1>3. CASE DOMAIN tasks' = DOMAIN tasks /\ UNCHANGED published
  BY <1>3 DEF TellInv, PublishInv, OneAnswer
<1> QED
  BY <1>1, <1>2, <1>3, CallBackCases

LEMMA NextTell == TypeOK /\ TellInv /\ [Next]_vars => TellInv'
<1> SUFFICES ASSUME TypeOK, TellInv, [Next]_vars PROVE TellInv'
  OBVIOUS
<1>1. ASSUME NEW w \in Sockets, Open(w) \/ Malformed(w) \/ AnswerTest(w) \/ AnswerOnly(w)
      PROVE  TellInv'
  BY <1>1 DEF Open, Malformed, AnswerTest, AnswerOnly, TellInv, PublishInv, OneAnswer
<1>2. ASSUME NEW w \in Sockets, Close(w) PROVE TellInv'
  BY <1>2 DEF Close, Restrict, TellInv, PublishInv, OneAnswer
<1>3. ASSUME NEW w \in Sockets, NEW parts \in (SUBSET Parts) \ {{}}, Begin(w, parts) PROVE TellInv'
  <2>1. /\ DOMAIN tasks' = DOMAIN tasks \cup {nextId} /\ nextId' = nextId + 1
        /\ published' = published
    BY <1>3 DEF Begin
  <2>2. nextId \in TaskIds /\ published[nextId] = 0
    <3>1. nextId \in TaskIds /\ ~(nextId < nextId)
      BY <1>3 DEF Begin, TypeOK, TaskIds
    <3>2. published[nextId] \in Nat /\ ~(published[nextId] > 0)
      BY <3>1 DEF TypeOK, TellInv, PublishInv
    <3> QED
      BY <3>1, <3>2
  <2>3. nextId \in Nat /\ \A t \in TaskIds : t \in Int
    BY DEF TaskIds, TypeOK
  <2>4. \A t \in DOMAIN tasks \cup {nextId} : t < nextId + 1 /\ published[t] = 0
    <3>1. \A t \in DOMAIN tasks : t \in Int /\ t < nextId /\ published[t] = 0
      BY <2>3 DEF TellInv, PublishInv, TypeOK
    <3>2. \A t \in DOMAIN tasks : t < nextId + 1 /\ published[t] = 0
      BY <2>3, <3>1
    <3>3. nextId < nextId + 1 /\ published[nextId] = 0
      BY <2>2, <2>3
    <3> QED
      BY <3>2, <3>3
  <2>5. \A t \in TaskIds : published[t] > 0 => t < nextId + 1
    BY <2>3 DEF TellInv, PublishInv
  <2> QED
    BY <2>1, <2>4, <2>5 DEF TellInv, PublishInv, OneAnswer
<1>4. CASE HandOver \/ DispatchThrows \/ UNCHANGED vars
  BY <1>4 DEF HandOver, DispatchThrows, TellInv, PublishInv, OneAnswer
<1>5. ASSUME NEW success \in BOOLEAN, CallBackAtOnce(success) PROVE TellInv'
  BY <1>5, CallBackTell, PartGoneType DEF CallBackAtOnce
<1>6. ASSUME NEW success \in BOOLEAN, NEW t \in TaskIds, NEW p \in Parts,
             ExecutorReports(t, p, success)
      PROVE  TellInv'
  BY <1>6, CallBackTell DEF ExecutorReports
<1>7. CASE Cleanup
  <2>1. PICK oldest \in DOMAIN tasks : EndTasks({t \in DOMAIN tasks : t <= oldest})
    BY <1>7 DEF Cleanup
  <2> DEFINE S == {t \in DOMAIN tasks : t <= oldest}
  <2>2. S \in SUBSET DOMAIN tasks /\ EndTasks(S) /\ nextId' = nextId
    BY <1>7, <2>1 DEF Cleanup
  <2> HIDE DEF S
  <2> QED
    BY <2>2, EndTasksTell
<1> QED
  BY <1>1, <1>2, <1>3, <1>4, <1>5, <1>6, <1>7 DEF Next

LEMMA InitTell == Init => TellInv
  BY DEF Init, TellInv, PublishInv, OneAnswer

\* The client of a task hears of its end at most once, whichever of the two
\* executors, the cleanup thread and the closing connection comes first.
THEOREM AnsweredOnce == Spec => []OneAnswer
<1>1. Init => TypeOK /\ TellInv
  BY InitType, InitTell
<1>2. (TypeOK /\ TellInv) /\ [Next]_vars => (TypeOK /\ TellInv)'
  BY NextType, NextTell
<1>3. TellInv => OneAnswer
  BY DEF TellInv
<1> QED
  BY <1>1, <1>2, <1>3, PTL DEF Spec

----------------------------------------------------------------------------
(* The busy flag of a connection, and the calls of resetTask.                *)

ClientInv == NeverStuckBusy /\ ResetAtEnd

LEMMA EndTasksClient ==
  ASSUME TypeOK, TellInv, ClientInv, NEW S \in SUBSET DOMAIN tasks, EndTasks(S),
         nextId' = nextId, open' = open
  PROVE  ClientInv'
<1>1. /\ DOMAIN tasks' = DOMAIN tasks \ S
      /\ \A t \in DOMAIN tasks' : tasks'[t] = tasks[t]
  BY DEF EndTasks, Restrict
<1>2. \A w \in Sockets : busy'[w] = IF \E t \in S : tasks[t].ws = w THEN NoTask ELSE busy[w]
  BY DEF EndTasks
<1>3. NeverStuckBusy'
  BY <1>1, <1>2 DEF ClientInv, NeverStuckBusy
<1>4. ResetAtEnd'
  <2>1. \A t \in TaskIds : resets'[t] = IF t \in S THEN resets[t] + 1 ELSE resets[t]
    BY DEF EndTasks, OneMore
  <2>2. \A t \in S : t \in TaskIds /\ t < nextId /\ resets[t] = 0
    BY DEF ClientInv, ResetAtEnd, TellInv, PublishInv, TypeOK
  <2>3. \A t \in TaskIds \ S : resets'[t] = resets[t]
    BY <2>1
  <2>4. \A t \in S : resets'[t] = 1
    BY <2>1, <2>2
  <2> QED
    BY <1>1, <2>2, <2>3, <2>4 DEF ClientInv, ResetAtEnd
<1> QED
  BY <1>3, <1>4 DEF ClientInv

LEMMA CallBackClient ==
  ASSUME TypeOK, TellInv, ClientInv, NEW t \in TaskIds, NEW success \in BOOLEAN,
         CallBack(t, success), nextId' = nextId, open' = open
  PROVE  ClientInv'
<1>1. CASE t \in DOMAIN tasks /\ EndTasks({t})
  BY <1>1, EndTasksClient
<1>2. CASE UNCHANGED taskVars
  BY <1>2 DEF ClientInv, NeverStuckBusy, ResetAtEnd
<1>3. CASE /\ DOMAIN tasks' = DOMAIN tasks
           /\ \A u \in DOMAIN tasks : tasks'[u].ws = tasks[u].ws
           /\ UNCHANGED <<busy, resets>>
  BY <1>3 DEF ClientInv, NeverStuckBusy, ResetAtEnd
<1> QED
  BY <1>1, <1>2, <1>3, CallBackCases

LEMMA NextClient == TypeOK /\ TellInv /\ ClientInv /\ [Next]_vars => ClientInv'
<1> SUFFICES ASSUME TypeOK, TellInv, ClientInv, [Next]_vars PROVE ClientInv'
  OBVIOUS
<1>1. ASSUME NEW w \in Sockets, Open(w) \/ Malformed(w) PROVE ClientInv'
  BY <1>1 DEF Open, Malformed, ClientInv, NeverStuckBusy, ResetAtEnd, TypeOK
<1>2. ASSUME NEW w \in Sockets, AnswerTest(w) \/ AnswerOnly(w) PROVE ClientInv'
  BY <1>2 DEF AnswerTest, AnswerOnly, ClientInv, NeverStuckBusy, ResetAtEnd
<1>3. ASSUME NEW w \in Sockets, Close(w) PROVE ClientInv'
  <2>1. /\ DOMAIN tasks' = DOMAIN tasks \ {busy[w]}
        /\ \A t \in DOMAIN tasks' : tasks'[t] = tasks[t]
    BY <1>3 DEF Close, Restrict
  <2>2. w \in open /\ open' = open \ {w} /\ busy' = busy /\ nextId' = nextId
    BY <1>3 DEF Close
  <2>3. NeverStuckBusy'
    BY <2>1, <2>2 DEF ClientInv, NeverStuckBusy
  <2>4. busy[w] # NoTask => busy[w] \in DOMAIN tasks /\ busy[w] < nextId
    BY <2>2 DEF ClientInv, NeverStuckBusy, TellInv, PublishInv
  <2>5. ResetAtEnd'
    BY <1>3, <2>1, <2>2, <2>4 DEF Close, OneMore, ClientInv, ResetAtEnd, TypeOK, TaskIds
  <2> QED
    BY <2>3, <2>5 DEF ClientInv
<1>4. ASSUME NEW w \in Sockets, NEW parts \in (SUBSET Parts) \ {{}}, Begin(w, parts) PROVE ClientInv'
  <2>1. /\ DOMAIN tasks' = DOMAIN tasks \cup {nextId} /\ nextId' = nextId + 1
        /\ tasks'[nextId].ws = w
        /\ \A t \in DOMAIN tasks \ {nextId} : tasks'[t] = tasks[t]
        /\ busy' = [busy EXCEPT ![w] = nextId]
        /\ open' = open /\ resets' = resets
    BY <1>4 DEF Begin
  <2>2. nextId \in 0 .. MaxTasks /\ nextId \notin DOMAIN tasks
    BY DEF TypeOK, TellInv, PublishInv
  <2>3. NeverStuckBusy'
    BY <2>1, <2>2 DEF ClientInv, NeverStuckBusy, TypeOK
  <2>4. ResetAtEnd'
    BY <2>1, <2>2 DEF ClientInv, ResetAtEnd, TaskIds, TypeOK
  <2> QED
    BY <2>3, <2>4 DEF ClientInv
<1>5. CASE HandOver \/ UNCHANGED vars
  BY <1>5 DEF HandOver, ClientInv, NeverStuckBusy, ResetAtEnd
<1>6. CASE DispatchThrows
  BY <1>6 DEF DispatchThrows, ClientInv, NeverStuckBusy, ResetAtEnd, TypeOK
<1>7. ASSUME NEW success \in BOOLEAN, CallBackAtOnce(success) PROVE ClientInv'
  BY <1>7, CallBackClient, PartGoneType DEF CallBackAtOnce
<1>8. ASSUME NEW success \in BOOLEAN, NEW t \in TaskIds, NEW p \in Parts,
             ExecutorReports(t, p, success)
      PROVE  ClientInv'
  BY <1>8, CallBackClient DEF ExecutorReports
<1>9. CASE Cleanup
  <2>1. PICK oldest \in DOMAIN tasks : EndTasks({t \in DOMAIN tasks : t <= oldest})
    BY <1>9 DEF Cleanup
  <2> DEFINE S == {t \in DOMAIN tasks : t <= oldest}
  <2>2. S \in SUBSET DOMAIN tasks /\ EndTasks(S) /\ nextId' = nextId /\ open' = open
    BY <1>9, <2>1 DEF Cleanup
  <2> HIDE DEF S
  <2> QED
    BY <2>2, EndTasksClient
<1> QED
  BY <1>1, <1>2, <1>3, <1>4, <1>5, <1>6, <1>7, <1>8, <1>9 DEF Next

LEMMA InitClient == Init => ClientInv
  BY DEF Init, ClientInv, NeverStuckBusy, ResetAtEnd

LEMMA ClientInvariance == Spec => []ClientInv
<1>1. Init => TypeOK /\ TellInv /\ ClientInv
  BY InitType, InitTell, InitClient
<1>2. (TypeOK /\ TellInv /\ ClientInv) /\ [Next]_vars => (TypeOK /\ TellInv /\ ClientInv)'
  BY NextType, NextTell, NextClient
<1> QED
  BY <1>1, <1>2, PTL DEF Spec

\* No way out of a task leaves its client refused for ever.
THEOREM ClientFreed == Spec => []NeverStuckBusy
<1>1. ClientInv => NeverStuckBusy
  BY DEF ClientInv
<1> QED
  BY <1>1, ClientInvariance, PTL

\* resetTask is called once for each task, when it leaves active_tasks_, and never for
\* a task that is active (websocket_service.h:118, :181, :198, :260).
THEOREM ResetCalledAtEnd == Spec => []ResetAtEnd
<1>1. ClientInv => ResetAtEnd
  BY DEF ClientInv
<1> QED
  BY <1>1, ClientInvariance, PTL

----------------------------------------------------------------------------
(* The parts of a command.                                                  *)

DoneInv == PartsInv /\ CompletedMeansAll

LEMMA InitDone == Init => DoneInv
  BY DEF Init, Idle, DoneInv, PartsInv, CompletedMeansAll

\* A callback, for a part that is still out: with its executor or being dispatched.
LEMMA CallBackDone ==
  ASSUME TypeOK, DoneInv, NEW t \in TaskIds, NEW p \in Parts, NEW success \in BOOLEAN,
         CallBack(t, success), Succeeds(t, p, success),
         nextId' = nextId, wanted' = wanted,
         t < nextId, p \in wanted[t], <<t, p>> \notin succeeded
  PROVE  /\ \A u \in DOMAIN tasks' : /\ tasks'[u].total = Cardinality(wanted[u])
                                     /\ tasks'[u].done = Cardinality(Done(u)')
         /\ \A u \in completed' : u < nextId
         /\ CompletedMeansAll'
<1> DEFINE last == tasks[t].done + 1 >= tasks[t].total
<1>1. /\ wanted[t] \in SUBSET Parts /\ Done(t) \in SUBSET wanted[t] /\ p \notin Done(t)
      /\ \A u \in TaskIds : wanted[u] \in SUBSET Parts
  BY DEF TypeOK, DoneInv, PartsInv, Done
<1>2. /\ Cardinality(Done(t) \cup {p}) = Cardinality(Done(t)) + 1
      /\ Cardinality(Done(t)) + 1 >= Cardinality(wanted[t]) => Done(t) \cup {p} = wanted[t]
  BY <1>1, OnePartMore
<1>3. succeeded \subseteq succeeded' /\ \A u \in TaskIds : u # t => Done(u)' = Done(u)
  BY DEF Succeeds, Done
<1>4. success => Done(t)' = Done(t) \cup {p}
  BY DEF Succeeds, Done
<1>5. ~success => Done(t)' = Done(t)
  BY DEF Succeeds, Done
<1>6. \A u \in DOMAIN tasks : u \in TaskIds /\ tasks[u].total = Cardinality(wanted[u])
                              /\ tasks[u].done = Cardinality(Done(u))
  BY DEF DoneInv, PartsInv, TypeOK
<1>7. \A u \in completed : u \in TaskIds /\ u < nextId /\ \A q \in wanted[u] : <<u, q>> \in succeeded'
  BY <1>3 DEF DoneInv, PartsInv, CompletedMeansAll, TypeOK
<1>8. CASE t \notin DOMAIN tasks /\ UNCHANGED taskVars
  BY <1>3, <1>6, <1>7, <1>8 DEF CompletedMeansAll
<1>9. CASE t \in DOMAIN tasks /\ EndTasks({t}) /\ UNCHANGED completed
  <2>1. DOMAIN tasks' = DOMAIN tasks \ {t} /\ \A u \in DOMAIN tasks' : tasks'[u] = tasks[u]
    BY <1>9 DEF EndTasks, Restrict
  <2> QED
    BY <1>3, <1>6, <1>7, <1>9, <2>1 DEF CompletedMeansAll
<1>10. CASE /\ t \in DOMAIN tasks /\ success /\ ~last
            /\ tasks' = [tasks EXCEPT ![t].done = @ + 1]
            /\ UNCHANGED <<busy, resets, published, completed>>
  <2>1. /\ DOMAIN tasks' = DOMAIN tasks
        /\ tasks'[t].total = tasks[t].total /\ tasks'[t].done = tasks[t].done + 1
        /\ \A u \in DOMAIN tasks : u # t => tasks'[u] = tasks[u]
    BY <1>10 DEF TypeOK
  <2>2. tasks'[t].done = Cardinality(Done(t)')
    BY <1>2, <1>4, <1>6, <1>10, <2>1
  <2>3. \A u \in DOMAIN tasks' : /\ tasks'[u].total = Cardinality(wanted[u])
                                 /\ tasks'[u].done = Cardinality(Done(u)')
    BY <1>3, <1>6, <2>1, <2>2
  <2> QED
    BY <1>7, <1>10, <2>3 DEF CompletedMeansAll
<1>11. CASE /\ t \in DOMAIN tasks /\ success /\ last
            /\ EndTasks({t}) /\ completed' = completed \cup {t}
  <2>1. DOMAIN tasks' = DOMAIN tasks \ {t} /\ \A u \in DOMAIN tasks' : tasks'[u] = tasks[u]
    BY <1>11 DEF EndTasks, Restrict
  <2>2. Done(t)' = wanted[t]
    BY <1>2, <1>4, <1>6, <1>11
  <2>3. \A q \in wanted[t] : <<t, q>> \in succeeded'
    BY <2>2 DEF Done
  <2>4. \A u \in completed' : u < nextId /\ \A q \in wanted[u] : <<u, q>> \in succeeded'
    BY <1>7, <1>11, <2>3
  <2> QED
    BY <1>3, <1>6, <2>1, <2>4 DEF CompletedMeansAll
<1> QED
  BY <1>8, <1>9, <1>10, <1>11 DEF CallBack

LEMMA NextDone == TypeOK /\ TellInv /\ DoneInv /\ [Next]_vars => DoneInv'
<1> SUFFICES ASSUME TypeOK, TellInv, DoneInv, [Next]_vars PROVE DoneInv'
  OBVIOUS
<1>1. ASSUME NEW w \in Sockets, Open(w) \/ Malformed(w) \/ AnswerTest(w) \/ AnswerOnly(w)
      PROVE  DoneInv'
  <2>1. UNCHANGED <<loop, handed, succeeded, completed, wanted, tasks, nextId>>
    BY <1>1 DEF Open, Malformed, AnswerTest, AnswerOnly
  <2> QED
    BY <2>1 DEF DoneInv, PartsInv, Done, CompletedMeansAll
<1>2. ASSUME NEW w \in Sockets, Close(w) PROVE DoneInv'
  BY <1>2 DEF Close, Restrict, DoneInv, PartsInv, Done, CompletedMeansAll
<1>3. ASSUME NEW w \in Sockets, NEW parts \in (SUBSET Parts) \ {{}}, Begin(w, parts) PROVE DoneInv'
  <2>1. /\ nextId \in TaskIds /\ nextId' = nextId + 1 /\ nextId \in Nat
        /\ \A t \in TaskIds : t \in Int
    BY <1>3 DEF Begin, TypeOK, TaskIds
  <2>2. /\ UNCHANGED <<handed, succeeded, completed>>
        /\ loop'.task = nextId /\ loop'.todo = parts
        /\ wanted'[nextId] = parts /\ \A t \in TaskIds : t # nextId => wanted'[t] = wanted[t]
        /\ DOMAIN tasks' = DOMAIN tasks \cup {nextId}
        /\ tasks'[nextId].total = Cardinality(parts) /\ tasks'[nextId].done = 0
        /\ \A t \in DOMAIN tasks : t # nextId => tasks'[t] = tasks[t]
    BY <1>3, <2>1 DEF Begin, TypeOK
  <2>3. \A p \in Parts : <<nextId, p>> \notin handed \cup succeeded
    BY <2>1 DEF DoneInv, PartsInv
  <2>4. Done(nextId) = {} /\ \A t : Done(t)' = Done(t)
    BY <2>2, <2>3 DEF Done
  <2>5. \A p \in loop'.todo : /\ loop'.task \in 0 .. nextId' - 1 /\ p \in wanted'[loop'.task]
                              /\ <<loop'.task, p>> \notin handed' \cup succeeded'
    BY <2>1, <2>2, <2>3
  <2>6. \A t \in TaskIds, p \in Parts :
          /\ <<t, p>> \in handed' \cup succeeded' => t < nextId' /\ p \in wanted'[t]
          /\ <<t, p>> \notin handed' \cap succeeded'
    <3>1. ASSUME NEW t \in TaskIds, NEW p \in Parts
          PROVE  /\ <<t, p>> \in handed \cup succeeded => t < nextId + 1 /\ p \in wanted'[t]
                 /\ <<t, p>> \notin handed \cap succeeded
      <4>1. /\ <<t, p>> \in handed \cup succeeded => t < nextId /\ p \in wanted[t]
            /\ <<t, p>> \notin handed \cap succeeded
        BY DEF DoneInv, PartsInv
      <4> QED
        BY <2>1, <2>2, <4>1
    <3> QED
      BY <2>1, <2>2, <3>1
  <2>7. \A t \in DOMAIN tasks' : /\ tasks'[t].total = Cardinality(wanted'[t])
                                 /\ tasks'[t].done = Cardinality(Done(t)')
    <3>1. Cardinality({}) = 0
      BY FS_EmptySet
    <3>2. \A t \in DOMAIN tasks : /\ t \in TaskIds /\ tasks[t].total = Cardinality(wanted[t])
                                  /\ tasks[t].done = Cardinality(Done(t))
      BY DEF DoneInv, PartsInv, TypeOK
    <3> QED
      BY <2>2, <2>4, <3>1, <3>2
  <2>8. (\A t \in completed' : t < nextId') /\ CompletedMeansAll'
    <3>1. \A t \in completed : t \in TaskIds /\ t < nextId /\ \A p \in wanted[t] : <<t, p>> \in succeeded
      BY DEF DoneInv, PartsInv, CompletedMeansAll, TypeOK
    <3>2. \A t \in completed : t < nextId + 1 /\ wanted'[t] = wanted[t]
      <4>1. ASSUME NEW t \in completed PROVE t \in TaskIds /\ t < nextId + 1 /\ t # nextId
        <5>1. t \in TaskIds /\ t < nextId
          BY <3>1
        <5>2. t \in Int
          BY <2>1, <5>1
        <5> QED
          BY <2>1, <5>1, <5>2
      <4> QED
        BY <2>2, <4>1
    <3> QED
      BY <2>1, <2>2, <3>1, <3>2 DEF CompletedMeansAll
  <2> QED
    BY <2>5, <2>6, <2>7, <2>8 DEF DoneInv, PartsInv
<1>4. CASE HandOver
  <2>1. /\ NextPart \in loop.todo /\ NextPart \in Parts /\ loop.task \in TaskIds
        /\ loop'.todo = loop.todo \ {NextPart} /\ (loop'.todo # {} => loop'.task = loop.task)
    BY <1>4, PartGoneType DEF HandOver, Idle
  <2>2. /\ handed' = handed \cup {<<loop.task, NextPart>>}
        /\ UNCHANGED <<nextId, tasks, completed, wanted, succeeded>>
    BY <1>4 DEF HandOver
  <2>3. /\ loop.task \in 0 .. nextId - 1 /\ NextPart \in wanted[loop.task]
        /\ <<loop.task, NextPart>> \notin handed \cup succeeded
    BY <2>1 DEF DoneInv, PartsInv
  <2>4. \A p \in loop'.todo : /\ loop'.task \in 0 .. nextId' - 1 /\ p \in wanted'[loop'.task]
                              /\ <<loop'.task, p>> \notin handed' \cup succeeded'
    BY <2>1, <2>2 DEF DoneInv, PartsInv
  <2>5. \A t \in TaskIds, p \in Parts :
          /\ <<t, p>> \in handed' \cup succeeded' => t < nextId' /\ p \in wanted'[t]
          /\ <<t, p>> \notin handed' \cap succeeded'
    <3>1. ASSUME NEW t \in TaskIds, NEW p \in Parts
          PROVE  /\ <<t, p>> \in handed' => t < nextId /\ p \in wanted[t]
                 /\ <<t, p>> \in succeeded => t < nextId /\ p \in wanted[t]
                 /\ ~(<<t, p>> \in handed' /\ <<t, p>> \in succeeded)
      <4>1. CASE t = loop.task /\ p = NextPart
        <5>1. t < nextId /\ p \in wanted[t] /\ <<t, p>> \notin succeeded
          BY <2>3, <4>1 DEF TypeOK
        <5> QED
          BY <5>1
      <4>2. CASE ~(t = loop.task /\ p = NextPart)
        <5>1. <<t, p>> \in handed' <=> <<t, p>> \in handed
          BY <2>2, <4>2
        <5> QED
          BY <5>1 DEF DoneInv, PartsInv
      <4> QED
        BY <4>1, <4>2
    <3> QED
      BY <2>2, <3>1
  <2>6. /\ \A t \in DOMAIN tasks' : /\ tasks'[t].total = Cardinality(wanted'[t])
                                    /\ tasks'[t].done = Cardinality(Done(t)')
        /\ \A t \in completed' : t < nextId'
        /\ CompletedMeansAll'
    BY <2>2 DEF DoneInv, PartsInv, Done, CompletedMeansAll
  <2> QED
    BY <2>4, <2>5, <2>6 DEF DoneInv, PartsInv
<1>5. CASE DispatchThrows \/ UNCHANGED vars
  BY <1>5 DEF DispatchThrows, Idle, DoneInv, PartsInv, Done, CompletedMeansAll
<1>6. ASSUME NEW success \in BOOLEAN, CallBackAtOnce(success) PROVE DoneInv'
  <2>1. /\ NextPart \in loop.todo /\ NextPart \in Parts /\ loop.task \in TaskIds
        /\ loop'.todo = loop.todo \ {NextPart} /\ (loop'.todo # {} => loop'.task = loop.task)
    BY <1>6, PartGoneType DEF CallBackAtOnce, Idle
  <2>2. /\ loop.task < nextId /\ NextPart \in wanted[loop.task]
        /\ <<loop.task, NextPart>> \notin handed \cup succeeded
    BY <2>1 DEF DoneInv, PartsInv, TypeOK
  <2>3. /\ CallBack(loop.task, success) /\ Succeeds(loop.task, NextPart, success)
        /\ nextId' = nextId /\ wanted' = wanted /\ handed' = handed
    BY <1>6 DEF CallBackAtOnce
  <2>4. /\ \A u \in DOMAIN tasks' : /\ tasks'[u].total = Cardinality(wanted[u])
                                    /\ tasks'[u].done = Cardinality(Done(u)')
        /\ \A u \in completed' : u < nextId
        /\ CompletedMeansAll'
    BY <2>1, <2>2, <2>3, CallBackDone
  <2>5. succeeded' \subseteq succeeded \cup {<<loop.task, NextPart>>}
    BY <2>3 DEF Succeeds
  <2> QED
    BY <2>1, <2>2, <2>3, <2>4, <2>5 DEF DoneInv, PartsInv
<1>7. ASSUME NEW success \in BOOLEAN, NEW t \in TaskIds, NEW p \in Parts,
             ExecutorReports(t, p, success)
      PROVE  DoneInv'
  <2>1. <<t, p>> \in handed /\ handed' = handed \ {<<t, p>>}
    BY <1>7 DEF ExecutorReports
  <2>2. t < nextId /\ p \in wanted[t] /\ <<t, p>> \notin succeeded
    BY <2>1 DEF DoneInv, PartsInv
  <2>3. /\ CallBack(t, success) /\ Succeeds(t, p, success)
        /\ nextId' = nextId /\ wanted' = wanted /\ loop' = loop
    BY <1>7 DEF ExecutorReports
  <2>4. /\ \A u \in DOMAIN tasks' : /\ tasks'[u].total = Cardinality(wanted[u])
                                    /\ tasks'[u].done = Cardinality(Done(u)')
        /\ \A u \in completed' : u < nextId
        /\ CompletedMeansAll'
    BY <2>2, <2>3, CallBackDone
  <2>5. succeeded' \subseteq succeeded \cup {<<t, p>>}
    BY <2>3 DEF Succeeds
  <2> QED
    BY <2>1, <2>2, <2>3, <2>4, <2>5 DEF DoneInv, PartsInv
<1>8. CASE Cleanup
  <2>1. PICK oldest \in DOMAIN tasks : EndTasks({t \in DOMAIN tasks : t <= oldest})
    BY <1>8 DEF Cleanup
  <2>2. /\ DOMAIN tasks' \subseteq DOMAIN tasks
        /\ \A t \in DOMAIN tasks' : tasks'[t] = tasks[t]
    BY <2>1 DEF EndTasks, Restrict
  <2>3. UNCHANGED <<completed, nextId, loop, handed, wanted, succeeded>>
    BY <1>8 DEF Cleanup
  <2> QED
    BY <2>2, <2>3 DEF DoneInv, PartsInv, Done, CompletedMeansAll
<1> QED
  BY <1>1, <1>2, <1>3, <1>4, <1>5, <1>6, <1>7, <1>8 DEF Next

\* "completed" is published for a command whose parts have all succeeded, in
\* whatever order and from whatever thread the executors call back.
THEOREM CompletedIsComplete == Spec => []CompletedMeansAll
<1>1. Init => TypeOK /\ TellInv /\ DoneInv
  BY InitType, InitTell, InitDone
<1>2. (TypeOK /\ TellInv /\ DoneInv) /\ [Next]_vars => (TypeOK /\ TellInv /\ DoneInv)'
  BY NextType, NextTell, NextDone
<1>3. DoneInv => CompletedMeansAll
  BY DEF DoneInv
<1> QED
  BY <1>1, <1>2, <1>3, PTL DEF Spec

----------------------------------------------------------------------------
(* The service is a ledger of tasks (TaskLedger).                            *)

LEMMA InitFinal == Init => FinalInv
  BY DEF Init, FinalInv

LEMMA CallBackFinal ==
  ASSUME FinalInv, NEW t \in TaskIds, NEW success \in BOOLEAN, CallBack(t, success)
  PROVE  FinalInv'
<1>1. CASE EndTasks({t})
  <2>1. DOMAIN tasks' = DOMAIN tasks \ {t}
    BY <1>1 DEF EndTasks, Restrict
  <2>2. completed' \subseteq completed \cup {t}
    BY DEF CallBack
  <2> QED
    BY <2>1, <2>2 DEF FinalInv
<1>2. CASE DOMAIN tasks' = DOMAIN tasks /\ UNCHANGED completed
  BY <1>2 DEF FinalInv
<1>3. ASSUME tasks' = [tasks EXCEPT ![t].done = @ + 1] PROVE DOMAIN tasks' = DOMAIN tasks
  BY <1>3
<1> QED
  BY <1>1, <1>2, <1>3 DEF CallBack

LEMMA NextFinal == TypeOK /\ DoneInv /\ FinalInv /\ [Next]_vars => FinalInv'
<1> SUFFICES ASSUME TypeOK, DoneInv, FinalInv, [Next]_vars PROVE FinalInv'
  OBVIOUS
<1>1. ASSUME NEW w \in Sockets, Open(w) \/ Malformed(w) \/ AnswerTest(w) \/ AnswerOnly(w)
      PROVE  FinalInv'
  BY <1>1 DEF Open, Malformed, AnswerTest, AnswerOnly, FinalInv
<1>2. ASSUME NEW w \in Sockets, Close(w) PROVE FinalInv'
  BY <1>2 DEF Close, Restrict, FinalInv
<1>3. ASSUME NEW w \in Sockets, NEW parts \in (SUBSET Parts) \ {{}}, Begin(w, parts) PROVE FinalInv'
  <2>1. DOMAIN tasks' = DOMAIN tasks \cup {nextId} /\ completed' = completed
    BY <1>3 DEF Begin
  <2>2. nextId \notin completed
    BY DEF DoneInv, PartsInv, TypeOK
  <2> QED
    BY <2>1, <2>2 DEF FinalInv
<1>4. CASE HandOver \/ DispatchThrows \/ UNCHANGED vars
  BY <1>4 DEF HandOver, DispatchThrows, FinalInv
<1>5. ASSUME NEW success \in BOOLEAN, CallBackAtOnce(success) PROVE FinalInv'
  BY <1>5, CallBackFinal, PartGoneType DEF CallBackAtOnce
<1>6. ASSUME NEW success \in BOOLEAN, NEW t \in TaskIds, NEW p \in Parts,
             ExecutorReports(t, p, success)
      PROVE  FinalInv'
  BY <1>6, CallBackFinal DEF ExecutorReports
<1>7. CASE Cleanup
  <2>1. DOMAIN tasks' \subseteq DOMAIN tasks /\ completed' = completed
    BY <1>7 DEF Cleanup, EndTasks, Restrict
  <2> QED
    BY <2>1 DEF FinalInv
<1> QED
  BY <1>1, <1>2, <1>3, <1>4, <1>5, <1>6, <1>7 DEF Next

\* A step that leaves every task where it is, and its parts, is none of the ledger's.
LEMMA LedgerStutters ==
  ASSUME wanted' = wanted, succeeded' = succeeded, nextId' = nextId,
         completed' = completed, published' = published, DOMAIN tasks' = DOMAIN tasks
  PROVE  UNCHANGED Ledger!vars
<1>1. \A t \in TaskIds : Standing(t)' = Standing(t) /\ Done(t)' = Done(t)
  BY DEF Standing, Done
<1> QED
  BY <1>1 DEF Ledger!vars

\* EndTasks ends tasks that were running, and touches no other.
LEMMA EndTasksStanding ==
  ASSUME TypeOK, TellInv, FinalInv, NEW S \in SUBSET DOMAIN tasks, EndTasks(S),
         nextId' = nextId, NEW t \in TaskIds
  PROVE  /\ t \in S => /\ Standing(t) = "running"
                       /\ Standing(t)' = IF t \in completed' THEN "completed" ELSE "failed"
         /\ t \notin S /\ (t \in completed' <=> t \in completed) => Standing(t)' = Standing(t)
<1>1. DOMAIN tasks' = DOMAIN tasks \ S
  BY DEF EndTasks, Restrict
<1>2. published'[t] = IF t \in S THEN published[t] + 1 ELSE published[t]
  BY DEF EndTasks, OneMore
<1>3. CASE t \in S
  <2>1. t < nextId /\ ~(t >= nextId)
    BY <1>3 DEF TellInv, PublishInv, TypeOK, TaskIds
  <2>2. published'[t] > 0
    BY <1>2, <1>3 DEF TypeOK
  <2> QED
    BY <1>1, <1>3, <2>1, <2>2 DEF Standing
<1>4. CASE t \notin S
  BY <1>1, <1>2, <1>4 DEF Standing
<1> QED
  BY <1>3, <1>4

\* Tasks that end without having completed have failed.
LEMMA EndTasksFail ==
  ASSUME TypeOK, TellInv, FinalInv, NEW S \in SUBSET DOMAIN tasks, EndTasks(S),
         UNCHANGED <<nextId, completed, wanted, succeeded>>
  PROVE  Ledger!Fail(S)
<1>1. S \subseteq TaskIds /\ \A t \in S : t \notin completed'
  BY DEF TypeOK, FinalInv
<1>2. \A t \in TaskIds :
        /\ t \in S => Standing(t) = "running" /\ Standing(t)' = "failed"
        /\ t \notin S => Standing(t)' = Standing(t)
  BY <1>1, EndTasksStanding
<1>3. \A t \in TaskIds : Done(t)' = Done(t)
  BY DEF Done
<1> QED
  BY <1>1, <1>2, <1>3 DEF Ledger!Fail

\* A callback for a part that is still out: it changes nothing, fails the task, or
\* takes the part off what is missing, whether or not the task is still there.
LEMMA CallBackLedger ==
  ASSUME TypeOK, TellInv, DoneInv, FinalInv,
         NEW t \in TaskIds, NEW p \in Parts, NEW success \in BOOLEAN,
         CallBack(t, success), Succeeds(t, p, success),
         nextId' = nextId, wanted' = wanted,
         t < nextId, p \in wanted[t], <<t, p>> \notin succeeded
  PROVE  UNCHANGED Ledger!vars \/ Ledger!Fail({t}) \/ Ledger!Succeed(t, p)
<1> DEFINE last == tasks[t].done + 1 >= tasks[t].total
<1>1. CASE ~success
  <2>1. succeeded' = succeeded
    BY <1>1 DEF Succeeds
  <2>2. CASE t \in DOMAIN tasks /\ EndTasks({t}) /\ UNCHANGED completed
    BY <2>1, <2>2, EndTasksFail
  <2>3. CASE UNCHANGED taskVars
    BY <2>1, <2>3, LedgerStutters
  <2> QED
    BY <1>1, <2>2, <2>3 DEF CallBack
<1>2. CASE success
  <2>1. /\ wanted[t] \in SUBSET Parts /\ Done(t) \in SUBSET wanted[t] /\ p \notin Done(t)
        /\ p \in wanted[t] \ Done(t)
    BY DEF TypeOK, DoneInv, PartsInv, Done
  <2>2. Done(t)' = Done(t) \cup {p} /\ \A u \in TaskIds : u # t => Done(u)' = Done(u)
    BY <1>2 DEF Succeeds, Done
  <2>3. [u \in TaskIds |-> wanted[u] \ Done(u)]'
          = [[u \in TaskIds |-> wanted[u] \ Done(u)] EXCEPT ![t] = @ \ {p}]
    BY <2>2
  <2>4. SUFFICES [u \in TaskIds |-> Standing(u)]'
                   = IF Standing(t) = "running" /\ wanted[t] \ Done(t) = {p}
                     THEN [[u \in TaskIds |-> Standing(u)] EXCEPT ![t] = "completed"]
                     ELSE [u \in TaskIds |-> Standing(u)]
    BY <2>1, <2>3, <2>4 DEF Ledger!Succeed
  <2>5. ~(t >= nextId)
    BY DEF TypeOK, TaskIds
  <2>6. CASE t \notin DOMAIN tasks /\ UNCHANGED taskVars
    <3>1. Standing(t) # "running" /\ \A u \in TaskIds : Standing(u)' = Standing(u)
      BY <2>5, <2>6 DEF Standing
    <3> QED
      BY <3>1
  <2>7. ASSUME t \in DOMAIN tasks
        PROVE  /\ Standing(t) = "running"
               /\ last <=> wanted[t] \ Done(t) = {p}
    <3>1. /\ tasks[t].total = Cardinality(wanted[t])
          /\ tasks[t].done = Cardinality(Done(t))
      BY <2>7 DEF DoneInv, PartsInv
    <3>2. /\ Cardinality(Done(t) \cup {p}) = Cardinality(Done(t)) + 1
          /\ Cardinality(Done(t)) + 1 >= Cardinality(wanted[t]) => Done(t) \cup {p} = wanted[t]
      BY <2>1, OnePartMore
    <3>3. Cardinality(Done(t)) + 1 \in Int /\ Cardinality(wanted[t]) \in Int
      <4>1. Done(t) \in SUBSET Parts
        BY <2>1
      <4> QED
        BY <2>1, <4>1, PartSets
    <3>4. wanted[t] \ Done(t) = {p} <=> Done(t) \cup {p} = wanted[t]
      BY <2>1
    <3>5. Cardinality(Done(t)) + 1 >= Cardinality(wanted[t]) <=> Done(t) \cup {p} = wanted[t]
      <4>1. ASSUME Done(t) \cup {p} = wanted[t]
            PROVE  Cardinality(Done(t) \cup {p}) = Cardinality(wanted[t])
        BY <4>1, Zenon
      <4> QED
        BY <3>2, <3>3, <4>1
    <3>6. Standing(t) = "running"
      BY <2>5, <2>7 DEF Standing
    <3> QED
      BY <3>1, <3>4, <3>5, <3>6
  <2>8. CASE /\ t \in DOMAIN tasks /\ ~last
             /\ tasks' = [tasks EXCEPT ![t].done = @ + 1]
             /\ UNCHANGED <<busy, resets, published, completed>>
    <3>1. \A u \in TaskIds : Standing(u)' = Standing(u)
      BY <2>8 DEF Standing
    <3> QED
      BY <2>7, <2>8, <3>1
  <2>9. CASE /\ t \in DOMAIN tasks /\ last
             /\ EndTasks({t}) /\ completed' = completed \cup {t}
    <3>1. {t} \in SUBSET DOMAIN tasks
      BY <2>9
    <3>2. \A u \in TaskIds : Standing(u)' = IF u = t THEN "completed" ELSE Standing(u)
      BY <2>9, <3>1, EndTasksStanding
    <3> QED
      BY <2>7, <2>9, <3>2
  <2> QED
    BY <1>2, <2>6, <2>8, <2>9 DEF CallBack
<1> QED
  BY <1>1, <1>2

LedgerInv == TypeOK /\ TellInv /\ DoneInv /\ FinalInv

LEMMA NextLedger == LedgerInv /\ [Next]_vars => [Ledger!Next]_(Ledger!vars)
<1> SUFFICES ASSUME LedgerInv, [Next]_vars PROVE Ledger!Next \/ UNCHANGED Ledger!vars
  OBVIOUS
<1> USE DEF LedgerInv
<1>1. ASSUME NEW w \in Sockets, Open(w) \/ Malformed(w) \/ AnswerTest(w) \/ AnswerOnly(w)
      PROVE  UNCHANGED Ledger!vars
  BY <1>1, LedgerStutters DEF Open, Malformed, AnswerTest, AnswerOnly
<1>2. ASSUME NEW w \in Sockets, Close(w) PROVE Ledger!Next \/ UNCHANGED Ledger!vars
  <2>1. /\ DOMAIN tasks' = DOMAIN tasks \ {busy[w]}
        /\ UNCHANGED <<nextId, published, completed, wanted, succeeded>>
    BY <1>2 DEF Close, Restrict
  <2>2. CASE busy[w] \notin DOMAIN tasks
    BY <2>1, <2>2, LedgerStutters
  <2>3. CASE busy[w] \in DOMAIN tasks
    <3>1. PICK t \in TaskIds : t = busy[w] /\ t \in DOMAIN tasks
      BY <2>3 DEF TypeOK
    <3>2. /\ ~(t >= nextId) /\ t \notin completed /\ ~(published[t] > 0)
          /\ DOMAIN tasks' = DOMAIN tasks \ {t}
      BY <2>1, <3>1 DEF TellInv, PublishInv, FinalInv, TypeOK, TaskIds
    <3>3. /\ Standing(t) = "running" /\ Standing(t)' = "dropped"
          /\ \A u \in TaskIds : u # t => Standing(u)' = Standing(u)
          /\ \A u \in TaskIds : Done(u)' = Done(u)
      BY <2>1, <3>1, <3>2 DEF Standing, Done
    <3>4. Ledger!Drop(t)
      BY <2>1, <3>3 DEF Ledger!Drop
    <3> QED
      BY <3>4 DEF Ledger!Next
  <2> QED
    BY <2>2, <2>3
<1>3. ASSUME NEW w \in Sockets, NEW parts \in (SUBSET Parts) \ {{}}, Begin(w, parts)
      PROVE  Ledger!Next
  <2>1. /\ nextId \in TaskIds /\ nextId' = nextId + 1 /\ nextId \in Nat
        /\ \A t \in TaskIds : t \in Int
    BY <1>3 DEF Begin, TypeOK, TaskIds
  <2>2. /\ UNCHANGED <<succeeded, completed, published>>
        /\ wanted'[nextId] = parts /\ \A t \in TaskIds : t # nextId => wanted'[t] = wanted[t]
        /\ DOMAIN tasks' = DOMAIN tasks \cup {nextId}
    BY <1>3, <2>1 DEF Begin, TypeOK
  <2>3. Done(nextId) = {} /\ \A t \in TaskIds : Done(t)' = Done(t)
    BY <2>1, <2>2 DEF Done, DoneInv, PartsInv
  <2>4. /\ Standing(nextId) = "new"
        /\ \A u \in TaskIds : Standing(u) = "new" => nextId <= u
    BY <2>1 DEF Standing
  <2>5. ASSUME NEW u \in TaskIds
        PROVE  Standing(u)' = IF u = nextId THEN "running" ELSE Standing(u)
    <3>1. /\ (u >= nextId + 1) <=> (u >= nextId /\ u # nextId)
          /\ u = nextId => ~(u >= nextId + 1)
      BY <2>1
    <3> QED
      BY <2>1, <2>2, <3>1 DEF Standing
  <2>6. PICK n \in TaskIds : n = nextId
    BY <2>1
  <2>7. [t \in TaskIds |-> wanted[t] \ Done(t)]'
          = [[t \in TaskIds |-> wanted[t] \ Done(t)] EXCEPT ![n] = parts]
    <3>1. \A t \in TaskIds : (wanted[t] \ Done(t))' = IF t = n THEN parts ELSE wanted[t] \ Done(t)
      BY <2>2, <2>3, <2>6
    <3> QED
      BY <3>1
  <2>8. Ledger!Accept(n, parts)
    BY <2>4, <2>5, <2>6, <2>7 DEF Ledger!Accept
  <2> QED
    BY <2>8 DEF Ledger!Next
<1>4. CASE HandOver \/ DispatchThrows \/ UNCHANGED vars
  BY <1>4, LedgerStutters DEF HandOver, DispatchThrows
<1>5. ASSUME NEW t \in TaskIds, NEW p \in Parts,
             UNCHANGED Ledger!vars \/ Ledger!Fail({t}) \/ Ledger!Succeed(t, p)
      PROVE  Ledger!Next \/ UNCHANGED Ledger!vars
  BY <1>5 DEF Ledger!Next
<1>6. ASSUME NEW success \in BOOLEAN, CallBackAtOnce(success)
      PROVE  Ledger!Next \/ UNCHANGED Ledger!vars
  <2>1. NextPart \in loop.todo /\ NextPart \in Parts /\ loop.task \in TaskIds
    BY <1>6, PartGoneType DEF CallBackAtOnce
  <2>2. PICK t \in TaskIds, p \in Parts : t = loop.task /\ p = NextPart
    BY <2>1
  <2>3. t < nextId /\ p \in wanted[t] /\ <<t, p>> \notin succeeded
    BY <2>1, <2>2 DEF DoneInv, PartsInv, TypeOK
  <2>4. /\ CallBack(t, success) /\ Succeeds(t, p, success)
        /\ nextId' = nextId /\ wanted' = wanted
    BY <1>6, <2>2 DEF CallBackAtOnce
  <2> QED
    BY <1>5, <2>3, <2>4, CallBackLedger
<1>7. ASSUME NEW success \in BOOLEAN, NEW t \in TaskIds, NEW p \in Parts,
             ExecutorReports(t, p, success)
      PROVE  Ledger!Next \/ UNCHANGED Ledger!vars
  <2>1. t < nextId /\ p \in wanted[t] /\ <<t, p>> \notin succeeded
    BY <1>7 DEF ExecutorReports, DoneInv, PartsInv
  <2>2. /\ CallBack(t, success) /\ Succeeds(t, p, success)
        /\ nextId' = nextId /\ wanted' = wanted
    BY <1>7 DEF ExecutorReports
  <2> QED
    BY <1>5, <2>1, <2>2, CallBackLedger
<1>8. CASE Cleanup
  <2>1. PICK oldest \in DOMAIN tasks : EndTasks({t \in DOMAIN tasks : t <= oldest})
    BY <1>8 DEF Cleanup
  <2> DEFINE S == {t \in DOMAIN tasks : t <= oldest}
  <2>2. S \in SUBSET DOMAIN tasks /\ EndTasks(S) /\ S \in SUBSET TaskIds
    BY <2>1 DEF TypeOK
  <2>3. UNCHANGED <<nextId, completed, wanted, succeeded>>
    BY <1>8 DEF Cleanup
  <2> HIDE DEF S
  <2>4. Ledger!Fail(S)
    BY <2>2, <2>3, EndTasksFail
  <2> QED
    BY <2>2, <2>4 DEF Ledger!Next
<1> QED
  BY <1>1, <1>2, <1>3, <1>4, <1>6, <1>7, <1>8 DEF Next

LEMMA InitLedger == Init => Ledger!Init
<1> SUFFICES ASSUME Init PROVE Ledger!Init
  OBVIOUS
<1>1. \A t \in TaskIds : t >= nextId /\ wanted[t] = {}
  BY DEF Init, TaskIds
<1> QED
  BY <1>1 DEF Ledger!Init, Standing

\* Whatever the order and the threads of callbacks, timeouts, exceptions and closed
\* connections, tasks live as in the ledger: numbered in the order of acceptance,
\* completed exactly when the last part succeeds, and with one end that is final.
THEOREM LedgerRefined == Spec => ImplementsLedger
<1>1. Init => LedgerInv /\ Ledger!Init
  BY InitType, InitTell, InitDone, InitFinal, InitLedger DEF LedgerInv
<1>2. LedgerInv /\ [Next]_vars => LedgerInv' /\ [Ledger!Next]_(Ledger!vars)
  <2>1. LedgerInv /\ [Next]_vars => LedgerInv'
    BY NextType, NextTell, NextDone, NextFinal DEF LedgerInv
  <2> QED
    BY <2>1, NextLedger
<1> QED
  BY <1>1, <1>2, PTL DEF Spec, ImplementsLedger, Ledger!Spec

\* The whole inductive invariant holds of every run of the service.
THEOREM Invariance == Spec => []IInv
<1>1. Init => LedgerInv /\ ClientInv
  BY InitType, InitTell, InitClient, InitDone, InitFinal DEF LedgerInv
<1>2. (LedgerInv /\ ClientInv) /\ [Next]_vars => (LedgerInv /\ ClientInv)'
  BY NextType, NextTell, NextClient, NextDone, NextFinal DEF LedgerInv
<1>3. LedgerInv /\ ClientInv => IInv
  BY DEF IInv, LedgerInv, TellInv, ClientInv, DoneInv
<1> QED
  BY <1>1, <1>2, <1>3, PTL DEF Spec
============================================================================
