------------------------ MODULE RegisterBank_proofs ------------------------
(* ModbusProtocol implements RegisterBank, for any number of threads and      *)
(* requests: while nothing has timed out, calls are atomic.                   *)
EXTENDS ModbusProtocol_proofs

modes == [t \in Callers |-> Mode(t)]
answered == [t \in Callers |-> Answer(t)]

\* What one thread's step changes in the mapped variables.
LEMMA OneMode ==
  ASSUME NEW t \in Callers, NEW m, Mode(t)' = m,
         \A u \in Callers : u # t => Mode(u)' = Mode(u)
  PROVE  modes' = [modes EXCEPT ![t] = m]
BY DEF modes

LEMMA OneAnswer ==
  ASSUME NEW t \in Callers, NEW v, Answer(t)' = v,
         \A u \in Callers : u # t => Answer(u)' = Answer(u)
  PROVE  answered' = [answered EXCEPT ![t] = v]
BY DEF answered

LEMMA SameMapped ==
  ASSUME \A u \in Callers : Mode(u)' = Mode(u) /\ Answer(u)' = Answer(u)
  PROVE  modes' = modes /\ answered' = answered
BY DEF modes, answered

\* A thread that is not in an exchange is mapped to where it is.
LEMMA Mapped ==
  ASSUME NEW t \in Callers
  PROVE  /\ pc[t] = "idle" => Mode(t) = "idle" /\ Answer(t) = result[t]
         /\ pc[t] = "lock" => Mode(t) = "called" /\ Answer(t) = result[t]
         /\ pc[t] = "wait" /\ served = 0 => Mode(t) = "called" /\ Answer(t) = result[t]
         /\ pc[t] = "wait" /\ served # 0 =>
              /\ Mode(t) = "done"
              /\ Answer(t) = IF op[t].kind \in Reading THEN pipe[1].value ELSE 0
         /\ pc[t] = "returning" => Mode(t) = "done" /\ Answer(t) = result[t]
BY DEF Mode, Answer

\* A thread is moved by its own steps only, unless it waits and the pipe changes.
LEMMA OthersMapped ==
  ASSUME NEW u \in Callers, pc'[u] = pc[u], op'[u] = op[u], result'[u] = result[u],
         pc[u] = "wait" => UNCHANGED <<served, pipe>>
  PROVE  Mode(u)' = Mode(u) /\ Answer(u)' = Answer(u)
BY DEF Mode, Answer

----------------------------------------------------------------------------
LEMMA BankInit == Init => Bank!Init
<1> SUFFICES ASSUME Init PROVE Bank!Init
  OBVIOUS
<1>1. \A t \in Callers : Mode(t) = "idle"
  BY DEF Init, Mode
<1>2. (timeouts > 0) = FALSE
  BY DEF Init
<1> QED
  BY <1>1, <1>2 DEF Bank!Init

LEMMA BankStep == TypeOK /\ InOrder /\ Truthful /\ [Next]_vars => [Bank!Next]_(Bank!vars)
<1> SUFFICES ASSUME TypeOK, InOrder, Truthful, [Next]_vars PROVE [Bank!Next]_(Bank!vars)
  OBVIOUS
<1>a. CASE timeouts' # 0
  <2>1. timeouts' \in Nat
    BY StepType DEF TypeOK
  <2>2. (timeouts > 0)' = TRUE
    BY <1>a, <2>1
  <2> QED
    BY <2>2 DEF Bank!Next
<1>b. CASE timeouts' = 0
  <2>0. timeouts = 0 /\ (timeouts > 0)' = (timeouts > 0)
    BY <1>b, TimeoutsStay
  <2>a. \A u \in Callers : pc[u] = "wait" => mutex = u
    BY DEF InOrder
  <2>b. Nobody \notin Callers
    BY LinkAssumption DEF LinkAssumption
  <2> DEFINE Stutters == /\ regs' = regs /\ op' = op
                         /\ \A u \in Callers : Mode(u)' = Mode(u) /\ Answer(u)' = Answer(u)
  <2>c. ASSUME Stutters PROVE UNCHANGED Bank!vars
    <3>1. modes' = modes /\ answered' = answered
      BY <2>c, SameMapped
    <3> QED
      BY <2>0, <2>c, <3>1 DEF Bank!vars, modes, answered
  <2>d. ASSUME Bank!Atomic PROVE Bank!Next
    BY <2>0, <2>d DEF Bank!Next
  <2> HIDE DEF Stutters
  <2> USE DEF Goes, above, drive, counts, trouble
  <2>1. ASSUME NEW t \in Callers, NEW o \in Calls[t], Call(t, o)
        PROVE  Bank!Call(t, o) \/ Bank!Refuse(t, o)
    <3>1. \A u \in Callers : u # t => Mode(u)' = Mode(u) /\ Answer(u)' = Answer(u)
      BY <2>1, OthersMapped DEF Call, TypeOK
    <3>2. /\ Mode(t) = "idle" /\ op' = [op EXCEPT ![t] = o] /\ regs' = regs
          /\ result'[t] = 0 /\ pc'[t] = IF ready THEN "lock" ELSE "returning"
      BY <2>1, Mapped DEF Call, TypeOK
    <3>3. Answer(t)' = 0 /\ Mode(t)' = IF ready THEN "called" ELSE "done"
      BY <3>2 DEF Mode, Answer
    <3>4. /\ answered' = [answered EXCEPT ![t] = 0]
          /\ modes' = [modes EXCEPT ![t] = IF ready THEN "called" ELSE "done"]
          /\ modes[t] = "idle"
      BY <3>1, <3>2, <3>3, OneMode, OneAnswer DEF modes
    <3> QED
      BY <3>2, <3>4 DEF Bank!Call, Bank!Refuse, Bank!Goes, modes, answered
  <2>2. ASSUME NEW t \in Callers, NEW o \in Calls[t], CallText(t, o) PROVE Stutters
    BY <2>2, OthersMapped DEF CallText, Stutters
  <2>3. ASSUME NEW t \in Callers, Send(t) PROVE Stutters
    <3>1. mutex = Nobody /\ \A u \in Callers : pc[u] # "wait"
      BY <2>3, <2>a, <2>b DEF Send
    <3>2. served = 0
      BY <2>0, <2>b, <3>1, AloneInPipe
    <3>3. served' = 0 /\ pc[t] = "lock" /\ pc'[t] = "wait" /\ op' = op /\ result' = result
      BY <2>3, <3>2 DEF Send, TypeOK
    <3>4. Mode(t)' = Mode(t) /\ Answer(t)' = Answer(t)
      BY <3>3 DEF Mode, Answer
    <3>5. \A u \in Callers : u # t => Mode(u)' = Mode(u) /\ Answer(u)' = Answer(u)
      BY <2>3, <3>1, OthersMapped DEF Send, TypeOK
    <3> QED
      BY <2>3, <3>4, <3>5 DEF Stutters, Send
  <2>4. ASSUME NEW t \in Callers, SendFails(t) PROVE Bank!Fail(t)
    <3>1. \A u \in Callers : u # t => Mode(u)' = Mode(u) /\ Answer(u)' = Answer(u)
      BY <2>4, OthersMapped DEF SendFails, TypeOK
    <3>2. /\ pc[t] = "lock" /\ pc'[t] = "returning" /\ result'[t] = 0
          /\ regs' = regs /\ op' = op
      BY <2>4 DEF SendFails, TypeOK, Truthful
    <3>3. Mode(t) = "called" /\ Mode(t)' = "done" /\ Answer(t)' = 0
      BY <3>2 DEF Mode, Answer
    <3>4. /\ answered' = [answered EXCEPT ![t] = 0] /\ modes[t] = "called"
          /\ modes' = [modes EXCEPT ![t] = "done"]
      BY <3>1, <3>3, OneMode, OneAnswer DEF modes
    <3> QED
      BY <3>2, <3>4 DEF Bank!Fail, Bank!Goes, modes, answered
  <2>5. ASSUME NEW t \in Callers, Receive(t) PROVE Stutters
    <3>1. \A u \in Callers : u # t => pc[u] # "wait"
      BY <2>5, <2>a DEF Receive
    <3>2. \A u \in Callers : u # t => Mode(u)' = Mode(u) /\ Answer(u)' = Answer(u)
      BY <2>5, <3>1, OthersMapped DEF Receive, TypeOK
    <3>3. /\ pc[t] = "wait" /\ served # 0 /\ pc'[t] = "returning" /\ op' = op
          /\ result'[t] = IF op[t].kind \in Reading THEN Decode(pipe[1]) ELSE 0
      BY <2>5, ReceivePipe DEF Receive, TypeOK
    <3>4. pipe[1].op = op[t]
      <4>1. mutex = t /\ Len(pipe) = 1
        BY <2>0, <2>a, <3>3, AloneInPipe
      <4> QED
        BY <2>0, <4>1, AloneInPipe
    <3>5. Mode(t)' = Mode(t) /\ Answer(t)' = Answer(t)
      BY <3>3, <3>4 DEF Mode, Answer, Decode
    <3> QED
      BY <2>5, <3>2, <3>5 DEF Stutters, Receive
  <2>6. ASSUME NEW t \in Callers, TimesOut(t) PROVE FALSE
    BY <2>6, <1>b, PipeFacts DEF TimesOut
  <2>7. ASSUME NEW t \in Callers, Return(t) PROVE Bank!Return(t)
    <3>1. \A u \in Callers : u # t => Mode(u)' = Mode(u) /\ Answer(u)' = Answer(u)
      BY <2>7, OthersMapped DEF Return, TypeOK
    <3>2. /\ pc[t] = "returning" /\ pc'[t] = "idle" /\ result' = result
          /\ regs' = regs /\ op' = op
      BY <2>7 DEF Return, TypeOK
    <3>3. Mode(t) = "done" /\ Mode(t)' = "idle" /\ Answer(t)' = Answer(t)
      BY <3>2 DEF Mode, Answer
    <3>4. modes[t] = "done" /\ modes' = [modes EXCEPT ![t] = "idle"]
      BY <3>1, <3>3, OneMode DEF modes
    <3>5. answered' = answered
      BY <3>1, <3>3 DEF answered
    <3> QED
      BY <3>2, <3>4, <3>5 DEF Bank!Return, Bank!Goes, modes, answered
  <2>8. ASSUME Serve PROVE \E t \in Callers : Bank!Effect(t)
    <3>a. Len(pipe) = 1 /\ served = 0 /\ mutex \in Callers
      BY <2>8, <2>0, AloneInPipe DEF Serve
    <3> PICK t \in Callers : t = mutex
      BY <3>a
    <3> DEFINE o == op[t]
               r == Register[o.kind][o.axis]
    <3>1. /\ served' = 1 /\ pc[t] = "wait" /\ pipe[1].op = o
          /\ pc' = pc /\ op' = op /\ result' = result
      BY <2>8, <2>0, <3>a, AloneInPipe DEF Serve
    <3>2. /\ regs' = IF o.kind \in Reading \cup Coils THEN regs
                     ELSE [regs EXCEPT ![r] = o.value]
          /\ o.kind \in Reading => pipe'[1].value = regs[r]
      BY <2>8, <3>a, <3>1, ServePipe DEF Serve
    <3>3. /\ Mode(t) = "called" /\ Mode(t)' = "done"
          /\ Answer(t)' = IF o.kind \in Reading THEN regs[r] ELSE 0
      BY <3>a, <3>1, <3>2 DEF Mode, Answer
    <3>4. \A u \in Callers : u # t => Mode(u)' = Mode(u) /\ Answer(u)' = Answer(u)
      BY <2>a, <3>1, OthersMapped
    <3>5. modes' = [modes EXCEPT ![t] = "done"] /\ modes[t] = "called"
      BY <3>3, <3>4, OneMode DEF modes
    <3>6. answered' = [answered EXCEPT ![t] = IF o.kind \in Reading THEN regs[r] ELSE 0]
      <4> HIDE DEF r, o
      <4> QED
        BY <3>3, <3>4, OneAnswer
    <3> QED
      BY <3>1, <3>2, <3>5, <3>6 DEF Bank!Effect, Bank!Goes, modes, answered
  <2>12. ASSUME Refuse PROVE \E t \in Callers : Bank!Fail(t)
    <3>a. Len(pipe) = 1 /\ served = 0 /\ mutex \in Callers
      BY <2>12, <2>0, AloneInPipe DEF Refuse
    <3> PICK t \in Callers : t = mutex
      BY <3>a
    <3> DEFINE v == IF op[t].kind \in Reading THEN pipe'[1].value ELSE 0
    <3>1. /\ served' = 1 /\ pc[t] = "wait" /\ regs' = regs
          /\ pc' = pc /\ op' = op /\ result' = result
      BY <2>12, <2>0, <3>a, AloneInPipe DEF Refuse
    <3>2. pipe'[1].value \in Unread
      BY <2>12, <3>a, RefusePipe
    <3>3. Mode(t) = "called" /\ Mode(t)' = "done" /\ Answer(t)' = v
      BY <3>a, <3>1 DEF Mode, Answer
    <3>4. \A u \in Callers : u # t => Mode(u)' = Mode(u) /\ Answer(u)' = Answer(u)
      BY <2>a, <3>1, OthersMapped
    <3>5. modes' = [modes EXCEPT ![t] = "done"] /\ modes[t] = "called"
      BY <3>3, <3>4, OneMode DEF modes
    <3>6. v \in IF op[t].kind \in Reading THEN {0} \cup Unread ELSE {0}
      BY <3>2
    <3> HIDE DEF v
    <3>7. answered' = [answered EXCEPT ![t] = v]
      BY <3>3, <3>4, OneAnswer
    <3> QED
      BY <3>1, <3>5, <3>6, <3>7 DEF Bank!Fail, Bank!Goes, modes, answered
  <2>9. ASSUME Silent PROVE Stutters
    <3>1. served = 0
      <4>1. served < Len(pipe)
        BY <2>9 DEF Silent
      <4>2. Len(pipe) \in 0 .. 1 /\ served \in 0 .. Len(pipe)
        BY <2>0, AloneInPipe
      <4>3. \A n \in 0 .. 1 : \A s \in 0 .. n : s < n => s = 0
        OBVIOUS
      <4> QED
        BY <4>1, <4>2, <4>3
    <3>2. served' = served /\ pc' = pc /\ op' = op /\ result' = result /\ regs' = regs
      BY <2>9 DEF Silent
    <3> QED
      BY <3>1, <3>2 DEF Stutters, Mode, Answer
  <2>10. ASSUME NEW a \in Axes, DriveMoves(a) PROVE Bank!Moves(Register.coordinate[a])
    <3>1. modes' = modes /\ answered' = answered /\ op' = op
      BY <2>10, SameMapped, OthersMapped DEF DriveMoves
    <3>2. Register.coordinate[a] \in Addresses
      BY Coordinates
    <3>3. regs' = [regs EXCEPT ![Register.coordinate[a]] = regs'[Register.coordinate[a]]]
      BY <2>10, <3>2 DEF DriveMoves, TypeOK
    <3> QED
      BY <3>1, <3>3 DEF Bank!Moves, modes, answered
  <2>11. CASE UNCHANGED vars
    <3>1. Stutters
      BY <2>11, OthersMapped DEF vars, Stutters
    <3> QED
      BY <2>c, <3>1
  <2> QED
    BY <2>c, <2>d, <2>1, <2>2, <2>3, <2>4, <2>5, <2>6, <2>7, <2>8, <2>9, <2>10, <2>11, <2>12
    DEF Next, Bank!Atomic
<1> QED
  BY <1>a, <1>b DEF TypeOK

(* While nothing has timed out, every call on the link takes effect at one    *)
(* moment between its start and its return, or fails without effect, and gets *)
(* its own answer (packData, packRegisterData, packSingleCoilData;            *)
(* modbus_protocol.cpp:45-189), for any threads, calls and number of requests.*)
THEOREM CallsAreAtomic == Spec => AtomicCalls
<1> DEFINE I == TypeOK /\ InOrder /\ Truthful
<1>1. Init => I
  BY InitType, InitInOrder, InitTruthful
<1>2. I /\ [Next]_vars => I'
  BY StepType, StepInOrder, StepTruthful
<1>3. I /\ [Next]_vars => [Bank!Next]_(Bank!vars)
  BY BankStep
<1> QED
  BY <1>1, <1>2, <1>3, BankInit, PTL DEF Spec, AtomicCalls, Bank!Spec
=============================================================================
