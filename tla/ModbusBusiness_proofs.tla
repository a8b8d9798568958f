----------------------- MODULE ModbusBusiness_proofs -----------------------
(* Theorems about ModbusBusiness, for every set of requests, every choice of *)
(* ids, targets and callbacks, and every value of the counters' bounds.      *)
EXTENDS ModbusBusiness, SequenceTheorems, TLAPS

USE DEF vars, queueVars, resetVars, pollerVars, tellVars, cacheVars
USE DEF Axes, NoTask, NoAxis, NeverSet, Nobody
USE DEF AxisPCs, MoverPCs, PollerPCs

----------------------------------------------------------------------------
(* Type correctness.                                                        *)

LEMMA ZeroIsWord == 0 \in Words
  BY DEF Words

LEMMA InitType == Init => TypeOK
<1> SUFFICES ASSUME Init PROVE TypeOK
  OBVIOUS
<1>2. queue \in Seq(Requests)
  BY DEF Init
<1>3. /\ last \in [Axes -> Int] /\ polled \in [Axes -> Words]
      /\ goal \in [Axes -> Words] /\ pos \in [Axes -> Words]
  BY ZeroIsWord DEF Init
<1>4. stopping \in BOOLEAN /\ pending \in BOOLEAN /\ ok \in BOOLEAN
  BY Zenon DEF Init
<1>5. answers \in [Requests -> Nat] /\ posts \in [Requests -> Nat]
  BY DEF Init
<1> QED
  BY <1>2, <1>3, <1>4, <1>5 DEF Init, TypeOK

LEMMA CallersType == TypeOK /\ Callers => TypeOK'
<1> SUFFICES ASSUME TypeOK, Callers PROVE TypeOK'
  OBVIOUS
<1> USE ConstantsAssumption DEF ConstantsAssumption, TypeOK
<1>1. ASSUME NEW r \in Requests, PushRejected(r) PROVE TypeOK'
  BY <1>1 DEF PushRejected, CallerUnchanged, Calls, CallBack
<1>2. ASSUME NEW r \in Requests, PushNothingToDo(r) PROVE TypeOK'
  BY <1>2 DEF PushNothingToDo, CallerUnchanged, Calls, CallBack
<1>3. ASSUME NEW r \in Requests, PushQueued(r) PROVE TypeOK'
  BY <1>3 DEF PushQueued, CallerUnchanged, Calls, Notify
<1>4. ASSUME NEW r \in Requests, Cancel(TaskId[r]) PROVE TypeOK'
  BY <1>4 DEF Cancel, ResetStarts, ResetUnchanged
<1>5. CASE Stop
  BY <1>5 DEF Stop, CallerUnchanged, Notify
<1> QED
  BY <1>1, <1>2, <1>3, <1>4, <1>5 DEF Callers
LEMMA WordsAreIntegers == Words \subseteq Int
  BY DEF Words

\* Counting one more announcement keeps a counter's type.
LEMMA CountType ==
  ASSUME NEW f \in [Requests -> Nat], NEW r
  PROVE  [f EXCEPT ![r] = @ + 1] \in [Requests -> Nat]
<1>1. CASE r \in Requests
  BY <1>1
<1>2. CASE r \notin Requests
  <2>1. \A q \in Requests : [f EXCEPT ![r] = @ + 1][q] = f[q]
    BY <1>2
  <2> QED
    BY <2>1
<1> QED
  BY <1>1, <1>2

LEMMA AxisReturnsType ==
  ASSUME TypeOK, NEW b \in BOOLEAN, AxisReturns(b), active' \in Axes \cup {NoAxis}
  PROVE  TypeOK'
<1>1. ok' \in BOOLEAN
  BY Zenon DEF AxisReturns
<1>2. axis' \in Axes /\ mpc' \in MoverPCs
  BY DEF AxisReturns, TypeOK
<1> QED
  BY <1>1, <1>2 DEF AxisReturns, MoverMoves, MoverUnchanged, TypeOK

LEMMA MoverType == TypeOK /\ Mover => TypeOK'
<1> SUFFICES ASSUME TypeOK, Mover PROVE TypeOK'
  OBVIOUS
<1> USE DEF TypeOK
<1>1. CASE Take
  <2>1. pending' \in BOOLEAN
    BY <1>1, Zenon DEF Take
  <2>2. /\ serving' \in Requests /\ queue' \in Seq(Requests)
        /\ current' \in Nat
    BY <1>1, ConstantsAssumption DEF Take, ConstantsAssumption
  <2> QED
    BY <1>1, <2>1, <2>2 DEF Take, MoverUnchanged
<1>2. CASE FindNothing
  BY <1>2 DEF FindNothing, MoverMoves, MoverUnchanged
<1>3. CASE Block
  BY <1>3 DEF Block, MoverMoves, MoverUnchanged
<1>4. CASE MoverExit
  BY <1>4 DEF MoverExit, MoverMoves, MoverUnchanged
<1>5. CASE SkipAxis
  BY <1>5, AxisReturnsType DEF SkipAxis
<1>6. CASE EnterCancelled
  BY <1>6, AxisReturnsType DEF EnterCancelled
<1>7. CASE EnterAxis
  BY <1>7 DEF EnterAxis, MoverMoves, MoverUnchanged
<1>8. CASE Arm
  BY <1>8 DEF Arm, MoverMoves, MoverUnchanged
<1>9. CASE SendCommand
  <2>1. Target[serving][axis] \in Words /\ Target[serving][axis] \in Int
    BY <1>9, WordsAreIntegers DEF SendCommand
  <2>2. goal' \in [Axes -> Words] /\ last' \in [Axes -> Int]
    BY <1>9, <2>1 DEF SendCommand
  <2>3. late' \in Nat
    BY <1>9 DEF SendCommand
  <2> QED
    BY <1>9, <2>2, <2>3, ConstantsAssumption
    DEF SendCommand, MoverUnchanged, ConstantsAssumption
<1>10. CASE Terminate
  BY <1>10 DEF Terminate, MoverMoves, MoverUnchanged
<1>11. CASE Settle
  BY <1>11, ConstantsAssumption DEF Settle, MoverMoves, MoverUnchanged, ConstantsAssumption
<1>12. CASE SettleCancelled
  BY <1>12, AxisReturnsType DEF SettleCancelled, LeaveAxis
<1>13. CASE Watch
  BY <1>13 DEF Watch, MoverMoves, MoverUnchanged, Watching
<1>14. CASE WatchReached
  BY <1>14, AxisReturnsType DEF WatchReached, LeaveAxis
<1>15. CASE WatchTimeout
  BY <1>15, AxisReturnsType DEF WatchTimeout, LeaveAxis
<1>16. CASE WatchCancelled
  BY <1>16, AxisReturnsType DEF WatchCancelled, LeaveAxis
<1>17. CASE WatchStopped
  BY <1>17, AxisReturnsType DEF WatchStopped, LeaveAxis
<1>18. CASE Report
  <2>1. pending' \in BOOLEAN
    BY <1>18, Zenon DEF Report
  <2>2. countdown' \in Int
    BY <1>18, ConstantsAssumption DEF Report, ConstantsAssumption
  <2>3. answers' \in [Requests -> Nat] /\ posts' \in [Requests -> Nat]
    <3>1. [answers EXCEPT ![serving] = @ + 1] \in [Requests -> Nat]
      BY CountType
    <3>2. [posts EXCEPT ![serving] = @ + 1] \in [Requests -> Nat]
      BY CountType
    <3> QED
      BY <1>18, <3>1, <3>2, Zenon DEF Report
  <2> QED
    BY <1>18, <2>1, <2>2, <2>3 DEF Report, MoverUnchanged
<1>19. CASE EndReset
  BY <1>19 DEF EndReset, MoverUnchanged, ResetStarts
<1>20. CASE Release
  BY <1>20 DEF Release, MoverUnchanged
<1> QED
  BY <1>1, <1>2, <1>3, <1>4, <1>5, <1>6, <1>7, <1>8, <1>9, <1>10, <1>11, <1>12, <1>13, <1>14, <1>15, <1>16, <1>17, <1>18, <1>19, <1>20 DEF Mover

LEMMA ResetType == TypeOK /\ (ResetSwap \/ ResetClear) => TypeOK'
<1> SUFFICES ASSUME TypeOK PROVE ResetSwap \/ ResetClear => TypeOK'
  OBVIOUS
<1> USE DEF TypeOK
<1>1. ASSUME ResetSwap PROVE TypeOK'
  <2>1. ToSet(queue) \subseteq Requests
    BY DEF ToSet
  <2> QED
    BY <1>1, <2>1 DEF ResetSwap, ResetUnchanged
<1>2. ASSUME ResetClear PROVE TypeOK'
  BY <1>2 DEF ResetClear, ResetUnchanged
<1> QED
  BY <1>1, <1>2

LEMMA PollerType == TypeOK /\ Poller => TypeOK'
<1> SUFFICES ASSUME TypeOK, Poller PROVE TypeOK'
  OBVIOUS
<1> USE ConstantsAssumption, WordsAreIntegers, ZeroIsWord
    DEF ConstantsAssumption, TypeOK, PollerUnchanged
<1>1. CASE ReadActive
  BY <1>1 DEF ReadActive
<1>2. CASE PollerExit
  BY <1>2 DEF PollerExit
<1>3. CASE Poll
  BY <1>3 DEF Poll, Query
<1>4. CASE Verify
  BY <1>4 DEF Verify
<1>5. CASE FixX
  <2>1. polled["X"] \in Int
    OBVIOUS
  <2> QED
    BY <1>5, <2>1 DEF FixX
<1>6. CASE FixZ
  <2>1. polled["Z"] \in Int
    OBVIOUS
  <2> QED
    BY <1>6, <2>1 DEF FixZ
<1> QED
  BY <1>1, <1>2, <1>3, <1>4, <1>5, <1>6 DEF Poller

LEMMA NextType == TypeOK /\ [Next]_vars => TypeOK'
<1> SUFFICES ASSUME TypeOK, [Next]_vars PROVE TypeOK'
  OBVIOUS
<1>1. CASE SpuriousWake
  BY <1>1 DEF SpuriousWake, MoverMoves, MoverUnchanged, TypeOK
<1>2. ASSUME NEW a \in Axes, DriveMoves(a) PROVE TypeOK'
  BY <1>2 DEF DriveMoves, TypeOK
<1>3. CASE UNCHANGED vars
  BY <1>3 DEF TypeOK
<1> QED
  BY <1>1, <1>2, <1>3, CallersType, MoverType, ResetType, PollerType DEF Next

\* Every variable keeps its type, for every choice of the constants.
THEOREM TypeCorrect == Spec => []TypeOK
<1>1. Init => TypeOK
  BY InitType
<1>2. TypeOK /\ [Next]_vars => TypeOK'
  BY NextType
<1> QED
  BY <1>1, <1>2, PTL DEF Spec

----------------------------------------------------------------------------
(* Control: who holds mutex_data_, what the busy flag names, and that a     *)
(* reset stays within the movement it cancels.                              *)

LEMMA ControlStep == TypeOK /\ ControlInv /\ [Next]_vars => ControlInv'
<1> SUFFICES ASSUME TypeOK /\ ControlInv, [Next]_vars PROVE ControlInv'
  OBVIOUS
<1> USE DEF TypeOK, ControlInv, ServingInv, ResetInv, ResetConfined, BusyMeansServing, InService
<1>1. ASSUME NEW r \in Requests, PushRejected(r) PROVE ControlInv'
  BY <1>1 DEF PushRejected, CallerUnchanged
<1>2. ASSUME NEW r \in Requests, PushNothingToDo(r) PROVE ControlInv'
  BY <1>2 DEF PushNothingToDo, CallerUnchanged
<1>3. ASSUME NEW r \in Requests, PushQueued(r) PROVE ControlInv'
  BY <1>3 DEF PushQueued, CallerUnchanged, Notify
<1>4. ASSUME NEW r \in Requests, Cancel(TaskId[r]) PROVE ControlInv'
  BY <1>4 DEF Cancel, ResetStarts, ResetUnchanged
<1>5. CASE Stop
  BY <1>5 DEF Stop, CallerUnchanged, Notify
<1>6. CASE Take
  <2>1. Head(queue) \in Requests /\ Head(queue) # Nobody
    BY <1>6, ConstantsAssumption DEF Take, ConstantsAssumption
  <2> QED
    BY <1>6, <2>1 DEF Take, MoverUnchanged
<1>7. CASE FindNothing
  BY <1>7 DEF FindNothing, MoverMoves, MoverUnchanged
<1>8. CASE Block
  BY <1>8 DEF Block, MoverMoves, MoverUnchanged
<1>9. CASE MoverExit
  BY <1>9 DEF MoverExit, MoverMoves, MoverUnchanged
<1>10. CASE SkipAxis
  BY <1>10 DEF SkipAxis, AxisReturns, MoverMoves, MoverUnchanged
<1>11. CASE EnterCancelled
  BY <1>11 DEF EnterCancelled, AxisReturns, MoverMoves, MoverUnchanged
<1>12. CASE EnterAxis
  BY <1>12 DEF EnterAxis, MoverMoves, MoverUnchanged
<1>13. CASE Arm
  BY <1>13 DEF Arm, MoverMoves, MoverUnchanged
<1>14. CASE SendCommand
  BY <1>14 DEF SendCommand, MoverUnchanged
<1>15. CASE Terminate
  BY <1>15 DEF Terminate, MoverMoves, MoverUnchanged
<1>16. CASE Settle
  BY <1>16 DEF Settle, MoverMoves, MoverUnchanged
<1>17. CASE SettleCancelled
  BY <1>17 DEF SettleCancelled, LeaveAxis, AxisReturns, MoverMoves, MoverUnchanged
<1>18. CASE Watch
  BY <1>18 DEF Watch, Watching, MoverMoves, MoverUnchanged
<1>19. CASE WatchReached
  BY <1>19 DEF WatchReached, Watching, LeaveAxis, AxisReturns, MoverMoves, MoverUnchanged
<1>20. CASE WatchTimeout
  BY <1>20 DEF WatchTimeout, Watching, LeaveAxis, AxisReturns, MoverMoves, MoverUnchanged
<1>21. CASE WatchCancelled
  BY <1>21 DEF WatchCancelled, LeaveAxis, AxisReturns, MoverMoves, MoverUnchanged
<1>22. CASE WatchStopped
  BY <1>22 DEF WatchStopped, LeaveAxis, AxisReturns, MoverMoves, MoverUnchanged
<1>23. CASE Report
  BY <1>23 DEF Report, MoverUnchanged
<1>24. CASE EndReset
  BY <1>24 DEF EndReset, MoverUnchanged, ResetStarts
<1>25. CASE Release
  BY <1>25 DEF Release, MoverUnchanged
<1>26. CASE SpuriousWake
  BY <1>26 DEF SpuriousWake, MoverMoves, MoverUnchanged
<1>27. CASE ResetSwap
  BY <1>27 DEF ResetSwap, ResetUnchanged
<1>28. CASE ResetClear
  BY <1>28 DEF ResetClear, ResetUnchanged
<1>29. CASE Poller
  BY <1>29 DEF Poller, ReadActive, PollerExit, Poll, Verify, FixX, FixZ, PollerUnchanged
<1>30. ASSUME NEW a \in Axes, DriveMoves(a) PROVE ControlInv'
  BY <1>30 DEF DriveMoves
<1>31. CASE UNCHANGED vars
  BY <1>31
<1> QED
  BY <1>1, <1>2, <1>3, <1>4, <1>5, <1>6, <1>7, <1>8, <1>9, <1>10, <1>11,
     <1>12, <1>13, <1>14, <1>15, <1>16, <1>17, <1>18, <1>19, <1>20, <1>21,
     <1>22, <1>23, <1>24, <1>25, <1>26, <1>27, <1>28, <1>29, <1>30, <1>31
  DEF Next, Callers, Mover

----------------------------------------------------------------------------
(* The polled axis, and what is sent after a cancellation.                  *)

LEMMA ActiveStep == TypeOK /\ ActiveAxisOwned /\ [Next]_vars => ActiveAxisOwned'
<1> SUFFICES ASSUME TypeOK /\ ActiveAxisOwned, [Next]_vars PROVE ActiveAxisOwned'
  OBVIOUS
<1> USE DEF TypeOK, ActiveAxisOwned
<1>1. ASSUME NEW r \in Requests, PushRejected(r) PROVE ActiveAxisOwned'
  BY <1>1 DEF PushRejected, CallerUnchanged
<1>2. ASSUME NEW r \in Requests, PushNothingToDo(r) PROVE ActiveAxisOwned'
  BY <1>2 DEF PushNothingToDo, CallerUnchanged
<1>3. ASSUME NEW r \in Requests, PushQueued(r) PROVE ActiveAxisOwned'
  BY <1>3 DEF PushQueued, CallerUnchanged, Notify
<1>4. ASSUME NEW r \in Requests, Cancel(TaskId[r]) PROVE ActiveAxisOwned'
  BY <1>4 DEF Cancel, ResetStarts, ResetUnchanged
<1>5. CASE Stop
  BY <1>5 DEF Stop, CallerUnchanged, Notify
<1>6. CASE Take
  BY <1>6 DEF Take, MoverUnchanged
<1>7. CASE FindNothing
  BY <1>7 DEF FindNothing, MoverMoves, MoverUnchanged
<1>8. CASE Block
  BY <1>8 DEF Block, MoverMoves, MoverUnchanged
<1>9. CASE MoverExit
  BY <1>9 DEF MoverExit, MoverMoves, MoverUnchanged
<1>10. CASE SkipAxis
  BY <1>10 DEF SkipAxis, AxisReturns, MoverMoves, MoverUnchanged
<1>11. CASE EnterCancelled
  BY <1>11 DEF EnterCancelled, AxisReturns, MoverMoves, MoverUnchanged
<1>12. CASE EnterAxis
  BY <1>12 DEF EnterAxis, MoverMoves, MoverUnchanged
<1>13. CASE Arm
  BY <1>13 DEF Arm, MoverMoves, MoverUnchanged
<1>14. CASE SendCommand
  BY <1>14 DEF SendCommand, MoverUnchanged
<1>15. CASE Terminate
  BY <1>15 DEF Terminate, MoverMoves, MoverUnchanged
<1>16. CASE Settle
  BY <1>16 DEF Settle, MoverMoves, MoverUnchanged
<1>17. CASE SettleCancelled
  BY <1>17 DEF SettleCancelled, LeaveAxis, AxisReturns, MoverMoves, MoverUnchanged
<1>18. CASE Watch
  BY <1>18 DEF Watch, Watching, MoverMoves, MoverUnchanged
<1>19. CASE WatchReached
  BY <1>19 DEF WatchReached, Watching, LeaveAxis, AxisReturns, MoverMoves, MoverUnchanged
<1>20. CASE WatchTimeout
  BY <1>20 DEF WatchTimeout, Watching, LeaveAxis, AxisReturns, MoverMoves, MoverUnchanged
<1>21. CASE WatchCancelled
  BY <1>21 DEF WatchCancelled, LeaveAxis, AxisReturns, MoverMoves, MoverUnchanged
<1>22. CASE WatchStopped
  BY <1>22 DEF WatchStopped, LeaveAxis, AxisReturns, MoverMoves, MoverUnchanged
<1>23. CASE Report
  BY <1>23 DEF Report, MoverUnchanged
<1>24. CASE EndReset
  BY <1>24 DEF EndReset, MoverUnchanged, ResetStarts
<1>25. CASE Release
  BY <1>25 DEF Release, MoverUnchanged
<1>26. CASE SpuriousWake
  BY <1>26 DEF SpuriousWake, MoverMoves, MoverUnchanged
<1>27. CASE ResetSwap
  BY <1>27 DEF ResetSwap, ResetUnchanged
<1>28. CASE ResetClear
  BY <1>28 DEF ResetClear, ResetUnchanged
<1>29. CASE Poller
  BY <1>29 DEF Poller, ReadActive, PollerExit, Poll, Verify, FixX, FixZ, PollerUnchanged
<1>30. ASSUME NEW a \in Axes, DriveMoves(a) PROVE ActiveAxisOwned'
  BY <1>30 DEF DriveMoves
<1>31. CASE UNCHANGED vars
  BY <1>31
<1> QED
  BY <1>1, <1>2, <1>3, <1>4, <1>5, <1>6, <1>7, <1>8, <1>9, <1>10, <1>11,
     <1>12, <1>13, <1>14, <1>15, <1>16, <1>17, <1>18, <1>19, <1>20, <1>21,
     <1>22, <1>23, <1>24, <1>25, <1>26, <1>27, <1>28, <1>29, <1>30, <1>31
  DEF Next, Callers, Mover

LEMMA LateStep == TypeOK /\ ControlInv /\ LateInv /\ [Next]_vars => LateInv'
<1> SUFFICES ASSUME TypeOK /\ ControlInv /\ LateInv, [Next]_vars PROVE LateInv'
  OBVIOUS
<1> USE DEF TypeOK, ControlInv, ServingInv, InService, LateInv
<1>1. ASSUME NEW r \in Requests, PushRejected(r) PROVE LateInv'
  BY <1>1 DEF PushRejected, CallerUnchanged
<1>2. ASSUME NEW r \in Requests, PushNothingToDo(r) PROVE LateInv'
  BY <1>2 DEF PushNothingToDo, CallerUnchanged
<1>3. ASSUME NEW r \in Requests, PushQueued(r) PROVE LateInv'
  BY <1>3 DEF PushQueued, CallerUnchanged, Notify
<1>4. ASSUME NEW r \in Requests, Cancel(TaskId[r]) PROVE LateInv'
  <2>1. mpc = "settle" => TaskId[serving] \in Nat
    BY ConstantsAssumption DEF ConstantsAssumption
  <2> QED
    BY <1>4, <2>1 DEF Cancel, ResetStarts, ResetUnchanged
<1>5. CASE Stop
  BY <1>5 DEF Stop, CallerUnchanged, Notify
<1>6. CASE Take
  BY <1>6 DEF Take, MoverUnchanged
<1>7. CASE FindNothing
  BY <1>7 DEF FindNothing, MoverMoves, MoverUnchanged
<1>8. CASE Block
  BY <1>8 DEF Block, MoverMoves, MoverUnchanged
<1>9. CASE MoverExit
  BY <1>9 DEF MoverExit, MoverMoves, MoverUnchanged
<1>10. CASE SkipAxis
  BY <1>10 DEF SkipAxis, AxisReturns, MoverMoves, MoverUnchanged
<1>11. CASE EnterCancelled
  BY <1>11 DEF EnterCancelled, AxisReturns, MoverMoves, MoverUnchanged
<1>12. CASE EnterAxis
  BY <1>12 DEF EnterAxis, MoverMoves, MoverUnchanged
<1>13. CASE Arm
  BY <1>13 DEF Arm, MoverMoves, MoverUnchanged
<1>14. CASE SendCommand
  BY <1>14 DEF SendCommand, MoverUnchanged
<1>15. CASE Terminate
  BY <1>15 DEF Terminate, MoverMoves, MoverUnchanged
<1>16. CASE Settle
  BY <1>16 DEF Settle, Cancelled, MoverMoves, MoverUnchanged
<1>17. CASE SettleCancelled
  BY <1>17 DEF SettleCancelled, LeaveAxis, AxisReturns, MoverMoves, MoverUnchanged
<1>18. CASE Watch
  BY <1>18 DEF Watch, Watching, MoverMoves, MoverUnchanged
<1>19. CASE WatchReached
  BY <1>19 DEF WatchReached, Watching, LeaveAxis, AxisReturns, MoverMoves, MoverUnchanged
<1>20. CASE WatchTimeout
  BY <1>20 DEF WatchTimeout, Watching, LeaveAxis, AxisReturns, MoverMoves, MoverUnchanged
<1>21. CASE WatchCancelled
  BY <1>21 DEF WatchCancelled, LeaveAxis, AxisReturns, MoverMoves, MoverUnchanged
<1>22. CASE WatchStopped
  BY <1>22 DEF WatchStopped, LeaveAxis, AxisReturns, MoverMoves, MoverUnchanged
<1>23. CASE Report
  BY <1>23 DEF Report, MoverUnchanged
<1>24. CASE EndReset
  BY <1>24 DEF EndReset, MoverUnchanged, ResetStarts
<1>25. CASE Release
  BY <1>25 DEF Release, MoverUnchanged
<1>26. CASE SpuriousWake
  BY <1>26 DEF SpuriousWake, MoverMoves, MoverUnchanged
<1>27. CASE ResetSwap
  BY <1>27 DEF ResetSwap, ResetUnchanged
<1>28. CASE ResetClear
  BY <1>28 DEF ResetClear, ResetUnchanged
<1>29. CASE Poller
  BY <1>29 DEF Poller, ReadActive, PollerExit, Poll, Verify, FixX, FixZ, PollerUnchanged
<1>30. ASSUME NEW a \in Axes, DriveMoves(a) PROVE LateInv'
  BY <1>30 DEF DriveMoves
<1>31. CASE UNCHANGED vars
  BY <1>31
<1> QED
  BY <1>1, <1>2, <1>3, <1>4, <1>5, <1>6, <1>7, <1>8, <1>9, <1>10, <1>11,
     <1>12, <1>13, <1>14, <1>15, <1>16, <1>17, <1>18, <1>19, <1>20, <1>21,
     <1>22, <1>23, <1>24, <1>25, <1>26, <1>27, <1>28, <1>29, <1>30, <1>31
  DEF Next, Callers, Mover

----------------------------------------------------------------------------
(* Requests wait once and are told their end once.                          *)

TellInv == QueueInv /\ ToldInv /\ AtMostOneAnswer

\* A callback for a request that is only now submitted.
LEMMA CallBackTells ==
  ASSUME TypeOK, ControlInv, TellInv, NEW r \in Requests \ pushed, CallBack(r),
         pushed' = pushed \cup {r}, UNCHANGED <<queue, serving, mpc, posts>>
  PROVE  TellInv'
<1> USE DEF TypeOK, TellInv, QueueInv, ToldInv, AtMostOneAnswer, Told
<1>1. /\ answers'[r] \in {answers[r], answers[r] + 1}
      /\ \A q \in Requests \ {r} : answers'[q] = answers[q]
  BY DEF CallBack
<1>2. Told(r) = 0 /\ serving # r /\ \A i \in DOMAIN queue : queue[i] # r
  BY ConstantsAssumption DEF ConstantsAssumption
<1>3. QueueInv'
  BY <1>1, <1>2
<1>4. Told(r)' <= 1 /\ \A q \in Requests \ {r} : Told(q)' = Told(q)
  BY <1>1, <1>2
<1> HIDE DEF Told
<1>5. ToldInv'
  BY <1>2, <1>4
<1>6. AtMostOneAnswer'
  BY <1>4 DEF Told
<1> QED
  BY <1>3, <1>5, <1>6

LEMMA TellStep == TypeOK /\ ControlInv /\ TellInv /\ [Next]_vars => TellInv'
<1> SUFFICES ASSUME TypeOK /\ ControlInv /\ TellInv, [Next]_vars PROVE TellInv'
  OBVIOUS
<1> USE DEF TypeOK, ControlInv, ServingInv, InService, TellInv, QueueInv, ToldInv, AtMostOneAnswer, Told
<1>1. ASSUME NEW r \in Requests, PushRejected(r) PROVE TellInv'
  BY <1>1, CallBackTells DEF PushRejected, Calls, CallerUnchanged
<1>2. ASSUME NEW r \in Requests, PushNothingToDo(r) PROVE TellInv'
  BY <1>2, CallBackTells DEF PushNothingToDo, Calls, CallerUnchanged
<1>3. ASSUME NEW r \in Requests, PushQueued(r) PROVE TellInv'
  <2>1. /\ r \notin pushed /\ pushed' = pushed \cup {r} /\ queue' = Append(queue, r)
        /\ UNCHANGED <<answers, posts, serving>>
        /\ mpc' \in {"reset", "resetting", "release"} <=> mpc \in {"reset", "resetting", "release"}
    BY <1>3 DEF PushQueued, Calls, CallerUnchanged, Notify
  <2>2. Told(r) = 0 /\ serving # r
    BY <2>1, ConstantsAssumption DEF ConstantsAssumption
  <2>3. \A i \in DOMAIN queue : queue[i] # r
    BY <2>1
  <2>4. \A i \in DOMAIN queue' :
           \/ i \in DOMAIN queue /\ queue'[i] = queue[i]
           \/ i = Len(queue) + 1 /\ queue'[i] = r
    BY <2>1
  <2>5. Told(r)' = 0 /\ \A i \in DOMAIN queue : Told(queue[i])' = 0
    BY <2>1, <2>2
  <2>6. QueueInv'
    BY <2>1, <2>2, <2>3, <2>4, <2>5
  <2>7. ToldInv' /\ AtMostOneAnswer'
    BY <2>1
  <2> QED
    BY <2>6, <2>7
<1>4. ASSUME NEW r \in Requests, Cancel(TaskId[r]) PROVE TellInv'
  BY <1>4 DEF Cancel, ResetStarts, ResetUnchanged
<1>5. CASE Stop
  BY <1>5 DEF Stop, CallerUnchanged, Notify
<1>6. CASE Take
  <2> DEFINE h == Head(queue)
  <2>1. /\ h \in Requests /\ h \in pushed /\ Told(h) = 0
        /\ 1 \in DOMAIN queue /\ h = queue[1]
    BY <1>6 DEF Take
  <2>2. \A i \in DOMAIN Tail(queue) :
           /\ i \in Nat \ {0} /\ i + 1 \in DOMAIN queue
           /\ Tail(queue)[i] = queue[i + 1]
    <3>1. queue \in Seq(Requests) /\ queue # <<>>
      BY <1>6 DEF Take
    <3>2. /\ Len(Tail(queue)) = Len(queue) - 1
          /\ \A i \in 1 .. Len(Tail(queue)) : Tail(queue)[i] = queue[i + 1]
      BY <3>1, HeadTailProperties
    <3>3. DOMAIN Tail(queue) = 1 .. Len(Tail(queue)) /\ DOMAIN queue = 1 .. Len(queue)
      BY <3>1
    <3>4. Len(queue) \in Nat
      BY <3>1
    <3>5. ASSUME NEW i \in DOMAIN Tail(queue) PROVE i \in Nat \ {0} /\ i + 1 \in 1 .. Len(queue)
      <4> HIDE DEF TellInv, TypeOK, ControlInv
      <4> QED BY ONLY <3>2, <3>3, <3>4, i \in DOMAIN Tail(queue)
    <3> QED
      BY ONLY <3>2, <3>3, <3>5
  <2>3. /\ queue' = Tail(queue) /\ serving' = h /\ mpc' = "enter"
        /\ UNCHANGED <<answers, posts, pushed>>
    BY <1>6 DEF Take, MoverUnchanged
  <2>4. QueueInv'
    <3>1. \A i, j \in DOMAIN queue' : queue'[i] = queue'[j] => i = j
      BY <2>2, <2>3
    <3>2. \A i \in DOMAIN queue' : queue'[i] # h
      BY <2>1, <2>2, <2>3
    <3>3. \A i \in DOMAIN queue' : queue'[i] \in pushed /\ Told(queue'[i]) = 0
      BY <2>2, <2>3
    <3> QED
      BY <2>3, <3>1, <3>2, <3>3
  <2>5. ToldInv' /\ AtMostOneAnswer'
    BY <2>1, <2>3
  <2> QED
    BY <2>4, <2>5
<1>7. CASE FindNothing
  BY <1>7 DEF FindNothing, MoverMoves, MoverUnchanged
<1>8. CASE Block
  BY <1>8 DEF Block, MoverMoves, MoverUnchanged
<1>9. CASE MoverExit
  BY <1>9 DEF MoverExit, MoverMoves, MoverUnchanged
<1>10. CASE SkipAxis
  BY <1>10 DEF SkipAxis, AxisReturns, MoverMoves, MoverUnchanged
<1>11. CASE EnterCancelled
  BY <1>11 DEF EnterCancelled, AxisReturns, MoverMoves, MoverUnchanged
<1>12. CASE EnterAxis
  BY <1>12 DEF EnterAxis, MoverMoves, MoverUnchanged
<1>13. CASE Arm
  BY <1>13 DEF Arm, MoverMoves, MoverUnchanged
<1>14. CASE SendCommand
  BY <1>14 DEF SendCommand, MoverUnchanged
<1>15. CASE Terminate
  BY <1>15 DEF Terminate, MoverMoves, MoverUnchanged
<1>16. CASE Settle
  BY <1>16 DEF Settle, MoverMoves, MoverUnchanged
<1>17. CASE SettleCancelled
  BY <1>17 DEF SettleCancelled, LeaveAxis, AxisReturns, MoverMoves, MoverUnchanged
<1>18. CASE Watch
  BY <1>18 DEF Watch, Watching, MoverMoves, MoverUnchanged
<1>19. CASE WatchReached
  BY <1>19 DEF WatchReached, Watching, LeaveAxis, AxisReturns, MoverMoves, MoverUnchanged
<1>20. CASE WatchTimeout
  BY <1>20 DEF WatchTimeout, Watching, LeaveAxis, AxisReturns, MoverMoves, MoverUnchanged
<1>21. CASE WatchCancelled
  BY <1>21 DEF WatchCancelled, LeaveAxis, AxisReturns, MoverMoves, MoverUnchanged
<1>22. CASE WatchStopped
  BY <1>22 DEF WatchStopped, LeaveAxis, AxisReturns, MoverMoves, MoverUnchanged
<1>23. CASE Report
  <2>1. serving \in Requests /\ Told(serving) = 0
    BY <1>23 DEF Report
  <2>2. /\ mpc' = "reset" /\ UNCHANGED <<queue, pushed, serving>>
        /\ \A i \in DOMAIN queue : queue[i] \in Requests
    BY <1>23 DEF Report, MoverUnchanged
  <2>3. answers'[serving] + posts'[serving] = 1
    BY <1>23, <2>1 DEF Report
  <2>4. \A r \in Requests \ {serving} : answers'[r] = answers[r] /\ posts'[r] = posts[r]
    BY <1>23, <2>1 DEF Report
  <2>5. QueueInv'
    BY <2>2, <2>4
  <2>6. ToldInv'
    <3>1. serving \in pushed
      BY <2>1, ConstantsAssumption DEF ConstantsAssumption
    <3>2. \A r \in Requests \ pushed : answers'[r] + posts'[r] = 0
      BY <2>4, <3>1
    <3> QED
      BY <2>2, <2>3, <3>1, <3>2
  <2>7. AtMostOneAnswer'
    <3>1. \A r \in Requests \ {serving} : answers'[r] + posts'[r] <= 1
      BY <2>4
    <3> QED
      BY <2>3, <3>1
  <2> QED
    BY <2>5, <2>6, <2>7
<1>24. CASE EndReset
  BY <1>24 DEF EndReset, MoverUnchanged, ResetStarts
<1>25. CASE Release
  <2>1. \A i \in DOMAIN queue : queue[i] # Nobody
    BY ConstantsAssumption DEF ConstantsAssumption
  <2> QED
    BY <1>25, <2>1 DEF Release, MoverUnchanged
<1>26. CASE SpuriousWake
  BY <1>26 DEF SpuriousWake, MoverMoves, MoverUnchanged
<1>27. CASE ResetSwap
  BY <1>27 DEF ResetSwap, ResetUnchanged
<1>28. CASE ResetClear
  BY <1>28 DEF ResetClear, ResetUnchanged, ResetInv
<1>29. CASE Poller
  BY <1>29 DEF Poller, ReadActive, PollerExit, Poll, Verify, FixX, FixZ, PollerUnchanged
<1>30. ASSUME NEW a \in Axes, DriveMoves(a) PROVE TellInv'
  BY <1>30 DEF DriveMoves
<1>31. CASE UNCHANGED vars
  BY <1>31
<1> QED
  BY <1>1, <1>2, <1>3, <1>4, <1>5, <1>6, <1>7, <1>8, <1>9, <1>10, <1>11,
     <1>12, <1>13, <1>14, <1>15, <1>16, <1>17, <1>18, <1>19, <1>20, <1>21,
     <1>22, <1>23, <1>24, <1>25, <1>26, <1>27, <1>28, <1>29, <1>30, <1>31
  DEF Next, Callers, Mover

----------------------------------------------------------------------------
(* The end of a movement, and of the movement thread's sleep.               *)

LEMMA SleepStep == TypeOK /\ NoPushMissed /\ [Next]_vars => NoPushMissed'
<1> SUFFICES ASSUME TypeOK /\ NoPushMissed, [Next]_vars PROVE NoPushMissed'
  OBVIOUS
<1> USE DEF NoPushMissed
<1>1. ASSUME NEW r \in Requests, PushRejected(r) \/ PushNothingToDo(r) \/ PushQueued(r)
      PROVE  NoPushMissed'
  BY <1>1 DEF PushRejected, PushNothingToDo, PushQueued, Calls, Notify
<1>2. ASSUME NEW r \in Requests, Cancel(TaskId[r]) PROVE NoPushMissed'
  BY <1>2 DEF Cancel
<1>3. CASE Stop
  BY <1>3 DEF Stop, Notify
<1>4. CASE FindNothing \/ Block \/ SpuriousWake
  BY <1>4 DEF FindNothing, Block, SpuriousWake, MoverMoves
<1>5. CASE Take \/ MoverExit \/ EnterAxis \/ Arm \/ SendCommand \/ Terminate \/ Settle \/ Watch
           \/ Report \/ EndReset \/ Release
  BY <1>5 DEF Take, MoverExit, EnterAxis, Arm, SendCommand, Terminate, Settle, Watch, Watching,
              Report, EndReset, Release
<1>6. CASE SkipAxis \/ EnterCancelled \/ SettleCancelled \/ WatchReached \/ WatchTimeout
           \/ WatchCancelled \/ WatchStopped
  BY <1>6 DEF SkipAxis, EnterCancelled, SettleCancelled, WatchReached, WatchTimeout,
              WatchCancelled, WatchStopped, LeaveAxis, AxisReturns
<1>7. CASE ResetSwap \/ ResetClear
  BY <1>7 DEF ResetSwap, ResetClear
<1>8. CASE Poller
  BY <1>8 DEF Poller, ReadActive, PollerExit, Poll, Verify, FixX, FixZ, PollerUnchanged
<1>9. ASSUME (\E a \in Axes : DriveMoves(a)) \/ UNCHANGED vars PROVE NoPushMissed'
  BY <1>9 DEF DriveMoves
<1> QED
  BY <1>1, <1>2, <1>3, <1>4, <1>5, <1>6, <1>7, <1>8, <1>9 DEF Next, Callers, Mover

\* What the steps of the other threads change of the place of the movement thread.
LEMMA OthersKeepPlace ==
  ASSUME TypeOK, ControlInv, [Next]_vars, ~Mover
  PROVE  /\ UNCHANGED <<serving, axis, waits>>
         /\ \/ mpc' = mpc /\ (mpc = "resetting" => resetStep' = resetStep)
            \/ mpc = "blocked" /\ mpc' = "test"
            \/ resetBy = "mover" /\ (ResetSwap \/ ResetClear)
<1> USE DEF TypeOK, ControlInv, ResetInv
<1>1. ASSUME NEW r \in Requests, PushRejected(r) \/ PushNothingToDo(r) \/ PushQueued(r) \/ Stop
      PROVE  /\ UNCHANGED <<serving, axis, waits, resetStep>>
             /\ mpc' = mpc \/ (mpc = "blocked" /\ mpc' = "test")
  BY <1>1 DEF PushRejected, PushNothingToDo, PushQueued, Stop, CallerUnchanged, Notify
<1>2. ASSUME NEW r \in Requests, Cancel(TaskId[r])
      PROVE  UNCHANGED <<serving, axis, waits, mpc>> /\ mpc # "resetting"
  BY <1>2 DEF Cancel, ResetUnchanged
<1>3. CASE SpuriousWake
  BY <1>3 DEF SpuriousWake, MoverMoves
<1>4. CASE ResetSwap \/ ResetClear
  <2>1. UNCHANGED <<serving, axis, waits>>
    BY <1>4 DEF ResetSwap, ResetClear, ResetUnchanged
  <2>2. resetBy # "mover" => mpc' = mpc /\ mpc # "resetting"
    BY <1>4 DEF ResetSwap, ResetClear
  <2> QED
    BY <1>4, <2>1, <2>2
<1>5. CASE Poller
  BY <1>5 DEF Poller, ReadActive, PollerExit, Poll, Verify, FixX, FixZ, PollerUnchanged
<1>6. ASSUME (\E a \in Axes : DriveMoves(a)) \/ UNCHANGED vars
      PROVE  UNCHANGED <<serving, axis, waits, mpc, resetStep>>
  BY <1>6 DEF DriveMoves
<1>7. CASE Stop
  BY <1>7 DEF Stop, CallerUnchanged, Notify
<1> QED
  BY <1>1, <1>2, <1>3, <1>4, <1>5, <1>6, <1>7 DEF Next, Callers

LEMMA WaitsStep == TypeOK /\ ControlInv /\ WaitsInv /\ [Next]_vars => WaitsInv'
<1> SUFFICES ASSUME TypeOK /\ ControlInv /\ WaitsInv, [Next]_vars PROVE WaitsInv'
  OBVIOUS
<1> USE DEF WaitsInv, TypeOK
<1>1. CASE ~Mover
  <2>1. waits' = waits /\ (mpc' = mpc \/ mpc' \notin {"settle", "watch"})
    BY <1>1, OthersKeepPlace DEF ResetSwap, ResetClear
  <2> QED
    BY <2>1
<1>2. CASE SendCommand
  BY <1>2, ConstantsAssumption DEF SendCommand, ConstantsAssumption
<1>3. CASE Settle
  BY <1>3, ConstantsAssumption DEF Settle, ConstantsAssumption
<1>4. CASE Watch
  BY <1>4, ConstantsAssumption DEF Watch, Watching, MoverMoves, ConstantsAssumption
<1>5. CASE Take \/ FindNothing \/ Block \/ MoverExit \/ EnterAxis \/ Arm \/ Terminate
           \/ Report \/ EndReset \/ Release
  BY <1>5 DEF Take, FindNothing, Block, MoverExit, EnterAxis, Arm, Terminate, Report, EndReset, Release
<1>6. CASE SkipAxis \/ EnterCancelled \/ SettleCancelled \/ WatchReached \/ WatchTimeout
           \/ WatchCancelled \/ WatchStopped
  BY <1>6 DEF SkipAxis, EnterCancelled, SettleCancelled, WatchReached, WatchTimeout,
              WatchCancelled, WatchStopped, LeaveAxis, AxisReturns
<1> QED
  BY <1>1, <1>2, <1>3, <1>4, <1>5, <1>6 DEF Mover

----------------------------------------------------------------------------
(* The inductive invariant and the safety properties it implies.            *)

LEMMA InitInv == Init => IInv
<1> SUFFICES ASSUME Init PROVE IInv
  OBVIOUS
<1>1. TypeOK
  BY InitType
<1>2. ControlInv
  BY DEF Init, ControlInv, ServingInv, ResetInv, ResetConfined, BusyMeansServing, InService
<1>3. QueueInv
  BY DEF Init, QueueInv
<1>4. ToldInv /\ AtMostOneAnswer
  BY DEF Init, ToldInv, AtMostOneAnswer, Told
<1>5. LateInv /\ ActiveAxisOwned
  BY DEF Init, LateInv, ActiveAxisOwned
<1>6. WaitsInv /\ NoPushMissed
  BY DEF Init, WaitsInv, NoPushMissed
<1> QED
  BY <1>1, <1>2, <1>3, <1>4, <1>5, <1>6 DEF IInv

LEMMA NextInv == IInv /\ [Next]_vars => IInv'
  BY NextType, ControlStep, TellStep, LateStep, ActiveStep, WaitsStep, SleepStep DEF IInv, TellInv

\* The invariant behind every safety theorem below.
THEOREM Invariance == Spec => []IInv
<1> QED
  BY InitInv, NextInv, PTL DEF Spec

\* No request is told its end twice, by whatever interleaving of pushes,
\* cancellations, resets and the movement thread.
THEOREM AnsweredOnce == Spec => []AtMostOneAnswer
<1>1. IInv => AtMostOneAnswer
  BY DEF IInv
<1> QED
  BY <1>1, Invariance, PTL

\* A reset empties the queue and clears the axis only within the movement it
\* cancels: mutex_data_ and the movement thread's own resetTask see to it.
THEOREM ResetStaysInItsMovement == Spec => []ResetConfined
<1>1. IInv => ResetConfined
  BY DEF IInv, ControlInv
<1> QED
  BY <1>1, Invariance, PTL

\* The busy flag callers test always names the request in service.
THEOREM BusyFlagTruthful == Spec => []BusyMeansServing
<1>1. IInv => BusyMeansServing
  BY DEF IInv, ControlInv
<1> QED
  BY <1>1, Invariance, PTL

\* The polled axis is the one the movement thread runs.
THEOREM PolledAxisOwned == Spec => []ActiveAxisOwned
<1>1. IInv => ActiveAxisOwned
  BY DEF IInv
<1> QED
  BY <1>1, Invariance, PTL

\* At most one command leaves for a request after its cancellation.
THEOREM CancelStops == Spec => []CancelStopsWithinOneCommand
<1>1. IInv => CancelStopsWithinOneCommand
  BY DEF IInv, LateInv, CancelStopsWithinOneCommand
<1> QED
  BY <1>1, Invariance, PTL

\* No push is missed by a movement thread that goes to sleep.
THEOREM PushNeverMissed == Spec => []NoPushMissed
<1>1. IInv => NoPushMissed
  BY DEF IInv
<1> QED
  BY <1>1, Invariance, PTL

----------------------------------------------------------------------------
(* A movement is a bounded number of steps of its thread.                   *)

\* The count lies between 0 and its bound, and what it is at each place.
LEMMA StepsLeftRange ==
  ASSUME TypeOK, WaitsInv
  PROVE  /\ StepsLeft \in 0 .. 2 * AxisSteps + 5 /\ AxisSteps \in Nat
         /\ mpc \in AxisPCs => /\ AxisLeft \in 1 .. AxisSteps
                               /\ StepsLeft = AxisLeft + 5 + (IF axis = "X" THEN AxisSteps ELSE 0)
<1>1. AxisSteps \in Nat /\ SettleCycles \in Nat /\ WatchCycles \in Nat /\ waits \in Int
  BY ConstantsAssumption DEF AxisSteps, ConstantsAssumption, TypeOK
<1>2. mpc \in AxisPCs => AxisLeft \in 1 .. AxisSteps
  BY <1>1 DEF AxisLeft, AxisSteps, WaitsInv
<1>3. mpc \in AxisPCs => StepsLeft = AxisLeft + 5 + (IF axis = "X" THEN AxisSteps ELSE 0)
  BY DEF StepsLeft
<1>4. mpc \notin AxisPCs => StepsLeft \in 0 .. 5
  BY DEF StepsLeft
<1>5. StepsLeft \in 0 .. 2 * AxisSteps + 5
  BY <1>1, <1>2, <1>3, <1>4
<1> QED
  BY <1>1, <1>2, <1>3, <1>5

\* An axis that returns leaves the second one, or the report, to do.
LEMMA ReturnAdvances ==
  ASSUME TypeOK, WaitsInv, TypeOK', WaitsInv', mpc \in AxisPCs, NEW b \in BOOLEAN, AxisReturns(b)
  PROVE  StepsLeft' < StepsLeft
<1>1. /\ AxisLeft \in 1 .. AxisSteps /\ AxisSteps \in Nat
      /\ StepsLeft = AxisLeft + 5 + (IF axis = "X" THEN AxisSteps ELSE 0)
  BY StepsLeftRange
<1>2. CASE axis = "X" /\ b
  <2>1. axis' = "Z" /\ mpc' = "enter"
    BY <1>2 DEF AxisReturns
  <2>2. StepsLeft' = AxisSteps + 5
    <3>1. AxisLeft' = AxisSteps /\ StepsLeft' = AxisLeft' + 5 + 0
      BY <2>1 DEF StepsLeft, AxisLeft, AxisSteps
    <3> QED
      BY <1>1, <3>1
  <2> QED
    BY <1>1, <1>2, <2>2
<1>3. CASE ~(axis = "X" /\ b)
  <2>1. mpc' = "report"
    BY <1>3 DEF AxisReturns
  <2>2. StepsLeft' = 5
    BY <2>1 DEF StepsLeft
  <2> QED
    BY <1>1, <2>2
<1> QED
  BY <1>2, <1>3

\* Within an axis.
LEMMA AxisAdvances ==
  ASSUME TypeOK, WaitsInv, TypeOK', WaitsInv', mpc \in AxisPCs, mpc' \in AxisPCs, axis' = axis,
         AxisLeft' < AxisLeft
  PROVE  StepsLeft' < StepsLeft
<1>1. /\ AxisLeft \in Int /\ AxisSteps \in Nat
      /\ StepsLeft = AxisLeft + 5 + (IF axis = "X" THEN AxisSteps ELSE 0)
  BY StepsLeftRange
<1>2. (mpc \in AxisPCs => /\ AxisLeft \in 1 .. AxisSteps
                          /\ StepsLeft = AxisLeft + 5 + (IF axis = "X" THEN AxisSteps ELSE 0))'
  BY StepsLeftRange, PTL
<1>3. AxisSteps' = AxisSteps
  BY DEF AxisSteps
<1>4. AxisLeft' \in Int /\ StepsLeft' = AxisLeft' + 5 + (IF axis = "X" THEN AxisSteps ELSE 0)
  BY <1>1, <1>2, <1>3
<1>5. PICK n \in Int : StepsLeft = AxisLeft + 5 + n /\ StepsLeft' = AxisLeft' + 5 + n
  <2>1. CASE axis = "X"
    BY <1>1, <1>4, <2>1
  <2>2. CASE axis # "X"
    BY <1>1, <1>4, <2>2
  <2> QED
    BY <2>1, <2>2
<1>6. AxisLeft \in Int /\ AxisLeft' \in Int /\ AxisLeft' < AxisLeft
  BY <1>1, <1>4
<1>7. \A k, l \in Int : k < l => k + 5 + n < l + 5 + n
  OBVIOUS
<1>8. AxisLeft' + 5 + n < AxisLeft + 5 + n
  BY <1>6, <1>7
<1> QED
  BY <1>5, <1>8

LEMMA MoverAdvances ==
  ASSUME IInv, IInv', Mover, serving # Nobody, serving' = serving
  PROVE  StepsLeft' < StepsLeft
<1>1. /\ TypeOK /\ WaitsInv /\ TypeOK' /\ WaitsInv' /\ mpc \in InService
      /\ SettleCycles \in Nat \ {0} /\ WatchCycles \in Nat /\ waits \in Int
  BY ConstantsAssumption DEF IInv, ControlInv, ServingInv, TypeOK, ConstantsAssumption
<1>2. CASE Take \/ FindNothing \/ Block \/ MoverExit
  BY <1>1, <1>2 DEF Take, FindNothing, Block, MoverExit, InService
<1>3. CASE EnterAxis \/ Arm
  <2>1. AxisLeft' < AxisLeft
    BY <1>1, <1>3 DEF EnterAxis, Arm, AxisLeft, AxisSteps
  <2> QED
    BY <1>1, <1>3, <2>1, AxisAdvances DEF EnterAxis, Arm, MoverMoves
<1>4. CASE SendCommand
  <2>1. AxisLeft' < AxisLeft
    BY <1>1, <1>4 DEF SendCommand, AxisLeft, AxisSteps
  <2> QED
    BY <1>1, <1>4, <2>1, AxisAdvances DEF SendCommand
<1>5. CASE Settle
  <2>1. AxisLeft' < AxisLeft
    BY <1>1, <1>5 DEF Settle, AxisLeft, WaitsInv
  <2> QED
    BY <1>1, <1>5, <2>1, AxisAdvances DEF Settle
<1>6. CASE Watch
  <2>1. AxisLeft' < AxisLeft
    BY <1>1, <1>6 DEF Watch, Watching, AxisLeft
  <2> QED
    BY <1>1, <1>6, <2>1, AxisAdvances DEF Watch, Watching
<1>7. CASE Terminate
  <2>1. StepsLeft' = 0
    BY <1>7 DEF Terminate, StepsLeft
  <2>2. AxisLeft \in 1 .. AxisSteps /\ AxisSteps \in Nat
        /\ StepsLeft = AxisLeft + 5 + (IF axis = "X" THEN AxisSteps ELSE 0)
    BY <1>1, <1>7, StepsLeftRange DEF Terminate
  <2> QED
    BY <2>1, <2>2
<1>8. CASE SkipAxis \/ EnterCancelled \/ SettleCancelled \/ WatchReached \/ WatchTimeout
           \/ WatchCancelled \/ WatchStopped
  <2>1. mpc \in AxisPCs /\ \E b \in BOOLEAN : AxisReturns(b)
    BY <1>8 DEF SkipAxis, EnterCancelled, SettleCancelled, WatchReached, WatchTimeout,
                WatchCancelled, WatchStopped, Watching, LeaveAxis
  <2> QED
    BY <1>1, <2>1, ReturnAdvances
<1>9. CASE Report
  BY <1>9 DEF Report, StepsLeft
<1>10. CASE EndReset
  BY <1>10 DEF EndReset, ResetStarts, StepsLeft
<1>11. CASE Release
  BY <1>11 DEF Release
<1> QED
  BY <1>2, <1>3, <1>4, <1>5, <1>6, <1>7, <1>8, <1>9, <1>10, <1>11 DEF Mover

\* Whatever the link, the drive, callers and stop() do, a movement is over after at
\* most 2 * (SettleCycles + WatchCycles + 5) + 5 steps of the movement thread.
THEOREM MovementBounded == Spec => MovementAdvances
<1> DEFINE Advances ==
      /\ StepsLeft' \in 0 .. 2 * AxisSteps + 5
      /\ serving # Nobody /\ serving' = serving =>
           /\ StepsLeft' <= StepsLeft
           /\ Mover \/ (resetBy = "mover" /\ (ResetSwap \/ ResetClear)) => StepsLeft' < StepsLeft
<1>1. ASSUME IInv, IInv', [Next]_vars PROVE [Advances]_vars
  <2>1. StepsLeft' \in 0 .. 2 * AxisSteps + 5 /\ StepsLeft \in Int
    <3>1. TypeOK /\ WaitsInv /\ TypeOK' /\ WaitsInv'
      BY <1>1 DEF IInv
    <3>2. (StepsLeft \in 0 .. 2 * AxisSteps + 5)'
      BY <3>1, StepsLeftRange, PTL
    <3>3. AxisSteps' = AxisSteps
      BY DEF AxisSteps
    <3> QED
      BY <3>1, <3>2, <3>3, StepsLeftRange
  <2>2. ASSUME serving # Nobody, serving' = serving, Mover PROVE StepsLeft' < StepsLeft
    BY <1>1, <2>2, MoverAdvances
  <2>3. ASSUME resetBy = "mover", ResetSwap \/ ResetClear PROVE StepsLeft' < StepsLeft
    <3>1. mpc = "resetting"
      BY <1>1, <2>3 DEF IInv, ControlInv, ResetInv
    <3> QED
      BY <2>3, <3>1 DEF ResetSwap, ResetClear, StepsLeft
  <2>4. ASSUME serving # Nobody, ~Mover, ~(resetBy = "mover" /\ (ResetSwap \/ ResetClear))
        PROVE  StepsLeft' = StepsLeft
    <3>1. /\ axis' = axis /\ waits' = waits
          /\ \/ mpc' = mpc /\ (mpc = "resetting" => resetStep' = resetStep)
             \/ mpc = "blocked" /\ mpc' = "test"
      BY <1>1, <2>4, OthersKeepPlace DEF IInv
    <3> QED
      BY <3>1 DEF StepsLeft, AxisLeft, AxisSteps
  <2> QED
    BY <2>1, <2>2, <2>3, <2>4
<1> QED
  BY <1>1, Invariance, PTL DEF Spec, MovementAdvances

----------------------------------------------------------------------------
(* The executor implements the abstract MovementService.                    *)

ToldSet == {r \in Requests : answers[r] + posts[r] > 0}

LEMMA ServiceInit == Init => Service!Init
<1> SUFFICES ASSUME Init PROVE Service!Init
  OBVIOUS
<1>1. ToldSet = {}
  BY DEF Init, ToldSet
<1> QED
  BY <1>1 DEF Init, Service!Init, ToldSet

\* A callback for a new request is the abstract refusal.
LEMMA DeclineStep ==
  ASSUME IInv, NEW r \in Requests \ pushed, CallBack(r), pushed' = pushed \cup {r},
         UNCHANGED <<queue, serving, wiped, posts>>
  PROVE  Service!Decline(r)
<1>1. /\ answers'[r] \in {answers[r], answers[r] + 1}
      /\ \A q \in Requests \ {r} : answers'[q] = answers[q]
  BY DEF CallBack, IInv, TypeOK
<1>2. answers[r] = 0 /\ posts[r] = 0
  BY DEF IInv, TypeOK, ToldInv, Told
<1>3. ToldSet' \in {ToldSet, ToldSet \cup {r}}
  <2>1. CASE answers'[r] = 0
    <3>1. ToldSet' = ToldSet
      BY <1>1, <1>2, <2>1 DEF ToldSet
    <3> QED
      BY <3>1
  <2>2. CASE answers'[r] = 1
    <3>1. ToldSet' = ToldSet \cup {r}
      BY <1>1, <1>2, <2>2 DEF ToldSet
    <3> QED
      BY <3>1
  <2> QED
    BY <1>1, <1>2, <2>1, <2>2
<1> QED
  BY <1>3 DEF Service!Decline, ToldSet

LEMMA ServiceStep == IInv /\ [Next]_vars => [Service!Next]_(Service!vars)
<1> SUFFICES ASSUME IInv, [Next]_vars PROVE [Service!Next]_(Service!vars)
  OBVIOUS
<1> DEFINE Quiet == UNCHANGED <<pushed, queue, serving, answers, posts, wiped>>
<1>0. ASSUME Quiet PROVE UNCHANGED Service!vars
  BY <1>0 DEF Service!vars
<1> HIDE DEF Quiet
<1>1. ASSUME NEW r \in Requests, PushRejected(r) PROVE Service!Decline(r)
  BY <1>1, DeclineStep DEF PushRejected, CallerUnchanged, Calls
<1>2. ASSUME NEW r \in Requests, PushNothingToDo(r) PROVE Service!Decline(r)
  BY <1>2, DeclineStep DEF PushNothingToDo, CallerUnchanged, Calls
<1>3. ASSUME NEW r \in Requests, PushQueued(r) PROVE Service!Accept(r)
  BY <1>3 DEF PushQueued, CallerUnchanged, Calls, Service!Accept
<1>4. ASSUME NEW r \in Requests, Cancel(TaskId[r]) PROVE Quiet
  BY <1>4 DEF Cancel, ResetUnchanged, Quiet
<1>5. CASE Stop
  <2>1. Quiet
    BY <1>5 DEF Stop, CallerUnchanged, Quiet
  <2> QED
    BY <1>0, <2>1
<1>6. CASE Take
  <2>1. serving = Nobody
    BY <1>6 DEF Take, IInv, ControlInv, ServingInv, InService
  <2>2. Service!Start
    BY <1>6, <2>1 DEF Take, MoverUnchanged, Service!Start
  <2> QED
    BY <2>2 DEF Service!Next
<1>7. CASE Report
  <2>1. serving \in Requests /\ answers[serving] = 0 /\ posts[serving] = 0
    BY <1>7 DEF Report, IInv, TypeOK, ControlInv, ServingInv, InService, ToldInv, Told
  <2>2. /\ answers'[serving] + posts'[serving] = 1
        /\ \A r \in Requests \ {serving} : answers'[r] = answers[r] /\ posts'[r] = posts[r]
    BY <1>7, <2>1 DEF Report, IInv, TypeOK
  <2>3. ToldSet' = ToldSet \cup {serving} /\ serving \notin ToldSet
    BY <2>1, <2>2 DEF ToldSet
  <2>4. Service!Tell
    BY <1>7, <2>1, <2>3 DEF Report, MoverUnchanged, Service!Tell, ToldSet
  <2> QED
    BY <2>4 DEF Service!Next
<1>8. CASE Release
  <2>1. serving \in Requests /\ answers[serving] + posts[serving] = 1
    BY <1>8 DEF Release, IInv, TypeOK, ControlInv, ServingInv, InService, ToldInv, Told
  <2>2. Service!Finish
    BY <1>8, <2>1 DEF Release, MoverUnchanged, Service!Finish
  <2> QED
    BY <2>2 DEF Service!Next
<1>9. CASE ResetSwap
  <2>1. serving # Nobody
    BY <1>9 DEF ResetSwap, IInv, ControlInv, ResetConfined
  <2>2. Service!DropWaiting
    BY <1>9, <2>1 DEF ResetSwap, ResetUnchanged, Service!DropWaiting, ToSet, Service!ToSet
  <2> QED
    BY <2>2 DEF Service!Next
<1>10. ASSUME FindNothing PROVE Quiet
  BY <1>10 DEF FindNothing, MoverMoves, MoverUnchanged, Quiet
<1>11. ASSUME Block PROVE Quiet
  BY <1>11 DEF Block, MoverMoves, MoverUnchanged, Quiet
<1>12. ASSUME MoverExit PROVE Quiet
  BY <1>12 DEF MoverExit, MoverMoves, MoverUnchanged, Quiet
<1>13. ASSUME SkipAxis PROVE Quiet
  BY <1>13 DEF SkipAxis, AxisReturns, MoverMoves, MoverUnchanged, Quiet
<1>14. ASSUME EnterCancelled PROVE Quiet
  BY <1>14 DEF EnterCancelled, AxisReturns, MoverMoves, MoverUnchanged, Quiet
<1>15. ASSUME EnterAxis PROVE Quiet
  BY <1>15 DEF EnterAxis, MoverMoves, MoverUnchanged, Quiet
<1>16. ASSUME Arm PROVE Quiet
  BY <1>16 DEF Arm, MoverMoves, MoverUnchanged, Quiet
<1>17. ASSUME SendCommand PROVE Quiet
  BY <1>17 DEF SendCommand, MoverUnchanged, Quiet
<1>18. ASSUME Terminate PROVE Quiet
  BY <1>18 DEF Terminate, MoverMoves, MoverUnchanged, Quiet
<1>19. ASSUME Settle PROVE Quiet
  BY <1>19 DEF Settle, MoverMoves, MoverUnchanged, Quiet
<1>20. ASSUME SettleCancelled PROVE Quiet
  BY <1>20 DEF SettleCancelled, LeaveAxis, AxisReturns, MoverMoves, MoverUnchanged, Quiet
<1>21. ASSUME Watch PROVE Quiet
  BY <1>21 DEF Watch, Watching, MoverMoves, MoverUnchanged, Quiet
<1>22. ASSUME WatchReached PROVE Quiet
  BY <1>22 DEF WatchReached, Watching, LeaveAxis, AxisReturns, MoverMoves, MoverUnchanged, Quiet
<1>23. ASSUME WatchTimeout PROVE Quiet
  BY <1>23 DEF WatchTimeout, Watching, LeaveAxis, AxisReturns, MoverMoves, MoverUnchanged, Quiet
<1>24. ASSUME WatchCancelled PROVE Quiet
  BY <1>24 DEF WatchCancelled, LeaveAxis, AxisReturns, MoverMoves, MoverUnchanged, Quiet
<1>25. ASSUME WatchStopped PROVE Quiet
  BY <1>25 DEF WatchStopped, LeaveAxis, AxisReturns, MoverMoves, MoverUnchanged, Quiet
<1>26. ASSUME EndReset PROVE Quiet
  BY <1>26 DEF EndReset, MoverUnchanged, ResetStarts, Quiet
<1>27. ASSUME SpuriousWake PROVE Quiet
  BY <1>27 DEF SpuriousWake, MoverMoves, MoverUnchanged, Quiet
<1>28. ASSUME ResetClear PROVE Quiet
  BY <1>28 DEF ResetClear, ResetUnchanged, Quiet
<1>29. ASSUME Poller PROVE Quiet
  BY <1>29 DEF Poller, ReadActive, PollerExit, Poll, Verify, FixX, FixZ, PollerUnchanged, Quiet
<1>30. ASSUME NEW a \in Axes, DriveMoves(a) PROVE Quiet
  BY <1>30 DEF DriveMoves, Quiet
<1>31. ASSUME UNCHANGED vars PROVE Quiet
  BY <1>31 DEF Quiet
<1> QED
  BY <1>0, <1>1, <1>2, <1>3, <1>4, <1>5, <1>6, <1>7, <1>8, <1>9, <1>10,
     <1>11, <1>12, <1>13, <1>14, <1>15, <1>16, <1>17, <1>18, <1>19, <1>20,
     <1>21, <1>22, <1>23, <1>24, <1>25, <1>26, <1>27, <1>28, <1>29, <1>30,
     <1>31
  DEF Next, Callers, Mover, Service!Next

\* One request in service, in order of acceptance, its end told exactly once and
\* before the next starts; waiting requests dropped only during a service.
THEOREM Refinement == Spec => ImplementsService
<1> QED
  BY ServiceInit, ServiceStep, Invariance, PTL DEF Spec, ImplementsService, Service!Spec

============================================================================
