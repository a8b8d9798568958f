-------------------------- MODULE TCPClient_proofs --------------------------
(* Theorems about TCPClient, for any number of descriptors, any limit of       *)
(* attempts and any number of connections, packets and restarts.               *)
EXTENDS TCPClient, FiniteSetTheorems, TLAPS

USE ClientAssumption DEF ClientAssumption

----------------------------------------------------------------------------
(* Type correctness rests on what each counter is checked against: attempts    *)
(* until the connect thread gives up, the queue between test and push, the     *)
(* connections between the answer of the peer and connected_.                  *)

Bounds ==
  /\ MaxAttempts = 0 => attempts = 0
  /\ MaxAttempts > 0 /\ pc["C"] # "exited" => attempts < MaxAttempts
  /\ sender = "push" => queued < MaxQueue
  /\ pc["C"] = "up" => ups < MaxUps

Typed == TypeOK /\ Bounds

LEMMA InitTyped == Init => Typed
<1> SUFFICES ASSUME Init PROVE Typed
  OBVIOUS
<1> USE DEF Init, Threads, Handlers, PCs, OwnerPCs, NoSocket, Descriptors
<1>1. pc \in [Threads -> PCs]
  OBVIOUS
<1>2. running \in BOOLEAN /\ connected \in BOOLEAN
  OBVIOUS
<1>3. attempts \in 0 .. MaxAttempts /\ queued \in 0 .. MaxQueue + 1
  OBVIOUS
<1>4. starts \in 0 .. MaxStarts /\ ups \in 0 .. MaxUps /\ downs \in Nat
  OBVIOUS
<1>5. sock \in Descriptors \cup {NoSocket} /\ fds \subseteq Descriptors
  OBVIOUS
<1>6. owner \in OwnerPCs /\ sender \in {"idle", "push", "wake"}
  OBVIOUS
<1>7. Bounds
  BY DEF Bounds
<1> QED
  BY <1>1, <1>2, <1>3, <1>4, <1>5, <1>6, <1>7 DEF Typed, TypeOK

LEMMA StepTyped == Typed /\ [Next]_vars => Typed'
<1> SUFFICES ASSUME Typed, [Next]_vars PROVE Typed'
  OBVIOUS
<1> USE DEF At, Goes, Wake, OwnerGoes, CMoves, CUnchanged, HMoves, RMoves, SMoves, SenderMoves,
           OwnerMoves, ThreadsUnchanged, link, NoSocket, Descriptors, Threads,
           Handlers, PCs, HandlerPCs, OwnerPCs
<1>1. CASE CExit
  BY <1>1 DEF CExit, Typed, TypeOK, Bounds
<1>2. CASE CMustConnect
  BY <1>2 DEF CMustConnect, Typed, TypeOK, Bounds
<1>3. CASE CMustWait
  BY <1>3 DEF CMustWait, Typed, TypeOK, Bounds
<1>4. CASE CBlock
  BY <1>4 DEF CBlock, Typed, TypeOK, Bounds
<1>5. CASE CCloseOld
  BY <1>5 DEF CCloseOld, Typed, TypeOK, Bounds
<1>6. CASE CCreate
  BY <1>6 DEF CCreate, Typed, TypeOK, Bounds
<1>7. CASE CConnected
  BY <1>7 DEF CConnected, Typed, TypeOK, Bounds
<1>8. CASE CRefused
  BY <1>8 DEF CRefused, Typed, TypeOK, Bounds
<1>9. CASE CUp
  BY <1>9 DEF CUp, Typed, TypeOK, Bounds
<1>10. CASE CFail
  BY <1>10 DEF CFail, Typed, TypeOK, Bounds
<1>11. CASE CRetry
  BY <1>11 DEF CRetry, Typed, TypeOK, Bounds
<1>12. CASE RExit
  BY <1>12 DEF RExit, Typed, TypeOK, Bounds
<1>13. CASE RStart
  BY <1>13 DEF RStart, Typed, TypeOK, Bounds
<1>14. CASE RSelect
  BY <1>14 DEF RSelect, Typed, TypeOK, Bounds
<1>15. CASE RRecv
  BY <1>15 DEF RRecv, Typed, TypeOK, Bounds
<1>16. CASE SExit
  BY <1>16 DEF SExit, Typed, TypeOK, Bounds
<1>17. CASE SMustWait
  BY <1>17 DEF SMustWait, Typed, TypeOK, Bounds
<1>18. CASE SBlock
  BY <1>18 DEF SBlock, Typed, TypeOK, Bounds
<1>19. CASE SPop
  BY <1>19 DEF SPop, Typed, TypeOK, Bounds
<1>20. CASE SCheck
  BY <1>20 DEF SCheck, Typed, TypeOK, Bounds
<1>21. CASE SSend
  BY <1>21 DEF SSend, Typed, TypeOK, Bounds
<1>22. CASE Offer
  BY <1>22 DEF Offer, Typed, TypeOK, Bounds
<1>23. CASE Push
  BY <1>23 DEF Push, Typed, TypeOK, Bounds
<1>24. CASE PushedWake
  BY <1>24 DEF PushedWake, Typed, TypeOK, Bounds
<1>25. CASE Connect
  BY <1>25 DEF Connect, Typed, TypeOK, Bounds
<1>26. CASE ConnectAgain
  BY <1>26 DEF ConnectAgain, Typed, TypeOK, Bounds
<1>27. CASE Disconnect
  BY <1>27 DEF Disconnect, Typed, TypeOK, Bounds
<1>28. CASE WakeConnect
  BY <1>28 DEF WakeConnect, Typed, TypeOK, Bounds
<1>29. CASE WakeSend
  BY <1>29 DEF WakeSend, Typed, TypeOK, Bounds
<1>30. CASE CloseSocket
  BY <1>30 DEF CloseSocket, Typed, TypeOK, Bounds
<1>31. CASE UnsetSocket
  BY <1>31 DEF UnsetSocket, Typed, TypeOK, Bounds
<1>32. CASE Joined
  <2>1. connected' = FALSE /\ connected' \in BOOLEAN
    BY <1>32 DEF Joined
  <2>2. /\ UNCHANGED <<running, attempts, starts, ups>> /\ downs' = downs
        /\ UNCHANGED <<sock, fds>>
    BY <1>32 DEF Joined
  <2>3. /\ pc' \in [Threads -> PCs] /\ owner' \in OwnerPCs /\ sender' \in {"idle", "push", "wake"}
        /\ pc["C"]' = pc["C"] /\ sender' = sender
        /\ queued' = queued \/ queued' = 0
    BY <1>32 DEF Joined, Typed, TypeOK
  <2>4. Bounds'
    BY <2>2, <2>3 DEF Typed, TypeOK, Bounds
  <2> QED
    BY <2>1, <2>2, <2>3, <2>4 DEF Typed, TypeOK
<1>33. ASSUME NEW t \in Handlers, HTake(t) PROVE Typed'
  <2>1. connected' = FALSE /\ connected' \in BOOLEAN
    BY <1>33 DEF HTake
  <2>2. /\ UNCHANGED <<running, attempts, starts, ups>> /\ downs' = downs
        /\ UNCHANGED <<sock, fds>>
    BY <1>33 DEF HTake
  <2>3. /\ pc' \in [Threads -> PCs] /\ owner' \in OwnerPCs /\ sender' \in {"idle", "push", "wake"}
        /\ pc["C"]' = pc["C"] /\ sender' = sender
        /\ queued' = queued \/ queued' = 0
    BY <1>33 DEF HTake, Typed, TypeOK
  <2>4. Bounds'
    BY <2>2, <2>3 DEF Typed, TypeOK, Bounds
  <2> QED
    BY <2>1, <2>2, <2>3, <2>4 DEF Typed, TypeOK
<1>34. ASSUME NEW t \in Handlers, HClose(t) PROVE Typed'
  BY <1>34 DEF HClose, Typed, TypeOK, Bounds
<1>35. ASSUME NEW t \in Handlers, HUnset(t) PROVE Typed'
  BY <1>35 DEF HUnset, Typed, TypeOK, Bounds
<1>36. ASSUME NEW t \in Handlers, HTell(t) PROVE Typed'
  BY <1>36 DEF HTell, Typed, TypeOK, Bounds
<1>37. ASSUME NEW t \in Handlers, HNotify(t) PROVE Typed'
  BY <1>37 DEF HNotify, Typed, TypeOK, Bounds
<1>38. ASSUME NEW t \in Threads, SpuriousWake(t) PROVE Typed'
  BY <1>38 DEF SpuriousWake, Typed, TypeOK, Bounds
<1>39. CASE CForget
  BY <1>39 DEF CForget, Typed, TypeOK, Bounds
<1>40. CASE UNCHANGED vars
  BY <1>40 DEF vars, Typed, TypeOK, Bounds
<1> QED
  BY <1>1, <1>2, <1>3, <1>4, <1>5, <1>6, <1>7, <1>8, <1>9, <1>10, <1>11, <1>12,
     <1>13, <1>14, <1>15, <1>16, <1>17, <1>18, <1>19, <1>20, <1>21, <1>22, <1>23,
     <1>24, <1>25, <1>26, <1>27, <1>28, <1>29, <1>30, <1>31, <1>32, <1>33, <1>34,
     <1>35, <1>36, <1>37, <1>38, <1>39, <1>40
     DEF Next, ConnectLoop, ReceiveLoop, SendLoop, SendSteps, HandleDisconnect, Stopping, Handlers

(* Every variable keeps its type and every counter its bound.                  *)
THEOREM Typing == Spec => []TypeOK
<1>1. Typed => TypeOK
  BY DEF Typed
<1> QED
  BY InitTyped, StepTyped, <1>1, PTL DEF Spec

----------------------------------------------------------------------------
(* The socket.  When the owner has not called connect(), no thread runs.       *)

Stopped == owner = "off" => \A t \in Threads : pc[t] = "exited"

SocketInv == Stopped /\ ClosedSocketReplaced

LEMMA InitSocket == Init => SocketInv
BY DEF Init, SocketInv, Stopped, ClosedSocketReplaced

LEMMA StepSocket == Typed /\ SocketInv /\ [Next]_vars => SocketInv'
<1> SUFFICES ASSUME Typed, SocketInv, [Next]_vars PROVE SocketInv'
  OBVIOUS
<1> USE DEF At, Goes, Wake, OwnerGoes, CMoves, CUnchanged, HMoves, RMoves, SMoves, SenderMoves,
           OwnerMoves, ThreadsUnchanged, link, NoSocket, Threads, Handlers
<1>1. CASE CExit
  BY <1>1 DEF CExit, SocketInv, Stopped, ClosedSocketReplaced, Typed, TypeOK
<1>2. CASE CMustConnect
  BY <1>2 DEF CMustConnect, SocketInv, Stopped, ClosedSocketReplaced, Typed, TypeOK
<1>3. CASE CMustWait
  BY <1>3 DEF CMustWait, SocketInv, Stopped, ClosedSocketReplaced, Typed, TypeOK
<1>4. CASE CBlock
  BY <1>4 DEF CBlock, SocketInv, Stopped, ClosedSocketReplaced, Typed, TypeOK
<1>5. CASE CCloseOld
  BY <1>5 DEF CCloseOld, SocketInv, Stopped, ClosedSocketReplaced, Typed, TypeOK
<1>6. CASE CCreate
  BY <1>6 DEF CCreate, SocketInv, Stopped, ClosedSocketReplaced, Typed, TypeOK
<1>7. CASE CConnected
  BY <1>7 DEF CConnected, SocketInv, Stopped, ClosedSocketReplaced, Typed, TypeOK
<1>8. CASE CRefused
  BY <1>8 DEF CRefused, SocketInv, Stopped, ClosedSocketReplaced, Typed, TypeOK
<1>9. CASE CUp
  BY <1>9 DEF CUp, SocketInv, Stopped, ClosedSocketReplaced, Typed, TypeOK
<1>10. CASE CFail
  BY <1>10 DEF CFail, SocketInv, Stopped, ClosedSocketReplaced, Typed, TypeOK
<1>11. CASE CRetry
  BY <1>11 DEF CRetry, SocketInv, Stopped, ClosedSocketReplaced, Typed, TypeOK
<1>12. CASE RExit
  BY <1>12 DEF RExit, SocketInv, Stopped, ClosedSocketReplaced, Typed, TypeOK
<1>13. CASE RStart
  BY <1>13 DEF RStart, SocketInv, Stopped, ClosedSocketReplaced, Typed, TypeOK
<1>14. CASE RSelect
  BY <1>14 DEF RSelect, SocketInv, Stopped, ClosedSocketReplaced, Typed, TypeOK
<1>15. CASE RRecv
  BY <1>15 DEF RRecv, SocketInv, Stopped, ClosedSocketReplaced, Typed, TypeOK
<1>16. CASE SExit
  BY <1>16 DEF SExit, SocketInv, Stopped, ClosedSocketReplaced, Typed, TypeOK
<1>17. CASE SMustWait
  BY <1>17 DEF SMustWait, SocketInv, Stopped, ClosedSocketReplaced, Typed, TypeOK
<1>18. CASE SBlock
  BY <1>18 DEF SBlock, SocketInv, Stopped, ClosedSocketReplaced, Typed, TypeOK
<1>19. CASE SPop
  BY <1>19 DEF SPop, SocketInv, Stopped, ClosedSocketReplaced, Typed, TypeOK
<1>20. CASE SCheck
  BY <1>20 DEF SCheck, SocketInv, Stopped, ClosedSocketReplaced, Typed, TypeOK
<1>21. CASE SSend
  BY <1>21 DEF SSend, SocketInv, Stopped, ClosedSocketReplaced, Typed, TypeOK
<1>22. CASE Offer
  BY <1>22 DEF Offer, SocketInv, Stopped, ClosedSocketReplaced, Typed, TypeOK
<1>23. CASE Push
  BY <1>23 DEF Push, SocketInv, Stopped, ClosedSocketReplaced, Typed, TypeOK
<1>24. CASE PushedWake
  BY <1>24 DEF PushedWake, SocketInv, Stopped, ClosedSocketReplaced, Typed, TypeOK
<1>25. CASE Connect
  BY <1>25 DEF Connect, SocketInv, Stopped, ClosedSocketReplaced, Typed, TypeOK
<1>26. CASE ConnectAgain
  BY <1>26 DEF ConnectAgain, SocketInv, Stopped, ClosedSocketReplaced, Typed, TypeOK
<1>27. CASE Disconnect
  BY <1>27 DEF Disconnect, SocketInv, Stopped, ClosedSocketReplaced, Typed, TypeOK
<1>28. CASE WakeConnect
  BY <1>28 DEF WakeConnect, SocketInv, Stopped, ClosedSocketReplaced, Typed, TypeOK
<1>29. CASE WakeSend
  BY <1>29 DEF WakeSend, SocketInv, Stopped, ClosedSocketReplaced, Typed, TypeOK
<1>30. CASE CloseSocket
  BY <1>30 DEF CloseSocket, SocketInv, Stopped, ClosedSocketReplaced, Typed, TypeOK
<1>31. CASE UnsetSocket
  BY <1>31 DEF UnsetSocket, SocketInv, Stopped, ClosedSocketReplaced, Typed, TypeOK
<1>32. CASE Joined
  BY <1>32 DEF Joined, SocketInv, Stopped, ClosedSocketReplaced, Typed, TypeOK
<1>33. ASSUME NEW t \in Handlers, HTake(t) PROVE SocketInv'
  BY <1>33 DEF HTake, SocketInv, Stopped, ClosedSocketReplaced, Typed, TypeOK
<1>34. ASSUME NEW t \in Handlers, HClose(t) PROVE SocketInv'
  BY <1>34 DEF HClose, SocketInv, Stopped, ClosedSocketReplaced, Typed, TypeOK
<1>35. ASSUME NEW t \in Handlers, HUnset(t) PROVE SocketInv'
  BY <1>35 DEF HUnset, SocketInv, Stopped, ClosedSocketReplaced, Typed, TypeOK
<1>36. ASSUME NEW t \in Handlers, HTell(t) PROVE SocketInv'
  BY <1>36 DEF HTell, SocketInv, Stopped, ClosedSocketReplaced, Typed, TypeOK
<1>37. ASSUME NEW t \in Handlers, HNotify(t) PROVE SocketInv'
  BY <1>37 DEF HNotify, SocketInv, Stopped, ClosedSocketReplaced, Typed, TypeOK
<1>38. ASSUME NEW t \in Threads, SpuriousWake(t) PROVE SocketInv'
  BY <1>38 DEF SpuriousWake, SocketInv, Stopped, ClosedSocketReplaced, Typed, TypeOK
<1>39. CASE CForget
  BY <1>39 DEF CForget, SocketInv, Stopped, ClosedSocketReplaced, Typed, TypeOK
<1>40. CASE UNCHANGED vars
  BY <1>40 DEF vars, SocketInv, Stopped, ClosedSocketReplaced, Typed, TypeOK
<1> QED
  BY <1>1, <1>2, <1>3, <1>4, <1>5, <1>6, <1>7, <1>8, <1>9, <1>10, <1>11, <1>12,
     <1>13, <1>14, <1>15, <1>16, <1>17, <1>18, <1>19, <1>20, <1>21, <1>22, <1>23,
     <1>24, <1>25, <1>26, <1>27, <1>28, <1>29, <1>30, <1>31, <1>32, <1>33, <1>34,
     <1>35, <1>36, <1>37, <1>38, <1>39, <1>40
     DEF Next, ConnectLoop, ReceiveLoop, SendLoop, SendSteps, HandleDisconnect, Stopping, Handlers

(* socket_ never goes on naming a descriptor that was closed                   *)
(* (tcp_client.h:346, :425): whoever closed it replaces it, however the four    *)
(* threads interleave.                                                         *)
THEOREM SocketReplaced == Spec => []ClosedSocketReplaced
<1>1. Init => Typed /\ SocketInv
  BY InitTyped, InitSocket
<1>2. Typed /\ SocketInv /\ [Next]_vars => (Typed /\ SocketInv)'
  BY StepTyped, StepSocket
<1>3. SocketInv => ClosedSocketReplaced
  BY DEF SocketInv
<1> QED
  BY <1>1, <1>2, <1>3, PTL DEF Spec

----------------------------------------------------------------------------
(* The losses, counted for each handler.                                       *)

Handling(t) == IF pc[t] \in {"close", "unset", "tell"} THEN 1 ELSE 0
Losses == downs + Handling("R") + Handling("S") + (IF connected THEN 1 ELSE 0) <= ups

LEMMA CountHandlers ==
  Cardinality({t \in Handlers : pc[t] \in {"close", "unset", "tell"}})
    = Handling("R") + Handling("S")
<1> DEFINE H == {t \in Handlers : pc[t] \in {"close", "unset", "tell"}}
<1>1. Cardinality({}) = 0
  BY FS_EmptySet
<1>2. Cardinality({"R"}) = 1 /\ Cardinality({"S"}) = 1 /\ IsFiniteSet({"R"})
  BY FS_Singleton
<1>3. Cardinality({"R"} \cup {"S"}) = 2
  BY <1>2, FS_AddElement
<1>4. CASE Handling("R") = 0 /\ Handling("S") = 0
  <2>1. H = {}
    BY <1>4 DEF Handling, Handlers
  <2> QED
    BY <1>1, <1>4, <2>1
<1>5. CASE Handling("R") = 1 /\ Handling("S") = 0
  <2>1. H = {"R"}
    BY <1>5 DEF Handling, Handlers
  <2> QED
    BY <1>2, <1>5, <2>1
<1>6. CASE Handling("R") = 0 /\ Handling("S") = 1
  <2>1. H = {"S"}
    BY <1>6 DEF Handling, Handlers
  <2> QED
    BY <1>2, <1>6, <2>1
<1>7. CASE Handling("R") = 1 /\ Handling("S") = 1
  <2>1. H = {"R"} \cup {"S"}
    BY <1>7 DEF Handling, Handlers
  <2> QED
    BY <1>3, <1>7, <2>1
<1> QED
  BY <1>4, <1>5, <1>6, <1>7 DEF Handling

LEMMA LossesCounted == TypeOK => (Losses <=> LossHandledOnce)
<1> SUFFICES ASSUME TypeOK PROVE Losses <=> LossHandledOnce
  OBVIOUS
<1>1. Handling("R") \in {0, 1} /\ Handling("S") \in {0, 1} /\ downs \in Nat /\ ups \in Nat
  BY DEF Handling, TypeOK
<1>2. downs + Handling("R") + Handling("S") = downs + (Handling("R") + Handling("S"))
  BY <1>1
<1> QED
  BY CountHandlers, <1>2 DEF Losses, LossHandledOnce

LEMMA InitLosses == Init => Losses
BY DEF Init, Losses, Handling, Threads, Handlers

LEMMA StepLosses == Typed /\ Losses /\ [Next]_vars => Losses'
<1> SUFFICES ASSUME Typed, Losses, [Next]_vars PROVE Losses'
  OBVIOUS
<1> USE DEF At, Goes, Wake, OwnerGoes, CMoves, CUnchanged, HMoves, RMoves, SMoves, SenderMoves,
           OwnerMoves, ThreadsUnchanged, link, Threads, Handlers
<1>1. CASE CExit
  BY <1>1 DEF CExit, Losses, Handling, Typed, TypeOK
<1>2. CASE CMustConnect
  BY <1>2 DEF CMustConnect, Losses, Handling, Typed, TypeOK
<1>3. CASE CMustWait
  BY <1>3 DEF CMustWait, Losses, Handling, Typed, TypeOK
<1>4. CASE CBlock
  BY <1>4 DEF CBlock, Losses, Handling, Typed, TypeOK
<1>5. CASE CCloseOld
  BY <1>5 DEF CCloseOld, Losses, Handling, Typed, TypeOK
<1>6. CASE CCreate
  BY <1>6 DEF CCreate, Losses, Handling, Typed, TypeOK
<1>7. CASE CConnected
  BY <1>7 DEF CConnected, Losses, Handling, Typed, TypeOK
<1>8. CASE CRefused
  BY <1>8 DEF CRefused, Losses, Handling, Typed, TypeOK
<1>9. CASE CUp
  BY <1>9 DEF CUp, Losses, Handling, Typed, TypeOK
<1>10. CASE CFail
  BY <1>10 DEF CFail, Losses, Handling, Typed, TypeOK
<1>11. CASE CRetry
  BY <1>11 DEF CRetry, Losses, Handling, Typed, TypeOK
<1>12. CASE RExit
  BY <1>12 DEF RExit, Losses, Handling, Typed, TypeOK
<1>13. CASE RStart
  BY <1>13 DEF RStart, Losses, Handling, Typed, TypeOK
<1>14. CASE RSelect
  BY <1>14 DEF RSelect, Losses, Handling, Typed, TypeOK
<1>15. CASE RRecv
  BY <1>15 DEF RRecv, Losses, Handling, Typed, TypeOK
<1>16. CASE SExit
  BY <1>16 DEF SExit, Losses, Handling, Typed, TypeOK
<1>17. CASE SMustWait
  BY <1>17 DEF SMustWait, Losses, Handling, Typed, TypeOK
<1>18. CASE SBlock
  BY <1>18 DEF SBlock, Losses, Handling, Typed, TypeOK
<1>19. CASE SPop
  BY <1>19 DEF SPop, Losses, Handling, Typed, TypeOK
<1>20. CASE SCheck
  BY <1>20 DEF SCheck, Losses, Handling, Typed, TypeOK
<1>21. CASE SSend
  BY <1>21 DEF SSend, Losses, Handling, Typed, TypeOK
<1>22. CASE Offer
  BY <1>22 DEF Offer, Losses, Handling, Typed, TypeOK
<1>23. CASE Push
  BY <1>23 DEF Push, Losses, Handling, Typed, TypeOK
<1>24. CASE PushedWake
  BY <1>24 DEF PushedWake, Losses, Handling, Typed, TypeOK
<1>25. CASE Connect
  BY <1>25 DEF Connect, Losses, Handling, Typed, TypeOK
<1>26. CASE ConnectAgain
  BY <1>26 DEF ConnectAgain, Losses, Handling, Typed, TypeOK
<1>27. CASE Disconnect
  BY <1>27 DEF Disconnect, Losses, Handling, Typed, TypeOK
<1>28. CASE WakeConnect
  BY <1>28 DEF WakeConnect, Losses, Handling, Typed, TypeOK
<1>29. CASE WakeSend
  BY <1>29 DEF WakeSend, Losses, Handling, Typed, TypeOK
<1>30. CASE CloseSocket
  BY <1>30 DEF CloseSocket, Losses, Handling, Typed, TypeOK
<1>31. CASE UnsetSocket
  BY <1>31 DEF UnsetSocket, Losses, Handling, Typed, TypeOK
<1>32. CASE Joined
  BY <1>32 DEF Joined, Losses, Handling, Typed, TypeOK
<1>33. ASSUME NEW t \in Handlers, HTake(t) PROVE Losses'
  BY <1>33 DEF HTake, Losses, Handling, Typed, TypeOK
<1>34. ASSUME NEW t \in Handlers, HClose(t) PROVE Losses'
  BY <1>34 DEF HClose, Losses, Handling, Typed, TypeOK
<1>35. ASSUME NEW t \in Handlers, HUnset(t) PROVE Losses'
  BY <1>35 DEF HUnset, Losses, Handling, Typed, TypeOK
<1>36. ASSUME NEW t \in Handlers, HTell(t) PROVE Losses'
  BY <1>36 DEF HTell, Losses, Handling, Typed, TypeOK
<1>37. ASSUME NEW t \in Handlers, HNotify(t) PROVE Losses'
  BY <1>37 DEF HNotify, Losses, Handling, Typed, TypeOK
<1>38. ASSUME NEW t \in Threads, SpuriousWake(t) PROVE Losses'
  BY <1>38 DEF SpuriousWake, Losses, Handling, Typed, TypeOK
<1>39. CASE CForget
  BY <1>39 DEF CForget, Losses, Handling, Typed, TypeOK
<1>40. CASE UNCHANGED vars
  BY <1>40 DEF vars, Losses, Handling, Typed, TypeOK
<1> QED
  BY <1>1, <1>2, <1>3, <1>4, <1>5, <1>6, <1>7, <1>8, <1>9, <1>10, <1>11, <1>12,
     <1>13, <1>14, <1>15, <1>16, <1>17, <1>18, <1>19, <1>20, <1>21, <1>22, <1>23,
     <1>24, <1>25, <1>26, <1>27, <1>28, <1>29, <1>30, <1>31, <1>32, <1>33, <1>34,
     <1>35, <1>36, <1>37, <1>38, <1>39, <1>40
     DEF Next, ConnectLoop, ReceiveLoop, SendLoop, SendSteps, HandleDisconnect, Stopping, Handlers

(* The loss of a connection is handled, and told to the callback, at most      *)
(* once, although both threads may see it and the next connection may already  *)
(* be made (tcp_client.h:423).                                                 *)
THEOREM LossesHandledOnce == Spec => []LossHandledOnce
<1>1. Init => Typed /\ Losses
  BY InitTyped, InitLosses
<1>2. Typed /\ Losses /\ [Next]_vars => (Typed /\ Losses)'
  BY StepTyped, StepLosses
<1>3. Typed /\ Losses => LossHandledOnce
  BY LossesCounted DEF Typed
<1> QED
  BY <1>1, <1>2, <1>3, PTL DEF Spec

----------------------------------------------------------------------------
(* The sleep of the send thread.                                             *)

LEMMA StepPacket == Typed /\ PacketNotMissed /\ [Next]_vars => PacketNotMissed'
<1> SUFFICES ASSUME Typed, PacketNotMissed, [Next]_vars PROVE PacketNotMissed'
  OBVIOUS
<1> USE DEF At, Goes, Wake, OwnerGoes, CMoves, CUnchanged, HMoves, RMoves, SMoves, SenderMoves,
           OwnerMoves, ThreadsUnchanged, Threads, Handlers, PacketNotMissed, Typed, TypeOK
<1>1. CASE CExit \/ CMustConnect \/ CMustWait \/ CBlock \/ CCloseOld \/ CCreate
  BY <1>1 DEF CExit, CMustConnect, CMustWait, CBlock, CCloseOld, CCreate
<1>2. CASE CConnected \/ CRefused \/ CForget \/ CUp \/ CFail \/ CRetry
  BY <1>2 DEF CConnected, CRefused, CForget, CUp, CFail, CRetry
<1>3. CASE RExit \/ RStart \/ RSelect \/ RRecv
  BY <1>3 DEF RExit, RStart, RSelect, RRecv
<1>4. CASE SExit \/ SPop \/ SCheck \/ SSend
  BY <1>4 DEF SExit, SPop, SCheck, SSend
<1>5. CASE SMustWait \/ SBlock
  BY <1>5 DEF SMustWait, SBlock
<1>6. ASSUME NEW t \in Threads, SpuriousWake(t) PROVE PacketNotMissed'
  BY <1>6 DEF SpuriousWake
<1>7. ASSUME NEW t \in Handlers, HTake(t) \/ HClose(t) \/ HUnset(t) \/ HNotify(t)
      PROVE  PacketNotMissed'
  BY <1>7 DEF HTake, HClose, HUnset, HNotify
<1>8. ASSUME NEW t \in Handlers, HTell(t) PROVE PacketNotMissed'
  BY <1>8 DEF HTell
<1>9. CASE Offer \/ Push \/ PushedWake
  BY <1>9 DEF Offer, Push, PushedWake
<1>10. CASE Connect \/ ConnectAgain \/ Disconnect \/ WakeConnect \/ WakeSend
  BY <1>10 DEF Connect, ConnectAgain, Disconnect, WakeConnect, WakeSend
<1>11. CASE CloseSocket \/ UnsetSocket \/ Joined
  BY <1>11 DEF CloseSocket, UnsetSocket, Joined
<1>12. CASE UNCHANGED vars
  BY <1>12 DEF vars
<1> QED
  BY <1>1, <1>2, <1>3, <1>4, <1>5, <1>6, <1>7, <1>8, <1>9, <1>10, <1>11, <1>12
     DEF Next, ConnectLoop, ReceiveLoop, SendLoop, SendSteps, HandleDisconnect, Stopping

(* A packet that send() has queued is not slept on: the send thread is awake,  *)
(* or about to be notified (tcp_client.h:140, :320).                       *)
THEOREM PacketHeard == Spec => []PacketNotMissed
<1>1. Init => Typed /\ PacketNotMissed
  BY InitTyped DEF Init, PacketNotMissed
<1>2. Typed /\ PacketNotMissed /\ [Next]_vars => (Typed /\ PacketNotMissed)'
  BY StepTyped, StepPacket
<1> QED
  BY <1>1, <1>2, PTL DEF Spec
============================================================================
