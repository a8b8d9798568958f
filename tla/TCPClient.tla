----------------------------- MODULE TCPClient -----------------------------
(* The command link (tcp_client.h): connectLoop, receiveLoop and sendLoop    *)
(* run on threads of their own and share socket_ without a lock;             *)
(* handleDisconnect may be run by the last two, connect() and disconnect()   *)
(* by the owner, send() by anybody.  Descriptors are numbers the kernel      *)
(* hands out again after close, lowest first.                                *)
EXTENDS Integers, FiniteSets

CONSTANTS
  MaxDescriptors,  \* descriptors the process may have open for this client
  MaxAttempts,     \* maxReconnectAttempts_, 0 for "no limit"
  MaxUps,          \* bound: connections that are established
  MaxQueue,        \* bound: packets waiting
  MaxStarts        \* bound: calls of connect() that start the threads

ASSUME ClientAssumption ==
  /\ MaxDescriptors \in Nat \ {0}
  /\ MaxAttempts \in Nat /\ MaxUps \in Nat /\ MaxQueue \in Nat /\ MaxStarts \in Nat

NoSocket == -1
Descriptors == 1 .. MaxDescriptors
Handlers == {"R", "S"}
Threads == {"C"} \cup Handlers

VARIABLES
  running,     \* running_
  connected,   \* connected_
  sock,        \* socket_
  fds,         \* the descriptors that are open
  attempts,    \* reconnectAttempts_, counted when there is a limit
  queued,      \* length of sendQueue_
  pc,          \* where each thread is: connect, receive, send
  owner,       \* where the owner is in connect() and disconnect()
  sender,      \* where a caller is in send()
  starts,      \* how often the threads were started
  ups, downs   \* history: connections established, losses told to the callback

link == <<sock, fds>>
vars == <<running, connected, link, attempts, queued, pc, owner, sender, starts, ups, downs>>

HandlerPCs == {"cas", "close", "unset", "tell", "notify"}
PCs == {"test", "toBlock", "blocked", "attempt", "create", "connect", "up", "fail",
        "refused", "retry", "select", "recv", "check", "sending", "exited"} \cup HandlerPCs
OwnerPCs == {"off", "on", "wakeC", "wakeS", "shut", "unset", "join", "terminated"}

Init ==
  /\ running = FALSE /\ connected = FALSE
  /\ sock = NoSocket /\ fds = {}
  /\ attempts = 0 /\ queued = 0
  /\ pc = [t \in Threads |-> "exited"]
  /\ owner = "off" /\ sender = "idle"
  /\ starts = 0 /\ ups = 0 /\ downs = 0

Alive == owner # "terminated"
At(t, where) == Alive /\ pc[t] = where
Goes(t, where) == pc' = [pc EXCEPT ![t] = where]
Wake(t) == pc' = [pc EXCEPT ![t] = IF @ = "blocked" THEN "test" ELSE @]
ThreadsUnchanged == UNCHANGED <<owner, sender, starts>>

----------------------------------------------------------------------------
(* connectLoop.  connectMutex_ is held from the test of the predicate until  *)
(* the thread sleeps, but nobody who notifies takes it.                      *)

CUnchanged == ThreadsUnchanged /\ UNCHANGED <<queued, downs>>
CMoves == CUnchanged /\ UNCHANGED <<running, connected, attempts, ups>>

CExit == At("C", "test") /\ ~running /\ Goes("C", "exited") /\ CMoves /\ UNCHANGED link
CMustConnect ==
  At("C", "test") /\ running /\ ~connected /\ Goes("C", "attempt") /\ CMoves /\ UNCHANGED link
CMustWait ==
  At("C", "test") /\ running /\ connected /\ Goes("C", "toBlock") /\ CMoves /\ UNCHANGED link
CBlock == At("C", "toBlock") /\ Goes("C", "blocked") /\ CMoves /\ UNCHANGED link

\* attemptConnection: close what socket_ still holds ...
CCloseOld ==
  /\ At("C", "attempt")
  /\ fds' = fds \ {sock}
  /\ Goes("C", "create") /\ CMoves /\ UNCHANGED sock

\* ... make a socket, if there is a descriptor left ...
CCreate ==
  /\ At("C", "create")
  /\ IF fds = Descriptors
     THEN sock' = NoSocket /\ fds' = fds /\ Goes("C", "fail")
     ELSE \E f \in Descriptors \ fds :
            /\ \A g \in Descriptors \ fds : f <= g
            /\ sock' = f /\ fds' = fds \cup {f}
            /\ Goes("C", "connect")
  /\ CMoves

\* ... and connect it, or close it again.
CConnected ==
  /\ At("C", "connect") /\ sock \in fds /\ ups < MaxUps
  /\ Goes("C", "up") /\ CMoves /\ UNCHANGED link
CRefused ==
  /\ At("C", "connect")
  /\ fds' = fds \ {sock}
  /\ Goes("C", "refused") /\ CMoves /\ UNCHANGED sock
CForget ==
  /\ At("C", "refused")
  /\ sock' = NoSocket
  /\ Goes("C", "fail") /\ CMoves /\ UNCHANGED fds

\* connected_ = true, and connectionCallback_(true).
CUp ==
  /\ At("C", "up")
  /\ connected' = TRUE /\ attempts' = 0 /\ ups' = ups + 1
  /\ Goes("C", "test") /\ CUnchanged /\ UNCHANGED <<running, link>>

\* Variant: one attempt too many.
CFailOneMore ==
  /\ At("C", "fail")
  /\ attempts' = IF MaxAttempts > 0 THEN attempts + 1 ELSE 0
  /\ LET last == MaxAttempts > 0 /\ attempts' > MaxAttempts IN
     /\ running' = (running /\ ~last)
     /\ Goes("C", IF last THEN "exited" ELSE "retry")
  /\ CUnchanged /\ UNCHANGED <<connected, link, ups>>

\* The client gives up after the last attempt allowed, or sleeps before the next.
CFail ==
  /\ At("C", "fail")
  /\ attempts' = IF MaxAttempts > 0 THEN attempts + 1 ELSE 0
  /\ LET last == MaxAttempts > 0 /\ attempts' >= MaxAttempts IN
     /\ running' = (running /\ ~last)
     /\ Goes("C", IF last THEN "exited" ELSE "retry")
  /\ CUnchanged /\ UNCHANGED <<connected, link, ups>>

CRetry == At("C", "retry") /\ Goes("C", "test") /\ CMoves /\ UNCHANGED link

ConnectLoop ==
  \/ CExit \/ CMustConnect \/ CMustWait \/ CBlock
  \/ CCloseOld \/ CCreate \/ CConnected \/ CRefused \/ CForget
  \/ CUp \/ CFail \/ CRetry

----------------------------------------------------------------------------
(* handleDisconnect, on the receive or the send thread.                      *)

HMoves == ThreadsUnchanged /\ UNCHANGED <<running, attempts, starts, ups>>

\* Variant: connected_ is stored, not exchanged.
HTakeAlways(t) ==
  /\ At(t, "cas")
  /\ connected' = FALSE
  /\ Goes(t, "close")
  /\ HMoves /\ UNCHANGED <<link, queued, downs>>

\* compare_exchange: only one thread handles the loss of a connection.
HTake(t) ==
  /\ At(t, "cas")
  /\ connected' = FALSE
  /\ Goes(t, IF connected THEN "close" ELSE "test")
  /\ HMoves /\ UNCHANGED <<link, queued, downs>>

HClose(t) ==
  /\ At(t, "close")
  /\ fds' = fds \ {sock}
  /\ Goes(t, "unset")
  /\ HMoves /\ UNCHANGED <<connected, sock, queued, downs>>

\* Variant: socket_ keeps the descriptor that was closed.
HKeepSocket(t) ==
  /\ At(t, "unset")
  /\ Goes(t, "tell")
  /\ HMoves /\ UNCHANGED <<connected, link, queued, downs>>

HUnset(t) ==
  /\ At(t, "unset")
  /\ sock' = NoSocket
  /\ Goes(t, "tell")
  /\ HMoves /\ UNCHANGED <<connected, fds, queued, downs>>

\* connectionCallback_(false), clearSendQueue.
HTell(t) ==
  /\ At(t, "tell")
  /\ downs' = downs + 1 /\ queued' = 0
  /\ Goes(t, "notify")
  /\ HMoves /\ UNCHANGED <<connected, link>>

HNotify(t) ==
  /\ At(t, "notify")
  /\ pc' = [pc EXCEPT ![t] = "test", !["C"] = IF @ = "blocked" THEN "test" ELSE @]
  /\ HMoves /\ UNCHANGED <<connected, link, queued, downs>>

HandleDisconnect(t) == HTake(t) \/ HClose(t) \/ HUnset(t) \/ HTell(t) \/ HNotify(t)

----------------------------------------------------------------------------
(* receiveLoop, asleep while nothing is connected.                           *)

RMoves == HMoves /\ UNCHANGED <<connected, link, queued, downs>>

RExit == At("R", "test") /\ ~running /\ Goes("R", "exited") /\ RMoves
RStart == At("R", "test") /\ running /\ connected /\ Goes("R", "select") /\ RMoves

\* select looks at no descriptor when socket_ is -1, fails for a closed one, and
\* times out or finds data otherwise; running_ is tested again after it.
RSelect ==
  /\ At("R", "select")
  /\ \/ ~running /\ Goes("R", "exited")
     \/ running /\ sock \in fds \cup {NoSocket} /\ Goes("R", "test")
     \/ running /\ sock \notin fds \cup {NoSocket} /\ Goes("R", "cas")
     \/ running /\ sock \in fds /\ Goes("R", "recv")
  /\ RMoves

\* Data for the callback, or the end of the connection.
RRecv ==
  /\ At("R", "recv")
  /\ \/ sock \in fds /\ Goes("R", "test")
     \/ Goes("R", "cas")
  /\ RMoves

ReceiveLoop == RExit \/ RStart \/ RSelect \/ RRecv \/ HandleDisconnect("R")

----------------------------------------------------------------------------
(* sendLoop; queueMutex_ is held from the test until the thread sleeps.      *)

SMoves == HMoves /\ UNCHANGED <<connected, link, downs>>

SExit == At("S", "test") /\ ~running /\ Goes("S", "exited") /\ SMoves /\ UNCHANGED queued
SMustWait ==
  /\ At("S", "test") /\ running /\ queued = 0
  /\ Goes("S", "toBlock") /\ SMoves /\ UNCHANGED queued
SBlock == At("S", "toBlock") /\ Goes("S", "blocked") /\ SMoves /\ UNCHANGED queued
SPop ==
  /\ At("S", "test") /\ running /\ queued > 0
  /\ queued' = queued - 1
  /\ Goes("S", "check") /\ SMoves

SCheck ==
  /\ At("S", "check")
  /\ Goes("S", IF connected THEN "sending" ELSE "test")
  /\ SMoves /\ UNCHANGED queued

\* internalSend: all of it is sent, or an error ends the connection; a full
\* buffer is tried again, for as long as it is full, which is no step.
SSend ==
  /\ At("S", "sending")
  /\ \/ sock \in fds /\ Goes("S", "test")
     \/ Goes("S", "cas")
  /\ SMoves /\ UNCHANGED queued

SendSteps == SExit \/ SMustWait \/ SBlock \/ SPop \/ SCheck \/ HandleDisconnect("S")
SendLoop == SendSteps \/ SSend

\* Either condition variable may wake its thread for nothing.
SpuriousWake(t) ==
  /\ At(t, "blocked")
  /\ Goes(t, "test") /\ SMoves /\ UNCHANGED queued

----------------------------------------------------------------------------
(* send(): test, push under queueMutex_, notify.                             *)

SenderMoves ==
  UNCHANGED <<running, connected, link, attempts, owner, starts, ups, downs>>

Offer ==
  /\ Alive /\ sender = "idle" /\ running /\ connected /\ queued < MaxQueue
  /\ sender' = "push"
  /\ SenderMoves /\ UNCHANGED <<queued, pc>>
Push ==
  /\ Alive /\ sender = "push" /\ pc["S"] # "toBlock"
  /\ queued' = queued + 1 /\ sender' = "wake"
  /\ SenderMoves /\ UNCHANGED pc

\* Variant: the packet is queued and nobody notified.
PushedNoWake ==
  /\ Alive /\ sender = "wake"
  /\ sender' = "idle"
  /\ SenderMoves /\ UNCHANGED <<queued, pc>>

PushedWake ==
  /\ Alive /\ sender = "wake"
  /\ sender' = "idle" /\ Wake("S")
  /\ SenderMoves /\ UNCHANGED queued

----------------------------------------------------------------------------
(* The owner: connect(), and disconnect() with its joins.                    *)

OwnerMoves == UNCHANGED <<attempts, sender, ups, downs>>
OwnerGoes(from, to) == owner = from /\ owner' = to

Connect ==
  /\ OwnerGoes("off", "on") /\ starts < MaxStarts
  /\ running' = TRUE /\ starts' = starts + 1 /\ attempts' = 0
  /\ pc' = [t \in Threads |-> "test"]
  /\ UNCHANGED <<connected, link, queued, sender, ups, downs>>

\* connect() once the connect thread has given up: the threads were never joined,
\* and assigning to a joinable std::thread terminates the process.
ConnectAgain ==
  /\ OwnerGoes("on", "terminated") /\ ~running
  /\ OwnerMoves /\ UNCHANGED <<running, connected, link, queued, pc, starts>>

Disconnect ==
  /\ OwnerGoes("on", "wakeC") /\ running
  /\ running' = FALSE
  /\ OwnerMoves /\ UNCHANGED <<connected, link, queued, pc, starts>>

\* connectCv_ also ends the sleep before a retry.
WakeConnect ==
  /\ OwnerGoes("wakeC", "wakeS") /\ Wake("C")
  /\ OwnerMoves /\ UNCHANGED <<running, connected, link, queued, starts>>
WakeSend ==
  /\ OwnerGoes("wakeS", "shut") /\ Wake("S")
  /\ OwnerMoves /\ UNCHANGED <<running, connected, link, queued, starts>>

CloseSocket ==
  /\ OwnerGoes("shut", IF sock = NoSocket THEN "join" ELSE "unset")
  /\ fds' = fds \ {sock}
  /\ OwnerMoves /\ UNCHANGED <<running, connected, sock, queued, pc, starts>>
UnsetSocket ==
  /\ OwnerGoes("unset", "join")
  /\ sock' = NoSocket
  /\ OwnerMoves /\ UNCHANGED <<running, connected, fds, queued, pc, starts>>

Joined ==
  /\ OwnerGoes("join", "off") /\ \A t \in Threads : pc[t] = "exited"
  /\ queued' = 0 /\ connected' = FALSE
  /\ OwnerMoves /\ UNCHANGED <<running, link, pc, starts>>

Stopping == WakeConnect \/ WakeSend \/ CloseSocket \/ UnsetSocket \/ Joined

----------------------------------------------------------------------------
Next ==
  \/ ConnectLoop \/ ReceiveLoop \/ SendLoop
  \/ \E t \in Threads : SpuriousWake(t)
  \/ Offer \/ Push \/ PushedWake
  \/ Connect \/ ConnectAgain \/ Disconnect \/ Stopping

Spec == Init /\ [][Next]_vars

\* Threads that can run do, and calls that were made are carried through; nothing
\* is assumed of the network, of spurious wakeups or of who calls.  A send may try
\* again for ever.
FairSpec ==
  /\ Spec
  /\ WF_vars(ConnectLoop) /\ WF_vars(ReceiveLoop) /\ WF_vars(SendSteps)
  /\ WF_vars(Push \/ PushedWake) /\ WF_vars(Stopping)

----------------------------------------------------------------------------
(* Properties.                                                              *)

TypeOK ==
  /\ running \in BOOLEAN /\ connected \in BOOLEAN
  /\ sock \in Descriptors \cup {NoSocket} /\ fds \subseteq Descriptors
  /\ attempts \in 0 .. MaxAttempts /\ queued \in 0 .. MaxQueue + 1
  /\ pc \in [Threads -> PCs] /\ owner \in OwnerPCs /\ sender \in {"idle", "push", "wake"}
  /\ starts \in 0 .. MaxStarts /\ ups \in 0 .. MaxUps /\ downs \in Nat

\* The receive and the send thread may both see a connection die, and the
\* connect thread may make the next one meanwhile: each loss is handled, and told
\* to the callback, once at most (handleDisconnect).
LossHandledOnce ==
  downs + Cardinality({t \in Handlers : pc[t] \in {"close", "unset", "tell"}})
        + (IF connected THEN 1 ELSE 0) <= ups

\* socket_ names a closed descriptor only between a close and the assignment that
\* follows it in the same function, in each of the four places that close it: no other
\* thread's write, however it falls, leaves the number behind for select and send to
\* work on after the process has given it to somebody else.
ClosedSocketReplaced ==
  sock \notin fds \cup {NoSocket} =>
    \/ pc["C"] \in {"create", "refused"} \/ owner = "unset"
    \/ \E t \in Handlers : pc[t] = "unset"
    \/ owner = "terminated"

\* While a packet waits, the send thread is not on its way to sleep, and if it sleeps a
\* caller of send() is about to notify it: the push is made under queueMutex_, which the
\* thread holds from its test until it sleeps, the notification is not.
PacketNotMissed ==
  queued > 0 => pc["S"] # "toBlock" /\ (pc["S"] = "blocked" => sender = "wake")

\* The send thread does not sleep on a packet that a call of send() has queued.
PacketWakesSender ==
  (queued > 0 /\ pc["S"] = "blocked") ~> (pc["S"] # "blocked" \/ queued = 0 \/ ~Alive)

\* connectLoop is responsible for reconnecting: it does not sleep on while there
\* is no connection, unless the client was stopped.
LossWakesConnect ==
  (pc["C"] = "blocked" /\ ~connected) ~> (pc["C"] # "blocked" \/ ~running \/ ~Alive)
============================================================================
