------------------------ MODULE CNCController_proofs ------------------------
(* Theorems about CNCController, for any commands, moves, targets and bounds.  *)
EXTENDS CNCController, TLAPS

\* What is written to the port, and what comes back.
Motions == UNION {[S -> Int] : S \in SUBSET Axes}
Words == Motions \cup {Query}
Replies == [Axes -> Int] \cup {Ack}

\* The history is typed here: TypeOK leaves it out, as the port and the commands.
Typed ==
  /\ TypeOK
  /\ command \in [Threads -> Words] /\ todo \in Seq(Words)
  /\ inbox \in Seq(Replies) /\ been \in [Axes -> SUBSET Int]

LEMMA MotionIsWord ==
  ASSUME NEW S \in SUBSET Axes, NEW motion \in [S -> Int]
  PROVE  motion \in Motions
BY DEF Motions

LEMMA WordMoves ==
  ASSUME NEW cmd \in Words, cmd # Query, NEW a \in Axes, a \in DOMAIN cmd
  PROVE  cmd[a] \in Int
<1>1. cmd \in Motions
  BY DEF Words
<1>2. PICK F \in {[S -> Int] : S \in SUBSET Axes} : cmd \in F
  BY <1>1 DEF Motions
<1>3. PICK S \in SUBSET Axes : cmd \in [S -> Int]
  BY <1>2
<1> QED
  BY <1>3

LEMMA WordsKept == Query \in Words /\ Nothing \in Words
<1>1. Nothing \in [{} -> Int]
  BY DEF Nothing
<1>2. Nothing \in Motions
  BY <1>1, MotionIsWord
<1> QED
  BY <1>2 DEF Words

LEMMA ReplyTyped ==
  ASSUME Typed, NEW cmd \in Words
  PROVE  Reply(cmd) \in Replies
BY DEF Typed, TypeOK, Reply, Replies

LEMMA MovesTyped ==
  ASSUME Typed, NEW cmd \in Words, MovesTo(cmd)
  PROVE  goal' \in [Axes -> Int]
<1>1. \A a \in Axes : cmd # Query /\ a \in DOMAIN cmd => cmd[a] \in Int
  BY WordMoves
<1> QED
  BY <1>1 DEF Typed, TypeOK, MovesTo

\* A position that is read may be short in its last number, and in no other.
LEMMA ReadablePositions ==
  ASSUME NEW replies \in Seq(Replies), NEW q \in Readable(replies)
  PROVE  /\ q \in [Axes -> Int]
         /\ \E i \in DOMAIN replies :
              replies[i] # Ack /\ \A a \in JogAxes : q[a] = replies[i][a]
<1>1. PICK i \in DOMAIN replies :
        /\ replies[i] # Ack
        /\ q = replies[i] \/ q = [replies[i] EXCEPT !["C"] = Short(@)]
  BY DEF Readable
<1>2. replies[i] \in [Axes -> Int]
  BY <1>1 DEF Replies
<1>3. \A n \in Int : Short(n) \in Int
  BY DEF Short
<1>4. q \in [Axes -> Int]
  BY <1>1, <1>2, <1>3 DEF Axes
<1>5. \A a \in JogAxes : q[a] = replies[i][a]
  BY <1>1, <1>2 DEF Axes, JogAxes
<1> QED
  BY <1>1, <1>4, <1>5

LEMMA ReadsTyped ==
  ASSUME Typed, NEW t \in Threads, NEW replies \in Seq(Replies), Reads(t, replies)
  PROVE  inbox' \in Seq(Replies) /\ p' \in [Axes -> Int] /\ heard' \in BOOLEAN
<1>1. inbox' \in Seq(Replies)
  BY DEF Reads
<1>2. CASE UNCHANGED polling
  BY <1>1, <1>2 DEF polling, Typed, TypeOK
<1>3. CASE p' \in Readable(replies) /\ heard' = TRUE
  BY <1>1, <1>3, ReadablePositions
<1> QED
  BY <1>2, <1>3 DEF Reads

LEMMA InitTyped == Init => Typed
<1> SUFFICES ASSUME Init PROVE Typed
  OBVIOUS
<1> USE ControllerAssumption DEF ControllerAssumption, Init
<1>1. pc \in [Threads -> {"test", "lock", "toBlock", "blocked", "process", "write",
                          "store", "settle", "call", "done", "exited", "terminated"}]
  OBVIOUS
<1>2. command \in [Threads -> Words] /\ todo \in Seq(Words) /\ inbox \in Seq(Replies)
  BY WordsKept
<1>3. been \in [Axes -> SUBSET Int] /\ pos \in [Axes -> Int] /\ goal \in [Axes -> Int]
  OBVIOUS
<1>4. last \in [Axes -> Int] /\ camera \in [JogAxes -> Int] /\ aim \in [MoveAxes -> Int]
  BY DEF Unknown
<1>5. cmds \in Seq(Chunks) /\ jog \in Chunks \cup {Malformed} /\ chunks \in 0 .. MaxChunks
  OBVIOUS
<1>6. p \in [Axes -> Int] /\ told \in [Moves -> Nat] /\ jogs \in Nat /\ afterStop \in Nat
  OBVIOUS
<1>7. /\ attached \in BOOLEAN /\ receiver \in {"idle", "notify"} /\ running \in BOOLEAN
      /\ owner \in {"on", "notify", "join"} /\ moveFlag \in BOOLEAN
      /\ callback \in Moves \cup {Nobody} /\ heard \in BOOLEAN
  OBVIOUS
<1> QED
  BY <1>1, <1>2, <1>3, <1>4, <1>5, <1>6, <1>7 DEF Typed, TypeOK

\* An exchange of any thread: what is left alone, what is written, what is read.
LEMMA ExchangeTyped ==
  ASSUME Typed, NEW t \in Threads, Exchange(t)
  PROVE  Typed'
<1>1. command[t] \in Words /\ Reply(command[t]) \in Replies
  BY ReplyTyped DEF Typed
<1>2. pc' \in [Threads -> {"test", "lock", "toBlock", "blocked", "process", "write",
                           "store", "settle", "call", "done", "exited", "terminated"}]
  BY DEF Typed, TypeOK, Exchange, Goes, After
<1>3. command' \in [Threads -> Words]
  BY WordsKept DEF Typed, Exchange
<1>4. /\ todo' \in Seq(Words) /\ inbox' \in Seq(Replies) /\ goal' \in [Axes -> Int]
      /\ p' \in [Axes -> Int] /\ heard' \in BOOLEAN
  <2>1. CASE UNCHANGED <<todo, inbox, goal, polling>>
    BY <2>1 DEF Typed, TypeOK, polling
  <2>2. CASE todo' = Append(todo, command[t]) /\ Reads(t, inbox) /\ goal' = goal
    BY <1>1, <2>2, ReadsTyped DEF Typed, TypeOK
  <2>3. CASE /\ todo' = todo /\ Reads(t, Append(inbox, Reply(command[t])))
             /\ MovesTo(command[t])
    <3>1. Append(inbox, Reply(command[t])) \in Seq(Replies)
      BY <1>1 DEF Typed
    <3> QED
      BY <1>1, <2>3, <3>1, ReadsTyped, MovesTyped DEF Typed
  <2> QED
    BY <2>1, <2>2, <2>3 DEF Exchange
<1>5. UNCHANGED <<attached, console, control, pos, been>>
  BY DEF Exchange
<1> QED
  BY <1>2, <1>3, <1>4, <1>5 DEF Typed, TypeOK, console, control

LEMMA JogTyped ==
  ASSUME Typed, AcceptJog
  PROVE  Typed'
<1>1. jog \in [axis : Axes, dir : Int] /\ jogs' = jogs + 1 /\ moveFlag' = TRUE
  BY ControllerAssumption DEF ControllerAssumption, AcceptJog, Typed, TypeOK
<1>2. \A a \in Axes : \A from \in Seen(a) : from \in Int
  BY DEF Seen, Typed, TypeOK
<1>3. ASSUME jog.axis \in JogAxes, NEW from \in Int PROVE JogTarget(from) \in Int
  <2>1. Gradient \in Int
    BY ControllerAssumption DEF ControllerAssumption
  <2>2. camera[jog.axis] \in Int
    BY <1>3 DEF Typed, TypeOK
  <2> QED
    BY <1>1, <1>3, <2>1, <2>2 DEF JogTarget
<1>4. camera' \in [JogAxes -> Int]
  BY <1>1, <1>2, <1>3 DEF AcceptJog, Typed, TypeOK
<1>5. command' \in [Threads -> Words]
  <2>1. CASE jog.axis \in JogAxes
    <3>1. [a \in {jog.axis} |-> camera'[a]] \in [{jog.axis} -> Int]
      BY <1>4, <2>1
    <3>2. [a \in {jog.axis} |-> camera'[a]] \in Motions
      BY <1>1, <3>1, MotionIsWord
    <3> QED
      BY <2>1, <3>2 DEF AcceptJog, Typed, Words
  <2>2. CASE jog.axis \notin JogAxes
    BY <2>2, WordsKept DEF AcceptJog, Typed
  <2> QED
    BY <2>1, <2>2
<1>6. pc' \in [Threads -> {"test", "lock", "toBlock", "blocked", "process", "write",
                           "store", "settle", "call", "done", "exited", "terminated"}]
  BY DEF Typed, TypeOK, AcceptJog, Goes
<1>7. UNCHANGED <<attached, console, last, aim, callback, told, polling, machine>>
  BY DEF AcceptJog, ProcessMoves
<1> QED
  BY <1>1, <1>4, <1>5, <1>6, <1>7 DEF Typed, TypeOK, console, polling, machine

LEMMA SelectiveTyped ==
  ASSUME Typed, NEW m \in Moves, MoveSelective(m)
  PROVE  Typed'
<1>1. PICK needed \in SUBSET MoveAxes :
        \/ /\ needed = {} /\ Goes(m, "call", "done") /\ Tell(m)
           /\ UNCHANGED <<moveFlag, aim, callback, command>>
        \/ /\ Goes(m, "call", "write")
           /\ aim' = [a \in MoveAxes |-> IF a \in needed THEN Target[m][a] ELSE aim[a]]
           /\ command' = [command EXCEPT ![m] = [a \in needed |-> Target[m][a]]]
           /\ moveFlag' = TRUE
           /\ callback' = IF HasCallback[m] THEN m ELSE Nobody
           /\ told' = told
  <2>1. PICK seen \in [MoveAxes -> UNION {Seen(a) : a \in MoveAxes}] :
          LET needed == {a \in MoveAxes : Target[m][a] \notin {Skip, seen[a]}} IN
          \/ /\ needed = {} /\ Goes(m, "call", "done") /\ Tell(m)
             /\ UNCHANGED <<moveFlag, aim, callback, command>>
          \/ /\ needed # {} /\ Goes(m, "call", "write")
             /\ aim' = [a \in MoveAxes |-> IF a \in needed THEN Target[m][a] ELSE aim[a]]
             /\ command' = [command EXCEPT ![m] = [a \in needed |-> Target[m][a]]]
             /\ moveFlag' = TRUE
             /\ callback' = IF HasCallback[m] THEN m ELSE Nobody
             /\ told' = told
    BY DEF MoveSelective
  <2> DEFINE N == {a \in MoveAxes : Target[m][a] \notin {Skip, seen[a]}}
  <2>2. N \in SUBSET MoveAxes
    OBVIOUS
  <2> QED
    BY <2>1, <2>2
<1>2. Target[m] \in [Axes -> Int] /\ m \in Threads
  BY ControllerAssumption DEF ControllerAssumption, Threads
<1>3. [a \in needed |-> Target[m][a]] \in Words
  <2>1. needed \in SUBSET Axes
    BY DEF MoveAxes, Axes
  <2>2. [a \in needed |-> Target[m][a]] \in [needed -> Int]
    BY <1>2, <2>1
  <2> QED
    BY <2>1, <2>2, MotionIsWord DEF Words
<1>4. command' \in [Threads -> Words]
  BY <1>1, <1>2, <1>3 DEF Typed
<1>5. aim' \in [MoveAxes -> Int] /\ told' \in [Moves -> Nat]
  <2>1. aim' \in [MoveAxes -> Int]
    <3>1. \A a \in MoveAxes : Target[m][a] \in Int
      BY <1>2 DEF MoveAxes, Axes
    <3> QED
      BY <1>1, <3>1 DEF Typed, TypeOK
  <2>2. told' \in [Moves -> Nat]
    <3>1. told' = told \/ told' = [told EXCEPT ![m] = @ + 1]
      BY <1>1 DEF Tell
    <3>2. told \in [Moves -> Nat]
      BY DEF Typed, TypeOK
    <3> QED
      BY <3>1, <3>2
  <2> QED
    BY <2>1, <2>2
<1>6. moveFlag' \in BOOLEAN /\ callback' \in Moves \cup {Nobody}
  BY <1>1 DEF Typed, TypeOK
<1>7. pc' \in [Threads -> {"test", "lock", "toBlock", "blocked", "process", "write",
                           "store", "settle", "call", "done", "exited", "terminated"}]
  BY <1>1, <1>2 DEF Typed, TypeOK, Goes
<1>8. UNCHANGED <<attached, console, last, camera, jogs, polling, machine>>
  BY DEF MoveSelective, MoveUnchanged
<1> QED
  BY <1>4, <1>5, <1>6, <1>7, <1>8 DEF Typed, TypeOK, console, polling, machine

LEMMA StepTyped == Typed /\ [Next]_vars => Typed'
<1> SUFFICES ASSUME Typed, [Next]_vars PROVE Typed'
  OBVIOUS
<1> USE DEF console, control, polling, machine, PollUnchanged, ReceiverUnchanged, WakeConsole, ConsoleMoves, ProcessMoves,
           OwnerMoves, MoveUnchanged, MachineUnchanged, Goes
<1>1. CASE Store
  BY <1>1 DEF Store, Typed, TypeOK
<1>2. CASE Settle
  <2>1. /\ moveFlag' = FALSE
        /\ UNCHANGED <<jogs, callback, told, last, camera, aim, attached, command>>
        /\ UNCHANGED <<console, polling, machine>>
    BY <1>2 DEF Settle, CameraFlag
  <2>2. pc' \in [Threads -> {"test", "lock", "toBlock", "blocked", "process", "write",
                             "store", "settle", "call", "done", "exited", "terminated"}]
    BY <1>2 DEF Settle, Typed, TypeOK
  <2> QED
    BY <2>1, <2>2 DEF Typed, TypeOK
<1>3. CASE Attach
  BY <1>3 DEF Attach, Typed, TypeOK
<1>4. CASE Notify
  BY <1>4 DEF Notify, Typed, TypeOK
<1>5. CASE LoopHead
  BY <1>5 DEF LoopHead, Typed, TypeOK
<1>6. CASE TakeCommand
  <2>1. Head(cmds) \in Chunks /\ Tail(cmds) \in Seq(Chunks)
    BY <1>6 DEF TakeCommand, Typed, TypeOK
  <2>2. jog' \in Chunks /\ cmds' \in Seq(Chunks) /\ afterStop' \in Nat
    BY <1>6, <2>1 DEF TakeCommand, Typed, TypeOK
  <2>3. pc' \in [Threads -> {"test", "lock", "toBlock", "blocked", "process", "write",
                             "store", "settle", "call", "done", "exited", "terminated"}]
    BY <1>6 DEF TakeCommand, Typed, TypeOK
  <2> QED
    BY <1>6, <2>2, <2>3 DEF TakeCommand, Typed, TypeOK
<1>7. CASE NothingToTake
  BY <1>7 DEF NothingToTake, Typed, TypeOK
<1>8. CASE Block
  BY <1>8 DEF Block, Typed, TypeOK
<1>9. CASE SpuriousWake
  BY <1>9 DEF SpuriousWake, Typed, TypeOK
<1>10. CASE Refuse
  BY <1>10 DEF Refuse, Typed, TypeOK
<1>11. CASE Stop
  BY <1>11 DEF Stop, Typed, TypeOK
<1>12. CASE StopNotify
  BY <1>12 DEF StopNotify, Typed, TypeOK
<1>13. ASSUME NEW t \in Threads, Exchange(t) PROVE Typed'
  BY <1>13, ExchangeTyped
<1>14. CASE MachineHandles
  <2>1. Head(todo) \in Words /\ Tail(todo) \in Seq(Words)
    BY <1>14 DEF MachineHandles, Typed
  <2>2. Reply(Head(todo)) \in Replies /\ goal' \in [Axes -> Int]
    BY <1>14, <2>1, ReplyTyped, MovesTyped DEF MachineHandles
  <2>3. inbox' = Append(inbox, Reply(Head(todo))) /\ todo' = Tail(todo)
    BY <1>14 DEF MachineHandles
  <2>4. inbox' \in Seq(Replies) /\ todo' \in Seq(Words)
    BY <2>1, <2>2, <2>3 DEF Typed
  <2>5. UNCHANGED <<attached, console, pc, control, command, polling, pos, been>>
    BY <1>14 DEF MachineHandles
  <2> QED
    BY <2>2, <2>4, <2>5 DEF Typed, TypeOK
<1>15. ASSUME NEW a \in Axes, MachineMoves(a) PROVE Typed'
  BY <1>15 DEF MachineMoves, Typed, TypeOK
<1>16. ASSUME NEW c \in Chunks, Deliver(c) PROVE Typed'
  <2>1. cmds' \in Seq(Chunks) /\ receiver' \in {"idle", "notify"}
    <3>1. /\ cmds' = cmds \/ cmds' = Append(cmds, c)
          /\ receiver' = receiver \/ receiver' = "notify"
      BY <1>16 DEF Deliver
    <3>2. cmds \in Seq(Chunks) /\ receiver \in {"idle", "notify"}
      BY DEF Typed, TypeOK
    <3>3. Append(cmds, c) \in Seq(Chunks)
      BY <3>2
    <3> QED
      BY <3>1, <3>2, <3>3
  <2>2. chunks' \in 0 .. MaxChunks
    BY <1>16, ControllerAssumption DEF ControllerAssumption, Deliver, Typed, TypeOK
  <2> QED
    BY <1>16, <2>1, <2>2 DEF Deliver, Typed, TypeOK
<1>17. CASE AcceptJog
  BY <1>17, JogTyped
<1>18. ASSUME NEW m \in Moves, MoveDirect(m) PROVE Typed'
  <2> DEFINE named == {a \in Axes : Target[m][a] # Skip}
             motion == [a \in named |-> Target[m][a]]
  <2>1. motion \in [named -> Int] /\ named \in SUBSET Axes
    BY ControllerAssumption DEF ControllerAssumption
  <2>2. motion \in Words
    BY <2>1, MotionIsWord DEF Words
  <2>3. command' = [command EXCEPT ![m] = motion]
    BY <1>18 DEF MoveDirect
  <2>4. command' \in [Threads -> Words]
    BY <2>2, <2>3 DEF Typed
  <2> QED
    BY <1>18, <2>4 DEF MoveDirect, Typed, TypeOK
<1>19. ASSUME NEW m \in Moves, MoveSelective(m) PROVE Typed'
  BY <1>19, SelectiveTyped
<1>20. CASE UNCHANGED vars
  BY <1>20 DEF vars, Typed, TypeOK
<1>21. CASE PollThrows
  BY <1>21 DEF PollThrows, Typed, TypeOK
<1> QED
  BY <1>1, <1>2, <1>3, <1>4, <1>5, <1>6, <1>7, <1>8, <1>9, <1>10, <1>11, <1>12,
     <1>13, <1>14, <1>15, <1>16, <1>17, <1>18, <1>19, <1>20, <1>21
     DEF Next, CommandLoop

(* The state keeps its type, whatever the port delivers.                       *)
THEOREM Typing == Spec => []TypeOK
<1>1. Typed => TypeOK
  BY DEF Typed
<1> QED
  BY InitTyped, StepTyped, <1>1, PTL DEF Spec

----------------------------------------------------------------------------
(* move_flag_ stands for the last jog that was accepted: the polling thread,    *)
(* which alone clears it, leaves at most one jog behind when it does.          *)

JogFlag ==
  /\ jogs \in 0 .. 2
  /\ jogs = 2 => moveFlag
  /\ pc["poll"] = "settle" /\ jogs # 0 => jogs = 1 /\ moveFlag

LEMMA StepJogFlag == Typed /\ JogFlag /\ [Next]_vars => JogFlag'
<1> SUFFICES ASSUME Typed, JogFlag, [Next]_vars PROVE JogFlag'
  OBVIOUS
<1> USE DEF console, control, PollUnchanged, ReceiverUnchanged, WakeConsole, ConsoleMoves, ProcessMoves,
           OwnerMoves, MoveUnchanged, MachineUnchanged, Goes, CameraFlag, Threads, Typed, TypeOK, JogFlag
<1>1. CASE Store
  BY <1>1 DEF Store
<1>2. CASE Settle
  BY <1>2 DEF Settle
<1>3. CASE AcceptJog
  BY <1>3 DEF AcceptJog
<1>4. ASSUME NEW m \in Moves, MoveDirect(m) \/ MoveSelective(m) PROVE JogFlag'
  <2>1. UNCHANGED jogs /\ (moveFlag => moveFlag')
    BY <1>4 DEF MoveDirect, MoveSelective
  <2>2. pc["poll"] = pc'["poll"]
    BY <1>4, ControllerAssumption DEF MoveDirect, MoveSelective, ControllerAssumption
  <2> QED
    BY <2>1, <2>2
<1>5. ASSUME NEW t \in Threads, Exchange(t) PROVE JogFlag'
  BY <1>5 DEF Exchange, After
<1>6. CASE LoopHead \/ TakeCommand \/ NothingToTake
  BY <1>6 DEF LoopHead, TakeCommand, NothingToTake
<1>7. CASE Block \/ SpuriousWake \/ Refuse
  BY <1>7 DEF Block, SpuriousWake, Refuse
<1>8. CASE Attach \/ Notify \/ Stop \/ StopNotify \/ PollThrows
  BY <1>8 DEF Attach, Notify, Stop, StopNotify, PollThrows
<1>9. ASSUME \/ \E c \in Chunks : Deliver(c)
             \/ MachineHandles \/ \E a \in Axes : MachineMoves(a)
      PROVE  JogFlag'
  BY <1>9 DEF Deliver, MachineHandles, MachineMoves
<1>10. CASE UNCHANGED vars
  BY <1>10 DEF vars
<1> QED
  BY <1>1, <1>2, <1>3, <1>4, <1>5, <1>6, <1>7, <1>8, <1>9, <1>10 DEF Next, CommandLoop

(* Two jogs at most start from one stored position, one of them after the flag *)
(* was cleared for it (updatePara, pollingLoop).                               *)
THEOREM JogsSeparated == Spec => []JogsPerPosition
<1>1. Init => Typed /\ JogFlag
  BY InitTyped DEF Init, JogFlag
<1>2. Typed /\ JogFlag /\ [Next]_vars => (Typed /\ JogFlag)'
  BY StepTyped, StepJogFlag
<1>3. JogFlag => JogsPerPosition
  BY DEF JogFlag, JogsPerPosition
<1> QED
  BY <1>1, <1>2, <1>3, PTL DEF Spec

----------------------------------------------------------------------------
(* A command taken after stop() is the last: the loop tests running_ again     *)
(* before the next.                                                            *)

LastCommand ==
  /\ afterStop \in {0, 1}
  /\ owner = "on" => running
  /\ afterStop = 1 => ~running /\ pc["console"] \in {"process", "write", "test", "exited"}

LEMMA StepLastCommand == Typed /\ LastCommand /\ [Next]_vars => LastCommand'
<1> SUFFICES ASSUME Typed, LastCommand, [Next]_vars PROVE LastCommand'
  OBVIOUS
<1> USE DEF console, control, polling, machine, PollUnchanged, ReceiverUnchanged, WakeConsole, ConsoleMoves, ProcessMoves,
           OwnerMoves, MoveUnchanged, MachineUnchanged, Goes, Threads, After
<1>1. CASE Store
  BY <1>1 DEF Store, Typed, TypeOK, LastCommand
<1>2. CASE Settle
  BY <1>2 DEF Settle, Typed, TypeOK, LastCommand
<1>3. CASE Attach
  BY <1>3 DEF Attach, Typed, TypeOK, LastCommand
<1>4. CASE Notify
  BY <1>4 DEF Notify, Typed, TypeOK, LastCommand
<1>5. CASE LoopHead
  BY <1>5 DEF LoopHead, Typed, TypeOK, LastCommand
<1>6. CASE TakeCommand
  <2>1. afterStop = 0 /\ pc'["console"] = "process"
    BY <1>6 DEF TakeCommand, Typed, TypeOK, LastCommand
  <2> QED
    BY <1>6, <2>1 DEF TakeCommand, LastCommand
<1>7. CASE NothingToTake
  BY <1>7 DEF NothingToTake, Typed, TypeOK, LastCommand
<1>8. CASE Block
  BY <1>8 DEF Block, Typed, TypeOK, LastCommand
<1>9. CASE SpuriousWake
  BY <1>9 DEF SpuriousWake, Typed, TypeOK, LastCommand
<1>10. CASE Refuse
  BY <1>10 DEF Refuse, Typed, TypeOK, LastCommand
<1>11. CASE Stop
  BY <1>11 DEF Stop, Typed, TypeOK, LastCommand
<1>12. CASE StopNotify
  BY <1>12 DEF StopNotify, Typed, TypeOK, LastCommand
<1>13. CASE MachineHandles
  BY <1>13 DEF MachineHandles, Typed, TypeOK, LastCommand
<1>14. CASE AcceptJog
  BY <1>14 DEF AcceptJog, Typed, TypeOK, LastCommand
<1>15. ASSUME NEW t \in Threads, Exchange(t) PROVE LastCommand'
  BY <1>15 DEF Exchange, Typed, TypeOK, LastCommand
<1>16. ASSUME NEW a \in Axes, MachineMoves(a) PROVE LastCommand'
  BY <1>16 DEF MachineMoves, Typed, TypeOK, LastCommand
<1>17. ASSUME NEW c \in Chunks, Deliver(c) PROVE LastCommand'
  BY <1>17 DEF Deliver, Typed, TypeOK, LastCommand
<1>18. ASSUME NEW m \in Moves, MoveDirect(m) PROVE LastCommand'
  BY <1>18 DEF MoveDirect, Typed, TypeOK, LastCommand
<1>19. ASSUME NEW m \in Moves, MoveSelective(m) PROVE LastCommand'
  BY <1>19 DEF MoveSelective, Typed, TypeOK, LastCommand
<1>20. CASE UNCHANGED vars
  BY <1>20 DEF vars, Typed, TypeOK, LastCommand
<1>21. CASE PollThrows
  BY <1>21 DEF PollThrows, Typed, TypeOK, LastCommand
<1> QED
  BY <1>1, <1>2, <1>3, <1>4, <1>5, <1>6, <1>7, <1>8, <1>9, <1>10, <1>11, <1>12,
     <1>13, <1>14, <1>15, <1>16, <1>17, <1>18, <1>19, <1>20, <1>21
     DEF Next, CommandLoop

(* stop() leaves the command thread one command more at most.                  *)
THEOREM StopIsHeeded == Spec => []OneCommandAfterStop
<1>1. Init => LastCommand
  BY DEF Init, LastCommand
<1>2. LastCommand => OneCommandAfterStop
  BY DEF LastCommand, OneCommandAfterStop
<1>3. Init => Typed /\ LastCommand
  BY <1>1, InitTyped
<1>4. Typed /\ LastCommand /\ [Next]_vars => (Typed /\ LastCommand)'
  BY StepTyped, StepLastCommand
<1> QED
  BY <1>2, <1>3, <1>4, PTL DEF Spec

----------------------------------------------------------------------------
(* The sleep of the command thread.                                          *)

LEMMA StepCommand == Typed /\ CommandNotMissed /\ [Next]_vars => CommandNotMissed'
<1> SUFFICES ASSUME Typed, CommandNotMissed, [Next]_vars PROVE CommandNotMissed'
  OBVIOUS
<1> USE DEF console, PollUnchanged, ReceiverUnchanged, WakeConsole, ConsoleMoves, ProcessMoves,
           OwnerMoves, MoveUnchanged, MachineUnchanged, Goes, Threads, After, CommandNotMissed,
           Typed, TypeOK
<1>1. CASE Store \/ Settle
  BY <1>1 DEF Store, Settle
<1>2. CASE Attach \/ Notify
  BY <1>2 DEF Attach, Notify
<1>3. ASSUME NEW c \in Chunks, Deliver(c) PROVE CommandNotMissed'
  BY <1>3 DEF Deliver
<1>4. CASE LoopHead \/ TakeCommand
  BY <1>4 DEF LoopHead, TakeCommand
<1>5. CASE NothingToTake \/ Block \/ SpuriousWake
  BY <1>5 DEF NothingToTake, Block, SpuriousWake
<1>6. CASE Refuse \/ AcceptJog
  BY <1>6 DEF Refuse, AcceptJog
<1>7. CASE Stop \/ StopNotify
  BY <1>7 DEF Stop, StopNotify
<1>8. ASSUME NEW t \in Threads, Exchange(t) PROVE CommandNotMissed'
  BY <1>8 DEF Exchange
<1>9. ASSUME NEW m \in Moves, MoveDirect(m) \/ MoveSelective(m) PROVE CommandNotMissed'
  BY <1>9 DEF MoveDirect, MoveSelective
<1>10. ASSUME MachineHandles \/ \E a \in Axes : MachineMoves(a) PROVE CommandNotMissed'
  BY <1>10 DEF MachineHandles, MachineMoves
<1>11. CASE UNCHANGED vars
  BY <1>11 DEF vars
<1>12. CASE PollThrows
  BY <1>12 DEF PollThrows
<1> QED
  BY <1>1, <1>2, <1>3, <1>4, <1>5, <1>6, <1>7, <1>8, <1>9, <1>10, <1>11, <1>12
     DEF Next, CommandLoop

(* A command that pushCommand has queued is not slept on: the command thread   *)
(* is awake, or about to be notified (CNCConsole.cpp:102, :113).                 *)
THEOREM CommandHeard == Spec => []CommandNotMissed
<1>1. Init => Typed /\ CommandNotMissed
  BY InitTyped DEF Init, CommandNotMissed
<1>2. Typed /\ CommandNotMissed /\ [Next]_vars => (Typed /\ CommandNotMissed)'
  BY StepTyped, StepCommand
<1> QED
  BY <1>1, <1>2, PTL DEF Spec

----------------------------------------------------------------------------
(* Every position on its way to last_* is one at which the machine has been:   *)
(* the machine's own, those in replies nobody has read, the polling thread's.  *)

Visited(q) == \A a \in JogAxes : q[a] \in been[a]

Positions ==
  /\ Visited(pos)
  /\ \A i \in DOMAIN inbox : inbox[i] # Ack => Visited(inbox[i])
  /\ heard => Visited(p)
  /\ heard /\ pc["poll"] # "store" => last = p

LEMMA ReadsVisited ==
  ASSUME Typed, NEW t \in Threads, NEW replies \in Seq(Replies), Reads(t, replies),
         \A i \in DOMAIN replies : replies[i] # Ack => Visited(replies[i]),
         heard => Visited(p)
  PROVE  /\ inbox' = <<>>
         /\ heard' => Visited(p')
         /\ UNCHANGED <<p, heard>> \/ t = "poll"
<1>1. CASE UNCHANGED polling
  BY <1>1 DEF polling, Reads, Visited
<1>2. CASE t = "poll" /\ p' \in Readable(replies) /\ heard' = TRUE
  <2>1. PICK i \in DOMAIN replies :
          replies[i] # Ack /\ \A a \in JogAxes : p'[a] = replies[i][a]
    BY <1>2, ReadablePositions
  <2> QED
    BY <1>2, <2>1 DEF Reads, Visited
<1> QED
  BY <1>1, <1>2 DEF Reads

LEMMA ArrivesVisited ==
  ASSUME Typed, Positions, NEW cmd \in Words
  PROVE  \A i \in DOMAIN Append(inbox, Reply(cmd)) :
           Append(inbox, Reply(cmd))[i] # Ack => Visited(Append(inbox, Reply(cmd))[i])
<1>1. Reply(cmd) = pos \/ Reply(cmd) = Ack
  BY DEF Reply
<1>2. inbox \in Seq(Replies) /\ Reply(cmd) \in Replies
  BY ReplyTyped DEF Typed
<1>3. DOMAIN Append(inbox, Reply(cmd)) = DOMAIN inbox \cup {Len(inbox) + 1}
  BY <1>2
<1>4. Append(inbox, Reply(cmd))[Len(inbox) + 1] = Reply(cmd)
  BY <1>2
<1>5. \A i \in DOMAIN inbox : Append(inbox, Reply(cmd))[i] = inbox[i]
  BY <1>2
<1> QED
  BY <1>1, <1>3, <1>4, <1>5 DEF Positions

LEMMA ExchangePositions ==
  ASSUME Typed, Positions, NEW t \in Threads, Exchange(t)
  PROVE  Positions'
<1>1. command[t] \in Words /\ inbox \in Seq(Replies) /\ Append(inbox, Reply(command[t])) \in Seq(Replies)
  BY ReplyTyped DEF Typed
<1>2. UNCHANGED <<pos, been, last>>
  BY DEF Exchange, control
<1>3. CASE UNCHANGED <<todo, inbox, goal, polling>>
  <2>1. t = "poll" => pc'["poll"] = "store"
    BY DEF Exchange, Goes, After, Typed, TypeOK
  <2>2. t # "poll" => pc'["poll"] = pc["poll"]
    BY DEF Exchange, Goes, Typed, TypeOK
  <2> QED
    BY <1>2, <1>3, <2>1, <2>2 DEF Positions, Visited, polling
<1>4. CASE Reads(t, inbox) \/ Reads(t, Append(inbox, Reply(command[t])))
  <2>1. /\ inbox' = <<>>
        /\ heard' => Visited(p')
        /\ UNCHANGED <<p, heard>> \/ t = "poll"
    BY <1>1, <1>4, ReadsVisited, ArrivesVisited DEF Positions
  <2>2. t = "poll" => pc'["poll"] = "store"
    BY DEF Exchange, Goes, After, Typed, TypeOK
  <2>3. t # "poll" => pc'["poll"] = pc["poll"]
    BY DEF Exchange, Goes, Typed, TypeOK
  <2> QED
    BY <1>2, <2>1, <2>2, <2>3 DEF Positions, Visited
<1> QED
  BY <1>3, <1>4 DEF Exchange

LEMMA StepPositions == Typed /\ Positions /\ [Next]_vars => Positions'
<1> SUFFICES ASSUME Typed, Positions, [Next]_vars PROVE Positions'
  OBVIOUS
<1> USE DEF console, control, polling, machine, PollUnchanged, ReceiverUnchanged, WakeConsole, ConsoleMoves, ProcessMoves,
           OwnerMoves, MoveUnchanged, MachineUnchanged, Goes
<1>1. CASE Store
  BY <1>1 DEF Store, Typed, TypeOK, Positions, Visited
<1>2. CASE Settle
  BY <1>2 DEF Settle, Typed, TypeOK, Positions, Visited
<1>3. CASE Attach
  BY <1>3 DEF Attach, Typed, TypeOK, Positions, Visited
<1>4. CASE Notify
  BY <1>4 DEF Notify, Typed, TypeOK, Positions, Visited
<1>5. CASE LoopHead
  BY <1>5 DEF LoopHead, Typed, TypeOK, Positions, Visited
<1>6. CASE TakeCommand
  BY <1>6 DEF TakeCommand, Typed, TypeOK, Positions, Visited
<1>7. CASE NothingToTake
  BY <1>7 DEF NothingToTake, Typed, TypeOK, Positions, Visited
<1>8. CASE Block
  BY <1>8 DEF Block, Typed, TypeOK, Positions, Visited
<1>9. CASE SpuriousWake
  BY <1>9 DEF SpuriousWake, Typed, TypeOK, Positions, Visited
<1>10. CASE Refuse
  BY <1>10 DEF Refuse, Typed, TypeOK, Positions, Visited
<1>11. CASE Stop
  BY <1>11 DEF Stop, Typed, TypeOK, Positions, Visited
<1>12. CASE StopNotify
  BY <1>12 DEF StopNotify, Typed, TypeOK, Positions, Visited
<1>13. CASE MachineHandles
  <2>1. Head(todo) \in Words
    BY <1>13 DEF MachineHandles, Typed
  <2>2. inbox' = Append(inbox, Reply(Head(todo))) /\ UNCHANGED <<pos, been, p, heard, pc, last>>
    BY <1>13 DEF MachineHandles, control
  <2> QED
    BY <2>1, <2>2, ArrivesVisited DEF Positions, Visited
<1>14. CASE AcceptJog
  BY <1>14 DEF AcceptJog, Typed, TypeOK, Positions, Visited
<1>15. ASSUME NEW t \in Threads, Exchange(t) PROVE Positions'
  BY <1>15, ExchangePositions
<1>16. ASSUME NEW a \in Axes, MachineMoves(a) PROVE Positions'
  BY <1>16 DEF MachineMoves, Typed, TypeOK, Positions, Visited
<1>17. ASSUME NEW c \in Chunks, Deliver(c) PROVE Positions'
  BY <1>17 DEF Deliver, Typed, TypeOK, Positions, Visited
<1>18. ASSUME NEW m \in Moves, MoveDirect(m) PROVE Positions'
  <2>1. pc[m] = "call" /\ pc' = [pc EXCEPT ![m] = "write"]
    BY <1>18 DEF MoveDirect
  <2>2. pc'["poll"] # "store" => pc["poll"] # "store"
    BY <2>1 DEF Typed, TypeOK, Threads
  <2>3. UNCHANGED <<last, p, heard, inbox, pos, been>>
    BY <1>18 DEF MoveDirect
  <2> QED
    BY <2>2, <2>3 DEF Positions, Visited
<1>19. ASSUME NEW m \in Moves, MoveSelective(m) PROVE Positions'
  <2>1. pc[m] = "call" /\ (pc' = [pc EXCEPT ![m] = "done"] \/ pc' = [pc EXCEPT ![m] = "write"])
    BY <1>19 DEF MoveSelective
  <2>2. pc'["poll"] # "store" => pc["poll"] # "store"
    BY <2>1 DEF Typed, TypeOK, Threads
  <2>3. UNCHANGED <<last, p, heard, inbox, pos, been>>
    BY <1>19 DEF MoveSelective
  <2> QED
    BY <2>2, <2>3 DEF Positions, Visited
<1>20. CASE UNCHANGED vars
  BY <1>20 DEF vars, Typed, TypeOK, Positions, Visited
<1>21. CASE PollThrows
  BY <1>21 DEF PollThrows, Typed, TypeOK, Positions, Visited
<1> QED
  BY <1>1, <1>2, <1>3, <1>4, <1>5, <1>6, <1>7, <1>8, <1>9, <1>10, <1>11, <1>12,
     <1>13, <1>14, <1>15, <1>16, <1>17, <1>18, <1>19, <1>20, <1>21
     DEF Next, CommandLoop

(* A jog starts where the machine has been, once it has answered a query.      *)
THEOREM JogsStartReal == Spec => []JogFromRealPosition
<1>1. Init => Positions
  BY DEF Init, Positions, Visited, JogAxes, Axes
<1>2. Positions => JogFromRealPosition
  BY DEF Positions, Visited, JogFromRealPosition
<1>3. Init => Typed /\ Positions
  BY <1>1, InitTyped
<1>4. Typed /\ Positions /\ [Next]_vars => (Typed /\ Positions)'
  BY StepTyped, StepPositions
<1> QED
  BY <1>2, <1>3, <1>4, PTL DEF Spec
============================================================================
