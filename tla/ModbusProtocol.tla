-------------------------- MODULE ModbusProtocol --------------------------
(* The Modbus link of the turntable (modbus_protocol.cpp): every call sends *)
(* one request and waits for one reply under mtx_, on a connection shared   *)
(* by the movement thread, the polling thread and the two services.  Above  *)
(* it, from modbus_business.cpp, the calls that write registers directly:   *)
(* axisRunSpeed with its cache, and execute_command.  The drive and libmodbus *)
(* are modelled from how they are used: replies carry no number, one that   *)
(* comes after the response timeout stays in the socket, and the drive may  *)
(* answer a request with an exception instead of obeying it.                *)
EXTENDS Integers, Sequences, SequencesExt

CONSTANTS
  Callers,      \* threads that call the link: movement, polling, services
  Calls,        \* [Callers -> SUBSET Operation]: what each of them may call
  Unread,       \* words the response buffer may hold where no byte was received
  MaxSends      \* bound: requests sent

Axes == {"X", "Z"}
Words == 0 .. 65535
Nobody == "nobody"
NoSpeed == -1         \* the initial "" of x_speed_, z_speed_
NotANumber == -2      \* a value stoi cannot read

----------------------------------------------------------------------------
(* The commands: two registers each, all with the high byte 1.              *)

Both(x, z) == [a \in Axes |-> IF a = "X" THEN x ELSE z]

Register ==
  [subdivision |-> Both(74, 84), pitch |-> Both(75, 85), ratio |-> Both(76, 86),
   speedTime |-> Both(152, 162), decelerateTime |-> Both(153, 163),
   length |-> Both(176, 174), speed |-> Both(216, 214), axisSpeed |-> Both(216, 214),
   originSpeed |-> Both(195, 197),
   origin |-> Both(94, 95), clear |-> Both(149, 148), stop |-> Both(100, 100),
   coordinate |-> Both(26, 24)]

\* What the commands without a parameter write.
Fixed ==
  [subdivision |-> Both(1000, 1000), pitch |-> Both(125, 125), ratio |-> Both(10, 10),
   speedTime |-> Both(100, 100), decelerateTime |-> Both(100, 100),
   length |-> Both(0, 1800), speed |-> Both(1600, 300), originSpeed |-> Both(10000, 10000),
   origin |-> Both(65280, 65280), clear |-> Both(65280, 65280), stop |-> Both(0, 0),
   coordinate |-> Both(2, 2)]

Kinds == DOMAIN Register
Reading == {"coordinate"}              \* function code 3
Coils == {"origin", "clear", "stop"}   \* function code 5; the others use 6

Operation == [kind : Kinds, axis : Axes, value : Int]
Sent == [kind : Kinds, axis : Axes, value : Words]
Command(kind, a) == [kind |-> kind, axis |-> a, value |-> Fixed[kind][a]]

\* execute_command: "a1" .. "a10", "a12" and "b1" .. "b10" of command_map_; "aa1" ..
\* "aa7" take a value, the other doubled letters do what the single ones do.
Numbered ==
  <<"subdivision", "pitch", "ratio", "speedTime", "decelerateTime", "length", "speed",
    "originSpeed", "origin", "clear">>
Model(a, i) == IF i = 12 THEN Command("stop", a) ELSE Command(Numbered[i], a)
ModelWith(a, i, v) == IF i <= 7 THEN [Model(a, i) EXCEPT !.value = v] ELSE Model(a, i)

ASSUME LinkAssumption ==
  /\ Nobody \notin Callers
  /\ Calls \in [Callers -> SUBSET Operation]
  /\ Unread \subseteq Words /\ Unread # {}
  /\ MaxSends \in Nat

VARIABLES
  ready,      \* init_: start() has connected
  mutex,      \* holder of mtx_
  pc,         \* where each caller is
  op,         \* the operation of each caller
  result,     \* what packData returned to it
  pipe,       \* requests the drive has not answered, and answers not read, in order
  served,     \* how many of them are answers
  regs,       \* the drive's registers, by address
  polled,     \* current_x_pos_, current_z_pos_
  cache,      \* x_speed_, z_speed_
  sends, receives, timeouts,  \* history: how many of each
  held,       \* history: coordinates each axis has had
  spoilt,     \* history: callers whose speed command failed or overlaps another
  disturbed,  \* history: axes whose last speed command to return was spoilt or direct
  garbled     \* history: axes a query of which was answered with an exception

counts == <<sends, receives, timeouts>>
drive == <<pipe, served, regs, held>>
above == <<polled, cache>>
trouble == <<spoilt, disturbed, garbled>>
vars == <<ready, mutex, pc, op, result, drive, above, counts, trouble>>

Addresses == {Register[k][a] : k \in Kinds, a \in Axes}

Init ==
  /\ ready \in BOOLEAN /\ mutex = Nobody
  /\ pc = [t \in Callers |-> "idle"]
  /\ op = [t \in Callers |-> Command("stop", "X")]
  /\ result = [t \in Callers |-> 0]
  /\ pipe = <<>> /\ served = 0
  /\ regs = [r \in Addresses |-> 0]
  /\ polled = [a \in Axes |-> 0]
  /\ cache = [a \in Axes |-> NoSpeed]
  /\ sends = 0 /\ receives = 0 /\ timeouts = 0
  /\ held = [a \in Axes |-> {0}]
  /\ spoilt = {} /\ disturbed = {} /\ garbled = {}

Goes(t, from, to) == pc[t] = from /\ pc' = [pc EXCEPT ![t] = to]

----------------------------------------------------------------------------
(* The calls.  "axisSpeed" is axisRunSpeed, which remembers what it sent;     *)
(* "speed" writes the same register from execute_command.                     *)

ThroughCache(o) == o.kind = "axisSpeed"
SetsSpeed(o) == o.kind \in {"speed", "axisSpeed"}

Setting(t, a) == pc[t] # "idle" /\ SetsSpeed(op[t]) /\ op[t].axis = a
SpeedUnderWay(a) == \E t \in Callers : Setting(t, a)

\* A speed command that overlaps others of its axis spoils them too.
Overlaps(t, o) ==
  spoilt' = IF SetsSpeed(o) /\ (~ready \/ SpeedUnderWay(o.axis))
            THEN spoilt \cup {t} \cup {u \in Callers : Setting(u, o.axis)} ELSE spoilt

\* Variant: stringToBytes lets every number through.
CallUnchecked(t, o) ==
  /\ (ThroughCache(o) => o.value # cache[o.axis])
  /\ Goes(t, "idle", IF ready THEN "lock" ELSE "returning")
  /\ op' = [op EXCEPT ![t] = o] /\ result' = [result EXCEPT ![t] = 0]
  /\ Overlaps(t, o)
  /\ UNCHANGED <<ready, mutex, drive, above, counts, disturbed, garbled>>

\* A value that is no register throws or, as text, is reported; nothing is sent.
\* The link is not used either when it never connected.
Call(t, o) ==
  /\ o.value \in Words /\ (ThroughCache(o) => o.value # cache[o.axis])
  /\ Goes(t, "idle", IF ready THEN "lock" ELSE "returning")
  /\ op' = [op EXCEPT ![t] = o] /\ result' = [result EXCEPT ![t] = 0]
  /\ Overlaps(t, o)
  /\ UNCHANGED <<ready, mutex, drive, above, counts, disturbed, garbled>>

\* stringToBytes returns no bytes for text, which axisRunSpeed takes for done.
CallText(t, o) ==
  /\ pc[t] = "idle" /\ o.value = NotANumber
  /\ cache' = IF ThroughCache(o) THEN [cache EXCEPT ![o.axis] = o.value] ELSE cache
  /\ disturbed' = IF ThroughCache(o) THEN disturbed \cup {o.axis} ELSE disturbed
  /\ UNCHANGED <<ready, mutex, pc, op, result, drive, polled, counts, spoilt, garbled>>

Request(t) == [n |-> sends + 1, op |-> op[t], value |-> op[t].value, status |-> "normal"]

\* Variant: only the request is sent under mtx_.
SendUnlocked(t) ==
  /\ mutex = Nobody /\ Goes(t, "lock", "wait") /\ sends < MaxSends
  /\ sends' = sends + 1 /\ pipe' = Append(pipe, Request(t))
  /\ UNCHANGED <<ready, mutex, op, result, served, regs, held, above, receives, timeouts,
                 trouble>>

\* packData and its kin, under mtx_ from the request to the reply.
Send(t) ==
  /\ mutex = Nobody /\ Goes(t, "lock", "wait") /\ sends < MaxSends
  /\ mutex' = t /\ sends' = sends + 1 /\ pipe' = Append(pipe, Request(t))
  /\ UNCHANGED <<ready, op, result, served, regs, held, above, receives, timeouts, trouble>>

\* The speed command of t is not known to have been carried out.
Spoils(t) ==
  /\ spoilt' = IF SetsSpeed(op[t]) THEN spoilt \cup {t} ELSE spoilt
  /\ UNCHANGED <<disturbed, garbled>>

SendFails(t) ==
  /\ mutex = Nobody /\ Goes(t, "lock", "returning") /\ Spoils(t)
  /\ UNCHANGED <<ready, mutex, op, result, drive, above, counts>>

\* Variant: the value is taken one byte too early, with the byte count.
DecodeShifted(reply) ==
  IF reply.status = "exception" THEN reply.value
  ELSE IF reply.op.kind \in Reading THEN 4 * 256 + reply.value \div 256
  ELSE Register[reply.op.kind][reply.op.axis]

\* response[9] << 8 | response[10], whatever the length of the reply: the register of a
\* read; of the echo of a write, the low byte of the address and the high byte of the
\* value; and of an exception, which ends before, bytes that were never written.
Decode(reply) ==
  IF reply.status = "exception" \/ reply.op.kind \in Reading THEN reply.value
  ELSE (Register[reply.op.kind][reply.op.axis] % 256) * 256 + reply.value \div 256

\* modbus_receive_confirmation takes the next reply in the socket, whose number it
\* does not compare; only a read (flag) returns its value.
Receive(t) ==
  /\ Goes(t, "wait", "returning") /\ served > 0
  /\ result' = [result EXCEPT ![t] = IF op[t].kind \in Reading THEN Decode(Head(pipe)) ELSE 0]
  /\ pipe' = Tail(pipe) /\ served' = served - 1 /\ receives' = receives + 1
  /\ mutex' = Nobody
  /\ IF Head(pipe).n = sends /\ Head(pipe).status = "normal"
     THEN UNCHANGED trouble ELSE Spoils(t)
  /\ UNCHANGED <<ready, op, regs, held, above, sends, timeouts>>

\* Variant: the wait for a reply has no limit.
WaitsForever(t) == FALSE

\* No reply within 10.5 s: the request stays with the drive, and the call returns 0.
TimesOut(t) ==
  /\ Goes(t, "wait", "returning") /\ served = 0
  /\ timeouts' = timeouts + 1 /\ mutex' = Nobody /\ Spoils(t)
  /\ UNCHANGED <<ready, op, result, drive, above, sends, receives>>

\* The caller keeps what it got, with mtx_ released.
Return(t) ==
  /\ Goes(t, "returning", "idle")
  /\ polled' = IF op[t].kind \in Reading THEN [polled EXCEPT ![op[t].axis] = result[t]] ELSE polled
  /\ cache' = IF ThroughCache(op[t]) THEN [cache EXCEPT ![op[t].axis] = op[t].value] ELSE cache
  /\ disturbed' = IF ~SetsSpeed(op[t]) THEN disturbed
                  ELSE IF ThroughCache(op[t]) /\ t \notin spoilt THEN disturbed \ {op[t].axis}
                  ELSE disturbed \cup {op[t].axis}
  /\ spoilt' = spoilt \ {t}
  /\ UNCHANGED <<ready, mutex, op, result, drive, counts, garbled>>

----------------------------------------------------------------------------
(* The drive: it takes requests in order, serves, refuses or loses each, and *)
(* moves.                                                                    *)

Serve ==
  /\ served < Len(pipe)
  /\ LET o == pipe[served + 1].op
         r == Register[o.kind][o.axis]
     IN /\ regs' = IF o.kind \in Reading \cup Coils THEN regs ELSE [regs EXCEPT ![r] = o.value]
        /\ pipe' = IF o.kind \in Reading THEN [pipe EXCEPT ![served + 1].value = regs[r]] ELSE pipe
  /\ served' = served + 1
  /\ UNCHANGED <<ready, mutex, pc, op, result, held, above, counts, trouble>>

\* An exception reply: nothing is done, and the value is what its reader will find in
\* the part of its buffer that the reply does not fill.
Refuse ==
  /\ served < Len(pipe)
  /\ \E v \in Unread :
       pipe' = [pipe EXCEPT ![served + 1].status = "exception", ![served + 1].value = v]
  /\ LET o == pipe[served + 1].op IN
     garbled' = IF o.kind \in Reading THEN garbled \cup {o.axis} ELSE garbled
  /\ served' = served + 1
  /\ UNCHANGED <<ready, mutex, pc, op, result, regs, held, above, counts, spoilt, disturbed>>

Silent ==
  /\ served < Len(pipe)
  /\ pipe' = RemoveAt(pipe, served + 1)
  /\ UNCHANGED <<ready, mutex, pc, op, result, served, regs, held, above, counts, trouble>>

DriveMoves(a) ==
  /\ \E v \in {0, regs[Register.length[a]]} :
        /\ regs' = [regs EXCEPT ![Register.coordinate[a]] = v]
        /\ held' = [held EXCEPT ![a] = @ \cup {v}]
  /\ UNCHANGED <<ready, mutex, pc, op, result, pipe, served, above, counts, trouble>>

Next ==
  \/ \E t \in Callers :
        \/ \E o \in Calls[t] : Call(t, o) \/ CallText(t, o)
        \/ Send(t) \/ SendFails(t) \/ Receive(t) \/ TimesOut(t) \/ Return(t)
  \/ Serve \/ Refuse \/ Silent \/ \E a \in Axes : DriveMoves(a)

Spec == Init /\ [][Next]_vars

\* A thread in an exchange runs on: its reply comes or the wait times out.
FairSpec == Spec /\ \A t \in Callers : WF_vars(Receive(t) \/ TimesOut(t)) /\ WF_vars(Return(t))

----------------------------------------------------------------------------
Entry == [n : Nat, op : Sent, value : Words, status : {"normal", "exception"}]

TypeOK ==
  /\ ready \in BOOLEAN /\ mutex \in Callers \cup {Nobody}
  /\ pc \in [Callers -> {"idle", "lock", "wait", "returning"}]
  /\ op \in [Callers -> Sent] /\ result \in [Callers -> Words]
  /\ pipe \in Seq(Entry) /\ served \in 0 .. Len(pipe)
  /\ regs \in [Addresses -> Words] /\ held \in [Axes -> SUBSET Words]
  /\ polled \in [Axes -> Words] /\ cache \in [Axes -> Int]
  /\ sends \in Nat /\ receives \in Nat /\ timeouts \in Nat
  /\ spoilt \subseteq Callers /\ disturbed \subseteq Axes /\ garbled \subseteq Axes

(* A reply is read as the answer of the current request or of one that at    *)
(* most as many requests ago as the link has ever timed out (nothing drains  *)
(* the socket, modbus_protocol.cpp:70-74): without a timeout, every answer   *)
(* is that of the request, whichever threads share the link.                 *)
AnswerLag ==
  \A t \in Callers : pc[t] = "wait" /\ served > 0 => sends - pipe[1].n <= timeouts

(* Without a timeout, the polled coordinate of an axis is one that it has    *)
(* had, or the 0 of an exchange that failed (modbus_protocol.cpp:66-74),     *)
(* unless a query of it was answered with an exception: no reply to another  *)
(* thread ever becomes a coordinate.                                         *)
CoordinateReal ==
  timeouts = 0 => \A a \in Axes \ garbled : polled[a] \in {0} \cup held[a]

(* The speed that axisRunSpeed will not send again (modbus_business.cpp:349, *)
(* :354) is the drive's whenever the last speed command of the axis to       *)
(* return was an axisRunSpeed that ran alone and read its own normal answer, *)
(* whatever timeouts, failures, refusals, texts, direct and overlapping      *)
(* commands came before.  After any other last command it may not be, and    *)
(* the same speed asked for again is not sent.                               *)
SpeedCacheTrue ==
  \A a \in Axes \ disturbed :
    SpeedUnderWay(a) \/ cache[a] \in {NoSpeed, regs[Register.speed[a]]}

(* While nothing has timed out, the link is a bank of registers with atomic   *)
(* calls (RegisterBank): a request takes effect when the drive serves it, or  *)
(* fails without effect, and its own reply goes to its own caller, though     *)
(* callers, the drive and its movements interleave at will (packData,         *)
(* modbus_protocol.cpp:45-90).                                                *)
Mode(t) ==
  CASE pc[t] = "idle" -> "idle"
    [] pc[t] = "lock" \/ (pc[t] = "wait" /\ served = 0) -> "called"
    [] OTHER -> "done"
Answer(t) ==
  IF Mode(t) = "done" /\ pc[t] = "wait"
  THEN IF op[t].kind \in Reading THEN pipe[1].value ELSE 0
  ELSE result[t]

Bank == INSTANCE RegisterBank WITH
          Clients <- Callers, Offered <- Calls,
          Sensors <- {Register.coordinate[a] : a \in Axes},
          mode <- [t \in Callers |-> Mode(t)], call <- op,
          result <- [t \in Callers |-> Answer(t)], lossy <- timeouts > 0

AtomicCalls == Bank!Spec

(* Every exchange that has sent its request ends, with the drive silent too. *)
ExchangeEnds == \A t \in Callers : pc[t] = "wait" ~> pc[t] = "idle"
============================================================================
