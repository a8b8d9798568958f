----------------------- MODULE ModbusProtocol_proofs -----------------------
(* Theorems about ModbusProtocol, for any number of threads, whatever each   *)
(* of them calls, and any number of requests and of timeouts.                *)
EXTENDS ModbusProtocol, SequenceTheorems, TLAPS

----------------------------------------------------------------------------
(* The table of commands.                                                    *)

LEMMA TableOfKinds ==
  Kinds = {"subdivision", "pitch", "ratio", "speedTime", "decelerateTime", "length", "speed",
           "axisSpeed", "originSpeed", "origin", "clear", "stop", "coordinate"}
BY DEF Kinds, Register

LEMMA RegisterType ==
  ASSUME NEW k \in Kinds, NEW a \in Axes
  PROVE  Register[k][a] \in 0 .. 255 /\ Register[k][a] \in Addresses
BY TableOfKinds, SMTT(30) DEF Register, Both, Axes, Addresses

LEMMA CoordinateApart ==
  ASSUME NEW k \in Kinds \ Reading, NEW a \in Axes, NEW b \in Axes
  PROVE  Register[k][a] # Register.coordinate[b]
BY TableOfKinds, SMTT(30) DEF Register, Both, Axes, Reading

LEMMA Coordinates ==
  /\ \A a \in Axes : Register["coordinate"][a] = Register.coordinate[a]
  /\ \A a \in Axes : Register.coordinate[a] \in Addresses /\ Register.length[a] \in Addresses
  /\ \A a, b \in Axes : Register.coordinate[a] = Register.coordinate[b] => a = b
<1>1. \A a \in Axes : Register["coordinate"][a] = Register.coordinate[a]
  BY DEF Register, Both, Axes
<1>2. \A a \in Axes : Register.coordinate[a] \in Addresses /\ Register.length[a] \in Addresses
  <2>1. "coordinate" \in Kinds /\ "length" \in Kinds
    BY TableOfKinds
  <2>2. \A a \in Axes : Register["length"][a] = Register.length[a]
    BY DEF Register, Both, Axes
  <2> QED
    BY <1>1, <2>1, <2>2 DEF Addresses
<1>3. \A a, b \in Axes : Register.coordinate[a] = Register.coordinate[b] => a = b
  BY DEF Register, Both, Axes
<1> QED
  BY <1>1, <1>2, <1>3

LEMMA OneRemoved ==
  ASSUME NEW S, NEW s \in Seq(S), NEW i \in 1 .. Len(s)
  PROVE  /\ RemoveAt(s, i) \in Seq(S) /\ Len(RemoveAt(s, i)) = Len(s) - 1
         /\ \A j \in 1 .. Len(s) - 1 : RemoveAt(s, i)[j] = IF j < i THEN s[j] ELSE s[j + 1]
<1> DEFINE l == SubSeq(s, 1, i - 1)
           r == SubSeq(s, i + 1, Len(s))
<1>1. /\ l \in Seq(S) /\ Len(l) = i - 1
      /\ \A j \in 1 .. i - 1 : l[j] = s[j]
  <2>1. \A j \in 1 .. i - 1 : s[j] \in S
    BY ElementOfSeq
  <2>2. /\ l \in Seq(S) /\ Len(l) = IF 1 <= i - 1 THEN i - 1 - 1 + 1 ELSE 0
        /\ \A j \in 1 .. i - 1 - 1 + 1 : l[j] = s[1 + j - 1]
    BY <2>1, SubSeqProperties
  <2> QED
    BY <2>2
<1>2. /\ r \in Seq(S) /\ Len(r) = Len(s) - i
      /\ \A j \in 1 .. Len(s) - i : r[j] = s[i + j]
  <2>1. \A j \in i + 1 .. Len(s) : s[j] \in S
    BY ElementOfSeq
  <2>2. /\ r \in Seq(S) /\ Len(r) = IF i + 1 <= Len(s) THEN Len(s) - (i + 1) + 1 ELSE 0
        /\ \A j \in 1 .. Len(s) - (i + 1) + 1 : r[j] = s[i + 1 + j - 1]
    BY <2>1, SubSeqProperties
  <2> QED
    BY <2>2
<1> HIDE DEF l, r
<1>3. /\ l \o r \in Seq(S) /\ Len(l \o r) = Len(l) + Len(r)
      /\ \A j \in 1 .. Len(l) + Len(r) :
           (l \o r)[j] = IF j <= Len(l) THEN l[j] ELSE r[j - Len(l)]
  BY <1>1, <1>2, ConcatProperties
<1>4. RemoveAt(s, i) = l \o r
  BY DEF RemoveAt, l, r
<1>5. Len(l \o r) = Len(s) - 1
  BY <1>1, <1>2, <1>3
<1>6. \A j \in 1 .. Len(s) - 1 : (l \o r)[j] = IF j < i THEN s[j] ELSE s[j + 1]
  <2> SUFFICES ASSUME NEW j \in 1 .. Len(s) - 1
               PROVE  (l \o r)[j] = IF j < i THEN s[j] ELSE s[j + 1]
    OBVIOUS
  <2>1. (l \o r)[j] = IF j <= Len(l) THEN l[j] ELSE r[j - Len(l)]
    BY <1>3, <1>5
  <2>2. CASE j < i
    BY <1>1, <2>1, <2>2
  <2>3. CASE ~(j < i)
    <3>1. j - (i - 1) \in 1 .. Len(s) - i /\ i + (j - (i - 1)) = j + 1
      BY <2>3
    <3>2. r[j - (i - 1)] = s[i + (j - (i - 1))]
      BY <1>2, <3>1
    <3> QED
      BY <1>1, <2>1, <2>3, <3>1, <3>2
  <2> QED
    BY <2>2, <2>3
<1> QED
  BY <1>3, <1>4, <1>5, <1>6

----------------------------------------------------------------------------
(* Type correctness.                                                         *)

LEMMA InitType == Init => TypeOK
<1> SUFFICES ASSUME Init PROVE TypeOK
  OBVIOUS
<1>1. Command("stop", "X") \in Sent
  BY TableOfKinds DEF Command, Sent, Fixed, Both, Axes, Words
<1> QED
  BY <1>1, EmptySeq DEF Init, TypeOK, Axes, Words, NoSpeed

LEMMA NoWord == 0 \in Words
BY DEF Words

LEMMA HighByte == \A v \in Words : v \div 256 \in 0 .. 255
<1> TAKE v \in Words
<1>1. v \in Int /\ v >= 0 /\ v <= 65535
  BY DEF Words
<1>2. v \div 256 \in Int
  BY <1>1
<1>3. v \div 256 >= 0
  BY <1>1
<1>4. v \div 256 <= 255
  BY <1>1
<1> QED  BY <1>2, <1>3, <1>4

LEMMA DecodeType ==
  ASSUME NEW e \in Entry
  PROVE  Decode(e) \in Words
<1>1. Register[e.op.kind][e.op.axis] \in 0 .. 255
  BY RegisterType DEF Entry, Sent
<1>2. e.value \in Words
  BY DEF Entry
<1>3. \A r \in 0 .. 255, v \in Words : (r % 256) * 256 + v \div 256 \in Words
  <2>1. \A r \in 0 .. 255 : r % 256 = r
    OBVIOUS
  <2>2. \A a, b \in 0 .. 255 : a * 256 + b \in Words
    BY DEF Words
  <2> QED  BY <2>1, <2>2, HighByte
<1>4. CASE e.status = "exception" \/ e.op.kind \in Reading
  BY <1>2, <1>4 DEF Decode
<1>5. CASE ~(e.status = "exception" \/ e.op.kind \in Reading)
  BY <1>1, <1>2, <1>3, <1>5 DEF Decode
<1> QED
  BY <1>4, <1>5

\* What a refusal makes of the pipe.
LEMMA RefusePipe ==
  ASSUME TypeOK, Refuse
  PROVE  /\ served + 1 \in 1 .. Len(pipe) /\ Len(pipe') = Len(pipe)
         /\ pipe' \in Seq(Entry) /\ pipe[served + 1] \in Entry
         /\ \A i \in 1 .. Len(pipe) :
              /\ pipe'[i].n = pipe[i].n /\ pipe'[i].op = pipe[i].op
              /\ i # served + 1 => pipe'[i] = pipe[i]
         /\ pipe'[served + 1].status = "exception" /\ pipe'[served + 1].value \in Unread
<1> DEFINE k == served + 1
<1>1. k \in 1 .. Len(pipe) /\ pipe \in Seq(Entry)
  BY DEF Refuse, TypeOK
<1>2. PICK v \in Unread :
        pipe' = [pipe EXCEPT ![k].status = "exception", ![k].value = v]
  BY DEF Refuse
<1>3. v \in Words
  BY <1>2, LinkAssumption DEF LinkAssumption
<1>4. PICK e \in Entry : e = pipe[k]
  BY <1>1, ElementOfSeq
<1> DEFINE w == [e EXCEPT !.status = "exception", !.value = v]
<1>5. /\ w \in Entry /\ w.n = e.n /\ w.op = e.op
      /\ w.status = "exception" /\ w.value = v
  BY <1>3 DEF Entry
<1>6. pipe' = [pipe EXCEPT ![k] = w]
  BY <1>1, <1>2, <1>4
<1> HIDE DEF w
<1>7. /\ pipe' \in Seq(Entry) /\ Len(pipe') = Len(pipe)
      /\ \A i \in 1 .. Len(pipe) : pipe'[i] = IF i = k THEN w ELSE pipe[i]
  BY <1>1, <1>5, <1>6, ExceptSeq
<1> QED
  BY <1>1, <1>2, <1>4, <1>5, <1>7

LEMMA StepType == TypeOK /\ [Next]_vars => TypeOK'
<1> SUFFICES ASSUME TypeOK, [Next]_vars PROVE TypeOK'
  OBVIOUS
<1> USE DEF Goes, above, drive, counts, trouble
<1>1. ASSUME NEW t \in Callers, NEW o \in Calls[t], Call(t, o) PROVE TypeOK'
  <2>1. o \in Sent
    BY <1>1, LinkAssumption DEF LinkAssumption, Call, Sent, Operation
  <2>2. op' \in [Callers -> Sent] /\ result' \in [Callers -> Words]
    BY <1>1, <2>1, NoWord DEF Call, TypeOK
  <2>3. pc' \in [Callers -> {"idle", "lock", "wait", "returning"}]
    BY <1>1 DEF Call, TypeOK
  <2>4. spoilt' \subseteq Callers
    BY <1>1 DEF Call, Overlaps, TypeOK
  <2> QED
    BY <1>1, <2>2, <2>3, <2>4 DEF Call, TypeOK
<1>2. ASSUME NEW t \in Callers, NEW o \in Calls[t], CallText(t, o) PROVE TypeOK'
  <2>1. o.axis \in Axes /\ o.value \in Int
    BY LinkAssumption DEF LinkAssumption, Operation
  <2> QED
    BY <1>2, <2>1 DEF CallText, TypeOK
<1>3. ASSUME NEW t \in Callers, Send(t) PROVE TypeOK'
  <2>1. Request(t) \in Entry
    BY DEF Request, TypeOK, Entry, Sent
  <2>2. pipe' \in Seq(Entry) /\ Len(pipe') = Len(pipe) + 1
    BY <1>3, <2>1 DEF Send, TypeOK, Entry
  <2> QED
    BY <1>3, <2>2 DEF Send, TypeOK, Entry
<1>4. ASSUME NEW t \in Callers, SendFails(t) PROVE TypeOK'
  BY <1>4 DEF SendFails, Spoils, TypeOK
<1>5. ASSUME NEW t \in Callers, Receive(t) PROVE TypeOK'
  <2>1. pipe \in Seq(Entry) /\ pipe # <<>>
    BY <1>5, EmptySeq DEF Receive, TypeOK, Entry
  <2>2. Head(pipe) \in Entry /\ pipe' \in Seq(Entry) /\ Len(pipe') = Len(pipe) - 1
    BY <1>5, <2>1, HeadTailProperties DEF Receive
  <2>3. result' \in [Callers -> Words]
    BY <1>5, <2>2, DecodeType, NoWord DEF Receive, TypeOK
  <2>4. served' \in 0 .. Len(pipe') /\ receives' \in Nat /\ mutex' \in Callers \cup {Nobody}
    BY <1>5, <2>1, <2>2 DEF Receive, TypeOK
  <2>5. pc' \in [Callers -> {"idle", "lock", "wait", "returning"}]
    BY <1>5 DEF Receive, TypeOK
  <2>6. spoilt' \subseteq Callers /\ disturbed' = disturbed /\ garbled' = garbled
    BY <1>5 DEF Receive, Spoils, TypeOK
  <2> QED
    BY <1>5, <2>2, <2>3, <2>4, <2>5, <2>6 DEF Receive, TypeOK, Entry
<1>6. ASSUME NEW t \in Callers, TimesOut(t) PROVE TypeOK'
  BY <1>6 DEF TimesOut, Spoils, TypeOK
<1>7. ASSUME NEW t \in Callers, Return(t) PROVE TypeOK'
  <2>1. /\ op[t].axis \in Axes /\ op[t].value \in Words /\ op[t].value \in Int
        /\ result[t] \in Words
    <3>1. op[t] \in Sent /\ result[t] \in Words
      BY DEF TypeOK
    <3>2. op[t].axis \in Axes /\ op[t].value \in Words
      BY <3>1 DEF Sent
    <3>3. \A w \in Words : w \in Int
      BY DEF Words
    <3> QED
      BY <3>1, <3>2, <3>3
  <2>2. polled' \in [Axes -> Words] /\ cache' \in [Axes -> Int]
    BY <1>7, <2>1 DEF Return, TypeOK
  <2>3. spoilt' \subseteq Callers /\ disturbed' \subseteq Axes
    BY <1>7, <2>1 DEF Return, TypeOK
  <2> QED
    BY <1>7, <2>2, <2>3 DEF Return, TypeOK
<1>8. ASSUME Serve PROVE TypeOK'
  <2> DEFINE i == served + 1
             e == pipe[i]
             w == [pipe EXCEPT ![i].value = regs[Register[e.op.kind][e.op.axis]]]
  <2>1. i \in 1 .. Len(pipe) /\ pipe \in Seq(Entry)
    BY <1>8 DEF Serve, TypeOK, Entry
  <2>2. e \in Entry
    BY <2>1, ElementOfSeq
  <2>3. /\ e.op.kind \in Kinds /\ e.op.axis \in Axes /\ e.op.value \in Words
        /\ Register[e.op.kind][e.op.axis] \in Addresses
    BY <2>2, RegisterType DEF Entry, Sent
  <2>4. regs' \in [Addresses -> Words]
    BY <1>8, <2>3 DEF Serve, TypeOK
  <2>5. [e EXCEPT !.value = regs[Register[e.op.kind][e.op.axis]]] \in Entry
    BY <2>2, <2>3 DEF TypeOK, Entry
  <2>6. w \in Seq(Entry) /\ Len(w) = Len(pipe)
    BY <2>1, <2>5, ExceptSeq
  <2>7. pipe' \in Seq(Entry) /\ Len(pipe') = Len(pipe)
    BY <1>8, <2>1, <2>6 DEF Serve
  <2>8. served' \in 0 .. Len(pipe')
    BY <1>8, <2>1, <2>7 DEF Serve, TypeOK
  <2> QED
    BY <1>8, <2>4, <2>7, <2>8 DEF Serve, TypeOK, Entry
<1>12. ASSUME Refuse PROVE TypeOK'
  <2>1. /\ pipe' \in Seq(Entry) /\ Len(pipe') = Len(pipe)
        /\ served + 1 \in 1 .. Len(pipe) /\ pipe[served + 1] \in Entry
    BY <1>12, RefusePipe
  <2>2. garbled' \subseteq Axes
    BY <1>12, <2>1 DEF Refuse, TypeOK, Entry, Sent
  <2>3. served' \in 0 .. Len(pipe')
    BY <1>12, <2>1 DEF Refuse, TypeOK
  <2> QED
    BY <1>12, <2>1, <2>2, <2>3 DEF Refuse, TypeOK
<1>9. ASSUME Silent PROVE TypeOK'
  <2>1. served + 1 \in 1 .. Len(pipe) /\ pipe \in Seq(Entry)
    BY <1>9 DEF Silent, TypeOK, Entry
  <2>2. /\ RemoveAt(pipe, served + 1) \in Seq(Entry)
        /\ Len(RemoveAt(pipe, served + 1)) = Len(pipe) - 1
    BY <2>1, OneRemoved
  <2>3. pipe' \in Seq(Entry) /\ Len(pipe') = Len(pipe) - 1
    BY <1>9, <2>2 DEF Silent
  <2>4. served' \in 0 .. Len(pipe')
    BY <1>9, <2>3 DEF Silent, TypeOK
  <2> QED
    BY <1>9, <2>3, <2>4 DEF Silent, TypeOK, Entry
<1>10. ASSUME NEW a \in Axes, DriveMoves(a) PROVE TypeOK'
  <2>1. Register.coordinate[a] \in Addresses /\ Register.length[a] \in Addresses
    BY Coordinates
  <2>2. PICK v \in {0, regs[Register.length[a]]} :
          /\ regs' = [regs EXCEPT ![Register.coordinate[a]] = v]
          /\ held' = [held EXCEPT ![a] = @ \cup {v}]
    BY <1>10 DEF DriveMoves
  <2>3. v \in Words
    BY <2>1, NoWord DEF TypeOK
  <2>4. regs' \in [Addresses -> Words]
    BY <2>1, <2>2, <2>3 DEF TypeOK
  <2>5. held' \in [Axes -> SUBSET Words]
    BY <2>2, <2>3 DEF TypeOK
  <2> QED
    BY <1>10, <2>4, <2>5 DEF DriveMoves, TypeOK
<1>11. CASE UNCHANGED vars
  BY <1>11 DEF vars, TypeOK
<1> QED
  BY <1>1, <1>2, <1>3, <1>4, <1>5, <1>6, <1>7, <1>8, <1>9, <1>10, <1>11, <1>12 DEF Next

(* Every variable of the link keeps its type: what a caller is given is a    *)
(* 16-bit register whatever reply was read (modbus_protocol.cpp:86).         *)
THEOREM Typing == Spec => []TypeOK
BY InitType, StepType, PTL DEF Spec

----------------------------------------------------------------------------
(* The numbers of the answers.  Only the holder of mtx_ waits, requests and   *)
(* replies are counted, and what is in the pipe is in order and no older than *)
(* the number of replies read allows.                                         *)

InOrder ==
  /\ \A t \in Callers : pc[t] = "wait" <=> mutex = t
  /\ Len(pipe) <= sends - receives
  /\ sends = receives + timeouts + (IF mutex = Nobody THEN 0 ELSE 1)
  /\ \A i \in 1 .. Len(pipe) : pipe[i].n >= receives + i /\ pipe[i].n <= sends
  /\ \A i, j \in 1 .. Len(pipe) : i < j => pipe[i].n < pipe[j].n

LEMMA PipeFacts ==
  ASSUME TypeOK
  PROVE  /\ pipe \in Seq(Entry) /\ Len(pipe) \in Nat /\ served \in 0 .. Len(pipe)
         /\ sends \in Nat /\ receives \in Nat /\ timeouts \in Nat
         /\ \A i \in 1 .. Len(pipe) :
              /\ pipe[i] \in Entry /\ pipe[i].n \in Nat /\ pipe[i].op \in Sent
              /\ pipe[i].value \in Words
<1>1. pipe \in Seq(Entry) /\ served \in 0 .. Len(pipe)
  BY DEF TypeOK, Entry
<1>2. \A i \in 1 .. Len(pipe) : pipe[i] \in Entry
  BY <1>1, ElementOfSeq
<1> QED
  BY <1>1, <1>2, LenProperties DEF TypeOK, Entry

LEMMA InitInOrder == Init => InOrder
BY LinkAssumption, EmptySeq DEF LinkAssumption, Init, InOrder

\* What Send, Receive, Serve and Silent make of the pipe.
LEMMA SendPipe ==
  ASSUME TypeOK, NEW t \in Callers, Send(t)
  PROVE  /\ Len(pipe') = Len(pipe) + 1
         /\ \A i \in 1 .. Len(pipe) : pipe'[i] = pipe[i]
         /\ pipe'[Len(pipe) + 1] = Request(t)
BY PipeFacts DEF Send

LEMMA ReceivePipe ==
  ASSUME TypeOK, NEW t \in Callers, Receive(t)
  PROVE  /\ 1 \in 1 .. Len(pipe) /\ Head(pipe) = pipe[1]
         /\ Len(pipe') = Len(pipe) - 1
         /\ \A i \in 1 .. Len(pipe') : pipe'[i] = pipe[i + 1]
<1>1. pipe # <<>> /\ 1 \in 1 .. Len(pipe)
  BY PipeFacts, EmptySeq DEF Receive
<1> QED
  BY <1>1, PipeFacts, HeadTailProperties DEF Receive

LEMMA ServePipe ==
  ASSUME TypeOK, Serve
  PROVE  /\ served + 1 \in 1 .. Len(pipe) /\ Len(pipe') = Len(pipe)
         /\ \A i \in 1 .. Len(pipe) :
              /\ pipe'[i].n = pipe[i].n /\ pipe'[i].op = pipe[i].op
              /\ i # served + 1 => pipe'[i] = pipe[i]
         /\ LET e == pipe[served + 1] IN
            e.op.kind \in Reading =>
              pipe'[served + 1].value = regs[Register[e.op.kind][e.op.axis]]
<1> DEFINE e == pipe[served + 1]
           w == [e EXCEPT !.value = regs[Register[e.op.kind][e.op.axis]]]
<1>1. served + 1 \in 1 .. Len(pipe)
  BY PipeFacts DEF Serve
<1>2. e \in Entry /\ w.n = e.n /\ w.op = e.op
  BY <1>1, PipeFacts DEF Entry
<1>3. w.value = regs[Register[e.op.kind][e.op.axis]]
  BY <1>2 DEF Entry
<1>4. CASE e.op.kind \in Reading
  <2>1. pipe' = [pipe EXCEPT ![served + 1] = w]
    BY <1>4 DEF Serve
  <2>2. DOMAIN pipe = 1 .. Len(pipe) /\ pipe \in [1 .. Len(pipe) -> Entry]
    BY PipeFacts, LenProperties
  <2>3. Len(pipe') = Len(pipe)
    BY <2>1, <1>1, PipeFacts
  <2> HIDE DEF w
  <2>4. pipe'[served + 1] = w /\ \A i \in 1 .. Len(pipe) : i # served + 1 => pipe'[i] = pipe[i]
    BY <1>1, <2>1, <2>2
  <2> QED
    BY <1>1, <1>2, <1>3, <2>3, <2>4
<1>5. CASE e.op.kind \notin Reading
  BY <1>1, <1>5 DEF Serve
<1> QED
  BY <1>4, <1>5

LEMMA SilentPipe ==
  ASSUME TypeOK, Silent
  PROVE  /\ Len(pipe') = Len(pipe) - 1
         /\ \A i \in 1 .. Len(pipe') :
              pipe'[i] = IF i < served + 1 THEN pipe[i] ELSE pipe[i + 1]
<1>1. served + 1 \in 1 .. Len(pipe) /\ pipe' = RemoveAt(pipe, served + 1)
  BY PipeFacts DEF Silent
<1> QED
  BY <1>1, PipeFacts, OneRemoved

LEMMA StepInOrder == TypeOK /\ InOrder /\ [Next]_vars => InOrder'
<1> SUFFICES ASSUME TypeOK, InOrder, [Next]_vars PROVE InOrder'
  OBVIOUS
<1>a. Nobody \notin Callers
  BY LinkAssumption DEF LinkAssumption
<1>b. \A t \in Callers : t # Nobody
  BY <1>a
<1> USE PipeFacts DEF Goes, above, drive, counts, trouble
<1>1. ASSUME NEW t \in Callers, NEW o \in Calls[t], Call(t, o) PROVE InOrder'
  BY <1>1 DEF Call, InOrder, TypeOK
<1>2. ASSUME NEW t \in Callers, NEW o \in Calls[t], CallText(t, o) PROVE InOrder'
  BY <1>2 DEF CallText, InOrder
<1>3. ASSUME NEW t \in Callers, Send(t) PROVE InOrder'
  <2>0. /\ Len(pipe) \in Nat /\ Len(pipe') = Len(pipe) + 1
        /\ pipe'[Len(pipe) + 1].n = sends + 1
    <3>1. Request(t).n = sends + 1
      BY DEF Request
    <3> QED
      BY <1>3, <3>1, SendPipe
  <2>1. \A u \in Callers : pc'[u] = "wait" <=> mutex' = u
    BY <1>3, <1>b DEF Send, InOrder, TypeOK
  <2>2. Len(pipe') <= sends' - receives'
    BY <1>3, SendPipe DEF Send, InOrder
  <2>3. sends' = receives' + timeouts' + 1 /\ mutex' # Nobody
    BY <1>3, <1>b DEF Send, InOrder
  <2>4. \A i \in 1 .. Len(pipe') : pipe'[i].n >= receives' + i /\ pipe'[i].n <= sends'
    <3> SUFFICES ASSUME NEW i \in 1 .. Len(pipe')
                 PROVE  pipe'[i].n >= receives' + i /\ pipe'[i].n <= sends'
      OBVIOUS
    <3>1. sends' = sends + 1 /\ receives' = receives
      BY <1>3 DEF Send
    <3>2. CASE i \in 1 .. Len(pipe)
      <4>1. pipe'[i] = pipe[i]
        BY <1>3, <3>2, SendPipe
      <4>2. pipe[i].n >= receives + i /\ pipe[i].n <= sends /\ pipe[i].n \in Nat
        BY <3>2 DEF InOrder
      <4> QED
        BY <3>1, <4>1, <4>2
    <3>3. CASE i = Len(pipe) + 1
      <4>1. pipe'[i].n = sends + 1
        BY <2>0, <3>3
      <4>2. Len(pipe) <= sends - receives
        BY DEF InOrder
      <4> QED
        BY <3>1, <3>3, <4>1, <4>2
    <3>4. i \in 1 .. Len(pipe) \/ i = Len(pipe) + 1
      BY <2>0
    <3> QED
      BY <3>2, <3>3, <3>4
  <2>5. \A i, j \in 1 .. Len(pipe') : i < j => pipe'[i].n < pipe'[j].n
    <3>1. \A i \in 1 .. Len(pipe) : pipe'[i] = pipe[i] /\ pipe[i].n < sends + 1
      BY <1>3, SendPipe, PipeFacts DEF InOrder
    <3>2. pipe'[Len(pipe) + 1].n = sends + 1
      BY <2>0
    <3>3. \A i, j \in 1 .. Len(pipe') : i < j => i \in 1 .. Len(pipe) /\ (j \in 1 .. Len(pipe) \/ j = Len(pipe) + 1)
      BY <2>0
    <3> QED
      BY <3>1, <3>2, <3>3 DEF InOrder
  <2> QED
    BY <2>1, <2>2, <2>3, <2>4, <2>5 DEF InOrder
<1>4. ASSUME NEW t \in Callers, SendFails(t) PROVE InOrder'
  BY <1>4 DEF SendFails, InOrder, TypeOK
<1>5. ASSUME NEW t \in Callers, Receive(t) PROVE InOrder'
  <2>1. \A u \in Callers : pc'[u] = "wait" <=> mutex' = u
    BY <1>5, <1>b DEF Receive, InOrder, TypeOK
  <2>2. Len(pipe') <= sends' - receives'
    BY <1>5, ReceivePipe DEF Receive, InOrder
  <2>3. sends' = receives' + timeouts' + (IF mutex' = Nobody THEN 0 ELSE 1)
    BY <1>5, <1>b DEF Receive, InOrder
  <2>4. \A i \in 1 .. Len(pipe') : pipe'[i].n >= receives' + i /\ pipe'[i].n <= sends'
    <3> SUFFICES ASSUME NEW i \in 1 .. Len(pipe')
                 PROVE  pipe'[i].n >= receives' + i /\ pipe'[i].n <= sends'
      OBVIOUS
    <3>1. pipe'[i] = pipe[i + 1] /\ i + 1 \in 1 .. Len(pipe)
      BY <1>5, ReceivePipe
    <3>2. pipe[i + 1].n >= receives + (i + 1) /\ pipe[i + 1].n <= sends /\ pipe[i + 1].n \in Nat
      BY <3>1 DEF InOrder
    <3>3. sends' = sends /\ receives' = receives + 1
      BY <1>5 DEF Receive
    <3> QED
      BY <3>1, <3>2, <3>3
  <2>5. \A i, j \in 1 .. Len(pipe') : i < j => pipe'[i].n < pipe'[j].n
    <3>1. \A i \in 1 .. Len(pipe') : pipe'[i] = pipe[i + 1] /\ i + 1 \in 1 .. Len(pipe)
      BY <1>5, ReceivePipe
    <3>2. \A i, j \in 1 .. Len(pipe') : i < j => i + 1 < j + 1
      OBVIOUS
    <3> QED
      BY <3>1, <3>2 DEF InOrder
  <2> QED
    BY <2>1, <2>2, <2>3, <2>4, <2>5 DEF InOrder
<1>6. ASSUME NEW t \in Callers, TimesOut(t) PROVE InOrder'
  <2>1. \A u \in Callers : pc'[u] = "wait" <=> mutex' = u
    BY <1>6, <1>b DEF TimesOut, InOrder, TypeOK
  <2> QED
    BY <1>6, <1>b, <2>1 DEF TimesOut, InOrder
<1>7. ASSUME NEW t \in Callers, Return(t) PROVE InOrder'
  BY <1>7 DEF Return, InOrder, TypeOK
<1>8. ASSUME Serve PROVE InOrder'
  BY <1>8, ServePipe DEF Serve, InOrder
<1>12. ASSUME Refuse PROVE InOrder'
  BY <1>12, RefusePipe DEF Refuse, InOrder
<1>9. ASSUME Silent PROVE InOrder'
  <2>1. \A i \in 1 .. Len(pipe') : pipe'[i].n >= receives' + i /\ pipe'[i].n <= sends'
    <3> SUFFICES ASSUME NEW i \in 1 .. Len(pipe')
                 PROVE  pipe'[i].n >= receives' + i /\ pipe'[i].n <= sends'
      OBVIOUS
    <3>1. PICK j \in {i, i + 1} : pipe'[i] = pipe[j] /\ j \in 1 .. Len(pipe)
      BY <1>9, SilentPipe
    <3>2. pipe[j].n >= receives + j /\ pipe[j].n <= sends /\ pipe[j].n \in Nat
      BY <3>1 DEF InOrder
    <3>3. sends' = sends /\ receives' = receives
      BY <1>9 DEF Silent
    <3> QED
      BY <3>1, <3>2, <3>3
  <2>2. \A i, j \in 1 .. Len(pipe') : i < j => pipe'[i].n < pipe'[j].n
    <3> SUFFICES ASSUME NEW i \in 1 .. Len(pipe'), NEW j \in 1 .. Len(pipe'), i < j
                 PROVE  pipe'[i].n < pipe'[j].n
      OBVIOUS
    <3>1. PICK k \in {i, i + 1}, l \in {j, j + 1} :
            /\ pipe'[i] = pipe[k] /\ pipe'[j] = pipe[l] /\ k < l
            /\ k \in 1 .. Len(pipe) /\ l \in 1 .. Len(pipe)
      BY <1>9, SilentPipe
    <3> QED
      BY <3>1 DEF InOrder
  <2> QED
    BY <1>9, <2>1, <2>2, SilentPipe DEF Silent, InOrder
<1>10. ASSUME NEW a \in Axes, DriveMoves(a) PROVE InOrder'
  BY <1>10 DEF DriveMoves, InOrder
<1>11. CASE UNCHANGED vars
  BY <1>11 DEF vars, InOrder
<1> QED
  BY <1>1, <1>2, <1>3, <1>4, <1>5, <1>6, <1>7, <1>8, <1>9, <1>10, <1>11, <1>12 DEF Next

LEMMA InOrderLag == TypeOK /\ InOrder => AnswerLag
<1> SUFFICES ASSUME TypeOK, InOrder, NEW t \in Callers, pc[t] = "wait", served > 0
             PROVE  sends - pipe[1].n <= timeouts
  BY DEF AnswerLag
<1>1. sends = receives + timeouts + 1
  BY LinkAssumption DEF LinkAssumption, InOrder
<1>2. 1 \in 1 .. Len(pipe)
  BY PipeFacts
<1> QED
  BY <1>1, <1>2, PipeFacts DEF InOrder

(* However many threads share the link and whatever the drive does, the      *)
(* answer read is at most as many requests old as there were timeouts        *)
(* (modbus_protocol.cpp:66-74): while nothing has timed out, it is the       *)
(* answer of the request it is taken for.                                    *)
THEOREM AnswersMatch == Spec => []AnswerLag
<1>1. Init => TypeOK /\ InOrder
  BY InitType, InitInOrder
<1>2. TypeOK /\ InOrder /\ [Next]_vars => (TypeOK /\ InOrder)'
  BY StepType, StepInOrder
<1>3. TypeOK /\ InOrder => AnswerLag
  BY InOrderLag
<1> QED
  BY <1>1, <1>2, <1>3, PTL DEF Spec

----------------------------------------------------------------------------
(* The coordinates.  While nothing has timed out, the newest request in the   *)
(* pipe is that of the thread that waits, and every value on its way up is a  *)
(* coordinate of its axis.                                                    *)

Had(o, v) ==
  o.kind \in Reading /\ o.axis \notin garbled => v \in {0} \cup held[o.axis]

Truthful ==
  /\ \A i \in 1 .. Len(pipe) : mutex # Nobody /\ pipe[i].n = sends => pipe[i].op = op[mutex]
  /\ \A i \in 1 .. Len(pipe) : i <= served => Had(pipe[i].op, pipe[i].value)
  /\ \A a \in Axes : regs[Register.coordinate[a]] \in held[a]
  /\ \A t \in Callers : pc[t] = "lock" => result[t] = 0
  /\ timeouts = 0 => \A t \in Callers : pc[t] = "returning" => Had(op[t], result[t])
  /\ CoordinateReal

LEMMA InitTruthful == Init => Truthful
<1> SUFFICES ASSUME Init PROVE Truthful
  OBVIOUS
<1>1. \A a \in Axes : Register.coordinate[a] \in Addresses
  BY Coordinates
<1>2. Len(pipe) = 0
  BY EmptySeq DEF Init
<1>3. \A a \in Axes : regs[Register.coordinate[a]] = 0 /\ held[a] = {0} /\ polled[a] = 0
  BY <1>1 DEF Init
<1>4. \A t \in Callers : pc[t] # "returning" /\ pc[t] # "lock"
  BY DEF Init
<1> QED
  BY <1>2, <1>3, <1>4 DEF Truthful, CoordinateReal

\* The reply that is read when nothing has timed out is that of the reader.
LEMMA OwnReply ==
  ASSUME TypeOK, InOrder, Truthful, NEW t \in Callers, Receive(t), timeouts = 0
  PROVE  Had(op[t], result'[t])
<1>1. mutex = t /\ mutex # Nobody
  BY LinkAssumption DEF LinkAssumption, Receive, Goes, InOrder
<1>2. 1 \in 1 .. Len(pipe) /\ Head(pipe) = pipe[1] /\ 1 <= served
  BY ReceivePipe, PipeFacts DEF Receive
<1>3. pipe[1].n = sends
  BY <1>1, <1>2, PipeFacts DEF InOrder
<1>4. pipe[1].op = op[t] /\ Had(op[t], pipe[1].value)
  BY <1>1, <1>2, <1>3 DEF Truthful
<1>5. result'[t] = IF op[t].kind \in Reading THEN pipe[1].value ELSE 0
  BY <1>2, <1>4 DEF Receive, TypeOK, Decode
<1>6. garbled' = garbled /\ held' = held
  BY DEF Receive, Spoils, trouble
<1> QED
  BY <1>4, <1>5 DEF Had

LEMMA StepTruthful == TypeOK /\ InOrder /\ Truthful /\ [Next]_vars => Truthful'
<1> SUFFICES ASSUME TypeOK, InOrder, Truthful, [Next]_vars PROVE Truthful'
  OBVIOUS
<1>a. \A t \in Callers : t # Nobody
  BY LinkAssumption DEF LinkAssumption
<1> USE DEF Goes, above, drive, counts, trouble
<1>1. ASSUME NEW t \in Callers, NEW o \in Calls[t], Call(t, o) PROVE Truthful'
  <2>1. \A u \in Callers : u # t => op'[u] = op[u] /\ pc'[u] = pc[u] /\ result'[u] = result[u]
    BY <1>1 DEF Call, TypeOK
  <2>2. result'[t] = 0 /\ mutex' = mutex /\ mutex # t
    BY <1>1 DEF Call, TypeOK, InOrder
  <2>3. mutex # Nobody => op'[mutex] = op[mutex]
    BY <2>1, <2>2 DEF TypeOK
  <2>4. \A i \in 1 .. Len(pipe)' : mutex' # Nobody /\ pipe'[i].n = sends' => pipe'[i].op = op'[mutex']
    BY <1>1, <2>2, <2>3 DEF Call, Truthful
  <2>6. \A u \in Callers : pc'[u] = "lock" => result'[u] = 0
    BY <2>1, <2>2 DEF Truthful
  <2>5. \A u \in Callers : timeouts = 0 /\ pc'[u] = "returning" => Had(op'[u], result'[u])
    BY <2>1, <2>2 DEF Truthful, Had
  <2> QED
    BY <1>1, <2>4, <2>5, <2>6 DEF Call, Truthful, Had, CoordinateReal
<1>2. ASSUME NEW t \in Callers, NEW o \in Calls[t], CallText(t, o) PROVE Truthful'
  BY <1>2 DEF CallText, Truthful, Had, CoordinateReal
<1>3. ASSUME NEW t \in Callers, Send(t) PROVE Truthful'
  <2>0. /\ Len(pipe) \in Nat /\ Len(pipe') = Len(pipe) + 1 /\ served \in 0 .. Len(pipe)
        /\ \A i \in 1 .. Len(pipe) : pipe'[i] = pipe[i] /\ pipe[i].n # sends + 1
        /\ pipe'[Len(pipe) + 1].op = op[t]
    <3>0. Len(pipe) \in Nat /\ served \in 0 .. Len(pipe)
      BY PipeFacts
    <3>1. \A i \in 1 .. Len(pipe) : pipe[i].n <= sends
      BY DEF InOrder
    <3>2. \A i \in 1 .. Len(pipe) : pipe[i].n # sends + 1
      <4>1. \A n, m \in Nat : n <= m => n # m + 1
        OBVIOUS
      <4> QED
        BY <3>1, <4>1, PipeFacts
    <3>3. /\ Len(pipe') = Len(pipe) + 1 /\ \A i \in 1 .. Len(pipe) : pipe'[i] = pipe[i]
          /\ pipe'[Len(pipe) + 1].op = op[t]
      <4>1. /\ Len(pipe') = Len(pipe) + 1 /\ \A i \in 1 .. Len(pipe) : pipe'[i] = pipe[i]
            /\ pipe'[Len(pipe) + 1] = Request(t)
        BY <1>3, SendPipe
      <4> QED
        BY <4>1 DEF Request
    <3> QED
      BY <3>0, <3>2, <3>3
  <2>1. sends' = sends + 1 /\ mutex' = t /\ op' = op /\ served' = served
    BY <1>3 DEF Send
  <2>2. \A i \in 1 .. Len(pipe') : pipe'[i].n = sends' => pipe'[i].op = op'[mutex']
    <3> SUFFICES ASSUME NEW i \in 1 .. Len(pipe'), pipe'[i].n = sends'
                 PROVE  pipe'[i].op = op'[mutex']
      OBVIOUS
    <3>1. i = Len(pipe) + 1
      BY <2>0, <2>1
    <3> QED
      BY <2>0, <2>1, <3>1
  <2>3. \A i \in 1 .. Len(pipe') : i <= served' => Had(pipe'[i].op, pipe'[i].value)
    BY <2>0, <2>1 DEF Truthful
  <2>4. \A u \in Callers : /\ pc'[u] = "returning" => pc[u] = "returning"
                           /\ pc'[u] = "lock" => pc[u] = "lock"
    BY <1>3 DEF Send, TypeOK
  <2> QED
    BY <1>3, <2>1, <2>2, <2>3, <2>4 DEF Send, Truthful, Had, CoordinateReal
<1>4. ASSUME NEW t \in Callers, SendFails(t) PROVE Truthful'
  <2>1. mutex' = Nobody /\ result' = result /\ result[t] = 0 /\ op' = op
    BY <1>4 DEF SendFails, Truthful
  <2>2. \A u \in Callers : /\ pc'[u] = "returning" => pc[u] = "returning" \/ u = t
                           /\ pc'[u] = "lock" => pc[u] = "lock"
    BY <1>4 DEF SendFails, TypeOK
  <2>3. timeouts = 0 => \A u \in Callers : pc'[u] = "returning" => Had(op[u], result[u])
    BY <2>1, <2>2 DEF Truthful, Had
  <2> QED
    BY <1>4, <2>1, <2>2, <2>3 DEF SendFails, Spoils, Truthful, Had, CoordinateReal, TypeOK
<1>5. ASSUME NEW t \in Callers, Receive(t) PROVE Truthful'
  <2>1. \A u \in Callers : u # t => pc'[u] = pc[u] /\ result'[u] = result[u]
    BY <1>5 DEF Receive, TypeOK
  <2>2. timeouts = 0 => \A u \in Callers : pc'[u] = "returning" => Had(op[u], result'[u])
    BY <1>5, <2>1, OwnReply DEF Truthful
  <2>3. \A i \in 1 .. Len(pipe') : i <= served' => Had(pipe'[i].op, pipe'[i].value)
    <3> SUFFICES ASSUME NEW i \in 1 .. Len(pipe'), i <= served'
                 PROVE  Had(pipe'[i].op, pipe'[i].value)
      OBVIOUS
    <3>1. pipe'[i] = pipe[i + 1] /\ i + 1 \in 1 .. Len(pipe)
      BY <1>5, ReceivePipe, PipeFacts
    <3>2. i + 1 <= served
      BY <1>5, <3>1, PipeFacts DEF Receive
    <3> QED
      BY <3>1, <3>2 DEF Truthful
  <2>4. mutex' = Nobody
    BY <1>5 DEF Receive
  <2>5. \A u \in Callers : pc'[u] = "lock" => result'[u] = 0
    BY <1>5, <2>1 DEF Receive, Truthful, TypeOK
  <2>6. garbled' = garbled
    BY <1>5 DEF Receive, Spoils
  <2> QED
    BY <1>5, <2>2, <2>3, <2>4, <2>5, <2>6 DEF Receive, Truthful, Had, CoordinateReal
<1>6. ASSUME NEW t \in Callers, TimesOut(t) PROVE Truthful'
  <2>1. timeouts' # 0 /\ mutex' = Nobody
    BY <1>6, PipeFacts DEF TimesOut
  <2>2. \A u \in Callers : pc'[u] = "lock" => pc[u] = "lock"
    BY <1>6 DEF TimesOut, TypeOK
  <2> QED
    BY <1>6, <2>1, <2>2 DEF TimesOut, Spoils, Truthful, Had, CoordinateReal
<1>7. ASSUME NEW t \in Callers, Return(t) PROVE Truthful'
  <2>1. \A u \in Callers : /\ pc'[u] = "returning" => pc[u] = "returning"
                           /\ pc'[u] = "lock" => pc[u] = "lock"
    BY <1>7 DEF Return, TypeOK
  <2>2. op[t].axis \in Axes
    BY DEF TypeOK, Sent
  <2>3. CoordinateReal'
    <3> SUFFICES ASSUME timeouts = 0, NEW a \in Axes \ garbled
                 PROVE  polled'[a] \in {0} \cup held[a]
      BY <1>7 DEF Return, CoordinateReal
    <3>1. polled[a] \in {0} \cup held[a]
      BY DEF Truthful, CoordinateReal
    <3>2. Had(op[t], result[t])
      BY <1>7 DEF Return, Truthful
    <3> QED
      BY <1>7, <2>2, <3>1, <3>2 DEF Return, Had, TypeOK
  <2> QED
    BY <1>7, <2>1, <2>3 DEF Return, Truthful, Had
<1>8. ASSUME Serve PROVE Truthful'
  <2> DEFINE k == served + 1
             e == pipe[k]
  <2>1. /\ k \in 1 .. Len(pipe) /\ Len(pipe') = Len(pipe)
        /\ \A i \in 1 .. Len(pipe) : /\ pipe'[i].n = pipe[i].n /\ pipe'[i].op = pipe[i].op
                                     /\ i # k => pipe'[i] = pipe[i]
        /\ e.op.kind \in Reading => pipe'[k].value = regs[Register[e.op.kind][e.op.axis]]
    BY <1>8, ServePipe
  <2>2. e.op.kind \in Kinds /\ e.op.axis \in Axes
    BY <2>1, PipeFacts DEF Sent
  <2>3. served' = k /\ held' = held /\ sends' = sends /\ mutex' = mutex /\ op' = op
    BY <1>8 DEF Serve
  <2>4. \A a \in Axes : regs'[Register.coordinate[a]] = regs[Register.coordinate[a]]
    <3> SUFFICES ASSUME NEW a \in Axes
                 PROVE  regs'[Register.coordinate[a]] = regs[Register.coordinate[a]]
      OBVIOUS
    <3>1. CASE e.op.kind \in Reading
      BY <1>8, <3>1 DEF Serve
    <3>2. CASE e.op.kind \notin Reading
      <4>1. Register[e.op.kind][e.op.axis] # Register.coordinate[a]
        BY <2>2, <3>2, CoordinateApart
      <4>2. Register.coordinate[a] \in Addresses
        BY Coordinates
      <4> QED
        BY <1>8, <4>1, <4>2 DEF Serve, TypeOK
    <3> QED
      BY <3>1, <3>2
  <2>5. Had(e.op, pipe'[k].value)
    <3>1. e.op.kind \in Reading => pipe'[k].value = regs[Register.coordinate[e.op.axis]]
      BY <2>1, <2>2, Coordinates DEF Reading
    <3> QED
      BY <2>2, <3>1 DEF Had, Truthful
  <2>6. \A i \in 1 .. Len(pipe') : i <= served' => Had(pipe'[i].op, pipe'[i].value)
    <3> SUFFICES ASSUME NEW i \in 1 .. Len(pipe'), i <= served'
                 PROVE  Had(pipe'[i].op, pipe'[i].value)
      OBVIOUS
    <3>1. CASE i = k
      BY <2>1, <2>5, <3>1
    <3>2. CASE i # k
      <4>1. i <= served /\ i \in 1 .. Len(pipe) /\ pipe'[i] = pipe[i]
        BY <2>1, <2>3, <3>2, PipeFacts
      <4> QED
        BY <4>1 DEF Truthful
    <3> QED
      BY <3>1, <3>2
  <2>7. \A i \in 1 .. Len(pipe') : mutex # Nobody /\ pipe'[i].n = sends => pipe'[i].op = op[mutex]
    BY <2>1 DEF Truthful
  <2> QED
    BY <1>8, <2>3, <2>4, <2>6, <2>7 DEF Serve, Truthful, Had, CoordinateReal
<1>12. ASSUME Refuse PROVE Truthful'
  <2> DEFINE k == served + 1
             e == pipe[k]
  <2>1. /\ k \in 1 .. Len(pipe) /\ Len(pipe') = Len(pipe)
        /\ \A i \in 1 .. Len(pipe) : /\ pipe'[i].n = pipe[i].n /\ pipe'[i].op = pipe[i].op
                                     /\ i # k => pipe'[i] = pipe[i]
    BY <1>12, RefusePipe
  <2>2. /\ served' = k /\ held' = held /\ sends' = sends /\ mutex' = mutex /\ op' = op
        /\ garbled' = IF e.op.kind \in Reading THEN garbled \cup {e.op.axis} ELSE garbled
    BY <1>12 DEF Refuse
  <2>3. garbled \subseteq garbled' /\ (e.op.kind \in Reading => e.op.axis \in garbled')
    BY <2>2
  <2> DEFINE HadNow(o, v) ==
               o.kind \in Reading /\ o.axis \notin garbled' => v \in {0} \cup held'[o.axis]
  <2>6. \A i \in 1 .. Len(pipe') : i <= served' => HadNow(pipe'[i].op, pipe'[i].value)
    <3> SUFFICES ASSUME NEW i \in 1 .. Len(pipe), i <= k
                 PROVE  HadNow(pipe'[i].op, pipe'[i].value)
      BY <2>1, <2>2
    <3>1. CASE i = k
      BY <2>1, <2>3, <3>1
    <3>2. CASE i # k
      <4>1. i <= served /\ pipe'[i] = pipe[i]
        BY <2>1, <3>2, PipeFacts
      <4>2. Had(pipe[i].op, pipe[i].value)
        BY <4>1 DEF Truthful
      <4> QED
        BY <2>2, <2>3, <4>1, <4>2 DEF Had
    <3> QED
      BY <3>1, <3>2
  <2> HIDE DEF HadNow
  <2>7. \A t \in Callers : Had(op[t], result[t]) => HadNow(op'[t], result[t])
    BY <2>2, <2>3 DEF Had, HadNow
  <2>8. CoordinateReal'
    BY <1>12, <2>2, <2>3 DEF Refuse, Truthful, CoordinateReal
  <2>9. \A i \in 1 .. Len(pipe') : mutex # Nobody /\ pipe'[i].n = sends => pipe'[i].op = op[mutex]
    BY <2>1 DEF Truthful
  <2> QED
    BY <1>12, <2>2, <2>6, <2>7, <2>8, <2>9 DEF Refuse, Truthful, Had, HadNow
<1>9. ASSUME Silent PROVE Truthful'
  <2>1. \A i \in 1 .. Len(pipe') : \E j \in {i, i + 1} : pipe'[i] = pipe[j] /\ j \in 1 .. Len(pipe)
    BY <1>9, SilentPipe, PipeFacts
  <2>2. \A i \in 1 .. Len(pipe') : i <= served => pipe'[i] = pipe[i] /\ i \in 1 .. Len(pipe)
    BY <1>9, SilentPipe, PipeFacts
  <2>3. mutex' = mutex /\ op' = op /\ sends' = sends /\ served' = served /\ held' = held
    BY <1>9 DEF Silent
  <2>4. \A i \in 1 .. Len(pipe') : mutex # Nobody /\ pipe'[i].n = sends => pipe'[i].op = op[mutex]
    BY <2>1 DEF Truthful
  <2>5. \A i \in 1 .. Len(pipe') : i <= served => Had(pipe'[i].op, pipe'[i].value)
    BY <2>2 DEF Truthful
  <2> QED
    BY <1>9, <2>3, <2>4, <2>5 DEF Silent, Truthful, Had, CoordinateReal
<1>10. ASSUME NEW a \in Axes, DriveMoves(a) PROVE Truthful'
  <2>1. PICK v : /\ regs' = [regs EXCEPT ![Register.coordinate[a]] = v]
                 /\ held' = [held EXCEPT ![a] = @ \cup {v}]
    BY <1>10 DEF DriveMoves
  <2>2. \A b \in Axes : held[b] \subseteq held'[b] /\ (b = a => v \in held'[b])
    BY <2>1 DEF TypeOK
  <2>3. \A b \in Axes : regs'[Register.coordinate[b]] \in held'[b]
    BY <2>1, <2>2, Coordinates DEF TypeOK, Truthful
  <2>5. \A i \in 1 .. Len(pipe) : pipe[i].op \in Sent
    BY PipeFacts
  <2>6. \A i \in 1 .. Len(pipe) : i <= served => Had(pipe[i].op, pipe[i].value)'
    BY <1>10, <2>2, <2>5 DEF DriveMoves, Truthful, Had, Sent
  <2>7. timeouts = 0 => \A t \in Callers : pc[t] = "returning" => Had(op[t], result[t])'
    BY <1>10, <2>2 DEF DriveMoves, Truthful, Had, Sent, TypeOK
  <2>8. CoordinateReal'
    BY <1>10, <2>2 DEF DriveMoves, Truthful, CoordinateReal
  <2> QED
    BY <1>10, <2>3, <2>6, <2>7, <2>8 DEF DriveMoves, Truthful
<1>11. CASE UNCHANGED vars
  BY <1>11 DEF vars, Truthful, Had, CoordinateReal
<1> QED
  BY <1>1, <1>2, <1>3, <1>4, <1>5, <1>6, <1>7, <1>8, <1>9, <1>10, <1>11, <1>12 DEF Next

(* While nothing has timed out and no query of the axis was answered with an  *)
(* exception, the position that the executor waits for is one that its axis   *)
(* has had, or the 0 of a failed exchange (modbus_protocol.cpp:47-90): no     *)
(* thread's reply ever becomes a coordinate of another axis, or of an axis at *)
(* all.                                                                       *)
THEOREM CoordinatesReal == Spec => []CoordinateReal
<1>1. Init => TypeOK /\ InOrder /\ Truthful
  BY InitType, InitInOrder, InitTruthful
<1>2. TypeOK /\ InOrder /\ Truthful /\ [Next]_vars => (TypeOK /\ InOrder /\ Truthful)'
  BY StepType, StepInOrder, StepTruthful
<1>3. Truthful => CoordinateReal
  BY DEF Truthful
<1> QED
  BY <1>1, <1>2, <1>3, PTL DEF Spec

----------------------------------------------------------------------------
(* While nothing has timed out, the link holds one request at most.           *)

\* Without a timeout the pipe holds the request of the thread that waits, or nothing.
LEMMA AloneInPipe ==
  ASSUME TypeOK, InOrder, Truthful, timeouts = 0
  PROVE  /\ Len(pipe) \in 0 .. 1 /\ served \in 0 .. Len(pipe)
         /\ Len(pipe) = 1 => /\ mutex \in Callers /\ pc[mutex] = "wait"
                             /\ pipe[1].op = op[mutex]
<1>1. \A i \in 1 .. Len(pipe) : i = 1 /\ mutex # Nobody /\ pipe[i].n = sends
  BY PipeFacts DEF InOrder
<1>2. Len(pipe) \in 0 .. 1
  <2>1. Len(pipe) \in Nat
    BY PipeFacts
  <2>2. Len(pipe) > 1 => 2 \in 1 .. Len(pipe)
    BY <2>1
  <2>3. ~(Len(pipe) > 1)
    BY <1>1, <2>2
  <2>4. \A n \in Nat : ~(n > 1) => n \in 0 .. 1
    OBVIOUS
  <2> QED
    BY <2>1, <2>3, <2>4
<1>3. ASSUME Len(pipe) = 1
      PROVE  mutex \in Callers /\ pc[mutex] = "wait" /\ pipe[1].op = op[mutex]
  BY <1>1, <1>3 DEF TypeOK, InOrder, Truthful
<1> QED
  BY <1>2, <1>3, PipeFacts

\* Timeouts are not forgotten.
LEMMA TimeoutsStay ==
  ASSUME TypeOK, [Next]_vars, timeouts' = 0
  PROVE  timeouts = 0
<1> USE DEF counts
<1>1. ASSUME NEW t \in Callers, NEW o \in Calls[t], Call(t, o) \/ CallText(t, o)
      PROVE  timeouts = 0
  BY <1>1 DEF Call, CallText
<1>2. ASSUME NEW t \in Callers, Send(t) \/ SendFails(t) \/ Receive(t) \/ Return(t)
      PROVE  timeouts = 0
  BY <1>2 DEF Send, SendFails, Receive, Return
<1>3. ASSUME NEW t \in Callers, TimesOut(t)
      PROVE  FALSE
  BY <1>3, PipeFacts DEF TimesOut
<1>4. ASSUME Serve \/ Refuse \/ Silent \/ \E b \in Axes : DriveMoves(b)
      PROVE  timeouts = 0
  BY <1>4 DEF Serve, Refuse, Silent, DriveMoves
<1>5. CASE UNCHANGED vars
  BY <1>5 DEF vars
<1> QED
  BY <1>1, <1>2, <1>3, <1>4, <1>5 DEF Next

----------------------------------------------------------------------------
(* The speed cache.  A speed command that has not been spoilt is the only one *)
(* of its axis; when it has read its own normal answer, the drive has the     *)
(* speed and no older command can reach the drive any more.  Between the      *)
(* commands of an axis that is not disturbed nothing is left to be done.      *)

SetsAxis(o, a) == SetsSpeed(o) /\ o.axis = a
Clean(a) == a \notin disturbed /\ \A t \in Callers : Setting(t, a) => t \notin spoilt

SpeedFacts(a) ==
  /\ \A t, u \in Callers : Setting(t, a) /\ t \notin spoilt /\ Setting(u, a) => u = t
  /\ \A t \in Callers, i \in 1 .. Len(pipe) :
       /\ Setting(t, a) /\ t \notin spoilt /\ pc[t] = "wait"
       /\ i <= served /\ pipe[i].n = sends /\ pipe[i].status = "normal"
       => regs[Register.speed[a]] = op[t].value
  /\ \A t \in Callers : Setting(t, a) /\ t \notin spoilt /\ pc[t] = "returning" =>
       /\ regs[Register.speed[a]] = op[t].value
       /\ \A i \in 1 .. Len(pipe) : i > served => ~SetsAxis(pipe[i].op, a)
  /\ Clean(a) => \A i \in 1 .. Len(pipe) :
       i > served /\ SetsAxis(pipe[i].op, a) => \E t \in Callers : mutex = t /\ Setting(t, a)
  /\ Clean(a) => SpeedUnderWay(a) \/ cache[a] \in {NoSpeed, regs[Register.speed[a]]}

SpeedInv == \A a \in Axes : SpeedFacts(a)

LEMMA InitSpeedInv == Init => SpeedInv
BY EmptySeq DEF Init, SpeedInv, SpeedFacts, Clean, Setting, SpeedUnderWay, NoSpeed

LEMMA SpeedRegister ==
  ASSUME NEW k \in Kinds, NEW b \in Axes, NEW a \in Axes
  PROVE  /\ Register.speed[a] \in Addresses
         /\ Register[k][b] = Register.speed[a] <=> k \in {"speed", "axisSpeed"} /\ b = a
<1>1. Register["speed"][a] = Register.speed[a] /\ "speed" \in Kinds
  BY TableOfKinds DEF Register
<1>2. Register[k][b] = Register.speed[a] <=> k \in {"speed", "axisSpeed"} /\ b = a
  BY TableOfKinds, SMTT(30) DEF Register, Both, Axes
<1> QED
  BY <1>1, <1>2 DEF Addresses

\* A served request writes the speed of an axis only if it sets it.
LEMMA ServedSpeed ==
  ASSUME TypeOK, Serve, NEW a \in Axes
  PROVE  /\ SetsAxis(pipe[served + 1].op, a) =>
              regs'[Register.speed[a]] = pipe[served + 1].op.value
         /\ ~SetsAxis(pipe[served + 1].op, a) =>
              regs'[Register.speed[a]] = regs[Register.speed[a]]
<1> DEFINE o == pipe[served + 1].op
<1>1. o.kind \in Kinds /\ o.axis \in Axes
  BY ServePipe, PipeFacts DEF Sent
<1>2. regs' = IF o.kind \in Reading \cup Coils THEN regs
              ELSE [regs EXCEPT ![Register[o.kind][o.axis]] = o.value]
  BY DEF Serve
<1>3. /\ Register.speed[a] \in Addresses
      /\ Register[o.kind][o.axis] = Register.speed[a] <=> SetsAxis(o, a)
  BY <1>1, SpeedRegister DEF SetsAxis, SetsSpeed
<1>4. SetsAxis(o, a) => o.kind \notin Reading \cup Coils
  BY DEF SetsAxis, SetsSpeed, Reading, Coils
<1> HIDE DEF o
<1>5. SetsAxis(o, a) => regs'[Register.speed[a]] = o.value
  BY <1>2, <1>3, <1>4 DEF TypeOK
<1>6. ~SetsAxis(o, a) => regs'[Register.speed[a]] = regs[Register.speed[a]]
  BY <1>2, <1>3 DEF TypeOK
<1> QED
  BY <1>5, <1>6 DEF o

\* Once the request of the thread that waits is answered, nothing is behind it.
LEMMA NewestLast ==
  ASSUME TypeOK, InOrder, NEW i \in 1 .. Len(pipe), pipe[i].n = sends
  PROVE  i = Len(pipe)
<1>1. Len(pipe) \in 1 .. Len(pipe) /\ Len(pipe) >= i
  BY PipeFacts
<1>2. pipe[Len(pipe)].n <= sends /\ pipe[Len(pipe)].n \in Nat
  BY <1>1, PipeFacts DEF InOrder
<1>3. i < Len(pipe) => sends < pipe[Len(pipe)].n
  BY <1>1 DEF InOrder
<1> QED
  BY <1>1, <1>2, <1>3, PipeFacts

LEMMA StepSpeedInv == TypeOK /\ InOrder /\ Truthful /\ SpeedInv /\ [Next]_vars => SpeedInv'
<1> SUFFICES ASSUME TypeOK, InOrder, Truthful, SpeedInv, [Next]_vars, NEW a \in Axes
             PROVE  SpeedFacts(a)'
  BY DEF SpeedInv
<1>a. SpeedFacts(a)
  BY DEF SpeedInv
<1>b. \A t \in Callers : t # Nobody
  BY LinkAssumption DEF LinkAssumption
<1> USE DEF Goes, above, drive, counts, trouble
<1>1. ASSUME NEW t \in Callers, NEW o \in Calls[t], Call(t, o) PROVE SpeedFacts(a)'
  <2>1. \A u \in Callers : u # t => op'[u] = op[u] /\ pc'[u] = pc[u]
    BY <1>1 DEF Call, TypeOK
  <2>2. /\ op'[t] = o /\ pc[t] = "idle" /\ pc'[t] = IF ready THEN "lock" ELSE "returning"
        /\ ~Setting(t, a)
    BY <1>1 DEF Call, TypeOK, Setting
  <2>3. /\ UNCHANGED <<pipe, served, regs, cache, disturbed, sends, mutex>>
        /\ Overlaps(t, o)
    BY <1>1 DEF Call
  <2>4. \A u \in Callers : u # t => (Setting(u, a)' <=> Setting(u, a))
    BY <2>1 DEF Setting
  <2>5. Setting(t, a)' <=> SetsAxis(o, a)
    BY <2>2 DEF Setting, SetsAxis
  <2>6. spoilt \subseteq spoilt'
    BY <2>3 DEF Overlaps
  <2>7. mutex \in Callers => pc[mutex] = "wait" /\ mutex # t
    BY <2>2 DEF InOrder
  <2>8. CASE ~SetsAxis(o, a)
    <3>1. Clean(a)' => Clean(a)
      BY <2>2, <2>3, <2>4, <2>6 DEF Clean
    <3>2. SpeedUnderWay(a) => SpeedUnderWay(a)'
      BY <2>2, <2>4 DEF SpeedUnderWay
    <3> QED
      BY <1>a, <2>1, <2>2, <2>3, <2>4, <2>5, <2>6, <2>7, <2>8, <3>1, <3>2 DEF SpeedFacts
  <2>9. CASE SetsAxis(o, a) /\ (~ready \/ SpeedUnderWay(a))
    <3>1. t \in spoilt' /\ \A u \in Callers : Setting(u, a) => u \in spoilt'
      BY <2>3, <2>9 DEF Overlaps, SetsAxis
    <3>2. \A u \in Callers : Setting(u, a)' => u \in spoilt'
      BY <2>4, <3>1
    <3>3. ~Clean(a)'
      BY <2>5, <2>9, <3>1 DEF Clean
    <3> QED
      BY <3>2, <3>3 DEF SpeedFacts
  <2>10. CASE SetsAxis(o, a) /\ ready /\ ~SpeedUnderWay(a)
    <3>1. \A u \in Callers : ~Setting(u, a)
      BY <2>10 DEF SpeedUnderWay
    <3>2. \A u \in Callers : Setting(u, a)' => u = t
      BY <2>4, <3>1
    <3>3. pc'[t] = "lock" /\ SpeedUnderWay(a)'
      BY <2>2, <2>5, <2>10 DEF SpeedUnderWay
    <3>4. Clean(a)' => Clean(a)
      BY <2>3, <3>1 DEF Clean
    <3>5. Clean(a) => \A i \in 1 .. Len(pipe) : i > served => ~SetsAxis(pipe[i].op, a)
      BY <1>a, <3>1 DEF SpeedFacts
    <3> QED
      BY <2>3, <3>2, <3>3, <3>4, <3>5 DEF SpeedFacts
  <2> QED
    BY <2>8, <2>9, <2>10
<1>2. ASSUME NEW t \in Callers, NEW o \in Calls[t], CallText(t, o) PROVE SpeedFacts(a)'
  <2>1. UNCHANGED <<pc, op, pipe, served, regs, spoilt, sends, mutex>>
    BY <1>2 DEF CallText
  <2>2. disturbed \subseteq disturbed' /\ (a \notin disturbed' => cache'[a] = cache[a])
    BY <1>2 DEF CallText, TypeOK
  <2>3. \A u \in Callers : Setting(u, a)' <=> Setting(u, a)
    BY <2>1 DEF Setting
  <2>4. Clean(a)' => Clean(a) /\ cache'[a] = cache[a]
    BY <2>1, <2>2, <2>3 DEF Clean
  <2>5. SpeedUnderWay(a) => SpeedUnderWay(a)'
    BY <2>3 DEF SpeedUnderWay
  <2> QED
    BY <1>a, <2>1, <2>3, <2>4, <2>5 DEF SpeedFacts
<1>3. ASSUME NEW t \in Callers, Send(t) PROVE SpeedFacts(a)'
  <2>1. /\ Len(pipe) \in Nat /\ Len(pipe') = Len(pipe) + 1 /\ served \in 0 .. Len(pipe)
        /\ \A i \in 1 .. Len(pipe) : pipe'[i] = pipe[i]
        /\ pipe'[Len(pipe) + 1].op = op[t]
    <3>1. Request(t).op = op[t]
      BY DEF Request
    <3> QED
      BY <1>3, <3>1, SendPipe, PipeFacts
  <2>2. /\ UNCHANGED <<op, served, regs, cache, disturbed, spoilt>> /\ sends' = sends + 1
        /\ mutex = Nobody /\ mutex' = t /\ pc[t] = "lock"
    BY <1>3 DEF Send
  <2>3. /\ pc'[t] = "wait" /\ \A u \in Callers : u # t => pc'[u] = pc[u] /\ pc[u] # "wait"
    BY <1>3, <2>2, <1>b DEF Send, TypeOK, InOrder
  <2>4. \A u \in Callers : Setting(u, a)' <=> Setting(u, a)
    BY <2>2, <2>3 DEF Setting
  <2>5. \A i \in 1 .. Len(pipe) : pipe[i].n # sends + 1
    <3>1. \A i \in 1 .. Len(pipe) : pipe[i].n <= sends /\ pipe[i].n \in Nat
      BY PipeFacts DEF InOrder
    <3>2. \A n, m \in Nat : n <= m => n # m + 1
      OBVIOUS
    <3> QED
      BY <3>1, <3>2, PipeFacts
  <2>6. SetsAxis(op[t], a) => Setting(t, a)
    BY <2>2 DEF Setting, SetsAxis
  <2>7. Clean(a)' => Clean(a)
    BY <2>2, <2>4 DEF Clean
  <2>8. SpeedUnderWay(a) => SpeedUnderWay(a)'
    BY <2>4 DEF SpeedUnderWay
  <2>9. \A u \in Callers, i \in 1 .. Len(pipe') :
          pc'[u] = "wait" /\ i <= served => ~(pipe'[i].n = sends')
    BY <2>1, <2>2, <2>5
  <2>10. ASSUME NEW u \in Callers, Setting(u, a)', u \notin spoilt', pc'[u] = "returning"
         PROVE  /\ regs'[Register.speed[a]] = op'[u].value
                /\ \A i \in 1 .. Len(pipe') : i > served' => ~SetsAxis(pipe'[i].op, a)
    <3>1. Setting(u, a) /\ u \notin spoilt /\ pc[u] = "returning" /\ u # t
      BY <2>2, <2>3, <2>4, <2>10
    <3>2. ~Setting(t, a)
      BY <1>a, <3>1 DEF SpeedFacts
    <3>3. \A i \in 1 .. Len(pipe) : i > served => ~SetsAxis(pipe[i].op, a)
      BY <1>a, <3>1 DEF SpeedFacts
    <3>4. regs[Register.speed[a]] = op[u].value
      BY <1>a, <3>1 DEF SpeedFacts
    <3> QED
      BY <2>1, <2>2, <2>6, <3>2, <3>3, <3>4
  <2>11. ASSUME Clean(a)', NEW i \in 1 .. Len(pipe'), i > served', SetsAxis(pipe'[i].op, a)
         PROVE  \E u \in Callers : mutex' = u /\ Setting(u, a)'
    <3>1. i = Len(pipe) + 1
      BY <1>a, <1>b, <2>1, <2>2, <2>7, <2>11 DEF SpeedFacts
    <3>2. Setting(t, a)'
      BY <2>1, <2>4, <2>6, <2>11, <3>1
    <3> QED
      BY <2>2, <3>2
  <2> QED
    BY <1>a, <2>2, <2>4, <2>7, <2>8, <2>9, <2>10, <2>11 DEF SpeedFacts
<1>4. ASSUME NEW t \in Callers, SendFails(t) PROVE SpeedFacts(a)'
  <2>1. /\ UNCHANGED <<op, pipe, served, regs, cache, disturbed, sends, mutex>>
        /\ pc[t] = "lock" /\ mutex = Nobody
        /\ spoilt' = IF SetsSpeed(op[t]) THEN spoilt \cup {t} ELSE spoilt
    BY <1>4 DEF SendFails, Spoils
  <2>2. /\ pc'[t] = "returning" /\ \A u \in Callers : u # t => pc'[u] = pc[u]
    BY <1>4 DEF SendFails, TypeOK
  <2>3. \A u \in Callers : /\ Setting(u, a)' <=> Setting(u, a)
                           /\ Setting(u, a) /\ u \notin spoilt' => u \notin spoilt /\ u # t
    BY <2>1, <2>2 DEF Setting
  <2>4. Clean(a)' => Clean(a)
    BY <2>1, <2>3 DEF Clean
  <2>5. SpeedUnderWay(a) => SpeedUnderWay(a)'
    BY <2>3 DEF SpeedUnderWay
  <2> QED
    BY <1>a, <1>b, <2>1, <2>2, <2>3, <2>4, <2>5 DEF SpeedFacts
<1>5. ASSUME NEW t \in Callers, Receive(t) PROVE SpeedFacts(a)'
  <2>1. /\ 1 \in 1 .. Len(pipe) /\ Head(pipe) = pipe[1] /\ Len(pipe') = Len(pipe) - 1
        /\ \A i \in 1 .. Len(pipe') : pipe'[i] = pipe[i + 1] /\ i + 1 \in 1 .. Len(pipe)
        /\ served' = served - 1 /\ served \in 1 .. Len(pipe)
    BY <1>5, ReceivePipe, PipeFacts DEF Receive
  <2>2. /\ UNCHANGED <<op, regs, cache, disturbed, sends>> /\ pc[t] = "wait" /\ mutex = t
    BY <1>5 DEF Receive, Spoils, InOrder
  <2>3. /\ pc'[t] = "returning" /\ \A u \in Callers : u # t => pc'[u] = pc[u] /\ pc[u] # "wait"
    BY <1>5, <2>2 DEF Receive, TypeOK, InOrder
  <2>4. spoilt \subseteq spoilt'
    BY <1>5 DEF Receive, Spoils
  <2>5. \A u \in Callers : Setting(u, a)' <=> Setting(u, a)
    BY <2>2, <2>3 DEF Setting
  <2>6. Clean(a)' => Clean(a)
    BY <2>2, <2>4, <2>5 DEF Clean
  <2>7. SpeedUnderWay(a) => SpeedUnderWay(a)'
    BY <2>5 DEF SpeedUnderWay
  <2>8. CASE Setting(t, a) /\ t \notin spoilt'
    <3>1. pipe[1].n = sends /\ pipe[1].status = "normal"
      BY <1>5, <2>1, <2>8 DEF Receive, Spoils, Setting
    <3>2. Len(pipe) = 1
      BY <2>1, <3>1, NewestLast
    <3>3. Len(pipe') = 0
      BY <2>1, <3>2
    <3>4. regs[Register.speed[a]] = op[t].value
      BY <1>a, <2>1, <2>2, <2>4, <2>8, <3>1 DEF SpeedFacts
    <3>5. \A u \in Callers : Setting(u, a) => u = t
      BY <1>a, <2>4, <2>8 DEF SpeedFacts
    <3>6. SpeedUnderWay(a)'
      BY <2>5, <2>8 DEF SpeedUnderWay
    <3> QED
      BY <2>2, <2>5, <3>3, <3>4, <3>5, <3>6 DEF SpeedFacts
  <2>9. CASE Setting(t, a) /\ t \in spoilt'
    <3>1. ~Clean(a)'
      BY <2>5, <2>9 DEF Clean
    <3>2. \A u \in Callers : Setting(u, a)' /\ u \notin spoilt' =>
            Setting(u, a) /\ u \notin spoilt /\ pc'[u] = pc[u] /\ pc'[u] # "wait"
      BY <2>3, <2>4, <2>5, <2>9
    <3>3. \A i \in 1 .. Len(pipe') : i > served' => i + 1 > served
      BY <2>1
    <3> QED
      BY <1>a, <2>1, <2>2, <2>5, <3>1, <3>2, <3>3 DEF SpeedFacts
  <2>10. CASE ~Setting(t, a)
    <3>1. \A u \in Callers : Setting(u, a)' /\ u \notin spoilt' =>
            Setting(u, a) /\ u \notin spoilt /\ pc'[u] = pc[u] /\ pc'[u] # "wait"
      BY <2>3, <2>4, <2>5, <2>10
    <3>2. \A i \in 1 .. Len(pipe') : i > served' => i + 1 > served
      BY <2>1
    <3>3. Clean(a) => \A i \in 1 .. Len(pipe) : i > served => ~SetsAxis(pipe[i].op, a)
      BY <1>a, <2>2, <2>10 DEF SpeedFacts
    <3>4. Clean(a)' => \A i \in 1 .. Len(pipe') : i > served' => ~SetsAxis(pipe'[i].op, a)
      BY <2>1, <2>6, <3>2, <3>3
    <3> QED
      BY <1>a, <2>1, <2>2, <2>5, <2>6, <2>7, <3>1, <3>2, <3>4 DEF SpeedFacts
  <2> QED
    BY <2>8, <2>9, <2>10
<1>6. ASSUME NEW t \in Callers, TimesOut(t) PROVE SpeedFacts(a)'
  <2>1. /\ UNCHANGED <<op, pipe, served, regs, cache, disturbed, sends>>
        /\ pc[t] = "wait" /\ mutex = t
        /\ spoilt' = IF SetsSpeed(op[t]) THEN spoilt \cup {t} ELSE spoilt
    BY <1>6 DEF TimesOut, Spoils, InOrder
  <2>2. /\ pc'[t] = "returning" /\ \A u \in Callers : u # t => pc'[u] = pc[u] /\ pc[u] # "wait"
    BY <1>6, <2>1 DEF TimesOut, TypeOK, InOrder
  <2>3. \A u \in Callers : /\ Setting(u, a)' <=> Setting(u, a)
                           /\ Setting(u, a) /\ u \notin spoilt' => u \notin spoilt /\ u # t
    BY <2>1, <2>2 DEF Setting
  <2>4. Clean(a)' => Clean(a) /\ ~Setting(t, a)
    BY <2>1, <2>3 DEF Clean, Setting
  <2>5. SpeedUnderWay(a) => SpeedUnderWay(a)'
    BY <2>3 DEF SpeedUnderWay
  <2>6. Clean(a)' => \A i \in 1 .. Len(pipe) : i > served => ~SetsAxis(pipe[i].op, a)
    BY <1>a, <2>1, <2>4 DEF SpeedFacts
  <2> QED
    BY <1>a, <2>1, <2>2, <2>3, <2>4, <2>5, <2>6 DEF SpeedFacts
<1>7. ASSUME NEW t \in Callers, Return(t) PROVE SpeedFacts(a)'
  <2>1. /\ UNCHANGED <<op, pipe, served, regs, sends, mutex>> /\ pc[t] = "returning"
        /\ pc'[t] = "idle" /\ \A u \in Callers : u # t => pc'[u] = pc[u]
        /\ spoilt' = spoilt \ {t} /\ mutex # t
    BY <1>7 DEF Return, TypeOK, InOrder
  <2>2. \A u \in Callers : Setting(u, a)' <=> Setting(u, a) /\ u # t
    BY <2>1 DEF Setting
  <2>3. CASE Setting(t, a) /\ t \notin spoilt /\ ThroughCache(op[t])
    <3>1. \A u \in Callers : ~Setting(u, a)'
      BY <1>a, <2>2, <2>3 DEF SpeedFacts
    <3>2. /\ regs[Register.speed[a]] = op[t].value
          /\ \A i \in 1 .. Len(pipe) : i > served => ~SetsAxis(pipe[i].op, a)
      BY <1>a, <2>1, <2>3 DEF SpeedFacts
    <3>3. cache'[a] = op[t].value
      BY <1>7, <2>3 DEF Return, Setting, TypeOK
    <3> QED
      BY <2>1, <3>1, <3>2, <3>3 DEF SpeedFacts
  <2>4. CASE Setting(t, a) /\ ~(t \notin spoilt /\ ThroughCache(op[t]))
    <3>1. ~Clean(a)'
      BY <1>7, <2>4 DEF Return, Setting, Clean
    <3> QED
      BY <1>a, <2>1, <2>2, <3>1 DEF SpeedFacts
  <2>5. CASE ~Setting(t, a)
    <3>1. cache'[a] = cache[a] /\ (a \in disturbed' <=> a \in disturbed)
      BY <1>7, <2>1, <2>5 DEF Return, Setting, SetsSpeed, ThroughCache, TypeOK
    <3>2. Clean(a)' => Clean(a)
      BY <2>1, <2>2, <2>5, <3>1 DEF Clean
    <3>3. SpeedUnderWay(a) => SpeedUnderWay(a)'
      BY <2>2, <2>5 DEF SpeedUnderWay
    <3> QED
      BY <1>a, <2>1, <2>2, <2>5, <3>1, <3>2, <3>3 DEF SpeedFacts
  <2> QED
    BY <2>3, <2>4, <2>5
<1>8. ASSUME Serve PROVE SpeedFacts(a)'
  <2> DEFINE k == served + 1
  <2>1. /\ k \in 1 .. Len(pipe) /\ Len(pipe') = Len(pipe) /\ served' = k
        /\ \A i \in 1 .. Len(pipe) : /\ pipe'[i].n = pipe[i].n /\ pipe'[i].op = pipe[i].op
                                     /\ i # k => pipe'[i] = pipe[i]
    BY <1>8, ServePipe DEF Serve
  <2>2. UNCHANGED <<pc, op, cache, spoilt, disturbed, sends, mutex>>
    BY <1>8 DEF Serve
  <2>3. \A u \in Callers : Setting(u, a)' <=> Setting(u, a)
    BY <2>2 DEF Setting
  <2>4. (Clean(a)' <=> Clean(a)) /\ (SpeedUnderWay(a)' <=> SpeedUnderWay(a))
    BY <2>2, <2>3 DEF Clean, SpeedUnderWay
  <2>5. /\ SetsAxis(pipe[k].op, a) => regs'[Register.speed[a]] = pipe[k].op.value
        /\ ~SetsAxis(pipe[k].op, a) => regs'[Register.speed[a]] = regs[Register.speed[a]]
    BY <1>8, ServedSpeed
  <2>6. \A i \in 1 .. Len(pipe) : /\ i > k => i > served
                                  /\ i <= k => i = k \/ i <= served
    BY <2>1, PipeFacts
  <2>7. k > served
    BY PipeFacts
  <2>8. ASSUME NEW u \in Callers, NEW i \in 1 .. Len(pipe), Setting(u, a), u \notin spoilt,
               pc[u] = "wait", i <= k, pipe[i].n = sends
        PROVE  regs'[Register.speed[a]] = op[u].value
    <3>1. i = Len(pipe)
      BY <2>8, NewestLast
    <3>2. i = k
      BY <2>1, <2>8, <3>1
    <3>3. mutex = u /\ mutex # Nobody
      BY <2>8, <1>b DEF InOrder
    <3>4. pipe[k].op = op[u]
      BY <2>8, <3>2, <3>3 DEF Truthful
    <3> QED
      BY <2>5, <2>8, <3>4 DEF Setting, SetsAxis
  <2>9. ASSUME NEW u \in Callers, Setting(u, a), u \notin spoilt, pc[u] = "returning"
        PROVE  /\ regs'[Register.speed[a]] = op[u].value
               /\ \A i \in 1 .. Len(pipe) : i > k => ~SetsAxis(pipe[i].op, a)
    BY <1>a, <2>1, <2>5, <2>6, <2>7, <2>9 DEF SpeedFacts
  <2>10. ASSUME Clean(a), ~SpeedUnderWay(a)
         PROVE  cache[a] \in {NoSpeed, regs'[Register.speed[a]]}
    <3>1. ~SetsAxis(pipe[k].op, a)
      BY <1>a, <2>1, <2>7, <2>10 DEF SpeedFacts, SpeedUnderWay
    <3> QED
      BY <1>a, <2>5, <2>10, <3>1 DEF SpeedFacts
  <2> HIDE DEF k
  <2> QED
    BY <1>a, <2>1, <2>2, <2>3, <2>4, <2>6, <2>8, <2>9, <2>10 DEF SpeedFacts
<1>12. ASSUME Refuse PROVE SpeedFacts(a)'
  <2> DEFINE k == served + 1
  <2>1. /\ k \in 1 .. Len(pipe) /\ Len(pipe') = Len(pipe) /\ served' = k
        /\ \A i \in 1 .. Len(pipe) : /\ pipe'[i].n = pipe[i].n /\ pipe'[i].op = pipe[i].op
                                     /\ i # k => pipe'[i] = pipe[i]
        /\ pipe'[k].status = "exception"
    BY <1>12, RefusePipe DEF Refuse
  <2>2. UNCHANGED <<pc, op, regs, cache, spoilt, disturbed, sends, mutex>>
    BY <1>12 DEF Refuse
  <2>3. \A u \in Callers : Setting(u, a)' <=> Setting(u, a)
    BY <2>2 DEF Setting
  <2>4. (Clean(a)' <=> Clean(a)) /\ (SpeedUnderWay(a)' <=> SpeedUnderWay(a))
    BY <2>2, <2>3 DEF Clean, SpeedUnderWay
  <2>5. \A i \in 1 .. Len(pipe) : /\ i > k => i > served
                                  /\ i <= k => i = k \/ i <= served
    BY <2>1, PipeFacts
  <2> HIDE DEF k
  <2>6. \A i \in 1 .. Len(pipe) :
          i <= k /\ pipe'[i].status = "normal" => i <= served /\ pipe[i].status = "normal"
    BY <2>1, <2>5
  <2> QED
    BY <1>a, <2>1, <2>2, <2>3, <2>4, <2>5, <2>6 DEF SpeedFacts
<1>9. ASSUME Silent PROVE SpeedFacts(a)'
  <2>1. /\ \A i \in 1 .. Len(pipe') : \E j \in {i, i + 1} :
             pipe'[i] = pipe[j] /\ j \in 1 .. Len(pipe) /\ (i > served => j > served)
        /\ \A i \in 1 .. Len(pipe') : i <= served => pipe'[i] = pipe[i] /\ i \in 1 .. Len(pipe)
    BY <1>9, SilentPipe, PipeFacts
  <2>2. UNCHANGED <<pc, op, served, regs, cache, spoilt, disturbed, sends, mutex>>
    BY <1>9 DEF Silent
  <2>3. \A u \in Callers : Setting(u, a)' <=> Setting(u, a)
    BY <2>2 DEF Setting
  <2>4. (Clean(a)' <=> Clean(a)) /\ (SpeedUnderWay(a)' <=> SpeedUnderWay(a))
    BY <2>2, <2>3 DEF Clean, SpeedUnderWay
  <2> QED
    BY <1>a, <2>1, <2>2, <2>3, <2>4 DEF SpeedFacts
<1>10. ASSUME NEW b \in Axes, DriveMoves(b) PROVE SpeedFacts(a)'
  <2>1. PICK v : regs' = [regs EXCEPT ![Register.coordinate[b]] = v]
    BY <1>10 DEF DriveMoves
  <2>2. Register.coordinate[b] # Register.speed[a] /\ Register.speed[a] \in Addresses
    BY Coordinates, SpeedRegister, TableOfKinds
  <2>3. regs'[Register.speed[a]] = regs[Register.speed[a]]
    BY <2>1, <2>2 DEF TypeOK
  <2>4. UNCHANGED <<pc, op, pipe, served, cache, spoilt, disturbed, sends, mutex>>
    BY <1>10 DEF DriveMoves
  <2>5. \A u \in Callers : Setting(u, a)' <=> Setting(u, a)
    BY <2>4 DEF Setting
  <2>6. (Clean(a)' <=> Clean(a)) /\ (SpeedUnderWay(a)' <=> SpeedUnderWay(a))
    BY <2>4, <2>5 DEF Clean, SpeedUnderWay
  <2> QED
    BY <1>a, <2>3, <2>4, <2>5, <2>6 DEF SpeedFacts
<1>11. CASE UNCHANGED vars
  <2>1. UNCHANGED <<pc, op, pipe, served, regs, cache, spoilt, disturbed, sends, mutex>>
    BY <1>11 DEF vars
  <2> QED
    BY <1>a, <2>1 DEF SpeedFacts, Clean, Setting, SpeedUnderWay
<1> QED
  BY <1>1, <1>2, <1>3, <1>4, <1>5, <1>6, <1>7, <1>8, <1>9, <1>10, <1>11, <1>12 DEF Next

(* Whatever timeouts, failures, refusals, direct and overlapping commands     *)
(* came before, once an axisRunSpeed that ran alone has read its own normal   *)
(* answer, the speed it will not send again (modbus_business.cpp:349, :354)   *)
(* is the one the drive has: no late request or reply of an earlier exchange  *)
(* undoes it, and it stays so until another speed command returns.            *)
THEOREM SpeedCacheHolds == Spec => []SpeedCacheTrue
<1> DEFINE I == TypeOK /\ InOrder /\ Truthful /\ SpeedInv
<1>1. Init => I
  BY InitType, InitInOrder, InitTruthful, InitSpeedInv
<1>2. I /\ [Next]_vars => I'
  BY StepType, StepInOrder, StepTruthful, StepSpeedInv
<1>3. I => SpeedCacheTrue
  <2> SUFFICES ASSUME SpeedInv, NEW a \in Axes \ disturbed, ~SpeedUnderWay(a)
               PROVE  cache[a] \in {NoSpeed, regs[Register.speed[a]]}
    BY DEF SpeedCacheTrue
  <2>1. Clean(a)
    BY DEF Clean, SpeedUnderWay
  <2> QED
    BY <2>1 DEF SpeedInv, SpeedFacts
<1> QED
  BY <1>1, <1>2, <1>3, PTL DEF Spec
============================================================================
