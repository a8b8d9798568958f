---------------------------- MODULE RegisterBank ----------------------------
(* What the Modbus link promises to the threads that share it, until an      *)
(* exchange times out: registers with atomic calls.  A call takes effect at   *)
(* one moment between its start and its return, whatever other calls are     *)
(* under way, or it fails without effect; a read returns what the register    *)
(* held at that moment, or 0 or a stray word when it fails, and no call's     *)
(* answer reaches another caller.  Once an exchange has timed out nothing is  *)
(* promised any more.                                                         *)

CONSTANTS
  Clients,      \* threads
  Offered,      \* [Clients -> sets of operations]: what each may call
  Register,     \* [kind -> [axis -> register]]: where an operation goes
  Reading,      \* kinds that read their register
  Coils,        \* kinds that leave the registers alone; the others write them
  Unread,       \* stray words
  Sensors       \* registers that change by themselves

VARIABLES
  regs,         \* the registers
  mode,         \* where the call of each client is
  call,         \* what it calls
  result,       \* what it is given
  lossy         \* whether an exchange has timed out

vars == <<regs, mode, call, result, lossy>>

Init ==
  /\ \A t \in Clients : mode[t] = "idle"
  /\ lossy = FALSE

Goes(t, from, to) == mode[t] = from /\ mode' = [mode EXCEPT ![t] = to]

Call(t, o) ==
  /\ Goes(t, "idle", "called")
  /\ call' = [call EXCEPT ![t] = o] /\ result' = [result EXCEPT ![t] = 0]
  /\ UNCHANGED regs

\* There is no connection: the call fails where it stands.
Refuse(t, o) ==
  /\ Goes(t, "idle", "done")
  /\ call' = [call EXCEPT ![t] = o] /\ result' = [result EXCEPT ![t] = 0]
  /\ UNCHANGED regs

\* The moment at which the call takes effect.
Effect(t) ==
  /\ Goes(t, "called", "done")
  /\ LET o == call[t]
         r == Register[o.kind][o.axis]
     IN /\ regs' = IF o.kind \in Reading \cup Coils THEN regs ELSE [regs EXCEPT ![r] = o.value]
        /\ result' = [result EXCEPT ![t] = IF o.kind \in Reading THEN regs[r] ELSE 0]
  /\ UNCHANGED call

Fail(t) ==
  /\ Goes(t, "called", "done")
  /\ \E v \in IF call[t].kind \in Reading THEN {0} \cup Unread ELSE {0} :
       result' = [result EXCEPT ![t] = v]
  /\ UNCHANGED <<regs, call>>

Return(t) ==
  /\ Goes(t, "done", "idle")
  /\ UNCHANGED <<regs, call, result>>

Moves(r) ==
  /\ regs' = [regs EXCEPT ![r] = regs'[r]]
  /\ UNCHANGED <<mode, call, result>>

Atomic ==
  \/ \E t \in Clients : \/ \E o \in Offered[t] : Call(t, o) \/ Refuse(t, o)
                        \/ Effect(t) \/ Fail(t) \/ Return(t)
  \/ \E r \in Sensors : Moves(r)

Next == lossy' = TRUE \/ (Atomic /\ UNCHANGED lossy)

Spec == Init /\ [][Next]_vars
=============================================================================
