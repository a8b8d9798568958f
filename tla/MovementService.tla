-------------------------- MODULE MovementService --------------------------
(* What the turntable executor promises about requests, whatever happens to *)
(* their motion: they are served one at a time in the order they were       *)
(* accepted, a served request is told its end exactly once and before the   *)
(* next one starts, a request that was not served is told nothing later on, *)
(* and waiting requests are only ever dropped during a service.             *)
EXTENDS Sequences, SequencesExt

CONSTANTS Requests, Nobody

VARIABLES
  known,     \* requests that were submitted
  waiting,   \* those accepted and not yet served, in order
  running,   \* the one in service, or Nobody
  told,      \* those that were told their end
  dropped    \* those removed from the waiting line unserved

vars == <<known, waiting, running, told, dropped>>

Init ==
  known = {} /\ waiting = <<>> /\ running = Nobody /\ told = {} /\ dropped = {}

\* A request is refused, or there is nothing to do for it: told on the spot, if
\* it has anybody to tell.
Decline(r) ==
  /\ r \notin known /\ known' = known \cup {r}
  /\ told' \in {told, told \cup {r}}
  /\ UNCHANGED <<waiting, running, dropped>>

Accept(r) ==
  /\ r \notin known /\ known' = known \cup {r}
  /\ waiting' = Append(waiting, r)
  /\ UNCHANGED <<running, told, dropped>>

Start ==
  /\ running = Nobody /\ waiting # <<>>
  /\ running' = Head(waiting) /\ waiting' = Tail(waiting)
  /\ UNCHANGED <<known, told, dropped>>

Tell ==
  /\ running \in Requests \ told
  /\ told' = told \cup {running}
  /\ UNCHANGED <<known, waiting, running, dropped>>

Finish ==
  /\ running \in told
  /\ running' = Nobody
  /\ UNCHANGED <<known, waiting, told, dropped>>

DropWaiting ==
  /\ running # Nobody
  /\ waiting' = <<>> /\ dropped' = dropped \cup ToSet(waiting)
  /\ UNCHANGED <<known, running, told>>

Next ==
  \/ \E r \in Requests : Decline(r) \/ Accept(r)
  \/ Start \/ Tell \/ Finish \/ DropWaiting

Spec == Init /\ [][Next]_vars
============================================================================
