----------------------------- MODULE TaskLedger -----------------------------
(* What the WebSocket front end promises about commands: tasks are numbered in *)
(* the order of acceptance, and each comes to one end, which is final.  It is  *)
(* completed when its last part succeeds and at no other moment, or failed, or *)
(* dropped with its client.  Parts that succeed after the end change nothing.  *)
EXTENDS Integers

CONSTANTS
  Ids,       \* the numbers of tasks
  Parts      \* what a command may consist of

VARIABLES
  state,     \* where each task is
  missing    \* the parts of each that have not succeeded

vars == <<state, missing>>

Init ==
  /\ state = [t \in Ids |-> "new"]
  /\ missing = [t \in Ids |-> {}]

Accept(t, parts) ==
  /\ \A u \in Ids : state[u] = "new" => t <= u
  /\ state[t] = "new"
  /\ state' = [state EXCEPT ![t] = "running"]
  /\ missing' = [missing EXCEPT ![t] = parts]

Succeed(t, p) ==
  /\ p \in missing[t]
  /\ missing' = [missing EXCEPT ![t] = @ \ {p}]
  /\ state' = IF state[t] = "running" /\ missing[t] = {p}
              THEN [state EXCEPT ![t] = "completed"] ELSE state

\* The client of each task in S is told of the failure, or of the timeout.
Fail(S) ==
  /\ \A t \in S : state[t] = "running"
  /\ state' = [t \in Ids |-> IF t \in S THEN "failed" ELSE state[t]]
  /\ UNCHANGED missing

\* There is nobody left to tell.
Drop(t) ==
  /\ state[t] = "running"
  /\ state' = [state EXCEPT ![t] = "dropped"]
  /\ UNCHANGED missing

Next ==
  \/ \E t \in Ids :
       \/ \E parts \in (SUBSET Parts) \ {{}} : Accept(t, parts)
       \/ \E p \in Parts : Succeed(t, p)
       \/ Drop(t)
  \/ \E S \in SUBSET Ids : Fail(S)

Spec == Init /\ [][Next]_vars
=============================================================================
