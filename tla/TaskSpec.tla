------------------------------ MODULE TaskSpec ------------------------------
(***************************************************************************)
(* What the task table promises its readers, whatever the handlers,        *)
(* servers, faults and crashes behind it: a task appears pending at        *)
(* version 1, and from then on each change of its row is one transition of *)
(* the state machine that increments the version by one.                   *)
(***************************************************************************)
EXTENDS TaskStateMachine

CONSTANT Tasks

VARIABLES status,    \* status[t]: the status column of task t, "none" without a row
          version    \* version[t]: the version column of task t, 0 without a row

specVars == <<status, version>>

SpecInit ==
    /\ status = [t \in Tasks |-> "none"]
    /\ version = [t \in Tasks |-> 0]

(* domain.NewTask, stored *)
Appear(t) ==
    /\ status[t] = "none"
    /\ status' = [status EXCEPT ![t] = "pending"]
    /\ version' = [version EXCEPT ![t] = 1]

(* Task.TransitionTo, stored *)
Step(t, to) ==
    /\ Edge(status[t], to)
    /\ status' = [status EXCEPT ![t] = to]
    /\ version' = [version EXCEPT ![t] = @ + 1]

SpecNext == \E t \in Tasks : Appear(t) \/ \E to \in TaskStatuses : Step(t, to)

Spec == SpecInit /\ [][SpecNext]_specVars
=============================================================================
