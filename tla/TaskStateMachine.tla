-------------------------- MODULE TaskStateMachine --------------------------
(***************************************************************************)
(* The declarative state machine of internal/domain: the transition table  *)
(* of the Task aggregate and the operations that look it up.  The generic  *)
(* machine keeps its transitions in a map keyed by (from, event), so a     *)
(* table is a set of <<from, event, to>> triples with at most one triple   *)
(* per key.  No guard and no action is registered on the task tables, so   *)
(* Trigger is the lookup followed by the version increment.                *)
(***************************************************************************)
EXTENDS Integers

TaskStatuses ==
    {"pending", "dispatched", "running", "reviewing", "confirming",
     "completed", "failed", "cancelled"}

IsTerminal(s) == s \in {"completed", "failed", "cancelled"}

TaskStateMachineDefinition ==
    { <<"pending",    "Dispatch",            "dispatched">>,
      <<"pending",    "Cancel",              "cancelled">>,
      <<"dispatched", "StartExecution",      "running">>,
      <<"dispatched", "NoAgentAvailable",    "failed">>,
      <<"dispatched", "Cancel",              "cancelled">>,
      <<"running",    "CompleteExecution",   "reviewing">>,
      <<"running",    "AutoComplete",        "completed">>,
      <<"running",    "ExecutionFailed",     "failed">>,
      <<"running",    "RequestConfirmation", "confirming">>,
      <<"running",    "Cancel",              "cancelled">>,
      <<"reviewing",  "ReviewPassed",        "completed">>,
      <<"reviewing",  "ReviewFailedRetry",   "running">>,
      <<"reviewing",  "ReviewFailedFatal",   "failed">>,
      <<"confirming", "UserApproved",        "running">>,
      <<"confirming", "UserRejected",        "failed">>,
      <<"confirming", "ConfirmationTimeout", "failed">>,
      <<"confirming", "Cancel",              "cancelled">> }

(* A status step some event of the table allows. *)
Edge(from, to) == \E tr \in TaskStateMachineDefinition : tr[1] = from /\ tr[3] = to

CanTransition(s, event) ==
    \E tr \in TaskStateMachineDefinition : tr[1] = s /\ tr[2] = event

(* Trigger: the target of the transition, or the old state when the lookup *)
(* fails (the error return leaves the machine as it was).                  *)
Trigger(s, event) ==
    IF CanTransition(s, event)
      THEN (CHOOSE tr \in TaskStateMachineDefinition : tr[1] = s /\ tr[2] = event)[3]
      ELSE s

(* The version Trigger leaves behind. *)
TriggerVersion(s, v, event) == IF CanTransition(s, event) THEN v + 1 ELSE v
=============================================================================
