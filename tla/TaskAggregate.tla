--------------------------- MODULE TaskAggregate ----------------------------
(***************************************************************************)
(* The aggregates of internal/domain/task: a Task or a Subtask with its    *)
(* status, its version and the domain events it records.  A method         *)
(* checks the status, stamps times, records its event under the version it *)
(* finds, and only then asks the state machine for the transition; an      *)
(* error of the machine leaves the event and the stamp behind.  A method   *)
(* whose check fails changes nothing and is not a step.                    *)
(***************************************************************************)
EXTENDS Naturals, Sequences

CONSTANT MaxVersion   \* bound: reviews that fail and are retried go on for ever

ASSUME AggAssumption == MaxVersion \in Nat \ {0}

VARIABLES
    aggType,             \* "Task" or "Subtask"
    status, version,
    started, completed,  \* StartedAt, CompletedAt are set
    events,              \* recorded and not flushed: [type, version]
    flushed,             \* what FlushEvents handed out
    announced            \* the creation is recorded

aggVars == <<aggType, status, version, started, completed, events, flushed, announced>>

Terminal(s) == s \in {"completed", "failed", "cancelled"}

TaskDefinition ==
    { <<"pending", "Submit", "submitted">>, <<"pending", "Cancel", "cancelled">>,
      <<"submitted", "StartDecomposition", "decomposing">>, <<"submitted", "Cancel", "cancelled">>,
      <<"decomposing", "DecompositionComplete", "assigned">>, <<"decomposing", "DecompositionFailed", "failed">>,
      <<"decomposing", "Cancel", "cancelled">>,
      <<"assigned", "StartExecution", "running">>, <<"assigned", "NoAgentAvailable", "failed">>,
      <<"assigned", "Cancel", "cancelled">>,
      <<"running", "CompleteExecution", "reviewing">>, <<"running", "ExecutionFailed", "failed">>,
      <<"running", "Cancel", "cancelled">>,
      <<"reviewing", "ReviewPassed", "completed">>, <<"reviewing", "ReviewFailedRetry", "running">>,
      <<"reviewing", "ReviewFailedFatal", "failed">>, <<"reviewing", "Cancel", "cancelled">> }

SubtaskEdges ==
    { <<"pending", "Assign", "assigned">>, <<"pending", "Cancel", "cancelled">>,
      <<"assigned", "StartExecution", "running">>, <<"assigned", "NoAgentAvailable", "failed">>,
      <<"assigned", "Cancel", "cancelled">>,
      <<"running", "CompleteExecution", "reviewing">>, <<"running", "ExecutionFailed", "failed">>,
      <<"running", "Cancel", "cancelled">>,
      <<"reviewing", "ReviewPassed", "completed">>, <<"reviewing", "ReviewFailedRetry", "running">>,
      <<"reviewing", "ReviewFailedFatal", "failed">>, <<"reviewing", "Cancel", "cancelled">> }

(* Mutant: a subtask under review cannot be cancelled in the table. *)
WithoutReviewCancel == SubtaskEdges \ {<<"reviewing", "Cancel", "cancelled">>}

SubtaskDefinition == SubtaskEdges

Definition == IF aggType = "Task" THEN TaskDefinition ELSE SubtaskDefinition

AggInit ==
    /\ aggType \in {"Task", "Subtask"}
    /\ status = "pending" /\ version = 1
    /\ started = FALSE /\ completed = FALSE /\ announced = FALSE
    /\ events = <<>> /\ flushed = <<>>

Record(type, v) == events' = Append(events, [type |-> type, version |-> v])

(* transitionTo: a machine is built for the call, and its state and version  *)
(* are taken over when the trigger succeeds.                                 *)
TransitionTo(trigger) ==
    LET edges == {e \in Definition : e[1] = status /\ e[2] = trigger}
    IN  IF edges = {}
          THEN UNCHANGED <<status, version>>
          ELSE /\ status' = (CHOOSE e \in edges : TRUE)[3]
               /\ version' = version + 1

Method(x, expects, type, trigger) ==
    /\ aggType = x /\ status \in expects /\ version < MaxVersion
    /\ Record(type, version)
    /\ TransitionTo(trigger)
    /\ UNCHANGED <<aggType, flushed, announced>>

Plainly(x, from, type, trigger) == Method(x, {from}, type, trigger) /\ UNCHANGED <<started, completed>>
Starting(x, from, type, trigger) == Method(x, {from}, type, trigger) /\ started' = TRUE /\ UNCHANGED completed
Ending(x, from, type, trigger) == Method(x, from, type, trigger) /\ completed' = TRUE /\ UNCHANGED started

NotTerminal == {"pending", "submitted", "decomposing", "assigned", "running", "reviewing"}

Submit == Plainly("Task", "pending", "TaskSubmitted", "Submit")
StartDecomposition == Plainly("Task", "submitted", "TaskDecompositionStarted", "StartDecomposition")
CompleteDecomposition == Plainly("Task", "decomposing", "TaskDecompositionCompleted", "DecompositionComplete")
FailDecomposition == Plainly("Task", "decomposing", "TaskDecompositionFailed", "DecompositionFailed")
AssignTask == Plainly("Task", "assigned", "TaskAssigned", "StartExecution")
StartTaskExecution == Starting("Task", "assigned", "TaskExecutionStarted", "StartExecution")
CompleteTaskExecution == Plainly("Task", "running", "TaskExecutionCompleted", "CompleteExecution")
FailTaskExecution == Ending("Task", {"running"}, "TaskExecutionFailed", "ExecutionFailed")
FailTaskNoAgent == Ending("Task", {"assigned"}, "TaskNoAgentAvailable", "NoAgentAvailable")
TaskReviewPassed == Ending("Task", {"reviewing"}, "TaskReviewPassed", "ReviewPassed")
TaskReviewFailedRetry == Plainly("Task", "reviewing", "TaskReviewFailedRetry", "ReviewFailedRetry")
TaskReviewFailedFatal == Ending("Task", {"reviewing"}, "TaskReviewFailedFatal", "ReviewFailedFatal")
CancelTheTask == Ending("Task", NotTerminal, "TaskCancelled", "Cancel")

AssignSubtask == Plainly("Subtask", "pending", "SubtaskAssigned", "Assign")
StartSubtaskExecution == Starting("Subtask", "assigned", "SubtaskExecutionStarted", "StartExecution")
CompleteSubtaskExecution == Plainly("Subtask", "running", "SubtaskExecutionCompleted", "CompleteExecution")
FailSubtaskExecution == Ending("Subtask", {"running"}, "SubtaskExecutionFailed", "ExecutionFailed")
FailSubtaskNoAgent == Ending("Subtask", {"assigned"}, "SubtaskNoAgentAvailable", "NoAgentAvailable")
SubtaskReviewPassed == Ending("Subtask", {"reviewing"}, "SubtaskReviewPassed", "ReviewPassed")
SubtaskReviewFailedRetry == Plainly("Subtask", "reviewing", "SubtaskReviewFailedRetry", "ReviewFailedRetry")
SubtaskReviewFailedFatal == Ending("Subtask", {"reviewing"}, "SubtaskReviewFailedFatal", "ReviewFailedFatal")
CancelTheSubtask == Ending("Subtask", NotTerminal, "SubtaskCancelled", "Cancel")

(* RecordTaskCreated and RecordSubtaskCreated, by the creator: version 1. *)
RecordTaskCreated ==
    /\ aggType = "Task" /\ ~announced /\ announced' = TRUE
    /\ Record("TaskCreated", 1)
    /\ UNCHANGED <<aggType, status, version, started, completed, flushed>>

RecordSubtaskCreated ==
    /\ aggType = "Subtask" /\ ~announced /\ announced' = TRUE
    /\ Record("SubtaskCreated", 1)
    /\ UNCHANGED <<aggType, status, version, started, completed, flushed>>

FlushEvents ==
    /\ events # <<>>
    /\ flushed' = flushed \o events
    /\ events' = <<>>
    /\ UNCHANGED <<aggType, status, version, started, completed, announced>>

AggNext ==
    \/ Submit \/ StartDecomposition \/ CompleteDecomposition \/ FailDecomposition
    \/ AssignTask \/ StartTaskExecution \/ CompleteTaskExecution \/ FailTaskExecution \/ FailTaskNoAgent
    \/ TaskReviewPassed \/ TaskReviewFailedRetry \/ TaskReviewFailedFatal \/ CancelTheTask
    \/ AssignSubtask \/ StartSubtaskExecution \/ CompleteSubtaskExecution \/ FailSubtaskExecution
    \/ FailSubtaskNoAgent \/ SubtaskReviewPassed \/ SubtaskReviewFailedRetry \/ SubtaskReviewFailedFatal
    \/ CancelTheSubtask
    \/ RecordTaskCreated \/ RecordSubtaskCreated
    \/ FlushEvents

AggSpec == AggInit /\ [][AggNext]_aggVars

-----------------------------------------------------------------------------
AggTypeOK ==
    /\ status \in NotTerminal \cup {"completed", "failed", "cancelled"}
    /\ version \in 1 .. MaxVersion
    /\ started \in BOOLEAN /\ completed \in BOOLEAN

(* What each event says has happened. *)
Meaning(type) ==
    CASE type = "TaskSubmitted" -> "submitted"
      [] type = "TaskDecompositionStarted" -> "decomposing"
      [] type \in {"TaskDecompositionCompleted", "SubtaskAssigned"} -> "assigned"
      [] type \in {"TaskAssigned", "TaskExecutionStarted", "SubtaskExecutionStarted",
                   "TaskReviewFailedRetry", "SubtaskReviewFailedRetry"} -> "running"
      [] type \in {"TaskExecutionCompleted", "SubtaskExecutionCompleted"} -> "reviewing"
      [] type \in {"TaskReviewPassed", "SubtaskReviewPassed"} -> "completed"
      [] type \in {"TaskCancelled", "SubtaskCancelled"} -> "cancelled"
      [] OTHER -> "failed"

(* All that was recorded, and which of it is about a change of the status. *)
History == flushed \o events
Changes == {i \in DOMAIN History : History[i].type \notin {"TaskCreated", "SubtaskCreated"}}

(* The events replay to the aggregate: whenever it is looked at, also when   *)
(* events were flushed in between, there is one event for each version, in   *)
(* order (so the idempotency keys, id:type:version, are all different), and  *)
(* the last of them is the status.  The event is recorded before the machine *)
(* decides (task.go:524), so this needs the checks and the table to agree.   *)
EventsReplay ==
    /\ \A i \in Changes : History[i].version \in 1 .. version - 1
    /\ \A v \in 1 .. version - 1 : \E i \in Changes : History[i].version = v
    /\ \A i, j \in Changes : i < j => History[i].version < History[j].version
    /\ \A i \in Changes : History[i].version = version - 1 => status = Meaning(History[i].type)
    /\ version = 1 => status = "pending"

-----------------------------------------------------------------------------
(* The inductive invariant behind EventsReplay.                              *)

(* The event types of events.go that the aggregates record. *)
EventTypes ==
    {"TaskCreated", "TaskSubmitted", "TaskDecompositionStarted",
     "TaskDecompositionCompleted", "TaskDecompositionFailed", "TaskAssigned",
     "TaskExecutionStarted", "TaskExecutionCompleted", "TaskExecutionFailed",
     "TaskNoAgentAvailable", "TaskReviewPassed", "TaskReviewFailedRetry",
     "TaskReviewFailedFatal", "TaskCancelled", "SubtaskCreated", "SubtaskAssigned",
     "SubtaskExecutionStarted", "SubtaskExecutionCompleted", "SubtaskExecutionFailed",
     "SubtaskNoAgentAvailable", "SubtaskReviewPassed", "SubtaskReviewFailedRetry",
     "SubtaskReviewFailedFatal", "SubtaskCancelled"}

EventsTyped ==
    /\ aggType \in {"Task", "Subtask"}
    /\ events \in Seq([type : EventTypes, version : Nat])
    /\ flushed \in Seq([type : EventTypes, version : Nat])

(* A Subtask is never in the statuses that only a Task has.                  *)
SubtaskStatus == aggType = "Subtask" => status \notin {"submitted", "decomposing"}

AggInv == AggTypeOK /\ EventsTyped /\ SubtaskStatus /\ EventsReplay

-----------------------------------------------------------------------------
(* What comments of the code say; the code does not keep it.                 *)

(* "CompletedAt is when execution completed (nil if not completed)". *)
TerminalHasCompletedAt == Terminal(status) => completed

(* "StartedAt is when execution started (nil if not started)". *)
RunningHasStartedAt == status = "running" => started
=============================================================================
