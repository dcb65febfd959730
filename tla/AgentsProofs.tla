---------------------------- MODULE AgentsProofs ----------------------------
(***************************************************************************)
(* Proofs about what does the work: the task aggregate and its events, the *)
(* git tools of agents that share a clone, the ReAct loop, the contexts of *)
(* a task and their compression, and the file tools.                       *)
(***************************************************************************)
EXTENDS TaskAggregate, GitTools, ReActAgent, ContextStore, FileTools, FiniteSetTheorems, TLAPS

-----------------------------------------------------------------------------
(* The aggregates of the domain.                                             *)

(* A recorded event is the last of the history. *)
LEMMA RecordAppends ==
  ASSUME EventsTyped, NEW type \in EventTypes, NEW v \in Nat, Record(type, v), UNCHANGED flushed
  PROVE  /\ events' \in Seq([type : EventTypes, version : Nat])
         /\ Len(History') = Len(History) + 1 /\ Len(History) \in Nat
         /\ DOMAIN History = 1 .. Len(History) /\ DOMAIN History' = 1 .. Len(History) + 1
         /\ \A i \in 1 .. Len(History) : History'[i] = History[i]
         /\ History'[Len(History) + 1].type = type
         /\ History'[Len(History) + 1].version = v
    BY DEF EventsTyped, Record, History

(* The table has an edge for the trigger, to the status that the event means. *)
Agrees(type, trigger) ==
    /\ \E e \in Definition : e[1] = status /\ e[2] = trigger
    /\ \A e \in Definition : e[1] = status /\ e[2] = trigger => e[3] = Meaning(type)
    /\ Meaning(type) \in NotTerminal \cup {"completed", "failed", "cancelled"}
    /\ aggType = "Subtask" => Meaning(type) \notin {"submitted", "decomposing"}

(* A method whose event means what the table does with its trigger. *)
LEMMA MethodKeeps ==
  ASSUME AggInv, NEW x, NEW expects, NEW type \in EventTypes, NEW trigger, Method(x, expects, type, trigger),
         started' \in BOOLEAN, completed' \in BOOLEAN,
         type \notin {"TaskCreated", "SubtaskCreated"},
         Agrees(type, trigger)
  PROVE  AggInv'
<1>1. status' = Meaning(type) /\ version' = version + 1 /\ version \in 1 .. MaxVersion - 1
    BY AggAssumption DEF Agrees, Method, TransitionTo, AggInv, AggTypeOK
<1>2. AggTypeOK' /\ SubtaskStatus'
    BY <1>1, AggAssumption DEF Agrees, AggInv, AggTypeOK, SubtaskStatus, Method
<1>3. /\ events' \in Seq([type : EventTypes, version : Nat])
      /\ Len(History') = Len(History) + 1 /\ Len(History) \in Nat
      /\ DOMAIN History = 1 .. Len(History) /\ DOMAIN History' = 1 .. Len(History) + 1
      /\ \A i \in 1 .. Len(History) : History'[i] = History[i]
      /\ History'[Len(History) + 1].type = type
      /\ History'[Len(History) + 1].version = version
  <2>1. EventsTyped /\ version \in Nat /\ Record(type, version) /\ UNCHANGED flushed
    BY <1>1, AggAssumption DEF AggInv, Method
  <2> QED
    BY <2>1, RecordAppends
<1>4. EventsTyped'
    BY <1>3 DEF AggInv, EventsTyped, Method
<1>5. Changes' = Changes \cup {Len(History) + 1} /\ Changes \subseteq 1 .. Len(History)
    BY <1>3 DEF Changes
<1>6. EventsReplay'
  <2> DEFINE n == Len(History)
  <2>1. \A i \in Changes : i \in 1 .. n /\ History'[i] = History[i] /\ History[i].version \in 1 .. version - 1
    BY <1>3, <1>5 DEF AggInv, EventsReplay
  <2>2. \A v \in 1 .. version' - 1 : \E i \in Changes' : History'[i].version = v
    <3> SUFFICES ASSUME NEW v \in 1 .. version' - 1 PROVE \E i \in Changes' : History'[i].version = v
      OBVIOUS
    <3>1. CASE v = version
      BY <3>1, <1>3, <1>5
    <3>2. CASE v # version
      <4>1. PICK i \in Changes : History[i].version = v
        BY <3>2, <1>1 DEF AggInv, EventsReplay
      <4> QED
        BY <4>1, <2>1, <1>5
    <3> QED
      BY <3>1, <3>2
  <2>3. \A i, j \in Changes' : i < j => History'[i].version < History'[j].version
    BY <2>1, <1>1, <1>3, <1>5 DEF AggInv, EventsReplay
  <2>4. \A i \in Changes' : History'[i].version \in 1 .. version' - 1
    BY <2>1, <1>1, <1>3, <1>5
  <2>5. \A i \in Changes' : History'[i].version = version' - 1 => status' = Meaning(History'[i].type)
    BY <2>1, <1>1, <1>3, <1>5
  <2> QED
    BY <2>2, <2>3, <2>4, <2>5, <1>1 DEF EventsReplay
<1> QED
    BY <1>2, <1>4, <1>6 DEF AggInv

(* The checks of the methods and the table agree: in every status that a     *)
(* method accepts, the table has one edge for its trigger, to the status     *)
(* that its event means.                                                     *)
LEMMA TaskMethodsKeep ==
  ASSUME AggInv,
         Submit \/ StartDecomposition \/ CompleteDecomposition \/ FailDecomposition
         \/ AssignTask \/ StartTaskExecution \/ CompleteTaskExecution \/ FailTaskExecution
         \/ FailTaskNoAgent \/ TaskReviewPassed \/ TaskReviewFailedRetry
         \/ TaskReviewFailedFatal \/ CancelTheTask
  PROVE  AggInv'
<1>1. CASE Submit
  <2>1. Agrees("TaskSubmitted", "Submit")
    BY <1>1 DEF Submit, Plainly, Method, Agrees, Definition, TaskDefinition, NotTerminal, Meaning
  <2>2. Method("Task", {"pending"}, "TaskSubmitted", "Submit")
        /\ started' \in BOOLEAN /\ completed' \in BOOLEAN
    BY <1>1 DEF Submit, Plainly, AggInv, AggTypeOK
  <2> QED
    BY <2>1, <2>2, MethodKeeps, Zenon DEF EventTypes
<1>2. CASE StartDecomposition
  <2>1. Agrees("TaskDecompositionStarted", "StartDecomposition")
    BY <1>2 DEF StartDecomposition, Plainly, Method, Agrees, Definition, TaskDefinition,
       NotTerminal, Meaning
  <2>2. Method("Task", {"submitted"}, "TaskDecompositionStarted", "StartDecomposition")
        /\ started' \in BOOLEAN /\ completed' \in BOOLEAN
    BY <1>2 DEF StartDecomposition, Plainly, AggInv, AggTypeOK
  <2> QED
    BY <2>1, <2>2, MethodKeeps, Zenon DEF EventTypes
<1>3. CASE CompleteDecomposition
  <2>1. Agrees("TaskDecompositionCompleted", "DecompositionComplete")
    BY <1>3 DEF CompleteDecomposition, Plainly, Method, Agrees, Definition, TaskDefinition,
       NotTerminal, Meaning
  <2>2. Method("Task", {"decomposing"}, "TaskDecompositionCompleted", "DecompositionComplete")
        /\ started' \in BOOLEAN /\ completed' \in BOOLEAN
    BY <1>3 DEF CompleteDecomposition, Plainly, AggInv, AggTypeOK
  <2> QED
    BY <2>1, <2>2, MethodKeeps, Zenon DEF EventTypes
<1>4. CASE FailDecomposition
  <2>1. Agrees("TaskDecompositionFailed", "DecompositionFailed")
    BY <1>4 DEF FailDecomposition, Plainly, Method, Agrees, Definition, TaskDefinition,
       NotTerminal, Meaning
  <2>2. Method("Task", {"decomposing"}, "TaskDecompositionFailed", "DecompositionFailed")
        /\ started' \in BOOLEAN /\ completed' \in BOOLEAN
    BY <1>4 DEF FailDecomposition, Plainly, AggInv, AggTypeOK
  <2> QED
    BY <2>1, <2>2, MethodKeeps, Zenon DEF EventTypes
<1>5. CASE AssignTask
  <2>1. Agrees("TaskAssigned", "StartExecution")
    BY <1>5 DEF AssignTask, Plainly, Method, Agrees, Definition, TaskDefinition, NotTerminal, Meaning
  <2>2. Method("Task", {"assigned"}, "TaskAssigned", "StartExecution")
        /\ started' \in BOOLEAN /\ completed' \in BOOLEAN
    BY <1>5 DEF AssignTask, Plainly, AggInv, AggTypeOK
  <2> QED
    BY <2>1, <2>2, MethodKeeps, Zenon DEF EventTypes
<1>6. CASE StartTaskExecution
  <2>1. Agrees("TaskExecutionStarted", "StartExecution")
    BY <1>6 DEF StartTaskExecution, Starting, Method, Agrees, Definition, TaskDefinition,
       NotTerminal, Meaning
  <2>2. Method("Task", {"assigned"}, "TaskExecutionStarted", "StartExecution")
        /\ started' \in BOOLEAN /\ completed' \in BOOLEAN
    BY <1>6 DEF StartTaskExecution, Starting, AggInv, AggTypeOK
  <2> QED
    BY <2>1, <2>2, MethodKeeps, Zenon DEF EventTypes
<1>7. CASE CompleteTaskExecution
  <2>1. Agrees("TaskExecutionCompleted", "CompleteExecution")
    BY <1>7 DEF CompleteTaskExecution, Plainly, Method, Agrees, Definition, TaskDefinition,
       NotTerminal, Meaning
  <2>2. Method("Task", {"running"}, "TaskExecutionCompleted", "CompleteExecution")
        /\ started' \in BOOLEAN /\ completed' \in BOOLEAN
    BY <1>7 DEF CompleteTaskExecution, Plainly, AggInv, AggTypeOK
  <2> QED
    BY <2>1, <2>2, MethodKeeps, Zenon DEF EventTypes
<1>8. CASE FailTaskExecution
  <2>1. Agrees("TaskExecutionFailed", "ExecutionFailed")
    BY <1>8 DEF FailTaskExecution, Ending, Method, Agrees, Definition, TaskDefinition, NotTerminal,
       Meaning
  <2>2. Method("Task", {"running"}, "TaskExecutionFailed", "ExecutionFailed")
        /\ started' \in BOOLEAN /\ completed' \in BOOLEAN
    BY <1>8 DEF FailTaskExecution, Ending, AggInv, AggTypeOK
  <2> QED
    BY <2>1, <2>2, MethodKeeps, Zenon DEF EventTypes
<1>9. CASE FailTaskNoAgent
  <2>1. Agrees("TaskNoAgentAvailable", "NoAgentAvailable")
    BY <1>9 DEF FailTaskNoAgent, Ending, Method, Agrees, Definition, TaskDefinition, NotTerminal, Meaning
  <2>2. Method("Task", {"assigned"}, "TaskNoAgentAvailable", "NoAgentAvailable")
        /\ started' \in BOOLEAN /\ completed' \in BOOLEAN
    BY <1>9 DEF FailTaskNoAgent, Ending, AggInv, AggTypeOK
  <2> QED
    BY <2>1, <2>2, MethodKeeps, Zenon DEF EventTypes
<1>10. CASE TaskReviewPassed
  <2>1. Agrees("TaskReviewPassed", "ReviewPassed")
    BY <1>10 DEF TaskReviewPassed, Ending, Method, Agrees, Definition, TaskDefinition, NotTerminal,
       Meaning
  <2>2. Method("Task", {"reviewing"}, "TaskReviewPassed", "ReviewPassed")
        /\ started' \in BOOLEAN /\ completed' \in BOOLEAN
    BY <1>10 DEF TaskReviewPassed, Ending, AggInv, AggTypeOK
  <2> QED
    BY <2>1, <2>2, MethodKeeps, Zenon DEF EventTypes
<1>11. CASE TaskReviewFailedRetry
  <2>1. Agrees("TaskReviewFailedRetry", "ReviewFailedRetry")
    BY <1>11 DEF TaskReviewFailedRetry, Plainly, Method, Agrees, Definition, TaskDefinition,
       NotTerminal, Meaning
  <2>2. Method("Task", {"reviewing"}, "TaskReviewFailedRetry", "ReviewFailedRetry")
        /\ started' \in BOOLEAN /\ completed' \in BOOLEAN
    BY <1>11 DEF TaskReviewFailedRetry, Plainly, AggInv, AggTypeOK
  <2> QED
    BY <2>1, <2>2, MethodKeeps, Zenon DEF EventTypes
<1>12. CASE TaskReviewFailedFatal
  <2>1. Agrees("TaskReviewFailedFatal", "ReviewFailedFatal")
    BY <1>12 DEF TaskReviewFailedFatal, Ending, Method, Agrees, Definition, TaskDefinition,
       NotTerminal, Meaning
  <2>2. Method("Task", {"reviewing"}, "TaskReviewFailedFatal", "ReviewFailedFatal")
        /\ started' \in BOOLEAN /\ completed' \in BOOLEAN
    BY <1>12 DEF TaskReviewFailedFatal, Ending, AggInv, AggTypeOK
  <2> QED
    BY <2>1, <2>2, MethodKeeps, Zenon DEF EventTypes
<1>13. CASE CancelTheTask
  <2>1. Agrees("TaskCancelled", "Cancel")
    BY <1>13 DEF CancelTheTask, Ending, Method, Agrees, Definition, TaskDefinition, NotTerminal, Meaning
  <2>2. Method("Task", NotTerminal, "TaskCancelled", "Cancel")
        /\ started' \in BOOLEAN /\ completed' \in BOOLEAN
    BY <1>13 DEF CancelTheTask, Ending, AggInv, AggTypeOK
  <2> QED
    BY <2>1, <2>2, MethodKeeps, Zenon DEF EventTypes
<1> QED
    BY <1>1, <1>2, <1>3, <1>4, <1>5, <1>6, <1>7, <1>8, <1>9, <1>10, <1>11, <1>12, <1>13

(* The same for the methods of a Subtask. *)
LEMMA SubtaskMethodsKeep ==
  ASSUME AggInv,
         AssignSubtask \/ StartSubtaskExecution \/ CompleteSubtaskExecution
         \/ FailSubtaskExecution \/ FailSubtaskNoAgent \/ SubtaskReviewPassed
         \/ SubtaskReviewFailedRetry \/ SubtaskReviewFailedFatal \/ CancelTheSubtask
  PROVE  AggInv'
<1>1. CASE AssignSubtask
  <2>1. Agrees("SubtaskAssigned", "Assign")
    BY <1>1 DEF AssignSubtask, Plainly, Method, Agrees, Definition, SubtaskDefinition,
       SubtaskEdges, NotTerminal, Meaning
  <2>2. Method("Subtask", {"pending"}, "SubtaskAssigned", "Assign")
        /\ started' \in BOOLEAN /\ completed' \in BOOLEAN
    BY <1>1 DEF AssignSubtask, Plainly, AggInv, AggTypeOK
  <2> QED
    BY <2>1, <2>2, MethodKeeps, Zenon DEF EventTypes
<1>2. CASE StartSubtaskExecution
  <2>1. Agrees("SubtaskExecutionStarted", "StartExecution")
    BY <1>2 DEF StartSubtaskExecution, Starting, Method, Agrees, Definition, SubtaskDefinition,
       SubtaskEdges, NotTerminal, Meaning
  <2>2. Method("Subtask", {"assigned"}, "SubtaskExecutionStarted", "StartExecution")
        /\ started' \in BOOLEAN /\ completed' \in BOOLEAN
    BY <1>2 DEF StartSubtaskExecution, Starting, AggInv, AggTypeOK
  <2> QED
    BY <2>1, <2>2, MethodKeeps, Zenon DEF EventTypes
<1>3. CASE CompleteSubtaskExecution
  <2>1. Agrees("SubtaskExecutionCompleted", "CompleteExecution")
    BY <1>3 DEF CompleteSubtaskExecution, Plainly, Method, Agrees, Definition, SubtaskDefinition,
       SubtaskEdges, NotTerminal, Meaning
  <2>2. Method("Subtask", {"running"}, "SubtaskExecutionCompleted", "CompleteExecution")
        /\ started' \in BOOLEAN /\ completed' \in BOOLEAN
    BY <1>3 DEF CompleteSubtaskExecution, Plainly, AggInv, AggTypeOK
  <2> QED
    BY <2>1, <2>2, MethodKeeps, Zenon DEF EventTypes
<1>4. CASE FailSubtaskExecution
  <2>1. Agrees("SubtaskExecutionFailed", "ExecutionFailed")
    BY <1>4 DEF FailSubtaskExecution, Ending, Method, Agrees, Definition, SubtaskDefinition,
       SubtaskEdges, NotTerminal, Meaning
  <2>2. Method("Subtask", {"running"}, "SubtaskExecutionFailed", "ExecutionFailed")
        /\ started' \in BOOLEAN /\ completed' \in BOOLEAN
    BY <1>4 DEF FailSubtaskExecution, Ending, AggInv, AggTypeOK
  <2> QED
    BY <2>1, <2>2, MethodKeeps, Zenon DEF EventTypes
<1>5. CASE FailSubtaskNoAgent
  <2>1. Agrees("SubtaskNoAgentAvailable", "NoAgentAvailable")
    BY <1>5 DEF FailSubtaskNoAgent, Ending, Method, Agrees, Definition, SubtaskDefinition,
       SubtaskEdges, NotTerminal, Meaning
  <2>2. Method("Subtask", {"assigned"}, "SubtaskNoAgentAvailable", "NoAgentAvailable")
        /\ started' \in BOOLEAN /\ completed' \in BOOLEAN
    BY <1>5 DEF FailSubtaskNoAgent, Ending, AggInv, AggTypeOK
  <2> QED
    BY <2>1, <2>2, MethodKeeps, Zenon DEF EventTypes
<1>6. CASE SubtaskReviewPassed
  <2>1. Agrees("SubtaskReviewPassed", "ReviewPassed")
    BY <1>6 DEF SubtaskReviewPassed, Ending, Method, Agrees, Definition, SubtaskDefinition,
       SubtaskEdges, NotTerminal, Meaning
  <2>2. Method("Subtask", {"reviewing"}, "SubtaskReviewPassed", "ReviewPassed")
        /\ started' \in BOOLEAN /\ completed' \in BOOLEAN
    BY <1>6 DEF SubtaskReviewPassed, Ending, AggInv, AggTypeOK
  <2> QED
    BY <2>1, <2>2, MethodKeeps, Zenon DEF EventTypes
<1>7. CASE SubtaskReviewFailedRetry
  <2>1. Agrees("SubtaskReviewFailedRetry", "ReviewFailedRetry")
    BY <1>7 DEF SubtaskReviewFailedRetry, Plainly, Method, Agrees, Definition, SubtaskDefinition,
       SubtaskEdges, NotTerminal, Meaning
  <2>2. Method("Subtask", {"reviewing"}, "SubtaskReviewFailedRetry", "ReviewFailedRetry")
        /\ started' \in BOOLEAN /\ completed' \in BOOLEAN
    BY <1>7 DEF SubtaskReviewFailedRetry, Plainly, AggInv, AggTypeOK
  <2> QED
    BY <2>1, <2>2, MethodKeeps, Zenon DEF EventTypes
<1>8. CASE SubtaskReviewFailedFatal
  <2>1. Agrees("SubtaskReviewFailedFatal", "ReviewFailedFatal")
    BY <1>8 DEF SubtaskReviewFailedFatal, Ending, Method, Agrees, Definition, SubtaskDefinition,
       SubtaskEdges, NotTerminal, Meaning
  <2>2. Method("Subtask", {"reviewing"}, "SubtaskReviewFailedFatal", "ReviewFailedFatal")
        /\ started' \in BOOLEAN /\ completed' \in BOOLEAN
    BY <1>8 DEF SubtaskReviewFailedFatal, Ending, AggInv, AggTypeOK
  <2> QED
    BY <2>1, <2>2, MethodKeeps, Zenon DEF EventTypes
<1>9. CASE CancelTheSubtask
  <2>1. Agrees("SubtaskCancelled", "Cancel")
    BY <1>9 DEF CancelTheSubtask, Ending, Method, Agrees, Definition, SubtaskDefinition,
       SubtaskEdges, NotTerminal, Meaning, AggInv, SubtaskStatus
  <2>2. Method("Subtask", NotTerminal, "SubtaskCancelled", "Cancel")
        /\ started' \in BOOLEAN /\ completed' \in BOOLEAN
    BY <1>9 DEF CancelTheSubtask, Ending, AggInv, AggTypeOK
  <2> QED
    BY <2>1, <2>2, MethodKeeps, Zenon DEF EventTypes
<1> QED
    BY <1>1, <1>2, <1>3, <1>4, <1>5, <1>6, <1>7, <1>8, <1>9

(* The creation's event is no change of the status. *)
LEMMA CreatedKeeps ==
  ASSUME AggInv, NEW type \in {"TaskCreated", "SubtaskCreated"}, Record(type, 1),
         UNCHANGED <<aggType, status, version, started, completed, flushed>>
  PROVE  AggInv'
<1>1. /\ events' \in Seq([type : EventTypes, version : Nat])
      /\ Len(History') = Len(History) + 1 /\ Len(History) \in Nat
      /\ DOMAIN History = 1 .. Len(History) /\ DOMAIN History' = 1 .. Len(History) + 1
      /\ \A i \in 1 .. Len(History) : History'[i] = History[i]
      /\ History'[Len(History) + 1].type = type
  <2>1. type \in EventTypes
    BY DEF EventTypes
  <2> QED
    BY <2>1, RecordAppends DEF AggInv
<1>2. Changes' = Changes /\ \A i \in Changes : History'[i] = History[i]
    BY <1>1 DEF Changes
<1> QED
    BY <1>1, <1>2 DEF AggInv, AggTypeOK, EventsTyped, SubtaskStatus, EventsReplay

(* What is flushed stays in the history. *)
LEMMA FlushKeeps == ASSUME AggInv, FlushEvents PROVE AggInv'
<1>1. EventsTyped' /\ History' = History
    BY DEF FlushEvents, AggInv, EventsTyped, History
<1>2. Changes' = Changes
    BY <1>1 DEF Changes
<1> QED
    BY <1>1, <1>2 DEF FlushEvents, AggInv, AggTypeOK, SubtaskStatus, EventsReplay

(* The invariant of the aggregates, however often reviews are repeated. *)
THEOREM AggInvariant == AggSpec => []AggInv
<1>1. AggInit => AggInv
  <2> SUFFICES ASSUME AggInit PROVE AggInv
    OBVIOUS
  <2>1. AggTypeOK /\ SubtaskStatus
    <3>1. started \in BOOLEAN /\ completed \in BOOLEAN
      BY DEF AggInit
    <3>2. status \in NotTerminal /\ version \in 1 .. MaxVersion /\ SubtaskStatus
      BY AggAssumption DEF AggInit, SubtaskStatus, NotTerminal
    <3> QED
      BY <3>1, <3>2 DEF AggTypeOK
  <2>2. EventsTyped /\ Changes = {}
    BY DEF AggInit, EventsTyped, Changes, History
  <2>3. EventsReplay
    BY <2>2 DEF AggInit, EventsReplay
  <2> QED
    BY <2>1, <2>2, <2>3 DEF AggInv
<1>2. AggInv /\ [AggNext]_aggVars => AggInv'
  <2> SUFFICES ASSUME AggInv, [AggNext]_aggVars PROVE AggInv'
    OBVIOUS
  <2>1. CASE RecordTaskCreated
    BY <2>1, CreatedKeeps DEF RecordTaskCreated
  <2>2. CASE RecordSubtaskCreated
    BY <2>2, CreatedKeeps DEF RecordSubtaskCreated
  <2>3. CASE UNCHANGED aggVars
    BY <2>3 DEF aggVars, AggInv, AggTypeOK, EventsTyped, SubtaskStatus, EventsReplay, Changes, History
  <2> QED
    BY <2>1, <2>2, <2>3, FlushKeeps, TaskMethodsKeep, SubtaskMethodsKeep DEF AggNext
<1> QED
    BY <1>1, <1>2, PTL DEF AggSpec

(* The events of a Task or a Subtask replay to its status and version: an    *)
(* event that is recorded before the state machine decides is never one that *)
(* the machine refuses (task.go:524).                                        *)
THEOREM EventsAlwaysReplay == AggSpec => []EventsReplay
<1>1. AggInv => EventsReplay
    BY DEF AggInv
<1> QED
    BY <1>1, AggInvariant, PTL

-----------------------------------------------------------------------------
(* The git tools.                                                            *)

(* No call is a call without files. *)
LEMMA NoCallIsCall ==
    /\ NoCall \in Calls /\ NoCall.step = "none"
    /\ \A f \in Files : NoCall.seen[f] = 0 /\ NoCall.base[f] = 0 /\ NoCall.made[f] = 0
    BY DEF NoCall, Nothing, Calls, Contents, CommitSteps

(* Ages are natural numbers, and that of what there is not is 0. *)
LEMMA AgeIsNat == ASSUME NEW v \in Int PROVE Age(v) \in Nat /\ (v = 0 => Age(v) = 0)
    BY DEF Age

(* No older than something that is no older. *)
LEMMA NotNewerChain ==
  ASSUME NEW x \in Contents, NEW y \in Contents, NEW z \in Contents, NotNewer(x, y), NotNewer(y, z)
  PROVE  NotNewer(x, z)
<1>1. \A f \in Files : Age(x[f]) \in Nat /\ Age(y[f]) \in Nat /\ Age(z[f]) \in Nat
    BY AgeIsNat DEF Contents
<1> QED
    BY <1>1 DEF NotNewer

(* Nothing is newer than itself, and nothing is older than no content. *)
LEMMA NotNewerSelf ==
  ASSUME NEW x \in Contents
  PROVE  NotNewer(x, x) /\ Nothing \in Contents /\ NotNewer(Nothing, x)
<1>1. \A f \in Files : Age(x[f]) \in Nat /\ Nothing[f] = 0 /\ Age(0) = 0
    BY AgeIsNat DEF Contents, Nothing
<1> QED
    BY <1>1 DEF NotNewer, Nothing, Contents

(* A write is newer than everything before it. *)
LEMMA FileWrittenKeeps == ASSUME GitToolsInv, NEW f \in Files, FileWritten(f) PROVE GitToolsInv'
<1>1. GitToolsFunctions'
    BY DEF FileWritten, GitToolsInv, GitToolsFunctions, Contents
<1>2. NotNewer(work, work')
  <2>1. \A g \in Files \ {f} : work'[g] = work[g] /\ Age(work[g]) \in Nat
    BY AgeIsNat DEF FileWritten, GitToolsInv, GitToolsFunctions, Contents
  <2>2. Age(work'[f]) = writes + 1 /\ Age(work[f]) \in Nat /\ Age(work[f]) <= writes
    BY AgeIsNat DEF FileWritten, GitToolsInv, GitToolsFunctions, WorkIsNewest, Contents, Age
  <2> QED
    BY <2>1, <2>2 DEF NotNewer, GitToolsInv, GitToolsFunctions
<1>3. UNCHANGED <<index, tip, call, held, voided>> /\ writes' = writes + 1
    BY DEF FileWritten
<1>4. WorkIsNewest'
  <2>1. \A g \in Files : Age(work'[g]) <= writes'
    <3>1. Age(work'[f]) = writes + 1
      BY DEF FileWritten, GitToolsInv, GitToolsFunctions, Contents, Age
    <3>2. \A g \in Files \ {f} : work'[g] = work[g] /\ Age(work[g]) \in Nat
      BY AgeIsNat DEF FileWritten, GitToolsInv, GitToolsFunctions, Contents
    <3> QED
      BY <1>3, <3>1, <3>2 DEF GitToolsInv, GitToolsFunctions, WorkIsNewest
  <2>2. \A x \in Contents : NotNewer(x, work) => NotNewer(x, work')
    BY <1>1, <1>2, NotNewerChain DEF GitToolsInv, GitToolsFunctions
  <2>3. \A b \in Agents : /\ call[b].seen \in Contents /\ call[b].base \in Contents
                          /\ call[b].made \in Contents
    BY DEF GitToolsInv, GitToolsFunctions, Calls
  <2> QED
    BY <1>3, <2>1, <2>2, <2>3 DEF GitToolsInv, GitToolsFunctions, WorkIsNewest, CallNotNewer
<1>5. IndexCovers'
    BY <1>3 DEF GitToolsInv, IndexCovers, CallIsStaged, OwnIndex
<1> QED
    BY <1>1, <1>4, <1>5 DEF GitToolsInv

(* A step of one call keeps the invariant if the call does. *)
LEMMA CallMovesKeeps ==
  ASSUME GitToolsInv, NEW a \in Agents, NEW c \in Calls, call' = [call EXCEPT ![a] = c],
         CallNotNewer(c), CallIsStaged(c), UNCHANGED <<work, index, tip, writes, held, voided>>
  PROVE  GitToolsInv'
<1>1. \A b \in Agents : call'[b] = IF b = a THEN c ELSE call[b]
    BY DEF GitToolsInv, GitToolsFunctions
<1>2. GitToolsFunctions'
    BY DEF GitToolsInv, GitToolsFunctions
<1>3. WorkIsNewest'
    BY <1>1 DEF GitToolsInv, WorkIsNewest, CallNotNewer
<1>4. IndexCovers'
    BY <1>1 DEF GitToolsInv, IndexCovers, CallIsStaged, OwnIndex
<1> QED
    BY <1>2, <1>3, <1>4 DEF GitToolsInv

(* The end of a call, whatever it has staged. *)
LEMMA CallEndsKeeps ==
  ASSUME GitToolsInv, NEW a \in Agents, call' = [call EXCEPT ![a] = NoCall],
         UNCHANGED <<work, index, tip, writes, held, voided>>
  PROVE  GitToolsInv'
<1>1. CallNotNewer(NoCall) /\ CallIsStaged(NoCall)
    BY NoCallIsCall, NotNewerSelf DEF CallNotNewer, CallIsStaged, NoCall, GitToolsInv, GitToolsFunctions
<1> QED
    BY <1>1, NoCallIsCall, CallMovesKeeps

(* A file that the status does not name is staged and committed as it is. *)
LEMMA CleanIsStaged ==
  ASSUME GitToolsFunctions, NEW f \in Files, f \notin Status
  PROVE  Same(index[f], work[f]) /\ Same(tip[f], index[f])
    BY DEF GitToolsFunctions, Contents, Status, Staging, Worktree, Same, Absent

(* What a commit promises is no newer than the tree, and of what is staged   *)
(* as it is, no newer than the index.                                        *)
LEMMA PromisedIsThere ==
  ASSUME GitToolsInv
  PROVE  /\ Promised \in Contents /\ NotNewer(Promised, work)
         /\ \A f \in Files \ Status : Promised[f] = index[f]
<1>1. Promised \in Contents /\ \A f \in Files : Promised[f] \in {index[f], work[f]}
    BY DEF Promised, GitToolsInv, GitToolsFunctions, Contents
<1>2. NotNewer(Promised, work)
    BY <1>1, NotNewerSelf DEF NotNewer, GitToolsInv, GitToolsFunctions, WorkIsNewest
<1>3. \A f \in Files \ Status : Promised[f] = index[f]
    BY CleanIsStaged DEF Promised, GitToolsInv
<1> QED
    BY <1>1, <1>2, <1>3

(* The status is read: what it does not name needs no adding. *)
LEMMA CommitStatusKeeps == ASSUME GitToolsInv, NEW a \in Agents, CommitStatus(a) PROVE GitToolsInv'
<1>1. UNCHANGED <<work, index, tip, writes>>
    BY DEF CommitStatus
<1>2. index \in Contents /\ work \in Contents /\ \A f \in Files : Age(index[f]) \in Nat
    BY AgeIsNat DEF GitToolsInv, GitToolsFunctions, Contents
<1>3. CASE Status = {}
  <2>1. held' = [held EXCEPT ![a] = Promised] /\ voided' = voided \ {a} /\ UNCHANGED call
    BY <1>3 DEF CommitStatus
  <2>2. GitToolsFunctions'
    BY <1>1, <2>1, PromisedIsThere DEF GitToolsInv, GitToolsFunctions
  <2>3. WorkIsNewest'
    BY <1>1, <2>1 DEF GitToolsInv, WorkIsNewest, CallNotNewer
  <2>4. \A f \in Files : Promised[f] = index[f] /\ Same(tip[f], index[f])
    BY <1>3, PromisedIsThere, CleanIsStaged DEF GitToolsInv
  <2>5. \A b \in Agents : held'[b] = IF b = a THEN Promised ELSE held[b]
    BY <2>1 DEF GitToolsInv, GitToolsFunctions
  <2>6. IndexCovers'
    BY <1>1, <1>2, <2>1, <2>4, <2>5 DEF GitToolsInv, IndexCovers, CallIsStaged, OwnIndex, NotNewer,
       Covers
  <2> QED
    BY <2>2, <2>3, <2>6 DEF GitToolsInv
<1>4. CASE Status # {}
  <2> DEFINE c == [NoCall EXCEPT !.step = "adding", !.todo = Status, !.seen = Promised]
  <2>1. call' = [call EXCEPT ![a] = c] /\ UNCHANGED <<held, voided>>
    BY <1>4 DEF CommitStatus
  <2>2. Status \in SUBSET Files
    BY DEF Status
  <2>3. /\ c \in Calls /\ c.step = "adding" /\ c.todo = Status /\ c.seen = Promised
        /\ c.base = Nothing /\ c.made = Nothing
    BY <2>2, NoCallIsCall, PromisedIsThere DEF Calls, NoCall, CommitSteps
  <2> HIDE DEF c
  <2>4. CallNotNewer(c)
    BY <1>2, <2>3, PromisedIsThere, NotNewerSelf DEF CallNotNewer
  <2>5. CallIsStaged(c)
    BY <1>2, <2>3, PromisedIsThere DEF CallIsStaged, OwnIndex
  <2> QED
    BY <1>1, <2>1, <2>3, <2>4, <2>5, CallMovesKeeps
<1> QED
    BY <1>3, <1>4

(* A copy of the index is no newer than the tree. *)
LEMMA AddReadsKeeps == ASSUME GitToolsInv, NEW a \in Agents, AddReads(a) PROVE GitToolsInv'
<1> DEFINE c == [call[a] EXCEPT !.step = "reading", !.base = index]
<1>1. /\ call[a].step = "adding" /\ call' = [call EXCEPT ![a] = c]
      /\ UNCHANGED <<work, index, tip, writes, held, voided>>
    BY DEF AddReads
<1>2. /\ c \in Calls /\ c.step = "reading" /\ c.base = index /\ c.todo = call[a].todo
      /\ c.seen = call[a].seen /\ c.made = call[a].made /\ c.spoiled = call[a].spoiled
    BY DEF GitToolsInv, GitToolsFunctions, Calls, CommitSteps
<1> HIDE DEF c
<1>3. CallNotNewer(c)
    BY <1>2 DEF GitToolsInv, WorkIsNewest, CallNotNewer
<1>4. CallIsStaged(c)
    BY <1>1, <1>2 DEF GitToolsInv, IndexCovers, CallIsStaged, OwnIndex
<1> QED
    BY <1>1, <1>2, <1>3, <1>4, CallMovesKeeps

(* Add takes what the file holds now, which is no older than what anybody saw. *)
LEMMA AddFileKeeps ==
  ASSUME GitToolsInv, NEW a \in Agents, NEW f \in Files, AddFile(a, f)
  PROVE  GitToolsInv'
<1> DEFINE m == [call[a].base EXCEPT ![f] = work[f]]
           c == [call[a] EXCEPT !.step = "staging", !.todo = call[a].todo \ {f}, !.made = m]
<1>1. /\ call[a].step = "reading" /\ UNCHANGED <<work, index, tip, writes, held, voided>>
      /\ call' = [call EXCEPT ![a] = NoCall] \/ call' = [call EXCEPT ![a] = c]
    BY DEF AddFile
<1>2. CASE call' = [call EXCEPT ![a] = NoCall]
    BY <1>1, <1>2, CallEndsKeeps
<1>3. CASE call' = [call EXCEPT ![a] = c]
  <2>1. /\ m \in Contents /\ m[f] = work[f] /\ \A g \in Files \ {f} : m[g] = call[a].base[g]
    BY DEF GitToolsInv, GitToolsFunctions, Calls, Contents
  <2>2. /\ c \in Calls /\ c.step = "staging" /\ c.base = call[a].base /\ c.todo = call[a].todo \ {f}
        /\ c.seen = call[a].seen /\ c.made = m /\ c.spoiled = call[a].spoiled
    BY <2>1 DEF GitToolsInv, GitToolsFunctions, Calls, CommitSteps
  <2> HIDE DEF m, c
  <2>3. /\ NotNewer(call[a].base, work) /\ NotNewer(call[a].seen, work) /\ NotNewer(work, work)
        /\ NotNewer(call[a].base, call[a].base)
    BY NotNewerSelf DEF GitToolsInv, GitToolsFunctions, WorkIsNewest, CallNotNewer, Calls
  <2>4. CallNotNewer(c)
    BY <2>1, <2>2, <2>3 DEF CallNotNewer, NotNewer
  <2>5. CallIsStaged(c)
    <3>1. ASSUME NEW g \in Files \ c.todo, ~c.spoiled PROVE Age(c.seen[g]) <= Age(m[g])
      <4>1. CASE g = f
        BY <4>1, <2>1, <2>2, <2>3 DEF NotNewer
      <4>2. CASE g # f
        BY <4>2, <3>1, <2>1, <2>2, <1>1 DEF GitToolsInv, IndexCovers, CallIsStaged, OwnIndex
      <4> QED
        BY <4>1, <4>2
    <3> QED
      BY <3>1, <2>2 DEF CallIsStaged, OwnIndex
  <2> QED
    BY <1>1, <1>3, <2>2, <2>4, <2>5, CallMovesKeeps
<1> QED
    BY <1>1, <1>2, <1>3

(* After a lost update every call under way is spoiled, and the rest is kept. *)
LEMMA LostUpdateKeeps ==
  ASSUME GitToolsInv, GitToolsFunctions', NEW a \in Agents, NEW c \in Calls, CallNotNewer(c),
         call' = Spoil([call EXCEPT ![a] = c]), LostUpdate,
         UNCHANGED <<work, writes>>, NotNewer(index', work)
  PROVE  GitToolsInv'
<1> DEFINE n(b) == IF b = a THEN c ELSE call[b]
<1>1. \A b \in Agents : n(b) \in Calls /\ CallNotNewer(n(b))
    BY DEF GitToolsInv, GitToolsFunctions, WorkIsNewest
<1>2. \A b \in Agents : call'[b] = IF n(b).step = "none" THEN n(b) ELSE [n(b) EXCEPT !.spoiled = TRUE]
    BY DEF Spoil, GitToolsInv, GitToolsFunctions
<1> HIDE DEF n
<1>3. \A b \in Agents : /\ call'[b].seen = n(b).seen /\ call'[b].base = n(b).base
                        /\ call'[b].made = n(b).made /\ call'[b].step = n(b).step
                        /\ call'[b].todo = n(b).todo
                        /\ call'[b].step # "none" => call'[b].spoiled
    BY <1>1, <1>2 DEF Calls
<1>4. WorkIsNewest'
  <2>1. ASSUME NEW b \in Agents PROVE CallNotNewer(call[b])'
    <3>1. CallNotNewer(n(b)) /\ work' = work
      BY <1>1
    <3>2. /\ call'[b].seen = n(b).seen /\ call'[b].base = n(b).base /\ call'[b].made = n(b).made
          /\ call'[b].step = n(b).step /\ call'[b].todo = n(b).todo
      BY <1>3
    <3> QED
      BY <3>1, <3>2 DEF CallNotNewer, NotNewer
  <2> QED
    BY <2>1 DEF GitToolsInv, WorkIsNewest, NotNewer
<1>5. IndexCovers'
    BY <1>3 DEF IndexCovers, CallIsStaged, LostUpdate
<1> QED
    BY <1>4, <1>5 DEF GitToolsInv

(* A call that is spoiled, or not, is a call. *)
LEMMA SpoilIsCall ==
  ASSUME NEW cs \in [Agents -> Calls]
  PROVE  Spoil(cs) \in [Agents -> Calls]
<1>1. \A b \in Agents : [cs[b] EXCEPT !.spoiled = TRUE] \in Calls
    BY DEF Calls
<1> QED
    BY <1>1 DEF Spoil

(* An index written back over the one it was made from is no older. *)
LEMMA AddWritesKeeps == ASSUME GitToolsInv, NEW a \in Agents, AddWrites(a) PROVE GitToolsInv'
<1> DEFINE c == [call[a] EXCEPT !.step = "adding", !.base = Nothing, !.made = Nothing]
           n == [call EXCEPT ![a] = c]
<1>1. /\ call[a].step = "staging" /\ index' = call[a].made
      /\ UNCHANGED <<work, tip, writes, held>>
      /\ \/ index = call[a].base /\ call' = n /\ UNCHANGED voided
         \/ call' = Spoil(n) /\ LostUpdate
    BY DEF AddWrites
<1>2. work \in Contents /\ index \in Contents /\ call[a] \in Calls /\ Nothing \in Contents
    BY NotNewerSelf DEF GitToolsInv, GitToolsFunctions
<1>3. /\ c \in Calls /\ c.step = "adding" /\ c.base = Nothing /\ c.made = Nothing
      /\ c.todo = call[a].todo /\ c.seen = call[a].seen /\ c.spoiled = call[a].spoiled
    BY <1>2 DEF Calls, CommitSteps
<1> HIDE DEF c
<1>4. CallNotNewer(c) /\ NotNewer(index', work)
    BY <1>1, <1>2, <1>3, NotNewerSelf DEF GitToolsInv, WorkIsNewest, CallNotNewer
<1>5. n \in [Agents -> Calls] /\ \A b \in Agents : n[b] = IF b = a THEN c ELSE call[b]
    BY <1>3 DEF GitToolsInv, GitToolsFunctions
<1>6. GitToolsFunctions'
  <2>1. call[a].made \in Contents
    BY <1>2 DEF Calls
  <2> QED
    BY <1>1, <1>5, <2>1, SpoilIsCall DEF GitToolsInv, GitToolsFunctions
<1>7. CASE call' = Spoil(n) /\ LostUpdate
    BY <1>1, <1>3, <1>4, <1>6, <1>7, LostUpdateKeeps
<1>8. CASE index = call[a].base /\ call' = n /\ UNCHANGED voided
  <2>1. NotNewer(index, index') /\ index' \in Contents
    BY <1>1, <1>6, <1>8 DEF GitToolsInv, GitToolsFunctions, WorkIsNewest, CallNotNewer
  <2>2. \A x \in Contents : NotNewer(x, index) => NotNewer(x, index')
    BY <1>2, <2>1, NotNewerChain
  <2>3. WorkIsNewest'
    BY <1>1, <1>4, <1>5, <1>8 DEF GitToolsInv, WorkIsNewest, CallNotNewer, NotNewer
  <2>4. ASSUME NEW b \in Agents PROVE CallIsStaged(call[b])'
    <3>1. CASE b = a
      BY <1>1, <1>3, <1>5, <1>8, <3>1 DEF GitToolsInv, IndexCovers, CallIsStaged, OwnIndex
    <3>2. CASE b # a
      <4>1. call'[b] = call[b] /\ call[b].seen \in Contents /\ CallIsStaged(call[b])
        BY <1>5, <1>8, <3>2 DEF GitToolsInv, GitToolsFunctions, IndexCovers, Calls
      <4>2. \A g \in Files : /\ Age(call[b].seen[g]) \in Nat /\ Age(index[g]) \in Nat
                             /\ Age(index'[g]) \in Nat /\ Age(index[g]) <= Age(index'[g])
        BY <1>2, <2>1, <4>1, AgeIsNat DEF NotNewer, Contents
      <4> QED
        BY <4>1, <4>2 DEF CallIsStaged, OwnIndex
    <3> QED
      BY <3>1, <3>2
  <2>5. IndexCovers'
    BY <1>1, <1>8, <2>2, <2>4 DEF GitToolsInv, GitToolsFunctions, IndexCovers
  <2> QED
    BY <1>6, <2>3, <2>5 DEF GitToolsInv
<1> QED
    BY <1>1, <1>7, <1>8

(* The commit takes a copy of the index, or is refused. *)
LEMMA CommitReadsKeeps == ASSUME GitToolsInv, NEW a \in Agents, CommitReads(a) PROVE GitToolsInv'
<1> DEFINE c == [call[a] EXCEPT !.step = "committing", !.base = index, !.head = tip, !.made = index]
<1>1. /\ call[a].step = "adding" /\ call[a].todo = {}
      /\ UNCHANGED <<work, index, tip, writes, held, voided>>
      /\ call' = [call EXCEPT ![a] = NoCall] \/ call' = [call EXCEPT ![a] = c]
    BY DEF CommitReads
<1>2. /\ c \in Calls /\ c.step = "committing" /\ c.base = index /\ c.todo = call[a].todo
      /\ c.seen = call[a].seen /\ c.made = index /\ c.spoiled = call[a].spoiled
    BY DEF GitToolsInv, GitToolsFunctions, Calls, CommitSteps
<1> HIDE DEF c
<1>3. CallNotNewer(c)
    BY <1>1, <1>2 DEF GitToolsInv, WorkIsNewest, CallNotNewer
<1>4. CallIsStaged(c)
    BY <1>1, <1>2 DEF GitToolsInv, IndexCovers, CallIsStaged, OwnIndex
<1> QED
    BY <1>1, <1>2, <1>3, <1>4, CallMovesKeeps, CallEndsKeeps

(* A commit of the index as it still is keeps what was reported before, and  *)
(* what it reports itself.                                                   *)
LEMMA CommitMadeKeeps == ASSUME GitToolsInv, NEW a \in Agents, CommitMade(a) PROVE GitToolsInv'
<1> DEFINE n == [call EXCEPT ![a] = NoCall]
<1>1. /\ call[a].step = "committing" /\ tip' = call[a].made /\ UNCHANGED <<work, index, writes>>
      /\ held' = [held EXCEPT ![a] = call[a].seen]
      /\ \/ /\ index = call[a].base /\ call' = n
            /\ voided' = IF call[a].spoiled THEN voided \cup {a} ELSE voided \ {a}
         \/ call' = Spoil(n) /\ LostUpdate
    BY DEF CommitMade
<1>2. n \in [Agents -> Calls] /\ \A b \in Agents : n[b] = IF b = a THEN NoCall ELSE call[b]
    BY NoCallIsCall DEF GitToolsInv, GitToolsFunctions
<1>3. call[a].made \in Contents /\ call[a].seen \in Contents
    BY DEF GitToolsInv, GitToolsFunctions, Calls
<1>4. GitToolsFunctions'
    BY <1>1, <1>2, <1>3, SpoilIsCall DEF GitToolsInv, GitToolsFunctions
<1>5. CallNotNewer(NoCall) /\ CallIsStaged(NoCall)
    BY NoCallIsCall, NotNewerSelf DEF CallNotNewer, CallIsStaged, NoCall, GitToolsInv, GitToolsFunctions
<1>6. CASE call' = Spoil(n) /\ LostUpdate
    BY <1>1, <1>4, <1>5, <1>6, NoCallIsCall, LostUpdateKeeps DEF GitToolsInv, WorkIsNewest
<1>7. CASE /\ index = call[a].base /\ call' = n
           /\ voided' = IF call[a].spoiled THEN voided \cup {a} ELSE voided \ {a}
  <2>1. WorkIsNewest'
    BY <1>1, <1>2, <1>5, <1>7 DEF GitToolsInv, WorkIsNewest, CallNotNewer, NotNewer
  <2>2. tip' = index
    BY <1>1, <1>7 DEF GitToolsInv, WorkIsNewest, CallNotNewer
  <2>3. \A b \in Agents : CallIsStaged(call[b])'
    BY <1>1, <1>2, <1>5, <1>7 DEF GitToolsInv, IndexCovers, CallIsStaged, OwnIndex
  <2>4. ASSUME NEW b \in Agents, b \notin voided' PROVE NotNewer(held'[b], index)
    <3>0. call[a].todo = {}
      BY <1>1 DEF GitToolsInv, WorkIsNewest, CallNotNewer
    <3>1. CASE b = a /\ ~call[a].spoiled
      BY <1>1, <2>2, <3>0, <3>1 DEF GitToolsInv, GitToolsFunctions, IndexCovers, CallIsStaged,
         OwnIndex, NotNewer
    <3>2. CASE b # a
      BY <1>1, <1>7, <2>4, <3>2 DEF GitToolsInv, GitToolsFunctions, IndexCovers
    <3> QED
      BY <1>7, <2>4, <3>1, <3>2
  <2>5. \A b \in Agents : held'[b] \in Contents
    BY <1>4 DEF GitToolsFunctions
  <2>6. IndexCovers'
    BY <1>1, <2>2, <2>3, <2>4, <2>5 DEF IndexCovers, NotNewer, Covers
  <2> QED
    BY <1>4, <2>1, <2>6 DEF GitToolsInv
<1> QED
    BY <1>1, <1>6, <1>7

(* The invariant of the git tools, for any agents, files and branches. *)
THEOREM GitToolsInvariant == GitToolsSpec => []GitToolsInv
<1>1. GitToolsInit => GitToolsInv
  <2> SUFFICES ASSUME GitToolsInit PROVE GitToolsInv
    OBVIOUS
  <2>1. GitToolsFunctions
    BY NoCallIsCall DEF GitToolsInit, GitToolsFunctions, Nothing, Contents
  <2>2. WorkIsNewest /\ IndexCovers
    BY <2>1, NoCallIsCall DEF GitToolsInit, WorkIsNewest, IndexCovers, CallNotNewer, CallIsStaged,
       NotNewer, Covers, Same, Age, Nothing
  <2> QED
    BY <2>1, <2>2 DEF GitToolsInv
<1>2. GitToolsInv /\ [GitToolsNext]_gitToolVars => GitToolsInv'
  <2> SUFFICES ASSUME GitToolsInv, [GitToolsNext]_gitToolVars PROVE GitToolsInv'
    OBVIOUS
  <2>1. ASSUME NEW a \in Agents, CommitFails(a) PROVE GitToolsInv'
    BY <2>1, CallEndsKeeps DEF CommitFails
  <2>2. CASE UNCHANGED gitToolVars \/ \E a \in Agents : GitPush(a)
    BY <2>2 DEF gitToolVars, GitPush, Push, GitToolsInv, GitToolsFunctions, WorkIsNewest, IndexCovers,
       CallNotNewer, CallIsStaged, OwnIndex
  <2> QED
    BY <2>1, <2>2, FileWrittenKeeps, CommitStatusKeeps, AddReadsKeeps, AddFileKeeps, AddWritesKeeps,
       CommitReadsKeeps, CommitMadeKeeps DEF GitToolsNext
<1> QED
    BY <1>1, <1>2, PTL DEF GitToolsSpec

(* Agents that stage, commit and write in one clone: what GitCommit reported *)
(* of each file, or a later content, is in the branch, for every report that *)
(* was not made before go-git lost an update (client.go:194).                *)
THEOREM CommitsAreKept == GitToolsSpec => []CommittedWrites
<1>1. GitToolsInv => CommittedWrites
    BY DEF GitToolsInv, IndexCovers, CommittedWrites
<1> QED
    BY <1>1, GitToolsInvariant, PTL

-----------------------------------------------------------------------------
(* The ReAct loop.                                                           *)

(* The messages of a role are finitely many; the prompt has neither answers  *)
(* nor results.                                                              *)
LEMMA RolesFinite ==
  ASSUME NEW q \in Seq(Roles), NEW r
  PROVE  /\ IsFiniteSet(InRole(q, r)) /\ Cardinality(InRole(q, r)) \in Nat
         /\ InRole(q, r) \subseteq 1 .. Len(q) /\ Len(q) \in Nat
<1>1. InRole(q, r) \in SUBSET (1 .. Len(q)) /\ Len(q) \in Nat
    BY DEF InRole
<1>2. IsFiniteSet(1 .. Len(q))
    BY <1>1, FS_Interval
<1>3. IsFiniteSet(InRole(q, r))
    BY <1>1, <1>2, FS_Subset
<1> QED
    BY <1>1, <1>3, FS_CardinalityType

(* Appending a message adds it to its role and to no other. *)
LEMMA AppendCounts ==
  ASSUME NEW q \in Seq(Roles), NEW x \in Roles
  PROVE  /\ Append(q, x) \in Seq(Roles) /\ Append(q, x) # <<>>
         /\ InRole(Append(q, x), x) = InRole(q, x) \cup {Len(q) + 1}
         /\ Cardinality(InRole(Append(q, x), x)) = Cardinality(InRole(q, x)) + 1
         /\ \A r : r # x => InRole(Append(q, x), r) = InRole(q, r)
<1>1. /\ InRole(Append(q, x), x) = InRole(q, x) \cup {Len(q) + 1}
      /\ \A r : r # x => InRole(Append(q, x), r) = InRole(q, r)
    BY DEF InRole
<1>2. Len(q) + 1 \notin InRole(q, x)
    BY RolesFinite
<1>3. Cardinality(InRole(q, x) \cup {Len(q) + 1}) = Cardinality(InRole(q, x)) + 1
    BY <1>2, RolesFinite, FS_AddElement
<1>4. Append(q, x) \in Seq(Roles) /\ Len(Append(q, x)) = Len(q) + 1 /\ Len(q) \in Nat
    OBVIOUS
<1>5. Append(q, x) # <<>>
    BY <1>4
<1> QED
    BY <1>1, <1>3, <1>4, <1>5

(* The prompt, and no conversation, have neither answers nor results. *)
LEMMA PromptCounts ==
  /\ Prompt \in Seq(Roles) /\ Prompt # <<>>
  /\ \A r \in {"assistant", "tool"} : InRole(Prompt, r) = {} /\ InRole(<<>>, r) = {}
  /\ Cardinality({}) = 0
<1>1. Prompt \in Seq(Roles) /\ Prompt # <<>>
    BY DEF Prompt, Roles
<1>2. \A r \in {"assistant", "tool"} : InRole(Prompt, r) = {} /\ InRole(<<>>, r) = {}
    BY DEF Prompt, InRole
<1> QED
    BY <1>1, <1>2, FS_EmptySet

(* RunAll starts the agents that are in the pool. *)
LEMMA RunAllStartsKeeps == ASSUME ReActInv, RunAllStarts PROVE ReActInv'
<1> USE DEF RunAllStarts
<1>1. ReActFunctions'
    BY PromptCounts DEF ReActInv, ReActFunctions
<1>2. RestingInv'
    BY DEF ReActInv, ReActFunctions, RestingInv
<1>3. LoopInv' /\ ReportedInv'
  <2>1. \A a \in ReActAgents : /\ apc[a] = "idle" /\ messages[a] = <<>> /\ iteration[a] = 0 /\ answered[a] = 0
                               /\ executed[a] = 0
    BY DEF ReActInv, RestingInv
  <2>2. \A a \in ReActAgents : /\ messages'[a] \in {Prompt, <<>>} /\ (apc'[a] = "loop" => messages'[a] = Prompt)
                               /\ apc'[a] # "tool" /\ (apc'[a] = "ended" => messages'[a] = <<>>)
                               /\ iteration'[a] = 0 /\ answered'[a] = 0 /\ executed'[a] = 0
    BY <2>1 DEF ReActInv, ReActFunctions
  <2>3. \A a \in ReActAgents : /\ InRole(messages'[a], "tool") = {} /\ InRole(messages'[a], "assistant") = {}
                               /\ Cardinality(InRole(messages'[a], "tool")) = 0
                               /\ Cardinality(InRole(messages'[a], "assistant")) = 0
    BY <2>2, PromptCounts
  <2> HIDE DEF RunAllStarts
  <2>4. ReportedInv'
    BY <2>3 DEF ReportedInv
  <2>5. LoopInv'
    <3>1. 0 <= AgentIterations
      BY ReActAssumption
    <3> QED
      BY <2>2, <2>3, <3>1, Zenon DEF LoopInv
  <2> QED
    BY <2>4, <2>5
<1> QED
    BY <1>1, <1>2, <1>3 DEF ReActInv

(* The loop ends without an answer of the LLM. *)
LEMMA StopsKeep ==
  ASSUME ReActInv, NEW a \in ReActAgents, OutOfIterations(a) \/ LoopStops(a) \/ GenerateFails(a)
  PROVE  ReActInv'
<1>1. PICK reason \in {"max_iterations", "cancelled", "timeout", "error"}, err \in BOOLEAN :
        /\ apc[a] = "loop" /\ Stop(a, reason, err)
        /\ UNCHANGED <<poolVars, iteration, messages, action, answered, executed, worldVars>>
    BY DEF OutOfIterations, LoopStops, GenerateFails, Continues
<1>2. ReActFunctions'
    BY <1>1 DEF ReActInv, ReActFunctions, Stop, poolVars
<1>3. RestingInv'
    BY <1>1 DEF ReActInv, ReActFunctions, RestingInv, Stop, poolVars
<1>4. LoopInv' /\ ReportedInv'
    BY <1>1 DEF ReActInv, ReActFunctions, RestingInv, LoopInv, ReportedInv, Stop, poolVars
<1> QED
    BY <1>2, <1>3, <1>4 DEF ReActInv

(* A final answer: it is not shown to the LLM again. *)
LEMMA GenerateFinalKeeps ==
  ASSUME ReActInv, NEW a \in ReActAgents, NEW t \in LLMTexts, GenerateFinal(a, t)
  PROVE  ReActInv'
<1> USE ReActAssumption DEF GenerateFinal, Continues, Stop, poolVars
<1>1. ReActFunctions'
    BY DEF ReActInv, ReActFunctions
<1>2. RestingInv'
    BY DEF ReActInv, ReActFunctions, RestingInv
<1>3. LoopInv' /\ ReportedInv'
    BY DEF ReActInv, ReActFunctions, LoopInv, ReportedInv
<1> QED
    BY <1>1, <1>2, <1>3 DEF ReActInv

(* An answer that names a tool, known or not. *)
LEMMA GenerateActionKeeps ==
  ASSUME ReActInv, NEW a \in ReActAgents, NEW t \in LLMTexts, GenerateAction(a, t)
  PROVE  ReActInv'
<1> USE ReActAssumption DEF GenerateAction, Continues, Stop, poolVars
<1>1. ReActFunctions'
  <2>1. apc' \in [ReActAgents -> {"idle", "loop", "tool", "ended"}]
    BY DEF ReActInv, ReActFunctions
  <2>2. stopReason' = stopReason \/ stopReason' = [stopReason EXCEPT ![a] = "error"]
    OBVIOUS
  <2>3. answered' \in [ReActAgents -> Nat]
    BY DEF ReActInv, ReActFunctions
  <2>4. UNCHANGED <<pool, iteration, messages, executed>>
    OBVIOUS
  <2> HIDE DEF GenerateAction
  <2> QED
    BY <2>1, <2>2, <2>3, <2>4 DEF ReActInv, ReActFunctions
<1>2. RestingInv'
    BY DEF ReActInv, ReActFunctions, RestingInv
<1>3. LoopInv' /\ ReportedInv'
    BY DEF ReActInv, ReActFunctions, RestingInv, LoopInv, ReportedInv
<1> QED
    BY <1>1, <1>2, <1>3 DEF ReActInv

(* A thought is shown, and the loop goes on. *)
LEMMA GenerateThoughtKeeps ==
  ASSUME ReActInv, NEW a \in ReActAgents, NEW t \in LLMTexts, GenerateThought(a, t)
  PROVE  ReActInv'
<1> USE ReActAssumption DEF GenerateThought, Continues, poolVars
<1> DEFINE q == messages[a]
<1>1. q \in Seq(Roles) /\ Append(q, "assistant") \in Seq(Roles) /\ Append(q, "assistant") # <<>>
      /\ Cardinality(InRole(Append(q, "assistant"), "assistant")) = Cardinality(InRole(q, "assistant")) + 1
      /\ InRole(Append(q, "assistant"), "tool") = InRole(q, "tool")
    BY AppendCounts DEF ReActInv, ReActFunctions, Roles
<1>2. ReActFunctions'
    BY <1>1 DEF ReActInv, ReActFunctions
<1>3. RestingInv'
    BY <1>1 DEF ReActInv, ReActFunctions, RestingInv
<1>4. LoopInv'
    BY <1>1 DEF ReActInv, ReActFunctions, LoopInv
<1>5. ReportedInv'
    BY <1>1, RolesFinite DEF ReActInv, ReActFunctions, ReportedInv
<1> QED
    BY <1>2, <1>3, <1>4, <1>5 DEF ReActInv

(* The tool of the final answer ends the run. *)
LEMMA ToolFinalKeeps == ASSUME ReActInv, NEW a \in ReActAgents, ToolFinal(a) PROVE ReActInv'
<1> USE ReActAssumption DEF ToolFinal, Stop, poolVars
<1>1. ReActFunctions'
    BY DEF ReActInv, ReActFunctions, LoopInv
<1>2. RestingInv'
    BY DEF ReActInv, ReActFunctions, RestingInv
<1>3. LoopInv'
  <2>1. \A b \in ReActAgents : Cardinality(InRole(messages[b], "assistant")) \in Nat
    BY RolesFinite DEF ReActInv, ReActFunctions
  <2> QED
    BY <2>1 DEF ReActInv, ReActFunctions, LoopInv
<1>4. ReportedInv'
    BY DEF ReActInv, ReportedInv
<1> QED
    BY <1>1, <1>2, <1>3, <1>4 DEF ReActInv

(* The call and its result are shown together, also when the tool failed. *)
LEMMA ToolReturnsKeeps ==
  ASSUME ReActInv, NEW a \in ReActAgents, NEW ok \in BOOLEAN, ToolReturns(a, ok)
  PROVE  ReActInv'
<1> USE ReActAssumption DEF ToolReturns, poolVars
<1> DEFINE q == messages[a]
           q1 == Append(q, "assistant")
           q2 == Append(q1, "tool")
<1>1. q \in Seq(Roles) /\ Observed(a, ok) = q2
    BY DEF Observed, ReActInv, ReActFunctions
<1>2. /\ q1 \in Seq(Roles) /\ Cardinality(InRole(q1, "assistant")) = Cardinality(InRole(q, "assistant")) + 1
      /\ InRole(q1, "tool") = InRole(q, "tool")
    BY <1>1, AppendCounts DEF Roles
<1>3. /\ q2 \in Seq(Roles) /\ q2 # <<>> /\ InRole(q2, "assistant") = InRole(q1, "assistant")
      /\ InRole(q2, "tool") = InRole(q, "tool") \cup {Len(q) + 2}
      /\ Cardinality(InRole(q2, "tool")) = Cardinality(InRole(q, "tool")) + 1
  <2> HIDE DEF q1
  <2>1. Len(q1) = Len(q) + 1 /\ Len(q) \in Nat
    BY <1>1 DEF q1
  <2>2. /\ q2 \in Seq(Roles) /\ q2 # <<>> /\ InRole(q2, "assistant") = InRole(q1, "assistant")
        /\ InRole(q2, "tool") = InRole(q1, "tool") \cup {Len(q1) + 1}
        /\ Cardinality(InRole(q2, "tool")) = Cardinality(InRole(q1, "tool")) + 1
    BY <1>2, AppendCounts DEF Roles
  <2> QED
    BY <1>2, <2>1, <2>2
<1>4. messages' = [messages EXCEPT ![a] = q2]
    BY <1>1
<1> HIDE DEF q2
<1>5. ReActFunctions'
    BY <1>3, <1>4 DEF ReActInv, ReActFunctions, LoopInv
<1>6. RestingInv'
    BY <1>3, <1>4 DEF ReActInv, ReActFunctions, RestingInv
<1>7. LoopInv'
    BY <1>2, <1>3, <1>4 DEF ReActInv, ReActFunctions, LoopInv
<1>8. ReportedInv'
  <2>1. \A i \in InRole(q2, "tool") : i > 1 /\ q2[i - 1] = "assistant"
    <3>1. q2[Len(q) + 1] = "assistant" /\ \A i \in 1 .. Len(q) : q2[i] = q[i]
      BY <1>1 DEF q2
    <3>2. Len(q) \in Nat /\ InRole(q, "tool") \subseteq 1 .. Len(q)
      BY <1>1, RolesFinite
    <3>3. \A i \in InRole(q, "tool") : i > 1 /\ q[i - 1] = "assistant"
      BY DEF ReActInv, ReportedInv
    <3>4. \A i \in InRole(q, "tool") : i - 1 \in 1 .. Len(q)
      BY <3>2, <3>3
    <3>5. Len(q) + 2 > 1 /\ q2[Len(q) + 2 - 1] = "assistant"
      BY <3>1, <3>2
    <3> QED
      BY <1>3, <3>1, <3>3, <3>4, <3>5
  <2> QED
    BY <2>1, <1>4 DEF ReActInv, ReActFunctions, ReportedInv
<1> QED
    BY <1>5, <1>6, <1>7, <1>8 DEF ReActInv

(* The steps of the pool, the registry and the clock touch no conversation. *)
LEMMA QuietKeeps ==
  ASSUME ReActInv, pool' \subseteq ReActAgents, runAll' \in {"new", "counted"} => runAll \in {"new", "counted"},
         UNCHANGED <<apc, iteration, messages, answered, executed, stopReason, hasAnswer>>
  PROVE  ReActInv'
    BY DEF ReActInv, ReActFunctions, RestingInv, LoopInv, ReportedInv

(* The invariant of the ReAct loop, for any agents, tools and iterations. *)
THEOREM ReActInvariant == ReActSpec => []ReActInv
<1>1. ReActInit => ReActInv
  <2> SUFFICES ASSUME ReActInit PROVE ReActInv
    OBVIOUS
  <2>1. ReActFunctions
    <3>1. pool \subseteq ReActAgents
      BY DEF ReActInit
    <3>2. messages \in [ReActAgents -> Seq(Roles)]
      <4>1. <<>> \in Seq(Roles)
        OBVIOUS
      <4> QED
        BY <4>1 DEF ReActInit
    <3>3. iteration \in [ReActAgents -> 0 .. AgentIterations]
      <4>1. 0 \in 0 .. AgentIterations
        BY ReActAssumption
      <4> QED
        BY <4>1 DEF ReActInit
    <3>4. answered \in [ReActAgents -> Nat] /\ executed \in [ReActAgents -> Nat]
      BY DEF ReActInit
    <3> QED
      BY <3>1, <3>2, <3>3, <3>4 DEF ReActInit, ReActFunctions
  <2>2. RestingInv
    BY DEF ReActInit, RestingInv
  <2>3. LoopInv /\ ReportedInv
    <3>1. \A a \in ReActAgents : /\ messages[a] = <<>> /\ apc[a] = "idle" /\ answered[a] = 0 /\ executed[a] = 0
                                 /\ InRole(messages[a], "tool") = {}
                                 /\ Cardinality(InRole(messages[a], "tool")) = 0
      BY PromptCounts DEF ReActInit
    <3> QED
      BY <3>1, ReActAssumption DEF LoopInv, ReportedInv
  <2> QED
    BY <2>1, <2>2, <2>3 DEF ReActInv
<1>2. ReActInv /\ [ReActNext]_reactVars => ReActInv'
  <2> SUFFICES ASSUME ReActInv, [ReActNext]_reactVars PROVE ReActInv'
    OBVIOUS
  <2>1. ASSUME NEW a \in ReActAgents, AgentSteps(a) PROVE ReActInv'
    BY <2>1, StopsKeep, ToolFinalKeeps, GenerateFinalKeeps, GenerateActionKeeps, GenerateThoughtKeeps,
       ToolReturnsKeeps DEF AgentSteps
  <2>2. ASSUME NEW a \in ReActAgents, Add(a) \/ RunAllPanics(a) PROVE ReActInv'
    BY <2>2, QuietKeeps DEF Add, RunAllPanics, ReActInv, ReActFunctions
  <2>3. CASE RunAllCounts \/ RunAllReturns
    BY <2>3, QuietKeeps DEF RunAllCounts, RunAllReturns, ReActInv, ReActFunctions
  <2>4. CASE Clear \/ CancelContext \/ TimePasses \/ UNCHANGED reactVars
    BY <2>4, QuietKeeps DEF Clear, CancelContext, TimePasses, reactVars, poolVars, ReActInv,
       ReActFunctions
  <2>5. ASSUME NEW n \in ToolNames, Register(n) PROVE ReActInv'
    BY <2>5, QuietKeeps DEF Register, poolVars, ReActInv, ReActFunctions
  <2> QED
    BY <2>1, <2>2, <2>3, <2>4, <2>5, RunAllStartsKeeps DEF ReActNext, RunAllSteps
<1> QED
    BY <1>1, <1>2, PTL DEF ReActSpec

(* What the LLM is shown is what happened, in every run of every agent       *)
(* (react.go:248).                                                           *)
THEOREM ConversationsAreSound == ReActSpec => []ConversationSound
<1>1. ReActInv => ConversationSound
  <2> SUFFICES ASSUME ReActInv, NEW a \in ReActAgents
               PROVE  /\ Cardinality(Tools(a)) = executed[a]
                      /\ \A i \in Tools(a) : messages[a][i - 1] = "assistant"
                      /\ messages[a] # <<>> =>
                            Cardinality({i \in DOMAIN messages[a] : messages[a][i] = "assistant"})
                              = IF apc[a] = "tool" \/ (apc[a] = "ended" /\ iteration[a] < answered[a])
                                THEN answered[a] - 1
                                ELSE IF a \in hasAnswer THEN answered[a] - 1 ELSE answered[a]
                      /\ answered[a] <= AgentIterations
                      /\ (a \in hasAnswer) <=> (stopReason[a] = "final_answer")
    BY DEF ConversationSound
  <2>1. Tools(a) = InRole(messages[a], "tool")
    BY DEF Tools, InRole
  <2>2. {i \in DOMAIN messages[a] : messages[a][i] = "assistant"} = InRole(messages[a], "assistant")
    BY DEF InRole
  <2>3. \A i \in Tools(a) : messages[a][i - 1] = "assistant"
    BY <2>1 DEF ReActInv, ReportedInv
  <2>4. (a \in hasAnswer) <=> (stopReason[a] = "final_answer")
    BY DEF ReActInv, RestingInv
  <2>5. messages[a] # <<>> =>
          Cardinality(InRole(messages[a], "assistant"))
            = IF apc[a] = "tool" \/ (apc[a] = "ended" /\ iteration[a] < answered[a])
              THEN answered[a] - 1
              ELSE IF a \in hasAnswer THEN answered[a] - 1 ELSE answered[a]
    BY ReActAssumption DEF ReActInv, ReActFunctions, RestingInv, LoopInv
  <2>6. Cardinality(Tools(a)) = executed[a] /\ answered[a] <= AgentIterations
    BY <2>1 DEF ReActInv, LoopInv
  <2> QED
    BY <2>2, <2>3, <2>4, <2>5, <2>6
<1> QED
    BY <1>1, ReActInvariant, PTL
-----------------------------------------------------------------------------
(* The contexts of a task.                                                   *)

(* How many of a set of places come before one. *)
Rank(places) == [i \in places |-> Cardinality(Earlier(places, i))]

(* Places have distinct ranks, from 0 on without a gap. *)
LEMMA RanksAreInjective ==
  ASSUME NEW P \in SUBSET Int, IsFiniteSet(P)
  PROVE  Rank(P) \in Injection(P, 0 .. Cardinality(P) - 1)
<1>1. ASSUME NEW i \in P
      PROVE  /\ IsFiniteSet(Earlier(P, i)) /\ Cardinality(Earlier(P, i)) \in Nat
             /\ Cardinality(Earlier(P, i)) < Cardinality(P)
  <2>1. Earlier(P, i) \in SUBSET P /\ i \notin Earlier(P, i) /\ i \in Int
    BY DEF Earlier
  <2>2. IsFiniteSet(Earlier(P, i)) /\ Cardinality(Earlier(P, i)) <= Cardinality(P)
        /\ (Cardinality(P) = Cardinality(Earlier(P, i)) => P = Earlier(P, i))
    BY <2>1, FS_Subset
  <2>3. Cardinality(P) \in Nat /\ Cardinality(Earlier(P, i)) \in Nat
    BY <2>2, FS_CardinalityType
  <2> QED
    BY <2>1, <2>2, <2>3
<1>2. Cardinality(P) \in Nat
    BY FS_CardinalityType
<1>3. Rank(P) \in [P -> 0 .. Cardinality(P) - 1]
  <2>1. \A i \in P : Cardinality(Earlier(P, i)) \in 0 .. Cardinality(P) - 1
    BY <1>1, <1>2
  <2> QED
    BY <2>1 DEF Rank
<1>4. ASSUME NEW i \in P, NEW j \in P, i < j PROVE Rank(P)[i] < Rank(P)[j]
  <2>1. Earlier(P, i) \in SUBSET Earlier(P, j) /\ i \in Earlier(P, j) /\ i \notin Earlier(P, i)
    <3>1. i \in Int /\ j \in Int /\ \A x \in P : x \in Int
      OBVIOUS
    <3>2. \A x \in P : x < i => x < j
      BY <1>4, <3>1
    <3>3. Earlier(P, i) \subseteq Earlier(P, j)
      BY <3>2 DEF Earlier
    <3>4. ~(i < i)
      BY <3>1
    <3> QED
      BY <1>4, <3>3, <3>4 DEF Earlier
  <2>2. /\ Cardinality(Earlier(P, i)) <= Cardinality(Earlier(P, j))
        /\ Cardinality(Earlier(P, j)) = Cardinality(Earlier(P, i)) => Earlier(P, j) = Earlier(P, i)
    BY <1>1, <2>1, FS_Subset
  <2>3. Cardinality(Earlier(P, i)) < Cardinality(Earlier(P, j))
    BY <1>1, <2>1, <2>2
  <2> QED
    BY <2>3 DEF Rank
<1>5. \A i, j \in P : i # j => Rank(P)[i] # Rank(P)[j]
  <2> SUFFICES ASSUME NEW i \in P, NEW j \in P, i # j PROVE Rank(P)[i] # Rank(P)[j]
    OBVIOUS
  <2>1. Rank(P)[i] \in Int /\ Rank(P)[j] \in Int
    BY <1>2, <1>3
  <2>2. i < j \/ j < i
    OBVIOUS
  <2> QED
    BY <1>4, <2>1, <2>2
<1> QED
    BY <1>3, <1>5 DEF Injection, IsInjective

(* A place for every rank. *)
LEMMA RanksAreOnto ==
  ASSUME NEW P \in SUBSET Int, IsFiniteSet(P)
  PROVE  /\ Cardinality(P) \in Nat
         /\ \A i \in P : Cardinality(Earlier(P, i)) \in 0 .. Cardinality(P) - 1
         /\ \A i, j \in P : Cardinality(Earlier(P, i)) = Cardinality(Earlier(P, j)) => i = j
         /\ \A k \in 1 .. Cardinality(P) : \E i \in P : Cardinality(Earlier(P, i)) = k - 1
<1> DEFINE n == Cardinality(P)
           T == 0 .. n - 1
<1>1. n \in Nat
    BY FS_CardinalityType
<1>2. Rank(P) \in Injection(P, T)
    BY RanksAreInjective
<1>3. IsFiniteSet(T) /\ Cardinality(T) = n
    BY <1>1, FS_Interval
<1>4. Rank(P) \in Surjection(P, T)
  <2> HIDE DEF T
  <2> QED
    BY <1>2, <1>3, FS_Injection
<1>5. \A i \in P : Rank(P)[i] = Cardinality(Earlier(P, i))
    BY DEF Rank
<1>6. \A t \in T : \E i \in P : Rank(P)[i] = t
    BY <1>4 DEF Surjection
<1>7. \A k \in 1 .. n : k - 1 \in T
    BY <1>1
<1>8. \A i \in P : Rank(P)[i] \in T
    BY <1>2 DEF Injection
<1>9. \A i, j \in P : Rank(P)[i] = Rank(P)[j] => i = j
    BY <1>2, Zenon DEF Injection, IsInjective
<1> QED
    BY <1>1, <1>5, <1>6, <1>7, <1>8, <1>9

(* The elements at some places of a sequence: a sequence of those. *)
LEMMA PlacesGiveSequence ==
  ASSUME NEW S, NEW seq \in Seq(S), NEW P \in SUBSET (DOMAIN seq)
  PROVE  /\ AtPlaces(seq, P) \in Seq(S)
         /\ ToSet(AtPlaces(seq, P)) = {seq[i] : i \in P}
<1>1. P \in SUBSET Int /\ IsFiniteSet(P) /\ P \subseteq 1 .. Len(seq)
  <2>1. DOMAIN seq = 1 .. Len(seq) /\ Len(seq) \in Nat
    OBVIOUS
  <2>2. IsFiniteSet(1 .. Len(seq))
    BY <2>1, FS_Interval
  <2> QED
    BY <2>1, <2>2, FS_Subset
<1> DEFINE at(k) == CHOOSE i \in P : Cardinality(Earlier(P, i)) = k - 1
           n == Cardinality(P)
<1>2. n \in Nat
    BY <1>1, RanksAreOnto
<1>3. \A k \in 1 .. n : at(k) \in P /\ Cardinality(Earlier(P, at(k))) = k - 1
  <2> TAKE k \in 1 .. n
  <2>1. \E i \in P : Cardinality(Earlier(P, i)) = k - 1
    BY <1>1, RanksAreOnto
  <2> QED
    BY <2>1
<1>4. \A i \in P : \E k \in 1 .. n : at(k) = i
  <2> TAKE i \in P
  <2> DEFINE k == Cardinality(Earlier(P, i)) + 1
  <2>1. k \in 1 .. n /\ Cardinality(Earlier(P, i)) = k - 1
    <3>1. Cardinality(Earlier(P, i)) \in 0 .. n - 1
      BY <1>1, RanksAreOnto
    <3> QED
      BY <1>2, <3>1
  <2> HIDE DEF k
  <2>2. at(k) \in P /\ Cardinality(Earlier(P, at(k))) = Cardinality(Earlier(P, i))
    BY <1>3, <2>1
  <2> HIDE DEF at
  <2>3. at(k) = i
    BY <1>1, <2>2, RanksAreOnto
  <2> QED
    BY <2>1, <2>3
<1>5. AtPlaces(seq, P) = [k \in 1 .. n |-> seq[at(k)]]
    BY DEF AtPlaces
<1> HIDE DEF at, n
<1>6. \A k \in 1 .. n : seq[at(k)] \in S
    BY <1>1, <1>3
<1>7. AtPlaces(seq, P) \in Seq(S)
    BY <1>2, <1>5, <1>6
<1>8. ToSet(AtPlaces(seq, P)) = {AtPlaces(seq, P)[k] : k \in 1 .. n}
  <2>1. DOMAIN AtPlaces(seq, P) = 1 .. n
    BY <1>5
  <2> QED
    BY <2>1 DEF ToSet
<1>9. \A k \in 1 .. n : AtPlaces(seq, P)[k] = seq[at(k)]
    BY <1>5
<1> QED
    BY <1>3, <1>4, <1>7, <1>8, <1>9

(* A context whose cost may not be counted yet. *)
Shaped(tc) ==
    DOMAIN tc = DOMAIN NewTaskContext /\ tc.messages \in Seq(Messages) /\ tc.constraints \in Seq(Constraints)

(* A compression of a context: counted, and with every hard constraint. *)
Compresses(tc, to) == Counted(to) /\ HardIds(tc) \subseteq HardIds(to)

(* Counting the tokens anew changes nothing else. *)
LEMMA Recalculated ==
  ASSUME NEW tc, Shaped(tc)
  PROVE  Counted(RecalculateTokens(tc)) /\ RecalculateTokens(tc).constraints = tc.constraints
    BY DEF Shaped, Counted, RecalculateTokens, NewTaskContext

(* Contexts with the same constraints have the same hard ones. *)
LEMMA SameHardIds ==
  ASSUME NEW tc, NEW to, to.constraints = tc.constraints
  PROVE  HardIds(tc) = HardIds(to)
    BY DEF HardIds

(* The messages that a rule leaves are messages. *)
LEMMA MessagesCompressed ==
  ASSUME NEW tc, Counted(tc), NEW keep
  PROVE  Compresses(tc, CompressMessages(tc, keep))
<1> DEFINE ids == ToRemove(tc.messages, Len(tc.messages) - keep, {m \in ToSet(tc.messages) : MayGoMessage(m)})
           rest == WithoutItems(tc.messages, ids)
           to == [tc EXCEPT !.messages = rest]
<1>1. CASE Len(tc.messages) <= keep
    BY <1>1 DEF CompressMessages, Compresses
<1>2. CASE ~(Len(tc.messages) <= keep)
  <2>1. CompressMessages(tc, keep) = RecalculateTokens(to)
    BY <1>2 DEF CompressMessages
  <2> HIDE DEF ids
  <2>2. rest \in Seq(Messages)
    BY PlacesGiveSequence DEF WithoutItems, Counted
  <2> HIDE DEF rest
  <2>3. Shaped(to) /\ to.constraints = tc.constraints
    BY <2>2 DEF Counted, Shaped, NewTaskContext
  <2> HIDE DEF to
  <2> QED
    BY <2>1, <2>3, Recalculated, SameHardIds DEF Compresses
<1> QED
    BY <1>1, <1>2

(* Nothing but the file states changes with them. *)
LEMMA FilesCompressed ==
  ASSUME NEW tc, Counted(tc), NEW keep
  PROVE  Compresses(tc, CompressFileStates(tc, keep))
<1> DEFINE ids == ToRemove(tc.files, Len(tc.files) - keep, {f \in ToSet(tc.files) : MayGoFile(f)})
           rest == WithoutItems(tc.files, ids)
           to == [tc EXCEPT !.files = rest]
<1>1. CompressFileStates(tc, keep) = tc \/ CompressFileStates(tc, keep) = to
    BY DEF CompressFileStates
<1> HIDE DEF rest
<1>2. Counted(to) /\ to.constraints = tc.constraints
    BY DEF Counted, NewTaskContext
<1> HIDE DEF to
<1> QED
    BY <1>1, <1>2, SameHardIds DEF Compresses

(* The hard constraints before any others. *)
LEMMA HardStay ==
  ASSUME NEW tc, Counted(tc), NEW rest \in Seq(Constraints)
  PROVE  Compresses(tc, [tc EXCEPT !.constraints = Hard(tc.constraints) \o rest])
<1> DEFINE seq == tc.constraints
           P == {i \in DOMAIN seq : IsHard(seq[i])}
           hard == Hard(seq)
           all == hard \o rest
           to == [tc EXCEPT !.constraints = all]
<1>1. seq \in Seq(Constraints)
    BY DEF Counted
<1>2. hard \in Seq(Constraints) /\ ToSet(hard) = {seq[i] : i \in P}
    BY <1>1, PlacesGiveSequence DEF Hard
<1> HIDE DEF hard
<1>3. all \in Seq(Constraints) /\ \A i \in DOMAIN hard : i \in DOMAIN all /\ all[i] = hard[i]
    BY <1>2
<1> HIDE DEF all
<1>4. Counted(to) /\ to.constraints = all
    BY <1>3 DEF Counted, NewTaskContext
<1> HIDE DEF to
<1>5. \A k \in ToSet(seq) : IsHard(k) => k \in ToSet(hard)
    BY <1>2 DEF ToSet
<1>6. ToSet(hard) \subseteq ToSet(all)
    BY <1>3 DEF ToSet
<1>7. HardIds(tc) \subseteq HardIds(to)
  <2>1. {k \in ToSet(seq) : IsHard(k)} \subseteq {k \in ToSet(to.constraints) : IsHard(k)}
    BY <1>4, <1>5, <1>6
  <2> QED
    BY <2>1 DEF HardIds
<1>8. [tc EXCEPT !.constraints = Hard(tc.constraints) \o rest] = to
    BY DEF to, all, hard
<1> QED
    BY <1>4, <1>7, <1>8 DEF Compresses

(* The soft constraints, and any stretch of them. *)
LEMMA SoftAreConstraints ==
  ASSUME NEW seq \in Seq(Constraints), NEW m \in Nat \ {0}, NEW n \in Nat, n <= Len(Soft(seq))
  PROVE  SubSeq(Soft(seq), m, n) \in Seq(Constraints)
<1> DEFINE soft == Soft(seq)
<1>1. soft \in Seq(Constraints)
    BY PlacesGiveSequence DEF Soft
<1> HIDE DEF soft
<1>2. SubSeq(soft, m, n) \in Seq(Constraints)
    BY <1>1 DEF soft
<1> QED
    BY <1>2 DEF soft

(* The constraints that a rule leaves. *)
LEMMA ConstraintsCompressed ==
  ASSUME NEW tc, Counted(tc), NEW percent \in Nat
  PROVE  Compresses(tc, CompressConstraints(tc, percent))
<1> DEFINE soft == Soft(tc.constraints)
           cut == (Len(soft) * percent) \div 100
           rest == SubSeq(soft, cut + 1, Len(soft))
<1>1. tc.constraints \in Seq(Constraints)
    BY DEF Counted
<1>2. soft \in Seq(Constraints)
    BY <1>1, PlacesGiveSequence DEF Soft
<1>3. Len(soft) \in Nat
    BY <1>2
<1>4. cut \in Nat
  <2>1. Len(soft) * percent \in Nat
    BY <1>3
  <2> QED
    BY <2>1
<1>5. cut + 1 \in Nat \ {0}
  <2> HIDE DEF cut
  <2> QED
    BY <1>4
<1>6. rest \in Seq(Constraints)
  <2> HIDE DEF cut
  <2> QED
    BY <1>1, <1>3, <1>5, SoftAreConstraints
<1>7. CASE soft = <<>>
    BY <1>7 DEF CompressConstraints, Compresses
<1>8. CASE soft # <<>>
  <2>1. CompressConstraints(tc, percent) = [tc EXCEPT !.constraints = Hard(tc.constraints) \o rest]
    BY <1>8 DEF CompressConstraints
  <2> HIDE DEF rest
  <2> QED
    BY <1>6, <2>1, HardStay
<1> QED
    BY <1>7, <1>8

(* One compression after another. *)
LEMMA CompressedTwice ==
  ASSUME NEW tc, NEW mid, NEW to, Compresses(tc, mid), Compresses(mid, to)
  PROVE  Compresses(tc, to)
    BY DEF Compresses

(* A compression, whatever it is asked to keep. *)
LEMMA CompressedByRule ==
  ASSUME NEW tc, Counted(tc), NEW keepMessages, NEW keepFiles, NEW percent \in Nat
  PROVE  Compresses(tc, Compress(tc, keepMessages, keepFiles, percent))
<1> DEFINE one == CompressMessages(tc, keepMessages)
           two == CompressFileStates(one, keepFiles)
           three == CompressConstraints(two, percent)
<1>1. Compresses(tc, one)
    BY MessagesCompressed
<1>2. Compresses(one, two)
    BY <1>1, FilesCompressed DEF Compresses
<1>3. Compresses(two, three)
    BY <1>2, ConstraintsCompressed DEF Compresses
<1>4. Compresses(three, RecalculateTokens(three))
  <2> HIDE DEF three
  <2>1. Shaped(three)
    BY <1>3 DEF Compresses, Counted, Shaped
  <2> QED
    BY <2>1, Recalculated, SameHardIds DEF Compresses
<1>5. Compress(tc, keepMessages, keepFiles, percent) \in {tc, RecalculateTokens(three)}
    BY DEF Compress
<1> HIDE DEF one, two, three
<1>6. Compresses(tc, tc)
    BY DEF Compresses
<1> QED
    BY <1>1, <1>2, <1>3, <1>4, <1>5, <1>6 DEF Compresses

(* A round towards the budget, and five of them. *)
LEMMA CompressedToBudget ==
  ASSUME NEW tc, Counted(tc), NEW target
  PROVE  Compresses(tc, Moderate(tc)) /\ Compresses(tc, CompressToBudget(tc, target))
<1>1. Compresses(tc, Moderate(tc))
    BY CompressedByRule DEF Moderate
<1>2. ASSUME NEW c, Compresses(tc, c) PROVE Compresses(tc, Round(c, target))
  <2>1. Compresses(c, Halved(c))
    BY <1>2, CompressedByRule DEF Halved, Compresses
  <2> QED
    BY <1>2, <2>1 DEF Round, Compresses
<1> DEFINE five == Round(Round(Round(Round(Round(Moderate(tc), target), target), target), target), target)
<1>3. Compresses(tc, five)
    BY <1>1, <1>2
<1>4. CompressToBudget(tc, target) = RecalculateTokens(five)
    BY DEF CompressToBudget
<1> HIDE DEF five
<1>5. Shaped(five)
    BY <1>3 DEF Compresses, Counted, Shaped
<1> QED
    BY <1>1, <1>3, <1>4, <1>5, Recalculated, SameHardIds DEF Compresses

(* What a summary makes of the messages is made of messages. *)
LEMMA SummariesAreMessages ==
  ASSUME NEW seq \in Seq(Messages), NEW id \in Nat, Len(seq) > SummaryRecent, NEW turns \in Summaries(seq, id)
  PROVE  turns \in Seq(Messages)
<1> DEFINE cut == Len(seq) - SummaryRecent
           older == SubSeq(seq, 1, cut)
           recent == SubSeq(seq, cut + 1, Len(seq))
           note == [id |-> id, role |-> "agent", priority |-> -1]
           kept == AtPlaces(older, {i \in DOMAIN older : older[i].role = "system" \/ older[i].priority < 5})
<1>1. cut \in Nat /\ cut <= Len(seq) /\ Len(seq) \in Nat
    BY ContextAssumption
<1>2. <<note>> \in Seq(Messages)
  <2>1. note \in Messages
    <3>1. "agent" \in MessageRoles /\ -1 \in Int
      BY DEF MessageRoles
    <3> QED
      BY <3>1 DEF Messages
  <2> HIDE DEF note
  <2> QED
    BY <2>1
<1>3. turns = <<note>> \o recent \/ turns = kept \/ turns = <<note>> \o kept
    BY DEF Summaries
<1> HIDE DEF cut, note
<1>4. older \in Seq(Messages)
    BY <1>1
<1>5. recent \in Seq(Messages)
    BY <1>1
<1> HIDE DEF older, recent
<1>6. kept \in Seq(Messages)
    BY <1>4, PlacesGiveSequence
<1> HIDE DEF kept
<1>7. <<note>> \o recent \in Seq(Messages)
    BY <1>2, <1>5
<1>8. <<note>> \o kept \in Seq(Messages)
    BY <1>2, <1>6
<1> QED
    BY <1>3, <1>6, <1>7, <1>8

(* A summary keeps the hard constraints and counts the messages anew. *)
LEMMA CompressedBySummary ==
  ASSUME NEW tc, Counted(tc), NEW turns \in Seq(Messages)
  PROVE  Compresses(tc, Summarised(tc, turns))
<1> DEFINE files == SummaryFiles(tc.files)
           constraints == SummaryConstraints(tc.constraints)
           to == [tc EXCEPT !.messages = turns, !.files = files, !.constraints = constraints]
           soft == Soft(tc.constraints)
           keep == IF Len(soft) < 2 THEN 1 ELSE Len(soft) \div 2
           rest == SubSeq(soft, 1, keep)
<1>1. Summarised(tc, turns) = RecalculateTokens(to)
    BY DEF Summarised
<1>2. tc.constraints \in Seq(Constraints)
    BY DEF Counted
<1>3. constraints = tc.constraints \/ (soft # <<>> /\ constraints = Hard(tc.constraints) \o rest)
    BY DEF SummaryConstraints
<1>4. soft # <<>> => rest \in Seq(Constraints)
  <2> SUFFICES ASSUME soft # <<>> PROVE rest \in Seq(Constraints)
    OBVIOUS
  <2>1. soft \in Seq(Constraints)
    BY <1>2, PlacesGiveSequence DEF Soft
  <2>2. Len(soft) \in Nat \ {0}
    <3> HIDE DEF soft
    <3> QED
      BY <2>1
  <2>3. keep \in Nat /\ keep <= Len(soft)
    BY <2>2
  <2> HIDE DEF keep
  <2> QED
    BY <1>2, <2>3, SoftAreConstraints
<1> HIDE DEF files, constraints, rest, soft
<1>5. Shaped([tc EXCEPT !.constraints = constraints]) /\ HardIds(tc) \subseteq HardIds([tc EXCEPT !.constraints = constraints])
  <2>1. CASE constraints = tc.constraints
    <3>1. DOMAIN tc = DOMAIN NewTaskContext
      BY DEF Counted
    <3> DEFINE c == [tc EXCEPT !.constraints = constraints]
    <3>2. Shaped(c) /\ c.constraints = tc.constraints
      BY <2>1, <3>1 DEF Counted, Shaped, NewTaskContext
    <3> HIDE DEF c
    <3>3. HardIds(tc) = HardIds(c)
      BY <3>2, SameHardIds
    <3> QED
      BY <3>2, <3>3 DEF c
  <2>2. CASE soft # <<>> /\ constraints = Hard(tc.constraints) \o rest
    <3>1. Compresses(tc, [tc EXCEPT !.constraints = Hard(tc.constraints) \o rest])
      BY <1>4, <2>2, HardStay
    <3>2. Compresses(tc, [tc EXCEPT !.constraints = constraints])
      BY <2>2, <3>1, Zenon
    <3> QED
      BY <3>2 DEF Compresses, Counted, Shaped
  <2> QED
    BY <1>3, <2>1, <2>2
<1>6. Shaped(to) /\ to.constraints = [tc EXCEPT !.constraints = constraints].constraints
    BY <1>5 DEF Counted, Shaped, NewTaskContext
<1>7. HardIds(to) = HardIds([tc EXCEPT !.constraints = constraints])
    BY <1>6 DEF HardIds
<1> HIDE DEF to
<1>8. Counted(RecalculateTokens(to)) /\ RecalculateTokens(to).constraints = to.constraints
    BY <1>6, Recalculated
<1>9. HardIds(RecalculateTokens(to)) = HardIds(to)
    BY <1>8, SameHardIds
<1> QED
    BY <1>1, <1>5, <1>7, <1>8, <1>9 DEF Compresses

(* A step of one agent that keeps what it owes. *)
LEMMA AgentKeeps ==
  ASSUME ContextInv, NEW a \in ContextAgents, items' \in Nat, cached' = cached, reading' = reading,
         NEW tc, Counted(tc), context' = [context EXCEPT ![a] = tc],
         DOMAIN due' = ContextAgents, \A b \in ContextAgents \ {a} : due'[b] = due[b],
         due'[a] \subseteq HardIds(tc)
  PROVE  ContextInv'
<1>1. /\ DOMAIN context' = ContextAgents /\ context'[a] = tc
      /\ \A b \in ContextAgents \ {a} : context'[b] = context[b]
    BY DEF ContextInv
<1>2. \A b \in ContextAgents : Counted(context[b]) /\ due[b] \subseteq HardIds(context[b])
    BY DEF ContextInv
<1>3. \A b \in ContextAgents : Counted(context'[b]) /\ due'[b] \subseteq HardIds(context'[b])
    BY <1>1, <1>2, Zenon
<1> QED
    BY <1>1, <1>3 DEF ContextInv, Counted, HardIds, NoContext, NotReading

(* What is added. *)
LEMMA AddKeeps ==
  ASSUME ContextInv, NEW a \in ContextAgents,
         \/ \E k \in MessageKinds : AddMessage(a, k)
         \/ \E k \in FileKinds : AddFileState(a, k)
         \/ \E hard \in BOOLEAN : AddConstraint(a, hard)
  PROVE  ContextInv'
<1>1. items' \in Nat /\ cached' = cached /\ reading' = reading /\ items' = items + 1
  <2>1. cached' = cached /\ reading' = reading /\ items' = items + 1
    BY DEF AddMessage, AddFileState, AddConstraint, NewItem
  <2>2. items \in Nat
    BY DEF ContextInv
  <2> QED
    BY <2>1, <2>2
<1>2. Counted(context[a]) /\ due[a] \subseteq HardIds(context[a]) /\ DOMAIN due = ContextAgents
    BY DEF ContextInv
<1> DEFINE tc == context[a]
<1>3. ASSUME NEW k \in MessageKinds, AddMessage(a, k) PROVE ContextInv'
  <2> DEFINE m == NewMessage(items', k)
             to == [tc EXCEPT !.messages = Append(@, m), !.tokensUsed = @ + 1]
  <2>1. m \in Messages
    BY <1>1, ContextAssumption DEF NewMessage, Messages
  <2>2. context' = [context EXCEPT ![a] = to] /\ due' = due
    BY <1>3 DEF AddMessage, Works
  <2> HIDE DEF m
  <2>3. Append(tc.messages, m) \in Seq(Messages) /\ Len(Append(tc.messages, m)) = Len(tc.messages) + 1
    BY <1>2, <2>1 DEF Counted
  <2>4. Counted(to) /\ to.constraints = tc.constraints
    BY <1>2, <2>3 DEF Counted, NewTaskContext
  <2> HIDE DEF to
  <2>5. HardIds(to) = HardIds(tc)
    BY <2>4, SameHardIds
  <2> QED
    BY <1>1, <1>2, <2>2, <2>4, <2>5, AgentKeeps
<1>4. ASSUME NEW k \in FileKinds, AddFileState(a, k) PROVE ContextInv'
  <2> DEFINE files == Append(tc.files, NewFileState(items', k))
             to == [tc EXCEPT !.files = files]
  <2>1. context' = [context EXCEPT ![a] = to] /\ due' = due
    BY <1>4 DEF AddFileState, Works
  <2> HIDE DEF files
  <2>2. Counted(to) /\ to.constraints = tc.constraints
    BY <1>2 DEF Counted, NewTaskContext
  <2> HIDE DEF to
  <2>3. HardIds(to) = HardIds(tc)
    BY <2>2, SameHardIds
  <2> QED
    BY <1>1, <1>2, <2>1, <2>2, <2>3, AgentKeeps
<1>5. ASSUME NEW hard \in BOOLEAN, AddConstraint(a, hard) PROVE ContextInv'
  <2> DEFINE c == [id |-> items', hard |-> hard]
             seq == Append(tc.constraints, c)
             to == [tc EXCEPT !.constraints = seq]
  <2>1. c \in Constraints /\ c.id = items' /\ IsHard(c) = hard
    BY <1>1 DEF Constraints, IsHard
  <2>2. /\ context' = [context EXCEPT ![a] = to]
        /\ due' = [due EXCEPT ![a] = @ \cup IF hard THEN {items'} ELSE {}]
    BY <1>5 DEF AddConstraint, Works
  <2> HIDE DEF c
  <2>3. seq \in Seq(Constraints) /\ ToSet(seq) = ToSet(tc.constraints) \cup {c}
    <3>1. tc.constraints \in Seq(Constraints)
      BY <1>2 DEF Counted
    <3> DEFINE old == tc.constraints
               n == Len(old)
    <3>2. old \in Seq(Constraints)
      BY <3>1
    <3> HIDE DEF old
    <3>3. seq \in Seq(Constraints) /\ n \in Nat /\ DOMAIN old = 1 .. n /\ DOMAIN seq = 1 .. n + 1
      BY <2>1, <3>2 DEF old
    <3>4. \A i \in 1 .. n : seq[i] = old[i]
      BY <2>1, <3>2 DEF old
    <3>5. seq[n + 1] = c
      BY <2>1, <3>2 DEF old
    <3>6. ToSet(seq) = ToSet(old) \cup {c}
      <4> HIDE DEF seq, n
      <4> QED
        BY <3>3, <3>4, <3>5 DEF ToSet
    <3> QED
      BY <3>3, <3>6 DEF old
  <2> HIDE DEF seq
  <2>4. Counted(to) /\ to.constraints = seq
    BY <1>2, <2>3 DEF Counted, NewTaskContext
  <2> HIDE DEF to
  <2>5. HardIds(tc) \subseteq HardIds(to)
    BY <2>3, <2>4 DEF HardIds
  <2>6. hard => items' \in HardIds(to)
    BY <2>1, <2>3, <2>4 DEF HardIds
  <2>7. /\ DOMAIN due' = ContextAgents /\ due'[a] = due[a] \cup IF hard THEN {items'} ELSE {}
        /\ \A b \in ContextAgents \ {a} : due'[b] = due[b]
    BY <1>2, <2>2
  <2>8. due'[a] \subseteq HardIds(to)
    BY <1>2, <2>5, <2>6, <2>7
  <2> QED
    BY <1>1, <2>2, <2>4, <2>7, <2>8, AgentKeeps
<1> QED
    BY <1>3, <1>4, <1>5

(* What is compressed. *)
LEMMA CompressKeeps ==
  ASSUME ContextInv, NEW a \in ContextAgents, CompressByRule(a) \/ CompressBySummary(a)
  PROVE  ContextInv'
<1>1. items \in Nat /\ Counted(context[a]) /\ due[a] \subseteq HardIds(context[a]) /\ DOMAIN due = ContextAgents
    BY DEF ContextInv
<1>2. items' \in Nat /\ UNCHANGED <<cached, reading, due>>
    BY <1>1 DEF CompressByRule, CompressBySummary, NewItem
<1>3. PICK to : Compresses(context[a], to) /\ context' = [context EXCEPT ![a] = to]
  <2>1. CASE CompressByRule(a)
    BY <1>1, <2>1, CompressedToBudget DEF CompressByRule, Works
  <2>2. CASE CompressBySummary(a)
    <3>1. PICK turns \in Seq(Messages) : context' = [context EXCEPT ![a] = Summarised(context[a], turns)]
      <4>1. CASE Len(context[a].messages) > SummaryRecent
        <5>1. items' \in Nat /\ context[a].messages \in Seq(Messages)
          BY <1>1, <1>2 DEF Counted
        <5>2. PICK turns \in Summaries(context[a].messages, items') :
                 context' = [context EXCEPT ![a] = Summarised(context[a], turns)]
          BY <2>2, <4>1 DEF CompressBySummary, Works
        <5> QED
          BY <4>1, <5>1, <5>2, SummariesAreMessages
      <4>2. CASE ~(Len(context[a].messages) > SummaryRecent)
        BY <1>1, <2>2, <4>2 DEF CompressBySummary, Works, Counted
      <4> QED
        BY <4>1, <4>2
    <3> QED
      BY <1>1, <3>1, CompressedBySummary
  <2> QED
    BY <2>1, <2>2
<1> QED
    BY <1>1, <1>2, <1>3, AgentKeeps DEF Compresses

(* What is cached and handed on. *)
LEMMA PropagateKeeps ==
  ASSUME ContextInv, NEW a \in ContextAgents,
         PropagateFull(a) \/ PropagateSummary(a) \/ PropagateDelta(a)
  PROVE  ContextInv'
<1> DEFINE src == reading[a].src
<1>1. reading[a].mode # "none"
    BY DEF PropagateFull, PropagateSummary, PropagateDelta
<1>2. Counted(src) /\ {DOMAIN context, DOMAIN reading, DOMAIN due} = {ContextAgents} /\ items \in Nat
    BY <1>1 DEF ContextInv, NotReading
<1>3. PICK to : Compresses(src, to) /\ Given(a, to)
  <2>1. Compresses(src, src)
    BY <1>2 DEF Compresses
  <2> QED
    BY <1>2, <2>1, CompressedToBudget DEF PropagateFull, PropagateSummary, PropagateDelta
<1>4. cached' = cached \/ cached' = src
    BY DEF PropagateFull, PropagateSummary, PropagateDelta
<1>5. /\ DOMAIN context' = ContextAgents /\ context'[a] = to
      /\ DOMAIN due' = ContextAgents /\ due'[a] = HardIds(src)
      /\ DOMAIN reading' = ContextAgents /\ reading'[a] = NotReading /\ items' = items
      /\ \A b \in ContextAgents \ {a} : context'[b] = context[b] /\ due'[b] = due[b] /\ reading'[b] = reading[b]
    BY <1>2, <1>3 DEF Given
<1>6. Counted(to) /\ HardIds(src) \subseteq HardIds(to)
    BY <1>3 DEF Compresses
<1> HIDE DEF src
<1>7. \A b \in ContextAgents :
         /\ Counted(context[b]) /\ due[b] \subseteq HardIds(context[b])
         /\ reading[b] = NotReading \/ Counted(reading[b].src)
    BY DEF ContextInv
<1>8. \A b \in ContextAgents :
         /\ Counted(context'[b]) /\ due'[b] \subseteq HardIds(context'[b])
         /\ reading'[b] = NotReading \/ Counted(reading'[b].src)
    BY <1>5, <1>6, <1>7, Zenon
<1>9. cached' = NoContext \/ Counted(cached')
    BY <1>2, <1>4 DEF ContextInv
<1>10. {DOMAIN context', DOMAIN reading', DOMAIN due'} = {ContextAgents}
    BY <1>5
<1> QED
    BY <1>2, <1>5, <1>8, <1>9, <1>10 DEF ContextInv, Counted, HardIds, NoContext, NotReading

(* What is put into the cache, dropped from it and read from it. *)
LEMMA CacheKeeps ==
  ASSUME ContextInv,
         \/ InvalidateCache
         \/ \E a \in ContextAgents : CacheContext(a)
         \/ \E a \in ContextAgents, mode \in {"full", "summary", "delta"} : GetSourceContext(a, mode)
  PROVE  ContextInv'
<1>1. UNCHANGED <<context, items, due>>
    BY DEF InvalidateCache, CacheContext, GetSourceContext
<1>2. Counted(NewTaskContext)
  <2>1. <<>> \in Seq(Messages) /\ <<>> \in Seq(Constraints) /\ Len(<<>>) = 0
    OBVIOUS
  <2> QED
    BY <2>1 DEF Counted, NewTaskContext
<1>3. cached' = NoContext \/ Counted(cached')
    BY DEF InvalidateCache, CacheContext, GetSourceContext, ContextInv
<1>4. DOMAIN reading' = ContextAgents /\
      \A a \in ContextAgents : reading'[a] = NotReading \/ Counted(reading'[a].src)
  <2>1. CASE reading' = reading
    BY <2>1 DEF ContextInv
  <2>2. ASSUME NEW a \in ContextAgents, NEW mode \in {"full", "summary", "delta"}, GetSourceContext(a, mode)
        PROVE  DOMAIN reading' = ContextAgents /\
               \A b \in ContextAgents : reading'[b] = NotReading \/ Counted(reading'[b].src)
    <3>1. PICK src : /\ Counted(src)
                     /\ reading' = [reading EXCEPT ![a] = [mode |-> mode, src |-> src]]
      <4>1. PICK s \in {cached, NoContext} :
              reading' = [reading EXCEPT ![a] =
                             [mode |-> mode, src |-> IF s = NoContext THEN NewTaskContext ELSE s]]
        BY <2>2 DEF GetSourceContext
      <4>2. Counted(IF s = NoContext THEN NewTaskContext ELSE s)
        BY <1>2, <4>1 DEF ContextInv
      <4> QED
        BY <4>1, <4>2
    <3>2. /\ DOMAIN reading' = ContextAgents /\ reading'[a].src = src
          /\ \A b \in ContextAgents \ {a} : reading'[b] = reading[b]
      BY <3>1 DEF ContextInv
    <3> QED
      BY <3>1, <3>2 DEF ContextInv
  <2> QED
    BY <2>1, <2>2 DEF InvalidateCache, CacheContext
<1>5. {DOMAIN context', DOMAIN reading', DOMAIN due'} = {ContextAgents}
    BY <1>1, <1>4 DEF ContextInv
<1> QED
    BY <1>1, <1>3, <1>4, <1>5 DEF ContextInv, Counted, HardIds, NoContext, NotReading

(* Every context in memory, in the cache and on its way between them has its *)
(* messages counted, and every agent has the hard constraints it is owed.    *)
THEOREM ContextInvariant == ContextSpec => []ContextInv
<1>1. ContextInit => ContextInv
  <2> SUFFICES ASSUME ContextInit PROVE ContextInv
    OBVIOUS
  <2>1. <<>> \in Seq(Messages) /\ <<>> \in Seq(Constraints) /\ Len(<<>>) = 0
    OBVIOUS
  <2>2. Counted(NewTaskContext)
    BY <2>1 DEF Counted, NewTaskContext
  <2> QED
    BY <2>2 DEF ContextInit, ContextInv
<1>2. ContextInv /\ [ContextNext]_contextVars => ContextInv'
  <2> SUFFICES ASSUME ContextInv, [ContextNext]_contextVars PROVE ContextInv'
    OBVIOUS
  <2>1. CASE UNCHANGED contextVars
    BY <2>1 DEF contextVars, ContextInv, Counted, HardIds, NoContext, NotReading
  <2> QED
    BY <2>1, AddKeeps, CompressKeeps, PropagateKeeps, CacheKeeps DEF ContextNext
<1> QED
    BY <1>1, <1>2, PTL DEF ContextSpec

(* However often a context is compressed, summarised, cached and handed on,  *)
(* no agent loses a hard constraint.                                         *)
THEOREM HardConstraintsAreKept == ContextSpec => []HardConstraintsKept
<1>1. ContextInv => HardConstraintsKept
    BY DEF ContextInv, HardConstraintsKept
<1> QED
    BY <1>1, ContextInvariant, PTL

(* TokensUsed is the cost of the messages in every context there is. *)
THEOREM TokensAlwaysAgree == ContextSpec => []TokensAgree
<1>1. ContextInv => TokensAgree
    BY DEF ContextInv, TokensAgree, Contexts, Counted, NotReading
<1> QED
    BY <1>1, ContextInvariant, PTL

-----------------------------------------------------------------------------
(* The file tools.                                                           *)

(* A set as a sequence: every element of it, once. *)
LEMMA SetAsSequence ==
  ASSUME NEW S, IsFiniteSet(S)
  PROVE  /\ SetToSeq(S) \in Seq(S) /\ Len(SetToSeq(S)) = Cardinality(S) /\ Cardinality(S) \in Nat
         /\ IsInjective(SetToSeq(S)) /\ Range(SetToSeq(S)) = S
<1> DEFINE n == Cardinality(S)
           seq == SetToSeq(S)
<1>1. n \in Nat /\ ExistsBijection(1 .. n, S)
    BY FS_CardinalityType
<1>2. \E f \in [1 .. n -> S] : IsInjective(f)
    BY <1>1 DEF ExistsBijection, Bijection, Injection
<1>3. seq \in [1 .. n -> S] /\ IsInjective(seq)
  <2>1. seq = CHOOSE f \in [1 .. n -> S] : IsInjective(f)
    BY DEF SetToSeq
  <2> HIDE DEF seq
  <2> QED
    BY <1>2, <2>1
<1> HIDE DEF seq
<1>4. seq \in Seq(S) /\ Len(seq) = n /\ DOMAIN seq = 1 .. n
    BY <1>1, <1>3
<1>5. seq \in Injection(1 .. n, S)
    BY <1>3 DEF Injection
<1>6. IsFiniteSet(1 .. n) /\ Cardinality(1 .. n) = n
    BY <1>1, FS_Interval
<1>7. seq \in Surjection(1 .. n, S)
  <2> DEFINE T == 1 .. n
  <2>1. seq \in Injection(T, S) /\ IsFiniteSet(T) /\ Cardinality(T) = Cardinality(S)
    BY <1>5, <1>6
  <2> HIDE DEF T
  <2>2. seq \in Surjection(T, S)
    BY <2>1, FS_Injection
  <2> QED
    BY <2>2 DEF T
<1>8. Range(seq) = S
    BY <1>3, <1>4, <1>7 DEF Surjection, Range
<1> QED
    BY <1>1, <1>3, <1>4, <1>8 DEF seq

(* A sequence that repeats nothing is as long as it has elements. *)
LEMMA InjectiveCounts ==
  ASSUME NEW S, NEW seq \in Seq(S), IsInjective(seq)
  PROVE  Cardinality(Range(seq)) = Len(seq)
<1> DEFINE n == Len(seq)
           T == 1 .. n
           R == Range(seq)
<1>1. n \in Nat /\ DOMAIN seq = T
    OBVIOUS
<1>2. IsFiniteSet(T) /\ Cardinality(T) = n
    BY <1>1, FS_Interval
<1>3. seq \in Bijection(T, R)
    BY <1>1 DEF Bijection, Injection, Surjection, Range
<1> HIDE DEF T, R, n
<1>4. Cardinality(R) = Cardinality(T)
    BY <1>2, <1>3, FS_Bijection DEF ExistsBijection
<1> QED
    BY <1>2, <1>4 DEF R, n

(* Two sequences that repeat nothing, and share nothing, one after the other. *)
LEMMA ConcatOnce ==
  ASSUME NEW S, NEW s \in Seq(S), NEW t \in Seq(S)
  PROVE  /\ s \o t \in Seq(S) /\ Len(s \o t) = Len(s) + Len(t)
         /\ Range(s \o t) = Range(s) \cup Range(t)
         /\ IsInjective(s) /\ IsInjective(t) /\ Range(s) \cap Range(t) = {} => IsInjective(s \o t)
<1> DEFINE c == s \o t
<1>1. c \in Seq(S) /\ Len(c) = Len(s) + Len(t) /\ Len(s) \in Nat /\ Len(t) \in Nat
    OBVIOUS
<1>2. DOMAIN c = 1 .. Len(s) + Len(t) /\ DOMAIN s = 1 .. Len(s) /\ DOMAIN t = 1 .. Len(t)
    BY <1>1
<1>3. /\ \A i \in 1 .. Len(s) : c[i] = s[i]
      /\ \A i \in 1 .. Len(t) : c[Len(s) + i] = t[i]
    BY <1>1
<1> HIDE DEF c
<1>4. \A i \in DOMAIN c : i \in DOMAIN s \/ (i - Len(s) \in DOMAIN t /\ i = Len(s) + (i - Len(s)))
    BY <1>1, <1>2
<1>5. \A i \in DOMAIN c : \/ i \in DOMAIN s /\ c[i] = s[i]
                          \/ i - Len(s) \in DOMAIN t /\ c[i] = t[i - Len(s)]
  <2> TAKE i \in DOMAIN c
  <2> DEFINE j == i - Len(s)
  <2>1. i \in DOMAIN s \/ (j \in DOMAIN t /\ i = Len(s) + j)
    BY <1>4
  <2> HIDE DEF j
  <2>2. CASE i \in DOMAIN s
    <3>1. c[i] = s[i]
      BY <1>2, <1>3, <2>2
    <3> QED
      BY <2>2, <3>1, Zenon
  <2>3. CASE j \in DOMAIN t /\ i = Len(s) + j
    <3>1. c[Len(s) + j] = t[j]
      BY <1>2, <1>3, <2>3
    <3> QED
      BY <2>3, <3>1 DEF j
  <2> QED
    BY <2>1, <2>2, <2>3
<1>6. Range(c) = Range(s) \cup Range(t)
  <2>1. Range(c) \subseteq Range(s) \cup Range(t)
    BY <1>5 DEF Range
  <2>2. \A i \in DOMAIN s : i \in DOMAIN c /\ c[i] = s[i]
    BY <1>1, <1>2, <1>3
  <2>3. \A i \in DOMAIN t : Len(s) + i \in DOMAIN c /\ c[Len(s) + i] = t[i]
    BY <1>1, <1>2, <1>3
  <2> QED
    BY <2>1, <2>2, <2>3 DEF Range
<1>7. ASSUME IsInjective(s), IsInjective(t), Range(s) \cap Range(t) = {} PROVE IsInjective(c)
  <2> SUFFICES ASSUME NEW i \in DOMAIN c, NEW j \in DOMAIN c, c[i] = c[j] PROVE i = j
    BY DEF IsInjective
  <2>1. i \in Int /\ j \in Int /\ Len(s) \in Int
    BY <1>1, <1>2
  <2>2. CASE i \in DOMAIN s /\ j \in DOMAIN s
    BY <1>2, <1>3, <1>7, <2>2 DEF IsInjective
  <2>3. CASE i \notin DOMAIN s /\ j \notin DOMAIN s
    <3>1. i - Len(s) = j - Len(s)
      BY <1>5, <1>7, <2>3, Zenon DEF IsInjective
    <3> QED
      BY <2>1, <3>1
  <2>4. CASE i \in DOMAIN s /\ j \notin DOMAIN s
    <3>1. c[i] \in Range(s) /\ c[j] \in Range(t)
      BY <1>5, <2>4, <1>2, <1>3, Zenon DEF Range
    <3> QED
      BY <1>7, <3>1
  <2>5. CASE i \notin DOMAIN s /\ j \in DOMAIN s
    <3>1. c[j] \in Range(s) /\ c[i] \in Range(t)
      BY <1>5, <2>5, <1>2, <1>3, Zenon DEF Range
    <3> QED
      BY <1>7, <3>1
  <2> QED
    BY <2>2, <2>3, <2>4, <2>5
<1> QED
    BY <1>1, <1>6, <1>7 DEF c

(* The first n of some places: n of them, or all if there are no more. *)
LEMMA FirstPlaces ==
  ASSUME NEW P \in SUBSET Nat, IsFiniteSet(P), NEW n \in Nat
  PROVE  /\ FirstOf(n, P) \subseteq P /\ IsFiniteSet(FirstOf(n, P))
         /\ Cardinality(P) \in Nat
         /\ Cardinality(P) <= n => FirstOf(n, P) = P
         /\ Cardinality(P) > n => Cardinality(FirstOf(n, P)) = n
<1> DEFINE F == FirstOf(n, P)
<1>1. P \in SUBSET Int
    OBVIOUS
<1>2. F = {i \in P : Cardinality(Earlier(P, i)) < n}
    BY DEF FirstOf, Earlier
<1> HIDE DEF F
<1>3. F \in SUBSET P /\ IsFiniteSet(F)
  <2>1. F \in SUBSET P
    BY <1>2
  <2> QED
    BY <2>1, FS_Subset
<1>4. /\ Cardinality(P) \in Nat
      /\ \A i \in P : Cardinality(Earlier(P, i)) \in 0 .. Cardinality(P) - 1
      /\ \A i, j \in P : Cardinality(Earlier(P, i)) = Cardinality(Earlier(P, j)) => i = j
      /\ \A k \in 1 .. Cardinality(P) : \E i \in P : Cardinality(Earlier(P, i)) = k - 1
    BY <1>1, RanksAreOnto
<1>5. ASSUME Cardinality(P) <= n PROVE F = P
  <2>1. ASSUME NEW i \in P PROVE Cardinality(Earlier(P, i)) < n
    <3>1. Cardinality(Earlier(P, i)) \in 0 .. Cardinality(P) - 1
      BY <1>4
    <3> QED
      BY <1>4, <1>5, <3>1
  <2> QED
    BY <1>2, <2>1
<1>6. ASSUME Cardinality(P) > n PROVE Cardinality(F) = n
  <2> DEFINE r == [i \in F |-> Cardinality(Earlier(P, i)) + 1]
             T == 1 .. n
  <2>1. \A i \in F : i \in P /\ Cardinality(Earlier(P, i)) + 1 \in T
    BY <1>2, <1>4
  <2>2. r \in Injection(F, T)
    <3>1. \A i, j \in F : r[i] = r[j] => i = j
      <4> SUFFICES ASSUME NEW i \in F, NEW j \in F, r[i] = r[j] PROVE i = j
        OBVIOUS
      <4>1. Cardinality(Earlier(P, i)) \in Int /\ Cardinality(Earlier(P, j)) \in Int
        <5>1. \A k \in P : Cardinality(Earlier(P, k)) \in 0 .. Cardinality(P) - 1
          BY <1>4
        <5>2. \A k \in P : Cardinality(Earlier(P, k)) \in Int
          BY <1>4, <5>1
        <5> QED
          BY <2>1, <5>2
      <4>2. Cardinality(Earlier(P, i)) = Cardinality(Earlier(P, j))
        BY <4>1
      <4> QED
        BY <1>4, <2>1, <4>2
    <3> QED
      BY <2>1, <3>1 DEF Injection, IsInjective
  <2>3. r \in Surjection(F, T)
    <3>1. \A k \in T : \E i \in F : r[i] = k
      <4> TAKE k \in T
      <4>1. k \in 1 .. Cardinality(P)
        BY <1>4, <1>6
      <4>2. PICK i \in P : Cardinality(Earlier(P, i)) = k - 1
        BY <1>4, <4>1
      <4>3. i \in F
        BY <1>2, <4>2
      <4>4. r[i] = k
        BY <4>2, <4>3
      <4> QED
        BY <4>3, <4>4
    <3> QED
      BY <2>1, <3>1 DEF Surjection
  <2>4. IsFiniteSet(T) /\ Cardinality(T) = n
    BY FS_Interval
  <2> HIDE DEF r, T
  <2>5. Cardinality(F) = Cardinality(T)
    BY <1>3, <2>2, <2>3, FS_Bijection DEF ExistsBijection, Bijection
  <2> QED
    BY <2>4, <2>5
<1> QED
    BY <1>3, <1>4, <1>5, <1>6 DEF F

(* As many hits in a file as places. *)
LEMMA HitsCount ==
  ASSUME NEW P, IsFiniteSet(P), NEW f
  PROVE  IsFiniteSet(Hits(f, P)) /\ Cardinality(Hits(f, P)) = Cardinality(P)
<1> DEFINE H == Hits(f, P)
           b == [i \in P |-> <<f, i>>]
<1>1. b \in Bijection(P, H)
    BY DEF Bijection, Injection, Surjection, IsInjective, Hits
<1> HIDE DEF b, H
<1>2. ExistsBijection(P, H)
    BY <1>1 DEF ExistsBijection
<1> QED
    BY <1>2, FS_Bijection DEF H

(* What the invariant says of one call. *)
CallInv(a) ==
    /\ ArgsInv(a) /\ OnceInv(a) /\ (alone[a] => DiskInv(a) /\ WalkInv(a))
    /\ fpc[a] = "done" /\ alone[a] /\ success[a] => Exact(a)

(* The invariant, call by call. *)
LEMMA CallByCall == FileInv <=> FileFunctions /\ SubInv /\ \A a \in FileAgents : CallInv(a)
    BY DEF FileInv, CallInv, UndisturbedIsExact

(* The record of a call that a step leaves alone. *)
SameCall(a) ==
    /\ fpc'[a] = fpc[a] /\ args'[a] = args[a] /\ handle'[a] = handle[a] /\ text'[a] = text[a]
    /\ todo'[a] = todo[a] /\ out'[a] = out[a] /\ success'[a] = success[a] /\ before'[a] = before[a]
    /\ alone'[a] => alone[a] /\ disk' = disk /\ inode' = inode

(* A step of another call either disturbs a call or leaves it as it was. *)
LEMMA OthersKeep ==
  ASSUME NEW a, CallInv(a), SameCall(a)
  PROVE  CallInv(a)'
<1>1. ArgsInv(a)' /\ OnceInv(a)'
    BY DEF CallInv, SameCall, ArgsInv, OnceInv, Unreported
<1>2. ASSUME alone'[a] PROVE DiskInv(a)' /\ WalkInv(a)'
    BY <1>2 DEF CallInv, SameCall, DiskInv, WalkInv, Pending, Appends
<1>3. ASSUME fpc'[a] = "done", alone'[a], success'[a] PROVE Exact(a)'
    BY <1>3 DEF CallInv, SameCall, Exact
<1> QED
    BY <1>1, <1>2, <1>3 DEF CallInv

(* A step of one call keeps the invariant if it keeps what this says of it. *)
LEMMA CallKeeps ==
  ASSUME FileInv, NEW a \in FileAgents, FileFunctions', SubInv', CallInv(a)',
         \A b \in FileAgents \ {a} : SameCall(b)
  PROVE  FileInv'
<1>1. \A b \in FileAgents : CallInv(b)'
    BY CallByCall, OthersKeep
<1> QED
    BY <1>1 DEF FileInv, CallInv, UndisturbedIsExact

(* A call begins: alone, and with nothing reported. *)
LEMMA CallToolKeeps ==
  ASSUME FileInv, NEW a \in FileAgents, NEW in \in Inputs, NEW first, CallTool(a, in, first),
         \/ first = "stat" /\ in \in Reads \cup Edits
         \/ first = "mkdir" /\ in \in Writes
         \/ first = "statDelete" /\ in \in Deletes
         \/ first = "readDir" /\ in \in Lists
         \/ first = "walk" /\ in \in Searches
  PROVE  FileInv'
<1>1. FileFunctions' /\ SubInv'
    BY FileAssumption DEF FileInv, FileFunctions, SubInv, CallTool, NextCall, SystemCalls,
       diskVars, Exists
<1>2. \A b \in FileAgents \ {a} : SameCall(b)
    BY DEF FileInv, FileFunctions, SameCall, CallTool, NextCall, diskVars
<1>3. /\ fpc'[a] = first /\ args'[a] = in /\ before'[a] = disk /\ disk' = disk /\ out'[a] = <<>>
      /\ first \notin {"walking", "done", "open", "writeAll", "removeAll", "remove", "idle", "read", "edit"}
    BY DEF FileInv, FileFunctions, OnceInv, CallTool, NextCall, diskVars
<1>4. ArgsInv(a)'
    BY <1>1, <1>3 DEF ArgsInv, FileFunctions, Searches, Lists
<1>5. OnceInv(a)'
    BY <1>3, FileAssumption DEF OnceInv, IsInjective, Range
<1>6. DiskInv(a)'
    BY <1>3 DEF DiskInv
<1>7. WalkInv(a)'
    BY <1>3 DEF WalkInv, Searches
<1>8. CallInv(a)'
    BY <1>3, <1>4, <1>5, <1>6, <1>7 DEF CallInv
<1> QED
    BY <1>1, <1>2, <1>8, CallKeeps

(* A call is answered. *)
LEMMA ToolAnsweredKeeps ==
  ASSUME FileInv, NEW a \in FileAgents, ToolAnswered(a)
  PROVE  FileInv'
<1>1. FileFunctions' /\ SubInv'
    BY DEF FileInv, FileFunctions, SubInv, ToolAnswered, NextCall, SystemCalls, diskVars, Exists
<1>2. \A b \in FileAgents \ {a} : SameCall(b)
    BY DEF FileInv, FileFunctions, SameCall, ToolAnswered, NextCall, diskVars
<1>3. fpc'[a] = "idle" /\ args'[a] = NoArgs /\ alone'[a] = FALSE /\ out'[a] = <<>>
    BY DEF FileInv, FileFunctions, ToolAnswered, NextCall
<1>4. CallInv(a)'
    BY <1>3 DEF CallInv, ArgsInv, OnceInv, NoArgs
<1> QED
    BY <1>1, <1>2, <1>4, CallKeeps

(* A call that fails before it writes. *)
LEMMA FailsKeep ==
  ASSUME FileInv, NEW a \in FileAgents, Finish(a, FALSE),
         fpc[a] \in {"stat", "read", "edit", "open", "statDelete", "remove", "readDir"},
         UNCHANGED <<disk, hasSub, inode, args, handle, text, todo, out, before, alone, callsMade>>
  PROVE  FileInv'
<1>1. FileFunctions' /\ SubInv'
    BY DEF FileInv, FileFunctions, SubInv, Finish, NextCall, SystemCalls, Exists
<1>2. \A b \in FileAgents \ {a} : SameCall(b)
    BY DEF FileInv, FileFunctions, SameCall, Finish, NextCall
<1>3. fpc'[a] = "done" /\ success'[a] = FALSE
    BY DEF FileInv, FileFunctions, Finish, NextCall
<1>4. ArgsInv(a)' /\ OnceInv(a)'
  <2>1. args[a] \in Inputs
    BY DEF FileInv, ArgsInv, Inputs
  <2> QED
    BY <1>3, <2>1 DEF FileInv, ArgsInv, OnceInv
<1>5. ASSUME alone'[a] PROVE DiskInv(a)' /\ WalkInv(a)'
    BY <1>3, <1>5 DEF FileInv, DiskInv, WalkInv, SystemCalls
<1> QED
    BY <1>1, <1>2, <1>3, <1>4, <1>5, CallKeeps DEF CallInv

(* os.Stat lets the call read. *)
LEMMA StatAllowsKeeps ==
  ASSUME FileInv, NEW a \in FileAgents, StatAllows(a)
  PROVE  FileInv'
<1>1. fpc[a] = "stat" /\ args[a] \in Reads \cup Edits
    BY DEF FileInv, ArgsInv, StatAllows
<1>2. \/ args[a] \in Reads /\ args[a].tool = "read"
      \/ args[a] \in Edits /\ args[a].tool = "edit"
    BY <1>1 DEF Reads, Edits
<1>3. FileFunctions' /\ SubInv'
    BY <1>2 DEF FileInv, FileFunctions, SubInv, StatAllows, NextCall, SystemCalls, diskVars, Exists
<1>4. \A b \in FileAgents \ {a} : SameCall(b)
    BY DEF FileInv, FileFunctions, SameCall, StatAllows, NextCall, diskVars
<1>5. fpc'[a] = args[a].tool /\ UNCHANGED <<disk, inode, args, handle, text, todo, out, success, before, alone>>
    BY DEF FileInv, FileFunctions, StatAllows, NextCall, diskVars
<1>6. ArgsInv(a)' /\ OnceInv(a)'
    BY <1>1, <1>2, <1>5 DEF FileInv, ArgsInv, OnceInv
<1>7. ASSUME alone'[a] PROVE DiskInv(a)' /\ WalkInv(a)'
    BY <1>1, <1>2, <1>5, <1>7 DEF FileInv, DiskInv, WalkInv, SystemCalls
<1> QED
    BY <1>2, <1>3, <1>4, <1>5, <1>6, <1>7, CallKeeps DEF CallInv

(* The part of a file that is asked for. *)
LEMMA SliceIsText ==
  ASSUME NEW seq \in Seq(Lines), NEW offset \in Nat, NEW limit \in Nat
  PROVE  Slice(seq, offset, limit) \in Seq(Reported)
<1> DEFINE to == IF offset + limit > Len(seq) THEN Len(seq) ELSE offset + limit
<1>1. Len(seq) \in Nat /\ to \in Nat /\ to <= Len(seq)
    OBVIOUS
<1> HIDE DEF to
<1>2. SubSeq(seq, offset + 1, to) \in Seq(Reported)
    BY <1>1 DEF Reported
<1> QED
    BY <1>2 DEF Slice, to

(* What a read gives is what is there. *)
LEMMA ReadFileKeeps ==
  ASSUME FileInv, NEW a \in FileAgents, ReadFile(a), Exists(disk, args[a].path)
  PROVE  FileInv'
<1> DEFINE part == Slice(disk[args[a].path], args[a].offset, args[a].limit)
<1>1. fpc[a] = "read" /\ args[a] \in Reads /\ args[a].tool = "read" /\ args[a].path \in FileNames
    BY DEF FileInv, ArgsInv, ReadFile, Reads
<1>2. part \in Seq(Reported)
  <2>1. disk[args[a].path] \in Seq(Lines) /\ args[a].offset \in Nat /\ args[a].limit \in Nat
    BY <1>1 DEF FileInv, FileFunctions, Reads, Exists
  <2> QED
    BY <2>1, SliceIsText
<1>3. /\ fpc'[a] = "done" /\ out' = [out EXCEPT ![a] = part] /\ out'[a] = part
      /\ fpc' = [fpc EXCEPT ![a] = "done"] /\ success' = [success EXCEPT ![a] = TRUE]
      /\ UNCHANGED <<disk, hasSub, inode, args, handle, text, todo, before, alone, callsMade>>
    BY DEF FileInv, FileFunctions, ReadFile, Finish, NextCall, diskVars
<1>4. alone[a] => part = Slice(before[a][args[a].path], args[a].offset, args[a].limit) /\ disk = before[a]
    BY <1>1 DEF FileInv, DiskInv, SystemCalls
<1> HIDE DEF part
<1>5. FileFunctions' /\ SubInv'
    BY <1>2, <1>3 DEF FileInv, FileFunctions, SubInv, SystemCalls, Exists
<1>6. \A b \in FileAgents \ {a} : SameCall(b)
    BY <1>3 DEF FileInv, FileFunctions, SameCall
<1>7. ArgsInv(a)' /\ OnceInv(a)'
    BY <1>1, <1>3 DEF FileInv, ArgsInv, OnceInv, Inputs
<1>8. alone'[a] => DiskInv(a)' /\ WalkInv(a)' /\ Exact(a)'
    BY <1>1, <1>3, <1>4 DEF DiskInv, WalkInv, Exact
<1> QED
    BY <1>5, <1>6, <1>7, <1>8, CallKeeps DEF CallInv

(* A text with every occurrence replaced. *)
LEMMA ReplacedIsText ==
  ASSUME NEW seq \in Seq(Lines), NEW old \in Lines, NEW new \in Lines, old # new
  PROVE  /\ ReplaceAllOf(seq, old, new) \in Seq(Lines)
         /\ Len(ReplaceAllOf(seq, old, new)) = Len(seq)
         /\ old \notin Range(ReplaceAllOf(seq, old, new))
    BY DEF ReplaceAllOf, Range

(* What an edit is going to write. *)
LEMMA EditReadsKeeps ==
  ASSUME FileInv, NEW a \in FileAgents, EditReads(a),
         Exists(disk, args[a].path) /\ args[a].line \in Range(disk[args[a].path])
  PROVE  FileInv'
<1> DEFINE new == ReplaceAllOf(disk[args[a].path], args[a].line, args[a].new)
<1>1. fpc[a] = "edit" /\ args[a] \in Edits /\ args[a].tool = "edit" /\ args[a].path \in FileNames
    BY DEF FileInv, ArgsInv, EditReads, Edits
<1>2. new \in Seq(Lines)
  <2>1. disk[args[a].path] \in Seq(Lines) /\ args[a].line \in Lines /\ args[a].new \in Lines /\ args[a].line # args[a].new
    BY <1>1 DEF FileInv, FileFunctions, Edits, Exists
  <2> QED
    BY <2>1, ReplacedIsText
<1>3. /\ fpc'[a] = "open" /\ text' = [text EXCEPT ![a] = new] /\ text'[a] = new
      /\ fpc' = [fpc EXCEPT ![a] = "open"]
      /\ UNCHANGED <<disk, hasSub, inode, args, handle, todo, out, success, before, alone, callsMade>>
    BY DEF FileInv, FileFunctions, EditReads, NextCall, diskVars
<1>4. alone[a] => /\ new = ReplaceAllOf(before[a][args[a].path], args[a].line, args[a].new)
                  /\ disk = before[a] /\ Exists(before[a], args[a].path)
    BY <1>1 DEF FileInv, DiskInv, SystemCalls
<1> HIDE DEF new
<1>5. FileFunctions' /\ SubInv'
    BY <1>2, <1>3 DEF FileInv, FileFunctions, SubInv, SystemCalls, Exists
<1>6. \A b \in FileAgents \ {a} : SameCall(b)
    BY <1>3 DEF FileInv, FileFunctions, SameCall
<1>7. ArgsInv(a)' /\ OnceInv(a)'
    BY <1>1, <1>3 DEF FileInv, ArgsInv, OnceInv
<1>8. alone'[a] => DiskInv(a)' /\ WalkInv(a)'
    BY <1>1, <1>3, <1>4 DEF DiskInv, WalkInv, SystemCalls
<1> QED
    BY <1>3, <1>5, <1>6, <1>7, <1>8, CallKeeps DEF CallInv

(* A directory that a write makes holds nothing. *)
LEMMA WriteMkdirKeeps ==
  ASSUME FileInv, NEW a \in FileAgents, WriteMkdir(a)
  PROVE  FileInv'
<1>1. fpc[a] = "mkdir" /\ args[a] \in Writes /\ args[a].tool = "write" /\ args[a].line \in Lines
    BY DEF FileInv, ArgsInv, WriteMkdir, Writes
<1>2. /\ fpc'[a] = "open" /\ text' = [text EXCEPT ![a] = <<args[a].line>>] /\ text'[a] = <<args[a].line>>
      /\ fpc' = [fpc EXCEPT ![a] = "open"] /\ hasSub' \in BOOLEAN /\ (hasSub => hasSub')
      /\ UNCHANGED <<disk, inode, args, handle, todo, out, success, before, alone, callsMade>>
    BY DEF FileInv, FileFunctions, WriteMkdir, NextCall
<1>3. FileFunctions' /\ SubInv'
    BY <1>1, <1>2 DEF FileInv, FileFunctions, SubInv, SystemCalls, Exists
<1>4. \A b \in FileAgents \ {a} : SameCall(b)
    BY <1>2 DEF FileInv, FileFunctions, SameCall
<1>5. ArgsInv(a)' /\ OnceInv(a)'
    BY <1>1, <1>2 DEF FileInv, ArgsInv, OnceInv
<1>6. alone'[a] => DiskInv(a)' /\ WalkInv(a)'
    BY <1>1, <1>2 DEF FileInv, DiskInv, WalkInv, SystemCalls
<1> QED
    BY <1>2, <1>3, <1>4, <1>5, <1>6, CallKeeps DEF CallInv

(* A file is opened, and is empty unless the call appends to it. *)
LEMMA OpenForWriteKeeps ==
  ASSUME FileInv, NEW a \in FileAgents, OpenForWrite(a), ~(args[a].path \in SubFiles /\ ~hasSub)
  PROVE  FileInv'
<1> DEFINE f == args[a].path
           c == IF Appends(a) /\ Exists(disk, f) THEN disk[f] ELSE <<>>
<1>1. fpc[a] = "open" /\ args[a] \in Writes \cup Edits /\ f \in FileNames
    BY DEF FileInv, ArgsInv, OpenForWrite, Writes, Edits
<1>2. c \in Seq(Lines)
    BY <1>1 DEF FileInv, FileFunctions, Exists
<1>3. /\ disk' = [disk EXCEPT ![f] = c] /\ handle' = [handle EXCEPT ![a] = inode[f]]
      /\ fpc' = [fpc EXCEPT ![a] = "writeAll"] /\ alone' = [b \in FileAgents |-> alone[b] /\ b = a]
      /\ UNCHANGED <<hasSub, inode, args, text, todo, out, success, before, callsMade>>
    BY DEF OpenForWrite, NextCall, Touch
<1>4. alone[a] => disk = before[a] /\ c = IF Appends(a) /\ Exists(before[a], f) THEN before[a][f] ELSE <<>>
    BY <1>1 DEF FileInv, DiskInv, SystemCalls
<1>5. f \in SubFiles => hasSub
    OBVIOUS
<1> HIDE DEF c
<1>6. FileFunctions' /\ SubInv'
  <2>1. /\ disk' \in [FileNames -> {NoFile} \cup Seq(Lines)] /\ inode[f] \in Nat
        /\ alone' \in [FileAgents -> BOOLEAN]
    BY <1>1, <1>2, <1>3 DEF FileInv, FileFunctions
  <2>2. FileFunctions'
    BY <1>3, <2>1 DEF FileInv, FileFunctions, SystemCalls
  <2>3. SubInv'
    BY <1>3, <1>5 DEF FileInv, FileFunctions, SubInv, Exists
  <2> QED
    BY <2>2, <2>3
<1>7. \A b \in FileAgents \ {a} : SameCall(b)
    BY <1>3 DEF FileInv, FileFunctions, SameCall
<1>8. fpc'[a] = "writeAll" /\ handle'[a] = inode'[f] /\ (alone'[a] => alone[a])
    BY <1>3 DEF FileInv, FileFunctions
<1>9. ArgsInv(a)' /\ OnceInv(a)'
    BY <1>1, <1>3, <1>8 DEF FileInv, ArgsInv, OnceInv
<1>10. alone'[a] => DiskInv(a)' /\ WalkInv(a)'
    BY <1>1, <1>3, <1>4, <1>8 DEF FileInv, DiskInv, WalkInv, SystemCalls, Appends
<1> QED
    BY <1>6, <1>7, <1>8, <1>9, <1>10, CallKeeps DEF CallInv

(* What is in a file after a write. *)
LEMMA WrittenIsText ==
  ASSUME NEW c \in Seq(Lines), NEW new \in Seq(Lines), NEW append \in BOOLEAN
  PROVE  /\ Written(c, new, append) \in Seq(Lines)
         /\ c = <<>> => Written(c, new, append) = new
<1>1. CASE append
  <2>1. Written(c, new, append) = c \o new
    BY <1>1 DEF Written
  <2>2. c \o new \in Seq(Lines) /\ (c = <<>> => c \o new = new)
    OBVIOUS
  <2> QED
    BY <2>1, <2>2
<1>2. CASE ~append
  <2> DEFINE tail == SubSeq(c, Len(new) + 1, Len(c))
  <2>1. tail \in Seq(Lines) /\ (c = <<>> => tail = <<>>)
    OBVIOUS
  <2>2. Written(c, new, append) = new \o tail
    BY <1>2 DEF Written
  <2> HIDE DEF tail
  <2> QED
    BY <1>2, <2>1, <2>2
<1> QED
    BY <1>1, <1>2

(* What is in a file after a line is appended. *)
LEMMA AppendedIsText ==
  ASSUME NEW c \in Seq(Lines), NEW l \in Lines
  PROVE  Written(c, <<l>>, TRUE) = Append(c, l)
    BY DEF Written

(* The text is on the disk, if the file is still the one that was opened. *)
LEMMA WriteAllKeeps ==
  ASSUME FileInv, NEW a \in FileAgents, NEW ok \in BOOLEAN, WriteAll(a, ok)
  PROVE  FileInv'
<1> DEFINE f == args[a].path
           stored == ok /\ Exists(disk, f) /\ handle[a] = inode[f]
           new == Written(disk[f], text[a], Appends(a))
<1>1. fpc[a] = "writeAll" /\ args[a] \in Writes \cup Edits /\ f \in FileNames /\ args[a].tool \in {"write", "edit"}
    BY DEF FileInv, ArgsInv, WriteAll, Writes, Edits
<1>2. /\ disk' = IF stored THEN [disk EXCEPT ![f] = new] ELSE disk
      /\ fpc' = [fpc EXCEPT ![a] = "done"] /\ alone' = [b \in FileAgents |-> alone[b] /\ b = a]
      /\ success' = [success EXCEPT ![a] = ok]
      /\ UNCHANGED <<hasSub, inode, args, handle, text, todo, out, before, callsMade>>
    BY DEF WriteAll, Finish, NextCall, Touch
<1>3. Appends(a) \in BOOLEAN /\ text[a] \in Seq(Lines)
    BY <1>1 DEF Appends, Writes, Edits, FileInv, FileFunctions
<1>4. Exists(disk, f) => disk[f] \in Seq(Lines)
    BY <1>1 DEF FileInv, FileFunctions, Exists
<1>5. stored => new \in Seq(Lines)
    BY <1>3, <1>4, WrittenIsText
<1>6. ASSUME alone[a], ok PROVE Exact(a)'
  <2> DEFINE was == before[a]
             opened == IF Appends(a) /\ Exists(was, f) THEN was[f] ELSE <<>>
  <2>1. was \in [FileNames -> {NoFile} \cup Seq(Lines)] /\ disk = [was EXCEPT ![f] = opened] /\ handle[a] = inode[f]
    BY <1>1, <1>6 DEF FileInv, ArgsInv, DiskInv
  <2>2. disk[f] = opened /\ disk[f] # NoFile
    BY <1>1, <2>1 DEF NoFile, Exists
  <2>3. stored
    BY <1>6, <2>1, <2>2 DEF Exists
  <2>4. disk' = [was EXCEPT ![f] = new]
    BY <1>1, <1>2, <2>1, <2>3
  <2>5. CASE args[a].tool = "write"
    <3>1. text[a] = <<args[a].line>> /\ args[a].line \in Lines /\ args[a] \in Writes /\ (Appends(a) <=> args[a].append)
      BY <1>1, <1>6, <2>5 DEF FileInv, DiskInv, Writes, Edits, Appends
    <3>2. new = IF args[a].append /\ Exists(was, f) THEN Append(was[f], args[a].line) ELSE <<args[a].line>>
      <4>1. disk[f] \in Seq(Lines)
        BY <1>4, <2>2 DEF Exists
      <4>2. CASE args[a].append /\ Exists(was, f)
        <5>1. disk[f] = was[f] /\ Appends(a) = TRUE
          BY <1>3, <2>2, <3>1, <4>2
        <5>2. new = Append(disk[f], args[a].line)
          BY <3>1, <4>1, <5>1, AppendedIsText
        <5> HIDE DEF new
        <5> QED
          BY <4>2, <5>1, <5>2
      <4>3. CASE ~(args[a].append /\ Exists(was, f))
        <5>1. disk[f] = <<>>
          BY <2>2, <3>1, <4>3
        <5> QED
          BY <1>3, <3>1, <4>1, <4>3, <5>1, WrittenIsText
      <4> QED
        BY <4>2, <4>3
    <3> HIDE DEF new
    <3> QED
      BY <1>2, <2>4, <2>5, <3>2 DEF Exact
  <2>6. CASE args[a].tool = "edit"
    <3>1. /\ Exists(was, f) /\ text[a] = ReplaceAllOf(was[f], args[a].line, args[a].new)
          /\ args[a].line \in Lines /\ args[a].new \in Lines /\ args[a].line # args[a].new
      BY <1>1, <1>6, <2>6 DEF FileInv, DiskInv, Writes, Edits
    <3>2. was[f] \in Seq(Lines) /\ disk[f] = <<>> /\ <<>> \in Seq(Lines)
      BY <1>1, <2>1, <2>2, <2>6, <3>1 DEF Exists, Appends
    <3>3. new = text[a]
      BY <1>3, <3>2, WrittenIsText
    <3>4. Len(new) = Len(was[f]) /\ args[a].line \notin Range(new)
      BY <3>1, <3>2, <3>3, ReplacedIsText
    <3> HIDE DEF new
    <3>5. disk'[f] = new /\ \A g \in FileNames \ {f} : disk'[g] = was[g]
      BY <1>1, <2>1, <2>4
    <3> QED
      BY <1>2, <2>6, <3>4, <3>5 DEF Exact
  <2> QED
    BY <1>1, <2>5, <2>6
<1> HIDE DEF new
<1>7. FileFunctions' /\ SubInv'
  <2>1. disk' \in [FileNames -> {NoFile} \cup Seq(Lines)] /\ alone' \in [FileAgents -> BOOLEAN]
    BY <1>1, <1>2, <1>5 DEF FileInv, FileFunctions
  <2>2. FileFunctions'
    BY <1>2, <2>1 DEF FileInv, FileFunctions, SystemCalls
  <2>3. SubInv'
    BY <1>2 DEF FileInv, FileFunctions, SubInv, Exists
  <2> QED
    BY <2>2, <2>3
<1>8. \A b \in FileAgents \ {a} : SameCall(b)
    BY <1>2 DEF FileInv, FileFunctions, SameCall
<1>9. fpc'[a] = "done" /\ success'[a] = ok /\ (alone'[a] => alone[a])
    BY <1>2 DEF FileInv, FileFunctions
<1>10. ArgsInv(a)' /\ OnceInv(a)'
    BY <1>1, <1>2, <1>9 DEF FileInv, ArgsInv, OnceInv, Inputs
<1>11. DiskInv(a)' /\ WalkInv(a)'
    BY <1>1, <1>2, <1>9 DEF DiskInv, WalkInv
<1> QED
    BY <1>6, <1>7, <1>8, <1>9, <1>10, <1>11, CallKeeps DEF CallInv

(* What is to be deleted is there. *)
LEMMA DeleteStatKeeps ==
  ASSUME FileInv, NEW a \in FileAgents, DeleteStat(a),
         IF args[a].path = Sub THEN hasSub /\ args[a].recursive ELSE Exists(disk, args[a].path)
  PROVE  FileInv'
<1>1. fpc[a] = "statDelete" /\ args[a] \in Deletes /\ args[a].path \in FileNames \cup {Sub} /\ args[a].tool = "delete"
    BY DEF FileInv, ArgsInv, DeleteStat, Deletes
<1>2. /\ \/ fpc' = [fpc EXCEPT ![a] = "removeAll"] /\ args[a].path = Sub
         \/ fpc' = [fpc EXCEPT ![a] = "remove"] /\ args[a].path \in FileNames
      /\ UNCHANGED <<disk, hasSub, inode, args, handle, text, todo, out, success, before, alone, callsMade>>
    BY <1>1 DEF DeleteStat, NextCall, diskVars
<1>3. FileFunctions' /\ SubInv'
    BY <1>2 DEF FileInv, FileFunctions, SubInv, SystemCalls, Exists
<1>4. \A b \in FileAgents \ {a} : SameCall(b)
    BY <1>2 DEF FileInv, FileFunctions, SameCall
<1>5. \/ fpc'[a] = "removeAll" /\ args[a].path = Sub
      \/ fpc'[a] = "remove" /\ args[a].path \in FileNames
    BY <1>2 DEF FileInv, FileFunctions
<1>6. ArgsInv(a)' /\ OnceInv(a)'
    BY <1>1, <1>2, <1>5 DEF FileInv, ArgsInv, OnceInv
<1>7. alone'[a] => DiskInv(a)' /\ WalkInv(a)'
    BY <1>1, <1>2, <1>5 DEF FileInv, DiskInv, WalkInv, SystemCalls
<1> QED
    BY <1>3, <1>4, <1>5, <1>6, <1>7, CallKeeps DEF CallInv

(* A file is removed. *)
LEMMA DeleteRemovesKeeps ==
  ASSUME FileInv, NEW a \in FileAgents, DeleteRemoves(a), Exists(disk, args[a].path)
  PROVE  FileInv'
<1> DEFINE f == args[a].path
<1>1. fpc[a] = "remove" /\ args[a] \in Deletes /\ f \in FileNames /\ f # Sub /\ args[a].tool = "delete"
    BY FileAssumption DEF FileInv, ArgsInv, DeleteRemoves, Deletes
<1>2. /\ disk' = [disk EXCEPT ![f] = NoFile] /\ inode' = [inode EXCEPT ![f] = inode[f] + 1]
      /\ alone' = [b \in FileAgents |-> alone[b] /\ b = a]
      /\ fpc' = [fpc EXCEPT ![a] = "done"] /\ success' = [success EXCEPT ![a] = TRUE]
      /\ UNCHANGED <<hasSub, args, handle, text, todo, out, before, callsMade>>
    BY DEF DeleteRemoves, Unlink, Touch, Finish, NextCall
<1>3. FileFunctions' /\ SubInv'
  <2>1. /\ disk' \in [FileNames -> {NoFile} \cup Seq(Lines)] /\ inode' \in [FileNames -> Nat]
        /\ alone' \in [FileAgents -> BOOLEAN]
    BY <1>1, <1>2 DEF FileInv, FileFunctions
  <2> QED
    BY <1>1, <1>2, <2>1 DEF FileInv, FileFunctions, SubInv, SystemCalls, Exists
<1>4. \A b \in FileAgents \ {a} : SameCall(b)
    BY <1>2 DEF FileInv, FileFunctions, SameCall
<1>5. fpc'[a] = "done" /\ (alone'[a] => alone[a])
    BY <1>2 DEF FileInv, FileFunctions
<1>6. ArgsInv(a)' /\ OnceInv(a)'
    BY <1>1, <1>2, <1>5 DEF FileInv, ArgsInv, OnceInv, Inputs
<1>7. alone'[a] => disk = before[a] /\ disk' = [g \in FileNames |-> IF g = f THEN NoFile ELSE before[a][g]]
    BY <1>1, <1>2, <1>5 DEF FileInv, FileFunctions, DiskInv, SystemCalls
<1>8. alone'[a] => DiskInv(a)' /\ WalkInv(a)' /\ Exact(a)'
    BY <1>1, <1>2, <1>5, <1>7 DEF DiskInv, WalkInv, Exact
<1> QED
    BY <1>3, <1>4, <1>6, <1>8, CallKeeps DEF CallInv

(* An entry of a directory is removed. *)
LEMMA RemoveEntryKeeps ==
  ASSUME FileInv, NEW a \in FileAgents, NEW f \in FileNames, RemoveEntry(a, f)
  PROVE  FileInv'
<1>1. fpc[a] = "removeAll" /\ f \in SubFiles
    BY DEF RemoveEntry
<1>2. /\ disk' = [disk EXCEPT ![f] = NoFile] /\ inode' = [inode EXCEPT ![f] = inode[f] + 1]
      /\ alone' = [b \in FileAgents |-> alone[b] /\ b = a]
      /\ UNCHANGED <<hasSub, fpc, args, handle, text, todo, out, success, before, callsMade>>
    BY DEF RemoveEntry, Unlink, Touch
<1>3. FileFunctions' /\ SubInv'
  <2>1. /\ disk' \in [FileNames -> {NoFile} \cup Seq(Lines)] /\ inode' \in [FileNames -> Nat]
        /\ alone' \in [FileAgents -> BOOLEAN]
    BY <1>1, <1>2 DEF FileInv, FileFunctions
  <2> QED
    BY <1>1, <1>2, <2>1 DEF FileInv, FileFunctions, SubInv, SystemCalls, Exists
<1>4. \A b \in FileAgents \ {a} : SameCall(b)
    BY <1>2 DEF FileInv, FileFunctions, SameCall
<1>5. ArgsInv(a)' /\ OnceInv(a)'
    BY <1>1, <1>2 DEF FileInv, ArgsInv, OnceInv
<1>6. alone'[a] => alone[a]
    BY <1>2
<1>7. alone'[a] => DiskInv(a)' /\ WalkInv(a)'
    BY <1>1, <1>2, <1>6 DEF FileInv, FileFunctions, DiskInv, WalkInv
<1> QED
    BY <1>1, <1>2, <1>3, <1>4, <1>5, <1>7, CallKeeps DEF CallInv

(* A directory that is empty is removed. *)
LEMMA DeleteDirectoryKeeps ==
  ASSUME FileInv, NEW a \in FileAgents, DeleteDirectory(a)
  PROVE  FileInv'
<1>1. fpc[a] = "removeAll" /\ args[a] \in Deletes /\ args[a].path = Sub /\ args[a].tool = "delete"
    BY DEF FileInv, ArgsInv, DeleteDirectory, Deletes
<1>2. /\ alone' = [b \in FileAgents |-> alone[b] /\ b = a] /\ hasSub' = FALSE
      /\ fpc' = [fpc EXCEPT ![a] = "done"] /\ success' = [success EXCEPT ![a] = TRUE]
      /\ \A f \in SubFiles : disk[f] = NoFile
      /\ UNCHANGED <<disk, inode, args, handle, text, todo, out, before, callsMade>>
    BY DEF DeleteDirectory, Touch, Finish, NextCall, Exists
<1>3. FileFunctions' /\ SubInv'
    BY <1>1, <1>2 DEF FileInv, FileFunctions, SubInv, SystemCalls, Exists
<1>4. \A b \in FileAgents \ {a} : SameCall(b)
    BY <1>2 DEF FileInv, FileFunctions, SameCall
<1>5. fpc'[a] = "done" /\ (alone'[a] => alone[a])
    BY <1>2 DEF FileInv, FileFunctions
<1>6. ArgsInv(a)' /\ OnceInv(a)'
    BY <1>1, <1>2, <1>5 DEF FileInv, ArgsInv, OnceInv, Inputs
<1>7. alone'[a] => disk = [f \in FileNames |-> IF f \in SubFiles THEN NoFile ELSE before[a][f]]
    BY <1>1, <1>2, <1>5 DEF FileInv, FileFunctions, DiskInv
<1>8. alone'[a] => DiskInv(a)' /\ WalkInv(a)' /\ Exact(a)'
    BY <1>1, <1>2, <1>5, <1>7, FileAssumption DEF DiskInv, WalkInv, Exact
<1> QED
    BY <1>3, <1>4, <1>6, <1>8, CallKeeps DEF CallInv

(* The entries of a directory are what is there. *)
LEMMA EntriesAreBelow ==
  ASSUME FileInv, NEW p \in {Top, Sub}
  PROVE  /\ Entries(p) \subseteq FileNames \cup {Sub} /\ IsFiniteSet(Entries(p))
         /\ Entries(p) \ {Sub} \subseteq Below(disk, p)
         /\ \A f \in Below(disk, p) : f \in Entries(p) \/ (f \in SubFiles /\ Sub \in Entries(p))
         /\ Sub \in Entries(p) => p = Top /\ Entries(p) \cap SubFiles = {}
         /\ \A f \in Below(disk, p) : f \notin SubFiles => f \in Entries(p)
<1>1. Entries(p) \subseteq FileNames \cup {Sub}
    BY DEF Entries, FileNames
<1>2. IsFiniteSet(Entries(p))
  <2>1. IsFiniteSet(FileNames \cup {Sub})
    BY FileAssumption, FS_AddElement
  <2>2. Entries(p) \in SUBSET (FileNames \cup {Sub})
    BY <1>1
  <2> QED
    BY <2>1, <2>2, FS_Subset
<1>3. Top # Sub
    BY DEF Top, Sub
<1> QED
    BY <1>1, <1>2, <1>3, FileAssumption DEF FileInv, SubInv, Entries, Below, FileNames

(* The first results of a list. *)
LEMMA ListReadsDirKeeps ==
  ASSUME FileInv, NEW a \in FileAgents, ListReadsDir(a), ~(args[a].path = Sub /\ ~hasSub)
  PROVE  FileInv'
<1> DEFINE in == args[a]
           E == Entries(in.path) \cap in.pattern
           list == SetToSeq(E)
<1>1. /\ fpc[a] = "readDir" /\ in \in Lists /\ in.tool = "list" /\ in.path \in {Top, Sub}
      /\ in.recursive \in BOOLEAN
    BY DEF FileInv, ArgsInv, ListReadsDir, Lists
<1>2. IsFiniteSet(E) /\ E \subseteq FileNames \cup {Sub}
  <2>1. E \in SUBSET Entries(in.path)
    OBVIOUS
  <2> QED
    BY <1>1, <2>1, EntriesAreBelow, FS_Subset
<1>3. list \in Seq(E) /\ IsInjective(list) /\ Range(list) = E
    BY <1>2, SetAsSequence
<1>4. /\ out' = [out EXCEPT ![a] = list]
      /\ \/ in.recursive /\ fpc' = [fpc EXCEPT ![a] = "walk"] /\ success' = success
         \/ ~in.recursive /\ fpc' = [fpc EXCEPT ![a] = "done"] /\ success' = [success EXCEPT ![a] = TRUE]
      /\ UNCHANGED <<disk, hasSub, inode, args, handle, text, todo, before, alone, callsMade>>
    BY DEF ListReadsDir, Finish, NextCall, diskVars
<1> DEFINE below == Below(disk, in.path)
<1>5. /\ E \ {Sub} \subseteq below
      /\ \A f \in below \cap in.pattern : f \in E \/ f \in SubFiles
    BY <1>1, EntriesAreBelow
<1>6. list \in Seq(Reported)
  <2>1. E \subseteq Reported
    BY <1>2 DEF Reported
  <2> HIDE DEF list, E
  <2> QED
    BY <1>3, <2>1
<1>7. alone[a] => disk = before[a] /\ below = Below(before[a], in.path)
    BY <1>1 DEF FileInv, DiskInv, SystemCalls
<1> HIDE DEF list, E, below
<1>8. FileFunctions' /\ SubInv'
    BY <1>4, <1>6 DEF FileInv, FileFunctions, SubInv, SystemCalls, Exists
<1>9. \A b \in FileAgents \ {a} : SameCall(b)
    BY <1>4 DEF FileInv, FileFunctions, SameCall
<1>10. /\ out'[a] = list
       /\ \/ in.recursive /\ fpc'[a] = "walk"
          \/ ~in.recursive /\ fpc'[a] = "done"
    BY <1>4 DEF FileInv, FileFunctions
<1>11. ArgsInv(a)' /\ OnceInv(a)'
    BY <1>1, <1>3, <1>4, <1>10 DEF FileInv, ArgsInv, OnceInv, Inputs
<1>12. alone'[a] => DiskInv(a)'
    BY <1>1, <1>4, <1>7, <1>10 DEF DiskInv
<1>13. alone'[a] => WalkInv(a)'
    BY <1>1, <1>3, <1>4, <1>5, <1>7, <1>10 DEF WalkInv
<1>14. alone'[a] /\ fpc'[a] = "done" => Exact(a)'
    BY <1>1, <1>3, <1>4, <1>5, <1>7, <1>10 DEF Exact
<1> QED
    BY <1>8, <1>9, <1>11, <1>12, <1>13, <1>14, CallKeeps DEF CallInv

(* A hit is in a file below the directory. *)
LEMMA HitsAreBelow ==
  ASSUME NEW d, NEW p, NEW line
  PROVE  \A h \in AllHits(d, p, line) : h[1] \in Below(d, p)
    BY DEF AllHits, Below, Hits

(* A walk begins with the entries of its directory. *)
LEMMA WalkStartsKeeps ==
  ASSUME FileInv, NEW a \in FileAgents, WalkStarts(a)
  PROVE  FileInv'
<1> DEFINE in == args[a]
           E == Entries(in.path)
           below == Below(disk, in.path)
<1>1. /\ fpc[a] = "walk" /\ in \in Searches \cup {l \in Lists : l.recursive}
      /\ in.tool \in {"list", "search"} /\ in.path \in {Top, Sub}
    BY DEF FileInv, ArgsInv, WalkStarts, Lists, Searches
<1>2. /\ todo' = [todo EXCEPT ![a] = E] /\ fpc' = [fpc EXCEPT ![a] = "walking"]
      /\ UNCHANGED <<disk, hasSub, inode, args, handle, text, out, success, before, alone, callsMade>>
    BY DEF WalkStarts, NextCall, diskVars
<1>3. /\ E \in SUBSET (FileNames \cup {Sub})
      /\ \A f \in below : f \in E \/ (f \in SubFiles /\ Sub \in E)
      /\ Sub \in E => E \cap SubFiles = {}
      /\ in.path = Sub => E \subseteq SubFiles
    BY <1>1, EntriesAreBelow DEF Entries
<1>4. alone[a] => disk = before[a] /\ below = Below(before[a], in.path)
    BY <1>1 DEF FileInv, DiskInv, SystemCalls
<1> HIDE DEF E, below
<1>5. FileFunctions' /\ SubInv'
    BY <1>2, <1>3 DEF FileInv, FileFunctions, SubInv, SystemCalls, Exists
<1>6. \A b \in FileAgents \ {a} : SameCall(b)
    BY <1>2 DEF FileInv, FileFunctions, SameCall
<1>7. todo'[a] = E /\ fpc'[a] = "walking" /\ (in.tool = "search" => out[a] = <<>>)
    BY <1>1, <1>2 DEF FileInv, FileFunctions, OnceInv
<1>8. ArgsInv(a)'
    BY <1>1, <1>2, <1>3, <1>7 DEF FileInv, ArgsInv
<1>9. OnceInv(a)'
    BY <1>1, <1>2, <1>3, <1>7 DEF FileInv, OnceInv, Unreported, Range
<1>10. alone'[a] => DiskInv(a)'
    BY <1>1, <1>2, <1>4, <1>7 DEF DiskInv
<1>11. alone'[a] /\ in.tool = "list" => WalkInv(a)'
    BY <1>1, <1>2, <1>3, <1>4, <1>7 DEF FileInv, WalkInv, Pending
<1>12. alone'[a] /\ in.tool = "search" => WalkInv(a)'
    BY <1>1, <1>2, <1>3, <1>4, <1>7, HitsAreBelow DEF WalkInv, Pending, Range
<1> QED
    BY <1>1, <1>5, <1>6, <1>7, <1>8, <1>9, <1>10, <1>11, <1>12, CallKeeps DEF CallInv

(* A walk enters the subdirectory. *)
LEMMA WalkEntersKeeps ==
  ASSUME FileInv, NEW a \in FileAgents, WalkEnters(a)
  PROVE  FileInv'
<1> DEFINE in == args[a]
           E == Entries(Sub)
<1>1. /\ fpc[a] = "walking" /\ Sub \in todo[a] /\ in.tool \in {"list", "search"}
    BY DEF FileInv, ArgsInv, WalkEnters, Lists, Searches
<1>2. /\ todo' = [todo EXCEPT ![a] = (todo[a] \ {Sub}) \cup E]
      /\ UNCHANGED <<disk, hasSub, inode, fpc, args, handle, text, out, success, before, alone, callsMade>>
    BY DEF WalkEnters, diskVars
<1>3. E \subseteq SubFiles /\ Sub \notin E /\ \A f \in SubFiles : Exists(disk, f) => f \in E
    BY FileAssumption DEF FileInv, SubInv, Entries, FileNames
<1>4. alone[a] => disk = before[a]
    BY <1>1 DEF FileInv, DiskInv, SystemCalls
<1> HIDE DEF E
<1>5. FileFunctions' /\ SubInv'
    BY <1>2, <1>3 DEF FileInv, FileFunctions, SubInv, SystemCalls, Exists, FileNames
<1>6. \A b \in FileAgents \ {a} : SameCall(b)
    BY <1>2 DEF FileInv, FileFunctions, SameCall
<1>7. todo'[a] = (todo[a] \ {Sub}) \cup E
    BY <1>2 DEF FileInv, FileFunctions
<1>8. ArgsInv(a)' /\ (alone'[a] => DiskInv(a)')
    BY <1>2, <1>3, <1>7 DEF FileInv, ArgsInv, DiskInv, Appends
<1>9. OnceInv(a)'
    BY <1>1, <1>2, <1>3, <1>7 DEF FileInv, OnceInv, Unreported
<1>10. ASSUME alone[a], NEW f \in Below(before[a], in.path), Pending(a, f) PROVE Pending(a, f)'
    BY <1>3, <1>4, <1>7, <1>10, FileAssumption DEF Pending, Below, FileNames
<1>11. alone'[a] /\ in.tool = "list" => WalkInv(a)'
    BY <1>1, <1>2, <1>10 DEF FileInv, WalkInv
<1>12. alone'[a] /\ in.tool = "search" => WalkInv(a)'
    BY <1>1, <1>2, <1>10, HitsAreBelow DEF FileInv, WalkInv
<1> QED
    BY <1>1, <1>2, <1>5, <1>6, <1>8, <1>9, <1>11, <1>12, CallKeeps DEF CallInv

(* A walk that has nothing left to visit has found everything. *)
LEMMA WalkEndsKeeps ==
  ASSUME FileInv, NEW a \in FileAgents, WalkEnds(a)
  PROVE  FileInv'
<1>1. /\ fpc[a] = "walking" /\ todo[a] = {} /\ args[a] \in Searches \cup {l \in Lists : l.recursive}
      /\ args[a].tool \in {"list", "search"}
    BY DEF FileInv, ArgsInv, WalkEnds, Lists, Searches
<1>2. /\ fpc' = [fpc EXCEPT ![a] = "done"] /\ success' = [success EXCEPT ![a] = TRUE]
      /\ UNCHANGED <<disk, hasSub, inode, args, handle, text, todo, out, before, alone, callsMade>>
    BY DEF WalkEnds, Finish, NextCall, diskVars
<1>3. FileFunctions' /\ SubInv'
    BY <1>2 DEF FileInv, FileFunctions, SubInv, SystemCalls, Exists
<1>4. \A b \in FileAgents \ {a} : SameCall(b)
    BY <1>2 DEF FileInv, FileFunctions, SameCall
<1>5. fpc'[a] = "done"
    BY <1>2 DEF FileInv, FileFunctions
<1>6. ArgsInv(a)' /\ OnceInv(a)'
    BY <1>1, <1>2, <1>5 DEF FileInv, ArgsInv, OnceInv, Inputs
<1>7. alone[a] => disk = before[a]
    BY <1>1 DEF FileInv, DiskInv, SystemCalls
<1>8. alone'[a] => DiskInv(a)' /\ WalkInv(a)'
    BY <1>1, <1>2, <1>5, <1>7 DEF DiskInv, WalkInv
<1>9. alone'[a] /\ args[a].tool = "list" => Exact(a)'
    BY <1>1, <1>2, <1>5, <1>7 DEF FileInv, WalkInv, Exact, Pending
<1>10. alone'[a] /\ args[a].tool = "search" => Exact(a)'
    BY <1>1, <1>2, <1>5, <1>7 DEF FileInv, WalkInv, Exact, Pending
<1> QED
    BY <1>1, <1>3, <1>4, <1>6, <1>8, <1>9, <1>10, CallKeeps DEF CallInv

(* A file is visited, and listed unless it was. *)
LEMMA ListVisitsKeeps ==
  ASSUME FileInv, NEW a \in FileAgents, NEW f \in FileNames, ListVisits(a, f)
  PROVE  FileInv'
<1> DEFINE in == args[a]
           added == Exists(disk, f) /\ Gathers(a, f)
           list == IF added THEN Append(out[a], f) ELSE out[a]
<1>1. /\ fpc[a] = "walking" /\ in.tool = "list" /\ in \in Lists /\ f \in todo[a] /\ f # Sub
      /\ in.path \in {Top, Sub}
    BY DEF FileInv, ArgsInv, ListVisits, Lists, Searches
<1>2. /\ todo' = [todo EXCEPT ![a] = todo[a] \ {f}] /\ out' = [out EXCEPT ![a] = list]
      /\ UNCHANGED <<disk, hasSub, inode, fpc, args, handle, text, success, before, alone, callsMade>>
    BY DEF FileInv, FileFunctions, ListVisits, diskVars
<1>3. out[a] \in Seq(Reported) /\ f \in Reported /\ IsInjective(out[a])
    BY <1>1 DEF FileInv, FileFunctions, OnceInv, Reported
<1>4. /\ list \in Seq(Reported) /\ IsInjective(list)
      /\ Range(list) = Range(out[a]) \cup (IF added THEN {f} ELSE {})
  <2>1. CASE added
    <3>1. <<f>> \in Seq(Reported) /\ Range(<<f>>) = {f} /\ IsInjective(<<f>>) /\ list = out[a] \o <<f>>
      BY <1>3, <2>1 DEF Range, IsInjective
    <3>2. Range(out[a]) \cap Range(<<f>>) = {}
      BY <2>1, <3>1 DEF Gathers
    <3>3. /\ out[a] \o <<f>> \in Seq(Reported) /\ Range(out[a] \o <<f>>) = Range(out[a]) \cup Range(<<f>>)
          /\ IsInjective(out[a]) /\ IsInjective(<<f>>) /\ Range(out[a]) \cap Range(<<f>>) = {}
                => IsInjective(out[a] \o <<f>>)
      BY <1>3, <3>1, ConcatOnce, Zenon
    <3> HIDE DEF list
    <3> QED
      BY <1>3, <2>1, <3>1, <3>2, <3>3
  <2>2. CASE ~added
    BY <1>3, <2>2
  <2> QED
    BY <2>1, <2>2
<1> HIDE DEF list
<1>5. FileFunctions' /\ SubInv'
    BY <1>2, <1>4 DEF FileInv, FileFunctions, SubInv, SystemCalls, Exists
<1>6. \A b \in FileAgents \ {a} : SameCall(b)
    BY <1>2 DEF FileInv, FileFunctions, SameCall
<1>7. todo'[a] = todo[a] \ {f} /\ out'[a] = list
    BY <1>2 DEF FileInv, FileFunctions
<1>8. ArgsInv(a)' /\ (alone'[a] => DiskInv(a)')
    BY <1>2, <1>3, <1>7 DEF FileInv, ArgsInv, DiskInv, Appends
<1>9. OnceInv(a)'
    BY <1>1, <1>2, <1>4, <1>7 DEF OnceInv
<1>10. ASSUME alone'[a] PROVE WalkInv(a)'
  <2>1. disk = before[a]
    BY <1>1, <1>2, <1>10 DEF FileInv, DiskInv, SystemCalls
  <2>2. /\ Range(out[a]) \ {Sub} \subseteq Below(before[a], in.path)
        /\ \A g \in Below(before[a], in.path) \cap in.pattern :
             g \in Range(out[a]) \/ (g \in SubFiles /\ Pending(a, g))
    BY <1>1, <1>2, <1>10 DEF FileInv, WalkInv
  <2>3. added => f \in Below(before[a], in.path)
    BY <2>1, <1>1 DEF Gathers, Below
  <2>4. ASSUME NEW g \in Below(before[a], in.path), g \in in.pattern
        PROVE  g \in Range(list) \/ (g \in SubFiles /\ Pending(a, g)')
    <3>1. CASE g = f
      <4>1. Exists(disk, f)
        BY <2>1, <2>4, <3>1 DEF Below
      <4> QED
        BY <1>4, <2>2, <2>4, <3>1, <4>1 DEF Gathers
    <3>2. CASE g # f
      BY <1>1, <1>4, <1>7, <2>2, <2>4, <3>2 DEF Pending
    <3> QED
      BY <3>1, <3>2
  <2> QED
    BY <1>1, <1>2, <1>4, <1>7, <2>2, <2>3, <2>4 DEF WalkInv
<1> QED
    BY <1>1, <1>2, <1>5, <1>6, <1>8, <1>9, <1>10, CallKeeps DEF CallInv

(* The hits in a file, and none in any other. *)
LEMMA HitsOfFile ==
  ASSUME NEW d, NEW p, NEW line, NEW f \in Below(d, p)
  PROVE  \A h : h[1] = f /\ h \in AllHits(d, p, line) =>
                  Len(d[f]) <= MaxFileSize /\ h \in Hits(f, Matches(d[f], line))
    BY DEF AllHits, Below, Hits

(* A file is searched. *)
LEMMA SearchVisitsKeeps ==
  ASSUME FileInv, NEW a \in FileAgents, NEW f \in FileNames, SearchVisits(a, f)
  PROVE  FileInv'
<1> DEFINE in == args[a]
           searched == Exists(disk, f) /\ Len(disk[f]) <= MaxFileSize
           places == IF searched THEN Matches(disk[f], in.line) ELSE {}
           room == MaxResults - Len(out[a])
           rest == todo[a] \ {f}
           first == FirstOf(room, places)
           found == SetToSeq(Hits(f, first))
           next == IF Cardinality(places) > room THEN SkipDirOf(f, rest) ELSE rest
           list == out[a] \o found
<1>1. /\ fpc[a] = "walking" /\ in.tool = "search" /\ in \in Searches /\ f \in todo[a] /\ f # Sub
      /\ in.path \in {Top, Sub}
    BY DEF FileInv, ArgsInv, SearchVisits, Lists, Searches
<1>2. /\ todo' = [todo EXCEPT ![a] = next] /\ out' = [out EXCEPT ![a] = list]
      /\ UNCHANGED <<disk, hasSub, inode, fpc, args, handle, text, success, before, alone, callsMade>>
    BY DEF SearchVisits, diskVars
<1>3. /\ out[a] \in Seq(FileNames \X Nat) /\ IsInjective(out[a]) /\ room \in Nat /\ Len(out[a]) \in Nat
      /\ \A h \in Range(out[a]) : h[1] # f
  <2>1. out[a] \in Seq(Reported) /\ IsInjective(out[a]) /\ Len(out[a]) <= MaxResults
        /\ Range(out[a]) \subseteq FileNames \X Nat /\ \A h \in Range(out[a]) : h[1] # f
    BY <1>1 DEF FileInv, FileFunctions, OnceInv, Unreported
  <2>2. out[a] \in Seq(FileNames \X Nat) /\ Len(out[a]) \in Nat
    BY <2>1 DEF Range
  <2> QED
    BY <2>1, <2>2, FileAssumption
<1>4. places \in SUBSET Nat /\ IsFiniteSet(places)
  <2>1. CASE searched
    <3>1. disk[f] \in Seq(Lines)
      BY <2>1 DEF FileInv, FileFunctions, Exists
    <3>2. DOMAIN disk[f] = 1 .. Len(disk[f]) /\ Len(disk[f]) \in Nat
      BY <3>1
    <3>3. IsFiniteSet(1 .. Len(disk[f]))
      BY <3>2, FS_Interval
    <3>4. places \in SUBSET (1 .. Len(disk[f]))
      BY <2>1, <3>2 DEF Matches
    <3> QED
      BY <3>2, <3>3, <3>4, FS_Subset
  <2>2. CASE ~searched
    BY <2>2, FS_EmptySet
  <2> QED
    BY <2>1, <2>2
<1> HIDE DEF places, room
<1>5. /\ first \subseteq places /\ IsFiniteSet(first) /\ Cardinality(places) \in Nat
      /\ Cardinality(places) <= room => first = places
      /\ Cardinality(places) > room => Cardinality(first) = room
    BY <1>3, <1>4, FirstPlaces
<1> HIDE DEF first
<1>6. /\ found \in Seq(FileNames \X Nat) /\ Len(found) = Cardinality(first)
      /\ IsInjective(found) /\ Range(found) = Hits(f, first)
  <2>1. IsFiniteSet(Hits(f, first)) /\ Cardinality(Hits(f, first)) = Cardinality(first)
    BY <1>5, HitsCount
  <2>2. Hits(f, first) \subseteq FileNames \X Nat
    BY <1>4, <1>5 DEF Hits
  <2>3. found \in Seq(Hits(f, first)) /\ Len(found) = Cardinality(Hits(f, first))
        /\ IsInjective(found) /\ Range(found) = Hits(f, first)
    BY <2>1, SetAsSequence
  <2> HIDE DEF found
  <2> QED
    BY <2>1, <2>2, <2>3
<1> HIDE DEF found
<1>7. /\ list \in Seq(FileNames \X Nat) /\ Len(list) = Len(out[a]) + Cardinality(first)
      /\ Range(list) = Range(out[a]) \cup Hits(f, first) /\ IsInjective(list)
  <2>1. Range(out[a]) \cap Range(found) = {}
    BY <1>3, <1>6 DEF Hits
  <2>2. out[a] \in Seq(FileNames \X Nat) /\ found \in Seq(FileNames \X Nat)
    BY <1>3, <1>6
  <2>3. /\ out[a] \o found \in Seq(FileNames \X Nat) /\ Len(out[a] \o found) = Len(out[a]) + Len(found)
        /\ Range(out[a] \o found) = Range(out[a]) \cup Range(found)
        /\ IsInjective(out[a]) /\ IsInjective(found) /\ Range(out[a]) \cap Range(found) = {}
              => IsInjective(out[a] \o found)
    BY <2>2, ConcatOnce, Zenon
  <2> QED
    BY <1>3, <1>6, <2>1, <2>3
<1>8. /\ Len(list) <= MaxResults
      /\ Len(list) < MaxResults => Len(out[a]) < MaxResults /\ first = places /\ next = rest
  <2>1. Cardinality(first) \in Nat /\ MaxResults \in Nat /\ room = MaxResults - Len(out[a])
    BY <1>5, FS_CardinalityType, FileAssumption DEF room
  <2>2. CASE Cardinality(places) > room
    BY <1>3, <1>5, <1>7, <2>1, <2>2
  <2>3. CASE ~(Cardinality(places) > room)
    BY <1>3, <1>5, <1>7, <2>1, <2>3
  <2> QED
    BY <2>2, <2>3
<1>9. next \subseteq rest
    BY DEF SkipDirOf
<1> HIDE DEF list, next
<1>10. FileFunctions' /\ SubInv'
  <2>1. list \in Seq(Reported)
    BY <1>7 DEF Reported
  <2>2. next \in SUBSET (FileNames \cup {Sub})
    BY <1>9 DEF FileInv, FileFunctions
  <2> QED
    BY <1>2, <2>1, <2>2 DEF FileInv, FileFunctions, SubInv, SystemCalls, Exists
<1>11. \A b \in FileAgents \ {a} : SameCall(b)
    BY <1>2 DEF FileInv, FileFunctions, SameCall
<1>12. todo'[a] = next /\ out'[a] = list
    BY <1>2 DEF FileInv, FileFunctions
<1>13. ArgsInv(a)' /\ (alone'[a] => DiskInv(a)')
    BY <1>2, <1>9, <1>12 DEF FileInv, ArgsInv, DiskInv, Appends
<1>14. OnceInv(a)'
  <2>1. Range(list) \subseteq FileNames \X Nat
    BY <1>7 DEF Range
  <2>2. \A h \in Hits(f, first) : h[1] = f
    BY DEF Hits
  <2>3. \A g \in todo[a] : Unreported(a, g)
    BY <1>1 DEF FileInv, OnceInv
  <2>4. Sub \in todo[a] => todo[a] \cap SubFiles = {} /\ \A g \in SubFiles : Unreported(a, g)
    BY <1>1 DEF FileInv, OnceInv
  <2>5. \A g \in next : \A h \in Range(list) : h[1] # g
    BY <1>7, <1>9, <2>2, <2>3 DEF Unreported
  <2>6. Sub \in next => next \cap SubFiles = {} /\ \A g \in SubFiles : \A h \in Range(list) : h[1] # g
    BY <1>1, <1>7, <1>9, <2>2, <2>4 DEF Unreported
  <2> QED
    BY <1>1, <1>2, <1>7, <1>8, <1>12, <2>1, <2>5, <2>6 DEF OnceInv, Unreported
<1>15. ASSUME alone'[a] PROVE WalkInv(a)'
  <2> DEFINE was == before[a]
             all == AllHits(was, in.path, in.line)
  <2>1. disk = was
    BY <1>1, <1>2, <1>15 DEF FileInv, DiskInv, SystemCalls
  <2>2. /\ Range(out[a]) \subseteq all
        /\ Len(out[a]) < MaxResults => \A h \in all : h \in Range(out[a]) \/ Pending(a, h[1])
    BY <1>1, <1>2, <1>15 DEF FileInv, WalkInv
  <2>3. Hits(f, first) \subseteq all
    <3>1. f \in IF in.path = Sub THEN SubFiles ELSE FileNames
      BY <1>1 DEF FileInv, ArgsInv
    <3>2. Hits(f, first) # {} => searched /\ Hits(f, first) \subseteq Hits(f, Matches(disk[f], in.line))
      BY <1>5 DEF places, Hits
    <3> QED
      BY <2>1, <3>1, <3>2 DEF AllHits
  <2>4. ASSUME Len(list) < MaxResults, NEW h \in all PROVE h \in Range(list) \/ Pending(a, h[1])'
    <3>1. CASE h[1] = f
      BY <1>7, <1>8, <2>1, <2>4, <3>1, HitsOfFile, HitsAreBelow DEF places, Below
    <3>2. CASE h[1] # f
      BY <1>1, <1>7, <1>8, <1>12, <2>2, <2>4, <3>2 DEF Pending
    <3> QED
      BY <3>1, <3>2
  <2> HIDE DEF all
  <2>5. Range(list) \subseteq all
    BY <1>7, <2>2, <2>3
  <2> QED
    BY <1>1, <1>2, <1>12, <2>4, <2>5 DEF WalkInv, all
<1> QED
    BY <1>1, <1>2, <1>10, <1>11, <1>13, <1>14, <1>15, CallKeeps DEF CallInv

(* A system call of a tool keeps the invariant, done or refused. *)
LEMMA ToolStepKeeps ==
  ASSUME FileInv, NEW a \in FileAgents, ToolSteps(a)
  PROVE  FileInv'
<1>1. CASE StatRefuses(a)
    BY <1>1, FailsKeep DEF StatRefuses, diskVars
<1>2. CASE StatAllows(a)
    BY <1>2, StatAllowsKeeps
<1>3. CASE ReadFile(a)
  <2>1. CASE Exists(disk, args[a].path)
    BY <1>3, <2>1, ReadFileKeeps
  <2>2. CASE ~Exists(disk, args[a].path)
    BY <1>3, <2>2, FailsKeep DEF ReadFile, diskVars
  <2> QED
    BY <2>1, <2>2
<1>4. CASE EditReads(a)
  <2>1. CASE Exists(disk, args[a].path) /\ args[a].line \in Range(disk[args[a].path])
    BY <1>4, <2>1, EditReadsKeeps
  <2>2. CASE ~(Exists(disk, args[a].path) /\ args[a].line \in Range(disk[args[a].path]))
    BY <1>4, <2>2, FailsKeep DEF EditReads, diskVars
  <2> QED
    BY <2>1, <2>2
<1>5. CASE WriteMkdir(a)
    BY <1>5, WriteMkdirKeeps
<1>6. CASE OpenForWrite(a)
  <2>1. CASE ~(args[a].path \in SubFiles /\ ~hasSub)
    BY <1>6, <2>1, OpenForWriteKeeps
  <2>2. CASE args[a].path \in SubFiles /\ ~hasSub
    BY <1>6, <2>2, FailsKeep DEF OpenForWrite
  <2> QED
    BY <2>1, <2>2
<1>7. CASE \E ok \in BOOLEAN : WriteAll(a, ok)
    BY <1>7, WriteAllKeeps
<1>8. CASE DeleteStat(a)
  <2> DEFINE there == IF args[a].path = Sub THEN hasSub /\ args[a].recursive ELSE Exists(disk, args[a].path)
  <2>1. CASE there
    BY <1>8, <2>1, DeleteStatKeeps
  <2>2. CASE ~there
    BY <1>8, <2>2, FailsKeep DEF DeleteStat, diskVars
  <2> QED
    BY <2>1, <2>2
<1>9. CASE DeleteRemoves(a)
  <2>1. CASE Exists(disk, args[a].path)
    BY <1>9, <2>1, DeleteRemovesKeeps
  <2>2. CASE ~Exists(disk, args[a].path)
    BY <1>9, <2>2, FailsKeep DEF DeleteRemoves
  <2> QED
    BY <2>1, <2>2
<1>10. CASE DeleteDirectory(a)
    BY <1>10, DeleteDirectoryKeeps
<1>11. CASE ListReadsDir(a)
  <2>1. CASE ~(args[a].path = Sub /\ ~hasSub)
    BY <1>11, <2>1, ListReadsDirKeeps
  <2>2. CASE args[a].path = Sub /\ ~hasSub
    BY <1>11, <2>2, FailsKeep DEF ListReadsDir, diskVars
  <2> QED
    BY <2>1, <2>2
<1>12. CASE WalkStarts(a) \/ WalkEnters(a) \/ WalkEnds(a)
    BY <1>12, WalkStartsKeeps, WalkEntersKeeps, WalkEndsKeeps
<1>13. CASE \E f \in FileNames : RemoveEntry(a, f) \/ ListVisits(a, f) \/ SearchVisits(a, f)
    BY <1>13, RemoveEntryKeeps, ListVisitsKeeps, SearchVisitsKeeps
<1> QED
    BY <1>1, <1>2, <1>3, <1>4, <1>5, <1>6, <1>7, <1>8, <1>9, <1>10, <1>11, <1>12, <1>13 DEF ToolSteps

(* Each call has at hand what its next system call needs, a walk has yet to  *)
(* visit what it has not reported, and a call that nobody disturbed is as    *)
(* far as the system calls that it made.                                     *)
THEOREM FileInvariant == FileSpec => []FileInv
<1>1. FileInit => FileInv
  <2> SUFFICES ASSUME FileInit PROVE FileInv
    OBVIOUS
  <2>1. disk \in [FileNames -> {NoFile} \cup Seq(Lines)]
    <3>1. <<FirstLine>> \in Seq(Lines) /\ <<FirstLine, FirstLine>> \in Seq(Lines)
      BY FileAssumption
    <3> HIDE DEF NoFile
    <3> QED
      BY <3>1 DEF FileInit
  <2>2. FileFunctions
    BY <2>1, FileAssumption DEF FileInit, FileFunctions, SystemCalls
  <2>3. SubInv
    BY DEF FileInit, SubInv
  <2>4. ASSUME NEW a \in FileAgents PROVE CallInv(a)
    BY DEF FileInit, CallInv, ArgsInv, OnceInv, NoArgs
  <2> QED
    BY <2>2, <2>3, <2>4, CallByCall
<1>2. FileInv /\ [FileNext]_fileVars => FileInv'
  <2> SUFFICES ASSUME FileInv, [FileNext]_fileVars PROVE FileInv'
    OBVIOUS
  <2>1. CASE UNCHANGED fileVars
    <3>1. FileFunctions' /\ SubInv'
      BY <2>1 DEF FileInv, FileFunctions, SubInv, fileVars, Exists
    <3>2. \A a \in FileAgents : SameCall(a)
      BY <2>1 DEF SameCall, fileVars
    <3>3. \A a \in FileAgents : CallInv(a)'
      BY <3>2, CallByCall, OthersKeep
    <3> QED
      BY <3>1, <3>3 DEF FileInv, CallInv, UndisturbedIsExact
  <2>2. ASSUME NEW a \in FileAgents, ToolCalls(a) PROVE FileInv'
    BY <2>2, CallToolKeeps DEF ToolCalls, CallReadFile, CallWriteFile, CallEditFile, CallDeleteFile,
       CallListFiles, CallSearchFiles, Inputs
  <2> QED
    BY <2>1, <2>2, ToolStepKeeps, ToolAnsweredKeeps DEF FileNext
<1> QED
    BY <1>1, <1>2, PTL DEF FileSpec

(* A call that is answered with success, and that no other call disturbed,   *)
(* did exactly what it says: what it read, wrote, replaced, deleted, listed  *)
(* and found is what was there when it began.                                *)
THEOREM UndisturbedCallsAreExact == FileSpec => []UndisturbedIsExact
<1>1. FileInv => UndisturbedIsExact
    BY DEF FileInv
<1> QED
    BY <1>1, FileInvariant, PTL

(* Whatever the other tools do to the directory meanwhile, a list names no   *)
(* path twice, and a search reports no line twice and no more than           *)
(* max_results of them.                                                      *)
THEOREM NothingIsReportedTwice == FileSpec => []ReportedOnce
<1>1. FileInv => ReportedOnce
  <2> SUFFICES ASSUME FileInv, NEW a \in FileAgents, args[a].tool \in {"list", "search"}
               PROVE  /\ Cardinality(Range(out[a])) = Len(out[a])
                      /\ args[a].tool = "search" => Len(out[a]) <= MaxResults
    BY DEF ReportedOnce
  <2>1. out[a] \in Seq(Reported) /\ IsInjective(out[a])
    BY DEF FileInv, FileFunctions, OnceInv
  <2>2. Cardinality(Range(out[a])) = Len(out[a])
    BY <2>1, InjectiveCounts
  <2> QED
    BY <2>2 DEF FileInv, OnceInv
<1> QED
    BY <1>1, FileInvariant, PTL
=============================================================================
