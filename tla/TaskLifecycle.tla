---------------------------- MODULE TaskLifecycle ----------------------------
(***************************************************************************)
(* The life of a task, from TaskService.Submit through the outbox          *)
(* processor of cmd/server and the orchestrator's agent sessions to a      *)
(* terminal status, on one or more servers that share one database.        *)
(*                                                                         *)
(* Threads are the goroutines of the program: the outbox processor of each *)
(* server, the agent sessions the orchestrator spawns, and the handlers of *)
(* client requests.  A thread interleaves with the others between any two  *)
(* of its database operations.  The repositories use the ent client and    *)
(* not the transaction they are called under, so a row changes as soon as  *)
(* UpdateStatus or Create returns; only the outbox insert belongs to the   *)
(* transaction and waits for its commit.                                   *)
(*                                                                         *)
(* An in-memory domain.Task belongs to one thread here.  Parallel sessions *)
(* of one multi-subtask task share theirs in the program, but no such      *)
(* session ever reaches an assignment to it: the task is still pending, so *)
(* executeAgentSession skips TransitionTo and its UpdateStatus expects a   *)
(* version below the stored one.                                           *)
(***************************************************************************)
EXTENDS TaskStateMachine, FiniteSets

CONSTANTS Tasks,            \* task identifiers (each is the ULID of one Submit)
          Servers,          \* server processes; a server names its outbox processor
          Sessions,         \* agent session identifiers, the bound on sessions ever created
          Requests,         \* request handler identifiers, the bound on requests ever made
          None,             \* no server, no event, no session
          Subtasks,         \* Subtasks[t]: the subtask rows of task t
          ReadySubtasks,    \* ReadySubtasks[t]: those without dependencies
          BatchLimit,       \* the processor's Limit(10)
          GuardianEnabled,  \* a guardian is wired and Config.GuardianEnabled is set
          DBFaults,         \* a database operation may return an error
          Crashes           \* a server process may die and be restarted

Threads == Servers \cup Sessions \cup Requests

ASSUME ThreadsDisjoint ==
    /\ Servers \cap Sessions = {}
    /\ Servers \cap Requests = {}
    /\ Sessions \cap Requests = {}
    /\ None \notin Threads

ASSUME SubtasksAssumption ==
    \A t \in Tasks : ReadySubtasks[t] \subseteq Subtasks[t]

ASSUME ConfigAssumption ==
    /\ BatchLimit \in Nat \ {0}
    /\ GuardianEnabled \in BOOLEAN
    /\ DBFaults \in BOOLEAN
    /\ Crashes \in BOOLEAN

VARIABLES
    status, version,    \* the task table, as in TaskSpec
    outbox,             \* committed outbox rows, by idempotency key
    processed,          \* tasks whose TaskSubmittedV1 row has status "processed"
    issued,             \* task identifiers generated so far
    pc,                 \* pc[p]: where thread p is
    srv,                \* srv[p]: the server thread p runs on
    task, mstat, mver,  \* the thread's in-memory task: id, Status, Version
    op, evver,          \* the operation the thread is in, its event's version
    tx,                 \* tx[p]: none, open, written (event inserted) or aborted
    sstat,              \* sstat[p]: agentSession.Status of session p
    batch, todo,        \* the processor's fetched rows, its subtasks still to start
    child               \* the session the processor is starting

rowVars  == <<status, version>>
boxVars  == <<outbox, processed>>
memVars  == <<srv, task, mstat, mver, op, evver>>
procVars == <<batch, todo, child>>
vars == <<rowVars, boxVars, issued, pc, memVars, tx, sstat, procVars>>

-----------------------------------------------------------------------------
(* What each operation writes. *)

Target ==
    [Dispatch |-> "dispatched", Start |-> "running", Confirm |-> "confirming",
     Complete |-> "completed", Fail |-> "failed",
     CancelTask |-> "cancelled", Cancel |-> "cancelled"]

(* Mutant: a failure is published under the completion's event type. *)
FailurePublishedAsCompletion ==
    [Submit |-> "TaskSubmittedV1", Dispatch |-> "TaskAssignedV1",
     Assign |-> "TaskAssignedV1", Start |-> "TaskStartedV1",
     Complete |-> "TaskCompletedV1", Fail |-> "TaskCompletedV1",
     CancelTask |-> "TaskCancelledV1", Cancel |-> "TaskCancelledV1",
     Retry |-> "TaskRetriedV1", Confirm |-> "none", idle |-> "none"]

EventType ==
    [Submit |-> "TaskSubmittedV1", Dispatch |-> "TaskAssignedV1",
     Assign |-> "TaskAssignedV1", Start |-> "TaskStartedV1",
     Complete |-> "TaskCompletedV1", Fail |-> "TaskFailedV1",
     CancelTask |-> "TaskCancelledV1", Cancel |-> "TaskCancelledV1",
     Retry |-> "TaskRetriedV1", Confirm |-> "none", idle |-> "none"]

Operations  == DOMAIN EventType
Events      == Tasks \X {EventType[o] : o \in Operations} \X Nat
PCs ==
    {"idle", "poll", "loop", "created", "begin", "begintx", "create",
     "write", "update", "retryupdate", "commit", "started", "approval", "agent",
     "succeeded", "failing", "done", "dead", "ok", "err", "panic"}
Finished == {"idle", "done", "dead", "ok", "err", "panic"}

(* The idempotency key "aggregateID:eventType:version" of the thread's event. *)
IdempotencyKey(p) == <<task[p], EventType[op[p]], evver[p]>>

SubmittedEvent(t) == <<t, "TaskSubmittedV1", 1>>

(* Mutant: a request swallows the error of a transaction step. *)
ErrorSwallowed(p) == IF p \in Servers THEN "loop" ELSE IF p \in Sessions THEN "dead" ELSE "ok"

(* Where the caller goes with the error of a transaction step: the processor *)
(* logs it and goes on, a session goroutine returns, a request answers.      *)
FailurePC(p) == IF p \in Servers THEN "loop" ELSE IF p \in Sessions THEN "dead" ELSE "err"

Goto(p, to) == pc' = [pc EXCEPT ![p] = to]

-----------------------------------------------------------------------------
(* The transaction steps every handler is made of. *)

(* Storage.BeginTx.  Submit goes on with Create, service Cancel with         *)
(* UpdateStatus, Retry with Update, the orchestrator with the outbox write.  *)
BeginTx(p) ==
    /\ pc[p] = "begintx"
    /\ \/ /\ tx' = [tx EXCEPT ![p] = "open"]
          /\ Goto(p, CASE op[p] = "Submit" -> "create"
                       [] op[p] = "Cancel" -> "update"
                       [] op[p] = "Retry"  -> "retryupdate"
                       [] OTHER            -> "write")
       \/ /\ DBFaults
          /\ Goto(p, FailurePC(p))
          /\ UNCHANGED tx
    /\ UNCHANGED <<rowVars, boxVars, issued, memVars, sstat, procVars>>

(* TaskRepository.Create: the row is visible at once. *)
Create(p) ==
    /\ pc[p] = "create"
    /\ \/ /\ status' = [status EXCEPT ![task[p]] = "pending"]
          /\ version' = [version EXCEPT ![task[p]] = 1]
          /\ Goto(p, "write")
          /\ UNCHANGED tx
       \/ /\ DBFaults
          /\ \/ UNCHANGED rowVars
             \/ /\ status' = [status EXCEPT ![task[p]] = "pending"]
                /\ version' = [version EXCEPT ![task[p]] = 1]
          /\ tx' = [tx EXCEPT ![p] = "none"]
          /\ Goto(p, FailurePC(p))
    /\ UNCHANGED <<boxVars, issued, memVars, sstat, procVars>>

(* Mutant: CancelTask commits its event without updating the row. *)
WriteThenCommit(p) ==
    /\ pc[p] = "write"
    /\ \A q \in Threads \ {p} :
          tx[q] = "written" => IdempotencyKey(q) # IdempotencyKey(p)
    /\ tx' = [tx EXCEPT ![p] =
                 IF IdempotencyKey(p) \in outbox THEN "aborted" ELSE "written"]
    /\ Goto(p, IF op[p] \in {"Submit", "Assign", "Cancel", "CancelTask"}
                 THEN "commit" ELSE "update")
    /\ UNCHANGED <<rowVars, boxVars, issued, memVars, sstat, procVars>>

(* OutboxWriter.Write: an insert under the unique idempotency key.  It waits *)
(* for an open transaction that inserted the same key.  A duplicate of a     *)
(* committed key is reported as success, but PostgreSQL has aborted the      *)
(* transaction.                                                              *)
Write(p) ==
    /\ pc[p] = "write"
    /\ \A q \in Threads \ {p} :
          tx[q] = "written" => IdempotencyKey(q) # IdempotencyKey(p)
    /\ \/ /\ tx' = [tx EXCEPT ![p] =
                       IF IdempotencyKey(p) \in outbox THEN "aborted" ELSE "written"]
          /\ Goto(p, IF op[p] \in {"Submit", "Assign", "Cancel"} THEN "commit" ELSE "update")
       \/ /\ DBFaults
          /\ tx' = [tx EXCEPT ![p] = "none"]
          /\ Goto(p, FailurePC(p))
    /\ UNCHANGED <<rowVars, boxVars, issued, memVars, sstat, procVars>>

(* Mutant: the WHERE clause accepts every later version too. *)
VersionAtLeast(p) == version[task[p]] >= mver[p] - 1

(* The WHERE clause of UpdateStatus: the stored version is expectedVersion-1. *)
VersionMatches(p) == version[task[p]] = mver[p] - 1

(* Mutant: the statement sets the status and forgets the version. *)
SetStatusOnly(p) ==
    /\ status' = [status EXCEPT ![task[p]] = Target[op[p]]]
    /\ UNCHANGED version

SetRow(p) ==
    /\ status' = [status EXCEPT ![task[p]] = Target[op[p]]]
    /\ version' = [version EXCEPT ![task[p]] = mver[p]]

(* After an UpdateStatus that failed the caller rolls back and returns; the  *)
(* guardian branch only logs; service Cancel reads a field of the nil task   *)
(* that came with the optimistic-lock error.                                 *)
UpdateFailedPC(p, lockError) ==
    IF op[p] = "Confirm" THEN "approval"
    ELSE IF op[p] = "Cancel" /\ lockError THEN "panic" ELSE FailurePC(p)

(* TaskRepository.UpdateStatus: one atomic statement outside the transaction. *)
(* A lost reply reports an error for an update that was applied.             *)
UpdateStatus(p) ==
    /\ pc[p] = "update"
    /\ \/ /\ VersionMatches(p)
          /\ SetRow(p)
          /\ Goto(p, CASE op[p] = "Confirm" -> "approval"
                       [] op[p] = "Cancel"  -> "write"
                       [] OTHER             -> "commit")
          /\ UNCHANGED tx
       \/ /\ ~VersionMatches(p)
          /\ tx' = [tx EXCEPT ![p] = "none"]
          /\ Goto(p, UpdateFailedPC(p, TRUE))
          /\ UNCHANGED rowVars
       \/ /\ DBFaults
          /\ \/ UNCHANGED rowVars
             \/ VersionMatches(p) /\ SetRow(p)
          /\ tx' = [tx EXCEPT ![p] = "none"]
          /\ Goto(p, UpdateFailedPC(p, FALSE))
    /\ UNCHANGED <<boxVars, issued, memVars, sstat, procVars>>

(* Mutant: the processor commits the dispatch and never spawns the session. *)
NothingSpawned(p) ==
    /\ Goto(p, IF p \in Servers THEN "loop" ELSE IF p \in Requests THEN "ok"
               ELSE IF op[p] = "Start" THEN "started" ELSE "done")
    /\ UNCHANGED <<mstat, mver>>

(* What follows a successful commit: a request answers, the processor spawns *)
(* the session goroutine with the task it holds, a session goes on.          *)
Committed(p) ==
    IF p \in Servers
      THEN /\ pc' = [pc EXCEPT ![p] = "loop", ![child[p]] = "begin"]
           /\ mstat' = [mstat EXCEPT ![child[p]] = mstat[p]]
           /\ mver' = [mver EXCEPT ![child[p]] = mver[p]]
      ELSE /\ Goto(p, IF p \in Requests THEN "ok"
                      ELSE IF op[p] = "Start" THEN "started" ELSE "done")
           /\ UNCHANGED <<mstat, mver>>

(* PgTransactionManager.Commit: an aborted transaction cannot commit; a lost *)
(* reply reports an error for a transaction that did commit.                 *)
Commit(p) ==
    /\ pc[p] = "commit"
    /\ \/ /\ tx[p] = "written"
          /\ outbox' = outbox \cup {IdempotencyKey(p)}
          /\ Committed(p)
       \/ /\ tx[p] = "aborted" \/ DBFaults
          /\ \/ UNCHANGED outbox
             \/ /\ DBFaults
                /\ tx[p] = "written"
                /\ outbox' = outbox \cup {IdempotencyKey(p)}
          /\ Goto(p, FailurePC(p))
          /\ UNCHANGED <<mstat, mver>>
    /\ tx' = [tx EXCEPT ![p] = "none"]
    /\ UNCHANGED <<rowVars, processed, issued, srv, task, op, evver, sstat, procVars>>

-----------------------------------------------------------------------------
(* TaskService and Orchestrator operations that a client calls.  A request   *)
(* that is rejected before its transaction changes nothing and is left out.  *)

BeginRequest(r, s, t, o, ms, mv, ev) ==
    /\ pc[r] = "idle"
    /\ srv' = [srv EXCEPT ![r] = s]
    /\ task' = [task EXCEPT ![r] = t]
    /\ op' = [op EXCEPT ![r] = o]
    /\ mstat' = [mstat EXCEPT ![r] = ms]
    /\ mver' = [mver EXCEPT ![r] = mv]
    /\ evver' = [evver EXCEPT ![r] = ev]
    /\ Goto(r, "begintx")
    /\ UNCHANGED <<rowVars, boxVars, tx, procVars>>

(* TaskService.Submit, up to its transaction: a fresh ULID, domain.NewTask. *)
Submit(r, s, t) ==
    /\ t \notin issued
    /\ issued' = issued \cup {t}
    /\ BeginRequest(r, s, t, "Submit", "pending", 1, 1)
    /\ UNCHANGED sstat

(* OrchestratorImpl.CancelTask, up to its transaction: the task is read, its *)
(* running sessions on this server are marked cancelled, and the transition  *)
(* is made in memory; the event carries the version before it.               *)
CancelTask(r, s, t) ==
    /\ CanTransition(status[t], "Cancel")
    /\ sstat' = [p \in Sessions |->
                   IF srv[p] = s /\ task[p] = t /\ sstat[p] = "running"
                     THEN "cancelled" ELSE sstat[p]]
    /\ BeginRequest(r, s, t, "CancelTask", Trigger(status[t], "Cancel"),
                    TriggerVersion(status[t], version[t], "Cancel"), version[t])
    /\ UNCHANGED issued

(* TaskService.Cancel, up to its transaction: no TransitionTo, so the version *)
(* handed to UpdateStatus is the one that was read.                          *)
Cancel(r, s, t) ==
    /\ CanTransition(status[t], "Cancel")
    /\ BeginRequest(r, s, t, "Cancel", status[t], version[t], version[t])
    /\ UNCHANGED <<issued, sstat>>

(* TaskService.Retry, up to its transaction. *)
Retry(r, s, t) ==
    /\ status[t] = "failed"
    /\ BeginRequest(r, s, t, "Retry", status[t], version[t], version[t])
    /\ UNCHANGED <<issued, sstat>>

(* TaskRepository.Update as Retry calls it: without a StartedAt in the task  *)
(* it is given it dereferences nil before it saves, and a version conflict   *)
(* ends in the nil task Retry reads; only a database error returns.  The     *)
(* open transaction ends with the request's context.                         *)
RetryUpdate(r) ==
    /\ pc[r] = "retryupdate"
    /\ tx' = [tx EXCEPT ![r] = "none"]
    /\ Goto(r, "panic") \/ (DBFaults /\ Goto(r, "err"))
    /\ UNCHANGED <<rowVars, boxVars, issued, memVars, sstat, procVars>>

-----------------------------------------------------------------------------
(* The outbox processor of server s: startOutboxProcessor, processOutbox.    *)
(* Rows of the other event types are only marked, which nothing else reads;  *)
(* the model follows the TaskSubmittedV1 rows and names each by its task.    *)

PendingSubmissions == {t \in Tasks : SubmittedEvent(t) \in outbox} \ processed

(* A tick: up to BatchLimit pending rows (their order is abstracted). *)
Poll(s) ==
    LET size == IF Cardinality(PendingSubmissions) < BatchLimit
                  THEN Cardinality(PendingSubmissions) ELSE BatchLimit
    IN  /\ pc[s] = "poll"
        /\ batch[s] = {}
        /\ \E B \in SUBSET PendingSubmissions :
              /\ Cardinality(B) = size
              /\ batch' = [batch EXCEPT ![s] = B]
        /\ UNCHANGED <<rowVars, boxVars, issued, pc, memVars, tx, sstat, todo, child>>

(* The loop takes the next row of the batch. *)
Take(s, t) ==
    /\ pc[s] = "poll"
    /\ t \in batch[s]
    /\ batch' = [batch EXCEPT ![s] = @ \ {t}]

(* GetByID returned an error: the row stays pending for a later tick. *)
PostponeTask(s, t) ==
    /\ Take(s, t)
    /\ DBFaults \/ status[t] = "none"
    /\ UNCHANGED <<rowVars, boxVars, issued, pc, memVars, tx, sstat, todo, child>>

(* StartTask returned an error: the task was not pending, or its subtasks    *)
(* could not be listed.                                                      *)
RefuseTask(s, t) ==
    /\ Take(s, t)
    /\ status[t] # "none"
    /\ status[t] # "pending" \/ DBFaults
    /\ task' = [task EXCEPT ![s] = t]
    /\ Goto(s, "loop")
    /\ UNCHANGED <<rowVars, boxVars, issued, srv, mstat, mver, op, evver, tx, sstat, todo, child>>

(* addSession: a fresh entry in this server's session map, never removed. *)
AddSession(s, t, p, st) ==
    /\ pc[p] = "idle"
    /\ pc' = [pc EXCEPT ![p] = "created", ![s] = "begintx"]
    /\ srv' = [srv EXCEPT ![p] = s]
    /\ sstat' = [sstat EXCEPT ![p] = st]
    /\ child' = [child EXCEPT ![s] = p]
    /\ task' = [task EXCEPT ![p] = t, ![s] = t]

(* Mutant: the status is assigned without checking that the task is pending. *)
DispatchUnchecked(s, t, p) ==
    /\ Take(s, t)
    /\ status[t] # "none"
    /\ Subtasks[t] = {}
    /\ AddSession(s, t, p, "running")
    /\ op' = [op EXCEPT ![s] = "Dispatch"]
    /\ mstat' = [mstat EXCEPT ![s] = "dispatched"]
    /\ mver' = [mver EXCEPT ![s] = version[t] + 1]
    /\ evver' = [evver EXCEPT ![s] = version[t]]
    /\ UNCHANGED <<rowVars, boxVars, issued, tx, todo>>

(* StartTask of a task without subtasks: startSingleAgentExecution.  The     *)
(* event carries the version before the transition.                          *)
StartSingleAgentExecution(s, t, p) ==
    /\ Take(s, t)
    /\ status[t] = "pending"
    /\ Subtasks[t] = {}
    /\ AddSession(s, t, p, "running")
    /\ op' = [op EXCEPT ![s] = "Dispatch"]
    /\ mstat' = [mstat EXCEPT ![s] = Trigger(status[t], "Dispatch")]
    /\ mver' = [mver EXCEPT ![s] = TriggerVersion(status[t], version[t], "Dispatch")]
    /\ evver' = [evver EXCEPT ![s] = version[t]]
    /\ UNCHANGED <<rowVars, boxVars, issued, tx, todo>>

(* Mutant: the task is dispatched in memory before its subtasks start. *)
DispatchBeforeSubtasks(s, t) ==
    /\ Take(s, t)
    /\ status[t] = "pending"
    /\ Subtasks[t] # {}
    /\ todo' = [todo EXCEPT ![s] = ReadySubtasks[t]]
    /\ task' = [task EXCEPT ![s] = t]
    /\ mstat' = [mstat EXCEPT ![s] = Trigger(status[t], "Dispatch")]
    /\ mver' = [mver EXCEPT ![s] = TriggerVersion(status[t], version[t], "Dispatch")]
    /\ evver' = [evver EXCEPT ![s] = version[t]]
    /\ Goto(s, "loop")
    /\ UNCHANGED <<rowVars, boxVars, issued, srv, op, tx, sstat, child>>

(* StartTask of a task with subtasks: those without dependencies are started. *)
StartSubtasks(s, t) ==
    /\ Take(s, t)
    /\ status[t] = "pending"
    /\ Subtasks[t] # {}
    /\ todo' = [todo EXCEPT ![s] = ReadySubtasks[t]]
    /\ task' = [task EXCEPT ![s] = t]
    /\ mstat' = [mstat EXCEPT ![s] = status[t]]
    /\ mver' = [mver EXCEPT ![s] = version[t]]
    /\ evver' = [evver EXCEPT ![s] = version[t]]
    /\ Goto(s, "loop")
    /\ UNCHANGED <<rowVars, boxVars, issued, srv, op, tx, sstat, child>>

(* startAgentSession: no transition of the task; every subtask's event has   *)
(* the same idempotency key.                                                 *)
StartAgentSession(s, st, p) ==
    /\ pc[s] = "loop"
    /\ st \in todo[s]
    /\ todo' = [todo EXCEPT ![s] = @ \ {st}]
    /\ op' = [op EXCEPT ![s] = "Assign"]
    /\ AddSession(s, task[s], p, "pending")
    /\ UNCHANGED <<rowVars, boxVars, issued, mstat, mver, evver, tx, batch>>

(* The variables of one round of the processor's loop go out of scope. *)
EndRound(s) ==
    /\ pc' = [pc EXCEPT ![s] = "poll"]
    /\ task' = [task EXCEPT ![s] = None]
    /\ mstat' = [mstat EXCEPT ![s] = "none"]
    /\ mver' = [mver EXCEPT ![s] = 0]
    /\ op' = [op EXCEPT ![s] = "idle"]
    /\ evver' = [evver EXCEPT ![s] = 0]
    /\ child' = [child EXCEPT ![s] = None]

(* The row is marked processed whether or not StartTask succeeded. *)
MarkProcessed(s) ==
    /\ pc[s] = "loop"
    /\ todo[s] = {}
    /\ \/ processed' = processed \cup {task[s]}
       \/ DBFaults /\ UNCHANGED processed
    /\ EndRound(s)
    /\ UNCHANGED <<rowVars, outbox, issued, srv, tx, sstat, batch, todo>>

-----------------------------------------------------------------------------
(* executeAgentSession, the goroutine of session p. *)

(* The event carries the version before StartExecution. *)
ExecuteAgentSession(p) ==
    /\ pc[p] = "begin"
    /\ sstat' = [sstat EXCEPT ![p] = "running"]
    /\ op' = [op EXCEPT ![p] = "Start"]
    /\ evver' = [evver EXCEPT ![p] = mver[p]]
    /\ IF mstat[p] = "dispatched"
         THEN /\ mstat' = [mstat EXCEPT ![p] = Trigger(@, "StartExecution")]
              /\ mver' = [mver EXCEPT ![p] = TriggerVersion(mstat[p], @, "StartExecution")]
         ELSE UNCHANGED <<mstat, mver>>
    /\ Goto(p, "begintx")
    /\ UNCHANGED <<rowVars, boxVars, issued, srv, task, tx, procVars>>

(* NeedsApproval compares the estimated cost with a threshold.               *)
SkipApproval(p) ==
    /\ pc[p] = "started"
    /\ Goto(p, "agent")
    /\ UNCHANGED <<rowVars, boxVars, issued, memVars, tx, sstat, procVars>>

(* RequestConfirmation in memory; its UpdateStatus runs outside any          *)
(* transaction and writes no event.                                          *)
RequestConfirmation(p) ==
    /\ pc[p] = "started"
    /\ GuardianEnabled
    /\ op' = [op EXCEPT ![p] = "Confirm"]
    /\ mstat' = [mstat EXCEPT ![p] = Trigger(@, "RequestConfirmation")]
    /\ mver' = [mver EXCEPT ![p] = TriggerVersion(mstat[p], @, "RequestConfirmation")]
    /\ Goto(p, "update")
    /\ UNCHANGED <<rowVars, boxVars, issued, srv, task, evver, tx, sstat, procVars>>

(* The guardian answers "approve": the event ApprovalGranted is triggered. *)
Approved(p) ==
    /\ pc[p] = "approval"
    /\ mstat' = [mstat EXCEPT ![p] = Trigger(@, "ApprovalGranted")]
    /\ mver' = [mver EXCEPT ![p] = TriggerVersion(mstat[p], @, "ApprovalGranted")]
    /\ Goto(p, "agent")
    /\ UNCHANGED <<rowVars, boxVars, issued, srv, task, op, evver, tx, sstat, procVars>>

(* A rejection, a timeout, an unknown answer, a closed channel or an error. *)
NotApproved(p) ==
    /\ pc[p] = "approval"
    /\ sstat' = [sstat EXCEPT ![p] = "failed"]
    /\ Goto(p, "failing")
    /\ UNCHANGED <<rowVars, boxVars, issued, memVars, tx, procVars>>

(* workerExecutor.Execute or agentRunner.Run returns. *)
RunAgent(p) ==
    /\ pc[p] = "agent"
    /\ \E result \in {"completed", "failed"} :
          /\ sstat' = [sstat EXCEPT ![p] = result]
          /\ Goto(p, IF result = "completed" THEN "succeeded" ELSE "failing")
    /\ UNCHANGED <<rowVars, boxVars, issued, memVars, tx, procVars>>

(* TransitionTo(event), then a domain event with the version it leaves; a    *)
(* refused transition is only logged.                                        *)
Settle(p, o, event) ==
    /\ op' = [op EXCEPT ![p] = o]
    /\ mstat' = [mstat EXCEPT ![p] = Trigger(@, event)]
    /\ mver' = [mver EXCEPT ![p] = TriggerVersion(mstat[p], @, event)]
    /\ evver' = [evver EXCEPT ![p] = TriggerVersion(mstat[p], mver[p], event)]
    /\ Goto(p, "begintx")
    /\ UNCHANGED <<rowVars, boxVars, issued, srv, task, tx, sstat, procVars>>

(* A task another session of the same in-memory task has completed needs no  *)
(* more than the session's own status, which RunAgent has set.               *)
HandleAgentSuccess(p) ==
    /\ pc[p] = "succeeded"
    /\ IF mstat[p] = "completed"
         THEN /\ Goto(p, "done")
              /\ UNCHANGED <<rowVars, boxVars, issued, memVars, tx, sstat, procVars>>
         ELSE Settle(p, "Complete", "AutoComplete")

HandleAgentFailure(p) ==
    /\ pc[p] = "failing"
    /\ Settle(p, "Fail", "ExecutionFailed")

-----------------------------------------------------------------------------
(* The process of server s dies: its goroutines, its session map and its     *)
(* open transactions are gone; the restarted server resumes nothing.         *)
Crash(s) ==
    /\ Crashes
    /\ pc' = [p \in Threads |->
                IF srv[p] # s \/ pc[p] \in Finished THEN pc[p]
                ELSE IF p \in Servers THEN "poll" ELSE "dead"]
    /\ tx' = [p \in Threads |-> IF srv[p] = s THEN "none" ELSE tx[p]]
    /\ sstat' = [p \in Sessions |-> IF srv[p] = s THEN "none" ELSE sstat[p]]
    /\ batch' = [batch EXCEPT ![s] = {}]
    /\ todo' = [todo EXCEPT ![s] = {}]
    /\ UNCHANGED <<rowVars, boxVars, issued, memVars, child>>

-----------------------------------------------------------------------------
Init ==
    /\ status = [t \in Tasks |-> "none"]
    /\ version = [t \in Tasks |-> 0]
    /\ outbox = {}
    /\ processed = {}
    /\ issued = {}
    /\ pc = [p \in Threads |-> IF p \in Servers THEN "poll" ELSE "idle"]
    /\ srv = [p \in Threads |-> IF p \in Servers THEN p ELSE None]
    /\ task = [p \in Threads |-> None]
    /\ mstat = [p \in Threads |-> "none"]
    /\ mver = [p \in Threads |-> 0]
    /\ op = [p \in Threads |-> "idle"]
    /\ evver = [p \in Threads |-> 0]
    /\ tx = [p \in Threads |-> "none"]
    /\ sstat = [p \in Sessions |-> "none"]
    /\ batch = [s \in Servers |-> {}]
    /\ todo = [s \in Servers |-> {}]
    /\ child = [s \in Servers |-> None]

TxStep(p) == BeginTx(p) \/ Create(p) \/ Write(p) \/ UpdateStatus(p) \/ Commit(p) \/ RetryUpdate(p)

Arrive(r) ==
    \E s \in Servers, t \in Tasks :
        Submit(r, s, t) \/ CancelTask(r, s, t) \/ Cancel(r, s, t) \/ Retry(r, s, t)

StartTask(s, t) ==
    \/ PostponeTask(s, t)
    \/ RefuseTask(s, t)
    \/ StartSubtasks(s, t)
    \/ \E p \in Sessions : StartSingleAgentExecution(s, t, p)

ProcessorStep(s) ==
    \/ Poll(s)
    \/ \E t \in batch[s] : StartTask(s, t)
    \/ \E st \in todo[s], p \in Sessions : StartAgentSession(s, st, p)
    \/ MarkProcessed(s)

SessionStep(p) ==
    \/ ExecuteAgentSession(p)
    \/ SkipApproval(p)
    \/ RequestConfirmation(p)
    \/ Approved(p)
    \/ NotApproved(p)
    \/ RunAgent(p)
    \/ HandleAgentSuccess(p)
    \/ HandleAgentFailure(p)

Next ==
    \/ \E p \in Threads : TxStep(p)
    \/ \E r \in Requests : Arrive(r)
    \/ \E s \in Servers : ProcessorStep(s)
    \/ \E p \in Sessions : SessionStep(p)
    \/ \E s \in Servers : Crash(s)

Spec == Init /\ [][Next]_vars

(* The scheduler runs every goroutine that can run, the ticker keeps firing, *)
(* an agent run ends by its SessionTimeout and an approval wait by its       *)
(* timeout.  Nothing obliges a client to make a request or a server to die.  *)
Fairness ==
    /\ \A p \in Threads : WF_vars(TxStep(p))
    /\ \A s \in Servers : WF_vars(ProcessorStep(s))
    /\ \A p \in Sessions : WF_vars(SessionStep(p))

FairSpec == Spec /\ Fairness

-----------------------------------------------------------------------------
(* Properties. *)

TaskIds == Tasks \cup {None}

(* Every variable has its type: the columns, the outbox rows, the thread     *)
(* states and the processor's local variables.                               *)
TypeOK ==
    /\ status \in [Tasks -> TaskStatuses \cup {"none"}]
    /\ version \in [Tasks -> Nat]
    /\ outbox \in SUBSET Events
    /\ processed \in SUBSET Tasks
    /\ issued \in SUBSET Tasks
    /\ pc \in [Threads -> PCs]
    /\ srv \in [Threads -> Servers \cup {None}]
    /\ task \in [Threads -> TaskIds]
    /\ mstat \in [Threads -> TaskStatuses \cup {"none"}]
    /\ mver \in [Threads -> Nat]
    /\ op \in [Threads -> Operations]
    /\ evver \in [Threads -> Nat]
    /\ tx \in [Threads -> {"none", "open", "written", "aborted"}]
    /\ sstat \in [Sessions -> {"none", "pending", "running", "cancelled", "completed", "failed"}]
    /\ batch \in [Servers -> SUBSET Tasks]
    /\ todo \in [Servers -> SUBSET UNION {ReadySubtasks[t] : t \in Tasks}]
    /\ child \in [Servers -> Sessions \cup {None}]

(* The task table is a TaskSpec: through stale reads, concurrent processors, *)
(* cancellations, lost replies and crashes every change of a row is one      *)
(* transition of the table that increments the version by one; in particular *)
(* a terminal status never changes (docs/Cloud-Agent-Platform.md, rule 1).   *)
TS == INSTANCE TaskSpec WITH Tasks <- Tasks, status <- status, version <- version
RefinesTaskSpec == TS!Spec

(* A committed terminal event tells the truth for good: once TaskCompletedV1, *)
(* TaskFailedV1 or TaskCancelledV1 is in the outbox, the task's row has that  *)
(* status and no other terminal event of the task can exist.                 *)
EventStatus ==
    [TaskCompletedV1 |-> "completed", TaskFailedV1 |-> "failed",
     TaskCancelledV1 |-> "cancelled"]
TerminalEventsSound ==
    \A e \in outbox : e[2] \in DOMAIN EventStatus => status[e[1]] = EventStatus[e[2]]

(* A session whose dispatch committed and whose goroutine has not returned. *)
Executing(p) == p \in Sessions /\ pc[p] \notin (Finished \cup {"created"})

(* At most one session goroutine works on a single-agent task, whichever     *)
(* servers saw its TaskSubmittedV1 event and however often.                  *)
ExclusiveExecution ==
    \A p, q \in Sessions :
        Executing(p) /\ Executing(q) /\ task[p] = task[q] /\ Subtasks[task[p]] = {} => p = q

(* A Submit that answered without an error has stored both the task and the  *)
(* event that will start it.                                                 *)
AckedSubmissionDurable ==
    \A r \in Requests :
        pc[r] = "ok" /\ op[r] = "Submit" =>
            status[task[r]] # "none" /\ SubmittedEvent(task[r]) \in outbox

(* Without faults a single-agent task whose event is in the outbox ends in a *)
(* terminal status, cancellations and competing processors included.         *)
SubmittedTerminates ==
    \A t \in Tasks : SubmittedEvent(t) \in outbox ~> IsTerminal(status[t])

(* Without faults a terminal status is announced: UpdateStatus writes the    *)
(* row before the commit of its event, and the commit follows.               *)
Announced(t) ==
    \E e \in outbox : /\ e[1] = t /\ e[2] \in DOMAIN EventStatus
                      /\ EventStatus[e[2]] = status[t]
TerminalAnnounced == \A t \in Tasks : IsTerminal(status[t]) ~> Announced(t)

(* Parallel sessions of a multi-subtask task share one *domain.Task; none of *)
(* them ever writes it, so the sharing is not a data race.                   *)
SharedTaskNotWritten ==
    \A p \in Sessions :
        Executing(p) /\ Subtasks[task[p]] # {} => mstat[p] = "pending"

-----------------------------------------------------------------------------
(* What the documents and comments say and the code does not do. *)

(* No thread is working on task t. *)
Quiescent(t) == \A p \in Threads : task[p] = t => pc[p] \in Finished \cup {"poll"}

(* task_service.go, Submit: the task and its event are written "within the   *)
(* same transaction", so a stored task has its event.                        *)
SubmitAtomic ==
    \A t \in Tasks : Quiescent(t) /\ status[t] # "none" => SubmittedEvent(t) \in outbox

(* orchestrator.go, handleAgentSuccess: "Write outbox event + update status  *)
(* to completed in a single transaction", so a completed task is announced.  *)
CompletionAtomic ==
    \A t \in Tasks : Quiescent(t) /\ status[t] = "completed" => Announced(t)

(* docs/architecture.md: the consumer acknowledges after success and a       *)
(* failed event stays pending for a retry, so a task whose event is          *)
(* acknowledged has left pending.                                            *)
AcknowledgedAfterSuccess ==
    \A t \in Tasks : Quiescent(t) /\ t \in processed => status[t] # "pending"

(* task_service.go, Cancel: "Only tasks in cancellable states (pending,      *)
(* dispatched, running, confirming) can be cancelled": the request answers.  *)
CancelAnswers == \A r \in Requests : op[r] = "Cancel" => pc[r] # "panic"

(* task_service.go, Retry: "retries a failed Task by resetting it to pending *)
(* state": the request answers.                                              *)
RetryAnswers == \A r \in Requests : op[r] = "Retry" => pc[r] # "panic"

(* orchestrator.go, StartTask: "start ALL ready subtasks in parallel": some  *)
(* session of a submitted task with ready subtasks reaches its agent.        *)
SubtasksReachAgent ==
    \A t \in Tasks :
        SubmittedEvent(t) \in outbox ~> \E p \in Sessions : task[p] = t /\ pc[p] = "agent"

(* docs/Cloud-Agent-Platform.md, rule 2: confirming has a timeout, after     *)
(* which the task fails, so confirming is left.                              *)
ConfirmingResolves ==
    \A t \in Tasks : status[t] = "confirming" ~> status[t] # "confirming"

-----------------------------------------------------------------------------
(* The inductive invariant behind the safety properties. *)

ServerPCs  == {"poll", "loop", "begintx", "write", "update", "commit"}
SessionPCs == {"idle", "created", "begin", "begintx", "write", "update", "commit",
               "started", "approval", "agent", "succeeded", "failing", "done", "dead"}
RequestPCs == {"idle", "begintx", "create", "write", "update", "retryupdate",
               "commit", "ok", "err", "panic", "dead"}
InTx == {"begintx", "write", "update", "commit"}

(* Which operation a thread can be in at each of its steps. *)
ServerControl ==
    \A s \in Servers :
        /\ pc[s] \in ServerPCs
        /\ pc[s] \in InTx => op[s] \in {"Dispatch", "Assign"}
        /\ pc[s] = "update" => op[s] = "Dispatch"
SessionControl ==
    \A p \in Sessions :
        /\ pc[p] \in SessionPCs
        /\ pc[p] \in InTx => op[p] \in {"Start", "Confirm", "Complete", "Fail"}
        /\ pc[p] \in InTx /\ op[p] = "Confirm" => pc[p] = "update"
RequestControl ==
    \A r \in Requests :
        /\ pc[r] \in RequestPCs
        /\ pc[r] = "begintx" => op[r] \in {"Submit", "CancelTask", "Cancel", "Retry"}
        /\ pc[r] = "create" => op[r] = "Submit"
        /\ pc[r] \in {"write", "commit"} => op[r] \in {"Submit", "CancelTask"}
        /\ pc[r] = "update" => op[r] \in {"CancelTask", "Cancel"}
        /\ pc[r] = "retryupdate" => op[r] = "Retry"
ControlInv == ServerControl /\ SessionControl /\ RequestControl

(* A thread at work has a task whose row exists, except a Submit that has    *)
(* not stored it yet; no other thread can know that task.                    *)
Submitting(p) == op[p] = "Submit" /\ pc[p] \in {"begintx", "create"}
Working(p) == pc[p] \notin (Finished \cup {"poll"}) /\ ~Submitting(p)
RowInv ==
    /\ \A p \in Threads : Working(p) => task[p] \in Tasks /\ status[task[p]] # "none"
    /\ \A p \in Threads : Submitting(p) =>
          /\ task[p] \in issued
          /\ status[task[p]] = "none"
    /\ \A p, q \in Threads : Submitting(p) /\ Submitting(q) /\ task[p] = task[q] => p = q
    /\ \A t \in Tasks : t \notin issued => status[t] = "none"

(* The in-memory task is what the row was when its version was mver[p]. *)
Fresh(p) ==
    /\ version[task[p]] >= mver[p]
    /\ version[task[p]] = mver[p] => status[task[p]] = mstat[p]

(* The in-memory task is confirming, one version ahead of a row that is      *)
(* still running if it has not moved.                                        *)
Confirming(p) ==
    /\ mstat[p] = "confirming"
    /\ version[task[p]] >= mver[p] - 1
    /\ VersionMatches(p) => status[task[p]] = "running"

(* Before UpdateStatus: if its WHERE clause matches, the step it makes is a  *)
(* transition of the table.                                                  *)
AboutToUpdate(p) ==
    /\ version[task[p]] >= mver[p] - 1
    /\ VersionMatches(p) => Edge(status[task[p]], Target[op[p]])
    /\ op[p] = "Cancel" => version[task[p]] >= mver[p]
    /\ op[p] = "Start" /\ mstat[p] # "running" => version[task[p]] >= mver[p]
    /\ op[p] = "Dispatch" => mstat[p] = "dispatched"
    /\ op[p] = "Confirm" => Confirming(p)

Locked(p) ==
    /\ pc[p] \in {"begintx", "write", "update"} /\ op[p] \in DOMAIN Target => AboutToUpdate(p)
    /\ pc[p] = "commit" /\ op[p] \in {"Dispatch", "Start"} =>
          Fresh(p) /\ mstat[p] = Target[op[p]]
    /\ pc[p] \in {"begintx", "write", "commit"} /\ op[p] = "Assign" => Fresh(p)
    /\ p \in Servers /\ pc[p] = "loop" /\ todo[p] # {} => Fresh(p)
    /\ pc[p] = "begin" => Fresh(p)
    /\ pc[p] = "started" => Fresh(p) /\ mstat[p] = "running"
    /\ pc[p] = "approval" => Confirming(p)
    /\ pc[p] \in {"agent", "succeeded", "failing"} =>
          (Fresh(p) /\ mstat[p] = "running") \/ Confirming(p)
LockInv == \A p \in Threads : Locked(p)

(* A terminal event is committed only after its row was written. *)
TerminalOps == {"Complete", "Fail", "CancelTask"}
EventInv ==
    /\ TerminalEventsSound
    /\ \A p \in Threads : pc[p] = "commit" /\ op[p] \in TerminalOps =>
          status[task[p]] = Target[op[p]]

(* The processor's child is the session it created and has not spawned yet; *)
(* subtasks are left to start only while a task that has subtasks is started. *)
Processing(s) ==
    /\ pc[s] \in InTx =>
          /\ child[s] \in Sessions
          /\ pc[child[s]] = "created"
          /\ srv[child[s]] = s
          /\ task[child[s]] = task[s]
          /\ op[s] = "Dispatch" => Subtasks[task[s]] = {}
          /\ op[s] = "Assign" => Subtasks[task[s]] # {}
    /\ todo[s] # {} => pc[s] # "poll" /\ Subtasks[task[s]] # {}
    /\ srv[s] = s
ProcessorInv == \A s \in Servers : Processing(s)

(* The dispatch of a single-agent task is won at most once: by the processor *)
(* that moved the row out of pending, then by the session it spawned.        *)
Claims(p) ==
    /\ Executing(p) \/ (p \in Servers /\ pc[p] = "commit" /\ op[p] = "Dispatch")
    /\ Subtasks[task[p]] = {}
ClaimInv ==
    /\ \A p \in Threads : Claims(p) => status[task[p]] # "pending"
    /\ \A p, q \in Threads : Claims(p) /\ Claims(q) /\ task[p] = task[q] => p = q

(* Holds in every state and is preserved by every step: with the type        *)
(* invariant, what the optimistic lock, the outbox transaction and the       *)
(* dispatch of a task rely on between two database operations.               *)
InductiveInv ==
    TypeOK /\ ControlInv /\ RowInv /\ LockInv /\ EventInv /\ ProcessorInv /\ ClaimInv

(* A task with subtasks is pending in the memory of the processor while it   *)
(* starts them, and so in every session it spawns.                           *)
StartsSubtasks(s) == (pc[s] = "loop" /\ todo[s] # {}) \/ (pc[s] \in InTx /\ op[s] = "Assign")
SharedInv == SharedTaskNotWritten /\ \A s \in Servers : StartsSubtasks(s) => mstat[s] = "pending"
=============================================================================
