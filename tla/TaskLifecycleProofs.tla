------------------------ MODULE TaskLifecycleProofs ------------------------
(***************************************************************************)
(* Proofs about TaskLifecycle for every set of tasks, servers, sessions    *)
(* and requests, with and without faults, crashes and a guardian.          *)
(***************************************************************************)
EXTENDS TaskLifecycle, TLAPS

-----------------------------------------------------------------------------
(* Facts about the transition table. *)

(* A status that an edge leaves or enters is a task status; nothing leaves a *)
(* terminal status or a missing row, and nothing enters pending.             *)
LEMMA EdgeFacts ==
    ASSUME NEW a, NEW b, Edge(a, b)
    PROVE  /\ a \in TaskStatuses /\ b \in TaskStatuses
           /\ ~IsTerminal(a)
           /\ a # "none" /\ b # "pending"
           /\ b = "dispatched" => a = "pending"
BY DEF Edge, TaskStateMachineDefinition, TaskStatuses, IsTerminal

(* The edges UpdateStatus is called for. *)
LEMMA KnownEdges ==
    /\ Edge("pending", "dispatched")
    /\ Edge("dispatched", "running")
    /\ Edge("running", "confirming")
    /\ Edge("running", "completed")
    /\ Edge("running", "failed")
BY DEF Edge, TaskStateMachineDefinition

(* A lookup by (from, event) finds the one triple of the table with that key. *)
LEMMA Lookup ==
    ASSUME NEW from, NEW event, NEW to,
           <<from, event, to>> \in TaskStateMachineDefinition
    PROVE  CanTransition(from, event) /\ Trigger(from, event) = to
<1> DEFINE tr == CHOOSE x \in TaskStateMachineDefinition : x[1] = from /\ x[2] = event
<1>1. \A x, y \in TaskStateMachineDefinition : x[1] = y[1] /\ x[2] = y[2] => x[3] = y[3]
  BY DEF TaskStateMachineDefinition
<1>2. CanTransition(from, event)
  BY DEF CanTransition
<1>3. tr \in TaskStateMachineDefinition /\ tr[1] = from /\ tr[2] = event
  BY <1>2 DEF CanTransition
<1>4. Trigger(from, event) = tr[3]
  BY <1>2 DEF Trigger
<1> HIDE DEF tr
<1>5. tr[3] = to
  BY <1>1, <1>3
<1> QED
  BY <1>2, <1>4, <1>5

(* What the orchestrator's calls of TransitionTo yield. *)
LEMMA KnownTriggers ==
    /\ CanTransition("pending", "Dispatch") /\ Trigger("pending", "Dispatch") = "dispatched"
    /\ CanTransition("dispatched", "StartExecution")
    /\ Trigger("dispatched", "StartExecution") = "running"
    /\ CanTransition("running", "RequestConfirmation")
    /\ Trigger("running", "RequestConfirmation") = "confirming"
    /\ CanTransition("running", "AutoComplete") /\ Trigger("running", "AutoComplete") = "completed"
    /\ CanTransition("running", "ExecutionFailed") /\ Trigger("running", "ExecutionFailed") = "failed"
    /\ ~CanTransition("confirming", "AutoComplete")
    /\ ~CanTransition("confirming", "ExecutionFailed")
    /\ ~CanTransition("confirming", "ApprovalGranted")
<1>1. /\ <<"pending", "Dispatch", "dispatched">> \in TaskStateMachineDefinition
      /\ <<"dispatched", "StartExecution", "running">> \in TaskStateMachineDefinition
      /\ <<"running", "RequestConfirmation", "confirming">> \in TaskStateMachineDefinition
      /\ <<"running", "AutoComplete", "completed">> \in TaskStateMachineDefinition
      /\ <<"running", "ExecutionFailed", "failed">> \in TaskStateMachineDefinition
  BY DEF TaskStateMachineDefinition
<1>2. /\ ~CanTransition("confirming", "AutoComplete")
      /\ ~CanTransition("confirming", "ExecutionFailed")
      /\ ~CanTransition("confirming", "ApprovalGranted")
  BY DEF CanTransition, TaskStateMachineDefinition
<1> QED
  BY <1>1, <1>2, Lookup

(* A status from which Cancel can be triggered has an edge to cancelled. *)
LEMMA CancelFacts ==
    ASSUME NEW a, CanTransition(a, "Cancel")
    PROVE  Edge(a, "cancelled") /\ Trigger(a, "Cancel") = "cancelled" /\ a # "none"
<1>1. <<a, "Cancel", "cancelled">> \in TaskStateMachineDefinition /\ a # "none"
  BY DEF CanTransition, TaskStateMachineDefinition
<1>2. Edge(a, "cancelled")
  BY <1>1 DEF Edge
<1> QED
  BY <1>1, <1>2, Lookup

(* Trigger stays within the statuses. *)
LEMMA TriggerType ==
    ASSUME NEW a \in TaskStatuses \cup {"none"}, NEW e
    PROVE  Trigger(a, e) \in TaskStatuses \cup {"none"}
<1>1. CASE ~CanTransition(a, e)
  BY <1>1 DEF Trigger
<1>2. CASE CanTransition(a, e)
  <2>1. PICK x \in TaskStateMachineDefinition : x[1] = a /\ x[2] = e
    BY <1>2 DEF CanTransition
  <2>2. <<a, e, x[3]>> \in TaskStateMachineDefinition /\ x[3] \in TaskStatuses
    BY <2>1 DEF TaskStateMachineDefinition, TaskStatuses
  <2> QED
    BY <2>2, Lookup
<1> QED
  BY <1>1, <1>2

(* A lookup never lowers the version. *)
LEMMA TriggerVersionType ==
    ASSUME NEW a, NEW v \in Nat, NEW e
    PROVE  TriggerVersion(a, v, e) \in Nat /\ TriggerVersion(a, v, e) >= v
BY DEF TriggerVersion

-----------------------------------------------------------------------------
(* Every action preserves the invariant. *)

USE DEF rowVars, boxVars, memVars, procVars, Goto

(* A thread whose own state and row do not change stays within the lock      *)
(* discipline; so does one whose row moved to a later version.               *)
LEMMA QuietThread ==
    ASSUME NEW q \in Threads, Locked(q), Working(q) => task[q] \in Tasks,
           version \in [Tasks -> Nat], mver \in [Threads -> Nat],
           pc'[q] = pc[q], op'[q] = op[q], task'[q] = task[q],
           mstat'[q] = mstat[q], mver'[q] = mver[q],
           q \in Servers => todo'[q] = todo[q],
           Working(q) =>
             \/ status'[task[q]] = status[task[q]] /\ version'[task[q]] = version[task[q]]
             \/ version'[task[q]] \in Nat /\ version'[task[q]] > version[task[q]]
    PROVE  Locked(q)'
<1>1. CASE ~Working(q) /\ ~Submitting(q)
  BY <1>1 DEF Locked, Working, Finished
<1>2. CASE Submitting(q)
  BY <1>2 DEF Locked, Submitting, Target
<1>3. CASE Working(q)
  <2>1. CASE status'[task[q]] = status[task[q]] /\ version'[task[q]] = version[task[q]]
    BY <2>1 DEF Locked, Fresh, Confirming, AboutToUpdate, VersionMatches
  <2>2. CASE version'[task[q]] \in Nat /\ version'[task[q]] > version[task[q]]
    BY <1>3, <2>2 DEF Locked, Fresh, Confirming, AboutToUpdate, VersionMatches
  <2> QED
    BY <1>3, <2>1, <2>2
<1> QED
  BY <1>1, <1>2, <1>3

(* Only thread p moves. *)
OnlyMoves(p) ==
    \A q \in Threads \ {p} :
        /\ pc'[q] = pc[q] /\ srv'[q] = srv[q] /\ op'[q] = op[q]
        /\ task'[q] = task[q] /\ mstat'[q] = mstat[q] /\ mver'[q] = mver[q]

(* A step of p alone that makes no claimed task pending and does not make p  *)
(* a claimant keeps the claims exclusive.                                    *)
LEMMA QuietClaims ==
    ASSUME ClaimInv, NEW p \in Threads, OnlyMoves(p),
           \A q \in Threads : Claims(q) /\ status[task[q]] # "pending" => status'[task[q]] # "pending",
           Claims(p)' => Claims(p) /\ task'[p] = task[p]
    PROVE  ClaimInv'
<1>1. \A q \in Threads : Claims(q)' => Claims(q) /\ task'[q] = task[q]
  BY DEF Claims, Executing, OnlyMoves
<1> QED
  BY <1>1 DEF ClaimInv

(* A step that leaves the task table alone and starts no Submit. *)
LEMMA QuietRows ==
    ASSUME RowInv, status' = status, issued' = issued,
           \A q \in Threads : Working(q)' => task'[q] \in Tasks /\ status[task'[q]] # "none",
           \A q \in Threads : Submitting(q)' => Submitting(q) /\ task'[q] = task[q]
    PROVE  RowInv'
BY DEF RowInv

(* A processor other than p keeps its child: p is not a session that is      *)
(* waiting to be spawned.                                                    *)
LEMMA QuietProcessor ==
    ASSUME NEW p \in Threads, pc[p] # "created", OnlyMoves(p),
           NEW x \in Servers, x # p, Processing(x),
           child'[x] = child[x], todo'[x] = todo[x]
    PROVE  Processing(x)'
<1>1. x \in Threads \ {p}
  BY DEF Threads
<1>2. pc[x] \in InTx => child[x] \in Threads \ {p}
  BY DEF Processing, Threads
<1> QED
  BY <1>1, <1>2 DEF Processing, OnlyMoves

(* A step of thread p alone that leaves the rows, the outbox and the other   *)
(* processors alone preserves the invariant if p's own part of it holds after *)
(* the step.                                                                 *)
LEMMA LocalStep ==
    ASSUME InductiveInv, NEW p \in Threads, pc[p] # "created", OnlyMoves(p),
           TypeOK', ControlInv',
           status' = status, version' = version, outbox' = outbox, issued' = issued,
           \A x \in Servers \ {p} : child'[x] = child[x] /\ todo'[x] = todo[x],
           Working(p)' => task'[p] \in Tasks /\ status[task'[p]] # "none",
           Submitting(p)' => Submitting(p) /\ task'[p] = task[p],
           Locked(p)',
           pc'[p] = "commit" /\ op'[p] \in TerminalOps => status[task'[p]] = Target[op'[p]],
           p \in Servers => Processing(p)',
           Claims(p)' => Claims(p) /\ task'[p] = task[p]
    PROVE  InductiveInv'
<1> USE DEF InductiveInv
<1>1. RowInv'
  <2>1. \A q \in Threads \ {p} : /\ (Working(q)' => Working(q)) /\ task'[q] = task[q]
                                 /\ (Submitting(q)' => Submitting(q))
    BY DEF OnlyMoves, Working, Submitting
  <2>2. \A q \in Threads : Working(q)' => task'[q] \in Tasks /\ status[task'[q]] # "none"
    BY <2>1 DEF RowInv
  <2> QED
    BY <2>1, <2>2, QuietRows
<1>2. LockInv'
  <2> SUFFICES ASSUME NEW q \in Threads, q # p PROVE Locked(q)'
    BY DEF LockInv
  <2> QED
    BY QuietThread DEF TypeOK, LockInv, RowInv, OnlyMoves
<1>3. EventInv'
  BY DEF EventInv, TerminalEventsSound, OnlyMoves
<1>4. ProcessorInv'
  BY QuietProcessor DEF ProcessorInv
<1>5. ClaimInv'
  BY QuietClaims
<1> QED
  BY <1>1, <1>2, <1>3, <1>4, <1>5

(* Opening a transaction changes only the thread's place in its handler. *)
LEMMA BeginTxPreserves ==
    ASSUME InductiveInv, NEW p \in Threads, BeginTx(p)
    PROVE  InductiveInv'
<1> USE DEF InductiveInv, BeginTx, FailurePC
<1>1. OnlyMoves(p) /\ p \in Threads
  BY DEF TypeOK, OnlyMoves, Threads
<1>2. TypeOK'
  BY DEF TypeOK, PCs
<1>3. ControlInv'
  BY ThreadsDisjoint DEF TypeOK, ControlInv, ServerControl, SessionControl, RequestControl, InTx,
     ServerPCs, SessionPCs, RequestPCs, Threads
<1>4. /\ Working(p)' => task'[p] \in Tasks /\ status[task'[p]] # "none"
      /\ Submitting(p)' => Submitting(p) /\ task'[p] = task[p]
  <2>0. pc[p] = "begintx" /\ task' = task /\ op' = op
    OBVIOUS
  <2>1. Working(p)' => task'[p] \in Tasks /\ status[task'[p]] # "none"
    <3>1. CASE Submitting(p)
      <4>1. op[p] = "Submit"
        BY <2>0, <3>1 DEF Submitting
      <4>2. p \notin Servers /\ p \notin Sessions
        BY <2>0, <4>1, ThreadsDisjoint DEF ControlInv, ServerControl, SessionControl, InTx
      <4>3. pc'[p] \in {"create", "err"}
        BY <4>1, <4>2 DEF TypeOK, Threads
      <4> QED
        BY <2>0, <4>1, <4>3 DEF Working, Submitting, Finished
    <3>2. CASE ~Submitting(p)
      <4>1. Working(p)
        BY <2>0, <3>2 DEF Working, Finished
      <4> QED
        BY <2>0, <4>1 DEF RowInv
    <3> QED
      BY <3>1, <3>2
  <2>2. Submitting(p)' => Submitting(p) /\ task'[p] = task[p]
    BY ThreadsDisjoint DEF TypeOK, Submitting, Threads
  <2> QED
    BY <2>1, <2>2
<1>5. Locked(p)'
  BY ThreadsDisjoint DEF TypeOK, ControlInv, ServerControl, SessionControl, RequestControl, InTx, LockInv, Locked,
     ProcessorInv, Processing, Fresh, Confirming, AboutToUpdate, VersionMatches, Threads
<1>6. p \in Servers => Processing(p)'
  BY ThreadsDisjoint DEF TypeOK, ControlInv, ServerControl, SessionControl, RequestControl, InTx,
     ProcessorInv, Processing, Threads
<1>7. Claims(p)' => Claims(p) /\ task'[p] = task[p]
  BY ThreadsDisjoint DEF TypeOK, ControlInv, ServerControl, SessionControl, RequestControl, InTx,
     Claims, Executing, Finished, Threads
<1>8. pc'[p] # "commit" /\ pc[p] # "created"
  BY <1>1, ThreadsDisjoint DEF TypeOK, Threads
<1> QED
  BY <1>1, <1>2, <1>3, <1>4, <1>5, <1>6, <1>7, <1>8, LocalStep DEF TypeOK

(* An outbox insert inside its transaction is not visible to anybody yet. *)
LEMMA WritePreserves ==
    ASSUME InductiveInv, NEW p \in Threads, Write(p)
    PROVE  InductiveInv'
<1> USE DEF InductiveInv, Write, FailurePC
<1>1. OnlyMoves(p) /\ p \in Threads
  BY DEF TypeOK, OnlyMoves, Threads
<1>2. TypeOK'
  BY DEF TypeOK, PCs
<1>3. ControlInv'
  BY ThreadsDisjoint DEF TypeOK, ControlInv, ServerControl, SessionControl, RequestControl, InTx,
     ServerPCs, SessionPCs, RequestPCs, Threads
<1>4. /\ Working(p)' => task'[p] \in Tasks /\ status[task'[p]] # "none"
      /\ Submitting(p)' => Submitting(p) /\ task'[p] = task[p]
  <2>1. Working(p) /\ task'[p] = task[p] /\ pc'[p] \notin {"begintx", "create"}
    BY ThreadsDisjoint DEF TypeOK, Working, Submitting, Finished
  <2> QED
    BY <2>1 DEF RowInv, Submitting
<1>5. Locked(p)'
  BY ThreadsDisjoint DEF TypeOK, ControlInv, ServerControl, SessionControl, RequestControl, InTx, LockInv, Locked,
     ProcessorInv, Processing, Fresh, Confirming, AboutToUpdate, VersionMatches, Threads
<1>6. p \in Servers => Processing(p)'
  BY ThreadsDisjoint DEF TypeOK, ControlInv, ServerControl, SessionControl, RequestControl, InTx,
     ProcessorInv, Processing, Threads
<1>7. Claims(p)' => Claims(p) /\ task'[p] = task[p]
  BY ThreadsDisjoint DEF TypeOK, ControlInv, ServerControl, SessionControl, RequestControl, InTx,
     Claims, Executing, Finished, Threads
<1>8. pc'[p] = "commit" /\ op'[p] \in TerminalOps => status[task'[p]] = Target[op'[p]]
  BY <1>1, ThreadsDisjoint DEF TypeOK, ControlInv, ServerControl, SessionControl, RequestControl,
     InTx, TerminalOps, Threads
<1>9. pc[p] = "write"
  OBVIOUS
<1> QED
  BY <1>1, <1>2, <1>3, <1>4, <1>5, <1>6, <1>7, <1>8, <1>9, LocalStep DEF TypeOK

(* Create stores a row that no thread but the submitting one knows of. *)
LEMMA CreatePreserves ==
    ASSUME InductiveInv, NEW p \in Requests, Create(p)
    PROVE  InductiveInv'
<1> USE DEF InductiveInv, Create
<1>1. OnlyMoves(p) /\ p \in Threads
  BY DEF TypeOK, OnlyMoves, Threads
<1>2. Submitting(p) /\ task[p] \in Tasks /\ status[task[p]] = "none"
  BY <1>1 DEF TypeOK, ControlInv, RequestControl, RowInv, Submitting
<1>3. \A u \in Tasks : u # task[p] => status'[u] = status[u] /\ version'[u] = version[u]
  BY <1>2 DEF TypeOK
<1>4. \A q \in Threads : Working(q) => task[q] # task[p]
  BY <1>2 DEF RowInv
<1>5. TypeOK'
  BY SMTT(30), <1>1, <1>2 DEF TypeOK, PCs, TaskStatuses, FailurePC
<1>6. ControlInv'
  BY ThreadsDisjoint DEF TypeOK, ControlInv, ServerControl, SessionControl, RequestControl, InTx,
     ServerPCs, SessionPCs, RequestPCs, Threads, FailurePC
<1>7. RowInv'
  <2>1. status'[task[p]] \in {"none", "pending"}
    BY <1>2 DEF TypeOK
  <2>2. \A q \in Threads \ {p} : /\ (Working(q)' <=> Working(q))
                                 /\ (Submitting(q)' <=> Submitting(q)) /\ task'[q] = task[q]
    BY <1>1 DEF OnlyMoves, Working, Submitting
  <2>3. ~Submitting(p)' /\ task' = task /\ issued' = issued
    BY <1>1, ThreadsDisjoint DEF TypeOK, Submitting, FailurePC, Threads
  <2>4. Working(p)' => status'[task[p]] = "pending"
    BY <1>1, <1>2, ThreadsDisjoint DEF TypeOK, Working, FailurePC, Threads, Finished
  <2>5. \A q \in Threads : Working(q)' => task'[q] \in Tasks /\ status'[task'[q]] # "none"
    BY <1>2, <1>3, <1>4, <2>2, <2>3, <2>4 DEF RowInv
  <2>6. \A q \in Threads : Submitting(q)' => task'[q] \in issued' /\ status'[task'[q]] = "none"
    <3> SUFFICES ASSUME NEW q \in Threads, Submitting(q)'
                 PROVE  task'[q] \in issued' /\ status'[task'[q]] = "none"
      OBVIOUS
    <3>1. q # p /\ Submitting(q)
      BY <2>2, <2>3
    <3>2. task[q] # task[p] /\ task[q] \in Tasks
      BY <3>1, <1>1, <1>2 DEF RowInv, TypeOK
    <3> QED
      BY <3>1, <3>2, <1>3, <2>3 DEF RowInv
  <2>7. \A u \in Tasks : u \notin issued' => status'[u] = "none"
    BY <1>1, <1>2, <1>3, <2>3 DEF RowInv
  <2>8. \A q, x \in Threads : Submitting(q)' /\ Submitting(x)' /\ task'[q] = task'[x] => q = x
    BY <2>2, <2>3 DEF RowInv
  <2> QED
    BY <2>5, <2>6, <2>7, <2>8 DEF RowInv
<1>8. LockInv'
  <2> SUFFICES ASSUME NEW q \in Threads PROVE Locked(q)'
    BY DEF LockInv
  <2>1. CASE q # p
    <3>1. Working(q) => /\ task[q] \in Tasks /\ status'[task[q]] = status[task[q]]
                        /\ version'[task[q]] = version[task[q]]
      BY <1>3, <1>4 DEF RowInv
    <3> QED
      BY <2>1, <3>1, <1>1, QuietThread DEF TypeOK, LockInv, OnlyMoves
  <2>2. CASE q = p
    BY <2>2, <1>1, <1>2, ThreadsDisjoint DEF TypeOK, Locked, FailurePC, Submitting, Target, Threads
  <2> QED
    BY <2>1, <2>2
<1>9. EventInv'
  <2>1. \A e \in outbox : e[1] \in Tasks
    BY DEF TypeOK, Events
  <2>2. \A e \in outbox : e[2] \in DOMAIN EventStatus => e[1] # task[p]
    BY <1>2 DEF EventInv, TerminalEventsSound, EventStatus
  <2>3. TerminalEventsSound'
    BY <2>1, <2>2, <1>3 DEF EventInv, TerminalEventsSound
  <2>4. \A q \in Threads : pc'[q] = "commit" =>
           pc[q] = "commit" /\ task[q] \in Tasks /\ task[q] # task[p]
    <3>1. pc'[p] # "commit"
      BY <1>1, ThreadsDisjoint DEF TypeOK, FailurePC, Threads
    <3>2. \A q \in Threads : pc'[q] = "commit" => pc[q] = "commit"
      BY <1>1, <3>1 DEF OnlyMoves
    <3>3. \A q \in Threads : pc[q] = "commit" => Working(q)
      BY DEF Working, Submitting, Finished
    <3> QED
      BY <1>4, <3>2, <3>3 DEF RowInv
  <2> QED
    BY <2>3, <2>4, <1>3 DEF EventInv
<1>10. ProcessorInv'
  <2> SUFFICES ASSUME NEW x \in Servers PROVE Processing(x)'
    BY DEF ProcessorInv
  <2>1. pc[p] # "created" /\ x # p
    BY ThreadsDisjoint DEF Threads
  <2> QED
    BY <2>1, <1>1, QuietProcessor DEF ProcessorInv
<1>11. ClaimInv'
  <2>1. ~Claims(p)'
    BY ThreadsDisjoint DEF Claims, Executing, Threads
  <2>2. \A q \in Threads : Claims(q) => Working(q)
    BY ThreadsDisjoint DEF Claims, Executing, Working, Submitting, Finished, ControlInv,
       ServerControl, SessionControl, InTx, SessionPCs
  <2>3. \A q \in Threads : Claims(q) => status'[task[q]] = status[task[q]]
    BY <2>2, <1>3, <1>4 DEF RowInv
  <2> QED
    BY <2>1, <2>3, <1>1, QuietClaims
<1> QED
  BY <1>5, <1>6, <1>7, <1>8, <1>9, <1>10, <1>11

(* Retry's Update ends the request without touching the row. *)
LEMMA RetryUpdatePreserves ==
    ASSUME InductiveInv, NEW p \in Requests, RetryUpdate(p)
    PROVE  InductiveInv'
<1> USE DEF InductiveInv, RetryUpdate
<1>1. OnlyMoves(p) /\ p \in Threads
  BY DEF TypeOK, OnlyMoves, Threads
<1>2. TypeOK'
  BY DEF TypeOK, PCs, Threads
<1>3. ControlInv'
  BY ThreadsDisjoint DEF TypeOK, ControlInv, ServerControl, SessionControl, RequestControl, InTx,
     ServerPCs, SessionPCs, RequestPCs, Threads
<1>4. /\ Working(p)' => task'[p] \in Tasks /\ status[task'[p]] # "none"
      /\ Submitting(p)' => Submitting(p) /\ task'[p] = task[p]
  BY ThreadsDisjoint DEF TypeOK, ControlInv, ServerControl, SessionControl, RequestControl, InTx,
     RowInv, Working, Submitting, Finished, Threads
<1>5. Locked(p)'
  BY ThreadsDisjoint DEF TypeOK, ControlInv, ServerControl, SessionControl, RequestControl, InTx, LockInv, Locked,
     ProcessorInv, Processing, Fresh, Confirming, AboutToUpdate, VersionMatches, Threads
<1>6. p \notin Servers
  BY ThreadsDisjoint
<1>7. Claims(p)' => Claims(p) /\ task'[p] = task[p]
  BY ThreadsDisjoint DEF TypeOK, ControlInv, ServerControl, SessionControl, RequestControl, InTx,
     Claims, Executing, Finished, Threads
<1>8. pc'[p] # "commit" /\ pc[p] # "created"
  BY <1>1, ThreadsDisjoint DEF TypeOK, Threads
<1> QED
  BY <1>1, <1>2, <1>3, <1>4, <1>5, <1>6, <1>7, <1>8, LocalStep DEF TypeOK

(* A Submit starts with an identifier that was never issued. *)
LEMMA SubmitPreserves ==
    ASSUME InductiveInv, NEW r \in Requests, NEW s \in Servers, NEW t \in Tasks, Submit(r, s, t)
    PROVE  InductiveInv'
<1> USE DEF InductiveInv, Submit, BeginRequest
<1>1. OnlyMoves(r) /\ r \in Threads
  BY DEF TypeOK, OnlyMoves, Threads
<1>2. TypeOK'
  BY DEF TypeOK, PCs, Threads, TaskIds, TaskStatuses, Operations, EventType
<1>3. ControlInv'
  BY ThreadsDisjoint DEF TypeOK, ControlInv, ServerControl, SessionControl, RequestControl, InTx,
     ServerPCs, SessionPCs, RequestPCs, Threads
<1>4. RowInv'
  <2>1. Submitting(r)' /\ task'[r] = t /\ ~Submitting(r) /\ status[t] = "none"
    BY <1>1 DEF TypeOK, Submitting, RowInv
  <2>2. \A q \in Threads \ {r} : /\ (Working(q)' <=> Working(q))
                                 /\ (Submitting(q)' <=> Submitting(q)) /\ task'[q] = task[q]
    BY <1>1 DEF OnlyMoves, Working, Submitting
  <2>3. ~Working(r)'
    BY <2>1 DEF Working
  <2> QED
    BY <2>1, <2>2, <2>3 DEF RowInv
<1>5. LockInv'
  <2> SUFFICES ASSUME NEW q \in Threads PROVE Locked(q)'
    BY DEF LockInv
  <2>1. CASE q # r
    BY <2>1, <1>1, QuietThread DEF TypeOK, LockInv, RowInv, Threads, OnlyMoves
  <2>2. CASE q = r
    BY <2>2, ThreadsDisjoint DEF TypeOK, ControlInv, ServerControl, SessionControl, RequestControl, InTx, LockInv, Locked,
       ProcessorInv, Processing, Fresh, Confirming, AboutToUpdate, VersionMatches, Threads, Target
  <2> QED
    BY <2>1, <2>2
<1>6. EventInv'
  BY DEF TypeOK, EventInv, TerminalEventsSound
<1>7. ProcessorInv'
  <2> SUFFICES ASSUME NEW x \in Servers PROVE Processing(x)'
    BY DEF ProcessorInv
  <2>1. pc[r] # "created" /\ x # r
    BY ThreadsDisjoint DEF Threads
  <2> QED
    BY <2>1, <1>1, QuietProcessor DEF ProcessorInv
<1>8. ClaimInv'
  <2>1. Claims(r)' => Claims(r) /\ task'[r] = task[r]
    BY ThreadsDisjoint DEF TypeOK, ControlInv, ServerControl, SessionControl, RequestControl, InTx,
       Claims, Executing, Finished, Threads
  <2> QED
    BY <2>1, <1>1, QuietClaims
<1> QED
  BY <1>2, <1>3, <1>4, <1>5, <1>6, <1>7, <1>8

(* CancelTask reads a row that Cancel can leave, and will update it one      *)
(* version on.                                                               *)
LEMMA CancelTaskPreserves ==
    ASSUME InductiveInv, NEW r \in Requests, NEW s \in Servers, NEW t \in Tasks, CancelTask(r, s, t)
    PROVE  InductiveInv'
<1> USE DEF InductiveInv, CancelTask, BeginRequest
<1>1. OnlyMoves(r) /\ r \in Threads
  BY DEF TypeOK, OnlyMoves, Threads
<1>2. TypeOK'
  BY TriggerType, TriggerVersionType, CancelFacts DEF TypeOK, PCs, Threads, TaskIds, TaskStatuses, Operations, EventType
<1>3. ControlInv'
  BY ThreadsDisjoint DEF TypeOK, ControlInv, ServerControl, SessionControl, RequestControl, InTx,
     ServerPCs, SessionPCs, RequestPCs, Threads
<1>4. /\ Working(r)' => task'[r] \in Tasks /\ status[task'[r]] # "none"
      /\ Submitting(r)' => Submitting(r) /\ task'[r] = task[r]
  BY CancelFacts, ThreadsDisjoint DEF TypeOK, ControlInv, ServerControl, SessionControl, RequestControl, InTx,
     RowInv, Working, Submitting, Finished, Threads
<1>5. Locked(r)'
  BY CancelFacts, EdgeFacts, ThreadsDisjoint DEF TypeOK, ControlInv, ServerControl, SessionControl, RequestControl, InTx, LockInv, Locked,
     ProcessorInv, Processing, Fresh, Confirming, AboutToUpdate, VersionMatches, Threads, Target, TriggerVersion
<1>6. r \notin Servers
  BY ThreadsDisjoint
<1>7. Claims(r)' => Claims(r) /\ task'[r] = task[r]
  BY ThreadsDisjoint DEF TypeOK, ControlInv, ServerControl, SessionControl, RequestControl, InTx,
     Claims, Executing, Finished, Threads
<1>8. pc'[r] # "commit" /\ pc[r] # "created"
  BY <1>1, ThreadsDisjoint DEF TypeOK, Threads
<1> QED
  BY <1>1, <1>2, <1>3, <1>4, <1>5, <1>6, <1>7, <1>8, LocalStep DEF TypeOK

(* TaskService.Cancel carries the version it read, which its UpdateStatus    *)
(* never matches.                                                            *)
LEMMA CancelPreserves ==
    ASSUME InductiveInv, NEW r \in Requests, NEW s \in Servers, NEW t \in Tasks, Cancel(r, s, t)
    PROVE  InductiveInv'
<1> USE DEF InductiveInv, Cancel, BeginRequest
<1>1. OnlyMoves(r) /\ r \in Threads
  BY DEF TypeOK, OnlyMoves, Threads
<1>2. TypeOK'
  BY TriggerType, TriggerVersionType, CancelFacts DEF TypeOK, PCs, Threads, TaskIds, TaskStatuses, Operations, EventType
<1>3. ControlInv'
  BY ThreadsDisjoint DEF TypeOK, ControlInv, ServerControl, SessionControl, RequestControl, InTx,
     ServerPCs, SessionPCs, RequestPCs, Threads
<1>4. /\ Working(r)' => task'[r] \in Tasks /\ status[task'[r]] # "none"
      /\ Submitting(r)' => Submitting(r) /\ task'[r] = task[r]
  BY CancelFacts, ThreadsDisjoint DEF TypeOK, ControlInv, ServerControl, SessionControl, RequestControl, InTx,
     RowInv, Working, Submitting, Finished, Threads
<1>5. Locked(r)'
  BY CancelFacts, EdgeFacts, ThreadsDisjoint DEF TypeOK, ControlInv, ServerControl, SessionControl, RequestControl, InTx, LockInv, Locked,
     ProcessorInv, Processing, Fresh, Confirming, AboutToUpdate, VersionMatches, Threads, Target, TriggerVersion
<1>6. r \notin Servers
  BY ThreadsDisjoint
<1>7. Claims(r)' => Claims(r) /\ task'[r] = task[r]
  BY ThreadsDisjoint DEF TypeOK, ControlInv, ServerControl, SessionControl, RequestControl, InTx,
     Claims, Executing, Finished, Threads
<1>8. pc'[r] # "commit" /\ pc[r] # "created"
  BY <1>1, ThreadsDisjoint DEF TypeOK, Threads
<1> QED
  BY <1>1, <1>2, <1>3, <1>4, <1>5, <1>6, <1>7, <1>8, LocalStep DEF TypeOK

(* Retry reads a failed row and changes nothing before its Update. *)
LEMMA RetryPreserves ==
    ASSUME InductiveInv, NEW r \in Requests, NEW s \in Servers, NEW t \in Tasks, Retry(r, s, t)
    PROVE  InductiveInv'
<1> USE DEF InductiveInv, Retry, BeginRequest
<1>1. OnlyMoves(r) /\ r \in Threads
  BY DEF TypeOK, OnlyMoves, Threads
<1>2. TypeOK'
  BY TriggerType, TriggerVersionType, CancelFacts DEF TypeOK, PCs, Threads, TaskIds, TaskStatuses, Operations, EventType
<1>3. ControlInv'
  BY ThreadsDisjoint DEF TypeOK, ControlInv, ServerControl, SessionControl, RequestControl, InTx,
     ServerPCs, SessionPCs, RequestPCs, Threads
<1>4. /\ Working(r)' => task'[r] \in Tasks /\ status[task'[r]] # "none"
      /\ Submitting(r)' => Submitting(r) /\ task'[r] = task[r]
  BY CancelFacts, ThreadsDisjoint DEF TypeOK, ControlInv, ServerControl, SessionControl, RequestControl, InTx,
     RowInv, Working, Submitting, Finished, Threads
<1>5. Locked(r)'
  BY CancelFacts, EdgeFacts, ThreadsDisjoint DEF TypeOK, ControlInv, ServerControl, SessionControl, RequestControl, InTx, LockInv, Locked,
     ProcessorInv, Processing, Fresh, Confirming, AboutToUpdate, VersionMatches, Threads, Target, TriggerVersion
<1>6. r \notin Servers
  BY ThreadsDisjoint
<1>7. Claims(r)' => Claims(r) /\ task'[r] = task[r]
  BY ThreadsDisjoint DEF TypeOK, ControlInv, ServerControl, SessionControl, RequestControl, InTx,
     Claims, Executing, Finished, Threads
<1>8. pc'[r] # "commit" /\ pc[r] # "created"
  BY <1>1, ThreadsDisjoint DEF TypeOK, Threads
<1> QED
  BY <1>1, <1>2, <1>3, <1>4, <1>5, <1>6, <1>7, <1>8, LocalStep DEF TypeOK

(* A tick only fills the processor's batch. *)
LEMMA PollPreserves ==
    ASSUME InductiveInv, NEW s \in Servers, Poll(s)
    PROVE  InductiveInv'
<1> USE DEF InductiveInv, Poll, PendingSubmissions
<1>1. OnlyMoves(s) /\ s \in Threads
  BY DEF TypeOK, OnlyMoves, Threads
<1>2. TypeOK'
  BY DEF TypeOK, PCs, Threads
<1>3. ControlInv'
  BY ThreadsDisjoint DEF TypeOK, ControlInv, ServerControl, SessionControl, RequestControl, InTx,
     ServerPCs, SessionPCs, RequestPCs, Threads
<1>4. /\ Working(s)' => task'[s] \in Tasks /\ status[task'[s]] # "none"
      /\ Submitting(s)' => Submitting(s) /\ task'[s] = task[s]
  BY ThreadsDisjoint DEF TypeOK, ControlInv, ServerControl, SessionControl, RequestControl, InTx,
     RowInv, Working, Submitting, Finished, Threads
<1>5. Locked(s)'
  BY ThreadsDisjoint DEF TypeOK, ControlInv, ServerControl, SessionControl, RequestControl, InTx, LockInv, Locked,
     ProcessorInv, Processing, Fresh, Confirming, AboutToUpdate, VersionMatches, Threads
<1>6. s \in Servers => Processing(s)'
  BY ThreadsDisjoint DEF TypeOK, ControlInv, ServerControl, SessionControl, RequestControl, InTx,
     ProcessorInv, Processing, Threads
<1>7. Claims(s)' => Claims(s) /\ task'[s] = task[s]
  BY ThreadsDisjoint DEF TypeOK, ControlInv, ServerControl, SessionControl, RequestControl, InTx,
     Claims, Executing, Finished, Threads
<1>8. pc'[s] # "commit" /\ pc[s] # "created"
  BY <1>1, ThreadsDisjoint DEF TypeOK, Threads
<1> QED
  BY <1>1, <1>2, <1>3, <1>4, <1>5, <1>6, <1>7, <1>8, LocalStep DEF TypeOK

(* A row whose task cannot be read is dropped from the batch. *)
LEMMA PostponeTaskPreserves ==
    ASSUME InductiveInv, NEW s \in Servers, NEW t \in Tasks, PostponeTask(s, t)
    PROVE  InductiveInv'
<1> USE DEF InductiveInv, PostponeTask, Take
<1>1. OnlyMoves(s) /\ s \in Threads
  BY DEF TypeOK, OnlyMoves, Threads
<1>2. TypeOK'
  BY DEF TypeOK, PCs, Threads
<1>3. ControlInv'
  BY ThreadsDisjoint DEF TypeOK, ControlInv, ServerControl, SessionControl, RequestControl, InTx,
     ServerPCs, SessionPCs, RequestPCs, Threads
<1>4. /\ Working(s)' => task'[s] \in Tasks /\ status[task'[s]] # "none"
      /\ Submitting(s)' => Submitting(s) /\ task'[s] = task[s]
  BY ThreadsDisjoint DEF TypeOK, ControlInv, ServerControl, SessionControl, RequestControl, InTx,
     RowInv, Working, Submitting, Finished, Threads
<1>5. Locked(s)'
  BY ThreadsDisjoint DEF TypeOK, ControlInv, ServerControl, SessionControl, RequestControl, InTx, LockInv, Locked,
     ProcessorInv, Processing, Fresh, Confirming, AboutToUpdate, VersionMatches, Threads
<1>6. s \in Servers => Processing(s)'
  BY ThreadsDisjoint DEF TypeOK, ControlInv, ServerControl, SessionControl, RequestControl, InTx,
     ProcessorInv, Processing, Threads
<1>7. Claims(s)' => Claims(s) /\ task'[s] = task[s]
  BY ThreadsDisjoint DEF TypeOK, ControlInv, ServerControl, SessionControl, RequestControl, InTx,
     Claims, Executing, Finished, Threads
<1>8. pc'[s] # "commit" /\ pc[s] # "created"
  BY <1>1, ThreadsDisjoint DEF TypeOK, Threads
<1> QED
  BY <1>1, <1>2, <1>3, <1>4, <1>5, <1>6, <1>7, <1>8, LocalStep DEF TypeOK

(* A task StartTask refuses goes straight on to MarkProcessed. *)
LEMMA RefuseTaskPreserves ==
    ASSUME InductiveInv, NEW s \in Servers, NEW t \in Tasks, RefuseTask(s, t)
    PROVE  InductiveInv'
<1> USE DEF InductiveInv, RefuseTask, Take
<1>1. OnlyMoves(s) /\ s \in Threads
  BY DEF TypeOK, OnlyMoves, Threads
<1>2. TypeOK'
  BY DEF TypeOK, PCs, Threads, TaskIds
<1>3. ControlInv'
  BY ThreadsDisjoint DEF TypeOK, ControlInv, ServerControl, SessionControl, RequestControl, InTx,
     ServerPCs, SessionPCs, RequestPCs, Threads
<1>4. /\ Working(s)' => task'[s] \in Tasks /\ status[task'[s]] # "none"
      /\ Submitting(s)' => Submitting(s) /\ task'[s] = task[s]
  BY ThreadsDisjoint DEF TypeOK, ControlInv, ServerControl, SessionControl, RequestControl, InTx,
     RowInv, Working, Submitting, Finished, Threads
<1>5. Locked(s)'
  BY ThreadsDisjoint DEF TypeOK, ControlInv, ServerControl, SessionControl, RequestControl, InTx, LockInv, Locked,
     ProcessorInv, Processing, Fresh, Confirming, AboutToUpdate, VersionMatches, Threads
<1>6. s \in Servers => Processing(s)'
  BY ThreadsDisjoint DEF TypeOK, ControlInv, ServerControl, SessionControl, RequestControl, InTx,
     ProcessorInv, Processing, Threads
<1>7. Claims(s)' => Claims(s) /\ task'[s] = task[s]
  BY ThreadsDisjoint DEF TypeOK, ControlInv, ServerControl, SessionControl, RequestControl, InTx,
     Claims, Executing, Finished, Threads
<1>8. pc'[s] # "commit" /\ pc[s] # "created"
  BY <1>1, ThreadsDisjoint DEF TypeOK, Threads
<1> QED
  BY <1>1, <1>2, <1>3, <1>4, <1>5, <1>6, <1>7, <1>8, LocalStep DEF TypeOK

(* Starting the subtasks keeps the copy of the row that was just read. *)
LEMMA StartSubtasksPreserves ==
    ASSUME InductiveInv, NEW s \in Servers, NEW t \in Tasks, StartSubtasks(s, t)
    PROVE  InductiveInv'
<1> USE DEF InductiveInv, StartSubtasks, Take
<1>1. OnlyMoves(s) /\ s \in Threads
  BY DEF TypeOK, OnlyMoves, Threads
<1>2. TypeOK'
  BY DEF TypeOK, PCs, Threads, TaskIds
<1>3. ControlInv'
  BY ThreadsDisjoint DEF TypeOK, ControlInv, ServerControl, SessionControl, RequestControl, InTx,
     ServerPCs, SessionPCs, RequestPCs, Threads
<1>4. /\ Working(s)' => task'[s] \in Tasks /\ status[task'[s]] # "none"
      /\ Submitting(s)' => Submitting(s) /\ task'[s] = task[s]
  BY ThreadsDisjoint DEF TypeOK, ControlInv, ServerControl, SessionControl, RequestControl, InTx,
     RowInv, Working, Submitting, Finished, Threads
<1>5. Locked(s)'
  BY ThreadsDisjoint DEF TypeOK, ControlInv, ServerControl, SessionControl, RequestControl, InTx, LockInv, Locked,
     ProcessorInv, Processing, Fresh, Confirming, AboutToUpdate, VersionMatches, Threads
<1>6. s \in Servers => Processing(s)'
  BY SubtasksAssumption, ThreadsDisjoint DEF TypeOK, ControlInv, ServerControl, SessionControl, RequestControl, InTx,
     ProcessorInv, Processing, Threads
<1>7. Claims(s)' => Claims(s) /\ task'[s] = task[s]
  BY ThreadsDisjoint DEF TypeOK, ControlInv, ServerControl, SessionControl, RequestControl, InTx,
     Claims, Executing, Finished, Threads
<1>8. pc'[s] # "commit" /\ pc[s] # "created"
  BY <1>1, ThreadsDisjoint DEF TypeOK, Threads
<1> QED
  BY <1>1, <1>2, <1>3, <1>4, <1>5, <1>6, <1>7, <1>8, LocalStep DEF TypeOK

(* The end of a round forgets the processor's copy of the task. *)
LEMMA MarkProcessedPreserves ==
    ASSUME InductiveInv, NEW s \in Servers, MarkProcessed(s)
    PROVE  InductiveInv'
<1> USE DEF InductiveInv, MarkProcessed, EndRound
<1>1. OnlyMoves(s) /\ s \in Threads
  BY DEF TypeOK, OnlyMoves, Threads
<1>a. task[s] \in Tasks
  BY <1>1 DEF RowInv, Working, Submitting, Finished
<1>2. TypeOK'
  BY <1>a DEF TypeOK, PCs, Threads, TaskIds, Operations, EventType
<1>3. ControlInv'
  BY ThreadsDisjoint DEF TypeOK, ControlInv, ServerControl, SessionControl, RequestControl, InTx,
     ServerPCs, SessionPCs, RequestPCs, Threads
<1>4. /\ Working(s)' => task'[s] \in Tasks /\ status[task'[s]] # "none"
      /\ Submitting(s)' => Submitting(s) /\ task'[s] = task[s]
  BY ThreadsDisjoint DEF TypeOK, ControlInv, ServerControl, SessionControl, RequestControl, InTx,
     RowInv, Working, Submitting, Finished, Threads
<1>5. Locked(s)'
  BY ThreadsDisjoint DEF TypeOK, ControlInv, ServerControl, SessionControl, RequestControl, InTx, LockInv, Locked,
     ProcessorInv, Processing, Fresh, Confirming, AboutToUpdate, VersionMatches, Threads
<1>6. s \in Servers => Processing(s)'
  BY ThreadsDisjoint DEF TypeOK, ControlInv, ServerControl, SessionControl, RequestControl, InTx,
     ProcessorInv, Processing, Threads
<1>7. Claims(s)' => Claims(s) /\ task'[s] = task[s]
  BY ThreadsDisjoint DEF TypeOK, ControlInv, ServerControl, SessionControl, RequestControl, InTx,
     Claims, Executing, Finished, Threads
<1>8. pc'[s] # "commit" /\ pc[s] # "created"
  BY <1>1, ThreadsDisjoint DEF TypeOK, Threads
<1> QED
  BY <1>1, <1>2, <1>3, <1>4, <1>5, <1>6, <1>7, <1>8, LocalStep DEF TypeOK

(* A session that starts from a dispatched copy will update it one version   *)
(* on; any other copy is already stale.                                      *)
LEMMA ExecuteAgentSessionPreserves ==
    ASSUME InductiveInv, NEW p \in Sessions, ExecuteAgentSession(p)
    PROVE  InductiveInv'
<1> USE DEF InductiveInv, ExecuteAgentSession
<1>1. OnlyMoves(p) /\ p \in Threads
  BY DEF TypeOK, OnlyMoves, Threads
<1>a. /\ Trigger(mstat[p], "StartExecution") \in TaskStatuses \cup {"none"}
      /\ TriggerVersion(mstat[p], mver[p], "StartExecution") \in Nat
  BY <1>1, TriggerType, TriggerVersionType DEF TypeOK
<1>2. TypeOK'
  BY SMTT(30), <1>a DEF TypeOK, PCs, Threads, Operations, EventType
<1>3. ControlInv'
  BY ThreadsDisjoint DEF TypeOK, ControlInv, ServerControl, SessionControl, RequestControl, InTx,
     ServerPCs, SessionPCs, RequestPCs, Threads
<1>4. /\ Working(p)' => task'[p] \in Tasks /\ status[task'[p]] # "none"
      /\ Submitting(p)' => Submitting(p) /\ task'[p] = task[p]
  BY ThreadsDisjoint DEF TypeOK, ControlInv, ServerControl, SessionControl, RequestControl, InTx,
     RowInv, Working, Submitting, Finished, Threads
<1>5. Locked(p)'
  <2>1. /\ Fresh(p) /\ task'[p] = task[p] /\ pc'[p] = "begintx" /\ op'[p] = "Start"
        /\ task[p] \in Tasks /\ p \notin Servers
    BY SMTT(30), <1>1, ThreadsDisjoint DEF TypeOK, LockInv, Locked, RowInv, Working, Submitting, Finished
  <2>2. CASE mstat[p] = "dispatched"
    <3>1. mstat'[p] = "running" /\ mver'[p] = mver[p] + 1
      BY <1>1, <2>2, KnownTriggers DEF TypeOK, TriggerVersion
    <3> QED
      <4>1. AboutToUpdate(p)'
        BY <1>1, <2>1, <2>2, <3>1, KnownEdges
        DEF TypeOK, Fresh, AboutToUpdate, VersionMatches, Target
      <4> QED
        BY <2>1, <4>1 DEF Locked
  <2>3. CASE mstat[p] # "dispatched"
    <3>1. AboutToUpdate(p)'
      BY <1>1, <2>1, <2>3 DEF TypeOK, Fresh, AboutToUpdate, VersionMatches
    <3> QED
      BY <2>1, <3>1 DEF Locked
  <2> QED
    BY <2>2, <2>3
<1>6. p \notin Servers
  BY ThreadsDisjoint
<1>7. Claims(p)' => Claims(p) /\ task'[p] = task[p]
  BY ThreadsDisjoint DEF TypeOK, ControlInv, ServerControl, SessionControl, RequestControl, InTx,
     Claims, Executing, Finished, Threads
<1>8. pc'[p] # "commit" /\ pc[p] # "created"
  BY <1>1, ThreadsDisjoint DEF TypeOK, Threads
<1> QED
  BY <1>1, <1>2, <1>3, <1>4, <1>5, <1>6, <1>7, <1>8, LocalStep DEF TypeOK

(* Without an approval the running copy goes on to the agent. *)
LEMMA SkipApprovalPreserves ==
    ASSUME InductiveInv, NEW p \in Sessions, SkipApproval(p)
    PROVE  InductiveInv'
<1> USE DEF InductiveInv, SkipApproval
<1>1. OnlyMoves(p) /\ p \in Threads
  BY DEF TypeOK, OnlyMoves, Threads
<1>2. TypeOK'
  BY DEF TypeOK, PCs, Threads, Operations, EventType
<1>3. ControlInv'
  BY ThreadsDisjoint DEF TypeOK, ControlInv, ServerControl, SessionControl, RequestControl, InTx,
     ServerPCs, SessionPCs, RequestPCs, Threads
<1>4. /\ Working(p)' => task'[p] \in Tasks /\ status[task'[p]] # "none"
      /\ Submitting(p)' => Submitting(p) /\ task'[p] = task[p]
  BY ThreadsDisjoint DEF TypeOK, ControlInv, ServerControl, SessionControl, RequestControl, InTx,
     RowInv, Working, Submitting, Finished, Threads
<1>5. Locked(p)'
  BY ThreadsDisjoint DEF TypeOK, ControlInv, ServerControl, SessionControl, RequestControl, InTx, LockInv, Locked,
     ProcessorInv, Processing, Fresh, Confirming, AboutToUpdate, VersionMatches, Threads
<1>6. p \notin Servers
  BY ThreadsDisjoint
<1>7. Claims(p)' => Claims(p) /\ task'[p] = task[p]
  BY ThreadsDisjoint DEF TypeOK, ControlInv, ServerControl, SessionControl, RequestControl, InTx,
     Claims, Executing, Finished, Threads
<1>8. pc'[p] # "commit" /\ pc[p] # "created"
  BY <1>1, ThreadsDisjoint DEF TypeOK, Threads
<1> QED
  BY <1>1, <1>2, <1>3, <1>4, <1>5, <1>6, <1>7, <1>8, LocalStep DEF TypeOK

(* A confirming copy is one version ahead of a row that is still running. *)
LEMMA RequestConfirmationPreserves ==
    ASSUME InductiveInv, NEW p \in Sessions, RequestConfirmation(p)
    PROVE  InductiveInv'
<1> USE DEF InductiveInv, RequestConfirmation
<1>1. OnlyMoves(p) /\ p \in Threads
  BY DEF TypeOK, OnlyMoves, Threads
<1>a. /\ mstat[p] = "running" /\ Fresh(p) /\ task[p] \in Tasks
      /\ mstat'[p] = "confirming" /\ mver'[p] = mver[p] + 1
      /\ mstat' = [mstat EXCEPT ![p] = "confirming"]
      /\ mver' = [mver EXCEPT ![p] = mver[p] + 1]
  <2>1. mstat[p] = "running" /\ Fresh(p)
    BY <1>1 DEF LockInv, Locked
  <2>2. task[p] \in Tasks
    BY <1>1 DEF RowInv, Working, Submitting, Finished
  <2>3. /\ mstat' = [mstat EXCEPT ![p] = "confirming"]
        /\ mver' = [mver EXCEPT ![p] = mver[p] + 1]
    BY <2>1, KnownTriggers DEF TriggerVersion
  <2> QED
    BY <1>1, <2>1, <2>2, <2>3 DEF TypeOK
<1>2. TypeOK'
  BY <1>a DEF TypeOK, PCs, Threads, Operations, EventType, TaskStatuses
<1>3. ControlInv'
  BY ThreadsDisjoint DEF TypeOK, ControlInv, ServerControl, SessionControl, RequestControl, InTx,
     ServerPCs, SessionPCs, RequestPCs, Threads
<1>4. /\ Working(p)' => task'[p] \in Tasks /\ status[task'[p]] # "none"
      /\ Submitting(p)' => Submitting(p) /\ task'[p] = task[p]
  BY ThreadsDisjoint DEF TypeOK, ControlInv, ServerControl, SessionControl, RequestControl, InTx,
     RowInv, Working, Submitting, Finished, Threads
<1>5. Locked(p)'
  BY <1>1, <1>a, KnownEdges, ThreadsDisjoint
  DEF TypeOK, Locked, Fresh, Confirming, AboutToUpdate, VersionMatches, Target, Threads
<1>6. p \notin Servers
  BY ThreadsDisjoint
<1>7. Claims(p)' => Claims(p) /\ task'[p] = task[p]
  BY ThreadsDisjoint DEF TypeOK, ControlInv, ServerControl, SessionControl, RequestControl, InTx,
     Claims, Executing, Finished, Threads
<1>8. pc'[p] # "commit" /\ pc[p] # "created"
  BY <1>1, ThreadsDisjoint DEF TypeOK, Threads
<1> QED
  BY <1>1, <1>2, <1>3, <1>4, <1>5, <1>6, <1>7, <1>8, LocalStep DEF TypeOK

(* ApprovalGranted is no event of the table: the copy stays confirming. *)
LEMMA ApprovedPreserves ==
    ASSUME InductiveInv, NEW p \in Sessions, Approved(p)
    PROVE  InductiveInv'
<1> USE DEF InductiveInv, Approved
<1>1. OnlyMoves(p) /\ p \in Threads
  BY DEF TypeOK, OnlyMoves, Threads
<1>a. mstat' = mstat /\ mver' = mver /\ Confirming(p)
  BY <1>1, KnownTriggers DEF TypeOK, LockInv, Locked, TriggerVersion, Trigger, Confirming
<1>2. TypeOK'
  BY <1>a DEF TypeOK, PCs, Threads, Operations, EventType
<1>3. ControlInv'
  BY ThreadsDisjoint DEF TypeOK, ControlInv, ServerControl, SessionControl, RequestControl, InTx,
     ServerPCs, SessionPCs, RequestPCs, Threads
<1>4. /\ Working(p)' => task'[p] \in Tasks /\ status[task'[p]] # "none"
      /\ Submitting(p)' => Submitting(p) /\ task'[p] = task[p]
  BY ThreadsDisjoint DEF TypeOK, ControlInv, ServerControl, SessionControl, RequestControl, InTx,
     RowInv, Working, Submitting, Finished, Threads
<1>5. Locked(p)'
  BY <1>1, <1>a, ThreadsDisjoint
  DEF TypeOK, Locked, Confirming, VersionMatches, Threads
<1>6. p \notin Servers
  BY ThreadsDisjoint
<1>7. Claims(p)' => Claims(p) /\ task'[p] = task[p]
  BY ThreadsDisjoint DEF TypeOK, ControlInv, ServerControl, SessionControl, RequestControl, InTx,
     Claims, Executing, Finished, Threads
<1>8. pc'[p] # "commit" /\ pc[p] # "created"
  BY <1>1, ThreadsDisjoint DEF TypeOK, Threads
<1> QED
  BY <1>1, <1>2, <1>3, <1>4, <1>5, <1>6, <1>7, <1>8, LocalStep DEF TypeOK

(* A refusal only marks the session. *)
LEMMA NotApprovedPreserves ==
    ASSUME InductiveInv, NEW p \in Sessions, NotApproved(p)
    PROVE  InductiveInv'
<1> USE DEF InductiveInv, NotApproved
<1>1. OnlyMoves(p) /\ p \in Threads
  BY DEF TypeOK, OnlyMoves, Threads
<1>2. TypeOK'
  BY DEF TypeOK, PCs, Threads, Operations, EventType
<1>3. ControlInv'
  BY ThreadsDisjoint DEF TypeOK, ControlInv, ServerControl, SessionControl, RequestControl, InTx,
     ServerPCs, SessionPCs, RequestPCs, Threads
<1>4. /\ Working(p)' => task'[p] \in Tasks /\ status[task'[p]] # "none"
      /\ Submitting(p)' => Submitting(p) /\ task'[p] = task[p]
  BY ThreadsDisjoint DEF TypeOK, ControlInv, ServerControl, SessionControl, RequestControl, InTx,
     RowInv, Working, Submitting, Finished, Threads
<1>5. Locked(p)'
  BY ThreadsDisjoint DEF TypeOK, ControlInv, ServerControl, SessionControl, RequestControl, InTx, LockInv, Locked,
     ProcessorInv, Processing, Fresh, Confirming, AboutToUpdate, VersionMatches, Threads
<1>6. p \notin Servers
  BY ThreadsDisjoint
<1>7. Claims(p)' => Claims(p) /\ task'[p] = task[p]
  BY ThreadsDisjoint DEF TypeOK, ControlInv, ServerControl, SessionControl, RequestControl, InTx,
     Claims, Executing, Finished, Threads
<1>8. pc'[p] # "commit" /\ pc[p] # "created"
  BY <1>1, ThreadsDisjoint DEF TypeOK, Threads
<1> QED
  BY <1>1, <1>2, <1>3, <1>4, <1>5, <1>6, <1>7, <1>8, LocalStep DEF TypeOK

(* The agent's result only marks the session. *)
LEMMA RunAgentPreserves ==
    ASSUME InductiveInv, NEW p \in Sessions, RunAgent(p)
    PROVE  InductiveInv'
<1> USE DEF InductiveInv, RunAgent
<1>1. OnlyMoves(p) /\ p \in Threads
  BY DEF TypeOK, OnlyMoves, Threads
<1>2. TypeOK'
  BY DEF TypeOK, PCs, Threads, Operations, EventType
<1>3. ControlInv'
  BY ThreadsDisjoint DEF TypeOK, ControlInv, ServerControl, SessionControl, RequestControl, InTx,
     ServerPCs, SessionPCs, RequestPCs, Threads
<1>4. /\ Working(p)' => task'[p] \in Tasks /\ status[task'[p]] # "none"
      /\ Submitting(p)' => Submitting(p) /\ task'[p] = task[p]
  BY SMTT(30), ThreadsDisjoint DEF TypeOK, ControlInv, ServerControl, SessionControl, RequestControl, InTx,
     RowInv, Working, Submitting, Finished, Threads
<1>5. Locked(p)'
  BY ThreadsDisjoint DEF TypeOK, ControlInv, ServerControl, SessionControl, RequestControl, InTx, LockInv, Locked,
     ProcessorInv, Processing, Fresh, Confirming, AboutToUpdate, VersionMatches, Threads
<1>6. p \notin Servers
  BY ThreadsDisjoint
<1>7. Claims(p)' => Claims(p) /\ task'[p] = task[p]
  BY ThreadsDisjoint DEF TypeOK, ControlInv, ServerControl, SessionControl, RequestControl, InTx,
     Claims, Executing, Finished, Threads
<1>8. pc'[p] # "commit" /\ pc[p] # "created"
  BY <1>1, ThreadsDisjoint DEF TypeOK, Threads
<1> QED
  BY <1>1, <1>2, <1>3, <1>4, <1>5, <1>6, <1>7, <1>8, LocalStep DEF TypeOK

(* The last transition of a running copy follows an edge; a confirming copy  *)
(* is refused and its version is kept.                                       *)
LEMMA SettlePreserves ==
    ASSUME InductiveInv, NEW p \in Sessions, NEW o, NEW event,
           pc[p] \in {"succeeded", "failing"},
           (o = "Complete" /\ event = "AutoComplete") \/ (o = "Fail" /\ event = "ExecutionFailed"),
           Settle(p, o, event)
    PROVE  InductiveInv'
<1> USE DEF InductiveInv, Settle
<1>1. OnlyMoves(p) /\ p \in Threads
  BY DEF TypeOK, OnlyMoves, Threads
<1>a. /\ Trigger(mstat[p], event) \in TaskStatuses \cup {"none"}
      /\ TriggerVersion(mstat[p], mver[p], event) \in Nat
  BY <1>1, TriggerType, TriggerVersionType DEF TypeOK
<1>2. TypeOK'
  BY <1>a DEF TypeOK, PCs, Threads, Operations, EventType
<1>3. ControlInv'
  BY ThreadsDisjoint DEF TypeOK, ControlInv, ServerControl, SessionControl, RequestControl, InTx,
     ServerPCs, SessionPCs, RequestPCs, Threads
<1>4. /\ Working(p)' => task'[p] \in Tasks /\ status[task'[p]] # "none"
      /\ Submitting(p)' => Submitting(p) /\ task'[p] = task[p]
  BY ThreadsDisjoint DEF TypeOK, ControlInv, ServerControl, SessionControl, RequestControl, InTx,
     RowInv, Working, Submitting, Finished, Threads
<1>5. Locked(p)'
  <2>1. /\ task'[p] = task[p] /\ pc'[p] = "begintx" /\ op'[p] = o
        /\ task[p] \in Tasks /\ mstat'[p] = Trigger(mstat[p], event)
        /\ mver'[p] = TriggerVersion(mstat[p], mver[p], event)
    BY <1>1 DEF TypeOK, RowInv, Working, Submitting, Finished
  <2>2. CASE Fresh(p) /\ mstat[p] = "running"
    <3>1. mver'[p] = mver[p] + 1
      BY <2>1, <2>2, KnownTriggers DEF TriggerVersion
    <3> QED
      BY SMTT(30), <1>1, <2>1, <2>2, <3>1, KnownEdges, ThreadsDisjoint
      DEF TypeOK, Locked, Fresh, AboutToUpdate, VersionMatches, Target, Threads
  <2>3. CASE Confirming(p)
    <3>1. mver'[p] = mver[p]
      BY <2>1, <2>3, KnownTriggers DEF TriggerVersion, Confirming
    <3> QED
      BY <1>1, <2>1, <2>3, <3>1, KnownEdges, ThreadsDisjoint
      DEF TypeOK, Locked, Confirming, AboutToUpdate, VersionMatches, Target, Threads
  <2> QED
    BY <1>1, <2>2, <2>3 DEF LockInv, Locked
<1>6. p \notin Servers
  BY ThreadsDisjoint
<1>7. Claims(p)' => Claims(p) /\ task'[p] = task[p]
  BY ThreadsDisjoint DEF TypeOK, ControlInv, ServerControl, SessionControl, RequestControl, InTx,
     Claims, Executing, Finished, Threads
<1>8. pc'[p] # "commit" /\ pc[p] # "created"
  BY <1>1, ThreadsDisjoint DEF TypeOK, Threads
<1> QED
  BY <1>1, <1>2, <1>3, <1>4, <1>5, <1>6, <1>7, <1>8, LocalStep DEF TypeOK

(* A claimed task has a row. *)
LEMMA ClaimantHasTask ==
    ASSUME InductiveInv, NEW q \in Threads, Claims(q)
    PROVE  task[q] \in Tasks
BY ThreadsDisjoint DEF InductiveInv, Claims, Executing, Working, Submitting, Finished, RowInv,
   ControlInv, ServerControl, SessionControl, InTx, SessionPCs

(* UpdateStatus writes a row only over the version its caller read, and only *)
(* along an edge; every other thread's copy of the row is stale from then on. *)
LEMMA UpdateStatusPreserves ==
    ASSUME InductiveInv, NEW p \in Threads, UpdateStatus(p)
    PROVE  InductiveInv'
<1> USE DEF InductiveInv
<1>1. /\ OnlyMoves(p) /\ pc[p] = "update"
      /\ outbox' = outbox /\ issued' = issued /\ task' = task /\ mver' = mver /\ op' = op
      /\ mstat' = mstat /\ srv' = srv /\ todo' = todo /\ child' = child /\ evver' = evver
      /\ processed' = processed /\ batch' = batch /\ sstat' = sstat
  BY DEF TypeOK, OnlyMoves, UpdateStatus, UpdateFailedPC, FailurePC
<1>2. /\ Working(p) /\ task[p] \in Tasks /\ status[task[p]] # "none"
      /\ op[p] \in DOMAIN Target /\ AboutToUpdate(p)
  <2>1. op[p] \in {"Dispatch", "Start", "Confirm", "Complete", "Fail", "CancelTask", "Cancel"}
    BY <1>1, ThreadsDisjoint DEF ControlInv, ServerControl, SessionControl, RequestControl, InTx, Threads
  <2> QED
    BY <1>1, <2>1 DEF Target, Working, Submitting, Finished, RowInv, LockInv, Locked
<1>3. /\ \/ status' = status /\ version' = version
         \/ VersionMatches(p) /\ SetRow(p)
      /\ \E to \in {"approval", "write", "commit", "panic", FailurePC(p)} :
            pc' = [pc EXCEPT ![p] = to]
      /\ tx' = tx \/ tx' = [tx EXCEPT ![p] = "none"]
  BY DEF UpdateStatus, UpdateFailedPC
<1>4. ASSUME VersionMatches(p), SetRow(p)
      PROVE  /\ Edge(status[task[p]], Target[op[p]])
             /\ version[task[p]] \in Nat /\ version'[task[p]] = version[task[p]] + 1
             /\ version'[task[p]] = mver[p]
             /\ status'[task[p]] = Target[op[p]]
             /\ \A u \in Tasks : u # task[p] => status'[u] = status[u] /\ version'[u] = version[u]
             /\ op[p] # "Cancel"
             /\ op[p] = "Start" => mstat[p] = "running"
             /\ op[p] = "Dispatch" => mstat[p] = "dispatched"
             /\ status[task[p]] \in TaskStatuses /\ Target[op[p]] \in TaskStatuses
             /\ ~IsTerminal(status[task[p]])
             /\ Target[op[p]] # "pending" /\ Target[op[p]] # "none"
  BY <1>2, <1>4, EdgeFacts DEF TypeOK, SetRow, AboutToUpdate, VersionMatches, TaskStatuses
<1>5. TypeOK'
  <2>1. pc' \in [Threads -> PCs]
    BY <1>3 DEF TypeOK, PCs, FailurePC
  <2>2. status' \in [Tasks -> TaskStatuses \cup {"none"}] /\ version' \in [Tasks -> Nat]
    BY <1>2, <1>3, <1>4 DEF TypeOK, SetRow
  <2>3. tx' \in [Threads -> {"none", "open", "written", "aborted"}]
    BY <1>3 DEF TypeOK
  <2> QED
    BY <1>1, <2>1, <2>2, <2>3 DEF TypeOK
<1>6. /\ pc'[p] \in {"approval", "write", "commit", "panic", FailurePC(p)}
      /\ pc'[p] = "approval" => op[p] = "Confirm"
      /\ pc'[p] = "write" => op[p] = "Cancel" /\ VersionMatches(p)
      /\ pc'[p] = "commit" => op[p] \notin {"Confirm", "Cancel"} /\ VersionMatches(p) /\ SetRow(p)
      /\ pc'[p] = "panic" => op[p] = "Cancel"
      /\ op[p] = "Confirm" => pc'[p] = "approval"
  BY <1>1 DEF TypeOK, UpdateStatus, UpdateFailedPC, FailurePC
<1>7. pc'[p] # "write"
  BY <1>2, <1>6 DEF AboutToUpdate, VersionMatches, TypeOK
<1>8. \A q \in Threads : Working(q) =>
          \/ status'[task[q]] = status[task[q]] /\ version'[task[q]] = version[task[q]]
          \/ version'[task[q]] \in Nat /\ version'[task[q]] > version[task[q]]
  BY <1>3, <1>4 DEF RowInv
<1>9. \A u \in Tasks : status[u] # "none" => status'[u] # "none"
  BY <1>2, <1>3, <1>4
<1>10. \A u \in Tasks : status[u] = "none" => status'[u] = "none"
  BY <1>2, <1>3, <1>4
<1>11. \A u \in Tasks : IsTerminal(status[u]) => status'[u] = status[u]
  BY <1>2, <1>3, <1>4
<1>12. \A u \in Tasks : status[u] # "pending" => status'[u] # "pending"
  BY <1>2, <1>3, <1>4
<1>13. ControlInv'
  <2>1. p \in Servers => pc'[p] \in {"commit", "loop"}
    BY <1>1, <1>6, <1>7, ThreadsDisjoint DEF ControlInv, ServerControl, FailurePC
  <2>2. p \in Sessions => pc'[p] \in {"approval", "commit", "dead"}
    BY <1>1, <1>6, <1>7, ThreadsDisjoint DEF ControlInv, SessionControl, FailurePC, InTx
  <2>3. p \in Requests => pc'[p] \in {"commit", "panic", "err"}
    BY <1>1, <1>6, <1>7, ThreadsDisjoint DEF ControlInv, RequestControl, FailurePC
  <2> QED
    BY <1>1, <1>6, <2>1, <2>2, <2>3, ThreadsDisjoint
    DEF OnlyMoves, ControlInv, ServerControl, SessionControl, RequestControl, InTx,
        ServerPCs, SessionPCs, RequestPCs, Threads
<1>14. RowInv'
  <2>1. \A q \in Threads : Working(q)' => Working(q)
    BY <1>1, <1>2 DEF OnlyMoves, Working, Submitting
  <2>2. \A q \in Threads : Submitting(q)' => Submitting(q)
    BY <1>1, <1>6, <1>7, ThreadsDisjoint DEF OnlyMoves, Submitting, FailurePC
  <2> QED
    BY <1>1, <1>9, <1>10, <2>1, <2>2 DEF RowInv, TypeOK
<1>15. LockInv'
  <2> SUFFICES ASSUME NEW q \in Threads PROVE Locked(q)'
    BY DEF LockInv
  <2>1. CASE q # p
    BY <2>1, <1>1, <1>8, QuietThread DEF TypeOK, LockInv, RowInv, OnlyMoves
  <2>2. CASE q = p
    <3>1. CASE pc'[p] = "commit"
      BY <1>1, <1>2, <1>4, <1>6, <2>2, <3>1 DEF Locked, Fresh, Target, TypeOK
    <3>2. CASE pc'[p] = "approval"
      <4>1. Confirming(p)'
        BY <1>1, <1>2, <1>3, <1>4, <1>6, <3>2 DEF TypeOK, AboutToUpdate, Confirming, VersionMatches
      <4> QED
        BY <1>1, <2>2, <3>2, <4>1 DEF Locked
    <3>3. CASE pc'[p] \in {"panic", "loop", "dead", "err"}
      <4>1. pc'[p] = "loop" => p \in Servers
        BY <1>6 , <3>3, ThreadsDisjoint DEF FailurePC
      <4>2. p \in Servers => todo[p] = {}
        BY <1>1, ThreadsDisjoint DEF ProcessorInv, Processing, InTx, ControlInv, ServerControl
      <4> QED
        BY <1>1, <2>2, <3>3, <4>1, <4>2 DEF Locked
    <3> QED
      BY <1>6, <1>7, <3>1, <3>2, <3>3 DEF FailurePC
  <2> QED
    BY <2>1, <2>2
<1>16. EventInv'
  <2>1. \A e \in outbox : e[1] \in Tasks
    BY DEF TypeOK, Events
  <2>2. TerminalEventsSound'
    BY <1>1, <1>11, <2>1 DEF EventInv, TerminalEventsSound, EventStatus, IsTerminal
  <2>3. ASSUME NEW q \in Threads, pc'[q] = "commit", op[q] \in TerminalOps
        PROVE  status'[task[q]] = Target[op[q]]
    <3>1. CASE q = p
      BY <2>3, <3>1, <1>4, <1>6
    <3>2. CASE q # p
      BY <2>3, <3>2, <1>1, <1>11
      DEF OnlyMoves, EventInv, TerminalOps, Target, IsTerminal, RowInv, Working, Submitting, Finished
    <3> QED
      BY <3>1, <3>2
  <2> QED
    BY <1>1, <2>2, <2>3 DEF EventInv
<1>17. ProcessorInv'
  <2> SUFFICES ASSUME NEW x \in Servers PROVE Processing(x)'
    BY DEF ProcessorInv
  <2>1. CASE x # p
    BY <2>1, <1>1, QuietProcessor DEF ProcessorInv
  <2>2. CASE x = p
    <3>1. child[p] # p /\ child[p] \in Threads
      BY <1>1, <2>2, ThreadsDisjoint DEF ProcessorInv, Processing, InTx, Threads
    <3>2. pc'[p] \in {"commit", "loop"}
      BY <1>1, <1>6, <1>7, <2>2, ThreadsDisjoint DEF ControlInv, ServerControl, FailurePC
    <3> QED
      BY <1>1, <2>2, <3>1, <3>2 DEF ProcessorInv, Processing, InTx, OnlyMoves
  <2> QED
    BY <2>1, <2>2
<1>18. ClaimInv'
  <2>1. \A q \in Threads \ {p} : Claims(q)' => Claims(q)
    BY <1>1 DEF Claims, Executing, OnlyMoves
  <2>a. \A q \in Threads : Claims(q) => task[q] \in Tasks
    BY ClaimantHasTask
  <2>2. CASE Claims(p)' => Claims(p)
    BY <2>1, <2>a, <2>2, <1>1, <1>12 DEF ClaimInv
  <2>3. CASE Claims(p)' /\ ~Claims(p)
    <3>1. /\ p \in Servers /\ pc'[p] = "commit" /\ op[p] = "Dispatch"
          /\ status[task[p]] = "pending" /\ status'[task[p]] = "dispatched"
      <4>1. p \notin Sessions
        BY <1>1, <2>3 DEF Claims, Executing, Finished
      <4>2. p \in Servers /\ pc'[p] = "commit" /\ op[p] = "Dispatch"
        BY <1>1, <2>3, <4>1 DEF Claims, Executing
      <4> QED
        BY <4>2, <1>4, <1>6, EdgeFacts DEF Target
    <3>2. \A q \in Threads : Claims(q) => task[q] # task[p]
      BY <3>1 DEF ClaimInv
    <3> QED
      BY <1>1, <1>12, <2>1, <2>a, <3>1, <3>2 DEF ClaimInv
  <2> QED
    BY <2>2, <2>3
<1> QED
  BY <1>5, <1>13, <1>14, <1>15, <1>16, <1>17, <1>18

(* A commit that answers, or that returns an error, moves its thread alone. *)
LEMMA LocalCommitPreserves ==
    ASSUME InductiveInv, NEW p \in Threads, pc[p] = "commit", EventInv',
           NEW to \in {FailurePC(p), "ok", "started", "done"},
           pc' = [pc EXCEPT ![p] = to],
           to = "ok" => p \in Requests,
           to = "started" => p \in Sessions /\ op[p] = "Start",
           to = "done" => p \in Sessions,
           outbox' \in SUBSET Events,
           tx' = [tx EXCEPT ![p] = "none"],
           UNCHANGED <<rowVars, processed, issued, memVars, sstat, procVars>>
    PROVE  InductiveInv'
<1> USE DEF InductiveInv
<1>1. OnlyMoves(p) /\ pc'[p] = to
  BY DEF TypeOK, OnlyMoves
<1>2. to \in {"loop", "dead", "err", "ok", "started", "done"}
  BY DEF FailurePC
<1>3. to = "loop" => p \in Servers
  BY ThreadsDisjoint DEF FailurePC
<1>4. TypeOK'
  BY <1>2 DEF TypeOK, PCs
<1>5. ControlInv'
  BY <1>1, <1>2, ThreadsDisjoint DEF OnlyMoves, ControlInv, ServerControl, SessionControl,
     RequestControl, InTx, ServerPCs, SessionPCs, RequestPCs, Threads, FailurePC
<1>6. RowInv'
  <2>1. Working(p)
    BY DEF Working, Submitting, Finished
  <2>2. \A q \in Threads : Working(q)' => Working(q)
    BY <1>1, <2>1 DEF OnlyMoves, Working, Submitting
  <2>3. \A q \in Threads : Submitting(q)' => Submitting(q)
    BY <1>1, <1>2 DEF OnlyMoves, Submitting
  <2> QED
    BY <2>2, <2>3, QuietRows DEF RowInv
<1>7. LockInv'
  <2> SUFFICES ASSUME NEW q \in Threads PROVE Locked(q)'
    BY DEF LockInv
  <2>1. CASE q # p
    BY <2>1, <1>1, QuietThread DEF TypeOK, LockInv, RowInv, OnlyMoves
  <2>2. CASE q = p
    <3>1. CASE to = "started"
      BY <1>1, <2>2, <3>1, ThreadsDisjoint DEF LockInv, Locked, Fresh, Target
    <3>2. CASE to = "loop"
      <4>1. op[p] \in {"Dispatch", "Assign"}
        BY <1>3, <3>2 DEF ControlInv, ServerControl, InTx
      <4> QED
        BY <1>1, <2>2, <3>2, <4>1 DEF LockInv, Locked, Fresh
    <3>3. CASE to \in {"dead", "err", "ok", "done"}
      BY <1>1, <2>2, <3>3 DEF Locked
    <3> QED
      BY <1>2, <3>1, <3>2, <3>3
  <2> QED
    BY <2>1, <2>2
<1>8. ProcessorInv'
  <2> SUFFICES ASSUME NEW x \in Servers PROVE Processing(x)'
    BY DEF ProcessorInv
  <2>1. CASE x # p
    BY <2>1, <1>1, QuietProcessor DEF ProcessorInv
  <2>2. CASE x = p
    BY <1>1, <2>2, ThreadsDisjoint DEF ProcessorInv, Processing, InTx, FailurePC
  <2> QED
    BY <2>1, <2>2
<1>9. ClaimInv'
  <2>1. Claims(p)' => Claims(p) /\ task'[p] = task[p]
    BY <1>1, <1>2, ThreadsDisjoint DEF Claims, Executing, Finished, FailurePC
  <2> QED
    BY <2>1, <1>1, QuietClaims
<1> QED
  BY <1>4, <1>5, <1>6, <1>7, <1>8, <1>9

(* A commit of the processor spawns the session it created: the session's    *)
(* goroutine starts with the processor's copy of the task and, for a         *)
(* single-agent task, takes over its claim.                                  *)
LEMMA SpawningCommitPreserves ==
    ASSUME InductiveInv, NEW p \in Servers, pc[p] = "commit", EventInv', Committed(p),
           outbox' \in SUBSET Events,
           tx' = [tx EXCEPT ![p] = "none"],
           UNCHANGED <<rowVars, processed, issued, srv, task, op, evver, sstat, procVars>>
    PROVE  InductiveInv'
<1> USE DEF InductiveInv
<1>1. PICK c \in Sessions :
      /\ c = child[p] /\ pc[c] = "created" /\ srv[c] = p /\ task[c] = task[p]
      /\ op[p] \in {"Dispatch", "Assign"} /\ srv[p] = p
      /\ op[p] = "Assign" => Subtasks[task[p]] # {}
      /\ todo[p] # {} => Subtasks[task[p]] # {}
      /\ Fresh(p) /\ task[p] \in Tasks /\ status[task[p]] # "none"
  BY DEF ProcessorInv, Processing, InTx, ControlInv, ServerControl, LockInv, Locked, Threads,
     RowInv, Working, Submitting, Finished
<1>2. /\ c \in Threads /\ p \in Threads /\ c # p
      /\ pc' = [pc EXCEPT ![p] = "loop", ![c] = "begin"]
      /\ mstat' = [mstat EXCEPT ![c] = mstat[p]]
      /\ mver' = [mver EXCEPT ![c] = mver[p]]
  BY <1>1, ThreadsDisjoint DEF Committed, Threads
<1>3. /\ pc'[p] = "loop" /\ pc'[c] = "begin" /\ mstat'[p] = mstat[p] /\ mver'[p] = mver[p]
      /\ mstat'[c] = mstat[p] /\ mver'[c] = mver[p]
      /\ \A q \in Threads \ {p, c} : pc'[q] = pc[q] /\ mstat'[q] = mstat[q] /\ mver'[q] = mver[q]
  BY <1>2 DEF TypeOK
<1>4. TypeOK'
  BY <1>2 DEF TypeOK, PCs
<1>5. ControlInv'
  <2>1. ServerControl'
    <3> SUFFICES ASSUME NEW x \in Servers
                 PROVE  /\ pc'[x] \in ServerPCs
                        /\ pc'[x] \in InTx => op[x] \in {"Dispatch", "Assign"}
                        /\ pc'[x] = "update" => op[x] = "Dispatch"
      BY DEF ServerControl
    <3>1. x = p \/ pc'[x] = pc[x]
      BY <1>1, <1>3, ThreadsDisjoint DEF Threads
    <3> QED
      BY <1>3, <3>1 DEF ControlInv, ServerControl, ServerPCs, InTx
  <2>2. SessionControl'
    <3> SUFFICES ASSUME NEW x \in Sessions
                 PROVE  /\ pc'[x] \in SessionPCs
                        /\ pc'[x] \in InTx => op[x] \in {"Start", "Confirm", "Complete", "Fail"}
                        /\ pc'[x] \in InTx /\ op[x] = "Confirm" => pc'[x] = "update"
      BY DEF SessionControl
    <3>1. x = c \/ pc'[x] = pc[x]
      BY <1>3, ThreadsDisjoint DEF Threads
    <3> QED
      BY <1>3, <3>1 DEF ControlInv, SessionControl, SessionPCs, InTx
  <2>3. \A x \in Requests : pc'[x] = pc[x] /\ op'[x] = op[x]
    BY <1>1, <1>3, ThreadsDisjoint DEF Threads
  <2>4. RequestControl'
    BY <2>3 DEF ControlInv, RequestControl
  <2> QED
    BY <2>1, <2>2, <2>4 DEF ControlInv
<1>6. RowInv'
  <2>1. \A q \in Threads : Working(q)' => Working(q)
    BY <1>1, <1>3 DEF Working, Submitting, Finished
  <2>2. \A q \in Threads : Submitting(q)' => Submitting(q)
    BY <1>3 DEF Submitting
  <2> QED
    BY <2>1, <2>2, QuietRows DEF RowInv
<1>7. LockInv'
  <2> SUFFICES ASSUME NEW q \in Threads PROVE Locked(q)'
    BY DEF LockInv
  <2>1. CASE q \notin {p, c}
    BY <2>1, <1>3, QuietThread DEF TypeOK, LockInv, RowInv
  <2>2. CASE q = p
    BY <2>2, <1>1, <1>3 DEF Locked, Fresh
  <2>3. CASE q = c
    BY <2>3, <1>1, <1>3, ThreadsDisjoint DEF Locked, Fresh
  <2> QED
    BY <2>1, <2>2, <2>3
<1>8. ProcessorInv'
  <2> SUFFICES ASSUME NEW x \in Servers PROVE Processing(x)'
    BY DEF ProcessorInv
  <2>1. CASE x = p
    BY <2>1, <1>1, <1>3 DEF ProcessorInv, Processing, InTx
  <2>2. CASE x # p
    <3>1. x \in Threads \ {p, c}
      BY <1>1, <2>2, ThreadsDisjoint DEF Threads
    <3>2. pc[x] \in InTx => child[x] \in Threads \ {p, c}
      BY <1>1, <2>2, ThreadsDisjoint DEF ProcessorInv, Processing, Threads
    <3> QED
      BY <1>3, <3>1, <3>2 DEF ProcessorInv, Processing
  <2> QED
    BY <2>1, <2>2
<1>9. ClaimInv'
  <2>1. ~Claims(p)' /\ task' = task /\ status' = status
    BY <1>3, ThreadsDisjoint DEF Claims, Executing
  <2>2. \A q \in Threads \ {p, c} : Claims(q)' => Claims(q)
    BY <1>3 DEF Claims, Executing
  <2>3. Claims(c)' => Claims(p)
    BY <1>1, <2>1 DEF Claims
  <2>4. \A q \in Threads : Claims(q)' =>
           \E x \in Threads : /\ Claims(x) /\ task[x] = task'[q]
                              /\ x = IF q = c THEN p ELSE q
    BY <1>1, <1>2, <2>1, <2>2, <2>3
  <2>5. \A q \in Threads : Claims(q)' => status'[task'[q]] # "pending"
    BY <2>1, <2>4 DEF ClaimInv
  <2>6. ASSUME NEW q \in Threads, NEW x \in Threads, Claims(q)', Claims(x)', task'[q] = task'[x]
        PROVE  q = x
    <3>1. (IF q = c THEN p ELSE q) = (IF x = c THEN p ELSE x)
      BY <2>4, <2>6 DEF ClaimInv
    <3> QED
      BY <2>1, <2>6, <3>1
  <2> QED
    BY <2>5, <2>6 DEF ClaimInv
<1> QED
  BY <1>4, <1>5, <1>6, <1>7, <1>8, <1>9

(* A terminal event is committed by a thread whose row already has its       *)
(* status, whether or not the reply of the commit is lost.                   *)
LEMMA CommitPreserves ==
    ASSUME InductiveInv, NEW p \in Threads, Commit(p)
    PROVE  InductiveInv'
<1> USE DEF InductiveInv
<1>1. /\ pc[p] = "commit" /\ tx' = [tx EXCEPT ![p] = "none"]
      /\ UNCHANGED <<rowVars, processed, issued, srv, task, op, evver, sstat, procVars>>
      /\ outbox' = outbox \/ outbox' = outbox \cup {IdempotencyKey(p)}
  BY DEF Commit
<1>2. task[p] \in Tasks /\ IdempotencyKey(p) \in Events
  BY <1>1 DEF TypeOK, RowInv, Working, Submitting, Finished, IdempotencyKey, Events
<1>3. outbox' \in SUBSET Events
  BY <1>1, <1>2 DEF TypeOK
<1>4. op[p] \in {"Dispatch", "Assign", "Start", "Complete", "Fail", "Submit", "CancelTask"}
  BY <1>1, ThreadsDisjoint DEF ControlInv, ServerControl, SessionControl, RequestControl, InTx, Threads
<1>5. EventInv'
  <2>1. EventType[op[p]] \in DOMAIN EventStatus =>
           op[p] \in TerminalOps /\ EventStatus[EventType[op[p]]] = Target[op[p]]
    BY <1>4 DEF EventType, EventStatus, TerminalOps, Target
  <2>2. /\ IdempotencyKey(p)[1] = task[p]
        /\ IdempotencyKey(p)[2] = EventType[op[p]]
    BY DEF IdempotencyKey
  <2>3. TerminalEventsSound'
    BY <1>1, <2>1, <2>2 DEF EventInv, TerminalEventsSound
  <2>4. \A q \in Threads : pc'[q] = "commit" => pc[q] = "commit"
    BY <1>1 DEF Commit, Committed, TypeOK, FailurePC
  <2> QED
    BY <1>1, <2>3, <2>4 DEF EventInv
<1>6. CASE p \in Servers /\ Committed(p)
  BY <1>1, <1>3, <1>5, <1>6, SpawningCommitPreserves
<1>7. CASE p \notin Servers /\ Committed(p)
  <2>1. /\ pc' = [pc EXCEPT ![p] = IF p \in Requests THEN "ok"
                                   ELSE IF op[p] = "Start" THEN "started" ELSE "done"]
        /\ UNCHANGED memVars
    BY <1>1, <1>7 DEF Committed
  <2> QED
    BY <1>1, <1>3, <1>5, <1>7, <2>1, LocalCommitPreserves DEF Threads
<1>8. CASE pc' = [pc EXCEPT ![p] = FailurePC(p)] /\ UNCHANGED <<mstat, mver>>
  <2>1. UNCHANGED memVars
    BY <1>1, <1>8
  <2>2. FailurePC(p) \notin {"ok", "started", "done"}
    BY DEF FailurePC
  <2> QED
    BY <1>1, <1>3, <1>5, <1>8, <2>1, <2>2, LocalCommitPreserves
<1> QED
  BY <1>6, <1>7, <1>8 DEF Commit

(* The processor of s creates session p for task t and opens a transaction:  *)
(* a created session runs nothing yet and claims nothing.                    *)
LEMMA AddSessionPreserves ==
    ASSUME InductiveInv, NEW s \in Servers, NEW t \in Tasks, NEW p \in Sessions, NEW st,
           NEW o \in {"Dispatch", "Assign"},
           AddSession(s, t, p, st), TypeOK', Locked(s)',
           pc[s] \in {"poll", "loop"}, status[t] # "none",
           op' = [op EXCEPT ![s] = o],
           o = "Dispatch" => Subtasks[t] = {},
           o = "Assign" => Subtasks[t] # {},
           todo'[s] # {} => Subtasks[t] # {},
           \A q \in Threads \ {s} : mstat'[q] = mstat[q] /\ mver'[q] = mver[q],
           \A x \in Servers \ {s} : todo'[x] = todo[x],
           UNCHANGED <<rowVars, boxVars, issued>>
    PROVE  InductiveInv'
<1> USE DEF InductiveInv
<1>1. s \in Threads /\ p \in Threads /\ s # p
  BY ThreadsDisjoint DEF Threads
<1>2. /\ pc[p] = "idle" /\ pc'[p] = "created" /\ pc'[s] = "begintx"
      /\ srv'[p] = s /\ task'[p] = t /\ task'[s] = t /\ child'[s] = p /\ op'[s] = o
      /\ srv'[s] = srv[s] /\ op'[p] = op[p]
      /\ \A q \in Threads \ {s, p} : /\ pc'[q] = pc[q] /\ srv'[q] = srv[q]
                                     /\ task'[q] = task[q] /\ op'[q] = op[q]
      /\ \A x \in Servers \ {s} : child'[x] = child[x]
  BY <1>1 DEF AddSession, TypeOK
<1>3. ControlInv'
  <2>1. \A x \in Servers : x # s => pc'[x] = pc[x] /\ op'[x] = op[x]
    BY <1>1, <1>2, ThreadsDisjoint DEF Threads
  <2>2. \A x \in Sessions : x # p => pc'[x] = pc[x] /\ op'[x] = op[x]
    BY <1>1, <1>2, ThreadsDisjoint DEF Threads
  <2>3. \A x \in Requests : pc'[x] = pc[x] /\ op'[x] = op[x]
    BY <1>1, <1>2, ThreadsDisjoint DEF Threads
  <2>4. ServerControl'
    BY <1>2, <2>1 DEF ControlInv, ServerControl, ServerPCs, InTx
  <2>5. SessionControl'
    BY <1>2, <2>2 DEF ControlInv, SessionControl, SessionPCs, InTx
  <2>6. RequestControl'
    BY <2>3 DEF ControlInv, RequestControl
  <2> QED
    BY <2>4, <2>5, <2>6 DEF ControlInv
<1>4. RowInv'
  <2>1. \A q \in Threads \ {s, p} : Working(q)' => Working(q) /\ task'[q] = task[q]
    BY <1>2 DEF Working, Submitting
  <2>2. \A q \in Threads \ {s, p} : Submitting(q)' => Submitting(q) /\ task'[q] = task[q]
    BY <1>2 DEF Submitting
  <2>3. ~Submitting(s)' /\ ~Submitting(p)'
    BY <1>2 DEF Submitting
  <2>4. \A q \in Threads : Working(q)' => task'[q] \in Tasks /\ status[task'[q]] # "none"
    BY <1>2, <2>1 DEF RowInv
  <2> QED
    BY <2>2, <2>3, <2>4, QuietRows
<1>5. LockInv'
  <2> SUFFICES ASSUME NEW q \in Threads PROVE Locked(q)'
    BY DEF LockInv
  <2>1. CASE q \notin {s, p}
    BY SMTT(30), <2>1, <1>2, QuietThread DEF TypeOK, LockInv, RowInv
  <2>2. CASE q = s
    BY <2>2
  <2>3. CASE q = p
    BY <2>3, <1>2 DEF Locked
  <2> QED
    BY <2>1, <2>2, <2>3
<1>6. EventInv'
  BY <1>2 DEF EventInv, TerminalEventsSound
<1>7. ProcessorInv'
  <2> SUFFICES ASSUME NEW x \in Servers PROVE Processing(x)'
    BY DEF ProcessorInv
  <2>1. CASE x = s
    BY <2>1, <1>2 DEF ProcessorInv, Processing, InTx
  <2>2. CASE x # s
    <3>1. x \in Threads \ {s, p}
      BY <2>2, ThreadsDisjoint DEF Threads
    <3>2. pc[x] \in InTx => child[x] \in Threads \ {s, p}
      BY <1>2, ThreadsDisjoint DEF ProcessorInv, Processing, Threads
    <3> QED
      BY <1>2, <2>2, <3>1, <3>2 DEF ProcessorInv, Processing
  <2> QED
    BY <2>1, <2>2
<1>8. ClaimInv'
  <2>1. ~Claims(s)' /\ ~Claims(p)'
    BY <1>2, ThreadsDisjoint DEF Claims, Executing
  <2>2. \A q \in Threads \ {s, p} : Claims(q)' => Claims(q) /\ task'[q] = task[q]
    BY <1>2 DEF Claims, Executing
  <2> QED
    BY <2>1, <2>2 DEF ClaimInv
<1> QED
  BY <1>3, <1>4, <1>5, <1>6, <1>7, <1>8

(* The dispatch of a pending row will match only while the row is still      *)
(* pending.                                                                  *)
LEMMA StartSingleAgentExecutionPreserves ==
    ASSUME InductiveInv, NEW s \in Servers, NEW t \in batch[s], NEW p \in Sessions,
           StartSingleAgentExecution(s, t, p)
    PROVE  InductiveInv'
<1> USE DEF InductiveInv
<1>1. s \in Threads /\ p \in Threads /\ s # p /\ t \in Tasks
  BY ThreadsDisjoint DEF Threads, TypeOK
<1>2. /\ pc[s] = "poll" /\ status[t] = "pending" /\ Subtasks[t] = {}
      /\ AddSession(s, t, p, "running") /\ op' = [op EXCEPT ![s] = "Dispatch"]
      /\ mstat' = [mstat EXCEPT ![s] = "dispatched"]
      /\ mver' = [mver EXCEPT ![s] = version[t] + 1]
      /\ evver' = [evver EXCEPT ![s] = version[t]]
      /\ batch' = [batch EXCEPT ![s] = @ \ {t}]
      /\ UNCHANGED <<rowVars, boxVars, issued, tx, todo>>
  BY KnownTriggers DEF StartSingleAgentExecution, Take, TriggerVersion
<1>3. TypeOK'
  BY <1>1, <1>2 DEF TypeOK, AddSession, PCs, TaskIds, Operations, EventType, TaskStatuses
<1>4. /\ pc'[s] = "begintx" /\ op'[s] = "Dispatch" /\ task'[s] = t
      /\ mstat'[s] = "dispatched" /\ mver'[s] = version[t] + 1
      /\ \A q \in Threads \ {s} : mstat'[q] = mstat[q] /\ mver'[q] = mver[q]
  BY <1>1, <1>2 DEF TypeOK, AddSession
<1>5. Locked(s)'
  BY <1>1, <1>2, <1>4, KnownEdges DEF TypeOK, Locked, AboutToUpdate, VersionMatches, Target
<1>6. todo[s] = {}
  BY <1>2 DEF ProcessorInv, Processing
<1> QED
  BY <1>1, <1>2, <1>3, <1>4, <1>5, <1>6, AddSessionPreserves

(* A subtask's session starts from the copy the processor holds. *)
LEMMA StartAgentSessionPreserves ==
    ASSUME InductiveInv, NEW s \in Servers, NEW st \in todo[s], NEW p \in Sessions,
           StartAgentSession(s, st, p)
    PROVE  InductiveInv'
<1> USE DEF InductiveInv
<1>1. s \in Threads /\ p \in Threads /\ s # p
  BY ThreadsDisjoint DEF Threads
<1>2. /\ pc[s] = "loop" /\ AddSession(s, task[s], p, "pending")
      /\ op' = [op EXCEPT ![s] = "Assign"] /\ todo' = [todo EXCEPT ![s] = @ \ {st}]
      /\ UNCHANGED <<rowVars, boxVars, issued, mstat, mver, evver, tx, batch>>
  BY DEF StartAgentSession
<1>3. task[s] \in Tasks /\ status[task[s]] # "none" /\ Subtasks[task[s]] # {} /\ Fresh(s)
  BY <1>1, <1>2 DEF RowInv, Working, Submitting, Finished, ProcessorInv, Processing, LockInv, Locked
<1>4. TypeOK'
  BY <1>1, <1>2, <1>3 DEF TypeOK, AddSession, PCs, TaskIds, Operations, EventType
<1>5. pc'[s] = "begintx" /\ op'[s] = "Assign" /\ task'[s] = task[s]
  BY <1>1, <1>2 DEF TypeOK, AddSession
<1>6. Locked(s)'
  BY <1>2, <1>3, <1>5 DEF Locked, Fresh, Target
<1>7. \A x \in Servers \ {s} : todo'[x] = todo[x]
  BY <1>2 DEF TypeOK
<1> QED
  BY <1>1, <1>2, <1>3, <1>4, <1>6, <1>7, AddSessionPreserves

(* A server that dies takes its threads with it and leaves the database as   *)
(* it is; what remains is a part of the state before.                        *)
LEMMA CrashPreserves ==
    ASSUME InductiveInv, NEW s \in Servers, Crash(s)
    PROVE  InductiveInv'
<1> USE DEF InductiveInv, Crash
<1>1. /\ \A q \in Threads : \/ srv[q] # s /\ pc'[q] = pc[q]
                            \/ pc[q] \in Finished /\ pc'[q] = pc[q]
                            \/ q \in Servers /\ pc'[q] = "poll"
                            \/ q \notin Servers /\ pc'[q] = "dead"
      /\ \A x \in Servers : x # s => srv[x] # s /\ todo'[x] = todo[x] /\ pc'[x] = pc[x]
      /\ todo'[s] = {} /\ pc'[s] = "poll"
      /\ UNCHANGED <<rowVars, boxVars, issued, memVars, child>>
  BY DEF TypeOK, ProcessorInv, Processing, Threads, ControlInv, ServerControl, ServerPCs, Finished
<1>2. TypeOK'
  BY DEF TypeOK, PCs
<1>3. ControlInv'
  BY <1>1, ThreadsDisjoint DEF ControlInv, ServerControl, SessionControl, RequestControl, InTx,
     ServerPCs, SessionPCs, RequestPCs, Threads
<1>4. RowInv'
  <2>1. \A q \in Threads : Working(q)' => Working(q)
    BY <1>1 DEF Working, Submitting, Finished
  <2>2. \A q \in Threads : Submitting(q)' => Submitting(q)
    BY <1>1 DEF Submitting
  <2> QED
    BY <2>1, <2>2, QuietRows DEF RowInv
<1>5. LockInv'
  <2> SUFFICES ASSUME NEW q \in Threads PROVE Locked(q)'
    BY DEF LockInv
  <2>1. CASE pc'[q] \in {"poll", "dead"}
    BY <2>1 DEF Locked
  <2>2. CASE pc'[q] = pc[q] /\ pc[q] # "poll"
    <3>1. q \in Servers => todo'[q] = todo[q]
      BY <1>1, <2>2
    <3> QED
      BY <2>2, <3>1, QuietThread DEF TypeOK, LockInv, RowInv
  <2> QED
    BY <1>1, <2>1, <2>2
<1>6. EventInv'
  BY <1>1 DEF EventInv, TerminalEventsSound
<1>7. ProcessorInv'
  <2> SUFFICES ASSUME NEW x \in Servers PROVE Processing(x)'
    BY DEF ProcessorInv
  <2>1. CASE x = s
    BY <1>1, <2>1 DEF ProcessorInv, Processing, InTx
  <2>2. CASE x # s
    <3>1. pc[x] \in InTx => child[x] \in Threads /\ pc'[child[x]] = pc[child[x]]
      BY <1>1, <2>2, ThreadsDisjoint DEF ProcessorInv, Processing, Threads, TypeOK
    <3> QED
      BY SMTT(30), <1>1, <2>2, <3>1 DEF ProcessorInv, Processing
  <2> QED
    BY <2>1, <2>2
<1>8. ClaimInv'
  <2>1. \A q \in Threads : Claims(q)' => Claims(q)
    BY <1>1, ThreadsDisjoint DEF Claims, Executing, Finished
  <2> QED
    BY <1>1, <2>1 DEF ClaimInv
<1> QED
  BY <1>2, <1>3, <1>4, <1>5, <1>6, <1>7, <1>8

-----------------------------------------------------------------------------
(* The invariant holds in every reachable state. *)

(* The empty database and idle goroutines satisfy the invariant. *)
LEMMA InitEstablishes ==
    ASSUME Init PROVE InductiveInv
<1> USE DEF Init
<1>1. \A p \in Threads : pc[p] \in {"poll", "idle"} /\ (pc[p] = "poll" <=> p \in Servers)
  OBVIOUS
<1>2. TypeOK
  BY DEF TypeOK, PCs, TaskStatuses, TaskIds, Operations, EventType, Events, Threads
<1>3. ControlInv
  BY <1>1, ThreadsDisjoint DEF ControlInv, ServerControl, SessionControl, RequestControl, InTx,
     ServerPCs, SessionPCs, RequestPCs, Threads
<1>4. RowInv
  BY <1>1 DEF RowInv, Working, Submitting, Finished
<1>5. LockInv
  BY <1>1 DEF LockInv, Locked
<1>6. EventInv
  BY <1>1 DEF EventInv, TerminalEventsSound
<1>7. ProcessorInv
  BY <1>1 DEF ProcessorInv, Processing, InTx, Threads
<1>8. ClaimInv
  BY <1>1, ThreadsDisjoint DEF ClaimInv, Claims, Executing, Finished, Threads
<1> QED
  BY <1>2, <1>3, <1>4, <1>5, <1>6, <1>7, <1>8 DEF InductiveInv

(* Every transaction step preserves the invariant. *)
LEMMA TxStepPreserves ==
    ASSUME InductiveInv, NEW p \in Threads, TxStep(p)
    PROVE  InductiveInv'
<1>1. CASE Create(p)
  <2>1. p \in Requests
    BY <1>1, ThreadsDisjoint DEF Create, InductiveInv, ControlInv, ServerControl, SessionControl,
       ServerPCs, SessionPCs, Threads
  <2> QED
    BY <1>1, <2>1, CreatePreserves
<1>2. CASE RetryUpdate(p)
  <2>1. p \in Requests
    BY <1>2, ThreadsDisjoint DEF RetryUpdate, InductiveInv, ControlInv, ServerControl,
       SessionControl, ServerPCs, SessionPCs, Threads
  <2> QED
    BY <1>2, <2>1, RetryUpdatePreserves
<1> QED
  BY <1>1, <1>2, BeginTxPreserves, WritePreserves, UpdateStatusPreserves, CommitPreserves DEF TxStep

(* Every request that begins preserves the invariant. *)
LEMMA ArrivePreserves ==
    ASSUME InductiveInv, NEW r \in Requests, Arrive(r)
    PROVE  InductiveInv'
BY SubmitPreserves, CancelTaskPreserves, CancelPreserves, RetryPreserves DEF Arrive

(* Every step of the outbox processor preserves the invariant. *)
LEMMA ProcessorStepPreserves ==
    ASSUME InductiveInv, NEW s \in Servers, ProcessorStep(s)
    PROVE  InductiveInv'
<1>1. ASSUME NEW t \in batch[s], StartTask(s, t) PROVE InductiveInv'
  BY <1>1, PostponeTaskPreserves, RefuseTaskPreserves, StartSubtasksPreserves,
     StartSingleAgentExecutionPreserves DEF StartTask, InductiveInv, TypeOK
<1> QED
  BY <1>1, PollPreserves, StartAgentSessionPreserves, MarkProcessedPreserves DEF ProcessorStep

(* Every step of a session goroutine preserves the invariant. *)
LEMMA SessionStepPreserves ==
    ASSUME InductiveInv, NEW p \in Sessions, SessionStep(p)
    PROVE  InductiveInv'
<1>1. CASE HandleAgentSuccess(p)
  <2>1. p \in Threads /\ mstat[p] # "completed"
    BY <1>1 DEF HandleAgentSuccess, InductiveInv, LockInv, Locked, Confirming, Threads
  <2> QED
    BY <1>1, <2>1, SettlePreserves DEF HandleAgentSuccess
<1>2. CASE HandleAgentFailure(p)
  BY <1>2, SettlePreserves DEF HandleAgentFailure
<1> QED
  BY <1>1, <1>2, ExecuteAgentSessionPreserves, SkipApprovalPreserves, RequestConfirmationPreserves,
     ApprovedPreserves, NotApprovedPreserves, RunAgentPreserves DEF SessionStep

(* A stuttering step preserves the invariant. *)
LEMMA StutterPreserves ==
    ASSUME InductiveInv, UNCHANGED vars
    PROVE  InductiveInv'
<1>1. UNCHANGED <<status, version, outbox, processed, issued, pc, srv, task, mstat, mver, op,
                  evver, tx, sstat, batch, todo, child>>
  BY DEF vars
<1> USE <1>1 DEF InductiveInv
<1>2. TypeOK'
  BY DEF TypeOK
<1>3. ControlInv'
  BY DEF ControlInv, ServerControl, SessionControl, RequestControl
<1>4. RowInv'
  BY DEF RowInv, Working, Submitting
<1>5. LockInv'
  BY DEF LockInv, Locked, Fresh, Confirming, AboutToUpdate, VersionMatches
<1>6. EventInv'
  BY DEF EventInv, TerminalEventsSound
<1>7. ProcessorInv'
  BY DEF ProcessorInv, Processing
<1>8. ClaimInv'
  BY DEF ClaimInv, Claims, Executing
<1> QED
  BY <1>2, <1>3, <1>4, <1>5, <1>6, <1>7, <1>8

(* Whatever the numbers of servers, sessions, requests and tasks, and with   *)
(* faults, crashes and a guardian or without, the invariant the handlers     *)
(* rely on between two database operations holds in every reachable state.   *)
THEOREM InvariantHolds == Spec => []InductiveInv
<1>1. Init => InductiveInv
  BY InitEstablishes
<1>2. InductiveInv /\ [Next]_vars => InductiveInv'
  <2> SUFFICES ASSUME InductiveInv, [Next]_vars PROVE InductiveInv'
    OBVIOUS
  <2>1. CASE \E p \in Threads : TxStep(p)
    BY <2>1, TxStepPreserves
  <2>2. CASE \E r \in Requests : Arrive(r)
    BY <2>2, ArrivePreserves
  <2>3. CASE \E s \in Servers : ProcessorStep(s)
    BY <2>3, ProcessorStepPreserves
  <2>4. CASE \E p \in Sessions : SessionStep(p)
    BY <2>4, SessionStepPreserves
  <2>5. CASE \E s \in Servers : Crash(s)
    BY <2>5, CrashPreserves
  <2>6. CASE UNCHANGED vars
    BY <2>6, StutterPreserves
  <2> QED
    BY <2>1, <2>2, <2>3, <2>4, <2>5, <2>6 DEF Next
<1> QED
  BY <1>1, <1>2, PTL DEF Spec

(* Type correctness of the task table, the outbox, the goroutines' local     *)
(* variables and the session map.                                            *)
THEOREM TypeCorrect == Spec => []TypeOK
<1>1. InductiveInv => TypeOK
  BY DEF InductiveInv
<1> QED
  BY <1>1, InvariantHolds, PTL

(* A terminal event in the outbox agrees with the row for good. *)
THEOREM EventsTellTheTruth == Spec => []TerminalEventsSound
<1>1. InductiveInv => TerminalEventsSound
  BY DEF InductiveInv, EventInv
<1> QED
  BY <1>1, InvariantHolds, PTL

(* Servers that all read the same TaskSubmittedV1 event start one session. *)
THEOREM OneExecution == Spec => []ExclusiveExecution
<1>1. InductiveInv => ExclusiveExecution
  BY DEF InductiveInv, ClaimInv, Claims, ExclusiveExecution, Executing, Threads
<1> QED
  BY <1>1, InvariantHolds, PTL

-----------------------------------------------------------------------------
(* The detailed specification implements TaskSpec. *)

(* Only Create and UpdateStatus write a row. *)
LEMMA OtherStepsKeepRows ==
    ASSUME Next PROVE UNCHANGED rowVars \/ \E p \in Threads : Create(p) \/ UpdateStatus(p)
<1>1. ASSUME NEW r \in Requests, Arrive(r) PROVE UNCHANGED rowVars
  BY <1>1 DEF Arrive, Submit, CancelTask, Cancel, Retry, BeginRequest
<1>2. ASSUME NEW s \in Servers, ProcessorStep(s) PROVE UNCHANGED rowVars
  BY <1>2 DEF ProcessorStep, Poll, StartTask, PostponeTask, RefuseTask, StartSubtasks,
     StartSingleAgentExecution, StartAgentSession, MarkProcessed
<1>3. ASSUME NEW p \in Sessions, SessionStep(p) PROVE UNCHANGED rowVars
  BY <1>3 DEF SessionStep, ExecuteAgentSession, SkipApproval, RequestConfirmation, Approved,
     NotApproved, RunAgent, HandleAgentSuccess, HandleAgentFailure, Settle
<1>4. ASSUME NEW s \in Servers, Crash(s) PROVE UNCHANGED rowVars
  BY <1>4 DEF Crash
<1>5. ASSUME NEW p \in Threads, BeginTx(p) \/ Write(p) \/ Commit(p) \/ RetryUpdate(p)
      PROVE  UNCHANGED rowVars
  BY <1>5 DEF BeginTx, Write, Commit, RetryUpdate
<1> QED
  BY <1>1, <1>2, <1>3, <1>4, <1>5 DEF Next, TxStep

(* A Create stores a row that was missing; an UpdateStatus that matches      *)
(* follows an edge and increments the version.                               *)
LEMMA RowStep ==
    ASSUME InductiveInv, Next
    PROVE  UNCHANGED <<status, version>> \/ TS!SpecNext
<1> USE DEF InductiveInv
<1>1. ASSUME NEW p \in Threads, Create(p) PROVE UNCHANGED <<status, version>> \/ TS!SpecNext
  <2>1. p \in Requests
    BY <1>1, ThreadsDisjoint DEF Create, ControlInv, ServerControl, SessionControl,
       ServerPCs, SessionPCs, Threads
  <2>2. task[p] \in Tasks /\ status[task[p]] = "none"
    BY <1>1, <2>1 DEF Create, TypeOK, ControlInv, RequestControl, RowInv, Submitting
  <2>3. UNCHANGED <<status, version>> \/ TS!Appear(task[p])
    BY <1>1, <2>2 DEF Create, TS!Appear
  <2> QED
    BY <2>2, <2>3 DEF TS!SpecNext
<1>2. ASSUME NEW p \in Threads, UpdateStatus(p) PROVE UNCHANGED <<status, version>> \/ TS!SpecNext
  <2>1. op[p] \in {"Dispatch", "Start", "Confirm", "Complete", "Fail", "CancelTask", "Cancel"}
    BY <1>2, ThreadsDisjoint DEF UpdateStatus, ControlInv, ServerControl, SessionControl,
       RequestControl, InTx, Threads
  <2>2. task[p] \in Tasks /\ AboutToUpdate(p)
    BY <1>2, <2>1 DEF UpdateStatus, Target, Working, Submitting, Finished, RowInv, LockInv, Locked
  <2>3. CASE VersionMatches(p) /\ SetRow(p)
    <3>1. Edge(status[task[p]], Target[op[p]]) /\ Target[op[p]] \in TaskStatuses
      BY <2>2, <2>3, EdgeFacts DEF AboutToUpdate
    <3>2. TS!Edge(status[task[p]], Target[op[p]]) /\ Target[op[p]] \in TS!TaskStatuses
      BY <3>1 DEF Edge, TaskStateMachineDefinition, TaskStatuses, TS!Edge,
         TS!TaskStateMachineDefinition, TS!TaskStatuses
    <3>3. version' = [version EXCEPT ![task[p]] = @ + 1]
      <4>1. mver[p] = version[task[p]] + 1
        BY <2>2, <2>3 DEF TypeOK, VersionMatches
      <4> QED
        BY <2>2, <2>3, <4>1 DEF SetRow
    <3>4. TS!Step(task[p], Target[op[p]])
      BY <2>3, <3>2, <3>3 DEF TS!Step, SetRow
    <3> QED
      BY <2>2, <3>2, <3>4 DEF TS!SpecNext
  <2> QED
    BY <1>2, <2>3 DEF UpdateStatus
<1> QED
  BY <1>1, <1>2, OtherStepsKeepRows

(* The task table implements TaskSpec: every change of a row that any        *)
(* interleaving of handlers, processors, sessions, faults and crashes can    *)
(* make is one transition of the state machine with the version incremented  *)
(* by one.                                                                   *)
THEOREM TableImplementsTaskSpec == Spec => RefinesTaskSpec
<1>1. Init => TS!SpecInit
  BY DEF Init, TS!SpecInit
<1>2. InductiveInv /\ [Next]_vars => [TS!SpecNext]_TS!specVars
  BY RowStep DEF vars, TS!specVars
<1> QED
  BY <1>1, <1>2, InvariantHolds, PTL DEF Spec, RefinesTaskSpec, TS!Spec

-----------------------------------------------------------------------------
(* Acknowledged submissions. *)

(* A Submit that has answered stored its row and its event, whose version is *)
(* that of a new task.                                                       *)
Acknowledged(r) ==
    op[r] = "Submit" =>
        /\ task[r] \in Tasks
        /\ evver[r] = 1
        /\ pc[r] = "ok" => status[task[r]] # "none" /\ SubmittedEvent(task[r]) \in outbox
SubmitInv == \A r \in Requests : Acknowledged(r)

(* Nothing deletes an outbox row or a task. *)
LEMMA Growth ==
    ASSUME InductiveInv, Next
    PROVE  outbox \subseteq outbox' /\ \A t \in Tasks : status[t] # "none" => status'[t] # "none"
<1>1. \A t \in Tasks : status[t] # "none" => status'[t] # "none"
  BY RowStep DEF TS!SpecNext, TS!Appear, TS!Step, TS!TaskStatuses, InductiveInv, TypeOK
<1>2. outbox \subseteq outbox'
  <2>1. ASSUME NEW r \in Requests, Arrive(r) PROVE outbox' = outbox
    BY <2>1 DEF Arrive, Submit, CancelTask, Cancel, Retry, BeginRequest
  <2>2. ASSUME NEW s \in Servers, ProcessorStep(s) PROVE outbox' = outbox
    BY <2>2 DEF ProcessorStep, Poll, StartTask, PostponeTask, RefuseTask, StartSubtasks,
       StartSingleAgentExecution, StartAgentSession, MarkProcessed
  <2>3. ASSUME NEW p \in Sessions, SessionStep(p) PROVE outbox' = outbox
    BY <2>3 DEF SessionStep, ExecuteAgentSession, SkipApproval, RequestConfirmation, Approved,
       NotApproved, RunAgent, HandleAgentSuccess, HandleAgentFailure, Settle
  <2>4. ASSUME NEW s \in Servers, Crash(s) PROVE outbox' = outbox
    BY <2>4 DEF Crash
  <2>5. ASSUME NEW p \in Threads, TxStep(p) PROVE outbox \subseteq outbox'
    BY <2>5 DEF TxStep, BeginTx, Create, Write, UpdateStatus, Commit, RetryUpdate
  <2> QED
    BY <2>1, <2>2, <2>3, <2>4, <2>5 DEF Next
<1> QED
  BY <1>1, <1>2

(* A request handler is moved by its own steps and by the crash of its       *)
(* server; only its own commit can make it answer.                           *)
LEMMA RequestMoves ==
    ASSUME InductiveInv, Next, NEW r \in Requests
    PROVE  \/ pc'[r] = pc[r] /\ op'[r] = op[r] /\ task'[r] = task[r] /\ evver'[r] = evver[r]
           \/ pc'[r] # "ok" /\ op'[r] = op[r] /\ task'[r] = task[r] /\ evver'[r] = evver[r]
           \/ Commit(r)
           \/ pc'[r] = "begintx" /\ (op'[r] = "Submit" => task'[r] \in Tasks /\ evver'[r] = 1)
<1> USE DEF InductiveInv
<1>a. r \in Threads /\ r \notin Servers /\ r \notin Sessions
  BY ThreadsDisjoint DEF Threads
<1>1. ASSUME NEW q \in Requests, Arrive(q)
      PROVE  \/ pc'[r] = pc[r] /\ op'[r] = op[r] /\ task'[r] = task[r] /\ evver'[r] = evver[r]
             \/ pc'[r] = "begintx" /\ (op'[r] = "Submit" => task'[r] \in Tasks /\ evver'[r] = 1)
  BY <1>1, <1>a DEF Arrive, Submit, CancelTask, Cancel, Retry, BeginRequest, TypeOK
<1>2. ASSUME NEW s \in Servers, ProcessorStep(s)
      PROVE  pc'[r] = pc[r] /\ op'[r] = op[r] /\ task'[r] = task[r] /\ evver'[r] = evver[r]
  BY <1>2, <1>a DEF ProcessorStep, Poll, StartTask, PostponeTask, RefuseTask, StartSubtasks,
     StartSingleAgentExecution, StartAgentSession, AddSession, MarkProcessed, EndRound, TypeOK
<1>3. ASSUME NEW p \in Sessions, SessionStep(p)
      PROVE  pc'[r] = pc[r] /\ op'[r] = op[r] /\ task'[r] = task[r] /\ evver'[r] = evver[r]
  BY <1>3, <1>a DEF SessionStep, ExecuteAgentSession, SkipApproval, RequestConfirmation, Approved,
     NotApproved, RunAgent, HandleAgentSuccess, HandleAgentFailure, Settle, TypeOK
<1>4. ASSUME NEW s \in Servers, Crash(s)
      PROVE  (pc'[r] = pc[r] \/ pc'[r] = "dead") /\ UNCHANGED memVars
  BY <1>4, <1>a DEF Crash, TypeOK
<1>5. ASSUME NEW p \in Threads, TxStep(p)
      PROVE  \/ pc'[r] = pc[r] /\ UNCHANGED <<op, task, evver>>
             \/ pc'[r] # "ok" /\ UNCHANGED <<op, task, evver>>
             \/ Commit(r)
  <2>1. CASE BeginTx(p) \/ Create(p) \/ Write(p) \/ UpdateStatus(p) \/ RetryUpdate(p)
    BY <2>1, <1>a DEF BeginTx, Create, Write, UpdateStatus, RetryUpdate, UpdateFailedPC, FailurePC, TypeOK
  <2>2. CASE Commit(p) /\ p # r
    <3>1. UNCHANGED <<op, task, evver>>
      BY <2>2 DEF Commit
    <3>2. p \in Servers => child[p] # r
      BY <1>a, <2>2 DEF Commit, ProcessorInv, Processing, InTx
    <3>3. pc'[r] = pc[r]
      BY <1>a, <2>2, <3>2 DEF Commit, Committed, TypeOK
    <3> QED
      BY <3>1, <3>3
  <2> QED
    BY <1>5, <2>1, <2>2 DEF TxStep
<1> QED
  BY <1>1, <1>2, <1>3, <1>4, <1>5 DEF Next

(* A Submit that answered without an error is durable: the row and the event *)
(* that will start the task are stored, and stay stored.                     *)
THEOREM SubmissionsAreDurable == Spec => []AckedSubmissionDurable
<1>1. Init => SubmitInv
  BY DEF Init, SubmitInv, Acknowledged, Threads
<1>2. InductiveInv /\ SubmitInv /\ [Next]_vars => SubmitInv'
  <2> SUFFICES ASSUME InductiveInv, SubmitInv, [Next]_vars, NEW r \in Requests
               PROVE  Acknowledged(r)'
    BY DEF SubmitInv
  <2>1. CASE UNCHANGED vars
    BY <2>1 DEF vars, SubmitInv, Acknowledged, SubmittedEvent
  <2>2. CASE Next
    <3>1. CASE Commit(r)
      <4>1. r \in Threads /\ r \notin Servers /\ r \notin Sessions
        BY ThreadsDisjoint DEF Threads
      <4>2. UNCHANGED <<status, op, task, evver>> /\ pc[r] = "commit"
        BY <3>1 DEF Commit
      <4>3. pc'[r] = "ok" => outbox' = outbox \cup {IdempotencyKey(r)}
        BY <3>1, <4>1 DEF Commit, Committed, FailurePC, InductiveInv, TypeOK
      <4>4. status[task[r]] # "none"
        BY <4>1, <4>2 DEF InductiveInv, RowInv, Working, Submitting, Finished
      <4>5. op[r] = "Submit" => IdempotencyKey(r) = SubmittedEvent(task[r])
        <5>1. EventType["Submit"] = "TaskSubmittedV1"
          BY DEF EventType
        <5>2. op[r] = "Submit" => evver[r] = 1
          BY DEF SubmitInv, Acknowledged
        <5> QED
          BY <5>1, <5>2 DEF IdempotencyKey, SubmittedEvent
      <4> QED
        BY <4>2, <4>3, <4>4, <4>5 DEF SubmitInv, Acknowledged, SubmittedEvent
    <3>2. CASE ~Commit(r)
      BY <2>2, <3>2, Growth, RequestMoves DEF SubmitInv, Acknowledged, SubmittedEvent
    <3> QED
      BY <3>1, <3>2
  <2> QED
    BY <2>1, <2>2
<1>3. SubmitInv => AckedSubmissionDurable
  BY DEF SubmitInv, Acknowledged, AckedSubmissionDurable
<1> QED
  BY <1>1, <1>2, <1>3, InvariantHolds, PTL DEF Spec
-----------------------------------------------------------------------------
(* Sessions of a task with subtasks never write the task they share. *)

(* Nobody begins to execute or to start subtasks, and those who do keep      *)
(* their copy of the task.                                                   *)
LEMMA QuietShared ==
    ASSUME SharedInv,
           \A q \in Sessions : Executing(q)' => Executing(q) /\ task'[q] = task[q] /\ mstat'[q] = mstat[q],
           \A x \in Servers : StartsSubtasks(x)' => StartsSubtasks(x) /\ mstat'[x] = mstat[x]
    PROVE  SharedInv'
BY DEF SharedInv, SharedTaskNotWritten

(* A session that executes with a shared task has not got past the update of *)
(* its start: there the optimistic lock stops it.                            *)
LEMMA SharedNeverStarts ==
    ASSUME InductiveInv, SharedInv, NEW p \in Sessions,
           pc[p] \in {"started", "approval", "agent", "succeeded", "failing"} \/ mstat[p] = "dispatched"
    PROVE  ~(Executing(p) /\ Subtasks[task[p]] # {})
<1>1. p \in Threads /\ Locked(p)
  BY DEF Threads, InductiveInv, LockInv
<1> QED
  BY <1>1 DEF SharedInv, SharedTaskNotWritten, Locked, Confirming

(* The steps of a session leave its copy alone when it is shared. *)
LEMMA SessionKeepsShared ==
    ASSUME InductiveInv, SharedInv, NEW p \in Sessions, SessionStep(p)
    PROVE  SharedInv'
<1>1. pc[p] \in {"begin", "started", "approval", "agent", "succeeded", "failing"} /\ p \in Threads
  BY DEF SessionStep, ExecuteAgentSession, SkipApproval, RequestConfirmation, Approved,
     NotApproved, RunAgent, HandleAgentSuccess, HandleAgentFailure, Threads
<1>2. Executing(p)
  BY <1>1 DEF Executing, Finished
<1>3. /\ task' = task /\ todo' = todo
      /\ \A q \in Threads \ {p} : pc'[q] = pc[q] /\ op'[q] = op[q] /\ mstat'[q] = mstat[q]
  BY <1>1 DEF SessionStep, ExecuteAgentSession, SkipApproval, RequestConfirmation, Approved,
     NotApproved, RunAgent, HandleAgentSuccess, HandleAgentFailure, Settle, InductiveInv, TypeOK
<1>4. pc[p] = "begin" /\ mstat[p] # "dispatched" => mstat'[p] = mstat[p]
  BY DEF SessionStep, ExecuteAgentSession, SkipApproval, RequestConfirmation, Approved,
     NotApproved, RunAgent, HandleAgentSuccess, HandleAgentFailure, Settle
<1>5. Subtasks[task[p]] # {} => mstat'[p] = "pending"
  BY <1>1, <1>2, <1>4, SharedNeverStarts DEF SharedInv, SharedTaskNotWritten
<1>6. \A x \in Servers : StartsSubtasks(x)' = StartsSubtasks(x) /\ mstat'[x] = mstat[x]
  BY <1>3, ThreadsDisjoint DEF StartsSubtasks, Threads
<1>7. \A q \in Sessions \ {p} : Executing(q)' = Executing(q) /\ mstat'[q] = mstat[q]
  BY <1>3 DEF Executing, Threads
<1> QED
  BY <1>3, <1>5, <1>6, <1>7 DEF SharedInv, SharedTaskNotWritten

(* A commit spawns a session with the copy of the processor. *)
LEMMA CommitKeepsShared ==
    ASSUME InductiveInv, SharedInv, NEW p \in Threads, Commit(p)
    PROVE  SharedInv'
<1>1. pc[p] = "commit" /\ pc \in [Threads -> PCs] /\ mstat \in [Threads -> TaskStatuses \cup {"none"}]
      /\ UNCHANGED <<task, op, todo>>
  BY DEF Commit, InductiveInv, TypeOK
<1>2. CASE mstat' = mstat /\ \E to : pc' = [pc EXCEPT ![p] = to] /\ (p \in Servers => to = "loop")
  <2>1. \A q \in Sessions : Executing(q)' => Executing(q)
    BY <1>1, <1>2 DEF Executing, Finished, Threads
  <2>2. ASSUME NEW x \in Servers, StartsSubtasks(x)' PROVE StartsSubtasks(x) \/ (x = p /\ mstat[p] = "pending")
    <3>1. CASE x # p
      BY <1>1, <1>2, <2>2, <3>1 DEF StartsSubtasks, Threads
    <3>2. CASE x = p
      <4>1. todo[p] # {} /\ Processing(p) /\ op[p] \in {"Dispatch", "Assign"}
        BY <1>1, <1>2, <2>2, <3>2 DEF StartsSubtasks, InTx, InductiveInv, ProcessorInv, ControlInv,
           ServerControl
      <4> QED
        BY <1>1, <2>2, <3>2, <4>1 DEF StartsSubtasks, InTx, Processing
    <3> QED
      BY <3>1, <3>2
  <2> QED
    BY <1>1, <1>2, <2>1, <2>2 DEF SharedInv, SharedTaskNotWritten
<1>3. CASE p \in Servers /\ Committed(p)
  <2> DEFINE c == child[p]
  <2>1. /\ Processing(p) /\ op[p] \in {"Dispatch", "Assign"} /\ c \in Sessions
        /\ task[c] = task[p] /\ c # p /\ c \in Threads
    BY <1>1, <1>3, ThreadsDisjoint DEF InTx, InductiveInv, ProcessorInv, ControlInv,
       ServerControl, Processing, Threads
  <2>2. /\ pc'[p] = "loop" /\ mstat'[c] = mstat[p] /\ mstat'[p] = mstat[p]
        /\ \A q \in Threads \ {p, c} : pc'[q] = pc[q] /\ mstat'[q] = mstat[q]
    BY <1>1, <1>3, <2>1 DEF Committed
  <2>3. Subtasks[task[p]] # {} => StartsSubtasks(p)
    BY <1>1, <2>1 DEF Processing, StartsSubtasks, InTx
  <2>4. todo[p] # {} => Subtasks[task[p]] # {}
    BY <2>1 DEF Processing
  <2>5. \A q \in Sessions \ {c} : q \in Threads \ {p, c}
    BY <1>3, ThreadsDisjoint DEF Threads
  <2>6. \A x \in Servers \ {p} : x \in Threads \ {p, c}
    BY <2>1, ThreadsDisjoint DEF Threads
  <2> HIDE DEF c
  <2>7. \A q \in Sessions : Executing(q)' /\ Subtasks[task[q]] # {} => mstat'[q] = "pending"
    <3> SUFFICES ASSUME NEW q \in Sessions, Executing(q)', Subtasks[task[q]] # {}
                 PROVE  mstat'[q] = "pending"
      OBVIOUS
    <3>1. CASE q = c
      BY <1>3, <2>1, <2>2, <2>3, <3>1 DEF SharedInv
    <3>2. CASE q # c
      BY <2>2, <2>5, <3>2 DEF SharedInv, SharedTaskNotWritten, Executing
    <3> QED
      BY <3>1, <3>2
  <2>8. \A x \in Servers : StartsSubtasks(x)' => mstat'[x] = "pending"
    <3> SUFFICES ASSUME NEW x \in Servers, StartsSubtasks(x)' PROVE mstat'[x] = "pending"
      OBVIOUS
    <3>1. CASE x = p
      BY <1>1, <2>2, <2>3, <2>4, <3>1 DEF SharedInv, StartsSubtasks, InTx
    <3>2. CASE x # p
      BY <1>1, <2>2, <2>6, <3>2 DEF SharedInv, StartsSubtasks
    <3> QED
      BY <3>1, <3>2
  <2> QED
    BY <1>1, <2>7, <2>8 DEF SharedInv, SharedTaskNotWritten
<1> QED
  BY <1>2, <1>3 DEF Commit, Committed, FailurePC

(* The other steps of a transaction change no copy of a task. *)
LEMMA TxKeepsShared ==
    ASSUME InductiveInv, SharedInv, NEW p \in Threads, TxStep(p)
    PROVE  SharedInv'
<1>1. CASE Commit(p)
  BY <1>1, CommitKeepsShared
<1>2. CASE ~Commit(p)
  <2>1. /\ pc[p] \in {"begintx", "create", "write", "update", "retryupdate"}
        /\ UNCHANGED <<task, todo>>
        /\ \A q \in Threads \ {p} : pc'[q] = pc[q] /\ op'[q] = op[q] /\ mstat'[q] = mstat[q]
        /\ p \notin Requests => op'[p] = op[p] /\ mstat'[p] = mstat[p]
    BY <1>2 DEF TxStep, BeginTx, Create, Write, UpdateStatus, RetryUpdate, InductiveInv, TypeOK
  <2>2. \A q \in Sessions : Executing(q)' => Executing(q) /\ mstat'[q] = mstat[q]
    BY <2>1, ThreadsDisjoint DEF Executing, Finished, Threads
  <2>3. p \in Servers => pc'[p] \in InTx \cup {"loop"} /\ pc[p] \in InTx /\ op[p] \in {"Dispatch", "Assign"}
    BY <1>2, <2>1 DEF TxStep, BeginTx, Create, Write, UpdateStatus, RetryUpdate, InductiveInv,
       TypeOK, ControlInv, ServerControl, ServerPCs, InTx, FailurePC, UpdateFailedPC
  <2>4. p \in Servers /\ todo[p] # {} => op[p] = "Assign"
    BY <2>3 DEF InductiveInv, ProcessorInv, Processing
  <2>5. \A x \in Servers : StartsSubtasks(x)' => StartsSubtasks(x) /\ mstat'[x] = mstat[x]
    BY <2>1, <2>3, <2>4, ThreadsDisjoint DEF StartsSubtasks, Threads, InTx
  <2> QED
    BY <2>1, <2>2, <2>5, QuietShared
<1> QED
  BY <1>1, <1>2

(* The processor reads a pending task before it starts its subtasks. *)
LEMMA ProcessorKeepsShared ==
    ASSUME InductiveInv, SharedInv, NEW s \in Servers, ProcessorStep(s)
    PROVE  SharedInv'
<1> USE DEF InductiveInv
<1>1. s \in Threads /\ s \notin Sessions /\ pc[s] \in {"poll", "loop"} /\ Processing(s)
  BY ThreadsDisjoint DEF ProcessorStep, Poll, StartTask, PostponeTask, RefuseTask, StartSubtasks,
     StartSingleAgentExecution, StartAgentSession, MarkProcessed, Take, Threads, ProcessorInv
<1>2. \A x \in Servers \ {s} : /\ pc'[x] = pc[x] /\ op'[x] = op[x] /\ mstat'[x] = mstat[x]
                               /\ todo'[x] = todo[x] /\ x \in Threads
  BY <1>1, ThreadsDisjoint DEF ProcessorStep, Poll, StartTask, PostponeTask, RefuseTask, StartSubtasks,
     StartSingleAgentExecution, StartAgentSession, MarkProcessed, Take, Threads, TypeOK,
     AddSession, EndRound
<1>3. \A q \in Sessions : Executing(q)' => Executing(q) /\ task'[q] = task[q] /\ mstat'[q] = mstat[q]
  BY <1>1, ThreadsDisjoint DEF ProcessorStep, Poll, StartTask, PostponeTask, RefuseTask, StartSubtasks,
     StartSingleAgentExecution, StartAgentSession, MarkProcessed, Take, Threads, TypeOK,
     AddSession, EndRound, Executing, Finished
<1>4. StartsSubtasks(s)' => mstat'[s] = "pending"
  <2>1. pc[s] = "poll" => todo[s] = {}
    BY <1>1 DEF Processing
  <2>2. ASSUME NEW t \in batch[s], StartTask(s, t) PROVE StartsSubtasks(s)' => mstat'[s] = "pending"
    <3>1. CASE PostponeTask(s, t) \/ RefuseTask(s, t)
      BY <1>1, <2>1, <3>1 DEF PostponeTask, RefuseTask, Take, StartsSubtasks, InTx, TypeOK
    <3>2. CASE StartSubtasks(s, t)
      BY <1>1, <3>2 DEF StartSubtasks, Take, TypeOK
    <3>3. ASSUME NEW p \in Sessions, StartSingleAgentExecution(s, t, p)
          PROVE  StartsSubtasks(s)' => mstat'[s] = "pending"
      BY <1>1, <3>3 DEF StartSingleAgentExecution, AddSession, StartsSubtasks, InTx, TypeOK
    <3> QED
      BY <2>2, <3>1, <3>2, <3>3 DEF StartTask
  <2>3. ASSUME NEW st \in todo[s], NEW p \in Sessions, StartAgentSession(s, st, p)
        PROVE  mstat'[s] = "pending"
    BY <2>3 DEF StartAgentSession, SharedInv, StartsSubtasks
  <2>4. CASE Poll(s) \/ MarkProcessed(s)
    BY <1>1, <2>1, <2>4 DEF Poll, MarkProcessed, EndRound, StartsSubtasks, InTx, TypeOK
  <2> QED
    BY <2>2, <2>3, <2>4 DEF ProcessorStep
<1>5. \A x \in Servers \ {s} : StartsSubtasks(x)' => mstat'[x] = "pending"
  BY <1>2 DEF StartsSubtasks, SharedInv
<1> QED
  BY <1>3, <1>4, <1>5 DEF SharedInv, SharedTaskNotWritten

(* Parallel sessions share the task in memory and none of them writes it,    *)
(* for every number of subtasks, sessions and servers.                       *)
THEOREM SharedTaskIsReadOnly == Spec => []SharedTaskNotWritten
<1>1. Init => SharedInv
  BY ThreadsDisjoint DEF Init, SharedInv, SharedTaskNotWritten, Executing, Finished, StartsSubtasks, InTx, Threads
<1>2. InductiveInv /\ SharedInv /\ [Next]_vars => SharedInv'
  <2> SUFFICES ASSUME InductiveInv, SharedInv, [Next]_vars PROVE SharedInv'
    OBVIOUS
  <2>1. CASE \E p \in Threads : TxStep(p)
    BY <2>1, TxKeepsShared
  <2>2. ASSUME NEW r \in Requests, Arrive(r) PROVE SharedInv'
    <3>1. /\ r \notin Servers /\ r \notin Sessions /\ todo' = todo
          /\ \A q \in Threads \ {r} : /\ pc'[q] = pc[q] /\ op'[q] = op[q]
                                      /\ task'[q] = task[q] /\ mstat'[q] = mstat[q]
      BY <2>2, ThreadsDisjoint DEF Arrive, Submit, CancelTask, Cancel, Retry, BeginRequest,
         InductiveInv, TypeOK
    <3> QED
      BY <3>1, QuietShared DEF Threads, Executing, StartsSubtasks
  <2>3. CASE \E s \in Servers : ProcessorStep(s)
    BY <2>3, ProcessorKeepsShared
  <2>4. CASE \E p \in Sessions : SessionStep(p)
    BY <2>4, SessionKeepsShared
  <2>5. ASSUME NEW s \in Servers, Crash(s) PROVE SharedInv'
    <3>1. \A q \in Threads : pc'[q] \in {pc[q], "poll", "dead"} /\ (q \in Sessions => pc'[q] \in {pc[q], "dead"})
      BY <2>5, ThreadsDisjoint DEF Crash
    <3>2. \A x \in Servers : todo'[x] \in {todo[x], {}}
      BY <2>5 DEF Crash, InductiveInv, TypeOK
    <3> QED
      BY <2>5, <3>1, <3>2, QuietShared DEF Crash, Threads, Executing, StartsSubtasks, InTx, Finished
  <2>6. CASE UNCHANGED vars
    BY <2>6 DEF vars, SharedInv, SharedTaskNotWritten, Executing, StartsSubtasks
  <2> QED
    BY <2>1, <2>2, <2>3, <2>4, <2>5, <2>6 DEF Next
<1>3. SharedInv => SharedTaskNotWritten
  BY DEF SharedInv
<1> QED
  BY <1>1, <1>2, <1>3, InvariantHolds, PTL DEF Spec
=============================================================================
