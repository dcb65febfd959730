----------------------------- MODULE WorkerPool -----------------------------
(***************************************************************************)
(* The self-scaling pool of workers (internal/worker/pool/pool.go,         *)
(* worker.go) over the Docker sandbox (internal/worker/sandbox/docker.go). *)
(* What runs under the pool's write lock is one step, with the sandbox     *)
(* call it makes; the fast path of Acquire under the read lock, a task in  *)
(* a sandbox and the goroutines that destroy are not.                      *)
(***************************************************************************)
EXTENDS Naturals, FiniteSets

CONSTANTS
    Submitters,          \* callers of SubmitTask
    MinWorkers, PoolMaxWorkers,
    ScaleUpThreshold, ScaleDownThreshold,
    MaxSandboxes         \* bound: sandboxes created in all

ASSUME WorkerPoolAssumption ==
    /\ MinWorkers \in Nat /\ PoolMaxWorkers \in Nat /\ MinWorkers <= PoolMaxWorkers
    /\ ScaleUpThreshold \in Nat \ {0} /\ ScaleDownThreshold < ScaleUpThreshold
    /\ MaxSandboxes \in Nat

Sandboxes == 1 .. MaxSandboxes
NoSandbox == 0

VARIABLES
    members,     \* Pool.workers: the ids of its sandboxes
    poolStatus,      \* poolStatus[i]: Worker.status
    tracked,     \* tracked[i]: what DockerSandbox.containers says: "no", "running", "stopping"
    alive,       \* the containers that Docker runs
    submit,      \* submit[s]: where SubmitTask is, and with which worker
    destroying,  \* the ids that goroutines are about to give to Sandbox.Destroy
    replacing,   \* the ids that goroutines are about to give to DestroyWorker
    scaling,     \* the change of size that scale has decided on: up, down or none
    nextSandbox,
    stage,       \* "new", "starting" (before prewarm), "running", "stopping" (loops end), "stopped"
    stuck,       \* the containers Docker could not remove
    shared,      \* the workers that two callers took at once
    condemned,   \* the workers that a health check found unhealthy or a task failed in
    late         \* the sandboxes created after Stop went through the map

workerPoolVars == <<members, poolStatus, tracked, alive, submit, destroying, replacing, scaling,
              nextSandbox, stage, stuck, shared, condemned, late>>
sandboxVars == <<tracked, alive, stuck>>

WorkerPoolInit ==
    /\ members = {} /\ poolStatus = [i \in Sandboxes |-> "starting"]
    /\ tracked = [i \in Sandboxes |-> "no"] /\ alive = {} /\ nextSandbox = 1
    /\ submit = [s \in Submitters |-> [at |-> "none", w |-> NoSandbox]]
    /\ destroying = {} /\ replacing = {} /\ scaling = "none"
    /\ stage = "new" /\ stuck = {} /\ shared = {} /\ condemned = {} /\ late = {}

PendingTasks == Cardinality({s \in Submitters : submit[s].at # "none"})
Available == {i \in members : poolStatus[i] = "idle"}
PoolUsing(i) == {s \in Submitters : submit[s].w = i}

-----------------------------------------------------------------------------
(* The sandbox.                                                              *)

(* Docker refuses; or the container does not start and is removed, and stays *)
(* in the map of the sandbox.                                                *)
CreateFails ==
    /\ UNCHANGED <<alive, stuck>>
    /\ \/ UNCHANGED <<tracked, nextSandbox>>
       \/ /\ nextSandbox <= MaxSandboxes /\ nextSandbox' = nextSandbox + 1
          /\ tracked' = [tracked EXCEPT ![nextSandbox] = "running"]

(* createWorker: the sandbox and its worker, in the map with status st. *)
PoolCreateWorker(st) ==
    /\ nextSandbox <= MaxSandboxes /\ nextSandbox' = nextSandbox + 1
    /\ tracked' = [tracked EXCEPT ![nextSandbox] = "running"]
    /\ alive' = alive \cup {nextSandbox}
    /\ members' = members \cup {nextSandbox}
    /\ poolStatus' = [poolStatus EXCEPT ![nextSandbox] = st]
    /\ late' = IF stage = "stopped" THEN late \cup {nextSandbox} ELSE late
    /\ UNCHANGED stuck

(* Destroy: not found, removed, or not removable. *)
Destroy(i) ==
    \/ tracked[i] = "no" /\ UNCHANGED sandboxVars
    \/ /\ tracked[i] # "no"
       /\ tracked' = [tracked EXCEPT ![i] = "no"]
       /\ alive' = alive \ {i} /\ stuck' = stuck \ {i}
    \/ /\ tracked[i] # "no" /\ stuck' = stuck \cup {i}
       /\ tracked' = [tracked EXCEPT ![i] = "stopping"]
       /\ UNCHANGED alive

-----------------------------------------------------------------------------
(* A task.                                                                   *)

At(s, p, i) == submit' = [submit EXCEPT ![s] = [at |-> p, w |-> i]]

(* SubmitTask calls Acquire, which looks under the read lock. *)
AcquireFast(s) ==
    /\ submit[s].at = "none" /\ stage \in {"starting", "running"}
    /\ \/ \E i \in Available : At(s, "found", i)
       \/ Available = {} /\ At(s, "slow", NoSandbox)
    /\ UNCHANGED <<members, poolStatus, sandboxVars, destroying, replacing, scaling, nextSandbox,
                   stage, shared, condemned, late>>

(* setStatus(Busy): another reader may have taken it since. *)
TakeFound(s) ==
    /\ submit[s].at = "found"
    /\ LET i == submit[s].w
       IN  /\ poolStatus' = [poolStatus EXCEPT ![i] = "busy"]
           /\ shared' = IF poolStatus[i] = "busy" THEN shared \cup {i} ELSE shared
           /\ At(s, "acquired", i)
    /\ UNCHANGED <<members, sandboxVars, destroying, replacing, scaling, nextSandbox, stage, condemned,
                   late>>

(* The write lock waits for readers between the look and the take. *)
WriteLock == \A s \in Submitters : submit[s].at # "found"

(* Acquire under the write lock: look again, create, or fail. *)
AcquireSlow(s) ==
    /\ submit[s].at = "slow" /\ WriteLock
    /\ \/ \E i \in Available :
             /\ poolStatus' = [poolStatus EXCEPT ![i] = "busy"] /\ At(s, "acquired", i)
             /\ UNCHANGED <<members, sandboxVars, nextSandbox, late>>
       \/ /\ Available = {} /\ Cardinality(members) < PoolMaxWorkers
          /\ PoolCreateWorker("busy") /\ At(s, "acquired", nextSandbox)
       \/ /\ Available = {} /\ Cardinality(members) < PoolMaxWorkers
          /\ CreateFails /\ At(s, "none", NoSandbox)
          /\ UNCHANGED <<members, poolStatus, late>>
       \/ /\ Available = {} /\ Cardinality(members) >= PoolMaxWorkers
          /\ At(s, "none", NoSandbox)
          /\ UNCHANGED <<members, poolStatus, sandboxVars, nextSandbox, late>>
    /\ UNCHANGED <<destroying, replacing, scaling, stage, shared, condemned>>

(* Execute refuses a worker that is stopping. *)
ExecuteBegins(s) ==
    /\ submit[s].at = "acquired"
    /\ LET i == submit[s].w
       IN  IF poolStatus[i] = "stopping"
             THEN At(s, "failed", i) /\ condemned' = condemned \cup {i} /\ UNCHANGED poolStatus
             ELSE /\ At(s, "executing", i) /\ poolStatus' = [poolStatus EXCEPT ![i] = "busy"]
                  /\ UNCHANGED condemned
    /\ UNCHANGED <<members, sandboxVars, destroying, replacing, scaling, nextSandbox, stage, shared, late>>

(* The worker is idle again, whatever Stop has made of it meanwhile, and     *)
(* although the task failed and its caller is about to destroy it.           *)
ExecuteEnds(s) ==
    /\ submit[s].at = "executing"
    /\ LET i == submit[s].w
       IN  /\ poolStatus' = [poolStatus EXCEPT ![i] = "idle"]
           /\ \/ i \in alive /\ At(s, "none", NoSandbox) /\ UNCHANGED condemned
              \/ At(s, "failed", i) /\ condemned' = condemned \cup {i}
    /\ UNCHANGED <<members, sandboxVars, destroying, replacing, scaling, nextSandbox, stage, shared, late>>

(* DestroyWorker under the write lock; its error is dropped. *)
PoolDestroyWorker(i) ==
    /\ WriteLock
    /\ IF i \in members
         THEN /\ poolStatus' = [poolStatus EXCEPT ![i] = "stopping"]
              /\ members' = members \ {i}
              /\ Destroy(i)
         ELSE UNCHANGED <<poolStatus, members, sandboxVars>>
    /\ UNCHANGED <<destroying, scaling, nextSandbox, stage, shared, condemned, late>>

DestroyFailed(s) ==
    /\ submit[s].at = "failed" /\ At(s, "none", NoSandbox)
    /\ PoolDestroyWorker(submit[s].w) /\ UNCHANGED replacing

-----------------------------------------------------------------------------
(* The loops.                                                                *)

(* Start sets running, so that tasks may come before the first workers. *)
PoolStart ==
    /\ stage = "new" /\ stage' = "starting"
    /\ UNCHANGED <<members, poolStatus, sandboxVars, submit, destroying, replacing, scaling, nextSandbox,
                   shared, condemned, late>>

(* prewarm, under the write lock: of the creations some are refused, and     *)
(* some leave an entry in the map of the sandbox and no container.           *)
Prewarm ==
    /\ stage = "starting" /\ WriteLock /\ stage' = "running"
    /\ \E n \in 0 .. MinWorkers : \E made \in SUBSET (nextSandbox .. nextSandbox + n - 1) :
          /\ nextSandbox + n - 1 <= MaxSandboxes /\ nextSandbox' = nextSandbox + n
          /\ members' = members \cup made /\ alive' = alive \cup made
          /\ poolStatus' = [i \in Sandboxes |-> IF i \in made THEN "idle" ELSE poolStatus[i]]
          /\ tracked' = [i \in Sandboxes |->
                            IF i \in nextSandbox .. nextSandbox + n - 1 THEN "running" ELSE tracked[i]]
    /\ UNCHANGED <<submit, destroying, replacing, scaling, stuck, shared, condemned, late>>

(* scale reads the load and the size, and acts on them later. *)
ScaleDecides ==
    /\ stage = "running" /\ scaling = "none"
    /\ \/ /\ PendingTasks >= ScaleUpThreshold /\ Cardinality(members) < PoolMaxWorkers
          /\ scaling' = "up"
       \/ /\ PendingTasks <= ScaleDownThreshold /\ Cardinality(members) > MinWorkers
          /\ scaling' = "down"
    /\ UNCHANGED <<members, poolStatus, sandboxVars, submit, destroying, replacing, nextSandbox, stage,
                   shared, condemned, late>>

(* One worker more, unless the pool is full by now. *)
ScaleUp ==
    /\ scaling = "up" /\ scaling' = "none" /\ WriteLock
    /\ \/ Cardinality(members) < PoolMaxWorkers /\ PoolCreateWorker("idle")
       \/ /\ Cardinality(members) < PoolMaxWorkers /\ CreateFails
          /\ UNCHANGED <<members, poolStatus, late>>
       \/ /\ Cardinality(members) >= PoolMaxWorkers
          /\ UNCHANGED <<members, poolStatus, sandboxVars, nextSandbox, late>>
    /\ UNCHANGED <<submit, destroying, replacing, stage, shared, condemned>>

(* Mutant: the sandbox is destroyed only if it still runs a task. *)
ReapForgets(i) ==
    /\ i \in Available
    /\ members' = members \ {i} /\ poolStatus' = [poolStatus EXCEPT ![i] = "stopping"]
    /\ destroying' = IF PoolUsing(i) # {} THEN destroying \cup {i} ELSE destroying

(* An idle worker leaves the pool; its sandbox is destroyed by a goroutine. *)
PoolReap(i) ==
    /\ i \in Available
    /\ members' = members \ {i} /\ poolStatus' = [poolStatus EXCEPT ![i] = "stopping"]
    /\ destroying' = destroying \cup {i}

(* It removes one idle worker, if there is one. *)
ScaleDown ==
    /\ scaling = "down" /\ scaling' = "none" /\ WriteLock
    /\ \/ \E i \in Sandboxes : PoolReap(i)
       \/ Available = {} /\ UNCHANGED <<members, poolStatus, destroying>>
    /\ UNCHANGED <<sandboxVars, submit, replacing, nextSandbox, stage, shared, condemned, late>>

(* cleanup of a worker whose idle time is over; a round that is under way    *)
(* goes on when the pool stops.                                              *)
Cleanup ==
    /\ stage \in {"running", "stopping", "stopped"} /\ WriteLock /\ Cardinality(members) > MinWorkers
    /\ \E i \in Sandboxes : PoolReap(i)
    /\ UNCHANGED <<sandboxVars, submit, replacing, scaling, nextSandbox, stage, shared, condemned, late>>

DestroyReaped(i) ==
    /\ i \in destroying /\ destroying' = destroying \ {i}
    /\ Destroy(i)
    /\ UNCHANGED <<members, poolStatus, submit, replacing, scaling, nextSandbox, stage, shared, condemned, late>>

(* checkHealth looks at the workers it has listed before, so also at one     *)
(* that has left the pool since.                                             *)
(* Unhealthy: the sandbox does not say running, or the task takes too long.  *)
(* A replacement is added first, the worker is destroyed by a goroutine.     *)
(* Once Stop has gone through the map the context lets no creation succeed.  *)
PoolCheckWorkerHealth(i) ==
    /\ stage \in {"running", "stopping"} /\ poolStatus[i] # "starting"
    /\ tracked[i] # "running" \/ poolStatus[i] = "busy"
    /\ WriteLock
    /\ \/ /\ PoolCreateWorker("idle")
          /\ replacing' = replacing \cup {i} /\ condemned' = condemned \cup {i}
       \/ CreateFails /\ UNCHANGED <<members, poolStatus, replacing, condemned, late>>
    /\ UNCHANGED <<submit, destroying, scaling, stage, shared>>

DestroyReplaced(i) ==
    /\ i \in replacing /\ replacing' = replacing \ {i}
    /\ PoolDestroyWorker(i) /\ UNCHANGED submit

(* Stop, after Start has returned: no new task, and the loops end. *)
PoolStop ==
    /\ stage = "running" /\ stage' = "stopping"
    /\ UNCHANGED <<members, poolStatus, sandboxVars, submit, destroying, replacing, scaling,
                   nextSandbox, shared, condemned, late>>

(* The loops are over, or the caller of Stop does not wait any longer: every *)
(* sandbox is destroyed, with the task in it.                                *)
StopDestroys ==
    /\ stage = "stopping" /\ WriteLock /\ stage' = "stopped"
    /\ destroying' = destroying \cup members
    /\ UNCHANGED <<members, poolStatus, sandboxVars, submit, replacing, scaling, nextSandbox, shared, condemned,
                   late>>

WorkerPoolNext ==
    \/ PoolStart \/ Prewarm \/ ScaleDecides \/ ScaleUp \/ ScaleDown \/ Cleanup \/ PoolStop \/ StopDestroys
    \/ \E i \in Sandboxes : DestroyReaped(i) \/ PoolCheckWorkerHealth(i) \/ DestroyReplaced(i)
    \/ \E s \in Submitters :
          \/ AcquireFast(s) \/ TakeFound(s) \/ AcquireSlow(s)
          \/ ExecuteBegins(s) \/ ExecuteEnds(s) \/ DestroyFailed(s)

WorkerPoolSpec == WorkerPoolInit /\ [][WorkerPoolNext]_workerPoolVars

-----------------------------------------------------------------------------
WorkerPoolTypeOK ==
    /\ members \subseteq 1 .. nextSandbox - 1 /\ alive \subseteq 1 .. nextSandbox - 1
    /\ \A i \in Sandboxes : poolStatus[i] \in {"starting", "idle", "busy", "stopping"}
    /\ \A i \in Sandboxes : tracked[i] \in {"no", "running", "stopping"}

(* No container is forgotten: one that runs belongs to a worker of the pool, *)
(* or a goroutine is about to destroy it, unless Docker could not remove it  *)
(* before.  After Stop only tasks that were about to create one leave any.   *)
SandboxesAccounted ==
    \A i \in alive \ (stuck \cup late) :
        i \in destroying \/ (i \in members /\ stage # "stopped")

HasTaskIn(s, i) == submit[s].w = i /\ submit[s].at \in {"acquired", "executing"}

(* Until Stop destroys everything, a task keeps the worker it acquired: the  *)
(* worker is in the pool, its container runs, and neither scaling down nor   *)
(* cleaning up has taken it.  Excepted are workers that the fast path gave   *)
(* to two tasks, that a health check found unhealthy, or in which a task     *)
(* failed before: that one looks idle until SubmitTask destroys it           *)
(* (pool.go:233).                                                            *)
TaskKeepsSandbox ==
    stage # "stopped" =>
        \A s \in Submitters : \A i \in Sandboxes \ (shared \cup condemned) :
            HasTaskIn(s, i) => i \in members /\ i \in alive \ destroying

(* The pool's books: no container is forgotten, and until Stop neither       *)
(* scaling down nor cleaning up takes one from a task (pool.go:425, 555).    *)
PoolAccounting == SandboxesAccounted /\ TaskKeepsSandbox

-----------------------------------------------------------------------------
(* The inductive invariant behind PoolAccounting.                            *)

WorkerPoolFunctions ==
    /\ poolStatus \in [Sandboxes -> {"starting", "idle", "busy", "stopping"}]
    /\ tracked \in [Sandboxes -> {"no", "running", "stopping"}]
    /\ submit \in [Submitters ->
                      [at : {"none", "found", "slow", "acquired", "executing", "failed"},
                       w : Sandboxes \cup {NoSandbox}]]
    /\ nextSandbox \in 1 .. MaxSandboxes + 1
    /\ stage \in {"new", "starting", "running", "stopping", "stopped"}

(* Every sandbox that somebody names was created.                            *)
CreatedInv ==
    /\ \A i \in members \cup alive \cup destroying : i \in Sandboxes /\ i < nextSandbox
    /\ \A s \in Submitters : submit[s].w < nextSandbox

(* A container that runs is in the sandbox's map, so Destroy finds it.       *)
TrackedInv == \A i \in alive : tracked[i] # "no"

(* Until Stop goes through it, what the pool holds runs and is not about to  *)
(* be destroyed.                                                             *)
StageInv == stage # "stopped" => members \subseteq alive \ destroying

(* A worker is replaced for its health, and destroyed for a failure in it.   *)
CondemnedInv ==
    /\ replacing \subseteq condemned
    /\ \A s \in Submitters : submit[s].at = "failed" => submit[s].w \in condemned

(* A worker that the fast path has found stays in the pool, idle or busy,    *)
(* until it is taken; one with a task does not look idle, and has one task,  *)
(* unless two callers took it at once.                                       *)
TakenInv ==
    \A s \in Submitters :
        /\ submit[s].at \in {"found", "acquired", "executing", "failed"} => submit[s].w \in Sandboxes
        /\ submit[s].at = "found" =>
              submit[s].w \in members /\ poolStatus[submit[s].w] \in {"idle", "busy"}
        /\ \A i \in Sandboxes \ shared :
              HasTaskIn(s, i) =>
                 /\ poolStatus[i] \in {"busy", "stopping"}
                 /\ \A t \in Submitters \ {s} : ~HasTaskIn(t, i)

WorkerPoolInv ==
    WorkerPoolFunctions /\ CreatedInv /\ TrackedInv /\ StageInv /\ CondemnedInv /\ TakenInv /\ PoolAccounting

-----------------------------------------------------------------------------
(* What comments of the code say; the code does not keep it.                 *)

(* "Acquire gets an available worker": no two tasks in one. *)
OneTaskPerWorker == \A i \in Sandboxes : Cardinality({s \in PoolUsing(i) : submit[s].at = "executing"}) <= 1

(* "Worker will finish current task on its own, just destroy when done":     *)
(* Stop leaves a task its sandbox.                                           *)
StopWaitsForTasks ==
    \A s \in Submitters : submit[s].at = "executing" /\ submit[s].w \notin shared \cup condemned =>
        submit[s].w \in alive

(* "If execution fails, destroy the worker": not under another task.         *)
FailureIsOwn ==
    [][\A s, t \in Submitters :
          DestroyFailed(s) /\ s # t /\ HasTaskIn(t, submit[s].w) /\ submit[s].w \notin shared
             => submit[s].w \in alive']_workerPoolVars

(* "creating one if necessary and under max limit". *)
UnderMaxLimit == Cardinality(members) <= PoolMaxWorkers

(* "Stop gracefully shuts down the pool": no sandbox is left. *)
StopLeavesNone == (stage = "stopped" /\ destroying = {} /\ PendingTasks = 0) => alive \subseteq stuck
=============================================================================
