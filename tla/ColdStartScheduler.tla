------------------------ MODULE ColdStartScheduler ------------------------
(***************************************************************************)
(* The cold-start container scheduler (internal/scheduler/coldstart.go),   *)
(* the adapter to Docker (internal/scheduler/docker_backend.go) and the    *)
(* Docker backend with its registry (plugins/workermanager/                *)
(* docker_backend.go).                                                     *)
(*                                                                         *)
(* Callers acquire a container, execute commands in it and close it; a     *)
(* background goroutine releases containers whose lastUsed is older than   *)
(* IdleTimeout; Stop destroys what the map holds.  Every critical section  *)
(* of the scheduler's mutex is one step, and every call to Docker spans at *)
(* least two, so that the others act while it runs.                        *)
(*                                                                         *)
(* Time is abstracted to the set stale of the handles whose lastUsed is    *)
(* more than IdleTimeout ago.  A container name that is referenced nowhere *)
(* any more may be drawn again: the code draws a new one each time.        *)
(***************************************************************************)
EXTENDS Naturals, FiniteSets

CONSTANTS
    Users,          \* goroutines that call the scheduler
    Cleaners,       \* idleCleanupLoop goroutines: one for each Start
    Ids,            \* container names
    MaxContainers,  \* Config.MaxContainers
    MaxStrays,      \* bound: containers a failed Create may leave behind
    DockerFails,    \* whether Docker calls may fail by themselves
    MayCancel,      \* whether a caller's context may be cancelled
    MayStop         \* whether Stop is called

ASSUME ConfigAssumption == MaxContainers \in Nat \ {0}     \* Config.Validate
ASSUME UsersAssumption == IsFiniteSet(Users)
ASSUME ProcsAssumption == Users \cap Cleaners = {}
ASSUME BoundAssumption == MaxStrays \in Nat

None == "none"
Procs == Users \cup Cleaners

VARIABLES
    running,     \* s.running
    shutdown,    \* s.ctx is cancelled; nothing ever renews it
    containers,  \* the keys of s.containers
    closed,      \* the handles with closed set
    stale,       \* the handles not used for IdleTimeout
    pc,          \* where each goroutine is
    cid,         \* the container each goroutine works on
    volume,      \* the containers created with a bind mount
    cancelled,   \* the callers whose context is cancelled
    todo,        \* each cleaner's toClean
    stop,        \* where Stop is
    stopIds,     \* the containers Stop has still to destroy
    alive,       \* the containers that exist in Docker
    registry,    \* DockerBackend.containers
    strays,      \* containers left behind by a Create that failed
    abandoned    \* tracked containers whose caller left without closing them

mapVars  == <<containers, closed, stale>>
stopVars == <<running, shutdown, stop, stopIds>>
dockVars == <<alive, registry, strays, volume>>
vars == <<mapVars, stopVars, dockVars, pc, cid, cancelled, todo, abandoned>>

UserPC    == {"idle", "checked", "created", "held", "exec", "executed"}
CleanerPC == {"unborn", "loop", "cleaning", "exited"}
Releasing == {"destroying", "deleting"}

Init ==
    /\ running = FALSE /\ shutdown = FALSE
    /\ containers = {} /\ closed = {} /\ stale = {}
    /\ pc = [p \in Procs |-> IF p \in Users THEN "idle" ELSE "unborn"]
    /\ cid = [p \in Procs |-> None]
    /\ volume = {} /\ cancelled = {}
    /\ todo = [c \in Cleaners |-> {}]
    /\ stop = "none" /\ stopIds = {}
    /\ alive = {} /\ registry = {} /\ strays = {}
    /\ abandoned = {}

Goto(p, l) == pc' = [pc EXCEPT ![p] = l]

(* A caller's return: its context ends with the call.                      *)
Return(p) ==
    /\ pc' = [pc EXCEPT ![p] = IF p \in Users THEN "idle" ELSE "cleaning"]
    /\ cid' = [cid EXCEPT ![p] = None]
    /\ cancelled' = cancelled \ {p}

(* generateContainerID: no part of the system refers to the name.          *)
Fresh(id) ==
    /\ id \notin containers \cup alive \cup registry \cup stopIds
    /\ \A p \in Procs : cid[p] # id
    /\ \A c \in Cleaners : id \notin todo[c]

---------------------------------------------------------------------------
(* Docker and its two adapters.                                            *)

(* DockerBackend.Create: create, start and register.                       *)
DockerCreate(id) ==
    /\ alive' = alive \cup {id}
    /\ registry' = registry \cup {id}
    /\ volume' = volume \ {id}
    /\ strays' = strays

(* createWithVolume: docker run beside the backend, which never learns of  *)
(* the container.                                                          *)
CreateWithVolume(id) ==
    /\ alive' = alive \cup {id}
    /\ registry' = registry
    /\ volume' = volume \cup {id}
    /\ strays' = strays

(* A Create that fails: nothing exists, or the container exists and stays: *)
(* the removal after a failed start is not checked, and a docker run that  *)
(* is killed may have reached the daemon.                                  *)
CreateFailure ==
    \/ UNCHANGED dockVars
    \/ \E id \in Ids :
          /\ Fresh(id)
          /\ Cardinality(strays) < MaxStrays
          /\ alive' = alive \cup {id}
          /\ strays' = strays \cup {id}
          /\ UNCHANGED <<registry, volume>>

(* DockerBackend.Destroy of a registered container; its context is not     *)
(* passed to Docker, so cancellation does not disturb it.                  *)
DockerDestroy(id, ok) ==
    /\ id \in registry
    /\ ok \/ DockerFails
    /\ IF ok
       THEN alive' = alive \ {id} /\ registry' = registry \ {id}
       ELSE alive' \in {alive, alive \ {id}} /\ registry' = registry
    /\ UNCHANGED <<strays, volume>>

(* directDestroy: the backend answered ErrSandboxNotFound; docker rm -f    *)
(* runs under the caller's context.                                        *)
DirectDestroy(id, ok, ctxDone) ==
    /\ id \notin registry
    /\ IF ok THEN ~ctxDone ELSE ctxDone \/ DockerFails
    /\ alive' = IF ok THEN alive \ {id} ELSE alive
    /\ UNCHANGED <<registry, strays, volume>>

Destroy(id, ok, ctxDone) ==
    DockerDestroy(id, ok) \/ DirectDestroy(id, ok, ctxDone)

---------------------------------------------------------------------------
(* Scheduler.Acquire.                                                      *)

(* Mutant: the limit is not checked. *)
LimitUnchecked(u) ==
    /\ pc[u] = "idle"
    /\ Goto(u, "checked")
    /\ UNCHANGED <<mapVars, stopVars, dockVars, cid, cancelled, todo, abandoned>>

(* The limit is checked in one critical section, and the slot is taken in  *)
(* another one, after the container exists.                                *)
Acquire(u) ==
    /\ pc[u] = "idle"
    /\ Cardinality(containers) < MaxContainers
    /\ Goto(u, "checked")
    /\ UNCHANGED <<mapVars, stopVars, dockVars, cid, cancelled, todo, abandoned>>

(* "container limit reached" *)
AcquireRefused(u) ==
    /\ pc[u] = "idle"
    /\ Cardinality(containers) >= MaxContainers
    /\ UNCHANGED vars

CreateOk(u) ==
    /\ pc[u] = "checked"
    /\ \E id \in Ids :
          /\ Fresh(id)
          /\ \/ DockerCreate(id)
             \/ u \notin cancelled /\ CreateWithVolume(id)
          /\ cid' = [cid EXCEPT ![u] = id]
    /\ Goto(u, "created")
    /\ UNCHANGED <<mapVars, stopVars, cancelled, todo, abandoned>>

CreateFailed(u) ==
    /\ pc[u] = "checked"
    /\ DockerFails \/ u \in cancelled
    /\ CreateFailure
    /\ Return(u)
    /\ UNCHANGED <<mapVars, stopVars, todo, abandoned>>

(* s.containers[id] = handle *)
TrackHandle(id) ==
    /\ containers' = containers \cup {id}
    /\ closed' = closed \ {id}
    /\ stale' = stale \ {id}

Acquired(u) ==
    /\ pc[u] = "created"
    /\ TrackHandle(cid[u])
    /\ Goto(u, "held")
    /\ UNCHANGED <<stopVars, dockVars, cid, cancelled, todo, abandoned>>

---------------------------------------------------------------------------
(* managedContainer.Exec and Close.                                        *)

(* Exec on a registered container, or docker exec on one with a volume;    *)
(* any other container is refused with ErrSandboxNotFound.                 *)
Exec(u) ==
    /\ pc[u] = "held"
    /\ cid[u] \in registry \cup volume
    /\ Goto(u, "exec")
    /\ UNCHANGED <<mapVars, stopVars, dockVars, cid, cancelled, todo, abandoned>>

ExecOk(u) ==
    /\ pc[u] = "exec"
    /\ Goto(u, "executed")
    /\ UNCHANGED <<mapVars, stopVars, dockVars, cid, cancelled, todo, abandoned>>

ExecFailed(u) ==
    /\ pc[u] = "exec"
    /\ DockerFails \/ u \in cancelled \/ cid[u] \notin alive
    /\ Goto(u, "held")
    /\ UNCHANGED <<mapVars, stopVars, dockVars, cid, cancelled, todo, abandoned>>

(* Only a finished command counts as use.                                  *)
UpdateLastUsed(u) ==
    /\ pc[u] = "executed"
    /\ stale' = stale \ {cid[u]}
    /\ Goto(u, "held")
    /\ UNCHANGED <<containers, closed, stopVars, dockVars, cid, cancelled, todo, abandoned>>

(* Mutant: the closed flag is not tested. *)
MarkTwice(p, id) ==
    /\ id \in containers
    /\ closed' = closed \cup {id}
    /\ cid' = [cid EXCEPT ![p] = id]
    /\ Goto(p, "destroying")
    /\ UNCHANGED <<containers, stale, cancelled>>

(* Mutant: the handle is deleted before the container is destroyed. *)
DeleteFirst(p, id) ==
    /\ id \in containers \ closed
    /\ containers' = containers \ {id}
    /\ stale' = stale \ {id}
    /\ cid' = [cid EXCEPT ![p] = id]
    /\ Goto(p, "destroying")
    /\ UNCHANGED <<closed, cancelled>>

(* The first critical section of Release: of several callers one marks the *)
(* handle and goes on to destroy the container.                            *)
MarkClosed(p, id) ==
    /\ id \in containers \ closed
    /\ closed' = closed \cup {id}
    /\ cid' = [cid EXCEPT ![p] = id]
    /\ Goto(p, "destroying")
    /\ UNCHANGED <<containers, stale, cancelled>>

(* Its early returns: the handle is gone, or somebody closed it before.    *)
AlreadyReleased(p, id) ==
    /\ id \notin containers \ closed
    /\ Return(p)
    /\ UNCHANGED mapVars

Release(p, id) == MarkClosed(p, id) \/ AlreadyReleased(p, id)

ReleaseDestroyed(p) ==
    /\ pc[p] = "destroying"
    /\ Destroy(cid[p], TRUE, p \in cancelled)
    /\ Goto(p, "deleting")
    /\ UNCHANGED <<mapVars, stopVars, cid, cancelled, todo, abandoned>>

(* The error return leaves the handle in the map, marked closed.           *)
ReleaseFailed(p) ==
    /\ pc[p] = "destroying"
    /\ Destroy(cid[p], FALSE, p \in cancelled)
    /\ Return(p)
    /\ UNCHANGED <<mapVars, stopVars, todo, abandoned>>

ReleaseDelete(p) ==
    /\ pc[p] = "deleting"
    /\ containers' = containers \ {cid[p]}
    /\ closed' = closed \ {cid[p]}
    /\ stale' = stale \ {cid[p]}
    /\ abandoned' = abandoned \ {cid[p]}
    /\ Return(p)
    /\ UNCHANGED <<stopVars, dockVars, todo>>

Close(u) ==
    /\ pc[u] = "held"
    /\ Release(u, cid[u])
    /\ UNCHANGED <<stopVars, dockVars, todo, abandoned>>

(* A caller of Acquire that never closes its container.                    *)
Abandon(u) ==
    /\ pc[u] = "held"
    /\ abandoned' = abandoned \cup ({cid[u]} \cap containers)
    /\ Return(u)
    /\ UNCHANGED <<mapVars, stopVars, dockVars, todo>>

(* The caller's context: the session that ran the task is cancelled.       *)
CancelContext(u) ==
    /\ MayCancel
    /\ pc[u] # "idle"
    /\ u \notin cancelled
    /\ cancelled' = cancelled \cup {u}
    /\ UNCHANGED <<mapVars, stopVars, dockVars, pc, cid, todo, abandoned>>

(* Scheduler.Run is Acquire, Exec and a deferred Close; a caller that uses *)
(* the interface directly may execute any number of commands.              *)
Run(u) ==
    \/ Acquire(u) \/ AcquireRefused(u)
    \/ CreateOk(u) \/ CreateFailed(u) \/ Acquired(u)
    \/ Exec(u) \/ ExecOk(u) \/ ExecFailed(u) \/ UpdateLastUsed(u)
    \/ Close(u) \/ Abandon(u)

---------------------------------------------------------------------------
(* The background goroutines.                                              *)

(* A restart does not renew s.ctx, so the new loop ends as it begins.      *)
Start ==
    /\ ~running /\ stop \in {"none", "done"}
    /\ \E c \in Cleaners :
          /\ pc[c] = "unborn"
          /\ Goto(c, "loop")
    /\ running' = TRUE
    /\ UNCHANGED <<mapVars, shutdown, stop, stopIds, dockVars, cid, cancelled, todo, abandoned>>

(* now - lastUsed passes IdleTimeout, whether a command runs or not.       *)
GrowStale(id) ==
    /\ id \in containers \ stale
    /\ stale' = stale \cup {id}
    /\ UNCHANGED <<containers, closed, stopVars, dockVars, pc, cid, cancelled, todo, abandoned>>

(* Mutant: the cleaner marks the handles closed itself. *)
CleanupMarks(c) ==
    /\ pc[c] = "loop"
    /\ stale # {}
    /\ todo' = [todo EXCEPT ![c] = stale]
    /\ closed' = closed \cup stale
    /\ Goto(c, "cleaning")
    /\ UNCHANGED <<containers, stale, stopVars, dockVars, cid, cancelled, abandoned>>

CleanupIdle(c) ==
    /\ pc[c] = "loop"
    /\ stale # {}
    /\ todo' = [todo EXCEPT ![c] = stale]
    /\ Goto(c, "cleaning")
    /\ UNCHANGED <<mapVars, stopVars, dockVars, cid, cancelled, abandoned>>

CleanupNext(c) ==
    /\ pc[c] = "cleaning"
    /\ \E id \in todo[c] :
          /\ todo' = [todo EXCEPT ![c] = @ \ {id}]
          /\ Release(c, id)
    /\ UNCHANGED <<stopVars, dockVars, abandoned>>

CleanupDone(c) ==
    /\ pc[c] = "cleaning" /\ todo[c] = {}
    /\ Goto(c, "loop")
    /\ UNCHANGED <<mapVars, stopVars, dockVars, cid, cancelled, todo, abandoned>>

LoopExit(c) ==
    /\ pc[c] = "loop" /\ shutdown
    /\ Goto(c, "exited")
    /\ UNCHANGED <<mapVars, stopVars, dockVars, cid, cancelled, todo, abandoned>>

IdleCleanupLoop(c) ==
    CleanupIdle(c) \/ CleanupNext(c) \/ CleanupDone(c) \/ LoopExit(c)

ReleaseSteps(p) == ReleaseDestroyed(p) \/ ReleaseFailed(p) \/ ReleaseDelete(p)

---------------------------------------------------------------------------
(* Stop.                                                                   *)

StopBegin ==
    /\ MayStop /\ running
    /\ running' = FALSE /\ shutdown' = TRUE
    /\ stop' = "waiting"
    /\ UNCHANGED <<mapVars, stopIds, dockVars, pc, cid, cancelled, todo, abandoned>>

(* The loops have ended, or the context of Stop has; either way Stop takes *)
(* a copy of the names.                                                    *)
StopSnapshot ==
    /\ stop = "waiting"
    /\ stop' = "destroying"
    /\ stopIds' = containers
    /\ UNCHANGED <<mapVars, running, shutdown, dockVars, pc, cid, cancelled, todo, abandoned>>

StopDestroy ==
    /\ stop = "destroying"
    /\ \E id \in stopIds, ok \in BOOLEAN :
          /\ Destroy(id, ok, FALSE)
          /\ stopIds' = stopIds \ {id}
    /\ UNCHANGED <<mapVars, running, shutdown, stop, pc, cid, cancelled, todo, abandoned>>

StopClear ==
    /\ stop = "destroying" /\ stopIds = {}
    /\ stop' = "done"
    /\ containers' = {} /\ closed' = {} /\ stale' = {} /\ abandoned' = {}
    /\ UNCHANGED <<running, shutdown, stopIds, dockVars, pc, cid, cancelled, todo>>

---------------------------------------------------------------------------
Next ==
    \/ \E u \in Users : Run(u) \/ CancelContext(u)
    \/ \E c \in Cleaners : IdleCleanupLoop(c)
    \/ \E p \in Procs : ReleaseSteps(p)
    \/ \E id \in Ids : GrowStale(id)
    \/ Start \/ StopBegin \/ StopSnapshot \/ StopDestroy \/ StopClear

Spec == Init /\ [][Next]_vars

(* main starts the scheduler before it serves; goroutines are scheduled,   *)
(* Docker answers, and time passes.  No caller has to go on using or to    *)
(* close its container.                                                    *)
Fairness ==
    /\ WF_vars(Start)
    /\ \A c \in Cleaners :
          /\ WF_vars(CleanupIdle(c)) /\ WF_vars(CleanupNext(c))
          /\ WF_vars(CleanupDone(c)) /\ WF_vars(ReleaseSteps(c))
    /\ \A u \in Users :
          WF_vars(CreateOk(u) \/ CreateFailed(u) \/ Acquired(u) \/ ReleaseSteps(u))
    /\ \A id \in Ids : WF_vars(GrowStale(id))

FairSpec == Spec /\ Fairness

---------------------------------------------------------------------------
TypeOK ==
    /\ running \in BOOLEAN /\ shutdown \in BOOLEAN
    /\ containers \subseteq Ids
    /\ closed \subseteq containers /\ stale \subseteq containers
    /\ pc \in [Procs -> UserPC \cup CleanerPC \cup Releasing]
    /\ \A u \in Users : pc[u] \in UserPC \cup Releasing
    /\ \A c \in Cleaners : pc[c] \in CleanerPC \cup Releasing
    /\ cid \in [Procs -> Ids \cup {None}]
    /\ cancelled \subseteq Users
    /\ todo \in [Cleaners -> SUBSET Ids]
    /\ stop \in {"none", "waiting", "destroying", "done"}
    /\ stopIds \subseteq Ids
    /\ alive \subseteq Ids /\ registry \subseteq Ids /\ strays \subseteq Ids
    /\ volume \subseteq Ids /\ abandoned \subseteq containers

(* Release, the cleaner and Close never destroy one container twice at the *)
(* same time: the closed flag, set under the mutex, makes one of them the  *)
(* owner of the destruction, and a name is never drawn again while an      *)
(* owner works on it.                                                      *)
OneDestroyer ==
    \A p, q \in Procs :
        /\ p # q
        /\ pc[p] \in Releasing /\ pc[q] \in Releasing
        => cid[p] # cid[q]

(* Until Stop is called, every container that a Create returned and that   *)
(* still exists is in the map, or in the hands of the Acquire that puts it *)
(* there: releases that fail half way lose none.                           *)
LiveTracked ==
    stop = "none" =>
        alive \subseteq containers \cup strays \cup {cid[u] : u \in {v \in Users : pc[v] = "created"}}

(* The callers that passed the limit check and have not stored a handle.   *)
Admitted == {u \in Users : pc[u] \in {"checked", "created"}}

(* Acquire checks the limit before it creates and never again, so the map  *)
(* outgrows MaxContainers, but by less than the number of callers, however *)
(* many containers are stuck in it.                                        *)
BoundedOvershoot ==
    Cardinality(containers) + Cardinality(Admitted) < MaxContainers + Cardinality(Users)

(* A container whose caller walked away is destroyed by the idle cleanup   *)
(* and leaves the map.                                                     *)
AbandonedReclaimed ==
    \A id \in Ids : id \in abandoned ~> id \notin containers

---------------------------------------------------------------------------
(* What the comments of the code say; the code does not keep it.           *)

(* Config: "MaxContainers caps the total number of concurrent containers." *)
LimitRespected == Cardinality(containers) <= MaxContainers

(* idleCleanupLoop "destroys containers that have been idle too long": one *)
(* that executes a command is not idle.                                    *)
BusyNotCleaned ==
    \A u \in Users, c \in Cleaners :
        pc[u] = "exec" /\ pc[c] \in Releasing => cid[u] # cid[c]

(* "every Release destroys it": a handle is marked closed only while its   *)
(* destruction is under way.                                               *)
ReleaseDestroys ==
    \A id \in closed : \E p \in Procs : pc[p] \in Releasing /\ cid[p] = id

(* "Stop destroys all managed containers": what Stop takes out of the map  *)
(* does not live on outside it.                                            *)
StopLosesNone ==
    alive \subseteq containers \cup strays \cup {cid[u] : u \in {v \in Users : pc[v] = "created"}}
===========================================================================
