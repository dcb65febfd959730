---------------------------- MODULE WorkerManager ----------------------------
(***************************************************************************)
(* The pool of sandboxes (plugins/workermanager/workermanager.go) over the *)
(* Docker backend (plugins/workermanager/docker_backend.go).               *)
(*                                                                         *)
(* A caller takes an idle worker or creates one, runs a command and git in *)
(* it, and releases it.  The idle cleanup and the health check mark workers *)
(* as stopping and leave their destruction to goroutines of their own.     *)
(*                                                                         *)
(* A section under the write lock is one step, the calls of the backend it *)
(* makes included.  The fast path of AcquireWorker writes the status under *)
(* the read lock, which several callers can hold: it is two steps, and the *)
(* writers wait while a caller is between them.                            *)
(***************************************************************************)
EXTENDS Naturals, FiniteSets

CONSTANTS
    Callers,      \* goroutines that use the manager
    Ids,          \* sandbox names; one that nothing refers to may be drawn again
    MaxWorkers,   \* Config.MaxWorkers
    MaxReapers,   \* bound: goroutines that destroy one worker at a time
    None

ASSUME ManagerAssumption ==
    /\ MaxWorkers \in Nat \ {0}      \* Config.Validate
    /\ MaxReapers \in Nat \ {0}
    /\ IsFiniteSet(Ids)
    /\ None \notin Ids

VARIABLES
    running,     \* wm.running
    looping,     \* the background loops run; wm.ctx is never renewed
    shutdown,    \* wm.ctx is cancelled
    worker,      \* worker[id]: the status in wm.workers, "none" without an entry
    stale,       \* the workers not used for IdleTimeout
    reapers,     \* reapers[id]: goroutines that are about to destroy the sandbox
    deleters,    \* deleters[id]: those that are about to delete its entry
    pc, wid,     \* where each caller is, the worker it looks at or uses
    toCheck,     \* what checkWorkerHealth has still to check
    unhealthy,   \* the worker it is about to mark
    stop,        \* where Stop is
    stopIds,     \* what Stop has still to destroy
    box,         \* box[id]: the sandbox in the backend and in Docker
    leaked,      \* sandboxes that a failed Create or Destroy left behind
    tainted      \* workers that got a second user or reaper in a way the code allows

poolVars == <<worker, stale>>
reapVars == <<reapers, deleters>>
healthVars == <<toCheck, unhealthy>>
lifeVars == <<running, looping, shutdown, stop, stopIds>>
boxVars == <<box, leaked>>
vars == <<poolVars, reapVars, pc, wid, healthVars, lifeVars, boxVars, tainted>>

Init ==
    /\ running = FALSE /\ looping = FALSE /\ shutdown = FALSE
    /\ worker = [id \in Ids |-> "none"] /\ stale = {}
    /\ reapers = [id \in Ids |-> 0] /\ deleters = [id \in Ids |-> 0]
    /\ pc = [c \in Callers |-> "idle"] /\ wid = [c \in Callers |-> None]
    /\ toCheck = {} /\ unhealthy = None
    /\ stop = "none" /\ stopIds = {}
    /\ box = [id \in Ids |-> "none"] /\ leaked = {}
    /\ tainted = {}

workers == {id \in Ids : worker[id] # "none"}
Goto(c, l) == pc' = [pc EXCEPT ![c] = l]
Set(id, s) == worker' = [worker EXCEPT ![id] = s]
Using == {"held", "exec", "git", "release"}

(* The write lock is free: no caller is inside the fast path. *)
NoReader == \A c \in Callers : pc[c] # "fast"

(* generateContainerID *)
Fresh(id) ==
    /\ worker[id] = "none" /\ box[id] = "none"
    /\ reapers[id] + deleters[id] = 0
    /\ \A c \in Callers : wid[c] # id
    /\ id \notin stopIds \cup toCheck \cup {unhealthy} \cup leaked

-----------------------------------------------------------------------------
(* The backend: up, exited or gone while it is registered, stray without.    *)

Alive == {id \in Ids : box[id] \in {"up", "exited", "stray"}}
Registered(id) == box[id] \in {"up", "exited", "gone"}

(* Destroy: an unknown name is an error; a removal that fails may have       *)
(* stopped or removed the container, which stays registered.                 *)
DestroyOk(id)   == Registered(id) /\ box' = [box EXCEPT ![id] = "none"]
DestroyFail(id) ==
    IF Registered(id)
      THEN \E b \in {box[id], "exited", "gone"} :
             /\ box[id] = "gone" => b = "gone"
             /\ box' = [box EXCEPT ![id] = b]
      ELSE UNCHANGED box

SandboxExits(id) ==
    /\ box[id] = "up"
    /\ box' = [box EXCEPT ![id] = "exited"]
    /\ UNCHANGED <<poolVars, reapVars, pc, wid, healthVars, lifeVars, leaked, tainted>>

-----------------------------------------------------------------------------
(* AcquireWorker.                                                            *)

(* The caller reads the status of an idle worker under the read lock. *)
FastLook(c) ==
    /\ pc[c] = "idle" /\ running
    /\ \E id \in Ids : worker[id] = "idle" /\ wid' = [wid EXCEPT ![c] = id]
    /\ Goto(c, "fast")
    /\ UNCHANGED <<poolVars, reapVars, healthVars, lifeVars, boxVars, tainted>>

(* A worker another caller took since this one read it is theirs both. *)
FastTake(c) ==
    /\ pc[c] = "fast"
    /\ Set(wid[c], "busy")
    /\ stale' = stale \ {wid[c]}
    /\ tainted' = IF worker[wid[c]] = "busy" THEN tainted \cup {wid[c]} ELSE tainted
    /\ Goto(c, "held")
    /\ UNCHANGED <<reapVars, wid, healthVars, lifeVars, boxVars>>

(* No worker was idle when the read lock was held. *)
FastMiss(c) ==
    /\ pc[c] = "idle" /\ running
    /\ \A id \in Ids : worker[id] # "idle"
    /\ Goto(c, "slow")
    /\ UNCHANGED <<poolVars, reapVars, wid, healthVars, lifeVars, boxVars, tainted>>

(* Mutant: the second look takes any worker that is not stopping. *)
TakeAnyWorker(c) ==
    /\ pc[c] = "slow" /\ NoReader
    /\ \E id \in Ids :
          /\ worker[id] \in {"idle", "busy"}
          /\ Set(id, "busy")
          /\ stale' = stale \ {id}
          /\ wid' = [wid EXCEPT ![c] = id]
    /\ Goto(c, "held")
    /\ UNCHANGED <<reapVars, healthVars, lifeVars, boxVars, tainted>>

(* The second look, under the write lock. *)
SlowTake(c) ==
    /\ pc[c] = "slow" /\ NoReader
    /\ \E id \in Ids :
          /\ worker[id] = "idle"
          /\ Set(id, "busy")
          /\ stale' = stale \ {id}
          /\ wid' = [wid EXCEPT ![c] = id]
    /\ Goto(c, "held")
    /\ UNCHANGED <<reapVars, healthVars, lifeVars, boxVars, tainted>>

(* Mutant: stopping workers do not count. *)
RoomBesideStopping ==
    Cardinality({id \in workers : worker[id] # "stopping"}) < MaxWorkers

HasRoom == Cardinality(workers) < MaxWorkers

(* Create runs under the write lock as well. *)
CreateWorker(c) ==
    /\ pc[c] = "slow" /\ NoReader
    /\ \A id \in Ids : worker[id] # "idle"
    /\ HasRoom
    /\ \E id \in Ids :
          /\ Fresh(id)
          /\ box' = [box EXCEPT ![id] = "up"]
          /\ Set(id, "busy")
          /\ wid' = [wid EXCEPT ![c] = id]
          /\ tainted' = tainted \ {id}
    /\ Goto(c, "held")
    /\ UNCHANGED <<stale, reapVars, healthVars, lifeVars, leaked>>

(* The limit, or a Create that failed; the container may exist after it. *)
AcquireFailed(c) ==
    /\ pc[c] = "slow" /\ NoReader
    /\ \A id \in Ids : worker[id] # "idle"
    /\ \/ UNCHANGED boxVars
       \/ /\ HasRoom
          /\ \E id \in Ids :
                /\ Fresh(id)
                /\ box' = [box EXCEPT ![id] = "stray"]
                /\ leaked' = leaked \cup {id}
    /\ Goto(c, "idle")
    /\ UNCHANGED <<poolVars, reapVars, wid, healthVars, lifeVars, tainted>>

-----------------------------------------------------------------------------
(* ExecOnWorker, executeGitCommitPush, ReleaseWorker, DestroyWorker.         *)

(* An unknown or stopping worker is refused; Execute then releases it. *)
ExecOnWorker(c) ==
    /\ pc[c] = "held"
    /\ Goto(c, IF worker[wid[c]] \in {"none", "stopping"} THEN "release" ELSE "exec")
    /\ UNCHANGED <<poolVars, reapVars, wid, healthVars, lifeVars, boxVars, tainted>>

(* A command ends.  git add, commit and push follow one that exits with 0,   *)
(* when they are configured, each after the success of the one before; every *)
(* other outcome ends the execution.                                         *)
CommandReturns(c) ==
    /\ pc[c] \in {"exec", "git"}
    /\ \/ box[wid[c]] = "up" /\ Goto(c, "git")
       \/ Goto(c, "release")
    /\ UNCHANGED <<poolVars, reapVars, wid, healthVars, lifeVars, boxVars, tainted>>

ReleaseWorker(c) ==
    /\ pc[c] = "release" /\ NoReader
    /\ IF worker[wid[c]] \in {"none", "stopping"}
         THEN UNCHANGED poolVars
         ELSE Set(wid[c], "idle") /\ stale' = stale \ {wid[c]}
    /\ wid' = [wid EXCEPT ![c] = None]
    /\ Goto(c, "idle")
    /\ UNCHANGED <<reapVars, healthVars, lifeVars, boxVars, tainted>>

(* A caller that destroys its worker instead of releasing it.  A Destroy     *)
(* that failed makes the worker idle, whoever else uses or destroys it.      *)
DestroyWorker(c) ==
    LET id == wid[c]
        others == reapers[id] + deleters[id] > 0
                  \/ \E d \in Callers \ {c} : wid[d] = id
    IN  /\ pc[c] = "held" /\ NoReader
        /\ \/ /\ worker[id] = "none"
              /\ UNCHANGED <<worker, stale, box, tainted>>
           \/ /\ worker[id] # "none"
              /\ DestroyOk(id)
              /\ Set(id, "none")
              /\ stale' = stale \ {id}
              /\ UNCHANGED tainted
           \/ /\ worker[id] # "none"
              /\ DestroyFail(id)
              /\ Set(id, "idle")
              /\ tainted' = IF others THEN tainted \cup {id} ELSE tainted
              /\ UNCHANGED stale
        /\ wid' = [wid EXCEPT ![c] = None]
        /\ Goto(c, "idle")
        /\ UNCHANGED <<reapVars, healthVars, lifeVars, leaked>>

-----------------------------------------------------------------------------
(* The background loops and the goroutines they spawn.                       *)

MayReap(id) == reapers[id] + deleters[id] < MaxReapers

GrowStale(id) ==
    /\ worker[id] # "none" /\ id \notin stale
    /\ stale' = stale \cup {id}
    /\ UNCHANGED <<worker, reapVars, pc, wid, healthVars, lifeVars, boxVars, tainted>>

CleanupIdleWorkers ==
    LET old == {id \in stale : worker[id] = "idle"}
    IN  /\ looping /\ NoReader
        /\ old # {} /\ \A id \in old : MayReap(id)
        /\ worker' = [id \in Ids |-> IF id \in old THEN "stopping" ELSE worker[id]]
        /\ reapers' = [id \in Ids |-> IF id \in old THEN reapers[id] + 1 ELSE reapers[id]]
        /\ UNCHANGED <<stale, deleters, pc, wid, healthVars, lifeVars, boxVars, tainted>>

CheckWorkerHealth ==
    /\ looping /\ toCheck = {} /\ unhealthy = None
    /\ toCheck' = {id \in Ids : worker[id] \in {"idle", "busy"}}
    /\ toCheck' # {}
    /\ UNCHANGED <<poolVars, reapVars, pc, wid, unhealthy, lifeVars, boxVars, tainted>>

(* HealthCheck: an error, or a container that is not running or does not     *)
(* answer; a running one may fail to answer too.                             *)
CheckAndReplaceWorker ==
    /\ unhealthy = None
    /\ \E id \in toCheck :
          /\ toCheck' = IF looping THEN toCheck \ {id} ELSE {}
          /\ unhealthy' \in IF ~looping THEN {None}
                            ELSE IF box[id] = "up" THEN {None, id} ELSE {id}
    /\ UNCHANGED <<poolVars, reapVars, pc, wid, lifeVars, boxVars, tainted>>

MarkWorkerUnhealthy ==
    /\ unhealthy # None /\ NoReader /\ MayReap(unhealthy)
    /\ IF worker[unhealthy] \in {"none", "stopping"}
         THEN UNCHANGED <<worker, reapers>>
         ELSE /\ Set(unhealthy, "stopping")
              /\ reapers' = [reapers EXCEPT ![unhealthy] = @ + 1]
    /\ unhealthy' = None
    /\ UNCHANGED <<stale, deleters, pc, wid, toCheck, lifeVars, boxVars, tainted>>

(* Mutant: the goroutine returns when the destruction failed. *)
ReapOrReturn(id) ==
    /\ reapers[id] > 0
    /\ reapers' = [reapers EXCEPT ![id] = @ - 1]
    /\ \/ DestroyOk(id) /\ deleters' = [deleters EXCEPT ![id] = @ + 1]
       \/ DestroyFail(id) /\ UNCHANGED deleters
    /\ UNCHANGED <<poolVars, pc, wid, healthVars, lifeVars, leaked, tainted>>

(* The goroutine destroys the sandbox and goes on whether it could or not. *)
Reap(id) ==
    /\ reapers[id] > 0
    /\ reapers' = [reapers EXCEPT ![id] = @ - 1]
    /\ deleters' = [deleters EXCEPT ![id] = @ + 1]
    /\ DestroyOk(id) \/ DestroyFail(id)
    /\ UNCHANGED <<poolVars, pc, wid, healthVars, lifeVars, leaked, tainted>>

(* delete(wm.workers, id): what is left of the sandbox is nobody's. *)
DeleteEntry(id) ==
    /\ deleters[id] > 0 /\ NoReader
    /\ deleters' = [deleters EXCEPT ![id] = @ - 1]
    /\ Set(id, "none")
    /\ stale' = stale \ {id}
    /\ leaked' = leaked \cup ({id} \cap Alive)
    /\ UNCHANGED <<reapers, pc, wid, healthVars, lifeVars, box, tainted>>

-----------------------------------------------------------------------------
(* Start and Stop.                                                           *)

Start ==
    /\ ~running /\ stop \in {"none", "done"}
    /\ running' = TRUE
    /\ looping' = ~shutdown
    /\ UNCHANGED <<poolVars, reapVars, pc, wid, healthVars, shutdown, stop, stopIds, boxVars, tainted>>

(* The loops end, or the context of Stop does. *)
StopBegin ==
    /\ running
    /\ running' = FALSE /\ looping' = FALSE /\ shutdown' = TRUE
    /\ stop' = "waiting"
    /\ UNCHANGED <<poolVars, reapVars, pc, wid, healthVars, stopIds, boxVars, tainted>>

StopSnapshot ==
    /\ stop = "waiting" /\ NoReader
    /\ stop' = "destroying"
    /\ stopIds' = workers
    /\ UNCHANGED <<poolVars, reapVars, pc, wid, healthVars, running, looping, shutdown, boxVars, tainted>>

StopDestroy(id) ==
    /\ id \in stopIds
    /\ DestroyOk(id) \/ DestroyFail(id)
    /\ stopIds' = stopIds \ {id}
    /\ UNCHANGED <<poolVars, reapVars, pc, wid, healthVars, running, looping, shutdown, stop, leaked, tainted>>

(* wm.workers = make(...) *)
StopClear ==
    /\ stop = "destroying" /\ stopIds = {} /\ NoReader
    /\ stop' = "done"
    /\ worker' = [id \in Ids |-> "none"]
    /\ stale' = {}
    /\ UNCHANGED <<reapVars, pc, wid, healthVars, running, looping, shutdown, stopIds, boxVars, tainted>>

-----------------------------------------------------------------------------
AcquireWorker(c) ==
    \/ FastLook(c) \/ FastTake(c) \/ FastMiss(c)
    \/ SlowTake(c) \/ CreateWorker(c) \/ AcquireFailed(c)

(* Execute is AcquireWorker, ExecOnWorker and a deferred ReleaseWorker. *)
Execute(c) == AcquireWorker(c) \/ ExecOnWorker(c) \/ CommandReturns(c) \/ ReleaseWorker(c)

Next ==
    \/ \E c \in Callers : Execute(c) \/ DestroyWorker(c)
    \/ \E id \in Ids :
          GrowStale(id) \/ SandboxExits(id) \/ Reap(id) \/ DeleteEntry(id) \/ StopDestroy(id)
    \/ CleanupIdleWorkers
    \/ CheckWorkerHealth \/ CheckAndReplaceWorker \/ MarkWorkerUnhealthy
    \/ Start \/ StopBegin \/ StopSnapshot \/ StopClear

Spec == Init /\ [][Next]_vars

-----------------------------------------------------------------------------
TypeOK ==
    /\ running \in BOOLEAN /\ looping \in BOOLEAN /\ shutdown \in BOOLEAN
    /\ worker \in [Ids -> {"none", "idle", "busy", "stopping"}]
    /\ stale \subseteq workers
    /\ reapers \in [Ids -> Nat] /\ deleters \in [Ids -> Nat]
    /\ pc \in [Callers -> Using \cup {"idle", "fast", "slow"}]
    /\ wid \in [Callers -> Ids \cup {None}]
    /\ toCheck \subseteq Ids /\ unhealthy \in Ids \cup {None}
    /\ stop \in {"none", "waiting", "destroying", "done"} /\ stopIds \subseteq Ids
    /\ box \in [Ids -> {"none", "up", "exited", "gone", "stray"}]
    /\ leaked \subseteq Ids /\ tainted \subseteq Ids

(* A worker has one user at a time.  Only overlapping fast paths, and a      *)
(* failed DestroyWorker of a worker others use, put one in two hands.        *)
ExclusiveUse ==
    \A c, d \in Callers :
        pc[c] \in Using /\ pc[d] \in Using /\ wid[c] = wid[d] /\ wid[c] \notin tainted => c = d

(* A worker that can be handed out is in nobody's hands: no goroutine is     *)
(* about to destroy or delete it and no caller still uses it, unless it was  *)
(* tainted; and no worker is destroyed by two goroutines.                    *)
IdleIsFree ==
    \A id \in Ids \ tainted :
        /\ reapers[id] + deleters[id] <= 1
        /\ worker[id] = "idle" =>
              /\ reapers[id] + deleters[id] = 0
              /\ \A c \in Callers : pc[c] \in Using => wid[c] # id

(* Who has a worker: at most one user or destroyer, and nobody when the pool *)
(* offers it (workermanager.go:204, 295, 626).                               *)
WorkerOwnership == ExclusiveUse /\ IdleIsFree

(* Until Stop, the sandboxes that exist and that no failed call has left     *)
(* behind are those of the map, and no more than MaxWorkers.                 *)
SandboxLimit ==
    stop = "none" =>
        /\ Alive \subseteq workers \cup leaked
        /\ Cardinality(Alive \ leaked) <= MaxWorkers

(* A stopping worker gives its slot back: a goroutine that will delete its   *)
(* entry, whether or not it can destroy the sandbox, is always under way.    *)
StoppingIsReaped ==
    \A id \in Ids : worker[id] = "stopping" => reapers[id] + deleters[id] > 0

-----------------------------------------------------------------------------
(* The inductive invariant behind these properties. *)

(* A caller past its look has a worker; one between look and take holds the  *)
(* read lock, so that only another such caller can have changed the status.  *)
HandInv ==
    \A c \in Callers :
        /\ pc[c] \in Using \cup {"fast"} => wid[c] \in Ids
        /\ pc[c] = "fast" => worker[wid[c]] \in {"idle", "busy"}

(* A goroutine that destroys or deletes an untainted worker has taken it out *)
(* of use, also out of the hands of a caller that is still executing in it.  *)
ReapInv ==
    \A id \in Ids \ tainted :
        worker[id] \in {"idle", "busy"} => reapers[id] + deleters[id] = 0

(* The map holds no more than MaxWorkers entries. *)
LimitInv == Cardinality(workers) <= MaxWorkers

(* Until Stop, no sandbox is lost. *)
TrackInv == stop = "none" => Alive \subseteq workers \cup leaked

ManagerInv ==
    TypeOK /\ HandInv /\ ReapInv /\ ExclusiveUse /\ IdleIsFree
        /\ StoppingIsReaped /\ LimitInv /\ TrackInv

-----------------------------------------------------------------------------
(* What the comments of the code say; the code does not keep it.             *)

(* "acquires an available worker": one that no other caller uses. *)
TakenByOne ==
    \A c, d \in Callers :
        pc[c] \in Using /\ pc[d] \in Using /\ wid[c] = wid[d] => c = d

(* "Destroy all remaining workers": after Stop none is left. *)
StopLeavesNothing == stop = "done" /\ ~running => Alive \subseteq leaked
=============================================================================
