--------------------------- MODULE GitWorkerPool ----------------------------
(***************************************************************************)
(* The pool of git workers (plugins/gitclient/pool.go): Start, Acquire,    *)
(* Release, the health check that recycles, Stop, and what a caller does   *)
(* with the worker it holds.  What runs under the pool's lock is one step: *)
(* of Start, the creation of each worker; the worker's own lock makes      *)
(* preheating, Clone, Reset and MarkIdle one step.                         *)
(***************************************************************************)
EXTENDS Naturals, FiniteSets

CONSTANTS
    GitCallers,
    InitialSize, MaxSize,
    MaxCreated       \* bound: workers created in all

ASSUME GitPoolAssumption ==
    /\ InitialSize \in Nat /\ MaxSize \in Nat \ {0} /\ InitialSize <= MaxSize
    /\ MaxCreated \in Nat /\ InitialSize <= MaxCreated

VARIABLES
    gitWorkers,   \* the pool's map: from ids to workers
    wstate,    \* wstate[w]: GitWorker.state
    workerId,       \* workerId[w]: its id
    repo,      \* the workers that have a repository directory
    holding,   \* holding[c]: the workers that caller c got and has not released
    nextWorker, \* workers are numbered as they are created
    poolState, \* "new", "started", "closing" (closed, waits for the check), "closed"
    starting,  \* "none", "loop" (Start creates workers), "done"
    left,      \* the workers that Start has still to create
    warming,   \* the worker that it has created and not preheated yet; 0: none
    checking,  \* the health check runs
    redone,    \* the workers made preheated again while they were held
    shadowed   \* the workers whose id was given out again while they were held

startVars == <<starting, left, warming>>
gitPoolVars == <<gitWorkers, wstate, workerId, repo, holding, nextWorker, poolState, startVars, checking,
                 redone, shadowed>>

AllWorkers == 1 .. MaxCreated
Pooled == {gitWorkers[i] : i \in DOMAIN gitWorkers}
Held == UNION {holding[c] : c \in GitCallers}

GitPoolInit ==
    /\ gitWorkers = <<>> /\ nextWorker = 1
    /\ wstate = [w \in AllWorkers |-> "created"] /\ workerId = [w \in AllWorkers |-> 0]
    /\ repo = {} /\ holding = [c \in GitCallers |-> {}]
    /\ poolState = "new" /\ starting = "none" /\ left = 0 /\ warming = 0
    /\ checking = FALSE /\ redone = {} /\ shadowed = {}

(* createWorkerLocked: the id is the number of the workers and one. *)
NewId == Cardinality(DOMAIN gitWorkers) + 1

Put(i, w) == [j \in DOMAIN gitWorkers \cup {i} |-> IF j = i THEN w ELSE gitWorkers[j]]
PoolWithout(is) == [j \in DOMAIN gitWorkers \ is |-> gitWorkers[j]]

(* createWorkerLocked: the new worker replaces one that has its id, and      *)
(* whoever is held under that id shares it from now on.                      *)
CreateWorkerLocked(st) ==
    /\ nextWorker <= MaxCreated /\ nextWorker' = nextWorker + 1
    /\ gitWorkers' = Put(NewId, nextWorker)
    /\ LET same == {w \in Held : workerId[w] = NewId}
       IN  shadowed' = IF same = {} THEN shadowed ELSE shadowed \cup same \cup {nextWorker}
    /\ workerId' = [workerId EXCEPT ![nextWorker] = NewId]
    /\ wstate' = [wstate EXCEPT ![nextWorker] = st]

(* Start opens the pool for Acquire and Stop before it creates workers. *)
GitPoolStart ==
    /\ poolState = "new" /\ poolState' = "started"
    /\ starting' = "loop" /\ left' = InitialSize
    /\ UNCHANGED <<gitWorkers, wstate, workerId, repo, holding, nextWorker, warming, checking, redone,
                   shadowed>>

(* One worker more, whatever Acquire or Stop have done meanwhile. *)
StartCreates ==
    /\ starting = "loop" /\ left > 0 /\ warming = 0
    /\ CreateWorkerLocked("preheated")
    /\ left' = left - 1 /\ warming' = nextWorker
    /\ UNCHANGED <<repo, holding, poolState, starting, checking, redone>>

(* preheatWorker: preheated, whatever its state is by now, unless the        *)
(* context has ended.                                                        *)
PreheatWorker ==
    /\ warming # 0 /\ warming' = 0
    /\ \/ /\ wstate' = [wstate EXCEPT ![warming] = "preheated"]
          /\ redone' = IF warming \in Held THEN redone \cup {warming} ELSE redone
       \/ UNCHANGED <<wstate, redone>>
    /\ UNCHANGED <<gitWorkers, workerId, repo, holding, nextWorker, poolState, starting, left, checking,
                   shadowed>>

(* The check starts last; it ends at once when the pool is closed.           *)
StartEnds ==
    /\ starting = "loop" /\ left = 0 /\ warming = 0
    /\ starting' = "done" /\ checking' = (poolState # "closed")
    /\ UNCHANGED <<gitWorkers, wstate, workerId, repo, holding, nextWorker, poolState, left, warming,
                   redone, shadowed>>

(* Acquire of a worker that was never used.  One that is idle is found too,  *)
(* but only a preheated one can become active: then Acquire fails.           *)
AcquirePreheated(c, w) ==
    /\ poolState = "started"
    /\ w \in Pooled /\ wstate[w] = "preheated"
    /\ wstate' = [wstate EXCEPT ![w] = "active"]
    /\ holding' = [holding EXCEPT ![c] = @ \cup {w}]
    /\ UNCHANGED <<gitWorkers, workerId, repo, nextWorker, poolState, startVars, checking, redone, shadowed>>

AcquireNew(c) ==
    /\ poolState = "started"
    /\ \A w \in Pooled : wstate[w] \notin {"idle", "preheated"}
    /\ Cardinality(DOMAIN gitWorkers) < MaxSize
    /\ holding' = [holding EXCEPT ![c] = @ \cup {nextWorker}]
    /\ CreateWorkerLocked("active")
    /\ UNCHANGED <<repo, poolState, startVars, checking, redone>>

(* A worker in a bad state is removed, by its id, with its directory. *)
Release(c, w) ==
    /\ w \in holding[c]
    /\ holding' = [holding EXCEPT ![c] = @ \ {w}]
    /\ IF wstate[w] \in {"active", "preheated"}
         THEN wstate' = [wstate EXCEPT ![w] = "idle"] /\ UNCHANGED <<gitWorkers, repo>>
         ELSE /\ gitWorkers' = PoolWithout({workerId[w]})
              /\ repo' = repo \ {gitWorkers[i] : i \in DOMAIN gitWorkers \cap {workerId[w]}}
              /\ UNCHANGED wstate
    /\ UNCHANGED <<workerId, nextWorker, poolState, startVars, checking, redone, shadowed>>

(* The holder forgets the repository, or clones or opens one; the latter     *)
(* needs a worker that is created or idle.                                   *)
Reset(c, w) ==
    /\ w \in holding[c] /\ wstate[w] # "created"
    /\ wstate' = [wstate EXCEPT ![w] = "created"]
    /\ repo' = repo \ {w}
    /\ UNCHANGED <<gitWorkers, workerId, holding, nextWorker, poolState, startVars, checking, redone, shadowed>>

Clone(c, w) ==
    /\ w \in holding[c] /\ wstate[w] \in {"created", "idle"}
    /\ wstate' = [wstate EXCEPT ![w] = "preheated"]
    /\ repo' = repo \cup {w}
    /\ redone' = redone \cup {w}
    /\ UNCHANGED <<gitWorkers, workerId, holding, nextWorker, poolState, startVars, checking, shadowed>>

(* Mutant: any worker that was not used for a while is recycled. *)
RecycleUnused(ws) ==
    /\ checking /\ ws # {} /\ ws \subseteq {w \in Pooled : wstate[w] \in {"idle", "preheated", "active"}}
    /\ wstate' = [w \in AllWorkers |-> IF w \in ws THEN "recycled" ELSE wstate[w]]
    /\ gitWorkers' = PoolWithout({i \in DOMAIN gitWorkers : gitWorkers[i] \in ws})
    /\ repo' = repo \ ws
    /\ UNCHANGED <<workerId, holding, nextWorker, poolState, startVars, checking, redone, shadowed>>

(* RecycleIdle of the workers that were idle for long enough. *)
RecycleIdle(ws) ==
    /\ checking /\ ws # {} /\ ws \subseteq {w \in Pooled : wstate[w] = "idle"}
    /\ wstate' = [w \in AllWorkers |-> IF w \in ws THEN "recycled" ELSE wstate[w]]
    /\ gitWorkers' = PoolWithout({i \in DOMAIN gitWorkers : gitWorkers[i] \in ws})
    /\ repo' = repo \ ws
    /\ UNCHANGED <<workerId, holding, nextWorker, poolState, startVars, checking, redone, shadowed>>

HealthCheckEnds ==
    /\ checking /\ poolState = "closing"
    /\ checking' = FALSE
    /\ UNCHANGED <<gitWorkers, wstate, workerId, repo, holding, nextWorker, poolState, startVars, redone, shadowed>>

(* Stop closes the pool, waits for the check, and recycles what is pooled,   *)
(* held or not.                                                              *)
GitPoolClose ==
    /\ poolState \in {"new", "started"}
    /\ poolState' = "closing"
    /\ UNCHANGED <<gitWorkers, wstate, workerId, repo, holding, nextWorker, startVars, checking, redone, shadowed>>

GitPoolStop ==
    /\ poolState = "closing" /\ ~checking
    /\ poolState' = "closed"
    /\ wstate' = [w \in AllWorkers |-> IF w \in Pooled THEN "recycled" ELSE wstate[w]]
    /\ repo' = repo \ Pooled
    /\ gitWorkers' = <<>>
    /\ UNCHANGED <<workerId, holding, nextWorker, startVars, checking, redone, shadowed>>

GitPoolNext ==
    \/ GitPoolStart \/ StartCreates \/ PreheatWorker \/ StartEnds
    \/ GitPoolClose \/ GitPoolStop \/ HealthCheckEnds
    \/ \E ws \in SUBSET AllWorkers : RecycleIdle(ws)
    \/ \E c \in GitCallers :
          \/ AcquireNew(c)
          \/ \E w \in AllWorkers : AcquirePreheated(c, w) \/ Release(c, w) \/ Reset(c, w) \/ Clone(c, w)

GitPoolSpec == GitPoolInit /\ [][GitPoolNext]_gitPoolVars

-----------------------------------------------------------------------------
GitPoolTypeOK ==
    /\ DOMAIN gitWorkers \subseteq 1 .. MaxCreated /\ Pooled \subseteq 1 .. nextWorker - 1
    /\ \A w \in AllWorkers : wstate[w] \in {"created", "preheated", "active", "idle", "recycled"}
    /\ repo \subseteq AllWorkers

(* Until the pool is stopped, a worker that a caller holds is in the pool    *)
(* and with nobody else: no health check, no Release of another worker and   *)
(* no Acquire takes it away, nor a worker that Start creates late.  Excepted *)
(* are workers made preheated while they are held, by the holder's Clone or  *)
(* by Start (pool.go:461), and those that share an id.                       *)
HeldIsKept ==
    poolState \in {"new", "started"} =>
        \A c \in GitCallers : \A w \in holding[c] \ (redone \cup shadowed) :
            /\ w \in Pooled
            /\ \A d \in GitCallers \ {c} : w \notin holding[d]

-----------------------------------------------------------------------------
(* The inductive invariant behind HeldIsKept.                                *)

GitPoolFunctions ==
    /\ wstate \in [AllWorkers -> {"created", "preheated", "active", "idle", "recycled"}]
    /\ workerId \in [AllWorkers -> Nat]
    /\ holding \in [GitCallers -> SUBSET AllWorkers]
    /\ poolState \in {"new", "started", "closing", "closed"}
    /\ nextWorker \in Nat \ {0} /\ warming \in AllWorkers \cup {0}

(* The map knows a worker by the worker's own id; whoever else is held under *)
(* that id shares it, and both are marked.                                   *)
IdsInv ==
    /\ DOMAIN gitWorkers \subseteq Nat /\ IsFiniteSet(DOMAIN gitWorkers)
    /\ \A i \in DOMAIN gitWorkers :
          /\ gitWorkers[i] \in AllWorkers /\ gitWorkers[i] < nextWorker
          /\ workerId[gitWorkers[i]] = i
          /\ \A c \in GitCallers : \A w \in holding[c] :
                workerId[w] = i /\ w # gitWorkers[i] => w \in shadowed /\ gitWorkers[i] \in shadowed

(* A held worker is one that was created, and nobody holds one before Start. *)
HoldingInv ==
    \A c \in GitCallers :
        /\ poolState = "new" => holding[c] = {}
        /\ \A w \in holding[c] : w < nextWorker

(* One that was not made preheated again and shares no id is where the map   *)
(* says, and it is neither idle, so no health check recycles it, nor         *)
(* preheated, so no Acquire gives it to somebody else.                       *)
KeptInv ==
    poolState # "closed" =>
        \A c \in GitCallers : \A w \in holding[c] \ (redone \cup shadowed) :
            /\ workerId[w] \in DOMAIN gitWorkers /\ gitWorkers[workerId[w]] = w
            /\ wstate[w] \in {"active", "created"}
            /\ \A d \in GitCallers \ {c} : w \notin holding[d]

GitPoolInv == GitPoolFunctions /\ IdsInv /\ HoldingInv /\ KeptInv

-----------------------------------------------------------------------------
(* What comments of the code say; the code does not keep it.                 *)

(* "MaxSize is the maximum number of workers in the pool". *)
HeldWithinMax == Cardinality(Held \cup Pooled) <= MaxSize

(* "Acquire acquires an idle worker": no caller shares one. *)
HeldByOne == \A c, d \in GitCallers : c # d => holding[c] \cap holding[d] = {}
=============================================================================
