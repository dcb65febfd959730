-------------------------- MODULE ColdStartProofs --------------------------
(***************************************************************************)
(* Proofs about the cold-start scheduler, for any number of callers, loops *)
(* and containers, any limit, and with every fault switched on.            *)
(***************************************************************************)
EXTENDS ColdStartScheduler, FiniteSetTheorems, TLAPS

(* Who answers for a container that is not simply in the map: the Acquire  *)
(* that has just created it, or the Release that marked it closed.         *)
Owning == Releasing \cup {"created"}

OwnerInv ==
    /\ \A p \in Procs : pc[p] \in Releasing =>
          /\ cid[p] \in Ids
          /\ cid[p] \notin containers \ closed
    /\ \A p \in Procs : pc[p] = "created" => cid[p] \in Ids \ containers
    /\ \A p \in Procs : pc[p] = "deleting" => cid[p] \notin alive
    /\ \A p, q \in Procs :
          p # q /\ pc[p] \in Owning /\ pc[q] \in Owning => cid[p] # cid[q]

LimitInv ==
    /\ IsFiniteSet(containers)
    /\ BoundedOvershoot

(* The strengthening that makes the three safety invariants inductive.     *)
SchedInv == TypeOK /\ OwnerInv /\ LiveTracked

USE DEF Procs, UserPC, CleanerPC, Releasing, None

(* The invariants hold when the scheduler is created. *)
LEMMA InitEstablishes == ASSUME Init PROVE SchedInv /\ LimitInv
<1>1. TypeOK
  BY ProcsAssumption DEF Init, TypeOK
<1>2. OwnerInv /\ LiveTracked
  BY ProcsAssumption DEF Init, OwnerInv, LiveTracked, Owning
<1>3. Admitted = {}
  BY DEF Init, Admitted
<1>4. Cardinality({}) = 0 /\ IsFiniteSet({})
  BY FS_EmptySet
<1>5. Cardinality(Users) \in Nat
  BY UsersAssumption, FS_CardinalityType
<1> QED
  BY <1>1, <1>2, <1>3, <1>4, <1>5, ConfigAssumption DEF SchedInv, LimitInv, BoundedOvershoot, Init

(* Most steps of a caller change its place and no handle. *)
LEMMA CallerMoveKeeps ==
    ASSUME SchedInv, NEW u \in Users,
           Acquire(u) \/ AcquireRefused(u) \/ Exec(u) \/ ExecOk(u) \/ ExecFailed(u)
    PROVE  SchedInv'
<1> USE DEF SchedInv, Acquire, AcquireRefused, Exec, ExecOk, ExecFailed, Goto, vars, mapVars, stopVars, dockVars
<1>1. TypeOK'
  BY ProcsAssumption DEF TypeOK
<1>2. OwnerInv'
  BY ProcsAssumption DEF TypeOK, OwnerInv, Owning
<1>3. LiveTracked'
  BY ProcsAssumption DEF TypeOK, OwnerInv, LiveTracked
<1> QED
  BY <1>1, <1>2, <1>3

(* Use, cancellation and a caller that walks away leave every handle in the map. *)
LEMMA HandleUseKeeps ==
    ASSUME SchedInv, NEW u \in Users,
           UpdateLastUsed(u) \/ Abandon(u) \/ CancelContext(u)
    PROVE  SchedInv'
<1> USE DEF SchedInv, UpdateLastUsed, Abandon, CancelContext, Return, Goto, vars, mapVars, stopVars, dockVars
<1>1. TypeOK'
  BY ProcsAssumption DEF TypeOK
<1>2. OwnerInv'
  BY ProcsAssumption DEF TypeOK, OwnerInv, Owning
<1>3. LiveTracked'
  BY ProcsAssumption DEF TypeOK, OwnerInv, LiveTracked
<1> QED
  BY <1>1, <1>2, <1>3

(* A new container has a name that nobody else works on. *)
LEMMA CreateOkKeeps ==
    ASSUME SchedInv, NEW u \in Users, CreateOk(u)
    PROVE  SchedInv'
<1> USE DEF SchedInv, CreateOk, DockerCreate, CreateWithVolume, Fresh, Goto, vars, mapVars, stopVars, dockVars
<1>1. TypeOK'
  BY ProcsAssumption DEF TypeOK
<1>2. OwnerInv'
  BY ProcsAssumption DEF TypeOK, OwnerInv, Owning
<1>3. LiveTracked'
  BY ProcsAssumption DEF TypeOK, OwnerInv, LiveTracked
<1> QED
  BY <1>1, <1>2, <1>3

(* A failed Create leaves at most a stray. *)
LEMMA CreateFailedKeeps ==
    ASSUME SchedInv, NEW u \in Users, CreateFailed(u)
    PROVE  SchedInv'
<1> USE DEF SchedInv, CreateFailed, CreateFailure, Fresh, Return, Goto, vars, mapVars, stopVars, dockVars
<1>1. TypeOK'
  BY ProcsAssumption DEF TypeOK
<1>2. OwnerInv'
  BY ProcsAssumption DEF TypeOK, OwnerInv, Owning
<1>3. LiveTracked'
  BY ProcsAssumption DEF TypeOK, OwnerInv, LiveTracked
<1> QED
  BY <1>1, <1>2, <1>3

(* The handle enters the map as its creator lets go of it. *)
LEMMA AcquiredKeeps ==
    ASSUME SchedInv, NEW u \in Users, Acquired(u)
    PROVE  SchedInv'
<1> USE DEF SchedInv, Acquired, TrackHandle, Goto, vars, mapVars, stopVars, dockVars
<1>1. TypeOK'
  BY ProcsAssumption DEF TypeOK, OwnerInv
<1>2. OwnerInv'
  BY ProcsAssumption DEF TypeOK, OwnerInv, Owning
<1>3. LiveTracked'
  BY ProcsAssumption DEF TypeOK, OwnerInv, LiveTracked
<1> QED
  BY <1>1, <1>2, <1>3

(* Close marks an open handle, or finds nothing to do. *)
LEMMA CloseKeeps ==
    ASSUME SchedInv, NEW u \in Users, Close(u)
    PROVE  SchedInv'
<1> USE DEF SchedInv, Close, Release, MarkClosed, AlreadyReleased, Return, Goto, vars, mapVars, stopVars, dockVars
<1>1. TypeOK'
  BY ProcsAssumption DEF TypeOK
<1>2. OwnerInv'
  BY ProcsAssumption DEF TypeOK, OwnerInv, Owning
<1>3. LiveTracked'
  BY ProcsAssumption DEF TypeOK, OwnerInv, LiveTracked
<1> QED
  BY <1>1, <1>2, <1>3

(* The cleaner marks an open handle, or goes on. *)
LEMMA CleanupNextKeeps ==
    ASSUME SchedInv, NEW c \in Cleaners, CleanupNext(c)
    PROVE  SchedInv'
<1> USE DEF SchedInv, CleanupNext, Release, MarkClosed, AlreadyReleased, Return, Goto, vars, mapVars, stopVars, dockVars
<1>1. TypeOK'
  BY ProcsAssumption DEF TypeOK
<1>2. OwnerInv'
  BY ProcsAssumption DEF TypeOK, OwnerInv, Owning
<1>3. LiveTracked'
  BY ProcsAssumption DEF TypeOK, OwnerInv, LiveTracked
<1> QED
  BY <1>1, <1>2, <1>3

(* The other steps of the loop touch no handle. *)
LEMMA LoopMoveKeeps ==
    ASSUME SchedInv, NEW c \in Cleaners, CleanupIdle(c) \/ CleanupDone(c) \/ LoopExit(c)
    PROVE  SchedInv'
<1> USE DEF SchedInv, CleanupIdle, CleanupDone, LoopExit, Goto, vars, mapVars, stopVars, dockVars
<1>1. TypeOK'
  BY ProcsAssumption DEF TypeOK
<1>2. OwnerInv'
  BY ProcsAssumption DEF TypeOK, OwnerInv, Owning
<1>3. LiveTracked'
  BY ProcsAssumption DEF TypeOK, OwnerInv, LiveTracked
<1> QED
  BY <1>1, <1>2, <1>3

(* A destruction that succeeds takes the container out of Docker. *)
LEMMA ReleaseDestroyedKeeps ==
    ASSUME SchedInv, NEW p \in Procs, ReleaseDestroyed(p)
    PROVE  SchedInv'
<1> USE DEF SchedInv, ReleaseDestroyed, Destroy, DockerDestroy, DirectDestroy, Goto, vars, mapVars, stopVars, dockVars
<1>1. TypeOK'
  BY ProcsAssumption DEF TypeOK
<1>2. OwnerInv'
  BY ProcsAssumption DEF TypeOK, OwnerInv, Owning
<1>3. LiveTracked'
  BY ProcsAssumption DEF TypeOK, OwnerInv, LiveTracked
<1> QED
  BY <1>1, <1>2, <1>3

(* A destruction that fails leaves the handle closed. *)
LEMMA ReleaseFailedKeeps ==
    ASSUME SchedInv, NEW p \in Procs, ReleaseFailed(p)
    PROVE  SchedInv'
<1> USE DEF SchedInv, ReleaseFailed, Destroy, DockerDestroy, DirectDestroy, Return, Goto, vars, mapVars, stopVars, dockVars
<1>1. TypeOK'
  BY ProcsAssumption DEF TypeOK
<1>2. OwnerInv'
  BY ProcsAssumption DEF TypeOK, OwnerInv, Owning
<1>3. LiveTracked'
  BY ProcsAssumption DEF TypeOK, OwnerInv, LiveTracked
<1> QED
  BY <1>1, <1>2, <1>3

(* Only a container that is gone leaves the map. *)
LEMMA ReleaseDeleteKeeps ==
    ASSUME SchedInv, NEW p \in Procs, ReleaseDelete(p)
    PROVE  SchedInv'
<1> USE DEF SchedInv, ReleaseDelete, Return, Goto, vars, mapVars, stopVars, dockVars
<1>1. TypeOK'
  BY ProcsAssumption DEF TypeOK
<1>2. OwnerInv'
  BY ProcsAssumption DEF TypeOK, OwnerInv, Owning
<1>3. LiveTracked'
  BY ProcsAssumption DEF TypeOK, OwnerInv, LiveTracked
<1> QED
  BY <1>1, <1>2, <1>3

(* Start, the passing of time and the first steps of Stop touch no handle. *)
LEMMA QuietKeeps ==
    ASSUME SchedInv, Start \/ StopBegin \/ StopSnapshot \/ \E id \in Ids : GrowStale(id)
    PROVE  SchedInv'
<1> USE DEF SchedInv, Start, StopBegin, StopSnapshot, GrowStale, Goto, vars, mapVars, stopVars, dockVars
<1>1. TypeOK'
  BY ProcsAssumption DEF TypeOK
<1>2. OwnerInv'
  BY ProcsAssumption DEF TypeOK, OwnerInv, Owning
<1>3. LiveTracked'
  BY ProcsAssumption DEF TypeOK, OwnerInv, LiveTracked
<1> QED
  BY <1>1, <1>2, <1>3

(* Stop destroys its copy and empties the map; the owners stay apart. *)
LEMMA StopEndsKeeps ==
    ASSUME SchedInv, StopDestroy \/ StopClear
    PROVE  SchedInv'
<1> USE DEF SchedInv, StopDestroy, StopClear, Destroy, DockerDestroy, DirectDestroy, Goto, vars, mapVars, stopVars, dockVars
<1>1. TypeOK'
  BY ProcsAssumption DEF TypeOK
<1>2. OwnerInv'
  BY ProcsAssumption DEF TypeOK, OwnerInv, Owning
<1>3. LiveTracked'
  BY ProcsAssumption DEF TypeOK, OwnerInv, LiveTracked
<1> QED
  BY <1>1, <1>2, <1>3

(* Every step keeps the owners apart and every live container tracked. *)
LEMMA StepKeeps == ASSUME SchedInv, [Next]_vars PROVE SchedInv'
<1>1. CASE \E u \in Users : Run(u) \/ CancelContext(u)
  BY <1>1, CallerMoveKeeps, HandleUseKeeps, CreateOkKeeps, CreateFailedKeeps, AcquiredKeeps, CloseKeeps DEF Run
<1>2. CASE \E c \in Cleaners : IdleCleanupLoop(c)
  BY <1>2, CleanupNextKeeps, LoopMoveKeeps DEF IdleCleanupLoop
<1>3. CASE \E p \in Procs : ReleaseSteps(p)
  BY <1>3, ReleaseDestroyedKeeps, ReleaseFailedKeeps, ReleaseDeleteKeeps DEF ReleaseSteps
<1>4. CASE Start \/ StopBegin \/ StopSnapshot \/ \E id \in Ids : GrowStale(id)
  BY <1>4, QuietKeeps
<1>5. CASE StopDestroy \/ StopClear
  BY <1>5, StopEndsKeeps
<1>6. CASE UNCHANGED vars
  BY <1>6 DEF vars, mapVars, stopVars, dockVars, SchedInv, TypeOK, OwnerInv, Owning, LiveTracked
<1> QED
  BY <1>1, <1>2, <1>3, <1>4, <1>5, <1>6 DEF Next

(* The callers past the check are finitely many. *)
LEMMA AdmittedFinite ==
    /\ IsFiniteSet(Admitted) /\ Cardinality(Admitted) \in Nat
    /\ Cardinality(Users) \in Nat
    /\ Cardinality(Admitted) <= Cardinality(Users)
BY UsersAssumption, FS_Subset, FS_CardinalityType DEF Admitted

(* A step that admits nobody and tracks nothing keeps the bound. *)
LEMMA Shrinking ==
    ASSUME LimitInv, containers' \subseteq containers, Admitted' \subseteq Admitted
    PROVE  LimitInv'
<1>1. /\ IsFiniteSet(containers') /\ Cardinality(containers') <= Cardinality(containers)
      /\ Cardinality(containers') \in Nat /\ Cardinality(containers) \in Nat
  BY FS_Subset, FS_CardinalityType DEF LimitInv
<1>2. /\ Cardinality(Admitted') <= Cardinality(Admitted)
      /\ Cardinality(Admitted') \in Nat /\ Cardinality(Admitted) \in Nat
  BY AdmittedFinite, FS_Subset, FS_CardinalityType
<1> QED
  BY <1>1, <1>2, AdmittedFinite, ConfigAssumption DEF LimitInv, BoundedOvershoot

(* A caller that passes the check finds room in the map, and the others    *)
(* that passed it are fewer than the callers.                              *)
LEMMA AcquireLimit ==
    ASSUME TypeOK, LimitInv, NEW u \in Users, Acquire(u)
    PROVE  LimitInv'
<1>1. containers' = containers /\ Cardinality(containers) < MaxContainers
  BY DEF Acquire, mapVars
<1>2. Cardinality(containers) \in Nat
  BY FS_CardinalityType DEF LimitInv
<1>3. Admitted' \subseteq Users
  BY DEF Admitted
<1>4. Cardinality(Admitted') <= Cardinality(Users) /\ Cardinality(Admitted') \in Nat
  BY <1>3, UsersAssumption, FS_Subset, FS_CardinalityType
<1> QED
  BY <1>1, <1>2, <1>4, AdmittedFinite, ConfigAssumption DEF LimitInv, BoundedOvershoot

(* The caller that stores its handle leaves the admitted ones. *)
LEMMA AcquiredLimit ==
    ASSUME TypeOK, LimitInv, NEW u \in Users, Acquired(u)
    PROVE  LimitInv'
<1>1. containers' = containers \cup {cid[u]}
  BY DEF Acquired, TrackHandle
<1>2. u \in Admitted /\ Admitted' = Admitted \ {u}
  BY DEF Acquired, Admitted, Goto, TypeOK
<1>3. /\ IsFiniteSet(containers') /\ Cardinality(containers) \in Nat
      /\ Cardinality(containers') \in Nat
      /\ Cardinality(containers') <= Cardinality(containers) + 1
  <2>1. /\ IsFiniteSet(containers \cup {cid[u]})
        /\ \/ Cardinality(containers \cup {cid[u]}) = Cardinality(containers)
           \/ Cardinality(containers \cup {cid[u]}) = Cardinality(containers) + 1
    BY FS_AddElement DEF LimitInv
  <2>2. Cardinality(containers) \in Nat
    BY FS_CardinalityType DEF LimitInv
  <2> QED
    BY <1>1, <2>1, <2>2
<1>4. Cardinality(Admitted') = Cardinality(Admitted) - 1
  BY <1>2, AdmittedFinite, FS_RemoveElement
<1>5. Cardinality(Admitted') \in Nat /\ Cardinality(Admitted) \in Nat
  BY <1>2, AdmittedFinite, FS_RemoveElement, FS_CardinalityType
<1> QED
  BY <1>3, <1>4, <1>5, AdmittedFinite, ConfigAssumption DEF LimitInv, BoundedOvershoot

(* Every step keeps the bound on the overshoot. *)
LEMMA StepLimit == ASSUME SchedInv, LimitInv, [Next]_vars PROVE LimitInv'
<1>1. TypeOK
  BY DEF SchedInv
<1>2. CASE \E u \in Users : Acquire(u)
  BY <1>1, <1>2, AcquireLimit
<1>3. CASE \E u \in Users : Acquired(u)
  BY <1>1, <1>3, AcquiredLimit
<1>4. CASE \E u \in Users :
             \/ AcquireRefused(u) \/ CreateOk(u) \/ CreateFailed(u) \/ Exec(u) \/ ExecOk(u)
             \/ ExecFailed(u) \/ UpdateLastUsed(u) \/ Close(u) \/ Abandon(u) \/ CancelContext(u)
  <2>1. containers' \subseteq containers
    BY <1>4 DEF AcquireRefused, CreateOk, CreateFailed, Exec, ExecOk, ExecFailed, UpdateLastUsed, Close,
       Release, MarkClosed, AlreadyReleased, Abandon, CancelContext, vars, mapVars
  <2>2. Admitted' \subseteq Admitted
    BY <1>1, <1>4 DEF TypeOK, Admitted, AcquireRefused, CreateOk, CreateFailed, Exec, ExecOk, ExecFailed,
       UpdateLastUsed, Close, Release, MarkClosed, AlreadyReleased, Abandon, CancelContext, Goto, Return, vars
  <2> QED
    BY <2>1, <2>2, Shrinking
<1>5. CASE \/ \E c \in Cleaners : IdleCleanupLoop(c)
           \/ \E p \in Procs : ReleaseSteps(p)
           \/ \E id \in Ids : GrowStale(id)
           \/ Start \/ StopBegin \/ StopSnapshot \/ StopDestroy \/ StopClear
           \/ UNCHANGED vars
  <2>1. containers' \subseteq containers
    BY <1>5 DEF IdleCleanupLoop, CleanupIdle, CleanupNext, CleanupDone, LoopExit, Release, MarkClosed,
       AlreadyReleased, ReleaseSteps, ReleaseDestroyed, ReleaseFailed, ReleaseDelete, GrowStale,
       Start, StopBegin, StopSnapshot, StopDestroy, StopClear, vars, mapVars
  <2>2. Admitted' \subseteq Admitted
    <3>1. ASSUME NEW c \in Cleaners, IdleCleanupLoop(c) PROVE Admitted' \subseteq Admitted
      BY <1>1, <3>1, ProcsAssumption DEF TypeOK, Admitted, IdleCleanupLoop, CleanupIdle, CleanupNext,
         CleanupDone, LoopExit, Release, MarkClosed, AlreadyReleased, Goto, Return
    <3>2. ASSUME NEW p \in Procs, ReleaseSteps(p) PROVE Admitted' \subseteq Admitted
      BY <1>1, <3>2, ProcsAssumption DEF TypeOK, Admitted, ReleaseSteps, ReleaseDestroyed,
         ReleaseFailed, ReleaseDelete, Goto, Return
    <3>3. ASSUME NEW id \in Ids, GrowStale(id) PROVE Admitted' \subseteq Admitted
      BY <3>3 DEF Admitted, GrowStale
    <3>4. CASE StopBegin \/ StopSnapshot \/ StopDestroy \/ StopClear \/ UNCHANGED vars
      BY <3>4 DEF Admitted, StopBegin, StopSnapshot, StopDestroy, StopClear, vars
    <3>5. CASE Start
      BY <1>1, <3>5, ProcsAssumption DEF TypeOK, Admitted, Start, Goto
    <3> QED
      BY <1>5, <3>1, <3>2, <3>3, <3>4, <3>5
  <2> QED
    BY <2>1, <2>2, Shrinking
<1> QED
  BY <1>2, <1>3, <1>4, <1>5 DEF Next, Run

---------------------------------------------------------------------------
(* The inductive invariant holds in every reachable state. *)
THEOREM SchedulerInvariant == Spec => [](SchedInv /\ LimitInv)
<1>1. Init => SchedInv /\ LimitInv
  BY InitEstablishes
<1>2. SchedInv /\ LimitInv /\ [Next]_vars => (SchedInv /\ LimitInv)'
  BY StepKeeps, StepLimit
<1> QED
  BY <1>1, <1>2, PTL DEF Spec

(* No container is destroyed by two releases at a time, whatever fails and *)
(* whenever Stop runs.                                                     *)
THEOREM ReleasesAreExclusive == Spec => []OneDestroyer
<1>1. SchedInv => OneDestroyer
  BY DEF SchedInv, OwnerInv, Owning, OneDestroyer
<1> QED
  BY <1>1, SchedulerInvariant, PTL

(* Until Stop, no container a Create returned is lost from the map while   *)
(* it exists.                                                              *)
THEOREM LiveContainersAreTracked == Spec => []LiveTracked
<1>1. SchedInv => LiveTracked
  BY DEF SchedInv
<1> QED
  BY <1>1, SchedulerInvariant, PTL

(* The map outgrows MaxContainers by less than the number of callers.      *)
THEOREM OvershootIsBounded == Spec => []BoundedOvershoot
<1>1. LimitInv => BoundedOvershoot
  BY DEF LimitInv
<1> QED
  BY <1>1, SchedulerInvariant, PTL

===========================================================================
