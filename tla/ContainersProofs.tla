-------------------------- MODULE ContainersProofs --------------------------
(***************************************************************************)
(* Proofs about GitContainers and DistributedLock for any number of        *)
(* callers, projects, containers and restarts, and any number of handles,  *)
(* any ttl and interval, with and without the faults of each.              *)
(***************************************************************************)
EXTENDS GitContainers, DistributedLock, TLAPS

-----------------------------------------------------------------------------
(* The lock.                                                                 *)

(* A script of Redis keeps the types, and leases stay the key's own: it      *)
(* touches the key only for the token that the key holds.                    *)
LEMMA ScriptKeeps ==
    ASSUME LockTypeOK, LeaseInv, NEW h \in Handles, NEW t \in Nat,
           ReleaseScript(h) \/ ExtendScript(h, t) \/ UNCHANGED redis \/ (key = Free /\ Grant(h, t))
    PROVE  /\ key' \in Handles \cup {Free} /\ ttl' \in Nat /\ lease' \in [Handles -> Nat]
           /\ LeaseInv'
           /\ \A g \in Handles : key' = g => key = g \/ (key = Free /\ g = h)
<1> USE LockAssumption DEF LockTypeOK, LeaseInv
<1>1. CASE UNCHANGED redis
    BY <1>1 DEF redis
<1>2. CASE ReleaseScript(h) /\ key = h
    BY <1>2 DEF ReleaseScript
<1>3. CASE key \in {h, Free} /\ Grant(h, t)
    BY <1>3 DEF Grant
<1> QED
    BY <1>1, <1>2, <1>3 DEF ReleaseScript, ExtendScript

(* Time passes for the key and for the leases alike. *)
LEMMA TickKeeps == ASSUME LockInv, Tick PROVE LockInv'
<1> USE LockAssumption DEF LockInv, Tick, Less, chans
<1>1. LockTypeOK'
    BY DEF LockTypeOK
<1>2. LeaseInv'
    BY DEF LockTypeOK, LeaseInv
<1>3. ReleasedForGood' /\ StopInv'
    BY DEF ReleasedForGood, StopInv
<1> QED
    BY <1>1, <1>2, <1>3

(* A step that leaves Redis and the handles alone. *)
LEMMA RedisRests ==
    ASSUME LockInv, UNCHANGED <<redis, handle>>
    PROVE  /\ key' \in Handles \cup {Free} /\ ttl' \in Nat /\ lease' \in [Handles -> Nat]
           /\ handle' \in [Handles -> {"new", "held", "failed", "released", "crashed"}]
           /\ LeaseInv' /\ ReleasedForGood'
BY DEF LockInv, LockTypeOK, LeaseInv, ReleasedForGood, redis

(* Each step of the watchdog. *)
LEMMA WatchdogKeeps ==
    ASSUME LockInv, NEW h \in Handles, StartWatchdog(h) \/ RunWatchdog(h)
    PROVE  LockInv'
<1> USE LockAssumption DEF Dog, DogExit, Alive, chans
<1>1. CASE StartWatchdog(h)
  <2>1. LockTypeOK' /\ StopInv'
    BY <1>1, RedisRests DEF StartWatchdog, LockInv, LockTypeOK, StopInv
  <2> QED
    BY <1>1, <2>1, RedisRests DEF StartWatchdog, LockInv
<1>2. CASE DogSelect(h) \/ DogCheck(h)
  <2>1. LockTypeOK'
    BY <1>2, RedisRests DEF DogSelect, DogCheck, LockInv, LockTypeOK
  <2>2. StopInv'
    BY <1>2 DEF DogSelect, DogCheck, LockInv, LockTypeOK, StopInv
  <2> QED
    BY <1>2, <2>1, <2>2, RedisRests DEF DogSelect, DogCheck, LockInv
<1>3. CASE DogExtend(h)
  <2>1. ExtendScript(h, Interval) \/ UNCHANGED redis
    BY <1>3 DEF DogExtend
  <2>2. /\ key' \in Handles \cup {Free} /\ ttl' \in Nat /\ lease' \in [Handles -> Nat]
        /\ LeaseInv'
        /\ \A g \in Handles : key' = g => key = g
    BY <2>1, ScriptKeeps DEF LockInv, ExtendScript, Grant, redis
  <2>3. LockTypeOK'
    BY <1>3, <2>2 DEF DogExtend, LockInv, LockTypeOK
  <2>4. ReleasedForGood'
    BY <1>3, <2>2 DEF DogExtend, LockInv, ReleasedForGood
  <2>5. StopInv'
    BY <1>3 DEF DogExtend, LockInv, LockTypeOK, StopInv
  <2> QED
    BY <2>2, <2>3, <2>4, <2>5 DEF LockInv
<1> QED
    BY <1>1, <1>2, <1>3 DEF RunWatchdog

(* Acquire, and the calls that the owner makes itself. *)
LEMMA OwnerKeeps ==
    ASSUME LockInv, NEW h \in Handles,
           Acquire(h) \/ AcquireFailed(h) \/ OwnerReleases(h) \/ OwnerExtends(h)
    PROVE  LockInv'
<1> USE LockAssumption DEF chans
<1>1. CASE AcquireFailed(h)
    BY <1>1 DEF AcquireFailed, LockInv, LockTypeOK, LeaseInv, ReleasedForGood, StopInv, redis
<1>2. CASE Acquire(h) \/ OwnerReleases(h) \/ OwnerExtends(h)
  <2>1. ReleaseScript(h) \/ ExtendScript(h, TTL) \/ UNCHANGED redis \/ (key = Free /\ Grant(h, TTL))
    BY <1>2 DEF Acquire, OwnerReleases, OwnerExtends
  <2>2. /\ key' \in Handles \cup {Free} /\ ttl' \in Nat /\ lease' \in [Handles -> Nat]
        /\ LeaseInv'
        /\ \A g \in Handles : key' = g => key = g \/ (key = Free /\ g = h)
    BY <2>1, ScriptKeeps DEF LockInv
  <2>3. LockTypeOK'
    BY <1>2, <2>2 DEF Acquire, OwnerReleases, OwnerExtends, LockInv, LockTypeOK
  <2>4. ReleasedForGood'
    BY <1>2, <2>2 DEF Acquire, OwnerReleases, OwnerExtends, LockInv, LockTypeOK, ReleasedForGood,
       ReleaseScript, ExtendScript, redis
  <2>5. StopInv'
    BY <1>2 DEF Acquire, OwnerReleases, OwnerExtends, LockInv, LockTypeOK, StopInv
  <2> QED
    BY <2>2, <2>3, <2>4, <2>5 DEF LockInv
<1> QED
    BY <1>1, <1>2

(* Stop, up to and with its Release. *)
LEMMA StopKeeps ==
    ASSUME LockInv, NEW h \in Handles, Stop(h) \/ StopOnly(h)
    PROVE  LockInv'
<1> USE LockAssumption DEF Alive, chans
<1>1. CASE StopBegin(h) \/ StopClose(h) \/ StopWait(h) \/ StopOnly(h)
  <2>1. UNCHANGED <<redis, handle>>
    BY <1>1 DEF StopBegin, StopClose, StopWait, StopOnly
  <2>2. LockTypeOK'
    BY <1>1, <2>1, RedisRests DEF StopBegin, StopClose, StopWait, StopOnly, LockInv, LockTypeOK, StopInv
  <2>3. StopInv'
    BY <1>1 DEF StopBegin, StopClose, StopWait, StopOnly, LockInv, LockTypeOK, StopInv
  <2> QED
    BY <2>1, <2>2, <2>3, RedisRests DEF LockInv
<1>2. CASE Release(h)
  <2>1. ReleaseScript(h) \/ UNCHANGED redis
    BY <1>2 DEF Release
  <2>2. /\ key' \in Handles \cup {Free} /\ ttl' \in Nat /\ lease' \in [Handles -> Nat]
        /\ LeaseInv'
        /\ \A g \in Handles : key' = g => key = g
    BY <2>1, ScriptKeeps DEF LockInv, ReleaseScript, redis
  <2>3. LockTypeOK'
    BY <1>2, <2>2 DEF Release, LockInv, LockTypeOK
  <2>4. ReleasedForGood'
    BY <1>2, <2>2 DEF Release, LockInv, LockTypeOK, ReleasedForGood, ReleaseScript, redis
  <2>5. StopInv'
    BY <1>2 DEF Release, LockInv, LockTypeOK, StopInv
  <2> QED
    BY <2>2, <2>3, <2>4, <2>5 DEF LockInv
<1> QED
    BY <1>1, <1>2 DEF Stop

(* The lock's invariant, for any number of handles, ttl and interval. *)
THEOREM LockInvariant == LockSpec => []LockInv
<1>1. LockInit => LockInv
    BY LockAssumption DEF LockInit, LockInv, LockTypeOK, LeaseInv, ReleasedForGood, StopInv
<1>2. LockInv /\ [LockNext]_lockVars => LockInv'
  <2> SUFFICES ASSUME LockInv, [LockNext]_lockVars PROVE LockInv'
    OBVIOUS
  <2>1. ASSUME NEW h \in Handles, CancelContext(h) \/ Crash(h) PROVE LockInv'
    BY <2>1 DEF CancelContext, Crash, LockInv, LockTypeOK, LeaseInv, ReleasedForGood, StopInv, redis,
       chans
  <2>2. CASE Expire
    BY <2>2, LockAssumption DEF Expire, LockInv, LockTypeOK, LeaseInv, ReleasedForGood, StopInv, chans
  <2>3. CASE UNCHANGED lockVars
    BY <2>3 DEF lockVars, LockInv, LockTypeOK, LeaseInv, ReleasedForGood, StopInv, redis, chans
  <2> QED
    BY <2>1, <2>2, <2>3, TickKeeps, WatchdogKeeps, OwnerKeeps, StopKeeps DEF LockNext
<1> QED
    BY <1>1, <1>2, PTL DEF LockSpec

(* Redis, the owners and Stop agree on whose lock it is: a lease that runs   *)
(* is honoured, a release is final, and a Stop that returned nil has stopped *)
(* and released (lock.go:129, watchdog.go:132).                              *)
THEOREM LocksAreOwned == LockSpec => []LockOwnership
<1>1. LockInv => LockOwnership
    BY LockAssumption DEF LockInv, LockTypeOK, LeaseInv, ReleasedForGood, StopInv, LockOwnership,
       LeaseHonoured, StopIsFinal
<1> QED
    BY <1>1, LockInvariant, PTL

-----------------------------------------------------------------------------
(* The Git containers.                                                       *)

(* A call of Ensure begins: the caller creates nothing yet. *)
LEMMA ExecuteKeeps == ASSUME GitInv, NEW c \in Callers, Execute(c) PROVE GitInv'
    BY GitAssumption DEF Execute, Goto, dockVars, callVars,
       GitInv, GitTypeOK, OwnInv, NumbersInv, HasOwn, Knows, ReservedInv, CreatorsOf, Live,
       ContainerIds, Creating, Absent, OneContainer, OneCreator, EntryIsCurrent, RemovedIsOwn

(* The loop's critical section: only the caller that finds no entry reserves it. *)
LEMMA LookKeeps == ASSUME GitInv, NEW c \in Callers, Look(c) PROVE GitInv'
<1> USE GitAssumption DEF Look, Goto, dockVars, callVars
<1>1. GitTypeOK'
    BY DEF GitInv, GitTypeOK, OwnInv, ContainerIds, Creating, Absent
<1>2. OwnInv'
  <2>1. CASE entry[project[c]] \in ContainerIds
    <3>1. project[c] \in Projects /\ entry' = entry /\ gc' = [gc EXCEPT ![c] = entry[project[c]]]
          /\ pc' = [pc EXCEPT ![c] = "inspect"]
      BY <2>1 DEF GitInv, OwnInv, ContainerIds, Creating, Absent
    <3>2. \A d \in Callers : HasOwn(d)' => d # c /\ HasOwn(d) /\ gc'[d] = gc[d] /\ gc'[c] # gc[d]
      BY <3>1 DEF GitInv, GitTypeOK, OwnInv, HasOwn, Knows
    <3> QED
      BY <3>1, <3>2 DEF GitInv, GitTypeOK, OwnInv, HasOwn, Knows
  <2>2. CASE entry[project[c]] \notin ContainerIds
    BY <2>2 DEF GitInv, GitTypeOK, OwnInv, HasOwn, Knows, ContainerIds, Creating, Absent
  <2> QED
    BY <2>1, <2>2
<1>3. NumbersInv'
    BY DEF GitInv, GitTypeOK, OwnInv, NumbersInv, HasOwn, Knows, ContainerIds, Creating, Absent
<1>4. ReservedInv'
    BY DEF GitInv, GitTypeOK, OwnInv, NumbersInv, HasOwn, Knows, ReservedInv, CreatorsOf, Live,
       ContainerIds, Creating, Absent, OneContainer, EntryIsCurrent
<1>5. OneCreator'
  <2>1. CASE entry[project[c]] = Absent
    BY <2>1 DEF GitInv, GitTypeOK, OwnInv, ReservedInv, CreatorsOf, OneContainer, OneCreator,
       Creating, Absent
  <2>2. CASE entry[project[c]] # Absent
    BY <2>2 DEF GitInv, GitTypeOK, CreatorsOf, OneContainer, OneCreator
  <2> QED
    BY <2>1, <2>2
<1>6. EntryIsCurrent'
    BY DEF GitInv, GitTypeOK, OwnInv, NumbersInv, HasOwn, Knows, ContainerIds, Creating, Absent,
       OneContainer, EntryIsCurrent
<1>7. RemovedIsOwn'
    BY <1>2 DEF OwnInv, HasOwn, Knows, RemovedIsOwn
<1> QED
    BY <1>1, <1>2, <1>3, <1>4, <1>5, <1>6, <1>7 DEF GitInv, OneContainer

(* A caller that has waited too long goes on without a container. *)
LEMMA LookTimeoutKeeps == ASSUME GitInv, NEW c \in Callers, LookTimeout(c) PROVE GitInv'
    BY GitAssumption DEF LookTimeout, Goto, dockVars, callVars, Standalone,
       GitInv, GitTypeOK, OwnInv, NumbersInv, HasOwn, Knows, ReservedInv, CreatorsOf, Live,
       ContainerIds, Creating, Absent, OneContainer, OneCreator, EntryIsCurrent, RemovedIsOwn

(* docker inspect answers, or fails and counts as no. *)
LEMMA InspectKeeps == ASSUME GitInv, NEW c \in Callers, Inspect(c) PROVE GitInv'
    BY GitAssumption DEF Inspect, Goto, dockVars, callVars, IsRunning, Running,
       GitInv, GitTypeOK, OwnInv, NumbersInv, HasOwn, Knows, ReservedInv, CreatorsOf, Live,
       ContainerIds, Creating, Absent, OneContainer, OneCreator, EntryIsCurrent, RemovedIsOwn

(* A deletion that meets another caller's reservation is recorded. *)
LEMMA DeleteDeadKeeps == ASSUME GitInv, NEW c \in Callers, DeleteDead(c) PROVE GitInv'
    BY GitAssumption DEF DeleteDead, Goto, dockVars, callVars,
       GitInv, GitTypeOK, OwnInv, NumbersInv, HasOwn, Knows, ReservedInv, CreatorsOf, Live,
       ContainerIds, Creating, Absent, OneContainer, OneCreator, EntryIsCurrent, RemovedIsOwn

(* The creator makes the project's directory. *)
LEMMA MkdirVolumeKeeps == ASSUME GitInv, NEW c \in Callers, MkdirVolume(c) PROVE GitInv'
    BY GitAssumption DEF MkdirVolume, Goto, dockVars, callVars,
       GitInv, GitTypeOK, OwnInv, NumbersInv, HasOwn, Knows, ReservedInv, CreatorsOf, Live,
       ContainerIds, Creating, Absent, OneContainer, OneCreator, EntryIsCurrent, RemovedIsOwn

(* docker run gives the creator a container that nobody else knows. *)
LEMMA DockerRunKeeps == ASSUME GitInv, NEW c \in Callers, DockerRun(c) PROVE GitInv'
    BY GitAssumption DEF DockerRun, Goto, dockVars, callVars,
       GitInv, GitTypeOK, OwnInv, NumbersInv, HasOwn, Knows, ReservedInv, CreatorsOf, Live,
       ContainerIds, Creating, Absent, OneContainer, OneCreator, EntryIsCurrent, RemovedIsOwn

(* A failed docker run, the one that leaves a container behind too. *)
LEMMA DockerRunFailsKeeps == ASSUME GitInv, NEW c \in Callers, DockerRunFails(c) PROVE GitInv'
<1> USE GitAssumption DEF DockerRunFails, Goto, dockVars, callVars
<1>1. GitTypeOK'
  <2>1. project[c] \in Projects
    BY DEF GitInv, OwnInv
  <2>2. current' \in [Projects -> 0 .. MaxCreated] /\ up' \in [Projects -> BOOLEAN] /\ created' \in 0 .. MaxCreated
    <3>1. CASE UNCHANGED <<current, up, created>>
      BY <3>1 DEF GitInv, GitTypeOK
    <3>2. CASE created < MaxCreated /\ created' = created + 1
               /\ current' = [current EXCEPT ![project[c]] = created + 1]
               /\ up' = [up EXCEPT ![project[c]] = TRUE]
      BY <2>1, <3>2 DEF GitInv, GitTypeOK
    <3> QED
      BY <3>1, <3>2
  <2> QED
    BY <2>2 DEF GitInv, GitTypeOK
<1>2. OwnInv'
    BY DEF GitInv, GitTypeOK, OwnInv, NumbersInv, HasOwn, Knows, ContainerIds, Creating, Absent,
       OneContainer, EntryIsCurrent
<1>3. NumbersInv'
    BY DEF GitInv, GitTypeOK, OwnInv, NumbersInv, HasOwn, Knows, ContainerIds, Creating, Absent
<1>4. ReservedInv'
    BY DEF GitInv, GitTypeOK, OwnInv, NumbersInv, HasOwn, Knows, ReservedInv, CreatorsOf, Live,
       ContainerIds, Creating, Absent, OneContainer, EntryIsCurrent
<1>5. OneCreator'
    BY DEF GitInv, GitTypeOK, OwnInv, ReservedInv, CreatorsOf, Live, OneContainer, OneCreator
<1>6. EntryIsCurrent'
    BY DEF GitInv, GitTypeOK, OwnInv, NumbersInv, HasOwn, Knows, ContainerIds, Creating, Absent,
       OneContainer, EntryIsCurrent
<1>7. RemovedIsOwn'
    BY <1>2 DEF OwnInv, HasOwn, Knows, RemovedIsOwn
<1> QED
    BY <1>1, <1>2, <1>3, <1>4, <1>5, <1>6, <1>7 DEF GitInv, OneContainer

(* The container answers. *)
LEMMA ApiReadyKeeps == ASSUME GitInv, NEW c \in Callers, ApiReady(c) PROVE GitInv'
    BY GitAssumption DEF ApiReady, Goto, dockVars, callVars, IsRunning, Running,
       GitInv, GitTypeOK, OwnInv, NumbersInv, HasOwn, Knows, ReservedInv, CreatorsOf, Live,
       ContainerIds, Creating, Absent, OneContainer, OneCreator, EntryIsCurrent, RemovedIsOwn

(* The creator removes the container it has not stored: no entry names it. *)
LEMMA ApiTimeoutKeeps == ASSUME GitInv, NEW c \in Callers, ApiTimeout(c) PROVE GitInv'
<1> USE GitAssumption DEF ApiTimeout, Goto, dockVars, callVars, IsRunning, Running, DockerRemove
<1>1. GitTypeOK'
    BY DEF GitInv, GitTypeOK, OwnInv, ContainerIds, Creating, Absent
<1>2. OwnInv'
    BY DEF GitInv, GitTypeOK, OwnInv, NumbersInv, HasOwn, Knows, ContainerIds, Creating, Absent,
       OneContainer, EntryIsCurrent
<1>3. NumbersInv'
    BY DEF GitInv, GitTypeOK, OwnInv, NumbersInv, HasOwn, Knows, ContainerIds, Creating, Absent
<1>4. ReservedInv'
    BY DEF GitInv, GitTypeOK, OwnInv, NumbersInv, HasOwn, Knows, ReservedInv, CreatorsOf, Live,
       ContainerIds, Creating, Absent, OneContainer, EntryIsCurrent
<1>5. OneCreator'
    BY DEF GitInv, GitTypeOK, OwnInv, ReservedInv, CreatorsOf, Live, OneContainer, OneCreator
<1>6. EntryIsCurrent'
  <2>1. gc[c] \in ContainerIds /\ \A k \in Projects : entry[k] # gc[c]
    BY DEF GitInv, OwnInv, HasOwn, Knows
  <2>2. \A k \in Projects : current[k] # gc[c] => current'[k] = current[k]
    BY DEF GitInv, GitTypeOK
  <2> QED
    BY <2>1, <2>2 DEF GitInv, OneContainer, EntryIsCurrent
<1>7. RemovedIsOwn'
    BY <1>2 DEF OwnInv, HasOwn, Knows, RemovedIsOwn
<1> QED
    BY <1>1, <1>2, <1>3, <1>4, <1>5, <1>6, <1>7 DEF GitInv, OneContainer

(* The creator stores its container, which has the project's name. *)
LEMMA StoreContainerKeeps == ASSUME GitInv, NEW c \in Callers, StoreContainer(c) PROVE GitInv'
    BY GitAssumption DEF StoreContainer, Goto, dockVars, callVars,
       GitInv, GitTypeOK, OwnInv, NumbersInv, HasOwn, Knows, ReservedInv, CreatorsOf, Live,
       ContainerIds, Creating, Absent, OneContainer, OneCreator, EntryIsCurrent, RemovedIsOwn

(* A failed creation gives its reservation back and no other. *)
LEMMA DropReservationKeeps == ASSUME GitInv, NEW c \in Callers, DropReservation(c) PROVE GitInv'
    BY GitAssumption DEF DropReservation, Goto, dockVars, callVars, Standalone,
       GitInv, GitTypeOK, OwnInv, NumbersInv, HasOwn, Knows, ReservedInv, CreatorsOf, Live,
       ContainerIds, Creating, Absent, OneContainer, OneCreator, EntryIsCurrent, RemovedIsOwn

(* A call of Execute ends. *)
LEMMA ExecuteReturnsKeeps == ASSUME GitInv, NEW c \in Callers, ExecuteReturns(c) PROVE GitInv'
    BY GitAssumption DEF ExecuteReturns, Goto, dockVars, callVars,
       GitInv, GitTypeOK, OwnInv, NumbersInv, HasOwn, Knows, ReservedInv, CreatorsOf, Live,
       ContainerIds, Creating, Absent, OneContainer, OneCreator, EntryIsCurrent, RemovedIsOwn

(* A container exits by itself. *)
LEMMA ContainerExitsKeeps == ASSUME GitInv, NEW k \in Projects, ContainerExits(k) PROVE GitInv'
    BY GitAssumption DEF ContainerExits, Goto, dockVars, callVars,
       GitInv, GitTypeOK, OwnInv, NumbersInv, HasOwn, Knows, ReservedInv, CreatorsOf, Live,
       ContainerIds, Creating, Absent, OneContainer, OneCreator, EntryIsCurrent, RemovedIsOwn

(* Cleanup takes an entry out of the map. *)
LEMMA CleanupKeeps == ASSUME GitInv, NEW k \in Projects, Cleanup(k) PROVE GitInv'
    BY GitAssumption DEF Cleanup, Goto, dockVars, callVars,
       GitInv, GitTypeOK, OwnInv, NumbersInv, HasOwn, Knows, ReservedInv, CreatorsOf, Live,
       ContainerIds, Creating, Absent, OneContainer, OneCreator, EntryIsCurrent, RemovedIsOwn

(* StopAll removes what the map names, with a panic half way or not. *)
LEMMA StopAllKeeps == ASSUME GitInv, StopAll PROVE GitInv'
<1> USE GitAssumption DEF dockVars, callVars
<1>1. PICK S \in SUBSET {k \in Projects : entry[k] \in ContainerIds} :
        /\ \/ server' = "panicked" \/ (S = {k \in Projects : entry[k] # Absent} /\ UNCHANGED server)
        /\ entry' = [k \in Projects |-> IF k \in S THEN Absent ELSE entry[k]]
        /\ volume' = [k \in Projects |-> volume[k] /\ k \notin S]
        /\ DockerRemove([k \in S |-> entry[k]])
    BY DEF StopAll
<1>2. PICK R \in SUBSET S :
        /\ current' = [k \in Projects |-> IF k \in R /\ current[k] = entry[k] THEN 0 ELSE current[k]]
        /\ up' = [k \in Projects |-> up[k] /\ ~(k \in R /\ current[k] = entry[k])]
    BY <1>1 DEF DockerRemove
<1>3. UNCHANGED <<created, callVars, conflict, stolen, cleaning, restarts>>
    BY DEF StopAll
<1>4. GitTypeOK'
    BY <1>1, <1>2, <1>3 DEF GitInv, GitTypeOK, ContainerIds, Creating, Absent
<1>5. OwnInv'
  <2>1. \A c \in Callers : HasOwn(c) => project[c] \in Projects /\ current'[project[c]] = current[project[c]]
    BY <1>1, <1>2 DEF GitInv, GitTypeOK, OwnInv, HasOwn
  <2>2. \A c \in Callers, k \in Projects : HasOwn(c) => entry'[k] # gc[c]
    <3> SUFFICES ASSUME NEW c \in Callers, NEW k \in Projects, HasOwn(c) PROVE entry'[k] # gc[c]
      OBVIOUS
    <3>1. gc[c] \in ContainerIds /\ entry[k] # gc[c]
      BY DEF GitInv, OwnInv
    <3> QED
      BY <1>1, <3>1 DEF ContainerIds, Absent
  <2> QED
    BY <1>3, <2>1, <2>2 DEF GitInv, OwnInv, HasOwn, Knows
<1>6. NumbersInv'
    BY <1>1, <1>3 DEF GitInv, GitTypeOK, NumbersInv, Knows, ContainerIds, Absent
<1>7. ReservedInv' /\ OneCreator'
    BY <1>1, <1>3 DEF GitInv, GitTypeOK, ReservedInv, CreatorsOf, Live, OneContainer, OneCreator,
       ContainerIds, Creating, Absent
<1>8. EntryIsCurrent'
    BY <1>1, <1>2 DEF GitInv, OneContainer, EntryIsCurrent, ContainerIds, Absent
<1>9. RemovedIsOwn'
    BY <1>5 DEF OwnInv, HasOwn, Knows, RemovedIsOwn
<1> QED
    BY <1>4, <1>5, <1>6, <1>7, <1>8, <1>9 DEF GitInv, OneContainer

(* Cleanup removes a container that the map no longer names. *)
LEMMA CleanupRemovesKeeps == ASSUME GitInv, CleanupRemoves PROVE GitInv'
    BY GitAssumption DEF CleanupRemoves, Goto, dockVars, callVars, DockerRemove,
       GitInv, GitTypeOK, OwnInv, NumbersInv, HasOwn, Knows, ReservedInv, CreatorsOf, Live,
       ContainerIds, Creating, Absent, OneContainer, OneCreator, EntryIsCurrent, RemovedIsOwn

(* A restart forgets the map and the callers, not the containers. *)
LEMMA RestartKeeps == ASSUME GitInv, Restart PROVE GitInv'
    BY GitAssumption DEF Restart, Goto, dockVars, callVars,
       GitInv, GitTypeOK, OwnInv, NumbersInv, HasOwn, Knows, ReservedInv, CreatorsOf, Live,
       ContainerIds, Creating, Absent, OneContainer, OneCreator, EntryIsCurrent, RemovedIsOwn

(* The invariant of the Git containers, for any number of callers, projects  *)
(* and containers.                                                           *)
THEOREM GitInvariant == GitSpec => []GitInv
<1>1. GitInit => GitInv
  <2> SUFFICES ASSUME GitInit PROVE GitInv
    OBVIOUS
  <2>1. GitTypeOK
    <3>1. entry \in [Projects -> {Absent, Creating} \cup ContainerIds]
      BY DEF GitInit
    <3>2. cleaning \subseteq Projects \X ContainerIds
      BY DEF GitInit
    <3>3. up \in [Projects -> BOOLEAN] /\ volume \in [Projects -> BOOLEAN]
          /\ conflict \in BOOLEAN /\ stolen \subseteq Projects
      BY DEF GitInit
    <3>4. pc \in [Callers -> {"idle", "look", "inspect", "dead", "mkdir", "run", "wait",
                           "ready", "failed", "working", "standalone"}]
      BY DEF GitInit
    <3>5. project \in [Callers -> Projects \cup {NoProject}]
      BY DEF GitInit
    <3>6. gc \in [Callers -> 0 .. MaxCreated] /\ current \in [Projects -> 0 .. MaxCreated]
          /\ created \in 0 .. MaxCreated
      BY GitAssumption DEF GitInit
    <3>7. tries \in [Callers -> 0 .. MaxTries] /\ restarts \in 0 .. MaxRestarts
      BY GitAssumption DEF GitInit
    <3>8. server \in {"up", "panicked"}
      BY DEF GitInit
    <3> QED
      BY <3>1, <3>2, <3>3, <3>4, <3>5, <3>6, <3>7, <3>8 DEF GitTypeOK
  <2>2. OwnInv /\ NumbersInv
    BY GitAssumption DEF GitInit, OwnInv, HasOwn, Knows, NumbersInv, ContainerIds, Absent
  <2>3. ReservedInv /\ OneContainer
    BY DEF GitInit, ReservedInv, CreatorsOf, OneContainer, OneCreator, EntryIsCurrent, RemovedIsOwn, ContainerIds, Absent
  <2> QED
    BY <2>1, <2>2, <2>3 DEF GitInv
<1>2. GitInv /\ [GitNext]_gitVars => GitInv'
  <2> SUFFICES ASSUME GitInv, [GitNext]_gitVars PROVE GitInv'
    OBVIOUS
  <2>1. ASSUME NEW c \in Callers, Execute(c) \/ Ensure(c) \/ ExecuteReturns(c) PROVE GitInv'
    BY <2>1, ExecuteKeeps, LookKeeps, LookTimeoutKeeps, InspectKeeps, DeleteDeadKeeps,
       MkdirVolumeKeeps, DockerRunKeeps, DockerRunFailsKeeps, ApiReadyKeeps, ApiTimeoutKeeps,
       StoreContainerKeeps, DropReservationKeeps, ExecuteReturnsKeeps DEF Ensure
  <2>2. ASSUME NEW k \in Projects, ContainerExits(k) \/ Cleanup(k) PROVE GitInv'
    BY <2>2, ContainerExitsKeeps, CleanupKeeps
  <2>3. CASE UNCHANGED gitVars
    BY <2>3 DEF gitVars, dockVars, callVars, GitInv, GitTypeOK, OwnInv, NumbersInv, HasOwn, Knows, ReservedInv,
       CreatorsOf, Live, OneContainer, OneCreator, EntryIsCurrent, RemovedIsOwn
  <2> QED
    BY <2>1, <2>2, <2>3, StopAllKeeps, CleanupRemovesKeeps, RestartKeeps DEF GitNext
<1> QED
    BY <1>1, <1>2, PTL DEF GitSpec

(* One caller creates a project's container as long as no caller deletes a   *)
(* reservation that it took for a dead container; an entry always names the  *)
(* container that has the project's name; and a creation that fails removes  *)
(* no container that another caller has, through failing docker commands,    *)
(* dead containers, Cleanup, StopAll and restarts (manager.go:87, 99, 169).  *)
THEOREM ContainersAreUnique == GitSpec => []OneContainer
<1>1. GitInv => OneContainer
    BY DEF GitInv
<1> QED
    BY <1>1, GitInvariant, PTL
=============================================================================
