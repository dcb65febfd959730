------------------------ MODULE WorkerManagerProofs ------------------------
(***************************************************************************)
(* Proofs about WorkerManager for any number of callers and workers: who   *)
(* has a worker in hand, and how many sandboxes there are; and about the   *)
(* other two pools, of git workers and of the scheduler's sandboxes.       *)
(***************************************************************************)
EXTENDS WorkerManager, WorkerPool, GitWorkerPool, FiniteSetTheorems, TLAPS

(* Every step keeps the types, a caller's worker and the status it looked at. *)
LEMMA TypeStep == TypeOK /\ HandInv /\ [Next]_vars => (TypeOK /\ HandInv)'
<1> SUFFICES ASSUME TypeOK, HandInv, [Next]_vars PROVE (TypeOK /\ HandInv)'
    OBVIOUS
<1> USE DEF TypeOK, HandInv, workers, Using, Goto, Set, NoReader, poolVars, reapVars, healthVars, lifeVars, boxVars
<1>1. ASSUME NEW c \in Callers, FastLook(c) PROVE (TypeOK /\ HandInv)'
    BY <1>1 DEF FastLook
<1>2. ASSUME NEW c \in Callers, FastTake(c) PROVE (TypeOK /\ HandInv)'
    BY <1>2 DEF FastTake
<1>3. ASSUME NEW c \in Callers, FastMiss(c) PROVE (TypeOK /\ HandInv)'
    BY <1>3 DEF FastMiss
<1>4. ASSUME NEW c \in Callers, SlowTake(c) PROVE (TypeOK /\ HandInv)'
    BY <1>4 DEF SlowTake
<1>5. ASSUME NEW c \in Callers, CreateWorker(c) PROVE (TypeOK /\ HandInv)'
    BY <1>5 DEF CreateWorker, Fresh
<1>6. ASSUME NEW c \in Callers, AcquireFailed(c) PROVE (TypeOK /\ HandInv)'
    BY <1>6 DEF AcquireFailed, Fresh
<1>7. ASSUME NEW c \in Callers, ExecOnWorker(c) PROVE (TypeOK /\ HandInv)'
    BY <1>7 DEF ExecOnWorker
<1>8. ASSUME NEW c \in Callers, CommandReturns(c) PROVE (TypeOK /\ HandInv)'
    BY <1>8 DEF CommandReturns
<1>9. ASSUME NEW c \in Callers, ReleaseWorker(c) PROVE (TypeOK /\ HandInv)'
    BY <1>9 DEF ReleaseWorker
<1>10. ASSUME NEW c \in Callers, DestroyWorker(c) PROVE (TypeOK /\ HandInv)'
    BY <1>10 DEF DestroyWorker, DestroyOk, DestroyFail, Registered
<1>11. ASSUME NEW id \in Ids, GrowStale(id) PROVE (TypeOK /\ HandInv)'
    BY <1>11 DEF GrowStale
<1>12. ASSUME NEW id \in Ids, SandboxExits(id) PROVE (TypeOK /\ HandInv)'
    BY <1>12 DEF SandboxExits
<1>13. ASSUME NEW id \in Ids, Reap(id) PROVE (TypeOK /\ HandInv)'
    BY <1>13 DEF Reap, DestroyOk, DestroyFail, Registered
<1>14. ASSUME NEW id \in Ids, DeleteEntry(id) PROVE (TypeOK /\ HandInv)'
    BY <1>14 DEF DeleteEntry
<1>15. ASSUME NEW id \in Ids, StopDestroy(id) PROVE (TypeOK /\ HandInv)'
    BY <1>15 DEF StopDestroy, DestroyOk, DestroyFail, Registered
<1>16. CASE CleanupIdleWorkers
    BY <1>16 DEF CleanupIdleWorkers
<1>17. CASE CheckWorkerHealth
    BY <1>17 DEF CheckWorkerHealth
<1>18. CASE CheckAndReplaceWorker
    BY <1>18 DEF CheckAndReplaceWorker
<1>19. CASE MarkWorkerUnhealthy
    BY <1>19 DEF MarkWorkerUnhealthy
<1>20. CASE Start
    BY <1>20 DEF Start
<1>21. CASE StopBegin
    BY <1>21 DEF StopBegin
<1>22. CASE StopSnapshot
    BY <1>22 DEF StopSnapshot
<1>23. CASE StopClear
    BY <1>23 DEF StopClear
<1>24. CASE UNCHANGED vars
    BY <1>24 DEF vars
<1> QED
    BY <1>1, <1>2, <1>3, <1>4, <1>5, <1>6, <1>7, <1>8, <1>9, <1>10, <1>11, <1>12, <1>13, <1>14,
       <1>15, <1>16, <1>17, <1>18, <1>19, <1>20, <1>21, <1>22, <1>23, <1>24
    DEF Next, Execute, AcquireWorker

(* Every step leaves stopping workers to a goroutine, and only them. *)
LEMMA ReapStep == TypeOK /\ HandInv /\ ReapInv /\ IdleIsFree /\ StoppingIsReaped /\ [Next]_vars => (ReapInv /\ StoppingIsReaped)'
<1> SUFFICES ASSUME TypeOK, HandInv, ReapInv, IdleIsFree, StoppingIsReaped, [Next]_vars PROVE (ReapInv /\ StoppingIsReaped)'
    OBVIOUS
<1> USE DEF TypeOK, HandInv, ReapInv, IdleIsFree, StoppingIsReaped, Using, Goto, Set, NoReader, poolVars, reapVars, healthVars, lifeVars, boxVars
<1>1. ASSUME NEW c \in Callers, FastLook(c) PROVE (ReapInv /\ StoppingIsReaped)'
    BY <1>1 DEF FastLook
<1>2. ASSUME NEW c \in Callers, FastTake(c) PROVE (ReapInv /\ StoppingIsReaped)'
    BY <1>2 DEF FastTake
<1>3. ASSUME NEW c \in Callers, FastMiss(c) PROVE (ReapInv /\ StoppingIsReaped)'
    BY <1>3 DEF FastMiss
<1>4. ASSUME NEW c \in Callers, SlowTake(c) PROVE (ReapInv /\ StoppingIsReaped)'
    BY <1>4 DEF SlowTake
<1>5. ASSUME NEW c \in Callers, CreateWorker(c) PROVE (ReapInv /\ StoppingIsReaped)'
    BY <1>5 DEF CreateWorker, Fresh
<1>6. ASSUME NEW c \in Callers, AcquireFailed(c) PROVE (ReapInv /\ StoppingIsReaped)'
    BY <1>6 DEF AcquireFailed, Fresh
<1>7. ASSUME NEW c \in Callers, ExecOnWorker(c) PROVE (ReapInv /\ StoppingIsReaped)'
    BY <1>7 DEF ExecOnWorker
<1>8. ASSUME NEW c \in Callers, CommandReturns(c) PROVE (ReapInv /\ StoppingIsReaped)'
    BY <1>8 DEF CommandReturns
<1>9. ASSUME NEW c \in Callers, ReleaseWorker(c) PROVE (ReapInv /\ StoppingIsReaped)'
    BY <1>9 DEF ReleaseWorker
<1>10. ASSUME NEW c \in Callers, DestroyWorker(c) PROVE (ReapInv /\ StoppingIsReaped)'
    BY <1>10 DEF DestroyWorker, DestroyOk, DestroyFail, Registered
<1>11. ASSUME NEW id \in Ids, GrowStale(id) PROVE (ReapInv /\ StoppingIsReaped)'
    BY <1>11 DEF GrowStale
<1>12. ASSUME NEW id \in Ids, SandboxExits(id) PROVE (ReapInv /\ StoppingIsReaped)'
    BY <1>12 DEF SandboxExits
<1>13. ASSUME NEW id \in Ids, Reap(id) PROVE (ReapInv /\ StoppingIsReaped)'
    BY <1>13 DEF Reap, DestroyOk, DestroyFail, Registered
<1>14. ASSUME NEW id \in Ids, DeleteEntry(id) PROVE (ReapInv /\ StoppingIsReaped)'
    BY <1>14 DEF DeleteEntry
<1>15. ASSUME NEW id \in Ids, StopDestroy(id) PROVE (ReapInv /\ StoppingIsReaped)'
    BY <1>15 DEF StopDestroy, DestroyOk, DestroyFail, Registered
<1>16. CASE CleanupIdleWorkers
    BY <1>16 DEF CleanupIdleWorkers
<1>17. CASE CheckWorkerHealth
    BY <1>17 DEF CheckWorkerHealth
<1>18. CASE CheckAndReplaceWorker
    BY <1>18 DEF CheckAndReplaceWorker
<1>19. CASE MarkWorkerUnhealthy
    BY <1>19 DEF MarkWorkerUnhealthy
<1>20. CASE Start
    BY <1>20 DEF Start
<1>21. CASE StopBegin
    BY <1>21 DEF StopBegin
<1>22. CASE StopSnapshot
    BY <1>22 DEF StopSnapshot
<1>23. CASE StopClear
    BY <1>23 DEF StopClear
<1>24. CASE UNCHANGED vars
    BY <1>24 DEF vars
<1> QED
    BY <1>1, <1>2, <1>3, <1>4, <1>5, <1>6, <1>7, <1>8, <1>9, <1>10, <1>11, <1>12, <1>13, <1>14,
       <1>15, <1>16, <1>17, <1>18, <1>19, <1>20, <1>21, <1>22, <1>23, <1>24
    DEF Next, Execute, AcquireWorker

(* Every step leaves an untainted worker to one user and one goroutine. *)
LEMMA UseStep == TypeOK /\ HandInv /\ ReapInv /\ ExclusiveUse /\ IdleIsFree /\ StoppingIsReaped /\ [Next]_vars => (ExclusiveUse /\ IdleIsFree)'
<1> SUFFICES ASSUME TypeOK, HandInv, ReapInv, ExclusiveUse, IdleIsFree, StoppingIsReaped, [Next]_vars PROVE (ExclusiveUse /\ IdleIsFree)'
    OBVIOUS
<1> USE DEF TypeOK, HandInv, ReapInv, IdleIsFree, ExclusiveUse, Using, Goto, Set, NoReader, poolVars, reapVars, healthVars, lifeVars, boxVars
<1>1. ASSUME NEW c \in Callers, FastLook(c) PROVE (ExclusiveUse /\ IdleIsFree)'
    BY <1>1 DEF FastLook
<1>2. ASSUME NEW c \in Callers, FastTake(c) PROVE (ExclusiveUse /\ IdleIsFree)'
    BY <1>2 DEF FastTake
<1>3. ASSUME NEW c \in Callers, FastMiss(c) PROVE (ExclusiveUse /\ IdleIsFree)'
    BY <1>3 DEF FastMiss
<1>4. ASSUME NEW c \in Callers, SlowTake(c) PROVE (ExclusiveUse /\ IdleIsFree)'
    BY <1>4 DEF SlowTake
<1>5. ASSUME NEW c \in Callers, CreateWorker(c) PROVE (ExclusiveUse /\ IdleIsFree)'
    BY <1>5 DEF CreateWorker, Fresh
<1>6. ASSUME NEW c \in Callers, AcquireFailed(c) PROVE (ExclusiveUse /\ IdleIsFree)'
    BY <1>6 DEF AcquireFailed, Fresh
<1>7. ASSUME NEW c \in Callers, ExecOnWorker(c) PROVE (ExclusiveUse /\ IdleIsFree)'
    BY <1>7 DEF ExecOnWorker
<1>8. ASSUME NEW c \in Callers, CommandReturns(c) PROVE (ExclusiveUse /\ IdleIsFree)'
    BY <1>8 DEF CommandReturns
<1>9. ASSUME NEW c \in Callers, ReleaseWorker(c) PROVE (ExclusiveUse /\ IdleIsFree)'
    BY <1>9 DEF ReleaseWorker
<1>10. ASSUME NEW c \in Callers, DestroyWorker(c) PROVE (ExclusiveUse /\ IdleIsFree)'
  <2> DEFINE id == wid[c]
  <2>0. id \in Ids /\ pc' = [pc EXCEPT ![c] = "idle"] /\ wid' = [wid EXCEPT ![c] = None]
        /\ UNCHANGED <<reapers, deleters>>
    BY <1>10 DEF DestroyWorker
  <2>1. ExclusiveUse'
    <3>1. tainted \subseteq tainted'
      BY <1>10 DEF DestroyWorker
    <3> QED
      BY <2>0, <3>1
  <2>2. ASSUME NEW i \in Ids \ tainted', i # id PROVE worker'[i] = worker[i] /\ i \notin tainted
    BY <2>2, <1>10 DEF DestroyWorker
  <2>3. id \notin tainted' =>
          worker'[id] = "none" \/ (reapers[id] + deleters[id] = 0 /\ \A d \in Callers \ {c} : wid[d] # id)
    <3> DEFINE others == reapers[id] + deleters[id] > 0 \/ \E d \in Callers \ {c} : wid[d] = id
    <3>1. worker'[id] = "none" \/ tainted' = IF others THEN tainted \cup {id} ELSE tainted
      BY <2>0, <1>10 DEF DestroyWorker
    <3>2. reapers[id] + deleters[id] \in Nat
      BY <2>0
    <3> QED
      BY <3>1, <3>2
  <2>4. tainted \subseteq tainted'
    BY <1>10 DEF DestroyWorker
  <2>5. ASSUME NEW i \in Ids \ tainted' PROVE
          /\ reapers'[i] + deleters'[i] <= 1
          /\ worker'[i] = "idle" =>
                reapers'[i] + deleters'[i] = 0 /\ \A d \in Callers : pc'[d] \in Using => wid'[d] # i
    <3>1. CASE i = id
      BY <2>0, <2>3, <2>4, <2>5, <3>1
    <3>2. CASE i # id
      BY <2>0, <2>2, <2>5, <3>2
    <3> QED
      BY <3>1, <3>2
  <2> QED
    BY <2>1, <2>5
<1>11. ASSUME NEW id \in Ids, GrowStale(id) PROVE (ExclusiveUse /\ IdleIsFree)'
    BY <1>11 DEF GrowStale
<1>12. ASSUME NEW id \in Ids, SandboxExits(id) PROVE (ExclusiveUse /\ IdleIsFree)'
    BY <1>12 DEF SandboxExits
<1>13. ASSUME NEW id \in Ids, Reap(id) PROVE (ExclusiveUse /\ IdleIsFree)'
    BY <1>13 DEF Reap, DestroyOk, DestroyFail, Registered
<1>14. ASSUME NEW id \in Ids, DeleteEntry(id) PROVE (ExclusiveUse /\ IdleIsFree)'
    BY <1>14 DEF DeleteEntry
<1>15. ASSUME NEW id \in Ids, StopDestroy(id) PROVE (ExclusiveUse /\ IdleIsFree)'
    BY <1>15 DEF StopDestroy, DestroyOk, DestroyFail, Registered
<1>16. CASE CleanupIdleWorkers
    BY <1>16 DEF CleanupIdleWorkers
<1>17. CASE CheckWorkerHealth
    BY <1>17 DEF CheckWorkerHealth
<1>18. CASE CheckAndReplaceWorker
    BY <1>18 DEF CheckAndReplaceWorker
<1>19. CASE MarkWorkerUnhealthy
    BY <1>19 DEF MarkWorkerUnhealthy
<1>20. CASE Start
    BY <1>20 DEF Start
<1>21. CASE StopBegin
    BY <1>21 DEF StopBegin
<1>22. CASE StopSnapshot
    BY <1>22 DEF StopSnapshot
<1>23. CASE StopClear
    BY <1>23 DEF StopClear
<1>24. CASE UNCHANGED vars
    BY <1>24 DEF vars
<1> QED
    BY <1>1, <1>2, <1>3, <1>4, <1>5, <1>6, <1>7, <1>8, <1>9, <1>10, <1>11, <1>12, <1>13, <1>14,
       <1>15, <1>16, <1>17, <1>18, <1>19, <1>20, <1>21, <1>22, <1>23, <1>24
    DEF Next, Execute, AcquireWorker

(* What a step can add to the map. *)
Growth ==
    workers' \subseteq workers \/ (HasRoom /\ \E id \in Ids : workers' \subseteq workers \cup {id})

(* Only CreateWorker adds an entry, one, and only while there is room. *)
LEMMA GrowthStep == TypeOK /\ HandInv /\ [Next]_vars => Growth
<1> SUFFICES ASSUME TypeOK, HandInv, [Next]_vars PROVE Growth
    OBVIOUS
<1> USE DEF Growth, TypeOK, HandInv, workers, Using, Goto, Set, NoReader, poolVars, reapVars, healthVars, lifeVars, boxVars
<1>1. ASSUME NEW c \in Callers, FastLook(c) PROVE Growth
    BY <1>1 DEF FastLook
<1>2. ASSUME NEW c \in Callers, FastTake(c) PROVE Growth
    BY <1>2 DEF FastTake
<1>3. ASSUME NEW c \in Callers, FastMiss(c) PROVE Growth
    BY <1>3 DEF FastMiss
<1>4. ASSUME NEW c \in Callers, SlowTake(c) PROVE Growth
    BY <1>4 DEF SlowTake
<1>5. ASSUME NEW c \in Callers, CreateWorker(c) PROVE Growth
    BY <1>5 DEF CreateWorker, Fresh
<1>6. ASSUME NEW c \in Callers, AcquireFailed(c) PROVE Growth
    BY <1>6 DEF AcquireFailed, Fresh
<1>7. ASSUME NEW c \in Callers, ExecOnWorker(c) PROVE Growth
    BY <1>7 DEF ExecOnWorker
<1>8. ASSUME NEW c \in Callers, CommandReturns(c) PROVE Growth
    BY <1>8 DEF CommandReturns
<1>9. ASSUME NEW c \in Callers, ReleaseWorker(c) PROVE Growth
    BY <1>9 DEF ReleaseWorker
<1>10. ASSUME NEW c \in Callers, DestroyWorker(c) PROVE Growth
    BY <1>10 DEF DestroyWorker, DestroyOk, DestroyFail, Registered
<1>11. ASSUME NEW id \in Ids, GrowStale(id) PROVE Growth
    BY <1>11 DEF GrowStale
<1>12. ASSUME NEW id \in Ids, SandboxExits(id) PROVE Growth
    BY <1>12 DEF SandboxExits
<1>13. ASSUME NEW id \in Ids, Reap(id) PROVE Growth
    BY <1>13 DEF Reap, DestroyOk, DestroyFail, Registered
<1>14. ASSUME NEW id \in Ids, DeleteEntry(id) PROVE Growth
    BY <1>14 DEF DeleteEntry
<1>15. ASSUME NEW id \in Ids, StopDestroy(id) PROVE Growth
    BY <1>15 DEF StopDestroy, DestroyOk, DestroyFail, Registered
<1>16. CASE CleanupIdleWorkers
    BY <1>16 DEF CleanupIdleWorkers
<1>17. CASE CheckWorkerHealth
    BY <1>17 DEF CheckWorkerHealth
<1>18. CASE CheckAndReplaceWorker
    BY <1>18 DEF CheckAndReplaceWorker
<1>19. CASE MarkWorkerUnhealthy
    BY <1>19 DEF MarkWorkerUnhealthy
<1>20. CASE Start
    BY <1>20 DEF Start
<1>21. CASE StopBegin
    BY <1>21 DEF StopBegin
<1>22. CASE StopSnapshot
    BY <1>22 DEF StopSnapshot
<1>23. CASE StopClear
    BY <1>23 DEF StopClear
<1>24. CASE UNCHANGED vars
    BY <1>24 DEF vars
<1> QED
    BY <1>1, <1>2, <1>3, <1>4, <1>5, <1>6, <1>7, <1>8, <1>9, <1>10, <1>11, <1>12, <1>13, <1>14,
       <1>15, <1>16, <1>17, <1>18, <1>19, <1>20, <1>21, <1>22, <1>23, <1>24
    DEF Next, Execute, AcquireWorker

(* Until Stop, every step keeps the sandboxes that exist in the map or among the leaked. *)
LEMMA TrackStep == TypeOK /\ HandInv /\ TrackInv /\ [Next]_vars => TrackInv'
<1> SUFFICES ASSUME TypeOK, HandInv, TrackInv, [Next]_vars PROVE TrackInv'
    OBVIOUS
<1> USE DEF TypeOK, HandInv, TrackInv, Alive, workers, Using, Goto, Set, NoReader, poolVars, reapVars, healthVars, lifeVars, boxVars
<1>1. ASSUME NEW c \in Callers, FastLook(c) PROVE TrackInv'
    BY <1>1 DEF FastLook
<1>2. ASSUME NEW c \in Callers, FastTake(c) PROVE TrackInv'
    BY <1>2 DEF FastTake
<1>3. ASSUME NEW c \in Callers, FastMiss(c) PROVE TrackInv'
    BY <1>3 DEF FastMiss
<1>4. ASSUME NEW c \in Callers, SlowTake(c) PROVE TrackInv'
    BY <1>4 DEF SlowTake
<1>5. ASSUME NEW c \in Callers, CreateWorker(c) PROVE TrackInv'
    BY <1>5 DEF CreateWorker, Fresh
<1>6. ASSUME NEW c \in Callers, AcquireFailed(c) PROVE TrackInv'
    BY <1>6 DEF AcquireFailed, Fresh
<1>7. ASSUME NEW c \in Callers, ExecOnWorker(c) PROVE TrackInv'
    BY <1>7 DEF ExecOnWorker
<1>8. ASSUME NEW c \in Callers, CommandReturns(c) PROVE TrackInv'
    BY <1>8 DEF CommandReturns
<1>9. ASSUME NEW c \in Callers, ReleaseWorker(c) PROVE TrackInv'
    BY <1>9 DEF ReleaseWorker
<1>10. ASSUME NEW c \in Callers, DestroyWorker(c) PROVE TrackInv'
    BY <1>10 DEF DestroyWorker, DestroyOk, DestroyFail, Registered
<1>11. ASSUME NEW id \in Ids, GrowStale(id) PROVE TrackInv'
    BY <1>11 DEF GrowStale
<1>12. ASSUME NEW id \in Ids, SandboxExits(id) PROVE TrackInv'
    BY <1>12 DEF SandboxExits
<1>13. ASSUME NEW id \in Ids, Reap(id) PROVE TrackInv'
    BY <1>13 DEF Reap, DestroyOk, DestroyFail, Registered
<1>14. ASSUME NEW id \in Ids, DeleteEntry(id) PROVE TrackInv'
    BY <1>14 DEF DeleteEntry
<1>15. ASSUME NEW id \in Ids, StopDestroy(id) PROVE TrackInv'
    BY <1>15 DEF StopDestroy, DestroyOk, DestroyFail, Registered
<1>16. CASE CleanupIdleWorkers
    BY <1>16 DEF CleanupIdleWorkers
<1>17. CASE CheckWorkerHealth
    BY <1>17 DEF CheckWorkerHealth
<1>18. CASE CheckAndReplaceWorker
    BY <1>18 DEF CheckAndReplaceWorker
<1>19. CASE MarkWorkerUnhealthy
    BY <1>19 DEF MarkWorkerUnhealthy
<1>20. CASE Start
    BY <1>20 DEF Start
<1>21. CASE StopBegin
    BY <1>21 DEF StopBegin
<1>22. CASE StopSnapshot
    BY <1>22 DEF StopSnapshot
<1>23. CASE StopClear
    BY <1>23 DEF StopClear
<1>24. CASE UNCHANGED vars
    BY <1>24 DEF vars
<1> QED
    BY <1>1, <1>2, <1>3, <1>4, <1>5, <1>6, <1>7, <1>8, <1>9, <1>10, <1>11, <1>12, <1>13, <1>14,
       <1>15, <1>16, <1>17, <1>18, <1>19, <1>20, <1>21, <1>22, <1>23, <1>24
    DEF Next, Execute, AcquireWorker

(* The limit: the room is looked at and used in one section of the write lock. *)
LEMMA LimitStep == TypeOK /\ HandInv /\ LimitInv /\ [Next]_vars => LimitInv'
<1> SUFFICES ASSUME TypeOK, HandInv, LimitInv, [Next]_vars PROVE LimitInv'
    OBVIOUS
<1>1. IsFiniteSet(workers) /\ MaxWorkers \in Nat /\ Cardinality(workers) \in Nat
    BY ManagerAssumption, FS_Subset, FS_CardinalityType DEF workers
<1>2. CASE workers' \subseteq workers
    BY <1>1, <1>2, FS_Subset, FS_CardinalityType DEF LimitInv
<1>3. CASE HasRoom /\ \E id \in Ids : workers' \subseteq workers \cup {id}
  <2>1. PICK id \in Ids : workers' \subseteq workers \cup {id}
    BY <1>3
  <2>2. IsFiniteSet(workers \cup {id}) /\ Cardinality(workers \cup {id}) <= Cardinality(workers) + 1
    BY <1>1, FS_AddElement
  <2>3. Cardinality(workers') <= Cardinality(workers \cup {id})
    BY <2>1, <2>2, FS_Subset
  <2>4. IsFiniteSet(workers') /\ Cardinality(workers') \in Nat /\ Cardinality(workers \cup {id}) \in Nat
    BY <2>1, <2>2, FS_Subset, FS_CardinalityType
  <2> QED
    BY <1>1, <1>3, <2>2, <2>3, <2>4 DEF HasRoom, LimitInv
<1> QED
    BY <1>2, <1>3, GrowthStep DEF Growth

(* The invariant of the manager, for any number of callers and workers. *)
THEOREM ManagerInvariant == Spec => []ManagerInv
<1>1. Init => ManagerInv
  <2> SUFFICES ASSUME Init PROVE ManagerInv
    OBVIOUS
  <2>1. workers = {}
    BY DEF Init, workers
  <2>2. TypeOK
    BY <2>1 DEF Init, TypeOK, Using
  <2>3. HandInv /\ ReapInv /\ ExclusiveUse /\ IdleIsFree
    BY DEF Init, HandInv, ReapInv, ExclusiveUse, IdleIsFree, Using
  <2>4. StoppingIsReaped /\ TrackInv
    BY DEF Init, StoppingIsReaped, TrackInv, Alive
  <2>5. LimitInv
    BY <2>1, FS_EmptySet, ManagerAssumption DEF LimitInv
  <2> QED
    BY <2>2, <2>3, <2>4, <2>5 DEF ManagerInv
<1>2. ManagerInv /\ [Next]_vars => ManagerInv'
    BY TypeStep, ReapStep, UseStep, LimitStep, TrackStep DEF ManagerInv
<1> QED
    BY <1>1, <1>2, PTL DEF Spec

(* A worker has one user at a time, unless one of the two named races shared it. *)
THEOREM WorkersAreExclusive == Spec => []ExclusiveUse
BY ManagerInvariant, PTL DEF ManagerInv

(* A worker that can be handed out is in nobody's hands, and no worker is    *)
(* destroyed by two goroutines, with the same exception.                     *)
THEOREM IdleWorkersAreFree == Spec => []IdleIsFree
BY ManagerInvariant, PTL DEF ManagerInv

(* Both together: who has a worker (workermanager.go:204, 295, 626).         *)
THEOREM WorkersAreOwned == Spec => []WorkerOwnership
<1>1. ManagerInv => WorkerOwnership
  BY DEF ManagerInv, WorkerOwnership
<1> QED
  BY <1>1, ManagerInvariant, PTL

(* A stopping worker always has a goroutine that will delete its entry. *)
THEOREM StoppingWorkersAreReaped == Spec => []StoppingIsReaped
BY ManagerInvariant, PTL DEF ManagerInv

(* Until Stop, the sandboxes that no failed call left behind are those of    *)
(* the map and no more than MaxWorkers.                                      *)
THEOREM SandboxesAreLimited == Spec => []SandboxLimit
<1>1. ManagerInv => SandboxLimit
  <2> SUFFICES ASSUME ManagerInv, stop = "none" PROVE
        Alive \subseteq workers \cup leaked /\ Cardinality(Alive \ leaked) <= MaxWorkers
    BY DEF SandboxLimit
  <2>1. Alive \subseteq workers \cup leaked
    BY DEF ManagerInv, TrackInv
  <2>2. IsFiniteSet(workers) /\ Cardinality(workers) \in Nat /\ MaxWorkers \in Nat
    BY ManagerAssumption, FS_Subset, FS_CardinalityType DEF workers
  <2>3. Alive \ leaked \subseteq workers
    BY <2>1
  <2>4. Cardinality(Alive \ leaked) <= Cardinality(workers) /\ Cardinality(Alive \ leaked) \in Nat
    BY <2>2, <2>3, FS_Subset, FS_CardinalityType
  <2> QED
    BY <2>1, <2>2, <2>4 DEF ManagerInv, LimitInv
<1> QED
    BY <1>1, ManagerInvariant, PTL

-----------------------------------------------------------------------------
(* The pool of git workers.                                                  *)

(* Start opens the pool. *)
LEMMA GitPoolStartKeeps == ASSUME GitPoolInv, GitPoolStart PROVE GitPoolInv'
    BY DEF GitPoolStart, GitPoolInv, GitPoolFunctions, IdsInv, HoldingInv, KeptInv

(* A preheated worker is in the map and nobody's, unless it was made         *)
(* preheated while held.                                                     *)
LEMMA AcquirePreheatedKeeps ==
  ASSUME GitPoolInv, NEW c \in GitCallers, NEW w \in AllWorkers, AcquirePreheated(c, w)
  PROVE  GitPoolInv'
    BY GitPoolAssumption DEF AcquirePreheated, AllWorkers, Pooled, startVars,
       GitPoolInv, GitPoolFunctions, IdsInv, HoldingInv, KeptInv

(* A new worker, nobody's or the caller's: under an id in use it marks both, *)
(* and the map keeps the other promises.                                     *)
LEMMA CreateKeeps ==
  ASSUME GitPoolInv, NEW st \in {"preheated", "active"}, CreateWorkerLocked(st),
         UNCHANGED <<poolState, redone>>, warming' \in AllWorkers \cup {0},
         \/ holding' = holding
         \/ /\ st = "active" /\ poolState = "started"
            /\ \E c \in GitCallers : holding' = [holding EXCEPT ![c] = @ \cup {nextWorker}]
  PROVE  GitPoolInv'
<1> USE GitPoolAssumption
<1>1. NewId \in Nat
    BY FS_CardinalityType DEF GitPoolInv, IdsInv, NewId
<1>2. nextWorker \in AllWorkers /\ \A d \in GitCallers : nextWorker \notin holding[d]
    BY DEF CreateWorkerLocked, AllWorkers, GitPoolInv, GitPoolFunctions, HoldingInv
<1>3. /\ DOMAIN gitWorkers' = DOMAIN gitWorkers \cup {NewId} /\ gitWorkers'[NewId] = nextWorker
      /\ \A i \in DOMAIN gitWorkers \ {NewId} : gitWorkers'[i] = gitWorkers[i]
    BY DEF CreateWorkerLocked, Put
<1>4. /\ workerId' = [workerId EXCEPT ![nextWorker] = NewId]
      /\ wstate' = [wstate EXCEPT ![nextWorker] = st]
      /\ nextWorker' = nextWorker + 1
    BY DEF CreateWorkerLocked
<1>5. /\ shadowed \subseteq shadowed'
      /\ \A d \in GitCallers : \A w \in holding[d] :
            workerId[w] = NewId => w \in shadowed' /\ nextWorker \in shadowed'
    BY DEF CreateWorkerLocked, Held
<1>6. GitPoolFunctions'
    BY <1>1, <1>2, <1>4 DEF GitPoolInv, GitPoolFunctions
<1>7. \A d \in GitCallers :
        /\ holding'[d] \subseteq holding[d] \cup {nextWorker}
        /\ nextWorker \in holding'[d] => /\ st = "active" /\ poolState = "started"
                                        /\ \A e \in GitCallers \ {d} : nextWorker \notin holding'[e]
    BY <1>2 DEF GitPoolInv, GitPoolFunctions
<1>8. IdsInv'
  <2>1. DOMAIN gitWorkers' \subseteq Nat /\ IsFiniteSet(DOMAIN gitWorkers')
    BY <1>1, <1>3, FS_AddElement DEF GitPoolInv, IdsInv
  <2> SUFFICES ASSUME NEW i \in (DOMAIN gitWorkers)'
               PROVE  /\ gitWorkers'[i] \in AllWorkers /\ gitWorkers'[i] < nextWorker'
                      /\ workerId'[gitWorkers'[i]] = i
                      /\ \A d \in GitCallers : \A w \in holding'[d] :
                            workerId'[w] = i /\ w # gitWorkers'[i]
                               => w \in shadowed' /\ gitWorkers'[i] \in shadowed'
    BY <2>1 DEF IdsInv, AllWorkers
  <2>2. CASE i = NewId
    BY <2>2, <1>1, <1>2, <1>3, <1>4, <1>5, <1>7 DEF GitPoolInv, GitPoolFunctions, AllWorkers
  <2>3. CASE i # NewId
    BY <2>3, <1>1, <1>2, <1>3, <1>4, <1>5, <1>7 DEF GitPoolInv, GitPoolFunctions, IdsInv, AllWorkers
  <2> QED
    BY <2>2, <2>3
<1>9. HoldingInv'
  <2>1. ASSUME NEW d \in GitCallers, poolState' = "new" PROVE holding'[d] = {}
    BY <2>1, <1>7 DEF GitPoolInv, HoldingInv
  <2>2. ASSUME NEW d \in GitCallers, NEW w \in holding'[d] PROVE w < nextWorker'
    BY <2>2, <1>2, <1>4, <1>7 DEF GitPoolInv, GitPoolFunctions, HoldingInv, AllWorkers
  <2> QED
    BY <2>1, <2>2 DEF HoldingInv
<1>10. KeptInv'
  <2> SUFFICES ASSUME poolState' # "closed", NEW d \in GitCallers,
                      NEW w \in holding'[d] \ (redone \cup shadowed)'
               PROVE  /\ workerId'[w] \in DOMAIN gitWorkers' /\ gitWorkers'[workerId'[w]] = w
                      /\ wstate'[w] \in {"active", "created"}
                      /\ \A e \in GitCallers \ {d} : w \notin holding'[e]
    BY DEF KeptInv
  <2>1. CASE w = nextWorker
    BY <2>1, <1>2, <1>3, <1>4, <1>7 DEF GitPoolInv, GitPoolFunctions
  <2>2. CASE w # nextWorker
    <3>1. w \in holding[d] \ (redone \cup shadowed) /\ w \in AllWorkers /\ workerId[w] # NewId
      BY <2>2, <1>5, <1>7 DEF GitPoolInv, GitPoolFunctions
    <3>2. /\ workerId[w] \in DOMAIN gitWorkers /\ gitWorkers[workerId[w]] = w
          /\ wstate[w] \in {"active", "created"} /\ \A e \in GitCallers \ {d} : w \notin holding[e]
      BY <3>1 DEF GitPoolInv, KeptInv
    <3>3. workerId'[w] = workerId[w] /\ wstate'[w] = wstate[w]
      BY <2>2, <3>1, <1>2, <1>4 DEF GitPoolInv, GitPoolFunctions
    <3> QED
      BY <2>2, <3>1, <3>2, <3>3, <1>3, <1>7
  <2> QED
    BY <2>1, <2>2
<1> QED
    BY <1>6, <1>8, <1>9, <1>10 DEF GitPoolInv

(* The worker of an Acquire, and one of Start. *)
LEMMA AcquireNewKeeps == ASSUME GitPoolInv, NEW c \in GitCallers, AcquireNew(c) PROVE GitPoolInv'
    BY CreateKeeps DEF AcquireNew, startVars, GitPoolInv, GitPoolFunctions

LEMMA StartCreatesKeeps == ASSUME GitPoolInv, StartCreates PROVE GitPoolInv'
<1>1. nextWorker \in AllWorkers
    BY GitPoolAssumption DEF StartCreates, CreateWorkerLocked, AllWorkers, GitPoolInv, GitPoolFunctions
<1> QED
    BY <1>1, CreateKeeps DEF StartCreates

(* A worker that Start makes preheated while it is held is marked. *)
LEMMA PreheatWorkerKeeps == ASSUME GitPoolInv, PreheatWorker PROVE GitPoolInv'
<1> USE DEF PreheatWorker, Held
<1>1. GitPoolFunctions'
    BY DEF GitPoolInv, GitPoolFunctions
<1>2. IdsInv' /\ HoldingInv'
    BY DEF GitPoolInv, IdsInv, HoldingInv
<1>3. KeptInv'
    BY DEF GitPoolInv, GitPoolFunctions, KeptInv
<1> QED
    BY <1>1, <1>2, <1>3 DEF GitPoolInv

(* Removing a worker by its id removes no other that is held and unmarked. *)
LEMMA ReleaseKeeps ==
  ASSUME GitPoolInv, NEW c \in GitCallers, NEW w \in AllWorkers, Release(c, w)
  PROVE  GitPoolInv'
<1> USE GitPoolAssumption DEF Release, PoolWithout, startVars
<1>1. GitPoolFunctions'
    BY DEF GitPoolInv, GitPoolFunctions, AllWorkers
<1>2. IdsInv'
    BY FS_Subset DEF GitPoolInv, GitPoolFunctions, IdsInv
<1>3. HoldingInv'
    BY DEF GitPoolInv, GitPoolFunctions, HoldingInv
<1>4. KeptInv'
    BY DEF GitPoolInv, GitPoolFunctions, IdsInv, KeptInv
<1> QED
    BY <1>1, <1>2, <1>3, <1>4 DEF GitPoolInv

(* A reset leaves the worker where it is. *)
LEMMA ResetKeeps ==
  ASSUME GitPoolInv, NEW c \in GitCallers, NEW w \in AllWorkers, Reset(c, w)
  PROVE  GitPoolInv'
    BY GitPoolAssumption DEF Reset, AllWorkers, Pooled, startVars,
       GitPoolInv, GitPoolFunctions, IdsInv, HoldingInv, KeptInv

(* A worker cloned by its holder is marked. *)
LEMMA CloneKeeps ==
  ASSUME GitPoolInv, NEW c \in GitCallers, NEW w \in AllWorkers, Clone(c, w)
  PROVE  GitPoolInv'
    BY GitPoolAssumption DEF Clone, AllWorkers, Pooled, startVars,
       GitPoolInv, GitPoolFunctions, IdsInv, HoldingInv, KeptInv

(* Only idle workers are recycled, and a held one is not idle. *)
LEMMA RecycleIdleKeeps ==
  ASSUME GitPoolInv, NEW ws \in SUBSET AllWorkers, RecycleIdle(ws)
  PROVE  GitPoolInv'
<1> USE GitPoolAssumption DEF RecycleIdle, PoolWithout
<1>1. GitPoolFunctions' /\ HoldingInv'
    BY DEF GitPoolInv, GitPoolFunctions, HoldingInv, startVars
<1>2. IdsInv'
    BY FS_Subset DEF GitPoolInv, GitPoolFunctions, IdsInv
<1>3. KeptInv'
    BY DEF GitPoolInv, GitPoolFunctions, IdsInv, KeptInv, Pooled
<1> QED
    BY <1>1, <1>2, <1>3 DEF GitPoolInv

(* Stop recycles everything. *)
LEMMA GitPoolStopKeeps == ASSUME GitPoolInv, GitPoolStop PROVE GitPoolInv'
    BY GitPoolAssumption, FS_EmptySet DEF GitPoolStop, AllWorkers, Pooled, startVars,
       GitPoolInv, GitPoolFunctions, IdsInv, HoldingInv, KeptInv

(* The invariant of the git worker pool, for any number of callers and any   *)
(* sizes of the pool.                                                        *)
THEOREM GitPoolInvariant == GitPoolSpec => []GitPoolInv
<1>1. GitPoolInit => GitPoolInv
    BY FS_EmptySet DEF GitPoolInit, GitPoolInv, GitPoolFunctions, IdsInv, HoldingInv, KeptInv
<1>2. GitPoolInv /\ [GitPoolNext]_gitPoolVars => GitPoolInv'
  <2> SUFFICES ASSUME GitPoolInv, [GitPoolNext]_gitPoolVars PROVE GitPoolInv'
    OBVIOUS
  <2>1. ASSUME NEW c \in GitCallers, NEW w \in AllWorkers,
               AcquirePreheated(c, w) \/ Release(c, w) \/ Reset(c, w) \/ Clone(c, w)
        PROVE  GitPoolInv'
    BY <2>1, AcquirePreheatedKeeps, ReleaseKeeps, ResetKeeps, CloneKeeps
  <2>2. CASE StartEnds \/ HealthCheckEnds \/ GitPoolClose \/ UNCHANGED gitPoolVars
    BY <2>2 DEF StartEnds, HealthCheckEnds, GitPoolClose, gitPoolVars, startVars,
       GitPoolInv, GitPoolFunctions, IdsInv, HoldingInv, KeptInv
  <2> QED
    BY <2>1, <2>2, GitPoolStartKeeps, StartCreatesKeeps, PreheatWorkerKeeps, GitPoolStopKeeps,
       RecycleIdleKeeps, AcquireNewKeeps DEF GitPoolNext
<1> QED
    BY <1>1, <1>2, PTL DEF GitPoolSpec

(* Until the pool is stopped, neither the health check, nor a Release by id, *)
(* nor an Acquire, nor a worker that Start creates late takes a held worker  *)
(* away, if neither its holder's Clone nor Start made it preheated again     *)
(* while it was held and its id was not given out twice (pool.go of the git  *)
(* client).                                                                  *)
THEOREM HeldWorkersAreKept == GitPoolSpec => []HeldIsKept
<1>1. GitPoolInv => HeldIsKept
    BY DEF GitPoolInv, KeptInv, HeldIsKept, Pooled
<1> QED
    BY <1>1, GitPoolInvariant, PTL

-----------------------------------------------------------------------------
(* The self-scaling pool.                                                    *)

(* Where SubmitTask may be. *)
SubmitPoints == {"none", "found", "slow", "acquired", "executing", "failed"}

(* A submitter goes on, with worker i, and no other does. *)
LEMMA AtMoves ==
  ASSUME WorkerPoolFunctions, NEW s \in Submitters, NEW p \in SubmitPoints,
         NEW i \in Sandboxes \cup {NoSandbox}, At(s, p, i)
  PROVE  /\ submit' \in [Submitters -> [at : SubmitPoints, w : Sandboxes \cup {NoSandbox}]]
         /\ submit'[s].at = p /\ submit'[s].w = i
         /\ \A t \in Submitters \ {s} : submit'[t] = submit[t]
    BY DEF At, WorkerPoolFunctions, SubmitPoints

(* Destroy removes the container, finds nothing, or notes it as stuck. *)
LEMMA DestroyRemoves ==
  ASSUME WorkerPoolInv, NEW i \in Sandboxes, Destroy(i)
  PROVE  /\ tracked' \in [Sandboxes -> {"no", "running", "stopping"}]
         /\ alive' \subseteq alive /\ alive \ {i} \subseteq alive' /\ stuck \ {i} \subseteq stuck'
         /\ i \in alive' => i \in stuck'
         /\ TrackedInv'
<1> USE DEF WorkerPoolInv, WorkerPoolFunctions, CreatedInv, TrackedInv
<1>1. CASE tracked[i] = "no" /\ UNCHANGED sandboxVars
    BY <1>1 DEF sandboxVars
<1>2. CASE /\ tracked' = [tracked EXCEPT ![i] = "no"]
           /\ alive' = alive \ {i} /\ stuck' = stuck \ {i}
    BY <1>2
<1>3. CASE /\ stuck' = stuck \cup {i} /\ UNCHANGED alive
           /\ tracked' = [tracked EXCEPT ![i] = "stopping"]
    BY <1>3
<1> QED
    BY <1>1, <1>2, <1>3 DEF Destroy

(* createWorker: the next sandbox, which nobody has named before. *)
LEMMA CreateAdds ==
  ASSUME WorkerPoolInv, NEW st \in {"idle", "busy"}, PoolCreateWorker(st)
  PROVE  /\ nextSandbox \in Sandboxes /\ nextSandbox \notin members \cup alive \cup destroying
         /\ nextSandbox' = nextSandbox + 1 /\ nextSandbox' \in 1 .. MaxSandboxes + 1
         /\ tracked' \in [Sandboxes -> {"no", "running", "stopping"}]
         /\ poolStatus' \in [Sandboxes -> {"starting", "idle", "busy", "stopping"}]
         /\ poolStatus' = [poolStatus EXCEPT ![nextSandbox] = st]
         /\ members' = members \cup {nextSandbox} /\ alive' = alive \cup {nextSandbox}
         /\ stuck' = stuck
         /\ TrackedInv'
    BY WorkerPoolAssumption DEF PoolCreateWorker, WorkerPoolInv, WorkerPoolFunctions, CreatedInv,
       TrackedInv, Sandboxes

(* A creation that fails leaves at most an entry in the sandbox's map. *)
LEMMA CreateFailsAdds ==
  ASSUME WorkerPoolInv, CreateFails
  PROVE  /\ nextSandbox' \in 1 .. MaxSandboxes + 1 /\ nextSandbox <= nextSandbox'
         /\ tracked' \in [Sandboxes -> {"no", "running", "stopping"}]
         /\ alive' = alive /\ stuck' = stuck
         /\ TrackedInv'
    BY WorkerPoolAssumption DEF CreateFails, WorkerPoolInv, WorkerPoolFunctions, CreatedInv,
       TrackedInv, Sandboxes

(* Start makes the first workers, each a sandbox that nobody has named; of   *)
(* one that could not be made at most an entry in the sandbox's map is left. *)
LEMMA PrewarmKeeps == ASSUME WorkerPoolInv, Prewarm PROVE WorkerPoolInv'
<1>0. PICK n \in 0 .. MinWorkers : \E made \in SUBSET (nextSandbox .. nextSandbox + n - 1) :
        /\ nextSandbox + n - 1 <= MaxSandboxes /\ nextSandbox' = nextSandbox + n
        /\ members' = members \cup made /\ alive' = alive \cup made
        /\ poolStatus' = [i \in Sandboxes |-> IF i \in made THEN "idle" ELSE poolStatus[i]]
        /\ tracked' = [i \in Sandboxes |->
                          IF i \in nextSandbox .. nextSandbox + n - 1 THEN "running" ELSE tracked[i]]
    BY Zenon DEF Prewarm
<1> DEFINE new == nextSandbox .. nextSandbox + n - 1
<1>1. PICK made \in SUBSET new :
        /\ nextSandbox + n - 1 <= MaxSandboxes /\ nextSandbox' = nextSandbox + n
        /\ members' = members \cup made /\ alive' = alive \cup made
        /\ poolStatus' = [i \in Sandboxes |-> IF i \in made THEN "idle" ELSE poolStatus[i]]
        /\ tracked' = [i \in Sandboxes |-> IF i \in new THEN "running" ELSE tracked[i]]
    BY <1>0, Zenon
<1>2. /\ WriteLock /\ stage = "starting" /\ stage' = "running"
      /\ UNCHANGED <<submit, destroying, replacing, scaling, stuck, shared, condemned, late>>
    BY DEF Prewarm
<1>3. n \in Nat /\ nextSandbox \in Nat \ {0} /\ MaxSandboxes \in Nat
    BY WorkerPoolAssumption DEF WorkerPoolInv, WorkerPoolFunctions
<1>4. \A i \in new : i \in Sandboxes /\ i < nextSandbox' /\ i \notin members \cup alive \cup destroying
    BY <1>1, <1>3 DEF Sandboxes, WorkerPoolInv, CreatedInv
<1>5. \A t \in Submitters : submit[t].w \notin new
    BY <1>1, <1>3 DEF WorkerPoolInv, WorkerPoolFunctions, CreatedInv
<1> HIDE DEF new
<1>6. WorkerPoolFunctions'
    BY <1>1, <1>2, <1>3 DEF WorkerPoolInv, WorkerPoolFunctions
<1>7. CreatedInv' /\ StageInv' /\ CondemnedInv'
    BY <1>1, <1>2, <1>3, <1>4 DEF WorkerPoolInv, WorkerPoolFunctions, CreatedInv, StageInv, CondemnedInv,
       Sandboxes, NoSandbox
<1>8. TakenInv'
    BY <1>1, <1>2, <1>5 DEF WriteLock, WorkerPoolInv, WorkerPoolFunctions, TakenInv, HasTaskIn
<1>9. TrackedInv' /\ SandboxesAccounted'
    BY <1>1, <1>2, <1>4 DEF WorkerPoolInv, CreatedInv, TrackedInv, PoolAccounting, SandboxesAccounted
<1>10. TaskKeepsSandbox'
    BY <1>1, <1>2, <1>4, <1>5 DEF WorkerPoolInv, HasTaskIn, PoolAccounting, TaskKeepsSandbox
<1> QED
    BY <1>6, <1>7, <1>8, <1>9, <1>10 DEF WorkerPoolInv, PoolAccounting

(* The look under the read lock takes nothing. *)
LEMMA AcquireFastKeeps == ASSUME WorkerPoolInv, NEW s \in Submitters, AcquireFast(s) PROVE WorkerPoolInv'
<1>1. UNCHANGED <<members, poolStatus, sandboxVars, destroying, replacing, scaling, nextSandbox, stage, shared, condemned, late>>
    BY DEF AcquireFast
<1>2. PICK p \in {"found", "slow"}, i \in Sandboxes \cup {NoSandbox} :
        At(s, p, i) /\ (p = "found" => i \in members /\ i \in Sandboxes /\ poolStatus[i] = "idle")
                  /\ (p = "slow" => i = NoSandbox)
    BY DEF AcquireFast, Available, WorkerPoolInv, CreatedInv
<1>3. /\ submit' \in [Submitters -> [at : SubmitPoints, w : Sandboxes \cup {NoSandbox}]]
      /\ submit'[s].at = p /\ submit'[s].w = i
      /\ \A t \in Submitters \ {s} : submit'[t] = submit[t]
    BY <1>2, AtMoves DEF WorkerPoolInv, SubmitPoints
<1>4. i < nextSandbox
    BY <1>2 DEF WorkerPoolInv, CreatedInv, WorkerPoolFunctions, NoSandbox
<1>5. WorkerPoolFunctions'
    BY <1>1, <1>2, <1>3, <1>4 DEF sandboxVars, WorkerPoolInv, WorkerPoolFunctions, SubmitPoints
<1>6. CreatedInv' /\ StageInv'
    BY <1>1, <1>2, <1>3, <1>4 DEF sandboxVars, WorkerPoolInv, WorkerPoolFunctions, CreatedInv,
       StageInv, TakenInv, NoSandbox, Sandboxes
<1>7. TakenInv'
    BY <1>1, <1>2, <1>3, <1>4 DEF sandboxVars, WorkerPoolInv, WorkerPoolFunctions, CreatedInv,
       StageInv, TakenInv, HasTaskIn
<1>8. TrackedInv' /\ SandboxesAccounted'
    BY <1>1, <1>2, <1>3, <1>4 DEF sandboxVars, WorkerPoolInv, WorkerPoolFunctions, CreatedInv,
       TrackedInv, PoolAccounting, SandboxesAccounted
<1>9. TaskKeepsSandbox'
    BY <1>1, <1>2, <1>3, <1>4 DEF sandboxVars, WorkerPoolInv, WorkerPoolFunctions, CreatedInv,
       StageInv, TakenInv, HasTaskIn, PoolAccounting, TaskKeepsSandbox
<1>95. CondemnedInv'
    BY <1>1, <1>2, <1>3, <1>4 DEF sandboxVars, WorkerPoolInv, WorkerPoolFunctions, TakenInv, CondemnedInv
<1> QED
    BY <1>5, <1>6, <1>7, <1>8, <1>9, <1>95 DEF WorkerPoolInv, PoolAccounting

(* The take: whoever comes second finds the worker busy, and it is marked. *)
LEMMA TakeFoundKeeps == ASSUME WorkerPoolInv, NEW s \in Submitters, TakeFound(s) PROVE WorkerPoolInv'
<1> DEFINE i == submit[s].w
<1>1. /\ submit[s].at = "found" /\ i \in Sandboxes
      /\ poolStatus' = [poolStatus EXCEPT ![i] = "busy"]
      /\ shared' = IF poolStatus[i] = "busy" THEN shared \cup {i} ELSE shared
      /\ UNCHANGED <<members, sandboxVars, destroying, replacing, scaling, nextSandbox, stage, condemned, late>>
    BY DEF TakeFound, WorkerPoolInv, TakenInv
<1>2. /\ submit'[s].at = "acquired" /\ submit'[s].w = i
      /\ submit' \in [Submitters -> [at : SubmitPoints, w : Sandboxes \cup {NoSandbox}]]
      /\ \A t \in Submitters \ {s} : submit'[t] = submit[t]
    BY <1>1, AtMoves DEF TakeFound, WorkerPoolInv, SubmitPoints
<1>3. WorkerPoolFunctions'
    BY <1>1, <1>2 DEF sandboxVars, WorkerPoolInv, WorkerPoolFunctions, SubmitPoints
<1>4. CreatedInv' /\ StageInv'
    BY <1>1, <1>2 DEF sandboxVars, WorkerPoolInv, WorkerPoolFunctions, CreatedInv, StageInv,
       TakenInv, NoSandbox, Sandboxes
<1>5. TakenInv'
    BY <1>1, <1>2 DEF sandboxVars, WorkerPoolInv, WorkerPoolFunctions, CreatedInv, StageInv,
       TakenInv, HasTaskIn
<1>6. TrackedInv' /\ SandboxesAccounted'
    BY <1>1, <1>2 DEF sandboxVars, WorkerPoolInv, WorkerPoolFunctions, CreatedInv, TrackedInv,
       PoolAccounting, SandboxesAccounted
<1>7. TaskKeepsSandbox'
    BY <1>1, <1>2 DEF sandboxVars, WorkerPoolInv, WorkerPoolFunctions, CreatedInv, StageInv,
       TakenInv, HasTaskIn, PoolAccounting, TaskKeepsSandbox
<1>75. CondemnedInv'
    BY <1>1, <1>2 DEF sandboxVars, WorkerPoolInv, WorkerPoolFunctions, TakenInv, CondemnedInv
<1> QED
    BY <1>3, <1>4, <1>5, <1>6, <1>7, <1>75 DEF WorkerPoolInv, PoolAccounting

(* A task begins in a worker that nobody stops. *)
LEMMA ExecuteBeginsKeeps ==
  ASSUME WorkerPoolInv, NEW s \in Submitters, ExecuteBegins(s)
  PROVE  WorkerPoolInv'
<1> DEFINE i == submit[s].w
<1>1. /\ submit[s].at = "acquired" /\ i \in Sandboxes
      /\ UNCHANGED <<members, sandboxVars, destroying, replacing, scaling, nextSandbox, stage, shared, late>>
    BY DEF ExecuteBegins, WorkerPoolInv, TakenInv
<1>2. /\ submit'[s].at \in {"executing", "failed"} /\ submit'[s].w = i
      /\ submit' \in [Submitters -> [at : SubmitPoints, w : Sandboxes \cup {NoSandbox}]]
      /\ \A t \in Submitters \ {s} : submit'[t] = submit[t]
    BY <1>1, AtMoves DEF ExecuteBegins, WorkerPoolInv, SubmitPoints
<1>3. \/ submit'[s].at = "failed" /\ condemned' = condemned \cup {i} /\ UNCHANGED poolStatus
      \/ /\ submit'[s].at = "executing" /\ UNCHANGED condemned
         /\ poolStatus[i] # "stopping" /\ poolStatus' = [poolStatus EXCEPT ![i] = "busy"]
    BY <1>1, AtMoves DEF ExecuteBegins, WorkerPoolInv, SubmitPoints
<1>4. WorkerPoolFunctions'
    BY <1>1, <1>2, <1>3 DEF sandboxVars, WorkerPoolInv, WorkerPoolFunctions, SubmitPoints
<1>5. CreatedInv' /\ StageInv'
    BY <1>1, <1>2, <1>3 DEF sandboxVars, WorkerPoolInv, WorkerPoolFunctions, CreatedInv, StageInv,
       TakenInv, NoSandbox, Sandboxes
<1>6. TakenInv'
    BY <1>1, <1>2, <1>3 DEF sandboxVars, WorkerPoolInv, WorkerPoolFunctions, CreatedInv, StageInv,
       TakenInv, HasTaskIn
<1>7. TrackedInv' /\ SandboxesAccounted'
    BY <1>1, <1>2, <1>3 DEF sandboxVars, WorkerPoolInv, WorkerPoolFunctions, CreatedInv,
       TrackedInv, PoolAccounting, SandboxesAccounted
<1>8. TaskKeepsSandbox'
    BY <1>1, <1>2, <1>3 DEF sandboxVars, WorkerPoolInv, WorkerPoolFunctions, CreatedInv, StageInv,
       TakenInv, HasTaskIn, PoolAccounting, TaskKeepsSandbox
<1>85. CondemnedInv'
    BY <1>1, <1>2, <1>3 DEF sandboxVars, WorkerPoolInv, WorkerPoolFunctions, TakenInv, CondemnedInv
<1> QED
    BY <1>4, <1>5, <1>6, <1>7, <1>8, <1>85 DEF WorkerPoolInv, PoolAccounting

(* The worker is idle again: no unmarked worker has a second task. *)
LEMMA ExecuteEndsKeeps == ASSUME WorkerPoolInv, NEW s \in Submitters, ExecuteEnds(s) PROVE WorkerPoolInv'
<1> DEFINE i == submit[s].w
<1>1. /\ submit[s].at = "executing" /\ i \in Sandboxes
      /\ poolStatus' = [poolStatus EXCEPT ![i] = "idle"]
      /\ UNCHANGED <<members, sandboxVars, destroying, replacing, scaling, nextSandbox, stage, shared, late>>
      /\ condemned \subseteq condemned'
    BY DEF ExecuteEnds, WorkerPoolInv, TakenInv
<1>2. /\ submit'[s].at \in {"none", "failed"} /\ submit'[s].w \in {i, NoSandbox}
      /\ submit'[s].at = "failed" => submit'[s].w = i /\ i \in condemned'
      /\ submit' \in [Submitters -> [at : SubmitPoints, w : Sandboxes \cup {NoSandbox}]]
      /\ \A t \in Submitters \ {s} : submit'[t] = submit[t]
    BY <1>1, AtMoves DEF ExecuteEnds, WorkerPoolInv, SubmitPoints
<1>3. WorkerPoolFunctions'
    BY <1>1, <1>2 DEF sandboxVars, WorkerPoolInv, WorkerPoolFunctions, SubmitPoints
<1>4. CreatedInv' /\ StageInv'
  <2>1. CreatedInv'
    BY <1>1, <1>2, WorkerPoolAssumption DEF sandboxVars, WorkerPoolInv, WorkerPoolFunctions, CreatedInv,
       NoSandbox, Sandboxes
  <2>2. StageInv'
    BY <1>1 DEF sandboxVars, WorkerPoolInv, StageInv
  <2> QED
    BY <2>1, <2>2
<1>5. TakenInv'
    BY <1>1, <1>2 DEF sandboxVars, WorkerPoolInv, WorkerPoolFunctions, CreatedInv, StageInv,
       TakenInv, HasTaskIn
<1>6. TrackedInv' /\ SandboxesAccounted'
    BY <1>1, <1>2 DEF sandboxVars, WorkerPoolInv, WorkerPoolFunctions, CreatedInv, TrackedInv,
       PoolAccounting, SandboxesAccounted
<1>7. TaskKeepsSandbox'
    BY <1>1, <1>2 DEF sandboxVars, WorkerPoolInv, WorkerPoolFunctions, CreatedInv, StageInv,
       TakenInv, HasTaskIn, PoolAccounting, TaskKeepsSandbox
<1>75. CondemnedInv'
    BY <1>1, <1>2 DEF sandboxVars, WorkerPoolInv, WorkerPoolFunctions, TakenInv, CondemnedInv
<1> QED
    BY <1>3, <1>4, <1>5, <1>6, <1>7, <1>75 DEF WorkerPoolInv, PoolAccounting

(* A worker joins the pool idle. *)
LEMMA JoinKeeps ==
  ASSUME WorkerPoolInv, PoolCreateWorker("idle"), UNCHANGED <<submit, destroying, stage, shared>>,
         condemned \subseteq condemned', replacing' \subseteq condemned'
  PROVE  WorkerPoolInv'
<1>1. /\ nextSandbox \in Sandboxes /\ nextSandbox \notin members \cup alive \cup destroying
      /\ nextSandbox' = nextSandbox + 1 /\ nextSandbox' \in 1 .. MaxSandboxes + 1
      /\ tracked' \in [Sandboxes -> {"no", "running", "stopping"}] /\ TrackedInv'
      /\ poolStatus' = [poolStatus EXCEPT ![nextSandbox] = "idle"]
      /\ members' = members \cup {nextSandbox} /\ alive' = alive \cup {nextSandbox} /\ stuck' = stuck
      /\ late' = IF stage = "stopped" THEN late \cup {nextSandbox} ELSE late
    BY CreateAdds DEF PoolCreateWorker
<1>2. WorkerPoolFunctions'
    BY <1>1 DEF WorkerPoolInv, WorkerPoolFunctions, SubmitPoints
<1>3. CreatedInv' /\ StageInv'
    BY <1>1 DEF WorkerPoolInv, WorkerPoolFunctions, CreatedInv, StageInv, TakenInv, NoSandbox, Sandboxes
<1>4. TakenInv'
    BY <1>1 DEF WorkerPoolInv, WorkerPoolFunctions, CreatedInv, StageInv, TakenInv, HasTaskIn
<1>5. TrackedInv' /\ SandboxesAccounted'
    BY <1>1 DEF WorkerPoolInv, WorkerPoolFunctions, CreatedInv, TrackedInv, PoolAccounting,
       SandboxesAccounted
<1>6. TaskKeepsSandbox'
    BY <1>1 DEF WorkerPoolInv, WorkerPoolFunctions, CreatedInv, StageInv, TakenInv, HasTaskIn,
       PoolAccounting, TaskKeepsSandbox
<1>65. CondemnedInv'
    BY <1>1 DEF WorkerPoolInv, WorkerPoolFunctions, TakenInv, CondemnedInv
<1> QED
    BY <1>2, <1>3, <1>4, <1>5, <1>6, <1>65 DEF WorkerPoolInv, PoolAccounting

(* A worker that joins does so for the task that asked. *)
LEMMA AcquireSlowNewKeeps == ASSUME WorkerPoolInv, NEW s \in Submitters, WriteLock, PoolCreateWorker("busy"),
  At(s, "acquired", nextSandbox), UNCHANGED <<destroying, replacing, stage, shared, condemned>> PROVE WorkerPoolInv'
<1>1. /\ nextSandbox \in Sandboxes /\ nextSandbox \notin members \cup alive \cup destroying
      /\ nextSandbox' = nextSandbox + 1 /\ nextSandbox' \in 1 .. MaxSandboxes + 1
      /\ tracked' \in [Sandboxes -> {"no", "running", "stopping"}] /\ TrackedInv'
      /\ poolStatus' = [poolStatus EXCEPT ![nextSandbox] = "busy"]
      /\ members' = members \cup {nextSandbox} /\ alive' = alive \cup {nextSandbox} /\ stuck' = stuck
      /\ late' = IF stage = "stopped" THEN late \cup {nextSandbox} ELSE late
    BY CreateAdds DEF PoolCreateWorker
<1>2. /\ submit'[s].at = "acquired" /\ submit'[s].w = nextSandbox
      /\ submit' \in [Submitters -> [at : SubmitPoints, w : Sandboxes \cup {NoSandbox}]]
      /\ \A t \in Submitters \ {s} : submit'[t] = submit[t]
    BY <1>1, AtMoves DEF WorkerPoolInv, SubmitPoints
<1>3. \A t \in Submitters : submit[t].w # nextSandbox
    BY <1>1 DEF WorkerPoolInv, WorkerPoolFunctions, CreatedInv, Sandboxes, NoSandbox
<1>4. WorkerPoolFunctions'
    BY <1>1, <1>2, <1>3 DEF WriteLock, WorkerPoolInv, WorkerPoolFunctions, SubmitPoints
<1>5. CreatedInv' /\ StageInv'
    BY <1>1, <1>2, <1>3 DEF WriteLock, WorkerPoolInv, WorkerPoolFunctions, CreatedInv, StageInv,
       TakenInv, NoSandbox, Sandboxes
<1>6. TakenInv'
    BY <1>1, <1>2, <1>3 DEF WriteLock, WorkerPoolInv, WorkerPoolFunctions, CreatedInv, StageInv,
       TakenInv, HasTaskIn
<1>7. TrackedInv' /\ SandboxesAccounted'
    BY <1>1, <1>2, <1>3 DEF WriteLock, WorkerPoolInv, WorkerPoolFunctions, CreatedInv, TrackedInv,
       PoolAccounting, SandboxesAccounted
<1>8. TaskKeepsSandbox'
    BY <1>1, <1>2, <1>3 DEF WriteLock, WorkerPoolInv, WorkerPoolFunctions, CreatedInv, StageInv,
       TakenInv, HasTaskIn, PoolAccounting, TaskKeepsSandbox
<1>85. CondemnedInv'
    BY <1>1, <1>2, <1>3 DEF WriteLock, WorkerPoolInv, WorkerPoolFunctions, TakenInv, CondemnedInv
<1> QED
    BY <1>4, <1>5, <1>6, <1>7, <1>8, <1>85 DEF WorkerPoolInv, PoolAccounting

(* Acquire fails: the pool is full, or Docker creates nothing. *)
LEMMA AcquireSlowNoneKeeps == ASSUME WorkerPoolInv, NEW s \in Submitters,
  \/ CreateFails \/ UNCHANGED <<sandboxVars, nextSandbox>>,
  At(s, "none", NoSandbox), UNCHANGED <<members, poolStatus, late, destroying, replacing, stage, shared, condemned>> PROVE WorkerPoolInv'
<1>1. /\ nextSandbox' \in 1 .. MaxSandboxes + 1 /\ nextSandbox <= nextSandbox'
      /\ tracked' \in [Sandboxes -> {"no", "running", "stopping"}] /\ TrackedInv'
      /\ alive' = alive /\ stuck' = stuck
    BY CreateFailsAdds DEF sandboxVars, WorkerPoolInv, WorkerPoolFunctions, TrackedInv
<1>2. /\ submit'[s].at = "none" /\ submit'[s].w = NoSandbox
      /\ submit' \in [Submitters -> [at : SubmitPoints, w : Sandboxes \cup {NoSandbox}]]
      /\ \A t \in Submitters \ {s} : submit'[t] = submit[t]
    BY AtMoves DEF WorkerPoolInv, SubmitPoints
<1>3. WorkerPoolFunctions'
    BY <1>1, <1>2 DEF WorkerPoolInv, WorkerPoolFunctions, SubmitPoints
<1>4. CreatedInv' /\ StageInv'
    BY <1>1, <1>2 DEF WorkerPoolInv, WorkerPoolFunctions, CreatedInv, StageInv, TakenInv,
       NoSandbox, Sandboxes
<1>5. TakenInv'
    BY <1>1, <1>2 DEF WorkerPoolInv, WorkerPoolFunctions, CreatedInv, StageInv, TakenInv, HasTaskIn
<1>6. TrackedInv' /\ SandboxesAccounted'
    BY <1>1, <1>2 DEF WorkerPoolInv, WorkerPoolFunctions, CreatedInv, TrackedInv, PoolAccounting,
       SandboxesAccounted
<1>7. TaskKeepsSandbox'
    BY <1>1, <1>2 DEF WorkerPoolInv, WorkerPoolFunctions, CreatedInv, StageInv, TakenInv,
       HasTaskIn, PoolAccounting, TaskKeepsSandbox
<1>75. CondemnedInv'
    BY <1>1, <1>2 DEF WorkerPoolInv, WorkerPoolFunctions, TakenInv, CondemnedInv
<1> QED
    BY <1>3, <1>4, <1>5, <1>6, <1>7, <1>75 DEF WorkerPoolInv, PoolAccounting

(* Acquire takes an idle worker, which has no task unless it is marked. *)
LEMMA AcquireSlowIdleKeeps == ASSUME WorkerPoolInv, NEW s \in Submitters, WriteLock, NEW i \in Available, At(s, "acquired", i),
  poolStatus' = [poolStatus EXCEPT ![i] = "busy"],
  UNCHANGED <<members, sandboxVars, nextSandbox, late, destroying, replacing, stage, shared, condemned>> PROVE WorkerPoolInv'
<1>1. i \in Sandboxes /\ i \in members /\ poolStatus[i] = "idle" /\ i < nextSandbox
    BY DEF Available, WorkerPoolInv, CreatedInv
<1>2. /\ submit'[s].at = "acquired" /\ submit'[s].w = i
      /\ submit' \in [Submitters -> [at : SubmitPoints, w : Sandboxes \cup {NoSandbox}]]
      /\ \A t \in Submitters \ {s} : submit'[t] = submit[t]
    BY <1>1, AtMoves DEF WorkerPoolInv, SubmitPoints
<1>3. WorkerPoolFunctions'
    BY <1>1, <1>2 DEF WriteLock, sandboxVars, WorkerPoolInv, WorkerPoolFunctions, SubmitPoints
<1>4. CreatedInv' /\ StageInv'
    BY <1>1, <1>2 DEF WriteLock, sandboxVars, WorkerPoolInv, WorkerPoolFunctions, CreatedInv,
       StageInv, TakenInv, NoSandbox, Sandboxes
<1>5. TakenInv'
    BY <1>1, <1>2 DEF WriteLock, sandboxVars, WorkerPoolInv, WorkerPoolFunctions, CreatedInv,
       StageInv, TakenInv, HasTaskIn
<1>6. TrackedInv' /\ SandboxesAccounted'
    BY <1>1, <1>2 DEF WriteLock, sandboxVars, WorkerPoolInv, WorkerPoolFunctions, CreatedInv,
       TrackedInv, PoolAccounting, SandboxesAccounted
<1>7. TaskKeepsSandbox'
    BY <1>1, <1>2 DEF WriteLock, sandboxVars, WorkerPoolInv, WorkerPoolFunctions, CreatedInv,
       StageInv, TakenInv, HasTaskIn, PoolAccounting, TaskKeepsSandbox
<1>75. CondemnedInv'
    BY <1>1, <1>2 DEF WriteLock, sandboxVars, WorkerPoolInv, WorkerPoolFunctions, TakenInv, CondemnedInv
<1> QED
    BY <1>3, <1>4, <1>5, <1>6, <1>7, <1>75 DEF WorkerPoolInv, PoolAccounting

(* A creation that fails adds nothing to the pool. *)
LEMMA CreateFailsKeeps ==
  ASSUME WorkerPoolInv, CreateFails, UNCHANGED <<members, poolStatus, late, submit, destroying, replacing, stage, shared, condemned>>
  PROVE  WorkerPoolInv'
<1>1. /\ nextSandbox' \in 1 .. MaxSandboxes + 1 /\ nextSandbox <= nextSandbox'
      /\ tracked' \in [Sandboxes -> {"no", "running", "stopping"}] /\ TrackedInv'
      /\ alive' = alive /\ stuck' = stuck
    BY CreateFailsAdds
<1>2. WorkerPoolFunctions'
    BY <1>1 DEF WorkerPoolInv, WorkerPoolFunctions, SubmitPoints
<1>3. CreatedInv' /\ StageInv'
    BY <1>1 DEF WorkerPoolInv, WorkerPoolFunctions, CreatedInv, StageInv, TakenInv, NoSandbox, Sandboxes
<1>4. TakenInv'
    BY <1>1 DEF WorkerPoolInv, WorkerPoolFunctions, CreatedInv, StageInv, TakenInv, HasTaskIn
<1>5. TrackedInv' /\ SandboxesAccounted'
    BY <1>1 DEF WorkerPoolInv, WorkerPoolFunctions, CreatedInv, TrackedInv, PoolAccounting,
       SandboxesAccounted
<1>6. TaskKeepsSandbox'
    BY <1>1 DEF WorkerPoolInv, WorkerPoolFunctions, CreatedInv, StageInv, TakenInv, HasTaskIn,
       PoolAccounting, TaskKeepsSandbox
<1>65. CondemnedInv'
    BY <1>1 DEF WorkerPoolInv, WorkerPoolFunctions, TakenInv, CondemnedInv
<1> QED
    BY <1>2, <1>3, <1>4, <1>5, <1>6, <1>65 DEF WorkerPoolInv, PoolAccounting

(* A reaped worker was idle, so no task is in it unless it is marked. *)
LEMMA ReapKeeps ==
  ASSUME WorkerPoolInv, NEW i \in Sandboxes, PoolReap(i), WriteLock, UNCHANGED <<sandboxVars, submit, replacing, nextSandbox, stage, shared, condemned, late>>
  PROVE  WorkerPoolInv'
<1>1. WorkerPoolFunctions'
    BY DEF PoolReap, WriteLock, sandboxVars, Available, WorkerPoolInv, WorkerPoolFunctions, SubmitPoints
<1>2. CreatedInv' /\ StageInv'
    BY DEF PoolReap, WriteLock, sandboxVars, Available, WorkerPoolInv, WorkerPoolFunctions,
       CreatedInv, StageInv, TakenInv, NoSandbox, Sandboxes
<1>3. TakenInv'
    BY DEF PoolReap, WriteLock, sandboxVars, Available, WorkerPoolInv, WorkerPoolFunctions,
       CreatedInv, StageInv, TakenInv, HasTaskIn
<1>4. TrackedInv' /\ SandboxesAccounted'
    BY DEF PoolReap, WriteLock, sandboxVars, Available, WorkerPoolInv, WorkerPoolFunctions,
       CreatedInv, TrackedInv, PoolAccounting, SandboxesAccounted
<1>5. TaskKeepsSandbox'
    BY DEF PoolReap, WriteLock, sandboxVars, Available, WorkerPoolInv, WorkerPoolFunctions,
       CreatedInv, StageInv, TakenInv, HasTaskIn, PoolAccounting, TaskKeepsSandbox
<1>55. CondemnedInv'
    BY DEF PoolReap, WriteLock, sandboxVars, Available, WorkerPoolInv, WorkerPoolFunctions,
       TakenInv, CondemnedInv
<1> QED
    BY <1>1, <1>2, <1>3, <1>4, <1>5, <1>55 DEF WorkerPoolInv, PoolAccounting

(* The goroutine destroys what was reaped: it is gone or noted as stuck. *)
LEMMA DestroyReapedKeeps ==
  ASSUME WorkerPoolInv, NEW i \in Sandboxes, DestroyReaped(i)
  PROVE  WorkerPoolInv'
<1>1. /\ i \in destroying /\ alive \ {i} \subseteq alive'
      /\ alive' \subseteq alive /\ stuck \ {i} \subseteq stuck' /\ (i \in alive' => i \in stuck')
      /\ tracked' \in [Sandboxes -> {"no", "running", "stopping"}] /\ TrackedInv'
      /\ destroying' = destroying \ {i}
      /\ UNCHANGED <<members, poolStatus, submit, replacing, scaling, nextSandbox, stage, shared, condemned, late>>
    BY DestroyRemoves DEF DestroyReaped
<1>2. WorkerPoolFunctions'
    BY <1>1 DEF WorkerPoolInv, WorkerPoolFunctions, SubmitPoints
<1>3. CreatedInv' /\ StageInv'
    BY <1>1 DEF WorkerPoolInv, WorkerPoolFunctions, CreatedInv, StageInv, TakenInv, NoSandbox, Sandboxes
<1>4. TakenInv'
    BY <1>1 DEF WorkerPoolInv, WorkerPoolFunctions, CreatedInv, StageInv, TakenInv, HasTaskIn
<1>5. TrackedInv' /\ SandboxesAccounted'
    BY <1>1 DEF WorkerPoolInv, WorkerPoolFunctions, CreatedInv, TrackedInv, PoolAccounting,
       SandboxesAccounted
<1>6. TaskKeepsSandbox'
    BY <1>1 DEF WorkerPoolInv, WorkerPoolFunctions, CreatedInv, StageInv, TakenInv, HasTaskIn,
       PoolAccounting, TaskKeepsSandbox
<1>65. CondemnedInv'
    BY <1>1 DEF WorkerPoolInv, WorkerPoolFunctions, TakenInv, CondemnedInv
<1> QED
    BY <1>2, <1>3, <1>4, <1>5, <1>6, <1>65 DEF WorkerPoolInv, PoolAccounting

(* A destroyed worker leaves the map with its container, or it is stuck. *)
LEMMA DestroyWorkerKeeps == ASSUME WorkerPoolInv, NEW i \in Sandboxes, PoolDestroyWorker(i), i \in condemned, replacing' \subseteq replacing,
  \/ UNCHANGED submit
  \/ \E s \in Submitters : At(s, "none", NoSandbox) PROVE WorkerPoolInv'
<1>1. \/ UNCHANGED <<poolStatus, members, sandboxVars>>
      \/ /\ poolStatus' = [poolStatus EXCEPT ![i] = "stopping"] /\ members' = members \ {i}
    BY DEF PoolDestroyWorker
<1>2. /\ alive \ {i} \subseteq alive' /\ (i \notin members => alive' = alive)
      /\ alive' \subseteq alive /\ (i \in alive' /\ i \notin members' /\ i \in members => i \in stuck') /\ stuck \ {i} \subseteq stuck'
      /\ (i \notin members => stuck' = stuck)
      /\ tracked' \in [Sandboxes -> {"no", "running", "stopping"}] /\ TrackedInv'
    BY DestroyRemoves DEF PoolDestroyWorker, sandboxVars, WorkerPoolInv, WorkerPoolFunctions, TrackedInv
<1>3. /\ WriteLock /\ UNCHANGED <<destroying, scaling, nextSandbox, stage, shared, condemned, late>>
    BY DEF PoolDestroyWorker
<1>4. /\ submit' \in [Submitters -> [at : SubmitPoints, w : Sandboxes \cup {NoSandbox}]]
      /\ \A t \in Submitters : submit'[t] = submit[t] \/ (submit'[t].at = "none" /\ submit'[t].w = NoSandbox)
    BY AtMoves DEF WorkerPoolInv, WorkerPoolFunctions, SubmitPoints
<1>5. WorkerPoolFunctions'
    BY <1>1, <1>2, <1>3, <1>4 DEF WriteLock, sandboxVars, WorkerPoolInv, WorkerPoolFunctions,
       SubmitPoints
<1>6. CreatedInv' /\ StageInv'
    BY <1>1, <1>2, <1>3, <1>4 DEF WriteLock, sandboxVars, WorkerPoolInv, WorkerPoolFunctions,
       CreatedInv, StageInv, TakenInv, NoSandbox, Sandboxes
<1>7. TakenInv'
    BY <1>1, <1>2, <1>3, <1>4 DEF WriteLock, sandboxVars, WorkerPoolInv, WorkerPoolFunctions,
       CreatedInv, StageInv, TakenInv, HasTaskIn
<1>8. TrackedInv' /\ SandboxesAccounted'
    BY <1>1, <1>2, <1>3, <1>4 DEF WriteLock, sandboxVars, WorkerPoolInv, WorkerPoolFunctions,
       CreatedInv, TrackedInv, PoolAccounting, SandboxesAccounted
<1>9. TaskKeepsSandbox'
    BY <1>1, <1>2, <1>3, <1>4 DEF WriteLock, sandboxVars, WorkerPoolInv, WorkerPoolFunctions,
       CreatedInv, StageInv, TakenInv, HasTaskIn, PoolAccounting, TaskKeepsSandbox
<1>95. CondemnedInv'
    BY <1>1, <1>2, <1>3, <1>4 DEF WriteLock, sandboxVars, WorkerPoolInv, WorkerPoolFunctions,
       TakenInv, CondemnedInv
<1> QED
    BY <1>5, <1>6, <1>7, <1>8, <1>9, <1>95 DEF WorkerPoolInv, PoolAccounting

(* The invariant of the self-scaling pool, for any number of submitters, any *)
(* limits and any number of sandboxes.                                       *)
THEOREM WorkerPoolInvariant == WorkerPoolSpec => []WorkerPoolInv
<1>1. WorkerPoolInit => WorkerPoolInv
    BY WorkerPoolAssumption DEF WorkerPoolInit, WorkerPoolInv, WorkerPoolFunctions, CreatedInv,
       TrackedInv,
       StageInv, TakenInv, HasTaskIn, PoolAccounting, SandboxesAccounted, CondemnedInv, TaskKeepsSandbox,
       Sandboxes, NoSandbox
<1>2. WorkerPoolInv /\ [WorkerPoolNext]_workerPoolVars => WorkerPoolInv'
  <2> SUFFICES ASSUME WorkerPoolInv, [WorkerPoolNext]_workerPoolVars PROVE WorkerPoolInv'
    OBVIOUS
  <2>1. ASSUME NEW s \in Submitters, AcquireSlow(s) PROVE WorkerPoolInv'
      BY <2>1, AcquireSlowIdleKeeps, AcquireSlowNewKeeps, AcquireSlowNoneKeeps DEF AcquireSlow
  <2>2. ASSUME NEW s \in Submitters, DestroyFailed(s) PROVE WorkerPoolInv'
    <3>1. submit[s].w \in Sandboxes /\ submit[s].w \in condemned
      BY <2>2 DEF DestroyFailed, WorkerPoolInv, TakenInv, CondemnedInv
    <3> QED
      BY <2>2, <3>1, DestroyWorkerKeeps DEF DestroyFailed
  <2>3. ASSUME NEW i \in Sandboxes, DestroyReplaced(i) PROVE WorkerPoolInv'
    BY <2>3, DestroyWorkerKeeps DEF DestroyReplaced, WorkerPoolInv, CondemnedInv
  <2>4. ASSUME NEW i \in Sandboxes, PoolCheckWorkerHealth(i) PROVE WorkerPoolInv'
    BY <2>4, JoinKeeps, CreateFailsKeeps DEF PoolCheckWorkerHealth, WorkerPoolInv, CondemnedInv
  <2>5. CASE ScaleUp
    <3>2. CASE UNCHANGED <<members, poolStatus, sandboxVars, nextSandbox, late>>
      BY <2>5, <3>2 DEF ScaleUp, sandboxVars, WorkerPoolInv, WorkerPoolFunctions, CreatedInv,
         TrackedInv,
         StageInv, TakenInv, HasTaskIn, PoolAccounting, SandboxesAccounted, CondemnedInv, TaskKeepsSandbox
    <3> QED
      BY <2>5, <3>2, JoinKeeps, CreateFailsKeeps DEF ScaleUp, WorkerPoolInv, CondemnedInv
  <2>6. CASE ScaleDown
    <3>2. CASE UNCHANGED <<members, poolStatus, destroying>>
      BY <2>6, <3>2 DEF ScaleDown, sandboxVars, WorkerPoolInv, WorkerPoolFunctions,
         CreatedInv, TrackedInv,
         StageInv, TakenInv, HasTaskIn, PoolAccounting, SandboxesAccounted, CondemnedInv, TaskKeepsSandbox
    <3> QED
      BY <2>6, <3>2, ReapKeeps DEF ScaleDown
  <2>7. CASE Cleanup
    BY <2>7, ReapKeeps DEF Cleanup
  <2>8. CASE PoolStart \/ ScaleDecides \/ PoolStop \/ UNCHANGED workerPoolVars
    BY <2>8 DEF PoolStart, ScaleDecides, PoolStop, workerPoolVars, sandboxVars, WorkerPoolInv,
       WorkerPoolFunctions, CreatedInv, TrackedInv,
       StageInv, TakenInv, HasTaskIn, PoolAccounting, SandboxesAccounted, CondemnedInv, TaskKeepsSandbox
  <2>9. CASE StopDestroys
    BY <2>9 DEF StopDestroys, sandboxVars, WorkerPoolInv, WorkerPoolFunctions, CreatedInv, TrackedInv,
       StageInv, TakenInv, HasTaskIn, PoolAccounting, SandboxesAccounted, CondemnedInv, TaskKeepsSandbox
  <2> QED
    BY <2>1, <2>2, <2>3, <2>4, <2>5, <2>6, <2>7, <2>8, <2>9, PrewarmKeeps, AcquireFastKeeps,
       TakeFoundKeeps,
       ExecuteBeginsKeeps, ExecuteEndsKeeps, DestroyReapedKeeps DEF WorkerPoolNext
<1> QED
    BY <1>1, <1>2, PTL DEF WorkerPoolSpec

(* No container is forgotten, whichever of the loops, the tasks and Stop     *)
(* gets to it; and until Stop goes through the map, scaling down and         *)
(* cleaning up take no worker from a task, one of the named exceptions apart *)
(* (pool.go:425, 555).                                                       *)
THEOREM SandboxesAreAccountedFor == WorkerPoolSpec => []PoolAccounting
<1>1. WorkerPoolInv => PoolAccounting
    BY DEF WorkerPoolInv
<1> QED
    BY <1>1, WorkerPoolInvariant, PTL
=============================================================================
