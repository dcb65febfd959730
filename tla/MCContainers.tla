---------------------------- MODULE MCContainers -----------------------------
(***************************************************************************)
(* The Git containers and the distributed lock, which share no state: a    *)
(* behaviour is one of the one or of the other.                            *)
(***************************************************************************)
EXTENDS GitContainers, DistributedLock, TLC

CONSTANTS c1, c2, k1, h1, h2

VARIABLE service   \* the one that this behaviour is about

mcVars == <<service, gitVars, lockVars>>

MCInit ==
    /\ service \in {"git", "lock"}
    /\ GitInit /\ LockInit

GitMoves ==
    /\ service = "git" /\ GitNext
    /\ UNCHANGED <<service, lockVars>>
LockMoves ==
    /\ service = "lock" /\ LockNext
    /\ UNCHANGED <<service, gitVars>>

MCNext == GitMoves \/ LockMoves

MCSpec ==
    /\ MCInit /\ [][MCNext]_mcVars
    /\ \/ service = "git" /\ GitFairness
       \/ service = "lock" /\ LockFairness
==============================================================================
