----------------------------- MODULE MCServices ------------------------------
(***************************************************************************)
(* Two services that share no state, checked side by side: a behaviour is  *)
(* one of the outbox pollers or one of the guardian.                       *)
(***************************************************************************)
EXTENDS OutboxPoller, Guardian, TLC

CONSTANTS p1, p2, t1, r1, r2, u1

VARIABLE service   \* the one that this behaviour is about

mcVars == <<service, pollerVars, guardianVars>>

MCInit ==
    /\ service \in {"poller", "guardian"}
    /\ PollerInit /\ GuardianInit

PollerMoves ==
    /\ service = "poller" /\ PollerNext
    /\ UNCHANGED <<service, guardianVars>>
GuardianMoves ==
    /\ service = "guardian" /\ GuardianNext
    /\ UNCHANGED <<service, pollerVars>>

MCNext == PollerMoves \/ GuardianMoves

MCSpec ==
    /\ MCInit /\ [][MCNext]_mcVars
    /\ \/ service = "poller" /\ PollerFairness
       \/ service = "guardian" /\ GuardianFairness
==============================================================================
