------------------------------ MODULE MCGateway ------------------------------
(***************************************************************************)
(* The two ways into the platform that keep state of their own: the        *)
(* WebSocket hub, and the tools that reach the gateway from elsewhere.     *)
(***************************************************************************)
EXTENDS WSHub, RemoteTools

CONSTANTS c1, rA, rB, m1, m2, t1, s1

VARIABLE service   \* the one that this behaviour is about

mcVars == <<service, hubVars, remoteVars>>

(* The others rest in one of their initial states. *)
MCInit ==
    /\ service \in {"hub", "remote"}
    /\ HubInit /\ RemoteInit
    /\ service # "hub" => taskID = [c \in Clients |-> rA]
    /\ service # "remote" => token = "jwt"

HubMoves ==
    /\ service = "hub" /\ HubNext
    /\ UNCHANGED <<service, remoteVars>>
RemoteMoves ==
    /\ service = "remote" /\ RemoteNext
    /\ UNCHANGED <<service, hubVars>>

MCNext == HubMoves \/ RemoteMoves

MCSpec ==
    /\ MCInit /\ [][MCNext]_mcVars
    /\ \/ service = "hub" /\ HubFairness
       \/ service = "remote" /\ RemoteFairness
==============================================================================
