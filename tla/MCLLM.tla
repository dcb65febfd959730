-------------------------------- MODULE MCLLM --------------------------------
(***************************************************************************)
(* What calls a language model, and shares no state: the router and the    *)
(* execution graphs.  A behaviour is one of one of them.                   *)
(***************************************************************************)
EXTENDS LLMRouter, ExecutionGraph

CONSTANTS c1, c2, haiku, sonnet, air, glm, simple, n1, n2, n3, None

MCPrefers == [t \in TaskTypes |-> {haiku}]
MCOrder == <<sonnet, air, glm>>
MCCost == [m \in Models |-> IF m = haiku THEN 1 ELSE 2]
MCUp == [m \in Models |-> IF m \in {glm, air} THEN glm ELSE sonnet]

MCGoals == {{}, {"simple"}, {"simple", "complex"}, {"simple", "medium"}, {"quick"}, {"complex"},
            {"redesign"}, {"complex", "api", "module"}, {"complex", "module"},
            {"redesign", "database"}, {"api", "medium"}}
MCRules == {[name |-> "urgent", words |-> {"quick"}], [name |-> "medium", words |-> {}]}

VARIABLE service   \* the one that this behaviour is about

mcVars == <<service, llmVars, graphVars>>

(* The other one rests in one of its initial states.  The parallel executor  *)
(* reads neither the goal nor the LLM.                                       *)
MCInit ==
    /\ service \in {"router", "graph"}
    /\ LLMInit /\ GraphInit
    /\ service # "graph" => graph = "task" /\ goal = {} /\ ~hasLLM
    /\ graph = "parallel" => goal = {} /\ ~hasLLM

RouterMoves ==
    /\ service = "router" /\ LLMNext
    /\ UNCHANGED <<service, graphVars>>
GraphMoves ==
    /\ service = "graph" /\ GraphNext
    /\ UNCHANGED <<service, llmVars>>

MCNext == RouterMoves \/ GraphMoves

MCSpec ==
    /\ MCInit /\ [][MCNext]_mcVars
    /\ \/ service = "router" /\ LLMFairness
       \/ service = "graph" /\ GraphFairness
==============================================================================
