----------------------------- MODULE ReActAgent -----------------------------
(***************************************************************************)
(* The ReAct loop of internal/agent/react and the pool that runs several   *)
(* agents at once (react.go), the parser of the answers (prompt.go) and    *)
(* the registry of tools, which all agents of the pool share (tool.go).    *)
(* A call of the LLM or of a tool is one step; the context is cancelled,   *)
(* the execution time runs out and tools come and go between any two.      *)
(***************************************************************************)
EXTENDS Naturals, Sequences, FiniteSets

CONSTANTS
    ReActAgents,        \* those that are ever added to the pool
    ToolNames,     \* what an action may name; "final_answer" is the tool of that name
    AgentIterations, \* Config.MaxIterations, after Validate
    HasTimeLimit,  \* Config.MaxExecutionTime > 0
    MaxChanges     \* bound: changes of the registry

ASSUME ReActAssumption ==
    AgentIterations \in Nat \ {0} /\ MaxChanges \in Nat /\ HasTimeLimit \in BOOLEAN /\ IsFiniteSet(ReActAgents)

VARIABLES
    pool,       \* AgentPool.agents
    runAll,     \* "new", "counted", "running", "returned" or "panic"
    counted,    \* the agents that RunAll makes room for
    input,      \* there is a user input
    apc,        \* apc[a]: "idle", "loop", "tool" or "ended"
    iteration, messages, \* the loop's variables; messages are given by their roles
    action,     \* action[a]: the tool that the last answer names
    answered,   \* answers of the LLM
    executed,   \* tools that ran and were not the final answer
    stopReason, hasAnswer, hasError, \* of the Result
    registry,   \* the names that have a tool
    changes, cancelled, expired

reactVars == <<pool, runAll, counted, input, apc, iteration, messages, action, answered, executed,
               stopReason, hasAnswer, hasError, registry, changes, cancelled, expired>>
poolVars == <<pool, runAll, counted, input>>
worldVars == <<registry, changes, cancelled, expired>>

(* An answer: the markers it has.  An ACTION line may lack its line end, and *)
(* the call in it may not parse.                                             *)
LLMTexts ==
    [thought : BOOLEAN, final : BOOLEAN, action : ToolNames \cup {"no_action", "unparsable"}, lineEnd : BOOLEAN]

(* ResponseParser.Parse.  An action without a line end is not seen; one that *)
(* does not parse has an empty name.                                         *)
Parse(t) ==
    LET seen == t.action # "no_action" /\ t.lineEnd
    IN  [hasThought |-> t.thought, hasFinal |-> t.final, hasAction |-> seen,
         name |-> IF seen /\ t.action # "unparsable" THEN t.action ELSE ""]

(* BuildMessages. *)
Prompt == <<"system", "user">>

ReActInit ==
    /\ pool \in {{}} \cup {{a} : a \in ReActAgents} \cup {ReActAgents}
    /\ runAll = "new" /\ counted = {} /\ input \in BOOLEAN
    /\ apc = [a \in ReActAgents |-> "idle"] /\ iteration = [a \in ReActAgents |-> 0]
    /\ messages = [a \in ReActAgents |-> <<>>] /\ action = [a \in ReActAgents |-> ""]
    /\ answered = [a \in ReActAgents |-> 0] /\ executed = [a \in ReActAgents |-> 0]
    /\ stopReason = [a \in ReActAgents |-> "none"]
    /\ hasAnswer = {} /\ hasError = {}
    /\ registry \in {ToolNames, {}} /\ changes = 0 /\ cancelled = FALSE /\ expired = FALSE

Stop(a, reason, err) ==
    /\ apc' = [apc EXCEPT ![a] = "ended"]
    /\ stopReason' = [stopReason EXCEPT ![a] = reason]
    /\ hasError' = IF err THEN hasError \cup {a} ELSE hasError
    /\ hasAnswer' = IF reason = "final_answer" THEN hasAnswer \cup {a} ELSE hasAnswer

(***************************************************************************)
(* The pool.                                                               *)
(***************************************************************************)
Add(a) ==
    /\ a \notin pool
    /\ pool' = pool \cup {a}
    /\ UNCHANGED <<runAll, counted, input, apc, iteration, messages, action, answered, executed,
                   stopReason, hasAnswer, hasError, worldVars>>

(* RunAll makes room under the lock ... *)
RunAllCounts ==
    /\ runAll = "new"
    /\ runAll' = IF pool = {} THEN "returned" ELSE "counted"
    /\ counted' = pool
    /\ UNCHANGED <<pool, input, apc, iteration, messages, action, answered, executed,
                   stopReason, hasAnswer, hasError, worldVars>>

(* ... and starts a goroutine for each agent that is there after it. *)
RunAllStarts ==
    /\ runAll = "counted"
    /\ runAll' = "running"
    /\ apc' = [a \in ReActAgents |-> IF a \in pool THEN (IF input THEN "loop" ELSE "ended") ELSE apc[a]]
    /\ messages' = [a \in ReActAgents |-> IF a \in pool /\ input THEN Prompt ELSE messages[a]]
    /\ stopReason' = [a \in ReActAgents |-> IF a \in pool /\ ~input THEN "context_empty" ELSE stopReason[a]]
    /\ hasError' = IF input THEN hasError ELSE hasError \cup pool
    /\ UNCHANGED <<pool, counted, input, iteration, action, answered, executed, hasAnswer, worldVars>>

(* defer wg.Done() *)
Done(a) == apc[a] = "ended"

RunAllReturns ==
    /\ runAll = "running" /\ \A a \in counted : Done(a)
    /\ runAll' = "returned"
    /\ UNCHANGED <<pool, counted, input, apc, iteration, messages, action, answered, executed,
                   stopReason, hasAnswer, hasError, worldVars>>

(* The one that there is no room for writes past the end of the results. *)
RunAllPanics(a) ==
    /\ runAll \in {"running", "returned"} /\ a \notin counted /\ Done(a)
    /\ runAll' = "panic"
    /\ UNCHANGED <<pool, counted, input, apc, iteration, messages, action, answered, executed,
                   stopReason, hasAnswer, hasError, worldVars>>

(***************************************************************************)
(* The loop of one agent.                                                  *)
(***************************************************************************)
OutOfIterations(a) ==
    /\ apc[a] = "loop" /\ iteration[a] = AgentIterations
    /\ Stop(a, "max_iterations", TRUE)
    /\ UNCHANGED <<poolVars, iteration, messages, action, answered, executed, worldVars>>

LoopStops(a) ==
    /\ apc[a] = "loop" /\ iteration[a] < AgentIterations
    /\ \/ cancelled /\ Stop(a, "cancelled", FALSE)
       \/ ~cancelled /\ HasTimeLimit /\ expired /\ Stop(a, "timeout", TRUE)
    /\ UNCHANGED <<poolVars, iteration, messages, action, answered, executed, worldVars>>

Continues(a) == apc[a] = "loop" /\ iteration[a] < AgentIterations /\ ~cancelled /\ ~(HasTimeLimit /\ expired)

GenerateFails(a) ==
    /\ Continues(a)
    /\ Stop(a, "error", TRUE)
    /\ UNCHANGED <<poolVars, iteration, messages, action, answered, executed, worldVars>>

(* A final answer ends the run; an action in the same answer is not run. *)
GenerateFinal(a, t) ==
    /\ Continues(a) /\ Parse(t).hasFinal
    /\ answered' = [answered EXCEPT ![a] = @ + 1]
    /\ iteration' = [iteration EXCEPT ![a] = @ + 1]
    /\ Stop(a, "final_answer", FALSE)
    /\ UNCHANGED <<poolVars, messages, action, executed, worldVars>>

(* The tool is looked up; without one the run ends. *)
GenerateAction(a, t) ==
    LET p == Parse(t) IN
    /\ Continues(a) /\ ~p.hasFinal /\ p.hasAction
    /\ answered' = [answered EXCEPT ![a] = @ + 1]
    /\ IF p.name \in registry
         THEN /\ apc' = [apc EXCEPT ![a] = "tool"]
              /\ action' = [action EXCEPT ![a] = p.name]
              /\ UNCHANGED <<stopReason, hasAnswer, hasError>>
         ELSE Stop(a, "error", TRUE) /\ UNCHANGED action
    /\ UNCHANGED <<poolVars, iteration, messages, executed, worldVars>>

(* Anything else is a thought. *)
GenerateThought(a, t) ==
    LET p == Parse(t) IN
    /\ Continues(a) /\ ~p.hasFinal /\ ~p.hasAction
    /\ answered' = [answered EXCEPT ![a] = @ + 1]
    /\ messages' = [messages EXCEPT ![a] = Append(@, "assistant")]
    /\ iteration' = [iteration EXCEPT ![a] = @ + 1]
    /\ UNCHANGED <<poolVars, apc, action, executed, stopReason, hasAnswer, hasError, worldVars>>

(* FinalAnswerTool with an answer that is a string. *)
ToolFinal(a) ==
    /\ apc[a] = "tool" /\ action[a] = "final_answer"
    /\ iteration' = [iteration EXCEPT ![a] = @ + 1]
    /\ Stop(a, "final_answer", FALSE)
    /\ UNCHANGED <<poolVars, messages, action, answered, executed, worldVars>>

(* Mutant: the error of a tool is logged, and the LLM is not told. *)
ObservedIfFine(a, ok) == IF ok THEN messages[a] \o <<"assistant", "tool">> ELSE Append(messages[a], "assistant")

(* The call and what came of it, also when it failed. *)
Observed(a, ok) == messages[a] \o <<"assistant", "tool">>

ToolReturns(a, ok) ==
    /\ apc[a] = "tool"
    /\ ok => action[a] # "final_answer"
    /\ executed' = [executed EXCEPT ![a] = @ + 1]
    /\ messages' = [messages EXCEPT ![a] = Observed(a, ok)]
    /\ iteration' = [iteration EXCEPT ![a] = @ + 1]
    /\ apc' = [apc EXCEPT ![a] = "loop"]
    /\ UNCHANGED <<poolVars, action, answered, stopReason, hasAnswer, hasError, worldVars>>

(***************************************************************************)
(* The registry, the caller and the clock.                                 *)
(***************************************************************************)
Register(n) ==
    /\ n \notin registry /\ changes < MaxChanges
    /\ registry' = registry \cup {n} /\ changes' = changes + 1
    /\ UNCHANGED <<poolVars, apc, iteration, messages, action, answered, executed,
                   stopReason, hasAnswer, hasError, cancelled, expired>>

Clear ==
    /\ registry # {} /\ changes < MaxChanges
    /\ registry' = {} /\ changes' = changes + 1
    /\ UNCHANGED <<poolVars, apc, iteration, messages, action, answered, executed,
                   stopReason, hasAnswer, hasError, cancelled, expired>>

CancelContext ==
    /\ ~cancelled /\ cancelled' = TRUE
    /\ UNCHANGED <<poolVars, apc, iteration, messages, action, answered, executed,
                   stopReason, hasAnswer, hasError, registry, changes, expired>>

TimePasses ==
    /\ HasTimeLimit /\ ~expired /\ expired' = TRUE
    /\ UNCHANGED <<poolVars, apc, iteration, messages, action, answered, executed,
                   stopReason, hasAnswer, hasError, registry, changes, cancelled>>

AgentSteps(a) ==
    \/ OutOfIterations(a) \/ LoopStops(a) \/ GenerateFails(a) \/ ToolFinal(a)
    \/ \E t \in LLMTexts : GenerateFinal(a, t) \/ GenerateAction(a, t) \/ GenerateThought(a, t)
    \/ \E ok \in BOOLEAN : ToolReturns(a, ok)

RunAllSteps == RunAllCounts \/ RunAllStarts \/ RunAllReturns \/ \E a \in ReActAgents : RunAllPanics(a)

ReActNext ==
    \/ RunAllSteps \/ Clear \/ CancelContext \/ TimePasses
    \/ \E a \in ReActAgents : AgentSteps(a) \/ Add(a)
    \/ \E n \in ToolNames : Register(n)

ReActSpec == ReActInit /\ [][ReActNext]_reactVars

-----------------------------------------------------------------------------
ReActTypeOK ==
    /\ pool \subseteq ReActAgents /\ registry \subseteq ToolNames /\ counted \subseteq pool
    /\ \A a \in ReActAgents : iteration[a] \in 0 .. AgentIterations /\ apc[a] \in {"idle", "loop", "tool", "ended"}

Tools(a) == {i \in DOMAIN messages[a] : messages[a][i] = "tool"}

(* What the LLM is shown is what happened: each tool that was run, also one  *)
(* that failed, was reported to it right behind the answer that asked for    *)
(* it, each earlier answer is shown once, and a run has an answer exactly    *)
(* when it says so, with no more answers of the LLM than iterations allow    *)
(* (react.go:248).                                                           *)
ConversationSound ==
    \A a \in ReActAgents :
        /\ Cardinality(Tools(a)) = executed[a]
        /\ \A i \in Tools(a) : messages[a][i - 1] = "assistant"
        /\ messages[a] # <<>> =>
              Cardinality({i \in DOMAIN messages[a] : messages[a][i] = "assistant"})
                = IF apc[a] = "tool" \/ (apc[a] = "ended" /\ iteration[a] < answered[a]) THEN answered[a] - 1
                  ELSE IF a \in hasAnswer THEN answered[a] - 1 ELSE answered[a]
        /\ answered[a] <= AgentIterations
        /\ (a \in hasAnswer) <=> (stopReason[a] = "final_answer")

-----------------------------------------------------------------------------
(* The inductive invariant behind ConversationSound.                         *)

Roles == {"system", "user", "assistant", "tool"}
InRole(q, r) == {i \in DOMAIN q : q[i] = r}

ReActFunctions ==
    /\ apc \in [ReActAgents -> {"idle", "loop", "tool", "ended"}]
    /\ iteration \in [ReActAgents -> 0 .. AgentIterations]
    /\ messages \in [ReActAgents -> Seq(Roles)]
    /\ answered \in [ReActAgents -> Nat] /\ executed \in [ReActAgents -> Nat]
    /\ stopReason \in [ReActAgents -> {"none", "max_iterations", "cancelled", "timeout", "error",
                                       "final_answer", "context_empty"}]
    /\ pool \subseteq ReActAgents

(* Before RunAll has started them the agents rest; while one runs it has no  *)
(* answer.                                                                   *)
RestingInv ==
    /\ runAll \in {"new", "counted"} => \A a \in ReActAgents : apc[a] = "idle"
    /\ \A a \in ReActAgents :
          /\ apc[a] = "idle" => messages[a] = <<>> /\ iteration[a] = 0 /\ answered[a] = 0 /\ executed[a] = 0
          /\ apc[a] # "ended" => a \notin hasAnswer /\ stopReason[a] = "none"
          /\ (a \in hasAnswer) <=> (stopReason[a] = "final_answer")

(* Where the loop and the conversation are: an iteration is one answer, and  *)
(* while its tool runs neither the answer nor the result is shown.           *)
LoopInv ==
    \A a \in ReActAgents :
        LET shown == Cardinality(InRole(messages[a], "assistant")) IN
        /\ apc[a] = "loop" => answered[a] = iteration[a] /\ shown = answered[a]
        /\ apc[a] = "tool" =>
              answered[a] = iteration[a] + 1 /\ shown = iteration[a] /\ iteration[a] < AgentIterations
        /\ apc[a] = "ended" /\ messages[a] # <<>> =>
              \/ answered[a] = iteration[a] /\ a \notin hasAnswer /\ shown = answered[a]
              \/ answered[a] = iteration[a] /\ a \in hasAnswer /\ shown = answered[a] - 1
              \/ answered[a] = iteration[a] + 1 /\ shown = answered[a] - 1
        /\ Cardinality(InRole(messages[a], "tool")) = executed[a]
        /\ answered[a] <= AgentIterations

(* A tool's result stands right behind the answer that asked for it.         *)
ReportedInv ==
    \A a \in ReActAgents : \A i \in InRole(messages[a], "tool") :
        i > 1 /\ messages[a][i - 1] = "assistant"

ReActInv == ReActFunctions /\ RestingInv /\ LoopInv /\ ReportedInv

-----------------------------------------------------------------------------
(* What comments of the code say; the code does not keep it.                 *)

(* AgentPool has a lock for its agents: RunAll and Add can meet. *)
AddIsSafe == runAll # "panic"

(* "ACTION: <tool_name>(<json_arguments>)" is run, also as the last line. *)
ActionsAreSeen == \A t \in LLMTexts : t.action \in ToolNames => Parse(t).hasAction
=============================================================================
