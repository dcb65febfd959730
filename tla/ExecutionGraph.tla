--------------------------- MODULE ExecutionGraph ---------------------------
(***************************************************************************)
(* The execution graphs of plugins/orchestrator: TaskGraph (graph.go, with  *)
(* the rules of router.go), FullTaskGraph (full_graph.go), the nodes of     *)
(* both (nodes.go), the nodes of eino_nodes.go, which no graph of the       *)
(* repository wires and which a caller runs one after another, and          *)
(* ParallelExecutorNode.  One invocation is followed from its input to its  *)
(* result.  A goal is the set of the word lists it has a word of; an LLM    *)
(* answer costs one token; a summary is the sequence of its authors.        *)
(***************************************************************************)
EXTENDS Naturals, Sequences, FiniteSets

CONSTANTS
    Goals,          \* sets of: "simple", "quick", "medium", "complex", "redesign",
                    \* "api", "module", "database"
    NewRules,       \* the rules UpdateRule may be given: [name, words]
    ParallelNodes,  \* the nodes a parallel executor may be given
    MaxIterations,  \* EinoReActNode.maxIterations
    MaxItems        \* bound: subtasks in one answer of the LLM

ASSUME GraphAssumption == MaxIterations \in Nat \ {0} /\ MaxItems \in Nat /\ IsFiniteSet(ParallelNodes)

VARIABLES
    graph,    \* which one is invoked: "task", "full", "eino" or "parallel"
    goal, hasLLM,
    rules,    \* RouterConfig.Rules: a sequence of [name, words]
    route,    \* where the branch behind the analyzer went
    todo,     \* the nodes that are left
    tc,       \* the TaskContext, one object that the nodes share
    total,    \* ReAct: totalTokens, and the iterations made
    answers,  \* the nodes whose calls were answered, in order
    outcome,  \* "none", "error" or "success"
    result,   \* the TaskResult: the context at the time it was made
    pnode, pread, \* the goroutines of the parallel executor, and the token count each read
    results,  \* its channel
    got       \* the results it has received

graphVars == <<graph, goal, hasLLM, rules, route, todo, tc, total, answers, outcome, result, pnode, pread, results, got>>
inputVars == <<graph, goal, hasLLM, rules, route>>
parallelVars == <<pnode, pread, results, got>>

Routes == {"simple", "medium", "complex"}

(* DefaultRouterConfig: complex first, simple last. *)
DefaultRules == <<[name |-> "complex", words |-> {"complex", "redesign"}],
                  [name |-> "medium", words |-> {"medium"}],
                  [name |-> "simple", words |-> {"simple", "quick"}]>>

(* AnalyzerNode.evaluateComplexity: simple first; its lists are shorter. *)
EvaluateComplexity(g) ==
    CASE "simple" \in g -> "simple" [] "simple" \notin g /\ "complex" \in g -> "complex" [] OTHER -> "medium"

EinoComplexity(g) ==
    IF g \cap {"simple", "quick"} # {} THEN "simple"
    ELSE IF g \cap {"complex", "redesign"} # {} THEN "complex" ELSE "medium"

(* ComplexityAnalyzer.Analyze: the first rule with a word of the goal; a     *)
(* rule without words matches all.                                           *)
MatchesRule(g, rule) == rule.words = {} \/ rule.words \cap g # {}

Analyze(g) ==
    LET hits == {i \in 1 .. Len(rules) : MatchesRule(g, rules[i])}
    IN  IF hits = {} THEN "medium" ELSE rules[CHOOSE i \in hits : \A j \in hits : i <= j].name

(* The chains behind the branch. *)
SimplePath == <<"simple_executor", "result_merger">>
MediumPath == <<"medium_decomposer", "medium_executor", "result_merger">>
ComplexPath == <<"observer", "strategist", "executor", "guardian", "tester", "result_merger">>

ChainOf(way) ==
    CASE way = "simple" -> SimplePath [] way = "medium" -> MediumPath [] way = "complex" -> ComplexPath

EinoChainOf(way) ==
    CASE way = "medium" -> <<"react", "aggregator">> [] way = "complex" -> <<"decomposer", "aggregator">>
      [] OTHER -> <<"simple_exec", "aggregator">>

EmptyContext(c) == [complexity |-> c, subtasks |-> <<>>, summary |-> <<>>, tokens |-> 0, progress |-> 0]
Plan(type, deps) == [type |-> type, deps |-> deps, done |-> FALSE]

GraphInit ==
    /\ graph \in {"task", "full", "eino", "parallel"}
    /\ goal \in Goals /\ hasLLM \in BOOLEAN
    /\ rules = DefaultRules /\ route = "none"
    /\ todo = <<"invoke">>
    /\ tc = EmptyContext("medium")
    /\ total = [tokens |-> 0, iterations |-> 0] /\ answers = <<>> /\ outcome = "none" /\ result = tc
    /\ pnode = [n \in ParallelNodes |-> "none"] /\ pread = [n \in ParallelNodes |-> 0]
    /\ results = <<>> /\ got = 0

At(n) == outcome = "none" /\ todo # <<>> /\ Head(todo) = n

InvokeGraph ==
    /\ At("invoke")
    /\ todo' = IF graph = "parallel" THEN <<"parallel">> ELSE <<"analyzer">>
    /\ UNCHANGED <<inputVars, tc, total, answers, outcome, result, parallelVars>>

(* UpdateRule on the analyzer of the graph: by name, else at the end. *)
UpdateRule(name, rule) ==
    /\ graph = "task" /\ At("invoke") /\ Len(rules) < 4
    /\ LET hits == {i \in 1 .. Len(rules) : rules[i].name = name}
       IN  rules' = IF hits = {} THEN Append(rules, rule)
                    ELSE [rules EXCEPT ![CHOOSE i \in hits : \A j \in hits : i <= j] = rule]
    /\ UNCHANGED <<graph, goal, hasLLM, route, todo, tc, total, answers, outcome, result, parallelVars>>

(* The analyzer, and the branch behind it.  A route that is not one of the   *)
(* branch's ends fails the invocation.                                       *)
TaskGraphBranch ==
    /\ graph = "task" /\ At("analyzer")
    /\ tc' = EmptyContext(EvaluateComplexity(goal)) /\ route' = Analyze(goal)
    /\ IF route' \in Routes
         THEN todo' = ChainOf(route') /\ UNCHANGED outcome
         ELSE outcome' = "error" /\ UNCHANGED todo
    /\ UNCHANGED <<graph, goal, hasLLM, rules, total, answers, result, parallelVars>>

FullTaskGraphBranch ==
    /\ graph = "full" /\ At("analyzer")
    /\ tc' = EmptyContext(EvaluateComplexity(goal)) /\ route' = EvaluateComplexity(goal)
    /\ todo' = ChainOf(route')
    /\ UNCHANGED <<graph, goal, hasLLM, rules, total, answers, outcome, result, parallelVars>>

EinoAnalyze ==
    /\ graph = "eino" /\ At("analyzer")
    /\ tc' = EmptyContext(EinoComplexity(goal)) /\ route' = EinoComplexity(goal)
    /\ todo' = EinoChainOf(route')
    /\ UNCHANGED <<graph, goal, hasLLM, rules, total, answers, outcome, result, parallelVars>>

(* A call of the LLM: it answers or not; without an LLM there is no call. *)
LLMAnswers == IF hasLLM THEN {"ok", "error"} ELSE {"no_llm"}

(* The simple executor is the node that reports a failed call. *)
SimpleExecute(n) ==
    /\ At(n)
    /\ \E a \in LLMAnswers :
          /\ IF a = "error"
               THEN outcome' = "error" /\ UNCHANGED <<tc, todo>>
               ELSE /\ tc' = [tc EXCEPT !.summary = IF a = "ok" THEN <<n>> ELSE @,
                                        !.tokens = IF a = "ok" THEN @ + 1 ELSE @, !.progress = 100]
                    /\ todo' = Tail(todo) /\ UNCHANGED outcome
          /\ answers' = IF a = "ok" THEN Append(answers, n) ELSE answers
    /\ UNCHANGED <<inputVars, total, result, parallelVars>>

(* createSubtasksFallback. *)
FallbackPlan ==
    IF "api" \in goal THEN <<Plan("coding", {}), Plan("testing", {1})>> ELSE <<Plan("coding", {})>>

(* parseSubtaskJSON: one subtask for each brace of the answer.  The value it *)
(* reads for a field is the field's own name, so type and role stay as made. *)
ParsedPlan(items) == [i \in 1 .. items |-> Plan("coding", {})]

(* MediumDecomposerNode: the tokens of its call are not counted. *)
MediumDecompose ==
    /\ At("medium_decomposer")
    /\ \E a \in LLMAnswers, items \in 0 .. MaxItems :
          /\ a # "ok" => items = 0
          /\ tc' = [tc EXCEPT !.subtasks = IF items > 0 THEN ParsedPlan(items) ELSE FallbackPlan, !.progress = 20]
          /\ answers' = IF a = "ok" THEN Append(answers, "medium_decomposer") ELSE answers
    /\ todo' = Tail(todo)
    /\ UNCHANGED <<inputVars, total, outcome, result, parallelVars>>

(* MediumExecutorNode calls nothing: every subtask is done. *)
MediumExecute ==
    /\ At("medium_executor")
    /\ tc' = [tc EXCEPT !.subtasks = [i \in DOMAIN @ |-> [@[i] EXCEPT !.done = TRUE]],
                        !.summary = [i \in DOMAIN tc.subtasks |-> "subtask"], !.progress = 100]
    /\ todo' = Tail(todo)
    /\ UNCHANGED <<inputVars, total, answers, outcome, result, parallelVars>>

(* Mutant: the error of the call is not looked at, its empty content is taken. *)
TakeUpBlindly(n, a, p) ==
    [tc EXCEPT !.summary = CASE a = "ok" -> <<n>> [] a = "error" -> <<>> [] OTHER -> @,
               !.tokens = IF a = "ok" THEN @ + 1 ELSE @, !.progress = p]

(* What a node of the complex path makes of its call; an error is dropped. *)
TakeUp(n, a, p) ==
    [tc EXCEPT !.summary = IF a = "ok" THEN <<n>> ELSE @, !.tokens = IF a = "ok" THEN @ + 1 ELSE @, !.progress = p]

Consult(n, p) ==
    /\ At(n)
    /\ \E a \in LLMAnswers :
          /\ tc' = TakeUp(n, a, p)
          /\ answers' = IF a = "ok" THEN Append(answers, n) ELSE answers
    /\ todo' = Tail(todo)
    /\ UNCHANGED <<inputVars, total, outcome, result, parallelVars>>

ObserverNode == Consult("observer", 10)
ExecutorNode == (At("executor") => tc.subtasks # <<>>) /\ Consult("executor", 60)
GuardianNode == Consult("guardian", 80)
TesterNode == Consult("tester", 95)

StrategistNode ==
    /\ At("strategist")
    /\ tc' = [tc EXCEPT !.subtasks = <<Plan("coding", {}), Plan("review", {}), Plan("testing", {})>>, !.progress = 25]
    /\ todo' = Tail(todo)
    /\ UNCHANGED <<inputVars, total, answers, outcome, result, parallelVars>>

(* ResultMerger: success, whatever happened. *)
ResultMerger ==
    /\ At("result_merger")
    /\ outcome' = "success" /\ result' = tc
    /\ todo' = Tail(todo)
    /\ UNCHANGED <<inputVars, tc, total, answers, parallelVars>>

(* One iteration of EinoReActNode; the answer at the limit is the summary. *)
ReActIteration ==
    /\ At("react") /\ hasLLM
    /\ \E a \in {"thought", "final_answer", "error"} :
          LET t == [tokens |-> total.tokens + 1, iterations |-> total.iterations + 1]
              ends == a = "final_answer" \/ t.iterations = MaxIterations
          IN  IF a = "error"
                THEN outcome' = "error" /\ UNCHANGED <<tc, todo, total, answers>>
                ELSE /\ total' = t
                     /\ answers' = Append(answers, "react")
                     /\ tc' = IF ends THEN [tc EXCEPT !.summary = <<"react">>, !.tokens = t.tokens, !.progress = 100]
                              ELSE tc
                     /\ todo' = IF ends THEN Tail(todo) ELSE todo
                     /\ UNCHANGED outcome
    /\ UNCHANGED <<inputVars, result, parallelVars>>

ReActSkipped ==
    /\ At("react") /\ ~hasLLM
    /\ tc' = [tc EXCEPT !.progress = 100]
    /\ todo' = Tail(todo)
    /\ UNCHANGED <<inputVars, total, answers, outcome, result, parallelVars>>

(* EinoDecomposerNode.createSubtasks: a chain. *)
ChainPlan(types) == [i \in DOMAIN types |-> Plan(types[i], {i - 1} \ {0})]

DecomposerPlan ==
    ChainPlan(CASE "api" \in goal -> <<"analysis", "coding", "testing">>
                [] "api" \notin goal /\ "module" \in goal -> <<"analysis", "coding", "review", "testing">>
                [] goal \cap {"api", "module"} = {} /\ "database" \in goal -> <<"research", "analysis", "coding", "testing">>
                [] OTHER -> <<"research", "analysis", "coding", "review", "testing">>)

EinoDecompose ==
    /\ At("decomposer")
    /\ tc' = [tc EXCEPT !.subtasks = DecomposerPlan, !.progress = 20]
    /\ todo' = Tail(todo)
    /\ UNCHANGED <<inputVars, total, answers, outcome, result, parallelVars>>

(* EinoAggregatorNode puts the goal and the subtasks before the summary. *)
EinoAggregate ==
    /\ At("aggregator")
    /\ tc' = [tc EXCEPT !.summary = <<"aggregator">> \o [i \in DOMAIN tc.subtasks |-> "subtask"] \o @]
    /\ outcome' = "success" /\ result' = tc'
    /\ todo' = Tail(todo)
    /\ UNCHANGED <<inputVars, total, answers, parallelVars>>

(***************************************************************************)
(* ParallelExecutorNode.  Its nodes are given, and return, one and the same *)
(* context, and change it without a lock: tokens are read and written in    *)
(* two steps.  Any node can fail.                                           *)
(***************************************************************************)
Started == {n \in ParallelNodes : pnode[n] # "none"}

(* A list without nodes returns its input.                                   *)
ParallelStart(nodes) ==
    /\ At("parallel") /\ Started = {}
    /\ IF nodes = {}
         THEN outcome' = "success" /\ result' = tc /\ todo' = Tail(todo) /\ UNCHANGED pnode
         ELSE pnode' = [n \in ParallelNodes |-> IF n \in nodes THEN "runs" ELSE "none"]
              /\ UNCHANGED <<todo, outcome, result>>
    /\ UNCHANGED <<inputVars, tc, total, answers, pread, results, got>>

NodeReads(n) ==
    /\ pnode[n] = "runs"
    /\ \E a \in {"ok", "error"} :
          /\ pnode' = [pnode EXCEPT ![n] = IF a = "ok" THEN "writes" ELSE "failed"]
          /\ tc' = IF a = "ok" THEN [tc EXCEPT !.summary = <<n>>] ELSE tc
          /\ pread' = [pread EXCEPT ![n] = tc.tokens]
    /\ UNCHANGED <<inputVars, todo, total, answers, outcome, result, results, got>>

NodeWrites(n) ==
    /\ pnode[n] = "writes"
    /\ tc' = [tc EXCEPT !.tokens = pread[n] + 1]
    /\ answers' = Append(answers, n)
    /\ pnode' = [pnode EXCEPT ![n] = "done"]
    /\ UNCHANGED <<inputVars, todo, total, outcome, result, pread, results, got>>

(* Mutant: a channel without a buffer; a send waits for the receiver. *)
RoomIfReceiving == results = <<>> /\ outcome = "none"

(* The channel has a place for each node. *)
Room == Len(results) < Cardinality(Started)

NodeSends(n) ==
    /\ pnode[n] \in {"done", "failed"} /\ Room
    /\ results' = Append(results, pnode[n])
    /\ pnode' = [pnode EXCEPT ![n] = "ended"]
    /\ UNCHANGED <<inputVars, todo, tc, total, answers, outcome, result, pread, got>>

(* The first result is the merged one; each later one is added to it: it is  *)
(* the same object.  An error returns at once.                               *)
ParallelReceives ==
    /\ At("parallel") /\ results # <<>>
    /\ results' = Tail(results) /\ got' = got + 1
    /\ IF Head(results) = "failed"
         THEN outcome' = "error" /\ UNCHANGED <<tc, todo, result>>
         ELSE /\ tc' = IF got = 0 THEN tc
                       ELSE [tc EXCEPT !.summary = @ \o @, !.tokens = 2 * @]
              /\ IF got' = Cardinality(Started)
                   THEN outcome' = "success" /\ result' = tc' /\ todo' = Tail(todo)
                   ELSE UNCHANGED <<outcome, todo, result>>
    /\ UNCHANGED <<inputVars, total, answers, pnode, pread>>

GraphSteps ==
    \/ TaskGraphBranch \/ FullTaskGraphBranch \/ EinoAnalyze
    \/ SimpleExecute("simple_executor") \/ SimpleExecute("simple_exec")
    \/ MediumDecompose \/ MediumExecute
    \/ ObserverNode \/ StrategistNode \/ ExecutorNode \/ GuardianNode \/ TesterNode \/ ResultMerger
    \/ ReActIteration \/ ReActSkipped \/ EinoDecompose \/ EinoAggregate
    \/ ParallelReceives \/ \E nodes \in SUBSET ParallelNodes : ParallelStart(nodes)

NodeSteps(n) == NodeReads(n) \/ NodeWrites(n) \/ NodeSends(n)

GraphNext ==
    \/ InvokeGraph \/ GraphSteps
    \/ \E n \in ParallelNodes : NodeSteps(n)
    \/ \E name \in Routes, rule \in NewRules : UpdateRule(name, rule)

GraphSpec == GraphInit /\ [][GraphNext]_graphVars

(* The LLM clients have timeouts, and goroutines are scheduled. *)
GraphFairness == WF_graphVars(GraphSteps) /\ \A n \in ParallelNodes : WF_graphVars(NodeSteps(n))

-----------------------------------------------------------------------------
GraphTypeOK ==
    /\ tc.complexity \in Routes /\ tc.progress \in 0 .. 100 /\ tc.tokens \in Nat
    /\ \A i \in DOMAIN tc.subtasks : tc.subtasks[i].deps \subseteq DOMAIN tc.subtasks
    /\ \A i \in DOMAIN rules : rules[i].words \subseteq UNION Goals
    /\ outcome \in {"none", "error", "success"}
    /\ got \in 0 .. Cardinality(ParallelNodes) /\ Len(results) <= Cardinality(ParallelNodes)

(* The answers whose tokens a node adds to the context.                      *)
Counted == {i \in DOMAIN answers : answers[i] # "medium_decomposer"}

(* The route's nodes are only the simple executor, or only ReAct: the nodes  *)
(* that report a failed call.                                                *)
OneCaller == route = "simple" \/ (graph = "eino" /\ route = "medium")

(* What the result of a graph with one node at a time says of the calls that *)
(* its nodes made.  It counts the tokens of each answered call once, but for *)
(* the medium decomposer's, which no node counts (nodes.go:472).  Its        *)
(* summary ends with the last of the answers counted: a call that failed     *)
(* later on the complex path took nothing back (nodes.go:696, 801).  And a   *)
(* task that was routed to the simple executor or to ReAct is a success only *)
(* when a call was answered (nodes.go:374).  The parallel executor, which    *)
(* loses and doubles tokens, is not in it.                                   *)
ResultAccounts ==
    graph # "parallel" /\ outcome = "success" =>
        LET s == result.summary IN
        /\ result.tokens = Cardinality(Counted)
        /\ \A i \in Counted : (\A j \in Counted : j <= i) => s # <<>> /\ s[Len(s)] = answers[i]
        /\ hasLLM /\ OneCaller => answers # <<>>

(* Every invocation returns, and every goroutine that the parallel executor  *)
(* started ends, also when an error made it return before it received from   *)
(* them (full_graph.go:255).                                                 *)
GraphEnds ==
    (outcome = "none" /\ ~At("invoke"))
        ~> (outcome # "none" /\ \A n \in ParallelNodes : pnode[n] \in {"none", "ended"})

-----------------------------------------------------------------------------
(* The inductive invariant behind ResultAccounts.  It is about the graphs    *)
(* with one node at a time; the parallel executor keeps it by not being one. *)

(* What can be left of the chains, while nothing is answered yet ...         *)
FreshStages ==
    {<<"invoke">>, <<"analyzer">>, SimplePath, MediumPath, ComplexPath,
     <<"medium_executor", "result_merger">>, <<"simple_exec", "aggregator">>, <<"decomposer", "aggregator">>}

(* ... and when some nodes may have answered.                                *)
AnsweredStages ==
    {<<"strategist", "executor", "guardian", "tester", "result_merger">>,
     <<"executor", "guardian", "tester", "result_merger">>, <<"guardian", "tester", "result_merger">>,
     <<"tester", "result_merger">>, <<"result_merger">>, <<"aggregator">>}

Authors ==
    {"simple_executor", "simple_exec", "observer", "executor", "guardian", "tester", "react", "subtask", "aggregator"}

PlannedSubtasks ==
    [type : {"analysis", "coding", "research", "review", "testing"}, deps : SUBSET Nat, done : BOOLEAN]

ContextTyped ==
    /\ DOMAIN tc = {"complexity", "subtasks", "summary", "tokens", "progress"}
    /\ tc.summary \in Seq(Authors) /\ tc.tokens \in Nat
    /\ tc.subtasks \in Seq(PlannedSubtasks)

(* The answers so far are accounted for in the context of the summary and    *)
(* the tokens.                                                               *)
Accounts(summary, tokens) ==
    /\ tokens = Len(answers)
    /\ answers # <<>> => summary # <<>> /\ summary[Len(summary)] = answers[Len(answers)]

(* The medium path: one answer at most, which is not counted.                *)
Decomposed == answers = <<"medium_decomposer">> /\ tc.tokens = 0

(* ReAct counts for itself until its last iteration.                         *)
RunningInv ==
    \/ todo \in FreshStages /\ answers = <<>> /\ tc.tokens = 0 /\ total.tokens = 0
    \/ todo \in {<<"medium_executor", "result_merger">>, <<"result_merger">>} /\ Decomposed
    \/ todo \in AnsweredStages /\ Accounts(tc.summary, tc.tokens) /\ answers \in Seq(Authors)
    \/ /\ todo = <<"react", "aggregator">> /\ total.tokens = Len(answers) /\ tc.tokens = 0
       /\ answers \in Seq(Authors) /\ (answers # <<>> => hasLLM)

(* Where only one node calls, nothing is merged before it was answered.      *)
OneCallerInv ==
    hasLLM /\ OneCaller =>
        \/ todo \in {<<"invoke">>, <<"analyzer">>, SimplePath, <<"simple_exec", "aggregator">>,
                     <<"react", "aggregator">>}
        \/ answers # <<>>

GraphInv ==
    graph # "parallel" =>
        /\ \A n \in ParallelNodes : pnode[n] = "none"
        /\ outcome \in {"none", "error", "success"}
        /\ outcome = "none" => ContextTyped /\ RunningInv /\ OneCallerInv
        /\ ResultAccounts

-----------------------------------------------------------------------------
(* What comments of the code say; the code does not keep it.                 *)

(* "Merge summaries" and TokensUsed: the tokens of the nodes, added up. *)
MergedTokensAreSpent ==
    graph = "parallel" /\ outcome = "success" => result.tokens = Len(answers)

(* The context is the caller's again when the parallel executor returns. *)
ReturnedIsFinal == [][outcome # "none" => tc' = tc]_graphVars

(* "TokensUsed" of a result are those that were used. *)
TokensAreUsed ==
    graph \in {"task", "full"} /\ outcome = "success" => result.tokens = Len(answers)

(* "Success": something was answered. *)
SuccessNeedsAnswer == graph # "parallel" /\ outcome = "success" /\ hasLLM => answers # <<>>

(* The route of the task graph is the complexity its analyzer put in the context. *)
RouteIsComplexity == graph = "task" /\ At("observer") => tc.complexity = "complex"
=============================================================================
