------------------------------ MODULE MCAgents -------------------------------
(***************************************************************************)
(* What does the work, and shares no state: the two pools, the aggregate,  *)
(* and the loop, the tools and the contexts of agents.  A behaviour is one *)
(* of one of them.                                                         *)
(***************************************************************************)
EXTENDS WorkerPool, GitWorkerPool, TaskAggregate, GitTools, FileTools, ContextStore,
        ReActAgent

CONSTANTS s1, s2, g1, g2, a1, a2, f1, f2, main, dev, x, y

MCMessages == {[role |-> "user", priority |-> 5], [role |-> "agent", priority |-> 0],
               [role |-> "system", priority |-> 5]}
MCFiles == {[path |-> "p", change |-> "modified", priority |-> 0],
            [path |-> "p", change |-> "created", priority |-> 10]}
MCTools == {"work", "final_answer"}

VARIABLE service   \* the one that this behaviour is about

mcVars == <<service, workerPoolVars, gitPoolVars, aggVars, gitToolVars, fileVars, contextVars, reactVars>>

(* The others rest in one of their initial states. *)
MCInit ==
    /\ service \in {"pool", "gitpool", "aggregate", "gittools", "files", "context", "react"}
    /\ WorkerPoolInit /\ GitPoolInit /\ AggInit /\ GitToolsInit /\ FileInit /\ ContextInit /\ ReActInit
    /\ service # "aggregate" => aggType = "Task"
    /\ service # "gittools" => branch = main
    /\ service # "files" => disk = [n \in FileNames |-> NoFile]
    /\ service # "react" => pool = {} /\ ~input /\ registry = ToolNames

WorkerPoolMoves ==
    /\ service = "pool" /\ WorkerPoolNext
    /\ UNCHANGED <<service, gitPoolVars, aggVars, gitToolVars, fileVars, contextVars, reactVars>>
GitPoolMoves ==
    /\ service = "gitpool" /\ GitPoolNext
    /\ UNCHANGED <<service, workerPoolVars, aggVars, gitToolVars, fileVars, contextVars, reactVars>>
AggregateMoves ==
    /\ service = "aggregate" /\ AggNext
    /\ UNCHANGED <<service, workerPoolVars, gitPoolVars, gitToolVars, fileVars, contextVars, reactVars>>
GitToolsMoves ==
    /\ service = "gittools" /\ GitToolsNext
    /\ UNCHANGED <<service, workerPoolVars, gitPoolVars, aggVars, fileVars, contextVars, reactVars>>
FileToolsMoves ==
    /\ service = "files" /\ FileNext
    /\ UNCHANGED <<service, workerPoolVars, gitPoolVars, aggVars, gitToolVars, contextVars, reactVars>>
ContextMoves ==
    /\ service = "context" /\ ContextNext
    /\ UNCHANGED <<service, workerPoolVars, gitPoolVars, aggVars, gitToolVars, fileVars, reactVars>>
ReActMoves ==
    /\ service = "react" /\ ReActNext
    /\ UNCHANGED <<service, workerPoolVars, gitPoolVars, aggVars, gitToolVars, fileVars, contextVars>>

MCNext == WorkerPoolMoves \/ GitPoolMoves \/ AggregateMoves \/ GitToolsMoves \/ FileToolsMoves \/ ContextMoves \/ ReActMoves

MCSpec ==
    /\ MCInit /\ [][MCNext]_mcVars
==============================================================================
