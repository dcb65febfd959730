------------------------------ MODULE GitTools ------------------------------
(***************************************************************************)
(* The git tools of the agents (internal/agent/tools/git.go) and the       *)
(* client under them (plugins/gitclient/client.go): several agents work in *)
(* one clone, each tool call opens the repository anew and nothing locks   *)
(* it.  go-git is external: its Add reads the index, then the file, and    *)
(* writes the whole index back; its Commit reads index and HEAD and sets   *)
(* HEAD, comparing nothing.  The content of a file is the number of the    *)
(* write it comes from, negative for a removal.                            *)
(***************************************************************************)
EXTENDS Integers, FiniteSets

CONSTANTS
    Agents, Files, Branches,
    ProtectedBranches,
    MaxWrites            \* bound: writes and removals of files

ASSUME GitToolsAssumption == ProtectedBranches \subseteq Branches /\ MaxWrites \in Nat

VARIABLES
    work,     \* work[f]: the working tree
    index,    \* index[f]: the staging area
    branch,   \* the branch that was cloned, HEAD
    tip,      \* tip[f]: the tree of its last commit
    pushed,   \* pushed[b]: the tree that the remote has
    writes,   \* how many writes there were
    call,     \* call[a]: the GitCommit of a: its step, the files to add, what it
              \* saw, and go-git's copies: index and HEAD as read, the index it made
    held,     \* held[a]: the contents that a's last successful commit reported
    voided    \* the agents whose last report was made before a lost update

gitToolVars == <<work, index, branch, tip, pushed, writes, call, held, voided>>

Absent(v) == v <= 0
Same(v, w) == v = w \/ (Absent(v) /\ Absent(w))
Age(v) == IF v < 0 THEN -v ELSE v
Nothing == [f \in Files |-> 0]
NoCall == [step |-> "none", todo |-> {}, seen |-> Nothing,
           base |-> Nothing, head |-> Nothing, made |-> Nothing, spoiled |-> FALSE]

(* GitClone of any branch; every file is at version 0, absent. *)
GitToolsInit ==
    /\ work = Nothing /\ index = Nothing /\ tip = Nothing
    /\ branch \in Branches
    /\ pushed = [b \in Branches |-> Nothing]
    /\ writes = 0
    /\ call = [a \in Agents |-> NoCall]
    /\ held = [a \in Agents |-> Nothing] /\ voided = {}

-----------------------------------------------------------------------------
(* The status of go-git: index against commit, working tree against index.   *)

Staging(f) ==
    IF Absent(index[f]) /\ ~Absent(work[f]) THEN "untracked"
    ELSE IF Same(index[f], tip[f]) THEN "unmodified"
    ELSE IF Absent(tip[f]) THEN "added"
    ELSE IF Absent(index[f]) THEN "deleted" ELSE "modified"

Worktree(f) ==
    IF Same(index[f], work[f]) THEN "unmodified"
    ELSE IF Absent(index[f]) THEN "untracked"
    ELSE IF Absent(work[f]) THEN "deleted" ELSE "modified"

Status == {f \in Files : Staging(f) # "unmodified" \/ Worktree(f) # "unmodified"}

(* The lists that GitStatus shows. *)
Staged == {f \in Status : Staging(f) # "unmodified"}
Modified == {f \in Status : Staging(f) = "unmodified" /\ Worktree(f) # "unmodified"}
Untracked == {f \in Status : Staging(f) = "untracked"}

(* GitDiff of the working tree names what the status names; of the index it  *)
(* names what differs from HEAD and can be read in the working tree.         *)
DiffStaged == {f \in Files : ~Absent(index[f]) /\ ~Same(index[f], tip[f]) /\ ~Absent(work[f])}

-----------------------------------------------------------------------------
(* The file tools, a command, or WriteFile. *)
FileWritten(f) ==
    /\ writes < MaxWrites
    /\ writes' = writes + 1
    /\ \/ work' = [work EXCEPT ![f] = writes + 1]
       \/ ~Absent(work[f]) /\ work' = [work EXCEPT ![f] = -(writes + 1)]
    /\ UNCHANGED <<index, branch, tip, pushed, call, held, voided>>

(* What a commit called now reports as committed, where it succeeds: of a    *)
(* file that needs no Add, what the index has.                               *)
Promised == [f \in Files |-> IF Same(index[f], work[f]) THEN index[f] ELSE work[f]]

(* GitCommit opens the repository and reads its status.  A clean tree is     *)
(* reported as a success.                                                    *)
CommitStatus(a) ==
    /\ call[a].step = "none"
    /\ IF Status = {}
         THEN held' = [held EXCEPT ![a] = Promised] /\ voided' = voided \ {a} /\ UNCHANGED call
         ELSE /\ call' = [call EXCEPT ![a] = [NoCall EXCEPT !.step = "adding", !.todo = Status,
                                                          !.seen = Promised]]
              /\ UNCHANGED <<held, voided>>
    /\ UNCHANGED <<work, index, branch, tip, pushed, writes>>

(* Add reads the index. *)
AddReads(a) ==
    /\ call[a].step = "adding" /\ call[a].todo # {}
    /\ call' = [call EXCEPT ![a] = [@ EXCEPT !.step = "reading", !.base = index]]
    /\ UNCHANGED <<work, index, branch, tip, pushed, writes, held, voided>>

(* Mutant: Add stages the content that the status was made from. *)
AddSeen(a, f) ==
    /\ call[a].step = "reading" /\ f \in call[a].todo
    /\ call' = [call EXCEPT ![a] = [call[a] EXCEPT !.step = "staging", !.todo = call[a].todo \ {f},
                                                !.made = [call[a].base EXCEPT ![f] = call[a].seen[f]]]]
    /\ UNCHANGED <<work, index, branch, tip, pushed, writes, held, voided>>

(* It takes what the file holds now, or its removal, and fails for a file    *)
(* that neither the working tree nor the index has.                          *)
AddFile(a, f) ==
    /\ call[a].step = "reading" /\ f \in call[a].todo
    /\ IF Absent(work[f]) /\ Absent(call[a].base[f])
         THEN call' = [call EXCEPT ![a] = NoCall]
         ELSE call' = [call EXCEPT ![a] = [call[a] EXCEPT !.step = "staging", !.todo = call[a].todo \ {f},
                                                       !.made = [call[a].base EXCEPT ![f] = work[f]]]]
    /\ UNCHANGED <<work, index, branch, tip, pushed, writes, held, voided>>

(* A write from a copy that is stale by now undoes what others wrote: no     *)
(* report so far, and of no commit under way, can be relied on.              *)
LostUpdate == voided' = Agents
Spoil(c) == [b \in Agents |-> IF c[b].step = "none" THEN c[b] ELSE [c[b] EXCEPT !.spoiled = TRUE]]

(* It writes the whole index back, over whatever is there by now. *)
AddWrites(a) ==
    /\ call[a].step = "staging"
    /\ index' = call[a].made
    /\ LET next == [call EXCEPT ![a] = [@ EXCEPT !.step = "adding", !.base = Nothing, !.made = Nothing]]
       IN  \/ index = call[a].base /\ call' = next /\ UNCHANGED voided
           \/ index # call[a].base /\ call' = Spoil(next) /\ LostUpdate
    /\ UNCHANGED <<work, branch, tip, pushed, writes, held>>

(* Commit takes the whole index; go-git refuses one that changes nothing. *)
CommitReads(a) ==
    /\ call[a].step = "adding" /\ call[a].todo = {}
    /\ call' = [call EXCEPT ![a] =
                    IF \A f \in Files : Same(index[f], tip[f]) THEN NoCall
                    ELSE [@ EXCEPT !.step = "committing", !.base = index, !.head = tip, !.made = index]]
    /\ UNCHANGED <<work, index, branch, tip, pushed, writes, held, voided>>

(* HEAD is set, whatever it is by now, and the commit is reported. *)
CommitMade(a) ==
    /\ call[a].step = "committing"
    /\ tip' = call[a].made
    /\ held' = [held EXCEPT ![a] = call[a].seen]
    /\ LET next == [call EXCEPT ![a] = NoCall]
       IN  \/ /\ index = call[a].base /\ tip = call[a].head /\ call' = next
             /\ voided' = IF call[a].spoiled THEN voided \cup {a} ELSE voided \ {a}
          \/ /\ index # call[a].base \/ tip # call[a].head
             /\ call' = Spoil(next) /\ LostUpdate
    /\ UNCHANGED <<work, index, branch, pushed, writes>>

(* Any call of go-git may fail; what was staged stays. *)
CommitFails(a) ==
    /\ call[a].step # "none"
    /\ call' = [call EXCEPT ![a] = NoCall]
    /\ UNCHANGED <<work, index, branch, tip, pushed, writes, held, voided>>

(* Push of the branch of HEAD and PushBranch of a given one: never of a      *)
(* protected one, and only of one there is.  The remote may refuse, or be    *)
(* away: then nothing changes.                                               *)
Push(b) ==
    /\ b \notin ProtectedBranches /\ b = branch
    /\ pushed' = [pushed EXCEPT ![b] = tip]
    /\ UNCHANGED <<work, index, branch, tip, writes, call, held, voided>>

GitPush(a) == call[a].step = "none" /\ \E b \in Branches : Push(b)

GitToolsNext ==
    \/ \E f \in Files : FileWritten(f)
    \/ \E a \in Agents :
          \/ CommitStatus(a) \/ AddReads(a) \/ AddWrites(a) \/ CommitReads(a) \/ CommitMade(a)
          \/ CommitFails(a) \/ GitPush(a)
          \/ \E f \in Files : AddFile(a, f)

GitToolsSpec == GitToolsInit /\ [][GitToolsNext]_gitToolVars

-----------------------------------------------------------------------------
CommitSteps == {"none", "adding", "reading", "staging", "committing"}

GitToolsTypeOK ==
    /\ \A f \in Files : {work[f], index[f], tip[f]} \subseteq -MaxWrites .. MaxWrites
    /\ \A a \in Agents : call[a].step \in CommitSteps /\ call[a].todo \subseteq Files
    /\ voided \subseteq Agents

(* v is w, or a later content of the file.                                   *)
Covers(v, w) == Same(v, w) \/ Age(v) >= Age(w)

(* When GitCommit has reported success, the branch has what it reported of   *)
(* each file, or a later content, although other agents stage, commit and    *)
(* write in the same tree (client.go:194).  Excepted are reports of calls    *)
(* that began before a lost update: go-git locks nothing, and whoever writes *)
(* back an index or a HEAD that another has changed since it read undoes it. *)
CommittedWrites ==
    \A a \in Agents \ voided : \A f \in Files : Covers(tip[f], held[a][f])

-----------------------------------------------------------------------------
(* The inductive invariant behind CommittedWrites.                           *)

Contents == [Files -> Int]

Calls == [step : CommitSteps, todo : SUBSET Files, seen : Contents, base : Contents, head : Contents,
          made : Contents, spoiled : BOOLEAN]

GitToolsFunctions ==
    /\ work \in Contents /\ index \in Contents /\ tip \in Contents
    /\ writes \in Nat
    /\ call \in [Agents -> Calls]
    /\ held \in [Agents -> Contents]

(* The contents x are no newer than the contents y.                          *)
NotNewer(x, y) == \A f \in Files : Age(x[f]) <= Age(y[f])

(* The working tree is the newest there is, and an index that go-git makes   *)
(* is no older than the one it is made from.                                 *)
CallNotNewer(c) ==
    /\ NotNewer(c.seen, work) /\ NotNewer(c.base, work) /\ NotNewer(c.made, work)
    /\ c.step = "staging" => NotNewer(c.base, c.made)
    /\ c.step = "committing" => c.made = c.base /\ c.todo = {}

WorkIsNewest ==
    /\ \A f \in Files : Age(work[f]) <= writes
    /\ NotNewer(index, work)
    /\ \A a \in Agents : CallNotNewer(call[a])

(* What a commit under way has added, or did not need to add, is staged: in  *)
(* its copy of the index while it has one.                                   *)
OwnIndex(c) ==
    IF c.step = "reading" THEN c.base
    ELSE IF c.step \in {"staging", "committing"} THEN c.made ELSE index
CallIsStaged(c) ==
    c.step # "none" /\ ~c.spoiled =>
        \A f \in Files \ c.todo : Age(c.seen[f]) <= Age(OwnIndex(c)[f])

(* The index and the last commit keep what was reported, so that the next    *)
(* commit of anybody does.  Lost updates spoil this for the calls before.    *)
IndexCovers ==
    \A a \in Agents :
        /\ CallIsStaged(call[a])
        /\ a \notin voided => NotNewer(held[a], index) /\ \A f \in Files : Covers(tip[f], held[a][f])

GitToolsInv == GitToolsFunctions /\ WorkIsNewest /\ IndexCovers

-----------------------------------------------------------------------------
(* What comments of the code say; the code does not keep it.                 *)

(* "Commit commits changes": a commit that was reported stays. *)
ReportsStay == \A a \in Agents, f \in Files : Covers(tip[f], held[a][f])

(* "files in staging area": what Staged lists is in the index. *)
StagedAreStaged == \A f \in Staged : Staging(f) # "untracked"

(* "modified files in worktree": Modified lists every one. *)
ModifiedListed == \A f \in Status : Worktree(f) = "modified" => f \in Modified

(* "the diff of staged changes": it has every staged change. *)
DiffShowsStaged == \A f \in Files : Staging(f) \in {"added", "modified", "deleted"} => f \in DiffStaged
=============================================================================
