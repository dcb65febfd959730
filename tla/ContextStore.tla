---------------------------- MODULE ContextStore ----------------------------
(***************************************************************************)
(* The context of a task: the aggregate (internal/domain/context/          *)
(* context.go), its compression by rules (compress.go) and by summaries    *)
(* (internal/service/context/compressor.go), its propagation to agents     *)
(* (context_service.go) and the copy in Redis                              *)
(* (internal/infra/cache/task_context_cache.go).  The time of an item is   *)
(* its number; a message, a constraint and a file state cost one token     *)
(* each; texts are left out.  Each call on a context in memory is a step;  *)
(* Propagate reads the cache in one and writes it in another.              *)
(***************************************************************************)
EXTENDS Naturals, Integers, Sequences, SequencesExt

CONSTANTS
    ContextAgents,              \* who works on a context of the task
    MessageKinds,        \* what messages are added: [role, priority]
    FileKinds,           \* what file states: [path, change, priority]
    TokenBudget,
    PreserveRecentMessages, PreserveRecentFiles,   \* of the default compressor
    SummaryRecent,       \* PreserveRecentMessages of the summariser
    KeptFiles,           \* compressFileStatesL1: 5
    AutoSelectThreshold, PreferQuality,
    MaxItems             \* bound: items made in all

(* MessageRole, and what IsValid accepts. *)
MessageRoles == {"user", "agent", "system"}

ASSUME ContextAssumption ==
    /\ TokenBudget \in Nat \ {0} /\ PreferQuality \in BOOLEAN
    /\ {PreserveRecentMessages, PreserveRecentFiles, SummaryRecent, KeptFiles, AutoSelectThreshold} \subseteq Nat
    /\ MessageKinds \subseteq [role : MessageRoles, priority : Int] /\ MaxItems \in Nat

VARIABLES
    context,   \* context[a]: the TaskContext that a works on
    cached,    \* the context under the key of the task, or NoContext
    reading,   \* reading[a]: the propagation that a has begun: mode and source
    items,     \* how many items there are
    due,       \* due[a]: the hard constraints that a was given or has added
    lost       \* the operations that dropped one of the most recent messages

contextVars == <<context, cached, reading, items, due, lost>>

NewTaskContext == [messages |-> <<>>, constraints |-> <<>>, files |-> <<>>, tokensUsed |-> 0]
NoContext == [NewTaskContext EXCEPT !.tokensUsed = -1]
NotReading == [mode |-> "none", src |-> NoContext]

ContextInit ==
    /\ context = [a \in ContextAgents |-> NewTaskContext]
    /\ cached = NoContext /\ reading = [a \in ContextAgents |-> NotReading]
    /\ items = 0 /\ due = [a \in ContextAgents |-> {}] /\ lost = {}

TotalTokens(tc) == tc.tokensUsed + Len(tc.constraints) + Len(tc.files)
IsBudgetExceeded(tc) == TotalTokens(tc) > TokenBudget
RecalculateTokens(tc) == [tc EXCEPT !.tokensUsed = Len(tc.messages)]
IsHard(k) == k.hard
HardIds(tc) == {c.id : c \in {k \in ToSet(tc.constraints) : IsHard(k)}}

(* The elements of seq at these places, in their order. *)
Earlier(places, i) == {j \in places : j < i}
AtPlaces(seq, places) ==
    [k \in 1 .. Cardinality(places) |-> seq[CHOOSE i \in places : Cardinality(Earlier(places, i)) = k - 1]]

WithoutItems(seq, ids) == AtPlaces(seq, {i \in DOMAIN seq : seq[i].id \notin ids})
Newest(seq, n) == {seq[i].id : i \in {j \in DOMAIN seq : j > Len(seq) - n}}

-----------------------------------------------------------------------------
(* The aggregate.                                                            *)

Works(a, tc) == context' = [context EXCEPT ![a] = tc] /\ reading[a] = NotReading
NewItem == items < MaxItems /\ items' = items + 1

NewMessage(id, kind) == [id |-> id, role |-> kind.role, priority |-> kind.priority]
NewFileState(id, kind) == [id |-> id, path |-> kind.path, change |-> kind.change, priority |-> kind.priority]

AddMessage(a, kind) ==
    /\ NewItem
    /\ Works(a, [context[a] EXCEPT !.messages = Append(@, NewMessage(items', kind)), !.tokensUsed = @ + 1])
    /\ UNCHANGED <<cached, reading, due, lost>>

AddConstraint(a, hard) ==
    /\ NewItem
    /\ Works(a, [context[a] EXCEPT !.constraints = Append(@, [id |-> items', hard |-> hard])])
    /\ due' = [due EXCEPT ![a] = @ \cup IF hard THEN {items'} ELSE {}]
    /\ UNCHANGED <<cached, reading, lost>>

AddFileState(a, kind) ==
    /\ NewItem
    /\ Works(a, [context[a] EXCEPT !.files = Append(@, NewFileState(items', kind))])
    /\ UNCHANGED <<cached, reading, due, lost>>

-----------------------------------------------------------------------------
(* Compressor.Compress.  What is sorted first goes first: the lowest         *)
(* priority number and, within it, the newest.                               *)

FirstToGo(x, y) == x.priority < y.priority \/ (x.priority = y.priority /\ x.id > y.id)

(* The first `excess` of the sorted items that may be removed.               *)
ToRemove(seq, excess, may) ==
    LET open == SelectSeq(SortSeq(seq, FirstToGo), LAMBDA x : x \in may)
    IN {open[i].id : i \in 1 .. (IF excess < Len(open) THEN excess ELSE Len(open))}

MayGoMessage(x) == x.role # "system" /\ ~(x.role = "user" /\ x.priority < 5)
CompressMessages(tc, keep) ==
    IF Len(tc.messages) <= keep THEN tc
    ELSE RecalculateTokens([tc EXCEPT !.messages =
             WithoutItems(@, ToRemove(@, Len(@) - keep, {m \in ToSet(@) : MayGoMessage(m)}))])

MayGoFile(f) == f.change \notin {"deleted", "created"}
CompressFileStates(tc, keep) ==
    IF Len(tc.files) <= keep THEN tc
    ELSE [tc EXCEPT !.files = WithoutItems(@, ToRemove(@, Len(@) - keep, {f \in ToSet(@) : MayGoFile(f)}))]

Hard(seq) == AtPlaces(seq, {i \in DOMAIN seq : IsHard(seq[i])})
(* Soft constraints are in the order they were made: their priority is 0.    *)
Soft(seq) == AtPlaces(seq, {i \in DOMAIN seq : ~IsHard(seq[i])})

(* Mutant: the oldest constraints go, hard or not. *)
CompressConstraintsBlindly(tc, percent) ==
    LET cut == (Len(tc.constraints) * percent) \div 100
    IN [tc EXCEPT !.constraints = SubSeq(@, cut + 1, Len(@))]

(* compressConstraints: the first of the soft ones go. *)
CompressConstraints(tc, percent) ==
    LET soft == Soft(tc.constraints)
        cut == (Len(soft) * percent) \div 100
    IN IF soft = <<>> THEN tc
       ELSE [tc EXCEPT !.constraints = Hard(@) \o SubSeq(soft, cut + 1, Len(soft))]

Compress(tc, keepMessages, keepFiles, percent) ==
    IF ~IsBudgetExceeded(tc) THEN tc
    ELSE RecalculateTokens(
             CompressConstraints(
                 CompressFileStates(CompressMessages(tc, keepMessages), keepFiles), percent))

(* The two compressors that are built: the default one and, in              *)
(* CompressToBudget, an aggressive one with both limits halved.  Nothing     *)
(* outside the tests makes one with another strategy (L1Strategy is a field  *)
(* that nobody reads).                                                       *)
Moderate(tc) == Compress(tc, PreserveRecentMessages, PreserveRecentFiles, 30)
Halved(tc) == Compress(tc, PreserveRecentMessages \div 2, PreserveRecentFiles \div 2, 50)

(* At most five more rounds; a round that is within the budget of the        *)
(* context changes nothing, whatever the target.                             *)
Round(tc, target) == IF TotalTokens(tc) > target THEN Halved(tc) ELSE tc
CompressToBudget(tc, target) ==
    LET twice(c) == Round(Round(c, target), target)
    IN RecalculateTokens(twice(twice(Round(Moderate(tc), target))))

-----------------------------------------------------------------------------
(* The intelligent compressor.                                               *)

(* What SummarizeMessages makes of the messages: a summary and the recent    *)
(* ones; when the model fails, the older ones by rule, and no recent ones.   *)
Summaries(messages, id) ==
    LET cut == Len(messages) - SummaryRecent
        older == SubSeq(messages, 1, cut)
        summary == <<[id |-> id, role |-> "agent", priority |-> -1]>>
        kept == AtPlaces(older, {i \in DOMAIN older : older[i].role = "system" \/ older[i].priority < 5})
    IN {summary \o SubSeq(messages, cut + 1, Len(messages)),
        IF kept = older THEN kept ELSE summary \o kept}

(* compressFileStatesL1: the sorted states that are kept, the last of each   *)
(* path, in the order in which the paths came up.                            *)
SummaryFiles(files) ==
    LET sorted == SortSeq(files, FirstToGo)
        kept == FoldLeft(LAMBDA acc, f :
                    IF MayGoFile(f) /\ f.priority >= 10 /\ Len(acc) > KeptFiles THEN acc
                    ELSE Append(acc, f), <<>>, sorted)
        last(p) == SelectLastInSeq(kept, LAMBDA f : f.path = p)
        first(i) == \A j \in 1 .. i - 1 : files[j].path # files[i].path
        places == SelectSeq([i \in DOMAIN files |-> i], LAMBDA i : first(i) /\ last(files[i].path) > 0)
    IN IF Len(files) <= KeptFiles THEN files
       ELSE [i \in DOMAIN places |-> kept[last(files[places[i]].path)]]

(* compressConstraintsL1: the older half of the soft ones, at least one.     *)
SummaryConstraints(seq) ==
    LET soft == Soft(seq)
        keep == IF Len(soft) < 2 THEN 1 ELSE Len(soft) \div 2
    IN IF soft = <<>> THEN seq ELSE Hard(seq) \o SubSeq(soft, 1, keep)

SelectLevel(tc) ==
    IF TotalTokens(tc) > AutoSelectThreshold \/ PreferQuality THEN "l3" ELSE "l1"

(* Mutant: the tokens are not counted again. *)
SummarisedUncounted(tc, messages) ==
    [tc EXCEPT !.messages = messages, !.files = SummaryFiles(@), !.constraints = SummaryConstraints(@)]

(* compressL3 with these messages.                                           *)
Summarised(tc, messages) ==
    RecalculateTokens([tc EXCEPT !.messages = messages, !.files = SummaryFiles(@),
                                 !.constraints = SummaryConstraints(@)])

Loses(op, from, to, keep) ==
    lost' = IF Newest(from.messages, keep) \subseteq {to.messages[i].id : i \in DOMAIN to.messages}
            THEN lost ELSE lost \cup {op}

(* Compressor.Compress and IntelligentCompressor.Compress at level l1.       *)
CompressByRule(a) ==
    LET tc == context[a]
    IN /\ IsBudgetExceeded(tc)
       /\ Works(a, Moderate(tc))
       /\ Loses("rule", tc, Moderate(tc), PreserveRecentMessages)
       /\ UNCHANGED <<cached, reading, items, due>>

CompressBySummary(a) ==
    LET tc == context[a]
    IN /\ IsBudgetExceeded(tc) /\ SelectLevel(tc) = "l3"
       /\ IF Len(tc.messages) > SummaryRecent
          THEN /\ NewItem
               /\ \E messages \in Summaries(tc.messages, items') :
                     /\ Works(a, Summarised(tc, messages))
                     /\ Loses("summary", tc, Summarised(tc, messages), SummaryRecent)
          ELSE Works(a, Summarised(tc, tc.messages)) /\ UNCHANGED <<items, lost>>
       /\ UNCHANGED <<cached, reading, due>>

-----------------------------------------------------------------------------
(* The cache and the propagation.                                            *)

CacheContext(a) ==
    /\ reading[a] = NotReading
    /\ cached' = context[a] /\ UNCHANGED <<context, reading, items, due, lost>>

(* InvalidateCache, or the key expires.                                      *)
InvalidateCache == cached' = NoContext /\ UNCHANGED <<context, reading, items, due, lost>>

(* getSourceContext: a miss and a failure give an empty context.             *)
GetSourceContext(a, mode) ==
    /\ reading[a] = NotReading
    /\ \E src \in {cached, NoContext} :
          reading' = [reading EXCEPT ![a] =
              [mode |-> mode, src |-> IF src = NoContext THEN NewTaskContext ELSE src]]
    /\ UNCHANGED <<context, cached, items, due, lost>>

Given(a, tc) ==
    /\ context' = [context EXCEPT ![a] = tc]
    /\ due' = [due EXCEPT ![a] = HardIds(reading[a].src)]
    /\ reading' = [reading EXCEPT ![a] = NotReading]
    /\ UNCHANGED <<items, lost>>

PropagateFull(a) == reading[a].mode = "full" /\ Given(a, reading[a].src) /\ UNCHANGED cached

PropagateSummary(a) ==
    /\ reading[a].mode = "summary"
    /\ Given(a, CompressToBudget(reading[a].src, (TokenBudget * 3) \div 4))
    /\ UNCHANGED cached

(* The last delta is looked up under a key that nothing is stored at, so the *)
(* delta is the whole source; it is stored as the context of the task.       *)
PropagateDelta(a) ==
    /\ reading[a].mode = "delta"
    /\ Given(a, reading[a].src)
    /\ cached' \in {reading[a].src, cached}

ContextNext ==
    \/ \E a \in ContextAgents :
          \/ \E k \in MessageKinds : AddMessage(a, k)
          \/ \E k \in FileKinds : AddFileState(a, k)
          \/ \E hard \in BOOLEAN : AddConstraint(a, hard)
          \/ CompressByRule(a) \/ CompressBySummary(a) \/ CacheContext(a)
          \/ \E mode \in {"full", "summary", "delta"} : GetSourceContext(a, mode)
          \/ PropagateFull(a) \/ PropagateSummary(a) \/ PropagateDelta(a)
    \/ InvalidateCache

-----------------------------------------------------------------------------
Contexts == {context[a] : a \in ContextAgents} \cup {reading[a].src : a \in ContextAgents} \cup {cached}

(* Types.                                                                    *)
ContextTypeOK ==
    /\ items \in 0 .. MaxItems /\ lost \subseteq {"rule", "summary"}
    /\ \A tc \in Contexts \ {NoContext} :
          \A m \in ToSet(tc.messages) \cup ToSet(tc.constraints) \cup ToSet(tc.files) : m.id \in 1 .. items

(* Whatever is compressed, summarised, cached and handed on, in whatever     *)
(* order, an agent has every hard constraint it added, or that the context   *)
(* it was given was made from.                                               *)
HardConstraintsKept == \A a \in ContextAgents : due[a] \subseteq HardIds(context[a])

(* TokensUsed, which is kept up step by step, is the cost of the messages    *)
(* that are there, in every context in memory and in the cache: the budget   *)
(* decisions are made on it.                                                 *)
TokensAgree == \A tc \in Contexts \ {NoContext} : tc.tokensUsed = Len(tc.messages)

-----------------------------------------------------------------------------
(* The inductive invariant behind HardConstraintsKept and TokensAgree.       *)

ContextSpec == ContextInit /\ [][ContextNext]_contextVars

Messages == [id : Nat, role : MessageRoles, priority : Int]
Constraints == [id : Nat, hard : BOOLEAN]

(* A context whose cost is counted. *)
Counted(tc) ==
    /\ DOMAIN tc = DOMAIN NewTaskContext
    /\ tc.messages \in Seq(Messages) /\ tc.constraints \in Seq(Constraints)
    /\ tc.tokensUsed = Len(tc.messages)

(* What a propagation has read, and what is in the cache, is counted too. *)
ContextInv ==
    /\ items \in Nat /\ (cached = NoContext \/ Counted(cached))
    /\ {DOMAIN context, DOMAIN reading, DOMAIN due} = {ContextAgents}
    /\ \A a \in ContextAgents :
          /\ Counted(context[a]) /\ due[a] \subseteq HardIds(context[a])
          /\ reading[a] = NotReading \/ Counted(reading[a].src)

-----------------------------------------------------------------------------
(* What the comments of the code say and it does not do.                     *)

(* Not true of the code: the most recent messages are always preserved.      *)
RecentPreserved == lost = {}

(* Not true of the code: for each path, the state that stays is the latest.  *)
(* (compressFileStatesL1, "most recent for each path")                       *)
LatestStateKept ==
    \A files \in {context[a].files : a \in ContextAgents} :
        \A i \in DOMAIN SummaryFiles(files), j \in DOMAIN files :
            SummaryFiles(files)[i].path = files[j].path => SummaryFiles(files)[i].id >= files[j].id
=============================================================================
