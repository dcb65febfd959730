# Verification of the Cloud Agent Platform

TLA+ models of the platform's task lifecycle and of the parts it runs on, the TLC
configurations that check them on small instances, and TLAPS proofs of the main safety
results for every size of the system. `PROJECT.json` holds the same facts in machine-readable
form: the source lines behind every definition (`map`), the runs, the mutants that show that
each property can fail, the hazards and the theorems.

To repeat the work, in this directory: `tlc -config TaskFaults.cfg MCTaskLifecycle` checks one
run (the table in section 4 lists all), `tlapm TaskLifecycleProofs.tla` checks the proofs of one
module; `ColdStartProofs`, `WorkerManagerProofs`, `ServicesProofs`, `ContainersProofs`,
`AgentsProofs`, `LLMProofs` and `GatewayProofs` are the others.

## 1. Inventory

The server (`src/cmd/server`) accepts coding tasks over HTTP and Connect, stores them in
PostgreSQL, starts an agent for each from an outbox, runs the agent in a Docker container, and
announces what happened in the same outbox.

```
 client ── TaskService ──> task table + outbox <── processOutbox (every server, a ticker)
              │                  ▲                      │ StartTask
              │ CancelTask       │ UpdateStatus         ▼
              └────────> Orchestrator ── goroutine: executeAgentSession ── Guardian (approval)
                                                   │ Execute
                                          OrchestratorAdapter
                                    ┌──────────────┴──────────────┐
                          GitContainers (one per project)   cold-start Scheduler
                                    └───────────── Docker ────────┘
```

| Component (source) | State it keeps | Operations | What is hard | What makes it correct |
|---|---|---|---|---|
| Task lifecycle (`internal/service`, `internal/orchestrator`, `cmd/server/main.go`, `internal/infra/persistence`, `internal/storage`) | task rows with a version, outbox rows with a unique idempotency key; per server a session map; per goroutine a copy of the task | Submit, Cancel, Retry, CancelTask, StartTask, agent session, processOutbox | two servers on one event; rows that change outside the transaction of their event; lost replies; crashes | rows follow the state machine, events agree with rows, one session per task, acknowledged submissions survive, submitted tasks end |
| Task state machine (`internal/domain`) | none | CanTransition, Trigger | event names that the table does not know | every stored change is an edge |
| Cold-start scheduler (`internal/scheduler/coldstart.go`, `docker_backend.go`) | map of handles with `closed` and `lastUsed`; Docker's containers and the backend's registry | Acquire, Exec, Close, Release, Run, idle cleanup, Start, Stop | check and store in two critical sections; three releasers of one handle; Docker calls that fail half way | one destroyer, no live container lost, bounded overshoot, abandoned containers reclaimed |
| Git containers (`internal/gitcontainer/manager.go`, `internal/scheduler/orchestrator_adapter.go`) | map project → container or nil placeholder; Docker names; host directories | Ensure, create, Cleanup, StopAll, Execute | placeholder protocol with unlocks in between, decided by `docker inspect`, which may fail; names outlive the server | one creator as long as its reservation is not deleted, entries name the current container, reservations are given back |
| Distributed lock (`internal/infra/cache/lock.go`, `watchdog.go`) | Redis key with token and ttl; flags and channels of the watchdog | Acquire, Release, Extend, StartWatchdog, Stop, StopOnly | expiry races renewal; Stop races the watchdog | a lease is exclusive, a release is final, a watchdog ends with its lock |
| Worker manager (`plugins/workermanager`) | pool of sandboxes with status, mutex | AcquireWorker, ExecOnWorker, Release, Destroy, health check, idle cleanup, Stop | status written under a read lock; health check destroys busy workers | one user per worker, pool limit, no sandbox lost |
| Worker pool (`internal/worker/pool`, over `internal/worker/sandbox`) | members with status, a minimum and a maximum, goroutines that destroy | Submit, Acquire, Release, scale, health check, cleanup, Stop | the same fast path; sandboxes destroyed by goroutines nobody waits for | no container forgotten, and until Stop a task keeps its worker, save in the races that section 7 names |
| Sandboxes (`internal/worker/sandbox`, `plugins/workermanager/cube_backend.go`) | external containers | Create, Exec, Destroy, Status | partial failure | none of their own: part of the pools' models |
| Outbox poller (`internal/infra/outbox`) | outbox rows with retry count | poll, publish to Redis Stream, mark, purge | SKIP LOCKED without a transaction; duplicates | at-least-once, given up only after the limit, settled in the end |
| Guardian (`internal/guardian`) | pending approvals with a channel each | RequestApproval, ProcessApproval, HandleTimeout | answer races timeout; replaced requests | each request is answered once |
| LLM router and providers (`plugins/llmrouter`) | a circuit per model, token bucket, consecutive failures | Complete, Stream, Embed, record | circuits that other requests open between two reads; Complete calls itself | a request that fails has a reason (no provider, or no model left), each ends |
| Git client pool (`plugins/gitclient`) | clones by id with state and use count | Start, Acquire, Release, health check, Stop | Start opens the pool before its workers are ready; recycling deletes directories while others hold theirs | a held clone stays, save in the races that section 7 names |
| WebSocket hub (`internal/gateway/ws`) | rooms, clients, bounded send queues, stream position | register, unregister, subscribe, push, broadcast, Stop | a send to a queue that the loop closes; a subscribe that overtakes its registration | no send after close, order per client, one room, leavers leave |
| HTTP gateway (`internal/gateway`) and MCP (`internal/mcp`, `plugins/mcpserver`, `cmd/mcp`) | calls under way, one reader of stdin | tool calls, HTTP requests, token check, conversion of statuses | timeouts race late answers; a submission whose caller has gone | what a tool reports was so, every call is answered |
| Task aggregate (`internal/domain/task`) | status, version, recorded events | the methods of Task and Subtask, FlushEvents | the event is recorded before the machine decides | events replay to the state |
| Execution graphs (`plugins/orchestrator`) | a task context handed from node to node, goroutines of parallel nodes | invoke, analyse, route, execute, merge | calls that fail on the way; an early return with goroutines left | results account for the answers, everything ends |
| Decomposition and matching (`internal/orchestrator/decompose.go`, `matcher`) | none | layering, scoring | — | — |
| Context store and compression (`internal/domain/context`, `internal/service/context`, `internal/infra/cache`) | messages, constraints, file states, token count; the copy in Redis | add, compress by rule or by summary, propagate, cache | compressions in any order, on copies | hard constraints stay, the token count is true |
| ReAct agent (`internal/agent/react`) | conversation, iteration, shared tool registry | Run, tool calls, RunAll, Add | tools that fail or are unregistered in the middle of a run | the conversation is what happened |
| File and Git tools (`internal/agent/tools`, `plugins/gitclient/client.go`) | a directory, a clone | read, write, edit, delete, list, search; clone, commit, push, status, diff | no lock on a tree, an index and a HEAD that agents share | undisturbed calls are exact, nothing is reported twice, a reported commit stays until a lost update |
| Authorization (`internal/authz`) | none | one check per request | — | — |
| Cleanup, object storage, configuration, observability, images, deployment | values, files | single statements or calls | — | — |

Some properties except by name what a race of the code spoils (`stolen`, `tainted`, `overtaken`,
`redone`, `condemned`, `voided`): the code does not keep them there, section 7 has the refuted
form, and what is checked and proved is that nothing else breaks them. The hazards concerned
carry a note.

The exact paths of each component and its status are in `PROJECT.json`, `components`; what can
go wrong in each, line by line, is in `hazards`.

## 2. Plan

Modules were written in the order of what the platform cannot do without; all of them are done,
each with proofs of the safety invariants that the runs check.

1. `TaskStateMachine`, `TaskSpec`, `TaskLifecycle` (`TaskLifecycleProofs`).
2. `ColdStartScheduler` (`ColdStartProofs`), `WorkerManager` (`WorkerManagerProofs`),
   `GitContainers`, `DistributedLock` (`ContainersProofs`).
3. `OutboxPoller`, `Guardian` (`ServicesProofs`).
4. `WSHub` and `RemoteTools`: the ways into the platform (`GatewayProofs`).
5. `WorkerPool`, `GitWorkerPool` (`WorkerManagerProofs`), `TaskAggregate`, `GitTools`, `FileTools`,
   `ContextStore`, `ReActAgent` (`AgentsProofs`): the agents, what they work with and on.
6. `LLMRouter`, `ExecutionGraph`: what calls a language model (`LLMProofs`).

What could follow: abstract specifications of the poller (an at-least-once forwarder) and of the
guardian (answered at most once), with their refinements; action properties of the pools (what a
step of one caller may never do to the worker of another); the connection pool of handlers that
hold one connection and take another; dependency layers and cycle detection as functions with a
reference definition.

Composition: `TaskLifecycle` composes service, orchestrator, outbox processors, guardian
decisions and the database, uses `TaskStateMachine`, and is shown to implement `TaskSpec`
(`INSTANCE TaskSpec WITH` the columns of the task table). `RemoteTools` puts the MCP servers, the
platform client and the gateway on top of the same state machine. `GitContainers` includes the
adapter that uses a Git container and a volume together. Components that share no state are
checked side by side in one run (section 4).

## 3. Modules and the code

**`TaskStateMachine`** is the transition table of `internal/domain` as the set of its edges with
`CanTransition`, `Trigger` and `TriggerVersion` (a refused trigger changes nothing).
**`TaskSpec`** is the promise of the task table to its readers: a task appears pending at version
1, and each change is one edge of the table that adds one to the version.

**`TaskLifecycle`**. A *thread* is a goroutine: the outbox processor of a server (named by the
server), an agent session, a request handler. `status`/`version` are the columns of the row;
`outbox` the committed outbox rows by idempotency key `task:type:version`; `processed` the rows
that `processOutbox` marked; `issued` the ULIDs drawn. Each thread has a program counter `pc`,
the server it runs on, its in-memory task (`task`, `mstat`, `mver`), the operation it is in
(`op`), the version its event carries (`evver`) and its transaction (`tx`). A database
operation is one step: `BeginTx`, `Create`, `Write`, `UpdateStatus`, `Commit`, `RetryUpdate`.
The repositories run on the ent client and not on the transaction they are called under, so
`Create` and `UpdateStatus` take effect at once, whereas the outbox insert waits for `Commit`;
an insert of a key that an open transaction holds waits for it, and one of a committed key is
swallowed but leaves the transaction aborted, as PostgreSQL does. With `DBFaults` each
operation may fail, or be applied with its reply lost. With `Crashes` a server dies between any
two steps, with its goroutines, its session map and its open transactions.
The client operations `Submit`, `CancelTask`, `Cancel`, `Retry` do everything up to their
transaction in one step, for nothing before it is shared but one read. The processor polls a
batch (`Poll`), and for each row postpones it, is refused, starts the single agent, or starts
the ready subtasks one by one, then marks the row (`MarkProcessed`), whatever StartTask
returned. A session executes, waits for approval when the guardian wants it, runs the agent and
settles. Abstracted: payloads, worktrees, metrics, logs; the agent is a choice between success
and failure; requests that are rejected before their transaction, which change nothing.

**`ColdStartScheduler`**. Every critical section of the mutex is a step and every Docker call is
at least two, so that others act meanwhile. `containers`, `closed`, `stale` are the map, its
flags and the handles whose `lastUsed` is older than IdleTimeout; `alive` and `registry` are
Docker and the backend's own map, which does not know containers created with a volume
(`volume`). A caller's context can be cancelled, which makes `docker rm` of a container with a
volume fail but not that of a registered one. `strays` are containers a failed create left.

**`GitContainers`**. `entry` is the manager's map (absent, nil placeholder, container number),
`current`/`up` the container that has the project's name in Docker and whether it runs,
`volume` the host directory. A caller walks through `Ensure`: look under the mutex, inspect
after it, delete a dead entry under it again, create, wait for the API, store, or give the
reservation back. `StopAll` and `Cleanup` panic on a nil entry as the code does. The restart
keeps Docker's state and loses the map. `docker inspect`, `run` and `rm -f` may all fail: a failed
inspect reads as "not running", a failed rm leaves the container and goes unnoticed, as in
the code. `stolen` are the projects of which a caller deleted another's reservation, because it
deleted the entry it had inspected before.

**`DistributedLock`**. One key, any number of handles; `ttl` is Redis' clock for the key, `lease`
what is left of the time Redis last granted a handle. The release and extend scripts are
atomic. The watchdog goroutine, Stop, StopOnly and the owner's own Release and Extend
interleave; goroutines may be slow without limit unless `Prompt` is set. Contexts end, owners
die, replies are lost.

**`WorkerManager`**. `worker` is the status of each entry of the map, `stale` the workers whose
last use is older than IdleTimeout, `box` the sandbox in the backend's registry and in Docker
(running, exited, removed by a call that reported failure, or created by a call that did).
A section under the write lock is one step with the backend calls it makes, as no other caller
can enter meanwhile; AcquireWorker's fast path writes the status under the read lock, so it is
a look and a take, between which other readers act and writers wait. The idle cleanup and the
health check mark a worker and spawn a goroutine: `reapers` and `deleters` count, for each
worker, the goroutines before and after their call of Destroy. The health check works from a
snapshot (`toCheck`), and the probe and the mark (`unhealthy`) are separate steps. Stop destroys
a snapshot too (`stopIds`). `leaked` are sandboxes that a failed call left behind, `tainted` the
workers that a race of the code has put in two hands: two fast paths that looked before either
took, or a DestroyWorker that failed on a worker that others had. What the properties say of
untainted workers is thus what the code keeps in spite of these two.

**`OutboxPoller`**. `row` and `retryCount` are the columns of the outbox rows, `stream` the events
that Redis has, `batch` and `copy` what a poller read at the start of its cycle and works
from. The query, each XADD and each UPDATE is a step; the query's row locks end with it, since
it runs outside a transaction, so pollers work on the same rows and write over each other's
counts. An XADD that fails may have added the event. Stop cancels the context, from which on
every statement and XADD of that poller fails; a crash ends it anywhere. `failures` counts what
Redis refused and is there for the properties only. Abstracted: payloads, the length of the
back-off, metrics; a query that fails or finds nothing changes nothing and is no step.

**`Guardian`**. A request (a call of RequestApproval) is an object with a channel of its own:
`pendingReq` is the map from tasks to requests, `buffer` and `closed` the channels, `waiter`
the session that waits on one. A *decider* is a goroutine in ProcessApproval, a user's or the
TimeoutHandler's: it takes the request out of the map under the lock (`Take`), then sends
without blocking (`Send`) and closes (`Close`) after it. The handler snapshots the tasks with
an expired request under the read lock (`due`) and then times them out one by one by task.
`panicked` records a send on, or a close of, a closed channel. Abstracted: who asked and why,
the event that RequestApproval pushes, metrics.

**`WSHub`**. `members` are the rooms, `clients` the hub's map, `send` the bounded queue of each
client, `eventCh` the channel from the consumer of the Redis stream. The loop takes one
registration, leaver or event at a time; registering is two steps, since the room is found or
created under one lock and the client added under another. So is unregistering (`dropping`: out
of the map, out of the room, then the queue is closed), and Stop cancels, takes the clients out of
the map (`collected`) and closes their queues one by one (`closing`). A reader subscribes (leave one room,
join another) beside the loop, pushes and broadcasts send from other goroutines, and a full
queue drops the event or the client as the code does. `overtaken` are the clients whose
subscribe ran before the hub had registered them.

**`RemoteTools`**. A call is *queued*, *sent*, *served*, perhaps *sleeping* between two polls of
`task_wait`, and *answered*. The path of a request decides which handler it reaches, as in
`handleTaskOperations`; a handler's result is the set of its possible outcomes (Submit may
fail after the row was written). `seen` collects the statuses that a task had while a call was
under way, for the properties. The gateway drains and goes down; a timeout or a broken
connection ends the call for the client only, and `late` counts submissions still carried out.

**`WorkerPool`**. `members` and `poolStatus` are the pool's map, `alive` and `tracked` Docker and the
sandbox layer's map, `destroying` the goroutines that will destroy a sandbox. A submitted task
walks through `submit`: look (read lock), take, execute, release. Start fills the pool after it has
let go of the lock (stage "starting"; a create that fails is skipped). The scaling loop, the health
check and the cleanup are steps under the write lock, and a round under way goes on while Stop
begins. `condemned` are the workers that a health check found unhealthy and those in which a task
failed, which look idle until SubmitTask destroys them; `stuck` are containers Docker refused to
remove, `late` those created by a task that Stop overtook, `shared` the workers that two fast
paths took.

**`GitWorkerPool`**. `gitWorkers` is the pool's map, `holding` what each caller has, `wstate` the
state of each worker and `repo` the ones with a clone on disk. Start opens the pool, creates its
workers one by one under the lock and preheats each after it (`starting`, `left`, `warming`), with
Acquire, Release and Stop in between. `redone` are the workers made preheated while somebody
held them, by the holder's Clone or by Start, `shadowed` those that share an id; the property
excepts both.

**`TaskAggregate`**. One Task or one Subtask: `status`, `version`, `events` and those already
`flushed`. Each method is its check, its stamp, its event and the transition, in that order; the
two transition tables are `TaskDefinition` and `SubtaskDefinition`.

**`GitTools`**. One clone with a working tree, an index, a tip and remote branches; a file's
content is the number of the write it comes from. GitCommit reads the status, adds path by path
and commits the index. go-git's Add is three steps (it reads the index, reads the file, writes the
whole index back) and its Commit two (it reads index and HEAD, sets HEAD), between which other
agents work, since nothing is locked or compared; any of them may fail. `held` is what the last
commit that an agent was told of had; `voided` are the agents whose report came before, or whose
commit was under way at, a lost update: a write of an index or HEAD that another had changed
since it was read.

**`FileTools`**. `disk` maps two files (one in a subdirectory) to their lines. Every system call of
read, write, append, edit, delete, list and search is a step. `before` and `alone` remember, for
the properties, what a call found and whether another interfered.

**`ContextStore`**. `context` is the aggregate in each agent's memory, `cached` the copy in Redis.
Compression by rules, by summary and by the intelligent compressor that combines them, and
Propagate with its read and its write of the cache. `due` are the hard constraints an agent must
have, `lost` which compressor dropped a recent message.

**`ReActAgent`**. `apc`, `iteration`, `messages` of each agent of a pool, `registry` the tools they
share, `runAll` the pool's call. An answer of the LLM is the set of markers it has (`LLMTexts`),
and `Parse` reads it as `ResponseParser` does.

**`LLMRouter`**. `call` is a request with its model, attempt and the models tried; `circuit` counts
successes and failures per model; `tokens` is the bucket. Every read of a circuit and every
record is a step; the upgrade reads the count of failures in one and, in the next, the circuit of
the better model. A model need not have a provider (`Registered`). A response that is nil makes
the gateway above the router panic ("panicked").

**`ExecutionGraph`**. `tc` is the task context; `todo` the nodes still to run; a goal is the set of
word lists that match it, so that `EvaluateComplexity`, the rules and the eino nodes decide as
the code does; `route` is where the branch went, `answers` the calls that were answered and by
which node. `pnode` are the goroutines of the parallel executor and `got` what it received.

**`MCContainers`, `MCServices`, `MCGateway`, `MCAgents`, `MCLLM`** check components side by side that
share no state: a variable `service`, chosen in the initial state, says which component the
behaviour is about, and the others rest in an initial state, so that their states add up and do
not multiply. The specification of such a module has, for the chosen component, that
component's own fairness.

External, modelled from its use: PostgreSQL's transactions and unique keys, Docker, Redis.

## 4. Runs

| Run | What it shows | Bounds |
|---|---|---|
| `task_faults` | `RefinesTaskSpec`: every change of a row is one edge with the version plus one, through stale copies, competing servers and lost replies. `TerminalEventsSound`: a committed terminal event agrees with the row for good. `ExclusiveExecution`: one session per single-agent task. `AckedSubmissionDurable`: a Submit that answered has stored row and event. | 1 task, 2 servers, 2 sessions, 2 requests, guardian, faults |
| `task_crash` | `InductiveInv`, the invariant of the proofs; `SharedTaskNotWritten`: the parallel sessions that share one `*domain.Task` never write it | 2 tasks, one with 2 ready subtasks, 2 servers, 2 sessions, 2 requests, guardian, crashes |
| `task_liveness` | `SubmittedTerminates`, `TerminalAnnounced` under fairness | as `task_faults`, no faults, no guardian |
| `coldstart_safety` | `OneDestroyer`, `LiveTracked`, `BoundedOvershoot` | 2 callers, 1 cleaner, 3 names, limit 1, faults, cancellations, Stop |
| `coldstart_reclaim` | `AbandonedReclaimed` | 2 callers, 1 cleaner, 2 names, cancellations |
| `containers` | `OneContainer`: one creator of a project until its reservation is deleted by another caller, entries that name the current container, and creators that remove only their own; `ReservationResolved`. `LockOwnership`: a lease is honoured, a release is final, Stop leaves nothing behind; `LostLockEndsWatchdog` | 2 callers, 1 project, 2 containers, 3 loop rounds, 1 restart, all faults; 2 handles, ttl 3, interval 1, lost replies, crashes |
| `workers` | `WorkerOwnership`: one user or destroyer a worker, and none when it is on offer (but for the two named races); `SandboxLimit`; `StoppingIsReaped`: a stopping worker always has a goroutine that will free its slot | 2 callers, 2 names, limit 1, 2 destroyers a worker, all faults, Stop and Start |
| `services` | the poller: `OutcomeIsTrue` (published is sent, given up is refused MaxRetries times), `PendingIsSettled`; the guardian: `DecisionsSound` (no channel closed twice, sent to after its close, or closed without a result; timeouts need expiry), `ExpiredIsAnswered` | 2 events, 2 pollers, batch 2, 2 retries, back-off from the second, 1 mishap; 1 task, 2 requests, 1 user |
| `gateway` | the hub: `HubDelivery` (no send to a closed queue, events of one task in order and once, one room), `LeaversAreUnregistered`; the remote tools: `ReportedIsReal`, `CallsAnswered` | 1 client, 2 rooms, 2 events, 2 pushes, queues of 1 and 2; 2 callers on one pipe, 1 task, 2 calls, 2 moves, 1 poll |
| `agents` | `PoolAccounting`, `HeldIsKept`, `EventsReplay`, `CommittedWrites`, `UndisturbedIsExact`, `ReportedOnce`, `HardConstraintsKept`, `TokensAgree`, `ConversationSound` | 2 actors each, 1 agent with a context of up to 4 items; pools of at most 2; 2 writes to a clone; 2 tool calls an agent; version 10; 2 iterations |
| `llm` | the router: `FailureHasReason`, `RequestsEnd`; the graphs: `ResultAccounts`, `GraphEnds` | 2 callers, 4 models, one of them without a provider, 2 attempts, 2 requests; 11 goals, 3 parallel nodes, 3 iterations, 2 items a list |
| `ack_after_success` | violated: see section 7 | one of each |

Why the bounds are enough for the questions asked: threads interact only through one task's row
and its idempotency keys, so one task with two threads of each kind already has each pair of
handlers race in each order, and two requests let a cancellation or a retry meet a submission;
the second task of `task_crash` lets a batch, a crash and a restart be about different tasks
(the proofs cover any number). A batch of one row is
the smallest that lets two servers hold the same row. With subtasks two ready ones suffice for
two sessions to share a task and for their events to have the same key. For the scheduler a
limit of 1 with two callers is the smallest instance that overshoots, and the third name lets a
name be stuck while two others live. For the worker manager the same limit makes every caller
meet the other's worker; a third destroyer of one worker could only come after a second taint
of a worker that is tainted already (the proof has no such bound on callers or names). The pollers
need two rows for a batch that goes stale while its first row is at work and two retries for one
poller to set back the other's count; one crash, shutdown or failing statement is enough to be
caught between any two steps. Two requests of one task are what it takes to replace one, and one
user races the handler (two users race each other in the same way; the proof has any number).
The lock's times are the smallest with `2 * Interval < TTL`; with slow goroutines every order of
expiry, renewal and release happens. Three rounds of Ensure's loop (60 in the code) allow waiting
for another caller, meeting a dead container and creating; the timeout is reached too. Two
containers are what it takes for one to be created over the entry of another.
Clients of the hub meet only in the rooms and in the loop, and no step of the loop waits for a
client, so one client with two rooms, pushes, events and a stop beside it has the races; a queue
of 2 can be full, half full and empty. Two calls over one pipe are what it takes for one to wait
for the other. Two tasks or callers meet on one worker or clone of the pools, with a pool of two
for one to be free while the other is taken. Two writes let two agents commit a file each over
the other's index, or change a file between the status of a commit and its add. Files of two lines over a limit of two
make sizes below, at and above it. Four items in a context exceed a budget of two by two, so
that compression has a choice and is needed twice. Two requests over four models let one open
the circuit the other is about to read, go on to a fallback, and be upgraded to the model
without a provider; and three parallel nodes let one fail, one be received
and one be left behind. Symmetry is used only for safety, over sets
whose members the modules never distinguish.

`containers`, `services`, `gateway`, `agents` and `llm` do not check for deadlock, since their
components may come to an end: the server has panicked and no restart is left, every handle is
at the end of its life, all requests, calls, writes or tokens that the bounds allow are used up.

## 5. Fairness

Weak fairness of the steps of goroutines that can run: Go's scheduler is fair to runnable
goroutines, the outbox ticker keeps firing, an agent run ends by SessionTimeout and an approval
wait by its timeout; for the scheduler, that Docker answers, the cleanup ticker fires and time
passes; for the lock, that time passes and Redis expires keys; for the
poller, that its ticker fires, a statement or XADD returns, and a stopped poller is started
with its server; for the guardian, that the handler's ticker fires and a session that can
receive does; for the hub, that its loop runs and, as Go's `select` chooses at random among what is
ready, takes a leaver that keeps offering itself (strong fairness of `UnregisterClient`); for the
remote tools, that a server reads the next line, an answer that has come is received, and the
client's 30 s timeout and the end of a wait come; for the router and the graphs, that a request,
a node and a goroutine go on, since providers answer or their HTTP client gives up. In the shared
runs each behaviour has the fairness of its own component. Nothing is assumed of clients:
no request has to arrive, no caller has to close its container or call Stop. Crashes and faults
are never fair; the liveness runs exclude database faults because the code does not retry them
(see `ack_after_success`), and `SubmittedTerminates` excludes the guardian because a confirming
task is stuck (`ConfirmingResolves` in section 7).

## 6. Proofs

`TaskLifecycleProofs` proves, for every set of tasks, servers, sessions and requests, every
`Subtasks`, batch limit, and with or without guardian, faults and crashes:
`InvariantHolds` (`Spec => []InductiveInv`), and from it `TypeCorrect`, `EventsTellTheTruth`,
`OneExecution`, `TableImplementsTaskSpec` (the refinement: initial states map to initial states
and every step to a step of `TaskSpec` or a stutter) and `SubmissionsAreDurable`.
The properties are not inductive by themselves. `InductiveInv` adds what the handlers rely on
between two database operations:

- `ControlInv`: which operation a thread can be in at each program counter;
- `RowInv`: a thread at work has a task whose row exists, and the identifier of a submission
  that is not stored yet is known to no other thread;
- `LockInv`: the optimistic lock. A copy is `Fresh` (the row is at least at the copy's version,
  and equal to the copy at that version) or `Confirming` (one version ahead of a running row);
  before `UpdateStatus`, if the WHERE clause matches, the step is an edge of the table. This is
  why a stale copy cannot corrupt a row: the row's version only grows;
- `EventInv`: a terminal event is in a transaction's hands only after the row has its status;
  terminal statuses have no edges out, so the status is still there at the commit;
- `ProcessorInv`: the processor's child is a session that it created and nobody else runs;
- `ClaimInv`: at most one thread has a claim on a single-agent task: the processor whose
  `UpdateStatus` moved it out of pending, then the session it spawned.

`SharedTaskIsReadOnly` is about the one `*domain.Task` that parallel sessions share. Its invariant
`SharedInv` adds that a processor which is about to start subtasks has a task that is still pending
in memory, which is what the sessions it spawns get.
Durability needs one more invariant (`SubmitInv`: a submission past Create has its row, and
past its commit its event). Assumptions on the constants: `ThreadsDisjoint` (the kinds of
threads are distinct), `SubtasksAssumption` (the ready subtasks of a task are among its
subtasks) and `ConfigAssumption` (the batch limit is positive, the switches are Booleans).

`ColdStartProofs` proves for any number of callers, cleaners and containers, any limit and all
faults: `SchedulerInvariant` and from it `ReleasesAreExclusive`, `LiveContainersAreTracked` and
`OvershootIsBounded`. The invariant says that a goroutine past the mark of Release owns its
container: the handle is closed or the map has been replaced, no other goroutine past its mark
or past its create has the same name; the bound adds that the map and the admitted callers
together stay below the limit plus the number of callers, which needs that a caller is
admitted only when the map is below the limit and that storing a handle ends its admission
(cardinalities of finite sets). Assumptions: the limit is positive (`Config.Validate`), callers
are finitely many, and callers and cleaners are distinct.

`WorkerManagerProofs` proves for any number of callers, finitely many names, any positive limit
and any bound on destroyers (`ManagerAssumption`): `ManagerInvariant` and from it
`WorkersAreExclusive`, `IdleWorkersAreFree`, both together as `WorkersAreOwned`,
`StoppingWorkersAreReaped` and `SandboxesAreLimited`. The invariant adds `HandInv` (a caller between look and take keeps the
writers out, so its worker is still idle or was taken by another reader), `ReapInv` (an
untainted worker that is idle or busy has no destroyer: the mark comes first and nobody undoes
it), `LimitInv` and `TrackInv` (the map is within the limit, and until Stop no sandbox is
outside map and leaks).

`ServicesProofs` proves for any number of events, pollers, retries and mishaps
(`PollerAssumption`: the numbers are naturals, a batch is not empty) `PollerInvariant`, and from it
`PublishedEventsAreSent` and `RetriesAreUsed`, together `OutcomesAreTrue`. The invariant adds `SentInv` (a poller that is about
to mark has sent) and `CountInv`: no count, in a row or in a poller's memory, is ahead of what
Redis refused. That is why lost updates of the count do no harm to safety: they only set it
back. For any number of tasks, requests and users (`GuardianAssumption`: the handler is not a
user, and Nil is no request, task or result) it proves `GuardianInvariant`, and from it
`RequestsAreDecidedOnce`, `ClosedChannelsHaveResults` and `TimeoutsNeedExpiry`, together
`DecisionsAreSound`. The invariant adds
`MapInv` and `TakenInv` (a request is in the map or with one decider or closed, never two of
these), `ResultInv` (from the send on, a session that has not received finds its result) and
`TimeoutInv` (a timeout on its way belongs to a task with an expired request, which need not be
the one that is answered: `OnlyExpiredTimeOut` in section 7).

The pools are proved about in `WorkerManagerProofs` too. `GitPoolInvariant` and
`HeldWorkersAreKept` hold for any callers and any sizes with `InitialSize <= MaxSize`
(`GitPoolAssumption`). `IdsInv` says that the map knows a worker by its own id, and that whoever else
is held under that id is marked as sharing it; `KeptInv` that a held worker that was not made
preheated while it was held, and shares no id, is neither idle, so no health check recycles it,
nor preheated, so no Acquire gives it away. `WorkerPoolInvariant` and
`SandboxesAreAccountedFor` hold for any submitters and limits (`WorkerPoolAssumption`: what
`Config.Validate` asks). `TrackedInv` says that a running container is in the
sandbox's map, `StageInv` that nothing in the pool is being destroyed before Stop, `TakenInv` that a
worker found by the fast path stays until it is taken and that one with a task does not look idle,
`CondemnedInv` that a worker which is replaced, or destroyed for a failure, is condemned. From
these follows `TaskKeepsSandbox`: until Stop goes through the map, a task has the worker that it
acquired, in the pool and running, save a shared or condemned one.

`ContainersProofs` proves for any handles and any ttl and interval (`LockAssumption`: both are
positive; the proof does not need that the interval is less than half the ttl) `LockInvariant` and `LocksAreOwned`: the lease that
Redis granted is never longer than what Redis keeps (`LeaseInv`), and Stop sets its flag, waits for
the watchdog and then releases, in this order (`StopInv`). For any projects, callers and numbers of
containers it proves `GitInvariant` and `ContainersAreUnique`: a container that is created and not
stored is known to its creator alone (`OwnInv`), which is why a creator that gives up removes no
container that another has (`RemovedIsOwn`); numbers are never given out again (`NumbersInv`); and
until another caller deletes it the creator's reservation keeps everybody else out
(`ReservedInv`), whichever docker commands fail.

`AgentsProofs` proves

- for any bound on versions, `AggInvariant` and `EventsAlwaysReplay`. The invariant adds which event
  types there are and that a Subtask is never in a status that only a Task has; without the latter
  the event that is recorded before the machine decides would not be the change that follows;
- for any agents, files and branches, `GitToolsInvariant` and `CommitsAreKept`: the work tree is the
  newest content there is, newer than what go-git's copies have (`WorkIsNewest`, `CallNotNewer`); what
  a commit under way has added is in its own copy of the index while it has one, else in the index
  (`OwnIndex`), and the index and the last commit cover what was reported (`IndexCovers`), so that
  anybody's next commit keeps it. A lost update ends both for the calls before it, and only for
  these;
- for finitely many agents and any number of iterations, `ReActInvariant` and `ConversationsAreSound`:
  `LoopInv` relates the iteration, the answers and the turns shown at each place of the loop,
  `ReportedInv` puts each result right behind its answer. Turns are counted with cardinalities of
  sets of positions;
- for any budget, thresholds and kinds of messages (`ContextAssumption`), `ContextInvariant`,
  `HardConstraintsAreKept` and `TokensAlwaysAgree`. Every compression (by rule, in rounds towards a
  budget, by summary) is shown to take a counted context to a counted one with all the hard
  constraints (`Compresses`); the copy in the cache and the one on its way to another agent are
  counted too. What a rule leaves of a sequence is given by the positions that stay (`AtPlaces`),
  with lemmas on the ranks of positions instead of an induction over the sequence;
- for any agents, lines and finite sets of file names (`FileAssumption`: the directory's name is no
  file's), `FileInvariant`, `UndisturbedCallsAreExact` and `NothingIsReportedTwice`. `ArgsInv` gives
  the input by the system call that comes next, `OnceInv` says that a search has reported nothing
  of what it has yet to visit, `DiskInv` what an undisturbed call has done to the disk (after the
  open the file is truncated and the handle is the current inode; a recursive delete has removed
  entries of its directory only), and `WalkInv` that what is not found yet is below what is left to
  visit, as long as there is room for results. A step of another call either changes no file or
  ends that the call is alone (`OthersKeep`).

`LLMProofs` proves for any models, callers, preferences, upgrades and fallback order (`LLMAssumption`)
`RouterInvariant` and `FailuresHaveReasons`: while a request goes through the list, a model of it
failed this request, has an open circuit or is still ahead (`FallbackInv`); a request past its
retries has an error of the model that was chosen (`AskedInv`) unless its context has ended, and
only that leaves neither response nor error (`ResultsInv`); circuits do not close
again (`OpenRecovers` in section 7), which is what makes that stable. For every graph but the
parallel one it proves `GraphInvariant` and `ResultsAccountForAnswers`: by the nodes that are left,
either nothing was answered yet, or the context accounts for the answers, or the ReAct node counts
for itself, or the only answer is the medium decomposer's, which nobody counts (`RunningInv`,
`Decomposed`); and where only one node calls, nothing is merged before it was answered
(`OneCallerInv`).

`GatewayProofs` proves for any clients, rooms and buffer sizes (`HubAssumption`) `HubInvariant` and
`HubDeliversInOrder`: events are numbered by their place in the stream, what waits for the loop
follows what it has handled without a gap (`QueueInv`), what a client was given comes before
what is in its buffer, which is increasing (`OrderInv`), and a client is nowhere while it joins or moves, then
in its task's room only, and nowhere again before the loop closes its queue
(`PlaceInv`). For any callers and task ids (`RemoteAssumption`) it proves
`RemoteInvariant` and `ReportsAreReal`: a request at the gateway has seen the store as it is
(`SeenInv`), so the reply is about the call from the moment it is written (`ReplyInv`).

With that every safety invariant and the refinement that the runs check are theorems. The inductive
invariants were model-checked with the configurations of the runs before they were proved.

Only model-checked: all liveness (`SubmittedTerminates`, `TerminalAnnounced`, `AbandonedReclaimed`,
`ReservationResolved`, `LostLockEndsWatchdog`, `PendingIsSettled`, `ExpiredIsAnswered`,
`LeaversAreUnregistered`, `CallsAnswered`, `RequestsEnd`, `GraphEnds`): fairness and ENABLED are
beyond the prover. The type invariants of the modules are conjuncts of the proved invariants, or
follow from them, except where they only document the state.

## 7. Where the code departs from what it says

One departure has a run of its own; `PROJECT.json` quotes the lines.

- `ack_after_success`: `processOutbox` marks a row processed although StartTask failed
  (`main.go:290`), so the task stays pending for ever.

The other departures are properties defined in the modules that TLC refutes with the constants
given here, on the configuration file of the module's safety run with the property replaced:

| Property (module) | Refuted with | What happens |
|---|---|---|
| `ConfirmingResolves` (`TaskLifecycle`) | `FairSpec`, guardian, no faults | `orchestrator.go:519`: the events triggered after an approval are not in the table, so a confirming task never leaves that status |
| `CompletionAtomic` | `DBFaults = TRUE` | `task_repository.go:417`: the status is updated outside the transaction of its event, so a completed task may never be announced |
| `SubmitAtomic` | `Crashes = TRUE` | `task_repository.go:135`: Create stores the row before the event's commit; a server that stops between them leaves a pending task without an event |
| `CancelAnswers` | no faults | `task_service.go:402`: Cancel passes the version it read, which never matches, and then reads the nil task of the error |
| `RetryAnswers` | no faults | `task_repository.go:233`: Update dereferences a nil StartedAt |
| `SubtasksReachAgent` | `TwoSubtasks`, `FairSpec`, no faults | `orchestrator.go:434`: the sessions of subtasks expect a version that is never there and return before their agent runs |
| `LimitRespected` (`ColdStartScheduler`) | 2 callers, limit 1 | `coldstart.go:184`: check and store are two critical sections |
| `BusyNotCleaned` | 1 caller | `coldstart.go:318`: `lastUsed` is refreshed only after a command has ended |
| `ReleaseDestroys` | 1 caller, `MayCancel = TRUE` | `coldstart.go:244`: a failed destroy leaves a closed handle that nobody can release again |
| `StopLosesNone` | `MayStop = TRUE` | `coldstart.go:174`: a container stored while Stop works is dropped from the map alive |
| `NoNameConflict` (`GitContainers`) | `MaxRestarts = 1`, `MayDie = FALSE` | `manager.go:130`: names outlive the map |
| `NoNameConflict` | 1 caller, no faults, `MayDie = TRUE` | `manager.go:87`: a container that exited keeps its name, so its project never gets one again |
| `OneCreator` for all `Projects`, `stolen` too | 2 callers, `MayDie` or `DockerFails` | `manager.go:87`: an entry found dead, or whose inspect failed, is deleted without looking at it again; it may be another caller's reservation by then |
| `StopAllReturns` | `MayStop = TRUE` | `manager.go:259`: a nil entry is dereferenced |
| `WorkersKeepVolume` | `MayStop = TRUE` | `main.go:176`: volumes are deleted before the workers that mount them stop |
| `TakenByOne` (`WorkerManager`) | 2 callers | `workermanager.go:204`: the fast path writes the status under the read lock |
| `StopLeavesNothing` | 1 caller | `workermanager.go:167`: the map is dropped with the sandboxes whose destruction failed, and with those acquired while Stop works |
| `LockKept` (`DistributedLock`) | `Prompt = TRUE`, no faults | `watchdog.go:109`: the extension is as long as the wait for the next one |
| `StopReturns` | no faults, `FairSpec` | `watchdog.go:148`: Stop waits for a goroutine that was never started |
| `StopIsFinal` with "already" counted as success | no faults | `watchdog.go:136`: Stop after StopOnly returns nil and releases nothing |
| `PublishedStays` (`OutboxPoller`) | as `services` | `poller.go:325`: markFailed updates by id alone, so a poller that fails late turns a published row into a failed one |
| `FailedIsRetried` | as `services` | `outbox.go:17` says that failed rows will be retried; the query reads pending rows only |
| `PendingIsSettled` | `MaxRetries = 0` | `outbox.go:57` accepts 0, with which the query selects nothing |
| `OnlyExpiredTimeOut` (`Guardian`) | as `services` | `timeout.go:85`: the snapshot holds tasks, so a new request of the task is timed out for the old one |
| `WaitIsAnswered` | as `services` | `guardian.go:120`: a replaced request is in no map, and its session waits until its context ends |
| `StopIsGraceful` (`WSHub`) | as `gateway` | `hub.go`: Stop closes the queues of clients to which others still send |
| `NeverPanics` | as `gateway` | `client.go:258`: a subscribe that overtakes the registration leaves the client in two rooms; after it left, the other room sends to its closed queue |
| `WaitSeesTheEnd` (`RemoteTools`) | as `gateway` | `plugins/mcpserver/tools.go:216`: task_wait compares with lower-case names, the gateway answers in capitals (`:640`), so it waits until it times out |
| `DecisionIsTaken` | as `gateway` | `rest_adapter.go:345`: the route that `client.go:396` names is refused by the handler's own split of the path |
| `StopWaitsForTasks` (`WorkerPool`) | as `agents` | `pool.go:342`: Stop destroys the sandboxes of tasks that still run in them |
| `FailureIsOwn` | as `agents` | `pool.go:233`: Release has made the worker of a failed task idle, and it is destroyed under the task that took it since |
| `OneTaskPerWorker` | as `agents` | `pool.go`: the fast path takes a worker under the read lock |
| `UnderMaxLimit` | as `agents`, `MaxSandboxes = 3` | `pool.go:490`: the health check adds a replacement before the worker is gone, without a look at the maximum |
| `StopLeavesNone` | as `agents` | `pool.go`: a scaling or a task that was under way creates a worker after Stop, and nobody destroys it |
| `HeldWithinMax` (`GitWorkerPool`) | as `agents` | `pool.go:373`: Start creates workers without a look at the maximum, beside those that callers of the open pool got; and a worker that two callers hold leaves the map with the first release |
| `HeldByOne` | as `agents` | `pool.go:461`: Start sets a worker to preheated that a caller has acquired since it was created, as Clone does with one that its holder clones again, and preheated is what Acquire looks for |
| `TerminalHasCompletedAt`, `RunningHasStartedAt` (`TaskAggregate`) | as `agents` | `task.go:571`: FailDecomposition sets no CompletedAt; `task.go:585`: Assign starts the execution without a StartedAt |
| `ReportsStay` (`GitTools`) | as `agents` | `client.go:197`, `:208`: go-git writes back an index or a HEAD that another agent has changed since, so a commit that was reported is undone |
| `StagedAreStaged`, `ModifiedListed`, `DiffShowsStaged` | as `agents` | `git.go`: untracked files are listed as staged, files staged and changed again are left out of Modified, and the staged diff leaves out files |
| `SuccessIsStored`, `FailureChangesNothing`, `SizeLimited` (`FileTools`) | as `agents` | `file.go`: no lock between read and write back; a failed write has truncated the file; append does not look at maxFileSize |
| `RecentPreserved` (`ContextStore`) | as `agents` | `compress.go:176`: within a priority the newest goes first |
| `LatestStateKept` | as `agents` | `compressor.go:494`: of a path, the state that is last in the order of priorities is kept, not the latest |
| `AddIsSafe`, `ActionsAreSeen` (`ReActAgent`) | as `agents` | `react.go`: RunAll makes room for the agents it counted, and one added meanwhile writes past the end; `prompt.go`: an ACTION without a line end is not read |
| `ResponseOrError` (`LLMRouter`) | as `llm` | `router.go:364`: a request whose context ends before its first attempt gets neither a response nor an error, and the gateway then reads the nil response (`gateway.go:311`) |
| `FallbacksBeforeFailing` | as `llm` | `router.go:310`: a model without a provider fails the request at once, with its fallbacks untried |
| `OpenRecovers` | as `llm` | `circuitbreaker.go`: only Allow, which the router never calls, leaves the open state |
| `MergedTokensAreSpent`, `TokensAreUsed`, `SuccessNeedsAnswer`, `RouteIsComplexity`, `ReturnedIsFinal` (`ExecutionGraph`) | as `llm` | `nodes.go`, `full_graph.go`: the tokens of merges and of the medium decomposer are not counted, a success needs no answer, the route is decided by words and not by the analysed complexity, and goroutines that outlive an early return still write the context |

Met while modelling, and not stated as properties: the hub's ping period (25 s) is longer than its
wait for a pong (10 s, `client.go:20`), and after Stop readers block on the loop's channels. Docker's
Status answers from a map, so the health check of the worker pool never sees a container that died.
Acquire of `gitclient/pool.go` finds an idle worker and then fails, for only a preheated one can
become active (`pool.go:505`, against "worker reuse" in `pool_test.go:68`). A cancelled
request counts as a failure of every fallback model, a broken stream is reported as a success,
Claude's and GLM's Stream return without calling the handler, and the LLMR_ environment keys with an
underscore never match. The context service writes deltas under one key and reads another
(`context_service.go:225`, `:238`), CompressToBudget changes nothing, and a failed summary drops
recent messages. The diff answer is wrapped twice, `/api/v1/platform/status` is not routed, the
Connect Decide returns Unimplemented, and task_wait reads nanoseconds where it says seconds. The MCP SSE
server, the mcpserver plugin and `plugins/orchestrator` have no importer outside tests.
WithGuard and WithAction of the aggregate attach to an arbitrary transition (`task.go:242`).
A case-insensitive search answers with lower-cased lines, and a regex search ignores the flag.
A negative offset or limit makes read panic, and a recursive list without a work directory lists
direct children only. Rows that processOutbox skips stay pending and fill the ten rows it reads
(`main.go:275`); a lock ttl below one millisecond is sent as 0 (`lock.go:155`).

## 8. What is not modelled

Generated code (`src/api`), about 3,000 lines, images, dashboard and
deployment files: no behaviour of the server. Role prompts, request formatting of the LLM
providers, prompts of the agents, error texts, metrics, traces and configuration values: text.
Object storage, cleanup statements, audit rows and the CubeSandbox client: single calls without
state of their own. Decomposition, dependency layers and matching scores are pure functions;
their results are constants of `TaskLifecycle`. Authorization is one lookup per request.
The state machines of subtasks and agent sessions in `internal/domain/statemachine.go` are driven
by tests only. The outbox poller of `internal/infra/outbox` is modelled on its own, as `main` does
not start it but runs `processOutbox`; of its repository only what it executes. The size of the
database connection pool and the order of a batch are outside the core model, whose database
answers every operation or fails it. Of the router, one that is disabled because it has no primary
provider, and so answers nothing, selection by latency and round robin and the
half-open circuit, which no caller reaches; of the context store, the conservative and the full
aggressive strategy, which only tests build; of the ReAct agent, the streaming of its steps
(`stream.go`), which changes nothing of the run; of the graphs, ComplexityRouter.Invoke and the agents
of `agent_*.go`, which no graph has; of MCP, registries, resources and the OpenClaw client.
