----------------------------- MODULE RemoteTools -----------------------------
(***************************************************************************)
(* The platform as its callers see it: MCP tool calls (internal/mcp and    *)
(* plugins/mcpserver), the HTTP requests the platform client makes of      *)
(* them, and the gateway that serves those requests (internal/gateway).    *)
(*                                                                         *)
(* A call is asked, taken by a server, sent, served, and answered.  Calls  *)
(* of the stdio server share one reader and its mutex; calls over SSE run  *)
(* side by side.  The task service behind the gateway is TaskLifecycle;    *)
(* here a task is its status, moved by the rest of the platform along the  *)
(* state machine's edges.  A connection can break or time out at any step, *)
(* and a submission whose caller is gone may still be carried out.         *)
(***************************************************************************)
EXTENDS TaskStateMachine, Sequences, FiniteSets

CONSTANTS Callers,       \* outstanding JSON-RPC requests, one at a time each
          StdioCallers,  \* those that share the stdio server
          TaskIds,       \* ids the service can give out
          Subtask,       \* a subtask id
          MaxCalls,      \* bound: calls asked
          MaxMoves,      \* bound: steps of the platform's tasks
          MaxPolls       \* polls of task_wait before its deadline has passed

ASSUME RemoteAssumption ==
    StdioCallers \subseteq Callers /\ Subtask # "subtasks"
    /\ MaxCalls \in Nat /\ MaxMoves \in Nat /\ MaxPolls \in Nat

VARIABLES tasks,    \* [TaskIds -> status or "none"]
          gateway,  \* "up", "draining", "down"
          token,    \* what the client's Authorization header holds
          stdin,    \* lines the stdio server has not read
          asked,    \* [Callers -> the call as a record]
          late,     \* submissions running for callers that are gone
          seen,     \* <<task, status>> pairs a caller's call overlapped
          made, moved

remoteVars == <<tasks, gateway, token, stdin, asked, late, seen, made, moved>>

Nothing == [kind |-> "nothing"]
Data(v) == [kind |-> "data", value |-> v]      \* writeJSON: ok and the data
ApiError == [kind |-> "apiError"]              \* writeError: an error object
Foreign == [kind |-> "foreign"]                \* a body of another shape

Unasked == [phase |-> "idle", tool |-> "none", task |-> "none", valid |-> TRUE,
            polls |-> 0, reply |-> Nothing]

RemoteInit ==
    /\ tasks = [t \in TaskIds |-> "none"]
    /\ gateway = "up" /\ token \in {"jwt", "malformed"}
    /\ stdin = <<>> /\ late = 0 /\ made = 0 /\ moved = 0
    /\ asked = [c \in Callers |-> Unasked]
    /\ seen = [c \in Callers |-> {}]

Known == {t \in TaskIds : tasks[t] # "none"}
Phase(c, p) == asked' = [asked EXCEPT ![c].phase = p]
Answer(c, r) == asked' = [asked EXCEPT ![c].phase = "answered", ![c].reply = r]

(*------------------------- the platform client ---------------------------*)
(* Each method is one HTTP request; the path is split at its slashes.       *)
SubmitTaskCall == [method |-> "POST", path |-> <<"tasks">>]
GetTaskCall(t) == [method |-> "GET", path |-> <<"tasks", t>>]
ListTasksCall == [method |-> "GET", path |-> <<"tasks">>]
CancelTaskCall(t) == [method |-> "POST", path |-> <<"tasks", t, "cancel">>]
DecideTaskCall(t) ==
    [method |-> "POST", path |-> <<"tasks", t, "subtasks", Subtask, "decision">>]
AgentTemplatesCall == [method |-> "GET", path |-> <<"agent-templates">>]
PlatformStatusCall == [method |-> "GET", path |-> <<"platform", "status">>]
ListSessionsCall == [method |-> "GET", path |-> <<"sessions">>]
GetDiffCall(t) == [method |-> "GET", path |-> <<"tasks", t, "diff">>]

(* One table of tools after another. *)
Joined(f, g) == [x \in DOMAIN f \cup DOMAIN g |-> IF x \in DOMAIN f THEN f[x] ELSE g[x]]

(* ToolExecutor: the request behind every tool of the MCP server. *)
TaskTools(t) ==
    [task_submit |-> SubmitTaskCall, task_status |-> GetTaskCall(t),
     task_list |-> ListTasksCall, task_cancel |-> CancelTaskCall(t)]
ContextTools(t) ==
    [context_approve |-> DecideTaskCall(t), context_reject |-> DecideTaskCall(t),
     agent_list |-> AgentTemplatesCall, session_list |-> ListSessionsCall]
ExecutorTools(t) == Joined(TaskTools(t), ContextTools(t))

(* PlatformCaller: the handlers of the mcpserver plugin. *)
PluginTools(t) ==
    [task_submit |-> SubmitTaskCall, task_status |-> GetTaskCall(t),
     task_list |-> ListTasksCall, task_cancel |-> CancelTaskCall(t)]
PluginReads(t) ==
    [task_decide |-> DecideTaskCall(t), task_diff |-> GetDiffCall(t),
     task_wait |-> GetTaskCall(t)]
PluginQueries ==
    [agent_templates |-> AgentTemplatesCall, platform_status |-> PlatformStatusCall]
PlatformCallerTools(t) == Joined(Joined(PluginTools(t), PluginReads(t)), PluginQueries)

(* The Connect API, a route of its own: its callers are generated clients.  *)
ConnectTools(t) ==
    [Submit |-> [method |-> "POST", path |-> <<"rpc", "Submit">>],
     Get    |-> [method |-> "POST", path |-> <<"rpc", "Get", t>>],
     Cancel |-> [method |-> "POST", path |-> <<"rpc", "Cancel", t>>],
     Decide |-> [method |-> "POST", path |-> <<"rpc", "Decide", t>>]]


(* What the dashboard and the workers ask of the REST API. *)
DashboardTools(t) ==
    [guardian  |-> [method |-> "GET", path |-> <<"tasks", t, "guardian">>],
     artifacts |-> [method |-> "POST", path |-> <<"tasks", t, "artifacts">>]]

AllTools(t) ==
    Joined(Joined(ExecutorTools(t), PlatformCallerTools(t)), Joined(ConnectTools(t), DashboardTools(t)))
Tools == DOMAIN AllTools("none")
RequestOf(c) == AllTools(asked[c].task)[asked[c].tool]

(*------------------------------- the gateway -----------------------------*)
(* Statuses leave the gateway in capitals. *)
StatusString ==
    [pending |-> "PENDING", dispatched |-> "DISPATCHED", running |-> "RUNNING",
     reviewing |-> "REVIEWING", confirming |-> "CONFIRMING", completed |-> "COMPLETED",
     failed |-> "FAILED", cancelled |-> "CANCELLED"]
ProtoStatus ==
    [pending |-> "PENDING", dispatched |-> "DISPATCHED", running |-> "RUNNING",
     reviewing |-> "REVIEWING", confirming |-> "CONFIRMING", completed |-> "COMPLETED",
     failed |-> "FAILED", cancelled |-> "CANCELLED"]

(* A handler's outcome: the tasks it leaves and the reply it writes. *)
Outcome(ts, r) == [tasks |-> ts, reply |-> r]
NoEffect(r) == {Outcome(tasks, r)}

(* TaskService.Submit: the row is written before the event and the commit,  *)
(* either of which may still fail the request.                              *)
SubmitTask(conv) ==
    NoEffect(ApiError)
    \cup UNION {{Outcome([tasks EXCEPT ![t] = "pending"], Data([task |-> t, status |-> conv["pending"]])),
                 Outcome([tasks EXCEPT ![t] = "pending"], ApiError)} : t \in TaskIds \ Known}

GetTask(t, conv) ==
    NoEffect(IF t \in Known THEN Data([task |-> t, status |-> conv[tasks[t]]]) ELSE ApiError)

(* One page of the caller's tasks, or an error of the store. *)
ListTasks ==
    NoEffect(Data({[task |-> t, status |-> StatusString[tasks[t]]] : t \in Known}))
    \cup NoEffect(ApiError)

(* TaskService.Cancel reads a field of the nil task that UpdateStatus       *)
(* returns with its lock error (TaskLifecycle, CancelAnswers): the request  *)
(* of a cancellable task panics, and Recover answers it.                    *)
CancelTask(t) ==
    NoEffect(IF t \in Known /\ CanTransition(tasks[t], "Cancel") THEN Foreign ELSE ApiError)

(* DecideTask splits the path after ".../tasks/" and wants "subtasks" third. *)
DecideTask(path) ==
    LET parts == Tail(path)
    IN  NoEffect(IF Len(parts) < 4 \/ parts[3] # "subtasks" THEN ApiError
                 ELSE Data([task |-> parts[1], status |-> "approved"]))

(* GetTaskDiff wraps its payload twice, so the id the client reads is empty. *)
GetTaskDiff == NoEffect(Data([task |-> "", status |-> ""]))

(* GetGuardianCheck derives the approval's status from the task's. *)
GetGuardianCheck(t) ==
    NoEffect(IF t \notin Known THEN ApiError
             ELSE Data([task |-> t, status |-> CASE tasks[t] = "confirming" -> "pending"
                                                 [] tasks[t] = "reviewing" -> "approved"
                                                 [] OTHER -> ""]))

(* ReportArtifacts needs no user and no task, and keeps nothing of what it gets. *)
ReportArtifacts(t) == NoEffect(Data([task |-> t, status |-> ""]))

ListAgents == NoEffect(Data("templates"))
ListSessions == NoEffect(Data("sessions"))

(* handleTasks and handleTaskOperations: which handler a path reaches. *)
HandleTasks(method) ==
    IF method = "GET" THEN ListTasks ELSE SubmitTask(StatusString)
HandleTaskOperations(method, path) ==
    CASE Len(path) = 2 -> IF method = "GET" THEN GetTask(path[2], StatusString)
                                            ELSE NoEffect(ApiError)
      [] Len(path) >= 5 /\ path[3] = "subtasks" /\ path[5] = "decision" -> DecideTask(path)
      [] Len(path) = 3 /\ path[3] = "cancel" -> CancelTask(path[2])
      [] Len(path) = 3 /\ path[3] = "diff" -> GetTaskDiff
      [] Len(path) = 3 /\ path[3] = "guardian" -> GetGuardianCheck(path[2])
      [] Len(path) = 3 /\ path[3] = "artifacts" -> ReportArtifacts(path[2])
      [] OTHER -> NoEffect(ApiError)

(* TaskServiceHandler: the same operations over Connect. *)
ConnectHandlers(path) ==
    CASE path[2] = "Submit" -> SubmitTask(ProtoStatus)
      [] path[2] = "Get" -> GetTask(path[3], ProtoStatus)
      [] path[2] = "Cancel" -> CancelTask(path[3])
      [] OTHER -> NoEffect(ApiError)

(* The mux of gateway.New.  A path it does not know is answered with text;  *)
(* without a user the task handlers answer 401.                             *)
Routes(method, path) ==
    CASE path = <<"tasks">> -> HandleTasks(method)
      [] Len(path) > 1 /\ path[1] = "tasks" -> HandleTaskOperations(method, path)
      [] path[1] = "rpc" -> ConnectHandlers(path)
      [] path = <<"agent-templates">> -> ListAgents
      [] path = <<"sessions">> -> ListSessions
      [] OTHER -> NoEffect(Foreign)

(* Auth stops a header it cannot read before the mux. *)
Served(r) == IF token = "malformed" THEN NoEffect(Foreign) ELSE Routes(r.method, r.path)

(*------------------------------ the MCP servers --------------------------*)
(* A line of stdin, or a POST to the SSE server. *)
Ask(c, tool, t, valid) ==
    /\ asked[c].phase \in {"idle", "answered"} /\ made < MaxCalls
    /\ asked' = [asked EXCEPT ![c] =
                    [Unasked EXCEPT !.phase = "queued", !.tool = tool, !.task = t, !.valid = valid]]
    /\ stdin' = IF c \in StdioCallers THEN Append(stdin, c) ELSE stdin
    /\ seen' = [seen EXCEPT ![c] = {}]
    /\ made' = made + 1
    /\ UNCHANGED <<tasks, gateway, token, late, moved>>

Busy(c) == asked[c].phase \in {"sent", "served", "sleeping"}

(* The tasks change under the calls that are running. *)
Observe(ts) ==
    /\ tasks' = ts
    /\ seen' = [c \in Callers |->
                  IF Busy(c) THEN seen[c] \cup {<<t, ts[t]>> : t \in {u \in TaskIds : ts[u] # tasks[u]}}
                             ELSE seen[c]]

(* Run: one line at a time, under the server's mutex. *)
MayTake(c) ==
    c \in StdioCallers => /\ stdin # <<>> /\ Head(stdin) = c
                          /\ \A d \in StdioCallers : ~Busy(d)

(* PlatformClient.do up to the wire: no connection when the gateway has      *)
(* stopped listening.                                                       *)
Send(c) ==
    IF gateway = "up"
    THEN /\ Phase(c, "sent")
         /\ seen' = [seen EXCEPT ![c] = @ \cup {<<t, tasks[t]>> : t \in Known}]
    ELSE /\ IF asked[c].tool = "task_wait" THEN Phase(c, "sleeping") ELSE Answer(c, ApiError)
         /\ UNCHANGED seen

(* handleMessage, handleToolsCall and Execute: parameters are validated      *)
(* before anything is sent.                                                 *)
HandleToolsCall(c) ==
    /\ asked[c].phase = "queued" /\ MayTake(c)
    /\ IF asked[c].valid THEN Send(c) ELSE Answer(c, ApiError) /\ UNCHANGED seen
    /\ stdin' = IF c \in StdioCallers THEN Tail(stdin) ELSE stdin
    /\ UNCHANGED <<tasks, gateway, token, late, made, moved>>

(* The gateway runs the whole handler and writes its reply. *)
Serve(c) ==
    /\ asked[c].phase = "sent" /\ gateway # "down"
    /\ \E o \in Served(RequestOf(c)) :
          /\ Observe(o.tasks)
          /\ asked' = [asked EXCEPT ![c].phase = "served", ![c].reply = o.reply]
    /\ UNCHANGED <<gateway, token, stdin, late, made, moved>>

(* Mutant: the OK flag of the envelope is not looked at. *)
DecodeIgnoresOK(r) == IF r.kind = "foreign" THEN ApiError
                      ELSE IF r.kind = "apiError" THEN Data([task |-> "", status |-> ""]) ELSE r

(* The client's side of a reply: a body that is not an APIResponse fails to  *)
(* decode, and an error object is an error.                                 *)
Decode(r) == IF r.kind = "data" THEN r ELSE ApiError

(* task_wait compares the status with the domain's spelling. *)
WaitIsOver(r) == r.kind = "data" /\ r.value.status \in {"completed", "failed", "cancelled"}

Receive(c) ==
    /\ asked[c].phase = "served"
    /\ IF asked[c].tool = "task_wait" /\ ~WaitIsOver(asked[c].reply)
       THEN Phase(c, "sleeping")
       ELSE Answer(c, Decode(asked[c].reply))
    /\ UNCHANGED <<tasks, gateway, token, stdin, late, seen, made, moved>>

(* The end of a poll's pause: past the deadline the wait is an error. *)
WaitAgain(c) ==
    /\ asked[c].phase = "sleeping" /\ asked[c].polls < MaxPolls
    /\ asked' = [asked EXCEPT ![c].phase = IF gateway = "up" THEN "sent" ELSE "sleeping",
                              ![c].polls = @ + 1]
    /\ seen' = [seen EXCEPT ![c] = @ \cup {<<t, tasks[t]>> : t \in Known}]
    /\ UNCHANGED <<tasks, gateway, token, stdin, late, made, moved>>

WaitTimesOut(c) ==
    /\ asked[c].phase = "sleeping"
    /\ asked' = [asked EXCEPT ![c].phase = "answered",
                              ![c].reply = [kind |-> "timeout", last |-> asked[c].reply]]
    /\ UNCHANGED <<tasks, gateway, token, stdin, late, seen, made, moved>>

(* A request whose connection is gone.  A submission already at the gateway  *)
(* goes on without its caller.                                              *)
Dropped(c) ==
    IF asked[c].tool = "task_wait" THEN [asked[c] EXCEPT !.phase = "sleeping", !.reply = Nothing]
    ELSE [asked[c] EXCEPT !.phase = "answered", !.reply = ApiError]
Submitting(c) == asked[c].phase = "sent" /\ asked[c].tool \in {"task_submit", "Submit"}

(* Mutant: an http.Client without a Timeout. *)
NoTimeout(c) == FALSE /\ UNCHANGED remoteVars

(* http.Client.Timeout: 30 s without a whole response. *)
RequestTimeout(c) ==
    /\ asked[c].phase \in {"sent", "served"}
    /\ asked' = [asked EXCEPT ![c] = Dropped(c)]
    /\ late' = IF Submitting(c) THEN late + 1 ELSE late
    /\ UNCHANGED <<tasks, gateway, token, stdin, seen, made, moved>>

(* What becomes of a submission without a caller: the cancelled context      *)
(* stops it, or it is carried out.                                          *)
LateSubmit ==
    /\ late > 0 /\ late' = late - 1
    /\ \E o \in IF token = "malformed" THEN NoEffect(Foreign) ELSE SubmitTask(StatusString) :
          Observe(o.tasks)
    /\ UNCHANGED <<gateway, token, stdin, asked, made, moved>>

(*------------------------ the gateway's life, the tasks -------------------*)
InFlight == {c \in Callers : asked[c].phase = "sent"}

(* Gateway.Stop: Shutdown refuses new connections and waits for the running  *)
(* handlers, ten seconds at most.                                           *)
GatewayStop ==
    /\ gateway = "up" /\ gateway' = "draining"
    /\ UNCHANGED <<tasks, token, stdin, asked, late, seen, made, moved>>

ShutdownEnds ==
    /\ gateway = "draining" /\ gateway' = "down"
    /\ asked' = [c \in Callers |-> IF c \in InFlight THEN Dropped(c) ELSE asked[c]]
    /\ late' = 0
    /\ UNCHANGED <<tasks, token, stdin, seen, made, moved>>

GatewayStart ==
    /\ gateway = "down" /\ gateway' = "up"
    /\ UNCHANGED <<tasks, token, stdin, asked, late, seen, made, moved>>

(* The orchestrator moves a task. *)
TaskMoves(t, s) ==
    /\ t \in Known /\ Edge(tasks[t], s) /\ moved < MaxMoves
    /\ Observe([tasks EXCEPT ![t] = s]) /\ moved' = moved + 1
    /\ UNCHANGED <<gateway, token, stdin, asked, late, made>>

RemoteNext ==
    \/ \E c \in Callers :
          \/ \E tool \in Tools, t \in TaskIds, v \in BOOLEAN : Ask(c, tool, t, v)
          \/ HandleToolsCall(c) \/ Serve(c) \/ Receive(c)
          \/ WaitAgain(c) \/ WaitTimesOut(c) \/ RequestTimeout(c)
    \/ LateSubmit \/ GatewayStop \/ ShutdownEnds \/ GatewayStart
    \/ \E t \in TaskIds, s \in TaskStatuses : TaskMoves(t, s)

(* The reader loop and the timers run; the gateway need not answer. *)
RemoteFairness ==
    \A c \in Callers : /\ WF_remoteVars(HandleToolsCall(c)) /\ WF_remoteVars(Receive(c))
                       /\ WF_remoteVars(RequestTimeout(c)) /\ WF_remoteVars(WaitTimesOut(c))

RemoteSpec == RemoteInit /\ [][RemoteNext]_remoteVars /\ RemoteFairness

(*-------------------------------- properties ------------------------------*)
RemoteTypeOK ==
    /\ tasks \in [TaskIds -> TaskStatuses \cup {"none"}]
    /\ gateway \in {"up", "draining", "down"} /\ late \in 0..MaxCalls
    /\ \A c \in Callers : asked[c].phase \in {"idle", "queued", "sent", "served", "sleeping", "answered"}

Succeeded(c, ts) == asked[c].phase = "answered" /\ asked[c].reply.kind = "data" /\ asked[c].tool \in ts

(* A status that the task had while the call of c was running. *)
Held(c, x) == \E p \in seen[c] : p[1] = x.task /\ StatusString[p[2]] = x.status

(* A tool that answers without an error says what was so: a submission names *)
(* a task that is in the store, a status is one the task had between the     *)
(* call's request and its reply, and so is every line of a list.             *)
ReportedIsReal ==
    \A c \in Callers :
        LET v == asked[c].reply.value
        IN  /\ Succeeded(c, {"task_submit", "Submit"}) => v.task \in Known
            /\ Succeeded(c, {"task_submit", "Submit", "task_status", "Get", "task_wait"}) => Held(c, v)
            /\ Succeeded(c, {"task_list"}) => \A x \in v : Held(c, x)

(* Every call is answered, whatever becomes of the gateway and of the        *)
(* connection: the next line on stdin is read only then.                     *)
CallsAnswered == \A c \in Callers : asked[c].phase = "queued" ~> asked[c].phase = "answered"

(*-------------- the inductive invariant behind ReportedIsReal -------------*)
RemoteFunctions ==
    /\ DOMAIN tasks = TaskIds /\ DOMAIN asked = Callers /\ DOMAIN seen = Callers
    /\ \A c \in Callers : DOMAIN asked[c] = DOMAIN Unasked

(* What a request at the gateway can be told is what its call has seen. *)
SeenInv(c) ==
    asked[c].phase \in {"sent", "served"} => \A t \in Known : <<t, tasks[t]>> \in seen[c]

(* The reply is about the call from the moment it is written. *)
ReplyInv(c) ==
    LET v == asked[c].reply.value
    IN  asked[c].phase \in {"served", "answered"} /\ asked[c].reply.kind = "data" =>
            /\ asked[c].tool \in {"task_submit", "Submit"} => v.task \in Known
            /\ asked[c].tool \in {"task_submit", "Submit", "task_status", "Get", "task_wait"} => Held(c, v)
            /\ asked[c].tool = "task_list" => \A x \in v : Held(c, x)

RemoteInv == RemoteFunctions /\ \A c \in Callers : SeenInv(c) /\ ReplyInv(c)

(*------- what the repository says and the code does not do ----------------*)
(* plugins/mcpserver/tools.go, TaskWaitTool: task_wait polls until the task  *)
(* is in a final state or the time is up; so a wait whose last poll found    *)
(* the task finished does not time out.                                      *)
WaitSeesTheEnd ==
    \A c \in Callers :
        LET r == asked[c].reply
        IN  asked[c].phase = "answered" /\ r.kind = "timeout" /\ r.last.kind = "data"
            => r.last.value.status \notin {StatusString[s] : s \in {u \in TaskStatuses : IsTerminal(u)}}

(* client.go and rest_adapter.go name the same decision route: a decision    *)
(* about a subtask that reaches the handler is not answered as a bad request. *)
DecisionIsTaken ==
    \A c \in Callers :
        asked[c].phase = "served" /\ token = "jwt"
        /\ asked[c].tool \in {"context_approve", "context_reject", "task_decide"}
        => asked[c].reply.kind = "data"
=============================================================================
