\* Two of everybody, one agent with a context.
SPECIFICATION MCSpec
CONSTANTS
    s1 = s1  s2 = s2  g1 = g1  g2 = g2  a1 = a1  a2 = a2
    f1 = f1  f2 = f2  main = main  dev = dev  x = x  y = y
    Submitters = {s1, s2}
    MinWorkers = 1
    PoolMaxWorkers = 2
    ScaleUpThreshold = 1
    ScaleDownThreshold = 0
    MaxSandboxes = 2
    GitCallers = {g1, g2}
    InitialSize = 1
    MaxSize = 2
    MaxCreated = 3
    MaxVersion = 10
    Agents = {a1, a2}
    Files = {f1, f2}
    Branches = {main, dev}
    ProtectedBranches = {main}
    MaxWrites = 2
    FileAgents = {a1, a2}
    TopFiles = {f1}
    SubFiles = {f2}
    Lines = {x, y}
    FirstLine = x
    MaxFileSize = 2
    MaxResults = 1
    MaxToolCalls = 2
    ContextAgents = {a1}
    MessageKinds <- MCMessages
    FileKinds <- MCFiles
    TokenBudget = 2
    PreserveRecentMessages = 1
    PreserveRecentFiles = 1
    SummaryRecent = 1
    KeptFiles = 1
    AutoSelectThreshold = 2
    PreferQuality = FALSE
    MaxItems = 4
    ReActAgents = {a1, a2}
    ToolNames <- MCTools
    AgentIterations = 2
    HasTimeLimit = TRUE
    MaxChanges = 1
INVARIANTS PoolAccounting HeldIsKept EventsReplay CommittedWrites
INVARIANTS UndisturbedIsExact ReportedOnce HardConstraintsKept TokensAgree ConversationSound
CHECK_DEADLOCK FALSE
