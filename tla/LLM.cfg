\* Two requests over four models, one without a provider; three parallel nodes.
SPECIFICATION MCSpec
CONSTANTS
    c1 = c1  c2 = c2  haiku = haiku  sonnet = sonnet  air = air  glm = glm  simple = simple
    n1 = n1  n2 = n2  n3 = n3  None = None
    Models = {haiku, sonnet, air, glm}
    Registered = {haiku, sonnet, glm}
    NoModel = None
    TaskTypes = {simple}
    Prefers <- MCPrefers
    PrimaryProvider = haiku
    FallbackOrder <- MCOrder
    CostRank <- MCCost
    Upgrades <- MCUp
    MaxAttempts = 2
    MinRequests = 2
    Callers = {c1, c2}
    BurstSize = 1
    MaxRequests = 2
    Goals <- MCGoals
    NewRules <- MCRules
    ParallelNodes = {n1, n2, n3}
    MaxIterations = 3
    MaxItems = 2
INVARIANTS FailureHasReason ResultAccounts
PROPERTIES RequestsEnd GraphEnds
CHECK_DEADLOCK FALSE
