\* Two servers with a guardian race for one task; any database operation may fail or lose its reply.
SPECIFICATION Spec
CONSTANTS
    s1 = s1  s2 = s2  a1 = a1  a2 = a2  a3 = a3  r1 = r1  r2 = r2
    t1 = t1  t2 = t2  st1 = st1  st2 = st2
    None = None
    Tasks = {t1}
    Servers = {s1, s2}
    Sessions = {a1, a2}
    Requests = {r1, r2}
    Subtasks <- NoSubtasks
    ReadySubtasks <- NoSubtasks
    BatchLimit = 1
    GuardianEnabled = TRUE
    DBFaults = TRUE
    Crashes = FALSE
SYMMETRY Symmetry
INVARIANTS
    TerminalEventsSound
    ExclusiveExecution
    AckedSubmissionDurable
PROPERTY
    RefinesTaskSpec
