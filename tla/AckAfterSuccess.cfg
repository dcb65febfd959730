\* Violated: a failed dispatch is acknowledged.
SPECIFICATION Spec
CONSTANTS
    s1 = s1  s2 = s2  a1 = a1  a2 = a2  a3 = a3  r1 = r1  r2 = r2
    t1 = t1  t2 = t2  st1 = st1  st2 = st2
    None = None
    Tasks = {t1}
    Servers = {s1}
    Sessions = {a1}
    Requests = {r1}
    Subtasks <- NoSubtasks
    ReadySubtasks <- NoSubtasks
    BatchLimit = 1
    GuardianEnabled = FALSE
    DBFaults = TRUE
    Crashes = FALSE
INVARIANT
    AcknowledgedAfterSuccess
