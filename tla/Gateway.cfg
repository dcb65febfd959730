\* One client of the hub; two callers of remote tools, over one pipe, and one task.
SPECIFICATION MCSpec
CONSTANTS
    c1 = c1  rA = rA  rB = rB  m1 = m1  m2 = m2  t1 = t1  s1 = s1
    Clients = {c1}
    Rooms = {rA, rB}
    NoRoom = NoRoom
    MaxEvents = 2
    MaxPushes = 2
    EventChSize = 1
    SendSize = 2
    Callers = {m1, m2}
    StdioCallers = {m1, m2}
    TaskIds = {t1}
    Subtask = s1
    MaxCalls = 2
    MaxMoves = 2
    MaxPolls = 1
INVARIANTS HubDelivery ReportedIsReal
PROPERTIES LeaversAreUnregistered CallsAnswered
CHECK_DEADLOCK FALSE
