\* Two callers want the container of one project; two handles want one lock.
SPECIFICATION MCSpec
CONSTANTS
    c1 = c1  c2 = c2  k1 = k1  h1 = h1  h2 = h2
    Callers = {c1, c2}
    Projects = {k1}
    MaxTries = 3
    MaxCreated = 2
    MaxRestarts = 1
    DockerFails = TRUE
    MayDie = TRUE
    MayCleanup = TRUE
    MayStop = TRUE
    Handles = {h1, h2}
    TTL = 3
    Interval = 1
    Prompt = FALSE
    RedisFails = TRUE
    MayCrash = TRUE
INVARIANTS OneContainer LockOwnership
PROPERTIES ReservationResolved LostLockEndsWatchdog
CHECK_DEADLOCK FALSE
