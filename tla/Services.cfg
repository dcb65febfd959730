SPECIFICATION MCSpec
CONSTANTS
    p1 = p1  p2 = p2  t1 = t1  r1 = r1  r2 = r2  u1 = u1
    MaxEvents = 2
    Pollers = {p1, p2}
    BatchSize = 2
    MaxRetries = 2
    BackoffAfter = 1
    MaxMishaps = 1
    Tasks = {t1}
    Requests = {r1, r2}
    Users = {u1}
    Handler = Handler
    Nil = Nil
INVARIANTS OutcomeIsTrue DecisionsSound
PROPERTIES PendingIsSettled ExpiredIsAnswered
CHECK_DEADLOCK FALSE
