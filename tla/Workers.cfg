SPECIFICATION Spec
CONSTANTS
    c1 = c1  c2 = c2  w1 = w1  w2 = w2
    None = None
    Callers = {c1, c2}
    Ids = {w1, w2}
    MaxWorkers = 1
    MaxReapers = 2
SYMMETRY Symmetry
INVARIANTS WorkerOwnership SandboxLimit StoppingIsReaped
