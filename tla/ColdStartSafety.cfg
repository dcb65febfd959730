SPECIFICATION Spec
CONSTANTS
    Users = {u1, u2}
    Cleaners = {c1}
    Ids = {i1, i2, i3}
    MaxContainers = 1
    MaxStrays = 1
    DockerFails = TRUE
    MayCancel = TRUE
    MayStop = TRUE
SYMMETRY Symmetry
INVARIANT OneDestroyer
INVARIANT LiveTracked
INVARIANT BoundedOvershoot
