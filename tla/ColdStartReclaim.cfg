SPECIFICATION FairSpec
CONSTANTS
    Users = {u1, u2}
    Cleaners = {c1}
    Ids = {i1, i2}
    MaxContainers = 1
    MaxStrays = 0
    DockerFails = FALSE
    MayCancel = TRUE
    MayStop = FALSE
PROPERTY AbandonedReclaimed
