CONSTANTS
    j1 = j1
    j2 = j2
    w1 = w1
    w2 = w2
    JobIds = {j1, j2}
    Consumers = {w1, w2}
    NoConsumer = NoConsumer
    NoJobId = NoJobId
    MaxAttempts = 2
    ReconcileBatch = 1
    Deletable = {j1}
    MaxFaults = 1
SPECIFICATION FairSpec
INVARIANTS
    OneRunOwns
PROPERTIES
    SettledIsFinal
    EveryJobSettles
