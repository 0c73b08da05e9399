CONSTANTS
    j1 = j1
    j2 = j2
    w1 = w1
    w2 = w2
    JobIds = {j1}
    Consumers = {w1, w2}
    NoConsumer = NoConsumer
    NoJobId = NoJobId
    MaxAttempts = 2
    ReconcileBatch = 1
    Deletable = {j1}
    MaxFaults = 2
SPECIFICATION Spec
INVARIANTS
    InterruptedWorkResumes
