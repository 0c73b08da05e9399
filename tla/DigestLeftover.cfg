CONSTANTS
    Sweepers = {w1}
    Recipients = {ana}
    Cases = {k1}
    DigestInterval = 2
    Lookback = 5
    SweepInterval = 1
    MaxCompletions = 1
    MaxDone = 2
    Horizon = 5
    MaxRestarts = 0
SPECIFICATION Spec
CHECK_DEADLOCK FALSE
INVARIANTS
    LeftoverWaits
