CONSTANTS
    r1 = r1
    r2 = r2
    Rounds = {r1, r2}
    Batch = 2
    MaxAttempts = 2
    MaxEmails = 1
    MaxCrashes = 0
SPECIFICATION Spec
SYMMETRY Symmetry
INVARIANTS
    OnlyOneTakes
