CONSTANTS
    r1 = r1
    r2 = r2
    Rounds = {r1, r2}
    Batch = 2
    MaxAttempts = 2
    MaxEmails = 2
    MaxCrashes = 1
SPECIFICATION FairSpec
INVARIANTS
    OutcomeIsEarned
PROPERTIES
    SentIsFinal
    EveryEmailSettles
