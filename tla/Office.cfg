CONSTANTS
    x1 = x1
    x2 = x2
    x3 = x3
    q1 = q1
    q2 = q2
    c1 = c1
    c2 = c2
    ana = ana
    bia = bia
    w1 = w1
    w2 = w2
    Nothing = Nothing
    Nobody = Nobody
    Cases = {x1}
    Documents = {x2}
    CaseOf <- OneCase
    Executions = {w1}
    Stages <- Steps
    NextStage <- NoChain
    NoStage = Nothing
    Quote <- OneEach
    Limits = {2}
    NoJob = Nobody
    MaxRuns = 0
    MaxRequests = 0
    MaxVersion = 4
    Questions = {q1, q2}
    AnswerCost = 1
    MaxAudited = 2
    Requests = {q1, q2}
    NoItem = Nothing
    People = {ana}
    ListItems = {x1, x2}
    Required = {x1, x2}
    Evidence = {x3}
    Reviewers = {ana}
    NoEvidence = Nothing
    NoReviewer = Nobody
    Asked <- ItemAsked
    TaskItems = {x1}
    MaxUpdates = 2
    Sweepers = {w1}
    Recipients = {ana, bia}
    Prepared = {q1, q2}
    DigestInterval = 2
    Lookback = 3
    SweepInterval = 1
    MaxCompletions = 2
    MaxDone = 2
    Horizon = 4
    MaxRestarts = 1
    JobIds = {x1}
    Consumers = {w1, w2}
    NoConsumer = Nobody
    NoJobId = Nothing
    MaxAttempts = 3
    Requesters = {ana}
    MaxCrashes = 1
    MaxBlocks = 2
    Records = {c1, c2}
    Codes = {x1, x2}
    Numbers = {x3}
    NoNumber = Nothing
    Users = {ana, bia}
    Readers = {ana}
    NoRecord = Nothing
    MaxDate = 2
    Inputs <- SomeInputs
    Opened = {c1, c2}
    NoOpened = Nothing
    FormCodes = {x1, x2}
    NoCode = Nobody
    FormLimits = {1}
    FormLimit = 0
    BornWith = 2
    Forms = {q1, q2}
    MaxSaves = 2
    Fields = {x3}
    Entities = {c1, c2}
    ReviewItems = {x1}
    NoThing = Nothing
    Slots = {q1, q2}
    MaxChanges = 1
    Files = {x1, x2, x3}
    Unfit = {x3}
    MaxFiles = 3
    MaxChoice = 2
SPECIFICATION OfficeSpec
SYMMETRY Symmetry
CHECK_DEADLOCK FALSE
INVARIANTS
    ChecklistHolds
    TellsOnce
    OneGeneration
    BudgetHolds
    CasesAreGuarded
    ScreensAreFaithful
PROPERTIES
    EditsAreChained
