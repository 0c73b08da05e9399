CONSTANTS
    c1 = c1
    d1 = d1
    e1 = e1
    Cases = {c1}
    CaseOf <- OneCase
    Stages <- Steps
    NextStage <- NoChain
    NoStage = NoStage
    Quote <- OneEach
    NoJob = NoJob
    MaxRuns = 0
    MaxRequests = 0
    q1 = q1
    q2 = q2
    Documents = {d1}
    Executions = {e1}
    Limits = {2}
    MaxVersion = 4
    Questions = {q1, q2}
    AnswerCost = 1
    MaxAudited = 2
SPECIFICATION AssistantSpec
SYMMETRY Symmetry
CHECK_DEADLOCK FALSE
INVARIANTS
    SettledCostIsKept
