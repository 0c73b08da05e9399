CONSTANTS
    c1 = c1
    d1 = d1
    d2 = d2
    e1 = e1
    e2 = e2
    Cases = {c1}
    Documents = {d1}
    CaseOf <- OneCase
    Executions = {e1, e2}
    Stages <- OneStep
    NextStage <- ChainOfTwo
    NoStage = NoStage
    Quote <- FreeScan
    Limits = {2}
    NoJob = NoJob
    MaxRuns = 2
    MaxRequests = 2
    MaxVersion = 4
SPECIFICATION Spec
SYMMETRY Symmetry
CHECK_DEADLOCK FALSE
INVARIANTS
    WorkBehindStatus
    SettledDocument
    StageOrder
