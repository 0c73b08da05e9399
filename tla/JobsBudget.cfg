CONSTANTS
    c1 = c1
    d1 = d1
    d2 = d2
    e1 = e1
    e2 = e2
    Cases = {c1}
    Documents = {d1, d2}
    CaseOf <- OneCase
    Executions = {e1, e2}
    Stages <- OneStep
    NextStage <- NoChain
    NoStage = NoStage
    Quote <- FreeScan
    Limits = {1, 2}
    NoJob = NoJob
    MaxRuns = 0
    MaxRequests = 0
    MaxVersion = 4
SPECIFICATION Spec
SYMMETRY Symmetry
CHECK_DEADLOCK FALSE
INVARIANTS
    TypeOK
    SoleOwner
    ReservationsBalance
    SpendingIsSettled
    WithinLimit
    NoStrandedReservation
PROPERTIES
    ImplementsLifecycle
    ImplementsLedger
