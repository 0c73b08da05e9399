CONSTANTS
    x1 = x1
    x2 = x2
    x3 = x3
    q1 = q1
    q2 = q2
    p1 = p1
    p2 = p2
    l1 = l1
    l2 = l2
    ana = ana
    bia = bia
    Sources <- Texts
    Maximum = 4
    Overlap = 2
    Requests = {q1, q2}
    Keys = {x1, x2}
    Contents = {"copy"}
    ContentOf <- Copies
    NoKey = NoKey
    MaxFiles = 2
    MaxLost = 1
    Cases = {x1, x2}
    CaseDocuments = {x3}
    Persons = {ana}
    CaseOf <- OneCase
    NoThing = NoThing
    NoCase = NoCase
    Runs = {q1, q2}
    People = {ana, bia}
    NoRun = NoRun
    Nobody = Nobody
    Ids = {1, 2, 3}
    MaxTime = 2
    Limit = 1
    Queries = {x1, x2}
    NoQuery = x1
    Pending = {q1, q2}
    MaxPages = 3
    MaxUpdates = 2
    Tabs = {q1, q2}
    Slots = {x1, x2}
    Logins = {1}
    MaxRotations = 2
    MaxExpiries = 1
    NoTab = NoTab
    NoSlot = NoSlot
    Prepared = {x3}
    Polls = {p1, p2}
    Loads = {l1, l2}
    NoCount = NoCount
    MaxMoves = 2
    MaxTroubles = 1
SPECIFICATION DocumentsSpec
SYMMETRY Symmetry
CHECK_DEADLOCK FALSE
INVARIANTS
    FilesAreKept
    OnlyOvertakenRemovals
    ReadingsHoldTogether
    ListsAreWhole
    ClientHoldsSession
    ChunksHold
    PollingIsFaithful
PROPERTIES
    OnlyPeopleReview
