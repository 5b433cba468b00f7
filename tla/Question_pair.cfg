SPECIFICATION FairSpec
CONSTANTS
    u1 = u1
    w1 = w1
    w2 = w2
    p1 = p1
    p2 = p2
    Request = {1, 2}
    User = {u1}
    UserOf <- OneUser
    Paid = {1, 2}
    Worker = {w1, w2}
    Process = {p1, p2}
    ProcessOf <- TwoProcesses
    Cost = 2
    Granted <- OneAnswer
    MaxAttempts = 3
    MaxFaults = 1
INVARIANTS
    AnsweredOnce
    DraftIsCovered
    LedgerAgrees
PROPERTIES
    KeepsPromise
    EventuallyDecided
CHECK_DEADLOCK FALSE
