SPECIFICATION FairSpec
CONSTANTS
    j1 = j1
    j2 = j2
    w1 = w1
    w2 = w2
    p1 = p1
    p2 = p2
    c1 = c1
    NoJob = NoJob
    Job = {j1, j2}
    Worker = {w1, w2}
    Process = {p1, p2}
    ProcessOf <- TwoProcesses
    ChatOf <- SameChat
    Created <- FirstSecond
    Plan <- PairPlan
    MaxParts = 4
    MaxAttempts = 2
    LateCommit = FALSE
    MaxFaults = 1
INVARIANTS
    OneDeliveryPerChat
PROPERTIES
    ChatOrder
    EventuallySettled
CHECK_DEADLOCK FALSE
