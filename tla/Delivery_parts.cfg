SPECIFICATION Spec
CONSTANTS
    j1 = j1
    j2 = j2
    w1 = w1
    w2 = w2
    p1 = p1
    p2 = p2
    c1 = c1
    NoJob = NoJob
    Job = {j1}
    Worker = {w1, w2}
    Process = {p1, p2}
    ProcessOf <- TwoProcesses
    ChatOf <- OneChat
    Created <- First
    Plan <- RichPlan
    MaxParts = 4
    MaxAttempts = 3
    LateCommit = TRUE
    MaxFaults = 2
INVARIANTS
    AtMostOnce
PROPERTIES
    KeepsPromise
CHECK_DEADLOCK FALSE
