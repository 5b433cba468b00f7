SPECIFICATION FairSpec
CONSTANTS
    o1 = o1
    w1 = w1
    w2 = w2
    p1 = p1
    p2 = p2
    Offer = {o1}
    Click = {1, 2}
    ClickOf <- OneOffer
    Paying = TRUE
    Worker = {w1, w2}
    Process = {p1, p2}
    ProcessOf <- TwoProcesses
    Cost = 1
    Granted = 1
    MaxAttempts = 2
    MaxFaults = 1
INVARIANTS
    ExpansionInv
    ExpandedOnce
    HeldWhileUnderWay
PROPERTIES
    KeepsPromise
    ForgottenIsOver
    EventuallyExpanded
CHECK_DEADLOCK FALSE
