SPECIFICATION FairSpec
CONSTANTS
    q1 = q1
    q2 = q2
    s1 = s1
    s2 = s2
    p1 = p1
    p2 = p2
    Update = {1, 2}
    KindOf <- QuestionAndCommand
    Consumer = {q1, s1, q2, s2}
    LaneOf <- QuestionAndService
    Process = {p1, p2}
    ProcessOf <- TwoProcesses
    MaxAttempts = 2
    MaxFaults = 2
INVARIANTS
    OneOwner
    AttemptsBounded
PROPERTIES
    SettledForGood
    EventuallyServed
CHECK_DEADLOCK FALSE
