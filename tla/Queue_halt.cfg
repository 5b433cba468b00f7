SPECIFICATION FairSpec
CONSTANTS
    q1 = q1
    q2 = q2
    s1 = s1
    s2 = s2
    p1 = p1
    p2 = p2
    Update = {1, 2}
    KindOf <- QuestionAndCommand
    Consumer = {q1, s1}
    LaneOf <- OneOfEach
    Process = {p1}
    ProcessOf <- OneProcess
    MaxAttempts = 2
    MaxFaults = 0
PROPERTIES
    EventuallyTaken
CHECK_DEADLOCK FALSE
