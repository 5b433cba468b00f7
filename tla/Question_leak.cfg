SPECIFICATION FairSpec
CONSTANTS
    u1 = u1
    w1 = w1
    w2 = w2
    p1 = p1
    p2 = p2
    Request = {1}
    User = {u1}
    UserOf <- OneUser
    Paid = {1}
    Worker = {w1, w2}
    Process = {p1, p2}
    ProcessOf <- TwoProcesses
    Cost = 2
    Granted <- OneAnswer
    MaxAttempts = 2
    MaxFaults = 1
PROPERTIES
    ReservationEnds
CHECK_DEADLOCK FALSE
