SPECIFICATION FairSpec
CONSTANTS
    q1 = q1
    w1 = w1
    w2 = w2
    p1 = p1
    p2 = p2
    a1 = a1
    a2 = a2
    Process = {p1, p2}
    Caller = {w1, w2}
    ProcessOf <- TwoProcesses
    NativeUrls <- OneUrl
    PreferOpenAi = TRUE
    TriesPerVariant = 2
    MaxHttp = 3
    Question = {q1}
    Agent = {a1, a2}
    MaxMore = 1
    Settings <- TwoSettings
    MaxFaults = 2
INVARIANTS
    AccountedOnce
    CallsBounded
    OneAgent
PROPERTIES
    NoReplay
    DraftGrows
    EventuallyGenerated
CHECK_DEADLOCK FALSE
