SPECIFICATION Spec
CONSTANTS
    MaxQuestions = 4
    MaxSessions = 2
    MaxCommands = 2
    Turns = 1
    PauseAt = 1
    BlockAt = 2
INVARIANTS
    DialogueInv
    FollowUpHasContext
    ForgottenForGood
    CacheIsImpersonal
PROPERTIES
    ClosedIsClosed
CHECK_DEADLOCK FALSE
