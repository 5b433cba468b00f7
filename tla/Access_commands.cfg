SPECIFICATION Spec
CONSTANTS
    a = a
    b = b
    Update = {1, 2, 3}
    Commands <- AnyThree
    Fact = {"salt", "koji"}
    Consumer = {a, b}
    StartingCredits = 3
    Amount = 2
    MaxAttempts = 2
    MaxFaults = 1
INVARIANTS
    GrantsAddUp
    AdmissionIsPaid
PROPERTIES
    FactsKept
CHECK_DEADLOCK FALSE
