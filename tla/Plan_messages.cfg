\* Answers of one block of up to eight tokens, or of up to five blocks.
SPECIFICATION Spec
CONSTANTS
    Documents <- Answers
    MaxPart = 24
    MaxRich = 5
INVARIANTS
    PartsFit
    Balanced
    NothingLost
    WholeWords
    HeadingLeads
    PackedBest
CHECK_DEADLOCK FALSE
