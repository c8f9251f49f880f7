SPECIFICATION EvidenceSpec
CONSTANTS
    None = None
    Bad = Bad
    Sector <- MCSector
    Year = 5
    Window = 3
    Worlds <- MCWorlds
    Answers <- MCAnswers
    MaxClock = 3
    MaxCrashes = 1
INVARIANTS NoHindsight CountedOnce CompleteIsComplete
PROPERTIES IdentityHistoryGrows
CHECK_DEADLOCK FALSE
