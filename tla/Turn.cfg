SPECIFICATION FairSpec
CONSTANTS
    PipeSize = 2
    MaxEvents = 4
    InheritsPipe = TRUE
INVARIANTS
    EndTurnIsEarned
    FailureIsNotHidden
PROPERTIES
    PipeIsRelieved
    LeavingEndsTheTurn
