SPECIFICATION FairSpec
CONSTANTS
    MaxChunk = 2
    MaxPos = 3
    PendingCap = 2
    Span = 1
    MarkEvery = 1
    Windows = {0, 1}
    MaxTime = 2
    MaxTurns = 1
INVARIANTS RingInv HoldsWhatItSays NoOrphanFiles LookupsAreHeld
PROPERTIES ImplementsTape RingSettles
CHECK_DEADLOCK FALSE
