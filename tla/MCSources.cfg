SPECIFICATION SourcesSpec
CONSTANTS
    Slots = {1, 2}
    Callers <- OneCaller
    Codes = {1}
    PendingMax = 1
    DenyAfter = 2
    TTL = 1
    InviteTTL = 2
    Window = 2
    IPLimit = 3
    FailCap = 3
    MaxNow = 1
    MaxPairings = 1
    MaxDevices = 2
    MaxGuesses = 1
    MaxSwitches = 1
    MaxRestarts = 1
    a1 = a1
    a2 = a2
INVARIANTS AccessInv HandedOnce GuessesHold   EmulationHolds HouseIsQuiet
PROPERTIES AdminLeft 
CHECK_DEADLOCK FALSE
