SPECIFICATION DvrSpec
CONSTANTS
    Airings <- BackToBack
    Channels = {1}
    Buffer = TRUE
    Faults = {}
    MaxFaults = 0
    Horizon = 26
INVARIANT PlannedIsRecorded
