SPECIFICATION LibrarySpec
CONSTANTS
    Airings <- ShowAndRerun
    Channels = {1, 2}
    Buffer = TRUE
    Faults = {"refuse", "abort", "fail", "stop", "damage", "crash", "shutdown", "watch"}
    MaxFaults = 2
    Horizon = 21
INVARIANTS TableHolds  
CHECK_DEADLOCK FALSE
