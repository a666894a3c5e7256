SPECIFICATION Spec
CONSTANTS
    a = a
    b = b
    Rungs = {1, 2}
    Looks = {"video", "film"}
    GpuFirst = TRUE
    MaxProcs = 3
    MaxGroups = 2
INVARIANTS PlaylistsHold EncodesHold LadderHolds
CHECK_DEADLOCK FALSE
