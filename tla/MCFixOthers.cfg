SPECIFICATION FixSpec
CONSTANTS Airings <- BackToBack Channels = {1} Buffer = TRUE Faults = {} MaxFaults = 0 Horizon = 0
PROPERTIES OthersKept
CHECK_DEADLOCK FALSE
