SPECIFICATION HouseSpec
CONSTANTS
    Own = {0, 1}
    Other = {}
    Freq <- MCFreq
    Unknown = {1}
    c1 = c1
    c2 = c2
    Clients <- MCClients
    Kinds = {"watch"}
    Holds = {0}
    Faults = {}
    MaxMux = 2
    MaxViewers = 1
SYMMETRY MCSymmetry
INVARIANTS TunedOnce
