SPECIFICATION HouseSpec
CONSTANTS
    Own = {0}
    Other = {}
    Freq <- Apart
    Unknown = {}
    c1 = c1
    c2 = c2
    Clients <- MCClients
    Kinds = {"watch"}
    Holds = {0}
    Faults = {"stream"}
    MaxMux = 2
    MaxViewers = 1
SYMMETRY MCSymmetry
INVARIANTS NoLateNone
