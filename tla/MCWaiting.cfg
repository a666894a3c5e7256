SPECIFICATION WaitingSpec
CONSTANTS
    Own = {0}
    Other = {}
    Freq <- MCFreq
    Unknown = {}
    Clients = {"one", "two"}
    Kinds = {"watch"}
    Holds = {0}
    Faults = {}
    MaxMux = 2
    MaxViewers = 1
PROPERTIES HubSettles
