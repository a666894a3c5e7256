SPECIFICATION TunersSpec
CONSTANTS
    Own = {0, 1}
    Other = {}
    Freq <- MCFreq
    Unknown = {}
    c1 = c1
    c2 = c2
    Clients <- MCClients
    Kinds = {"watch", "record"}
    Holds = {0}
    Faults = {"refuse"}
    MaxMux = 2
    MaxViewers = 1
SYMMETRY MCSymmetry
INVARIANTS TunersAccounted MapsAgree ScanHolds
PROPERTIES RecordingsAreKept RecordingsAreKeptElsewhere
