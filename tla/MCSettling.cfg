SPECIFICATION SettlingSpec
CONSTANTS
    MaxChunk = 2
    MaxPos = 3
    QueueCap = 2
    MaxGen = 2
INVARIANTS BackfillInv InOrder NothingMissed StopsAtItsEnd
PROPERTIES BackfillSettles OthersSettle
CHECK_DEADLOCK FALSE
