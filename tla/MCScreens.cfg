SPECIFICATION ScreensSpec
CONSTANTS
    RoomIds = {"channel"}
    Kind <- Named
    Channel <- OneChannel
    LatencyMS <- FarApart
    StallStep = 1
    StallQuiet = 1
    StartCushion = 0
    TileCushion = 1
    YoungTune = 2
    MeasureMargin = 1
    SoloMargin = 0
    AheadMin = 1
    BehindMin = 1
    YoungRoom = 1
    SettleGap = 0
    Pace = 2
    MaxLag = 4
    Clients = {tv, phone}
    Web = {tv}
    Apple = {phone}
    Actions = {"ahead", "behind", "stalled"}
    Choices = {"lowest"}
    FreshAge = 1
    Positions = {2, 4}
    Leaving = FALSE
    LongChannels = {1}
    MaxClientRooms = 2
    MaxGroups = 1
    MaxVersion = 2
    MaxJoined = 1
    MaxTimers = 1
INVARIANTS BusInv  ToldCurrent AppleFloor GroupsHold PicturesHold
PROPERTIES NothingIsPulled
CHECK_DEADLOCK FALSE
