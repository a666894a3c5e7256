----------------------------- MODULE MCScreens ------------------------------
(* What a screen goes through: the rooms it plays in (Bus), the rendition   *)
(* it is given (Decide), several channels in one picture (Mosaic), and its  *)
(* player's own restarts (Picture).  No step below changes the state of two *)
(* of these modules, so a behaviour is one of one part: `part` says which.  *)
(* The slots v1..v10 are the variables of the parts but "channel", in the   *)
(* order each declares them.                                                *)
EXTENDS Bus

VARIABLES part, v1, v2, v3, v4, v5, v6, v7, v8, v9, v10

-----------------------------------------------------------------------------
\* Latency targets far enough apart that a first frame is nearer than all but
\* the lowest, and a step back does not reach the target at once.
FarApart == [l \in Latencies |-> CASE l = "lowest" -> 1 [] l = "balanced" -> 3 [] l = "stable" -> 4]

\* A room is named for its kind; all play one channel.
Named == [r \in RoomIds |-> r]
OneChannel == [r \in RoomIds |-> 1]

\* A channel's room is what the cfg says; this is a group's, which a viewer pauses,
\* seeks and leaves.
Grouped == INSTANCE Bus WITH
    RoomIds <- {"group"}, Kind <- [r \in {"group"} |-> r], Channel <- [r \in {"group"} |-> 1],
    Actions <- {"syncall", "pause", "play", "seek", "live"}, Leaving <- TRUE, LongChannels <- {},
    MaxTimers <- 0,
    rooms <- v1, timers <- v2, kind <- v3, in <- v4, pc <- v5, told <- v6, first <- v7, long <- v8, finder <- v9,
    settler <- v10

\* Broadcasts, devices, choices and hosts that differ in what a rendition depends on.
Sources == [video : {"mpeg2", "h264", "hevc"}, audio : {"ac3", "ac4"}, progressive : BOOLEAN,
            height : {720, 2160}, channels : {6}]
Devices == {[platform |-> p, video |-> v, audio |-> a1, maxHeight |-> m, network |-> "home"] :
               p \in {"web", "tvos"}, v \in {{"h264"}, {"h264", "hevc"}}, a1 \in {{"aac"}, {"aac", "ac3"}},
               m \in {0, 800}}
Wishes == {[quality |-> q, audio |-> a1, picture |-> "smooth", track |-> t, even |-> e] :
              q \in {"auto", "saver", "tile", "focus"}, a1 \in {"auto", "surround"},
              t \in {"main", "vi"}, e \in BOOLEAN}
Hosts == {[height |-> 0, focus |-> "none", hardware |-> FALSE, full |-> FALSE],
          [height |-> 360, focus |-> "360", hardware |-> TRUE, full |-> TRUE]}
Deciding == INSTANCE Decide WITH Choices <- Wishes, watch <- v1, answer <- v2

\* A mosaic of two channels in either order, by a television and an app, on a host
\* that has room for one mosaic and a tile.
Tiling == INSTANCE Mosaic WITH
    Channels <- {1, 2}, TileChannels <- {1}, Feeds <- 1..3, Keys <- {<<1, 2>>, <<2, 1>>},
    Screens <- {"tv", "app"}, Exporters <- {"app"}, Tiles <- 3, ExportCap <- 1, MaxViewers <- 2,
    on <- v1, feed <- v2, mosaics <- v3, pc <- v4, copies <- v5

\* A player whose server fails and restarts.
Restarting == INSTANCE Picture WITH
    FrozenTicks <- 1, SettledTicks <- 2, MaxFrozenSteps <- 2, RetryEvery <- 1, MaxRetries <- 1, LastAsk <- 1,
    MaxHold <- 1, MaxStarts <- 1, Causes <- {"none", "server", "restart"},
    cause <- v1, video <- v2, me <- v3, run <- v4, shown <- v5, clock <- v6, frozen <- v7, recov <- v8, later <- v9

none5 == v6 = 0 /\ v7 = 0 /\ v8 = 0 /\ v9 = 0 /\ v10 = 0
slots5 == <<v6, v7, v8, v9, v10>>
none3 == v3 = 0 /\ v4 = 0 /\ v5 = 0 /\ none5
none1 == v1 = 0 /\ v2 = 0 /\ none3
slots3 == <<v3, v4, v5, slots5>>
slots == <<v1, v2, slots3>>
all == <<part, vars, slots>>

-----------------------------------------------------------------------------
ScreensInit ==
    /\ Init
    /\ \/ part = "channel" /\ none1
       \/ part = "group" /\ Grouped!Init
       \/ part = "decide" /\ Deciding!DecideInit /\ none3
       \/ part = "mosaic" /\ Tiling!Init /\ none5
       \/ part = "restarting" /\ Restarting!Init /\ v10 = 0

ScreensNext ==
    \/ part = "channel" /\ Next /\ UNCHANGED <<part, slots>>
    \/ part = "group" /\ Grouped!Next /\ UNCHANGED <<part, vars>>
    \/ part = "decide" /\ Deciding!DecideNext /\ UNCHANGED <<part, vars, slots3>>
    \/ part = "mosaic" /\ Tiling!Next /\ UNCHANGED <<part, vars, slots5>>
    \/ part = "restarting" /\ Restarting!Next /\ UNCHANGED <<part, vars, v10>>

ScreensSpec == ScreensInit /\ [][ScreensNext]_all

-----------------------------------------------------------------------------
\* In a group's room, which a viewer steers: the room counts the screens in it, each
\* was last told the state the room is in, and an Apple screen's keeps its floor
\* (JoinAt, Leave, publishRoomLocked, AppleLatencyFor).
GroupsHold ==
    part = "group" => Grouped!BusInv /\ Grouped!AppleFloor

\* Only a viewer brings a room closer to live (Settle, Floor, EndEase), and a player
\* restarts a moving picture only for a server that restarted or on the clock of a
\* stopped one (restartFollowUp, recoveryEdge).
NothingIsPulled ==
    /\ NeverPulled
    /\ [][part = "group" => Grouped!PulledByViewer]_all
    /\ [][part = "restarting" => Restarting!MovesOn]_all

\* A device can decode what it is given (DecideFor).  A mosaic fits the host's budget
\* although it tunes between looking and starting, it and its watches are what counts
\* on a feed, a feed that stops ends it, and one nobody watches ends (WatchMosaic,
\* stopFeedLocked, watchMosaic, idleMosaicLocked).  A player starts once at a time, and
\* asks again while it says that its picture stopped (useLiveStream).
PicturesHold ==
    /\ part = "decide" => Deciding!DeviceCanPlay
    /\ part = "mosaic" => /\ Tiling!PicturesFit /\ Tiling!Counted /\ Tiling!TilesAreLive
                          /\ Tiling!IdleEndsIt /\ Tiling!CopiesCounted
    /\ part = "restarting" => Restarting!RetryingIsStarting /\ Restarting!StoppedIsRetried
=============================================================================
