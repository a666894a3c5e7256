------------------------------- MODULE Rooms --------------------------------
(***************************************************************************)
(* Sync rooms (server/internal/realtime/rooms.go): where on the broadcast  *)
(* timeline the screens of a channel, a group or a multiview play.  Every  *)
(* operation is one hold of Rooms.mu; Bus calls them.                      *)
(*                                                                         *)
(* A room's anchors are modelled by its lag: how far behind real time the  *)
(* frame it shows is.  Rate 1 keeps the lag, a pause lets it grow, an ease *)
(* lets it grow slowly.  Lags past MaxLag are one.                         *)
(***************************************************************************)
EXTENDS Integers, FiniteSets

CONSTANTS
    RoomIds,
    Kind,           \* "channel", "group", "multiview", or "tile": the grid's, or one tile's own
    Channel,        \* RoomState.ChannelID
    LatencyMS,      \* latencies
    StallStep, StallQuiet, StartCushion, TileCushion, YoungTune,
    MeasureMargin, SoloMargin, AheadMin, BehindMin, YoungRoom,
    SettleGap,      \* the gap Settle leaves alone
    Pace,           \* how far a paused room falls back while an ease moves one by 1
    MaxLag          \* bound: the furthest a room or a first frame is

Latencies == {"lowest", "balanced", "stable"}
Rates == {"play", "ease", "pause"}

ASSUME RoomsAssumption ==
    /\ IsFiniteSet(RoomIds)
    /\ Kind \in [RoomIds -> {"channel", "group", "multiview", "tile"}]
    /\ DOMAIN Channel = RoomIds
    /\ LatencyMS \in [Latencies -> 0..MaxLag]
    /\ LatencyMS["lowest"] <= LatencyMS["balanced"] /\ LatencyMS["balanced"] <= LatencyMS["stable"]
    /\ {StallStep, StallQuiet, StartCushion, TileCushion, YoungTune, MeasureMargin, SoloMargin,
        AheadMin, BehindMin, YoungRoom, SettleGap, Pace, MaxLag} \subseteq Nat

VARIABLES
    rooms,          \* rooms, with stepped, born and measured of each
    timers          \* pending calls of EndEase: time.AfterFunc in bus.go

RoomState ==
    [members : Nat, version : Nat, latency : Latencies, rate : Rates, lag : 0..MaxLag,
     synced : BOOLEAN, measured : BOOLEAN,
     quiet : 0..StallQuiet,         \* until the room may step back again
     young : 0..(YoungRoom + 1)]    \* until it takes no "ahead" any more

Forgotten ==
    [members |-> 0, version |-> 0, latency |-> "balanced", rate |-> "play", lag |-> 0,
     synced |-> FALSE, measured |-> FALSE, quiet |-> 0, young |-> 0]

Smaller(x, y) == IF x < y THEN x ELSE y
Larger(x, y) == IF x > y THEN x ELSE y
Capped(lag) == Smaller(lag, MaxLag)

Exists(r) == rooms[r].members > 0
\* OnChannel: the rooms that follow a channel.
OnChannel(ch) == {r \in RoomIds : Exists(r) /\ Channel[r] = ch}

Mode(r) == IF Kind[r] = "channel" THEN "follow" ELSE "group"
Multiview(r) == Kind[r] \in {"multiview", "tile"}
Target(r) == LatencyMS[rooms[r].latency]
Gap(r) == Target(r) - rooms[r].lag

\* What every change to a room has: the next version.
Changed(r, st) == [st EXCEPT !.version = rooms[r].version + 1]

-----------------------------------------------------------------------------
\* JoinAt: a new room plays at its latency, or on the first frame of a fresh
\* tune, held until the player has a little buffer.
Wait(r, start) ==
    LET cushion == IF Multiview(r) THEN TileCushion ELSE StartCushion
    IN  Larger(0, cushion - Larger(0, start - YoungTune))

JoinAt(r, start, latency) ==
    IF Exists(r) THEN [rooms[r] EXCEPT !.members = @ + 1]
    ELSE [Forgotten EXCEPT !.members = 1, !.version = 1, !.latency = latency, !.young = YoungRoom + 1,
             !.lag = IF start < LatencyMS[latency] THEN Capped(start + Wait(r, start)) ELSE LatencyMS[latency]]

\* Leave: an empty room is forgotten.
Leave(r) ==
    IF rooms[r].members <= 1 THEN Forgotten ELSE [rooms[r] EXCEPT !.members = @ - 1]

\* stepBackLocked
StepsBack(r) ==
    /\ (Mode(r) = "follow" /\ rooms[r].members = 1) \/ Multiview(r)
    /\ rooms[r].rate # "pause" /\ rooms[r].quiet = 0 /\ Gap(r) > 0
StepBack(r) ==
    IF StepsBack(r)
    THEN Changed(r, [rooms[r] EXCEPT !.lag = Smaller(@ + StallStep, Target(r)), !.quiet = StallQuiet])
    ELSE rooms[r]

\* measureLocked: a screen that starts ahead of a young room, or cannot reach
\* a measured one, brings the room to its own frame less a margin.
MeasuresTo(r, at) ==
    LET margin == IF rooms[r].members <= 1 THEN SoloMargin ELSE MeasureMargin
    IN  Larger(at + margin, LatencyMS["lowest"])
Measures(r, action, at) ==
    LET st == rooms[r]
    IN  /\ Mode(r) = "follow" \/ (Kind[r] = "tile" /\ st.members = 1)
        /\ st.rate = "play"
        /\ IF action = "ahead"
           THEN st.young > 0 /\ st.lag - at >= AheadMin /\ MeasuresTo(r, at) < st.lag
           ELSE st.measured /\ at - st.lag >= BehindMin
Measure(r, action, at) ==
    IF Measures(r, action, at)
    THEN Changed(r, [rooms[r] EXCEPT !.lag = Capped(MeasuresTo(r, at)), !.measured = TRUE])
    ELSE rooms[r]

\* setLatencyLocked
SetLatency(r, latency) ==
    LET st == Changed(r, [rooms[r] EXCEPT !.latency = latency])
    IN  IF Mode(r) = "follow" THEN [st EXCEPT !.lag = LatencyMS[latency], !.rate = "play"] ELSE st

\* Apply, "latency": a viewer's own choice wins over the measured frame.
ChooseLatency(r, latency) == [SetLatency(r, latency) EXCEPT !.measured = FALSE]

\* Apply, the other commands; a follow room takes no playback command.
Takes(r, action) == action \in {"stalled", "syncall", "ahead", "behind"} \/ Mode(r) = "group"
Apply(r, action, at) ==
    LET st == rooms[r]
    IN  CASE action = "stalled" -> StepBack(r)
          [] action \in {"ahead", "behind"} -> Measure(r, action, at)
          [] action = "syncall" -> IF st.synced THEN st ELSE Changed(r, [st EXCEPT !.synced = TRUE])
          [] action = "pause" -> Changed(r, [st EXCEPT !.rate = "pause"])
          [] action = "play" -> Changed(r, [st EXCEPT !.rate = "play"])
          [] action = "seek" -> Changed(r, [st EXCEPT !.lag = Larger(at, Target(r))])
          [] action = "live" -> Changed(r, [st EXCEPT !.lag = Target(r), !.rate = "play"])

\* Mutant: a measured room is floored like any other.
FloorsOther(r, latency) == Exists(r) /\ Target(r) < LatencyMS[latency]

\* Floor: whether the room changes, and to what.
Floors(r, latency) == Exists(r) /\ ~rooms[r].measured /\ Target(r) < LatencyMS[latency]

\* Mutant: a group is put on the floor even from further back.
FloorAlways(r, latency) ==
    IF ~Floors(r, latency) THEN rooms[r]
    ELSE [SetLatency(r, latency) EXCEPT !.lag = LatencyMS[latency]]
Floor(r, latency) ==
    IF ~Floors(r, latency) THEN rooms[r]
    ELSE [SetLatency(r, latency) EXCEPT !.lag = Larger(@, LatencyMS[latency])]

\* Settle, once the first frame is far enough back (age); browser: the room has
\* a screen that plays near it.
Settles(r, age, browser) ==
    /\ Exists(r) /\ Mode(r) = "follow" /\ rooms[r].rate = "play" /\ ~rooms[r].measured
    /\ browser => rooms[r].members >= 2
    /\ age >= Target(r) /\ Gap(r) > SettleGap
Settle(r, browser) ==
    Changed(r, IF browser THEN [rooms[r] EXCEPT !.rate = "ease"] ELSE [rooms[r] EXCEPT !.lag = Target(r)])

\* The timer that ends the ease Settle began.
EaseTimer(r) == [room |-> r, version |-> rooms[r].version + 1, left |-> Gap(r)]
Eases(t) == Exists(t.room) /\ rooms[t.room].version = t.version /\ rooms[t.room].rate = "ease"
EndEase(t) ==
    IF Eases(t) THEN Changed(t.room, [rooms[t.room] EXCEPT !.rate = "play"]) ELSE rooms[t.room]

\* Time passes.
Later(st) ==
    [st EXCEPT !.lag = Capped(@ + (CASE st.rate = "play" -> 0 [] st.rate = "ease" -> 1 [] st.rate = "pause" -> Pace)),
               !.quiet = Larger(@ - 1, 0), !.young = Larger(@ - 1, 0)]
=============================================================================
