-------------------------------- MODULE Bus ---------------------------------
(***************************************************************************)
(* The event bus (realtime/bus.go) over the sync rooms: each screen's      *)
(* socket is a goroutine that handles one message after the other, and     *)
(* takes the bus lock and the room lock one after the other within one;    *)
(* the hub calls in when a segment is ready and when a station turns out   *)
(* to send long groups of pictures; ease timers fire.                      *)
(*                                                                         *)
(* What is modelled of a message is what it does to rooms and members, and *)
(* which room state each screen was told last; the queue a message waits   *)
(* in, and screens that fall behind, are not modelled.                     *)
(***************************************************************************)
EXTENDS Rooms

CONSTANTS
    Clients,
    Web, Apple,             \* screens that say they are one; both may say nothing
    Actions,                \* commands the screens send besides latency
    Choices,                \* latencies they choose, when they join or later
    FreshAge,               \* how far back the first frame of a new encode is
    Positions,              \* lags the screens report, or seek to
    Leaving,                \* whether screens leave, or lose their socket
    LongChannels,           \* stations that may turn out to send long groups
    MaxClientRooms, MaxGroups,
    MaxVersion,             \* bound: commands to one room
    MaxJoined,              \* bound: rooms joined at once
    MaxTimers               \* bound: ease timers running at once

ASSUME BusAssumption ==
    /\ IsFiniteSet(Clients)
    /\ Web \cup Apple \subseteq Clients
    /\ Actions \subseteq {"stalled", "syncall", "ahead", "behind", "pause", "play", "seek", "live"}
    /\ Choices \subseteq Latencies /\ Choices # {}
    /\ FreshAge \in 0..MaxLag /\ Positions \subseteq 0..MaxLag
    /\ Leaving \in BOOLEAN
    /\ {MaxClientRooms, MaxGroups, MaxVersion, MaxJoined, MaxTimers} \subseteq Nat

VARIABLES
    kind,           \* client.here.Kind: "", "web" or "apple"
    in,             \* client.rooms
    pc,             \* where the client's goroutine is
    told,           \* told[c][r]: the state of r last sent to c, or None
    first,          \* first[ch]: how far back the newest encode's first frame is
    long,           \* channels known to send long groups
    finder,         \* the goroutine that floors rooms of such a channel
    settler         \* the call of Settle that is running

rooms_ == <<rooms, timers>>
vars == <<rooms, timers, kind, in, pc, told, first, long, finder, settler>>

Channels == {Channel[r] : r \in RoomIds}
NoRoom == ""
None == [version |-> 0]

\* at: the step the goroutine takes next.  task: what it is part of.
At(at, task, room, rest, floor) ==
    [at |-> at, task |-> task, room |-> room, rest |-> rest, floor |-> floor]
Off == At("off", "", NoRoom, {}, "lowest")
Ready == At("ready", "", NoRoom, {}, "lowest")
Idle == Ready

\* The next room of a loop over rooms, or the end of the handler.
Loop(task, rest) ==
    IF rest # {} THEN At(task, task, NoRoom, rest, "lowest")
    ELSE IF task = "gone" THEN Off ELSE Ready

NotSettling == [at |-> "idle", channel |-> 0, age |-> 0, browsers |-> {}]

Init ==
    /\ rooms = [r \in RoomIds |-> Forgotten]
    /\ timers = {}
    /\ kind = [c \in Clients |-> ""]
    /\ in = [c \in Clients |-> {}]
    /\ pc = [c \in Clients |-> Off]
    /\ told = [c \in Clients |-> [r \in RoomIds |-> None]]
    /\ first = [ch \in Channels |-> MaxLag]
    /\ long = {}
    /\ finder = Idle
    /\ settler = NotSettling

-----------------------------------------------------------------------------
(* What the handlers share *)

Public(st) ==
    [version |-> st.version, rate |-> st.rate, latency |-> st.latency,
     members |-> st.members, synced |-> st.synced]

\* publishRoomLocked, for every room of a set, with the state of this step.
Publish(R) ==
    told' = [c \in Clients |-> [r \in RoomIds |->
                IF r \in R \cap in[c] /\ rooms'[r].members > 0 THEN Public(rooms'[r]) ELSE told[c][r]]]

Group(r) == Kind[r] = "group"

Joined == UNION {in[c] : c \in Clients}

GroupCount(r) == IF r \in Joined THEN 0 ELSE Cardinality({g \in Joined : Group(g)})

AppleIn(r) == \E c \in Clients : r \in in[c] /\ kind[c] = "apple"

AppleLatencyFor(r) == IF Exists(r) /\ Channel[r] \in long THEN "stable" ELSE "balanced"

RoomsWithBrowsers == UNION {in[c] : c \in {d \in Clients : kind[d] # "apple"}}

Is(c, at) == pc[c].at = at

Go(c, to) == pc' = [pc EXCEPT ![c] = to]

hub == <<first, long, finder, settler>>

-----------------------------------------------------------------------------
(* A screen's socket *)

Connect(c) ==
    /\ Is(c, "off")
    /\ Go(c, Ready)
    /\ UNCHANGED <<rooms_, kind, in, told, hub>>

\* here: the screen says what it is; its rooms are floored for an Apple one.
Here(c, k) ==
    /\ Is(c, "ready") /\ kind[c] # k
    /\ k = "web" => c \in Web
    /\ k = "apple" => c \in Apple
    /\ kind' = [kind EXCEPT ![c] = k]
    /\ Go(c, Loop("here", in[c]))
    /\ UNCHANGED <<rooms_, in, told, hub>>

HereRoom(c) ==
    /\ Is(c, "here")
    /\ \E r \in pc[c].rest :
          LET rest == pc[c].rest \ {r}
          IN  Go(c, IF kind[c] = "apple" THEN At("floor", "here", r, rest, "lowest")
                    ELSE IF Group(r) THEN At("publish", "here", r, rest, "lowest")
                    ELSE Loop("here", rest))
    /\ UNCHANGED <<rooms_, kind, in, told, hub>>

\* Mutant: a screen may join a room it is in.
SetMemberAgain(c, r) ==
    /\ Cardinality(in[c]) < MaxClientRooms
    /\ Group(r) => GroupCount(r) < MaxGroups

SetMember(c, r) ==
    /\ r \notin in[c]
    /\ Cardinality(in[c]) < MaxClientRooms
    /\ Group(r) => GroupCount(r) < MaxGroups

SyncJoin(c, r) ==
    /\ Is(c, "ready")
    /\ SetMember(c, r)
    /\ Cardinality(Joined \cup {r}) <= MaxJoined
    /\ in' = [in EXCEPT ![c] = @ \cup {r}]
    /\ Go(c, At("join", "join", r, {}, "lowest"))
    /\ UNCHANGED <<rooms_, kind, told, hub>>

\* An Apple screen does not ask for the first frame.
MediaStart(c, r) == IF kind[c] = "apple" THEN MaxLag ELSE first[Channel[r]]

JoinRoom(c) ==
    /\ Is(c, "join")
    /\ LET r == pc[c].room
       IN  /\ \E latency \in Choices :
                 rooms' = [rooms EXCEPT ![r] = JoinAt(r, MediaStart(c, r), latency)]
           /\ Go(c, At(IF kind[c] = "apple" THEN "floor" ELSE "publish", "join", r, {}, "lowest"))
    /\ UNCHANGED <<timers, kind, in, told, hub>>

\* appleLatencyFor reads the room and the hub, each under its own lock.
FloorReads(c) ==
    /\ Is(c, "floor")
    /\ Go(c, [pc[c] EXCEPT !.at = "floorAt", !.floor = AppleLatencyFor(pc[c].room)])
    /\ UNCHANGED <<rooms_, kind, in, told, hub>>

\* Mutant: a room's screens hear of their own screen's floor only in a group.
TellsOfGroup(p, floored) == p.task = "join" \/ Group(p.room)

\* Whether the handler publishes the room it may have floored.
Tells(p, floored) == p.task = "join" \/ floored \/ Group(p.room)

FloorRoom(c) ==
    /\ Is(c, "floorAt")
    /\ LET p == pc[c]
       IN  /\ rooms' = [rooms EXCEPT ![p.room] = Floor(p.room, p.floor)]
           /\ Go(c, IF Tells(p, Floors(p.room, p.floor)) THEN [p EXCEPT !.at = "publish", !.floor = "lowest"]
                    ELSE Loop(p.task, p.rest))
    /\ UNCHANGED <<timers, kind, in, told, hub>>

\* roomChanged
RoomChanged(c) ==
    /\ Is(c, "publish")
    /\ Go(c, Loop(pc[c].task, pc[c].rest))
    /\ UNCHANGED <<rooms_, kind, in, hub>>
    /\ Publish({pc[c].room})

SyncLeave(c, r) ==
    /\ Leaving /\ Is(c, "ready") /\ r \in in[c]
    /\ in' = [in EXCEPT ![c] = @ \ {r}]
    /\ told' = [told EXCEPT ![c][r] = None]
    /\ Go(c, At("leave", "leave", r, {}, "lowest"))
    /\ UNCHANGED <<rooms_, kind, hub>>

\* Mutant: the room is not told.
LeaveRoomQuietly(c) ==
    /\ Is(c, "leave")
    /\ rooms' = [rooms EXCEPT ![pc[c].room] = Leave(pc[c].room)]
    /\ Go(c, Ready)
    /\ UNCHANGED <<timers, kind, in, told, hub>>

LeaveRoom(c) ==
    /\ Is(c, "leave")
    /\ rooms' = [rooms EXCEPT ![pc[c].room] = Leave(pc[c].room)]
    /\ Go(c, [pc[c] EXCEPT !.at = "publish"])
    /\ UNCHANGED <<timers, kind, in, told, hub>>

\* The socket is gone: the client first, then each of its rooms.
Disconnect(c) ==
    /\ Leaving /\ Is(c, "ready")
    /\ in' = [in EXCEPT ![c] = {}]
    /\ kind' = [kind EXCEPT ![c] = ""]
    /\ told' = [told EXCEPT ![c] = [r \in RoomIds |-> None]]
    /\ Go(c, Loop("gone", in[c]))
    /\ UNCHANGED <<rooms_, hub>>

LeaveNext(c) ==
    /\ Is(c, "gone")
    /\ \E r \in pc[c].rest :
          /\ rooms' = [rooms EXCEPT ![r] = Leave(r)]
          /\ Go(c, At("publish", "gone", r, pc[c].rest \ {r}, "lowest"))
    /\ UNCHANGED <<timers, kind, in, told, hub>>

\* sync.command, other than latency: one hold of the lock.
SyncCommand(c, r, action, at) ==
    /\ Is(c, "ready") /\ r \in in[c] /\ Exists(r)
    /\ rooms[r].version < MaxVersion
    /\ Takes(r, action)
    /\ rooms' = [rooms EXCEPT ![r] = Apply(r, action, at)]
    /\ UNCHANGED <<timers, kind, in, pc, hub>>
    /\ Publish({r})

\* A latency: the floor is read before the lock is taken.
LatencyReads(c, r) ==
    /\ Is(c, "ready") /\ r \in in[c] /\ Exists(r)
    /\ rooms[r].version < MaxVersion
    /\ Go(c, At("latency", "command", r, {}, AppleLatencyFor(r)))
    /\ UNCHANGED <<rooms_, kind, in, told, hub>>

\* Mutant: the choice is taken as it is.
AnyChoice(r, latency, floor) == latency

FlooredChoice(r, latency, floor) ==
    IF LatencyMS[latency] < LatencyMS[floor] /\ AppleIn(r) THEN floor ELSE latency

LatencyApplies(c) ==
    /\ Is(c, "latency")
    /\ LET r == pc[c].room
       IN  /\ \E latency \in Choices :
                 rooms' = [rooms EXCEPT ![r] = ChooseLatency(r, FlooredChoice(r, latency, pc[c].floor))]
           /\ Go(c, Ready)
           /\ UNCHANGED <<timers, kind, in, hub>>
           /\ Publish({r})

\* Only these say where the screen is, or should be.
Places(action) == IF action \in {"ahead", "behind", "seek"} THEN Positions ELSE {0}

Screen(c) ==
    \/ Connect(c) \/ Disconnect(c) \/ LeaveNext(c)
    \/ \E k \in {"web", "apple"} : Here(c, k)
    \/ HereRoom(c) \/ JoinRoom(c) \/ FloorReads(c) \/ FloorRoom(c) \/ RoomChanged(c) \/ LeaveRoom(c)
    \/ \E r \in RoomIds : SyncJoin(c, r) \/ SyncLeave(c, r) \/ LatencyReads(c, r)
    \/ \E r \in RoomIds, action \in Actions : \E at \in Places(action) : SyncCommand(c, r, action, at)
    \/ LatencyApplies(c)

-----------------------------------------------------------------------------
(* The hub's calls, and timers *)

clients == <<kind, in, pc>>

\* A new encode of the channel has its first frame (EarliestMedia).
Encode(ch) ==
    /\ first[ch] # FreshAge
    /\ first' = [first EXCEPT ![ch] = FreshAge]
    /\ UNCHANGED <<rooms_, clients, told, long, finder, settler>>

\* A playlist finds long groups, or none any more.
LongFound(ch) ==
    /\ ch \in LongChannels \ long /\ finder = Idle
    /\ long' = long \cup {ch}
    /\ finder' = At("list", "long", NoRoom, {}, "lowest")
    /\ UNCHANGED <<rooms_, clients, told, first, settler>>

LongLost(ch) ==
    /\ ch \in long /\ finder = Idle
    /\ long' = long \ {ch}
    /\ UNCHANGED <<rooms_, clients, told, first, finder, settler>>

\* LongGroupsFound: the channel's rooms, then each one that has an Apple screen.
FinderLists ==
    /\ finder.at = "list"
    /\ \E ch \in long : finder' = Loop("long", OnChannel(ch))
    /\ UNCHANGED <<rooms_, clients, told, first, long, settler>>

FinderLooks ==
    /\ finder.at = "long"
    /\ \E r \in finder.rest :
          LET rest == finder.rest \ {r}
          IN  finder' = IF AppleIn(r) THEN At("floor", "long", r, rest, "lowest") ELSE Loop("long", rest)
    /\ UNCHANGED <<rooms_, clients, told, first, long, settler>>

FinderReads ==
    /\ finder.at = "floor"
    /\ finder' = [finder EXCEPT !.at = "floorAt", !.floor = AppleLatencyFor(finder.room)]
    /\ UNCHANGED <<rooms_, clients, told, first, long, settler>>

FinderFloors ==
    /\ finder.at = "floorAt"
    /\ LET r == finder.room
       IN  /\ rooms' = [rooms EXCEPT ![r] = Floor(r, finder.floor)]
           /\ finder' = IF Floors(r, finder.floor) THEN [finder EXCEPT !.at = "publish", !.floor = "lowest"]
                        ELSE Loop("long", finder.rest)
    /\ UNCHANGED <<timers, clients, told, first, long, settler>>

FinderTells ==
    /\ finder.at = "publish"
    /\ finder' = Loop("long", finder.rest)
    /\ UNCHANGED <<rooms_, clients, first, long, settler>>
    /\ Publish({finder.room})

\* Settle: which rooms have a browser, then the rooms, each under its lock.
SettleReads(ch) ==
    /\ settler = NotSettling
    /\ Cardinality(timers) < MaxTimers
    /\ settler' = [at |-> "settle", channel |-> ch, age |-> first[ch], browsers |-> RoomsWithBrowsers]
    /\ UNCHANGED <<rooms_, clients, told, first, long, finder>>

Settling ==
    {r \in RoomIds : Channel[r] = settler.channel /\ Settles(r, settler.age, r \in settler.browsers)}

SettleRooms ==
    /\ settler.at = "settle"
    /\ rooms' = [r \in RoomIds |-> IF r \in Settling THEN Settle(r, r \in settler.browsers) ELSE rooms[r]]
    /\ timers' = timers \cup {EaseTimer(r) : r \in Settling \cap settler.browsers}
    /\ settler' = NotSettling
    /\ UNCHANGED <<clients, first, long, finder>>
    /\ Publish(Settling)

TimerFires(t) ==
    /\ t \in timers /\ t.left = 0
    /\ timers' = timers \ {t}
    /\ rooms' = [rooms EXCEPT ![t.room] = EndEase(t)]
    /\ UNCHANGED <<clients, hub>>
    /\ Publish(IF Eases(t) THEN {t.room} ELSE {})

\* Timers fire on time.
Tick ==
    /\ \A t \in timers : t.left > 0
    /\ rooms' = [r \in RoomIds |-> Later(rooms[r])]
    /\ timers' = {[t EXCEPT !.left = @ - 1] : t \in timers}
    /\ first' = [ch \in Channels |-> Smaller(first[ch] + Pace, MaxLag)]
    /\ UNCHANGED <<clients, told, long, finder, settler>>

Hub ==
    \/ \E ch \in Channels : Encode(ch) \/ LongFound(ch) \/ LongLost(ch)
    \/ FinderLists \/ FinderLooks \/ FinderReads \/ FinderFloors \/ FinderTells
    \/ \E ch \in Channels : SettleReads(ch)
    \/ SettleRooms
    \/ \E t \in timers : TimerFires(t)

Next == (\E c \in Clients : Screen(c)) \/ Hub \/ Tick

Spec == Init /\ [][Next]_vars

\* Time passes and timers fire.
FairSpec == Spec /\ WF_vars(Tick) /\ WF_vars(\E t \in timers : TimerFires(t))

-----------------------------------------------------------------------------
(* What the rooms promise *)

Steps == {"off", "ready", "here", "join", "floor", "floorAt", "publish", "leave", "gone", "latency", "list", "long"}
Tasks == {"", "here", "join", "leave", "gone", "command", "long"}

Process ==
    [at : Steps, task : Tasks, room : RoomIds \cup {NoRoom}, rest : SUBSET RoomIds, floor : Latencies]

PublicState ==
    [version : Nat, rate : Rates, latency : Latencies, members : Nat, synced : BOOLEAN]

TypeOK ==
    /\ rooms \in [RoomIds -> RoomState]
    /\ timers \subseteq [room : RoomIds, version : Nat, left : Nat]
    /\ kind \in [Clients -> {"", "web", "apple"}]
    /\ in \in [Clients -> SUBSET RoomIds]
    /\ pc \in [Clients -> Process]
    /\ told \in [Clients -> [RoomIds -> PublicState \cup {None}]]
    /\ first \in [Channels -> 0..MaxLag]
    /\ long \subseteq Channels
    /\ finder \in Process
    /\ settler.at \in {"idle", "settle"} /\ settler.browsers \subseteq RoomIds

\* A room counts the screens that joined it and have not left, whatever the
\* order in which sockets join, leave and drop: Rooms.Members is kept by
\* JoinAt and Leave, apart from the bus's own list, and a room is forgotten
\* exactly when it reaches zero.
CountedIn(c, r) ==
    \/ r \in in[c] /\ ~(pc[c].at = "join" /\ pc[c].room = r)
    \/ pc[c].at = "leave" /\ pc[c].room = r
    \/ pc[c].task = "gone" /\ r \in pc[c].rest

MembersTrue ==
    \A r \in RoomIds : rooms[r].members = Cardinality({c \in Clients : CountedIn(c, r)})

\* Every screen of a room was told the state it is in, once whoever changed it
\* has sent it: a state sent under the bus lock is never overtaken by an older
\* one (publishRoomLocked), and no change goes untold.
Untold(r) ==
    \/ \E c \in Clients : pc[c].room = r /\ (pc[c].at = "publish" \/ pc[c].task = "join")
    \/ finder.room = r /\ finder.at = "publish"

ToldCurrent ==
    \A c \in Clients : \A r \in in[c] : ~Untold(r) => told[c][r] = Public(rooms[r])

\* A room an Apple screen is in plays at balanced or further back, unless its
\* place was measured: through joins, a screen that says late what it is, and
\* latencies chosen in between.
Flooring(r) ==
    \/ \E c \in Clients : (pc[c].room = r /\ pc[c].task # "command") \/ (pc[c].task = "here" /\ r \in pc[c].rest)
    \/ finder # Idle

AppleFloor ==
    \A r \in RoomIds :
        AppleIn(r) /\ ~rooms[r].measured /\ ~Flooring(r) => LatencyMS[rooms[r].latency] >= LatencyMS["balanced"]

\* Why they hold.  What a socket's goroutine still knows of its screen between
\* two holds of a lock...
Fits(p, joined) ==
    /\ p.at \in {"off", "ready"} => p.task = ""
    /\ p.at = "here" => p.task = "here"
    /\ p.at = "join" => p.task = "join" /\ p.room \in joined
    /\ p.at \in {"floor", "floorAt"} => p.task \in {"join", "here"} /\ p.room \in joined
    /\ p.at = "publish" => p.task \in {"join", "here", "leave", "gone"} /\ p.room \in RoomIds
    /\ p.at = "leave" => p.task = "leave" /\ p.room \in RoomIds \ joined
    /\ p.at = "gone" => p.task = "gone"
    /\ p.at = "latency" => p.task = "command" /\ p.room \in joined
    /\ p.at \in {"floorAt", "latency"} => LatencyMS[p.floor] >= LatencyMS["balanced"]
    /\ p.at \notin {"list", "long"}
    /\ p.task = "gone" => joined = {}
    /\ p.task = "here" => p.rest \subseteq joined
    /\ p.task \in {"", "join", "leave", "command"} => p.rest = {}

\* ...the hub's knows its room...
Finds(p) ==
    /\ p.at \in {"floor", "floorAt", "publish"} => p.room \in RoomIds

\* ...and each Apple screen floors the room it joined, or is about to.
WillFloor(p, r) ==
    \/ p.at \in {"join", "floor", "floorAt"} /\ p.room = r
    \/ p.task = "here" /\ r \in p.rest

High(st) == st.measured \/ LatencyMS[st.latency] >= LatencyMS["balanced"]

Floored ==
    \A c \in Clients : \A r \in in[c] :
        kind[c] = "apple" => High(rooms[r]) \/ WillFloor(pc[c], r)

BusInv ==
    /\ TypeOK /\ MembersTrue /\ ToldCurrent /\ Floored
    /\ \A c \in Clients : Fits(pc[c], in[c])
    /\ Finds(finder)

\* Only a viewer brings a room closer to live: settling, the floor of a screen
\* that joins and the end of an ease never pull the screens of a room forward.
PulledByViewer ==
    \A r \in RoomIds :
        Exists(r) /\ rooms'[r].members > 0 /\ rooms'[r].lag < rooms[r].lag =>
            \E c \in Clients :
                \/ LatencyApplies(c) /\ pc[c].room = r
                \/ \E action \in Actions : \E at \in Places(action) : SyncCommand(c, r, action, at)
NeverPulled == [][PulledByViewer]_vars
=============================================================================
