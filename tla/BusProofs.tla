------------------------------ MODULE BusProofs ------------------------------
(***************************************************************************)
(* Whatever the order in which sockets join, leave and drop, commands and  *)
(* timers change rooms and the hub calls in: a room counts its screens,    *)
(* each was told its last state, and an Apple screen's room is far enough  *)
(* back; for any screens, rooms, channels and tuning of the room clock.    *)
(***************************************************************************)
EXTENDS Bus, FiniteSetTheorems, TLAPS

USE BusAssumption, RoomsAssumption DEF BusAssumption, RoomsAssumption

-----------------------------------------------------------------------------
(* One room: what each operation leaves of its count and its floor.         *)

\* A change that is no command keeps the count; the state is one of its type.
Still(st, old) == st \in RoomState /\ st.members = old.members

\* It does not bring the room below its floor.
Holds(st, old) == Still(st, old) /\ (High(old) => High(st))

LEMMA LagIsBounded ==
    ASSUME NEW x \in Nat
    PROVE  Capped(x) \in 0..MaxLag
BY DEF Capped, Smaller

LEMMA ChangedHolds ==
    ASSUME NEW r \in RoomIds, rooms[r] \in RoomState, NEW st, Holds(st, rooms[r])
    PROVE  Holds(Changed(r, st), rooms[r])
BY DEF Holds, Still, High, Changed, RoomState

LEMMA StepBackHolds ==
    ASSUME NEW r \in RoomIds, rooms[r] \in RoomState
    PROVE  Holds(StepBack(r), rooms[r])
<1>1. Target(r) \in 0..MaxLag BY DEF Target, RoomState
<1>2. Smaller(rooms[r].lag + StallStep, Target(r)) \in 0..MaxLag BY <1>1 DEF Smaller, RoomState
<1> DEFINE st == [rooms[r] EXCEPT !.lag = Smaller(@ + StallStep, Target(r)), !.quiet = StallQuiet]
<1>3. StallQuiet \in 0..StallQuiet OBVIOUS
<1>4. st \in RoomState BY <1>2, <1>3 DEF RoomState
<1>5. st.members = rooms[r].members /\ st.measured = rooms[r].measured /\ st.latency = rooms[r].latency
  BY DEF RoomState
<1>6. Holds(rooms[r], rooms[r]) BY DEF Holds, Still
<1> HIDE DEF st
<1>7. Holds(st, rooms[r]) BY <1>4, <1>5 DEF Holds, Still, High
<1>8. Holds(Changed(r, st), rooms[r]) BY <1>7, ChangedHolds
<1> QED BY <1>6, <1>8 DEF StepBack, st

LEMMA MeasureHolds ==
    ASSUME NEW r \in RoomIds, rooms[r] \in RoomState, NEW action, NEW at \in 0..MaxLag
    PROVE  Holds(Measure(r, action, at), rooms[r])
<1>1. MeasuresTo(r, at) \in Nat BY DEF MeasuresTo, Larger, Latencies
<1> DEFINE st == [rooms[r] EXCEPT !.lag = Capped(MeasuresTo(r, at)), !.measured = TRUE]
<1>2. Capped(MeasuresTo(r, at)) \in 0..MaxLag BY <1>1, LagIsBounded
<1>3. Holds(st, rooms[r]) BY <1>2 DEF Holds, Still, High, RoomState
<1> HIDE DEF st
<1>4. Holds(Changed(r, st), rooms[r]) BY <1>3, ChangedHolds
<1>5. Holds(rooms[r], rooms[r]) BY DEF Holds, Still
<1> QED BY <1>4, <1>5 DEF Measure, st

LEMMA SetLatencyDoes ==
    ASSUME NEW r \in RoomIds, rooms[r] \in RoomState, NEW latency \in Latencies
    PROVE  /\ Still(SetLatency(r, latency), rooms[r])
           /\ SetLatency(r, latency).latency = latency
           /\ SetLatency(r, latency).measured = rooms[r].measured
<1>1. LatencyMS[latency] \in 0..MaxLag OBVIOUS
<1> DEFINE chosen == [rooms[r] EXCEPT !.latency = latency]
           st == Changed(r, chosen)
<1>0. /\ chosen \in RoomState /\ chosen.members = rooms[r].members /\ chosen.latency = latency
      /\ chosen.measured = rooms[r].measured
  BY DEF RoomState
<1> HIDE DEF chosen
<1>2. /\ st \in RoomState /\ st.members = rooms[r].members /\ st.latency = latency
      /\ st.measured = rooms[r].measured
  BY <1>0 DEF Changed, RoomState
<1>3. SetLatency(r, latency) = IF Mode(r) = "follow" THEN [st EXCEPT !.lag = LatencyMS[latency], !.rate = "play"] ELSE st
  BY DEF SetLatency, chosen
<1> HIDE DEF st
<1>4. CASE SetLatency(r, latency) = st BY <1>2, <1>4 DEF Still
<1>5. CASE SetLatency(r, latency) = [st EXCEPT !.lag = LatencyMS[latency], !.rate = "play"]
  <2>1. [st EXCEPT !.lag = LatencyMS[latency], !.rate = "play"] \in RoomState BY <1>1, <1>2 DEF RoomState, Rates
  <2>2. /\ SetLatency(r, latency).members = st.members /\ SetLatency(r, latency).latency = st.latency
        /\ SetLatency(r, latency).measured = st.measured
    BY <1>2, <1>5 DEF RoomState
  <2> QED BY <1>2, <1>5, <2>1, <2>2 DEF Still
<1> QED BY <1>3, <1>4, <1>5

LEMMA ChooseDoes ==
    ASSUME NEW r \in RoomIds, rooms[r] \in RoomState, NEW latency \in Latencies
    PROVE  /\ Still(ChooseLatency(r, latency), rooms[r])
           /\ ChooseLatency(r, latency).latency = latency
<1> DEFINE st == SetLatency(r, latency)
<1>1. Still(st, rooms[r]) /\ st.latency = latency BY SetLatencyDoes
<1>2. ChooseLatency(r, latency) = [st EXCEPT !.measured = FALSE] BY DEF ChooseLatency
<1> HIDE DEF st
<1> QED BY <1>1, <1>2 DEF Still, RoomState

LEMMA FloorHolds ==
    ASSUME NEW r \in RoomIds, rooms[r] \in RoomState, NEW latency \in Latencies
    PROVE  /\ Holds(Floor(r, latency), rooms[r])
           /\ ~Floors(r, latency) => Floor(r, latency) = rooms[r]
           /\ Exists(r) /\ LatencyMS[latency] >= LatencyMS["balanced"] => High(Floor(r, latency))
<1> DEFINE st == SetLatency(r, latency)
<1>1. Still(st, rooms[r]) /\ st.latency = latency /\ st.measured = rooms[r].measured BY SetLatencyDoes
<1>2. LatencyMS[latency] \in 0..MaxLag /\ LatencyMS[rooms[r].latency] \in 0..MaxLag /\ LatencyMS["balanced"] \in 0..MaxLag
  BY DEF RoomState, Latencies
<1> HIDE DEF st
<1>3. CASE Floors(r, latency)
  <2>1. Floor(r, latency) = [st EXCEPT !.lag = Larger(@, LatencyMS[latency])] BY <1>3 DEF Floor, st
  <2>2. Larger(st.lag, LatencyMS[latency]) \in 0..MaxLag BY <1>1, <1>2 DEF Larger, Still, RoomState
  <2>3. /\ Floor(r, latency) \in RoomState /\ Floor(r, latency).members = rooms[r].members
        /\ Floor(r, latency).latency = latency /\ Floor(r, latency).measured = rooms[r].measured
    BY <1>1, <2>1, <2>2 DEF Still, RoomState
  <2>4. LatencyMS[rooms[r].latency] < LatencyMS[latency] BY <1>3 DEF Floors, Target
  <2> QED BY <1>2, <1>3, <2>3, <2>4 DEF Holds, Still, High
<1>4. CASE ~Floors(r, latency)
  <2>1. Floor(r, latency) = rooms[r] BY <1>4 DEF Floor
  <2> QED BY <1>2, <1>4, <2>1 DEF Floors, Target, Holds, Still, High
<1> QED BY <1>3, <1>4

\* Apply, but for a latency.
LEMMA ApplyHolds ==
    ASSUME NEW r \in RoomIds, rooms[r] \in RoomState, NEW action \in Actions, NEW at \in 0..MaxLag
    PROVE  Holds(Apply(r, action, at), rooms[r])
<1>1. Target(r) \in 0..MaxLag BY DEF Target, RoomState
<1>2. Holds(rooms[r], rooms[r]) BY DEF Holds, Still
<1>3. CASE action = "stalled" BY <1>3, StepBackHolds DEF Apply
<1>4. CASE action \in {"ahead", "behind"} BY <1>4, MeasureHolds DEF Apply
<1>5. CASE action = "syncall"
  <2>1. Holds([rooms[r] EXCEPT !.synced = TRUE], rooms[r]) BY DEF Holds, Still, High, RoomState
  <2> QED BY <1>2, <1>5, <2>1, ChangedHolds DEF Apply
<1>6. CASE action = "pause"
  <2>1. Holds([rooms[r] EXCEPT !.rate = "pause"], rooms[r]) BY DEF Holds, Still, High, RoomState, Rates
  <2> QED BY <1>6, <2>1, ChangedHolds DEF Apply
<1>7. CASE action = "play"
  <2>1. Holds([rooms[r] EXCEPT !.rate = "play"], rooms[r]) BY DEF Holds, Still, High, RoomState, Rates
  <2> QED BY <1>7, <2>1, ChangedHolds DEF Apply
<1>8. CASE action = "seek"
  <2>1. Larger(at, Target(r)) \in 0..MaxLag BY <1>1 DEF Larger
  <2>2. Holds([rooms[r] EXCEPT !.lag = Larger(at, Target(r))], rooms[r]) BY <2>1 DEF Holds, Still, High, RoomState
  <2> QED BY <1>8, <2>2, ChangedHolds DEF Apply
<1>9. CASE action = "live"
  <2>1. Holds([rooms[r] EXCEPT !.lag = Target(r), !.rate = "play"], rooms[r])
    BY <1>1 DEF Holds, Still, High, RoomState, Rates
  <2> QED BY <1>9, <2>1, ChangedHolds DEF Apply
<1> QED BY <1>3, <1>4, <1>5, <1>6, <1>7, <1>8, <1>9

LEMMA ForgottenIs ==
    Forgotten \in RoomState /\ Forgotten.members = 0 /\ High(Forgotten)
<1>1. Forgotten \in RoomState
  <2>1. 0 \in 0..StallQuiet /\ 0 \in 0..(YoungRoom + 1) /\ 0 \in 0..MaxLag OBVIOUS
  <2> QED BY <2>1 DEF Forgotten, RoomState, Latencies, Rates
<1>2. Forgotten.members = 0 /\ Forgotten.latency = "balanced" BY DEF Forgotten
<1>3. LatencyMS["balanced"] \in 0..MaxLag BY DEF Latencies
<1> QED BY <1>1, <1>2, <1>3 DEF High

\* A screen that joins is counted; a room that is there keeps its floor.
LEMMA JoinDoes ==
    ASSUME NEW r \in RoomIds, rooms[r] \in RoomState, NEW near \in 0..MaxLag, NEW latency \in Latencies
    PROVE  /\ JoinAt(r, near, latency) \in RoomState
           /\ JoinAt(r, near, latency).members = rooms[r].members + 1
           /\ Exists(r) /\ High(rooms[r]) => High(JoinAt(r, near, latency))
<1>1. CASE Exists(r)
  <2>1. JoinAt(r, near, latency) = [rooms[r] EXCEPT !.members = @ + 1] BY <1>1 DEF JoinAt
  <2> QED BY <2>1 DEF RoomState, High
<1>2. CASE ~Exists(r)
  <2>1. Wait(r, near) \in Nat BY DEF Wait, Larger
  <2>2. Capped(near + Wait(r, near)) \in 0..MaxLag
    <3>1. near + Wait(r, near) \in Nat BY <2>1
    <3> QED BY <3>1, LagIsBounded
  <2> DEFINE lag == IF near < LatencyMS[latency] THEN Capped(near + Wait(r, near)) ELSE LatencyMS[latency]
  <2>3. lag \in 0..MaxLag BY <2>2
  <2>4. JoinAt(r, near, latency) =
           [Forgotten EXCEPT !.members = 1, !.version = 1, !.latency = latency, !.young = YoungRoom + 1, !.lag = lag]
    BY <1>2 DEF JoinAt
  <2> HIDE DEF lag
  <2>5. JoinAt(r, near, latency) \in RoomState
    <3>1. JoinAt(r, near, latency) =
             [members |-> 1, version |-> 1, latency |-> latency, rate |-> "play", lag |-> lag,
              synced |-> FALSE, measured |-> FALSE, quiet |-> 0, young |-> YoungRoom + 1]
      BY <2>4 DEF Forgotten
    <3>2. YoungRoom + 1 \in 0..(YoungRoom + 1) /\ 0 \in 0..StallQuiet OBVIOUS
    <3> QED BY <2>3, <3>1, <3>2 DEF RoomState, Rates
  <2>6. JoinAt(r, near, latency).members = 1 BY <2>4 DEF Forgotten
  <2>7. rooms[r].members = 0 BY <1>2 DEF Exists, RoomState
  <2> QED BY <1>2, <2>5, <2>6, <2>7
<1> QED BY <1>1, <1>2

LEMMA LeaveDoes ==
    ASSUME NEW r \in RoomIds, rooms[r] \in RoomState
    PROVE  /\ Leave(r) \in RoomState
           /\ Exists(r) => Leave(r).members = rooms[r].members - 1
           /\ High(rooms[r]) => High(Leave(r))
<1>1. CASE rooms[r].members <= 1
  <2>1. Leave(r) = Forgotten BY <1>1 DEF Leave
  <2> QED BY <1>1, <2>1, ForgottenIs DEF Exists, RoomState
<1>2. CASE ~(rooms[r].members <= 1)
  <2>1. Leave(r) = [rooms[r] EXCEPT !.members = @ - 1] BY <1>2 DEF Leave
  <2> QED BY <1>2, <2>1 DEF RoomState, High
<1> QED BY <1>1, <1>2

LEMMA SettleHolds ==
    ASSUME NEW r \in RoomIds, rooms[r] \in RoomState, NEW browser
    PROVE  Holds(Settle(r, browser), rooms[r])
<1>1. Target(r) \in 0..MaxLag BY DEF Target, RoomState
<1>2. Holds([rooms[r] EXCEPT !.rate = "ease"], rooms[r]) BY DEF Holds, Still, High, RoomState, Rates
<1>3. Holds([rooms[r] EXCEPT !.lag = Target(r)], rooms[r]) BY <1>1 DEF Holds, Still, High, RoomState
<1> QED BY <1>2, <1>3, ChangedHolds DEF Settle

LEMMA EndEaseHolds ==
    ASSUME NEW t \in timers, t.room \in RoomIds, rooms[t.room] \in RoomState
    PROVE  /\ Holds(EndEase(t), rooms[t.room])
           /\ ~Eases(t) => EndEase(t) = rooms[t.room]
<1>1. Holds([rooms[t.room] EXCEPT !.rate = "play"], rooms[t.room]) BY DEF Holds, Still, High, RoomState, Rates
<1>2. Holds(rooms[t.room], rooms[t.room]) BY DEF Holds, Still
<1> QED BY <1>1, <1>2, ChangedHolds DEF EndEase

LEMMA LaterHolds ==
    ASSUME NEW st \in RoomState
    PROVE  Holds(Later(st), st) /\ Public(Later(st)) = Public(st)
<1> DEFINE back == CASE st.rate = "play" -> 0 [] st.rate = "ease" -> 1 [] st.rate = "pause" -> Pace
           lag == Capped(st.lag + back)
           quiet == Larger(st.quiet - 1, 0)
           young == Larger(st.young - 1, 0)
<1>1. lag \in 0..MaxLag
  <2>1. st.rate = "play" \/ st.rate = "ease" \/ st.rate = "pause" BY DEF RoomState, Rates
  <2>2. back \in Nat BY <2>1
  <2> HIDE DEF back
  <2>3. st.lag \in Nat BY DEF RoomState
  <2>4. st.lag + back \in Nat BY <2>2, <2>3
  <2> QED BY <2>4, LagIsBounded
<1>2. quiet \in 0..StallQuiet /\ young \in 0..(YoungRoom + 1) BY DEF Larger, RoomState
<1>3. Later(st) = [st EXCEPT !.lag = lag, !.quiet = quiet, !.young = young] BY DEF Later
<1> HIDE DEF back, lag, quiet, young
<1>4. Later(st) \in RoomState BY <1>1, <1>2, <1>3 DEF RoomState
<1>5. /\ Later(st).members = st.members /\ Later(st).version = st.version /\ Later(st).rate = st.rate
      /\ Later(st).latency = st.latency /\ Later(st).synced = st.synced /\ Later(st).measured = st.measured
  BY <1>3 DEF RoomState
<1> QED BY <1>4, <1>5 DEF Holds, Still, High, Public

-----------------------------------------------------------------------------
(* Counting screens, and telling them.                                      *)

LEMMA CountsAre ==
    ASSUME NEW S, NEW T, S \subseteq Clients, T \subseteq Clients, NEW c \in Clients,
           \A d \in Clients \ {c} : d \in S <=> d \in T
    PROVE  /\ Cardinality(S) \in Nat /\ Cardinality(T) \in Nat
           /\ c \in S => Cardinality(S) > 0
           /\ (c \in S <=> c \in T) => Cardinality(T) = Cardinality(S)
           /\ c \notin S /\ c \in T => Cardinality(T) = Cardinality(S) + 1
           /\ c \in S /\ c \notin T => Cardinality(T) = Cardinality(S) - 1
<1>1. IsFiniteSet(S) /\ IsFiniteSet(T) BY FS_Subset
<1>2. Cardinality(S) \in Nat /\ Cardinality(T) \in Nat BY <1>1, FS_CardinalityType
<1>3. c \in S => Cardinality(S) > 0
  <2>1. ASSUME c \in S PROVE Cardinality(S) # 0 BY <1>1, <2>1, FS_EmptySet
  <2> QED BY <1>2, <2>1
<1>4. (c \in S <=> c \in T) => S = T OBVIOUS
<1>5. ASSUME c \notin S, c \in T PROVE Cardinality(T) = Cardinality(S) + 1
  <2>1. T = S \cup {c} BY <1>5
  <2> QED BY <1>1, <1>5, <2>1, FS_AddElement
<1>6. ASSUME c \in S, c \notin T PROVE Cardinality(T) = Cardinality(S) - 1
  <2>1. T = S \ {c} BY <1>6
  <2> QED BY <1>1, <1>6, <2>1, FS_RemoveElement
<1> QED BY <1>2, <1>3, <1>4, <1>5, <1>6

\* CountedIn, of a goroutine and the rooms of its screen.
Counts(p, joined, r) ==
    \/ r \in joined /\ ~(p.at = "join" /\ p.room = r)
    \/ p.at = "leave" /\ p.room = r
    \/ p.task = "gone" /\ r \in p.rest

\* A goroutine that will send its room's state.
TellsLater(p, r) == p.room = r /\ (p.at = "publish" \/ p.task = "join")

\* One screen's goroutine moves: every room's count moves with it.
LEMMA Recounted ==
    ASSUME BusInv, NEW c \in Clients, NEW p, NEW joined,
           pc' = [pc EXCEPT ![c] = p], in' = [in EXCEPT ![c] = joined],
           \A r \in RoomIds :
              \/ /\ Counts(p, joined, r) <=> Counts(pc[c], in[c], r)
                 /\ rooms'[r].members = rooms[r].members
              \/ /\ Counts(p, joined, r) /\ ~Counts(pc[c], in[c], r)
                 /\ rooms'[r].members = rooms[r].members + 1
              \/ /\ ~Counts(p, joined, r) /\ Counts(pc[c], in[c], r)
                 /\ rooms'[r].members = rooms[r].members - 1
    PROVE  MembersTrue'
<1> SUFFICES ASSUME NEW r \in RoomIds
             PROVE  rooms'[r].members = Cardinality({d \in Clients : CountedIn(d, r)'})
  BY DEF MembersTrue
<1>1. pc'[c] = p /\ in'[c] = joined /\ \A d \in Clients \ {c} : pc'[d] = pc[d] /\ in'[d] = in[d]
  BY DEF BusInv, TypeOK
<1> DEFINE S == {d \in Clients : CountedIn(d, r)}
           T == {d \in Clients : CountedIn(d, r)'}
<1>2. S \subseteq Clients /\ T \subseteq Clients OBVIOUS
<1>3. \A d \in Clients \ {c} : d \in S <=> d \in T BY <1>1 DEF CountedIn
<1>4. (c \in S <=> Counts(pc[c], in[c], r)) /\ (c \in T <=> Counts(p, joined, r)) BY <1>1 DEF CountedIn, Counts
<1>5. rooms[r].members = Cardinality(S) BY DEF BusInv, MembersTrue
<1> HIDE DEF S, T
<1>6. /\ (c \in S <=> c \in T) => Cardinality(T) = Cardinality(S)
      /\ c \notin S /\ c \in T => Cardinality(T) = Cardinality(S) + 1
      /\ c \in S /\ c \notin T => Cardinality(T) = Cardinality(S) - 1
  BY <1>2, <1>3, CountsAre
<1>7. \/ /\ Counts(p, joined, r) <=> Counts(pc[c], in[c], r)
         /\ rooms'[r].members = rooms[r].members
      \/ /\ Counts(p, joined, r) /\ ~Counts(pc[c], in[c], r)
         /\ rooms'[r].members = rooms[r].members + 1
      \/ /\ ~Counts(p, joined, r) /\ Counts(pc[c], in[c], r)
         /\ rooms'[r].members = rooms[r].members - 1
  OBVIOUS
<1>8. rooms'[r].members = Cardinality(T) BY ONLY <1>4, <1>5, <1>6, <1>7
<1> QED BY <1>8 DEF T

\* A screen that is counted in a room is in one that is there.
LEMMA CountedIsThere ==
    ASSUME MembersTrue, NEW c \in Clients, NEW r \in RoomIds, Counts(pc[c], in[c], r)
    PROVE  rooms[r].members > 0
<1> DEFINE S == {d \in Clients : CountedIn(d, r)}
<1>1. c \in S /\ S \subseteq Clients BY DEF Counts, CountedIn
<1>2. rooms[r].members = Cardinality(S) BY DEF MembersTrue
<1> HIDE DEF S
<1> QED BY <1>1, <1>2, CountsAre

LEMMA CountedIsThereNext ==
    ASSUME MembersTrue', NEW c \in Clients, NEW r \in RoomIds, Counts(pc'[c], in'[c], r)
    PROVE  rooms'[r].members > 0
<1> DEFINE S == {d \in Clients : CountedIn(d, r)'}
<1>1. c \in S /\ S \subseteq Clients BY DEF Counts, CountedIn
<1>2. rooms'[r].members = Cardinality(S) BY DEF MembersTrue
<1> HIDE DEF S
<1> QED BY <1>1, <1>2, CountsAre

LEMMA PublicIs ==
    ASSUME NEW st \in RoomState
    PROVE  Public(st) \in PublicState
BY DEF Public, PublicState, RoomState

\* What publishRoomLocked leaves with whom.
LEMMA PublishDoes ==
    ASSUME TypeOK, NEW R, rooms' \in [RoomIds -> RoomState], Publish(R)
    PROVE  /\ told' \in [Clients -> [RoomIds -> PublicState \cup {None}]]
           /\ \A c \in Clients, r \in RoomIds :
                 /\ r \in R /\ r \in in[c] /\ rooms'[r].members > 0 => told'[c][r] = Public(rooms'[r])
                 /\ r \notin R => told'[c][r] = told[c][r]
<1>1. \A r \in RoomIds : Public(rooms'[r]) \in PublicState BY PublicIs
<1>2. told' = [c \in Clients |-> [r \in RoomIds |->
                 IF r \in R \cap in[c] /\ rooms'[r].members > 0 THEN Public(rooms'[r]) ELSE told[c][r]]]
  BY DEF Publish
<1>3. told \in [Clients -> [RoomIds -> PublicState \cup {None}]] BY DEF TypeOK
<1> HIDE DEF Public, PublicState, None
<1>4. ASSUME NEW c \in Clients
      PROVE  [r \in RoomIds |->
                IF r \in R \cap in[c] /\ rooms'[r].members > 0 THEN Public(rooms'[r]) ELSE told[c][r]]
             \in [RoomIds -> PublicState \cup {None}]
  BY <1>1, <1>3
<1> QED BY <1>2, <1>4

-----------------------------------------------------------------------------
(* A screen's socket.                                                       *)

\* A step of one screen's goroutine: what it has to leave behind.
LEMMA SocketStep ==
    ASSUME BusInv, NEW c \in Clients, NEW p \in Process, NEW joined \in SUBSET RoomIds,
           NEW k \in {"", "web", "apple"},
           pc' = [pc EXCEPT ![c] = p], in' = [in EXCEPT ![c] = joined], kind' = [kind EXCEPT ![c] = k],
           UNCHANGED <<timers, hub>>,
           rooms' \in [RoomIds -> RoomState],
           told' \in [Clients -> [RoomIds -> PublicState \cup {None}]],
           Fits(p, joined),
           MembersTrue',
           \A d \in Clients, r \in RoomIds : r \in in'[d] =>
              \/ TellsLater(p, r)
              \/ rooms'[r].members > 0 => told'[d][r] = Public(rooms'[r])
              \/ /\ r \in in[d] /\ ~TellsLater(pc[c], r)
                 /\ told'[d][r] = told[d][r] /\ Public(rooms'[r]) = Public(rooms[r]),
           \A d \in Clients \ {c}, r \in RoomIds :
              r \in in[d] /\ kind[d] = "apple" /\ High(rooms[r]) => High(rooms'[r]) \/ WillFloor(pc[d], r),
           \A r \in joined : k = "apple" => High(rooms'[r]) \/ WillFloor(p, r)
    PROVE  BusInv'
<1>1. /\ pc'[c] = p /\ in'[c] = joined /\ kind'[c] = k
      /\ \A d \in Clients \ {c} : pc'[d] = pc[d] /\ in'[d] = in[d] /\ kind'[d] = kind[d]
  <2>1. DOMAIN pc = Clients /\ DOMAIN in = Clients /\ DOMAIN kind = Clients BY DEF BusInv, TypeOK
  <2> QED BY ONLY <2>1, c \in Clients, pc' = [pc EXCEPT ![c] = p], in' = [in EXCEPT ![c] = joined],
                  kind' = [kind EXCEPT ![c] = k]
<1>2. TypeOK'
  <2>1. pc' \in [Clients -> Process] BY DEF BusInv, TypeOK
  <2>2. in' \in [Clients -> SUBSET RoomIds] BY DEF BusInv, TypeOK
  <2>3. kind' \in [Clients -> {"", "web", "apple"}] BY DEF BusInv, TypeOK
  <2>4. timers' = timers /\ first' = first /\ long' = long /\ finder' = finder /\ settler' = settler BY DEF hub
  <2> HIDE DEF Process, RoomState, PublicState, None, Channels
  <2> QED BY <2>1, <2>2, <2>3, <2>4 DEF BusInv, TypeOK
<1>3. ASSUME NEW d \in Clients PROVE Fits(pc'[d], in'[d])
  <2>1. Fits(pc'[c], in'[c]) BY <1>1
  <2>2. Fits(pc[d], in[d]) BY DEF BusInv
  <2>3. d # c => pc'[d] = pc[d] /\ in'[d] = in[d] BY <1>1
  <2> HIDE DEF Fits
  <2> QED BY ONLY <2>1, <2>2, <2>3
<1>4. ToldCurrent'
  <2> SUFFICES ASSUME NEW d \in Clients, NEW r \in in'[d], ~Untold(r)'
               PROVE  told'[d][r] = Public(rooms'[r])
    BY DEF ToldCurrent
  <2>1. r \in RoomIds BY <1>2 DEF TypeOK
  <2>2. ~TellsLater(p, r)
    <3>1. ~TellsLater(pc'[c], r) BY DEF Untold, TellsLater
    <3> QED BY <1>1, <3>1
  <2>3. ~(pc'[d].at = "join" /\ pc'[d].room = r)
    <3>1. pc'[d].at = "join" => pc'[d].task = "join" BY <1>3 DEF Fits
    <3> QED BY <3>1 DEF Untold
  <2>4. rooms'[r].members > 0
    <3>1. Counts(pc'[d], in'[d], r) BY <2>3 DEF Counts
    <3> QED BY <2>1, <3>1, CountedIsThereNext
  <2>5. CASE /\ r \in in[d] /\ ~TellsLater(pc[c], r)
             /\ told'[d][r] = told[d][r] /\ Public(rooms'[r]) = Public(rooms[r])
    <3>1. \A e \in Clients : ~TellsLater(pc[e], r)
      <4>1. \A e \in Clients : ~TellsLater(pc'[e], r) BY DEF Untold, TellsLater
      <4> QED BY <1>1, <2>5, <4>1
    <3>2. ~(finder.room = r /\ finder.at = "publish") BY DEF Untold, hub
    <3>3. ~Untold(r) BY <3>1, <3>2 DEF Untold, TellsLater
    <3>4. \A e \in Clients : \A q \in in[e] : ~Untold(q) => told[e][q] = Public(rooms[q])
      BY DEF BusInv, ToldCurrent
    <3>5. told[d][r] = Public(rooms[r]) BY ONLY <2>5, <3>3, <3>4, d \in Clients
    <3> QED BY <2>5, <3>5
  <2> QED BY <2>1, <2>2, <2>4, <2>5
<1>5. Floored'
  <2> SUFFICES ASSUME NEW d \in Clients, NEW r \in in'[d], kind'[d] = "apple"
               PROVE  High(rooms'[r]) \/ WillFloor(pc'[d], r)
    BY DEF Floored, High, WillFloor
  <2>1. r \in RoomIds BY <1>2 DEF TypeOK
  <2>2. CASE d = c
    <3>1. pc'[d] = p /\ r \in joined /\ k = "apple" BY <1>1, <2>2
    <3>2. High(rooms'[r]) \/ WillFloor(p, r) BY <3>1
    <3> QED BY <3>1, <3>2
  <2>3. CASE d # c
    <3>1. r \in in[d] /\ kind[d] = "apple" /\ pc'[d] = pc[d] BY <1>1, <2>3
    <3>2. High(rooms[r]) \/ WillFloor(pc[d], r) BY <3>1 DEF BusInv, Floored
    <3> QED BY <2>1, <2>3, <3>1, <3>2
  <2> QED BY <2>2, <2>3
<1>6. Finds(finder)' BY DEF BusInv, Finds, hub
<1> QED BY <1>2, <1>3, <1>4, <1>5, <1>6 DEF BusInv

\* A step that touches no room and tells nobody.
LEMMA QuietStep ==
    ASSUME BusInv, NEW c \in Clients, NEW p \in Process, NEW joined \in SUBSET RoomIds,
           NEW k \in {"", "web", "apple"},
           pc' = [pc EXCEPT ![c] = p], in' = [in EXCEPT ![c] = joined], kind' = [kind EXCEPT ![c] = k],
           UNCHANGED <<rooms_, hub>>,
           told' \in [Clients -> [RoomIds -> PublicState \cup {None}]],
           Fits(p, joined),
           \A r \in RoomIds : Counts(p, joined, r) <=> Counts(pc[c], in[c], r),
           \A r \in RoomIds : TellsLater(pc[c], r) => TellsLater(p, r),
           \A d \in Clients, r \in RoomIds :
              r \in in'[d] => TellsLater(p, r) \/ (r \in in[d] /\ told'[d][r] = told[d][r]),
           \A r \in joined : k = "apple" => High(rooms[r]) \/ WillFloor(p, r)
    PROVE  BusInv'
<1>1. rooms' = rooms /\ timers' = timers BY DEF rooms_
<1>2. rooms' \in [RoomIds -> RoomState] BY <1>1 DEF BusInv, TypeOK
<1>3. MembersTrue'
  <2>1. ASSUME NEW r \in RoomIds
        PROVE  \/ /\ Counts(p, joined, r) <=> Counts(pc[c], in[c], r)
                  /\ rooms'[r].members = rooms[r].members
               \/ /\ Counts(p, joined, r) /\ ~Counts(pc[c], in[c], r)
                  /\ rooms'[r].members = rooms[r].members + 1
               \/ /\ ~Counts(p, joined, r) /\ Counts(pc[c], in[c], r)
                  /\ rooms'[r].members = rooms[r].members - 1
    <3>1. Counts(p, joined, r) <=> Counts(pc[c], in[c], r) OBVIOUS
    <3> QED BY ONLY <1>1, <3>1
  <2> QED BY ONLY <2>1, Recounted, BusInv, c \in Clients,
                  pc' = [pc EXCEPT ![c] = p], in' = [in EXCEPT ![c] = joined]
<1>4. \A d \in Clients, r \in RoomIds : r \in in'[d] =>
         \/ TellsLater(p, r)
         \/ rooms'[r].members > 0 => told'[d][r] = Public(rooms'[r])
         \/ /\ r \in in[d] /\ ~TellsLater(pc[c], r)
            /\ told'[d][r] = told[d][r] /\ Public(rooms'[r]) = Public(rooms[r])
  BY <1>1
<1>5. \A d \in Clients \ {c}, r \in RoomIds :
         r \in in[d] /\ kind[d] = "apple" /\ High(rooms[r]) => High(rooms'[r]) \/ WillFloor(pc[d], r)
  BY <1>1
<1>6. \A r \in joined : k = "apple" => High(rooms'[r]) \/ WillFloor(p, r) BY <1>1
<1>7. UNCHANGED <<timers, hub>> BY <1>1
<1> QED BY <1>2, <1>3, <1>4, <1>5, <1>6, <1>7, SocketStep

\* The end of a turn of a loop over rooms.
LEMMA LoopDoes ==
    ASSUME NEW task \in {"here", "gone", "join", "leave"}, NEW rest \in SUBSET RoomIds,
           NEW joined \in SUBSET RoomIds,
           task = "gone" => joined = {},
           task = "here" => rest \subseteq joined,
           task \in {"join", "leave"} => rest = {}
    PROVE  /\ Loop(task, rest) \in Process
           /\ Fits(Loop(task, rest), joined)
           /\ \A r \in RoomIds :
                 /\ ~TellsLater(Loop(task, rest), r)
                 /\ Counts(Loop(task, rest), joined, r) <=> r \in joined \/ (task = "gone" /\ r \in rest)
                 /\ task = "here" /\ r \in rest => WillFloor(Loop(task, rest), r)
<1>1. CASE rest = {}
  <2>1. Loop(task, rest).at \in {"off", "ready"} /\ Loop(task, rest).task = "" /\ Loop(task, rest).rest = {}
        /\ Loop(task, rest) \in Process
    BY <1>1 DEF Loop, Off, Ready, At, Process, Steps, Tasks, Latencies
  <2> QED BY <1>1, <2>1 DEF Fits, TellsLater, Counts, WillFloor
<1>2. CASE rest # {}
  <2>1. /\ Loop(task, rest).at = task /\ Loop(task, rest).task = task /\ Loop(task, rest).rest = rest
        /\ Loop(task, rest) \in Process
    BY <1>2 DEF Loop, At, Process, Steps, Tasks, Latencies
  <2>2. task \in {"here", "gone"} BY <1>2
  <2> QED BY <1>2, <2>1, <2>2 DEF Fits, TellsLater, Counts, WillFloor
<1> QED BY <1>1, <1>2

LEMMA AtIs ==
    ASSUME NEW at \in Steps, NEW task \in Tasks, NEW room \in RoomIds \cup {NoRoom},
           NEW rest \in SUBSET RoomIds, NEW floor \in Latencies
    PROVE  LET p == At(at, task, room, rest, floor)
           IN  /\ p \in Process /\ p.at = at /\ p.task = task /\ p.room = room
               /\ p.rest = rest /\ p.floor = floor
BY DEF At, Process

\* A goroutine's step that changes neither its rooms nor what anyone was told.
LEMMA TurnStep ==
    ASSUME BusInv, NEW c \in Clients, NEW p \in Process, NEW k \in {"", "web", "apple"},
           pc' = [pc EXCEPT ![c] = p], kind' = [kind EXCEPT ![c] = k],
           UNCHANGED <<rooms_, hub, in, told>>,
           Fits(p, in[c]),
           \A r \in RoomIds : Counts(p, in[c], r) <=> Counts(pc[c], in[c], r),
           \A r \in RoomIds : TellsLater(pc[c], r) => TellsLater(p, r),
           \A r \in in[c] : k = "apple" => High(rooms[r]) \/ WillFloor(p, r)
    PROVE  BusInv'
<1>1. in \in [Clients -> SUBSET RoomIds] /\ told \in [Clients -> [RoomIds -> PublicState \cup {None}]]
  BY DEF BusInv, TypeOK
<1>2. in[c] \in SUBSET RoomIds BY <1>1
<1>3. in' = [in EXCEPT ![c] = in[c]] BY <1>1
<1>4. told' \in [Clients -> [RoomIds -> PublicState \cup {None}]] BY <1>1
<1>5. \A d \in Clients, r \in RoomIds :
         r \in in'[d] => TellsLater(p, r) \/ (r \in in[d] /\ told'[d][r] = told[d][r])
  OBVIOUS
<1>6. UNCHANGED <<rooms_, hub>> OBVIOUS
<1> QED BY <1>2, <1>3, <1>4, <1>5, <1>6, QuietStep

LEMMA ConnectStep ==
    ASSUME BusInv, NEW c \in Clients, Connect(c)
    PROVE  BusInv'
<1>1. TypeOK /\ Fits(pc[c], in[c]) BY DEF BusInv
<1>2. pc[c].at = "off" /\ pc' = [pc EXCEPT ![c] = Ready] /\ UNCHANGED <<rooms_, kind, in, told, hub>>
  BY DEF Connect, Is, Go
<1>3. kind' = [kind EXCEPT ![c] = kind[c]] BY <1>1, <1>2 DEF TypeOK
<1>4. Ready \in Process /\ Ready.at = "ready" /\ Ready.task = "" /\ Ready.rest = {}
  BY DEF Ready, At, Process, Steps, Tasks, Latencies
<1>5. Fits(Ready, in[c]) BY <1>4 DEF Fits
<1>6. pc[c].task = "" BY <1>1, <1>2 DEF Fits
<1>7. \A r \in RoomIds : Counts(Ready, in[c], r) <=> Counts(pc[c], in[c], r) BY <1>2, <1>4, <1>6 DEF Counts
<1>10. \A r \in RoomIds : TellsLater(pc[c], r) => TellsLater(Ready, r) BY <1>2, <1>6 DEF TellsLater
<1>8. \A r \in in[c] : kind[c] = "apple" => High(rooms[r]) \/ WillFloor(Ready, r)
  BY <1>1, <1>2, <1>6 DEF BusInv, Floored, WillFloor
<1>9. kind[c] \in {"", "web", "apple"} BY <1>1 DEF TypeOK
<1> HIDE DEF Ready
<1> QED BY <1>2, <1>3, <1>4, <1>5, <1>7, <1>8, <1>9, <1>10, TurnStep

LEMMA HereStep ==
    ASSUME BusInv, NEW c \in Clients, NEW k \in {"web", "apple"}, Here(c, k)
    PROVE  BusInv'
<1> DEFINE p == Loop("here", in[c])
<1>1. TypeOK /\ Fits(pc[c], in[c]) /\ in[c] \in SUBSET RoomIds BY DEF BusInv, TypeOK
<1>2. /\ pc[c].at = "ready" /\ pc' = [pc EXCEPT ![c] = p] /\ kind' = [kind EXCEPT ![c] = k]
      /\ UNCHANGED <<rooms_, in, told, hub>>
  BY DEF Here, Is, Go
<1>3. p \in Process /\ Fits(p, in[c]) BY ONLY <1>1, LoopDoes
<1>4. \A r \in RoomIds : (Counts(p, in[c], r) <=> r \in in[c]) /\ (r \in in[c] => WillFloor(p, r))
  BY ONLY <1>1, LoopDoes
<1>5. pc[c].task = "" BY <1>1, <1>2 DEF Fits
<1>6. \A r \in RoomIds : Counts(p, in[c], r) <=> Counts(pc[c], in[c], r) BY <1>2, <1>4, <1>5 DEF Counts
<1>7. \A r \in RoomIds : TellsLater(pc[c], r) => TellsLater(p, r) BY <1>2, <1>5 DEF TellsLater
<1>8. \A r \in in[c] : k = "apple" => High(rooms[r]) \/ WillFloor(p, r) BY <1>1, <1>4
<1> HIDE DEF p
<1> QED BY <1>2, <1>3, <1>6, <1>7, <1>8, TurnStep

LEMMA HereRoomStep ==
    ASSUME BusInv, NEW c \in Clients, HereRoom(c)
    PROVE  BusInv'
<1>1. TypeOK /\ Fits(pc[c], in[c]) /\ pc[c] \in Process BY DEF BusInv, TypeOK
<1>2. pc[c].at = "here" /\ UNCHANGED <<rooms_, kind, in, told, hub>> BY DEF HereRoom, Is
<1>3. PICK r \in pc[c].rest : pc' = [pc EXCEPT ![c] =
         IF kind[c] = "apple" THEN At("floor", "here", r, pc[c].rest \ {r}, "lowest")
         ELSE IF Group(r) THEN At("publish", "here", r, pc[c].rest \ {r}, "lowest")
         ELSE Loop("here", pc[c].rest \ {r})]
  BY DEF HereRoom, Go
<1> DEFINE rest == pc[c].rest \ {r}
           p == IF kind[c] = "apple" THEN At("floor", "here", r, rest, "lowest")
                ELSE IF Group(r) THEN At("publish", "here", r, rest, "lowest")
                ELSE Loop("here", rest)
<1>4. pc' = [pc EXCEPT ![c] = p] BY <1>3
<1>5. /\ kind[c] = "apple" => p = At("floor", "here", r, rest, "lowest")
      /\ kind[c] # "apple" /\ Group(r) => p = At("publish", "here", r, rest, "lowest")
      /\ kind[c] # "apple" /\ ~Group(r) => p = Loop("here", rest)
  OBVIOUS
<1>6. pc[c].task = "here" /\ pc[c].rest \subseteq in[c] /\ in[c] \in SUBSET RoomIds BY <1>1, <1>2 DEF Fits, TypeOK
<1>7. rest \in SUBSET RoomIds /\ rest \subseteq in[c] /\ r \in in[c] /\ r \in RoomIds BY <1>6
<1>8. \A q \in pc[c].rest : q = r \/ q \in rest OBVIOUS
<1>9. kind[c] \in {"", "web", "apple"} /\ kind' = [kind EXCEPT ![c] = kind[c]] BY <1>1, <1>2 DEF TypeOK
<1> HIDE DEF p, rest
<1>10. /\ p \in Process /\ Fits(p, in[c])
       /\ \A q \in RoomIds : (Counts(p, in[c], q) <=> q \in in[c])
                             /\ (kind[c] = "apple" /\ q \in pc[c].rest => WillFloor(p, q))
  <2>0. "floor" \in Steps /\ "publish" \in Steps /\ "here" \in Tasks /\ "lowest" \in Latencies
    BY DEF Steps, Tasks, Latencies
  <2>1. CASE kind[c] = "apple"
    <3>1. p = At("floor", "here", r, rest, "lowest") BY <1>5, <2>1
    <3>2. p \in Process /\ p.at = "floor" /\ p.task = "here" /\ p.room = r /\ p.rest = rest
      BY ONLY <1>7, <2>0, <3>1, AtIs
    <3> QED BY <1>7, <1>8, <3>2 DEF Fits, Counts, WillFloor
  <2>2. CASE kind[c] # "apple" /\ Group(r)
    <3>1. p = At("publish", "here", r, rest, "lowest") BY <1>5, <2>2
    <3>2. p \in Process /\ p.at = "publish" /\ p.task = "here" /\ p.room = r /\ p.rest = rest
      BY ONLY <1>7, <2>0, <3>1, AtIs
    <3> QED BY <1>7, <2>2, <3>2 DEF Fits, Counts
  <2>3. CASE kind[c] # "apple" /\ ~Group(r)
    <3>1. p = Loop("here", rest) BY <1>5, <2>3
    <3>2. p \in Process /\ Fits(p, in[c]) BY ONLY <1>6, <1>7, <3>1, LoopDoes
    <3>3. \A q \in RoomIds : Counts(p, in[c], q) <=> q \in in[c] BY ONLY <1>6, <1>7, <3>1, LoopDoes
    <3> QED BY <2>3, <3>2, <3>3
  <2> QED BY <2>1, <2>2, <2>3
<1>11. \A q \in RoomIds : Counts(p, in[c], q) <=> Counts(pc[c], in[c], q)
  BY <1>2, <1>6, <1>10 DEF Counts
<1>12. \A q \in RoomIds : TellsLater(pc[c], q) => TellsLater(p, q) BY <1>2, <1>6 DEF TellsLater
<1>13. \A q \in in[c] : kind[c] = "apple" => High(rooms[q]) \/ WillFloor(p, q)
  <2>1. ASSUME NEW q \in in[c], kind[c] = "apple" PROVE High(rooms[q]) \/ WillFloor(p, q)
    <3>1. High(rooms[q]) \/ WillFloor(pc[c], q) BY <2>1 DEF BusInv, Floored
    <3>2. WillFloor(pc[c], q) => q \in pc[c].rest BY <1>2 DEF WillFloor
    <3> QED BY <1>6, <1>10, <2>1, <3>1, <3>2
  <2> QED BY <2>1
<1> QED BY <1>2, <1>4, <1>9, <1>10, <1>11, <1>12, <1>13, TurnStep

LEMMA SyncJoinStep ==
    ASSUME BusInv, NEW c \in Clients, NEW r \in RoomIds, SyncJoin(c, r)
    PROVE  BusInv'
<1> DEFINE p == At("join", "join", r, {}, "lowest")
           joined == in[c] \cup {r}
<1>1. TypeOK /\ Fits(pc[c], in[c]) /\ in[c] \in SUBSET RoomIds BY DEF BusInv, TypeOK
<1>2. /\ pc[c].at = "ready" /\ r \notin in[c] /\ pc' = [pc EXCEPT ![c] = p] /\ in' = [in EXCEPT ![c] = joined]
      /\ UNCHANGED <<rooms_, kind, told, hub>>
  BY DEF SyncJoin, SetMember, Is, Go
<1>3. p \in Process /\ p.at = "join" /\ p.task = "join" /\ p.room = r /\ p.rest = {}
  <2>1. "join" \in Steps /\ "join" \in Tasks /\ "lowest" \in Latencies BY DEF Steps, Tasks, Latencies
  <2> QED BY <2>1, AtIs
<1>4. joined \in SUBSET RoomIds /\ \A q \in joined : q \in in[c] \/ q = r BY <1>1
<1>5. r \in joined /\ in[c] \subseteq joined OBVIOUS
<1> HIDE DEF p, joined
<1>6. Fits(p, joined) BY <1>3, <1>5 DEF Fits
<1>7. pc[c].task = "" BY <1>1, <1>2 DEF Fits
<1>8. \A q \in RoomIds : Counts(p, joined, q) <=> Counts(pc[c], in[c], q)
  BY <1>2, <1>3, <1>4, <1>5, <1>7 DEF Counts
<1>9. \A q \in RoomIds : TellsLater(pc[c], q) => TellsLater(p, q) BY <1>2, <1>7 DEF TellsLater
<1>10. kind[c] \in {"", "web", "apple"} /\ kind' = [kind EXCEPT ![c] = kind[c]] /\ UNCHANGED <<rooms_, hub>>
       /\ told' \in [Clients -> [RoomIds -> PublicState \cup {None}]]
  BY <1>1, <1>2 DEF TypeOK
<1>11. \A d \in Clients, q \in RoomIds :
          q \in in'[d] => TellsLater(p, q) \/ (q \in in[d] /\ told'[d][q] = told[d][q])
  <2>1. TellsLater(p, r) BY <1>3 DEF TellsLater
  <2>2. in \in [Clients -> SUBSET RoomIds] BY <1>1 DEF TypeOK
  <2> QED BY <1>2, <1>4, <2>1, <2>2
<1>12. \A q \in joined : kind[c] = "apple" => High(rooms[q]) \/ WillFloor(p, q)
  <2>1. WillFloor(p, r) BY <1>3 DEF WillFloor
  <2>2. \A q \in in[c] : kind[c] = "apple" => High(rooms[q]) BY <1>2, <1>7 DEF BusInv, Floored, WillFloor
  <2> QED BY <1>4, <2>1, <2>2
<1>13. pc' = [pc EXCEPT ![c] = p] /\ in' = [in EXCEPT ![c] = joined] BY <1>2
<1> QED BY ONLY BusInv, c \in Clients, <1>3, <1>4, <1>6, <1>8, <1>9, <1>10, <1>11, <1>12, <1>13, QuietStep

LEMMA AppleLatencyDoes ==
    ASSUME NEW r
    PROVE  /\ AppleLatencyFor(r) \in Latencies
           /\ LatencyMS[AppleLatencyFor(r)] >= LatencyMS["balanced"]
<1>1. LatencyMS["stable"] \in 0..MaxLag /\ LatencyMS["balanced"] \in 0..MaxLag BY DEF Latencies
<1>2. "stable" \in Latencies /\ "balanced" \in Latencies BY DEF Latencies
<1>3. AppleLatencyFor(r) = "stable" \/ AppleLatencyFor(r) = "balanced" BY DEF AppleLatencyFor
<1>4. LatencyMS["stable"] >= LatencyMS["balanced"] /\ LatencyMS["balanced"] >= LatencyMS["balanced"] BY <1>1
<1> QED BY ONLY <1>2, <1>3, <1>4

LEMMA FloorReadsStep ==
    ASSUME BusInv, NEW c \in Clients, FloorReads(c)
    PROVE  BusInv'
<1> DEFINE floor == AppleLatencyFor(pc[c].room)
           p == [pc[c] EXCEPT !.at = "floorAt", !.floor = floor]
<1>1. TypeOK /\ Fits(pc[c], in[c]) /\ pc[c] \in Process BY DEF BusInv, TypeOK
<1>2. pc[c].at = "floor" /\ pc' = [pc EXCEPT ![c] = p] /\ UNCHANGED <<rooms_, kind, in, told, hub>>
  BY DEF FloorReads, Is, Go
<1>3. floor \in Latencies /\ LatencyMS[floor] >= LatencyMS["balanced"] BY AppleLatencyDoes
<1> HIDE DEF floor
<1>4. /\ p \in Process /\ p.at = "floorAt" /\ p.task = pc[c].task /\ p.room = pc[c].room
      /\ p.rest = pc[c].rest /\ p.floor = floor
  BY <1>1, <1>3 DEF Process, Steps
<1> HIDE DEF p
<1>5. Fits(p, in[c]) BY <1>1, <1>2, <1>3, <1>4 DEF Fits
<1>6. \A q \in RoomIds : Counts(p, in[c], q) <=> Counts(pc[c], in[c], q) BY <1>2, <1>4 DEF Counts
<1>7. \A q \in RoomIds : TellsLater(pc[c], q) => TellsLater(p, q) BY <1>2, <1>4 DEF TellsLater
<1>8. \A q \in in[c] : kind[c] = "apple" => High(rooms[q]) \/ WillFloor(p, q)
  BY <1>2, <1>4 DEF BusInv, Floored, WillFloor
<1>9. kind[c] \in {"", "web", "apple"} /\ kind' = [kind EXCEPT ![c] = kind[c]] BY <1>1, <1>2 DEF TypeOK
<1> QED BY <1>2, <1>4, <1>5, <1>6, <1>7, <1>8, <1>9, TurnStep

LEMMA LatencyReadsStep ==
    ASSUME BusInv, NEW c \in Clients, NEW r \in RoomIds, LatencyReads(c, r)
    PROVE  BusInv'
<1> DEFINE floor == AppleLatencyFor(r)
           p == At("latency", "command", r, {}, floor)
<1>1. TypeOK /\ Fits(pc[c], in[c]) /\ pc[c] \in Process BY DEF BusInv, TypeOK
<1>2. /\ pc[c].at = "ready" /\ r \in in[c] /\ pc' = [pc EXCEPT ![c] = p]
      /\ UNCHANGED <<rooms_, kind, in, told, hub>>
  BY DEF LatencyReads, Is, Go
<1>3. floor \in Latencies /\ LatencyMS[floor] >= LatencyMS["balanced"] BY AppleLatencyDoes
<1> HIDE DEF floor
<1>4. p \in Process /\ p.at = "latency" /\ p.task = "command" /\ p.room = r /\ p.rest = {} /\ p.floor = floor
  <2>1. "latency" \in Steps /\ "command" \in Tasks BY DEF Steps, Tasks
  <2> QED BY <1>3, <2>1, AtIs
<1> HIDE DEF p
<1>5. Fits(p, in[c]) BY <1>2, <1>3, <1>4 DEF Fits
<1>6. pc[c].task = "" BY <1>1, <1>2 DEF Fits
<1>7. \A q \in RoomIds : Counts(p, in[c], q) <=> Counts(pc[c], in[c], q) BY <1>2, <1>4, <1>6 DEF Counts
<1>8. \A q \in RoomIds : TellsLater(pc[c], q) => TellsLater(p, q) BY <1>2, <1>6 DEF TellsLater
<1>9. \A q \in in[c] : kind[c] = "apple" => High(rooms[q]) \/ WillFloor(p, q)
  BY <1>2, <1>6 DEF BusInv, Floored, WillFloor
<1>10. kind[c] \in {"", "web", "apple"} /\ kind' = [kind EXCEPT ![c] = kind[c]] BY <1>1, <1>2 DEF TypeOK
<1> QED BY <1>2, <1>4, <1>5, <1>7, <1>8, <1>9, <1>10, TurnStep

LEMMA SyncLeaveStep ==
    ASSUME BusInv, NEW c \in Clients, NEW r \in RoomIds, SyncLeave(c, r)
    PROVE  BusInv'
<1> DEFINE p == At("leave", "leave", r, {}, "lowest")
           joined == in[c] \ {r}
<1>1. TypeOK /\ Fits(pc[c], in[c]) /\ in[c] \in SUBSET RoomIds BY DEF BusInv, TypeOK
<1>2. /\ pc[c].at = "ready" /\ r \in in[c] /\ pc' = [pc EXCEPT ![c] = p] /\ in' = [in EXCEPT ![c] = joined]
      /\ told' = [told EXCEPT ![c][r] = None] /\ UNCHANGED <<rooms_, kind, hub>>
  BY DEF SyncLeave, Is, Go
<1>3. p \in Process /\ p.at = "leave" /\ p.task = "leave" /\ p.room = r /\ p.rest = {}
  <2>1. "leave" \in Steps /\ "leave" \in Tasks /\ "lowest" \in Latencies BY DEF Steps, Tasks, Latencies
  <2> QED BY <2>1, AtIs
<1>4. joined \in SUBSET RoomIds /\ \A q \in in[c] : q \in joined \/ q = r BY <1>1
<1>5. r \notin joined /\ joined \subseteq in[c] OBVIOUS
<1> HIDE DEF p, joined
<1>6. Fits(p, joined) BY <1>3, <1>5 DEF Fits
<1>7. pc[c].task = "" BY <1>1, <1>2 DEF Fits
<1>8. \A q \in RoomIds : Counts(p, joined, q) <=> Counts(pc[c], in[c], q)
  BY <1>2, <1>3, <1>4, <1>5, <1>7 DEF Counts
<1>9. \A q \in RoomIds : TellsLater(pc[c], q) => TellsLater(p, q) BY <1>2, <1>7 DEF TellsLater
<1>10. kind[c] \in {"", "web", "apple"} /\ kind' = [kind EXCEPT ![c] = kind[c]] /\ UNCHANGED <<rooms_, hub>>
  BY <1>1, <1>2 DEF TypeOK
<1>11. told' \in [Clients -> [RoomIds -> PublicState \cup {None}]]
  <2> HIDE DEF PublicState, None
  <2> QED BY <1>1, <1>2 DEF TypeOK
<1>12. \A d \in Clients, q \in RoomIds :
          q \in in'[d] => TellsLater(p, q) \/ (q \in in[d] /\ told'[d][q] = told[d][q])
  <2> SUFFICES ASSUME NEW d \in Clients, NEW q \in RoomIds, q \in in'[d]
               PROVE  q \in in[d] /\ told'[d][q] = told[d][q]
    OBVIOUS
  <2>1. in \in [Clients -> SUBSET RoomIds] /\ told \in [Clients -> [RoomIds -> PublicState \cup {None}]]
    BY <1>1 DEF TypeOK
  <2>2. CASE d = c
    <3>1. q \in in[c] /\ q # r BY <1>2, <1>5, <2>1, <2>2
    <3> QED BY <1>2, <2>1, <2>2, <3>1
  <2>3. CASE d # c BY <1>2, <2>1, <2>3
  <2> QED BY <2>2, <2>3
<1>13. \A q \in joined : kind[c] = "apple" => High(rooms[q]) \/ WillFloor(p, q)
  BY <1>2, <1>5, <1>7 DEF BusInv, Floored, WillFloor
<1>14. pc' = [pc EXCEPT ![c] = p] /\ in' = [in EXCEPT ![c] = joined] BY <1>2
<1> QED BY ONLY BusInv, c \in Clients, <1>3, <1>4, <1>6, <1>8, <1>9, <1>10, <1>11, <1>12, <1>13, <1>14, QuietStep

LEMMA DisconnectStep ==
    ASSUME BusInv, NEW c \in Clients, Disconnect(c)
    PROVE  BusInv'
<1> DEFINE p == Loop("gone", in[c])
           joined == {}
<1>1. TypeOK /\ Fits(pc[c], in[c]) /\ in[c] \in SUBSET RoomIds BY DEF BusInv, TypeOK
<1>2. /\ pc[c].at = "ready" /\ pc' = [pc EXCEPT ![c] = p] /\ in' = [in EXCEPT ![c] = joined]
      /\ kind' = [kind EXCEPT ![c] = ""]
      /\ told' = [told EXCEPT ![c] = [r \in RoomIds |-> None]] /\ UNCHANGED <<rooms_, hub>>
  BY DEF Disconnect, Is, Go
<1>3. joined \in SUBSET RoomIds OBVIOUS
<1>4. p \in Process /\ Fits(p, joined) BY ONLY <1>1, <1>3, LoopDoes
<1>5. \A r \in RoomIds : Counts(p, joined, r) <=> r \in joined \/ r \in in[c] BY ONLY <1>1, <1>3, LoopDoes
<1> HIDE DEF p
<1>6. pc[c].task = "" BY <1>1, <1>2 DEF Fits
<1>7. \A r \in RoomIds : Counts(p, joined, r) <=> Counts(pc[c], in[c], r) BY <1>2, <1>5, <1>6 DEF Counts
<1>8. \A r \in RoomIds : TellsLater(pc[c], r) => TellsLater(p, r) BY <1>2, <1>6 DEF TellsLater
<1>9. told' \in [Clients -> [RoomIds -> PublicState \cup {None}]]
  <2> HIDE DEF PublicState, None
  <2> QED BY <1>1, <1>2 DEF TypeOK
<1>10. \A d \in Clients, r \in RoomIds :
          r \in in'[d] => TellsLater(p, r) \/ (r \in in[d] /\ told'[d][r] = told[d][r])
  <2>1. in \in [Clients -> SUBSET RoomIds] /\ told \in [Clients -> [RoomIds -> PublicState \cup {None}]]
    BY <1>1 DEF TypeOK
  <2>2. in'[c] = {} /\ \A d \in Clients \ {c} : in'[d] = in[d] /\ told'[d] = told[d] BY <1>2, <2>1
  <2> QED BY <2>2
<1>11. \A r \in joined : "" = "apple" => High(rooms[r]) \/ WillFloor(p, r) OBVIOUS
<1>12. "" \in {"", "web", "apple"} /\ UNCHANGED <<rooms_, hub>> BY <1>2
<1> HIDE DEF joined
<1> QED BY <1>2, <1>3, <1>4, <1>7, <1>8, <1>9, <1>10, <1>11, <1>12, QuietStep

\* A goroutine's step under the room lock: one room changes, and its screens
\* are told at once (publishRoomLocked), later, or need not be.
LEMMA RoomStep ==
    ASSUME BusInv, NEW c \in Clients, NEW p \in Process, NEW r0 \in RoomIds, NEW st \in RoomState,
           pc' = [pc EXCEPT ![c] = p], rooms' = [rooms EXCEPT ![r0] = st],
           UNCHANGED <<kind, in, timers, hub>>,
           Fits(p, in[c]),
           \A r \in RoomIds \ {r0} : Counts(p, in[c], r) <=> Counts(pc[c], in[c], r),
           \/ (Counts(p, in[c], r0) <=> Counts(pc[c], in[c], r0)) /\ st.members = rooms[r0].members
           \/ Counts(p, in[c], r0) /\ ~Counts(pc[c], in[c], r0) /\ st.members = rooms[r0].members + 1
           \/ ~Counts(p, in[c], r0) /\ Counts(pc[c], in[c], r0) /\ st.members = rooms[r0].members - 1,
           \/ Publish({r0})
           \/ told' = told /\ (TellsLater(p, r0) \/ (Public(st) = Public(rooms[r0]) /\ ~TellsLater(pc[c], r0))),
           \A r \in RoomIds \ {r0} : ~TellsLater(pc[c], r),
           \A d \in Clients \ {c} :
              r0 \in in[d] /\ kind[d] = "apple" /\ High(rooms[r0]) => High(st) \/ WillFloor(pc[d], r0),
           \A r \in in[c] : kind[c] = "apple" => (r = r0 /\ High(st)) \/ (r # r0 /\ High(rooms[r])) \/ WillFloor(p, r)
    PROVE  BusInv'
<1>1. TypeOK BY DEF BusInv
<1>2. /\ rooms \in [RoomIds -> RoomState] /\ in \in [Clients -> SUBSET RoomIds]
      /\ kind \in [Clients -> {"", "web", "apple"}]
      /\ told \in [Clients -> [RoomIds -> PublicState \cup {None}]]
  BY <1>1 DEF TypeOK
<1>3. /\ rooms' \in [RoomIds -> RoomState] /\ rooms'[r0] = st
      /\ \A r \in RoomIds \ {r0} : rooms'[r] = rooms[r]
  <2> HIDE DEF RoomState
  <2> QED BY <1>2
<1>4. in' = [in EXCEPT ![c] = in[c]] BY <1>2
<1>5. kind' = [kind EXCEPT ![c] = kind[c]] BY <1>2
<1>6. in[c] \in SUBSET RoomIds /\ kind[c] \in {"", "web", "apple"} BY <1>2
<1>7. MembersTrue'
  <2>1. ASSUME NEW r \in RoomIds
        PROVE  \/ /\ Counts(p, in[c], r) <=> Counts(pc[c], in[c], r)
                  /\ rooms'[r].members = rooms[r].members
               \/ /\ Counts(p, in[c], r) /\ ~Counts(pc[c], in[c], r)
                  /\ rooms'[r].members = rooms[r].members + 1
               \/ /\ ~Counts(p, in[c], r) /\ Counts(pc[c], in[c], r)
                  /\ rooms'[r].members = rooms[r].members - 1
    <3>1. CASE r = r0
      <4>1. \/ (Counts(p, in[c], r0) <=> Counts(pc[c], in[c], r0)) /\ st.members = rooms[r0].members
            \/ Counts(p, in[c], r0) /\ ~Counts(pc[c], in[c], r0) /\ st.members = rooms[r0].members + 1
            \/ ~Counts(p, in[c], r0) /\ Counts(pc[c], in[c], r0) /\ st.members = rooms[r0].members - 1
        OBVIOUS
      <4> QED BY ONLY <1>3, <3>1, <4>1
    <3>2. CASE r # r0
      <4>1. Counts(p, in[c], r) <=> Counts(pc[c], in[c], r) BY <3>2
      <4> QED BY ONLY <1>3, <3>2, <4>1, r \in RoomIds
    <3> QED BY <3>1, <3>2
  <2> QED BY ONLY <2>1, <1>4, Recounted, BusInv, c \in Clients, pc' = [pc EXCEPT ![c] = p]
<1>8. /\ told' \in [Clients -> [RoomIds -> PublicState \cup {None}]]
      /\ \A d \in Clients, r \in RoomIds : r \in in[d] =>
            \/ TellsLater(p, r)
            \/ rooms'[r].members > 0 => told'[d][r] = Public(rooms'[r])
            \/ ~TellsLater(pc[c], r) /\ told'[d][r] = told[d][r] /\ Public(rooms'[r]) = Public(rooms[r])
  <2>1. CASE Publish({r0})
    <3>1. /\ told' \in [Clients -> [RoomIds -> PublicState \cup {None}]]
          /\ \A d \in Clients, r \in RoomIds :
                /\ r \in {r0} /\ r \in in[d] /\ rooms'[r].members > 0 => told'[d][r] = Public(rooms'[r])
                /\ r \notin {r0} => told'[d][r] = told[d][r]
      BY ONLY <1>1, <1>3, <2>1, PublishDoes
    <3>2. ASSUME NEW d \in Clients, NEW r \in RoomIds, r \in in[d], r # r0
          PROVE  ~TellsLater(pc[c], r) /\ told'[d][r] = told[d][r] /\ Public(rooms'[r]) = Public(rooms[r])
      BY <1>3, <3>1, <3>2
    <3> QED BY ONLY <3>1, <3>2
  <2>2. CASE told' = told /\ (TellsLater(p, r0) \/ (Public(st) = Public(rooms[r0]) /\ ~TellsLater(pc[c], r0)))
    <3>1. ASSUME NEW d \in Clients, NEW r \in RoomIds, r \in in[d]
          PROVE  \/ TellsLater(p, r)
                 \/ ~TellsLater(pc[c], r) /\ told'[d][r] = told[d][r] /\ Public(rooms'[r]) = Public(rooms[r])
      <4>1. CASE r = r0 BY <1>3, <2>2, <4>1
      <4>2. CASE r # r0 BY <1>3, <2>2, <4>2
      <4> QED BY <4>1, <4>2
    <3> QED BY ONLY <1>2, <2>2, <3>1
  <2> QED BY <2>1, <2>2
<1>9. \A d \in Clients, r \in RoomIds : r \in in'[d] =>
         \/ TellsLater(p, r)
         \/ rooms'[r].members > 0 => told'[d][r] = Public(rooms'[r])
         \/ /\ r \in in[d] /\ ~TellsLater(pc[c], r)
            /\ told'[d][r] = told[d][r] /\ Public(rooms'[r]) = Public(rooms[r])
  BY ONLY <1>8, UNCHANGED <<kind, in, timers, hub>>
<1>10. \A d \in Clients \ {c}, r \in RoomIds :
          r \in in[d] /\ kind[d] = "apple" /\ High(rooms[r]) => High(rooms'[r]) \/ WillFloor(pc[d], r)
  BY <1>3
<1>11. \A r \in in[c] : kind[c] = "apple" => High(rooms'[r]) \/ WillFloor(p, r) BY <1>3, <1>6
<1>12. UNCHANGED <<timers, hub>> /\ pc' = [pc EXCEPT ![c] = p] /\ Fits(p, in[c]) OBVIOUS
<1> QED BY ONLY BusInv, c \in Clients, p \in Process, <1>3, <1>4, <1>5, <1>6, <1>7, <1>8, <1>9, <1>10, <1>11,
               <1>12, SocketStep

LEMMA MediaStartIs ==
    ASSUME TypeOK, NEW c \in Clients, NEW r \in RoomIds
    PROVE  MediaStart(c, r) \in 0..MaxLag
<1>1. Channel[r] \in Channels BY DEF Channels
<1>2. first[Channel[r]] \in 0..MaxLag BY <1>1 DEF TypeOK
<1>3. MaxLag \in 0..MaxLag OBVIOUS
<1> QED BY <1>2, <1>3 DEF MediaStart

LEMMA JoinRoomStep ==
    ASSUME BusInv, NEW c \in Clients, JoinRoom(c)
    PROVE  BusInv'
<1> DEFINE r0 == pc[c].room
           p == At(IF kind[c] = "apple" THEN "floor" ELSE "publish", "join", r0, {}, "lowest")
<1>1. TypeOK /\ Fits(pc[c], in[c]) /\ MembersTrue /\ in[c] \in SUBSET RoomIds BY DEF BusInv, TypeOK
<1>2. pc[c].at = "join" /\ pc' = [pc EXCEPT ![c] = p] /\ UNCHANGED <<timers, kind, in, told, hub>>
  BY DEF JoinRoom, Is, Go
<1>3. PICK latency \in Choices : rooms' = [rooms EXCEPT ![r0] = JoinAt(r0, MediaStart(c, r0), latency)]
  BY DEF JoinRoom
<1> DEFINE st == JoinAt(r0, MediaStart(c, r0), latency)
<1>4. r0 \in in[c] /\ r0 \in RoomIds /\ pc[c].task = "join" /\ latency \in Latencies
  BY <1>1, <1>2, <1>3 DEF Fits
<1>5. MediaStart(c, r0) \in 0..MaxLag /\ rooms[r0] \in RoomState BY <1>1, <1>4, MediaStartIs DEF TypeOK
<1> HIDE DEF r0
<1>6. st \in RoomState /\ st.members = rooms[r0].members + 1 /\ (Exists(r0) /\ High(rooms[r0]) => High(st))
  BY ONLY <1>4, <1>5, JoinDoes
<1>7. rooms' = [rooms EXCEPT ![r0] = st] BY <1>3
<1>8. p \in Process /\ p.task = "join" /\ p.room = r0 /\ p.rest = {}
      /\ p.at = (IF kind[c] = "apple" THEN "floor" ELSE "publish")
  <2>1. "floor" \in Steps /\ "publish" \in Steps /\ "join" \in Tasks /\ "lowest" \in Latencies
    BY DEF Steps, Tasks, Latencies
  <2> QED BY <1>4, <2>1, AtIs
<1> HIDE DEF p, st
<1>9. Fits(p, in[c]) BY <1>4, <1>8 DEF Fits
<1>10. \A r \in RoomIds \ {r0} : Counts(p, in[c], r) <=> Counts(pc[c], in[c], r)
  BY <1>2, <1>4, <1>8, pc[c].room = r0 DEF Counts, r0
<1>11. Counts(p, in[c], r0) /\ ~Counts(pc[c], in[c], r0)
  <2>1. pc[c].room = r0 BY DEF r0
  <2> QED BY <1>2, <1>4, <1>8, <2>1 DEF Counts
<1>12. told' = told /\ TellsLater(p, r0) BY <1>2, <1>8 DEF TellsLater
<1>13. \A r \in RoomIds \ {r0} : ~TellsLater(pc[c], r) BY DEF TellsLater, r0
<1>14. ASSUME NEW d \in Clients \ {c}, r0 \in in[d], kind[d] = "apple", High(rooms[r0])
       PROVE  High(st) \/ WillFloor(pc[d], r0)
  <2>1. CASE Exists(r0) BY <1>6, <1>14, <2>1
  <2>2. CASE ~Exists(r0)
    <3>1. ~Counts(pc[d], in[d], r0) BY <1>1, <1>4, <2>2, CountedIsThere DEF Exists
    <3> QED BY <1>14, <3>1 DEF Counts, WillFloor
  <2> QED BY <2>1, <2>2
<1>15. ASSUME NEW r \in in[c], kind[c] = "apple"
       PROVE  (r = r0 /\ High(st)) \/ (r # r0 /\ High(rooms[r])) \/ WillFloor(p, r)
  <2>1. CASE r = r0 BY <1>8, <1>15, <2>1 DEF WillFloor
  <2>2. CASE r # r0
    <3>1. High(rooms[r]) \/ WillFloor(pc[c], r) BY <1>15 DEF BusInv, Floored
    <3>2. pc[c].room = r0 BY DEF r0
    <3> QED BY <1>4, <2>2, <3>1, <3>2 DEF WillFloor
  <2> QED BY <2>1, <2>2
<1>16. pc' = [pc EXCEPT ![c] = p] /\ UNCHANGED <<kind, in, timers, hub>> BY <1>2
<1> QED BY ONLY BusInv, c \in Clients, <1>4, <1>6, <1>7, <1>8, <1>9, <1>10, <1>11, <1>12, <1>13, <1>14, <1>15,
               <1>16, RoomStep

LEMMA FloorRoomStep ==
    ASSUME BusInv, NEW c \in Clients, FloorRoom(c)
    PROVE  BusInv'
<1> DEFINE p0 == pc[c]
           r0 == p0.room
           st == Floor(r0, p0.floor)
           p == IF Tells(p0, Floors(r0, p0.floor)) THEN [p0 EXCEPT !.at = "publish", !.floor = "lowest"]
                ELSE Loop(p0.task, p0.rest)
<1>1. TypeOK /\ Fits(pc[c], in[c]) /\ MembersTrue /\ in[c] \in SUBSET RoomIds /\ p0 \in Process
  BY DEF BusInv, TypeOK
<1>2. /\ p0.at = "floorAt" /\ pc' = [pc EXCEPT ![c] = p] /\ rooms' = [rooms EXCEPT ![r0] = st]
      /\ UNCHANGED <<timers, kind, in, told, hub>>
  BY DEF FloorRoom, Is, Go
<1>3. /\ r0 \in in[c] /\ r0 \in RoomIds /\ p0.task \in {"join", "here"} /\ p0.floor \in Latencies
      /\ LatencyMS[p0.floor] >= LatencyMS["balanced"] /\ rooms[r0] \in RoomState /\ p0.rest \in SUBSET RoomIds
      /\ p0.task = "here" => p0.rest \subseteq in[c]
      /\ p0.task = "join" => p0.rest = {}
  BY <1>1, <1>2 DEF Fits, TypeOK, Process
<1>4. pc[c] = p0 /\ p0.room = r0 OBVIOUS
<1>5. \/ p = [p0 EXCEPT !.at = "publish", !.floor = "lowest"]
      \/ p = Loop(p0.task, p0.rest) /\ p0.task = "here" /\ ~Floors(r0, p0.floor)
  BY <1>3 DEF Tells
<1> HIDE DEF p, r0
<1>6. Counts(p0, in[c], r0) BY <1>2, <1>3 DEF Counts
<1>7. Exists(r0) BY <1>1, <1>3, <1>4, <1>6, CountedIsThere DEF Exists
<1>8. /\ Holds(st, rooms[r0]) /\ (~Floors(r0, p0.floor) => st = rooms[r0]) /\ High(st)
  BY ONLY <1>3, <1>7, FloorHolds
<1> HIDE DEF st, p0
<1>9. /\ p \in Process /\ Fits(p, in[c])
      /\ \A r \in RoomIds : Counts(p, in[c], r) <=> r \in in[c]
      /\ \A r \in RoomIds : p0.task = "here" /\ r \in p0.rest => WillFloor(p, r)
  <2>1. CASE p = [p0 EXCEPT !.at = "publish", !.floor = "lowest"]
    <3>1. p \in Process /\ p.at = "publish" /\ p.task = p0.task /\ p.room = r0 /\ p.rest = p0.rest
      BY <1>1, <1>4, <2>1 DEF Process, Steps, Latencies
    <3> QED BY <1>3, <3>1 DEF Fits, Counts, WillFloor
  <2>2. CASE p = Loop(p0.task, p0.rest) /\ p0.task = "here"
    <3>1. p0.task \in {"here", "gone", "join", "leave"} /\ p0.task # "gone" BY <2>2
    <3>2. p \in Process /\ Fits(p, in[c]) BY ONLY <1>1, <1>3, <2>2, <3>1, LoopDoes
    <3>3. \A r \in RoomIds : Counts(p, in[c], r) <=> r \in in[c] BY ONLY <1>1, <1>3, <2>2, <3>1, LoopDoes
    <3>4. \A r \in RoomIds : p0.task = "here" /\ r \in p0.rest => WillFloor(p, r)
      BY ONLY <1>1, <1>3, <2>2, <3>1, LoopDoes
    <3> QED BY <3>2, <3>3, <3>4
  <2> QED BY <1>5, <2>1, <2>2
<1>10. \A r \in RoomIds : Counts(p, in[c], r) <=> Counts(pc[c], in[c], r)
  BY <1>2, <1>3, <1>4, <1>9 DEF Counts
<1>11. st \in RoomState /\ st.members = rooms[r0].members BY <1>8 DEF Holds, Still
<1>12. told' = told /\ (TellsLater(p, r0) \/ (Public(st) = Public(rooms[r0]) /\ ~TellsLater(pc[c], r0)))
  <2>1. CASE p = [p0 EXCEPT !.at = "publish", !.floor = "lowest"]
    <3>1. p.at = "publish" /\ p.room = r0 BY <1>1, <1>4, <2>1 DEF Process
    <3> QED BY <1>2, <3>1 DEF TellsLater
  <2>2. CASE p0.task = "here" /\ ~Floors(r0, p0.floor) BY <1>2, <1>4, <1>8, <2>2 DEF TellsLater
  <2> QED BY <1>5, <2>1, <2>2
<1>13. \A r \in RoomIds \ {r0} : ~TellsLater(pc[c], r) BY <1>4 DEF TellsLater
<1>14. \A d \in Clients \ {c} : r0 \in in[d] /\ kind[d] = "apple" /\ High(rooms[r0]) => High(st) \/ WillFloor(pc[d], r0)
  BY <1>8
<1>15. ASSUME NEW r \in in[c], kind[c] = "apple"
       PROVE  (r = r0 /\ High(st)) \/ (r # r0 /\ High(rooms[r])) \/ WillFloor(p, r)
  <2>1. CASE r = r0 BY <1>8, <2>1
  <2>2. CASE r # r0
    <3>1. High(rooms[r]) \/ WillFloor(p0, r) BY <1>4, <1>15 DEF BusInv, Floored
    <3>2. WillFloor(p0, r) => p0.task = "here" /\ r \in p0.rest BY <1>4, <2>2 DEF WillFloor
    <3> QED BY <1>1, <1>9, <2>2, <3>1, <3>2
  <2> QED BY <2>1, <2>2
<1>16. pc' = [pc EXCEPT ![c] = p] /\ UNCHANGED <<kind, in, timers, hub>> /\ rooms' = [rooms EXCEPT ![r0] = st]
  BY <1>2
<1> QED BY ONLY BusInv, c \in Clients, <1>3, <1>9, <1>10, <1>11, <1>12, <1>13, <1>14, <1>15, <1>16, RoomStep

LEMMA RoomChangedStep ==
    ASSUME BusInv, NEW c \in Clients, RoomChanged(c)
    PROVE  BusInv'
<1> DEFINE p0 == pc[c]
           r0 == p0.room
           p == Loop(p0.task, p0.rest)
           st == rooms[r0]
<1>1. TypeOK /\ Fits(p0, in[c]) /\ in[c] \in SUBSET RoomIds /\ p0 \in Process
  BY DEF BusInv, TypeOK
<1>2. /\ p0.at = "publish" /\ pc' = [pc EXCEPT ![c] = p] /\ Publish({r0})
      /\ UNCHANGED <<rooms_, kind, in, hub>>
  BY DEF RoomChanged, Is, Go
<1>3. /\ r0 \in RoomIds /\ p0.task \in {"join", "here", "leave", "gone"} /\ p0.rest \in SUBSET RoomIds
      /\ p0.task = "gone" => in[c] = {}
      /\ p0.task = "here" => p0.rest \subseteq in[c]
      /\ p0.task \in {"join", "leave"} => p0.rest = {}
  BY <1>1, <1>2 DEF Fits, Process
<1>4. pc[c] = p0 /\ p0.room = r0 /\ p = Loop(p0.task, p0.rest) OBVIOUS
<1>8. st \in RoomState /\ rooms' = [rooms EXCEPT ![r0] = st] /\ UNCHANGED timers BY <1>1, <1>2, <1>3 DEF TypeOK, rooms_
<1> HIDE DEF p, p0
<1>15. /\ p0.task \in {"here", "gone", "join", "leave"} /\ p0.rest \in SUBSET RoomIds /\ in[c] \in SUBSET RoomIds
       /\ p0.task = "gone" => in[c] = {}
       /\ p0.task = "here" => p0.rest \subseteq in[c]
       /\ p0.task \in {"join", "leave"} => p0.rest = {}
       /\ p = Loop(p0.task, p0.rest)
  BY <1>1, <1>3, <1>4
<1>5. /\ p \in Process /\ Fits(p, in[c])
      /\ \A r \in RoomIds : Counts(p, in[c], r) <=> r \in in[c] \/ (p0.task = "gone" /\ r \in p0.rest)
  <2>1. CASE p0.task = "here" BY ONLY <1>15, <2>1, LoopDoes
  <2>2. CASE p0.task = "gone"
    <3>1. in[c] = {} BY ONLY <1>15, <2>2
    <3>2. {} \in SUBSET RoomIds OBVIOUS
    <3>3. p \in Process /\ Fits(p, {}) BY ONLY <1>15, <2>2, <3>2, LoopDoes
    <3>4. \A r \in RoomIds : Counts(p, {}, r) <=> r \in {} \/ (p0.task = "gone" /\ r \in p0.rest)
      BY ONLY <1>15, <2>2, <3>2, LoopDoes
    <3> QED BY ONLY <2>2, <3>1, <3>3, <3>4
  <2>3. CASE p0.task \in {"join", "leave"}
    <3>1. p0.rest = {} BY ONLY <1>15, <2>3
    <3>2. {} \in SUBSET RoomIds /\ p = Loop(p0.task, {}) /\ p0.task # "gone" /\ p0.task # "here" BY ONLY <1>15, <2>3, <3>1
    <3>3. p \in Process /\ Fits(p, in[c]) BY ONLY <1>15, <2>3, <3>2, LoopDoes
    <3>4. ASSUME NEW r \in RoomIds PROVE Counts(p, in[c], r) <=> r \in in[c]
      <4>1. p.at = "ready" /\ p.task = "" BY ONLY <3>2 DEF Loop, Ready, At
      <4> QED BY ONLY <4>1 DEF Counts
    <3> QED BY ONLY <3>1, <3>3, <3>4
  <2> QED BY ONLY <1>15, <2>1, <2>2, <2>3
<1>7. \A r \in RoomIds : p0.task = "here" /\ r \in p0.rest => WillFloor(p, r) BY ONLY <1>15, LoopDoes
<1>9. \A r \in RoomIds : Counts(p, in[c], r) <=> Counts(pc[c], in[c], r) BY <1>2, <1>4, <1>5 DEF Counts
<1>10. \A r \in RoomIds \ {r0} : ~TellsLater(pc[c], r) BY <1>4 DEF TellsLater
<1>11. \A d \in Clients \ {c} : r0 \in in[d] /\ kind[d] = "apple" /\ High(rooms[r0]) => High(st) \/ WillFloor(pc[d], r0)
  OBVIOUS
<1>12. ASSUME NEW r \in in[c], kind[c] = "apple"
       PROVE  (r = r0 /\ High(st)) \/ (r # r0 /\ High(rooms[r])) \/ WillFloor(p, r)
  <2>1. High(rooms[r]) \/ WillFloor(p0, r) BY <1>4, <1>12 DEF BusInv, Floored
  <2>2. WillFloor(p0, r) => p0.task = "here" /\ r \in p0.rest BY <1>2 DEF WillFloor
  <2> QED BY <1>1, <1>7, <2>1, <2>2
<1>13. pc' = [pc EXCEPT ![c] = p] /\ UNCHANGED <<kind, in, timers, hub>> /\ Publish({r0}) BY <1>2, <1>8
<1>14. st.members = rooms[r0].members OBVIOUS
<1> HIDE DEF st, r0
<1> QED BY ONLY BusInv, c \in Clients, <1>3, <1>5, <1>8, <1>9, <1>10, <1>11, <1>12, <1>13, <1>14, RoomStep

\* Leaving, by choice or with the socket: counted until the room is left.
LEMMA LeaveSteps ==
    ASSUME BusInv, NEW c \in Clients, LeaveRoom(c) \/ LeaveNext(c)
    PROVE  BusInv'
<1> DEFINE p0 == pc[c]
<1>1. TypeOK /\ Fits(p0, in[c]) /\ in[c] \in SUBSET RoomIds /\ p0 \in Process /\ MembersTrue
  BY DEF BusInv, TypeOK
<1>2. PICK r0 \in RoomIds, p \in Process :
         /\ rooms' = [rooms EXCEPT ![r0] = Leave(r0)] /\ pc' = [pc EXCEPT ![c] = p]
         /\ UNCHANGED <<timers, kind, in, told, hub>>
         /\ p.at = "publish" /\ p.task = p0.task /\ p.room = r0 /\ p0.task \in {"leave", "gone"} /\ r0 \notin in[c]
         /\ \/ p0.at = "leave" /\ p0.task = "leave" /\ p0.room = r0 /\ p.rest = {}
            \/ p0.at = "gone" /\ p0.task = "gone" /\ r0 \in p0.rest /\ p.rest = p0.rest \ {r0}
  <2>1. CASE LeaveRoom(c)
    <3>1. p0.at = "leave" /\ p0.task = "leave" /\ p0.room \in RoomIds \ in[c] /\ p0.rest = {}
      BY <1>1, <2>1 DEF LeaveRoom, Is, Fits
    <3>2. [p0 EXCEPT !.at = "publish"] \in Process BY <1>1 DEF Process, Steps
    <3>3. /\ [p0 EXCEPT !.at = "publish"].at = "publish" /\ [p0 EXCEPT !.at = "publish"].task = p0.task
          /\ [p0 EXCEPT !.at = "publish"].room = p0.room /\ [p0 EXCEPT !.at = "publish"].rest = p0.rest
      BY <1>1 DEF Process
    <3>4. /\ rooms' = [rooms EXCEPT ![p0.room] = Leave(p0.room)] /\ pc' = [pc EXCEPT ![c] = [p0 EXCEPT !.at = "publish"]]
          /\ UNCHANGED <<timers, kind, in, told, hub>>
      BY <2>1 DEF LeaveRoom, Go
    <3> HIDE DEF p0
    <3> QED BY <3>1, <3>2, <3>3, <3>4
  <2>2. CASE LeaveNext(c)
    <3>1. p0.at = "gone" /\ p0.task = "gone" /\ p0.rest \in SUBSET RoomIds /\ in[c] = {}
      BY <1>1, <2>2 DEF LeaveNext, Is, Fits, Process
    <3>2. PICK r \in p0.rest :
             /\ rooms' = [rooms EXCEPT ![r] = Leave(r)]
             /\ pc' = [pc EXCEPT ![c] = At("publish", "gone", r, p0.rest \ {r}, "lowest")]
      BY <2>2 DEF LeaveNext, Go
    <3>3. UNCHANGED <<timers, kind, in, told, hub>> BY <2>2 DEF LeaveNext
    <3> DEFINE p == At("publish", "gone", r, p0.rest \ {r}, "lowest")
    <3>4. p \in Process /\ p.at = "publish" /\ p.task = "gone" /\ p.room = r /\ p.rest = p0.rest \ {r}
      <4>1. "publish" \in Steps /\ "gone" \in Tasks /\ "lowest" \in Latencies BY DEF Steps, Tasks, Latencies
      <4> QED BY <3>1, <4>1, AtIs
    <3>5. pc' = [pc EXCEPT ![c] = p] /\ r \in RoomIds BY <3>1, <3>2
    <3> HIDE DEF p, p0
    <3> QED BY <3>1, <3>2, <3>3, <3>4, <3>5
  <2> QED BY <2>1, <2>2
<1>3. pc[c] = p0 OBVIOUS
<1> HIDE DEF p0
<1> DEFINE st == Leave(r0)
<1>4. Counts(p0, in[c], r0) BY <1>2 DEF Counts
<1>5. Exists(r0) /\ rooms[r0] \in RoomState BY <1>1, <1>3, <1>4, CountedIsThere DEF Exists, TypeOK
<1>6. st \in RoomState /\ st.members = rooms[r0].members - 1 /\ (High(rooms[r0]) => High(st))
  BY <1>5, LeaveDoes
<1> HIDE DEF st
<1>7. Fits(p, in[c])
  <2>1. p0.task = "gone" => in[c] = {} BY <1>1 DEF Fits
  <2> QED BY <1>2, <2>1 DEF Fits
<1>8. \A r \in RoomIds \ {r0} : Counts(p, in[c], r) <=> Counts(pc[c], in[c], r) BY <1>2, <1>3 DEF Counts
<1>9. ~Counts(p, in[c], r0) /\ Counts(pc[c], in[c], r0) /\ st.members = rooms[r0].members - 1
  BY <1>2, <1>3, <1>4, <1>6 DEF Counts
<1>10. told' = told /\ TellsLater(p, r0) BY <1>2 DEF TellsLater
<1>11. \A r \in RoomIds \ {r0} : ~TellsLater(pc[c], r) BY <1>2, <1>3 DEF TellsLater
<1>12. \A d \in Clients \ {c} : r0 \in in[d] /\ kind[d] = "apple" /\ High(rooms[r0]) => High(st) \/ WillFloor(pc[d], r0)
  BY <1>6
<1>13. ASSUME NEW r \in in[c], kind[c] = "apple"
       PROVE  (r = r0 /\ High(st)) \/ (r # r0 /\ High(rooms[r])) \/ WillFloor(p, r)
  <2>1. High(rooms[r]) \/ WillFloor(p0, r) BY <1>3, <1>13 DEF BusInv, Floored
  <2>2. ~WillFloor(p0, r) BY <1>2 DEF WillFloor
  <2> QED BY <1>2, <2>1, <2>2
<1>14. pc' = [pc EXCEPT ![c] = p] /\ UNCHANGED <<kind, in, timers, hub>> /\ rooms' = [rooms EXCEPT ![r0] = st]
  BY <1>2 DEF st
<1> QED BY ONLY BusInv, c \in Clients, r0 \in RoomIds, p \in Process, <1>6, <1>7, <1>8, <1>9, <1>10, <1>11, <1>12,
               <1>13, <1>14, RoomStep

LEMMA SyncCommandStep ==
    ASSUME BusInv, NEW c \in Clients, NEW r0 \in RoomIds, NEW action \in Actions, NEW at \in Places(action),
           SyncCommand(c, r0, action, at)
    PROVE  BusInv'
<1> DEFINE p == pc[c]
           st == Apply(r0, action, at)
<1>1. TypeOK /\ Fits(p, in[c]) /\ p \in Process /\ rooms[r0] \in RoomState BY DEF BusInv, TypeOK
<1>2. /\ p.at = "ready" /\ rooms' = [rooms EXCEPT ![r0] = st] /\ UNCHANGED <<timers, kind, in, pc, hub>> /\ Publish({r0})
  BY DEF SyncCommand, Is
<1>3. at \in 0..MaxLag BY DEF Places
<1>4. Holds(st, rooms[r0]) BY ONLY <1>1, <1>3, r0 \in RoomIds, action \in Actions, ApplyHolds
<1>5. st \in RoomState /\ st.members = rooms[r0].members /\ (High(rooms[r0]) => High(st)) BY <1>4 DEF Holds, Still
<1>6. pc' = [pc EXCEPT ![c] = p] BY <1>1, <1>2 DEF TypeOK
<1>7. p.task = "" BY <1>1, <1>2 DEF Fits
<1>8. pc[c] = p OBVIOUS
<1> HIDE DEF p, st
<1>9. \A r \in RoomIds : Counts(p, in[c], r) <=> Counts(pc[c], in[c], r) BY <1>8
<1>10. \A r \in RoomIds \ {r0} : ~TellsLater(pc[c], r) BY <1>2, <1>7, <1>8 DEF TellsLater
<1>11. \A d \in Clients \ {c} : r0 \in in[d] /\ kind[d] = "apple" /\ High(rooms[r0]) => High(st) \/ WillFloor(pc[d], r0)
  BY <1>5
<1>12. ASSUME NEW r \in in[c], kind[c] = "apple"
       PROVE  (r = r0 /\ High(st)) \/ (r # r0 /\ High(rooms[r])) \/ WillFloor(p, r)
  <2>1. High(rooms[r]) \/ WillFloor(p, r) BY <1>8, <1>12 DEF BusInv, Floored
  <2> QED BY <1>5, <2>1
<1>13. UNCHANGED <<kind, in, timers, hub>> /\ Publish({r0}) /\ rooms' = [rooms EXCEPT ![r0] = st] BY <1>2
<1> QED BY ONLY BusInv, c \in Clients, r0 \in RoomIds, <1>1, <1>5, <1>6, <1>9, <1>10, <1>11, <1>12, <1>13, RoomStep

LEMMA LatencyAppliesStep ==
    ASSUME BusInv, NEW c \in Clients, LatencyApplies(c)
    PROVE  BusInv'
<1> DEFINE p0 == pc[c]
           r0 == p0.room
<1>1. TypeOK /\ Fits(p0, in[c]) /\ p0 \in Process BY DEF BusInv, TypeOK
<1>2. PICK latency \in Choices :
         rooms' = [rooms EXCEPT ![r0] = ChooseLatency(r0, FlooredChoice(r0, latency, p0.floor))]
  BY DEF LatencyApplies
<1>3. /\ p0.at = "latency" /\ pc' = [pc EXCEPT ![c] = Ready] /\ UNCHANGED <<timers, kind, in, hub>> /\ Publish({r0})
  BY DEF LatencyApplies, Is, Go
<1>4. /\ r0 \in in[c] /\ r0 \in RoomIds /\ p0.task = "command" /\ p0.rest = {} /\ p0.floor \in Latencies
      /\ LatencyMS[p0.floor] >= LatencyMS["balanced"] /\ rooms[r0] \in RoomState
  BY <1>1, <1>3 DEF Fits, TypeOK, Process
<1>5. pc[c] = p0 /\ p0.room = r0 OBVIOUS
<1> HIDE DEF p0, r0
<1> DEFINE latency0 == FlooredChoice(r0, latency, p0.floor)
           st == ChooseLatency(r0, latency0)
<1>6. latency0 \in Latencies /\ (AppleIn(r0) => LatencyMS[latency0] >= LatencyMS["balanced"])
  <2>1. LatencyMS[latency] \in 0..MaxLag /\ LatencyMS[p0.floor] \in 0..MaxLag /\ LatencyMS["balanced"] \in 0..MaxLag
        /\ latency \in Latencies
    BY <1>2, <1>4 DEF Latencies
  <2>2. CASE LatencyMS[latency] < LatencyMS[p0.floor] /\ AppleIn(r0)
    <3>1. latency0 = p0.floor BY <2>2 DEF FlooredChoice
    <3> QED BY <1>4, <3>1
  <2>3. CASE ~(LatencyMS[latency] < LatencyMS[p0.floor] /\ AppleIn(r0))
    <3>1. latency0 = latency BY <2>3 DEF FlooredChoice
    <3> QED BY <1>4, <2>1, <2>3, <3>1
  <2> QED BY <2>2, <2>3
<1>7. rooms' = [rooms EXCEPT ![r0] = st] BY <1>2
<1> HIDE DEF latency0
<1>8. Still(st, rooms[r0]) /\ st.latency = latency0 BY ONLY <1>4, <1>6, ChooseDoes
<1> HIDE DEF st
<1>9. st \in RoomState /\ st.members = rooms[r0].members /\ (AppleIn(r0) => High(st))
  BY <1>6, <1>8 DEF Still, High
<1>10. Ready \in Process /\ Ready.at = "ready" /\ Ready.task = "" /\ Ready.rest = {}
  BY DEF Ready, At, Process, Steps, Tasks, Latencies
<1> HIDE DEF Ready
<1>11. Fits(Ready, in[c]) BY <1>10 DEF Fits
<1>12. \A r \in RoomIds : Counts(Ready, in[c], r) <=> Counts(pc[c], in[c], r) BY <1>3, <1>4, <1>5, <1>10 DEF Counts
<1>13. \A r \in RoomIds \ {r0} : ~TellsLater(pc[c], r) BY <1>5 DEF TellsLater
<1>14. \A d \in Clients \ {c} : r0 \in in[d] /\ kind[d] = "apple" /\ High(rooms[r0]) => High(st) \/ WillFloor(pc[d], r0)
  BY <1>9 DEF AppleIn
<1>15. ASSUME NEW r \in in[c], kind[c] = "apple"
       PROVE  (r = r0 /\ High(st)) \/ (r # r0 /\ High(rooms[r])) \/ WillFloor(Ready, r)
  <2>1. High(rooms[r]) \/ WillFloor(p0, r) BY <1>5, <1>15 DEF BusInv, Floored
  <2>2. ~WillFloor(p0, r) BY <1>3, <1>4 DEF WillFloor
  <2>3. r = r0 => High(st) BY <1>9, <1>15 DEF AppleIn
  <2> QED BY <2>1, <2>2, <2>3
<1>16. UNCHANGED <<kind, in, timers, hub>> /\ Publish({r0}) BY <1>3
<1>17. pc' = [pc EXCEPT ![c] = Ready] BY <1>3
<1> QED BY ONLY BusInv, c \in Clients, <1>4, <1>7, <1>9, <1>10, <1>11, <1>12, <1>13, <1>14, <1>15, <1>16, <1>17, RoomStep

LEMMA SocketSteps ==
    ASSUME BusInv, NEW c \in Clients, Screen(c)
    PROVE  BusInv'
<1>1. ASSUME NEW k \in {"web", "apple"}, Here(c, k) PROVE BusInv' BY <1>1, HereStep
<1>2. ASSUME NEW r \in RoomIds, SyncJoin(c, r) \/ SyncLeave(c, r) \/ LatencyReads(c, r) PROVE BusInv'
  BY <1>2, SyncJoinStep, SyncLeaveStep, LatencyReadsStep
<1>3. ASSUME NEW r \in RoomIds, NEW action \in Actions, NEW at \in Places(action), SyncCommand(c, r, action, at)
      PROVE  BusInv'
  BY <1>3, SyncCommandStep
<1>4. ASSUME Connect(c) \/ Disconnect(c) \/ LeaveNext(c) \/ LeaveRoom(c) PROVE BusInv'
  BY <1>4, ConnectStep, DisconnectStep, LeaveSteps
<1>5. ASSUME HereRoom(c) \/ JoinRoom(c) \/ FloorReads(c) \/ FloorRoom(c) PROVE BusInv'
  BY <1>5, HereRoomStep, JoinRoomStep, FloorReadsStep, FloorRoomStep
<1>6. ASSUME RoomChanged(c) \/ LatencyApplies(c) PROVE BusInv' BY <1>6, RoomChangedStep, LatencyAppliesStep
<1> QED BY <1>1, <1>2, <1>3, <1>4, <1>5, <1>6 DEF Screen

-----------------------------------------------------------------------------
(* The hub, the timers and time.                                            *)

\* The finder's turn to send its room's state.
Sends(p, r) == p.room = r /\ p.at = "publish"

\* A step of no screen: rooms keep their counts and floors, and whoever saw a
\* change is told.
LEMMA HubStep ==
    ASSUME BusInv, UNCHANGED clients,
           rooms' \in [RoomIds -> RoomState],
           \A r \in RoomIds : rooms'[r].members = rooms[r].members /\ (High(rooms[r]) => High(rooms'[r])),
           timers' \subseteq [room : RoomIds, version : Nat, left : Nat],
           first' \in [Channels -> 0..MaxLag], long' \subseteq Channels,
           finder' \in Process, Finds(finder'),
           settler'.at \in {"idle", "settle"}, settler'.browsers \subseteq RoomIds,
           told' \in [Clients -> [RoomIds -> PublicState \cup {None}]],
           \A d \in Clients, r \in RoomIds : r \in in[d] =>
              \/ Sends(finder', r)
              \/ rooms'[r].members > 0 => told'[d][r] = Public(rooms'[r])
              \/ ~Sends(finder, r) /\ told'[d][r] = told[d][r] /\ Public(rooms'[r]) = Public(rooms[r])
    PROVE  BusInv'
<1>1. kind' = kind /\ in' = in /\ pc' = pc BY DEF clients
<1>2. in \in [Clients -> SUBSET RoomIds] /\ \A c \in Clients : Fits(pc[c], in[c]) BY DEF BusInv, TypeOK
<1>3. TypeOK'
  <2> HIDE DEF Process, RoomState, PublicState, None, Channels
  <2> QED BY <1>1 DEF BusInv, TypeOK
<1>4. MembersTrue'
  <2>1. ASSUME NEW r \in RoomIds PROVE rooms'[r].members = Cardinality({c \in Clients : CountedIn(c, r)'})
    <3>1. rooms[r].members = Cardinality({c \in Clients : CountedIn(c, r)}) BY DEF BusInv, MembersTrue
    <3>2. rooms'[r].members = rooms[r].members OBVIOUS
    <3>3. {c \in Clients : CountedIn(c, r)'} = {c \in Clients : CountedIn(c, r)} BY <1>1 DEF CountedIn
    <3> QED BY ONLY <3>1, <3>2, <3>3
  <2> QED BY <2>1 DEF MembersTrue
<1>5. ToldCurrent'
  <2> SUFFICES ASSUME NEW d \in Clients, NEW r \in in[d], ~Untold(r)'
               PROVE  told'[d][r] = Public(rooms'[r])
    BY <1>1 DEF ToldCurrent
  <2>1. r \in RoomIds BY <1>2
  <2>2. \A e \in Clients : ~TellsLater(pc[e], r) BY <1>1 DEF Untold, TellsLater
  <2>3. ~Sends(finder', r) BY DEF Untold, Sends
  <2>4. rooms'[r].members > 0
    <3>1. Counts(pc[d], in[d], r)
      <4>1. pc[d].at = "join" => pc[d].task = "join" BY <1>2 DEF Fits
      <4> QED BY <2>2, <4>1 DEF Counts, TellsLater
    <3>2. rooms[r].members > 0 BY <2>1, <3>1, CountedIsThere DEF BusInv
    <3> QED BY <2>1, <3>2
  <2>5. CASE ~Sends(finder, r) /\ told'[d][r] = told[d][r] /\ Public(rooms'[r]) = Public(rooms[r])
    <3>1. ~Untold(r) BY <2>2, <2>5 DEF Untold, TellsLater, Sends
    <3>2. \A e \in Clients : \A q \in in[e] : ~Untold(q) => told[e][q] = Public(rooms[q])
      BY DEF BusInv, ToldCurrent
    <3>3. told[d][r] = Public(rooms[r]) BY ONLY <3>1, <3>2, d \in Clients, r \in in[d]
    <3> QED BY <2>5, <3>3
  <2> QED BY <2>1, <2>3, <2>4, <2>5
<1>6. Floored'
  <2> SUFFICES ASSUME NEW d \in Clients, NEW r \in in[d], kind[d] = "apple"
               PROVE  High(rooms'[r]) \/ WillFloor(pc[d], r)
    BY <1>1 DEF Floored, High, WillFloor
  <2>1. r \in RoomIds BY <1>2
  <2>2. High(rooms[r]) \/ WillFloor(pc[d], r) BY DEF BusInv, Floored
  <2> QED BY <2>1, <2>2
<1>7. \A c \in Clients : Fits(pc'[c], in'[c]) BY <1>1, <1>2
<1> QED BY <1>3, <1>4, <1>5, <1>6, <1>7 DEF BusInv

LEMMA IdleIs == Idle \in Process /\ Finds(Idle) /\ \A r : ~Sends(Idle, r)
BY DEF Idle, Ready, At, Process, Steps, Tasks, Latencies, Finds, Sends

LEMMA FindsDoes ==
    ASSUME NEW rest \in SUBSET RoomIds
    PROVE  /\ Loop("long", rest) \in Process /\ Finds(Loop("long", rest))
           /\ \A r : ~Sends(Loop("long", rest), r)
BY DEF Loop, Ready, At, Process, Steps, Tasks, Latencies, Finds, Sends

\* A step of the hub that touches no room.
LEMMA HubTurn ==
    ASSUME BusInv, UNCHANGED <<rooms_, clients, told>>,
           first' \in [Channels -> 0..MaxLag], long' \subseteq Channels,
           finder' \in Process, Finds(finder'),
           settler'.at \in {"idle", "settle"}, settler'.browsers \subseteq RoomIds,
           \A r \in RoomIds : ~Sends(finder, r)
    PROVE  BusInv'
<1>1. rooms' = rooms /\ timers' = timers /\ told' = told /\ UNCHANGED clients BY DEF rooms_
<1>2. /\ rooms' \in [RoomIds -> RoomState]
      /\ timers' \subseteq [room : RoomIds, version : Nat, left : Nat]
      /\ told' \in [Clients -> [RoomIds -> PublicState \cup {None}]]
  BY <1>1 DEF BusInv, TypeOK
<1>3. \A r \in RoomIds : rooms'[r].members = rooms[r].members /\ (High(rooms[r]) => High(rooms'[r])) BY <1>1
<1>4. \A d \in Clients, r \in RoomIds : r \in in[d] =>
         \/ Sends(finder', r)
         \/ rooms'[r].members > 0 => told'[d][r] = Public(rooms'[r])
         \/ ~Sends(finder, r) /\ told'[d][r] = told[d][r] /\ Public(rooms'[r]) = Public(rooms[r])
  BY <1>1
<1> QED BY <1>1, <1>2, <1>3, <1>4, HubStep

LEMMA HubTurns ==
    ASSUME BusInv, \/ \E ch \in Channels : Encode(ch) \/ LongFound(ch) \/ LongLost(ch) \/ SettleReads(ch)
                   \/ FinderLists \/ FinderLooks \/ FinderReads
    PROVE  BusInv'
<1>1. /\ TypeOK /\ Finds(finder) /\ finder \in Process /\ first \in [Channels -> 0..MaxLag] /\ long \subseteq Channels
      /\ settler.at \in {"idle", "settle"} /\ settler.browsers \subseteq RoomIds
  BY DEF BusInv, TypeOK
<1>2. CASE \E ch \in Channels : Encode(ch)
  <2>1. PICK ch \in Channels : Encode(ch) BY <1>2
  <2>2. /\ first' = [first EXCEPT ![ch] = FreshAge] /\ long' = long /\ finder' = finder /\ settler' = settler
        /\ rooms' = rooms /\ timers' = timers /\ told' = told /\ UNCHANGED clients
    BY <2>1 DEF Encode, rooms_
  <2>3. first' \in [Channels -> 0..MaxLag] BY <1>1, <2>2
  <2>4. ASSUME NEW d \in Clients, NEW r \in RoomIds, r \in in[d]
        PROVE  \/ Sends(finder', r)
               \/ ~Sends(finder, r) /\ told'[d][r] = told[d][r] /\ Public(rooms'[r]) = Public(rooms[r])
    BY <2>2
  <2>5. /\ rooms' \in [RoomIds -> RoomState]
        /\ timers' \subseteq [room : RoomIds, version : Nat, left : Nat]
        /\ told' \in [Clients -> [RoomIds -> PublicState \cup {None}]]
    BY <1>1, <2>2 DEF TypeOK
  <2>6. \A r \in RoomIds : rooms'[r].members = rooms[r].members /\ (High(rooms[r]) => High(rooms'[r])) BY <2>2
  <2>7. finder' \in Process /\ Finds(finder') /\ long' \subseteq Channels /\ UNCHANGED clients
        /\ settler'.at \in {"idle", "settle"} /\ settler'.browsers \subseteq RoomIds
    BY <1>1, <2>2
  <2> QED BY ONLY BusInv, <2>3, <2>4, <2>5, <2>6, <2>7, HubStep
<1>3. CASE \E ch \in Channels : LongFound(ch)
  <2>1. PICK ch \in Channels : LongFound(ch) BY <1>3
  <2>2. /\ ch \in LongChannels /\ finder = Idle /\ long' = long \cup {ch}
        /\ finder' = At("list", "long", NoRoom, {}, "lowest")
        /\ UNCHANGED <<rooms_, clients, told, first, settler>>
    BY <2>1 DEF LongFound
  <2>3. finder' \in Process /\ Finds(finder')
    <3>1. "list" \in Steps /\ "long" \in Tasks /\ "lowest" \in Latencies BY DEF Steps, Tasks, Latencies
    <3>2. NoRoom \in RoomIds \cup {NoRoom} /\ {} \in SUBSET RoomIds OBVIOUS
    <3>3. finder' = [at |-> "list", task |-> "long", room |-> NoRoom, rest |-> {}, floor |-> "lowest"]
      BY <2>2 DEF At
    <3>4. finder' \in Process BY ONLY <3>1, <3>2, <3>3 DEF Process
    <3>5. finder'.at = "list" BY <3>3
    <3> QED BY <3>4, <3>5 DEF Finds
  <2> QED BY <1>1, <2>2, <2>3, IdleIs, HubTurn
<1>4. CASE \E ch \in Channels : LongLost(ch)
  <2>1. /\ finder = Idle /\ long' \subseteq Channels
        /\ UNCHANGED <<rooms_, clients, told, first, finder, settler>>
    BY <1>1, <1>4 DEF LongLost
  <2> QED BY <1>1, <2>1, IdleIs, HubTurn
<1>5. CASE \E ch \in Channels : SettleReads(ch)
  <2>1. PICK ch \in Channels : SettleReads(ch) BY <1>5
  <2>2. /\ settler' = [at |-> "settle", channel |-> ch, age |-> first[ch], browsers |-> RoomsWithBrowsers]
        /\ rooms' = rooms /\ timers' = timers /\ told' = told /\ first' = first /\ long' = long /\ finder' = finder
        /\ UNCHANGED clients
    BY <2>1 DEF SettleReads, rooms_
  <2>3. settler'.at \in {"idle", "settle"} /\ settler'.browsers \subseteq RoomIds
    <3>0. \A c \in Clients : in[c] \subseteq RoomIds BY <1>1 DEF TypeOK
    <3>1. RoomsWithBrowsers \subseteq RoomIds BY <3>0 DEF RoomsWithBrowsers
    <3> QED BY <2>2, <3>1
  <2>4. ASSUME NEW d \in Clients, NEW r \in RoomIds, r \in in[d]
        PROVE  \/ Sends(finder', r)
               \/ ~Sends(finder, r) /\ told'[d][r] = told[d][r] /\ Public(rooms'[r]) = Public(rooms[r])
    BY <2>2
  <2>5. /\ rooms' \in [RoomIds -> RoomState]
        /\ timers' \subseteq [room : RoomIds, version : Nat, left : Nat]
        /\ told' \in [Clients -> [RoomIds -> PublicState \cup {None}]]
    BY <1>1, <2>2 DEF TypeOK
  <2>6. \A r \in RoomIds : rooms'[r].members = rooms[r].members /\ (High(rooms[r]) => High(rooms'[r])) BY <2>2
  <2>7. finder' \in Process /\ Finds(finder') /\ long' \subseteq Channels /\ UNCHANGED clients
        /\ first' \in [Channels -> 0..MaxLag]
    BY <1>1, <2>2
  <2> QED BY ONLY BusInv, <2>3, <2>4, <2>5, <2>6, <2>7, HubStep
<1>6. CASE FinderLists
  <2>1. PICK ch \in long : finder' = Loop("long", OnChannel(ch)) BY <1>6 DEF FinderLists
  <2>2. finder.at = "list" /\ UNCHANGED <<rooms_, clients, told, first, long, settler>> BY <1>6 DEF FinderLists
  <2>3. OnChannel(ch) \in SUBSET RoomIds BY DEF OnChannel
  <2>4. finder' \in Process /\ Finds(finder') BY <2>1, <2>3, FindsDoes
  <2>5. \A r \in RoomIds : ~Sends(finder, r) BY <2>2 DEF Sends
  <2> QED BY <1>1, <2>2, <2>4, <2>5, HubTurn
<1>7. CASE FinderLooks
  <2>1. PICK r0 \in finder.rest :
           finder' = IF AppleIn(r0) THEN At("floor", "long", r0, finder.rest \ {r0}, "lowest")
                     ELSE Loop("long", finder.rest \ {r0})
    BY <1>7 DEF FinderLooks
  <2>2. finder.at = "long" /\ UNCHANGED <<rooms_, clients, told, first, long, settler>> BY <1>7 DEF FinderLooks
  <2>3. finder.rest \ {r0} \in SUBSET RoomIds /\ r0 \in RoomIds BY <1>1 DEF Process
  <2>4. CASE finder' = Loop("long", finder.rest \ {r0})
    <3>1. finder' \in Process /\ Finds(finder') BY <2>3, <2>4, FindsDoes
    <3>2. \A r \in RoomIds : ~Sends(finder, r) BY <2>2 DEF Sends
    <3> QED BY <1>1, <2>2, <3>1, <3>2, HubTurn
  <2>5. CASE finder' = At("floor", "long", r0, finder.rest \ {r0}, "lowest")
    <3>1. "floor" \in Steps /\ "long" \in Tasks /\ "lowest" \in Latencies BY DEF Steps, Tasks, Latencies
    <3>2. finder' \in Process /\ finder'.room = r0 BY <2>3, <2>5, <3>1, AtIs
    <3>3. Finds(finder') BY <2>3, <3>2 DEF Finds
    <3>4. \A r \in RoomIds : ~Sends(finder, r) BY <2>2 DEF Sends
    <3> QED BY <1>1, <2>2, <3>2, <3>3, <3>4, HubTurn
  <2> QED BY <2>1, <2>4, <2>5
<1>8. CASE FinderReads
  <2>1. /\ finder.at = "floor" /\ UNCHANGED <<rooms_, clients, told, first, long, settler>>
        /\ finder' = [finder EXCEPT !.at = "floorAt", !.floor = AppleLatencyFor(finder.room)]
    BY <1>8 DEF FinderReads
  <2>2. AppleLatencyFor(finder.room) \in Latencies BY AppleLatencyDoes
  <2>3. finder' \in Process /\ finder'.room = finder.room BY <1>1, <2>1, <2>2 DEF Process, Steps
  <2>4. finder.room \in RoomIds BY <1>1, <2>1 DEF Finds
  <2>5. Finds(finder') BY <2>3, <2>4 DEF Finds
  <2>6. \A r \in RoomIds : ~Sends(finder, r) BY <2>1 DEF Sends
  <2> QED BY <1>1, <2>1, <2>3, <2>5, <2>6, HubTurn
<1> QED BY <1>2, <1>3, <1>4, <1>5, <1>6, <1>7, <1>8

\* What a step of the hub leaves of the rest.
LEMMA Others ==
    ASSUME BusInv
    PROVE  /\ TypeOK /\ Finds(finder) /\ finder \in Process /\ first \in [Channels -> 0..MaxLag]
           /\ long \subseteq Channels
           /\ settler.at \in {"idle", "settle"} /\ settler.browsers \subseteq RoomIds
           /\ rooms \in [RoomIds -> RoomState]
           /\ timers \subseteq [room : RoomIds, version : Nat, left : Nat]
           /\ told \in [Clients -> [RoomIds -> PublicState \cup {None}]]
           /\ in \in [Clients -> SUBSET RoomIds]
BY DEF BusInv, TypeOK

LEMMA FinderFloorsStep ==
    ASSUME BusInv, FinderFloors
    PROVE  BusInv'
<1> DEFINE r0 == finder.room
           floor == finder.floor
<1>1. /\ finder.at = "floorAt"
      /\ rooms' = [rooms EXCEPT ![r0] = Floor(r0, floor)]
      /\ finder' = IF Floors(r0, floor) THEN [finder EXCEPT !.at = "publish", !.floor = "lowest"]
                   ELSE Loop("long", finder.rest)
      /\ UNCHANGED <<timers, clients, told, first, long, settler>>
  BY DEF FinderFloors
<1>2. r0 \in RoomIds BY <1>1, Others DEF Finds
<1>3. floor \in Latencies /\ finder.rest \in SUBSET RoomIds BY Others DEF Process
<1>4. \A r \in RoomIds : rooms[r] \in RoomState BY Others
<1>5. Holds(Floor(r0, floor), rooms[r0]) /\ (~Floors(r0, floor) => Floor(r0, floor) = rooms[r0])
  BY <1>2, <1>3, <1>4, FloorHolds
<1>6. rooms'[r0] = Floor(r0, floor) /\ \A r \in RoomIds \ {r0} : rooms'[r] = rooms[r] BY <1>1, <1>2, Others
<1>7. rooms' \in [RoomIds -> RoomState]
  <2>1. Floor(r0, floor) \in RoomState BY <1>5 DEF Holds, Still
  <2> HIDE DEF RoomState
  <2> QED BY <1>1, <2>1, Others
<1>8. \A r \in RoomIds : rooms'[r].members = rooms[r].members /\ (High(rooms[r]) => High(rooms'[r]))
  BY <1>5, <1>6 DEF Holds, Still
<1>9. /\ finder' \in Process /\ Finds(finder')
      /\ Floors(r0, floor) => Sends(finder', r0)
  <2>1. CASE Floors(r0, floor)
    <3>1. finder' = [finder EXCEPT !.at = "publish", !.floor = "lowest"] BY <1>1, <2>1
    <3>2. finder' \in Process /\ finder'.room = r0 /\ finder'.at = "publish"
      BY <3>1, Others DEF Process, Steps, Latencies
    <3> QED BY <1>2, <3>2 DEF Finds, Sends
  <2>2. CASE ~Floors(r0, floor)
    <3>1. finder' = Loop("long", finder.rest) BY <1>1, <2>2
    <3> QED BY <1>3, <2>2, <3>1, FindsDoes
  <2> QED BY <2>1, <2>2
<1>10. \A r \in RoomIds : ~Sends(finder, r) BY <1>1 DEF Sends
<1>11. \A d \in Clients, r \in RoomIds : r \in in[d] =>
         \/ Sends(finder', r)
         \/ rooms'[r].members > 0 => told'[d][r] = Public(rooms'[r])
         \/ ~Sends(finder, r) /\ told'[d][r] = told[d][r] /\ Public(rooms'[r]) = Public(rooms[r])
  <2>1. ASSUME NEW d \in Clients, NEW r \in RoomIds
        PROVE  \/ Sends(finder', r)
               \/ ~Sends(finder, r) /\ told'[d][r] = told[d][r] /\ Public(rooms'[r]) = Public(rooms[r])
    <3>1. told' = told BY <1>1
    <3>2. Sends(finder', r) \/ rooms'[r] = rooms[r] BY <1>5, <1>6, <1>9
    <3> QED BY <1>10, <3>1, <3>2
  <2> QED BY <2>1
<1> HIDE DEF r0, floor
<1>12. /\ timers' = timers /\ told' = told /\ first' = first /\ long' = long /\ settler' = settler
       /\ UNCHANGED clients
  BY <1>1
<1>13. /\ timers' \subseteq [room : RoomIds, version : Nat, left : Nat] /\ first' \in [Channels -> 0..MaxLag]
       /\ long' \subseteq Channels /\ settler'.at \in {"idle", "settle"} /\ settler'.browsers \subseteq RoomIds
       /\ told' \in [Clients -> [RoomIds -> PublicState \cup {None}]]
  BY <1>12, Others
<1> QED BY ONLY BusInv, <1>7, <1>8, <1>9, <1>11, <1>12, <1>13, HubStep

\* Rooms changed and told in one hold of the bus lock.
LEMMA HubTells ==
    ASSUME BusInv, UNCHANGED <<clients, long>>, NEW R, Publish(R),
           \A r \in RoomIds : Holds(rooms'[r], rooms[r]),
           \A r \in RoomIds : r \notin R => ~Sends(finder, r) /\ Public(rooms'[r]) = Public(rooms[r]),
           rooms' \in [RoomIds -> RoomState],
           timers' \subseteq [room : RoomIds, version : Nat, left : Nat],
           first' = first,
           finder' \in Process, Finds(finder'),
           settler'.at \in {"idle", "settle"}, settler'.browsers \subseteq RoomIds
    PROVE  BusInv'
<1>1. TypeOK BY DEF BusInv
<1>2. /\ told' \in [Clients -> [RoomIds -> PublicState \cup {None}]]
      /\ \A c \in Clients, r \in RoomIds :
            /\ r \in R /\ r \in in[c] /\ rooms'[r].members > 0 => told'[c][r] = Public(rooms'[r])
            /\ r \notin R => told'[c][r] = told[c][r]
  BY ONLY <1>1, Publish(R), rooms' \in [RoomIds -> RoomState], PublishDoes
<1>3. \A r \in RoomIds : rooms'[r].members = rooms[r].members /\ (High(rooms[r]) => High(rooms'[r]))
  BY DEF Holds, Still
<1>4. \A d \in Clients, r \in RoomIds : r \in in[d] =>
         \/ Sends(finder', r)
         \/ rooms'[r].members > 0 => told'[d][r] = Public(rooms'[r])
         \/ ~Sends(finder, r) /\ told'[d][r] = told[d][r] /\ Public(rooms'[r]) = Public(rooms[r])
  <2> HIDE DEF Public, Sends
  <2> QED BY <1>2
<1>5. UNCHANGED clients /\ first' \in [Channels -> 0..MaxLag] /\ long' \subseteq Channels BY Others
<1> QED BY <1>2, <1>3, <1>4, <1>5, HubStep

LEMMA SameHolds == \A st : st \in RoomState => Holds(st, st)
BY DEF Holds, Still

LEMMA FinderTellsStep ==
    ASSUME BusInv, FinderTells
    PROVE  BusInv'
<1>1. /\ finder' = Loop("long", finder.rest) /\ Publish({finder.room})
      /\ UNCHANGED <<rooms_, clients, first, long, settler>>
  BY DEF FinderTells
<1>2. /\ rooms' = rooms /\ timers' = timers /\ first' = first /\ settler' = settler
      /\ UNCHANGED <<clients, long>>
  BY <1>1 DEF rooms_
<1>3. finder.rest \in SUBSET RoomIds BY Others DEF Process
<1>4. finder' \in Process /\ Finds(finder') BY <1>1, <1>3, FindsDoes
<1>5. \A r \in RoomIds : Holds(rooms'[r], rooms[r]) BY <1>2, SameHolds, Others
<1>6. \A r \in RoomIds : r \notin {finder.room} => ~Sends(finder, r) /\ Public(rooms'[r]) = Public(rooms[r])
  BY <1>2 DEF Sends
<1>7. /\ rooms' \in [RoomIds -> RoomState] /\ timers' \subseteq [room : RoomIds, version : Nat, left : Nat]
      /\ settler'.at \in {"idle", "settle"} /\ settler'.browsers \subseteq RoomIds
  BY <1>2, Others
<1> QED BY <1>1, <1>2, <1>4, <1>5, <1>6, <1>7, HubTells

LEMMA SettleRoomsStep ==
    ASSUME BusInv, SettleRooms
    PROVE  BusInv'
<1>1. /\ rooms' = [r \in RoomIds |-> IF r \in Settling THEN Settle(r, r \in settler.browsers) ELSE rooms[r]]
      /\ timers' = timers \cup {EaseTimer(r) : r \in Settling \cap settler.browsers}
      /\ settler' = NotSettling /\ first' = first /\ finder' = finder
      /\ UNCHANGED <<clients, long>> /\ Publish(Settling)
  BY DEF SettleRooms
<1>2. ASSUME NEW r \in RoomIds PROVE Holds(rooms'[r], rooms[r])
  <2>1. rooms[r] \in RoomState BY Others
  <2>2. Holds(Settle(r, r \in settler.browsers), rooms[r]) BY <2>1, SettleHolds
  <2>3. Holds(rooms[r], rooms[r]) BY <2>1, SameHolds
  <2>4. rooms'[r] = IF r \in Settling THEN Settle(r, r \in settler.browsers) ELSE rooms[r] BY <1>1
  <2> QED BY ONLY <2>2, <2>3, <2>4
<1>3. rooms' \in [RoomIds -> RoomState]
  <2>1. DOMAIN rooms' = RoomIds /\ rooms' = [r \in RoomIds |-> rooms'[r]] BY <1>1
  <2>2. \A r \in RoomIds : rooms'[r] \in RoomState BY <1>2 DEF Holds, Still
  <2> HIDE DEF RoomState
  <2> QED BY ONLY <2>1, <2>2
<1>4. ASSUME NEW r \in Settling \cap settler.browsers
      PROVE  EaseTimer(r) \in [room : RoomIds, version : Nat, left : Nat]
  <2>1. r \in RoomIds /\ Gap(r) > SettleGap BY DEF Settling, Settles
  <2>2. rooms[r] \in RoomState BY <2>1, Others
  <2>3. Target(r) \in 0..MaxLag BY <2>2 DEF Target, RoomState
  <2>4. Gap(r) \in Int BY <2>2, <2>3 DEF Gap, RoomState
  <2>5. Gap(r) \in Nat BY <2>1, <2>4
  <2>6. rooms[r].version + 1 \in Nat BY <2>2 DEF RoomState
  <2> QED BY <2>1, <2>5, <2>6 DEF EaseTimer
<1>5. timers' \subseteq [room : RoomIds, version : Nat, left : Nat]
  <2>1. timers \subseteq [room : RoomIds, version : Nat, left : Nat] BY Others
  <2> HIDE DEF EaseTimer, Settling
  <2> QED BY <1>1, <1>4, <2>1
<1>6. settler'.at \in {"idle", "settle"} /\ settler'.browsers \subseteq RoomIds BY <1>1 DEF NotSettling
<1>7. ASSUME NEW r \in RoomIds, r \notin Settling PROVE rooms'[r] = rooms[r] BY <1>1, <1>7
<1>8. finder' = finder /\ finder' \in Process /\ Finds(finder') BY <1>1, Others
<1>9. TypeOK BY Others
<1>10. /\ told' \in [Clients -> [RoomIds -> PublicState \cup {None}]]
       /\ \A c \in Clients, r \in RoomIds :
             /\ r \in Settling /\ r \in in[c] /\ rooms'[r].members > 0 => told'[c][r] = Public(rooms'[r])
             /\ r \notin Settling => told'[c][r] = told[c][r]
  <2>1. Publish(Settling) BY <1>1
  <2> QED BY ONLY <1>9, <2>1, <1>3, PublishDoes
<1> HIDE DEF Settling
<1>11. \A d \in Clients, r \in RoomIds : r \in in[d] =>
         \/ Sends(finder', r)
         \/ rooms'[r].members > 0 => told'[d][r] = Public(rooms'[r])
         \/ ~Sends(finder, r) /\ told'[d][r] = told[d][r] /\ Public(rooms'[r]) = Public(rooms[r])
  <2>1. ASSUME NEW r \in RoomIds, r \notin Settling PROVE Public(rooms'[r]) = Public(rooms[r]) BY <1>7, <2>1
  <2> HIDE DEF Public, Sends
  <2> QED BY <1>8, <1>10, <2>1
<1>12. \A r \in RoomIds : rooms'[r].members = rooms[r].members /\ (High(rooms[r]) => High(rooms'[r]))
  BY <1>2 DEF Holds, Still
<1>13. UNCHANGED clients /\ first' \in [Channels -> 0..MaxLag] /\ long' \subseteq Channels BY <1>1, Others
<1> QED BY ONLY BusInv, <1>3, <1>5, <1>6, <1>8, <1>10, <1>11, <1>12, <1>13, HubStep

LEMMA TimerFiresStep ==
    ASSUME BusInv, NEW t \in timers, TimerFires(t)
    PROVE  BusInv'
<1> DEFINE R == IF Eases(t) THEN {t.room} ELSE {}
<1>1. /\ timers' = timers \ {t} /\ rooms' = [rooms EXCEPT ![t.room] = EndEase(t)]
      /\ UNCHANGED <<clients, hub>> /\ Publish(R)
  BY DEF TimerFires
<1>2. t.room \in RoomIds
  <2>1. t \in [room : RoomIds, version : Nat, left : Nat] BY Others
  <2> QED BY <2>1
<1>3. Holds(EndEase(t), rooms[t.room]) /\ (~Eases(t) => EndEase(t) = rooms[t.room])
  BY <1>2, Others, EndEaseHolds
<1>4. rooms'[t.room] = EndEase(t) /\ \A r \in RoomIds \ {t.room} : rooms'[r] = rooms[r] BY <1>1, <1>2, Others
<1>5. \A r \in RoomIds : Holds(rooms'[r], rooms[r])
  <2>1. \A r \in RoomIds : Holds(rooms[r], rooms[r]) BY SameHolds, Others
  <2> HIDE DEF Holds, EndEase
  <2> QED BY <1>3, <1>4, <2>1
<1>6. rooms' \in [RoomIds -> RoomState]
  <2>1. EndEase(t) \in RoomState BY <1>3 DEF Holds, Still
  <2> HIDE DEF RoomState, EndEase
  <2> QED BY <1>1, <2>1, Others
<1>7. timers' \subseteq [room : RoomIds, version : Nat, left : Nat] BY <1>1, Others
<1>8. first' = first /\ long' = long /\ finder' = finder /\ settler' = settler /\ UNCHANGED clients BY <1>1 DEF hub
<1>9. ASSUME NEW r \in RoomIds, r \notin R PROVE rooms'[r] = rooms[r] BY <1>3, <1>4, <1>9
<1>10. /\ told' \in [Clients -> [RoomIds -> PublicState \cup {None}]]
       /\ \A c \in Clients, r \in RoomIds :
             /\ r \in R /\ r \in in[c] /\ rooms'[r].members > 0 => told'[c][r] = Public(rooms'[r])
             /\ r \notin R => told'[c][r] = told[c][r]
  <2>1. Publish(R) /\ TypeOK BY <1>1, Others
  <2> HIDE DEF R
  <2> QED BY ONLY <2>1, <1>6, PublishDoes
<1> HIDE DEF R
<1>11. \A d \in Clients, r \in RoomIds : r \in in[d] =>
         \/ Sends(finder', r)
         \/ rooms'[r].members > 0 => told'[d][r] = Public(rooms'[r])
         \/ ~Sends(finder, r) /\ told'[d][r] = told[d][r] /\ Public(rooms'[r]) = Public(rooms[r])
  <2>1. ASSUME NEW r \in RoomIds, r \notin R PROVE Public(rooms'[r]) = Public(rooms[r]) BY <1>9, <2>1
  <2> HIDE DEF Public, Sends
  <2> QED BY <1>8, <1>10, <2>1
<1>12. \A r \in RoomIds : rooms'[r].members = rooms[r].members /\ (High(rooms[r]) => High(rooms'[r]))
  BY <1>5 DEF Holds, Still
<1>13. /\ first' \in [Channels -> 0..MaxLag] /\ long' \subseteq Channels
       /\ finder' \in Process /\ Finds(finder')
       /\ settler'.at \in {"idle", "settle"} /\ settler'.browsers \subseteq RoomIds
  BY <1>8, Others
<1> QED BY ONLY BusInv, <1>6, <1>7, <1>8, <1>10, <1>11, <1>12, <1>13, HubStep

LEMMA TickStep ==
    ASSUME BusInv, Tick
    PROVE  BusInv'
<1>1. /\ \A t \in timers : t.left > 0
      /\ rooms' = [r \in RoomIds |-> Later(rooms[r])]
      /\ timers' = {[t EXCEPT !.left = @ - 1] : t \in timers}
      /\ first' = [ch \in Channels |-> Smaller(first[ch] + Pace, MaxLag)]
      /\ told' = told /\ long' = long /\ finder' = finder /\ settler' = settler /\ UNCHANGED clients
  BY DEF Tick
<1>2. \A r \in RoomIds : Holds(rooms'[r], rooms[r]) /\ Public(rooms'[r]) = Public(rooms[r])
  <2>1. \A r \in RoomIds : rooms[r] \in RoomState /\ rooms'[r] = Later(rooms[r]) BY <1>1, Others
  <2> QED BY <2>1, LaterHolds
<1>3. rooms' \in [RoomIds -> RoomState]
  <2>1. \A r \in RoomIds : Later(rooms[r]) \in RoomState
    <3>1. \A r \in RoomIds : Holds(Later(rooms[r]), rooms[r]) BY LaterHolds, Others
    <3> QED BY <3>1 DEF Holds, Still
  <2> HIDE DEF RoomState, Later
  <2> QED BY <1>1, <2>1
<1>4. timers' \subseteq [room : RoomIds, version : Nat, left : Nat]
  <2>1. ASSUME NEW t \in timers PROVE [t EXCEPT !.left = @ - 1] \in [room : RoomIds, version : Nat, left : Nat]
    <3>1. t \in [room : RoomIds, version : Nat, left : Nat] /\ t.left > 0 BY <1>1, Others
    <3> QED BY <3>1
  <2> QED BY <1>1, <2>1
<1>5. first' \in [Channels -> 0..MaxLag]
  <2>1. ASSUME NEW ch \in Channels PROVE Smaller(first[ch] + Pace, MaxLag) \in 0..MaxLag
    <3>1. first[ch] \in 0..MaxLag BY Others
    <3> QED BY <3>1 DEF Smaller
  <2> HIDE DEF Channels, Smaller
  <2> QED BY <1>1, <2>1
<1>6. \A r \in RoomIds : rooms'[r].members = rooms[r].members /\ (High(rooms[r]) => High(rooms'[r]))
  BY <1>2 DEF Holds, Still
<1>7. \A d \in Clients, r \in RoomIds : r \in in[d] =>
         \/ Sends(finder', r)
         \/ rooms'[r].members > 0 => told'[d][r] = Public(rooms'[r])
         \/ ~Sends(finder, r) /\ told'[d][r] = told[d][r] /\ Public(rooms'[r]) = Public(rooms[r])
  <2> HIDE DEF Public
  <2> QED BY <1>1, <1>2
<1>8. /\ finder' \in Process /\ Finds(finder') /\ long' \subseteq Channels
      /\ settler'.at \in {"idle", "settle"} /\ settler'.browsers \subseteq RoomIds
      /\ told' \in [Clients -> [RoomIds -> PublicState \cup {None}]]
  BY <1>1, Others
<1> QED BY ONLY BusInv, <1>1, <1>3, <1>4, <1>5, <1>6, <1>7, <1>8, HubStep

-----------------------------------------------------------------------------
(* Every run.                                                               *)

LEMMA Starts == Init => BusInv
<1> SUFFICES ASSUME Init PROVE BusInv OBVIOUS
<1> USE DEF Init
<1>1. Forgotten \in RoomState /\ Forgotten.members = 0 BY ForgottenIs
<1>2. Off \in Process /\ Fits(Off, {}) /\ Off.at = "off" /\ Off.task = "" /\ Off.rest = {}
  BY DEF Off, At, Process, Steps, Tasks, Latencies, Fits
<1>3. TypeOK
  <2>1. rooms \in [RoomIds -> RoomState] BY <1>1
  <2>2. pc \in [Clients -> Process] BY <1>2
  <2>3. told \in [Clients -> [RoomIds -> PublicState \cup {None}]]
    <3> HIDE DEF None, PublicState
    <3> QED OBVIOUS
  <2>4. first \in [Channels -> 0..MaxLag]
    <3>0. MaxLag \in Nat OBVIOUS
    <3>1. MaxLag \in 0..MaxLag BY ONLY <3>0
    <3> HIDE DEF Channels
    <3> QED BY <3>1
  <2>5. finder \in Process BY IdleIs
  <2>6. settler.at \in {"idle", "settle"} /\ settler.browsers \subseteq RoomIds BY DEF NotSettling
  <2>7. timers \subseteq [room : RoomIds, version : Nat, left : Nat] /\ long \subseteq Channels OBVIOUS
  <2>8. kind \in [Clients -> {"", "web", "apple"}] /\ in \in [Clients -> SUBSET RoomIds] OBVIOUS
  <2> QED BY ONLY <2>1, <2>2, <2>3, <2>4, <2>5, <2>6, <2>7, <2>8 DEF TypeOK
<1>4. MembersTrue
  <2> SUFFICES ASSUME NEW r \in RoomIds PROVE rooms[r].members = Cardinality({c \in Clients : CountedIn(c, r)})
    BY DEF MembersTrue
  <2>1. {c \in Clients : CountedIn(c, r)} = {} BY <1>2 DEF CountedIn
  <2>2. rooms[r].members = 0 BY <1>1
  <2> QED BY <2>1, <2>2, FS_EmptySet
<1>5. ToldCurrent /\ Floored BY DEF ToldCurrent, Floored
<1>6. \A c \in Clients : Fits(pc[c], in[c])
  <2> HIDE DEF Fits, Off
  <2> QED BY <1>2
<1>7. Finds(finder) BY IdleIs
<1> QED BY <1>3, <1>4, <1>5, <1>6, <1>7 DEF BusInv

LEMMA Stutters == BusInv /\ UNCHANGED vars => BusInv'
<1> SUFFICES ASSUME BusInv, UNCHANGED vars PROVE BusInv' OBVIOUS
<1>1. UNCHANGED clients /\ rooms' = rooms /\ timers' = timers /\ told' = told /\ first' = first /\ long' = long
      /\ finder' = finder /\ settler' = settler
  BY DEF vars, clients
<1>2. \A r \in RoomIds : rooms'[r].members = rooms[r].members /\ (High(rooms[r]) => High(rooms'[r])) BY <1>1
<1>3. \A d \in Clients, r \in RoomIds : r \in in[d] =>
         \/ Sends(finder', r)
         \/ rooms'[r].members > 0 => told'[d][r] = Public(rooms'[r])
         \/ ~Sends(finder, r) /\ told'[d][r] = told[d][r] /\ Public(rooms'[r]) = Public(rooms[r])
  BY <1>1
<1>4. /\ rooms' \in [RoomIds -> RoomState] /\ timers' \subseteq [room : RoomIds, version : Nat, left : Nat]
      /\ first' \in [Channels -> 0..MaxLag] /\ long' \subseteq Channels /\ finder' \in Process /\ Finds(finder')
      /\ settler'.at \in {"idle", "settle"} /\ settler'.browsers \subseteq RoomIds
      /\ told' \in [Clients -> [RoomIds -> PublicState \cup {None}]]
  BY <1>1, Others
<1> QED BY ONLY BusInv, <1>1, <1>2, <1>3, <1>4, HubStep

\* Whatever order sockets, the hub, timers and time act in, counts, what was
\* told and floors fit what each goroutine still has to do.
THEOREM Invariant == Spec => []BusInv
<1>1. ASSUME BusInv, [Next]_vars PROVE BusInv'
  <2>1. ASSUME NEW c \in Clients, Screen(c) PROVE BusInv' BY <1>1, <2>1, SocketSteps
  <2>2. CASE Hub BY <1>1, <2>2, HubTurns, FinderFloorsStep, FinderTellsStep, SettleRoomsStep, TimerFiresStep DEF Hub
  <2>3. CASE Tick BY <1>1, <2>3, TickStep
  <2>4. CASE UNCHANGED vars BY <1>1, <2>4, Stutters
  <2> QED BY <1>1, <2>1, <2>2, <2>3, <2>4 DEF Next
<1> QED BY <1>1, Starts, PTL DEF Spec

\* Rooms.Members is the number of screens that joined and have not left, so a
\* room is forgotten with its last screen and with no other (Leave).
THEOREM MembersHold == Spec => []MembersTrue
<1>1. BusInv => MembersTrue BY DEF BusInv
<1> QED BY <1>1, Invariant, PTL

\* No screen is left with an older state of its room once whoever changed it
\* has published (publishRoomLocked).
THEOREM ToldHolds == Spec => []ToldCurrent
<1>1. BusInv => ToldCurrent BY DEF BusInv
<1> QED BY <1>1, Invariant, PTL

\* A room with an Apple screen plays no closer to live than balanced, unless
\* it was measured or the screen's own handler is still on its way to Floor.
THEOREM AppleFloorHolds == Spec => []AppleFloor
<1>1. ASSUME BusInv PROVE AppleFloor
  <2> SUFFICES ASSUME NEW r \in RoomIds, AppleIn(r), ~rooms[r].measured, ~Flooring(r)
               PROVE  LatencyMS[rooms[r].latency] >= LatencyMS["balanced"]
    BY DEF AppleFloor
  <2>1. PICK c \in Clients : r \in in[c] /\ kind[c] = "apple" BY DEF AppleIn
  <2>2. High(rooms[r]) \/ WillFloor(pc[c], r) BY <1>1, <2>1 DEF BusInv, Floored
  <2>3. ~WillFloor(pc[c], r)
    <3>1. Fits(pc[c], in[c]) BY <1>1 DEF BusInv
    <3>2. WillFloor(pc[c], r) => \/ pc[c].room = r /\ pc[c].task # "command"
                                 \/ pc[c].task = "here" /\ r \in pc[c].rest
      BY <3>1 DEF WillFloor, Fits
    <3> QED BY <3>2 DEF Flooring
  <2> QED BY <2>2, <2>3 DEF High
<1> QED BY <1>1, Invariant, PTL
=============================================================================
