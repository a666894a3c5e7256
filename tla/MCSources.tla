----------------------------- MODULE MCSources ------------------------------
(* Where channels come from and who is let in: pairing and sign-in, the     *)
(* lineup and its rows, the guide, discovery, the tuner emulated for other   *)
(* apps, the first run with its scans, and the list of tuners and playlists. *)
(* No step below changes the state of two of these modules, so              *)
(* a behaviour is one of one part: `part` says which.  The slots v1..v16    *)
(* are the variables of the parts but "pair", in the order each declares    *)
(* them.                                                                    *)
EXTENDS Access, TLC

CONSTANTS a1, a2        \* two other apps

VARIABLES part, v1, v2, v3, v4, v5, v6, v7, v8, v9, v10, v11, v12, v13, v14, v15, v16

Idle12 == v12 = 0 /\ v13 = 0 /\ v14 = 0 /\ v15 = 0 /\ v16 = 0
Idle11 == v11 = 0 /\ Idle12
Idle9  == v9 = 0 /\ v10 = 0 /\ v11 = 0 /\ Idle12
Idle7  == v7 = 0 /\ v8 = 0 /\ Idle9
Idle13 == v13 = 0 /\ v14 = 0 /\ v15 = 0 /\ v16 = 0
Idle1  == v1 = 0 /\ v2 = 0 /\ v3 = 0 /\ v4 = 0 /\ v5 = 0 /\ v6 = 0 /\ Idle7
spare13 == <<v13, v14, v15, v16>>
spare12 == <<v12, spare13>>
spare11 == <<v11, spare12>>
spare9  == <<v9, v10, v11, spare12>>
spare7  == <<v7, v8, spare9>>
slots   == <<v1, v2, v3, v4, v5, v6, spare7>>
all     == <<part, accessVars, slots>>

-----------------------------------------------------------------------------
\* The cfg has one caller with many slots; these are three with tight caps.
AtHome == [ip |-> "a", peer |-> "lan", host |-> "local", fwd |-> "none", cf |-> FALSE]
ByTunnel == [ip |-> "b", peer |-> "loopback", host |-> "foreign", fwd |-> "none", cf |-> TRUE]
OneCaller == {AtHome}
Guesses == INSTANCE Access WITH
    Slots <- {1, 2}, Callers <- {AtHome, [AtHome EXCEPT !.ip = "c"], ByTunnel}, Codes <- {1}, PendingMax <- 1,
    DenyAfter <- 1, TTL <- 1, InviteTTL <- 1, Window <- 2, IPLimit <- 2, FailCap <- 1, MaxNow <- 1,
    MaxPairings <- 1, MaxDevices <- 1, MaxGuesses <- 3, MaxSwitches <- 0, MaxRestarts <- 0,
    pairings <- v1, clients <- v2, signIn <- v3, cachedSignIn <- v4, pairTokens <- v5, pairHits <- v6,
    pairMu <- v7, revokeMu <- v8, inHand <- v9, collected <- v10, lostTokens <- v11, wrong <- v12, clock <- v13,
    guesses <- v14, switches <- v15, restarts <- v16

\* Two tuners with a station's 1.0 and 3.0 channel: plain, protected, renumbered,
\* swapped, and one number listed twice.
Entry(name, major, minor, url, three, protected) ==
    [number |-> [major |-> major, minor |-> minor, marks |-> <<>>], name |-> name, url |-> url,
     key |-> 0, three |-> three, protected |-> protected]
Old(major, minor, url) == Entry("K", major, minor, url, FALSE, FALSE)
Other(name, major, minor, url) == Entry(name, major, minor, url, FALSE, FALSE)
Answered ==
    1 :> {<<Old(4, 1, "a"), Entry("K", 104, 1, "b", TRUE, FALSE)>>,
          <<Old(4, 1, "a"), Entry("K", 104, 1, "b", TRUE, TRUE)>>,
          <<Other("W", 4, 1, "c"), Old(5, 1, "a"), Other("no call sign", 5, 1, "d")>>,
          <<Old(5, 1, "c"), Other("W", 4, 1, "a")>>}
    @@ 2 :> {<<Old(4, 1, "a")>>, <<Other("W", 5, 1, "a"), Old(4, 1, "b")>>}
Lining == INSTANCE Lineup WITH
    Devices <- {1, 2}, Lineups <- Answered, MaxId <- 6, MaxEdits <- 3,
    known <- v1, channels <- v2, lineup <- v3, pairing <- v4, listed <- v5, edits <- v6

\* Two feeds, each with a fuller and a thinner answer.
Feeds == "silicondust" :> {<<<<0, 2>>, <<2, 3>>>>, <<<<1, 3>>>>} @@ "xmltv" :> {<<<<0, 1>>, <<1, 4>>>>, <<>>}
Guiding == INSTANCE Guide WITH
    Order <- <<"silicondust", "xmltv">>, Answers <- Feeds, Detail <- "silicondust" :> 1 @@ "xmltv" :> 2,
    Heard <- {<<0, 1>>, <<3, 5>>}, Configs <- {1, 2}, DropFloor <- 2, Backoff <- 1, MaxDay <- 1,
    MaxChanges <- 2, MaxFails <- 1,
    settings <- v1, states <- v2, airings <- v3, pull <- v4, wanted <- v5, save <- v6, ear <- v7,
    day <- v8, changes <- v9, fails <- v10, putBack <- v11

Emulating == INSTANCE Emulate WITH
    EmuChans <- {1, 2}, Locked <- {2}, EmuNumbers <- {4, 101},
    ShareLists <- {<<<<1, 2>>, <<2, 1>>>>, <<<<>>, <<2, 1>>>>, <<<<1, 2>>, <<1, 2>>>>}, ShareMax <- 2,
    Tapes <- [k \in 1..2 |-> [title |-> 3 - k, sub |-> 1, started |-> k]], Lengths <- {0, 2},
    VirtualLists <- {<<1, 2, 1>>}, Orders <- {"show", "marathon"}, MaxVirtuals <- 2, ExportCap <- 1,
    Apps <- {a1, a2}, DayLength <- 5, MaxEmuEdits <- 3,
    rows <- v1, shares <- v2, virtuals <- v3, tapes <- v4, emulator <- v5, app <- v6, copies <- v7,
    edited <- v8

\* A tuner, another server and a screen; the cloud also names a stranger's tuner.
Finding == INSTANCE Home WITH
    TunerGear <- {"flex"}, ServerGear <- {"tus"}, ScreenGear <- {"den"},
    Addresses <- {"a1", "a2", "a3", "a4"}, Strays <- {"tus", "den"},
    CloudAddrs <- "flex" :> "a1" @@ "theirs" :> "a4", GraceLooks <- 1, MaxLooks <- 3, MaxTurns <- 2,
    at <- v1, knownGear <- v2, apps <- v3, lookNow <- v4, arrivals <- v5, activity <- v6, told <- v7,
    heard <- v8, moved <- v9, offered <- v10, looks <- v11, turns <- v12

\* Two tuners, one with two channels of a frequency, one with a channel that has no
\* signal.
Starting == INSTANCE Setup WITH
    Boxes <- {1, 2}, Airs <- 1 :> {11, 12} @@ 2 :> {21}, MuxOf <- 11 :> 500 @@ 12 :> 500 @@ 21 :> 600,
    Silent <- {21}, MaxOwnerActs <- 2, MaxLost <- 1, MaxWatches <- 1, MaxRuns <- 1,
    box <- v1, kept <- v2, freq <- v3, scans <- v4, setup <- v5, signalOn <- v6, look <- v7, hub <- v8,
    read <- v9, spent <- v10

\* Three boxes of which one has no tuner; then two playlists under two ids.
Boxes == INSTANCE Sources WITH
    Tuners <- {1, 2, 3}, Bare <- {2}, Urls <- {"u", "w"}, Adds <- {}, MaxId <- 1, MaxRemoves <- 1, MaxOwns <- 3,
    MaxFaults <- 1, MaxHours <- 0, MaxPasses <- 2, kept <- v1, retired <- v2, sources <- v3, present <- v4,
    add <- v5, reload <- v6, pass <- v7, news <- v8, taken <- v9, spent <- v10
Lists == INSTANCE Sources WITH
    Tuners <- {1}, Bare <- {}, Urls <- {"u", "w"}, Adds <- {"p", "q"}, MaxId <- 2, MaxRemoves <- 1, MaxOwns <- 0,
    MaxFaults <- 1, MaxHours <- 2, MaxPasses <- 0, kept <- v1, retired <- v2, sources <- v3, present <- v4,
    add <- v5, reload <- v6, pass <- v7, news <- v8, taken <- v9, spent <- v10

-----------------------------------------------------------------------------
SourcesInit ==
    /\ Init
    /\ \/ part = "pair"    /\ Idle1
       \/ part = "guess"   /\ Guesses!Init
       \/ part = "lineup"  /\ Lining!Init         /\ Idle7
       \/ part = "guide"   /\ Guiding!Init        /\ Idle12
       \/ part = "emulate" /\ Emulating!EmuInit   /\ Idle9
       \/ part = "home"    /\ Finding!HomeInit    /\ Idle13
       \/ part = "setup"   /\ Starting!SetupInit  /\ Idle11
       \/ part = "tuners"  /\ Boxes!SourcesInit   /\ Idle11
       \/ part = "lists"   /\ Lists!SourcesInit   /\ Idle11

SourcesNext ==
    \/ part = "pair"    /\ Next                 /\ UNCHANGED <<part, slots>>
    \/ part = "guess"   /\ Guesses!Next         /\ UNCHANGED <<part, accessVars>>
    \/ part = "lineup"  /\ Lining!Next          /\ UNCHANGED <<part, accessVars, spare7>>
    \/ part = "guide"   /\ Guiding!Next         /\ UNCHANGED <<part, accessVars, spare12>>
    \/ part = "emulate" /\ Emulating!EmuNext    /\ UNCHANGED <<part, accessVars, spare9>>
    \/ part = "home"    /\ Finding!HomeNext     /\ UNCHANGED <<part, accessVars, spare13>>
    \/ part = "setup"   /\ Starting!SetupNext   /\ UNCHANGED <<part, accessVars, spare11>>
    \/ part = "tuners"  /\ Boxes!SourcesNext    /\ UNCHANGED <<part, accessVars, spare11>>
    \/ part = "lists"   /\ Lists!SourcesNext    /\ UNCHANGED <<part, accessVars, spare11>>

SourcesSpec == SourcesInit /\ [][SourcesNext]_all

-----------------------------------------------------------------------------
\* Wrong codes stay within the cap of their address and that of their bucket, and
\* a token is handed out once from there too (takeCodeTry, pollPair).
GuessesHold ==
    /\ GuessesCapped
    /\ part = "guess" => Guesses!HandedOnce /\ Guesses!GuessesCapped



\* The tuner other apps see plays every row it lists, its virtual channels air what
\* their guide says, and its copies stay within their number (lookup, Join, Export).
EmulationHolds ==
    part = "emulate" => Emulating!ListedPlays /\ Emulating!GuideIsAired /\ Emulating!CopiesFit

\* What a look found before is not announced again (Arrivals.Observe); and the first
\* run leaves no scan of its own behind, reads a frequency once, shares the signal check
\* with nobody, and is ready after its last step (stepScan, measureSetupSignals,
\* startSignalScan, runSetupFinish).
HouseIsQuiet ==
    /\ part = "home" => Finding!HouseIsQuiet
    /\ part = "setup" => Starting!SetupHolds

=============================================================================
