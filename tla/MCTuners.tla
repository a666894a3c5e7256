------------------------------ MODULE MCTuners ------------------------------
(* The tuners of Hub in four small houses, checked together by one run: two *)
(* tuners and one frequency (the house of the .cfg), one tuner and three    *)
(* channels of which two share a frequency, a tuner whose streams end or go *)
(* silent, and a failover device beside the tuner.  `part` says which house *)
(* it is; the last three keep their state in the slots v1..v8.  Beside them  *)
(* two channels of which a tune learns the picture and the sound (Scan):    *)
(* one whose row is stored and one nothing is known of; and a device whose    *)
(* tuners are also taken for guesses, stills and the guide (Quiet).         *)
EXTENDS Hub, TLC
CONSTANTS c1, c2
MCClients == {c1, c2}
MCSymmetry == Permutations(Clients)
MCFreq == <<1, 1>>
\* Two channels that do not share a frequency.
Apart == <<1, 2>>

VARIABLES part, v1, v2, v3, v4, v5, v6, v7, v8
slots == <<v1, v2, v3, v4, v5, v6, v7, v8>>
none == v1 = 0 /\ v2 = 0 /\ v3 = 0 /\ v4 = 0 /\ v5 = 0 /\ v6 = 0 /\ v7 = 0 /\ v8 = 0
all == <<part, vars, slots>>

Share == INSTANCE Hub WITH Own <- {0}, Other <- {}, Freq <- <<1, 1, 2>>, Unknown <- {},
    Clients <- MCClients, Kinds <- {"watch", "record"}, Holds <- {0, 1}, Faults <- {"refuse"},
    MaxMux <- 2, MaxViewers <- 1, h <- v1, hold <- v2, known <- v3, dev <- v4, conn <- v5,
    mux <- v6, req <- v7, lateNone <- v8
Fail == INSTANCE Hub WITH Own <- {0}, Other <- {}, Freq <- <<1, 2>>, Unknown <- {},
    Clients <- {"one"}, Kinds <- {"watch", "record"}, Holds <- {0}, Faults <- {"stream", "stall"},
    MaxMux <- 2, MaxViewers <- 1, h <- v1, hold <- v2, known <- v3, dev <- v4, conn <- v5,
    mux <- v6, req <- v7, lateNone <- v8
Over == INSTANCE Hub WITH Own <- {0}, Other <- {2}, Freq <- <<1>>, Unknown <- {1},
    Clients <- {"one"}, Kinds <- {"watch", "record"}, Holds <- {0}, Faults <- {"stream", "app"},
    MaxMux <- 2, MaxViewers <- 1, h <- v1, hold <- v2, known <- v3, dev <- v4, conn <- v5,
    mux <- v6, req <- v7, lateNone <- v8

Track(pid, lang, said, real) ==
    [pid |-> pid, lang |-> lang, bsmod |-> 0, width |-> said, realBsmod |-> 0, realWidth |-> real, sends |-> TRUE]
\* A film with a stereo and a surround main that the map says are alike, and a
\* game in two languages.
Shows == {[coding |-> "film", rate |-> "", sound |-> <<Track(1, "eng", 5, 2), Track(2, "eng", 5, 5)>>],
          [coding |-> "fields", rate |-> "25", sound |-> <<Track(1, "eng", 5, 5), Track(2, "spa", 2, 2)>>]}
Knowing == INSTANCE Scan WITH
    Programmes <- Shows, ProbeOrders <- {"progressive"}, MaxTunes <- 2,
    Rows <- {[order |-> "progressive", swapped |-> FALSE]}, onAir <- v1, row <- v2, writes <- v3,
    feed <- v4, tunes <- v5, level <- v6, readers <- v7, enc <- v8
Learning == INSTANCE Scan WITH
    Programmes <- Shows, ProbeOrders <- {"", "progressive"}, MaxTunes <- 1,
    Rows <- {[order |-> "", swapped |-> TRUE]}, onAir <- v1, row <- v2, writes <- v3,
    feed <- v4, tunes <- v5, level <- v6, readers <- v7, enc <- v8

\* Tunes nobody asked to watch: guesses, the sweep beside guesses, the sweep beside a
\* dwell.
Frequency == [c \in {"a", "b", "c", "d"} |-> IF c = "c" THEN 2 ELSE IF c = "d" THEN 3 ELSE 1]
Guessing == INSTANCE Quiet WITH
    Chans <- {"a", "b", "d"}, FreqOf <- Frequency, Own <- {"d"}, TunerCount <- 3,
    Watchers <- {"tv"}, Warmers <- {"up", "down"}, Scanners <- {}, MaxWatches <- 1, MaxWarms <- 3,
    MaxSweeps <- 0, MaxScans <- 0, MaxHolds <- 0, MaxEnds <- 0, h <- v1, act <- v2, warmMu <- v3, spent <- v4
Sweeping == INSTANCE Quiet WITH
    Chans <- {"a", "b", "c"}, FreqOf <- Frequency, Own <- {}, TunerCount <- 2,
    Watchers <- {"tv"}, Warmers <- {"up"}, Scanners <- {}, MaxWatches <- 1, MaxWarms <- 2,
    MaxSweeps <- 1, MaxScans <- 0, MaxHolds <- 1, MaxEnds <- 0, h <- v1, act <- v2, warmMu <- v3, spent <- v4
Dwelling == INSTANCE Quiet WITH
    Chans <- {"a", "b", "c"}, FreqOf <- Frequency, Own <- {}, TunerCount <- 2,
    Watchers <- {"tv"}, Warmers <- {}, Scanners <- {"guide"}, MaxWatches <- 1, MaxWarms <- 0,
    MaxSweeps <- 1, MaxScans <- 1, MaxHolds <- 1, MaxEnds <- 1, h <- v1, act <- v2, warmMu <- v3, spent <- v4
QuietSlots == v5 = 0 /\ v6 = 0 /\ v7 = 0 /\ v8 = 0

TunersInit ==
    /\ Init
    /\ \/ part = "two" /\ none
       \/ part = "share" /\ Share!Init
       \/ part = "fail" /\ Fail!Init
       \/ part = "over" /\ Over!Init
       \/ part = "known" /\ Knowing!Init
       \/ part = "new" /\ Learning!Init
       \/ part = "guess" /\ Guessing!Init /\ QuietSlots
       \/ part = "sweep" /\ Sweeping!Init /\ QuietSlots
       \/ part = "dwell" /\ Dwelling!Init /\ QuietSlots

TunersNext ==
    \/ part = "two" /\ Next /\ UNCHANGED <<part, slots>>
    \/ part = "share" /\ Share!Next /\ UNCHANGED <<part, vars>>
    \/ part = "fail" /\ Fail!Next /\ UNCHANGED <<part, vars>>
    \/ part = "over" /\ Over!Next /\ UNCHANGED <<part, vars>>
    \/ part = "known" /\ Knowing!Next /\ UNCHANGED <<part, vars>>
    \/ part = "new" /\ Learning!Next /\ UNCHANGED <<part, vars>>
    \/ part = "guess" /\ Guessing!Next /\ UNCHANGED <<part, vars, v5, v6, v7, v8>>
    \/ part = "sweep" /\ Sweeping!Next /\ UNCHANGED <<part, vars, v5, v6, v7, v8>>
    \/ part = "dwell" /\ Dwelling!Next /\ UNCHANGED <<part, vars, v5, v6, v7, v8>>
    \/ part \in {"known", "new", "guess", "sweep", "dwell"} /\ UNCHANGED all     \* a channel nobody tunes any more may rest

TunersSpec == TunersInit /\ [][TunersNext]_all

\* The house of the .cfg alone.
HouseSpec == Init /\ part = "two" /\ none /\ [][Next /\ UNCHANGED <<part, slots>>]_all

\* Every tuner the hub streams on, opens or has yet to set to none is
\* somebody's and nobody else's; while no stream fails no none reaches one that
\* is watched (openTuned, attachTunedLocked, dropTunedLocked, stopFeedLocked);
\* the maps agree in the other houses too; and tunes nobody watches give way (warm.go,
\* sweep.go).
TunersAccounted ==
    /\ part = "two" => TypeOK /\ OneOwner /\ Accounted /\ NoLateNone
    /\ part = "share" => /\ Share!TypeOK /\ Share!OneOwner /\ Share!Accounted
                         /\ Share!NoLateNone /\ Share!MapsAgree
    /\ part = "fail" => Fail!TypeOK /\ Fail!OneOwner /\ Fail!Accounted /\ Fail!MapsAgree
    /\ part = "over" => Over!TypeOK /\ Over!MapsAgree
    /\ part = "guess" => Guessing!QuietHolds
    /\ part = "sweep" => Sweeping!QuietHolds
    /\ part = "dwell" => Dwelling!QuietHolds

\* The encode of a tune plays what the headers and the map say: a header outranks a
\* probe whichever lands first, and a sound the map no longer lists is not carried
\* (learnScanLocked, finishDeferred, finishScan, rebuildRenditionsLocked).
ScanHolds ==
    /\ part = "known" => Knowing!PictureIsTheHeaders /\ Knowing!SoundIsTheMaps
    /\ part = "new" => Learning!PictureIsTheHeaders /\ Learning!SoundIsTheMaps

\* A recording ends only by its own stop or by its tuner's stream ending, in the
\* other houses too (viewerFeedsToPreemptLocked, dropIfUnusedLocked, SetHold,
\* releaseMux).
RecordingsAreKeptElsewhere ==
    [][/\ part = "share" => Share!KeepsRecordings
       /\ part = "fail" => Fail!KeepsRecordings
       /\ part = "over" => Over!KeepsRecordings]_all

\* No frequency is read on two tuners: "It tunes a whole frequency once"
\* (hub.go, Hub), whatever path the second tune of it takes; refuted, see the README.
TunedOnce ==
    \A i, j \in MuxIds : (i # j /\ mux[i].rd = "reading" /\ mux[j].rd = "reading")
        => mux[i].freq # mux[j].freq
=============================================================================
