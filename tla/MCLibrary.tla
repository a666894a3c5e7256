----------------------------- MODULE MCLibrary ------------------------------
(* What becomes of what a house asks for: passes and the conflicts between  *)
(* them (Booking), the recordings made of them (Dvr), the catalogue both    *)
(* are kept in (Catalog), the viewers that pages ask to be counted as       *)
(* (Watch), the tunnel an owner asks for (Tunnel), and the recordings that    *)
(* are over, with what clears them away and what plays them (Storage).  No  *)
(* step below changes the state of two of these modules, so a behaviour is  *)
(* one of one part: `part` says which.  The slots v1..v12 are the variables *)
(* of the parts but Dvr's, in the order each declares them.                 *)
EXTENDS Dvr, TLC

VARIABLES part, v1, v2, v3, v4, v5, v6, v7, v8, v9, v10, v11, v12

-----------------------------------------------------------------------------
\* A show of four minutes with padding, and a short rerun of its episode.
Airing(id, ch, title, episode, start, end) ==
    [id |-> id, channel |-> ch, title |-> title, episode |-> episode, start |-> start, end |-> end,
     before |-> 1, after |-> 2, once |-> FALSE]
ShowAndRerun ==
    {[Airing(1, 1, "show", "e1", 3, 11) EXCEPT !.after = 1],
     [Airing(2, 2, "show", "e1", 18, 19) EXCEPT !.before = 0, !.after = 0]}

\* Two shows back to back on one channel.
BackToBack == {Airing(1, 1, "first", "e1", 4, 12), Airing(2, 1, "second", "e2", 12, 22)}

\* Two channels air show 1, at 1 and again at 6 and on the other at 4; show 2
\* runs against the first.
BookGuide == {[id |-> 1, chan |-> 1, title |-> 1, ep |-> 1, start |-> 1, end |-> 3],
              [id |-> 2, chan |-> 2, title |-> 2, ep |-> 2, start |-> 2, end |-> 4],
              [id |-> 3, chan |-> 2, title |-> 1, ep |-> 1, start |-> 5, end |-> 7],
              [id |-> 4, chan |-> 3, title |-> 3, ep |-> 3, start |-> 6, end |-> 8]}
Draft(k, m, t, c, at, len, prio) ==
    [kind |-> k, match |-> m, title |-> t, chan |-> c, at |-> at, len |-> len, daily |-> FALSE, prio |-> prio,
     pad |-> 0]
BookDrafts == {Draft("series", "contains", 1, 1, 0, 0, 0), Draft("series", "title", 1, 1, 0, 0, 0),
               Draft("series", "title", 2, 0, 0, 0, 1), Draft("once", "title", 3, 3, 6, 0, 0),
               Draft("once", "title", 2, 2, 2, 0, 0), Draft("manual", "title", 4, 3, 2, 2, 0)}
Books == INSTANCE Booking WITH
    Guide <- BookGuide, Drafts <- BookDrafts, BookTuners <- 1, IdsUsed <- 1, MaxChanges <- 1, MaxPasses <- 3,
    table <- v1, skips <- v2, added <- v3, req <- v4, changes <- v5
Fixed == INSTANCE Booking WITH
    Guide <- BookGuide, Drafts <- BookDrafts, BookTuners <- 1, IdsUsed <- 1, MaxChanges <- 0, MaxPasses <- 4,
    table <- v1, skips <- v2, added <- v3, req <- v4, changes <- v5

\* Rows that reuse ids before the copies begin, and copies, restores and starts.
Stations == {<<1, 5>>, <<2, 5>>, <<1, 7>>}
Keeps == [daily |-> 1, weekly |-> 1, version |-> 1]
Rows == INSTANCE Catalog WITH
    LastBuild <- 2, PassColumn <- 1, KeepOf <- Keeps, WeekLength <- 2, MaxRowEdits <- 6, MaxStarts <- 0, MaxDays <- 0,
    db <- v1, copies <- v2, noted <- v3, build <- v4, boot <- v5, night <- v6, day <- v7, rowEdits <- v8,
    starts <- v9, passNo <- v10, camefrom <- v11
Copied == INSTANCE Catalog WITH
    LastBuild <- 3, PassColumn <- 2, KeepOf <- Keeps, WeekLength <- 2, MaxRowEdits <- 1, MaxStarts <- 3, MaxDays <- 1,
    db <- v1, copies <- v2, noted <- v3, build <- v4, boot <- v5, night <- v6, day <- v7, rowEdits <- v8,
    starts <- v9, passNo <- v10, camefrom <- v11

\* A page that asks twice and one that asks once; across a restart, with an answer or a stop
\* lost, of a channel that may play as a copy, two that ask once and one that asks twice.
Asks == [p \in {1, 2} |-> IF p = 1 THEN 2 ELSE 1]
Played == INSTANCE Watch WITH
    Pages <- {1, 2}, MaxAttempts <- Asks, MaxRestarts <- 0, MaxLost <- 0, Channels <- {"asked"},
    boot <- v1, viewers <- v2, tickets <- v3, request <- v4, channel <- v5, client <- v6, stop <- v7,
    underway <- v8, current <- v9, page <- v10, lost <- v11
Lossy == INSTANCE Watch WITH
    Pages <- {1, 2}, MaxAttempts <- [p \in {1, 2} |-> 1], MaxRestarts <- 1, MaxLost <- 1, Channels <- {"asked", "copy"},
    boot <- v1, viewers <- v2, tickets <- v3, request <- v4, channel <- v5, client <- v6, stop <- v7,
    underway <- v8, current <- v9, page <- v10, lost <- v11

Again == INSTANCE Watch WITH
    Pages <- {1}, MaxAttempts <- [p \in {1} |-> 2], MaxRestarts <- 1, MaxLost <- 1, Channels <- {"asked", "copy"},
    boot <- v1, viewers <- v2, tickets <- v3, request <- v4, channel <- v5, client <- v6, stop <- v7,
    underway <- v8, current <- v9, page <- v10, lost <- v11

\* A setup the owner turns off or asks to remove meanwhile; two requests that save, over
\* a crash and a fault; a tunnel that was there before, and two accounts.
Away == INSTANCE Tunnel WITH
    MaxGen <- 3, Requests <- {11, 12}, Accounts <- {"a"}, Before <- {"none"}, Kinds <- {"setup", "remove"},
    MaxCrashes <- 0, MaxFaults <- 0,
    mgr <- v1, act <- v2, vault <- v3, catalog <- v4, url <- v5, cloud <- v6, run <- v7, hist <- v8
Saves == INSTANCE Tunnel WITH
    MaxGen <- 2, Requests <- {11, 12}, Accounts <- {"a"}, Before <- {"none", "owner"},
    Kinds <- {"setup", "remove", "paste", "restore"}, MaxCrashes <- 1, MaxFaults <- 1,
    mgr <- v1, act <- v2, vault <- v3, catalog <- v4, url <- v5, cloud <- v6, run <- v7, hist <- v8
Mine == INSTANCE Tunnel WITH
    MaxGen <- 2, Requests <- {11}, Accounts <- {"a", "b"}, Before <- {"here", "owner"},
    Kinds <- {"setup", "remove", "paste", "restore"}, MaxCrashes <- 1, MaxFaults <- 1,
    mgr <- v1, act <- v2, vault <- v3, catalog <- v4, url <- v5, cloud <- v6, run <- v7, hist <- v8

\* Recordings that are over, and the clean-ups that take what was watched; a show that keeps its
\* last one; two players of one, over a fault and a stop of the server.
Over(status, seen, end) ==
    [on |-> TRUE, status |-> status, keep |-> FALSE, watched |-> seen, end |-> end, moved |-> 1, marked |-> 2,
     path |-> "first"]
OverThen == {Over("complete", 1, TRUE), Over("complete", 0, TRUE)}
OverOrOn == {Over("complete", 0, TRUE), Over("recording", 0, FALSE)}
Cleaned == INSTANCE Storage WITH
    Recs <- {1, 2, 3}, Loved <- {3}, FirstRows <- OverThen, Viewers <- {}, Graphs <- {"g"}, Days <- 1, KeepLast <- 0,
    Disk <- 3, Reserve <- 2, MaxTouches <- 1, MaxPlays <- 0, MaxFaults <- 1, MaxCleanups <- 1, MaxCrashes <- 0,
    row <- v1, place <- v2, job <- v3, move <- v4, tidyMu <- v5, starts <- v6, play <- v7, work <- v8,
    procs <- v9, late <- v10, torn <- v11, spent <- v12
Ruled == INSTANCE Storage WITH
    Recs <- {1, 2}, Loved <- {}, FirstRows <- OverOrOn, Viewers <- {}, Graphs <- {"g"}, Days <- 0, KeepLast <- 1,
    Disk <- 2, Reserve <- 1, MaxTouches <- 2, MaxPlays <- 0, MaxFaults <- 1, MaxCleanups <- 0, MaxCrashes <- 0,
    row <- v1, place <- v2, job <- v3, move <- v4, tidyMu <- v5, starts <- v6, play <- v7, work <- v8,
    procs <- v9, late <- v10, torn <- v11, spent <- v12
Seen == INSTANCE Storage WITH
    Recs <- {1}, Loved <- {}, FirstRows <- OverOrOn, Viewers <- {"v", "w"}, Graphs <- {"g", "k"}, Days <- 0, KeepLast <- 0,
    Disk <- 2, Reserve <- 2, MaxTouches <- 1, MaxPlays <- 2, MaxFaults <- 1, MaxCleanups <- 0, MaxCrashes <- 1,
    row <- v1, place <- v2, job <- v3, move <- v4, tidyMu <- v5, starts <- v6, play <- v7, work <- v8,
    procs <- v9, late <- v10, torn <- v11, spent <- v12

none3 == v9 = 0 /\ v10 = 0 /\ v11 = 0 /\ v12 = 0
none6 == v6 = 0 /\ v7 = 0 /\ v8 = 0 /\ none3
none1 == v1 = 0 /\ v2 = 0 /\ v3 = 0 /\ v4 = 0 /\ v5 = 0 /\ none6
slots3 == <<v9, v10, v11, v12>>
slots6 == <<v6, v7, v8, slots3>>
slots == <<v1, v2, v3, v4, v5, slots6>>
all == <<part, vars, slots>>

-----------------------------------------------------------------------------
LibraryInit ==
    /\ Init
    /\ \/ part = "dvr" /\ none1
       \/ part = "book" /\ Books!BookInit /\ none6
       \/ part = "rows" /\ Rows!CatalogInit /\ v12 = 0
       \/ part = "copies" /\ Copied!CatalogInit /\ v12 = 0
       \/ part = "played" /\ Played!Init /\ v12 = 0
       \/ part = "lossy" /\ Lossy!Init /\ v12 = 0
       \/ part = "again" /\ Again!Init /\ v12 = 0
       \/ part = "away" /\ Away!Init /\ none3
       \/ part = "saves" /\ Saves!Init /\ none3
       \/ part = "mine" /\ Mine!Init /\ none3
       \/ part = "clean" /\ Cleaned!StorageInit
       \/ part = "rule" /\ Ruled!StorageInit
       \/ part = "plays" /\ Seen!StorageInit

LibraryNext ==
    \/ part = "dvr" /\ Next /\ UNCHANGED <<part, slots>>
    \/ part = "book" /\ Books!BookNext /\ UNCHANGED <<part, vars, slots6>>
    \/ part = "rows" /\ Rows!CatalogNext /\ UNCHANGED <<part, vars, v12>>
    \/ part = "copies" /\ Copied!CatalogNext /\ UNCHANGED <<part, vars, v12>>
    \/ part = "played" /\ Played!Next /\ UNCHANGED <<part, vars, v12>>
    \/ part = "lossy" /\ Lossy!Next /\ UNCHANGED <<part, vars, v12>>
    \/ part = "again" /\ Again!Next /\ UNCHANGED <<part, vars, v12>>
    \/ part = "away" /\ Away!Next /\ UNCHANGED <<part, vars, slots3>>
    \/ part = "saves" /\ Saves!Next /\ UNCHANGED <<part, vars, slots3>>
    \/ part = "mine" /\ Mine!Next /\ UNCHANGED <<part, vars, slots3>>
    \/ part = "clean" /\ Cleaned!StorageNext /\ UNCHANGED <<part, vars>>
    \/ part = "rule" /\ Ruled!StorageNext /\ UNCHANGED <<part, vars>>
    \/ part = "plays" /\ Seen!StorageNext /\ UNCHANGED <<part, vars>>

LibrarySpec == LibraryInit /\ [][LibraryNext]_all

\* The scheduler, and the requests for passes, in a house of their own.
DvrSpec == Init /\ part = "dvr" /\ none1 /\ [][Next /\ UNCHANGED <<part, slots>>]_all
FixSpec == Init /\ part = "fix" /\ Fixed!BookInit /\ none6 /\ [][Fixed!BookNext /\ UNCHANGED <<part, vars, slots6>>]_all

-----------------------------------------------------------------------------


\* What a fix asks to keep out of (conflict.go:32, fix): refuted, see the README.
OthersKept == Fixed!OthersKept
=============================================================================
