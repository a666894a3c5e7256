------------------------------- MODULE Storage -------------------------------
(* Recordings that are over: their rows and files, the three clean-ups        *)
(* (dvr/storage.go, dvr/saved.go), what the household does meanwhile          *)
(* (httpapi), and the encodes that play them (live/file.go, live/remove.go).  *)
(*                                                                           *)
(* Every file is one unit large.  A recording's name is its place: a move     *)
(* takes it from "first" to "second".                                        *)
EXTENDS Integers, Sequences, SequencesExt, FiniteSets

CONSTANTS
    Recs, Loved,        \* recordings, the newer the larger; those on a favorite channel
    FirstRows,          \* rows it begins with
    Viewers, Graphs,    \* players; how a picture can be made
    Days, KeepLast,     \* days a watched one stays (0: for good); how many a show keeps (0: all)
    Disk, Reserve,
    MaxTouches, MaxPlays, MaxFaults, MaxCleanups, MaxCrashes   \* bounds

VARIABLES
    row,      \* recordings: whether it is listed, status, keep, watched flag, whether its playhead is at the end, ages, path
    place,    \* where its file is, or "gone"
    job,      \* clean-ups and the owner's delete: next section, what is left of the list, bytes short and freed, the one in hand
    move,     \* moveRecording: next section, recording
    tidyMu,
    starts,   \* lockFileStart
    play,     \* a player's request: next section, recording, graph
    work,     \* the folder of an encode: its graph and its playlist
    procs,    \* encodes that write there, by the player that started them; whether they had a file
    late, torn,   \* changed while a clean-up has it in hand; row and file apart by a fault, a crash or a move
    spent

storageVars == <<row, place, job, move, tidyMu, starts, play, work, procs, late, torn, spent>>

Cleaners == {"tidy", "room", "rule"}
Jobs == Cleaners \cup {"owner"}
None == "none"
NoRec == 0
NoJob == [pc |-> "idle", list |-> <<>>, short |-> 0, freed |-> 0, rec |-> NoRec, path |-> None, size |-> 0]
NoPlay == [pc |-> "idle", rec |-> NoRec, path |-> None, graph |-> None]
NoWork == [graph |-> None, list |-> "none"]

StorageInit ==
    /\ row \in [Recs -> FirstRows]
    /\ place = [r \in Recs |-> row[r].path]
    /\ job = [j \in Jobs |-> NoJob] /\ move = [pc |-> "idle", rec |-> NoRec, from |-> None]
    /\ tidyMu = None /\ starts = [r \in Recs |-> None]
    /\ play = [v \in Viewers |-> NoPlay]
    /\ work = [r \in Recs |-> NoWork] /\ procs = [r \in Recs |-> {}]
    /\ late = {} /\ torn = {}
    /\ spent = [touches |-> 0, plays |-> 0, faults |-> 0, cleanups |-> 0, crashes |-> 0]

Spend(what, max) == spent[what] < max /\ spent' = [spent EXCEPT ![what] = @ + 1]
Fault == Spend("faults", MaxFaults)
Free == Disk - Cardinality({r \in Recs : place[r] # "gone"})

-----------------------------------------------------------------------------
(* What may go.                                                              *)

\* finished.
Finished(x) == x.watched = 1 \/ (x.watched = 0 /\ x.end)
\* Played: 90% is enough; here only the end is.
Played(x) == Finished(x)
\* WatchedSince, as an age.
Since(x) == IF x.watched = 1 /\ x.marked < x.moved THEN x.marked ELSE x.moved
Exists(r) == place[r] = row[r].path
\* deletable.
Deletable(r) ==
    /\ row[r].on /\ ~row[r].keep /\ row[r].status = "complete" /\ Finished(row[r])
    /\ row[r].moved > 0 /\ Exists(r) /\ r \notin Loved
\* What the clean-up decides from: the row as it is read again, not the list.
TrustList(r) == row[r].on
MayGo(r) == Deletable(r)

Oldest(S) == SetToSortSeq(S, LAMBDA a, b : Since(row[a]) > Since(row[b]) \/ (Since(row[a]) = Since(row[b]) /\ a < b))
Newest(S) == SetToSortSeq(S, LAMBDA a, b : a > b)

\* keepEligible, KeepVictims with "last".
Counted == {r \in Recs : row[r].on /\ Exists(r) /\ r \notin Loved /\ ~row[r].keep /\ row[r].status = "complete"}
Victims == IF KeepLast = 0 THEN <<>> ELSE SubSeq(Newest(Counted), KeepLast + 1, Cardinality(Counted))
\* OnSaved asks less of the row it reads again.
RuleMayGo(r) == row[r].on /\ row[r].status = "complete" /\ ~row[r].keep /\ Exists(r) /\ r \notin Loved

-----------------------------------------------------------------------------
(* The clean-ups.                                                            *)

Goes(j, x) == job' = [job EXCEPT ![j] = x]
Cleanup == Spend("cleanups", MaxCleanups)
Others == <<row, place, move, starts, play, work, procs, late, torn>>

\* Tidy: what was watched long ago, then room.
BeginTidy ==
    /\ job["tidy"].pc = "idle" /\ Cleanup
    /\ IF Days = 0
       THEN Goes("tidy", [NoJob EXCEPT !.pc = "space"]) /\ UNCHANGED tidyMu
       ELSE /\ tidyMu = None /\ tidyMu' = "tidy"
            /\ Goes("tidy", [NoJob EXCEPT !.pc = "next", !.list = Oldest({r \in Recs : Deletable(r) /\ Since(row[r]) > Days})])
    /\ UNCHANGED Others
\* keepReserve, before a recording starts.
BeginRoom ==
    /\ job["room"].pc = "idle" /\ Cleanup
    /\ Goes("room", [NoJob EXCEPT !.pc = "space"])
    /\ UNCHANGED <<tidyMu, Others>>
\* OnSaved, after a recording's file is closed.
RecordingEnds(r) ==
    /\ row[r].on /\ row[r].status = "recording" /\ job["rule"].pc = "idle"
    /\ row' = [row EXCEPT ![r].status = "complete"]
    /\ Goes("rule", [NoJob EXCEPT !.pc = "list"])
    /\ UNCHANGED <<place, move, tidyMu, starts, play, work, procs, late, torn, spent>>
ListVictims ==
    /\ job["rule"].pc = "list"
    /\ Goes("rule", [NoJob EXCEPT !.pc = "next", !.list = Victims])
    /\ UNCHANGED <<tidyMu, spent, Others>>

\* MakeRoom: the free space is read before the lock is taken.
ReadSpace(j) ==
    /\ job[j].pc = "space"
    /\ Goes(j, IF Free >= Reserve THEN [NoJob EXCEPT !.pc = "made"]
               ELSE [NoJob EXCEPT !.pc = "room", !.short = Reserve - Free])
    /\ UNCHANGED <<tidyMu, spent, Others>>
ChooseVictims(j) ==
    /\ job[j].pc = "room" /\ tidyMu = None
    /\ LET list == Oldest({r \in Recs : Deletable(r)})
       IN  IF Len(list) < job[j].short
           THEN Goes(j, [job[j] EXCEPT !.pc = "made"]) /\ UNCHANGED tidyMu
           ELSE Goes(j, [job[j] EXCEPT !.pc = "next", !.list = list]) /\ tidyMu' = j
    /\ UNCHANGED <<spent, Others>>

\* A list is at its end, or enough is freed; Tidy makes room after its days.
EndList(j) ==
    /\ job[j].pc = "next"
    /\ job[j].list = <<>> \/ (job[j].short > 0 /\ job[j].freed >= job[j].short)
    /\ Goes(j, CASE j = "owner" \/ j = "rule" -> NoJob
                 [] j = "tidy" /\ job[j].short = 0 -> [NoJob EXCEPT !.pc = "space"]
                 [] OTHER -> [job[j] EXCEPT !.pc = "made", !.list = <<>>])
    /\ tidyMu' = IF tidyMu = j THEN None ELSE tidyMu
    /\ UNCHANGED <<spent, Others>>
\* remove, up to the files: the row is read again.
ReadAgain(j) ==
    /\ j \in Cleaners /\ job[j].pc = "next" /\ job[j].list # <<>>
    /\ job[j].short = 0 \/ job[j].freed < job[j].short
    /\ LET r == Head(job[j].list)
           rest == [job[j] EXCEPT !.list = Tail(@)]
       IN  IF IF j = "rule" THEN RuleMayGo(r) ELSE MayGo(r)
           THEN /\ Goes(j, [rest EXCEPT !.pc = "unlink", !.rec = r, !.path = row[r].path,
                                        !.size = IF Exists(r) THEN 1 ELSE 0])
                /\ late' = late \ {<<j, r>>}
           ELSE Goes(j, rest) /\ UNCHANGED late
    /\ UNCHANGED <<row, place, move, tidyMu, starts, play, work, procs, torn, spent>>
\* deleteRecording reads the row and asks only whether it is recorded.
OwnerDeletes(r) ==
    /\ job["owner"].pc = "idle" /\ row[r].on /\ row[r].status = "complete" /\ Spend("touches", MaxTouches)
    /\ Goes("owner", [NoJob EXCEPT !.pc = "unlink", !.rec = r, !.path = row[r].path])
    /\ UNCHANGED <<tidyMu, Others>>

\* RemoveRecordingFiles: under the lock of the recording's starts, its encode stops first.
\* A file that is not there is no error.
NobodyStarts(r) == starts[r] = None
Unlink(j) ==
    /\ job[j].pc = "unlink" /\ NobodyStarts(job[j].rec)
    /\ LET r == job[j].rec
           there == place[r] = job[j].path
       IN  /\ procs' = [procs EXCEPT ![r] = {}]
           /\ \/ /\ place' = IF there THEN [place EXCEPT ![r] = "gone"] ELSE place
                 /\ work' = [work EXCEPT ![r] = NoWork]
                 /\ torn' = IF there \/ place[r] = "gone" THEN torn ELSE torn \cup {r}
                 /\ Goes(j, [job[j] EXCEPT !.pc = "delete"]) /\ UNCHANGED spent
              \/ /\ Fault /\ UNCHANGED <<place, work, torn>>
                 /\ Goes(j, [job[j] EXCEPT !.pc = "next", !.rec = NoRec, !.path = None, !.size = 0])
    /\ UNCHANGED <<row, move, tidyMu, starts, play, late>>
\* DeleteRecording.
DeleteRow(j) ==
    /\ job[j].pc = "delete"
    /\ LET r == job[j].rec
       IN  \/ row' = [row EXCEPT ![r].on = FALSE] /\ UNCHANGED <<spent, torn>>
           \/ Fault /\ torn' = torn \cup {r} /\ UNCHANGED row
    /\ Goes(j, [job[j] EXCEPT !.pc = "next", !.freed = @ + job[j].size, !.rec = NoRec, !.path = None, !.size = 0])
    /\ UNCHANGED <<place, move, tidyMu, starts, play, work, procs, late>>

\* keepReserve, after the room is made: what the disk reports may lag behind.
Admits(reported, freed) == reported >= Reserve \/ freed >= Reserve - reported
Admit(j) ==
    /\ job[j].pc = "made"
    /\ \/ j = "tidy" /\ Goes(j, NoJob)
       \/ /\ j = "room"
          /\ \E reported \in Free - job[j].freed .. Free :
                 Goes(j, [job[j] EXCEPT !.pc = IF Admits(reported, job[j].freed) THEN "admitted" ELSE "refused"])
    /\ UNCHANGED <<tidyMu, spent, Others>>
AnswerStart ==
    /\ job["room"].pc \in {"admitted", "refused"} /\ Goes("room", NoJob)
    /\ UNCHANGED <<tidyMu, spent, Others>>

-----------------------------------------------------------------------------
(* The household.                                                            *)

\* Those that have it in hand do not look again.
TooLate(r) == {<<j, r>> : j \in {i \in Cleaners : job[i].rec = r}}
Changed(r, x) ==
    /\ row' = [row EXCEPT ![r] = x]
    /\ late' = late \cup TooLate(r)
    /\ Spend("touches", MaxTouches)
    /\ UNCHANGED <<place, job, move, tidyMu, starts, play, work, procs, torn>>
\* setKeep, setWatched, saveProgress.
SetKeep(r) == row[r].on /\ Changed(r, [row[r] EXCEPT !.keep = ~@])
SetWatched(r) ==
    /\ row[r].on
    /\ \E flag \in {1, 2} : Changed(r, [row[r] EXCEPT !.watched = flag, !.marked = IF flag = 1 THEN 0 ELSE 2])
SaveProgress(r) ==
    /\ row[r].on
    /\ \E end \in BOOLEAN : Changed(r, [row[r] EXCEPT !.moved = 0, !.end = end])
\* Hours, then days.
TimePasses ==
    /\ \E r \in Recs : row[r].moved < 2 \/ row[r].marked < 2
    /\ row' = [r \in Recs |-> [row[r] EXCEPT !.moved = IF @ < 2 THEN @ + 1 ELSE 2, !.marked = IF @ < 2 THEN @ + 1 ELSE 2]]
    /\ UNCHANGED <<place, job, move, tidyMu, starts, play, work, procs, late, torn, spent>>

\* moveRecording: the row is read, the file moved, the row told.
BeginMove(r) ==
    /\ move.pc = "idle" /\ row[r].on /\ row[r].status = "complete" /\ row[r].path = "first"
    /\ Spend("touches", MaxTouches)
    /\ move' = [pc |-> "rename", rec |-> r, from |-> row[r].path]
    /\ UNCHANGED <<row, place, job, tidyMu, starts, play, work, procs, late, torn>>
Rename ==
    /\ move.pc = "rename"
    /\ IF place[move.rec] = move.from
       THEN /\ place' = [place EXCEPT ![move.rec] = "second"]
            /\ move' = [move EXCEPT !.pc = "set"]
       ELSE move' = [move EXCEPT !.pc = "idle", !.rec = NoRec, !.from = None] /\ UNCHANGED place
    /\ UNCHANGED <<row, job, tidyMu, starts, play, work, procs, late, torn, spent>>
SetRecordingPath ==
    /\ move.pc = "set"
    /\ row' = IF row[move.rec].on THEN [row EXCEPT ![move.rec].path = "second"] ELSE row
    /\ move' = [pc |-> "idle", rec |-> NoRec, from |-> None]
    /\ UNCHANGED <<place, job, tidyMu, starts, play, work, procs, late, torn, spent>>

-----------------------------------------------------------------------------
(* Playback.                                                                 *)

\* playRecording reads the row.
AskPlay(v, r) ==
    /\ play[v].pc = "idle" /\ row[r].on /\ Spend("plays", MaxPlays)
    /\ \E g \in Graphs : play' = [play EXCEPT ![v] = [pc |-> "ask", rec |-> r, path |-> row[r].path, graph |-> g]]
    /\ UNCHANGED <<row, place, job, move, tidyMu, starts, work, procs, late, torn>>
\* playlistFresh, filePlaylistCovers.
Fresh(r, g) == work[r].graph = g /\ work[r].list # "none"
\* lockFileStart; PlayFile, PlayFollow up to the wait.
StartFile(v) ==
    /\ play[v].pc = "ask" /\ NobodyStarts(play[v].rec)
    /\ LET p == play[v]
           has == place[p.rec] = p.path
       IN  IF Fresh(p.rec, p.graph)
           THEN play' = [play EXCEPT ![v] = NoPlay] /\ UNCHANGED <<starts, work, procs>>
           ELSE /\ starts' = [starts EXCEPT ![p.rec] = v]
                /\ procs' = [procs EXCEPT ![p.rec] = {[by |-> v, has |-> has]}]
                /\ work' = [work EXCEPT ![p.rec] = [graph |-> p.graph, list |-> "none"]]
                /\ play' = [play EXCEPT ![v].pc = "wait"]
    /\ UNCHANGED <<row, place, job, move, tidyMu, late, torn, spent>>
Answered(v) ==
    /\ play' = [play EXCEPT ![v] = NoPlay]
    /\ starts' = [starts EXCEPT ![play[v].rec] = None]
\* waitPlaylistFile: there it is, or the encode is gone, or it takes too long.
WaitEnds(v) ==
    /\ play[v].pc = "wait" /\ Answered(v)
    /\ LET r == play[v].rec
       IN  \/ work[r].list # "none" /\ UNCHANGED <<procs, spent>>
           \/ work[r].list = "none" /\ procs[r] = {} /\ UNCHANGED <<procs, spent>>
           \/ work[r].list = "none" /\ procs[r] # {} /\ Fault /\ procs' = [procs EXCEPT ![r] = {}]
    /\ UNCHANGED <<row, place, job, move, tidyMu, work, late, torn>>
\* An encode writes as long as it has its file, which may have been unlinked or moved.
EncodeWrites(r) ==
    /\ \E p \in procs[r] : p.has
    /\ work[r].list = "none" /\ work' = [work EXCEPT ![r].list = "part"]
    /\ UNCHANGED <<row, place, job, move, tidyMu, starts, play, procs, late, torn, spent>>
\* It ends with the file, of a growing one once that is closed; without one at once.
EncodeEnds(r) ==
    /\ \E p \in procs[r] :
           /\ p.has => work[r].list = "part" /\ row[r].status = "complete"
           /\ procs' = [procs EXCEPT ![r] = @ \ {p}]
           /\ work' = IF p.has THEN [work EXCEPT ![r].list = "ended"] ELSE work
    /\ UNCHANGED <<row, place, job, move, tidyMu, starts, play, late, torn, spent>>

-----------------------------------------------------------------------------
\* The server stops: its encodes are killed, their folders stay.
Crash ==
    /\ Spend("crashes", MaxCrashes)
    /\ torn' = torn \cup {job[j].rec : j \in {i \in Jobs : job[i].pc = "delete"}}
                    \cup (IF move.pc = "set" THEN {move.rec} ELSE {})
    /\ job' = [j \in Jobs |-> NoJob] /\ move' = [pc |-> "idle", rec |-> NoRec, from |-> None]
    /\ tidyMu' = None /\ starts' = [r \in Recs |-> None] /\ play' = [v \in Viewers |-> NoPlay]
    /\ procs' = [r \in Recs |-> {}]
    /\ UNCHANGED <<row, place, work, late>>

StorageNext ==
    \/ BeginTidy \/ BeginRoom \/ ListVictims \/ AnswerStart
    \/ \E j \in {"tidy", "room"} : ReadSpace(j) \/ ChooseVictims(j) \/ Admit(j)
    \/ \E j \in Jobs : EndList(j) \/ ReadAgain(j) \/ Unlink(j) \/ DeleteRow(j)
    \/ \E r \in Recs :
           \/ RecordingEnds(r) \/ OwnerDeletes(r) \/ SetKeep(r) \/ SetWatched(r) \/ SaveProgress(r)
           \/ BeginMove(r) \/ EncodeWrites(r) \/ EncodeEnds(r)
    \/ TimePasses \/ Rename \/ SetRecordingPath
    \/ \E v \in Viewers : (\E r \in Recs : AskPlay(v, r)) \/ StartFile(v) \/ WaitEnds(v)
    \/ Crash

-----------------------------------------------------------------------------
\* A clean-up takes nothing that is kept, unwatched or played now, unless it became so
\* after it was read again (remove: "someone may have kept it or marked it unwatched").
KeptStays ==
    \A j \in Cleaners : job[j].rec # NoRec /\ place[job[j].rec] # "gone" =>
        \/ <<j, job[j].rec>> \in late
        \/ IF j = "rule" THEN ~row[job[j].rec].keep ELSE Finished(row[job[j].rec]) /\ ~row[job[j].rec].keep

\* A recording that is listed has its file, and a file that is here is listed, but for
\* what a fault, a crash or a crossing move took apart (RemoveRecordingFiles,
\* DeleteRecording, MoveRecording).
RowsAreFiles ==
    \A r \in Recs \ torn :
        /\ row[r].on => \/ Exists(r)
                        \/ \E j \in Jobs : job[j].rec = r /\ job[j].pc = "delete"
                        \/ move.pc = "set" /\ move.rec = r
        /\ place[r] # "gone" => row[r].on

\* One encode writes a recording's folder, and the request that waits for it started it;
\* nothing is there of a recording that is gone (lockFileStart, stopFileEncode,
\* RemoveRecordingFiles).
OneEncode ==
    /\ \A r \in Recs : Cardinality(procs[r]) <= 1
    /\ \A v \in Viewers : play[v].pc = "wait" =>
           /\ work[play[v].rec].graph = play[v].graph
           /\ \A p \in procs[play[v].rec] : p.by = v
    /\ \A r \in Recs : place[r] = "gone" => work[r].list = "none"

\* A recording that was let start has its room, unless MakeRoom freed some of what it was
\* short of and not all, which keepReserve counts twice when the disk has told of it.
AdmittedHasRoom ==
    LET x == job["room"]
    IN  x.pc = "admitted" /\ (x.freed = 0 \/ x.freed >= x.short) /\ torn = {} => Free >= Reserve

StorageHolds == KeptStays /\ RowsAreFiles /\ OneEncode /\ AdmittedHasRoom
=============================================================================
