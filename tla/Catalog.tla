------------------------------- MODULE Catalog -------------------------------
(***************************************************************************)
(* The catalogue as a table store: rows with reused ids that point at each *)
(* other, the copies kept of it (backup/backup.go), a copy brought back    *)
(* (store/restore.go), and a start of the server that copies the catalogue *)
(* of the build before and then migrates it (store/migrate.go).            *)
(*                                                                         *)
(* A table is a function from ids to rows.  What a row points at by id is  *)
(* also written beside it by its own name (of, by, file): the channel is   *)
(* its tuner and number, the recording its file, the pass the order it was *)
(* made in.  The code does not keep those; the properties compare with     *)
(* them.                                                                   *)
(***************************************************************************)
EXTENDS Integers, FiniteSets, Sequences, SequencesExt, FiniteSetsExt, TLC

CONSTANTS Stations,      \* channels as <<tuner, number>>
          LastBuild,     \* the newest build; build b brings migrations 1..b
          PassColumn,    \* the migration that added recordings.pass_id
          KeepOf,        \* kind of copy -> how many are kept
          WeekLength,    \* days in a week
          MaxRowEdits, MaxStarts, MaxDays      \* bounds

VARIABLES db, copies, noted, build, boot, night, day, rowEdits, starts, passNo, camefrom
catalogVars == <<db, copies, noted, build, boot, night, day, rowEdits, starts, passNo, camefrom>>

Empty == <<>>
NewId(t) == IF DOMAIN t = {} THEN 1 ELSE Max(DOMAIN t) + 1
Without(t, ids) == [i \in DOMAIN t \ ids |-> t[i]]
With(t, id, row) == t @@ (id :> row)
Named(t, name) == {i \in DOMAIN t : t[i] = name}

-----------------------------------------------------------------------------
(* The store's writes, each one transaction. *)
CanEdit == boot = "up" /\ rowEdits < MaxRowEdits
Edit(next) == /\ db' = next /\ rowEdits' = rowEdits + 1
              /\ UNCHANGED <<copies, noted, build, boot, night, day, starts, camefrom>>

AddChannel == CanEdit /\ UNCHANGED passNo /\ \E s \in Stations :
    /\ Named(db.chans, s) = {}
    /\ Edit([db EXCEPT !.chans = With(@, NewId(@), s)])

(* RemoveDevice: a pass moves to the same number on another tuner, or goes; *)
(* recordings stay and point at no channel.                                 *)
HandTo(tuner, s) == {i \in DOMAIN db.chans : db.chans[i][2] = s[2] /\ db.chans[i][1] # tuner}
RemoveDevice == CanEdit /\ UNCHANGED passNo /\ \E tuner \in {s[1] : s \in Stations} :
    LET gone == {i \in DOMAIN db.chans : db.chans[i][1] = tuner}
        next(p) == IF p.chan \in gone
                   THEN LET to == Min(HandTo(tuner, p.of)) IN [p EXCEPT !.chan = to, !.of = db.chans[to]]
                   ELSE p
        lost == {k \in DOMAIN db.passes : db.passes[k].chan \in gone /\ HandTo(tuner, db.passes[k].of) = {}}
    IN /\ gone # {}
       /\ Edit([db EXCEPT !.chans = Without(@, gone),
                          !.passes = [k \in DOMAIN @ \ lost |-> next(@[k])],
                          !.recs = [r \in DOMAIN @ |-> IF @[r].chan \in gone THEN [@[r] EXCEPT !.chan = 0] ELSE @[r]]])

AddPass == CanEdit /\ \E c \in DOMAIN db.chans :
    /\ passNo' = passNo + 1
    /\ Edit([db EXCEPT !.passes = With(@, NewId(@), [no |-> passNo + 1, chan |-> c, of |-> db.chans[c]])])
DeletePass == CanEdit /\ UNCHANGED passNo /\ \E k \in DOMAIN db.passes :
    Edit([db EXCEPT !.passes = Without(@, {k})])

(* CreateRecording, by a pass; the file is new. *)
NewFile == rowEdits + 1
CreateRecording == CanEdit /\ UNCHANGED passNo /\ \E k \in DOMAIN db.passes :
    LET p == db.passes[k]
        row == [file |-> NewFile, chan |-> p.chan, of |-> p.of,
                pass |-> IF db.schema >= PassColumn THEN k ELSE 0, by |-> p.no]
    IN Edit([db EXCEPT !.recs = With(@, NewId(@), row), !.marks = With(@, NewId(db.recs), NewFile)])
DeleteRecording == CanEdit /\ UNCHANGED passNo /\ \E r \in DOMAIN db.recs :
    Edit([db EXCEPT !.recs = Without(@, {r}), !.marks = Without(@, {r}), !.items = {i \in @ : i.rec # r}])
CreateVirtual == CanEdit /\ UNCHANGED passNo /\ \E r \in DOMAIN db.recs :
    /\ \A i \in db.items : i.rec # r
    /\ Edit([db EXCEPT !.items = @ \cup {[rec |-> r, file |-> db.recs[r].file]}])

-----------------------------------------------------------------------------
(* RestoreFrom: one transaction on one connection. *)

(* insertMoved: in id order, under the same id where it is free. *)
InsertMoved(table, rows, ids) ==
    LET step(acc, id) ==
          LET at == IF id \in DOMAIN acc.table THEN NewId(acc.table) ELSE id
          IN [table |-> With(acc.table, at, rows[id]), map |-> With(acc.map, id, at)]
    IN FoldLeft(step, [table |-> table, map |-> Empty], SetToSortSeq(ids, <))

(* restoreChannels: matched by tuner and number; the rest come back. *)
RestoreChannels(b) ==
    LET here == {i \in DOMAIN b.chans : Named(db.chans, b.chans[i]) # {}}
        known == [i \in here |-> Min(Named(db.chans, b.chans[i]))]
        moved == InsertMoved(db.chans, b.chans, DOMAIN b.chans \ here)
    IN [table |-> moved.table, map |-> known @@ moved.map]

(* restoreRecordings: matched by file; one this catalogue has stays.  A    *)
(* column the backup's schema does not have takes its default.             *)
OfFile(f) == {r \in DOMAIN db.recs : db.recs[r].file = f}
RestoreRecordings(b, chanMap) ==
    LET here == {r \in DOMAIN b.recs : OfFile(b.recs[r].file) # {}}
        known == [r \in here |-> Min(OfFile(b.recs[r].file))]
        rows == [r \in DOMAIN b.recs |->
                   [b.recs[r] EXCEPT !.chan = IF @ \in DOMAIN chanMap THEN chanMap[@] ELSE 0,
                                     !.pass = IF b.schema >= PassColumn THEN @ ELSE 0]]
        moved == InsertMoved(db.recs, rows, DOMAIN b.recs \ here)
    IN [table |-> moved.table, map |-> known @@ moved.map, added |-> DOMAIN moved.map]

Moved(map, id) == IF id \in DOMAIN map THEN map[id] ELSE id
RestorePerRecording(b, chans, recs) ==
    [schema |-> db.schema,
     chans  |-> chans.table,
     recs   |-> recs.table,
     passes |-> [k \in DOMAIN b.passes |-> [b.passes[k] EXCEPT !.chan = Moved(chans.map, @)]],
     items  |-> {[i EXCEPT !.rec = Moved(recs.map, @)] : i \in b.items},
     marks  |-> [r \in DOMAIN db.marks \cup {recs.map[o] : o \in recs.added \cap DOMAIN b.marks} |->
                    LET from == {o \in recs.added \cap DOMAIN b.marks : recs.map[o] = r}
                    IN IF from # {} THEN b.marks[Min(from)] ELSE db.marks[r]]]
RestoreFrom(b) == LET chans == RestoreChannels(b)
                  IN RestorePerRecording(b, chans, RestoreRecordings(b, chans.map))
Restore == CanEdit /\ UNCHANGED passNo /\ \E c \in Range(copies) : Edit(RestoreFrom(c.db))

-----------------------------------------------------------------------------
(* pruneKind, Prune: the newest of each kind are kept. *)
NewerOfKind(list, i) == {j \in i + 1 .. Len(list) : list[j].kind = list[i].kind}
Prune(list) == LET keep == {i \in DOMAIN list : Cardinality(NewerOfKind(list, i)) < KeepOf[list[i].kind]}
               IN [n \in 1 .. Cardinality(keep) |-> list[SetToSortSeq(keep, <)[n]]]
(* VacuumInto writes under another name and renames: a copy is whole or    *)
(* not there.                                                              *)
Take(kind, d) == Prune(Append(copies, [kind |-> kind, at |-> d, db |-> db]))
TakenOn(kind, from, to) == \E i \in DOMAIN copies : copies[i].kind = kind /\ copies[i].at \in from .. to

(* Scheduler.Run, Nightly: today's daily when there is none, then the      *)
(* week's copy of it.  The server may stop between the two.                *)
Week(d) == d \div WeekLength
WeeklyDue == ~TakenOn("weekly", Week(day) * WeekLength, Week(day) * WeekLength + WeekLength - 1)
Today == copies[Max({i \in DOMAIN copies : copies[i].kind = "daily"})]
NightlyDaily == /\ boot = "up" /\ night = "idle" /\ ~TakenOn("daily", day, day)
                /\ copies' = Take("daily", day) /\ night' = "weekly"
                /\ UNCHANGED <<db, noted, build, boot, day, rowEdits, starts, passNo, camefrom>>
NightlyWeekly == /\ boot = "up" /\ night = "weekly" /\ night' = "idle"
                 /\ copies' = IF WeeklyDue
                              THEN Prune(Append(copies, [kind |-> "weekly", at |-> day, db |-> Today.db]))
                              ELSE copies
                 /\ UNCHANGED <<db, noted, build, boot, day, rowEdits, starts, passNo, camefrom>>
NextDay == /\ boot = "up" /\ day < MaxDays /\ day' = day + 1
           /\ UNCHANGED <<db, copies, noted, build, boot, night, rowEdits, starts, passNo, camefrom>>

(* The server stops, at any moment, and starts again, perhaps as a newer   *)
(* build.                                                                  *)
Stop == /\ starts < MaxStarts /\ starts' = starts + 1
        /\ build' \in {build, build + 1} /\ build' <= LastBuild
        /\ boot' = "snapshot" /\ night' = "idle"
        /\ camefrom' = IF build' # build THEN db.schema ELSE camefrom
        /\ UNCHANGED <<db, copies, noted, day, rowEdits, passNo>>

(* SnapshotIfVersionChanged: copy, then note the version; an error is      *)
(* logged and the start goes on.                                           *)
Starting(at) == boot = at /\ UNCHANGED <<build, night, day, rowEdits, starts, passNo>>
Copied == IF db.schema = 0 THEN copies ELSE Take("version", day)
SnapshotNotesFirst == \* mutant
    \/ Starting("snapshot") /\ noted # build /\ boot' = "note" /\ noted' = build /\ UNCHANGED <<db, copies, camefrom>>
    \/ Starting("note") /\ boot' = "open" /\ copies' = Copied /\ UNCHANGED <<db, noted, camefrom>>
SnapshotIfVersionChanged ==
    \/ Starting("snapshot") /\ noted # build /\ boot' = "note" /\ copies' = Copied /\ UNCHANGED <<db, noted, camefrom>>
    \/ Starting("note") /\ boot' = "open" /\ noted' = build /\ UNCHANGED <<db, copies, camefrom>>
SameVersion == Starting("snapshot") /\ noted = build /\ boot' = "open" /\ UNCHANGED <<db, copies, noted, camefrom>>
SnapshotFails == /\ boot \in {"snapshot", "note"} /\ Starting(boot) /\ noted # build
                 /\ boot' = "open" /\ camefrom' = 0 /\ UNCHANGED <<db, copies, noted>>
(* Migrate: each pending migration in a transaction of its own. *)
Migrate == /\ Starting("open") /\ db.schema < build /\ db' = [db EXCEPT !.schema = @ + 1]
           /\ UNCHANGED <<copies, noted, boot, camefrom>>
Opened == /\ Starting("open") /\ db.schema >= build /\ boot' = "up"
          /\ UNCHANGED <<db, copies, noted, camefrom>>

CatalogInit ==
    /\ db = [schema |-> 0, chans |-> Empty, recs |-> Empty, passes |-> Empty, items |-> {}, marks |-> Empty]
    /\ copies = <<>> /\ noted = 0 /\ build = 1 /\ boot = "snapshot" /\ night = "idle" /\ day = 0
    /\ rowEdits = 0 /\ starts = 0 /\ passNo = 0 /\ camefrom = 0
CatalogNext ==
    \/ AddChannel \/ RemoveDevice \/ AddPass \/ DeletePass \/ CreateRecording \/ DeleteRecording \/ CreateVirtual
    \/ Restore \/ NightlyDaily \/ NightlyWeekly \/ NextDay \/ Stop \/ SnapshotIfVersionChanged \/ SameVersion \/ SnapshotFails
    \/ Migrate \/ Opened

-----------------------------------------------------------------------------
(* Whatever was removed, added and brought back, in whatever ids, a row    *)
(* that points at a channel or a recording by id points at the one it was  *)
(* made for, or at none (RestoreFrom, RemoveDevice, DeleteRecording).      *)
PointersFollow ==
    /\ \A r \in DOMAIN db.recs : LET c == db.recs[r].chan IN c = 0 \/ (c \in DOMAIN db.chans /\ db.chans[c] = db.recs[r].of)
    /\ \A k \in DOMAIN db.passes : LET p == db.passes[k] IN p.chan \in DOMAIN db.chans /\ db.chans[p.chan] = p.of
    /\ \A i \in db.items : i.rec \in DOMAIN db.recs /\ db.recs[i.rec].file = i.file
    /\ \A r \in DOMAIN db.marks : r \in DOMAIN db.recs /\ db.recs[r].file = db.marks[r]

(* A catalogue that a new build has begun to migrate, and whose build is   *)
(* noted as copied, can be taken back: a copy with the schema it came with *)
(* is kept, however often the start was cut short.                         *)
RollbackThere ==
    (noted = build /\ 0 < camefrom /\ camefrom < db.schema) =>
        \E i \in DOMAIN copies : copies[i].kind = "version" /\ copies[i].db.schema <= camefrom

(* A recording belongs to the pass that started it, or to none.            *)
PassStarted == \A r \in DOMAIN db.recs :
    LET k == db.recs[r].pass IN k \in DOMAIN db.passes => db.passes[k].no = db.recs[r].by
=============================================================================
