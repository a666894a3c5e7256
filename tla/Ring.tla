-------------------------------- MODULE Ring --------------------------------
(***************************************************************************)
(* The time-shift buffer of one tune (server/internal/ring/ring.go): the   *)
(* tuner's read loop appends, one goroutine writes what is pending to      *)
(* files, and readers ask for positions.  The files are touched outside    *)
(* r.mu only, so the ring may be reset, trimmed or closed between the      *)
(* flusher's reading of it and its commit; a generation tells the two      *)
(* apart.  A byte is its position; a file is named by its first byte.      *)
(***************************************************************************)
EXTENDS Integers, FiniteSets

CONSTANTS
    MaxChunk,       \* bound: longest chunk appended
    MaxPos,         \* bound: bytes ever appended
    PendingCap,     \* pendingCap
    Span,           \* Options.Span: the time one file covers
    MarkEvery,      \* markEvery
    Windows,        \* lengths the window may be set to; 0 turns the ring off
    MaxTime,        \* bound: the clock
    MaxTurns        \* bound: changes of the window, of free space, and faults

ASSUME RingAssumption ==
    /\ MaxChunk \in Nat \ {0} /\ MaxPos \in Nat /\ PendingCap \in Nat \ {0}
    /\ Span \in Nat /\ MarkEvery \in Nat \ {0} /\ Windows \subseteq Nat
    /\ MaxTime \in Nat /\ MaxTurns \in Nat

VARIABLES
    start, flushed, received, closed,   \* as in Tape
    gen,        \* r.gen
    segs,       \* r.segs: first position of a file -> its size, when it was opened
    marks,      \* r.marks: times and positions
    lastMark, lastAt,
    window, low, off,
    wake,       \* r.wake holds a value
    disk,       \* files in r.dir: where each ends, and whether it is the multiplex from its name on
    removing,   \* files a goroutine of Append is about to remove
    pc,         \* where flushLoop is
    file,       \* its open file, or NoFile
    job,        \* flushOnce's locals: gen, first, end of the batch, new file, time, wrote all
    drop,       \* files it is about to remove
    dead,       \* the folder cannot be used: r.room always says no
    now, turns

tape == <<start, flushed, received, closed>>
index == <<gen, segs, marks, lastMark, lastAt>>
mode == <<window, low, off>>
flusher == <<pc, file, job, drop, dead>>
vars == <<tape, index, mode, wake, disk, removing, flusher, now, turns>>

NoFile == -1
NoTime == -1
Stray == -2             \* a file an earlier server left in the folder
NoJob == [gen |-> 0, first |-> 0, upto |-> 0, new |-> FALSE, at |-> 0, ok |-> TRUE]
Pcs == {"begin", "window", "room", "wait", "take", "create", "write", "commit", "fail", "failed", "remove", "end", "exited"}

Names == DOMAIN segs
Without(f, S) == [x \in DOMAIN f \ S |-> f[x]]
With(f, x, y) == [z \in DOMAIN f \cup {x} |-> IF z = x THEN y ELSE f[z]]

Init ==
    /\ start = 0 /\ flushed = 0 /\ received = 0 /\ closed = FALSE
    /\ gen = 0 /\ segs = [f \in {} |-> 0] /\ marks = {} /\ lastMark = NoTime /\ lastAt = NoTime
    /\ window = 0 /\ low = FALSE /\ off = FALSE
    /\ wake = FALSE /\ removing = {}
    /\ \E left \in SUBSET {Stray} : disk = [f \in left |-> [to |-> 0, whole |-> FALSE]]
    /\ pc = "begin" /\ file = NoFile /\ job = NoJob /\ drop = {} /\ dead = FALSE
    /\ now = 0 /\ turns = 0

-----------------------------------------------------------------------------
(* Sections under r.mu.                                                     *)

\* Mutant: a reset that keeps the generation.
ResetSameGen ==
    /\ gen' = gen /\ segs' = [f \in {} |-> 0]
    /\ marks' = {} /\ lastMark' = NoTime /\ lastAt' = NoTime

\* resetLocked: every file, mark and pending byte is forgotten.
ResetLocked ==
    /\ gen' = gen + 1 /\ segs' = [f \in {} |-> 0]
    /\ marks' = {} /\ lastMark' = NoTime /\ lastAt' = NoTime

\* After a reset the caller moves start and flushed to received.
Empty == ResetLocked /\ start' = received /\ flushed' = received /\ UNCHANGED <<received, closed>>

\* Mutant: the mark names the end of the chunk.
LateMark(n) == marks' = marks \cup {[at |-> now, pos |-> received + n]}
NewMark(n) == marks' = marks \cup {[at |-> now, pos |-> received]}

\* Mutant: the ring starts over at the beginning.
StartFromZero(n) == received' = n /\ start' = n /\ flushed' = n
StartOver(n) == received' = received + n /\ start' = received + n /\ flushed' = received + n

\* Mutant: the flusher is not told.
SendNothing == UNCHANGED wake
SendWake == wake' = TRUE

\* Append of a chunk of n bytes.
Kept(n) == ~closed /\ ~low /\ ~off /\ received - flushed + n <= PendingCap
AppendKept(n) ==
    /\ Kept(n)
    /\ IF lastMark = NoTime \/ now - lastMark >= MarkEvery
       THEN NewMark(n) /\ lastMark' = now ELSE UNCHANGED <<marks, lastMark>>
    /\ lastAt' = now
    /\ received' = received + n
    /\ SendWake
    /\ UNCHANGED <<start, flushed, closed, gen, segs, removing>>
AppendLost(n) ==
    /\ ~Kept(n)
    /\ IF closed \/ low \/ off THEN UNCHANGED <<index, removing>>
       ELSE ResetLocked /\ removing' = removing \cup Names
    /\ StartOver(n)
    /\ UNCHANGED <<closed, wake>>
Append(n) ==
    /\ received + n <= MaxPos
    /\ AppendKept(n) \/ AppendLost(n)
    /\ UNCHANGED <<mode, disk, flusher, now, turns>>

\* removeFiles in a goroutine of Append.
RemoveLater ==
    /\ removing # {}
    /\ \E f \in removing : removing' = removing \ {f} /\ disk' = Without(disk, {f})
    /\ UNCHANGED <<tape, index, mode, wake, flusher, now, turns>>

Close ==
    /\ ~closed /\ closed' = TRUE
    /\ UNCHANGED <<start, flushed, received, index, mode, wake, disk, removing, flusher, now, turns>>

\* Files before position cut are forgotten; marks before the new start go.
DropBefore(cut) ==
    /\ segs' = Without(segs, {f \in Names : f < cut})
    /\ marks' = {m \in marks : m.pos >= cut}
    /\ start' = cut
    /\ drop' = {f \in Names : f < cut}
Restless == UNCHANGED <<gen, lastMark, lastAt>>

\* trimLocked: the oldest file goes while the second one is older than the window.
Old(s, f, w) == w > 0 /\ f > start /\ now - s[f].opened >= w
CutAt(s, w, cut) ==
    /\ cut = start \/ (cut \in DOMAIN s /\ Old(s, cut, w))
    /\ \A f \in DOMAIN s : Old(s, f, w) => f <= cut

-----------------------------------------------------------------------------
(* flushLoop.                                                               *)

Calm == turns' = turns
Turn == turns < MaxTurns /\ turns' = turns + 1
Goes(to) == pc' = to /\ UNCHANGED <<file, job, dead>>

\* The folder is emptied and made, or the ring stops for good (stop).
Begin ==
    /\ pc = "begin"
    /\ \/ /\ disk' = Without(disk, DOMAIN disk) /\ Calm
          /\ pc' = "window" /\ UNCHANGED <<tape, index, low, dead>>
       \/ /\ Turn /\ Empty /\ low' = TRUE /\ dead' = TRUE
          /\ pc' = "window" /\ UNCHANGED disk
    /\ UNCHANGED <<window, off, wake, removing, file, job, drop, now>>

\* checkWindow, with what the setting is now.
WindowSet(w) ==
    /\ window' = w
    /\ CASE w = 0 /\ ~off -> Empty /\ off' = TRUE /\ drop' = Names
         [] w = 0 /\ off  -> UNCHANGED <<tape, index, off, drop>>
         [] w > 0         -> /\ off' = FALSE
                             /\ \E cut \in Names \cup {start} : CutAt(segs, w, cut) /\ DropBefore(cut)
                             /\ Restless /\ UNCHANGED <<flushed, received, closed>>
CheckWindow ==
    /\ pc = "window"
    /\ \E w \in Windows : (IF window \in {0, w} THEN Calm ELSE Turn) /\ WindowSet(w)
    /\ Goes("room")
    /\ UNCHANGED <<low, wake, disk, removing, now>>

RemoveDropped == disk' = Without(disk, drop)

\* checkRoom: the room there is decides; drop is first what checkWindow dropped.
CheckRoom ==
    /\ pc = "room"
    /\ RemoveDropped
    /\ \/ UNCHANGED <<tape, index, low>> /\ drop' = {} /\ Calm
       \/ /\ ~low /\ ~dead /\ Turn
          /\ \E cut \in Names : DropBefore(cut)
          /\ Restless /\ UNCHANGED <<flushed, received, closed, low>>
       \/ /\ ~low /\ ~dead /\ Turn
          /\ Empty /\ drop' = Names /\ low' = TRUE
       \/ /\ low /\ ~dead /\ Turn
          /\ low' = FALSE /\ drop' = {} /\ UNCHANGED <<tape, index>>
    /\ Goes("remove")
    /\ UNCHANGED <<window, off, wake, removing, now>>

\* The files a section dropped are removed, and the loop goes on: a take that
\* finds nothing is the code's return to its select.
Remove ==
    /\ pc = "remove"
    /\ RemoveDropped /\ drop' = {}
    /\ Goes("take")
    /\ UNCHANGED <<tape, index, mode, wake, removing, now, turns>>

\* The select: closed, woken, or the room check's tick.
Stops == pc = "wait" /\ closed /\ Goes("end") /\ UNCHANGED <<tape, index, mode, wake, disk, removing, drop, now, turns>>
Wakes ==
    /\ pc = "wait" /\ wake /\ wake' = FALSE
    /\ Goes("take")
    /\ UNCHANGED <<tape, index, mode, disk, removing, drop, now, turns>>
Ticks == pc = "wait" /\ Goes("window") /\ UNCHANGED <<tape, index, mode, wake, disk, removing, drop, now, turns>>

\* flushOnce: what is pending is read, and whether a new file is due.
Newest(f) == f \in Names /\ \A g \in Names : g <= f
Rotates == file = NoFile \/ Names = {} \/ \E f \in Names : Newest(f) /\ now - segs[f].opened >= Span
TakeBatch ==
    /\ pc = "take"
    /\ IF closed \/ flushed = received
       THEN Goes("wait")
       ELSE /\ job' = [gen |-> gen, first |-> flushed, upto |-> received, new |-> Rotates, at |-> now, ok |-> TRUE]
            /\ pc' = IF Rotates THEN "create" ELSE "write"
            /\ UNCHANGED <<file, dead>>
    /\ UNCHANGED <<tape, index, mode, wake, disk, removing, drop, now, turns>>

Create ==
    /\ pc = "create"
    /\ \/ /\ disk' = With(disk, job.first, [to |-> job.first, whole |-> TRUE])
          /\ file' = job.first /\ pc' = "write" /\ Calm
       \/ Turn /\ file' = NoFile /\ pc' = "fail" /\ UNCHANGED disk
    /\ UNCHANGED <<tape, index, mode, wake, removing, job, drop, dead, now>>

\* The batch goes to the file, which may be gone from the folder by now.
WriteTo(n) ==
    IF file \in DOMAIN disk
    THEN disk' = [disk EXCEPT ![file] = [to |-> @.to + n, whole |-> @.whole /\ @.to = job.first]]
    ELSE UNCHANGED disk
Write ==
    /\ pc = "write"
    /\ \/ WriteTo(job.upto - job.first) /\ UNCHANGED job /\ Calm
       \/ /\ Turn /\ job' = [job EXCEPT !.ok = FALSE]
          /\ \E n \in 0..(job.upto - job.first) : WriteTo(n)
    /\ pc' = "commit"
    /\ UNCHANGED <<tape, index, mode, wake, removing, file, drop, dead, now>>

\* The ring was reset meanwhile: a file it never knew of goes too.
\* Mutant: it is left behind.
LateFileKept == file' = NoFile /\ UNCHANGED disk
LateFile == file' = NoFile /\ disk' = Without(disk, {file})
Resetted ==
    /\ gen # job.gen
    /\ IF job.new THEN LateFile ELSE UNCHANGED <<file, disk>>
    /\ pc' = "wait"
    /\ UNCHANGED <<tape, index, drop>>

\* The segments, with a new one.
Grown == IF job.new THEN With(segs, job.first, [size |-> 0, opened |-> job.at]) ELSE segs
WriteFailed ==
    /\ gen = job.gen /\ ~job.ok
    /\ segs' = Grown
    /\ file' = NoFile /\ pc' = "fail"
    /\ UNCHANGED <<tape, gen, marks, lastMark, lastAt, disk, drop>>
Committed ==
    /\ gen = job.gen /\ job.ok
    /\ \E last \in DOMAIN Grown, cut \in DOMAIN Grown \cup {start} :
          /\ \A f \in DOMAIN Grown : f <= last
          /\ CutAt(Grown, window, cut)
          /\ segs' = [f \in {g \in DOMAIN Grown : g >= cut} |->
                        IF f = last THEN [Grown[f] EXCEPT !.size = @ + job.upto - job.first] ELSE Grown[f]]
          /\ marks' = {m \in marks : m.pos >= cut}
          /\ start' = cut
          /\ drop' = {f \in DOMAIN Grown : f < cut}
    /\ flushed' = flushed + job.upto - job.first
    /\ pc' = "remove"
    /\ UNCHANGED <<received, closed, gen, lastMark, lastAt, file, disk>>
Commit ==
    /\ pc = "commit"
    /\ Resetted \/ WriteFailed \/ Committed
    /\ UNCHANGED <<mode, wake, removing, job, dead, now, turns>>

\* fail: the ring is emptied and off until the next room check.
Fail ==
    /\ pc = "fail"
    /\ IF gen = job.gen THEN Empty /\ low' = TRUE /\ drop' = Names
                        ELSE UNCHANGED <<tape, index, low>> /\ drop' = {}
    /\ pc' = "failed"
    /\ UNCHANGED <<window, off, wake, disk, removing, file, job, dead, now, turns>>
Failed ==
    /\ pc = "failed"
    /\ RemoveDropped /\ drop' = {}
    /\ Goes("wait")
    /\ UNCHANGED <<tape, index, mode, wake, removing, now, turns>>

\* The deferred end: the ring forgets its files, then the folder goes.
\* Mutant: only the files the ring knows of go.
RemoveListed == disk' = Without(disk, Names)
RemoveAll == disk' = Without(disk, DOMAIN disk)
End ==
    /\ pc = "end"
    /\ Empty /\ RemoveAll
    /\ pc' = "exited" /\ file' = NoFile
    /\ UNCHANGED <<mode, wake, removing, job, drop, dead, now, turns>>

Tick == now < MaxTime /\ now' = now + 1 /\ UNCHANGED <<tape, index, mode, wake, disk, removing, flusher, turns>>

Flusher ==
    \/ Begin \/ CheckWindow \/ CheckRoom \/ Remove \/ Stops \/ Wakes
    \/ TakeBatch \/ Create \/ Write \/ Commit \/ Fail \/ Failed \/ End

Next ==
    \/ \E n \in 1..MaxChunk : Append(n)
    \/ RemoveLater \/ Close \/ Flusher \/ Ticks \/ Tick

Spec == Init /\ [][Next]_vars

\* Both goroutines run, and a select picks any of its ready cases in turn.
\* Nothing relies on the room check's tick.
Fairness == WF_vars(Flusher) /\ SF_vars(Stops) /\ SF_vars(Wakes) /\ WF_vars(RemoveLater)

FairSpec == Spec /\ Fairness

-----------------------------------------------------------------------------
(* What a reader is told.                                                   *)

Nothing == -1
Before(m, n) == m.pos < n.pos
FirstOf(S) == CHOOSE m \in S : \A n \in S \ {m} : Before(m, n)
LastOf(S) == CHOOSE m \in S : \A n \in S \ {m} : Before(n, m)
HeldMarks == {m \in marks : m.pos >= start}

Since == IF HeldMarks = {} THEN NoTime ELSE FirstOf(HeldMarks).at

Position(t) ==
    LET late == {m \in HeldMarks : m.at >= t}
    IN  IF closed \/ late = {} THEN Nothing ELSE FirstOf(late).pos

\* At: between the last held mark not after t and the next one.
At(t) ==
    LET early == {m \in HeldMarks : m.at <= t}
        from  == LastOf(early)
        after == {m \in marks : Before(from, m)}
        to    == IF after = {} THEN [at |-> lastAt, pos |-> received] ELSE FirstOf(after)
    IN  IF closed \/ early = {} THEN Nothing
        ELSE IF t >= lastAt THEN received
        ELSE IF to.at <= from.at THEN from.pos
        ELSE from.pos + ((to.pos - from.pos) * (t - from.at)) \div (to.at - from.at)

-----------------------------------------------------------------------------
(* Properties.                                                              *)

Pos == 0..MaxPos
Times == NoTime..MaxTime

TapeTyped == start \in Int /\ flushed \in Int /\ received \in Pos /\ closed \in BOOLEAN
IndexTyped ==
    /\ gen \in Nat
    /\ Names \subseteq Int /\ \A f \in Names : segs[f] \in [size : Int, opened : Nat]
    /\ marks \subseteq [at : Nat, pos : Int]
    /\ lastMark \in Times /\ lastAt \in Times
DiskTyped == DOMAIN disk \subseteq Int /\ \A f \in DOMAIN disk : disk[f] \in [to : Int, whole : BOOLEAN]
FlusherTyped ==
    /\ removing \subseteq Int /\ drop \subseteq Int
    /\ pc \in Pcs /\ file \in Int /\ dead \in BOOLEAN
    /\ job \in [gen : Nat, first : Int, upto : Pos, new : BOOLEAN, at : Nat, ok : BOOLEAN]
ModeTyped ==
    /\ window \in Windows \cup {0} /\ low \in BOOLEAN /\ off \in BOOLEAN /\ wake \in BOOLEAN
    /\ now \in 0..MaxTime /\ turns \in Nat
TypeOK == TapeTyped /\ IndexTyped /\ DiskTyped /\ FlusherTyped /\ ModeTyped

\* An open ring has on disk, whole and in place, every byte of what it says it
\* has there, while files are rotated, given up for age or room, left half
\* written by a fault or by a reset behind the flusher's back.
OnDisk(p) ==
    \E f \in Names :
        /\ f <= p /\ p < f + segs[f].size
        /\ f \in DOMAIN disk /\ disk[f].whole /\ f + segs[f].size <= disk[f].to
HoldsWhatItSays == ~closed => \A p \in start..(flushed - 1) : OnDisk(p)

\* No file stays behind: each is in the index, or someone is about to remove
\* it, or the flusher is writing it.  A closed ring leaves none.
Leftover == IF pc = "begin" \/ dead THEN {Stray} ELSE {}
Writing == IF pc \in {"write", "commit"} /\ job.new THEN {job.first} ELSE {}
NoOrphanFiles ==
    /\ DOMAIN disk \subseteq Names \cup drop \cup removing \cup Writing \cup Leftover
    /\ pc = "exited" => DOMAIN disk = {}

\* A position the index gives is one the ring can read from, and a later time
\* never gives an earlier position.
LookupsAreHeld ==
    ~closed => \A t \in 0..now :
        /\ Position(t) # Nothing => Position(t) \in start..(received - 1)
        /\ At(t) # Nothing => At(t) \in start..received
        /\ \A u \in t..now : At(t) # Nothing => At(t) <= At(u)

\* The ring is the tape its readers are told of: nothing they may read changes,
\* moves or comes back.  A closed ring answers no one.
Held == INSTANCE Tape WITH start <- IF closed THEN received ELSE start,
                           flushed <- IF closed THEN received ELSE flushed
ImplementsTape == Held!TapeSpec

\* What was appended reaches the disk, or is given up: it is never left in
\* memory for want of a wake.
PendingDrains == \A p \in 1..MaxPos : received >= p ~> flushed >= p \/ closed

\* A closed ring's goroutine ends, and its folder is empty.
CloseCleansUp == closed ~> pc = "exited" /\ DOMAIN disk = {}

-----------------------------------------------------------------------------
(* Why HoldsWhatItSays is kept: the files tile what is held, the open one    *)
(* ends where the next byte goes, and whoever removes files removes others.  *)

Tiles ==
    /\ start <= flushed /\ flushed <= received
    /\ \A f \in Names :
          /\ start <= f /\ f < received /\ f + segs[f].size <= flushed
          /\ IF pc = "fail" THEN 0 <= segs[f].size ELSE 0 < segs[f].size
    /\ \A f, g \in Names : f < g => f + segs[f].size <= g
    /\ \A p \in start..(flushed - 1) : \E f \in Names : f <= p /\ p < f + segs[f].size

Reaches(f, at) == f \in DOMAIN disk /\ disk[f].whole /\ at <= disk[f].to
FilesWhole == \A f \in Names : Reaches(f, f + segs[f].size)

Ends(at) == Reaches(file, at) /\ disk[file].to = at

\* The open file is the newest, unless a reset forgot it.
OpenFile ==
    pc \notin {"create", "write", "commit"} /\ file # NoFile /\ Names # {} => Newest(file) /\ Ends(flushed)

\* A batch under way starts where the disk ends, or the ring is empty.
JobOpen ==
    /\ job.first = flushed /\ flushed < job.upto /\ job.upto <= received
    /\ pc = "create" => job.new
    /\ pc \in {"write", "commit"} => IF job.new THEN file = flushed /\ file \notin Names ELSE Newest(file)
    /\ pc = "write" => Ends(flushed)
    /\ pc = "commit" => Reaches(file, flushed) /\ (job.ok => Ends(job.upto))
JobFits ==
    pc \in {"create", "write", "commit", "fail"} =>
        /\ job.gen <= gen
        /\ IF gen = job.gen THEN JobOpen ELSE Names = {}

Removers ==
    /\ \A f \in removing \cup drop : f < start
    /\ drop # {} => pc \in {"room", "remove", "failed"}
    /\ pc = "begin" => Names = {}

MarksHeld == \A m \in marks : start <= m.pos /\ m.pos < received

\* While the ring is off it holds nothing and no batch is under way.
Idle ==
    low \/ off =>
        /\ Names = {} /\ marks = {} /\ start = received /\ flushed = received
        /\ pc \notin {"create", "write", "commit", "fail"}

Sound == Tiles /\ FilesWhole /\ OpenFile /\ JobFits /\ Removers /\ MarksHeld /\ Idle
Indexed == ~closed => Sound

(* Why LookupsAreHeld is kept: marks are apart in time as in position, and a *)
(* set of them has a first and a last.                                      *)

First(m, S) == m \in S /\ \A n \in S \ {m} : Before(m, n)
Last(m, S) == m \in S /\ \A n \in S \ {m} : Before(n, m)
MarksInOrder ==
    /\ lastMark <= lastAt /\ lastAt <= now
    /\ \A m \in marks : m.pos < received /\ m.at <= lastMark
    /\ \A m, n \in marks : Before(m, n) => m.at < n.at
    /\ \A S \in SUBSET marks : S # {} => (\E m \in S : First(m, S)) /\ (\E m \in S : Last(m, S))

\* The inductive invariant.
RingInv == TypeOK /\ Indexed /\ MarksInOrder
=============================================================================
