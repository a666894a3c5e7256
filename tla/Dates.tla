--------------------------------- MODULE Dates ---------------------------------
(* Program dates (live/timeline.go): each encode of a channel has a clock that    *)
(* maps its timestamps to wall time and a stamper that dates the segments of its  *)
(* playlist, once each, when a player asks for it. A second encode is seeded from *)
(* the first, so the same frame has the same date on every screen. Frames are     *)
(* numbered by the broadcast (the ground truth); timestamps wrap, jump when the   *)
(* station resets its clock, and start again with each encode.                    *)
EXTENDS Integers, Sequences, SequencesExt

CONSTANTS
    Streams,       \* the encodes of the channel
    Wrap, Hour,    \* the timestamp's range, and the largest step on one clock
    Behind,        \* how old a picture is when it is first listed (4 s, ringDelay)
    SegFrames,     \* frames of a segment; keyframes are that far apart
    KeptSegs,      \* segments a playlist lists, and for how many of them parts
    Jump,          \* by how much the station's clock jumps
    MaxFrame, MaxSilence, MaxLag, MaxOdd \* bounds: frames, ticks without any, frames
                   \* an encode is late by, silences, resets and encodes started again

VARIABLES now, frame, station, enc, said, odd

dateVars == <<now, frame, station, enc, said, odd>>

PtsDiff(a, b) == LET d == (a - b) % Wrap IN IF d >= Wrap \div 2 THEN d - Wrap ELSE d
OneClock(d) == d > -Hour /\ d < Hour

--------------------------------------------------------------------------------
(* The clock of an encode (Timeline).                                             *)

NewTimeline == [set |-> FALSE, pts |-> 0, wall |-> 0, earliest |-> 0, seeded |-> FALSE,
                seedPTS |-> 0, seedWall |-> 0, start |-> <<>>, carry |-> 0]

\* The first use anchors: on a seed, on when the first byte came, or on the clock
\* on the wall. A step of more than an hour is a station that reset its clock.
Anchored(t, pts) ==
    LET d == PtsDiff(pts, t.seedPTS)
        w == IF t.seeded /\ ~t.set /\ OneClock(d) THEN t.seedWall + d
             ELSE IF ~t.set /\ t.start # <<>> THEN t.start[1] ELSE now - Behind
    IN  [t EXCEPT !.set = TRUE, !.pts = pts, !.wall = w, !.earliest = w]
Wall(t, pts) == IF t.set /\ OneClock(PtsDiff(pts, t.pts)) THEN t ELSE Anchored(t, pts)
WallOf(t, pts) == t.wall + PtsDiff(pts, t.pts)
Seed(t, pts, wall) ==
    IF t.set THEN t ELSE [t EXCEPT !.seeded = TRUE, !.seedPTS = pts, !.seedWall = wall]
Start(t, wall) == IF t.set \/ t.seeded THEN t ELSE [t EXCEPT !.start = <<wall>>]
Reanchor(t, pts, wall) == [t EXCEPT !.set = TRUE, !.pts = pts, !.wall = wall + t.carry, !.carry = 0]
Continue(t, pts, wall) == [t EXCEPT !.set = TRUE, !.pts = pts, !.wall = wall, !.carry = 0]
Shift(t, d) == IF t.set THEN [t EXCEPT !.wall = @ + d, !.carry = @ + d] ELSE t
Settle(t) == [t EXCEPT !.carry = 0]

--------------------------------------------------------------------------------
(* The stamper: one pass over the lines of a playlist.                            *)

NewStamper == [walls |-> <<>>, broke |-> {}, last |-> <<>>]
OnlyOf(f, S) == [x \in DOMAIN f \cap S |-> f[x]]
Put(f, x, v) == [y \in DOMAIN f \cup {x} |-> IF y = x THEN v ELSE f[y]]

\* The first picture after a break follows the last end, or comes a step after it.
NoteBreak(s, pts) ==
    IF ~(s.brk /\ s.end # <<>>) THEN s
    ELSE [s EXCEPT !.brk = FALSE, !.cont = <<>>,
                   !.tl = IF s.cont # <<>> THEN Continue(@, pts, s.end[1] + s.cont[1])
                          ELSE Reanchor(@, pts, s.end[1])]

\* A part anchors the clock, once after a break; the first one after the last
\* segment carries the open segment's date.
StampPart(s, l) ==
    LET again == s.brk /\ l.n \in s.broke
        s1 == IF again THEN [s EXCEPT !.brk = FALSE]
              ELSE IF s.brk /\ s.end # <<>> THEN [s EXCEPT !.broke = @ \cup {l.n}] ELSE s
        s2 == NoteBreak(s1, l.pts)
        tl == Wall(s2.tl, l.pts)
        w == WallOf(tl, l.pts)
    IN  [s2 EXCEPT !.tl = tl, !.open = IF @ # <<>> THEN @
                    ELSE <<IF s2.end # <<>> /\ w < s2.end[1] THEN s2.end[1] ELSE w>>]

\* Mutant: the date is worked out again on every reload.
StampSegmentAnew(s, l) ==
    LET s1 == NoteBreak(s, l.pts)
        tl == Wall(s1.tl, l.pts)
        w == WallOf(tl, l.pts)
    IN  [s1 EXCEPT !.tl = Settle(tl), !.walls = Put(@, l.n, w), !.end = <<w + l.dur>>, !.open = <<>>]

\* A segment keeps the date it was first given. One that overlaps the segment
\* before it is pinned to that one's end and moves the clock.
StampSegment(s, l) ==
    IF l.n \in DOMAIN s.walls
    THEN [s EXCEPT !.end = <<s.walls[l.n] + l.dur>>, !.brk = FALSE, !.open = <<>>]
    ELSE LET s1 == NoteBreak(s, l.pts)
             tl == Wall(s1.tl, l.pts)
             pinned == s1.end # <<>> /\ WallOf(tl, l.pts) < s1.end[1]
             tl2 == IF pinned THEN Wall(Reanchor(tl, l.pts, s1.end[1]), l.pts) ELSE tl
             w == WallOf(tl2, l.pts)
         IN  [s1 EXCEPT !.tl = Settle(tl2), !.walls = Put(@, l.n, w), !.end = <<w + l.dur>>, !.open = <<>>]

StampLine(s, l) ==
    CASE l.k = "break" -> [s EXCEPT !.brk = TRUE, !.cont = <<>>]
      [] l.k = "cont" -> IF s.brk THEN [s EXCEPT !.cont = <<l.step>>] ELSE s
      [] l.k = "part" -> StampPart(s, l)
      [] l.k = "seg" -> StampSegment(s, l)

Stamp(st, lines, tl) ==
    LET s == FoldLeft(StampLine, [tl |-> tl, walls |-> st.walls, broke |-> st.broke, end |-> <<>>,
                                  brk |-> FALSE, cont |-> <<>>, open |-> <<>>], lines)
        seen == {lines[i].n : i \in {j \in DOMAIN lines : lines[j].k \in {"part", "seg"}}}
    IN  [tl |-> s.tl, open |-> s.open,
         st |-> [walls |-> OnlyOf(s.walls, seen), broke |-> s.broke \cap seen, last |-> lines]]

--------------------------------------------------------------------------------
(* An encode's playlist, as the packager writes it.                               *)

\* The timestamp the station sends with a frame.
Broadcast(f) == (f + (IF station # <<>> /\ f >= station[1] THEN Jump ELSE 0)) % Wrap
Jumps(f) == station # <<>> /\ f = station[1]
Pts(e, f) == (Broadcast(f) - enc[e].off) % Wrap
PartLine(e, f) == [k |-> "part", n |-> <<"part", f>>, pts |-> Pts(e, f)]
Mark(b) == IF b = <<>> THEN <<>>
           ELSE <<[k |-> "break"]>> \o (IF b[1] = "cont" THEN <<[k |-> "cont", step |-> b[2]]>> ELSE <<>>)
Listing(segs, open, mark) ==
    FlattenSeq([i \in DOMAIN segs |->
        Mark(segs[i].mark) \o (IF i = Len(segs) THEN segs[i].parts ELSE <<>>)
        \o <<[k |-> "seg", n |-> <<"seg", segs[i].parts[1].n[2]>>, pts |-> segs[i].parts[1].pts,
              dur |-> Len(segs[i].parts)]>>])
    \o (IF open = <<>> THEN <<>> ELSE Mark(mark) \o open)
LinesOf(e) == Listing(enc[e].segs, enc[e].open, enc[e].mark)

NoEncode == [on |-> FALSE, off |-> 0, known |-> FALSE, encodes |-> 0, at |-> 0, segs |-> <<>>,
             open |-> <<>>, mark |-> <<>>, clock |-> NewTimeline, st |-> NewStamper,
             ring |-> <<>>, dated |-> FALSE, shown |-> <<>>]

--------------------------------------------------------------------------------
Init ==
    /\ now = 0 /\ frame = 0
    /\ station = <<>>
    /\ enc = [e \in Streams |-> NoEncode]
    /\ said = [e \in Streams |-> <<>>]
    /\ odd = [quiet |-> FALSE, vague |-> FALSE, n |-> 0]

\* The station sends the next frame; every encode keeps up with it.
Air ==
    /\ frame < MaxFrame
    /\ \A e \in Streams : enc[e].on => enc[e].at >= frame - MaxLag
    /\ frame' = frame + 1
    /\ now' = now + 1
    /\ UNCHANGED <<station, enc, said, odd>>

\* The station resets its clock.
Reset ==
    /\ station = <<>> /\ frame % SegFrames = 0 /\ frame > 0
    /\ odd.n < MaxOdd
    /\ station' = <<frame>>
    /\ odd' = [odd EXCEPT !.n = @ + 1]
    /\ UNCHANGED <<now, frame, enc, said>>

\* The tuner sends nothing for a while: shiftClocks moves every clock on.
Silence(d) ==
    /\ ~odd.quiet /\ odd.n < MaxOdd
    /\ now' = now + d
    /\ odd' = [odd EXCEPT !.quiet = TRUE, !.n = @ + 1]
    /\ enc' = [e \in Streams |-> IF enc[e].on THEN [enc[e] EXCEPT !.clock = Shift(@, d)] ELSE enc[e]]
    /\ UNCHANGED <<frame, station, said>>

\* An encode starts on a keyframe at live, or in the buffer one segment back. Its
\* header may not say where it is on the broadcast clock.
Begin(e, back, known) ==
    LET f == (frame \div SegFrames - back) * SegFrames
    IN  /\ ~enc[e].on /\ f >= 0 /\ f < frame
        /\ known \/ odd.n < MaxOdd
        /\ enc' = [enc EXCEPT ![e] = [NoEncode EXCEPT !.on = TRUE, !.off = Broadcast(f), !.known = known,
                                        !.encodes = 1, !.at = f,
                                        !.ring = IF back > 0 THEN <<now - (frame - f)>> ELSE <<>>]]
        /\ odd' = [odd EXCEPT !.vague = @ \/ ~known, !.n = IF known THEN @ ELSE @ + 1]
        /\ UNCHANGED <<now, frame, station, said>>

\* It crashed and was started again on a later keyframe, in the same playlist. The
\* packager says how far on, when both headers gave their place.
Again(e, known) ==
    LET f == (enc[e].at \div SegFrames + 1) * SegFrames
        last == enc[e].at
        cont == known /\ ~odd.vague /\ OneClock(PtsDiff(Broadcast(f), Broadcast(last)))
    IN  /\ enc[e].on /\ enc[e].encodes = 1 /\ f <= frame /\ odd.n < MaxOdd
        /\ enc[e].mark = <<>> \/ enc[e].open = <<>>
        /\ known \/ ~odd.vague
        /\ ~(station # <<>> /\ station[1] > last /\ station[1] <= f)
        /\ enc' = [enc EXCEPT ![e].off = Broadcast(f), ![e].known = FALSE, ![e].encodes = 2, ![e].at = f,
                              ![e].segs = IF enc[e].open = <<>> THEN @
                                          ELSE Append(@, [mark |-> enc[e].mark, parts |-> enc[e].open]),
                              ![e].open = <<>>,
                              ![e].mark = IF enc[e].segs = <<>> /\ enc[e].open = <<>> THEN <<>>
                                          ELSE IF cont THEN <<"cont", f - last>> ELSE <<"break">>]
        /\ odd' = [odd EXCEPT !.vague = @ \/ ~known, !.n = @ + 1]
        /\ UNCHANGED <<now, frame, station, said>>

\* The encode writes the next frame as a part; a keyframe closes the segment, and
\* so does a jump. The window is 90 minutes and an encode nobody asks for is stopped
\* within two, so what leaves the playlist was served.
Emit(e) ==
    LET f == enc[e].at
        full == Len(enc[e].open) = SegFrames \/ (enc[e].open # <<>> /\ Jumps(f))
        segs == IF full THEN Append(enc[e].segs, [mark |-> enc[e].mark, parts |-> enc[e].open]) ELSE enc[e].segs
        kept == IF Len(segs) > KeptSegs THEN Tail(segs) ELSE segs
        mark == IF Jumps(f) /\ (segs # <<>>) THEN <<"break">> ELSE IF full THEN <<>> ELSE enc[e].mark
    IN  /\ enc[e].on /\ f < frame
        /\ kept # segs => \E l \in DOMAIN enc[e].st.walls : l[2] = kept[1].parts[1].n[2]
        /\ enc' = [enc EXCEPT ![e].segs = kept, ![e].mark = mark, ![e].at = f + 1,
                              ![e].open = Append(IF full THEN <<>> ELSE @, PartLine(e, f))]
        /\ UNCHANGED <<now, frame, station, said, odd>>

\* Another encode of the channel that has dated its pictures.
DatedSibling(e, s) == s # e /\ enc[s].on /\ enc[s].known /\ enc[s].clock.set

\* Mutant: the sibling's anchor is taken as it stands, on the other encode's clock.
SeedClockRaw(e) ==
    LET r == enc[e] IN
    IF ~r.clock.set /\ r.known /\ \E s \in Streams : DatedSibling(e, s)
    THEN LET s == enc[CHOOSE s \in Streams : DatedSibling(e, s)]
         IN  [r EXCEPT !.clock = Seed(@, s.clock.pts, s.clock.wall)]
    ELSE r

\* A new encode's first picture is put where another one has that frame; one that
\* started in the buffer is dated by when its first byte came.
SeedClock(e) ==
    LET r == enc[e] IN
    IF r.clock.set THEN r
    ELSE IF r.known /\ \E s \in Streams : DatedSibling(e, s)
    THEN LET s == enc[CHOOSE s \in Streams : DatedSibling(e, s)]
         IN  [r EXCEPT !.clock = Seed(@, (s.clock.pts + s.off - r.off) % Wrap, s.clock.wall)]
    ELSE IF r.ring # <<>> /\ ~r.dated
    THEN [r EXCEPT !.dated = TRUE, !.clock = Start(@, r.ring[1] - Behind)] ELSE r

\* A player asks for the playlist. The same playlist gets the same answer.
Serve(e) ==
    LET r == SeedClock(e)
        out == Stamp(r.st, LinesOf(e), r.clock)
    IN  /\ enc[e].on /\ LinesOf(e) # enc[e].st.last
        /\ enc' = [enc EXCEPT ![e] = [r EXCEPT !.clock = out.tl, !.st = out.st, !.shown = out.open]]
        /\ said' = [said EXCEPT ![e] = [n \in DOMAIN @ \cup DOMAIN out.st.walls |->
                                            IF n \in DOMAIN @ THEN @[n] ELSE out.st.walls[n]]]
        /\ UNCHANGED <<now, frame, station, odd>>

Next ==
    \/ Air
    \/ Reset
    \/ \E d \in 1..MaxSilence : Silence(d)
    \/ \E e \in Streams, back \in 0..1, known \in BOOLEAN : Begin(e, back, known)
    \/ \E e \in Streams, known \in BOOLEAN : Again(e, known)
    \/ \E e \in Streams : Emit(e)
    \/ \E e \in Streams : Serve(e)

Spec == Init /\ [][Next]_dateVars

--------------------------------------------------------------------------------
\* A segment's date never changes once a player was given it, and the dates of a
\* playlist never run backwards: each segment starts at or after the end of the
\* one before it, through jumps of the station's clock, silences of the tuner and
\* encodes that start again (stamp, Reanchor, Continue, Shift).
DatesHold ==
    \A e \in Streams :
        LET segs == SelectSeq(enc[e].st.last, LAMBDA l : l.k = "seg")
            date(i) == enc[e].st.walls[segs[i].n]
        IN  /\ \A i \in DOMAIN segs : date(i) = said[e][segs[i].n]
            /\ \A i \in 1..(Len(segs) - 1) : date(i + 1) >= date(i) + segs[i].dur
            /\ segs # <<>> /\ enc[e].shown # <<>> =>
                   enc[e].shown[1] >= date(Len(segs)) + segs[Len(segs)].dur

\* Encodes of a channel give the same frame the same date, also after one of them
\* was started again, as long as the station's clock and the tuner ran on and the
\* headers said where each encode starts (seedClockLocked, continuation).
SiblingsAgree ==
    (~odd.quiet /\ ~odd.vague /\ station = <<>>) =>
        \A a, b \in Streams : enc[b].clock.seeded =>
            \A n \in DOMAIN said[a] \cap DOMAIN said[b] : said[a][n] = said[b][n]
================================================================================
