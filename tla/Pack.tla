-------------------------------- MODULE Pack --------------------------------
(* The packager (live/pack.go): fragments of an encode's output become      *)
(* parts, segments and a playlist that players read while it is written.    *)
(* A fragment is a number, a body a sequence of them, a time a tick modulo   *)
(* Wrap.  `p` is what Pack keeps, its directory included; `list` the last    *)
(* playlist written, `gate` its playlistGate, `src` the encodes that feed    *)
(* it, `asked` one blocked playlist request.  A failed write ends Pack as    *)
(* Fails does; the sound trimmed from an encode's lead-in is left out.       *)
EXTENDS Integers, Sequences, SequencesExt, FiniteSets

CONSTANTS
    PartTicks, MinPart, SplitMin, SplitPart, SplitGoal, JumpTicks, LongGroup,
    LongTarget,             \* four seconds, the target where groups are long
    LongEvidence, ShortEvidence,
    TargetFloor,            \* two seconds, the least target
    Restart,                \* a minute, the longest step a restart continues
    Window, Slack,
    Listed, Kept,           \* targets for which parts are listed, and kept
    OpenCap,                \* maxOpenBytes, in fragments
    Wrap,
    Splits, SplitDurs, WholeDurs, Steps, Encodes,   \* what the encodes do
    SplitFrags, WholeFrags, MaxJumps                \* and how much of it

VARIABLES p, list, gate, due, src, asked
vars == <<p, list, gate, due, src, asked>>

None == [none |-> TRUE]
Split == src.split
Larger(x, y) == IF x > y THEN x ELSE y
Smaller(x, y) == IF x < y THEN x ELSE y

\* ptsDiff: the difference nearest to zero.
Signed(d) == IF d >= Wrap \div 2 THEN d - Wrap ELSE d
PtsDiff(x, y) == Signed((x - y) % Wrap)

Total(s) == FoldLeft(LAMBDA sum, x : sum + x.dur, 0, s)
Longest(s) == FoldLeft(LAMBDA most, x : Larger(most, x.dur), PartTicks, s)
Bytes(s) == FlattenSeq([i \in DOMAIN s |-> s[i].body])

\* Where a fragment ends; one without a length runs for half a second.
EndOf(f) == f.pts + (IF f.dur > 0 THEN f.dur ELSE PartTicks)

-----------------------------------------------------------------------------
(* Files.                                                                   *)

Seg(n) == <<"seg", n>>
Part(n) == <<"part", n>>
Ref(n) == <<"ref", n>>
Without(d, names) == [x \in DOMAIN d \ names |-> d[x]]
With(d, name, body) == [x \in DOMAIN d \cup {name} |-> IF x = name THEN body ELSE d[x]]

\* Mutant: the pointer is to the part after.
PointerPast(s, i) ==
    [seg |-> s.n, off |-> Len(Bytes(SubSeq(s.parts, 1, i))), size |-> Len(s.parts[i].body),
     total |-> Len(Bytes(s.parts))]

\* The line referParts leaves for the i-th part of segment s.
PointerAt(s, i) ==
    [seg |-> s.n, off |-> Len(Bytes(SubSeq(s.parts, 1, i - 1))), size |-> Len(s.parts[i].body),
     total |-> Len(Bytes(s.parts))]

\* referParts: each part's file gives way to a pointer into its segment.
ReferParts(d, s) ==
    FoldLeft(LAMBDA e, i : With(Without(e, {Part(s.parts[i].n)}), Ref(s.parts[i].n), PointerAt(s, i)),
             d, [i \in DOMAIN s.parts |-> i])

\* PartFromSegment, after the part's own file: what a player gets for part n.
PartFromSegment(d, n) ==
    IF Part(n) \in DOMAIN d THEN d[Part(n)]
    ELSE IF Ref(n) \notin DOMAIN d THEN <<>>
    ELSE LET r == d[Ref(n)]
             body == IF Seg(r.seg) \in DOMAIN d THEN d[Seg(r.seg)] ELSE <<>>
         IN  IF Len(body) = r.total /\ r.off + r.size <= r.total
             THEN SubSeq(body, r.off + 1, r.off + r.size) ELSE <<>>

\* partsKept: whether a segment this far from the end lists its parts (targets
\* is Listed), and whether it keeps their files (Kept).
PartsKept(fromEnd, target, targets) == fromEnd < targets * Larger(target, TargetFloor)

\* How much comes after the i-th segment.
FromEnd(closed, i) == Total(SubSeq(closed, i + 1, Len(closed)))

-----------------------------------------------------------------------------
(* closeSeg.                                                                *)

\* The open segment as a closed one, of number q.msn.
SegmentOf(q, d) ==
    [n |-> q.msn, pts |-> q.open[1].pts, dur |-> IF d <= 0 THEN PartTicks ELSE d,
     body |-> Bytes(q.open), parts |-> q.open, all |-> [i \in DOMAIN q.open |-> q.open[i].n],
     gap |-> q.gap, cont |-> q.gap /\ q.cont, step |-> q.step]

FilesOf(s) == {Seg(s.n)} \cup UNION {{Part(s.all[i]), Ref(s.all[i])} : i \in DOMAIN s.all}

\* How many segments leave the window: never all but three.
Slid(closed) ==
    CHOOSE k \in 0..Len(closed) :
        /\ Len(closed) - k <= 3 \/ FromEnd(closed, k) <= Window
        /\ \A j \in 0..k - 1 : Len(closed) - j > 3 /\ FromEnd(closed, j) > Window

\* The window slides, and old segments give up their parts' files.
Windowed(q) ==
    LET k == Slid(q.closed)
        closed == SubSeq(q.closed, k + 1, Len(q.closed))
        target == Larger(q.hold.target, Last(closed).dur)
        old(i) == closed[i].parts # <<>> /\ ~PartsKept(FromEnd(closed, i), target, Kept)
        gone == UNION {FilesOf(q.closed[j]) : j \in 1..k}
    IN  [q EXCEPT
           !.disk = FoldLeft(LAMBDA d, i : IF old(i) THEN ReferParts(d, closed[i]) ELSE d,
                             Without(@, gone), [i \in DOMAIN closed |-> i]),
           !.closed = [i \in DOMAIN closed |->
                         IF old(i) THEN [closed[i] EXCEPT !.parts = <<>>] ELSE closed[i]]]

\* closeSeg: the open segment ends at `end`.
CloseSeg(q, end) ==
    IF q.open = <<>> THEN q
    ELSE LET s == SegmentOf(q, PtsDiff(end, q.open[1].pts))
         IN  Windowed([q EXCEPT !.disk = With(@, Seg(s.n), s.body), !.closed = Append(@, s),
                                !.msn = @ + 1, !.open = <<>>, !.gap = FALSE, !.cont = FALSE, !.step = 0])

-----------------------------------------------------------------------------
(* place: one part goes to disk.                                            *)

\* continuation, for an encode that took over the playlist.
Continues(q, f, end) ==
    LET step == PtsDiff(f.pts + q.enc.start, end + q.prev.start)
    IN  /\ f.handover /\ q.prev.known /\ q.enc.known
        /\ step >= -PartTicks /\ step <= Restart

Expected(q) == q.last.pts + Larger(q.last.dur, 0)

Breaks(d) == d < -PartTicks \/ d > JumpTicks

Jumped(q, f) == q.last # None /\ (Breaks(PtsDiff(f.pts, Expected(q))) \/ f.handover)

\* A jump closes the segment where its last picture ended.
AfterJump(q, f) ==
    IF ~Jumped(q, f) THEN q
    ELSE LET end == Expected(q)
             cont == Continues(q, f, end)
             step == PtsDiff(f.pts + q.enc.start, end + q.prev.start)
         IN  [CloseSeg(q, end) EXCEPT !.gap = TRUE, !.cont = cont,
                                      !.step = IF cont THEN Larger(step, 0) ELSE 0]

\* noteFirstSegment: the encode whose first part this is, and its offset.
NoteFirstSegment(q, f) ==
    IF f.fresh /\ q.open = <<>>
    THEN [q EXCEPT !.spans = Append(@, [seq |-> q.msn, offset |-> q.enc.start, ok |-> q.enc.known])]
    ELSE q

\* A part without a length ends where the next one starts.
LengthKnown(q, f) ==
    LET i == Len(q.open)
        step == PtsDiff(f.pts, q.open[i].pts)
    IN  IF q.open[i].dur = 0 /\ step > 0 THEN [q EXCEPT !.open[i].dur = step] ELSE q

\* Mutant: a short last part does not close the segment.
KeyClosesLong(q, f) == f.sync /\ PtsDiff(f.pts, q.open[1].pts) >= PartTicks

\* A keyframe closes a segment that is long enough or ends in a short part.
KeyCloses(q, f) ==
    /\ f.sync
    /\ (Split /\ Last(q.open).dur < SplitMin) \/ PtsDiff(f.pts, q.open[1].pts) >= PartTicks

AtKey(q, f, jumped) ==
    IF jumped \/ q.open = <<>> THEN q
    ELSE LET r == LengthKnown(q, f) IN IF KeyCloses(r, f) THEN CloseSeg(r, f.pts) ELSE r

\* A run without a keyframe is cut where its last part ends.
Capped(q, f) ==
    IF q.open # <<>> /\ Len(Bytes(q.open)) + Len(f.body) > OpenCap
    THEN CloseSeg(q, EndOf(Last(q.open))) ELSE q

Put(q, f) ==
    [q EXCEPT !.allSync = @ /\ (q.open = <<>> => f.sync),
              !.last = [pts |-> f.pts, dur |-> f.dur], !.partN = @ + 1,
              !.disk = With(@, Part(q.partN), f.body),
              !.open = Append(@, [n |-> q.partN, pts |-> f.pts, dur |-> f.dur, body |-> f.body,
                                  sync |-> f.sync])]

\* A whole group that ends past half a second closes the segment now.
CloseWhole(q, f) ==
    IF ~Split /\ f.sync /\ f.dur > 0 /\ PtsDiff(f.pts + f.dur, q.open[1].pts) >= PartTicks
    THEN CloseSeg(q, f.pts + f.dur) ELSE q

Place(q, f) ==
    CloseWhole(Put(Capped(AtKey(NoteFirstSegment(AfterJump(q, f), f), f, Jumped(q, f)), f), f), f)

-----------------------------------------------------------------------------
(* take: a fragment is placed, held for the next one, or joined to it.      *)
(* `work` is what a fragment gives place, in order; `held` the short        *)
(* keyframe or the part being gathered, with the marks it came with.        *)

\* spanCover: the interval that contains both.
SpanCover(x, y) ==
    LET pts == IF PtsDiff(y.pts, x.pts) < 0 THEN y.pts ELSE x.pts
    IN  [pts |-> pts, dur |-> Larger(0, Larger(PtsDiff(x.pts, pts) + x.dur, PtsDiff(y.pts, pts) + y.dur))]

\* Mutant: a held fragment is forgotten when a new timeline starts.
PlaceHeldLost(q) == [q EXCEPT !.held = None]

\* placeShort, placeAcc.
PlaceHeld(q) ==
    IF q.held = None THEN q ELSE [q EXCEPT !.held = None, !.work = Append(@, q.held)]

\* A fragment that takes the encode's marks with it.
Marked(q, f) == [pts |-> f.pts, dur |-> f.dur, sync |-> f.sync, body |-> f.body,
                 fresh |-> q.fresh, handover |-> q.handover]
Unmarked(q) == [q EXCEPT !.fresh = FALSE, !.handover = FALSE]
Hold(q, f) == [Unmarked(q) EXCEPT !.held = Marked(q, f)]

\* Whether f starts a new timeline after what is held.
Apart(q, f) == q.fresh \/ q.handover \/ Breaks(PtsDiff(f.pts, q.held.pts + q.held.dur))

\* closes: a keyframe at f closes the open segment.
Closes(q, f) ==
    PtsDiff(f.pts, IF q.open # <<>> THEN q.open[1].pts ELSE q.held.pts) >= PartTicks

\* A picture joins the part being gathered.
Merges(q, f) ==
    LET h == q.held
        long == h.dur + f.dur > SplitPart
    IN  /\ ~Apart(q, f) /\ Len(h.body) + Len(f.body) <= OpenCap
        /\ IF f.sync THEN h.dur < SplitMin /\ (h.sync \/ ~Closes(q, f))
           ELSE ~long /\ (h.dur < SplitMin \/ 2 * h.dur + f.dur < 2 * q.goal)

\* The last group of pictures, split evenly.
GoalFor(group) ==
    LET n == Larger(1, (group + SplitGoal \div 2) \div SplitGoal)
    IN  Smaller(Larger(group \div n, SplitMin), SplitPart)

AtGroup(q, f) ==
    IF ~f.sync THEN q
    ELSE LET group == PtsDiff(f.pts, q.lastKey)
         IN  [q EXCEPT !.lastKey = f.pts,
                       !.goal = IF q.lastKey >= 0 /\ group > 0 /\ group < JumpTicks
                                THEN GoalFor(group) ELSE @]

\* gather: a fragment of an encode that writes one per picture.
Gather(q, f) ==
    IF ~f.picture
    THEN IF q.held # None /\ Len(q.held.body) + Len(f.body) <= OpenCap
         THEN [q EXCEPT !.held.body = @ \o f.body] ELSE q
    ELSE IF q.held # None /\ Merges(q, f)
    THEN [q EXCEPT !.held.body = @ \o f.body, !.held.dur = @ + f.dur,
                   !.held.pts = IF PtsDiff(f.pts, @) < 0 THEN f.pts ELSE @]
    ELSE Hold(AtGroup(PlaceHeld(q), f), f)

\* A short keyframe goes out in front of f, in one part, with its own marks.
Joined(q, f) ==
    LET h == q.held
        span == IF f.dur > 0 THEN SpanCover(h, f) ELSE [pts |-> h.pts, dur |-> f.dur]
    IN  [pts |-> span.pts, dur |-> span.dur, sync |-> TRUE, body |-> h.body \o f.body]

\* Held again, if it is still short, or placed.
PlaceOrHold(q, f) ==
    IF f.sync /\ f.dur > 0 /\ f.dur < MinPart /\ Len(f.body) <= OpenCap THEN Hold(q, f)
    ELSE [Unmarked(q) EXCEPT !.work = Append(@, Marked(q, f))]

TakeWhole(q, f) ==
    IF q.held = None THEN PlaceOrHold(q, f)
    ELSE IF Apart(q, f) THEN PlaceOrHold(PlaceHeld(q), f)
    ELSE PlaceOrHold([q EXCEPT !.held = None, !.fresh = q.held.fresh, !.handover = q.held.handover],
                     Joined(q, f))

Take(q, f) == IF Split THEN Gather(q, f) ELSE TakeWhole(q, f)

\* A takeover encode's fragment from before the lead's end.
Skipped(q, f) ==
    q.skipTo >= 0 /\ (~f.picture \/ PtsDiff(f.pts, q.skipTo) < -Slack \/ ~f.sync)

\* Its first keyframe after that: the lead's next picture continues it.
Joins(q, f) ==
    IF q.skipTo < 0 THEN q
    ELSE [q EXCEPT !.skipTo = -1, !.handover = @ /\ PtsDiff(f.pts, q.skipTo) > Slack]

\* Whether the fragment's bytes are kept.
Carried(q, f) == ~Skipped(q, f) /\ (f.picture \/ (Split /\ q.held # None /\ Len(q.held.body) < OpenCap))

-----------------------------------------------------------------------------
(* writePackedOpen: the playlist.                                           *)

\* judge: what the channel is known for once enough was seen.
Verdict(q) ==
    LET long == Cardinality({i \in DOMAIN q.closed : q.closed[i].dur > LongGroup})
    IN  IF long >= LongEvidence THEN 2
        ELSE IF long = 0 /\ Len(q.closed) >= ShortEvidence THEN 1 ELSE 0

Judged(q) ==
    LET v == Verdict(q)
    IN  IF v = 0 \/ v = gate.said THEN gate ELSE [gate EXCEPT !.said = v, !.long = v = 2]

\* The target, which only grows; a channel of long groups starts at four seconds.
Target(q, g) ==
    LET longest == Larger(Longest(q.closed), Longest(q.open))
        first == q.hold.target = 0 /\ (longest > LongGroup \/ g.long)
    IN  Larger(q.hold.target, Larger(Larger(longest, TargetFloor), IF first THEN LongTarget ELSE 0))

\* PART-TARGET: fixed for a split encode, else just under the target.
PartTarget(q, target) ==
    Larger(q.hold.part, IF Split THEN SplitPart ELSE Smaller(Larger(Longest(q.open), target - 1), target))

\* A segment with a part past PART-TARGET lists none.
Fits(parts, most) == \A i \in DOMAIN parts : parts[i].dur <= most

Playlist(q, target, most) ==
    LET lists(i) == /\ Fits(q.closed[i].parts, most)
                    /\ PartsKept(FromEnd(q.closed, i) + Total(q.open), target, Listed)
        row(s, shown) == [n |-> s.n, body |-> s.body, gap |-> s.gap, cont |-> s.cont, step |-> s.step,
                          parts |-> IF shown THEN s.parts ELSE <<>>]
    IN  [target |-> target, part |-> most, origin |-> q.msn - Len(q.closed),
         segs |-> [i \in DOMAIN q.closed |-> row(q.closed[i], lists(i))],
         open |-> IF Fits(q.open, most) THEN q.open ELSE <<>>, hint |-> q.partN]

\* What the gate is told of the last four segments.
Recent(q, most) ==
    LET n == Len(q.closed)
        four == SubSeq(q.closed, Larger(1, n - 3), n)
    IN  [i \in DOMAIN four |-> IF Fits(four[i].parts, most) THEN Len(four[i].parts) ELSE 0]

\* Mutant: a part past a closed segment's last one is there already.
ReadyEarly(g, msn, part) == msn < g.msn \/ (msn = g.msn /\ g.open > part)

\* ready: the playlist holds what was asked for.  A part past a closed segment's
\* last one is the first of the next.
Ready(g, msn, part) ==
    LET parts(k) == LET i == Len(g.closed) - (g.msn - 1 - k) IN IF i >= 1 THEN g.closed[i] ELSE 0
        past == msn < g.msn /\ parts(msn) # 0 /\ part >= parts(msn)
        there(k, i) == k < g.msn \/ (k = g.msn /\ g.open > i)
    IN  IF past THEN there(msn + 1, 0) ELSE there(msn, part)

\* What a playlist shows, in fragments.
Shown(l) ==
    IF l = None THEN 0
    ELSE LET all == FlattenSeq([i \in DOMAIN l.segs |-> l.segs[i].body]) \o Bytes(l.open)
         IN  IF all = <<>> THEN 0 ELSE Last(all)

-----------------------------------------------------------------------------
(* Behaviour.                                                               *)

Init ==
    /\ p = [open |-> <<>>, closed |-> <<>>, partN |-> 0, msn |-> 0, disk |-> <<>>, work |-> <<>>,
            gap |-> FALSE, cont |-> FALSE, step |-> 0, last |-> None, lastKey |-> -1,
            enc |-> [start |-> 0, known |-> TRUE], prev |-> [start |-> 0, known |-> FALSE],
            sole |-> TRUE, takeover |-> FALSE, handover |-> FALSE, fresh |-> TRUE,
            skipTo |-> -1, decEnd |-> -1, allSync |-> TRUE, held |-> None, goal |-> SplitGoal,
            hold |-> [target |-> 0, part |-> 0], spans |-> <<>>]
    /\ list = None
    /\ gate \in [msn : {0}, open : {0}, closed : {<<>>}, long : BOOLEAN, said : {0}]
    /\ due = FALSE /\ asked = None
    /\ src \in [split : Splits, durs : SplitDurs \cup WholeDurs, at : {0}, n : {0}, jumps : {0},
                took : {<<>>}, state : {"reads"}]
    /\ src.durs \in IF src.split THEN SplitDurs ELSE WholeDurs
    /\ src.split => ~gate.long

Reading == ~due /\ p.work = <<>> /\ src.state = "reads"

\* Pack's loop reads a fragment: `step` on from the last one's end.
ReadFragment(sync, dur, step, picture) ==
    LET n == src.n + 1
        f == [pts |-> (src.at + step - p.enc.start) % Wrap, dur |-> dur, sync |-> sync,
              picture |-> picture, body |-> <<n>>]
        joined == Joins(p, f)
        read == IF picture THEN [joined EXCEPT !.decEnd = f.pts + dur] ELSE joined
    IN  /\ Reading /\ n <= IF Split THEN SplitFrags ELSE WholeFrags
        /\ step # 0 => p.handover \/ src.jumps < MaxJumps
        /\ ~picture => Split /\ ~sync /\ step = 0
        /\ src' = [src EXCEPT !.at = @ + (IF picture THEN step + dur ELSE 0), !.n = n,
                              !.jumps = @ + (IF step = 0 \/ p.handover THEN 0 ELSE 1),
                              !.took = IF Carried(p, f) THEN Append(@, n) ELSE @]
        /\ p' = IF Skipped(p, f) THEN p ELSE Take(read, f)
        /\ UNCHANGED <<list, gate, due, asked>>

\* place for the next of what was read.
PlaceNext ==
    /\ ~due /\ p.work # <<>>
    /\ p' = Place([p EXCEPT !.work = Tail(@)], Head(p.work)) /\ due' = TRUE
    /\ UNCHANGED <<list, gate, src, asked>>

\* flush: the playlist is renamed into place and the gate told.
Flush ==
    LET g == Judged(p)
        target == Target(p, g)
        most == PartTarget(p, target)
        l == Playlist(p, target, most)
    IN  /\ due /\ due' = FALSE
        /\ list' = l
        /\ gate' = [g EXCEPT !.msn = p.msn, !.open = Len(l.open), !.closed = Recent(p, most)]
        /\ p' = [p EXCEPT !.hold = [target |-> target, part |-> most]]
        /\ UNCHANGED <<src, asked>>

\* Mutant: the new encode's time is taken for the first one's.
NotedSole(start, known, beside) == known

\* noteEncodeStart: whether one offset still dates the whole playlist.
Sole(start, known, beside) == beside /\ p.sole /\ p.enc.known /\ known /\ start = p.enc.start

\* errNextEncode and the next encode's header.  One beside a lead began with it
\* and takes over where it ended.
NextEncode(start, known, beside) ==
    /\ Reading /\ src.n > 0 /\ src.jumps < MaxJumps
    /\ p' = [p EXCEPT !.sole = Sole(start, known, beside), !.takeover = beside,
                      !.prev = p.enc, !.enc = [start |-> start, known |-> known],
                      !.fresh = TRUE, !.handover = TRUE,
                      !.skipTo = IF beside /\ p.decEnd >= 0
                                 THEN (p.decEnd + p.enc.start - start) % Wrap ELSE -1]
    /\ src' = [src EXCEPT !.at = IF beside THEN start ELSE @, !.jumps = @ + 1]
    /\ UNCHANGED <<list, gate, due, asked>>

\* Pack gives up: the next header describes other streams, a box is too large, or
\* the directory goes away (errAbandoned).  What is held is not written.
Fails ==
    /\ Reading /\ src' = [src EXCEPT !.state = "over"]
    /\ UNCHANGED <<p, list, gate, due, asked>>

\* The end of the last encode's output: what is held is placed ...
EndOfInput ==
    /\ Reading /\ src' = [src EXCEPT !.state = "ending"]
    /\ p' = PlaceHeld(p)
    /\ UNCHANGED <<list, gate, due, asked>>

\* ... and the open segment closed.
CloseLast ==
    /\ src.state = "ending" /\ ~due /\ p.work = <<>> /\ p.open # <<>>
    /\ p' = CloseSeg(p, EndOf(Last(p.open))) /\ due' = TRUE
    /\ src' = [src EXCEPT !.state = "over"]
    /\ UNCHANGED <<list, gate, asked>>

\* block: a player asks for the part after the playlist it has.
Block ==
    /\ asked = None /\ list # None /\ Reading
    /\ asked' = [msn |-> list.origin + Len(list.segs), part |-> Len(list.open), had |-> Shown(list)]
    /\ UNCHANGED <<p, list, gate, due, src>>

\* It is answered with the playlist of then: what was asked for is there, the hold
\* ends, the player leaves, or another playlist serves (retire).
Unblock ==
    /\ asked # None /\ asked' = None
    /\ UNCHANGED <<p, list, gate, due, src>>

Next ==
    \/ \E sync, picture \in BOOLEAN, dur \in src.durs, step \in Steps : ReadFragment(sync, dur, step, picture)
    \/ \E e \in Encodes : NextEncode(e[1], e[2], e[3])
    \/ PlaceNext \/ Flush \/ Fails \/ EndOfInput \/ CloseLast
    \/ Block \/ Unblock

Spec == Init /\ [][Next]_vars

-----------------------------------------------------------------------------
(* Properties.                                                              *)

\* What is in files, held or on its way is what the encodes sent, in order and
\* once, through jumps, new encodes and the sliding window (place, gather).
InOrderOnce ==
    LET kept == FlattenSeq([i \in DOMAIN p.closed |-> p.disk[Seg(p.closed[i].n)]])
        open == FlattenSeq([i \in DOMAIN p.open |-> p.disk[Part(p.open[i].n)]])
        held == IF p.held = None THEN <<>> ELSE p.held.body
    IN  IsSuffix(kept \o open \o Bytes(p.work) \o held, src.took)

Serves(parts) == \A i \in DOMAIN parts : PartFromSegment(p.disk, parts[i].n) = parts[i].body

\* Whatever the playlist lists and the window still holds is served as listed,
\* and so is every part a segment ever listed (closeSeg, referParts).
ListedIsServed ==
    /\ list # None =>
         /\ Serves(list.open)
         /\ \A i \in DOMAIN list.segs :
               list.segs[i].n >= p.msn - Len(p.closed) =>
                  /\ p.disk[Seg(list.segs[i].n)] = list.segs[i].body
                  /\ Serves(list.segs[i].parts)
    /\ \A i \in DOMAIN p.closed :
          LET s == p.closed[i]
          IN  FlattenSeq([j \in DOMAIN s.all |-> PartFromSegment(p.disk, s.all[j])]) = p.disk[Seg(s.n)]

\* No listed part is past PART-TARGET, and of a split encode only a segment's
\* last is under 85 % of it (gather, place).
PartsEven ==
    LET even(parts) == \A i \in DOMAIN parts :
            /\ parts[i].dur <= list.part
            /\ Split /\ i < Len(parts) => parts[i].dur >= SplitMin
    IN  list # None => even(list.open) /\ \A i \in DOMAIN list.segs : even(list.segs[i].parts)

\* When what a blocked request asked for is there, the playlist goes on from the
\* one the player has (ready, publish).
AnsweredGoesOn == asked # None /\ Ready(gate, asked.msn, asked.part) => Shown(list) > asked.had

\* While one offset is said to date the playlist, it dates every segment of it
\* (noteEncodeStart, broadcastOffset).
OneOffset == p.sole => \A i \in DOMAIN p.spans : p.spans[i].ok /\ p.spans[i].offset = p.enc.start
=============================================================================
