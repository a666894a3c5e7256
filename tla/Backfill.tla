------------------------------ MODULE Backfill ------------------------------
(***************************************************************************)
(* One reader of a multiplex that starts in the past: a recording that     *)
(* began after its show (backfill) or an encode that starts behind live    *)
(* (joinLive), in server/internal/live.                                    *)
(*                                                                         *)
(* The reader copies the ring outside every lock, then joins the live      *)
(* fan-out at the byte it reached.  Meanwhile the tuner appends and offers *)
(* chunks, the ring moves bytes to disk and drops them, the recording is   *)
(* stopped or extended, and the tune may end.  The ring is the Tape that   *)
(* Ring implements.  The clock is the tuner: a time is a byte position.    *)
(***************************************************************************)
EXTENDS Tape, Sequences, FiniteSets

CONSTANTS
    QueueCap,       \* pipeQueueCap: bytes a subscriber may be behind
    MaxGen          \* bound: stop timers one recording arms

ASSUME BackfillAssumption == QueueCap \in Nat /\ MaxGen \in Nat \ {0}

VARIABLES
    kind,       \* "recording" (backfill) or "live" (joinLive)
    rpc,        \* where the reader's goroutine is
    first,      \* the position it was asked to start at
    pos, to,    \* its locals: next byte, and the end of this Copy
    fileTo,     \* end of the file piece it is reading, or 0
    mySub,      \* backfill's local sub is not nil
    open,       \* the writer (rec.stdin, sub.w) accepts bytes
    out,        \* history: what was written
    skipped,    \* history: bytes given up, each logged or by design
    joined,     \* the subscriber is in m.pipes
    queue,      \* the bytes in its channel
    delivering, \* its deliver goroutine runs
    stopped,    \* its done channel is closed
    hasSub,     \* rec.sub is set
    offering,   \* the chunk readLoop is handing to it after noteLead
    shut,       \* m.closed
    finished, backfilling, ends, gen,
    timer,      \* the armed stop timer, or 0
    callbacks,  \* timers that fired and wait for h.mu
    timedOut    \* history: the stop timer ended the recording

reader == <<kind, rpc, first, pos, to, fileTo, mySub>>
fanout == <<joined, queue, delivering, stopped, offering, shut>>
rec == <<hasSub, finished, backfilling, ends, gen, timer, callbacks, timedOut>>
written == <<open, out, skipped>>
vars == <<tape, reader, fanout, rec, written>>

Kinds == {"recording", "live"}
Pcs == {"none", "from", "copy", "join", "gone", "gap", "end", "done"}

\* The bytes lo..hi-1, in order.
Run(lo, hi) == [i \in 1..(IF hi > lo THEN hi - lo ELSE 0) |-> lo + i - 1]
Bytes(s) == {s[i] : i \in DOMAIN s}

Init ==
    /\ TapeInit
    /\ kind = "recording" /\ rpc = "none" /\ first = 0 /\ pos = 0 /\ to = 0
    /\ fileTo = 0 /\ mySub = FALSE
    /\ open = TRUE /\ out = <<>> /\ skipped = {}
    /\ joined = FALSE /\ queue = <<>> /\ delivering = FALSE
    /\ stopped = FALSE /\ offering = <<>> /\ shut = FALSE
    /\ hasSub = FALSE /\ finished = FALSE /\ backfilling = FALSE
    /\ ends = 0 /\ gen = 0 /\ timer = 0 /\ callbacks = {} /\ timedOut = FALSE

\* No goroutine is inside one of the h.mu sections modelled as two steps:
\* finishRecordingLocked, and the end of stopFeedLocked.
HubFree == ~(finished /\ open) /\ ~(closed /\ ~shut)

-----------------------------------------------------------------------------
(* The tuner's read loop and the ring under it.                             *)

\* noteLead: ring.Append and the snapshot of subscribers, under pipeMu.
NoteLead(n) ==
    /\ offering = <<>>
    /\ Take(n)
    /\ offering' = IF joined THEN Run(received, received + n) ELSE <<>>
    /\ UNCHANGED <<reader, rec, written, joined, queue, delivering, stopped, shut>>

\* pipeSub.offer: a reader too far behind loses the chunk.
Offer ==
    /\ offering # <<>>
    /\ offering' = <<>>
    /\ IF Len(queue) + Len(offering) <= QueueCap
       THEN queue' = queue \o offering /\ UNCHANGED skipped
       ELSE skipped' = skipped \cup Bytes(offering) /\ UNCHANGED queue
    /\ UNCHANGED <<tape, reader, rec, open, out, joined, delivering, stopped, shut>>

\* The ring's flusher, at any time.
RingMoves ==
    /\ \E s, f \in 0..received : Move(s, f)
    /\ UNCHANGED <<reader, fanout, rec, written>>

-----------------------------------------------------------------------------
(* The reader.                                                              *)

\* RecordMeta with a start in the ring, or attachRenditionLocked.
Start(k, p, e) ==
    /\ rpc = "none" /\ HubFree /\ ~shut
    /\ IF k = "recording" THEN start <= p /\ p < received /\ e > p
                          ELSE p <= received /\ e = 0
    /\ kind' = k /\ rpc' = "from" /\ first' = p /\ pos' = p /\ ends' = e
    /\ hasSub' = (k = "live") /\ backfilling' = (k = "recording")
    /\ UNCHANGED <<tape, fanout, written, to, fileTo, mySub, finished, gen,
                   timer, callbacks, timedOut>>

\* Copy(w, pos, Received()) begins.
CopyFrom ==
    /\ rpc = "from"
    /\ to' = received
    /\ rpc' = IF closed THEN "gone" ELSE "copy"
    /\ UNCHANGED <<tape, fanout, rec, written, kind, first, pos, fileTo, mySub>>

\* Writing n bytes: past a closed writer the copy ends with its error.
WriteOut(n) ==
    IF open
    THEN /\ out' = out \o Run(pos, pos + n) /\ pos' = pos + n
         /\ fileTo' = IF pos + n >= fileTo THEN 0 ELSE fileTo
         /\ UNCHANGED <<rpc, mySub, open, skipped>>
    ELSE /\ rpc' = IF kind = "recording" THEN "end" ELSE "done"
         /\ mySub' = FALSE /\ fileTo' = 0
         /\ UNCHANGED <<out, pos, open, skipped>>

Lost(p) == closed \/ p < start \/ p >= received

\* CopyBuffer's loop, from memory.
CopyMemory(n) ==
    /\ rpc = "copy" /\ fileTo = 0 /\ pos < to
    /\ ~Lost(pos) /\ flushed <= pos /\ pos + n <= to
    /\ WriteOut(n)
    /\ UNCHANGED <<tape, fanout, rec, kind, first, to>>

\* CopyBuffer's loop, from the file that holds pos: found under the lock...
FindFile(e) ==
    /\ rpc = "copy" /\ fileTo = 0 /\ pos < to
    /\ ~Lost(pos) /\ pos < flushed /\ pos < e /\ e <= flushed /\ e <= to
    /\ fileTo' = e
    /\ UNCHANGED <<tape, fanout, rec, written, kind, rpc, first, pos, to, mySub>>

\* ...and read outside it, even if the ring has dropped it meanwhile.
CopyFile(n) ==
    /\ rpc = "copy" /\ pos + n <= fileTo
    /\ WriteOut(n)
    /\ UNCHANGED <<tape, fanout, rec, kind, first, to>>

\* ErrGone: the ring no longer has pos, or its file cannot be read.
CopyGone ==
    /\ rpc = "copy" /\ pos < to
    /\ Lost(pos) \/ fileTo > 0
    /\ rpc' = "gone" /\ fileTo' = 0
    /\ UNCHANGED <<tape, fanout, rec, written, kind, first, pos, to, mySub>>

Copied ==
    /\ rpc = "copy" /\ fileTo = 0 /\ pos >= to
    /\ rpc' = "join"
    /\ UNCHANGED <<tape, fanout, rec, written, kind, first, pos, to, fileTo, mySub>>

\* Mutant: a closed ring is asked again instead of joining at the live edge.
AskAgain(next) == rpc' = "from" /\ UNCHANGED <<pos, skipped>>

\* Mutant: the answer "no such position" is taken for a position.
SkipToAny(next) ==
    IF kind = "live" THEN rpc' = "gap" /\ UNCHANGED <<pos, skipped>>
    ELSE rpc' = "from" /\ pos' = next /\ UNCHANGED skipped

\* backfill after ErrGone: on to the oldest byte the ring can find, or give up
\* on the buffer.  joinLive always gives up on it.
AfterGone(next) ==
    IF kind = "live" \/ next <= pos
    THEN rpc' = "gap" /\ UNCHANGED <<pos, skipped>>
    ELSE /\ rpc' = "from" /\ pos' = next
         /\ skipped' = skipped \cup pos..(next - 1)

\* ring.Position of the zero time is a held position, or none (here -1).
Gone(next) ==
    /\ rpc = "gone"
    /\ next = -1 \/ (~closed /\ start <= next /\ next < received)
    /\ AfterGone(next)
    /\ UNCHANGED <<tape, fanout, rec, open, out, kind, first, to, fileTo, mySub>>

AfterJoin == IF kind = "recording" THEN "end" ELSE "done"

\* A tune that has ended takes no subscriber: its writer is closed.
TooLate ==
    /\ shut
    /\ rpc' = AfterJoin /\ mySub' = TRUE /\ open' = FALSE
    /\ stopped' = (stopped \/ kind = "recording")
    /\ UNCHANGED <<out, skipped, joined, queue, delivering>>

Subscribe(head) ==
    /\ ~shut
    /\ rpc' = AfterJoin /\ mySub' = TRUE
    /\ joined' = TRUE /\ queue' = head /\ delivering' = TRUE

\* Mutant: the head is all the ring has in memory.
WholeMemory(p) == Run(flushed, received)

\* The bytes PendingFrom copies: those of [p, Received) in memory.
Rest(p) == Run(IF p < flushed THEN flushed ELSE p, received)

\* Mutant: the head is taken although the ring has moved some of it to disk.
InReach(p) == ~closed /\ p <= received

\* PendingFrom answers: all of [p, Received) is still in memory.
InMemory(p) == ~closed /\ flushed <= p /\ p <= received

\* join with head, then isShut: one step, since pipeMu orders it against
\* noteLead and shut.
Join ==
    /\ rpc = "join"
    /\ \/ TooLate
       \/ InMemory(pos) /\ Subscribe(Rest(pos)) /\ UNCHANGED written /\ UNCHANGED stopped
       \/ /\ ~shut /\ ~InMemory(pos)
          /\ rpc' = "from"
          /\ UNCHANGED <<written, mySub, joined, queue, delivering, stopped>>
    /\ UNCHANGED <<tape, rec, kind, first, pos, to, fileTo, offering, shut>>

\* attachPipe at the live edge: everything up to now is the gap.
JoinLiveEdge ==
    /\ rpc = "gap"
    /\ \/ TooLate
       \/ /\ Subscribe(<<>>)
          /\ skipped' = skipped \cup pos..(received - 1)
          /\ UNCHANGED <<open, out, stopped>>
    /\ UNCHANGED <<tape, rec, kind, first, pos, to, fileTo, offering, shut>>

Arm == gen' = gen + 1 /\ timer' = gen + 1

\* Mutant: the backfill does not look whether its recording ended.
EndBlindly ==
    /\ rpc = "end" /\ HubFree
    /\ rpc' = "done" /\ backfilling' = FALSE
    /\ hasSub' = mySub /\ Arm
    /\ UNCHANGED <<tape, written, kind, first, pos, to, fileTo, mySub, queue,
                   delivering, offering, shut, finished, ends, callbacks,
                   timedOut, joined, stopped>>

EndBackfill ==
    /\ rpc = "end" /\ HubFree
    /\ rpc' = "done" /\ backfilling' = FALSE
    /\ IF finished
       THEN /\ joined' = (joined /\ ~mySub) /\ stopped' = (stopped \/ mySub)
            /\ UNCHANGED <<hasSub, gen, timer>>
       ELSE /\ hasSub' = mySub /\ Arm
            /\ UNCHANGED <<joined, stopped>>
    /\ UNCHANGED <<tape, written, kind, first, pos, to, fileTo, mySub, queue,
                   delivering, offering, shut, finished, ends, callbacks, timedOut>>

-----------------------------------------------------------------------------
(* The subscriber's deliver goroutine.                                      *)

LetGo == delivering' = FALSE /\ joined' = FALSE /\ open' = FALSE

Deliver ==
    /\ delivering /\ queue # <<>>
    /\ queue' = Tail(queue)
    /\ \/ open /\ out' = Append(out, queue[1]) /\ UNCHANGED <<open, joined, delivering>>
       \/ LetGo /\ UNCHANGED out      \* the write failed
    /\ UNCHANGED <<tape, reader, rec, skipped, stopped, offering, shut>>

DeliverStops ==
    /\ delivering /\ stopped
    /\ LetGo
    /\ UNCHANGED <<tape, reader, rec, out, skipped, queue, stopped, offering, shut>>

-----------------------------------------------------------------------------
(* The hub: stopping, extending, and the end of the tune.                   *)

\* finishRecordingLocked up to detach(rec.sub), or stopRenditionLocked.
FinishLocked ==
    /\ finished' = TRUE /\ timer' = 0
    /\ joined' = (joined /\ ~hasSub) /\ stopped' = (stopped \/ hasSub)

Running == rpc # "none" /\ ~finished

\* StopRecord, the tuner stopping, or the screen leaving.
Stop ==
    /\ Running /\ HubFree
    /\ FinishLocked
    /\ UNCHANGED <<tape, reader, written, queue, delivering, offering, shut,
                   hasSub, backfilling, ends, gen, callbacks, timedOut>>

\* rec.stdin.Close, the end of the same section.
CloseInput ==
    /\ finished /\ open
    /\ open' = FALSE
    /\ UNCHANGED <<tape, reader, fanout, rec, out, skipped>>

TimerFires ==
    /\ timer # 0 /\ received >= ends
    /\ callbacks' = callbacks \cup {timer} /\ timer' = 0
    /\ UNCHANGED <<tape, reader, fanout, written, hasSub, finished, backfilling,
                   ends, gen, timedOut>>

\* Mutant: any stop timer that ever fired ends the recording.
AnyTimer(g) == TRUE

Current(g) == g = gen

\* finishRecordingGen.
TimerCallback(g) ==
    /\ g \in callbacks /\ HubFree
    /\ callbacks' = callbacks \ {g}
    /\ IF Running /\ Current(g)
       THEN FinishLocked /\ timedOut' = TRUE
       ELSE UNCHANGED <<finished, timer, joined, stopped, timedOut>>
    /\ UNCHANGED <<tape, reader, written, queue, delivering, offering, shut,
                   hasSub, backfilling, ends, gen>>

\* ExtendRecording: a backfilling recording arms its timer later.
Extend(e) ==
    /\ kind = "recording" /\ Running /\ HubFree /\ gen < MaxGen
    /\ ends < e /\ ends' = e
    /\ IF backfilling THEN UNCHANGED <<gen, timer>> ELSE Arm
    /\ UNCHANGED <<tape, reader, fanout, written, hasSub, finished, backfilling,
                   callbacks, timedOut>>

\* stopFeedLocked of the last feed: recordings on it have been finished.
CloseRing ==
    /\ HubFree /\ (kind = "recording" /\ rpc # "none") => finished
    /\ CloseTape
    /\ UNCHANGED <<reader, fanout, rec, written>>

\* shut, and stop for each subscriber it returned.
ShutFanout ==
    /\ closed /\ ~shut
    /\ shut' = TRUE /\ stopped' = (stopped \/ joined)
    /\ UNCHANGED <<tape, reader, rec, written, joined, queue, delivering, offering>>

-----------------------------------------------------------------------------
Reader ==
    \/ CopyFrom \/ Copied \/ CopyGone \/ Join \/ JoinLiveEdge \/ EndBackfill
    \/ \E n \in 1..MaxPos : CopyMemory(n) \/ CopyFile(n)
    \/ \E e \in 1..MaxPos : FindFile(e)
    \/ \E next \in -1..MaxPos : Gone(next)

Hub ==
    \/ Stop \/ CloseInput \/ ShutFanout \/ CloseRing
    \/ \E g \in 1..MaxGen : TimerCallback(g)
    \/ \E e \in 1..MaxPos : Extend(e)

Next ==
    \/ \E n \in 1..MaxChunk : NoteLead(n)
    \/ Offer \/ RingMoves
    \/ \E k \in Kinds, p, e \in 0..MaxPos : Start(k, p, e)
    \/ Reader \/ Deliver \/ DeliverStops \/ TimerFires \/ Hub

Spec == Init /\ [][Next]_vars

\* Every goroutine is scheduled; the ones that end a section finish it.
Fairness ==
    /\ WF_vars(Offer) /\ WF_vars(Reader)
    /\ WF_vars(Deliver) /\ SF_vars(DeliverStops)
    /\ WF_vars(CloseInput) /\ WF_vars(ShutFanout) /\ WF_vars(TimerFires)
    /\ WF_vars(\E g \in 1..MaxGen : TimerCallback(g))

FairSpec == Spec /\ Fairness

-----------------------------------------------------------------------------
(* Properties.                                                              *)

Pos == 0..MaxPos

TypeOK ==
    /\ start \in Pos /\ flushed \in Pos /\ received \in Pos /\ closed \in BOOLEAN
    /\ kind \in Kinds /\ rpc \in Pcs /\ first \in Pos /\ pos \in Pos
    /\ to \in Pos /\ fileTo \in Pos /\ mySub \in BOOLEAN
    /\ open \in BOOLEAN /\ out \in Seq(Nat) /\ skipped \subseteq Nat
    /\ joined \in BOOLEAN /\ queue \in Seq(Nat) /\ delivering \in BOOLEAN
    /\ stopped \in BOOLEAN /\ offering \in Seq(Nat) /\ shut \in BOOLEAN
    /\ hasSub \in BOOLEAN /\ finished \in BOOLEAN /\ backfilling \in BOOLEAN
    /\ ends \in Pos /\ gen \in 0..MaxGen /\ timer \in 0..MaxGen
    /\ callbacks \subseteq 1..MaxGen /\ timedOut \in BOOLEAN

\* What the reader has written or will write, whatever happens next.
Taken == out \o queue \o offering

Ascending(s) == \A i, j \in DOMAIN s : i < j => s[i] < s[j]

\* No byte is written twice or out of order, across the copy, the head taken
\* at the handover and the live chunks.
InOrder == Ascending(Taken)

\* Up to where the reader is responsible for the multiplex.
Reached == IF joined THEN received ELSE pos

\* While its writer works, every byte from where the reader started is written
\* or on its way, or is one it gave up: none falls between copy and live.
NothingMissed ==
    (rpc # "none" /\ open /\ ~stopped) =>
        first..(Reached - 1) \subseteq Bytes(Taken) \cup skipped

\* The stop timer ends a recording only at the end it has now, not at the one
\* it had before an extension, and only when the copy has caught up.
StopsAtItsEnd ==
    timedOut => received >= ends /\ ~backfilling

\* Why they hold.  The three places a byte can be are in order among themselves
\* and end before what is received...
Before(s, t) == \A i \in DOMAIN s, j \in DOMAIN t : s[i] < t[j]
Below(s, n) == \A i \in DOMAIN s : s[i] < n

Sorted ==
    /\ Ascending(out) /\ Ascending(queue) /\ Ascending(offering)
    /\ Before(out, queue) /\ Before(out, offering) /\ Before(queue, offering)
    /\ Below(out, received) /\ Below(queue, received) /\ Below(offering, received)

\* ...a reader that has not joined has its copy alone, up to where it is...
Alone == {"none", "from", "copy", "join", "gone", "gap"}

Placed ==
    /\ start <= flushed /\ flushed <= received
    /\ pos <= received /\ fileTo <= to /\ to <= received
    /\ rpc \in Alone =>
          /\ ~joined /\ ~delivering /\ queue = <<>> /\ offering = <<>>
          /\ Below(out, pos)
    /\ rpc = "none" => out = <<>> /\ ~finished /\ gen = 0

\* ...and one that has joined is in the fan-out until its writer closes or it is
\* told to stop...
Covered(n) == first..(n - 1) \subseteq Bytes(out) \cup Bytes(queue) \cup Bytes(offering) \cup skipped

Kept ==
    /\ rpc \in Alone \ {"none"} => Covered(pos)
    /\ joined => mySub
    /\ rpc \in {"end", "done"} /\ open /\ ~stopped => joined /\ Covered(received)

\* ...and a timer is armed once the copy has ended, the last one for its end.
Timed ==
    /\ timer \in {0, gen} /\ callbacks \subseteq 1..gen
    /\ gen > 0 => ~backfilling
    /\ gen \in callbacks => received >= ends
    /\ rpc \in Alone \ {"none"} => (backfilling <=> kind = "recording")
    /\ rpc = "end" => kind = "recording" /\ backfilling
    /\ timedOut => finished /\ received >= ends /\ ~backfilling

BackfillInv == TypeOK /\ Sorted /\ Placed /\ Kept /\ Timed

\* A recording or encode that has ended leaves the fan-out for good, even if
\* it was still copying and joins after that.
EndedLetsGo == finished ~> [](~joined /\ ~delivering)

\* A backfill ends: it reaches live, or its recording is over.
HandsOver == (rpc = "from") ~> (rpc = "done")
=============================================================================
