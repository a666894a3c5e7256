------------------------------- MODULE Quiet -------------------------------
(* Tunes nobody asked to watch: the guess before a channel change           *)
(* (live/warm.go), the sweep for stills (live/sweep.go), the guide's dwell   *)
(* (live/dwell.go, scan.go) and the tune kept for a flip back (lingerLocked, *)
(* hub.go), beside those that watch.                                         *)
(*                                                                           *)
(* One device.  A feed has one picture.  What an actor holds of a feed is    *)
(* the feed itself: when that is stopped, the actor has none of its channel. *)
EXTENDS Integers, FiniteSets, Sequences

CONSTANTS
    Chans, FreqOf,  \* channels and their frequencies
    Own,            \* ATSC 3.0 channels, each tuned by the device on its own
    TunerCount,
    Watchers, Warmers, Scanners,   \* requests, and the guide's scan
    MaxWatches, MaxWarms, MaxSweeps, MaxScans, MaxHolds, MaxEnds

VARIABLES
    h,      \* Hub: feeds, guesses, the sweep's state, the scan, tuners held back
    act,    \* goroutines: next section, channel, and the feed in hand
    warmMu, \* who holds it
    spent   \* bounds

vars == <<h, act, warmMu, spent>>

Sweeper == "sweep"
Actors == Watchers \cup Warmers \cup Scanners \cup {Sweeper}
None == "none"
Resting == [pc |-> "idle", chan |-> None, feed |-> None, cancelled |-> FALSE]
Untuned == [on |-> FALSE, rend |-> "none", viewers |-> 0, linger |-> FALSE, probing |-> FALSE]

Init ==
    /\ h = [feed |-> [c \in Chans |-> Untuned], guessed |-> <<>>, tunes |-> <<>>, stale |-> FALSE,
            sweep |-> FALSE, scan |-> FALSE, hold |-> 0]
    /\ act = [x \in Actors |-> Resting] /\ warmMu = None
    /\ spent = [watch |-> 0, warm |-> 0, sweep |-> 0, scan |-> 0, hold |-> 0, ends |-> 0]

-----------------------------------------------------------------------------
(* Feeds and tuners.                                                         *)

On(g) == {c \in Chans : g.feed[c].on}
Muxes(g) == {FreqOf[c] : c \in On(g)}
FeedsOn(g, m) == {c \in On(g) : FreqOf[c] = m}
Members(q) == {q[i] : i \in DOMAIN q}

\* tuneHeld.
Held(g, c) == g.feed[c].probing
Unused(g, c) == g.feed[c].on /\ g.feed[c].rend = "none" /\ ~Held(g, c) /\ ~g.feed[c].linger

\* stopFeedLocked: guessTunes keeps the feed until the next warmTune.
Off(g, C) ==
    LET Stays(c) == c \notin C
    IN  [g EXCEPT !.feed = [c \in Chans |-> IF c \in C THEN Untuned ELSE @[c]],
                  !.guessed = SelectSeq(@, Stays), !.tunes = SelectSeq(@, Stays),
                  !.stale = @ \/ Members(g.tunes) \cap C # {}]
\* dropIfUnusedLocked.
Drop(g, C) == Off(g, {c \in C : Unused(g, c)})
\* lingerLocked.
Linger(g, c) == IF g.feed[c].on /\ g.feed[c].rend = "none" /\ g.hold = 0 THEN [g EXCEPT !.feed[c].linger = TRUE] ELSE g
\* addFeedLocked, attachAutoLocked.
Tuned(g, c) == [g EXCEPT !.feed[c].on = TRUE]
\* stopRenditionLocked.
Unpictured(g, C) ==
    LET Stays(c) == c \notin C
    IN  [g EXCEPT !.feed = [c \in Chans |-> IF c \in C THEN [@[c] EXCEPT !.rend = "none"] ELSE @[c]],
                  !.guessed = SelectSeq(@, Stays)]
Watched(g, c) ==
    LET Stays(d) == d # c
    IN  [g EXCEPT !.feed[c].rend = "seen", !.feed[c].viewers = @ + 1, !.guessed = SelectSeq(@, Stays)]

\* An actor has no feed that was stopped.
Knows(a, g) == [x \in Actors |-> IF a[x].feed # None /\ ~g.feed[a[x].feed].on THEN [a[x] EXCEPT !.feed = None] ELSE a[x]]
Becomes(g, a) == h' = g /\ act' = Knows(a, g)

Opens == {x \in Actors : act[x].pc = "open"}
Free(g) == TunerCount - Cardinality(Muxes(g)) - Cardinality(Opens) - g.hold

\* warmSince, claimWarmLocked: the one left longest ago; one never watched first.
WarmMuxes(g) == {m \in Muxes(g) : \A c \in FeedsOn(g, m) : ~Held(g, c) /\ g.feed[c].viewers = 0}
Unseen(g) == {m \in WarmMuxes(g) : \A c \in FeedsOn(g, m) : g.feed[c].rend # "seen"}
Claimable(g) == IF Unseen(g) # {} THEN Unseen(g) ELSE WarmMuxes(g)

\* StopSweep: s is the hub and the goroutines.
StopSweep(g, a, freq) ==
    LET c == a[Sweeper].feed
        cut == [a EXCEPT ![Sweeper].cancelled = TRUE, ![Sweeper].feed = None]
        gone == [g EXCEPT !.sweep = FALSE]
        let == [gone EXCEPT !.feed[c].probing = FALSE]
    IN  IF ~g.sweep THEN [g |-> g, a |-> a]
        ELSE IF c = None THEN [g |-> gone, a |-> cut]
        ELSE [g |-> IF freq = FreqOf[c] /\ c \notin Own THEN Linger(let, c) ELSE Drop(let, {c}), a |-> cut]

-----------------------------------------------------------------------------
(* tuneFeed, in sections: pick a tuner, open the stream, attach the feed.    *)

Joins(c) == c \in On(h) \/ FreqOf[c] \in Muxes(h)
Opening(c) == \E y \in Actors : act[y].pc \in {"open", "auto", "auto open"} /\ FreqOf[act[y].chan] = FreqOf[c]

\* What a goroutine leaves when it is done.
Ended(x) == [act EXCEPT ![x] = Resting]
Unlocked(x) == warmMu' = IF warmMu = x THEN None ELSE warmMu
Fails(x) == Becomes(IF x = Sweeper /\ ~act[x].cancelled THEN [h EXCEPT !.sweep = FALSE] ELSE h, Ended(x)) /\ Unlocked(x)

Pick(x) ==
    LET c == act[x].chan
        To(pc) == [act EXCEPT ![x].pc = pc]
    IN  /\ act[x].pc = "tune" /\ (Joins(c) \/ ~Opening(c))
        /\ \/ Joins(c) /\ Becomes(h, To("attach")) /\ UNCHANGED warmMu
           \/ ~Joins(c) /\ Free(h) > 0 /\ Becomes(h, To("open")) /\ UNCHANGED warmMu
           \/ /\ ~Joins(c) /\ Free(h) <= 0
              /\ \E m \in Claimable(h) : Becomes(Off(h, FeedsOn(h, m)), To("open"))
              /\ UNCHANGED warmMu
           \/ ~Joins(c) /\ Free(h) <= 0 /\ Claimable(h) = {} /\ Fails(x)
        /\ UNCHANGED spent

\* feedLocked: a mux that went away since is tuned again, under the lock.
AtFeed(x) == act[x].pc \in {"open", "attach"}
Grounds(x) ==
    IF act[x].pc = "open" \/ Joins(act[x].chan) \/ Free(h) > 0 THEN {h}
    ELSE {Off(h, FeedsOn(h, m)) : m \in Claimable(h)}
OpenFails(x) ==
    /\ act[x].pc \in {"open", "auto open"} \/ (act[x].pc = "attach" /\ ~Joins(act[x].chan))
    /\ Fails(x) /\ UNCHANGED spent

\* WatchAt, with its feed: a page that left, or an encode that did not start.
Watch(x) ==
    LET c == act[x].chan
    IN  /\ x \in Watchers /\ AtFeed(x)
        /\ \E g \in Grounds(x) :
              \/ Becomes(Drop(Tuned(g, c), {c}), Ended(x))
              \/ Becomes(Watched(Tuned(g, c), c), [act EXCEPT ![x].pc = "watching", ![x].feed = c])
        /\ UNCHANGED <<warmMu, spent>>
AskWatch(x, c) ==
    LET s == StopSweep([h EXCEPT !.scan = FALSE], act, FreqOf[c])
    IN  /\ x \in Watchers /\ act[x].pc = "idle" /\ spent.watch < MaxWatches
        /\ Becomes(s.g, [s.a EXCEPT ![x].pc = "tune", ![x].chan = c])
        /\ spent' = [spent EXCEPT !.watch = @ + 1] /\ UNCHANGED warmMu
\* Release.
Release(x) ==
    /\ act[x].pc = "watching"
    /\ Becomes(IF act[x].feed = None THEN h ELSE [h EXCEPT !.feed[act[x].feed].viewers = @ - 1], Ended(x))
    /\ UNCHANGED <<warmMu, spent>>

\* idleStop.
IdleStop(c) ==
    /\ h.feed[c].rend # "none" /\ h.feed[c].viewers = 0
    /\ Becomes(Drop(Linger(Unpictured(h, {c}), c), {c}), act) /\ UNCHANGED <<warmMu, spent>>
LingerEnds(c) ==
    /\ h.feed[c].linger
    /\ Becomes(Drop([h EXCEPT !.feed[c].linger = FALSE], {c}), act) /\ UNCHANGED <<warmMu, spent>>
\* SetHold, endLingerLocked.
SetHold(n) ==
    LET kept == {c \in On(h) : h.feed[c].linger}
        g == [h EXCEPT !.hold = n, !.feed = [c \in Chans |-> [@[c] EXCEPT !.linger = @ /\ n = 0]]]
    IN  /\ n # h.hold /\ spent.hold < MaxHolds
        /\ Becomes(IF n > 0 THEN Drop(g, kept) ELSE g, act)
        /\ spent' = [spent EXCEPT !.hold = @ + n] /\ UNCHANGED warmMu
\* ReleaseAbandoned, while those that watch fetch.
ReleaseAbandoned == \E c \in Chans : Unused(h, c) /\ Becomes(Drop(h, Chans), act) /\ UNCHANGED <<warmMu, spent>>
\* The reader of a mux ends (Hub).
Ends(m) ==
    /\ m \in Muxes(h) /\ spent.ends < MaxEnds /\ Becomes(Off(h, FeedsOn(h, m)), act)
    /\ spent' = [spent EXCEPT !.ends = @ + 1] /\ UNCHANGED warmMu

-----------------------------------------------------------------------------
(* The guess before a channel change.                                        *)

AskWarm(x, c) ==
    LET s == StopSweep(h, act, FreqOf[c])
    IN  /\ x \in Warmers /\ act[x].pc = "idle" /\ spent.warm < MaxWarms
        /\ Becomes(s.g, [s.a EXCEPT ![x].pc = "look", ![x].chan = c])
        /\ spent' = [spent EXCEPT !.warm = @ + 1] /\ UNCHANGED warmMu
\* Warm, its first section: only a picture sent as broadcast opens a 3.0 channel.
Look(x) ==
    LET c == act[x].chan
    IN  /\ act[x].pc = "look"
        /\ \/ Joins(c) /\ Becomes(h, [act EXCEPT ![x].pc = "picture"])
           \/ ~Joins(c) /\ c \notin Own /\ Becomes(h, [act EXCEPT ![x].pc = "warm"])
           \/ ~Joins(c) /\ c \in Own /\ ~Opening(c) /\ Becomes(h, [act EXCEPT ![x].pc = "auto"])
           \/ ~Joins(c) /\ c \in Own /\ Becomes(h, Ended(x))
        /\ UNCHANGED <<warmMu, spent>>

\* warmTune takes warmMu, then reads the device's status.
WarmLock(x) ==
    /\ act[x].pc = "warm" /\ warmMu = None
    /\ warmMu' = x /\ act' = [act EXCEPT ![x].pc = "plan"] /\ UNCHANGED <<h, spent>>

maxGuesses == 2
\* The guesses that are still guesses.
Guesses == LET Still(c) == h.feed[c].rend = "none" IN [h EXCEPT !.tunes = SelectSeq(@, Still), !.stale = FALSE]
Droppable == LET Loose(c) == ~Held(h, c) IN SelectSeq(Guesses.tunes, Loose)
Oldest(k) == {Droppable[i] : i \in 1 .. k}
\* free: a guess's tuner reads busy before it is stopped and counts as free after it;
\* one that was let go since the status was read still reads busy (late).
FreeWithout(k, late) ==
    TunerCount - Cardinality(Muxes(Off(Guesses, Oldest(k))) \ {FreqOf[c] : c \in Oldest(k)}) - Cardinality(Opens) - late
Suits(k, late) == Len(Guesses.tunes) - k < maxGuesses /\ FreeWithout(k, late) >= 2
Drops(late) ==
    LET all == Len(Droppable)
    IN  CHOOSE k \in 0 .. all : (Suits(k, late) \/ k = all) /\ \A j \in 0 .. k - 1 : ~Suits(j, late)
WarmPlan(x) ==
    /\ act[x].pc = "plan"
    /\ \/ (h.hold > 0 \/ act[x].chan \in On(h)) /\ Fails(x)
       \/ /\ h.hold = 0 /\ act[x].chan \notin On(h)
          /\ \E late \in 0 .. 1 :
                LET k == Drops(late)
                    g == [Off(Guesses, Oldest(k)) EXCEPT !.stale = FALSE]
                IN  IF Suits(k, late) THEN Becomes(g, [act EXCEPT ![x].pc = "tune"]) /\ UNCHANGED warmMu
                    ELSE Becomes(g, Ended(x)) /\ Unlocked(x)
    /\ UNCHANGED spent
WarmTuned(x) ==
    LET c == act[x].chan
        Kept(g) == IF g.feed[c].rend = "none" THEN [Linger(g, c) EXCEPT !.tunes = Append(@, c)] ELSE g
    IN  /\ x \in Warmers /\ AtFeed(x)
        /\ \E g \in Grounds(x) : Becomes(Kept(Tuned(g, c)), Ended(x))
        /\ Unlocked(x) /\ UNCHANGED spent

\* openAuto for a guess: a second tuner stays free, or one with only a guess.
OpenAuto(x) ==
    LET idle == {c \in Own : c \in Members(h.guessed) /\ ~Held(h, c)}
    IN  /\ act[x].pc = "auto"
        /\ \/ /\ Free(h) + Cardinality(idle) >= 2
              /\ Becomes(h, [act EXCEPT ![x].pc = "auto open"]) /\ UNCHANGED warmMu
           \/ Fails(x)
        /\ UNCHANGED spent

\* dropGuessesLocked: the one named and the newest other, on another channel; not both
\* on tuners of their own.
GuessesKept(g, c) ==
    LET q == g.guessed
        fits == {i \in DOMAIN q : q[i] # c /\ ~(q[i] \in Own /\ c \in Own)}
    IN  {c} \cup {q[i] : i \in {j \in fits : \A k \in fits : k <= j}}
DropGuesses(g, c) == Drop(Unpictured(g, Members(g.guessed) \ GuessesKept(g, c)), Chans \ {c})

\* Warm, from its feed on: an encode may not fit the host, or not start.
Guess(g, x) ==
    LET c == act[x].chan
        left == DropGuesses(g, c)
    IN  \/ left.feed[c].rend # "none" /\ Becomes(left, Ended(x))
        \/ left.feed[c].rend = "none" /\ Becomes(Drop(left, {c}), Ended(x))
        \/ /\ left.feed[c].rend = "none"
           /\ Becomes([left EXCEPT !.feed[c].rend = "guess", !.guessed = Append(@, c)], Ended(x))
Picture(x) ==
    /\ act[x].pc = "picture"
    /\ IF Joins(act[x].chan) THEN Guess(Tuned(h, act[x].chan), x) ELSE Becomes(h, Ended(x))
    /\ UNCHANGED <<warmMu, spent>>
\* A 3.0 channel that was tuned meanwhile is joined, and the stream closed.
AutoOpened(x) ==
    /\ act[x].pc = "auto open"
    /\ \/ act[x].chan \in On(h)
       \/ Cardinality(Muxes(h)) + Cardinality(Opens) < TunerCount
    /\ Guess(Tuned(h, act[x].chan), x) /\ UNCHANGED <<warmMu, spent>>

-----------------------------------------------------------------------------
(* The sweep for stills and the guide's dwell.                               *)

\* sweepAllowed, with no lock from the last gate to sweepOne.
Quiet ==
    /\ h.hold = 0 /\ ~h.scan /\ h.tunes = <<>> /\ ~h.stale /\ Muxes(h) = {}
SweepAllowed(c) ==
    /\ act[Sweeper].pc = "idle" /\ spent.sweep < MaxSweeps
    /\ Quiet /\ TunerCount >= 2
    /\ Becomes(h, [act EXCEPT ![Sweeper].pc = "sweep", ![Sweeper].chan = c])
    /\ spent' = [spent EXCEPT !.sweep = @ + 1] /\ UNCHANGED warmMu
SweepBegins ==
    /\ act[Sweeper].pc = "sweep"
    /\ Becomes([h EXCEPT !.sweep = TRUE], [act EXCEPT ![Sweeper].pc = "tune"]) /\ UNCHANGED <<warmMu, spent>>
\* Mutant: whether it was stopped while it tuned is not looked at.
LandSweepAnyway ==
    /\ AtFeed(Sweeper)
    /\ \E g \in Grounds(Sweeper) :
        Becomes([Tuned(g, act[Sweeper].chan) EXCEPT !.feed[act[Sweeper].chan].probing = TRUE],
               [act EXCEPT ![Sweeper].pc = "hold", ![Sweeper].feed = IF act[Sweeper].cancelled THEN None ELSE act[Sweeper].chan])
    /\ UNCHANGED <<warmMu, spent>>
LandSweep ==
    LET c == act[Sweeper].chan
    IN  /\ AtFeed(Sweeper)
        /\ \E g \in Grounds(Sweeper) :
           IF act[Sweeper].cancelled THEN Becomes(Drop(Tuned(g, c), {c}), Ended(Sweeper))
           ELSE Becomes([Tuned(g, c) EXCEPT !.feed[c].probing = TRUE], [act EXCEPT ![Sweeper].pc = "hold", ![Sweeper].feed = c])
        /\ UNCHANGED <<warmMu, spent>>
\* The stills are there, or it was stopped.
SweepEnds ==
    LET c == act[Sweeper].feed
        g == IF act[Sweeper].cancelled THEN h ELSE [h EXCEPT !.sweep = FALSE]
    IN  /\ act[Sweeper].pc = "hold"
        /\ Becomes(IF c = None THEN g ELSE Drop([g EXCEPT !.feed[c].probing = FALSE], {c}), Ended(Sweeper))
        /\ UNCHANGED <<warmMu, spent>>

\* RunScan, Dwell: a stopped scan ends its dwell where it waits.
AskDwell(x, c) ==
    /\ x \in Scanners /\ act[x].pc = "idle" /\ spent.scan < MaxScans
    /\ Becomes([h EXCEPT !.scan = TRUE], [act EXCEPT ![x].pc = "tune", ![x].chan = c])
    /\ spent' = [spent EXCEPT !.scan = @ + 1] /\ UNCHANGED warmMu
Dwell(x) ==
    LET c == act[x].chan
    IN  /\ x \in Scanners /\ AtFeed(x)
        /\ \E g \in Grounds(x) :
              Becomes([Tuned(g, c) EXCEPT !.feed[c].probing = TRUE], [act EXCEPT ![x].pc = "dwell", ![x].feed = c])
        /\ UNCHANGED <<warmMu, spent>>
DwellEnds(x) ==
    LET c == act[x].feed
        g == [h EXCEPT !.scan = FALSE]
    IN  /\ act[x].pc = "dwell"
        /\ Becomes(IF c = None THEN g ELSE Drop([g EXCEPT !.feed[c].probing = FALSE], {c}), Ended(x))
        /\ UNCHANGED <<warmMu, spent>>

-----------------------------------------------------------------------------
Next ==
    \/ \E x \in Actors : Pick(x) \/ OpenFails(x)
    \/ \E x \in Watchers : Watch(x) \/ Release(x) \/ \E c \in Chans : AskWatch(x, c)
    \/ \E x \in Warmers :
          \/ Look(x) \/ WarmLock(x) \/ WarmPlan(x) \/ WarmTuned(x)
          \/ OpenAuto(x) \/ AutoOpened(x) \/ Picture(x) \/ \E c \in Chans : AskWarm(x, c)
    \/ \E x \in Scanners : Dwell(x) \/ DwellEnds(x) \/ \E c \in Chans : AskDwell(x, c)
    \/ LandSweep \/ SweepEnds \/ SweepBegins \/ ReleaseAbandoned
    \/ \E c \in Chans : SweepAllowed(c) \/ IdleStop(c) \/ LingerEnds(c)
    \/ \E n \in {0, 1} : SetHold(n)
    \/ \E m \in {FreqOf[c] : c \in Chans} : Ends(m)

-----------------------------------------------------------------------------
\* A tune that is held is held by a goroutine that will let it go: the sweep that
\* StopSweep can still find, or a dwell (sweepOne, StopSweep, Dwell).
HoldsAreFindable ==
    \A c \in On(h) : h.feed[c].probing =>
        \/ h.sweep /\ act[Sweeper].pc = "hold" /\ ~act[Sweeper].cancelled /\ act[Sweeper].feed = c
        \/ \E x \in Scanners : act[x].pc = "dwell" /\ act[x].feed = c

\* Two guessed pictures and two guessed tunes at most (maxGuesses).
GuessesFew ==
    /\ Cardinality({c \in On(h) : h.feed[c].rend = "guess"}) <= maxGuesses
    /\ Cardinality({c \in Members(h.tunes) : h.feed[c].rend = "none"}) <= maxGuesses

\* Guesses, sweeps and dwells come and go; a picture that is watched has its viewers and
\* its stream until that ends (claimWarmLocked, dropGuessesLocked, dropIfUnusedLocked).
WatchedStays ==
    /\ \A c \in On(h) : h.feed[c].viewers = Cardinality({x \in Watchers : act[x].pc = "watching" /\ act[x].feed = c})
    /\ \A c \in On(h) : h.feed[c].viewers > 0 => h.feed[c].rend = "seen"
    /\ spent.ends = 0 => \A x \in Watchers : act[x].pc = "watching" => act[x].feed # None

\* Tuners: no more are taken than the device has, and each frequency once (Pick).
TunersFit == Cardinality(Muxes(h)) + Cardinality(Opens) <= TunerCount

\* All of these (warm.go, sweep.go).
QuietHolds == HoldsAreFindable /\ GuessesFew /\ WatchedStays /\ TunersFit
=============================================================================
