-------------------------------- MODULE Hub ---------------------------------
(***************************************************************************)
(* Who has which tuner: the live hub of server/internal/live.              *)
(*                                                                         *)
(* Screens and recordings ask for channels.  A whole frequency is tuned    *)
(* once (a mux) and shared by its channels (feeds).  The device's answers  *)
(* take seconds, so a tune is opened outside h.mu: the request reads the   *)
(* device's status, claims a tuner under the lock (pending), opens it, and *)
(* attaches it under the lock again.  When that path cannot serve it, the  *)
(* request tunes under the lock.  Tuners are set to none in the background.*)
(*                                                                         *)
(* The state h.mu protects is the record h; each of its sections is one    *)
(* step, built from pure operators on h.  Steps on the device are separate.*)
(***************************************************************************)
EXTENDS Integers, FiniteSets

CONSTANTS
    Own,        \* tuner indexes of the device that lists the channels
    Other,      \* tuners of a failover device, numbered apart from Own
    Freq,       \* Freq[ch]: the frequency that carries channel ch
    Unknown,    \* channels whose frequency is not stored yet
    Clients,    \* concurrent requests
    Kinds,      \* what they ask for: "watch", "record"
    Holds,      \* values the DVR gives SetHold
    Faults,     \* device faults: "stream" ends, "stall", "refuse", another "app"
    MaxMux,     \* bound: mux objects at once, the ended ones still handing off too
    MaxViewers  \* bound: screens on one channel

Channels == DOMAIN Freq
Freqs == {Freq[ch] : ch \in Channels}
Tuners == Own \cup Other

ASSUME HubAssumption ==
    /\ Own \subseteq Nat /\ Other \subseteq Nat /\ Own \cap Other = {}
    /\ IsFiniteSet(Own) /\ IsFiniteSet(Other)
    /\ Channels \subseteq Nat \ {0} /\ Freqs \subseteq Nat \ {0}
    /\ Unknown \subseteq Channels /\ Kinds \subseteq {"watch", "record"}
    /\ Holds \subseteq Nat /\ Faults \subseteq {"stream", "stall", "refuse", "app"}
    /\ MaxMux \in Nat /\ MaxViewers \in Nat

VARIABLES
    h,          \* the hub's maps, see Maps
    hold,       \* h.hold
    known,      \* channels whose frequency the store has
    dev,        \* dev[t]: the frequency t is tuned to, None, or App
    conn,       \* tuners with an open stream of ours
    mux,        \* mux[i]: the i-th mux object, in the map or not
    req,        \* req[c]: where request c is
    lateNone    \* history: a none reached a tuner a current mux streams on

vars == <<h, hold, known, dev, conn, mux, req, lateNone>>

None == 0
App == -1
NoTuner == -1

\* A tuner's stream is read by one goroutine per mux; its states after the
\* stream stopped are reopenInput, handOff, commitMove and releaseMux.
ReaderPcs == {"off", "reading", "stalled", "reopened", "failed", "moving",
              "oldNone", "newNone", "giveUp", "release"}
MuxIds == 1..MaxMux

NoFeed == [mux |-> None, viewers |-> 0, enc |-> FALSE, rec |-> FALSE,
           linger |-> FALSE, idle |-> FALSE]
NoMux == [freq |-> None, tuner |-> NoTuner, feeds |-> {}, rd |-> "off",
          moved |-> FALSE, to |-> NoTuner]

\* h.channels, h.muxes, h.pending with the releases in flight, h.tuning and
\* h.opening.
Maps == [feed : [Channels -> [mux : MuxIds \cup {None},
                              viewers : 0..MaxViewers,
                              enc : BOOLEAN, rec : BOOLEAN,
                              linger : BOOLEAN, idle : BOOLEAN]],
         at : [Freqs -> MuxIds \cup {None}],
         pending : SUBSET Tuners, releasing : SUBSET Tuners,
         tuning : SUBSET Freqs, opening : SUBSET Channels]

Idle == [pc |-> "idle", kind |-> "watch", ch |-> 0, freq |-> None,
         free |-> {}, tuner |-> NoTuner, opener |-> FALSE, mark |-> None,
         ok |-> FALSE, waits |-> 0]

Init ==
    /\ h = [feed |-> [ch \in Channels |-> NoFeed], at |-> [f \in Freqs |-> None],
            pending |-> {}, releasing |-> {}, tuning |-> {}, opening |-> {}]
    /\ hold = 0 /\ known = Channels \ Unknown
    /\ dev = [t \in Tuners |-> None] /\ conn = {}
    /\ mux = [i \in MuxIds |-> NoMux]
    /\ req = [c \in Clients |-> Idle]
    /\ lateNone = FALSE

-----------------------------------------------------------------------------
(* The hub's maps: pure operators on s = [h, mux, conn, dev].               *)

Now == [h |-> h, mux |-> mux, conn |-> conn, dev |-> dev]

Become(s) == h' = s.h /\ mux' = s.mux /\ conn' = s.conn /\ dev' = s.dev

Tuned(s, ch) == s.h.feed[ch].mux # None

\* The muxes in h.muxes.
Current(s) == {s.h.at[f] : f \in Freqs} \ {None}

\* usedTunersLocked.
Used(s) == {s.mux[i].tuner : i \in Current(s)}

\* Mutant: a recording does not count as a use.
UnusedByScreens(s, ch) ==
    LET f == s.h.feed[ch] IN f.mux # None /\ ~f.enc /\ ~f.linger

\* dropIfUnusedLocked would stop the feed.
Unused(s, ch) ==
    LET f == s.h.feed[ch] IN f.mux # None /\ ~f.enc /\ ~f.rec /\ ~f.linger

\* addFeedLocked.
AddFeed(s, i, ch) ==
    [s EXCEPT !.h.feed[ch] = [NoFeed EXCEPT !.mux = i],
              !.mux[i].feeds = @ \cup {ch}]

\* beginMuxLocked: the mux goes into h.muxes under its frequency.
BeginMux(s, ch, f, t) ==
    LET i == CHOOSE i \in MuxIds : s.mux[i].rd = "off"
        m == [NoMux EXCEPT !.freq = f, !.tuner = t, !.rd = "reading"]
    IN  AddFeed([s EXCEPT !.mux[i] = m, !.h.at[f] = i], i, ch)

RoomForMux == \E i \in MuxIds : mux[i].rd = "off"

\* stopFeedLocked for each of chs.  A mux left without feeds ends: its stream
\* is closed and, unless retune, its tuner is set to none in the background.
\* A feed whose mux is no longer the one stored leaves that mux alone.
StopFeeds(s, chs, retune) ==
    LET left(i) == s.mux[i].feeds \ chs
        ended == {i \in Current(s) : s.mux[i].feeds # {} /\ left(i) = {}}
        freed == {s.mux[i].tuner : i \in ended}
        later == IF retune THEN {} ELSE freed
    IN  [h |-> [s.h EXCEPT
                  !.feed = [ch \in Channels |-> IF ch \in chs THEN NoFeed ELSE @[ch]],
                  !.at = [f \in Freqs |-> IF @[f] \in ended THEN None ELSE @[f]],
                  !.pending = @ \cup later, !.releasing = @ \cup later],
         mux |-> [i \in MuxIds |->
                    IF i \in ended /\ s.mux[i].rd = "reading" THEN NoMux
                    ELSE IF i \in Current(s) THEN [s.mux[i] EXCEPT !.feeds = left(i)]
                    ELSE s.mux[i]],
         conn |-> s.conn \ freed,
         dev |-> s.dev]

DropIfUnused(s, ch) ==
    IF Unused(s, ch) THEN StopFeeds(s, {ch}, FALSE) ELSE s

\* releaseTuner: the device refuses a none for another app's stream.
Release(s, t) ==
    [s EXCEPT !.dev[t] = IF @ = App THEN App ELSE None, !.conn = @ \ {t}]

\* A none that lands on a tuner some current mux streams on.
Hurts(s, t) == t \in Used(s) /\ t \in s.conn

\* HoldBack: the last n of the free tuners.
HoldBack(free, n) == {t \in free : Cardinality({u \in free : u > t}) < n}

\* Mutant: the tuners other tunes are opening are not held.
HeldBackOnly(s, free) == HoldBack(free, hold)

\* heldLocked, on the channel's own device.
Held(s, free) == (s.h.pending \cap Own) \cup HoldBack(free, hold)

\* firstFree.
FirstFree(free, busy) ==
    {t \in free \ busy : \A u \in free \ busy : t <= u}

\* What the device's status shows free.
Free(s, ts) == {t \in ts : s.dev[t] = None}

\* warmSince: muxes kept only so a flip back is instant.
Warm(s) ==
    {i \in Current(s) : \A ch \in s.mux[i].feeds :
        ~s.h.feed[ch].rec /\ s.h.feed[ch].viewers = 0}

\* Mutant: a recording takes any tuner.
PreemptAny(s, ch, f) == {i \in Current(s) : s.mux[i].freq # f}

\* viewerFeedsToPreemptLocked: the mux a recording of ch may take.
Preemptible(s, ch, f) ==
    LET can == {i \in Current(s) :
                  /\ s.mux[i].freq # f /\ s.mux[i].feeds # {}
                  /\ ch \notin s.mux[i].feeds
                  /\ \A x \in s.mux[i].feeds : ~s.h.feed[x].rec}
        top(i) == CHOOSE x \in s.mux[i].feeds : \A y \in s.mux[i].feeds : y <= x
    IN  {i \in can : \A j \in can : top(j) <= top(i)}

\* claimWarmLocked or stopFeedNowLocked of the muxes, each tuner set to none
\* before the caller goes on.
TakeOver(s, ids) ==
    LET ts == {s.mux[i].tuner : i \in ids}
        n == StopFeeds(s, UNION {s.mux[i].feeds : i \in ids}, TRUE)
    IN  [n EXCEPT !.dev = [t \in Tuners |->
                             IF t \in ts /\ n.dev[t] # App THEN None ELSE n.dev[t]]]

\* A sibling's open ended: try again, at most twice, then under the lock.
WokenSibling(r) ==
    IF r.waits = 2 THEN [r EXCEPT !.pc = "locked", !.waits = 0]
    ELSE [r EXCEPT !.pc = "tune", !.waits = @ + 1]

-----------------------------------------------------------------------------
(* The end of a request, still under h.mu.                                  *)

\* WatchAt after tuneFeed: a viewer joins, or it has left or gets no picture.
Watching(s, ch) ==
    {DropIfUnused(s, ch)} \cup
    IF s.h.feed[ch].viewers = MaxViewers THEN {}
    ELSE LET f == s.h.feed[ch]
         IN  {[s EXCEPT !.h.feed[ch] = [f EXCEPT !.viewers = f.viewers + 1, !.enc = TRUE, !.idle = FALSE]]}

\* RecordMeta after tuneFeed: the recording starts, or starting it failed.
Recording(s, ch) ==
    IF s.h.feed[ch].rec THEN {s}
    ELSE {[s EXCEPT !.h.feed[ch].rec = TRUE], DropIfUnused(s, ch)}

Use(s, c) ==
    IF req[c].kind = "watch" THEN Watching(s, req[c].ch) ELSE Recording(s, req[c].ch)

\* endOpenLocked.
EndOpen(s, c) ==
    IF req[c].opener THEN [s EXCEPT !.h.opening = @ \ {req[c].ch}] ELSE s

\* unmarkLocked.
Unmark(s, c) == [s EXCEPT !.h.tuning = @ \ {req[c].mark}]

\* Mutant: nobody is woken.
FinishSilently(c) == req' = [req EXCEPT ![c] = Idle]

\* The request ends.  Closing h.opening's and h.tuning's channels wakes every
\* request that waits on them, for good.
Finish(c) ==
    req' = [d \in Clients |->
              IF d = c THEN Idle
              ELSE IF req[c].opener /\ req[d].pc = "waitOpen" /\ req[d].ch = req[c].ch
              THEN [req[d] EXCEPT !.pc = "locked"]
              ELSE IF req[c].mark # None /\ req[d].pc = "waitFreq" /\ req[d].freq = req[c].mark
              THEN WokenSibling(req[d])
              ELSE req[d]]

\* Request c goes on at pc; the status it read is used once.
Goto(c, pc) ==
    req' = [req EXCEPT ![c].pc = pc, ![c].free = {},
                       ![c].waits = IF pc = "locked" THEN 0 ELSE @]

-----------------------------------------------------------------------------
(* A request: WatchAt and RecordMeta through tuneFeed.                      *)

\* Store.SourceChannel, then openUnlocked up to its unlock.
Ask(c, k, ch) ==
    LET wait == ch \in h.opening
        opener == ~wait /\ ~Tuned(Now, ch)
    IN  /\ req[c].pc = "idle"
        /\ h' = IF opener THEN [h EXCEPT !.opening = @ \cup {ch}] ELSE h
        /\ req' = [req EXCEPT ![c] = [Idle EXCEPT
                     !.kind = k, !.ch = ch, !.opener = opener,
                     !.freq = IF ch \in known THEN Freq[ch] ELSE None,
                     !.pc = IF wait THEN "waitOpen" ELSE
                            IF opener THEN "tune" ELSE "locked"]]
        /\ UNCHANGED <<hold, known, dev, conn, mux, lateNone>>

\* siblingLocked: where openTuned goes when the station is tuned already or
\* being tuned.
Sibling(c, otherwise) ==
    LET f == req[c].freq
    IN  IF Tuned(Now, req[c].ch) \/ (f # None /\ h.at[f] # None) THEN "locked"
        ELSE IF f # None /\ f \in h.tuning THEN "waitFreq"
        ELSE otherwise

OpenTuned(c) ==
    /\ req[c].pc = "tune"
    /\ Goto(c, Sibling(c, "status"))
    /\ UNCHANGED <<h, hold, known, dev, conn, mux, lateNone>>

\* A request that waits for another's open leaves: its screen went away.
LeaveWait(c) ==
    /\ req[c].pc \in {"waitOpen", "waitFreq"}
    /\ h' = EndOpen(Now, c).h
    /\ Finish(c)
    /\ UNCHANGED <<hold, known, dev, conn, mux, lateNone>>

\* fetchTunerStatus, outside the lock; a device that is silent leaves the tune
\* to the locked path.
FetchStatus(c) ==
    /\ req[c].pc = "status"
    /\ \/ req' = [req EXCEPT ![c].pc = "pick", ![c].free = Free(Now, Own)]
       \/ "refuse" \in Faults /\ Goto(c, "locked")
    /\ UNCHANGED <<h, hold, known, dev, conn, mux, lateNone>>

\* What request c marks when it takes tuner t outside the lock.
Claim(s, c, t, pc) ==
    /\ Become([s EXCEPT !.h.pending = @ \cup {t},
                        !.h.tuning = @ \cup ({req[c].freq} \ {None})])
    /\ req' = [req EXCEPT ![c].pc = pc, ![c].tuner = t, ![c].mark = req[c].freq,
                                ![c].free = {}, ![c].waits = 0]

\* openTuned's second section.  With no failover device, the tuner left
\* longest ago is claimed when no other is free.
PickTuner(c) ==
    LET s == Now
        held == Held(s, req[c].free)
        first == FirstFree(req[c].free, Used(s) \cup held)
        warm == {i \in Warm(s) : s.mux[i].tuner \in Own \ held}
    IN  /\ req[c].pc = "pick"
        /\ IF Sibling(c, "pick") # "pick"
           THEN Goto(c, Sibling(c, "pick")) /\ UNCHANGED <<h, mux, conn, dev>>
           ELSE IF first # {} THEN \E t \in first : Claim(s, c, t, "stream")
           ELSE IF Other = {} /\ warm # {}
           THEN \E i \in warm : Claim(StopFeeds(s, s.mux[i].feeds, TRUE), c, s.mux[i].tuner, "clear")
           ELSE Goto(c, "locked") /\ UNCHANGED <<h, mux, conn, dev>>
        /\ UNCHANGED <<hold, known, lateNone>>

\* releaseTuner of a claimed tuner, before it is tuned again.
ClearClaimed(c) ==
    /\ req[c].pc = "clear"
    /\ Become(Release(Now, req[c].tuner))
    /\ lateNone' = (lateNone \/ Hurts(Now, req[c].tuner))
    /\ req' = [req EXCEPT ![c].pc = "stream"]
    /\ UNCHANGED <<hold, known>>

\* The device opens a stream on a tuner nobody else streams on.
CanOpen(s, t) == s.dev[t] # App /\ t \notin s.conn

Opens(s, t, f) == [s EXCEPT !.dev[t] = f, !.conn = @ \cup {t}]

\* Every channel of a frequency is stored once its streaminfo is read.
Learn(f) == known' = known \cup {ch \in Channels : Freq[ch] = f}

\* openTunedStream: the stream, or an error.
OpenStream(c) ==
    LET t == req[c].tuner
        f == Freq[req[c].ch]
    IN  /\ req[c].pc = "stream"
        /\ \/ /\ CanOpen(Now, t)
              /\ Become(Opens(Now, t, f)) /\ Learn(f)
              /\ req' = [req EXCEPT ![c].pc = "attach", ![c].ok = TRUE, ![c].freq = f]
           \/ /\ "refuse" \in Faults \/ ~CanOpen(Now, t)
              /\ req' = [req EXCEPT ![c].pc = "attach", ![c].ok = FALSE]
              /\ UNCHANGED <<h, mux, conn, dev, known>>
        /\ UNCHANGED <<hold, lateNone>>

\* Mutant: the tuner is free for others before the device has let it go.
DropAtOnce(s, c) == [s EXCEPT !.conn = @ \ {req[c].tuner}, !.h.pending = @ \ {req[c].tuner},
                              !.h.releasing = @ \cup {req[c].tuner}]

\* dropTunedLocked of an open stream: it stays pending until its none is sent.
DropTuned(s, c) ==
    [s EXCEPT !.conn = @ \ {req[c].tuner}, !.h.releasing = @ \cup {req[c].tuner}]

Unpend(s, c) == [s EXCEPT !.h.pending = @ \ {req[c].tuner}]

\* Mutant: the second open of a frequency replaces the first.
AttachAlways(s, c) ==
    LET r == req[c]
    IN  IF Tuned(s, r.ch) THEN (IF r.ok THEN DropTuned(s, c) ELSE Unpend(s, c))
        ELSE IF ~r.ok THEN Unpend(s, c)
        ELSE BeginMux(Unpend(s, c), r.ch, r.freq, r.tuner)

\* attachTunedLocked: another watch may have started the feed or the mux.
AttachTuned(s, c) ==
    LET r == req[c]
    IN  IF Tuned(s, r.ch) THEN (IF r.ok THEN DropTuned(s, c) ELSE Unpend(s, c))
        ELSE IF ~r.ok THEN Unpend(s, c)
        ELSE IF s.h.at[r.freq] # None
        THEN AddFeed(DropTuned(s, c), s.h.at[r.freq], r.ch)
        ELSE BeginMux(Unpend(s, c), r.ch, r.freq, r.tuner)

Attach(c) ==
    LET s == AttachTuned(Unmark(EndOpen(Now, c), c), c)
    IN  /\ req[c].pc = "attach" /\ RoomForMux
        /\ IF Tuned(s, req[c].ch) THEN \E r \in Use(s, c) : Become(r) ELSE Become(s)
        /\ Finish(c)
        /\ UNCHANGED <<hold, known, lateNone>>

-----------------------------------------------------------------------------
(* ensureFeedLocked: the tune under h.mu.                                   *)

\* The tuner a locked tune gets and the state it is taken in: free here, free
\* on the failover device (whose status alone is asked), or held warm.  Warm
\* tuners are freed until one that is not held back came free.
Choices(s) ==
    LET held == Held(s, Free(s, Own))
        first == FirstFree(Free(s, Own), Used(s) \cup held)
        over == FirstFree(Free(s, Other), {})
        warm == {i \in Warm(s) : s.mux[i].tuner \in Own}
        stuck == {i \in warm : s.mux[i].tuner \in held}
    IN  IF first # {} THEN {<<s, t>> : t \in first}
        ELSE IF over # {} THEN {<<s, t>> : t \in over}
        ELSE IF warm \subseteq stuck THEN {<<TakeOver(s, stuck), NoTuner>>}
        ELSE UNION {{<<TakeOver(s, {i} \cup w), s.mux[i].tuner>> : w \in SUBSET stuck} :
                      i \in warm \ stuck}

\* The channel is tuned on t and its feed used; the mux replaces whatever
\* h.muxes has for that frequency.
TuneNow(s, t, c) ==
    LET f == Freq[req[c].ch]
    IN  \/ /\ CanOpen(s, t)
           /\ \E r \in Use(BeginMux(Opens(s, t, f), req[c].ch, f, t), c) : Become(r)
           /\ Learn(f)
        \/ /\ "refuse" \in Faults \/ ~CanOpen(s, t)
           /\ Become(s) /\ UNCHANGED known

\* RecordMeta when every tuner is busy: it stops the screens of one mux and
\* asks again.  A screen is told the tuners are busy.
Preempt(s, c) ==
    LET victims == IF req[c].kind = "record" THEN Preemptible(s, req[c].ch, req[c].freq)
                   ELSE {}
    IN  IF victims = {} THEN Become(s) /\ UNCHANGED known
        ELSE \E i \in victims : \E x \in Choices(TakeOver(s, {i})) :
                IF x[2] # NoTuner THEN TuneNow(x[1], x[2], c)
                ELSE Become(x[1]) /\ UNCHANGED known

EnsureFeed(s, c) ==
    LET ch == req[c].ch
        f == req[c].freq
    IN  IF Tuned(s, ch)
        THEN (\E r \in Use(s, c) : Become(r)) /\ UNCHANGED known
        ELSE IF f # None /\ s.h.at[f] # None
        THEN (\E r \in Use(AddFeed(s, s.h.at[f], ch), c) : Become(r)) /\ UNCHANGED known
        ELSE \E x \in Choices(s) :
                IF x[2] # NoTuner THEN TuneNow(x[1], x[2], c)
                ELSE Preempt(x[1], c)

Locked(c) ==
    /\ req[c].pc = "locked" /\ RoomForMux
    /\ EnsureFeed(EndOpen(Now, c), c)
    /\ Finish(c)
    /\ UNCHANGED <<hold, lateNone>>

-----------------------------------------------------------------------------
(* Leaving, timers, holds.                                                  *)

\* Mutant: a screen that left already leaves again.
LeaveAgain(ch) ==
    /\ h.feed[ch].mux # None
    /\ h' = [h EXCEPT !.feed[ch].viewers = @ - 1, !.feed[ch].idle = TRUE]
    /\ UNCHANGED <<hold, known, dev, conn, mux, req, lateNone>>

\* Release: a screen leaves; the last one arms the idle timer.
Leave(ch) ==
    /\ h.feed[ch].viewers > 0
    /\ h' = [h EXCEPT !.feed[ch] = [h.feed[ch] EXCEPT !.viewers = h.feed[ch].viewers - 1,
                                                      !.idle = h.feed[ch].idle \/ h.feed[ch].viewers = 1]]
    /\ UNCHANGED <<hold, known, dev, conn, mux, req, lateNone>>

\* lingerLocked.
Linger(s, ch) ==
    IF s.h.feed[ch].enc \/ hold > 0 \/ s.h.at[s.mux[s.h.feed[ch].mux].freq] = None
    THEN s ELSE [s EXCEPT !.h.feed[ch].linger = TRUE]

\* idleStop: the encode stops unless a viewer came back.
IdleStop(ch) ==
    LET f == h.feed[ch]
        s == [Now EXCEPT !.h.feed[ch] = [f EXCEPT !.idle = FALSE, !.enc = f.enc /\ f.viewers > 0]]
    IN  /\ f.mux # None /\ f.idle
        /\ Become(DropIfUnused(Linger(s, ch), ch))
        /\ UNCHANGED <<hold, known, req, lateNone>>

\* Mutant: the timer only forgets the linger.
LingerForgotten(ch) ==
    /\ h.feed[ch].linger
    /\ h' = [h EXCEPT !.feed[ch].linger = FALSE]
    /\ UNCHANGED <<hold, known, dev, conn, mux, req, lateNone>>

\* The linger timer.
LingerEnds(ch) ==
    /\ h.feed[ch].linger
    /\ Become(DropIfUnused([Now EXCEPT !.h.feed[ch].linger = FALSE], ch))
    /\ UNCHANGED <<hold, known, req, lateNone>>

\* ReleaseAbandoned: a screen that stopped asking for video.
Abandon(ch) ==
    LET s == [Now EXCEPT !.h.feed[ch] = [h.feed[ch] EXCEPT !.viewers = 0, !.enc = FALSE]]
    IN  /\ h.feed[ch].viewers > 0
        /\ Become(DropIfUnused(Linger(s, ch), ch))
        /\ UNCHANGED <<hold, known, req, lateNone>>

\* StopRecord or the recording's timer.
StopRecord(ch) ==
    /\ h.feed[ch].rec
    /\ Become(DropIfUnused([Now EXCEPT !.h.feed[ch].rec = FALSE], ch))
    /\ UNCHANGED <<hold, known, req, lateNone>>

\* SetHold: a hold ends every linger.
SetHold(n) ==
    LET s == [Now EXCEPT !.h.feed = [ch \in Channels |-> [@[ch] EXCEPT !.linger = FALSE]]]
        lone == {ch \in Channels : h.feed[ch].linger /\ Unused(s, ch)}
    IN  /\ hold # n /\ hold' = n
        /\ IF n > 0 THEN Become(StopFeeds(s, lone, FALSE)) ELSE UNCHANGED <<h, mux, conn, dev>>
        /\ UNCHANGED <<known, req, lateNone>>

\* releaseLaterLocked's goroutine, and dropTunedLocked's.
ReleaseDone(t) ==
    LET s == Release(Now, t)
    IN  /\ t \in h.releasing
        /\ Become([s EXCEPT !.h.releasing = @ \ {t}, !.h.pending = @ \ {t}])
        /\ lateNone' = (lateNone \/ Hurts(Now, t))
        /\ UNCHANGED <<hold, known, req>>

-----------------------------------------------------------------------------
(* The device, and the mux's reader when its stream ends.                   *)

\* A tuner whose stream is closed is freed by the device in its own time.
DeviceFrees(t) ==
    /\ dev[t] \in Freqs /\ t \notin conn
    /\ dev' = [dev EXCEPT ![t] = None]
    /\ UNCHANGED <<h, hold, known, conn, mux, req, lateNone>>

OtherApp(t) ==
    /\ "app" \in Faults
    /\ \/ dev[t] = None /\ t \notin conn /\ dev' = [dev EXCEPT ![t] = App]
       \/ dev[t] = App /\ dev' = [dev EXCEPT ![t] = None]
    /\ UNCHANGED <<h, hold, known, conn, mux, req, lateNone>>

\* readLoop's read fails: the device ended the stream, or took the tuner away.
StreamEnds(i) ==
    LET m == mux[i]
    IN  /\ m.rd = "reading" /\ ("stream" \in Faults \/ m.tuner \notin conn)
        /\ mux' = [mux EXCEPT ![i].rd = IF m.moved THEN "release" ELSE "failed",
                              ![i].moved = TRUE]
        /\ conn' = conn \ {m.tuner}
        /\ UNCHANGED <<h, hold, known, dev, req, lateNone>>

\* watchInput closes a stream that went silent.
Stall(i) ==
    /\ "stall" \in Faults /\ mux[i].rd = "reading"
    /\ mux' = [mux EXCEPT ![i].rd = "stalled"]
    /\ conn' = conn \ {mux[i].tuner}
    /\ UNCHANGED <<h, hold, known, dev, req, lateNone>>

\* reopenInput: the same tuner's stream is asked for again.  A tune that moved
\* has nothing to reopen; one nobody records gives up after a while; one that
\* was stopped meanwhile gives up at once.
Reopen(i) ==
    LET m == mux[i]
        recorded == \E ch \in m.feeds : h.feed[ch].rec
    IN  /\ m.rd = "stalled"
        /\ \/ /\ h.at[m.freq] = i /\ ~m.moved /\ CanOpen(Now, m.tuner)
              /\ Become([Opens(Now, m.tuner, m.freq) EXCEPT !.mux[i].rd = "reopened"])
           \/ /\ h.at[m.freq] # i \/ m.moved \/ ~recorded
              /\ mux' = [mux EXCEPT ![i].rd = IF m.moved THEN "release" ELSE "failed",
                                    ![i].moved = TRUE]
              /\ UNCHANGED <<h, conn, dev>>
        /\ UNCHANGED <<hold, known, req, lateNone>>

\* The reopened stream is used only while the mux is still the one stored.
Reopened(i) ==
    LET m == mux[i]
        current == h.at[m.freq] = i
    IN  /\ m.rd = "reopened"
        /\ mux' = [mux EXCEPT ![i].rd = IF current THEN "reading" ELSE "failed",
                              ![i].moved = ~current]
        /\ conn' = IF current THEN conn ELSE conn \ {m.tuner}
        /\ UNCHANGED <<h, hold, known, dev, req, lateNone>>

\* The tuners of the device the mux is not on.
Elsewhere(t) == IF t \in Own THEN Other ELSE Own

\* moveWithin: another device's status alone is asked for a free tuner.
Move(i) ==
    LET m == mux[i]
    IN  /\ m.rd = "failed"
        /\ \/ /\ mux' = [mux EXCEPT ![i].rd = "giveUp"] /\ UNCHANGED <<dev, conn>>
           \/ \E t \in FirstFree(Free(Now, Elsewhere(m.tuner)), {}) :
                 /\ CanOpen(Now, t)
                 /\ mux' = [mux EXCEPT ![i].rd = "moving", ![i].to = t]
                 /\ dev' = [dev EXCEPT ![t] = m.freq] /\ conn' = conn \cup {t}
        /\ UNCHANGED <<h, hold, known, req, lateNone>>

\* Mutant: the move is published for a mux nobody has any more.
CommitAlways(i) ==
    /\ mux[i].rd = "moving"
    /\ mux' = [mux EXCEPT ![i].rd = "oldNone", ![i].tuner = mux[i].to, ![i].to = mux[i].tuner]
    /\ UNCHANGED <<h, hold, known, dev, conn, req, lateNone>>

\* commitMove: only while the mux is still the one stored.
CommitMove(i) ==
    LET m == mux[i]
    IN  /\ m.rd = "moving"
        /\ mux' = IF h.at[m.freq] = i
                  THEN [mux EXCEPT ![i].rd = "oldNone", ![i].tuner = m.to, ![i].to = m.tuner]
                  ELSE [mux EXCEPT ![i].rd = "newNone"]
        /\ conn' = IF h.at[m.freq] = i THEN conn ELSE conn \ {m.to}
        /\ UNCHANGED <<h, hold, known, dev, req, lateNone>>

\* The nones handOff sends: the old tuner after a move, the new one after a
\* move that came too late, and the mux's own when it gives up.
HandOffNone(i) ==
    LET m == mux[i]
        t == IF m.rd = "giveUp" THEN m.tuner ELSE m.to
        next == [oldNone |-> "reading", newNone |-> "giveUp", giveUp |-> "release"][m.rd]
        s == Release(Now, t)
        \* a mux cancelled meanwhile is not read again
        m2 == IF m.rd = "oldNone" /\ h.at[m.freq] # i THEN NoMux
              ELSE [m EXCEPT !.rd = next, !.to = NoTuner]
    IN  /\ m.rd \in {"oldNone", "newNone", "giveUp"}
        /\ Become([s EXCEPT !.mux[i] = m2])
        /\ lateNone' = (lateNone \/ Hurts(Now, t))
        /\ UNCHANGED <<hold, known, req>>

\* releaseMux: recordings on it fail, every feed stops.
ReleaseMux(i) ==
    LET s == IF h.at[mux[i].freq] = i THEN StopFeeds(Now, mux[i].feeds, FALSE) ELSE Now
    IN  /\ mux[i].rd = "release"
        /\ Become([s EXCEPT !.mux[i] = NoMux])
        /\ UNCHANGED <<hold, known, req, lateNone>>

-----------------------------------------------------------------------------
Step(c) ==
    \/ OpenTuned(c) \/ FetchStatus(c) \/ PickTuner(c) \/ ClearClaimed(c) \/ OpenStream(c)
    \/ Attach(c) \/ Locked(c)

Timers(ch) == IdleStop(ch) \/ LingerEnds(ch)

Reader(i) ==
    Reopen(i) \/ Reopened(i) \/ Move(i) \/ CommitMove(i) \/ HandOffNone(i) \/ ReleaseMux(i)

Next ==
    \/ \E c \in Clients : Step(c) \/ LeaveWait(c) \/ \E k \in Kinds, ch \in Channels : Ask(c, k, ch)
    \/ \E ch \in Channels : Leave(ch) \/ Timers(ch) \/ Abandon(ch) \/ StopRecord(ch)
    \/ \E n \in Holds : SetHold(n)
    \/ \E t \in Tuners : ReleaseDone(t) \/ DeviceFrees(t) \/ OtherApp(t)
    \/ \E i \in MuxIds : Reader(i) \/ StreamEnds(i) \/ Stall(i)

Spec == Init /\ [][Next]_vars

\* A request goes on until it ends, timers fire, a tuner is set to none, and a
\* reader whose stream ended goes on.  Nobody has to ask, leave or stop.
Fairness ==
    /\ \A c \in Clients : WF_vars(Step(c))
    /\ \A ch \in Channels : WF_vars(IdleStop(ch)) /\ WF_vars(LingerEnds(ch))
    /\ \A t \in Tuners : WF_vars(ReleaseDone(t))
    /\ \A i \in MuxIds : WF_vars(Reader(i))

FairSpec == Spec /\ Fairness


-----------------------------------------------------------------------------
(* Properties.                                                              *)

Request == [pc : {"idle", "waitOpen", "tune", "waitFreq", "status", "pick",
                  "clear", "stream", "attach", "locked"},
            kind : {"watch", "record"}, ch : Channels \cup {0},
            freq : Freqs \cup {None}, free : SUBSET Tuners,
            tuner : Tuners \cup {NoTuner}, opener : BOOLEAN,
            mark : Freqs \cup {None}, ok : BOOLEAN, waits : 0..2]

Mux == [freq : Freqs \cup {None}, tuner : Tuners \cup {NoTuner},
        feeds : SUBSET Channels, rd : ReaderPcs, moved : BOOLEAN,
        to : Tuners \cup {NoTuner}]

TypeOK ==
    /\ h \in Maps /\ hold \in Holds \cup {0} /\ known \subseteq Channels
    /\ dev \in [Tuners -> Freqs \cup {None, App}] /\ conn \subseteq Tuners
    /\ mux \in [MuxIds -> Mux] /\ req \in [Clients -> Request]
    /\ lateNone \in BOOLEAN

\* Everything in the hub that counts on tuner t.
Owners(t) ==
    {<<"mux", i>> : i \in {j \in Current(Now) : mux[j].tuner = t}}
    \cup {<<"open", c>> : c \in {d \in Clients :
              req[d].pc \in {"clear", "stream", "attach"} /\ req[d].tuner = t}}
    \cup {<<"move", i>> : i \in {j \in MuxIds : mux[j].rd = "moving" /\ mux[j].to = t}}
    \cup {<<"release", r>> : r \in h.releasing \cap {t}}

\* The reader that reopened t will see that its mux is gone and close it.
Reopening(t) == \E i \in MuxIds : mux[i].rd = "reopened" /\ mux[i].tuner = t

\* No two of them count on the same tuner: a tune never picks one that another
\* request is opening, or that is still to be set to none.
OneOwner == \A t \in Tuners : Cardinality(Owners(t)) <= 1

\* No stream is forgotten: a tuner the hub streams on belongs to a mux it
\* stores, to a request, or to a release.
Accounted == \A t \in conn : Owners(t) # {} \/ Reopening(t)

\* The maps agree: a feed is on a mux that lists it and is stored under its
\* frequency, so a frequency is tuned once however many channels use it.
MapsAgree ==
    /\ \A ch \in Channels : Tuned(Now, ch) =>
          LET i == h.feed[ch].mux
          IN  ch \in mux[i].feeds /\ mux[i].freq = Freq[ch] /\ h.at[Freq[ch]] = i
    /\ \A i \in Current(Now) : mux[i].feeds # {}

\* A channel whose frequency is not stored has it to itself; without that the
\* probe path tunes its station twice.
KnownOrAlone == \A ch \in Unknown, x \in Channels : Freq[x] = Freq[ch] => x = ch

\* A recording ends only by its own stop or by its tuner's stream ending, never
\* for another request, a hold, a timer or a screen that leaves.
KeepsRecordings ==
    \A ch \in Channels : (h.feed[ch].rec /\ ~h'.feed[ch].rec) =>
        \/ StopRecord(ch)
        \/ \E i \in MuxIds : ReleaseMux(i) /\ ch \in mux[i].feeds

RecordingsAreKept == [][KeepsRecordings]_vars

\* A none never lands on a tuner that a current tune streams on.
NoLateNone == ~lateNone

\* A request never waits for good for another's open of its channel or of its
\* station: who opens always closes the channel others wait on.
RequestsEnd == \A c \in Clients : req[c].pc # "idle" ~> req[c].pc = "idle"

\* Once nobody watches, records or asks any more, every tuner comes back.
Quiet == /\ \A c \in Clients : req[c].pc = "idle"
         /\ \A ch \in Channels : h.feed[ch].viewers = 0 /\ ~h.feed[ch].rec

Released == conn = {} /\ h.pending = {} /\ Current(Now) = {}

TunersComeBack == <>[]Quiet => <>[]Released
=============================================================================
