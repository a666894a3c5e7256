--------------------------------- MODULE Mosaic ---------------------------------
(* Two to four channels in one encode (live/mosaic.go, httpapi/mosaic.go), next to  *)
(* the encodes of single tiles that share the host's budget of pictures.  A watch   *)
(* opens its channels one after another outside the hub's lock, while feeds stop,   *)
(* tiles come and go and others start the same mosaic.                              *)
EXTENDS Naturals, Sequences, SequencesExt, FiniteSets, FiniteSetsExt

CONSTANTS
    Channels,
    TileChannels,   \* those a tile is watched of
    Feeds,          \* identities of feeds, more than can be in use
    Keys,           \* mosaics asked for: sequences of channels, the sound's first
    Screens,        \* viewers of a mosaic
    Exporters,      \* those of them that are apps copying it
    Tiles,          \* the host's budget of pictures (Host.Tiles)
    ExportCap,      \* copies at once (exportCap)
    MaxViewers      \* bound on the viewers counted of a mosaic, vanished ones included

VARIABLES
    on,             \* h.channels: the feed of each channel, or NoFeed
    feed,           \* of each feed: the mosaics that count it, its encode, its linger
    mosaics,        \* h.mosaics: by key, or NoMosaic
    pc,             \* the watch of each screen
    copies          \* h.exportCopies

mosaicVars == <<on, feed, mosaics, pc, copies>>

MosaicCost == 2
NoFeed == 0
NoMosaic == [none |-> TRUE]
\* What the hub's lock guards, as one value that the functions below turn into the next.
Hub == [on |-> on, feed |-> feed, mosaics |-> mosaics]
Becomes(h) == on' = h.on /\ feed' = h.feed /\ mosaics' = h.mosaics

Fresh == [mosaics |-> 0, tile |-> "none", linger |-> FALSE]
Off == [at |-> "off", key |-> <<>>, feeds |-> <<>>]
Running(h) == {k \in Keys : h.mosaics[k] # NoMosaic}
Reads(h, k) == ToSet(h.mosaics[k].feeds)
Live(h, f) == \E c \in Channels : h.on[c] = f
LiveFeeds(h) == {f \in Feeds : Live(h, f)}
---------------------------------------------------------------------------------
(* The budget.                                                                      *)

Encoding(h) == {f \in LiveFeeds(h) : h.feed[f].tile # "none"}
Transcodes(h) == Cardinality(Encoding(h)) + MosaicCost * Cardinality(Running(h))
Fits(h, need) == Transcodes(h) + need <= Tiles

\* dropIfUnusedLocked, of each feed of F: it and its tune go if nothing reads it.
Unused(h, f) == h.feed[f].tile = "none" /\ h.feed[f].mosaics = 0 /\ ~h.feed[f].linger
Drop(h, F) ==
    LET gone == {f \in F : Unused(h, f)}
    IN  [h EXCEPT !.on = [c \in Channels |-> IF h.on[c] \in gone THEN NoFeed ELSE h.on[c]]]

\* Each of these feeds is in one mosaic less, of each of the mosaics that read it.
Uncounted(h, less) == [h EXCEPT !.feed = [f \in Feeds |-> [h.feed[f] EXCEPT !.mosaics = @ - less[f]]]]
\* stopMosaicKeepingLocked, of each mosaic of K.
StopMosaics(h, K, keep) ==
    LET reads == UNION {Reads(h, k) : k \in K}
        ended == [h EXCEPT !.mosaics = [k \in Keys |-> IF k \in K THEN NoMosaic ELSE h.mosaics[k]]]
    IN  Drop(Uncounted(ended, [f \in Feeds |-> Cardinality({k \in K : f \in Reads(h, k)})]), reads \ keep)

\* stopFeedLocked, with endMosaicsOnLocked: a mosaic would show the picture frozen.
Cut(h, f) == [h EXCEPT !.on = [c \in Channels |-> IF h.on[c] = f THEN NoFeed ELSE h.on[c]], !.feed[f].tile = "none", !.feed[f].linger = FALSE]
StopFeedFrozen(h, f) == Cut(h, f)       \* mutant: mosaics on it go on
StopFeed(h, f) == Cut(StopMosaics(h, {k \in Running(h) : f \in Reads(h, k)}, {}), f)

\* releaseIdlePicturesLocked: pictures without viewers, or whose viewers have not
\* fetched for stalePicture (any may), oldest first until the need fits.
FreeTiles(h, keep, need) ==
    LET k == IF Fits(h, need) THEN 0 ELSE Transcodes(h) + need - Tiles
        idle == {f \in Encoding(h) : h.feed[f].tile = "idle"}
        freed(S) == [h EXCEPT !.feed = [f \in Feeds |-> IF f \in S THEN [h.feed[f] EXCEPT !.tile = "none"] ELSE h.feed[f]]]
    IN  {Drop(freed(S), S \ keep) : S \in {S \in SUBSET Encoding(h) : Cardinality(S) = k \/ (Cardinality(S) < k /\ idle \subseteq S)}}
\* releaseIdleMosaicsLocked
FreeMosaics(h, keep, need) ==
    LET n == IF Fits(h, need) THEN 0 ELSE (Transcodes(h) + need - Tiles + 1) \div MosaicCost
        idle == {k \in Running(h) : h.mosaics[k].viewers = 0}
    IN  {StopMosaics(h, K, keep) : K \in {K \in SUBSET Running(h) : Cardinality(K) = n \/ (Cardinality(K) < n /\ idle \subseteq K)}}
FreePictures(h, keep, need) == UNION {FreeMosaics(g, keep, need) : g \in FreeTiles(h, keep, need)}
\* mosaicFitsLocked: the tunes of the mosaic's own channels stay.
OnFor(h, key) == {h.on[c] : c \in ToSet(key)} \ {NoFeed}
MakeRoom(h, key) == IF Fits(h, MosaicCost) THEN {h} ELSE FreePictures(h, OnFor(h, key), MosaicCost)
---------------------------------------------------------------------------------
Init ==
    /\ on = [c \in Channels |-> NoFeed]
    /\ feed = [f \in Feeds |-> Fresh]
    /\ mosaics = [k \in Keys |-> NoMosaic]
    /\ pc = [s \in Screens |-> Off]
    /\ copies = 0

\* A feed that is live, in a mosaic, or held by a watch is that feed and no other.
InUse(h, f) ==
    Live(h, f) \/ (\E k \in Running(h) : f \in Reads(h, k)) \/ \E s \in Screens : f \in ToSet(pc[s].feeds)
\* tuneFeed: the channel's feed, or a new one.
Tuned(h, c) ==
    IF h.on[c] # NoFeed THEN {h}
    ELSE {[h EXCEPT !.on[c] = f, !.feed[f] = Fresh] : f \in {f \in Feeds : ~InUse(h, f) /\ \A g \in Feeds : g < f => InUse(h, g)}}

\* joinMosaicLocked
Join(h, k) == [h EXCEPT !.mosaics[k].viewers = @ + 1, !.mosaics[k].idle = FALSE]
Joined(s, k) == pc' = [pc EXCEPT ![s] = [at |-> "joined", key |-> k, feeds |-> <<>>]]
Ends(s) == pc' = [pc EXCEPT ![s] = Off]
\* What a watch counted it gives back.
LetGo(h, feeds) == Drop(Uncounted(h, [f \in Feeds |-> IF f \in ToSet(feeds) THEN 1 ELSE 0]), ToSet(feeds))

\* WatchMosaic, before it tunes: joins one that runs, or makes room; one that cannot
\* fit tunes nothing.
Watch(s, k) ==
    /\ pc[s] = Off
    /\ s \in Exporters => copies < ExportCap
    /\ \/ /\ mosaics[k] # NoMosaic /\ mosaics[k].viewers < MaxViewers
          /\ Becomes(Join(Hub, k)) /\ Joined(s, k)
       \/ /\ mosaics[k] = NoMosaic
          /\ \E g \in MakeRoom(Hub, k) :
                IF Fits(g, MosaicCost) THEN Becomes(g) /\ pc' = [pc EXCEPT ![s] = [at |-> "tune", key |-> k, feeds |-> <<>>]]
                ELSE Becomes(Drop(g, OnFor(g, k))) /\ Ends(s)
    /\ UNCHANGED copies

NextChannel(s) == pc[s].key[Len(pc[s].feeds) + 1]
\* The next of its channels is tuned, and counted before the lock is left.
Tune(s) ==
    /\ pc[s].at = "tune" /\ Len(pc[s].feeds) < Len(pc[s].key)
    /\ \E g \in Tuned(Hub, NextChannel(s)) :
          LET f == g.on[NextChannel(s)]
          IN  /\ Becomes([g EXCEPT !.feed[f].mosaics = @ + 1])
              /\ pc' = [pc EXCEPT ![s].feeds = Append(@, f)]
    /\ UNCHANGED copies
\* No tuner, a device that does not answer, or a viewer who left.
TuneFails(s) ==
    /\ pc[s].at = "tune" /\ Len(pc[s].feeds) < Len(pc[s].key)
    /\ Becomes(LetGo(Hub, pc[s].feeds)) /\ Ends(s)
    /\ UNCHANGED copies

RoomAnyway(h) == TRUE       \* mutant: the budget is not checked again
\* The second look: tiles and other mosaics may have started meanwhile.
HasRoom(h) == Fits(h, MosaicCost)
\* startMosaicLocked: a feed that stopped meanwhile gives it a closed input (lost).
Start(h, s) ==
    [h EXCEPT !.mosaics[pc[s].key] =
        [feeds |-> pc[s].feeds, viewers |-> 1, idle |-> FALSE, software |-> FALSE,
         lost |-> {f \in ToSet(pc[s].feeds) : ~Live(h, f)}]]
Begin(s) ==
    /\ pc[s].at = "tune" /\ Len(pc[s].feeds) = Len(pc[s].key)
    /\ \/ /\ mosaics[pc[s].key] # NoMosaic      \* another viewer started it
          /\ Becomes(Join(LetGo(Hub, pc[s].feeds), pc[s].key)) /\ Joined(s, pc[s].key)
       \/ /\ mosaics[pc[s].key] = NoMosaic
          /\ \E g \in MakeRoom(Hub, pc[s].key) :
                \/ HasRoom(g) /\ Becomes(Start(g, s)) /\ Joined(s, pc[s].key)
                \/ Becomes(LetGo(g, pc[s].feeds)) /\ Ends(s)    \* no room, or the encoder does not start
    /\ UNCHANGED copies

\* ReleaseMosaic goes by the key: whatever runs under it now loses a viewer.
Release(h, k) ==
    IF h.mosaics[k] = NoMosaic \/ h.mosaics[k].viewers = 0 THEN h
    ELSE [h EXCEPT !.mosaics[k].viewers = @ - 1, !.mosaics[k].idle = h.mosaics[k].viewers = 1]
Leave(s) ==
    /\ pc[s].at = "joined"
    /\ Becomes(Release(Hub, pc[s].key)) /\ Ends(s)
    /\ UNCHANGED copies
\* A screen that is switched off releases nothing.
Vanish(s) ==
    /\ pc[s].at = "joined" /\ s \notin Exporters
    /\ Ends(s)
    /\ UNCHANGED <<on, feed, mosaics, copies>>

\* ExportMosaic's copy, once the mosaic has media.
Copy(s) ==
    /\ pc[s].at = "joined" /\ s \in Exporters
    /\ copies < ExportCap
    /\ pc' = [pc EXCEPT ![s].at = "copying"] /\ copies' = copies + 1
    /\ UNCHANGED <<on, feed, mosaics>>
EndCopy(s) ==
    /\ pc[s].at = "copying"
    /\ Becomes(Release(Hub, pc[s].key)) /\ Ends(s)
    /\ copies' = copies - 1
---------------------------------------------------------------------------------
(* The mosaic's process and timers.                                                 *)

\* watchMosaic: a GPU encode that fails at its start goes on in software.
Exit(k) ==
    /\ mosaics[k] # NoMosaic
    /\ \/ Becomes(StopMosaics(Hub, {k}, {}))
       \/ /\ ~mosaics[k].software
          /\ Becomes([Hub EXCEPT !.mosaics[k].software = TRUE, !.mosaics[k].idle = (mosaics[k].viewers = 0),
                                 !.mosaics[k].lost = @ \cup {f \in Reads(Hub, k) : ~Live(Hub, f)}])
    /\ UNCHANGED <<pc, copies>>
\* idleMosaicLocked's timer.
IdleEnds(k) ==
    /\ mosaics[k] # NoMosaic /\ mosaics[k].idle /\ mosaics[k].viewers = 0
    /\ Becomes(StopMosaics(Hub, {k}, {}))
    /\ UNCHANGED <<pc, copies>>
\* ReleaseAbandoned: mosaics nobody fetched of for long, and every feed nobody uses.
Reap(K) ==
    /\ K \subseteq Running(Hub)
    /\ LET g == StopMosaics(Hub, K, {}) IN Becomes(Drop(g, LiveFeeds(g)))
    /\ UNCHANGED <<pc, copies>>

(* Tiles and tunes.                                                                 *)

\* ensureRenditionAtLocked, for a tile of a channel.
WatchTile(c) ==
    /\ \E g \in Tuned(Hub, c) :
          LET f == g.on[c]
              encoded(h) == [h EXCEPT !.feed[f].tile = "watched"]
          IN  IF g.feed[f].tile # "none" THEN Becomes(encoded(g))
              ELSE \E r \in (IF Fits(g, 1) THEN {g} ELSE FreePictures(g, {f}, 1)) :
                      Becomes(IF Fits(r, 1) THEN encoded(r) ELSE Drop(r, {f}))
    /\ UNCHANGED <<pc, copies>>
LeaveTile(c) ==
    /\ on[c] # NoFeed /\ feed[on[c]].tile = "watched"
    /\ Becomes([Hub EXCEPT !.feed[on[c]].tile = "idle"])
    /\ UNCHANGED <<pc, copies>>
\* idleStop: the tune lingers.
IdleStop(c) ==
    /\ on[c] # NoFeed /\ feed[on[c]].tile = "idle"
    /\ Becomes([Hub EXCEPT !.feed[on[c]].tile = "none", !.feed[on[c]].linger = TRUE])
    /\ UNCHANGED <<pc, copies>>
LingerEnds(c) ==
    /\ on[c] # NoFeed /\ feed[on[c]].linger
    /\ Becomes(Drop([Hub EXCEPT !.feed[on[c]].linger = FALSE], {on[c]}))
    /\ UNCHANGED <<pc, copies>>
\* Its stream ended, or a recording needs its tuner.
Lose(c) ==
    /\ on[c] # NoFeed
    /\ Becomes(StopFeed(Hub, on[c]))
    /\ UNCHANGED <<pc, copies>>

Next ==
    \/ \E s \in Screens :
          \/ Tune(s) \/ TuneFails(s) \/ Begin(s) \/ Leave(s) \/ Vanish(s) \/ Copy(s) \/ EndCopy(s)
          \/ \E k \in Keys : Watch(s, k)
    \/ \E k \in Keys : Exit(k) \/ IdleEnds(k)
    \/ \E K \in SUBSET Keys : Reap(K)
    \/ \E c \in TileChannels : WatchTile(c)
    \/ \E c \in Channels : LeaveTile(c) \/ IdleStop(c) \/ LingerEnds(c) \/ Lose(c)
Spec == Init /\ [][Next]_mosaicVars
---------------------------------------------------------------------------------
\* The pictures encoded never exceed what the host can do, though a mosaic checks the
\* budget, tunes for seconds, and starts (mosaicFitsLocked, ensureRenditionAtLocked).
PicturesFit == Transcodes(Hub) <= Tiles

\* A feed is counted once for every mosaic that reads it and every watch that opened
\* it, however watches fail, meet and lose feeds on the way: a tune is neither cut
\* off under a mosaic nor kept by a count nobody gives back.
Counted ==
    \A f \in Feeds : InUse(Hub, f) =>
        feed[f].mosaics = Cardinality({k \in Running(Hub) : f \in Reads(Hub, k)})
                            + Cardinality({s \in Screens : f \in ToSet(pc[s].feeds)})

\* A mosaic reads live feeds: one that stops ends it.  The exception is a feed that
\* had stopped before the mosaic it was opened for was started (lost).
TilesAreLive == \A k \in Running(Hub) : \A f \in Reads(Hub, k) \ mosaics[k].lost : Live(Hub, f)

\* A mosaic nobody watches has the timer that ends it, a restarted one too.
IdleEndsIt == \A k \in Running(Hub) : mosaics[k].viewers = 0 => mosaics[k].idle

\* Copies for other apps are counted and capped across two looks at the count.
CopiesCounted == copies = Cardinality({s \in Screens : pc[s].at = "copying"}) /\ copies <= ExportCap
=================================================================================
