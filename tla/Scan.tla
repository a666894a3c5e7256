---------------------------------- MODULE Scan ----------------------------------
(* What a tune learns of a tuner's channel while it plays (live/scantype.go,       *)
(* live/audio.go, live/probe.go): the scan of its picture from the headers or from *)
(* a probe, its rate, and its sound tracks.  A channel nothing is stored of is     *)
(* read before the encode starts (learnScanLocked); of another the encode starts   *)
(* on what is stored and a goroutine corrects it (finishDeferred).  The readers    *)
(* read without the hub's lock, and may outlive their feed.                        *)
EXTENDS Naturals, Sequences, SequencesExt, FiniteSets

CONSTANTS
    Programmes,     \* what can be on air: [coding, rate, sound]
    ProbeOrders,    \* the field orders ffprobe may say, "" for none
    Rows,           \* what is stored of a channel: the order of its fields, and whether
                    \* its two languages are labelled the wrong way round
    MaxTunes        \* bound on tunes

VARIABLES
    onAir,          \* the programme sent now
    row,            \* the channel's row in the store
    writes,         \* writes of the row under way
    feed, tunes,    \* the hub's feed of the channel or Empty; tunes so far
    level,          \* what the picture buffer holds
    readers,        \* goroutines that read it
    enc             \* the encode, or Empty

scanVars == <<onAir, row, writes, feed, tunes, level, readers, enc>>

Empty == [none |-> TRUE]
Levels == 0..4      \* nothing, no map yet, the map and a few pictures, a whole group,
                    \* and frames of every sound
---------------------------------------------------------------------------------
(* The headers.                                                                    *)

\* Of the pictures read: all, progressive ones, and those that repeat a field.
Pictures(coding, lvl) ==
    LET n == IF lvl >= 3 THEN 8 ELSE 3
    IN  [all |-> n, progressive |-> IF coding = "fields" THEN 0 ELSE n, repeats |-> IF coding = "film" THEN n \div 2 ELSE 0]
FilmCadence(p) ==
    /\ p.all >= 4 /\ p.progressive = p.all /\ p.repeats \notin {0, p.all}
    /\ 4 * p.repeats >= p.all /\ 4 * p.repeats <= 3 * p.all
Mpeg2Scan(coding, p) ==
    IF coding = "progressive" THEN "progressive"
    ELSE IF p.progressive < p.all THEN "tt"
    ELSE IF FilmCadence(p) THEN "film"
    ELSE IF p.all >= 8 THEN "tt" ELSE ""
\* h264Scan: the first parameter set says it.
H264Scan(coding) == IF coding = "frames264" THEN "progressive" ELSE "tt"
\* programVideo: the tables that name the picture's packets have come.
MapRead(lvl) == lvl >= 2
\* scanType: hevc is sent in whole frames.
ScanType(coding, lvl) ==
    IF ~MapRead(lvl) THEN ""
    ELSE CASE coding = "hevc" -> "progressive"
           [] coding \in {"frames264", "fields264"} -> H264Scan(coding)
           [] OTHER -> Mpeg2Scan(coding, Pictures(coding, lvl))
HeaderRate(programme, lvl) == IF MapRead(lvl) THEN programme.rate ELSE ""
FiftyHz(rate) == rate \in {"25", "50", "12.5"}
StoredFieldOrder(order) == IF order = "film" THEN "tt" ELSE order
InterlacedOrder(order) == order \in {"tt", "bb", "tb", "bt"}
---------------------------------------------------------------------------------
(* The sound.                                                                      *)

\* measureAC3: a frame says the mix, the descriptor may not.
Measured(t, lvl) ==
    IF lvl = 4 /\ t.sends THEN [pid |-> t.pid, lang |-> t.lang, bsmod |-> t.realBsmod, width |-> t.realWidth, measured |-> TRUE]
                       ELSE [pid |-> t.pid, lang |-> t.lang, bsmod |-> t.bsmod, width |-> t.width, measured |-> FALSE]
Described(t) == t.bsmod = 2
FullMix(t) == t.bsmod = 0
SameMix(t, primary) == primary = "" \/ t.lang \in {primary, ""}
Primary(in) ==
    LET mains == SelectSeq(in, LAMBDA t : ~Described(t))
    IN  IF \E i \in DOMAIN mains : mains[i].lang = "eng" THEN "eng"
        ELSE IF mains = <<>> THEN "" ELSE mains[1].lang
FullestMain(in) ==
    LET full == {i \in DOMAIN in : FullMix(in[i]) /\ SameMix(in[i], Primary(in))}
    IN  IF full = {} THEN 0
        ELSE CHOOSE i \in full : \A j \in full : in[j].width < in[i].width \/ (in[j].width = in[i].width /\ i <= j)
RoleOf(in, i) ==
    IF Described(in[i]) THEN "described"
    ELSE IF i = FullestMain(in) \/ (FullMix(in[i]) /\ SameMix(in[i], Primary(in))) THEN "main"
    ELSE IF in[i].lang \notin {"", Primary(in)} THEN "language" ELSE "described"
\* assignRoles, when no track is a main: the first that is not described is.
AssignRoles(in) ==
    LET out == [i \in DOMAIN in |-> [pid |-> in[i].pid, lang |-> in[i].lang, role |-> RoleOf(in, i),
                                     width |-> in[i].width, measured |-> in[i].measured]]
        spoken == {i \in DOMAIN in : out[i].role # "described"}
        first == CHOOSE i \in spoken : \A j \in spoken : i <= j
    IN  IF FullestMain(in) # 0 \/ spoken = {} THEN out ELSE [out EXCEPT ![first].role = "main"]
FirstOf(tracks, role) == SelectInSeq(tracks, LAMBDA t : t.role = role)
\* swapSounds: the station has its two languages' labels the wrong way round.
SwapSounds(tracks) ==
    LET m == FirstOf(tracks, "main")
        l == FirstOf(tracks, "language")
        carrying(i, from) == [tracks[i] EXCEPT !.pid = tracks[from].pid, !.width = tracks[from].width, !.measured = tracks[from].measured]
    IN  IF m = 0 \/ l = 0 THEN tracks ELSE [tracks EXCEPT ![m] = carrying(m, l), ![l] = carrying(l, m)]
\* channelTracks
TracksOf(lvl) ==
    LET tracks == AssignRoles([i \in DOMAIN onAir.sound |-> Measured(onAir.sound[i], lvl)])
    IN  IF ~MapRead(lvl) THEN <<>> ELSE IF row.swapped THEN SwapSounds(tracks) ELSE tracks
ChannelTracks == TracksOf(level)
Mains(tracks) == SelectSeq(tracks, LAMBDA t : t.role = "main")
AudioReady(tracks) ==
    Len(Mains(tracks)) < 2 \/ \A i \in DOMAIN Mains(tracks) : Mains(tracks)[i].measured
AllMeasured(tracks) == tracks # <<>> /\ \A i \in DOMAIN tracks : tracks[i].measured

\* PickTrack: the widest main, or the first of another role; 0 for none.
PickTrack(tracks, role) ==
    LET of == {i \in DOMAIN tracks : tracks[i].role = role}
        better(i, j) == IF role = "main" /\ tracks[i].width # tracks[j].width THEN tracks[i].width > tracks[j].width ELSE i <= j
    IN  IF of # {} THEN CHOOSE i \in of : \A j \in of : better(i, j)
        ELSE IF role = "main" /\ tracks # <<>> THEN 1 ELSE 0
Known(f) == IF f.tracks = <<>> THEN f.stored ELSE f.tracks
\* sourceFor's sound: 0 leaves it to ffmpeg.
SoundOf(f, role) == LET i == PickTrack(Known(f), role) IN IF i = 0 THEN 0 ELSE Known(f)[i].pid
MainOf(f, role) == IF SoundOf(f, role) # 0 THEN SoundOf(f, role) ELSE Known(f)[1].pid
Vouched(f, t) == t.measured \/ \E i \in DOMAIN f.stored : f.stored[i].pid = t.pid /\ f.stored[i].measured
\* extrasLocked: the other tracks, once a frame of them was read.
Extras(f, role) ==
    IF Known(f) = <<>> THEN {}
    ELSE {[pid |-> t.pid, lang |-> t.lang, role |-> t.role] : t \in {t \in ToSet(Known(f)) : t.pid # MainOf(f, role) /\ Vouched(f, t)}}
KeptAll(f, e) == e.extras   \* mutant: a rebuilt encode keeps the tracks it had
\* keptExtras: of an encode's, those the map lists as the same track.
KeptExtras(f, e) ==
    IF f.tracks = <<>> THEN e.extras
    ELSE {x \in e.extras : /\ x.pid # MainOf(f, e.role)
                           /\ \E i \in DOMAIN f.tracks : [pid |-> f.tracks[i].pid, lang |-> f.tracks[i].lang, role |-> f.tracks[i].role] = x}
---------------------------------------------------------------------------------
(* The feed and its encode, under the hub's lock.                                  *)

\* pictureArgs: what an encode is started with.
Encode(f, role, extras) ==
    [role |-> role, picture |-> [f.picture EXCEPT !.order = ""], fifty |-> FiftyHz(f.rate), pid |-> SoundOf(f, role), extras |-> extras]
\* rebuildRenditionsLocked: only if its command line would change.
Rebuilt(f, e) ==
    IF e = Empty \/ e = Encode(f, e.role, KeptExtras(f, e)) THEN e ELSE Encode(f, e.role, Extras(f, e.role))

Write(field, value) == [field |-> field, value |-> value]
\* setScanLocked
SetScan(f, order) ==
    LET stored == StoredFieldOrder(order)
    IN  IF order = "" THEN f
        ELSE [f EXCEPT !.picture = [order |-> order, progressive |-> stored = "progressive", film |-> order = "film",
                                    lace |-> InterlacedOrder(stored) /\ order # "film"],
                       !.channel.order = stored]
\* takeRateLocked
TakeRate(f, rate) == IF rate = "" THEN f ELSE [f EXCEPT !.rate = rate, !.channel.rate = rate]
\* A header counts once.
TakeHeader(f, order) == IF order = "" \/ f.header # "" THEN f ELSE [SetScan(f, order) EXCEPT !.header = order]
TakeTracks(f, tracks) == IF tracks = <<>> \/ f.tracks # <<>> THEN f ELSE [f EXCEPT !.tracks = tracks]
ProbeLast(f, order) == SetScan(f, order)    \* mutant: the probe has the last word
\* applyProbeLocked
ApplyProbe(f, order) == IF f.header # "" THEN f ELSE SetScan(f, order)

\* The writes a change of the feed's channel starts.
Stores(f, g) ==
    {Write("order", g.channel.order) : x \in {y \in {1} : g.channel.order # f.channel.order}}
      \cup {Write("rate", g.channel.rate) : x \in {y \in {1} : g.channel.rate # f.channel.rate}}
\* The feed becomes g, and its encode is rebuilt if that changes what it does.
Learns(g) ==
    /\ feed' = g
    /\ writes' = writes \cup Stores(feed, g)
    /\ enc' = Rebuilt(g, enc)
Nothing == UNCHANGED <<feed, writes, enc>>

\* sourceOf and addFeedLocked.
NewFeed ==
    [picture |-> [order |-> "", progressive |-> row.order = "progressive", film |-> FALSE, lace |-> InterlacedOrder(row.order)],
     rate |-> row.rate, header |-> "", tracks |-> <<>>, stored |-> row.tracks, probes |-> 0,
     id |-> tunes + 1, channel |-> [order |-> row.order, rate |-> row.rate]]
Reader(kind, n) == [kind |-> kind, feed |-> n, at |-> "read", order |-> "", rate |-> "", tracks |-> <<>>, done |-> {}]

Init ==
    /\ onAir \in Programmes
    /\ \E r \in Rows : row = [order |-> r.order, swapped |-> r.swapped, rate |-> "", tracks |-> <<>>]
    /\ writes = {} /\ feed = Empty /\ tunes = 0 /\ level = 0 /\ readers = {} /\ enc = Empty

\* Between two tunes something else is sent.
NextProgramme ==
    /\ feed = Empty /\ readers = {} /\ tunes < MaxTunes
    /\ onAir' \in Programmes \ {onAir}
    /\ UNCHANGED <<row, writes, feed, tunes, level, readers, enc>>

\* addFeedLocked of a channel whose scan is stored: the encode does not wait.
TuneStored ==
    /\ feed = Empty /\ tunes < MaxTunes /\ row.order # ""
    /\ feed' = NewFeed /\ tunes' = tunes + 1
    /\ level' = 0
    /\ readers' = readers \cup {Reader("deferred", tunes'), Reader("save", tunes')}
    /\ UNCHANGED <<onAir, row, writes, enc>>

\* learnScanLocked: reads for scanWait or until it knows enough, under the lock;
\* what is missing is left to finishScan and to ffprobe.
TuneNew(lvl) ==
    /\ feed = Empty /\ tunes < MaxTunes /\ row.order = ""
    /\ level' = lvl
    /\ LET order == ScanType(onAir.coding, lvl)
           rate == IF order = "" THEN "" ELSE HeaderRate(onAir, lvl)
           f == TakeHeader(TakeRate(TakeTracks(NewFeed, TracksOf(lvl)), rate), order)
           late == {k \in {"finish", "probe"} : order = "" /\ (k = "finish" => lvl > 0)}
       IN  /\ feed' = [f EXCEPT !.probes = IF "probe" \in late THEN 1 ELSE 0]
           /\ tunes' = tunes + 1
           /\ writes' = writes \cup Stores(NewFeed, f)
           /\ readers' = readers \cup {Reader(k, tunes') : k \in late \cup {"save"}}
    /\ UNCHANGED <<onAir, row, enc>>

\* ensureRenditionLocked, for a sound the screen chose.
Watch(role) ==
    /\ feed # Empty /\ enc = Empty
    /\ enc' = Encode(feed, role, Extras(feed, role))
    /\ UNCHANGED <<onAir, row, writes, feed, tunes, level, readers>>

\* The feed is dropped with its encode: nobody watches and no probe reads it, or
\* its stream ended.  A probe still knows whether a header was read.
Release ==
    /\ feed # Empty
    /\ feed' = Empty /\ enc' = Empty /\ level' = 0
    /\ readers' = {IF r.kind = "probe" /\ r.feed = feed.id /\ feed.header # "" THEN [r EXCEPT !.done = {"header"}] ELSE r : r \in readers}
    /\ UNCHANGED <<onAir, row, writes, tunes>>

Receives ==
    /\ feed # Empty /\ level < 4 /\ level' = level + 1
    /\ UNCHANGED <<onAir, row, writes, feed, tunes, readers, enc>>
---------------------------------------------------------------------------------
(* The goroutines: they read without the lock, and apply what they read under it.  *)
Becomes(r, s) == readers' = (readers \ {r}) \cup {s}
Ends(r) == readers' = readers \ {r}
IsCurrent(r) == feed # Empty /\ r.feed = feed.id        \* h.channels[id] == f

\* finishDeferred reads what it still lacks.
ReadDeferred(r) ==
    /\ r.kind = "deferred" /\ r.at = "read"
    /\ IF ~IsCurrent(r) THEN Ends(r)
       ELSE LET tracks == ChannelTracks
            IN  Becomes(r, [r EXCEPT !.at = "apply",
                                     !.order = IF "header" \in r.done THEN "" ELSE ScanType(onAir.coding, level),
                                     !.rate = IF "rate" \in r.done THEN "" ELSE HeaderRate(onAir, level),
                                     !.tracks = IF "audio" \in r.done THEN <<>> ELSE tracks])
    /\ UNCHANGED <<onAir, row, writes, feed, tunes, level, enc>>

\* It applies the picture at once, the sound when its mains are told apart or its
\* time is over, and goes on until it has both.
ApplyDeferred(r, timeUp) ==
    /\ r.kind = "deferred" /\ r.at = "apply"
    /\ LET sound == IF AudioReady(r.tracks) \/ timeUp THEN r.tracks ELSE <<>>
           done == r.done \cup {k \in {"header"} : r.order # ""} \cup {k \in {"rate"} : r.rate # ""} \cup {k \in {"audio"} : sound # <<>>}
       IN  /\ IF IsCurrent(r) THEN Learns(TakeTracks(TakeHeader(TakeRate(feed, r.rate), r.order), sound)) ELSE Nothing
           /\ IF timeUp \/ done = {"header", "rate", "audio"} THEN Ends(r)
              ELSE Becomes(r, [Reader("deferred", r.feed) EXCEPT !.done = done])
    /\ UNCHANGED <<onAir, row, tunes, level>>

\* finishScan: until the header shows up or its time is over.
ReadFinish(r, timeUp) ==
    /\ r.kind = "finish" /\ r.at = "read"
    /\ IsCurrent(r)
    /\ ScanType(onAir.coding, level) # "" \/ timeUp
    /\ Becomes(r, [r EXCEPT !.at = "apply", !.order = ScanType(onAir.coding, level), !.rate = HeaderRate(onAir, level)])
    /\ UNCHANGED <<onAir, row, writes, feed, tunes, level, enc>>
\* The buffer of a feed that is gone gets no more bytes.
StarveFinish(r) ==
    /\ r.kind = "finish" /\ r.at = "read" /\ ~IsCurrent(r)
    /\ Ends(r)
    /\ UNCHANGED <<onAir, row, writes, feed, tunes, level, enc>>
\* applyLateLocked
ApplyFinish(r) ==
    /\ r.kind = "finish" /\ r.at = "apply"
    /\ IF IsCurrent(r) THEN Learns(TakeHeader(TakeRate(feed, r.rate), r.order)) ELSE Nothing
    /\ Ends(r)
    /\ UNCHANGED <<onAir, row, tunes, level>>

\* probeFieldOrderLocked's goroutine: a feed that is gone only gets its row.
EndProbe(r, order) ==
    /\ r.kind = "probe" /\ Ends(r)
    /\ IF IsCurrent(r) THEN Learns(ApplyProbe([feed EXCEPT !.probes = 0], order))
       ELSE /\ writes' = writes \cup {Write("order", StoredFieldOrder(order)) : x \in {y \in {1} : order # "" /\ r.done = {}}}
            /\ UNCHANGED <<feed, enc>>
    /\ UNCHANGED <<onAir, row, tunes, level>>

\* saveTracks stores the sound once all of it was heard, or its time is over; the
\* encode that runs is left alone.
ReadSave(r, timeUp) ==
    /\ r.kind = "save" /\ r.at = "read"
    /\ IF ~IsCurrent(r) \/ (timeUp /\ ~MapRead(level)) THEN Ends(r)
       ELSE /\ AllMeasured(ChannelTracks) \/ timeUp
            /\ Becomes(r, [r EXCEPT !.at = "apply", !.tracks = ChannelTracks])
    /\ UNCHANGED <<onAir, row, writes, feed, tunes, level, enc>>
ApplySave(r) ==
    /\ r.kind = "save" /\ r.at = "apply"
    /\ feed' = (IF IsCurrent(r) THEN [feed EXCEPT !.stored = r.tracks] ELSE feed)
    /\ IF IsCurrent(r) /\ feed.stored = r.tracks THEN Ends(r) ELSE Becomes(r, [r EXCEPT !.at = "write"])
    /\ UNCHANGED <<onAir, row, writes, tunes, level, enc>>
WriteSave(r) ==
    /\ r.kind = "save" /\ r.at = "write"
    /\ row' = [row EXCEPT !.tracks = r.tracks]
    /\ Ends(r)
    /\ UNCHANGED <<onAir, writes, feed, tunes, level, enc>>

\* A write of the row by a goroutine of its own.
Stored(w) ==
    /\ writes' = writes \ {w}
    /\ row' = IF w.field = "order" THEN [row EXCEPT !.order = w.value] ELSE [row EXCEPT !.rate = w.value]
    /\ UNCHANGED <<onAir, feed, tunes, level, readers, enc>>

Next ==
    \/ NextProgramme \/ TuneStored \/ Release \/ Receives
    \/ \E lvl \in Levels : TuneNew(lvl)
    \/ \E role \in {"main", "language"} : Watch(role)
    \/ \E r \in readers :
          \/ ReadDeferred(r) \/ StarveFinish(r) \/ ApplyFinish(r) \/ ApplySave(r) \/ WriteSave(r)
          \/ \E timeUp \in BOOLEAN : ApplyDeferred(r, timeUp) \/ ReadFinish(r, timeUp) \/ ReadSave(r, timeUp)
          \/ \E order \in ProbeOrders : EndProbe(r, order)
    \/ \E w \in writes : Stored(w)
Spec == Init /\ [][Next]_scanVars
---------------------------------------------------------------------------------
Playing == feed # Empty /\ enc # Empty

\* A header that was read decides the picture of the encode, whatever a probe says
\* and whichever of them lands first; film is never what the station is.
PictureIsTheHeaders ==
    /\ Playing => enc.picture = [feed.picture EXCEPT !.order = ""] /\ enc.fifty = FiftyHz(feed.rate)
    /\ Playing /\ feed.header # "" =>
          /\ enc.picture.film <=> feed.header = "film"
          /\ enc.picture.progressive <=> feed.header = "progressive"
    /\ row.order # "film"

\* Once the programme's map was read, the encode plays a sound the map lists in the
\* role it was asked for, and carries others only as the map lists them, each once.
SoundIsTheMaps ==
    Playing /\ feed.tracks # <<>> =>
        LET listed == [i \in DOMAIN feed.tracks |-> [pid |-> feed.tracks[i].pid, lang |-> feed.tracks[i].lang, role |-> feed.tracks[i].role]]
        IN  /\ enc.pid = SoundOf(feed, enc.role)
            /\ enc.extras \subseteq ToSet(listed)
            /\ \A x \in enc.extras : x.pid # MainOf(feed, enc.role)
=================================================================================
