-------------------------------- MODULE Encodes --------------------------------
(* The encodes of a tuned channel (live/hub.go): a watch starts or joins one, a   *)
(* budget of pictures is shared, an encode that dies is started again into the    *)
(* same playlist or a new one, a timestamp break hands its input to a fresh one,  *)
(* a rebuild replaces them under the viewers, and the last viewer's timer stops   *)
(* them. Each ffmpeg has a goroutine that waits for it (watch); a packager reads  *)
(* the outputs of one or several in turn (packInput). The hub's maps are the      *)
(* record hub; the methods that run under its lock are operators on it.           *)
EXTENDS Integers, Sequences, SequencesExt, FiniteSets

CONSTANTS
    Channels, Keys,     \* tuned channels, and the renditions of one
    Copies,             \* the keys that send the broadcast's picture on as it is
    Silent(_),          \* the key an encode has once the sound cannot be decoded
    Joins(_, _),        \* may a watch of the first be given the second (joinTranscode)
    Viewers,            \* the players
    TileCounts, Budget, \* pictures at once; restarts within the window
    MaxProcs, MaxQuirks, MaxVisits \* bounds: processes started; failures, breaks,
                        \* freezes and rebuilds; watches

VARIABLES hub, procs, packs, player, late, quirks, visits

encVars == <<hub, procs, packs, player, late, quirks, visits>>

None == "none"
Empty == [none |-> TRUE]
NoProc == 0
Spent == [live |-> FALSE, watch |-> "gone", told |-> TRUE]   \* a process that was waited for
Dirs == Channels \X Keys

\* One rendition: the process it runs, the packager it feeds, what was given up.
NewRendition(id, pid, pack) ==
    [id |-> id, cmd |-> pid, waited |-> FALSE, pack |-> pack, filter |-> id, viewers |-> 0, idle |-> FALSE,
     restarts |-> 0, stalls |-> 0, stalled |-> FALSE, extras |-> TRUE, soft |-> FALSE, mute |-> FALSE]
Running(s, d) == s.rend[d] # Empty
Now == [rend |-> hub.rend, moved |-> hub.moved, quiet |-> hub.quiet, lost |-> hub.lost, tiles |-> hub.tiles,
        procs |-> procs, packs |-> packs]
Become(s) ==
    /\ hub' = [rend |-> s.rend, moved |-> s.moved, quiet |-> s.quiet, lost |-> s.lost, tiles |-> s.tiles]
    /\ procs' = s.procs
    /\ packs' = s.packs

--------------------------------------------------------------------------------
(* The packager's input (packInput).                                              *)

NewPack(d, pid) == [dir |-> d, cur |-> pid, next |-> <<>>, ended |-> FALSE, abandoned |-> FALSE,
                    done |-> FALSE]
Holding(p) == ~p.ended /\ ~p.done
Follow(s, i, pid) == [s EXCEPT !.packs[i].next = Append(@, pid)]
Abandon(s, i) == [s EXCEPT !.packs[i].ended = TRUE, !.packs[i].abandoned = TRUE]

\* ffmpeg is started with its goroutine; it ends when it likes, or is told to.
StartProc(s, d, id, respawn) ==
    [s EXCEPT !.procs = Append(@, [dir |-> d, rid |-> id, live |-> TRUE, told |-> FALSE, err |-> FALSE,
                                   watch |-> "wait", respawn |-> respawn])]
Tell(s, pid) == IF pid = NoProc THEN s ELSE [s EXCEPT !.procs[pid].told = TRUE]
Kill(s, r) == IF r.waited THEN s ELSE Tell(s, r.cmd)

--------------------------------------------------------------------------------
(* What the hub does under its lock.                                              *)

CurrentKey(s, ch, k) ==
    LET step(x) == IF s.rend[<<ch, x>>] = Empty /\ x \in DOMAIN s.moved[ch] THEN s.moved[ch][x] ELSE x
    IN  step(step(step(step(k))))

\* Mutant: the copied picture of a stopped encode goes on running.
StopRenditionOnly(s, d) ==
    IF ~Running(s, d) THEN s
    ELSE [Abandon(s, s.rend[d].pack) EXCEPT !.rend[d] = Empty]
StopRendition(s, d) ==
    IF ~Running(s, d) THEN s
    ELSE [Abandon(Kill(s, s.rend[d]), s.rend[d].pack) EXCEPT !.rend[d] = Empty]

Transcodes(s) == {d \in Dirs : Running(s, d) /\ d[2] \notin Copies}

\* Players that fetch video; a rendition none of them plays is stale after a while.
Here(s, d) == {c \in Viewers : player[c] # Empty /\ player[c].here
                               /\ d = <<player[c].ch, CurrentKey(s, player[c].ch, player[c].key)>>}
FreePicture(s, d) == Running(s, d) /\ (s.rend[d].viewers = 0 \/ Here(s, d) = {})

\* Room for one more picture: the one left longest ago goes.
ReleaseIdlePictures(s) ==
    LET free == {d \in Transcodes(s) : FreePicture(s, d)}
    IN  IF Cardinality(Transcodes(s)) < s.tiles THEN {s}
        ELSE IF free = {} THEN {s}
        ELSE {[StopRendition(s, d) EXCEPT !.lost[d[1]] = @ \/ s.rend[d].viewers > 0] : d \in free}

\* The rendition a watch gets: one that runs, a new one, one it can join when the
\* budget is spent, or none. The start of a process can fail.
StartRendition(s, d) ==
    LET id == Len(s.procs) + 1
    IN  [StartProc(s, d, id, FALSE) EXCEPT !.packs = Append(@, NewPack(d, id)),
                                          !.rend[d] = NewRendition(id, id, Len(s.packs) + 1)]
\* Mutant: the budget is looked at before the idle pictures are freed, not after.
EnsureUnbudgeted(s, ch, want) ==
    LET k == IF s.quiet THEN Silent(want) ELSE want
        d == <<ch, k>>
    IN  IF Running(s, d) THEN {[s |-> s, key |-> k]}
        ELSE {[s |-> StartRendition(t, d), key |-> k] : t \in ReleaseIdlePictures(s)}
             \cup {[s |-> s, key |-> None]}
EnsureRendition(s, ch, want) ==
    LET k == IF s.quiet THEN Silent(want) ELSE want
        d == <<ch, k>>
        joins(t) == {x \in Keys : Running(t, <<ch, x>>) /\ x \notin Copies /\ Joins(k, x)}
        fits(t) == k \in Copies \/ Cardinality(Transcodes(t)) < t.tiles
        given(t) == IF fits(t) THEN {[s |-> StartRendition(t, d), key |-> k], [s |-> t, key |-> None]}
                    ELSE IF joins(t) = {} THEN {[s |-> t, key |-> None]}
                    ELSE {[s |-> t, key |-> x] : x \in joins(t)}
    IN  IF Running(s, d) THEN {[s |-> s, key |-> k]}
        ELSE UNION {given(t) : t \in IF k \in Copies THEN {s} ELSE ReleaseIdlePictures(s)}

--------------------------------------------------------------------------------
(* Starting again.                                                                *)

\* What follows the end of an encode (planRestart).
CanFall(r) == ~r.soft
PlanRestart(r, err, cause, early, silent) ==
    IF ~err /\ ~r.stalled THEN "release"
    ELSE IF r.restarts >= Budget THEN "release"
    ELSE IF silent /\ ~r.mute /\ (r.stalled \/ (early /\ cause = "params")) THEN "silent"
    ELSE IF early /\ r.extras /\ cause # "gpu" THEN "plain"
    ELSE IF r.stalled THEN (IF r.stalls >= 2 /\ CanFall(r) THEN "software" ELSE "same")
    ELSE IF early /\ cause # "params" /\ CanFall(r) THEN "software"
    ELSE "same"
GiveUpPart(r, plan) ==
    CASE plan = "plain" -> [r EXCEPT !.extras = FALSE]
      [] plan = "software" -> [r EXCEPT !.soft = TRUE]
      [] plan = "silent" -> [r EXCEPT !.mute = TRUE, !.extras = FALSE]
      [] OTHER -> r

\* The same command line into the same packager (followRestartLocked).
FollowRestart(s, d) ==
    LET r == s.rend[d]
        pid == Len(s.procs) + 1
    IN  [Follow(StartProc(s, d, r.id, FALSE), r.pack, pid) EXCEPT
            !.rend[d] = [r EXCEPT !.cmd = pid, !.waited = FALSE, !.filter = pid, !.restarts = @ + 1]]

\* Mutant: the packager that was replaced is not told.
RestartBeside(s, d) ==
    LET r == s.rend[d]
        pid == Len(s.procs) + 1
    IN  [StartProc(s, d, r.id, FALSE) EXCEPT
            !.packs = Append(@, NewPack(d, pid)),
            !.rend[d] = [r EXCEPT !.cmd = pid, !.waited = FALSE, !.filter = pid, !.restarts = @ + 1,
                                  !.pack = Len(s.packs) + 1]]
\* A new packager in an empty directory (restartRenditionLocked).
RestartRendition(s, d) ==
    LET r == s.rend[d]
        pid == Len(s.procs) + 1
        t == Abandon(Kill(s, r), r.pack)
    IN  [StartProc(t, d, r.id, FALSE) EXCEPT
            !.packs = Append(@, NewPack(d, pid)),
            !.rend[d] = [r EXCEPT !.cmd = pid, !.waited = FALSE, !.filter = pid, !.restarts = @ + 1,
                                  !.pack = Len(t.packs) + 1]]

\* Out of restarts, or they failed: the rendition goes, its viewers with it.
GivenUp(s, d) == [StopRendition([s EXCEPT !.rend[d].cmd = NoProc], d) EXCEPT !.lost[d[1]] = TRUE]

--------------------------------------------------------------------------------
Init ==
    /\ \E n \in TileCounts : hub = [rend |-> [d \in Dirs |-> Empty], moved |-> [ch \in Channels |-> <<>>], quiet |-> FALSE, tiles |-> n,
              lost |-> [ch \in Channels |-> FALSE]]
    /\ procs = <<>> /\ packs = <<>>
    /\ player = [c \in Viewers |-> Empty]
    /\ late = {}
    /\ quirks = 0 /\ visits = 0

Room == Len(procs) < MaxProcs
Odd == quirks < MaxQuirks /\ quirks' = quirks + 1

\* A player asks for a channel: it gets the key it then plays under.
WatchAt(c, ch, want) ==
    /\ player[c] = Empty /\ Room
    /\ visits < MaxVisits /\ visits' = visits + 1
    /\ \E e \in EnsureRendition(Now, ch, want) :
        /\ e.key # None
        /\ Become([e.s EXCEPT !.rend[<<ch, e.key>>].viewers = @ + 1, !.rend[<<ch, e.key>>].idle = FALSE])
        /\ player' = [player EXCEPT ![c] = [ch |-> ch, key |-> e.key, here |-> TRUE]]
    /\ UNCHANGED <<late, quirks>>

\* It leaves and says so. A key it joined under is followed to the one it plays now.
Released(s, d) ==
    LET n == s.rend[d].viewers - 1
    IN  [s EXCEPT !.rend[d].viewers = n, !.rend[d].idle = (n = 0)]
Release(c) ==
    /\ player[c] # Empty /\ player[c].here
    /\ LET d == <<player[c].ch, CurrentKey(Now, player[c].ch, player[c].key)>>
       IN  Become(IF ~Running(Now, d) \/ hub.rend[d].viewers = 0 THEN Now ELSE Released(Now, d))
    /\ player' = [player EXCEPT ![c] = Empty]
    /\ UNCHANGED <<late, quirks, visits>>

\* It goes without a word.
Vanish(c) ==
    /\ player[c] # Empty /\ player[c].here
    /\ player' = [player EXCEPT ![c].here = FALSE]
    /\ UNCHANGED <<hub, procs, packs, late, quirks, visits>>

\* The idle timer fires; its callback waits for the lock, and finds what is there.
TimerFires(d) ==
    /\ Running(Now, d) /\ hub.rend[d].idle
    /\ hub' = [hub EXCEPT !.rend[d].idle = FALSE]
    /\ late' = late \cup {d}
    /\ UNCHANGED <<procs, packs, player, quirks, visits>>
IdleStop(d) ==
    /\ d \in late
    /\ late' = late \ {d}
    /\ Become(IF Running(Now, d) /\ hub.rend[d].viewers = 0 THEN StopRendition(Now, d) ELSE Now)
    /\ UNCHANGED <<player, quirks, visits>>

\* The hub's sweep drops the viewers of renditions nobody fetches from.
ReleaseAbandoned(d) ==
    /\ Running(Now, d) /\ hub.rend[d].viewers > 0 /\ Here(Now, d) = {}
    /\ Become([StopRendition(Now, d) EXCEPT !.lost[d[1]] = TRUE])
    /\ UNCHANGED <<player, late, quirks, visits>>

\* ffmpeg ends: it was told to, its packager is gone, or it failed by itself.
Cut(pid) == procs[pid].told \/ \E i \in DOMAIN packs : packs[i].cur = pid /\ packs[i].done
Exit(pid, err) ==
    /\ procs[pid].live
    /\ IF Cut(pid) THEN err /\ UNCHANGED quirks ELSE Odd
    /\ procs' = [procs EXCEPT ![pid].live = FALSE, ![pid].err = err]
    /\ UNCHANGED <<hub, packs, player, late, visits>>

\* The packager at the end of an encode's output goes on to the next one; it waits
\* for one, or for being told to end.
PackRead(i) ==
    LET p == packs[i] IN
    /\ ~p.done /\ ~procs[p.cur].live
    /\ p.ended \/ p.next # <<>>
    /\ packs' = [packs EXCEPT ![i] =
         IF p.abandoned \/ p.next = <<>> THEN [p EXCEPT !.done = TRUE, !.next = <<>>]
         ELSE [p EXCEPT !.cur = Head(p.next), !.next = Tail(p.next)]]
    /\ UNCHANGED <<hub, procs, player, late, quirks, visits>>
\* A header that differs, or a disk that is full, ends it in the middle.
PackFails(i) ==
    /\ ~packs[i].done /\ Odd
    /\ packs' = [packs EXCEPT ![i].done = TRUE, ![i].next = <<>>]
    /\ UNCHANGED <<hub, procs, player, late, visits>>

\* The goroutine of a process that has ended (watchRendition): first it marks it
\* waited, then, once the packager has read the rest, it decides.
Mine(pid) == Running(Now, procs[pid].dir) /\ hub.rend[procs[pid].dir].id = procs[pid].rid
             /\ hub.rend[procs[pid].dir].cmd = pid
Reap(pid) ==
    /\ ~procs[pid].live /\ procs[pid].watch = "wait"
    /\ procs' = [procs EXCEPT ![pid] = IF Mine(pid) THEN [@ EXCEPT !.watch = "parking"] ELSE Spent]
    /\ hub' = IF Mine(pid) THEN [hub EXCEPT !.rend[procs[pid].dir].waited = TRUE] ELSE hub
    /\ UNCHANGED <<packs, player, late, quirks, visits>>
Decide(pid, cause, early, silent, starts) ==
    LET d == procs[pid].dir
        gone == [Now EXCEPT !.procs[pid] = Spent]
        plan == PlanRestart(hub.rend[d], procs[pid].err, cause, early /\ procs[pid].err /\ ~procs[pid].respawn, silent)
        r == GiveUpPart([hub.rend[d] EXCEPT !.stalled = FALSE], plan)
        s == [gone EXCEPT !.rend[d] = r]
        follows == plan = "same" /\ Holding(packs[r.pack])
    IN  /\ procs[pid].watch = "parking" /\ Room
        /\ IF ~Mine(pid) THEN Become(gone)
           ELSE IF plan = "release" \/ ~starts THEN Become(GivenUp(s, d))
           ELSE IF follows THEN Become(FollowRestart(s, d))
           ELSE Become(RestartRendition(s, d))
        /\ UNCHANGED <<player, late, quirks, visits>>

\* A backwards timestamp break in the input: the encode is started again and the
\* pipe hands its input over; the old one ends by itself or is killed.
FollowBreak(d, starts) ==
    LET r == hub.rend[d]
        pid == Len(procs) + 1
        broken == [Follow(StartProc(Tell(Now, r.cmd), d, r.id, TRUE), r.pack, pid) EXCEPT
                      !.rend[d].cmd = pid, !.rend[d].waited = FALSE]
    IN  /\ Running(Now, d) /\ r.cmd # NoProc /\ Room /\ Odd
        /\ Become(IF starts /\ Holding(packs[r.pack]) THEN broken
                  ELSE IF starts THEN RestartRendition(Now, d)
                  ELSE [StopRendition(Now, d) EXCEPT !.lost[d[1]] = TRUE])
        /\ UNCHANGED <<player, late, visits>>

\* The watchdog ends an encode that reads and writes nothing, at its start or later.
Unfreeze(d, start) ==
    /\ Running(Now, d) /\ hub.rend[d].cmd # NoProc /\ ~hub.rend[d].waited /\ Odd
    /\ procs[hub.rend[d].cmd].live
    /\ Become(Tell([Now EXCEPT !.rend[d].stalled = @ \/ start,
                               !.rend[d].stalls = IF start THEN IF @ < 2 THEN @ + 1 ELSE @ ELSE 0], hub.rend[d].cmd))
    /\ UNCHANGED <<player, late, visits>>

\* What was measured of the channel changes its encodes' command lines: they are
\* stopped, and started again under the key they have now, with their viewers.
Moves(m, from, to) ==
    IF from = to THEN m
    ELSE [x \in (DOMAIN m \cup {from}) \ {to} |-> IF x = from THEN to ELSE m[x]]
\* Mutant: an encode two keys land on keeps only the last one's viewers.
TakeOverLast(r, old) == [r EXCEPT !.viewers = old.viewers, !.idle = (old.viewers = 0)]
TakeOver(r, old) == [r EXCEPT !.viewers = @ + old.viewers, !.idle = (r.viewers + old.viewers = 0)]
RebuildOne(s, ch, k, old) ==
    UNION {IF e.key = None THEN {[s EXCEPT !.lost[ch] = TRUE]}
           ELSE {[e.s EXCEPT !.rend[<<ch, e.key>>] = TakeOver(@, old),
                             !.moved[ch] = Moves(@, k, e.key)]}
           : e \in EnsureRendition(s, ch, k)}
RebuildRenditions(ch, quiet) ==
    LET changed == {k \in Keys : Running(Now, <<ch, k>>) /\ (quiet => Silent(k) # k \/ k \notin Copies)}
        stopped == FoldSet(LAMBDA k, s : StopRendition(s, <<ch, k>>), [Now EXCEPT !.quiet = @ \/ quiet], changed)
    IN  /\ changed # {} /\ Odd
        /\ \E s \in FoldSet(LAMBDA k, ss : UNION {RebuildOne(s, ch, k, hub.rend[<<ch, k>>]) : s \in ss},
                            {stopped}, changed) :
               Len(s.procs) <= MaxProcs /\ Become(s)
        /\ UNCHANGED <<player, late, visits>>

Next ==
    \/ \E c \in Viewers, ch \in Channels, k \in Keys : WatchAt(c, ch, k)
    \/ \E c \in Viewers : Release(c) \/ Vanish(c)
    \/ \E d \in Dirs : TimerFires(d) \/ IdleStop(d) \/ ReleaseAbandoned(d)
    \/ \E pid \in DOMAIN procs, err \in BOOLEAN : Exit(pid, err)
    \/ \E i \in DOMAIN packs : PackRead(i) \/ PackFails(i)
    \/ \E pid \in DOMAIN procs : Reap(pid)
    \/ \E pid \in DOMAIN procs, cause \in {"params", "gpu", "other"}, early, silent, starts \in BOOLEAN :
           Decide(pid, cause, early, silent, starts)
    \/ \E d \in Dirs, starts \in BOOLEAN : FollowBreak(d, starts)
    \/ \E d \in Dirs, start \in BOOLEAN : Unfreeze(d, start)
    \/ \E ch \in Channels, quiet \in BOOLEAN : RebuildRenditions(ch, quiet)

Spec == Init /\ [][Next]_encVars

--------------------------------------------------------------------------------
\* A directory has one packager that was not told to end, the running rendition's,
\* and ffmpeg never outlives it: a process nobody asked to end feeds a rendition
\* that is in the map, and one that ended leaves none without a goroutine that
\* replaces it or gives it up (stopRenditionLocked, restartRenditionLocked,
\* followBreak, watchRendition).
OneWriter ==
    /\ \A i \in DOMAIN packs : ~packs[i].ended /\ ~packs[i].done =>
           Running(Now, packs[i].dir) /\ hub.rend[packs[i].dir].pack = i
    /\ \A pid \in DOMAIN procs : procs[pid].live /\ ~procs[pid].told => Mine(pid)
    /\ \A d \in Dirs : Running(Now, d) => procs[hub.rend[d].cmd].watch # "gone"

\* The pictures being encoded never exceed what the host was measured to carry.
TilesKept == Cardinality(Transcodes(Now)) <= hub.tiles

\* Where no encode was given up, each rendition counts exactly the players on it,
\* those it joined from keys that a rebuild moved included, and one that nobody
\* counts on is about to be stopped (WatchAt, Release, rebuildRenditionsLocked).
ViewersTrue ==
    \A d \in Dirs : Running(Now, d) /\ ~hub.lost[d[1]] =>
        /\ hub.rend[d].viewers = Cardinality({c \in Viewers : player[c] # Empty /\
               d = <<player[c].ch, CurrentKey(Now, player[c].ch, player[c].key)>>})
        /\ hub.rend[d].viewers = 0 => hub.rend[d].idle \/ d \in late

================================================================================
