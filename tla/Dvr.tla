-------------------------------- MODULE Dvr ---------------------------------
(***************************************************************************)
(* The recording scheduler (dvr/tick.go, start.go, recover.go, rules.go)    *)
(* over the recordings table, the hub's running recordings and the clock.  *)
(*                                                                         *)
(* Every 20 seconds Tick reads the recordings once, plans the airings that *)
(* are due, and starts, joins or retries them one after the other; the     *)
(* rest are counted as tuners to hold back.  A restart runs Recover over   *)
(* the table before the first tick.  The hub ends a recording on its own   *)
(* timer, when it fails, or when the viewer stops it.                      *)
(*                                                                         *)
(* A unit of time is half a minute and one tick; a tick takes no time.     *)
(* There are tuners for every airing: what the planner does when there are *)
(* not is module Plan.                                                     *)
(***************************************************************************)
EXTENDS Integers, Sequences, FiniteSets

CONSTANTS
    Airings,        \* the guide's listings with the pass that matches each
    Channels,
    Buffer,         \* whether the time-shift buffer is on
    Faults,         \* what may go wrong: "refuse", "abort", "fail", "stop",
                    \* "damage", "crash", "shutdown", "watch"
    MaxFaults,      \* bound: how often something does
    Horizon         \* bound: the last unit of the clock

Minute == 2
RecordLead == 3     \* recordLead, 90 seconds
MaxRetries == 3     \* maxRetries
MaxDamaged == 2     \* maxDamaged
None == -1

(***************************************************************************)
(* An airing and its pass: episode is the EpisodeKey ("" without one),     *)
(* before and after the padding, once a one-time pass.  id orders airings  *)
(* that start together.                                                    *)
(***************************************************************************)
AiringType ==
    [id : Nat, channel : Channels, title : STRING, episode : STRING, start : Nat, end : Nat,
     before : Nat, after : Nat, once : BOOLEAN]

ASSUME DvrAssumption ==
    /\ IsFiniteSet(Airings)
    /\ \A a \in Airings : a \in AiringType /\ a.start < a.end
    /\ \A a, b \in Airings : a.id = b.id => a = b
    /\ Buffer \in BOOLEAN
    /\ MaxFaults \in Nat /\ Horizon \in Nat

VARIABLES
    now,
    recs,           \* the recordings table; a row's id is its index
    on,             \* on[c]: the row the hub is recording on channel c, or 0
    tuned,          \* tuned[c]: since when c has a tuner and a buffer, or None
    watched,        \* channels somebody watches
    server,         \* "up", "recover" (Recover is running) or "down"
    ticked,         \* the unit of the last tick, or None
    todo,           \* airings or rows the tick or Recover still has to go through
    snap,           \* the recordings as the tick or Recover read them
    due,            \* tuners the tick has counted so far
    hold,           \* Hub.hold
    faults,         \* faults so far
    trouble         \* history: when the last of them was

vars == <<now, recs, on, tuned, watched, server, ticked, todo, snap, due, hold, faults, trouble>>
hub == <<recs, on, tuned, watched>>
loop == <<server, ticked, todo, snap, due, hold>>

Statuses == {"recording", "complete", "failed", "interrupted"}

Row ==
    [channel : Channels, title : STRING, episode : STRING, status : Statuses, started : Int,
     ended : Int, ends : Int, partial : BOOLEAN, damaged : BOOLEAN]

Init ==
    /\ now = 0
    /\ recs = <<>>
    /\ on = [c \in Channels |-> 0]
    /\ tuned = [c \in Channels |-> None]
    /\ watched = {}
    /\ server = "up" /\ ticked = None /\ todo = {} /\ snap = <<>> /\ due = 0 /\ hold = 0
    /\ faults = 0 /\ trouble = 0

Fault(f) ==
    /\ f \in Faults /\ faults < MaxFaults
    /\ faults' = faults + 1 /\ trouble' = now

history == <<faults, trouble>>

-----------------------------------------------------------------------------
(* Decisions, from the rows rs a tick has read *)

Larger(x, y) == IF x > y THEN x ELSE y

\* Rows that were recorded for this channel and show.
SameSlot(r, a) == r.channel = a.channel /\ r.title = a.title

StartLead(a) == Larger(RecordLead, a.before * Minute)

Already(rs, a) == \E i \in DOMAIN rs : rs[i].status = "recording" /\ SameSlot(rs[i], a)

\* Rows of this airing, in any state.
Attempts(rs, a) ==
    {i \in DOMAIN rs : SameSlot(rs[i], a) /\ rs[i].started < a.end /\ rs[i].started >= a.start - StartLead(a)}

Attempted(rs, a) == Attempts(rs, a) # {}

RecordEnd(a) == a.end + a.after * Minute

\* recordMinutes: whole minutes, one more than are left.
RecordUntil(a) == now + ((RecordEnd(a) - now) \div Minute + 1) * Minute

StartDecision(a) ==
    /\ now >= a.start - StartLead(a)
    /\ a.end > now
    /\ now <= a.start + RecordLead

BufferedSince(c) == IF Buffer THEN tuned[c] ELSE None

JoinDecision(a) ==
    /\ BufferedSince(a.channel) # None
    /\ BufferedSince(a.channel) <= a.start
    /\ a.end > now
    /\ now > a.start + RecordLead

\* Mutant: only the failures count, so a show cut by a restart is not retried.
RetryDueFailedOnly(rs, a) ==
    LET tries == {i \in Attempts(rs, a) : rs[i].status = "failed"}
    IN  /\ tries # {}
        /\ Cardinality(tries) <= MaxRetries
        /\ \A i \in tries : now - rs[i].ended >= Cardinality(tries) * Minute
        /\ RecordEnd(a) - now >= Minute

RetryDue(rs, a) ==
    LET tries == Attempts(rs, a)
    IN  /\ tries # {}
        /\ \A i \in tries : rs[i].status \in {"failed", "interrupted"}
        /\ Cardinality(tries) <= MaxRetries
        /\ \A i \in tries : now - rs[i].ended >= Cardinality(tries) * Minute
        /\ RecordEnd(a) - now >= Minute

Incomplete(r) == r.partial \/ r.status \in {"failed", "interrupted"}

\* Mutant: damaged or not, MaxDamaged copies are kept.
HaveEnough(rs, key) ==
    Cardinality({i \in DOMAIN rs : ~Incomplete(rs[i]) /\ rs[i].episode = key}) >= MaxDamaged

HaveEpisode(rs, key) ==
    LET whole == {i \in DOMAIN rs : ~Incomplete(rs[i]) /\ rs[i].episode = key}
        damaged == {i \in whole : rs[i].damaged}
    IN  whole # damaged \/ Cardinality(damaged) >= MaxDamaged

\* ApplyLibrary: a one-time pass records even what the library has.
LibrarySkips(rs, a) == ~a.once /\ a.episode # "" /\ HaveEpisode(rs, a.episode)

\* The lead the tick plans with: two minutes, or the longest padding and one.
Lead ==
    LET longest == {(a.before + 1) * Minute : a \in Airings} \cup {2 * Minute}
    IN  CHOOSE l \in longest : \A k \in longest : k <= l

\* What the tick's window holds and the library does not rule out.
Window(rs) ==
    {a \in Airings : a.end > now - Minute /\ a.start < now + Lead /\ ~LibrarySkips(rs, a)}

First(A) ==
    CHOOSE a \in A : \A b \in A : a.start < b.start \/ (a.start = b.start /\ a.id <= b.id)

-----------------------------------------------------------------------------
(* The hub *)

\* Where the new recording begins: at its airing when the buffer has it.
StartedAt(c, from) ==
    LET held == Larger(from, BufferedSince(c))
    IN  IF BufferedSince(c) # None /\ from # None /\ held < now THEN held ELSE now

NewRow(m) ==
    [channel |-> m.channel, title |-> m.title, episode |-> m.episode, status |-> "recording",
     started |-> StartedAt(m.channel, m.from), ended |-> None, ends |-> m.ends,
     partial |-> FALSE, damaged |-> FALSE]

\* Finishing a row, and letting go of a tuner nobody watches.
Finished(r, status) == [r EXCEPT !.status = status, !.ended = now]

Released(c) == [tuned EXCEPT ![c] = IF c \in watched THEN @ ELSE None]

MarkPartial(rs, i) == [rs EXCEPT ![i].partial = TRUE]

\* A retry that begins more than a minute into the show is a part of it.
MarkLate(a, rs, i) == IF rs[i].started > a.start + Minute THEN MarkPartial(rs, i) ELSE rs

\* Mutant: the rest of the show is not marked as a part.
MarkNothing(prev, rs, i) == rs

\* Resume leaves another show's running recording alone.
MarkRest(prev, rs, i) ==
    IF i > prev /\ rs[i].title = rs[prev].title THEN MarkPartial(rs, i) ELSE rs

\* What the caller of RecordMeta does with the row it gets back.
ByStart == [by |-> "start"]
ByRetry(a) == [by |-> "retry", airing |-> a]
ByResume(i) == [by |-> "resume", prev |-> i]

Noted(caller, rs, i) ==
    CASE caller.by = "start" -> rs
      [] caller.by = "retry" -> MarkLate(caller.airing, rs, i)
      [] caller.by = "resume" -> MarkRest(caller.prev, rs, i)

\* RecordMeta on the table rows, and what its caller does with the row it
\* returns.  A channel that is already recording returns that recording.
RecordMeta(rows, m, caller) ==
    LET id == Len(rows) + 1
        free == on[m.channel] = 0
    IN  \/ /\ Fault("refuse")
           /\ recs' = rows
           /\ UNCHANGED <<on, tuned, watched>>
        \/ /\ ~free
           /\ recs' = Noted(caller, rows, on[m.channel])
           /\ UNCHANGED <<on, tuned, watched, history>>
        \/ /\ free /\ Fault("abort")
           /\ recs' = Append(rows, Finished(NewRow(m), "failed"))
           /\ UNCHANGED <<on, tuned, watched>>
        \/ /\ free
           /\ recs' = Noted(caller, Append(rows, NewRow(m)), id)
           /\ on' = [on EXCEPT ![m.channel] = id]
           /\ tuned' = [tuned EXCEPT ![m.channel] = IF @ = None THEN now ELSE @]
           /\ UNCHANGED <<watched, history>>

\* finishRecordingLocked and dropIfUnusedLocked
Finish(c, status, damaged) ==
    /\ recs' = [recs EXCEPT ![on[c]] = [Finished(@, status) EXCEPT !.damaged = damaged]]
    /\ on' = [on EXCEPT ![c] = 0]
    /\ tuned' = Released(c)
    /\ UNCHANGED <<now, watched, loop>>

Running(c) == server # "down" /\ on[c] # 0

\* The stop timer; the health of the file is read when it is finished.
TimerEnds(c) ==
    /\ Running(c) /\ now >= recs[on[c]].ends
    /\ \/ Finish(c, "complete", FALSE) /\ UNCHANGED history
       \/ Fault("damage") /\ Finish(c, "complete", TRUE)

\* watchRecording: the copy stopped by itself.
Fails(c) == Running(c) /\ Fault("fail") /\ Finish(c, "failed", FALSE)

StopRecord(c) == Running(c) /\ server = "up" /\ Fault("stop") /\ Finish(c, "complete", FALSE)

\* Somebody tunes the channel, or leaves it.
Watch(c) ==
    /\ server = "up" /\ c \notin watched /\ Fault("watch")
    /\ watched' = watched \cup {c}
    /\ tuned' = [tuned EXCEPT ![c] = IF @ = None THEN now ELSE @]
    /\ UNCHANGED <<now, recs, on, loop>>

Leave(c) ==
    /\ server = "up" /\ c \in watched /\ Fault("watch")
    /\ watched' = watched \ {c}
    /\ tuned' = [tuned EXCEPT ![c] = IF on[c] # 0 THEN @ ELSE None]
    /\ UNCHANGED <<now, recs, on, loop>>

-----------------------------------------------------------------------------
(* The tick *)

Idle == server = "up" /\ ticked = now /\ todo = {}

\* Counted so far, from the rows rs.  The hub learns how many tuners to hold
\* back when the loop is through.
Through(rs, n) ==
    IF todo' = {}
    THEN hold' = n /\ due' = 0 /\ snap' = <<>>
    ELSE UNCHANGED hold /\ due' = n /\ snap' = rs

\* The table is read once, and the plan made from it.
TickReads ==
    /\ server = "up" /\ ticked # now
    /\ ticked' = now
    /\ todo' = Window(recs)
    /\ Through(recs, 0)
    /\ UNCHANGED <<now, hub, server, history>>

Meta(a) ==
    [channel |-> a.channel, title |-> a.title, episode |-> a.episode,
     from |-> a.start - a.before * Minute, ends |-> RecordUntil(a)]

Starts(a) == StartDecision(a) \/ (~Attempted(snap, a) /\ JoinDecision(a))
Retries(a) == ~Starts(a) /\ RetryDue(snap, a)

TickItem ==
    /\ server = "up" /\ ticked = now /\ todo # {}
    /\ LET a == First(todo)
       IN  /\ todo' = todo \ {a}
           /\ \/ /\ Already(snap, a)
                 /\ Through(snap, due) /\ UNCHANGED <<hub, history>>
              \/ /\ ~Already(snap, a) /\ Starts(a)
                 /\ RecordMeta(recs, Meta(a), ByStart) /\ Through(snap, due)
              \/ /\ ~Already(snap, a) /\ Retries(a)
                 /\ RecordMeta(recs, Meta(a), ByRetry(a)) /\ Through(snap, due)
              \/ /\ ~Already(snap, a) /\ ~Starts(a) /\ ~Retries(a)
                 /\ Through(snap, due + 1) /\ UNCHANGED <<hub, history>>
    /\ UNCHANGED <<now, server, ticked>>

-----------------------------------------------------------------------------
(* Restarts *)

Stopped(rows) ==
    /\ server # "down"
    /\ recs' = rows
    /\ on' = [c \in Channels |-> 0]
    /\ tuned' = [c \in Channels |-> None]
    /\ watched' = {}
    /\ server' = "down" /\ todo' = {} /\ snap' = <<>> /\ due' = 0 /\ hold' = 0
    /\ UNCHANGED <<now, ticked>>

Crash == Fault("crash") /\ Stopped(recs)

\* Mutant: the row is closed with the note instead of a status.
CutLong(r) == Finished(r, "Stopped when the server restarted.")

\* Shutdown: what would have ended within half a minute is complete.
CutShort(r) == Finished(r, IF r.ends - now > 1 THEN "interrupted" ELSE "complete")

Shutdown ==
    /\ Fault("shutdown")
    /\ Stopped([i \in DOMAIN recs |->
          IF \E c \in Channels : on[c] = i THEN CutShort(recs[i]) ELSE recs[i]])

\* Mutant: only the rows a clean stop wrote are gone through.
RestartClean ==
    /\ server = "down"
    /\ server' = "recover"
    /\ snap' = recs
    /\ todo' = {i \in DOMAIN recs : recs[i].status = "interrupted"}
    /\ UNCHANGED <<now, hub, ticked, due, hold, history>>

\* main: Recover runs before the first tick.
Restart ==
    /\ server = "down"
    /\ server' = "recover"
    /\ snap' = recs
    /\ todo' = {i \in DOMAIN recs : recs[i].status \in {"recording", "interrupted"}}
    /\ UNCHANGED <<now, hub, ticked, due, hold, history>>

\* Another piece of the show began after this one and before its end.
ResumedLater(rs, i) ==
    \E j \in DOMAIN rs :
        /\ j > i /\ rs[j].channel = rs[i].channel /\ rs[j].title = rs[i].title
        /\ rs[j].started >= rs[i].started /\ rs[j].started < rs[i].ends

\* The interrupted piece: closed if a crash left it open, and a part.
Closed(r) ==
    [r EXCEPT !.status = "interrupted", !.partial = TRUE,
              !.ended = IF r.status = "recording" THEN now ELSE @]

RestOf(r) ==
    [channel |-> r.channel, title |-> r.title, episode |-> r.episode, from |-> None, ends |-> r.ends]

RecoverRow ==
    /\ server = "recover" /\ todo # {}
    /\ LET i == CHOOSE i \in todo : \A j \in todo : j <= i
           closed == [recs EXCEPT ![i] = Closed(@)]
       IN  /\ todo' = todo \ {i}
           /\ IF ResumedLater(snap, i) \/ snap[i].ends - now < Minute
              THEN recs' = closed /\ UNCHANGED <<on, tuned, watched, history>>
              ELSE RecordMeta(closed, RestOf(recs[i]), ByResume(i))
    /\ UNCHANGED <<now, server, ticked, snap, due, hold>>

Recovered ==
    /\ server = "recover" /\ todo = {}
    /\ server' = "up"
    /\ snap' = <<>>
    /\ UNCHANGED <<now, hub, ticked, todo, due, hold, history>>

-----------------------------------------------------------------------------

\* Timers fire and ticks run on time; nothing else keeps the clock waiting.
Advance ==
    /\ now < Horizon
    /\ Idle \/ server = "down"
    /\ \A c \in Channels : Running(c) => now < recs[on[c]].ends
    /\ now' = now + 1
    /\ UNCHANGED <<hub, loop, history>>

Done == now = Horizon /\ UNCHANGED vars

Next ==
    \/ \E c \in Channels : TimerEnds(c) \/ Fails(c) \/ StopRecord(c) \/ Watch(c) \/ Leave(c)
    \/ TickReads \/ TickItem
    \/ Crash \/ Shutdown \/ Restart \/ RecoverRow \/ Recovered
    \/ Advance \/ Done

Spec == Init /\ [][Next]_vars

-----------------------------------------------------------------------------
(* What the scheduler promises *)

TypeOK ==
    /\ now \in 0..Horizon
    /\ recs \in Seq(Row)
    /\ on \in [Channels -> 0..Len(recs)]
    /\ tuned \in [Channels -> {None} \cup 0..Horizon]
    /\ watched \subseteq Channels
    /\ server \in {"up", "recover", "down"}
    /\ ticked \in {None} \cup 0..now
    /\ due \in 0..Cardinality(Airings) /\ hold \in 0..Cardinality(Airings)
    /\ faults \in 0..MaxFaults /\ trouble \in 0..now

\* A row that says it is recording is one the hub is recording, on its own
\* channel, whatever ended the process before: after Recover no row is left
\* open, and no recording runs without its row.
TableIsTrue ==
    server = "up" =>
        \A i \in DOMAIN recs : recs[i].status = "recording" <=> on[recs[i].channel] = i

\* Both: the table is of its type and says what the hub does (Tick, Recover).
TableHolds == TypeOK /\ TableIsTrue

\* Once an airing is being recorded it is recorded to its end: a while after
\* the last thing that went wrong, every airing that was ever started is
\* running again, unless the viewer stopped it, it has failed more often than
\* it is retried, or the episode is in the library.
ViewerStopped(a) == \E i \in Attempts(recs, a) : recs[i].status = "complete"

Waiting(a) ==
    /\ now >= a.start /\ RecordEnd(a) - now >= Minute /\ now < a.end
    /\ Attempted(recs, a) /\ ~ViewerStopped(a) /\ ~LibrarySkips(recs, a)
    /\ Cardinality(Attempts(recs, a)) <= MaxRetries

\* As long as the longest wait between two tries.
Calm(t) == now - t >= MaxRetries * Minute

RestIsRecorded ==
    Idle =>
        \A a \in Airings :
            Waiting(a) /\ Calm(trouble) /\ (\A i \in Attempts(recs, a) : Calm(recs[i].ended))
                => Already(recs, a)

\* The library gets one whole copy of an episode that a series pass records,
\* and at most MaxDamaged damaged ones.
Whole(key) ==
    {i \in DOMAIN recs : recs[i].status = "complete" /\ ~recs[i].partial /\ recs[i].episode = key}

SeriesEpisodes == {a.episode : a \in {b \in Airings : ~b.once /\ b.episode # ""}}

EpisodeOnce ==
    \A key \in SeriesEpisodes :
        /\ Cardinality({i \in Whole(key) : ~recs[i].damaged}) <= 1
        /\ Cardinality({i \in Whole(key) : recs[i].damaged}) <= MaxDamaged

\* What the library counts as the episode is the whole of it: a recording that
\* ran to its end and is not marked partial began by the time a start may be
\* late, and lasted to the end of the airing, whatever was cut or retried.
WholeIsWhole ==
    \A a \in Airings : \A i \in Attempts(recs, a) :
        recs[i].status = "complete" /\ ~recs[i].partial /\ recs[i].ended >= recs[i].ends - 1 =>
            recs[i].started <= a.start + RecordLead /\ recs[i].ended >= a.end

-----------------------------------------------------------------------------
(* A statement of the code that the model refutes; the README says where *)

\* An airing the plan keeps is recorded: when nothing goes wrong, it has a
\* recording of its own by the time it ends.
PlannedIsRecorded ==
    Idle /\ faults = 0 =>
        \A a \in Airings : now >= a.end => Attempted(recs, a) \/ LibrarySkips(recs, a)
=============================================================================
