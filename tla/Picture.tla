------------------------------- MODULE Picture -------------------------------
(* A player whose picture stops: what it names, when it reloads or asks      *)
(* again by itself, and when it leaves that to the viewer.                   *)
(* web/src/features/player/useLiveStream.ts (from the watch's answer on),    *)
(* outage.ts and resume.ts.  Module Watch is the request itself.             *)
(*                                                                           *)
(* One player on one channel.  Its clocks share no lock but `retrying`:      *)
(* the second-by-second look at the playhead (FrozenPicture), the tick that  *)
(* waits for a named cause to go away, the clock of a picture that stopped   *)
(* without one, the wait after a restart, the timer of a refused start.      *)
(* Time is a tick of one second, scaled down; a timer may fire late.         *)
EXTENDS Integers

CONSTANTS
    FrozenTicks,    \* frozenMs
    SettledTicks,   \* settledMs
    MaxFrozenSteps, \* maxFrozenSteps
    RetryEvery,     \* pictureRetryEveryMs
    MaxRetries,     \* pictureRetryForMs / pictureRetryEveryMs
    LastAsk,        \* restartAskLastMs
    MaxHold,        \* the most restartDelayMs waits
    MaxStarts,      \* startAttempts of a full picture budget
    Causes          \* what may be the matter: "none", and of "server", "restart", "signal", "tuner", "busy"

VARIABLES
    cause,  \* what is the matter
    video,  \* the playhead: "none" without a stream, "still" or "moving"; the tab
    me,     \* the player's refs, and how far its start is
    run,    \* this run of the effect: its closure
    shown,  \* error and recovery
    clock,  \* pictureStopAt: the retries of a picture that stopped
    frozen, \* FrozenPicture
    recov,  \* the effect of `recovery`
    later   \* the wait of a player that had no watch when the server restarted

vars == <<cause, video, me, run, shown, clock, frozen, recov, later>>

Nothing == [message |-> "none", kind |-> ""]
Off == [on |-> FALSE, due |-> 0, fired |-> 0, skipped |-> FALSE]
Started == [on |-> TRUE, due |-> RetryEvery, fired |-> 0, skipped |-> FALSE]
NewRun(quiet) ==
    [quiet |-> quiet, attached |-> FALSE, primed |-> FALSE, surfaced |-> FALSE, torn |-> FALSE,
     returning |-> FALSE, recovered |-> FALSE, held |-> FALSE, network |-> FALSE, media |-> FALSE]
NoSample == [known |-> FALSE, still |-> 0, moving |-> 0, tries |-> 0, moved |-> FALSE, handed |-> FALSE]
\* A run of the effect of `recovery`; a restart waits longer each time nothing played.
Capped(n, cap) == IF n > cap THEN cap ELSE n
RestartDelay(n) == Capped(n, MaxHold)
Recovering(kind, restarts) ==
    [ready |-> FALSE, age |-> -1, hold |-> IF kind = "restart" THEN RestartDelay(restarts) ELSE 0]

Init ==
    /\ cause = "none" /\ video = [pic |-> "none", hidden |-> FALSE]
    /\ me = [start |-> "asked", retrying |-> TRUE, watching |-> FALSE, quietRetry |-> FALSE, pending |-> FALSE,
             tries |-> 0, restarts |-> 0]
    /\ run = NewRun(FALSE) /\ shown = Nothing /\ clock = Off /\ frozen = NoSample
    /\ recov = Recovering("", 0) /\ later = -1

-----------------------------------------------------------------------------
\* The effect runs again: a quiet start keeps what is shown and its clock.
Asked(refs, quiet) == [refs EXCEPT !.start = "asked", !.retrying = TRUE, !.watching = FALSE, !.quietRetry = quiet]
Start(refs, quiet) ==
    /\ me' = Asked(refs, quiet)
    /\ run' = NewRun(quiet)
    /\ video' = [video EXCEPT !.pic = "none"]
    /\ IF quiet THEN UNCHANGED shown ELSE shown' = Nothing

\* rememberOutage.
Names(message, kind) ==
    /\ shown' = [message |-> message, kind |-> kind]
    /\ recov' = Recovering(kind, me.restarts)
    /\ clock' = IF message = "stopped" /\ kind = "" THEN (IF clock.on THEN clock ELSE Started) ELSE Off

\* viewerFailure, of what the watch was refused for.
Refusals ==
    CASE cause = "server" -> {[message |-> "server", kind |-> "server"]}
      [] cause = "busy"   -> {[message |-> "busy", kind |-> "busy"]}
      [] cause = "tuner"  -> {[message |-> "tuner", kind |-> "tuner"]}
      [] cause = "signal" -> {[message |-> "noSignal", kind |-> ""]}
      [] OTHER            -> {[message |-> "stopped", kind |-> ""], [message |-> "other", kind |-> ""]}

\* The watch answers: the player attaches its stream.
Answer ==
    /\ me.start = "asked" /\ cause \in {"none", "restart"}
    /\ me' = [me EXCEPT !.start = "attached", !.watching = TRUE, !.quietRetry = FALSE, !.tries = 0]
    /\ run' = [run EXCEPT !.attached = TRUE]
    /\ video' = [video EXCEPT !.pic = "still"]
    /\ IF run.quiet THEN shown' = shown /\ clock' = (IF clock.on THEN clock ELSE Started)
       ELSE shown' = Nothing /\ clock' = Off
    /\ recov' = IF run.quiet THEN recov ELSE Recovering("", 0)
    /\ UNCHANGED <<cause, frozen, later>>

\* play() resolved, or a refused autoplay was tried muted: the start is over.
Played ==
    /\ me.start = "attached"
    /\ me' = [me EXCEPT !.start = "over", !.retrying = FALSE]
    /\ UNCHANGED <<cause, video, run, shown, clock, frozen, recov, later>>

\* The watch fails.  A full picture budget is asked again some times; a quiet start
\* that fails without a cause keeps saying that the picture stopped.
Fail ==
    /\ me.start = "asked"
    /\ \/ /\ cause = "none" /\ me.tries + 1 < MaxStarts
          /\ me' = [me EXCEPT !.start = "timer", !.retrying = FALSE, !.quietRetry = FALSE, !.pending = FALSE,
                              !.tries = @ + 1]
          /\ UNCHANGED <<shown, clock, recov>>
       \/ /\ me' = [me EXCEPT !.start = "failed", !.retrying = FALSE, !.quietRetry = FALSE, !.pending = FALSE,
                              !.tries = 0]
          /\ \E r \in Refusals :
                IF run.quiet /\ r.kind = "" /\ r.message # "noSignal" THEN Names("stopped", "")
                ELSE Names(r.message, r.kind)
    /\ UNCHANGED <<cause, video, run, frozen, later>>

\* A recording is about to need the tuner: the viewer is asked.
Confirm ==
    /\ me.start = "asked" /\ cause = "none"
    /\ me' = [me EXCEPT !.start = "failed", !.retrying = FALSE, !.quietRetry = FALSE, !.pending = FALSE]
    /\ run' = [run EXCEPT !.torn = TRUE]
    /\ shown' = [message |-> "confirm", kind |-> ""] /\ clock' = Off /\ recov' = Recovering("", 0)
    /\ UNCHANGED <<cause, video, frozen, later>>

\* startTimer: a refused start is asked again.
AskAgain ==
    /\ me.start = "timer"
    /\ Start(me, FALSE) /\ clock' = Off /\ recov' = Recovering("", 0)
    /\ UNCHANGED <<cause, frozen, later>>

-----------------------------------------------------------------------------
\* The picture.

\* onPlaying and onTime: the first picture ends the count of restarts, and the picture
\* of a quiet start takes the message away.
Moves ==
    /\ run.attached /\ ~run.torn /\ video.pic = "still" /\ cause \notin {"server", "restart"}
    /\ video' = [video EXCEPT !.pic = "moving"]
    /\ run' = [run EXCEPT !.primed = TRUE]
    /\ me' = [me EXCEPT !.restarts = 0]
    /\ IF run.quiet /\ clock.on THEN shown' = Nothing /\ clock' = Off /\ recov' = Recovering("", 0)
       ELSE UNCHANGED <<shown, clock, recov>>
    /\ UNCHANGED <<cause, frozen, later>>

\* noteOutage: a long stall, a read of a picture that never moved, or a fatal error.
\* Without a named cause only a fatal one is told; a named one ends the stream.
Classified ==
    IF cause \in {"none", "busy"} THEN [message |-> "stopped", kind |-> ""]
    ELSE [message |-> IF cause = "signal" THEN "noSignal" ELSE cause, kind |-> cause]
Note(fatal) ==
    /\ fatal \/ Classified.kind # ""
    /\ Names(Classified.message, Classified.kind)
    /\ me' = [me EXCEPT !.pending = FALSE]
    /\ video' = IF Classified.kind # "" THEN [video EXCEPT !.pic = "none"] ELSE video
    /\ run' = [run EXCEPT !.surfaced = TRUE, !.torn = @ \/ Classified.kind # "", !.held = FALSE, !.returning = FALSE]
    /\ UNCHANGED <<cause, frozen, later>>

\* The picture stalls, or does not come: after eight seconds the cause is read.
Stalls == /\ run.attached /\ ~run.surfaced /\ ~run.returning /\ video.pic = "still" /\ Note(FALSE)

\* liveFatalStep: one reload and one media recovery for this watch, then the outage;
\* a tab that comes back has a media recovery of its own, and the rest is held.
FatalStep(type) ==
    CASE run.returning /\ type = "media" /\ ~run.recovered -> "recover-quiet"
      [] run.returning -> "hold-quiet"
      [] type = "network" /\ ~run.network -> "start-load"
      [] type = "media" /\ ~run.media -> "recover-media"
      [] OTHER -> "outage"
Fatal(type) ==
    /\ run.attached /\ ~run.torn /\ ~run.surfaced
    /\ LET step == FatalStep(type) IN
       \/ /\ step # "outage"
          /\ run' = [run EXCEPT !.recovered = @ \/ step = "recover-quiet", !.held = @ \/ step = "hold-quiet",
                                !.network = @ \/ step = "start-load", !.media = @ \/ step = "recover-media"]
          /\ video' = [video EXCEPT !.pic = "still"]
          /\ UNCHANGED <<cause, me, shown, clock, frozen, recov, later>>
       \/ step = "outage" /\ Note(TRUE)

\* comeBack: a tab that was away and is not held goes to the edge, and what it said is
\* taken away unless it tore the stream down; outages are held for eight seconds.
Hide == /\ ~video.hidden /\ video' = [video EXCEPT !.hidden = TRUE, !.pic = IF @ = "none" THEN @ ELSE "still"]
        /\ UNCHANGED <<cause, me, run, shown, clock, frozen, recov, later>>
Return(action) ==
    /\ video.hidden /\ video' = [video EXCEPT !.hidden = FALSE]
    /\ IF run.torn \/ action = "ignore" THEN UNCHANGED <<run, shown, clock, recov>>
       ELSE /\ run' = [run EXCEPT !.returning = TRUE, !.recovered = FALSE, !.held = FALSE, !.surfaced = FALSE]
            /\ shown' = Nothing /\ clock' = Off /\ recov' = Recovering("", 0)
    /\ UNCHANGED <<cause, me, frozen, later>>
Settle ==
    /\ run.returning
    /\ \/ run.held /\ ~run.surfaced /\ Note(TRUE)
       \/ /\ ~run.held
          /\ run' = [run EXCEPT !.returning = FALSE]
          /\ UNCHANGED <<cause, video, me, shown, clock, frozen, recov, later>>

\* FrozenPicture.note, once a second.
Away == ~run.primed \/ run.surfaced \/ run.returning \/ video.hidden \/ video.pic = "none"
Sampled ==
    IF Away THEN [frozen EXCEPT !.known = FALSE, !.still = 0, !.moving = 0]
    ELSE IF ~frozen.known THEN [frozen EXCEPT !.known = TRUE, !.still = 0]
    ELSE IF video.pic = "moving"
      THEN LET n == Capped(frozen.moving + 1, SettledTicks)
               settled == n = SettledTicks
           IN  [frozen EXCEPT !.moved = TRUE, !.still = 0, !.moving = n,
                              !.tries = IF settled THEN 0 ELSE @, !.handed = ~settled /\ @]
      ELSE [frozen EXCEPT !.moving = 0, !.still = Capped(@ + 1, FrozenTicks)]
\* Mutant: the last step is a step like the others, and nobody is told.
FrozenStepQuietly(f) ==
    IF Away \/ ~f.known \/ video.pic = "moving" \/ ~f.moved \/ f.still < FrozenTicks \/ f.tries >= MaxFrozenSteps
      THEN "none"
    ELSE IF f.tries % 2 = 0 THEN "reload" ELSE "retune"
FrozenStep(f) ==
    IF Away \/ ~f.known \/ video.pic = "moving" \/ ~f.moved \/ f.still < FrozenTicks THEN "none"
    ELSE IF f.tries >= MaxFrozenSteps THEN (IF f.handed THEN "none" ELSE "stopped")
    ELSE IF f.tries % 2 = 0 THEN "reload" ELSE "retune"
Stepped(f) == [f EXCEPT !.still = 0, !.tries = @ + 1]

\* The second passes: the look at the playhead, and the timers come nearer.
Down(n) == IF n > 0 THEN n - 1 ELSE n
Tick ==
    /\ LET f == Sampled
           step == FrozenStep(f)
           rest == [clock EXCEPT !.due = Down(@)]
       IN  \/ /\ step \in {"none", "reload"}
              /\ frozen' = IF step = "reload" THEN Stepped(f) ELSE f
              /\ clock' = rest
              /\ recov' = [recov EXCEPT !.hold = Down(@), !.age = IF @ = -1 THEN @ ELSE Capped(@ + 1, LastAsk)]
              /\ UNCHANGED <<video, me, run, shown>>
           \/ /\ step = "retune"
              /\ Start(me, FALSE) /\ clock' = Off /\ recov' = Recovering("", 0)
              /\ frozen' = Stepped(f)
           \/ /\ step = "stopped"
              /\ frozen' = [f EXCEPT !.handed = TRUE]
              /\ shown' = [message |-> "stopped", kind |-> ""] /\ recov' = Recovering("", 0)
              /\ clock' = IF clock.on THEN rest ELSE Started
              /\ me' = [me EXCEPT !.pending = FALSE]
              /\ UNCHANGED <<video, run>>
    /\ later' = Down(later)
    /\ UNCHANGED cause

-----------------------------------------------------------------------------
\* The player asks by itself.

\* The restarted event: a player that had a watch asks at once, another after it.
Restarted ==
    /\ cause = "server" /\ cause' = "restart"
    /\ IF ~me.watching THEN later' = LastAsk /\ UNCHANGED <<video, me, run, shown, clock, frozen, recov>>
       ELSE /\ later' = -1
            /\ IF me.retrying THEN UNCHANGED <<video, me, run, shown, clock, frozen, recov>>
               ELSE Start(me, TRUE) /\ UNCHANGED <<clock, frozen, recov>>
FollowUp ==
    /\ later = 0 /\ later' = -1
    /\ IF me.watching \/ me.retrying THEN UNCHANGED <<video, me, run, shown, clock, frozen, recov>>
       ELSE Start(me, TRUE) /\ UNCHANGED <<clock, frozen, recov>>
    /\ UNCHANGED cause

\* The tick of a named cause asks once when it goes away; after a restart, a player
\* without a watch asks last, and not if one came up meanwhile.
Ready ==
    CASE shown.kind \in {"server", "restart"} -> cause # "server"
      [] shown.kind = "busy"                  -> cause # "busy" /\ cause # "server"
      [] shown.kind = "tuner"                 -> cause # "tuner" /\ cause # "server"
      [] shown.kind = "signal"                -> cause # "signal" /\ cause # "server"
      [] OTHER                                -> FALSE
AsksLast == shown.kind \in {"server", "restart"}
Recover ==
    /\ shown.kind # "" /\ recov.hold = 0 /\ ~me.retrying
    /\ \/ /\ ~Ready /\ recov' = [recov EXCEPT !.ready = FALSE, !.age = -1]
          /\ UNCHANGED <<video, me, run, shown, clock, frozen>>
       \/ /\ Ready /\ ~recov.ready /\ AsksLast /\ ~me.watching /\ recov.age < LastAsk
          /\ recov' = [recov EXCEPT !.age = IF @ = -1 THEN 0 ELSE @]
          /\ UNCHANGED <<video, me, run, shown, clock, frozen>>
       \/ /\ Ready /\ ~recov.ready /\ AsksLast /\ recov.age # -1 /\ me.watching
          /\ recov' = [recov EXCEPT !.ready = TRUE, !.age = -1]
          /\ UNCHANGED <<video, me, run, shown, clock, frozen>>
       \/ /\ Ready /\ ~recov.ready
          /\ AsksLast => (IF me.watching THEN recov.age = -1 ELSE recov.age = LastAsk)
          /\ LET quiet == shown.kind = "restart"
             IN  /\ Start([me EXCEPT !.restarts = IF quiet THEN Capped(@ + 1, MaxHold) ELSE @], quiet)
                 /\ clock' = IF quiet THEN clock ELSE Off
                 /\ recov' = IF quiet THEN [recov EXCEPT !.ready = TRUE, !.age = -1] ELSE Recovering("", 0)
          /\ UNCHANGED frozen
    /\ UNCHANGED <<cause, later>>

\* The clock of a picture that stopped without a cause.  A fresh tune that still holds
\* its first picture gets one more turn.
ClockFires ==
    /\ clock.on /\ clock.due = 0 /\ clock.fired < MaxRetries
    /\ LET next == [clock EXCEPT !.fired = @ + 1, !.due = RetryEvery]
       IN  \/ /\ me.pending /\ ~clock.skipped
              /\ clock' = [next EXCEPT !.skipped = TRUE]
              /\ UNCHANGED <<video, me, run, shown, frozen>>
           \/ /\ ~(me.pending /\ ~clock.skipped) /\ me.retrying
              /\ clock' = next
              /\ UNCHANGED <<video, me, run, shown, frozen>>
           \/ /\ ~(me.pending /\ ~clock.skipped) /\ ~me.retrying
              /\ clock' = [next EXCEPT !.skipped = FALSE]
              /\ Start([me EXCEPT !.pending = TRUE], TRUE)
              /\ UNCHANGED frozen
    /\ UNCHANGED <<cause, recov, later>>

\* The viewer's Try again, or a confirm.
Retry ==
    /\ Start(me, FALSE) /\ clock' = Off /\ recov' = Recovering("", 0)
    /\ UNCHANGED <<cause, frozen, later>>

\* The world: what is the matter changes, and a moving picture stands still.
Change(c) ==
    /\ cause' = c /\ c # cause /\ ~(cause = "server" /\ c = "restart")
    /\ UNCHANGED <<video, me, run, shown, clock, frozen, recov, later>>
Freeze ==
    /\ video.pic = "moving" /\ video' = [video EXCEPT !.pic = "still"]
    /\ UNCHANGED <<cause, me, run, shown, clock, frozen, recov, later>>

Next ==
    \/ Answer \/ Played \/ Fail \/ Confirm \/ AskAgain
    \/ Moves \/ Stalls \/ Hide \/ Settle \/ Tick
    \/ \E type \in {"network", "media", "other"} : Fatal(type)
    \/ \E action \in {"ignore", "resume"} : Return(action)
    \/ Restarted \/ FollowUp \/ Recover \/ ClockFires \/ Retry
    \/ Freeze \/ \E c \in Causes : Change(c)

\* The timers run, and a read of the server ends.
Spec == Init /\ [][Next]_vars /\ WF_vars(Tick) /\ WF_vars(Settle)

-----------------------------------------------------------------------------
\* The flag that keeps the clocks from asking twice is up exactly while a start goes
\* on, whoever began it and however it ended (retrying.current).
RetryingIsStarting == me.retrying <=> me.start \in {"asked", "attached"}

\* What says that the picture stopped is asked again on the clock, and the clock runs
\* only for that or for a quiet start (rememberOutage, the watch effect).
StoppedIsRetried ==
    /\ shown = [message |-> "stopped", kind |-> ""] => clock.on
    /\ clock.on => run.quiet \/ shown = [message |-> "stopped", kind |-> ""]

\* No start of the player's own replaces a moving picture, but after the server said it
\* restarted, or on the clock of a picture that was said to have stopped
\* (restartFollowUp, recoveryEdge).
MovesOn ==
    video.pic = "moving" /\ me.start = "over" /\ me'.start = "asked" /\ run'.quiet
      => clock.on \/ (cause = "server" /\ cause' = "restart")
MovingIsKept == [][MovesOn]_vars

\* A picture that was seen to move and stands still moves again, gets a new start, or is told to the viewer
\* (FrozenPicture).  Two had the last word before: a fatal error of this run, and the
\* last frozen step, until a picture has settled.  A picture that moves for a moment
\* after either and stands still again is not told of.
LastWord == run.surfaced \/ frozen.handed
StandsStill == run.primed /\ frozen.moved /\ video.pic = "still"
Handled == video.pic # "still" \/ ~run.primed \/ shown # Nothing \/ LastWord \/ video.hidden
Told == StandsStill ~> Handled
=============================================================================
