------------------------------- MODULE Guide --------------------------------
(***************************************************************************)
(* The guide of one channel: listing sources pulled one after another      *)
(* under guideMu (pullGuide), combined, and written in one transaction     *)
(* (ApplyAirings), while the settings change, a source is set up and put   *)
(* back when its first pull fails (saveAndPull), pulls fail, and listings  *)
(* heard on the air fill the gaps (fillBroadcast).                         *)
(*   Time is counted twice: slots of the guide, and days for the schedule. *)
(***************************************************************************)
EXTENDS Naturals, FiniteSets, FiniteSetsExt, Sequences, SequencesExt

CONSTANTS Order,      \* guideSourceOrder; the first is always on
          Answers,    \* what each source may list: sequences of spans, by start
          Heard,      \* spans the broadcast may list
          Detail,     \* detail of each source's rows
          Configs,    \* accounts or links of the other sources
          DropFloor, Backoff, MaxDay, MaxChanges, MaxFails

Off == 0
Broadcast == "broadcast"
Sources == ToSet(Order)
Optional == Sources \ {Head(Order)}
Requests == {"auto", "kick", "save"}

VARIABLES settings,   \* each source's account: Off, or which one
          states,     \* each source's schedule: account pulled, next day, failures
          airings,    \* listings of the channel
          pull,       \* the refresh that holds guideMu
          wanted,     \* refreshes waiting for it
          save,       \* saveAndPull: its source and the settings before
          ear,        \* spans fillBroadcast is about to insert
          day, changes, fails,
          putBack     \* a save turned its source off again
guideVars == <<settings, states, airings, pull, wanted, save, ear, day, changes, fails, putBack>>

Apart(a, b) == a.e <= b.s \/ b.e <= a.s
FeedRows(src) == {r \in airings : r.src = src}
ByStart(S) == SetToSortSeq(S, LAMBDA a, b : a.s < b.s)
DueByDay(src, conf, st) == st.next <= day   \* mutant: a changed account waits for its day
(* sourceDue *)
Due(src, conf, st) == st.config # conf \/ st.next <= day
On(conf) == {src \in Sources : conf[src] # Off}

(* fellTooFar: less than half of what the source had. *)
FellTooFar(list) == \E was \in {Cardinality(FeedRows(list.src))} : was >= DropFloor /\ Len(list.rows) * 2 < was
GuideBackoff(n) == IF n >= 2 THEN 2 * Backoff ELSE Backoff
-----------------------------------------------------------------------------
(* noOverlaps: rows of a list that overlap nothing taken and no earlier row kept. *)
NoOverlaps(list, taken) ==
    FoldLeft(LAMBDA out, r : IF r.e > r.s /\ (\A t \in ToSet(taken) : Apart(r, t)) /\ (out # <<>> => Last(out).e <= r.s)
                             THEN Append(out, r) ELSE out,
             <<>>, list)

(* richestFeed: the most detail in the stretch all of them cover. *)
RichestFeed(lists) ==
    LET full == {i \in DOMAIN lists : lists[i] # <<>>}
        from == Max({lists[i][1].s : i \in full})
        to == Min({Last(lists[i]).e : i \in full})
        score(i) == Detail[lists[i][1].src] * Cardinality({k \in DOMAIN lists[i] : lists[i][k].s >= from /\ lists[i][k].s < to})
        best == {i \in full : \A j \in full : score(i) >= score(j)}
    IN  IF full = {} THEN 0 ELSE IF to <= from THEN Min(full) ELSE Min(best)

(* combineGuide: the richest keeps its rows, the others fill what it leaves. *)
CombineGuide(feeds) ==
    LET base == RichestFeed(feeds)
        rest == SelectSeq([i \in DOMAIN feeds |-> i], LAMBDA i : i # base)
        add(chosen, i) == ByStart(ToSet(chosen) \cup ToSet(NoOverlaps(feeds[i], chosen)))
    IN  IF base = 0 THEN <<>> ELSE FoldLeft(add, NoOverlaps(feeds[base], <<>>), rest)

(* ApplyAirings: rows of the feeds replace the old ones; a row heard on    *)
(* the air goes when it overlaps the stretch they list.                    *)
ApplyAirings(rows) ==
    LET new == ToSet(rows)
        from == Min({r.s : r \in new})
        to == Max({r.e : r \in new})
    IN  new \cup {r \in airings : r.src = Broadcast /\ (new = {} \/ ~(r.s < to /\ r.e > from))}
-----------------------------------------------------------------------------
Nobody == "nobody"
NoState == [src \in Sources |-> [config |-> Off, next |-> 0, fails |-> 0]]
Idle == [at |-> "idle", for |-> "auto", conf |-> [src \in Sources |-> Off], states |-> NoState, todo |-> <<>>, feeds |-> <<>>, pulled |-> FALSE, failed |-> {}]
NoSave == [src |-> Nobody, before |-> Off, pulled |-> FALSE]
Init ==
    /\ settings = [src \in Sources |-> IF src = Head(Order) THEN 1 ELSE Off]
    /\ states = NoState
    /\ airings = {} /\ pull = Idle /\ wanted = {} /\ save = NoSave /\ ear = {}
    /\ day = 0 /\ changes = 0 /\ fails = 0 /\ putBack = FALSE

(* putSettings: a source's account changes and a refresh is kicked. *)
PutSettings ==
    /\ changes < MaxChanges /\ changes' = changes + 1
    /\ \E src \in Optional, c \in Configs \cup {Off} :
          c # settings[src] /\ settings' = [settings EXCEPT ![src] = c]
    /\ wanted' = wanted \cup {"kick"}
    /\ UNCHANGED <<states, airings, pull, save, ear, day, fails, putBack>>

(* saveAndPull stores the account and forces a pull of it. *)
SaveAndPull ==
    /\ save = NoSave /\ changes < MaxChanges /\ changes' = changes + 1
    /\ \E src \in Optional, c \in Configs :
          /\ save' = [src |-> src, before |-> settings[src], pulled |-> FALSE]
          /\ settings' = [settings EXCEPT ![src] = c]
    /\ wanted' = wanted \cup {"save"}
    /\ UNCHANGED <<states, airings, pull, ear, day, fails, putBack>>

(* The background loop wakes when GuideDelay is zero. *)
GuideDelay ==
    /\ \E src \in On(settings) : Due(src, settings[src], states[src])
    /\ wanted' = wanted \cup {"auto"} /\ "auto" \notin wanted
    /\ UNCHANGED <<settings, states, airings, pull, save, ear, day, changes, fails, putBack>>

(* pullGuide takes guideMu and reads the settings and the schedules. *)
PullGuide(req) ==
    /\ req \in wanted /\ pull.at = "idle" /\ wanted' = wanted \ {req}
    /\ pull' = [Idle EXCEPT !.at = "pull", !.for = req, !.conf = settings, !.states = states,
                           !.todo = SelectSeq(Order, LAMBDA src : settings[src] # Off)]
    /\ UNCHANGED <<settings, states, airings, save, ear, day, changes, fails, putBack>>

(* pullSource: what a source lists for the channel. *)
Listing(src, c, spans) == [i \in DOMAIN spans |-> [s |-> spans[i][1], e |-> spans[i][2], src |-> src, conf |-> c]]
Forced(src) == pull.for = "save" /\ src = save.src
(* One source: kept as it is, or pulled; a pull that fails, or lists far   *)
(* less than before, keeps its listings and waits.                         *)
KeepSource ==
    /\ pull.at = "pull" /\ pull.todo # <<>>
    /\ LET src == Head(pull.todo) IN
          /\ ~Forced(src) /\ ~Due(src, pull.conf[src], pull.states[src])
          /\ pull' = [pull EXCEPT !.todo = Tail(@), !.feeds = Append(@, ByStart(FeedRows(src)))]
    /\ UNCHANGED <<settings, states, airings, wanted, save, ear, day, changes, fails, putBack>>
PullSource ==
    /\ pull.at = "pull" /\ pull.todo # <<>>
    /\ LET src == Head(pull.todo)
           c == pull.conf[src]
           kept == ByStart(FeedRows(src))
       IN  /\ Forced(src) \/ Due(src, c, pull.states[src])
           /\ \/ \E spans \in Answers[src] :
                    LET rows == Listing(src, c, spans) IN
                    /\ rows # <<>> /\ ~FellTooFar([src |-> src, rows |-> rows])
                    /\ pull' = [pull EXCEPT !.todo = Tail(@), !.feeds = Append(@, rows), !.pulled = TRUE,
                                            !.states[src] = [config |-> c, next |-> day + 1, fails |-> 0]]
                    /\ UNCHANGED fails
              \/ /\ fails < MaxFails /\ fails' = fails + 1
                 /\ pull' = [pull EXCEPT !.todo = Tail(@), !.feeds = Append(@, kept), !.pulled = TRUE, !.failed = @ \cup {src},
                                         !.states[src] = [config |-> c, next |-> day + GuideBackoff(@.fails + 1), fails |-> @.fails + 1]]
    /\ UNCHANGED <<settings, states, airings, wanted, save, ear, day, changes, putBack>>

(* The schedules are stored, a source turned off loses its own; then the   *)
(* guide is written, unless nothing was pulled or nothing came.            *)
StoreGuide ==
    /\ pull.at = "pull" /\ pull.todo = <<>>
    /\ LET on == On(pull.conf)
           removed == \/ \E src \in Sources \ on : pull.states[src].config # Off
                      \/ \E r \in airings : r.src \in Sources \ on
           merged == CombineGuide(pull.feeds)
       IN  /\ states' = [src \in Sources |-> IF src \in on THEN pull.states[src] ELSE [config |-> Off, next |-> 0, fails |-> 0]]
           /\ airings' = IF (pull.pulled \/ removed) /\ (merged # <<>> \/ pull.failed = {}) THEN ApplyAirings(merged) ELSE airings
           /\ pull' = Idle
           /\ save' = IF pull.for = "save" THEN [save EXCEPT !.pulled = TRUE] ELSE save
    /\ UNCHANGED <<settings, wanted, ear, day, changes, fails, putBack>>
(* saveAndPull after the pull: an account whose pull failed is put back as *)
(* it was before, whoever else changed it.                                 *)
Restore ==
    /\ save.pulled /\ save' = NoSave
    /\ settings' = IF states[save.src].fails > 0 THEN [settings EXCEPT ![save.src] = save.before] ELSE settings
    /\ putBack' = (putBack \/ (states[save.src].fails > 0 /\ save.before = Off))
    /\ UNCHANGED <<states, airings, pull, wanted, ear, day, changes, fails>>

(* fillBroadcast reads what is held, then inserts what fits the gaps. *)
FillBroadcast ==
    /\ ear = {}
    /\ ear' = {r \in {[s |-> h[1], e |-> h[2], src |-> Broadcast, conf |-> Off] : h \in Heard} : \A a \in airings : Apart(a, r)}
    /\ ear' # {}
    /\ UNCHANGED <<settings, states, airings, pull, wanted, save, day, changes, fails, putBack>>
InsertAirings ==
    /\ ear # {} /\ airings' = airings \cup ear /\ ear' = {}
    /\ UNCHANGED <<settings, states, pull, wanted, save, day, changes, fails, putBack>>

DayPasses ==
    /\ day < MaxDay /\ day' = day + 1
    /\ UNCHANGED <<settings, states, airings, pull, wanted, save, ear, changes, fails, putBack>>

Next ==
    \/ PutSettings \/ SaveAndPull \/ GuideDelay \/ KeepSource \/ PullSource \/ StoreGuide \/ Restore
    \/ FillBroadcast \/ InsertAirings \/ DayPasses
    \/ \E req \in Requests : PullGuide(req)
Spec == Init /\ [][Next]_guideVars
-----------------------------------------------------------------------------
(* httpapi/guiderefresh.go: the listings of the feeds never overlap,       *)
(* whichever were kept, pulled, failed or turned off on the way.           *)
FeedsApart == \A a, b \in airings : (a # b /\ Broadcast \notin {a.src, b.src}) => Apart(a, b)

(* Once no refresh runs, waits or is due, the guide is that of the         *)
(* settings: nothing of a source that is off, unless the others all failed *)
(* and brought nothing to put in its place, and nothing of another account *)
(* than the one set unless the pulls of this one failed; though the        *)
(* settings changed in the middle of a pull.  A source put back to off     *)
(* after another refresh had pulled it is the exception.                   *)
QuietIsCurrent ==
    (/\ pull.at = "idle" /\ wanted = {} /\ save = NoSave /\ ~putBack
     /\ \A src \in On(settings) : ~Due(src, settings[src], states[src]))
    => \A r \in airings : r.src # Broadcast =>
          \/ r.conf = settings[r.src]
          \/ settings[r.src] # Off /\ states[r.src].fails > 0
          \/ settings[r.src] = Off /\ \A src \in On(settings) : states[src].fails > 0 /\ FeedRows(src) = {}
=============================================================================
