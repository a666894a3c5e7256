------------------------------- MODULE Booking -------------------------------
(***************************************************************************)
(* The passes and the schedule the viewers edit (httpapi/passes.go,        *)
(* manual.go, the schedule part of play.go, dvr/conflict.go, dvr/manual.go *)
(* and the passes and skips tables of store/dvr.go).                       *)
(*                                                                         *)
(* A plan is a pure function of the two tables and the guide; the sweep is *)
(* the one of module Plan, done in one go.  Requests that write one row    *)
(* are single steps.  An edit, a reorder and a fix read the tables first   *)
(* and write later, so other viewers' requests come in between.            *)
(* What the library holds is left out (module Dvr).                        *)
(***************************************************************************)
EXTENDS Integers, FiniteSets, Sequences, SequencesExt

CONSTANTS Guide,        \* listings: [id, chan, title, ep, start, end]
          Drafts,       \* passes a viewer may add: PassRow without id and with its own prio
          BookTuners,   \* tunerCount
          MaxPasses,    \* bound: passes ever added
          MaxChanges,   \* bound: edits, reorders, skips and deletes
          IdsUsed       \* ids of passes added and deleted before

VARIABLES table,        \* the passes
          skips,        \* skipped_airings
          added,        \* passes ever added; the next id is one more
          req,          \* the request that has read and not yet written
          changes       \* counts towards MaxChanges
bookVars == <<table, skips, added, req, changes>>

Unsaved == -1
NoRequest == [kind |-> "none"]

\* kind, match: title or contains (both take the title), chan 0: any channel,
\* at: the start a once or a manual pass records, len: a manual pass's length.
PassRow(d, id) == [id |-> id, kind |-> d.kind, match |-> d.match, title |-> d.title, chan |-> d.chan,
                   at |-> d.at, len |-> d.len, daily |-> d.daily, prio |-> d.prio, pad |-> d.pad]
Ids(ps) == {p.id : p \in ps}
RowOf(ps, id) == CHOOSE p \in ps : p.id = id

IdRank(id) == IF id = Unsaved THEN IdsUsed + MaxPasses + 2 ELSE id
ListedBefore(p, q) ==
    \/ p.prio > q.prio
    \/ p.prio = q.prio /\ (p.title < q.title \/ (p.title = q.title /\ IdRank(p.id) < IdRank(q.id)))

-----------------------------------------------------------------------------
(* The plan. *)

\* manualAiring: a slot takes the episode of the listing it overlaps most.
Shared(a, s, e) == (IF a.end < e THEN a.end ELSE e) - (IF a.start > s THEN a.start ELSE s)
Covering(c, s, e) == {a \in Guide : a.chan = c /\ Shared(a, s, e) > 0 /\
                        \A b \in Guide : b.chan = c => Shared(b, s, e) <= Shared(a, s, e)}
ManualID(id, start) == -((IF id < 0 THEN -id ELSE id) * 100 + start)
ManualAirings(ps) ==
    {LET over == Covering(p.chan, p.at, p.at + p.len)
     IN  [id |-> ManualID(p.id, p.at), chan |-> p.chan, title |-> p.title, start |-> p.at, end |-> p.at + p.len,
          manual |-> p.id, ep |-> IF over = {} THEN 0 ELSE (CHOOSE a \in over : TRUE).ep] :
       p \in {q \in ps : q.kind = "manual" /\ q.chan # 0 /\ q.len >= 1}}
AiringsOf(ps) == {[id |-> a.id, chan |-> a.chan, title |-> a.title, start |-> a.start, end |-> a.end,
                 manual |-> 0, ep |-> a.ep] : a \in Guide} \cup ManualAirings(ps)

PassMatches(p, a) ==
    IF p.kind = "manual" \/ a.manual # 0 THEN a.manual # 0 /\ a.manual = p.id
    ELSE /\ p.chan \in {0, a.chan}
         /\ IF p.kind = "once" THEN p.chan # 0 /\ a.start = p.at ELSE a.title = p.title
First(ps) == CHOOSE p \in ps : \A q \in ps \ {p} : ListedBefore(p, q)
MatchPass(ps, a) == LET all == {p \in ps : PassMatches(p, a)}
                        once == {p \in all : p.kind = "once"}
                    IN  First(IF once # {} THEN once ELSE all)
Matched(ps) == {[air |-> a, pass |-> MatchPass(ps, a)] : a \in {x \in AiringsOf(ps) : \E p \in ps : PassMatches(p, x)}}

From(i) == i.air.start - i.pass.pad
Until(i) == i.air.end + i.pass.pad
SkipParts(a) == IF a.manual # 0 THEN <<-a.manual, a.start>> ELSE <<a.ep, a.start>>

LosesTo(i, j) ==
    \/ i.pass.prio < j.pass.prio
    \/ i.pass.prio = j.pass.prio /\ (i.air.start > j.air.start \/ (i.air.start = j.air.start /\ i.air.id > j.air.id))
Chans(I) == {i.air.chan : i \in I}
Top(I, n) == {i \in I : Cardinality({j \in I : LosesTo(i, j)}) < n}
Fitting(I) == LET fits == {n \in 0..Cardinality(I) : Cardinality(Chans(Top(I, n))) <= BookTuners}
              IN  Top(I, CHOOSE n \in fits : \A m \in fits : m <= n)
(* resolvePriority, start by start: what is on then, cut down until it fits. *)
StartsBefore(i, j) ==
    \/ From(i) < From(j)
    \/ From(i) = From(j) /\ (i.air.start < j.air.start \/ (i.air.start = j.air.start /\ i.air.id < j.air.id))
StartOne(kept, i) == LET on == {j \in kept : Until(j) > From(i)} \cup {i}
                     IN  (kept \ on) \cup Fitting(on)
(* PlanLibrary: what the viewer skipped never takes a tuner. *)
Plan(ps, sk) ==
    LET items == Matched(ps)
        out == {i \in items : SkipParts(i.air) \in sk}
        kept == FoldLeft(StartOne, {}, SetToSortSeq(items \ out, StartsBefore))
    IN  [items |-> items, kept |-> kept, out |-> out, conflict |-> items \ (kept \cup out)]

-----------------------------------------------------------------------------
(* Suggestions (AttachSuggestions) and what taking one does (PlanFix). *)

SameShowing(a, b) == (a.id > 0 /\ a.id = b.id) \/ (a.chan = b.chan /\ a.start = b.start)
Overflows(I) == \E t \in {From(i) : i \in I} :
                   Cardinality(Chans({i \in I : From(i) <= t /\ t < Until(i)})) > BookTuners
FitsBeside(pl, cand) ==
    \/ \E i \in pl.kept : SameShowing(i.air, cand.air)
    \/ ~Overflows({i \in pl.kept : ~SameShowing(i.air, cand.air)} \cup {cand})
AnyChannel(p) == [p EXCEPT !.chan = 0]
LaterAirings(pl, i) ==
    {a \in AiringsOf({}) :
       /\ ~SameShowing(a, i.air) /\ a.start > i.air.start /\ a.title = i.air.title
       /\ PassMatches(AnyChannel(i.pass), a)
       /\ ~\E j \in pl.out : SameShowing(j.air, a)
       /\ FitsBeside(pl, [air |-> a, pass |-> i.pass])}
Suggestion(pl, i) == CHOOSE a \in LaterAirings(pl, i) : \A b \in LaterAirings(pl, i) \ {a} :
                        a.start < b.start \/ (a.start = b.start /\ a.chan < b.chan)

ChannelAdjust(p, s) == p.chan # 0 /\ s.chan # p.chan /\ p.match = "title" /\ PassMatches(AnyChannel(p), s)
HaveOneShotOnChannel(ps, s) == \E p \in ps : p.kind = "once" /\ p.chan = s.chan           \* mutant
HaveOneShot(ps, s) == \E p \in ps : p.kind = "once" /\ PassMatches(p, s)
PlanFix(ps, p, s) == IF PassMatches(p, s) THEN "skip"
                     ELSE IF ChannelAdjust(p, s) THEN "pin"
                     ELSE IF HaveOneShot(ps, s) THEN "skip" ELSE "before"
OneShot(p, s) == [kind |-> "once", match |-> "title", title |-> s.title, chan |-> s.chan, at |-> s.start, len |-> 0,
                  daily |-> FALSE, prio |-> p.prio, pad |-> p.pad]

-----------------------------------------------------------------------------
(* The tables' statements. *)

TopPriority(ps) == IF ps = {} THEN 0 ELSE CHOOSE n \in {p.prio : p \in ps} : \A p \in ps : p.prio <= n
(* rankManual and AddOncePass: asked for by name, it ranks above the rest. *)
Ranked(ps, d) == IF d.kind = "once" \/ (d.kind = "manual" /\ ~d.daily)
                 THEN [d EXCEPT !.prio = TopPriority(ps) + 1] ELSE d
Asked(ps, d) == d.kind = "once" /\ \E p \in ps : p.kind = "once" /\ p.chan = d.chan /\ p.at = d.at
AddPass(ps, d, id) == IF Asked(ps, d) THEN ps ELSE ps \cup {PassRow(Ranked(ps, d), id)}
(* UpdatePassRules writes the rules, never the kind; the start only of a manual pass. *)
UpdatePassRules(ps, id, n) ==
    {IF p.id # id THEN p
     ELSE [n EXCEPT !.id = id, !.kind = p.kind, !.at = IF p.kind = "manual" THEN n.at ELSE p.at] : p \in ps}
SetPassOrder(ps, order) ==
    IF \E k \in DOMAIN order : order[k] \notin Ids(ps) THEN ps
    ELSE {IF \E k \in DOMAIN order : order[k] = p.id
          THEN [p EXCEPT !.prio = Len(order) + 1 - (CHOOSE k \in DOMAIN order : order[k] = p.id)] ELSE p : p \in ps}
(* applyManualRules: a manual pass has a channel, and a start when it is not daily. *)
Timed(p, d) == IF d.kind = "manual"
               THEN [p EXCEPT !.chan = d.chan, !.at = d.at, !.len = d.len, !.daily = d.daily]
               ELSE IF d.chan = 0 THEN p ELSE [p EXCEPT !.chan = d.chan]
(* applyPassRules: a once pass keeps all but its pads and its rank. *)
Edited(p, d) ==
    LET ranked == [p EXCEPT !.pad = d.pad, !.prio = d.prio]
    IN  IF p.kind = "once" THEN ranked
        ELSE IF p.kind = "manual" THEN Timed(ranked, d)
        ELSE [ranked EXCEPT !.chan = d.chan]

-----------------------------------------------------------------------------
(* The requests. *)

Change == changes < MaxChanges /\ changes' = changes + 1

Add == \E d \in Drafts :
    /\ added < IdsUsed + MaxPasses
    /\ table' = AddPass(table, d, added + 1)
    /\ added' = added + (IF Asked(table, d) THEN 0 ELSE 1)
    /\ UNCHANGED <<skips, req, changes>>
DeletePass == \E p \in table :
    /\ table' = table \ {p}
    /\ req' = IF req.kind = "fix" THEN [req EXCEPT !.gone = TRUE] ELSE req
    /\ Change /\ UNCHANGED <<skips, added>>
SkipAiring == \E i \in Matched(table) :
    skips' = skips \cup {SkipParts(i.air)} /\ Change /\ UNCHANGED <<table, added, req>>

EditRead == /\ req = NoRequest
            /\ \E p \in table, d \in Drafts : req' = [kind |-> "edit", row |-> Edited(p, d)]
            /\ Change /\ UNCHANGED <<table, skips, added>>
EditWrite == /\ req.kind = "edit"
             /\ table' = UpdatePassRules(table, req.row.id, req.row)
             /\ req' = NoRequest /\ UNCHANGED <<skips, added, changes>>

(* orderPasses: ids that are gone are left out, those not named go last. *)
OrderRead == /\ req = NoRequest /\ table # {}
             /\ \E first \in table :
                  req' = [kind |-> "order", ids |-> <<first.id>> \o
                            SetToSortSeq(Ids(table \ {first}), LAMBDA a, b : ListedBefore(RowOf(table, a), RowOf(table, b)))]
             /\ Change /\ UNCHANGED <<table, skips, added>>
OrderWrite == /\ req.kind = "order"
              /\ table' = SetPassOrder(table, req.ids)
              /\ req' = NoRequest /\ UNCHANGED <<skips, added, changes>>

(* fixSchedule: the later airing is saved first, then the conflict skipped. *)
FixLoad ==
    /\ req = NoRequest
    /\ LET pl == Plan(table, skips) IN
       \E i \in pl.conflict :
         /\ LaterAirings(pl, i) # {}
         /\ LET s == Suggestion(pl, i) IN
            req' = [kind |-> "fix", step |-> PlanFix(table, i.pass, s), pass |-> i.pass, skip |-> i.air, sug |-> s,
                    seen |-> {}, mine |-> 0, gone |-> FALSE]
    /\ UNCHANGED <<table, skips, added, changes>>
FixPin ==
    /\ req.kind = "fix" /\ req.step = "pin"
    /\ table' = UpdatePassRules(table, req.pass.id, [req.pass EXCEPT !.chan = req.sug.chan])
    /\ req' = IF req.pass.id \in Ids(table) THEN [req EXCEPT !.step = "skip"] ELSE NoRequest
    /\ UNCHANGED <<skips, added, changes>>
FixBefore ==
    /\ req.kind = "fix" /\ req.step = "before"
    /\ req' = [req EXCEPT !.step = "add", !.seen = Ids(table)]
    /\ UNCHANGED <<table, skips, added, changes>>
FixAdd ==
    /\ req.kind = "fix" /\ req.step = "add" /\ added < IdsUsed + MaxPasses
    /\ LET d == OneShot(req.pass, req.sug) IN
       /\ table' = AddPass(table, d, added + 1)
       /\ added' = added + (IF Asked(table, d) THEN 0 ELSE 1)
       /\ req' = [req EXCEPT !.step = "after", !.mine = IF Asked(table, d) THEN 0 ELSE added + 1]
    /\ UNCHANGED <<skips, changes>>
(* newPassID: the newest pass that was not there before. *)
NewPassID(before, after) == IF after \subseteq before THEN 0
                            ELSE CHOOSE n \in after \ before : \A k \in after \ before : k <= n
FixAfter ==
    /\ req.kind = "fix" /\ req.step = "after"
    /\ LET id == NewPassID(req.seen, Ids(table)) IN
       IF id = 0 THEN req' = NoRequest /\ UNCHANGED table
       ELSE /\ table' = UpdatePassRules(table, id, PassRow(OneShot(req.pass, req.sug), id))
            /\ req' = [req EXCEPT !.step = "skip"]
    /\ UNCHANGED <<skips, added, changes>>
FixSkip ==
    /\ req.kind = "fix" /\ req.step = "skip"
    /\ skips' = skips \cup {SkipParts(req.skip)}
    /\ req' = NoRequest /\ UNCHANGED <<table, added, changes>>
(* A statement fails, or the viewer's connection goes away. *)
Fails == req # NoRequest /\ req' = NoRequest /\ UNCHANGED <<table, skips, added, changes>>

BookInit == table = {} /\ skips = {} /\ added = IdsUsed /\ req = NoRequest /\ changes = 0
BookNext == \/ Add \/ DeletePass \/ SkipAiring \/ EditRead \/ EditWrite \/ OrderRead \/ OrderWrite
            \/ FixLoad \/ FixPin \/ FixBefore \/ FixAdd \/ FixAfter \/ FixSkip \/ Fails

-----------------------------------------------------------------------------
(* previewPass: the plan with the draft in it, under an id of its own. *)
Shown(pl, id) == {<<i.air.chan, i.air.start, i \in pl.kept>> : i \in {j \in pl.items : j.pass.id = id}}
Bumped(old, pl) == {<<i.pass.id, i.air.chan, i.air.start>> : i \in {j \in pl.conflict :
                      \E k \in old.kept : k.pass.id = j.pass.id /\ SameShowing(k.air, j.air)}}
Preview(d) == LET pl == Plan(table \cup {PassRow(Ranked(table, d), Unsaved)}, skips)
              IN  <<Shown(pl, Unsaved), Bumped(Plan(table, skips), pl)>>
Saved(d) == LET pl == Plan(AddPass(table, d, added + 1), skips)
            IN  <<Shown(pl, added + 1), Bumped(Plan(table, skips), pl)>>

(* What a viewer is shown before saving a pass is what saving it does:     *)
(* which airings it records, and whose recordings it pushes out            *)
(* (previewPass, sortByPriority).  A once pass has no preview.             *)
PreviewTrue ==
    req = NoRequest => \A d \in Drafts : d.kind # "once" => Preview(d) = Saved(d)

(* A conflict is skipped for a later airing only when that airing is       *)
(* booked: some pass matches it, unless a pass was deleted while the fix   *)
(* ran (fixSchedule saves the replacement before it skips).                *)
ReplacementFirst ==
    req.kind = "fix" /\ req.step = "skip" /\ ~req.gone => \E p \in table : PassMatches(p, req.sug)

(* A fix gives the pass it was asked for a once pass, for that airing      *)
(* alone (FixPlan): it writes no pass that another viewer added.           *)
OthersKept ==
    [][req.kind = "fix" /\ req.step = "after" =>
         \A p \in table : p.id \notin {req.pass.id, req.mine} => p \in table']_bookVars
=============================================================================
