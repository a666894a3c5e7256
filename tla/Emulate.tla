-------------------------------- MODULE Emulate --------------------------------
(***************************************************************************)
(* What other apps on the network see: the emulated HDHomeRun (httpapi/    *)
(* emulate.go), the M3U export (export.go), the mosaics listed as channels *)
(* (mosaic.go), the virtual channels made of recordings (dvr/virtual.go,   *)
(* store/library.go) and the copies the apps play (live/export.go,         *)
(* ExportMosaic).  Numbers are integers; a mosaic's number is given by its *)
(* slot.  Documents the apps read only once (discover.json, XMLTV texts)   *)
(* are left out; the clock is one local day's.                            *)
(***************************************************************************)
EXTENDS Integers, FiniteSets, Sequences, SequencesExt

CONSTANTS EmuChans,       \* channel ids
          Locked,         \* encrypted channels with no clear twin
          EmuNumbers,     \* numbers the owner gives channels and virtual channels
          ShareLists,     \* values the owner saves as exportMosaics
          ShareMax,       \* mosaicShareMax
          Tapes,          \* recordings: id -> [title, sub, started]
          Lengths,        \* lengths a recording may turn out to have
          VirtualLists,   \* lists of recordings a virtual channel is given
          Orders,         \* order modes used
          MaxVirtuals,    \* bound: virtual channels
          ExportCap,      \* exportCap
          Apps,
          DayLength,      \* length of the local day
          MaxEmuEdits     \* bound: changes to the catalogue

VARIABLES rows,       \* channel id -> number, shown, encrypted with no clear twin
          shares,     \* exportMosaics
          virtuals,   \* sequence of [number, order, items], in the order they were made
          tapes,      \* recording id -> status, length
          emulator,   \* the setting, and whether the server runs
          app,        \* app -> what it is doing
          copies,     \* h.exportCopies
          edited      \* counts towards MaxEmuEdits
emuVars == <<rows, shares, virtuals, tapes, emulator, app, copies, edited>>

Empty == <<>>
Idle == "idle"

-----------------------------------------------------------------------------
(* The lineup. *)

MosaicNumber(slot) == 100 + slot
(* mosaicList: each key once, a removed one leaves its slot, the end is cut. *)
Once(list) == [i \in DOMAIN list |-> IF \E j \in 1..(i - 1) : list[j] = list[i] THEN Empty ELSE list[i]]
Trimmed(list) == SubSeq(list, 1, Cardinality({i \in DOMAIN list : \E j \in i..Len(list) : list[j] # Empty}))
MosaicList(list) == Trimmed(Once(list))

InLineup(id) == id \in EmuChans /\ rows[id].shown
IsMosaic(key) == Len(key) \in 2..4 /\ Cardinality(Range(key)) = Len(key)
SharedMosaics == {slot \in DOMAIN shares : IsMosaic(shares[slot]) /\ \A id \in Range(shares[slot]) : InLineup(id)}
IsShared(key) == \E slot \in SharedMosaics : shares[slot] = key

(* What lookup tries in turn, and what a row stands for. *)
Channel(id) == [kind |-> "channel", is |-> id]
Mosaic(slot) == [kind |-> "mosaic", is |-> shares[slot]]
Virtual(number) == [kind |-> "virtual", is |-> number]
ChannelList == SetToSortSeq({id \in EmuChans : rows[id].shown}, LAMBDA a, b : a < b)
MosaicSlots == SetToSortSeq(SharedMosaics, LAMBDA a, b : a < b)
Rows(chans, slots) ==
    [i \in DOMAIN chans |-> [n |-> rows[chans[i]].n, hit |-> Channel(chans[i])]]
    \o [i \in DOMAIN slots |-> [n |-> MosaicNumber(slots[i]), hit |-> Mosaic(slots[i])]]
    \o [i \in DOMAIN virtuals |-> [n |-> virtuals[i].number, hit |-> Virtual(virtuals[i].number)]]
Listed == Rows(ChannelList, MosaicSlots)
TakenBefore(list, i) == \E j \in 1..(i - 1) : list[j].n = list[i].n

(* lineupRows: a number already listed gets a path of its own, or no row. *)
ByNumber(n) == [by |-> "v", is |-> n]
ByNumberAlways(list, i) == ByNumber(list[i].n)                                \* mutant
UrlOf(list, i) ==
    IF ~TakenBefore(list, i) THEN ByNumber(list[i].n)
    ELSE [by |-> IF list[i].hit.kind = "channel" THEN "c" ELSE "m", is |-> list[i].hit.is]
LineupRows(list) == {i \in DOMAIN list : list[i].hit.kind = "virtual" => ~TakenBefore(list, i)}

NoHit == [kind |-> "none"]
(* lookup: a channel wins over a mosaic, a mosaic over a virtual channel;  *)
(* the list is in that order.                                              *)
FirstOf(list, found) == IF found = {} THEN NoHit ELSE list[CHOOSE i \in found : \A j \in found : i <= j].hit
Lookup(list, url) ==
    CASE url.by = "c" -> IF InLineup(url.is) THEN Channel(url.is) ELSE NoHit
      [] url.by = "m" -> IF IsShared(url.is) THEN [kind |-> "mosaic", is |-> url.is] ELSE NoHit
      [] url.by = "v" -> FirstOf(list, {i \in DOMAIN list : list[i].n = url.is})
      [] url.by = "stream" -> Channel(url.is)
(* exportLineup names channels by id and mosaics by key. *)
ExportLineup ==
    [i \in DOMAIN ChannelList |-> [url |-> [by |-> "stream", is |-> ChannelList[i]], hit |-> Channel(ChannelList[i])]]
    \o [i \in DOMAIN MosaicSlots |-> [url |-> [by |-> "m", is |-> shares[MosaicSlots[i]]], hit |-> Mosaic(MosaicSlots[i])]]

-----------------------------------------------------------------------------
(* Virtual channels: a loop of recordings anchored at local midnight. *)

UnknownSlot == 3      \* 30 minutes
SlotLength(id) == IF tapes[id].len < 1 THEN UnknownSlot ELSE tapes[id].len
Playable(items) == SelectSeq(items, LAMBDA id : tapes[id].st \notin {"failed", "gone"})
Earlier(order, a, b) ==
    CASE order = "release" -> Tapes[a].started < Tapes[b].started
      [] order = "random" -> a < b                \* mix(id, day) adds the same to every id
      [] order \in {"season", "show", "marathon"} ->
            Tapes[a].title < Tapes[b].title \/ (Tapes[a].title = Tapes[b].title /\ Tapes[a].sub < Tapes[b].sub)
      [] OTHER -> FALSE
Placed(list, places) == [k \in DOMAIN list |-> list[places[k]]]
Sorted(order, list) ==      \* SliceStable
    Placed(list, SetToSortSeq(DOMAIN list, LAMBDA i, j :
        Earlier(order, list[i], list[j]) \/ (~Earlier(order, list[j], list[i]) /\ i < j)))
(* marathon: three of one show, then three of the next, round after round. *)
Round(list, i) == Cardinality({j \in 1..(i - 1) : Tapes[list[j]].title = Tapes[list[i]].title}) \div 3
Rounds(list) ==
    Placed(list, SetToSortSeq(DOMAIN list, LAMBDA i, j :
        Round(list, i) < Round(list, j) \/ (Round(list, i) = Round(list, j) /\ i < j)))
ThenRounds(order, sorted) == IF order = "marathon" THEN Rounds(sorted) ELSE sorted
OrderRecordings(order, list) == ThenRounds(order, Sorted(order, list))
LoopOf(order, items) == OrderRecordings(order, Playable(items))

Before(loop, i) == FoldFunctionOnSet(+, 0, [j \in DOMAIN loop |-> SlotLength(loop[j])], 1..(i - 1))
Total(loop) == Before(loop, Len(loop) + 1)
(* cycle: the loop rotated to what is on, and how far into it the clock is. *)
PlaceAt(loop, pos) == CHOOSE k \in DOMAIN loop : Before(loop, k) <= pos /\ pos < Before(loop, k + 1)
Rotated(loop, i, pos) ==
    [loop |-> SubSeq(loop, i, Len(loop)) \o SubSeq(loop, 1, i - 1), offset |-> pos - Before(loop, i)]
CycleOf(loop, pos) == Rotated(loop, PlaceAt(loop, pos), pos)
Clocked(loop, at) == CycleOf(loop, at % Total(loop))
Cycle(order, items, at) == Clocked(LoopOf(order, items), at)
On(v) == Playable(v.items) # <<>>
First(c) == [tape |-> c.loop[1], offset |-> c.offset]
Join(v, at) == First(Cycle(v.order, v.items, at))
(* Slots lays an ordered loop from a start: what is on at a time after it. *)
SlotAt(order, items, after) == First(Clocked(LoopOf(order, items), after))
ScheduleSortsAgain(v, c, after) == SlotAt(v.order, c.loop, after + c.offset)   \* mutant
ScheduleSlots(v, c, after) == SlotAt("", c.loop, after + c.offset)
ScheduleFrom(v, from, at) == ScheduleSlots(v, Cycle(v.order, v.items, from), at - from)
(* ExportResume: a finished file starts over past its end, a growing one    *)
(* starts behind what is written.  One unit is far above resumeMin.         *)
ExportResume(offset, written, growing) ==
    IF growing THEN (IF offset >= written THEN written - 1 ELSE offset)
    ELSE IF written > 0 /\ offset >= written THEN 0 ELSE offset

(* streamVirtual: the recording an app that joins is sent, and from where.  *)
Written(id) == IF tapes[id].len < 1 THEN 2 ELSE tapes[id].len     \* a growing file has some media
Sent(on) == [tape |-> on.tape, at |-> ExportResume(on.offset, Written(on.tape), tapes[on.tape].st = "recording")]
StreamVirtual(v, at) == Sent(Join(v, at))

-----------------------------------------------------------------------------
(* The owner's changes. *)

Edit == edited < MaxEmuEdits /\ edited' = edited + 1
OthersStay(vs) == UNCHANGED vs /\ UNCHANGED <<app, copies>>

Renumber == \E id \in EmuChans, n \in EmuNumbers : rows' = [rows EXCEPT ![id].n = n]
            /\ Edit /\ OthersStay(<<shares, virtuals, tapes, emulator>>)
Hide == \E id \in EmuChans : rows' = [rows EXCEPT ![id].shown = ~@]
        /\ Edit /\ OthersStay(<<shares, virtuals, tapes, emulator>>)
ShareMosaics == \E list \in ShareLists :
    /\ Len(MosaicList(list)) <= ShareMax /\ shares' = MosaicList(list)
    /\ Edit /\ OthersStay(<<rows, virtuals, tapes, emulator>>)
(* Virtuals are read in the order of their numbers. *)
CreateVirtual == \E n \in EmuNumbers, l \in VirtualLists :
    /\ Len(virtuals) < MaxVirtuals
    /\ virtuals' = LET v == [number |-> n, order |-> "custom", items |-> l]
                       at == Cardinality({i \in DOMAIN virtuals : virtuals[i].number <= n})
                   IN  SubSeq(virtuals, 1, at) \o <<v>> \o SubSeq(virtuals, at + 1, Len(virtuals))
    /\ Edit /\ OthersStay(<<rows, shares, tapes, emulator>>)
RuleItems(t) == SetToSortSeq({k \in DOMAIN Tapes : tapes[k].st \notin {"failed", "gone"} /\ Tapes[k].title = t},
                             LAMBDA a, b : a > b)
UpdateVirtual == \E i \in DOMAIN virtuals, o \in Orders :
    /\ \/ virtuals' = [virtuals EXCEPT ![i].order = o]
       \/ \E t \in {Tapes[k].title : k \in DOMAIN Tapes} :       \* a rule: every recording of a title
            virtuals' = [virtuals EXCEPT ![i].order = o, ![i].items = RuleItems(t)]
    /\ Edit /\ OthersStay(<<rows, shares, tapes, emulator>>)
TapeEnds == \E id \in DOMAIN tapes :
    /\ tapes[id].st = "recording"
    /\ \E st \in {"done", "failed"}, n \in Lengths : tapes' = [tapes EXCEPT ![id] = [st |-> st, len |-> n]]
    /\ Edit /\ OthersStay(<<rows, shares, virtuals, emulator>>)
DeleteTape == \E id \in DOMAIN tapes :
    /\ tapes[id].st # "gone"
    /\ tapes' = [tapes EXCEPT ![id].st = "gone"]
    /\ virtuals' = [i \in DOMAIN virtuals |-> [virtuals[i] EXCEPT !.items = SelectSeq(@, LAMBDA k : k # id)]]
    /\ Edit /\ OthersStay(<<rows, shares, emulator>>)

(* SyncEmulator: the server follows the setting; apps lose their streams. *)
SwitchEmulator == /\ emulator' = [emulator EXCEPT !.want = ~@]
                  /\ Edit /\ OthersStay(<<rows, shares, virtuals, tapes>>)
SyncEmulator == /\ emulator.runs # emulator.want
                /\ emulator' = [emulator EXCEPT !.runs = emulator.want]
                /\ UNCHANGED <<rows, shares, virtuals, tapes, app, copies, edited>>

-----------------------------------------------------------------------------
(* An app plays a row. *)

Does(a, next) == app' = [app EXCEPT ![a] = next] /\ UNCHANGED <<rows, shares, virtuals, tapes, emulator, edited>>
(* stream: an encrypted channel with no clear twin is refused; Export and   *)
(* ExportMosaic turn an app away before they tune when all copies are used. *)
Stream(a) == /\ app[a] = Idle /\ emulator.runs
             /\ \E i \in LineupRows(Listed) : LET hit == Lookup(Listed, UrlOf(Listed, i)) IN
                  /\ hit.kind \in {"channel", "mosaic"} /\ copies < ExportCap
                  /\ hit.kind = "channel" => ~rows[hit.is].locked
                  /\ Does(a, "tuning")
             /\ UNCHANGED copies
(* The tune, or the mosaic's first segment, came: the copies are counted    *)
(* again, as others started meanwhile.                                      *)
TunedUncounted(a) == app[a] = "tuning" /\ Does(a, "copy") /\ copies' = copies + 1  \* mutant
Tuned(a) == /\ app[a] = "tuning"
            /\ IF copies >= ExportCap THEN Does(a, Idle) /\ UNCHANGED copies
               ELSE Does(a, "copy") /\ copies' = copies + 1
TuneFails(a) == app[a] = "tuning" /\ Does(a, Idle) /\ UNCHANGED copies
AppLeaves(a) == app[a] = "copy" /\ Does(a, Idle) /\ copies' = IF copies > 0 THEN copies - 1 ELSE 0

EmuInit ==
    /\ \E n \in EmuNumbers : rows = [id \in EmuChans |-> [n |-> n, shown |-> TRUE, locked |-> id \in Locked]]
    /\ shares = <<>> /\ virtuals = <<>>
    /\ tapes = [id \in DOMAIN Tapes |-> [st |-> "recording", len |-> 0]]
    /\ emulator = [want |-> TRUE, runs |-> TRUE]
    /\ app = [a \in Apps |-> Idle] /\ copies = 0 /\ edited = 0
EmuNext ==
    \/ Renumber \/ Hide \/ ShareMosaics \/ CreateVirtual \/ UpdateVirtual \/ TapeEnds \/ DeleteTape
    \/ SwitchEmulator \/ SyncEmulator
    \/ \E a \in Apps : Stream(a) \/ Tuned(a) \/ TuneFails(a) \/ AppLeaves(a)

-----------------------------------------------------------------------------
(* Every row an app is given plays what it lists, whatever numbers the     *)
(* owner gave channels and virtual channels and wherever a mosaic's slot   *)
(* falls (lineupRows and lookup; exportLineup).                            *)
Plays(list) == \A i \in LineupRows(list) : Lookup(list, UrlOf(list, i)) = list[i].hit
ListedPlays == Plays(Listed) /\ \A i \in DOMAIN ExportLineup : Lookup(<<>>, ExportLineup[i].url) = ExportLineup[i].hit

(* What a virtual channel's guide says is on, laid from any earlier time   *)
(* of the day, is what an app that joins then is given, at the same place  *)
(* in the recording, and what is sent starts on media (ScheduleFrom, Join, *)
(* streamVirtual).                                                         *)
GuideIsAired ==
    \A i \in DOMAIN virtuals : On(virtuals[i]) =>
        \A at \in 0..DayLength :
            LET sent == StreamVirtual(virtuals[i], at) IN
            /\ sent.at \in 0..(Written(sent.tape) - 1)
            /\ \A from \in 0..at : ScheduleFrom(virtuals[i], from, at) = Join(virtuals[i], at)

(* The copies running are the ones counted and never more than the limit,  *)
(* though an app is let in before its tune and counted after it (Export,   *)
(* ExportMosaic).                                                          *)
CopiesFit == copies = Cardinality({a \in Apps : app[a] = "copy"}) /\ copies <= ExportCap
=============================================================================
