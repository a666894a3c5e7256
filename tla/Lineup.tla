------------------------------- MODULE Lineup -------------------------------
(***************************************************************************)
(* The channels table: a device's lineup is laid over the rows it had      *)
(* (upsertDevice), the viewer patches rows, devices are removed and come   *)
(* back, ATSC 1.0/3.0 pairs and copies of one channel on two tuners are    *)
(* recognised (twins.go, duplicates.go), and from them follows which row   *)
(* of a broadcast a series pass records (RecordingAirings).                *)
(*   A guide number is major.minor and, on rows that left the lineup and   *)
(* lost their number, the marks "(2)", "(3)" it got.  A name stands for    *)
(* its call sign; NoCall is a name that is none.                           *)
(***************************************************************************)
EXTENDS Naturals, FiniteSets, FiniteSetsExt, Sequences, SequencesExt

CONSTANTS Devices,   \* tuners, compared by < for their priority and id
          Lineups,   \* device -> the lineups it may answer with
          MaxId,     \* ids the channels table may reach
          MaxEdits   \* refreshes, removals, patches and choices

None == 0
NoCall == "no call sign"
TwinChoices == {"atsc3", "atsc1", "both"}

VARIABLES known,     \* rows of the devices table
          channels,  \* rows of the channels table, by id
          lineup,    \* what each known device answered last
          pairing,   \* pairs about to be settled, each with the rows that were read
          listed,    \* listings: the row, and whose broadcast it is
          edits
lineupVars == <<known, channels, lineup, pairing, listed, edits>>

Ids == DOMAIN channels
Of(dev) == {id \in Ids : channels[id].device = dev}
Num(major, minor) == [major |-> major, minor |-> minor, marks |-> <<>>]
First(S) == IF S = {} THEN None ELSE Min(S)
-----------------------------------------------------------------------------
(* claimChannel: the stream, then the guide key, then the number, of a row *)
(* no other entry of this refresh has.                                     *)
ClaimChannel(dev, ch, claimed) ==
    LET free == Of(dev) \ claimed
        byURL == {id \in free : channels[id].url = ch.url}
        byKey == {id \in free : ch.key # None /\ channels[id].key = ch.key}
        byNumber == {id \in free : channels[id].number = ch.number}
    IN  IF byURL # {} THEN Min(byURL) ELSE IF byKey # {} THEN Min(byKey) ELSE First(byNumber)

(* The slots of a lineup.  A number listed twice goes to the later entry,  *)
(* which takes the earlier one's row when it has none of its own.          *)
SlotsOf(dev, entries) ==
    LET add(acc, ch) ==
            LET own == ClaimChannel(dev, ch, acc.claimed)
                prev == {i \in DOMAIN acc.slots : ~acc.slots[i].drop /\ acc.slots[i].ch.number = ch.number}
                old == IF prev = {} THEN None ELSE acc.slots[Min(prev)].id
                id == IF own = None THEN old ELSE own
                released == IF own # None /\ old # own THEN {old} ELSE {}
            IN  [claimed |-> (acc.claimed \ released) \cup ({id} \ {None}),
                 slots |-> Append([i \in DOMAIN acc.slots |-> [acc.slots[i] EXCEPT !.drop = @ \/ i \in prev]],
                                  [id |-> id, ch |-> ch, drop |-> FALSE])]
    IN  FoldLeft(add, [claimed |-> {}, slots |-> <<>>], entries)


NewChannel(dev, ch) ==
    [device |-> dev, number |-> ch.number, name |-> ch.name, url |-> ch.url, key |-> ch.key, three |-> ch.three,
     protected |-> ch.protected, hidden |-> ch.protected, present |-> TRUE, favorite |-> FALSE, choice |-> "none"]
(* writeChannel: what the viewer set stays; a blank guide key changes none. *)
WriteChannel(row, ch) ==
    [row EXCEPT !.number = ch.number, !.name = ch.name, !.url = ch.url, !.key = IF ch.key = None THEN @ ELSE ch.key,
                !.three = ch.three, !.protected = ch.protected, !.hidden = @ \/ ch.protected, !.present = TRUE]

(* Rows that left keep their number, or the first marked one not in use.   *)
Marked(number, used) ==
    IF number \notin used THEN number
    ELSE LET with(n) == [number EXCEPT !.marks = Append(@, n)]
         IN  with(Min({n \in 2 .. 2 + Cardinality(used) : with(n) \notin used}))

(* The rows of a device after upsertDevice, leftovers renumbered in `order'. *)
Upserted(dev, entries, order) ==
    LET s == SlotsOf(dev, entries)
        kept == SelectSeq(s.slots, LAMBDA sl : ~sl.drop)
        fresh(i) == {j \in 1 .. i : kept[j].id = None}
        idOf(i) == IF kept[i].id = None THEN Max(Ids \cup {0}) + Cardinality(fresh(i)) ELSE kept[i].id
        written == [id \in {idOf(i) : i \in DOMAIN kept} |->
                       LET i == CHOOSE j \in DOMAIN kept : idOf(j) = id
                       IN  IF kept[i].id = None THEN NewChannel(dev, kept[i].ch) ELSE WriteChannel(channels[id], kept[i].ch)]
        renumber(acc, id) ==
            LET n == Marked(channels[id].number, acc.used)
            IN  [used |-> acc.used \cup {n}, rows |-> acc.rows @@ (id :> [channels[id] EXCEPT !.present = FALSE, !.number = n])]
        left == FoldLeft(renumber, [used |-> {kept[i].ch.number : i \in DOMAIN kept}, rows |-> <<>>], order)
    IN  written @@ left.rows @@ channels
Leftover(dev, entries) ==
    LET s == SlotsOf(dev, entries).slots
        live == {s[i].id : i \in {j \in DOMAIN s : ~s[j].drop}}
    IN  Of(dev) \ live
-----------------------------------------------------------------------------
(* Twins: the clear 3.0 rows with the 1.0 main channels of their station,  *)
(* by call sign, then guide key, then the number a hundred above.          *)
LowestMinor(chs, cands) ==
    {c \in cands : ~chs[c].protected /\ \A d \in cands : chs[c].number.minor <= chs[d].number.minor}
TwinMains(chs, c3) ==
    LET ones == {c \in DOMAIN chs : ~chs[c].three}
        byCall == {c \in ones : chs[c3].name # NoCall /\ chs[c].name = chs[c3].name}
        byKey == {c \in ones : chs[c3].key # None /\ chs[c].key = chs[c3].key}
        below == {c \in ones : chs[c].number.major + 100 = chs[c3].number.major}
        exact == {c \in below : chs[c].number.minor = chs[c3].number.minor /\ ~chs[c].protected}
    IN  IF LowestMinor(chs, byCall) # {} THEN LowestMinor(chs, byCall)
        ELSE IF LowestMinor(chs, byKey) # {} THEN LowestMinor(chs, byKey)
        ELSE exact
Pairs(chs, encrypted) == {c \in DOMAIN chs : chs[c].three /\ chs[c].protected = encrypted /\ TwinMains(chs, c) # {}}
(* The 1.0 copy listed first: the same device's, then a present one's. *)
MainOf(chs, c3) ==
    LET ones == TwinMains(chs, c3)
        mine == {c \in ones : chs[c].device = chs[c3].device}
        near == IF mine = {} THEN ones ELSE mine
        here == {c \in near : chs[c].present}
    IN  Min(IF here = {} THEN near ELSE here)
PairOf(chs, id) == {c3 \in Pairs(chs, FALSE) : id = c3 \/ id \in TwinMains(chs, c3)}

(* sameKey: one channel on two tuners. *)
SameRows(chs, id) ==
    IF chs[id].protected \/ ~chs[id].present THEN {id}
    ELSE {c \in DOMAIN chs : /\ ~chs[c].protected /\ chs[c].present
                             /\ chs[c].number = chs[id].number /\ chs[c].name = chs[id].name}
(* markSameAs: the row of the group the guide shows. *)
ShownAs(id) ==
    LET group == SameRows(channels, id)
        open == {c \in group : ~channels[c].hidden}
        best == IF open = {} THEN group ELSE open
        first == {c \in best : \A d \in best : channels[c].device <= channels[d].device}
        heard == {c \in first : \E l \in listed : l.row = c}
    IN  IF Cardinality({channels[c].device : c \in group}) < 2 THEN id
        ELSE Min(IF heard = {} THEN first ELSE heard)
-----------------------------------------------------------------------------
(* RecordingAirings: which listing of the broadcast each row gives way to. *)
(* `order' is how the map of twins happens to be walked: a 1.0 row two 3.0 *)
(* rows share goes to the later.                                           *)
GroupOf(order, id) ==
    LET twins == {i \in DOMAIN order : id = order[i] \/ id \in TwinMains(channels, order[i])}
        own == {i \in twins : order[i] = id}
    IN  IF own # {} THEN id ELSE IF twins # {} THEN order[Max(twins)] ELSE None
StandIns == Pairs(channels, TRUE)
Broadcast(order, id) ==
    IF id \in StandIns
    THEN LET one == MainOf(channels, id) IN IF GroupOf(order, one) # None THEN GroupOf(order, one) ELSE one
    ELSE IF GroupOf(order, id) # None THEN GroupOf(order, id)
    ELSE IF \E c3 \in StandIns : MainOf(channels, c3) = id THEN id ELSE None
(* mutant: a 3.0 row that is not shown is never ranked below its twin. *)
BetterAny(a, b) == IF channels[a].three # channels[b].three THEN TRUE ELSE a < b
Better(a, b) ==
    IF channels[a].hidden # channels[b].hidden THEN ~channels[a].hidden
    ELSE IF channels[a].three # channels[b].three THEN channels[b].three
    ELSE a < b
Copies == {l \in listed : ShownAs(l.row) # l.row /\ [l EXCEPT !.row = ShownAs(l.row)] \in listed}
Recorded(order) ==
    LET g(l) == Broadcast(order, l.row)
        rivals(l) == {d \in listed \ Copies : d # l /\ d.show = l.show /\ g(d) = g(l)}
    IN  {l \in listed \ Copies : g(l) = None \/ \A d \in rivals(l) : Better(l.row, d.row)}
-----------------------------------------------------------------------------
Init ==
    /\ known = {} /\ channels = <<>> /\ lineup = [d \in Devices |-> <<>>]
    /\ pairing = {} /\ listed = {} /\ edits = 0

(* UpsertDevice, and RefreshDevice of a device the catalogue still has.    *)
(* ApplyTwinDefaults follows outside the transaction.                      *)
Edit == edits < MaxEdits /\ edits' = edits + 1
UpsertDevice(dev) ==
    /\ Edit
    /\ \E entries \in Lineups[dev] : \E order \in SetToSeqs(Leftover(dev, entries)) :
          /\ channels' = Upserted(dev, entries, order)
          /\ Max(DOMAIN channels' \cup {0}) <= MaxId
          /\ lineup' = [lineup EXCEPT ![dev] = entries]
          /\ pairing' = pairing \cup {[chs |-> channels', c3 |-> c, choices |-> {"atsc3", "atsc1"}] :
                                          c \in {x \in Pairs(channels', FALSE) : channels'[x].choice = "none"}}
    /\ known' = known \cup {dev}
    /\ UNCHANGED listed
(* applyTwinChoice writes hidden and favorite from the rows it read. *)
Applied(chs, c3, choice) ==
    LET ones == TwinMains(chs, c3)
        fav == \E id \in ones \cup {c3} : chs[id].favorite
        set(id, hidden) == [channels[id] EXCEPT !.hidden = hidden,
                                                !.favorite = IF ~hidden /\ choice # "both" THEN fav ELSE chs[id].favorite,
                                                !.choice = IF id = c3 THEN choice ELSE @]
    IN  [id \in Ids |-> IF id = c3 THEN set(id, choice = "atsc1")
                        ELSE IF id \in ones THEN set(id, choice = "atsc3") ELSE channels[id]]
(* By default the 3.0 channel shows unless its twin is measured taller. *)
ApplyTwinChoice ==
    \E job \in pairing : \E choice \in job.choices :
        /\ channels' = Applied(job.chs, job.c3, choice)
        /\ pairing' = pairing \ {job}
        /\ UNCHANGED <<known, lineup, listed, edits>>

(* A favorite set on a hidden half shows on the half that stays. *)
PassFavoriteToShown(chs, id) ==
    LET pair == UNION {TwinMains(chs, c3) \cup {c3} : c3 \in PairOf(chs, id)}
    IN  [c \in DOMAIN chs |-> IF chs[id].hidden /\ c \in pair /\ ~chs[c].hidden THEN [chs[c] EXCEPT !.favorite = TRUE] ELSE chs[c]]

(* PatchChannel: every tuner's row of the channel. *)
PatchChannel(id) ==
    /\ Edit
    /\ LET rows == SameRows(channels, id) IN
       \E on \in BOOLEAN :
          \/ channels' = [c \in Ids |-> IF c \in rows THEN [channels[c] EXCEPT !.hidden = on] ELSE channels[c]]
          \/ LET set == [c \in Ids |-> IF c \in rows THEN [channels[c] EXCEPT !.favorite = on] ELSE channels[c]]
             IN  channels' = IF on THEN PassFavoriteToShown(set, id) ELSE set
    /\ UNCHANGED <<known, lineup, pairing, listed>>
SetTwinChoice(id) ==
    /\ Edit
    /\ \E c \in PairOf(channels, id), choice \in TwinChoices :
          pairing' = pairing \cup {[chs |-> channels, c3 |-> c, choices |-> {choice}]}
    /\ UNCHANGED <<known, channels, lineup, listed>>

(* RemoveDevice: the favorite goes to the first other row of the number;   *)
(* rows, listings and passes go with the device, ids are given again.      *)
RemoveDevice(dev) ==
    /\ Edit /\ dev \in known /\ known' = known \ {dev}
    /\ LET heir(id) == {c \in Ids \ Of(dev) : channels[c].number = channels[id].number /\ channels[c].present /\ ~channels[c].protected}
           next(id) == LET h == {c \in heir(id) : \A d \in heir(id) : channels[c].device <= channels[d].device}
                       IN  IF h = {} THEN None ELSE Min(h)
           heirs == {next(id) : id \in {x \in Of(dev) : channels[x].favorite}} \ {None}
           rest == [c \in Ids \ Of(dev) |-> IF c \in heirs THEN [channels[c] EXCEPT !.favorite = TRUE] ELSE channels[c]]
       IN  channels' = FoldLeft(PassFavoriteToShown, rest, SetToSeq(heirs))
    /\ listed' = {l \in listed : l.row \notin Of(dev)} /\ lineup' = [lineup EXCEPT ![dev] = <<>>]
    /\ UNCHANGED pairing

(* The guide fills in what a row shows. *)
Listed(id) ==
    /\ channels[id].present /\ \A l \in listed : l.row # id
    /\ listed' = listed \cup {[row |-> id, show |-> channels[id].name]}
    /\ UNCHANGED <<known, channels, lineup, pairing, edits>>

Next ==
    \/ \E dev \in Devices : UpsertDevice(dev) \/ RemoveDevice(dev)
    \/ ApplyTwinChoice
    \/ \E id \in Ids : PatchChannel(id) \/ SetTwinChoice(id) \/ Listed(id)
Spec == Init /\ [][Next]_lineupVars
-----------------------------------------------------------------------------
(* upsertDevice: after every refresh one present row stands for each       *)
(* number of the lineup, with the last entry of that number, and no two    *)
(* rows of a device share a number, whatever entries moved, swapped,       *)
(* doubled or left over however many refreshes.                            *)
RowsAreTheLineup ==
    \A dev \in known :
        /\ \A a, b \in Of(dev) : channels[a].number = channels[b].number => a = b
        /\ LET l == lineup[dev]
               last == {i \in DOMAIN l : \A j \in i + 1 .. Len(l) : l[j].number # l[i].number}
               here == {id \in Of(dev) : channels[id].present}
           IN  /\ {channels[id].number : id \in here} = {l[i].number : i \in last}
               /\ \A id \in here : \E i \in last : channels[id].number = l[i].number /\ channels[id].url = l[i].url

(* RecordingAirings: a broadcast some row lists is recorded, and on one    *)
(* row only once all its rows are in their lineups under the station's     *)
(* number and list it, one tuner has the 3.0 channel, and the 1.0 channel  *)
(* that stands in for an encrypted one is the copy the guide shows;        *)
(* whatever is hidden, chosen or carried twice.                            *)
RecordedOnce ==
    \A order \in SetToSeqs(Pairs(channels, FALSE)) : \A show \in {l.show : l \in listed} :
        LET copies == {l \in Recorded(order) : l.show = show}
            rows == {c \in Ids : channels[c].name = show}
            told == {l.row : l \in {x \in listed : x.show = show}}
        IN  /\ copies # {}
            /\ (/\ \A c \in rows \cap StandIns : ShownAs(MainOf(channels, c)) = MainOf(channels, c)
                /\ rows = told /\ Cardinality({c \in rows : channels[c].three}) <= 1
                /\ \A c, d \in rows : channels[c].present /\ channels[c].number.major % 100 = channels[d].number.major % 100)
               => Cardinality(copies) = 1
=============================================================================
