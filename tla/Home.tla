-------------------------------- MODULE Home --------------------------------
(***************************************************************************)
(* The house: the searches that ask the network for tuners, servers and    *)
(* screens (discovery/), the list made of what answered, of the tuners in  *)
(* the catalogue and of the apps connected now (Assemble), the watch that  *)
(* announces what appears later (Arrivals, httpapi/home_watch.go), and     *)
(* Look Harder.  A search hears whatever answers in time: any part of the  *)
(* house may be missed by one look and heard by the next, one device       *)
(* answers several searches under several ids, and addresses change.       *)
(***************************************************************************)
EXTENDS Integers, FiniteSets, Sequences, SequencesExt

CONSTANTS TunerGear, ServerGear, ScreenGear,   \* the devices in the house
          Addresses,       \* the addresses of the home network
          Strays,          \* devices whose SSDP answer names a host outside it
          CloudAddrs,      \* tuner of the cloud's list -> the address it gives
          GraceLooks,      \* looks within hereGrace of the baseline
          MaxLooks, MaxTurns          \* bounds: looks, and everything else that happens

Gear == TunerGear \cup ServerGear \cup ScreenGear

VARIABLES at,        \* device -> its address
          knownGear, \* tuner of the catalogue -> the address stored for it
          apps,      \* screens with an app connected to this server
          lookNow,   \* the look under way: the places it listed, not yet observed
          arrivals,  \* Arrivals: seen, seeded, and the looks since the baseline
          activity,  \* the lines of the activity list
          told,      \* lines the last look raised, each with what it is about
          heard,     \* ghost: <<device, address>> earlier looks of this run listed
          moved,     \* ghost: devices whose address changed
          offered,   \* what Look Harder answered last, until the next look
          looks, turns
homeVars == <<at, knownGear, apps, lookNow, arrivals, activity, told, heard, moved, offered,
              looks, turns>>

NoAddr == "none"
Outside == "outside"
Idle == [on |-> FALSE, places |-> {}]
NewArrivals == [seen |-> {}, seeded |-> FALSE, since |-> 0]

-----------------------------------------------------------------------------
(* Replies.  An id is a device and the form the search gives it: a USN     *)
(* holds the plain id, a host name does not.  A name is the device's own   *)
(* or only its kind's label.  "gear" is who really sent it.                *)
Reply(g, kind, form, name, addr) == [gear |-> g, kind |-> kind, id |-> <<g, form>>, name |-> name, addr |-> addr]
KindLabel == "label"

(* discoverTuners over hdhr.Discover: one answer per address, with the     *)
(* name the tuner gives if it is read in 400 ms.                           *)
DiscoverTuners(g) ==
    IF g \in TunerGear THEN {Reply(g, "hdhomerun", "plain", n, at[g]) : n \in {g, KindLabel}} ELSE {}
(* searchSSDPKinds: what classifySSDP keeps, at the host LOCATION names.   *)
ClassifySSDP(g) == CASE g \in TunerGear  -> "hdhomerun"
                     [] g \in ServerGear -> "plex"
                     [] OTHER            -> "androidtv"
SearchSSDPKinds(g) ==
    {Reply(g, ClassifySSDP(g), "usn", IF g \in ScreenGear THEN g ELSE KindLabel, IF g \in Strays THEN Outside ELSE at[g])}
(* Browse: a screen's DNS-SD service; its host name is the id.             *)
Browse(g) == IF g \in ScreenGear THEN {Reply(g, "airplay", "host", g, at[g])} ELSE {}
(* searchPlex and searchMedia: a server says its own name.                 *)
SearchPlex(g) == IF g \in ServerGear THEN {Reply(g, "plex", "plain", g, at[g])} ELSE {}

(* ScanHome: each search adds what it heard when it ends, so tuners may be *)
(* listed by broadcast first or by SSDP first.                             *)
Some(answers) == {S \in SUBSET answers : \A r, q \in S : r.gear = q.gear => r = q}
ScanHome == {IF ssdpFirst THEN SetToSeq(ssdp) \o SetToSeq(tuners) \o SetToSeq(rest)
                          ELSE SetToSeq(tuners) \o SetToSeq(ssdp) \o SetToSeq(rest)
               : tuners \in Some(UNION {DiscoverTuners(g) : g \in TunerGear}),
                 ssdp \in Some(UNION {SearchSSDPKinds(g) : g \in Gear}),
                 rest \in Some(UNION {Browse(g) \cup SearchPlex(g) : g \in Gear}),
                 ssdpFirst \in BOOLEAN}

-----------------------------------------------------------------------------
(* Places.                                                                 *)
Place(g, id, group, kind, name, addr, action) ==
    [gear |-> g, id |-> id, group |-> group, kind |-> kind, name |-> name, addr |-> addr, action |-> action]
GroupOf(kind) == CASE kind = "hdhomerun" -> "tuner" [] kind = "plex" -> "server" [] OTHER -> "screen"
ScreenRank(kind) == IF kind = "androidtv" THEN 3 ELSE 2
OnLAN(addr) == addr \in Addresses
AddrKey(p) == <<"addr", p.kind, p.addr>>

(* sameTuner: one id holds the other, or the addresses are the same.       *)
SameTuner(item, k) == item.id[1] = k \/ item.addr = knownGear[k]
(* tunerPlace: under the catalogue's id when it is there.  The catalogue   *)
(* is read in id order: the first match counts.                            *)
TunerPlace(item) ==
    LET same == SelectSeq(SetToSeq(DOMAIN knownGear), LAMBDA k : SameTuner(item, k))
    IN IF same # <<>>
       THEN Place(item.gear, <<"tuner", same[1], "plain">>, "tuner", "hdhomerun", same[1], item.addr, "added")
       ELSE Place(item.gear, <<"tuner", item.id[1], item.id[2]>>, "tuner", item.kind, item.name, item.addr, "add")
(* A server of a distinctive name is one device wherever it answers.       *)
ServerPlace(item) ==
    Place(item.gear, IF item.name = KindLabel THEN <<item.kind, item.addr>> ELSE <<item.kind, item.name>>,
          "server", item.kind, item.name, item.addr, "use")
ScreenPlace(item) ==
    Place(item.gear, <<"screen", item.kind, item.addr>>, "screen", item.kind, item.name, item.addr, "found")

(* Tuners are listed once by id and once by address, whichever came first. *)
AddTuner(acc, p) ==
    IF p.id \in acc.seen \/ AddrKey(p) \in acc.seen THEN acc
    ELSE [seen |-> acc.seen \cup {p.id, AddrKey(p)}, places |-> acc.places \cup {p}]
TunersIn(items) ==
    FoldLeft(AddTuner, [seen |-> {}, places |-> {}],
             [i \in 1 .. Len(SelectSeq(items, LAMBDA f : GroupOf(f.kind) = "tuner")) |->
                  TunerPlace(SelectSeq(items, LAMBDA f : GroupOf(f.kind) = "tuner")[i])])
(* One screen per address, the set-top box before the speaker.             *)
BestScreens(items) ==
    {f \in Range(items) : /\ GroupOf(f.kind) = "screen"
                          /\ \A e \in Range(items) : GroupOf(e.kind) = "screen" /\ e.addr = f.addr
                                                        => ScreenRank(e.kind) <= ScreenRank(f.kind)}
Assemble(found) ==
    LET items   == SelectSeq(found, LAMBDA f : OnLAN(f.addr))
        tuners  == TunersIn(items)
        servers == {ServerPlace(f) : f \in {e \in Range(items) : GroupOf(e.kind) = "server"}}
        screens == {ScreenPlace(f) : f \in BestScreens(items)}
        saved   == {Place(k, <<"tuner", k, "plain">>, "tuner", "hdhomerun", k, knownGear[k], "added") : k \in DOMAIN knownGear}
        here    == {Place(s, <<"here", "appletv", s>>, "screen", "appletv", s, NoAddr, "here") : s \in apps}
    IN tuners.places \cup servers \cup screens \cup here
         \cup {p \in saved : p.id \notin tuners.seen /\ AddrKey(p) \notin tuners.seen}

-----------------------------------------------------------------------------
(* Arrivals.                                                               *)
HasNetwork(places) == \E p \in places : p.action \in {"add", "use", "found"}
Keys(p) == {p.id} \cup (IF p.group = "tuner" THEN {AddrKey(p)} ELSE {})
\* Mutant: only the id of a place is remembered, the addresses of tuners are not.
RememberIds(seen, places) == seen \cup {p.id : p \in places}
Remember(seen, places) == seen \cup UNION {Keys(p) : p \in places}
KnownPlace(p) == Keys(p) \cap arrivals.seen # {}
(* notice: a saved tuner is no news.                                       *)
Notice(p) == p.action \in {"add", "use", "found", "here"}
(* A device the first looks missed stays quiet; a tuner does not wait.     *)
Quiet(p) == p.action # "add" /\ arrivals.since < GraceLooks
Line(p) == <<p.kind, p.name>>


(* What a look makes of the places: remembered before the grace is asked.  *)
Observed(places) ==
    LET fresh == {p \in places : ~KnownPlace(p)}
    IN IF arrivals.seeded
       THEN [seen |-> Remember(arrivals.seen, fresh), seeded |-> TRUE,
             since |-> IF arrivals.since < GraceLooks THEN arrivals.since + 1 ELSE GraceLooks]
       ELSE IF HasNetwork(places) THEN [seen |-> Remember({}, places), seeded |-> TRUE, since |-> 0]
       ELSE arrivals
Notes(places) == {p \in places : arrivals.seeded /\ ~KnownPlace(p) /\ ~Quiet(p) /\ Notice(p)}

-----------------------------------------------------------------------------
(* noteArrivals: a fresh scan, then the catalogue and the connected apps   *)
(* as they are when it ends, then the arrivals, and one line each unless   *)
(* the activity has it.                                                    *)
HomePlaces ==
    /\ ~lookNow.on /\ looks < MaxLooks
    /\ \E found \in ScanHome : lookNow' = [on |-> TRUE, places |-> Assemble(found)]
    /\ looks' = looks + 1 /\ offered' = {}
    /\ UNCHANGED <<at, knownGear, apps, arrivals, activity, told, heard, moved, turns>>
(* Where a device was: the place, and for a tuner whichever way it came.   *)
Whereabouts(p) == {<<p.gear, k>> : k \in Keys(p)}
NoteArrivals ==
    /\ lookNow.on
    /\ LET new == {p \in Notes(lookNow.places) : Line(p) \notin activity}
       IN /\ told' = {[place |-> p, again |-> Whereabouts(p) \cap heard # {}] : p \in new}
          /\ activity' = activity \cup {Line(p) : p \in new}
    /\ arrivals' = Observed(lookNow.places)
    /\ heard' = IF arrivals'.seeded THEN heard \cup UNION {Whereabouts(p) : p \in lookNow.places} ELSE heard
    /\ lookNow' = Idle
    /\ UNCHANGED <<at, knownGear, apps, moved, offered, looks, turns>>
(* AddEvent keeps 200 lines: an old one goes.                              *)
OldLineGoes ==
    /\ turns < MaxTurns /\ turns' = turns + 1
    /\ \E l \in activity : activity' = activity \ {l}
    /\ UNCHANGED <<at, knownGear, apps, lookNow, arrivals, told, heard, moved, offered, looks>>
(* The server starts again: the house is forgotten.                        *)
Restart ==
    /\ turns < MaxTurns /\ turns' = turns + 1
    /\ arrivals' = NewArrivals /\ lookNow' = Idle /\ told' = {} /\ heard' = {} /\ apps' = {}
    /\ UNCHANGED <<at, knownGear, activity, moved, offered, looks>>

-----------------------------------------------------------------------------
(* Look Harder: every address of the network is asked on the known ports,  *)
(* the first that answers as its kind counts; then DNS-SD; and only if     *)
(* nothing answered, the cloud's list, of which a tuner is kept when the   *)
(* address it gives answers with its id.                                   *)
MatchProbe(g, a) == at[g] = a
ProbeHost(a) == {[gear |-> g, addr |-> a] : g \in {h \in TunerGear \cup ServerGear : MatchProbe(h, a)}}
DiscoverHost(a) == {g \in TunerGear : at[g] = a}
KeepLocalCloud == {[gear |-> g, addr |-> CloudAddrs[g]] : g \in {h \in DOMAIN CloudAddrs : h \in DiscoverHost(CloudAddrs[h])}}
LookHarder ==
    /\ turns < MaxTurns /\ turns' = turns + 1
    /\ \E hosts \in SUBSET Addresses :
         LET found == UNION {ProbeHost(a) : a \in hosts}
         IN offered' = (IF found # {} THEN found ELSE KeepLocalCloud)
    /\ UNCHANGED <<at, knownGear, apps, lookNow, arrivals, activity, told, heard, moved, looks>>

(* The owner adds a tuner the house lists, or removes one; apps come and   *)
(* go; the router gives a device another address.                          *)
AddOne(g) ==
    /\ g \notin DOMAIN knownGear /\ turns < MaxTurns /\ turns' = turns + 1
    /\ knownGear' = [k \in DOMAIN knownGear \cup {g} |-> IF k = g THEN at[g] ELSE knownGear[k]]
    /\ UNCHANGED <<at, apps, lookNow, arrivals, activity, told, heard, moved, offered, looks>>
RemoveOne(g) ==
    /\ g \in DOMAIN knownGear /\ turns < MaxTurns /\ turns' = turns + 1
    /\ knownGear' = [k \in DOMAIN knownGear \ {g} |-> knownGear[k]]
    /\ UNCHANGED <<at, apps, lookNow, arrivals, activity, told, heard, moved, offered, looks>>
AppComes(s) ==
    /\ s \notin apps /\ apps' = apps \cup {s} /\ turns < MaxTurns /\ turns' = turns + 1
    /\ UNCHANGED <<at, knownGear, lookNow, arrivals, activity, told, heard, moved, offered, looks>>
Moves(g) ==
    /\ turns < MaxTurns /\ turns' = turns + 1 /\ moved' = moved \cup {g}
    /\ \E a \in Addresses \ {at[h] : h \in Gear} : at' = [at EXCEPT ![g] = a]
    /\ UNCHANGED <<knownGear, apps, lookNow, arrivals, activity, told, heard, offered, looks>>

HomeInit ==
    /\ at \in [Gear -> Addresses] /\ \A g, h \in Gear : g # h => at[g] # at[h]
    /\ at = CHOOSE f \in [Gear -> Addresses] : \A g, h \in Gear : g # h => f[g] # f[h]
    /\ knownGear \in {[g \in {} |-> NoAddr]} \cup {[k \in {g} |-> at[g]] : g \in TunerGear}
    /\ apps = {} /\ lookNow = Idle /\ arrivals = NewArrivals /\ activity = {} /\ told = {}
    /\ heard = {} /\ moved = {} /\ offered = {} /\ looks = 0 /\ turns = 0
HomeNext ==
    \/ HomePlaces \/ NoteArrivals \/ OldLineGoes \/ Restart \/ LookHarder
    \/ \E g \in TunerGear : AddOne(g) \/ RemoveOne(g)
    \/ \E s \in ScreenGear : AppComes(s)
    \/ \E g \in Gear : Moves(g)

-----------------------------------------------------------------------------
(* The house is not news: what a look of this run listed is not announced  *)
(* by a later one, a tuner whichever search it answers this time, while it *)
(* has kept its address (Arrivals.Observe: "A device is reported once").  *)
HouseIsQuiet == \A n \in told : n.again => n.place.gear \in moved

(* Look Harder offers a device only at the address it has (look,           *)
(* KeepLocalCloud: the cloud's list names strangers and old addresses).    *)
OffersWhatAnswers == offered' # offered => \A f \in offered' : f.gear \in Gear /\ at[f.gear] = f.addr
=============================================================================
