------------------------------ MODULE Sources -------------------------------
(* The list of tuners and playlists: the unattended pass that looks for       *)
(* tuners (source/sync.go), playlists added and reloaded (httpapi/sources.go, *)
(* source/m3u.go, store), and the owner who adds, removes and retires.        *)
(*                                                                           *)
(* What a row of the lineup becomes in a refresh is Lineup's.                 *)
EXTENDS Integers, FiniteSets, FiniteSetsExt

CONSTANTS
    Tuners, Bare,    \* boxes, by the order they answer in; those with no tuner
    Urls,            \* playlists
    Adds,            \* requests that add one
    MaxId,           \* rows of sources
    MaxRemoves, MaxOwns, MaxFaults, MaxHours, MaxPasses   \* bounds

VARIABLES
    kept,     \* devices: boxes with a row
    retired,
    sources,  \* the table: by id, whether it is there, its playlist, its health, whether its reload is due
    present,  \* by id, the playlist whose channels are in the catalogue, "none" with no devices row
    add,      \* installPlaylist: next section, playlist, id
    reload,   \* RefreshSources: next section, the list read, what is left of it, the playlist in hand
    pass,     \* Maintain: next section, boxes asked and still to ask, devices read, boxes added
    news,     \* by id, "is offline" said and not yet "is back"
    taken,    \* ids given out again while a load of the one before was under way
    spent

sourcesVars == <<kept, retired, sources, present, add, reload, pass, news, taken, spent>>

Ids == 1..MaxId
None == "none"
Empty == [on |-> FALSE, url |-> None, ill |-> FALSE, due |-> FALSE]
NoLoad == [pc |-> "idle", list |-> {}, id |-> 0, url |-> None, ill |-> FALSE]
NoPass == [pc |-> "idle", left |-> {}, known |-> {}, box |-> 0, added |-> {}]

SourcesInit ==
    /\ kept \in {{}, {Min(Tuners)}} /\ retired = {}
    /\ sources = [i \in Ids |-> Empty] /\ present = [i \in Ids |-> None]
    /\ add = [r \in Adds |-> [pc |-> "new", url |-> None, id |-> 0]]
    /\ reload = NoLoad /\ pass = NoPass
    /\ news = [i \in Ids |-> FALSE] /\ taken = {}
    /\ spent = [removes |-> 0, owns |-> 0, faults |-> 0, hours |-> 0, passes |-> 0]

Fault == spent.faults < MaxFaults /\ spent' = [spent EXCEPT !.faults = @ + 1]

-----------------------------------------------------------------------------
(* Playlists.                                                                *)

\* upsertDevice, without adopt: only a device or a source that has its row.
RefreshKnown(i) == sources[i].on \/ present[i] # None
AnyId(i) == TRUE
Known(i) == RefreshKnown(i)
Installed(i, u) == IF Known(i) THEN [present EXCEPT ![i] = u] ELSE present

\* addSource, addPlaylistFile: the playlist is read before anything is written.
ReadPlaylist(r) ==
    /\ add[r].pc = "new"
    /\ \E u \in Urls : add' = [add EXCEPT ![r] = [pc |-> "add", url |-> u, id |-> 0]]
    /\ UNCHANGED <<kept, retired, sources, present, reload, pass, news, taken, spent>>
\* AddSource: one more than the largest id there is, which one removed may have had.
Loading(i) == \/ reload.id = i /\ reload.pc \in {"fetched", "down"}
              \/ reload.pc # "idle" /\ \E item \in reload.list : item.id = i
              \/ \E r \in Adds : add[r].id = i /\ add[r].pc \in {"install", "remember"}
NextId == IF \E i \in Ids : sources[i].on THEN Max({i \in Ids : sources[i].on}) + 1 ELSE 1
AddSource(r) ==
    /\ add[r].pc = "add" /\ NextId \in Ids
    /\ sources' = [sources EXCEPT ![NextId] = [Empty EXCEPT !.on = TRUE, !.url = add[r].url, !.due = TRUE]]
    /\ add' = [add EXCEPT ![r].pc = "install", ![r].id = NextId]
    /\ taken' = IF Loading(NextId) THEN taken \cup {NextId} ELSE taken
    /\ news' = [news EXCEPT ![NextId] = FALSE]
    /\ UNCHANGED <<kept, retired, present, reload, pass, spent>>
\* Install, attachXMLTV, RememberPlaylist.  One that has no channels ends there, and its row stays.
InstallAdded(r) ==
    /\ add[r].pc = "install"
    /\ \/ /\ present' = Installed(add[r].id, add[r].url)
          /\ add' = [add EXCEPT ![r].pc = "remember"] /\ UNCHANGED spent
       \/ Fault /\ add' = [add EXCEPT ![r].pc = "done"] /\ UNCHANGED present
    /\ UNCHANGED <<kept, retired, sources, reload, pass, news, taken>>
RememberPlaylist(r) ==
    /\ add[r].pc = "remember"
    /\ sources' = [sources EXCEPT ![add[r].id].due = FALSE]
    /\ add' = [add EXCEPT ![r] = [pc |-> "done", url |-> None, id |-> 0]]
    /\ UNCHANGED <<kept, retired, present, reload, pass, news, taken, spent>>

\* The clock of refresh.
HourPasses ==
    /\ spent.hours < MaxHours
    /\ sources' = [i \in Ids |-> [sources[i] EXCEPT !.due = sources[i].on]]
    /\ spent' = [spent EXCEPT !.hours = @ + 1]
    /\ UNCHANGED <<kept, retired, present, add, reload, pass, news, taken>>

\* RefreshSources: the list is read once, in the order of the ids.
BeginReload ==
    /\ reload.pc = "idle" /\ \E i \in Ids : sources[i].on /\ sources[i].due
    /\ reload' = [NoLoad EXCEPT !.pc = "next",
                     !.list = {[id |-> i, url |-> sources[i].url, ill |-> sources[i].ill] :
                                   i \in {j \in Ids : sources[j].on /\ sources[j].due}}]
    /\ UNCHANGED <<kept, retired, sources, present, add, pass, news, taken, spent>>
\* The playlist is fetched: what it was when the list was read.
FetchNext ==
    /\ reload.pc = "next" /\ reload.list # {}
    /\ LET item == CHOOSE x \in reload.list : \A y \in reload.list : x.id <= y.id
           hand(pc) == [pc |-> pc, list |-> reload.list \ {item}, id |-> item.id, url |-> item.url, ill |-> item.ill]
       IN  \/ reload' = hand("fetched") /\ UNCHANGED spent
           \/ Fault /\ reload' = hand("down")
    /\ UNCHANGED <<kept, retired, sources, present, add, pass, news, taken>>
EndReload ==
    /\ reload.pc = "next" /\ reload.list = {} /\ reload' = NoLoad
    /\ UNCHANGED <<kept, retired, sources, present, add, pass, news, taken, spent>>
\* NoteRefresh changes the row that has the id, if one does.
Noted(i, ill) == IF sources[i].on THEN [sources EXCEPT ![i].ill = ill, ![i].due = FALSE] ELSE sources
InstallReloaded ==
    /\ reload.pc = "fetched"
    /\ present' = Installed(reload.id, reload.url)
    /\ reload' = [reload EXCEPT !.pc = "up"]
    /\ UNCHANGED <<kept, retired, sources, add, pass, news, taken, spent>>
NoteUp ==
    /\ reload.pc = "up"
    /\ news' = IF reload.ill THEN [news EXCEPT ![reload.id] = FALSE] ELSE news
    /\ sources' = Noted(reload.id, FALSE)
    /\ reload' = [NoLoad EXCEPT !.pc = "next", !.list = reload.list]
    /\ UNCHANGED <<kept, retired, present, add, pass, taken, spent>>
\* noteSourceDown.
NoteDown ==
    /\ reload.pc = "down"
    /\ sources' = Noted(reload.id, TRUE)
    /\ news' = IF reload.ill THEN news ELSE [news EXCEPT ![reload.id] = TRUE]
    /\ reload' = [NoLoad EXCEPT !.pc = "next", !.list = reload.list]
    /\ UNCHANGED <<kept, retired, present, add, pass, taken, spent>>

\* RemoveDevice: both rows go; one with no devices row is refused.
RemovePlaylist(i) ==
    /\ spent.removes < MaxRemoves /\ present[i] # None
    /\ present' = [present EXCEPT ![i] = None] /\ sources' = [sources EXCEPT ![i] = Empty]
    /\ spent' = [spent EXCEPT !.removes = @ + 1]
    /\ UNCHANGED <<kept, retired, add, reload, pass, news, taken>>

-----------------------------------------------------------------------------
(* Tuners.                                                                   *)

\* Auto, Maintain: those that answer the broadcast, and those with a row and a tuner.
BeginPass ==
    /\ pass.pc = "idle" /\ spent.passes < MaxPasses
    /\ \E heard \in SUBSET Tuners :
           pass' = [NoPass EXCEPT !.pc = "list", !.left = heard \cup (kept \ Bare)]
    /\ spent' = [spent EXCEPT !.passes = @ + 1]
    /\ UNCHANGED <<kept, retired, sources, present, add, reload, news, taken>>
\* writeDevices: the devices are read once.
ReadDevices ==
    /\ pass.pc = "list" /\ pass' = [pass EXCEPT !.pc = "next", !.known = kept]
    /\ UNCHANGED <<kept, retired, sources, present, add, reload, news, taken, spent>>
\* A first tuner is taken for a list that had none; a box with no tuner never is.
Adopts(b) == b \notin Bare /\ pass.known \ Bare = {}
Wanted(b) == b \in pass.known \/ Adopts(b)
FetchDevice ==
    /\ pass.pc = "next" /\ pass.left # {}
    /\ LET b == Min(pass.left)
       IN  \/ ~Wanted(b) /\ pass' = [pass EXCEPT !.left = @ \ {b}] /\ UNCHANGED spent
           \/ Wanted(b) /\ pass' = [pass EXCEPT !.left = @ \ {b}, !.pc = "save", !.box = b] /\ UNCHANGED spent
           \/ Fault /\ pass' = [pass EXCEPT !.left = @ \ {b}]
    /\ UNCHANGED <<kept, retired, sources, present, add, reload, news, taken>>
\* A box of the list is refreshed, so one removed meanwhile is not written; a new one is upserted.
SaveKept(b) == IF b \in pass.known THEN kept \cap {b} ELSE {b}
SaveAny(b) == {b}
Saves(b) == SaveKept(b)
SaveDevice ==
    /\ pass.pc = "save"
    /\ kept' = kept \cup Saves(pass.box)
    /\ retired' = retired \ Saves(pass.box)
    /\ pass' = [pass EXCEPT !.pc = "next", !.box = 0, !.known = @ \cup {pass.box},
                            !.added = IF pass.box \in pass.known THEN @ ELSE @ \cup {pass.box}]
    /\ UNCHANGED <<sources, present, add, reload, news, taken, spent>>
EndPass ==
    /\ pass.pc = "next" /\ pass.left = {} /\ pass' = NoPass
    /\ UNCHANGED <<kept, retired, sources, present, add, reload, news, taken, spent>>

Owns == spent.owns < MaxOwns
Owned == [spent EXCEPT !.owns = @ + 1]
\* Sync: what the owner asked for is added.
OwnerAdds(b) ==
    /\ Owns /\ kept' = kept \cup {b} /\ retired' = retired \ {b} /\ spent' = Owned
    /\ UNCHANGED <<sources, present, add, reload, pass, news, taken>>
\* RemoveDevice.
OwnerDrops(b) ==
    /\ Owns /\ b \in kept /\ kept' = kept \ {b} /\ retired' = retired \ {b} /\ spent' = Owned
    /\ UNCHANGED <<sources, present, add, reload, pass, news, taken>>
\* patchDevice.
OwnerRetires(b) ==
    /\ Owns /\ b \in kept /\ retired' = (retired \ {b}) \cup ({b} \ retired) /\ spent' = Owned
    /\ UNCHANGED <<kept, sources, present, add, reload, pass, news, taken>>

SourcesNext ==
    \/ \E r \in Adds : ReadPlaylist(r) \/ AddSource(r) \/ InstallAdded(r) \/ RememberPlaylist(r)
    \/ HourPasses \/ BeginReload \/ FetchNext \/ EndReload \/ InstallReloaded \/ NoteUp \/ NoteDown
    \/ \E i \in Ids : RemovePlaylist(i)
    \/ BeginPass \/ ReadDevices \/ FetchDevice \/ SaveDevice \/ EndPass
    \/ \E b \in Tuners : OwnerAdds(b) \/ OwnerDrops(b) \/ OwnerRetires(b)

-----------------------------------------------------------------------------
\* A playlist removed while it loaded stays removed: channels are there only of a row
\* that is (Install, RefreshDevice).
NothingOrphaned == \A i \in Ids : present[i] # None => sources[i].on

\* The channels of a row are those of its playlist, unless its id was another's whose
\* load was under way (AddSource gives an id out again).
OwnChannels == \A i \in Ids \ taken : sources[i].on => present[i] \in {None, sources[i].url}

\* The household is told a playlist is offline once, and that it is back when it is
\* (RefreshSources, noteSourceDown).
NewsTrue == \A i \in Ids \ taken : sources[i].on => news[i] = sources[i].ill

\* A pass adds one box at most (writeDevices, tookFirst).
AdoptsOne == Cardinality(pass.added) <= 1

SourcesHold == NothingOrphaned /\ OwnChannels /\ NewsTrue /\ AdoptsOne

\* A pass brings back nothing the owner removed: what it adds to the list was of no
\* list it read, and that list had no tuner (Maintain, writeDevices).
RemovedStays == pass.pc = "save" /\ kept # kept' /\ pass'.pc = "next" => pass.box \in pass'.added
=============================================================================
