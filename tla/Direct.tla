-------------------------------- MODULE Direct --------------------------------
(***************************************************************************)
(* The secure name on the home network (direct/): the loop that keeps the  *)
(* name registered, pointed at this server and certified (service.go), the *)
(* certificate order (acme.go), the service's client (client.go) and the   *)
(* address that is published (addrs.go).  The service and the certificate  *)
(* authority are external and may fail any call; the server may stop       *)
(* between any two writes.  Files: state.json (written to a temporary name *)
(* and renamed), cert.key, cert.pem.  Durations are left out: a wait ends  *)
(* when its timer or a kick does.                                          *)
(***************************************************************************)
EXTENDS Integers, FiniteSets, Sequences

CONSTANTS Homes,          \* sets of interfaces the machine may have, with its primary address
          MaxNames,       \* bound: names the service ever gives out
          MaxSwitches,    \* bound: the owner's switches
          MaxFaults       \* bound: failed calls, restarts and changes of address

VARIABLES mem,        \* the Service: disabled, id, name, addrs, directory, cert, wrote
          disk,       \* state.json, its temporary file, cert.key and cert.pem
          loop,       \* Run's goroutine: where it is, its snapshot
          owner,      \* a SetEnabled in flight
          kick,       \* s.kick holds a value
          home,       \* the interfaces now
          service,    \* the naming service: the name it knows, where that points, the challenge
          faults, switches,
          calm        \* nothing outside fails or changes from here on
directVars == <<mem, disk, loop, owner, kick, home, service, faults, switches, calm>>

NoCert == [name |-> 0, age |-> "none"]
Fresh == [dis |-> FALSE, id |-> 0, name |-> 0, addrs |-> {}, dir |-> FALSE]     \* state's zero value
Torn == Fresh                                   \* New reads a file cut short as the zero state
NoFile == [Fresh EXCEPT !.id = -1]
Saved(s) == [dis |-> s.dis, id |-> s.id, name |-> s.name, addrs |-> s.addrs, dir |-> s.dir]

-----------------------------------------------------------------------------
(* pick: addresses of the interface with the default route, unless it is a *)
(* bridge or tunnel; then those of every real interface.                   *)
Publishable(a) == a.net \in {"home", "ula"}
OnVirtual(a, ifs) == \E f \in ifs : a \in f.addrs /\ f.virtual
Pick(h) ==
    IF Publishable(h.primary) /\ ~OnVirtual(h.primary, h.ifs)
    THEN {h.primary} \cup {a \in UNION {f.addrs : f \in {g \in h.ifs : h.primary \in g.addrs}} : a.net = "ula"}
    ELSE {a \in UNION {f.addrs : f \in {g \in h.ifs : ~g.virtual}} : a.net = "home"}

(* loadCert, setCert: the key and the chain must belong together. *)
LoadCert(d) == IF d.key = d.pem /\ d.pem.age # "none" THEN d.pem ELSE NoCert
NeedsCert(s) == s.cert = NoCert \/ ~s.dir \/ s.cert.name # s.name \/ s.cert.age # "new"
(* usableLocked. *)
Usable(s) == ~s.dis /\ s.cert # NoCert /\ s.name # 0 /\ s.cert.name = s.name /\ s.cert.age # "expired"

Loaded(d) == [dis |-> d.state.dis, id |-> d.state.id, name |-> d.state.name, addrs |-> d.state.addrs,
              dir |-> d.state.dir, cert |-> LoadCert(d), recent |-> d.state.addrs # {}]

-----------------------------------------------------------------------------
(* save, by the loop or by SetEnabled: snapshot, temporary file, rename.   *)
(* Both use the same temporary name.                                       *)
Snap(p, next) == [p EXCEPT !.at = "open", !.snap = Saved(mem'), !.then = next]
SaveStep(p, pNext) ==
    \/ p.at = "open" /\ disk' = [disk EXCEPT !.tmp = Torn] /\ pNext = [p EXCEPT !.at = "write"]
    \/ p.at = "write" /\ disk' = [disk EXCEPT !.tmp = p.snap] /\ pNext = [p EXCEPT !.at = "rename"]
    \/ /\ p.at = "rename" /\ disk.tmp # NoFile
       /\ disk' = [disk EXCEPT !.state = disk.tmp, !.tmp = NoFile] /\ pNext = [p EXCEPT !.at = p.then]
    \/ p.at = "rename" /\ disk.tmp = NoFile /\ UNCHANGED disk /\ pNext = [p EXCEPT !.at = "failed"]
LoopSaves == SaveStep(loop, loop') /\ UNCHANGED <<mem, owner, kick, home, service, faults, switches, calm>>
OwnerSaves == SaveStep(owner, owner') /\ UNCHANGED <<mem, loop, kick, home, service, faults, switches, calm>>

Fault == ~calm /\ faults < MaxFaults /\ faults' = faults + 1
Fine == UNCHANGED faults
World == UNCHANGED <<owner, home, switches, calm>>

(* Step. *)
StepBegins == /\ loop.at = "wait"      \* the timer, or a kick
              /\ loop' = [loop EXCEPT !.at = IF mem.dis THEN "rest" ELSE "register"]
              /\ kick' = FALSE
              /\ UNCHANGED <<mem, disk, service>> /\ World /\ Fine
Rests == /\ loop.at \in {"rest", "failed"}
         /\ loop' = [loop EXCEPT !.at = "wait"]
         /\ UNCHANGED <<mem, disk, kick, service>> /\ World /\ Fine
(* register: the same key gets its label back, or a new one if it was lost. *)
Register ==
    /\ loop.at = "register"
    /\ IF mem.id # 0 /\ mem.name # 0
       THEN loop' = [loop EXCEPT !.at = "report"] /\ UNCHANGED <<mem, service>>
       ELSE /\ service.known \/ service.names < MaxNames
            /\ LET n == IF service.known THEN service.name ELSE service.names + 1 IN
               /\ service' = [service EXCEPT !.known = TRUE, !.name = n, !.names = IF n > @ THEN n ELSE @]
               /\ mem' = [mem EXCEPT !.id = n, !.name = n, !.addrs = {}, !.dir = @ /\ n = mem.name]
               /\ loop' = Snap(loop, "report")
    /\ UNCHANGED <<disk, kick>> /\ World /\ Fine
(* report: when the address changed or a day has passed; a label that is   *)
(* not known is given up, and registered again next round.                 *)
ForgetsNothing(s) == s                                                        \* mutant
Forgotten(s) == [s EXCEPT !.id = 0]
Report ==
    /\ loop.at = "report"
    /\ LET now == Pick(home) IN
       IF now = {} THEN loop' = [loop EXCEPT !.at = "failed"] /\ UNCHANGED <<mem, service>>
       ELSE IF now = mem.addrs /\ mem.recent
       THEN loop' = [loop EXCEPT !.at = "certify"] /\ UNCHANGED <<mem, service>>
       ELSE IF ~service.known \/ mem.id # service.name
       THEN mem' = Forgotten(mem) /\ loop' = Snap(loop, "failed") /\ UNCHANGED service
       ELSE /\ service' = [service EXCEPT !.points = now]
            /\ mem' = [mem EXCEPT !.addrs = now, !.recent = TRUE]
            /\ loop' = Snap(loop, "certify")
    /\ UNCHANGED <<disk, kick>> /\ World /\ Fine
Certify == /\ loop.at = "certify"
           /\ loop' = [loop EXCEPT !.at = IF NeedsCert(mem) THEN "challenge" ELSE "wait"]
           /\ UNCHANGED <<mem, disk, kick, service>> /\ World /\ Fine
(* Issue, authorize: the challenge is published, answered and cleared,     *)
(* whatever the answer was.                                                *)
ClearsFirst == /\ loop.at = "challenge"                                        \* mutant
               /\ loop' = [loop EXCEPT !.at = "order"]
               /\ service' = [service EXCEPT !.txt = TRUE]
               /\ mem' = [mem EXCEPT !.cert = NoCert]
               /\ UNCHANGED <<disk, kick>> /\ World /\ Fine
SetChallenge == /\ loop.at = "challenge"
                /\ loop' = [loop EXCEPT !.at = "order"]
                /\ service' = [service EXCEPT !.txt = TRUE]
                /\ UNCHANGED <<mem, disk, kick>> /\ World /\ Fine
SetCert(s) == [s EXCEPT !.cert = [name |-> s.name, age |-> "new"]]
Issue == /\ loop.at = "order"
         /\ service' = [service EXCEPT !.txt = FALSE]
         /\ mem' = SetCert(mem)
         /\ loop' = [loop EXCEPT !.at = "key"]
         /\ UNCHANGED <<disk, kick>> /\ World /\ Fine
WriteKey == /\ loop.at = "key" /\ disk' = [disk EXCEPT !.key = mem.cert]
            /\ loop' = [loop EXCEPT !.at = "pem"]
            /\ UNCHANGED <<mem, kick, service>> /\ World /\ Fine
WriteCert == /\ loop.at = "pem" /\ disk' = [disk EXCEPT !.pem = mem.cert]
             /\ mem' = [mem EXCEPT !.dir = TRUE]
             /\ loop' = Snap(loop, "wait")
             /\ UNCHANGED <<kick, service>> /\ World /\ Fine
(* failed: a call that went wrong ends the round. *)
StepFails == /\ loop.at \in {"register", "report", "challenge", "order", "key", "pem"}
             /\ loop.at = "register" => mem.id = 0
             /\ loop' = [loop EXCEPT !.at = "failed"]
             /\ service' = [service EXCEPT !.txt = FALSE]
             /\ Fault /\ UNCHANGED <<mem, disk, kick>> /\ World

(* SetEnabled: the switch, the save, then a kick that is never lost. *)
SetEnabled == /\ owner.at = "idle" /\ ~calm /\ switches < MaxSwitches
              /\ mem' = [mem EXCEPT !.dis = ~@]
              /\ owner' = Snap(owner, "kick")
              /\ switches' = switches + 1
              /\ UNCHANGED <<disk, loop, kick, home, service, faults, calm>>
Kicks == /\ owner.at \in {"kick", "failed"}
         /\ kick' = (kick \/ owner.at = "kick")
         /\ owner' = [owner EXCEPT !.at = "idle"]
         /\ UNCHANGED <<mem, disk, loop, home, service, faults, switches, calm>>

(* The world: the server stops and starts, the address changes, a day      *)
(* passes, the certificate grows old, the service loses the label.         *)
Restart == /\ mem' = Loaded(disk)
           /\ loop' = [loop EXCEPT !.at = "wait"] /\ owner' = [owner EXCEPT !.at = "idle"] /\ kick' = FALSE
           /\ Fault /\ UNCHANGED <<disk, home, service, switches, calm>>
Moves == \E h \in Homes : home' = h /\ h # home /\ Fault
            /\ UNCHANGED <<mem, disk, loop, owner, kick, service, switches, calm>>
DayPasses == /\ mem.recent /\ mem' = [mem EXCEPT !.recent = FALSE]
             /\ UNCHANGED <<disk, loop, owner, kick, home, service, faults, switches, calm>>
Older(c) == [c EXCEPT !.age = IF c.age = "new" THEN "due" ELSE "expired"]
Ages == /\ mem.cert.age \in {"new", "due"} /\ loop.at = "wait" /\ Fault
        /\ mem' = [mem EXCEPT !.cert = Older(@)]
        /\ disk' = [disk EXCEPT !.key = IF @ = mem.cert THEN Older(@) ELSE @, !.pem = IF @ = mem.cert THEN Older(@) ELSE @]
        /\ UNCHANGED <<loop, owner, kick, home, service, switches, calm>>
LosesLabel == /\ service.known /\ service' = [service EXCEPT !.known = FALSE, !.points = {}] /\ Fault
              /\ UNCHANGED <<mem, disk, loop, owner, kick, home, switches, calm>>
LosesRecord == /\ service.points # {} /\ service' = [service EXCEPT !.points = {}] /\ Fault
               /\ UNCHANGED <<mem, disk, loop, owner, kick, home, switches, calm>>
Calms == /\ ~calm /\ Pick(home) # {} /\ calm' = TRUE
         /\ UNCHANGED <<mem, disk, loop, owner, kick, home, service, faults, switches>>

DirectInit ==
    /\ disk = [state |-> Fresh, tmp |-> NoFile, key |-> NoCert, pem |-> NoCert]
    /\ mem = Loaded(disk)
    /\ loop = [at |-> "wait", snap |-> Fresh, then |-> "wait"] /\ owner = [at |-> "idle", snap |-> Fresh, then |-> "idle"]
    /\ kick = FALSE /\ home \in Homes
    /\ service = [known |-> FALSE, name |-> 0, names |-> 0, points |-> {}, txt |-> FALSE]
    /\ faults = 0 /\ switches = 0 /\ calm = FALSE
LoopNext == StepBegins \/ Rests \/ Register \/ Report \/ Certify \/ SetChallenge \/ Issue \/ WriteKey \/ WriteCert \/ LoopSaves
DirectNext == LoopNext \/ StepFails \/ SetEnabled \/ OwnerSaves \/ Kicks
              \/ Restart \/ Moves \/ DayPasses \/ Ages \/ LosesLabel \/ LosesRecord \/ Calms
(* The loop's timer always fires and its calls return; a request ends; days pass. *)
DirectFair == WF_directVars(LoopNext) /\ WF_directVars(OwnerSaves \/ Kicks) /\ WF_directVars(DayPasses)

-----------------------------------------------------------------------------
(* A secure address that works is lost only when the owner turns it off,   *)
(* the name is lost, time runs out or the server restarts: renewing the    *)
(* certificate, failing to, and every save leave it alone (Step, issue).   *)
UsableStays == Usable(mem) /\ ~Usable(mem') => SetEnabled \/ Register \/ Ages \/ Restart

(* Once nothing outside fails any more, the name is in the end registered, *)
(* certified and pointed at this server, whatever was lost before: the     *)
(* label at the service, the record, a crash between two files (Step).     *)
Settled == mem.dis \/ (Usable(mem) /\ service.known /\ service.name = mem.name /\ service.points = Pick(home))
Settles == <>calm => <>[]Settled
=============================================================================
