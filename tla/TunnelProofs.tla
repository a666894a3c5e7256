----------------------------- MODULE TunnelProofs -----------------------------
(***************************************************************************)
(* Whatever sign-ins, setups, removals, pasted tokens, restored copies and *)
(* crashes cross each other, the certificate is one that was asked for,    *)
(* one tunnel runs, and it is the one that is saved; for any number of     *)
(* sign-ins, requests, accounts, crashes and faults.                       *)
(***************************************************************************)
EXTENDS Tunnel, TLAPS

\* The owner's requests are not numbered as sign-ins are.
NamesDiffer == MaxGen \in Nat /\ Requests \cap Gens = {}

-----------------------------------------------------------------------------
(* The invariant.                                                           *)

Fields == {"pc", "for", "acct", "gen", "id", "sec", "read"}

Shape ==
    /\ DOMAIN mgr = {"st", "gen", "acct", "remove"} /\ mgr.gen \in Nat
    /\ DOMAIN act = Actors
    /\ DOMAIN run = {"sec", "loop", "proc", "dying", "by"}
    /\ run.loop \in BOOLEAN /\ run.proc \in BOOLEAN /\ run.dying \in BOOLEAN
    /\ DOMAIN hist = {"asked", "crossed", "cut", "left", "crashes", "faults"}
    /\ hist.asked \in BOOLEAN /\ hist.crossed \in BOOLEAN /\ hist.cut \in BOOLEAN /\ hist.left \in BOOLEAN
    /\ catalog \in {"none", "copy"}

\* The calls of a setup that runs, and all calls made for a setup.
Working == {"make", "dns", "token", "install", "address", "drop", "load", "apply", "start", "finish"}
ForSetup == Working \cup {"fetch", "got", "setup"}
OnlySetup == {"make", "dns", "token", "install", "address", "finish"}
SettingUp(e) == e.for = "setup" /\ e.pc \in Working

\* Where an actor can be: a sign-in that has not come yet is nowhere, the current one
\* was asked for, and what an actor read of a copy a crash had left there.
Fits(x, e, g, asked, cut) ==
    /\ DOMAIN e = Fields
    /\ e.for = "setup" => e.pc \in ForSetup
    /\ e.pc \in OnlySetup => e.for = "setup"
    /\ e.read.by = "copy" => cut
    /\ x \in Gens /\ x > g => e.pc = "idle"
    /\ x \in Gens /\ x = g /\ e.pc \notin {"idle", "done"} => asked
ActorsFit == \A x \in Actors : Fits(x, act[x], mgr.gen, hist.asked, hist.cut)

\* A setup shows as running as long as the goroutine of the current sign-in works on it.
SetupKept == mgr.st = "provisioning" <=> mgr.gen \in Gens /\ SettingUp(act[mgr.gen])

\* The loop runs with nothing of the one before it.
RunFits == (run.loop => ~run.dying) /\ OneAtATime

\* Unless two requests crossed or one failed halfway: one at a time applies, and once no
\* request has yet to read the file, who applies has read what is in it, or it runs.
Unread == {"address", "forget url", "drop", "load"}
Settling ==
    ~hist.crossed /\ ~hist.left =>
        /\ \A x, y \in Actors : act[x].pc \in {"apply", "start"} /\ act[y].pc \in {"apply", "start"} => x = y
        /\ (\A x \in Actors : act[x].pc \notin Unread) =>
              /\ \A x \in Actors : act[x].pc = "apply" => act[x].read = vault
              /\ (\A x \in Actors : act[x].pc # "apply") => run.sec = vault

TunnelInv == Shape /\ ActorsFit /\ CertIsAskedFor /\ SetupKept /\ RunFits /\ Settling /\ CopiesAreNotRun

LEMMA InvIsEnough == TunnelInv => TunnelHolds
<1> SUFFICES ASSUME TunnelInv PROVE TunnelHolds OBVIOUS
<1>1. SetupIsRunning BY DEF TunnelInv, SetupKept, SettingUp, SetupIsRunning, Working
<1>2. OneAtATime BY DEF TunnelInv, RunFits
<1>3. RunsWhatIsSaved
  <2> SUFFICES ASSUME \A x \in Actors : act[x].pc \notin Applying, ~hist.crossed, ~hist.left PROVE run.sec = vault
    BY DEF RunsWhatIsSaved
  <2> QED BY DEF TunnelInv, Settling, Applying, Unread
<1> QED BY <1>1, <1>2, <1>3 DEF TunnelInv, TunnelHolds

LEMMA DoneIs == /\ DOMAIN Idle = Fields /\ Idle.pc = "idle" /\ Idle.for = "none" /\ Idle.read.by = "none"
                /\ DOMAIN Done = Fields /\ Done.pc = "done" /\ Done.for = "none" /\ Done.read.by = "none"
BY DEF Idle, Done, Fields, None

LEMMA InitHolds == ASSUME NamesDiffer, Init PROVE TunnelInv
<1>1. /\ \A x \in Actors : act[x] = Idle
      /\ DOMAIN act = Actors /\ mgr.gen = 0 /\ mgr.st = "idle" /\ mgr.acct = "none" /\ ~hist.cut
      /\ vault.by # "copy" /\ run.sec = vault
  BY DEF Init, Token, None, MadeHere
<1>2. Shape BY DEF Init, Shape
<1>3. ActorsFit BY <1>1, DoneIs DEF ActorsFit, Fits, OnlySetup, NamesDiffer, Gens
<1>4. Settling BY <1>1, DoneIs DEF Settling
<1>5. RunFits BY DEF Init, RunFits, OneAtATime
<1>6. SetupKept BY <1>1 DEF SetupKept, Gens, NamesDiffer
<1> QED BY <1>1, <1>2, <1>3, <1>4, <1>5, <1>6 DEF TunnelInv, CertIsAskedFor, CopiesAreNotRun

-----------------------------------------------------------------------------
(* One actor moves.                                                         *)

LEMMA FitsLater ==
    ASSUME NEW g \in Nat, NEW x \in Actors, NEW e, NEW a, NEW c \in BOOLEAN, Fits(x, e, g, a, c), MaxGen \in Nat,
           NEW b, NEW d \in BOOLEAN, c => d
    PROVE  Fits(x, e, g + 1, b, d)
BY DEF Fits, Gens

\* What an actor may do next.
MayGo(x, e) ==
    /\ DOMAIN e = Fields
    /\ e.for = "setup" => e.pc \in ForSetup
    /\ e.pc \in OnlySetup => e.for = "setup"
    /\ e.read.by = "copy" => hist.cut
    /\ x \in Gens => act[x].pc # "idle" /\ (e.pc = "done" \/ act[x].pc # "done")

\* Whatever else an actor's step does, the actors fit.
LEMMA Moves ==
    ASSUME NamesDiffer, TunnelInv, NEW x \in Actors, NEW e, act' = [act EXCEPT ![x] = e], MayGo(x, e),
           mgr'.gen = mgr.gen, hist'.cut = hist.cut,
           hist'.asked = hist.asked \/ (x = mgr.gen /\ x \in Gens /\ e.pc = "done")
    PROVE  ActorsFit' /\ DOMAIN act' = Actors /\ act'[x] = e /\ \A y \in Actors : y # x => act'[y] = act[y]
<1>1. DOMAIN act' = Actors /\ act'[x] = e /\ \A y \in Actors : y # x => act'[y] = act[y]
  BY DEF TunnelInv, Shape
<1>2. mgr.gen \in Nat BY DEF TunnelInv, Shape
<1>3. Fits(x, e, mgr.gen, hist'.asked, hist.cut)
  <2>1. Fits(x, act[x], mgr.gen, hist.asked, hist.cut) BY DEF TunnelInv, ActorsFit
  <2> QED BY <1>2, <2>1 DEF MayGo, Fits
<1>4. ASSUME NEW y \in Actors, y # x PROVE Fits(y, act[y], mgr.gen, hist'.asked, hist.cut)
  <2>1. Fits(y, act[y], mgr.gen, hist.asked, hist.cut) BY DEF TunnelInv, ActorsFit
  <2> QED BY <1>4, <2>1 DEF Fits
<1> QED BY <1>1, <1>3, <1>4 DEF ActorsFit

\* A step that starts no Apply, and leaves the file to be read, or moves nobody who applies.
LEMMA Settles ==
    ASSUME TunnelInv,
           hist'.left \/ (hist'.crossed = hist.crossed /\ hist'.left = hist.left),
           \A y \in Actors : act'[y].pc \in {"apply", "start"} => act'[y] = act[y],
           \/ hist'.left
           \/ \E y \in Actors : act'[y].pc \in Unread
           \/ vault' = vault /\ run'.sec = run.sec /\ \A y \in Actors : act[y].pc \in Applying => act'[y] = act[y]
    PROVE  Settling'
<1> SUFFICES ASSUME ~hist'.crossed, ~hist'.left PROVE Settling' BY DEF Settling
<1>1. ~hist.crossed /\ ~hist.left OBVIOUS
<1>2. \A x, y \in Actors : act'[x].pc \in {"apply", "start"} /\ act'[y].pc \in {"apply", "start"} => x = y
  BY <1>1 DEF TunnelInv, Settling
<1>3. CASE \E y \in Actors : act'[y].pc \in Unread BY <1>2, <1>3 DEF Settling
<1>4. CASE vault' = vault /\ run'.sec = run.sec /\ \A y \in Actors : act[y].pc \in Applying => act'[y] = act[y]
  <2> SUFFICES ASSUME \A y \in Actors : act'[y].pc \notin Unread
               PROVE  /\ \A y \in Actors : act'[y].pc = "apply" => act'[y].read = vault
                      /\ (\A y \in Actors : act'[y].pc # "apply") => run.sec = vault
    BY <1>2, <1>4 DEF Settling
  <2>1. \A y \in Actors : act[y].pc \notin Unread BY <1>4 DEF Applying, Unread
  <2>2. \A y \in Actors : act[y].pc = "apply" <=> act'[y].pc = "apply" BY <1>4 DEF Applying
  <2> QED BY <1>1, <2>1, <2>2 DEF TunnelInv, Settling
<1> QED BY <1>3, <1>4

\* The shape of the sign-in and of what happened.
ShapeOf(m, h) ==
    /\ DOMAIN m = {"st", "gen", "acct", "remove"} /\ m.gen \in Nat
    /\ DOMAIN h = {"asked", "crossed", "cut", "left", "crashes", "faults"}
    /\ h.asked \in BOOLEAN /\ h.crossed \in BOOLEAN /\ h.cut \in BOOLEAN /\ h.left \in BOOLEAN

\* A step of one actor that leaves the manager and the process alone.
LEMMA Acts ==
    ASSUME NamesDiffer, TunnelInv, NEW x \in Actors, NEW e, act' = [act EXCEPT ![x] = e], MayGo(x, e),
           x = mgr.gen => (SettingUp(e) <=> SettingUp(act[x])),
           UNCHANGED <<mgr, run>>, ShapeOf(mgr, hist)', catalog' \in {"none", "copy"},
           hist'.asked = hist.asked, hist'.cut = hist.cut,
           hist'.left \/ (hist'.crossed = hist.crossed /\ hist'.left = hist.left),
           vault'.by = "copy" => hist.cut,
           \/ hist'.left /\ e.pc \notin {"apply", "start"}
           \/ e.pc \in Unread
           \/ e.pc \notin {"apply", "start"} /\ act[x].pc \notin Applying /\ vault' = vault
    PROVE  TunnelInv'
<1>1. ActorsFit' /\ DOMAIN act' = Actors /\ act'[x] = e /\ \A y \in Actors : y # x => act'[y] = act[y] BY Moves
<1>2. Shape' BY <1>1 DEF TunnelInv, Shape, ShapeOf
<1>3. SetupKept' BY <1>1 DEF TunnelInv, SetupKept, Actors
<1>4. CertIsAskedFor' BY DEF TunnelInv, CertIsAskedFor
<1>5. e.pc \notin {"apply", "start"} BY DEF Unread
<1>6. Settling' BY <1>1, <1>5, Settles
<1>7. RunFits' /\ CopiesAreNotRun' BY DEF TunnelInv, RunFits, OneAtATime, CopiesAreNotRun
<1> QED BY <1>1, <1>2, <1>3, <1>4, <1>6, <1>7 DEF TunnelInv

\* A step that ends what runs for the sign-in: nobody is left at a newer one but who is asked.
LEMMA Ends ==
    ASSUME NamesDiffer, TunnelInv, DOMAIN act' = Actors, ShapeOf(mgr, hist)', mgr'.gen = mgr.gen + 1,
           hist'.cut = hist.cut, hist'.crossed = hist.crossed, hist'.left = hist.left, UNCHANGED <<vault, catalog, run>>,
           mgr'.acct = "none",
           mgr'.st # "provisioning" => \A x \in Gens : x = mgr'.gen => ~SettingUp(act'[x]),
           mgr'.st = "provisioning" => mgr'.gen \in Gens /\ SettingUp(act'[mgr'.gen]),
           \A x \in Actors : \/ act'[x] = act[x]
                             \/ act'[x] = Done /\ act[x].pc # "idle" /\ act[x].pc \notin Applying
                             \/ /\ Fits(x, act'[x], mgr'.gen, hist'.asked, hist.cut)
                                /\ act[x].pc \notin Applying /\ act'[x].pc \notin Applying
    PROVE  TunnelInv'
<1>1. mgr.gen \in Nat /\ hist.cut \in BOOLEAN BY DEF TunnelInv, Shape
<1>2. ASSUME NEW x \in Actors PROVE Fits(x, act'[x], mgr'.gen, hist'.asked, hist'.cut)
  <2>1. Fits(x, act[x], mgr.gen, hist.asked, hist.cut) BY DEF TunnelInv, ActorsFit
  <2>2. CASE act'[x] = act[x] BY <1>1, <2>1, <2>2, FitsLater DEF NamesDiffer
  <2>3. CASE act'[x] = Done /\ act[x].pc # "idle"
    BY <1>1, <2>1, <2>3, DoneIs DEF Fits, Gens, NamesDiffer, OnlySetup
  <2> QED BY <2>2, <2>3
<1>3. ActorsFit' BY <1>2 DEF ActorsFit
<1>4. Shape' BY DEF TunnelInv, Shape, ShapeOf
<1>5. SetupKept' BY DEF SetupKept
<1>6. Settling'
  <2>1. \A x \in Actors : act'[x] = act[x] \/ (act[x].pc \notin Applying /\ act'[x].pc \notin Applying)
    BY DoneIs DEF Applying
  <2> QED BY <2>1, Settles DEF Applying
<1>7. CertIsAskedFor' BY DEF CertIsAskedFor
<1>8. RunFits' /\ CopiesAreNotRun' BY DEF TunnelInv, RunFits, OneAtATime, CopiesAreNotRun
<1> QED BY <1>3, <1>4, <1>5, <1>6, <1>7, <1>8 DEF TunnelInv

-----------------------------------------------------------------------------
(* The sign-in.                                                             *)

\* What holds of an actor, of the next sign-in, and of the records.
LEMMA Facts ==
    ASSUME NamesDiffer, TunnelInv
    PROVE  /\ mgr.gen \in Nat /\ ShapeOf(mgr, hist) /\ DOMAIN act = Actors /\ catalog \in {"none", "copy"}
           /\ mgr.gen < MaxGen => mgr.gen + 1 \in Gens /\ act[mgr.gen + 1].pc = "idle"
           /\ \A x \in Actors : Fits(x, act[x], mgr.gen, hist.asked, hist.cut)
<1>1. /\ mgr.gen \in Nat /\ ShapeOf(mgr, hist) /\ DOMAIN act = Actors /\ catalog \in {"none", "copy"}
      /\ \A x \in Actors : Fits(x, act[x], mgr.gen, hist.asked, hist.cut)
  BY DEF TunnelInv, Shape, ShapeOf, ActorsFit
<1>2. ASSUME mgr.gen < MaxGen PROVE mgr.gen + 1 \in Gens /\ act[mgr.gen + 1].pc = "idle"
  <2>1. mgr.gen + 1 \in Gens BY <1>1, <1>2 DEF NamesDiffer, Gens
  <2>2. Fits(mgr.gen + 1, act[mgr.gen + 1], mgr.gen, hist.asked, hist.cut) BY <1>1, <2>1 DEF Actors
  <2> QED BY <1>1, <2>1, <2>2 DEF Fits
<1> QED BY <1>1, <1>2

LEMMA StoppedIs ==
    ASSUME NEW st, TunnelInv
    PROVE  /\ Stopped(st).st = st /\ Stopped(st).gen = mgr.gen + 1 /\ Stopped(st).acct = "none"
           /\ ShapeOf(Stopped(st), NotAsked) /\ NotAsked.asked = FALSE /\ NotAsked.cut = hist.cut
           /\ NotAsked.crossed = hist.crossed /\ NotAsked.left = hist.left
           /\ ShapeOf(mgr, NotAsked) /\ ShapeOf(Stopped(st), hist)
BY DEF Stopped, NotAsked, ShapeOf, TunnelInv, Shape

LEMMA HaltedIs ==
    ASSUME TunnelInv
    PROVE  /\ DOMAIN Halted(act) = Actors
           /\ \A x \in Actors : \/ Halted(act)[x] = act[x]
                                \/ Halted(act)[x] = Done /\ act[x].pc # "idle" /\ act[x].pc \notin Applying
BY DEF Halted, Applying

\* A login that begins, for itself or to remove.
LEMMA NewLogin == ASSUME NamesDiffer, TunnelInv, NEW remove \in BOOLEAN, StartLogin(remove) PROVE TunnelInv'
<1> DEFINE g == mgr.gen + 1
           e == [Idle EXCEPT !.pc = "fetch", !.for = IF remove THEN "remove" ELSE "setup"]
<1>1. g \in Gens /\ act[g].pc = "idle" /\ mgr.gen \in Nat /\ DOMAIN act = Actors /\ g \in Actors
  BY Facts DEF StartLogin, Actors
<1>2. /\ act'[g] = e /\ DOMAIN act' = Actors
      /\ \A x \in Actors : x # g => act'[x] = Halted(act)[x]
  BY <1>1, HaltedIs DEF StartLogin
<1>3. mgr' = [Stopped("waiting") EXCEPT !.remove = remove] /\ hist' = [hist EXCEPT !.asked = TRUE] BY DEF StartLogin
<1>4. /\ mgr'.st = "waiting" /\ mgr'.gen = g /\ mgr'.acct = "none" /\ ShapeOf(mgr, hist)'
      /\ hist'.asked /\ hist'.cut = hist.cut /\ hist'.crossed = hist.crossed /\ hist'.left = hist.left
  <2>1. ShapeOf(mgr, hist) BY Facts
  <2> QED BY <1>3, <2>1, <1>1 DEF Stopped, ShapeOf
<1>5. DOMAIN e = Fields /\ e.pc = "fetch" /\ e.for \in {"setup", "remove"} /\ e.read.by = "none"
  BY DEF Idle, Fields, None
<1> HIDE DEF e, g
<1>6. Fits(g, e, g, hist'.asked, hist.cut) BY <1>1, <1>4, <1>5 DEF Fits, ForSetup, OnlySetup, g
<1>7. ~SettingUp(e) BY <1>5 DEF SettingUp, Working
<1>8. e.pc \notin Applying /\ act[g].pc \notin Applying BY <1>1, <1>5 DEF Applying
<1>9. UNCHANGED <<vault, catalog, run>> BY DEF StartLogin
<1>10. mgr'.gen = mgr.gen + 1 BY <1>4 DEF g
<1>11. \A x \in Actors : \/ act'[x] = act[x]
                         \/ act'[x] = Done /\ act[x].pc # "idle" /\ act[x].pc \notin Applying
                         \/ /\ Fits(x, act'[x], mgr'.gen, hist'.asked, hist.cut)
                            /\ act[x].pc \notin Applying /\ act'[x].pc \notin Applying
  BY <1>2, <1>4, <1>6, <1>8, HaltedIs
<1>12. \A x \in Gens : x = mgr'.gen => ~SettingUp(act'[x]) BY <1>2, <1>4, <1>7
<1> QED BY <1>2, <1>4, <1>9, <1>10, <1>11, <1>12, Ends

\* Everything that only ends a sign-in.
LEMMA Stops ==
    ASSUME NamesDiffer, TunnelInv, NEW st, st # "provisioning", mgr' = Stopped(st), hist' = NotAsked,
           UNCHANGED <<vault, catalog, run>>, DOMAIN act' = Actors,
           \A x \in Actors : \/ act'[x] = act[x]
                             \/ act'[x] = Done /\ act[x].pc # "idle" /\ act[x].pc \notin Applying
    PROVE  TunnelInv'
<1>1. mgr.gen \in Nat /\ \A x \in Actors : Fits(x, act[x], mgr.gen, hist.asked, hist.cut) BY Facts
<1>2. \A x \in Gens : x = mgr.gen + 1 => ~SettingUp(act'[x])
  <2> SUFFICES ASSUME NEW x \in Gens, x = mgr.gen + 1 PROVE ~SettingUp(act'[x]) OBVIOUS
  <2>1. Fits(x, act[x], mgr.gen, hist.asked, hist.cut) BY <1>1 DEF Actors
  <2>2. act[x].pc = "idle" BY <1>1, <2>1 DEF Fits, Gens
  <2> QED BY <2>2 DEF SettingUp, Working, Actors
<1> QED BY <1>2, Ends, StoppedIs

LEMMA Cancelled == ASSUME NamesDiffer, TunnelInv, Cancel PROVE TunnelInv'
<1>1. mgr' = Stopped("idle") /\ act' = Halted(act) /\ hist' = NotAsked /\ UNCHANGED <<vault, catalog, run>> BY DEF Cancel
<1> QED BY <1>1, HaltedIs, Stops

LEMMA HoldEnded == ASSUME NamesDiffer, TunnelInv, HoldEnds PROVE TunnelInv'
<1>1. mgr' = Stopped("error") /\ hist' = NotAsked /\ UNCHANGED <<act, vault, catalog, run>> BY DEF HoldEnds, Fails
<1> QED BY <1>1, Stops, Facts

\* Done by itself, whoever it was but the current setup.
LEMMA DoneGoes ==
    ASSUME NamesDiffer, TunnelInv, NEW x \in Actors, act[x].pc # "idle"
    PROVE  MayGo(x, Done) /\ ~SettingUp(Done) /\ Done.pc \notin Applying
BY DoneIs DEF MayGo, SettingUp, Working, OnlySetup, Applying

\* Somebody who is not the current setup and does not apply goes.
LEMMA Leaves ==
    ASSUME NamesDiffer, TunnelInv, NEW x \in Actors, act[x].pc # "idle", x = mgr.gen => ~SettingUp(act[x]),
           act[x].pc \notin Applying \/ hist'.left, act' = [act EXCEPT ![x] = Done],
           UNCHANGED <<mgr, run, vault, catalog>>, ShapeOf(mgr, hist)', hist'.asked = hist.asked, hist'.cut = hist.cut,
           hist'.left \/ (hist'.crossed = hist.crossed /\ hist'.left = hist.left)
    PROVE  TunnelInv'
<1>1. MayGo(x, Done) /\ ~SettingUp(Done) /\ Done.pc \notin Applying BY DoneGoes
<1>2. Done.pc \notin {"apply", "start"} BY <1>1 DEF Applying
<1>3. catalog' \in {"none", "copy"} BY Facts
<1>4. vault'.by = "copy" => hist.cut BY DEF TunnelInv, CopiesAreNotRun
<1> QED BY <1>1, <1>2, <1>3, <1>4, Acts

LEMMA Fetched == ASSUME NamesDiffer, TunnelInv, NEW x \in Gens, Fetch(x) PROVE TunnelInv'
<1>1. x \in Actors /\ act[x].pc = "fetch" /\ UNCHANGED <<vault, catalog, run>> BY DEF Fetch, Actors
<1>2. Fits(x, act[x], mgr.gen, hist.asked, hist.cut) /\ DOMAIN act = Actors /\ ShapeOf(mgr, hist) BY <1>1, Facts
<1>3. ~SettingUp(act[x]) /\ act[x].pc \notin Applying BY <1>1 DEF SettingUp, Working, Applying
<1>4. ASSUME NEW a \in Accounts, act' = [act EXCEPT ![x].pc = "got", ![x].acct = a], UNCHANGED <<mgr, hist>>
      PROVE  TunnelInv'
  <2> DEFINE e == [act[x] EXCEPT !.pc = "got", !.acct = a]
  <2>1. act' = [act EXCEPT ![x] = e] BY <1>1, <1>2, <1>4
  <2>2. DOMAIN e = Fields /\ e.pc = "got" /\ e.for = act[x].for /\ e.read = act[x].read BY <1>2 DEF Fits, Fields
  <2> HIDE DEF e
  <2>3. MayGo(x, e) /\ ~SettingUp(e) /\ e.pc \notin {"apply", "start"}
    BY <1>1, <1>2, <2>2 DEF MayGo, Fits, SettingUp, Working, ForSetup, OnlySetup
  <2>4. vault'.by = "copy" => hist.cut BY <1>1 DEF TunnelInv, CopiesAreNotRun
  <2>5. catalog' \in {"none", "copy"} BY <1>1, Facts
  <2>6. ShapeOf(mgr, hist)' BY <1>2, <1>4 DEF ShapeOf
  <2> QED BY <1>1, <1>3, <1>4, <2>1, <2>3, <2>4, <2>5, <2>6, Acts
<1>5. CASE act' = [act EXCEPT ![x] = Done] /\ UNCHANGED <<mgr, hist>>
  <2>1. ShapeOf(mgr, hist)' BY <1>2, <1>5 DEF ShapeOf
  <2> QED BY <1>1, <1>3, <1>5, <2>1, Leaves
<1>6. CASE act' = [act EXCEPT ![x] = Done] /\ mgr' = Stopped("error") /\ hist' = NotAsked
  <2>1. DOMAIN act' = Actors /\ \A y \in Actors : act'[y] = act[y] \/ (act'[y] = Done /\ y = x) BY <1>2, <1>6
  <2> QED BY <1>1, <1>3, <1>6, <2>1, Stops
<1> QED BY <1>4, <1>5, <1>6 DEF Fetch, Fails

LEMMA LoggedIn == ASSUME NamesDiffer, TunnelInv, NEW x \in Gens, Authorized(x) PROVE TunnelInv'
<1>1. x \in Actors /\ act[x].pc = "got" /\ UNCHANGED <<vault, catalog, run, hist>> BY DEF Authorized, Actors
<1>2. Fits(x, act[x], mgr.gen, hist.asked, hist.cut) /\ DOMAIN act = Actors /\ ShapeOf(mgr, hist) BY <1>1, Facts
<1>3. ~SettingUp(act[x]) /\ act[x].pc \notin Applying BY <1>1 DEF SettingUp, Working, Applying
<1>4. CASE x # mgr.gen
  <2>1. act' = [act EXCEPT ![x] = Done] /\ UNCHANGED mgr BY <1>4 DEF Authorized
  <2>2. ShapeOf(mgr, hist)' BY <1>1, <1>2, <2>1 DEF ShapeOf
  <2> QED BY <1>1, <1>3, <2>1, <2>2, Leaves
<1>5. CASE x = mgr.gen
  <2> DEFINE e == IF act[x].for = "remove" THEN [Idle EXCEPT !.pc = "begin", !.for = "remove"] ELSE Done
  <2>1. /\ mgr' = [mgr EXCEPT !.st = "authorized", !.acct = act[x].acct]
        /\ act' = [act EXCEPT ![x] = e]
    BY <1>5 DEF Authorized
  <2>2. DOMAIN e = Fields /\ e.pc \in {"begin", "done"} /\ e.for \in {"remove", "none"} /\ e.read.by = "none"
    BY DoneIs DEF Idle, Fields, None
  <2> HIDE DEF e
  <2>3. MayGo(x, e) /\ ~SettingUp(e) /\ e.pc \notin Applying
    BY <1>1, <2>2 DEF MayGo, SettingUp, OnlySetup, Applying
  <2>4. mgr'.st = "authorized" /\ mgr'.gen = mgr.gen /\ ShapeOf(mgr, hist)' BY <1>1, <1>2, <2>1 DEF ShapeOf
  <2>5. ActorsFit' /\ DOMAIN act' = Actors /\ act'[x] = e /\ \A y \in Actors : y # x => act'[y] = act[y]
    BY <1>1, <2>1, <2>3, <2>4, Moves
  <2>6. Shape' BY <1>1, <2>4, <2>5 DEF TunnelInv, Shape, ShapeOf
  <2>7. SetupKept' BY <1>5, <2>3, <2>4, <2>5 DEF SetupKept
  <2>8. CertIsAskedFor' BY <1>1, <1>2, <1>5, <2>4 DEF CertIsAskedFor, Fits
  <2>9. Settling' BY <1>1, <1>3, <2>3, <2>5, Settles DEF Applying
  <2> QED BY <1>1, <2>5, <2>6, <2>7, <2>8, <2>9 DEF TunnelInv, RunFits, OneAtATime, CopiesAreNotRun
<1> QED BY <1>4, <1>5

-----------------------------------------------------------------------------
(* One actor at its next call.                                              *)

\* An actor that goes on with what it is for.
LEMMA Goes ==
    ASSUME NamesDiffer, TunnelInv, NEW x \in Actors, NEW e, act' = [act EXCEPT ![x] = e],
           act[x].pc \notin {"idle", "done"}, DOMAIN e = Fields, e.for = act[x].for,
           e.read.by = "copy" => hist.cut, e.pc \in OnlySetup => act[x].pc \in OnlySetup,
           act[x].for = "setup" => act[x].pc \in Working /\ e.pc \in Working,
           UNCHANGED <<mgr, run, hist>>, catalog' \in {"none", "copy"}, vault'.by = "copy" => hist.cut,
           e.pc \in Unread \/ (e.pc \notin {"apply", "start"} /\ act[x].pc \notin Applying /\ vault' = vault)
    PROVE  TunnelInv'
<1>1. Fits(x, act[x], mgr.gen, hist.asked, hist.cut) /\ ShapeOf(mgr, hist) BY Facts
<1>2. MayGo(x, e) BY <1>1 DEF Fits, MayGo, ForSetup
<1>3. SettingUp(e) <=> SettingUp(act[x]) BY DEF SettingUp
<1>4. ShapeOf(mgr, hist)' BY <1>1 DEF ShapeOf
<1> QED BY <1>2, <1>3, <1>4, Acts

\* A request of the owner that begins.
LEMMA Begins ==
    ASSUME NamesDiffer, TunnelInv, NEW x \in Requests, NEW e, act' = [act EXCEPT ![x] = e], act[x].pc = "idle",
           DOMAIN e = Fields, e.for = "setup" => e.pc = "setup", e.pc \notin OnlySetup, e.read.by = "none",
           UNCHANGED <<mgr, run, hist>>, catalog' \in {"none", "copy"}, vault'.by = "copy" => hist.cut,
           e.pc \in Unread \/ (e.pc \notin {"apply", "start"} /\ vault' = vault)
    PROVE  TunnelInv'
<1>1. ShapeOf(mgr, hist) /\ x \in Actors /\ x \notin Gens BY Facts DEF NamesDiffer, Actors
<1>2. MayGo(x, e) BY <1>1 DEF MayGo, ForSetup
<1>3. SettingUp(e) <=> SettingUp(act[x]) BY DEF SettingUp, Working
<1>4. ShapeOf(mgr, hist)' BY <1>1 DEF ShapeOf
<1>5. act[x].pc \notin Applying BY DEF Applying
<1> QED BY <1>1, <1>2, <1>3, <1>4, <1>5, Acts

LEMMA SavedIsNoCopy == ASSUME TunnelInv PROVE vault.by = "copy" => hist.cut
BY DEF TunnelInv, CopiesAreNotRun

LEMMA SetupAsked == ASSUME NamesDiffer, TunnelInv, NEW x \in Requests, AskSetup(x) PROVE TunnelInv'
<1> DEFINE e == [Idle EXCEPT !.pc = "setup", !.for = "setup"]
<1>1. act' = [act EXCEPT ![x] = e] /\ act[x].pc = "idle" /\ UNCHANGED <<mgr, vault, catalog, run, hist>> BY DEF AskSetup
<1>2. DOMAIN e = Fields /\ e.for = "setup" /\ e.pc = "setup" /\ e.read.by = "none" BY DEF Idle, Fields, None
<1> HIDE DEF e
<1>3. e.pc \notin OnlySetup /\ e.pc \notin {"apply", "start"} BY <1>2 DEF OnlySetup
<1>4. catalog' \in {"none", "copy"} BY <1>1, Facts
<1> QED BY <1>1, <1>2, <1>3, <1>4, SavedIsNoCopy, Begins

LEMMA RemoveAsked == ASSUME NamesDiffer, TunnelInv, NEW x \in Requests, AskRemove(x) PROVE TunnelInv'
<1>1. act[x].pc = "idle" /\ UNCHANGED <<mgr, vault, catalog, run, hist>> BY DEF AskRemove
<1>2. PICK e : /\ act' = [act EXCEPT ![x] = e]
               /\ \/ e = [Idle EXCEPT !.pc = "begin", !.for = "remove"]
                  \/ e = [Idle EXCEPT !.pc = "read", !.for = "off", !.sec = vault]
  BY DEF AskRemove
<1>3. DOMAIN e = Fields /\ e.for \in {"remove", "off"} /\ e.pc \in {"begin", "read"} /\ e.read.by = "none"
  <2>1. CASE e = [Idle EXCEPT !.pc = "begin", !.for = "remove"] BY <2>1 DEF Idle, Fields, None
  <2>2. CASE e = [Idle EXCEPT !.pc = "read", !.for = "off", !.sec = vault] BY <2>2 DEF Idle, Fields, None
  <2> QED BY <1>2, <2>1, <2>2
<1>4. e.pc \notin OnlySetup /\ e.pc \notin {"apply", "start"} BY <1>3 DEF OnlySetup
<1>5. catalog' \in {"none", "copy"} BY <1>1, Facts
<1> QED BY <1>1, <1>2, <1>3, <1>4, <1>5, SavedIsNoCopy, Begins

LEMMA Pasted == ASSUME NamesDiffer, TunnelInv, NEW x \in Requests, Paste(x) PROVE TunnelInv'
<1> DEFINE e == [Idle EXCEPT !.pc = "drop", !.for = "paste"]
<1>1. act' = [act EXCEPT ![x] = e] /\ act[x].pc = "idle" /\ UNCHANGED <<mgr, catalog, run, hist>> BY DEF Paste
<1>2. DOMAIN e = Fields /\ e.for = "paste" /\ e.pc = "drop" /\ e.read.by = "none" BY DEF Idle, Fields, None
<1> HIDE DEF e
<1>3. e.pc \notin OnlySetup /\ e.pc \in Unread BY <1>2 DEF OnlySetup, Unread
<1>4. catalog' \in {"none", "copy"} BY <1>1, Facts
<1>5. vault'.by # "copy" BY DEF Paste, None, Token
<1> QED BY <1>1, <1>2, <1>3, <1>4, <1>5, Begins

LEMMA Restored == ASSUME NamesDiffer, TunnelInv, NEW x \in Requests, Restore(x) PROVE TunnelInv'
<1> DEFINE e == [Idle EXCEPT !.pc = "drop", !.for = "restore"]
<1>1. /\ act' = [act EXCEPT ![x] = e] /\ act[x].pc = "idle" /\ UNCHANGED <<mgr, vault, run, hist>>
      /\ catalog' \in {"none", "copy"}
  BY DEF Restore
<1>2. DOMAIN e = Fields /\ e.for = "restore" /\ e.pc = "drop" /\ e.read.by = "none" BY DEF Idle, Fields, None
<1> HIDE DEF e
<1>3. e.pc \notin OnlySetup /\ e.pc \in Unread BY <1>2 DEF OnlySetup, Unread
<1> QED BY <1>1, <1>2, <1>3, SavedIsNoCopy, Begins

\* The setup that the request starts has the only copy of the certificate.
LEMMA SetUp == ASSUME NamesDiffer, TunnelInv, NEW x \in Requests, Setup(x) PROVE TunnelInv'
<1>1. x \in Actors /\ x \notin Gens /\ act[x].pc = "setup" /\ UNCHANGED <<vault, catalog, run, hist>>
  BY DEF Setup, NamesDiffer, Actors
<1>2. DOMAIN act = Actors /\ ShapeOf(mgr, hist) /\ mgr.gen \in Nat BY Facts
<1>3. ~SettingUp(act[x]) /\ act[x].pc \notin Applying BY <1>1 DEF SettingUp, Working, Applying
<1>4. CASE ~(mgr.st = "authorized" /\ mgr.acct # "none")
  <2>1. act' = [act EXCEPT ![x] = Done] /\ UNCHANGED mgr BY <1>4 DEF Setup
  <2>2. ShapeOf(mgr, hist)' BY <1>1, <1>2, <2>1 DEF ShapeOf
  <2> QED BY <1>1, <1>3, <2>1, <2>2, Leaves
<1>5. CASE mgr.st = "authorized" /\ mgr.acct # "none"
  <2> DEFINE e == [Idle EXCEPT !.pc = "make", !.for = "setup", !.acct = mgr.acct]
             g == mgr.gen + 1
  <2>1. mgr' = Stopped("provisioning") /\ act' = [act EXCEPT ![x] = Done, ![g] = e] BY <1>5 DEF Setup
  <2>2. g \in Gens /\ g \in Actors /\ act[g].pc = "idle" BY Facts DEF Setup, Actors
  <2>3. DOMAIN e = Fields /\ e.pc = "make" /\ e.for = "setup" /\ e.read.by = "none" BY DEF Idle, Fields, None
  <2>4. /\ DOMAIN act' = Actors /\ act'[g] = e /\ act'[x] = Done
        /\ \A y \in Actors : y # g /\ y # x => act'[y] = act[y]
    BY <1>1, <1>2, <2>1, <2>2
  <2>5. mgr'.gen = g /\ mgr'.st = "provisioning" /\ mgr'.acct = "none" /\ ShapeOf(mgr, hist)'
    BY <1>1, <2>1, StoppedIs DEF ShapeOf
  <2>6. hist.asked BY <1>5 DEF TunnelInv, CertIsAskedFor
  <2> HIDE DEF e
  <2>7. Fits(g, e, mgr'.gen, hist'.asked, hist.cut) /\ SettingUp(e)
    BY <1>1, <1>2, <2>3, <2>5, <2>6 DEF Fits, SettingUp, ForSetup, Working, OnlySetup
  <2>8. e.pc \notin Applying /\ act[g].pc \notin Applying BY <2>2, <2>3 DEF Applying
  <2>9. act[x].pc # "idle" BY <1>1
  <2>10. \A y \in Actors : \/ act'[y] = act[y]
                           \/ act'[y] = Done /\ act[y].pc # "idle" /\ act[y].pc \notin Applying
                           \/ /\ Fits(y, act'[y], mgr'.gen, hist'.asked, hist.cut)
                              /\ act[y].pc \notin Applying /\ act'[y].pc \notin Applying
    BY <1>3, <2>4, <2>7, <2>8, <2>9
  <2>11. mgr'.gen \in Gens /\ SettingUp(act'[mgr'.gen]) BY <2>2, <2>4, <2>5, <2>7
  <2> QED BY <1>1, <2>4, <2>5, <2>10, <2>11, Ends
<1> QED BY <1>4, <1>5

\* A setup that fails hands the certificate back to its own sign-in.
LEMMA FailsToSetUp ==
    ASSUME NamesDiffer, TunnelInv, NEW x \in Gens, SetupFailed(x), act[x].pc \in OnlySetup,
           UNCHANGED <<vault, catalog, run>>, ShapeOf(mgr, hist'), hist'.asked = hist.asked, hist'.cut = hist.cut,
           \/ hist'.left
           \/ act[x].pc \notin Applying /\ hist'.crossed = hist.crossed /\ hist'.left = hist.left
    PROVE  TunnelInv'
<1>1. x \in Actors /\ act[x].pc \notin {"idle", "done"} BY DEF Actors, OnlySetup
<1>2. Fits(x, act[x], mgr.gen, hist.asked, hist.cut) /\ DOMAIN act = Actors BY <1>1, Facts
<1>3. act' = [act EXCEPT ![x] = Done] BY DEF SetupFailed
<1>4. CASE x # mgr.gen
  <2>1. UNCHANGED mgr BY <1>4 DEF SetupFailed
  <2>2. ShapeOf(mgr, hist)' BY <2>1
  <2>3. hist'.left \/ (hist'.crossed = hist.crossed /\ hist'.left = hist.left) OBVIOUS
  <2> QED BY <1>1, <1>3, <1>4, <2>1, <2>2, <2>3, Leaves
<1>5. CASE x = mgr.gen
  <2>1. mgr' = [mgr EXCEPT !.st = "authorized", !.acct = act[x].acct] BY <1>5 DEF SetupFailed
  <2>2. mgr'.st = "authorized" /\ mgr'.gen = mgr.gen /\ ShapeOf(mgr, hist)' BY <2>1 DEF ShapeOf
  <2>3. MayGo(x, Done) /\ ~SettingUp(Done) /\ Done.pc \notin Applying BY <1>1, DoneGoes
  <2>4. ActorsFit' /\ DOMAIN act' = Actors /\ act'[x] = Done /\ \A y \in Actors : y # x => act'[y] = act[y]
    BY <1>1, <1>3, <2>2, <2>3, Moves
  <2>5. Shape' BY <2>2, <2>4 DEF TunnelInv, Shape, ShapeOf
  <2>6. SetupKept' BY <1>5, <2>2, <2>3, <2>4 DEF SetupKept
  <2>7. CertIsAskedFor' BY <1>1, <1>2, <1>5, <2>2 DEF CertIsAskedFor, Fits
  <2>8. Settling' BY <1>1, <2>3, <2>4, Settles DEF Applying
  <2> QED BY <2>4, <2>5, <2>6, <2>7, <2>8 DEF TunnelInv, RunFits, OneAtATime, CopiesAreNotRun
<1> QED BY <1>4, <1>5

\* A setup that goes on.
LEMMA SetupGoes ==
    ASSUME NamesDiffer, TunnelInv, NEW x \in Actors, NEW e, act' = [act EXCEPT ![x] = e], act[x].pc \in OnlySetup,
           DOMAIN e = Fields, e.for = act[x].for, e.read = act[x].read, e.pc \in {"dns", "token", "install", "address", "drop"},
           UNCHANGED <<mgr, run, hist, catalog>>, vault'.by = "copy" => hist.cut,
           e.pc \in {"address", "drop"} \/ (act[x].pc \in {"make", "dns", "token"} /\ vault' = vault)
    PROVE  TunnelInv'
<1>1. Fits(x, act[x], mgr.gen, hist.asked, hist.cut) /\ catalog' \in {"none", "copy"} BY Facts
<1>2. act[x].pc \notin {"idle", "done"} /\ act[x].pc \in Working /\ e.pc \in Working BY DEF OnlySetup, Working
<1>3. e.read.by = "copy" => hist.cut BY <1>1 DEF Fits
<1>4. e.pc \in Unread \/ (e.pc \notin {"apply", "start"} /\ act[x].pc \notin Applying /\ vault' = vault)
  BY DEF Unread, Applying
<1> QED BY <1>1, <1>2, <1>3, <1>4, Goes

LEMMA TunnelMade == ASSUME NamesDiffer, TunnelInv, NEW x \in Gens, MakeTunnel(x) PROVE TunnelInv'
<1>1. x \in Actors /\ act[x].pc = "make" /\ UNCHANGED <<vault, catalog, run, hist>> BY DEF MakeTunnel, Actors
<1>2. /\ Fits(x, act[x], mgr.gen, hist.asked, hist.cut) /\ DOMAIN act = Actors /\ ShapeOf(mgr, hist)
      /\ act[x].pc \in OnlySetup
  BY <1>1, Facts DEF OnlySetup
<1>3. CASE SetupFailed(x)
  <2>1. ShapeOf(mgr, hist') /\ act[x].pc \notin Applying BY <1>1, <1>2 DEF Applying
  <2> QED BY <1>1, <1>2, <1>3, <2>1, FailsToSetUp
<1>4. CASE act' = [act EXCEPT ![x].pc = "dns", ![x].id = cloud'.tunnel[act[x].acct]] /\ UNCHANGED mgr
  <2> DEFINE e == [act[x] EXCEPT !.pc = "dns", !.id = cloud'.tunnel[act[x].acct]]
  <2>1. act' = [act EXCEPT ![x] = e] BY <1>1, <1>2, <1>4
  <2>2. DOMAIN e = Fields /\ e.pc = "dns" /\ e.for = act[x].for /\ e.read = act[x].read BY <1>2 DEF Fits, Fields
  <2> HIDE DEF e
  <2> QED BY <1>1, <1>2, <1>4, <2>1, <2>2, SavedIsNoCopy, SetupGoes
<1> QED BY <1>3, <1>4 DEF MakeTunnel

LEMMA Routed == ASSUME NamesDiffer, TunnelInv, NEW x \in Gens, RouteDNS(x) PROVE TunnelInv'
<1>1. x \in Actors /\ act[x].pc = "dns" /\ UNCHANGED <<vault, catalog, run, hist>> BY DEF RouteDNS, Actors
<1>2. /\ Fits(x, act[x], mgr.gen, hist.asked, hist.cut) /\ DOMAIN act = Actors /\ ShapeOf(mgr, hist)
      /\ act[x].pc \in OnlySetup
  BY <1>1, Facts DEF OnlySetup
<1>3. CASE SetupFailed(x)
  <2>1. ShapeOf(mgr, hist') /\ act[x].pc \notin Applying BY <1>1, <1>2 DEF Applying
  <2> QED BY <1>1, <1>2, <1>3, <2>1, FailsToSetUp
<1>4. CASE act' = [act EXCEPT ![x].pc = "token"] /\ UNCHANGED mgr
  <2> DEFINE e == [act[x] EXCEPT !.pc = "token"]
  <2>1. act' = [act EXCEPT ![x] = e] BY <1>1, <1>2, <1>4
  <2>2. DOMAIN e = Fields /\ e.pc = "token" /\ e.for = act[x].for /\ e.read = act[x].read BY <1>2 DEF Fits, Fields
  <2> HIDE DEF e
  <2> QED BY <1>1, <1>2, <1>4, <2>1, <2>2, SavedIsNoCopy, SetupGoes
<1> QED BY <1>3, <1>4 DEF RouteDNS

LEMMA TokenAsked == ASSUME NamesDiffer, TunnelInv, NEW x \in Gens, AskToken(x) PROVE TunnelInv'
<1>1. x \in Actors /\ act[x].pc = "token" /\ UNCHANGED <<vault, catalog, run, hist>> BY DEF AskToken, Actors
<1>2. /\ Fits(x, act[x], mgr.gen, hist.asked, hist.cut) /\ DOMAIN act = Actors /\ ShapeOf(mgr, hist)
      /\ act[x].pc \in OnlySetup
  BY <1>1, Facts DEF OnlySetup
<1>3. CASE SetupFailed(x)
  <2>1. ShapeOf(mgr, hist') /\ act[x].pc \notin Applying BY <1>1, <1>2 DEF Applying
  <2> QED BY <1>1, <1>2, <1>3, <2>1, FailsToSetUp
<1>4. CASE act' = [act EXCEPT ![x].pc = "install"] /\ UNCHANGED mgr
  <2> DEFINE e == [act[x] EXCEPT !.pc = "install"]
  <2>1. act' = [act EXCEPT ![x] = e] BY <1>1, <1>2, <1>4
  <2>2. DOMAIN e = Fields /\ e.pc = "install" /\ e.for = act[x].for /\ e.read = act[x].read BY <1>2 DEF Fits, Fields
  <2> HIDE DEF e
  <2> QED BY <1>1, <1>2, <1>4, <2>1, <2>2, SavedIsNoCopy, SetupGoes
<1> QED BY <1>3, <1>4 DEF AskToken

LEMMA Installed == ASSUME NamesDiffer, TunnelInv, NEW x \in Gens, Install(x) PROVE TunnelInv'
<1> DEFINE e == [act[x] EXCEPT !.pc = "address"]
<1>1. /\ x \in Actors /\ act[x].pc = "install" /\ UNCHANGED <<mgr, catalog, run, hist>>
      /\ act' = [act EXCEPT ![x].pc = "address"] /\ vault'.by = "here"
  BY DEF Install, MadeHere, Actors
<1>2. Fits(x, act[x], mgr.gen, hist.asked, hist.cut) /\ DOMAIN act = Actors /\ act[x].pc \in OnlySetup
  BY <1>1, Facts DEF OnlySetup
<1>3. act' = [act EXCEPT ![x] = e] BY <1>1, <1>2
<1>4. DOMAIN e = Fields /\ e.pc = "address" /\ e.for = act[x].for /\ e.read = act[x].read BY <1>2 DEF Fits, Fields
<1> HIDE DEF e
<1> QED BY <1>1, <1>2, <1>3, <1>4, SetupGoes

LEMMA AddressInstalled == ASSUME NamesDiffer, TunnelInv, NEW x \in Gens, InstallAddress(x) PROVE TunnelInv'
<1>1. x \in Actors /\ act[x].pc = "address" /\ UNCHANGED <<vault, catalog, run>> BY DEF InstallAddress, Actors
<1>2. /\ Fits(x, act[x], mgr.gen, hist.asked, hist.cut) /\ DOMAIN act = Actors /\ ShapeOf(mgr, hist)
      /\ act[x].pc \in OnlySetup
  BY <1>1, Facts DEF OnlySetup
<1>3. CASE SetupFailed(x) /\ hist' = [hist EXCEPT !.faults = @ + 1, !.left = TRUE]
  <2>1. ShapeOf(mgr, hist') /\ hist'.left /\ hist'.asked = hist.asked /\ hist'.cut = hist.cut BY <1>2, <1>3 DEF ShapeOf
  <2> QED BY <1>1, <1>2, <1>3, <2>1, FailsToSetUp
<1>4. CASE act' = [act EXCEPT ![x].pc = "drop"] /\ UNCHANGED <<mgr, hist>>
  <2> DEFINE e == [act[x] EXCEPT !.pc = "drop"]
  <2>1. act' = [act EXCEPT ![x] = e] BY <1>1, <1>2, <1>4
  <2>2. DOMAIN e = Fields /\ e.pc = "drop" /\ e.for = act[x].for /\ e.read = act[x].read BY <1>2 DEF Fits, Fields
  <2> HIDE DEF e
  <2> QED BY <1>1, <1>2, <1>4, <2>1, <2>2, SavedIsNoCopy, SetupGoes
<1> QED BY <1>3, <1>4 DEF InstallAddress

\* Once the current setup is over, nobody has the certificate.
LEMMA Finished == ASSUME NamesDiffer, TunnelInv, NEW x \in Gens, Finish(x) PROVE TunnelInv'
<1>1. /\ x \in Actors /\ act[x].pc = "finish" /\ UNCHANGED <<vault, catalog, run>>
      /\ act' = [act EXCEPT ![x] = Done]
  BY DEF Finish, Actors
<1>2. Fits(x, act[x], mgr.gen, hist.asked, hist.cut) /\ DOMAIN act = Actors /\ ShapeOf(mgr, hist) BY <1>1, Facts
<1>3. SettingUp(act[x]) /\ act[x].pc \notin Applying BY <1>1, <1>2 DEF Fits, SettingUp, Working, OnlySetup, Applying
<1>4. CASE x # mgr.gen
  <2>1. UNCHANGED <<mgr, hist>> BY <1>4 DEF Finish
  <2>2. ShapeOf(mgr, hist)' BY <1>2, <2>1 DEF ShapeOf
  <2> QED BY <1>1, <1>3, <1>4, <2>1, <2>2, Leaves
<1>5. CASE x = mgr.gen
  <2>1. mgr.st = "provisioning" /\ mgr.acct = "none"
    BY <1>3, <1>5 DEF TunnelInv, SetupKept, CertIsAskedFor
  <2>2. mgr' = [mgr EXCEPT !.st = "idle"] /\ hist' = NotAsked BY <1>5 DEF Finish
  <2>3. mgr'.st = "idle" /\ mgr'.gen = mgr.gen /\ mgr'.acct = "none" /\ ShapeOf(mgr, hist)'
    BY <1>2, <2>1, <2>2 DEF ShapeOf, NotAsked
  <2>4. MayGo(x, Done) /\ ~SettingUp(Done) /\ Done.pc \notin Applying BY <1>1, DoneGoes
  <2>5. hist'.cut = hist.cut /\ hist'.crossed = hist.crossed /\ hist'.left = hist.left BY <2>2, StoppedIs
  <2>6. ActorsFit' /\ DOMAIN act' = Actors /\ act'[x] = Done /\ \A y \in Actors : y # x => act'[y] = act[y]
    BY <1>1, <1>5, <2>3, <2>4, <2>5, DoneIs, Moves
  <2>7. Shape' BY <1>1, <2>3, <2>6 DEF TunnelInv, Shape, ShapeOf
  <2>8. SetupKept' BY <1>5, <2>3, <2>4, <2>6 DEF SetupKept
  <2>9. CertIsAskedFor' BY <2>3 DEF CertIsAskedFor
  <2>10. Settling' BY <1>1, <1>3, <2>4, <2>5, <2>6, Settles DEF Applying
  <2> QED BY <1>1, <2>5, <2>6, <2>7, <2>8, <2>9, <2>10 DEF TunnelInv, RunFits, OneAtATime, CopiesAreNotRun
<1> QED BY <1>4, <1>5

-----------------------------------------------------------------------------
(* Turning it off.                                                          *)

\* The calls of a removal, with its sign-in or here only.
OfRemoval == {"begin", "installed", "read", "clear", "forget url", "delete", "route", "forget"}

LEMMA RemovalIsNoSetup ==
    ASSUME NamesDiffer, TunnelInv, NEW x \in Actors, act[x].pc \in OfRemoval
    PROVE  act[x].for # "setup" /\ ~SettingUp(act[x]) /\ act[x].pc \notin {"idle", "done"}
<1>1. Fits(x, act[x], mgr.gen, hist.asked, hist.cut) BY Facts
<1> QED BY <1>1 DEF Fits, ForSetup, Working, OfRemoval, SettingUp

LEMMA RemovalGoes ==
    ASSUME NamesDiffer, TunnelInv, NEW x \in Actors, NEW e, act' = [act EXCEPT ![x] = e], act[x].pc \in OfRemoval,
           DOMAIN e = Fields, e.for = act[x].for, e.read.by = "copy" => hist.cut, e.pc \in OfRemoval \cup {"drop"},
           UNCHANGED <<mgr, run, hist, catalog>>, vault'.by = "copy" => hist.cut,
           e.pc \in {"forget url", "drop"} \/ (act[x].pc # "forget url" /\ vault' = vault)
    PROVE  TunnelInv'
<1>1. act[x].for # "setup" /\ act[x].pc \notin {"idle", "done"} BY RemovalIsNoSetup
<1>2. catalog' \in {"none", "copy"} BY Facts
<1>3. e.pc \notin OnlySetup BY DEF OfRemoval, OnlySetup
<1>4. e.pc \in Unread \/ (e.pc \notin {"apply", "start"} /\ act[x].pc \notin Applying /\ vault' = vault)
  BY DEF OfRemoval, Unread, Applying
<1> QED BY <1>1, <1>2, <1>3, <1>4, Goes

LEMMA RemovalLeaves ==
    ASSUME NamesDiffer, TunnelInv, NEW x \in Actors, act[x].pc \in OfRemoval \ {"forget url"},
           act' = [act EXCEPT ![x] = Done], UNCHANGED <<mgr, hist, run, vault, catalog>>
    PROVE  TunnelInv'
<1>1. ~SettingUp(act[x]) /\ act[x].pc # "idle" BY RemovalIsNoSetup
<1>2. act[x].pc \notin Applying BY DEF OfRemoval, Applying
<1>3. ShapeOf(mgr, hist)' BY Facts DEF ShapeOf
<1> QED BY <1>1, <1>2, <1>3, Leaves

\* The sign-in ends with the removal.
LEMMA RemovalStops ==
    ASSUME NamesDiffer, TunnelInv, NEW x \in Actors, act[x].pc \in OfRemoval \ {"forget url"}, NEW st, st # "provisioning",
           mgr' = Stopped(st), hist' = NotAsked, UNCHANGED <<vault, catalog, run>>,
           act' = [Halted(act) EXCEPT ![x] = Done] \/ act' = [act EXCEPT ![x] = Done]
    PROVE  TunnelInv'
<1>1. act[x].pc # "idle" /\ act[x].pc \notin Applying BY DEF OfRemoval, Applying
<1>2. DOMAIN act = Actors BY Facts
<1>3. /\ DOMAIN act' = Actors /\ act'[x] = Done
      /\ \A y \in Actors : y # x => act'[y] = Halted(act)[y] \/ act'[y] = act[y]
  BY <1>2, HaltedIs
<1>4. \A y \in Actors : \/ act'[y] = act[y]
                        \/ act'[y] = Done /\ act[y].pc # "idle" /\ act[y].pc \notin Applying
  BY <1>1, <1>3, HaltedIs
<1> QED BY <1>3, <1>4, Stops

LEMMA RemovalBegun == ASSUME NamesDiffer, TunnelInv, NEW x \in Actors, RemoveBegin(x) PROVE TunnelInv'
<1>1. act[x].pc = "begin" /\ act[x].pc \in OfRemoval \ {"forget url"} /\ UNCHANGED <<mgr, vault, catalog, run, hist>>
  BY DEF RemoveBegin, OfRemoval
<1>2. Fits(x, act[x], mgr.gen, hist.asked, hist.cut) /\ DOMAIN act = Actors BY Facts
<1>3. CASE act' = [act EXCEPT ![x] = Done] BY <1>1, <1>3, RemovalLeaves
<1>4. CASE act' = [act EXCEPT ![x].pc = "installed", ![x].acct = mgr.acct, ![x].gen = mgr.gen]
  <2> DEFINE e == [act[x] EXCEPT !.pc = "installed", !.acct = mgr.acct, !.gen = mgr.gen]
  <2>1. act' = [act EXCEPT ![x] = e] BY <1>2, <1>4
  <2>2. DOMAIN e = Fields /\ e.pc = "installed" /\ e.for = act[x].for /\ e.read = act[x].read BY <1>2 DEF Fits, Fields
  <2> HIDE DEF e
  <2>3. e.pc \in OfRemoval BY <2>2 DEF OfRemoval
  <2>4. e.read.by = "copy" => hist.cut BY <1>2, <2>2 DEF Fits
  <2> QED BY <1>1, <2>1, <2>2, <2>3, <2>4, SavedIsNoCopy, RemovalGoes
<1> QED BY <1>3, <1>4 DEF RemoveBegin

LEMMA InstalledFound == ASSUME NamesDiffer, TunnelInv, NEW x \in Actors, RemoveInstalled(x) PROVE TunnelInv'
<1>1. act[x].pc = "installed" /\ act[x].pc \in OfRemoval \ {"forget url"} /\ UNCHANGED <<vault, catalog, run>>
  BY DEF RemoveInstalled, OfRemoval
<1>2. Fits(x, act[x], mgr.gen, hist.asked, hist.cut) /\ DOMAIN act = Actors BY Facts
<1>3. CASE ~Made(vault)
  <2>1. mgr' = Stopped("idle") /\ hist' = NotAsked /\ act' = [Halted(act) EXCEPT ![x] = Done]
    BY <1>3 DEF RemoveInstalled, Forget
  <2> QED BY <1>1, <2>1, RemovalStops
<1>4. CASE Made(vault) /\ vault.acct # act[x].acct
  <2>1. act' = [act EXCEPT ![x] = Done] /\ UNCHANGED <<mgr, hist>> BY <1>4 DEF RemoveInstalled
  <2> QED BY <1>1, <2>1, RemovalLeaves
<1>5. CASE Made(vault) /\ vault.acct = act[x].acct
  <2> DEFINE e == [act[x] EXCEPT !.pc = "read", !.sec = vault]
  <2>1. act' = [act EXCEPT ![x] = e] /\ UNCHANGED <<mgr, hist>> BY <1>5 DEF RemoveInstalled
  <2>2. DOMAIN e = Fields /\ e.pc = "read" /\ e.for = act[x].for /\ e.read = act[x].read BY <1>2 DEF Fits, Fields
  <2> HIDE DEF e
  <2>3. e.pc \in OfRemoval BY <2>2 DEF OfRemoval
  <2>4. e.read.by = "copy" => hist.cut BY <1>2, <2>2 DEF Fits
  <2> QED BY <1>1, <2>1, <2>2, <2>3, <2>4, SavedIsNoCopy, RemovalGoes
<1> QED BY <1>3, <1>4, <1>5

LEMMA UninstallReads == ASSUME NamesDiffer, TunnelInv, NEW x \in Actors, UninstallRead(x) PROVE TunnelInv'
<1> DEFINE e == [act[x] EXCEPT !.pc = "clear", !.read = vault]
<1>1. /\ act[x].pc = "read" /\ act[x].pc \in OfRemoval /\ UNCHANGED <<mgr, vault, catalog, run, hist>>
      /\ act' = [act EXCEPT ![x].pc = "clear", ![x].read = vault]
  BY DEF UninstallRead, OfRemoval
<1>2. Fits(x, act[x], mgr.gen, hist.asked, hist.cut) /\ DOMAIN act = Actors BY Facts
<1>3. act' = [act EXCEPT ![x] = e] BY <1>1, <1>2
<1>4. DOMAIN e = Fields /\ e.pc = "clear" /\ e.for = act[x].for /\ e.read = vault BY <1>2 DEF Fits, Fields
<1> HIDE DEF e
<1>5. e.pc \in OfRemoval BY <1>4 DEF OfRemoval
<1> QED BY <1>1, <1>3, <1>4, <1>5, SavedIsNoCopy, RemovalGoes

LEMMA Cleared == ASSUME NamesDiffer, TunnelInv, NEW x \in Actors, Clear(x) PROVE TunnelInv'
<1> DEFINE r == IF Made(act[x].read) THEN act[x].read ELSE None
           p == IF Made(act[x].read) THEN "forget url" ELSE "drop"
           e == [act[x] EXCEPT !.pc = p, !.read = r]
<1>1. act[x].pc = "clear" /\ act[x].pc \in OfRemoval /\ UNCHANGED <<mgr, catalog, run, hist>> /\ vault' = None
  BY DEF Clear, OfRemoval
<1>2. Fits(x, act[x], mgr.gen, hist.asked, hist.cut) /\ DOMAIN act = Actors BY Facts
<1>3. act' = [act EXCEPT ![x] = e] BY <1>2 DEF Clear, Fits, Fields
<1>4. p \in {"forget url", "drop"} /\ (r.by = "copy" => act[x].read.by = "copy") BY DEF None
<1> HIDE DEF p, r
<1>5. DOMAIN e = Fields /\ e.pc = p /\ e.for = act[x].for /\ e.read = r BY <1>2 DEF Fits, Fields
<1> HIDE DEF e
<1>6. e.pc \in OfRemoval \cup {"drop"} BY <1>4, <1>5 DEF OfRemoval
<1>7. vault'.by # "copy" BY <1>1 DEF None
<1>8. e.read.by = "copy" => hist.cut BY <1>2, <1>4, <1>5 DEF Fits
<1> QED BY <1>1, <1>3, <1>4, <1>5, <1>6, <1>7, <1>8, RemovalGoes

LEMMA AddressForgotten == ASSUME NamesDiffer, TunnelInv, NEW x \in Actors, ForgetAddress(x) PROVE TunnelInv'
<1>1. act[x].pc = "forget url" /\ act[x].pc \in OfRemoval /\ UNCHANGED <<mgr, vault, catalog, run>>
  BY DEF ForgetAddress, OfRemoval
<1>2. Fits(x, act[x], mgr.gen, hist.asked, hist.cut) /\ DOMAIN act = Actors /\ ShapeOf(mgr, hist) BY Facts
<1>3. CASE act' = [act EXCEPT ![x].pc = "drop", ![x].read = None] /\ UNCHANGED hist
  <2> DEFINE e == [act[x] EXCEPT !.pc = "drop", !.read = None]
  <2>1. act' = [act EXCEPT ![x] = e] BY <1>2, <1>3
  <2>2. DOMAIN e = Fields /\ e.pc = "drop" /\ e.for = act[x].for /\ e.read = None BY <1>2 DEF Fits, Fields
  <2> HIDE DEF e
  <2>3. e.read.by # "copy" BY <2>2 DEF None
  <2> QED BY <1>1, <1>3, <2>1, <2>2, <2>3, SavedIsNoCopy, RemovalGoes
<1>4. CASE act' = [act EXCEPT ![x] = Done] /\ hist' = [hist EXCEPT !.faults = @ + 1, !.left = TRUE]
  <2>1. ShapeOf(mgr, hist)' /\ hist'.left /\ hist'.asked = hist.asked /\ hist'.cut = hist.cut
    BY <1>1, <1>2, <1>4 DEF ShapeOf
  <2>2. ~SettingUp(act[x]) /\ act[x].pc # "idle" BY <1>1, RemovalIsNoSetup
  <2> QED BY <1>1, <1>4, <2>1, <2>2, Leaves
<1> QED BY <1>3, <1>4 DEF ForgetAddress

LEMMA TunnelDeleted == ASSUME NamesDiffer, TunnelInv, NEW x \in Actors, DeleteTunnel(x) PROVE TunnelInv'
<1>1. act[x].pc = "delete" /\ act[x].pc \in OfRemoval \ {"forget url"} /\ UNCHANGED <<vault, catalog, run>>
  BY DEF DeleteTunnel, OfRemoval
<1>2. Fits(x, act[x], mgr.gen, hist.asked, hist.cut) /\ DOMAIN act = Actors BY Facts
<1>3. CASE act' = [act EXCEPT ![x].pc = "route"] /\ UNCHANGED <<mgr, hist>>
  <2> DEFINE e == [act[x] EXCEPT !.pc = "route"]
  <2>1. act' = [act EXCEPT ![x] = e] BY <1>2, <1>3
  <2>2. DOMAIN e = Fields /\ e.pc = "route" /\ e.for = act[x].for /\ e.read = act[x].read BY <1>2 DEF Fits, Fields
  <2> HIDE DEF e
  <2>3. e.pc \in OfRemoval BY <2>2 DEF OfRemoval
  <2>4. e.read.by = "copy" => hist.cut BY <1>2, <2>2 DEF Fits
  <2> QED BY <1>1, <1>3, <2>1, <2>2, <2>3, <2>4, SavedIsNoCopy, RemovalGoes
<1>4. CASE act' = [act EXCEPT ![x] = Done] /\ UNCHANGED <<mgr, hist>> BY <1>1, <1>4, RemovalLeaves
<1>5. CASE act' = [act EXCEPT ![x] = Done] /\ mgr' = Stopped("error") /\ hist' = NotAsked
  BY <1>1, <1>5, RemovalStops
<1> QED BY <1>3, <1>4, <1>5 DEF DeleteTunnel, Fails

LEMMA RouteDeleted == ASSUME NamesDiffer, TunnelInv, NEW x \in Actors, DeleteRoute(x) PROVE TunnelInv'
<1> DEFINE e == [act[x] EXCEPT !.pc = "forget"]
<1>1. /\ act[x].pc = "route" /\ act[x].pc \in OfRemoval /\ UNCHANGED <<mgr, vault, catalog, run, hist>>
      /\ act' = [act EXCEPT ![x].pc = "forget"]
  BY DEF DeleteRoute, OfRemoval
<1>2. Fits(x, act[x], mgr.gen, hist.asked, hist.cut) /\ DOMAIN act = Actors BY Facts
<1>3. act' = [act EXCEPT ![x] = e] BY <1>1, <1>2
<1>4. DOMAIN e = Fields /\ e.pc = "forget" /\ e.for = act[x].for /\ e.read = act[x].read BY <1>2 DEF Fits, Fields
<1> HIDE DEF e
<1>5. e.pc \in OfRemoval BY <1>4 DEF OfRemoval
<1>6. e.read.by = "copy" => hist.cut BY <1>2, <1>4 DEF Fits
<1> QED BY <1>1, <1>3, <1>4, <1>5, <1>6, SavedIsNoCopy, RemovalGoes

LEMMA Forgotten == ASSUME NamesDiffer, TunnelInv, NEW x \in Actors, ForgetIt(x) PROVE TunnelInv'
<1>1. /\ act[x].pc \in OfRemoval \ {"forget url"} /\ UNCHANGED <<vault, catalog, run>>
      /\ mgr' = Stopped("idle") /\ hist' = NotAsked /\ act' = [Halted(act) EXCEPT ![x] = Done]
  BY DEF ForgetIt, OfRemoval, Forget
<1> QED BY <1>1, RemovalStops

-----------------------------------------------------------------------------
(* Applying what is saved.                                                  *)

LEMMA Dropped == ASSUME NamesDiffer, TunnelInv, NEW x \in Actors, Drop(x) PROVE TunnelInv'
<1> DEFINE e == [act[x] EXCEPT !.pc = "load"]
<1>1. /\ act[x].pc = "drop" /\ UNCHANGED <<mgr, vault, run, hist>> /\ catalog' = "none"
      /\ act' = [act EXCEPT ![x].pc = "load"]
  BY DEF Drop
<1>2. Fits(x, act[x], mgr.gen, hist.asked, hist.cut) /\ DOMAIN act = Actors BY Facts
<1>3. act' = [act EXCEPT ![x] = e] BY <1>1, <1>2
<1>4. DOMAIN e = Fields /\ e.pc = "load" /\ e.for = act[x].for /\ e.read = act[x].read BY <1>2 DEF Fits, Fields
<1> HIDE DEF e
<1>5. e.pc \notin OnlySetup /\ e.pc \in Working /\ act[x].pc \in Working /\ e.pc \in Unread
  BY <1>1, <1>4 DEF OnlySetup, Working, Unread
<1>6. e.read.by = "copy" => hist.cut BY <1>2, <1>4 DEF Fits
<1> QED BY <1>1, <1>3, <1>4, <1>5, <1>6, SavedIsNoCopy, Goes

\* An actor that applies goes on: all but what is saved and what runs.
LEMMA Applies ==
    ASSUME NamesDiffer, TunnelInv, NEW x \in Actors, NEW e, act' = [act EXCEPT ![x] = e],
           act[x].pc \in {"load", "apply", "start"}, MayGo(x, e), SettingUp(e) <=> SettingUp(act[x]),
           UNCHANGED <<mgr, vault, catalog>>, ShapeOf(mgr, hist)', hist'.asked = hist.asked, hist'.cut = hist.cut,
           DOMAIN run' = {"sec", "loop", "proc", "dying", "by"},
           run'.loop \in BOOLEAN, run'.proc \in BOOLEAN, run'.dying \in BOOLEAN
    PROVE  /\ Shape' /\ ActorsFit' /\ CertIsAskedFor' /\ SetupKept'
           /\ act'[x] = e /\ \A y \in Actors : y # x => act'[y] = act[y]
<1>1. ActorsFit' /\ DOMAIN act' = Actors /\ act'[x] = e /\ \A y \in Actors : y # x => act'[y] = act[y] BY Moves
<1>2. Shape' BY <1>1 DEF TunnelInv, Shape, ShapeOf
<1>3. SetupKept' BY <1>1 DEF TunnelInv, SetupKept, Actors
<1>4. CertIsAskedFor' BY DEF TunnelInv, CertIsAskedFor
<1> QED BY <1>1, <1>2, <1>3, <1>4

\* The file is read before the lock is taken: nobody else may be on the way to apply.
LEMMA Loaded == ASSUME NamesDiffer, TunnelInv, NEW x \in Actors, Load(x) PROVE TunnelInv'
<1> DEFINE e == [act[x] EXCEPT !.pc = "apply", !.read = vault]
<1>1. /\ act[x].pc = "load" /\ UNCHANGED <<mgr, vault, catalog, run>>
      /\ act' = [act EXCEPT ![x].pc = "apply", ![x].read = vault]
      /\ hist' = [hist EXCEPT !.crossed = @ \/ \E y \in Actors \ {x} : act[y].pc \in {"apply", "start"}]
  BY DEF Load
<1>2. Fits(x, act[x], mgr.gen, hist.asked, hist.cut) /\ DOMAIN act = Actors /\ ShapeOf(mgr, hist) BY Facts
<1>3. act' = [act EXCEPT ![x] = e] BY <1>1, <1>2
<1>4. DOMAIN e = Fields /\ e.pc = "apply" /\ e.for = act[x].for /\ e.read = vault BY <1>2 DEF Fits, Fields
<1> HIDE DEF e
<1>5. MayGo(x, e) /\ (SettingUp(e) <=> SettingUp(act[x]))
  BY <1>1, <1>2, <1>4, SavedIsNoCopy DEF MayGo, Fits, SettingUp, ForSetup, Working, OnlySetup
<1>6. /\ ShapeOf(mgr, hist)' /\ hist'.asked = hist.asked /\ hist'.cut = hist.cut /\ hist'.left = hist.left
      /\ ~hist'.crossed => ~hist.crossed /\ \A y \in Actors \ {x} : act[y].pc \notin {"apply", "start"}
  BY <1>1, <1>2 DEF ShapeOf
<1>7. /\ DOMAIN run = {"sec", "loop", "proc", "dying", "by"}
      /\ run.loop \in BOOLEAN /\ run.proc \in BOOLEAN /\ run.dying \in BOOLEAN
  BY DEF TunnelInv, Shape
<1>8. /\ Shape' /\ ActorsFit' /\ CertIsAskedFor' /\ SetupKept'
      /\ act'[x] = e /\ \A y \in Actors : y # x => act'[y] = act[y]
  BY <1>1, <1>3, <1>5, <1>6, <1>7, Applies
<1>9. Settling'
  <2> SUFFICES ASSUME ~hist'.crossed, ~hist'.left PROVE Settling' BY DEF Settling
  <2>1. \A y \in Actors : act'[y].pc \in {"apply", "start"} => y = x BY <1>6, <1>8
  <2>2. \A y \in Actors : act'[y].pc = "apply" => act'[y].read = vault' BY <1>1, <1>4, <1>8, <2>1
  <2> QED BY <1>4, <1>8, <2>1, <2>2 DEF Settling
<1> QED BY <1>1, <1>6, <1>8, <1>9 DEF TunnelInv, RunFits, OneAtATime, CopiesAreNotRun

\* Where an actor goes once what it read runs.
LEMMA AfterIs ==
    ASSUME NamesDiffer, TunnelInv, NEW x \in Actors, act[x].pc \in {"apply", "start"}
    PROVE  /\ MayGo(x, After(x)) /\ (SettingUp(After(x)) <=> SettingUp(act[x]))
           /\ After(x).pc \in {"finish", "delete", "forget", "done"}
<1>1. Fits(x, act[x], mgr.gen, hist.asked, hist.cut) BY Facts
<1>2. None.by # "copy" BY DEF None
<1>3. CASE act[x].for = "setup"
  <2>1. After(x) = [act[x] EXCEPT !.pc = "finish", !.read = None] BY <1>3 DEF After
  <2>2. DOMAIN After(x) = Fields /\ After(x).pc = "finish" /\ After(x).for = "setup" /\ After(x).read = None
    BY <1>1, <1>3, <2>1 DEF Fits, Fields
  <2> QED BY <1>2, <1>3, <2>2 DEF MayGo, SettingUp, Working, ForSetup, OnlySetup
<1>4. CASE act[x].for = "remove"
  <2>1. After(x) = [act[x] EXCEPT !.pc = "delete", !.read = None] BY <1>4 DEF After
  <2>2. DOMAIN After(x) = Fields /\ After(x).pc = "delete" /\ After(x).for = "remove" /\ After(x).read = None
    BY <1>1, <1>4, <2>1 DEF Fits, Fields
  <2> QED BY <1>2, <1>4, <2>2 DEF MayGo, SettingUp, OnlySetup
<1>5. CASE act[x].for = "off"
  <2>1. After(x) = [act[x] EXCEPT !.pc = "forget", !.read = None] BY <1>5 DEF After
  <2>2. DOMAIN After(x) = Fields /\ After(x).pc = "forget" /\ After(x).for = "off" /\ After(x).read = None
    BY <1>1, <1>5, <2>1 DEF Fits, Fields
  <2> QED BY <1>2, <1>5, <2>2 DEF MayGo, SettingUp, OnlySetup
<1>6. CASE act[x].for \notin {"setup", "remove", "off"}
  <2>1. After(x) = Done BY <1>6 DEF After
  <2>2. MayGo(x, Done) /\ ~SettingUp(Done) BY DoneGoes
  <2> QED BY <1>6, <2>1, <2>2, DoneIs DEF SettingUp
<1> QED BY <1>3, <1>4, <1>5, <1>6

LEMMA Applied == ASSUME NamesDiffer, TunnelInv, NEW x \in Actors, Apply(x) PROVE TunnelInv'
<1>1. act[x].pc = "apply" /\ UNCHANGED <<mgr, vault, catalog, hist>> BY DEF Apply
<1>2. Fits(x, act[x], mgr.gen, hist.asked, hist.cut) /\ DOMAIN act = Actors /\ ShapeOf(mgr, hist) BY Facts
<1>3. ShapeOf(mgr, hist)' BY <1>1, <1>2 DEF ShapeOf
<1>4. /\ DOMAIN run = {"sec", "loop", "proc", "dying", "by"}
      /\ run.loop \in BOOLEAN /\ run.proc \in BOOLEAN /\ run.dying \in BOOLEAN
  BY DEF TunnelInv, Shape
<1>5. CASE Same(act[x].read)
  <2> DEFINE e == After(x)
  <2>1. act' = [act EXCEPT ![x] = e] /\ UNCHANGED run BY <1>5 DEF Apply
  <2>2. /\ MayGo(x, e) /\ (SettingUp(e) <=> SettingUp(act[x])) /\ e.pc \in {"finish", "delete", "forget", "done"}
    BY <1>1, AfterIs
  <2> HIDE DEF e
  <2>3. /\ Shape' /\ ActorsFit' /\ CertIsAskedFor' /\ SetupKept'
        /\ act'[x] = e /\ \A y \in Actors : y # x => act'[y] = act[y]
    BY <1>1, <1>3, <1>4, <2>1, <2>2, Applies
  <2>4. act[x].read = run.sec BY <1>5 DEF Same
  <2>5. Settling'
    <3> SUFFICES ASSUME ~hist.crossed, ~hist.left PROVE Settling' BY <1>1 DEF Settling
    <3>1. \A y \in Actors : y # x => act[y].pc \notin {"apply", "start"} BY <1>1 DEF TunnelInv, Settling
    <3>2. \A y \in Actors : act'[y].pc \notin {"apply", "start"} BY <2>2, <2>3, <3>1
    <3>3. (\A y \in Actors : act'[y].pc \notin Unread) => \A y \in Actors : act[y].pc \notin Unread
      BY <1>1, <2>3 DEF Unread
    <3>4. (\A y \in Actors : act[y].pc \notin Unread) => run.sec = vault
      BY <1>1, <2>4 DEF TunnelInv, Settling
    <3> QED BY <1>1, <2>1, <3>2, <3>3, <3>4 DEF Settling
  <2> QED BY <1>1, <2>1, <2>3, <2>5 DEF TunnelInv, RunFits, OneAtATime, CopiesAreNotRun
<1>6. CASE ~Same(act[x].read)
  <2> DEFINE e == [act[x] EXCEPT !.pc = "start"]
  <2>1. /\ act' = [act EXCEPT ![x].pc = "start"]
        /\ run' = [sec |-> act[x].read, loop |-> FALSE, proc |-> FALSE, dying |-> run.dying \/ run.proc, by |-> x]
    BY <1>6 DEF Apply
  <2>2. act' = [act EXCEPT ![x] = e] BY <1>2, <2>1
  <2>3. DOMAIN e = Fields /\ e.pc = "start" /\ e.for = act[x].for /\ e.read = act[x].read BY <1>2 DEF Fits, Fields
  <2> HIDE DEF e
  <2>4. MayGo(x, e) /\ (SettingUp(e) <=> SettingUp(act[x]))
    BY <1>1, <1>2, <2>3 DEF MayGo, Fits, SettingUp, ForSetup, Working, OnlySetup
  <2>5. /\ run'.sec = act[x].read /\ run'.loop = FALSE /\ run'.proc = FALSE /\ run'.dying \in BOOLEAN
        /\ DOMAIN run' = {"sec", "loop", "proc", "dying", "by"}
    BY <1>4, <2>1
  <2>6. /\ Shape' /\ ActorsFit' /\ CertIsAskedFor' /\ SetupKept'
        /\ act'[x] = e /\ \A y \in Actors : y # x => act'[y] = act[y]
    BY <1>1, <1>3, <2>2, <2>4, <2>5, Applies
  <2>7. Settling'
    <3> SUFFICES ASSUME ~hist.crossed, ~hist.left PROVE Settling' BY <1>1 DEF Settling
    <3>1. \A y \in Actors : y # x => act[y].pc \notin {"apply", "start"} BY <1>1 DEF TunnelInv, Settling
    <3>2. /\ \A y \in Actors : act'[y].pc \in {"apply", "start"} => y = x
          /\ \A y \in Actors : act'[y].pc # "apply"
      BY <2>3, <2>6, <3>1
    <3>3. (\A y \in Actors : act'[y].pc \notin Unread) => \A y \in Actors : act[y].pc \notin Unread
      BY <1>1, <2>6 DEF Unread
    <3>4. (\A y \in Actors : act[y].pc \notin Unread) => run'.sec = vault
      BY <1>1, <2>5 DEF TunnelInv, Settling
    <3> QED BY <1>1, <3>2, <3>3, <3>4 DEF Settling
  <2>8. RunFits' BY <2>5 DEF RunFits, OneAtATime
  <2>9. CopiesAreNotRun' BY <1>1, <1>2, <2>5 DEF TunnelInv, CopiesAreNotRun, Fits
  <2> QED BY <2>6, <2>7, <2>8, <2>9 DEF TunnelInv
<1> QED BY <1>5, <1>6

\* The new loop starts when the old one has ended.
LEMMA Started == ASSUME NamesDiffer, TunnelInv, NEW x \in Actors, Start(x) PROVE TunnelInv'
<1> DEFINE e == After(x)
<1>1. /\ act[x].pc = "start" /\ UNCHANGED <<mgr, vault, catalog, hist>> /\ act' = [act EXCEPT ![x] = e]
      /\ ~run.dying /\ run' = [run EXCEPT !.loop = run.sec # None, !.by = 0]
  BY DEF Start, Waited
<1>2. ShapeOf(mgr, hist)' BY <1>1, Facts DEF ShapeOf
<1>3. MayGo(x, e) /\ (SettingUp(e) <=> SettingUp(act[x])) /\ e.pc \in {"finish", "delete", "forget", "done"}
  BY <1>1, AfterIs
<1> HIDE DEF e
<1>4. /\ run'.sec = run.sec /\ run'.loop \in BOOLEAN /\ run'.proc = run.proc /\ run'.dying = FALSE
      /\ run'.proc \in BOOLEAN /\ DOMAIN run' = {"sec", "loop", "proc", "dying", "by"}
  BY <1>1 DEF TunnelInv, Shape
<1>5. /\ Shape' /\ ActorsFit' /\ CertIsAskedFor' /\ SetupKept'
      /\ act'[x] = e /\ \A y \in Actors : y # x => act'[y] = act[y]
  BY <1>1, <1>2, <1>3, <1>4, Applies
<1>6. Settling'
  <2> SUFFICES ASSUME ~hist.crossed, ~hist.left PROVE Settling' BY <1>1 DEF Settling
  <2>1. \A y \in Actors : y # x => act[y].pc \notin {"apply", "start"} BY <1>1 DEF TunnelInv, Settling
  <2>2. \A y \in Actors : act'[y].pc \notin {"apply", "start"} BY <1>3, <1>5, <2>1
  <2>3. (\A y \in Actors : act'[y].pc \notin Unread) => \A y \in Actors : act[y].pc \notin Unread
    BY <1>1, <1>5 DEF Unread
  <2>4. \A y \in Actors : act[y].pc # "apply" BY <1>1, <2>1
  <2>5. (\A y \in Actors : act[y].pc \notin Unread) => run.sec = vault BY <2>4 DEF TunnelInv, Settling
  <2> QED BY <1>1, <1>4, <2>2, <2>3, <2>5 DEF Settling
<1>7. RunFits' BY <1>4 DEF RunFits, OneAtATime
<1>8. CopiesAreNotRun' BY <1>1, <1>4 DEF TunnelInv, CopiesAreNotRun
<1> QED BY <1>5, <1>6, <1>7, <1>8 DEF TunnelInv

\* The process starts, ends, and dies.
LEMMA ProcessMoves == ASSUME NamesDiffer, TunnelInv, Runs \/ Dies PROVE TunnelInv'
<1>1. UNCHANGED <<mgr, act, vault, catalog, hist>> BY DEF Runs, Dies
<1>2. /\ run'.sec = run.sec /\ run'.loop = run.loop /\ run'.proc \in BOOLEAN /\ run'.dying \in BOOLEAN
      /\ DOMAIN run' = {"sec", "loop", "proc", "dying", "by"} /\ run.loop \in BOOLEAN
  BY DEF Runs, Dies, TunnelInv, Shape
<1>3. Shape' BY <1>1, <1>2 DEF TunnelInv, Shape
<1>4. RunFits' BY <1>2 DEF Runs, Dies, TunnelInv, Shape, RunFits, OneAtATime
<1>5. Settling' BY <1>1, <1>2 DEF TunnelInv, Settling
<1> QED BY <1>1, <1>2, <1>3, <1>4, <1>5 DEF TunnelInv, ActorsFit, CertIsAskedFor, SetupKept, CopiesAreNotRun

-----------------------------------------------------------------------------
\* What the catalogue held moves into the file, and what the file holds runs.
LEMMA Boots == ASSUME NamesDiffer, TunnelInv, Boot PROVE TunnelInv'
<1> DEFINE kept == IF catalog = "none" \/ vault # None THEN vault ELSE Token(catalog)
<1>1. /\ vault' = kept /\ catalog' = "none" /\ mgr' = Stopped("idle")
      /\ run' = [sec |-> kept, loop |-> kept # None, proc |-> FALSE, dying |-> FALSE, by |-> 0]
      /\ act' = [x \in Actors |-> IF act[x].pc = "idle" THEN Idle ELSE Done]
      /\ hist' = [hist EXCEPT !.asked = FALSE, !.crashes = @ + 1, !.crossed = FALSE, !.left = FALSE,
                              !.cut = @ \/ catalog = "copy"]
  BY DEF Boot
<1>2. mgr.gen \in Nat /\ ShapeOf(mgr, hist) /\ \A x \in Actors : Fits(x, act[x], mgr.gen, hist.asked, hist.cut) BY Facts
<1>3. /\ ShapeOf(mgr, hist)' /\ mgr'.st = "idle" /\ mgr'.acct = "none" /\ mgr'.gen = mgr.gen + 1
      /\ (hist.cut => hist'.cut) /\ (catalog = "copy" => hist'.cut)
  <2>1. ShapeOf(Stopped("idle"), hist) BY StoppedIs
  <2> QED BY <1>1, <1>2, <2>1, StoppedIs DEF ShapeOf
<1>4. kept.by = "copy" => hist'.cut
  <2>1. CASE kept = vault BY <1>3, <2>1, SavedIsNoCopy
  <2>2. CASE kept = Token(catalog) BY <1>3, <2>2 DEF Token
  <2> QED BY <2>1, <2>2
<1> HIDE DEF kept
<1>5. Shape' BY <1>1, <1>3 DEF Shape, ShapeOf
<1>6. ActorsFit'
  <2> SUFFICES ASSUME NEW x \in Actors PROVE Fits(x, act'[x], mgr.gen + 1, hist'.asked, hist'.cut)
    BY <1>3 DEF ActorsFit
  <2>1. Fits(x, act[x], mgr.gen, hist.asked, hist.cut) BY <1>2
  <2>2. act'[x] = IF act[x].pc = "idle" THEN Idle ELSE Done BY <1>1
  <2> QED BY <1>2, <2>1, <2>2, DoneIs DEF Fits, Gens, NamesDiffer, OnlySetup
<1>7. SetupKept'
  <2>1. \A x \in Actors : act'[x].pc \in {"idle", "done"} BY <1>1, DoneIs
  <2>2. \A x \in Gens : ~SettingUp(act'[x]) BY <2>1 DEF SettingUp, Working, Actors
  <2> QED BY <1>3, <2>2 DEF SetupKept
<1>8. Settling'
  <2>1. \A x \in Actors : act'[x].pc \in {"idle", "done"} BY <1>1, DoneIs
  <2>2. run'.sec = vault' BY <1>1
  <2> QED BY <2>1, <2>2 DEF Settling
<1>9. RunFits' BY <1>1 DEF RunFits, OneAtATime
<1>10. CopiesAreNotRun' BY <1>1, <1>4 DEF CopiesAreNotRun
<1>11. CertIsAskedFor' BY <1>3 DEF CertIsAskedFor
<1> QED BY <1>5, <1>6, <1>7, <1>8, <1>9, <1>10, <1>11 DEF TunnelInv

-----------------------------------------------------------------------------
(* Every step.                                                              *)

LEMMA NextHolds == ASSUME NamesDiffer, TunnelInv, [Next]_vars PROVE TunnelInv'
<1>1. CASE UNCHANGED vars
  BY <1>1 DEF TunnelInv, vars, Shape, ActorsFit, CertIsAskedFor, SetupKept, RunFits, OneAtATime, Settling, CopiesAreNotRun
<1>2. CASE \/ \E remove \in BOOLEAN : StartLogin(remove)
           \/ Cancel \/ HoldEnds \/ Boot \/ Runs \/ Dies
  BY <1>2, NewLogin, Cancelled, HoldEnded, Boots, ProcessMoves
<1>3. CASE \E x \in Gens :
              \/ Fetch(x) \/ Authorized(x)
              \/ MakeTunnel(x) \/ RouteDNS(x) \/ AskToken(x) \/ Install(x) \/ InstallAddress(x) \/ Finish(x)
  BY <1>3, Fetched, LoggedIn, TunnelMade, Routed, TokenAsked, Installed, AddressInstalled, Finished
<1>4. CASE \E x \in Requests : AskSetup(x) \/ Setup(x) \/ AskRemove(x) \/ Paste(x) \/ Restore(x)
  BY <1>4, SetupAsked, SetUp, RemoveAsked, Pasted, Restored
<1>5. CASE \E x \in Actors :
              \/ RemoveBegin(x) \/ RemoveInstalled(x) \/ UninstallRead(x) \/ Clear(x) \/ ForgetAddress(x)
              \/ DeleteTunnel(x) \/ DeleteRoute(x) \/ ForgetIt(x)
              \/ Drop(x) \/ Load(x) \/ Apply(x) \/ Start(x)
  BY <1>5, RemovalBegun, InstalledFound, UninstallReads, Cleared, AddressForgotten, TunnelDeleted, RouteDeleted,
     Forgotten, Dropped, Loaded, Applied, Started
<1> QED BY <1>1, <1>2, <1>3, <1>4, <1>5 DEF Next

\* The inductive invariant (Manager, Vault, Runner): where each goroutine and request can
\* stand, what it has read, and who applies.
THEOREM Kept == ASSUME NamesDiffer PROVE Spec => []TunnelInv
<1>1. Init => TunnelInv BY InitHolds
<1>2. TunnelInv /\ [Next]_vars => TunnelInv' BY NextHolds
<1> QED BY <1>1, <1>2, PTL DEF Spec

\* However sign-ins, setups, removals, pasted tokens, restored copies, faults and crashes
\* cross: a certificate is kept only for a sign-in that was asked for, a setup that shows
\* as running has somebody to end it, one tunnel runs, and it is the one that is saved
\* (Manager, applyTunnel, Apply).
THEOREM TunnelKept == ASSUME NamesDiffer PROVE Spec => []TunnelHolds
<1>1. Spec => []TunnelInv BY Kept
<1>2. TunnelInv => TunnelHolds BY InvIsEnough
<1> QED BY <1>1, <1>2, PTL
=============================================================================
