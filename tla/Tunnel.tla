------------------------------- MODULE Tunnel -------------------------------
(* The tunnel for away from home: the sign-in to Cloudflare                  *)
(* (cloudflare/manager.go), the secrets file (cloudflare/vault.go), the      *)
(* requests of the owner (httpapi/cloudflare.go, remote.go) and the process  *)
(* that runs the tunnel (tunnel/tunnel.go).                                  *)
(*                                                                           *)
(* A sign-in has a generation: what runs for an older one changes nothing    *)
(* of the state.  Actors are the goroutines of sign-ins, numbered by their   *)
(* generation, and the owner's requests; each stands at its next call.       *)
EXTENDS Integers, FiniteSets

CONSTANTS
    MaxGen,         \* sign-ins and setups
    Requests,       \* the owner's requests, numbered from above MaxGen
    Kinds,          \* of requests: "setup", "remove", "paste", "restore"
    Accounts,       \* at Cloudflare, each with a domain
    Before,         \* how it may be set up: "none", "owner" (a pasted token), "here"
    MaxCrashes,     \* of this server
    MaxFaults       \* settings that could not be saved

VARIABLES
    mgr,        \* Manager: state, generation, the certificate's account
    act,        \* actors: next call, purpose, and what each has read
    vault,      \* the secrets file
    catalog,    \* a token the catalogue holds: of an older version, or of a restored copy
    url,        \* the public address in the settings
    cloud,      \* at Cloudflare: the tunnel of this server, and what the name points to
    run,        \* Runner: its secret, its loop, its processes, and who holds applyMu
    hist        \* what happened, for the properties

vars == <<mgr, act, vault, catalog, url, cloud, run, hist>>

Gens == 1 .. MaxGen
Actors == Gens \cup Requests

\* Secret: of a tunnel made here, or with a pasted, an older or a restored token.
None == [by |-> "none", id |-> 0, acct |-> "none"]
Token(by) == [by |-> by, id |-> 0, acct |-> "none"]
MadeHere(id, a) == [by |-> "here", id |-> id, acct |-> a]
Made(s) == s.by = "here"

Idle == [pc |-> "idle", for |-> "none", acct |-> "none", gen |-> 0, id |-> 0, sec |-> None, read |-> None]
Done == [Idle EXCEPT !.pc = "done"]

Init ==
    /\ mgr = [st |-> "idle", gen |-> 0, acct |-> "none", remove |-> FALSE]
    /\ act = [x \in Actors |-> Idle]
    /\ catalog = "none"
    /\ \/ /\ vault \in {IF b = "owner" THEN Token(b) ELSE None : b \in Before \ {"here"}} /\ url = "none"
          /\ cloud = [tunnel |-> [a \in Accounts |-> 0], name |-> [a \in Accounts |-> 0], made |-> 0]
       \/ \E b \in Accounts :
             /\ "here" \in Before /\ vault = MadeHere(1, b) /\ url = b
             /\ cloud = [tunnel |-> [a \in Accounts |-> IF a = b THEN 1 ELSE 0],
                         name |-> [a \in Accounts |-> IF a = b THEN 1 ELSE 0], made |-> 1]
    /\ run = [sec |-> vault, loop |-> vault # None, proc |-> FALSE, dying |-> FALSE, by |-> 0]
    /\ hist = [asked |-> FALSE, crossed |-> FALSE, cut |-> FALSE, left |-> FALSE, crashes |-> 0, faults |-> 0]

-----------------------------------------------------------------------------
(* Manager.                                                                  *)

\* stopLocked: whatever runs is stopped, the certificate is dropped.
Stopped(st) == [st |-> st, gen |-> mgr.gen + 1, acct |-> "none", remove |-> FALSE]

\* What runs for a sign-in waits for the login service until it is stopped.
Halted(a) == [x \in Actors |-> IF a[x].pc = "fetch" THEN Done ELSE a[x]]

NotAsked == [hist EXCEPT !.asked = FALSE]

\* cloudflareLogin, StartLogin.
StartLogin(remove) ==
    /\ remove \/ ~Made(vault)
    /\ mgr.st # "provisioning" /\ mgr.gen < MaxGen
    /\ mgr' = [Stopped("waiting") EXCEPT !.remove = remove]
    /\ act' = [Halted(act) EXCEPT ![mgr.gen + 1] = [Idle EXCEPT !.pc = "fetch", !.for = IF remove THEN "remove" ELSE "setup"]]
    /\ hist' = [hist EXCEPT !.asked = TRUE]
    /\ UNCHANGED <<vault, catalog, url, cloud, run>>

\* cloudflareCancel, Cancel.
Cancel ==
    /\ mgr.st \in {"waiting", "authorized", "error"} /\ mgr.gen < MaxGen
    /\ mgr' = Stopped("idle") /\ act' = Halted(act) /\ hist' = NotAsked
    /\ UNCHANGED <<vault, catalog, url, cloud, run>>

\* fail: for the current sign-in only.
Fails(gen) ==
    IF gen = mgr.gen THEN mgr' = Stopped("error") /\ hist' = NotAsked ELSE UNCHANGED <<mgr, hist>>

\* wait, up to the answer: the owner authorises with an account, or does not.
Fetch(x) ==
    /\ act[x].pc = "fetch"
    /\ \/ \E a \in Accounts : act' = [act EXCEPT ![x].pc = "got", ![x].acct = a] /\ UNCHANGED <<mgr, hist>>
       \/ act' = [act EXCEPT ![x] = Done] /\ Fails(x)
    /\ UNCHANGED <<vault, catalog, url, cloud, run>>

\* wait, from the answer on: a sign-in to remove goes on as Remove.
Authorized(x) ==
    /\ act[x].pc = "got"
    /\ IF x # mgr.gen THEN act' = [act EXCEPT ![x] = Done] /\ UNCHANGED mgr
       ELSE /\ mgr' = [mgr EXCEPT !.st = "authorized", !.acct = act[x].acct]
            /\ act' = [act EXCEPT ![x] = IF act[x].for = "remove" THEN [Idle EXCEPT !.pc = "begin", !.for = "remove"] ELSE Done]
    /\ UNCHANGED <<vault, catalog, url, cloud, run, hist>>

\* holdFor: a certificate nobody used.
HoldEnds ==
    /\ mgr.st = "authorized" /\ mgr.gen < MaxGen /\ Fails(mgr.gen)
    /\ UNCHANGED <<act, vault, catalog, url, cloud, run>>

\* Forget.
Forget == mgr' = Stopped("idle") /\ hist' = NotAsked

-----------------------------------------------------------------------------
(* Setup.                                                                    *)

\* cloudflareSetup: the request looks for a saved tunnel first.
AskSetup(x) ==
    /\ "setup" \in Kinds
    /\ act[x].pc = "idle" /\ ~Made(vault)
    /\ act' = [act EXCEPT ![x] = [Idle EXCEPT !.pc = "setup", !.for = "setup"]]
    /\ UNCHANGED <<mgr, vault, catalog, url, cloud, run, hist>>

\* Setup: the goroutine has the only copy of the certificate.
Setup(x) ==
    /\ act[x].pc = "setup" /\ mgr.gen < MaxGen
    /\ IF mgr.st = "authorized" /\ mgr.acct # "none"
       THEN /\ mgr' = Stopped("provisioning")
            /\ act' = [act EXCEPT ![x] = Done,
                                  ![mgr.gen + 1] = [Idle EXCEPT !.pc = "make", !.for = "setup", !.acct = mgr.acct]]
       ELSE act' = [act EXCEPT ![x] = Done] /\ UNCHANGED mgr
    /\ UNCHANGED <<vault, catalog, url, cloud, run, hist>>

\* Mutant: whichever sign-in is current.
SetupFailedLate(x) ==
    /\ act' = [act EXCEPT ![x] = Done]
    /\ mgr' = [mgr EXCEPT !.st = "authorized", !.acct = act[x].acct]
\* setupFailed: the certificate is handed back.
SetupFailed(x) ==
    /\ act' = [act EXCEPT ![x] = Done]
    /\ mgr' = IF x = mgr.gen THEN [mgr EXCEPT !.st = "authorized", !.acct = act[x].acct] ELSE mgr

\* makeTunnel: the one of this server's name is used again, and one that may not be
\* routed at Cloudflare is replaced.
MakeTunnel(x) ==
    LET a == act[x].acct
    IN  /\ act[x].pc = "make"
        /\ \/ SetupFailed(x) /\ cloud' = IF cloud.tunnel[a] = 0 THEN [cloud EXCEPT !.tunnel[a] = cloud.made + 1, !.made = @ + 1]
                                         ELSE cloud
           \/ SetupFailed(x) /\ UNCHANGED cloud
           \/ \E again \in BOOLEAN :
                 /\ again => cloud.tunnel[a] # 0
                 /\ cloud' = IF again THEN cloud ELSE [cloud EXCEPT !.tunnel[a] = cloud.made + 1, !.made = @ + 1]
                 /\ act' = [act EXCEPT ![x].pc = "dns", ![x].id = cloud'.tunnel[a]]
                 /\ UNCHANGED mgr
        /\ UNCHANGED <<vault, catalog, url, run, hist>>

\* RouteDNS: a name in use fails unless the owner said to replace it.
RouteDNS(x) ==
    /\ act[x].pc = "dns"
    /\ \/ /\ cloud' = [cloud EXCEPT !.name[act[x].acct] = act[x].id]
          /\ act' = [act EXCEPT ![x].pc = "token"] /\ UNCHANGED mgr
       \/ SetupFailed(x) /\ UNCHANGED cloud
    /\ UNCHANGED <<vault, catalog, url, run, hist>>

\* TunnelToken.
AskToken(x) ==
    /\ act[x].pc = "token"
    /\ \/ cloud.tunnel[act[x].acct] = act[x].id /\ act' = [act EXCEPT ![x].pc = "install"] /\ UNCHANGED mgr
       \/ SetupFailed(x)
    /\ UNCHANGED <<vault, catalog, url, cloud, run, hist>>

\* Install: the file first, then the address, then the process (Drop to Start).
Install(x) ==
    /\ act[x].pc = "install"
    /\ vault' = MadeHere(act[x].id, act[x].acct)
    /\ act' = [act EXCEPT ![x].pc = "address"]
    /\ UNCHANGED <<mgr, catalog, url, cloud, run, hist>>
InstallAddress(x) ==
    /\ act[x].pc = "address"
    /\ \/ url' = act[x].acct /\ act' = [act EXCEPT ![x].pc = "drop"] /\ UNCHANGED <<mgr, hist>>
       \/ /\ hist.faults < MaxFaults
          /\ SetupFailed(x) /\ hist' = [hist EXCEPT !.faults = @ + 1, !.left = TRUE] /\ UNCHANGED url
    /\ UNCHANGED <<vault, catalog, cloud, run>>

\* provision ends, connected or not.
Finish(x) ==
    /\ act[x].pc = "finish"
    /\ act' = [act EXCEPT ![x] = Done]
    /\ IF x = mgr.gen THEN mgr' = [mgr EXCEPT !.st = "idle"] /\ hist' = NotAsked ELSE UNCHANGED <<mgr, hist>>
    /\ UNCHANGED <<vault, catalog, url, cloud, run>>

-----------------------------------------------------------------------------
(* Turning it off.                                                           *)

\* cloudflareRemove: with the sign-in, or here only.
AskRemove(x) ==
    /\ "remove" \in Kinds
    /\ act[x].pc = "idle"
    /\ \/ act' = [act EXCEPT ![x] = [Idle EXCEPT !.pc = "begin", !.for = "remove"]]
       \/ act' = [act EXCEPT ![x] = [Idle EXCEPT !.pc = "read", !.for = "off", !.sec = vault]]
    /\ UNCHANGED <<mgr, vault, catalog, url, cloud, run, hist>>

\* Remove: needs a certificate, of the account that made the saved tunnel.
RemoveBegin(x) ==
    /\ act[x].pc = "begin"
    /\ act' = IF mgr.st = "authorized" /\ mgr.acct # "none"
              THEN [act EXCEPT ![x].pc = "installed", ![x].acct = mgr.acct, ![x].gen = mgr.gen]
              ELSE [act EXCEPT ![x] = Done]
    /\ UNCHANGED <<mgr, vault, catalog, url, cloud, run, hist>>
RemoveInstalled(x) ==
    /\ act[x].pc = "installed" /\ mgr.gen < MaxGen
    /\ IF ~Made(vault) THEN Forget /\ act' = [Halted(act) EXCEPT ![x] = Done]
       ELSE /\ act' = [act EXCEPT ![x] = IF vault.acct = act[x].acct THEN [@ EXCEPT !.pc = "read", !.sec = vault] ELSE Done]
            /\ UNCHANGED <<mgr, hist>>
    /\ UNCHANGED <<vault, catalog, url, cloud, run>>

\* Uninstall: the file, then the address if it is the tunnel's, then the process.
UninstallRead(x) ==
    /\ act[x].pc = "read" /\ act' = [act EXCEPT ![x].pc = "clear", ![x].read = vault]
    /\ UNCHANGED <<mgr, vault, catalog, url, cloud, run, hist>>
Clear(x) ==
    /\ act[x].pc = "clear" /\ vault' = None
    /\ act' = [act EXCEPT ![x].pc = IF Made(act[x].read) THEN "forget url" ELSE "drop", ![x].read = IF Made(@) THEN @ ELSE None]
    /\ UNCHANGED <<mgr, catalog, url, cloud, run, hist>>
ForgetAddress(x) ==
    /\ act[x].pc = "forget url"
    /\ \/ /\ url' = IF url = act[x].read.acct THEN "none" ELSE url
          /\ act' = [act EXCEPT ![x].pc = "drop", ![x].read = None] /\ UNCHANGED hist
       \/ /\ url = act[x].read.acct /\ hist.faults < MaxFaults
          /\ act' = [act EXCEPT ![x] = Done] /\ UNCHANGED url
          /\ hist' = [hist EXCEPT !.faults = @ + 1, !.left = TRUE]
    /\ UNCHANGED <<mgr, vault, catalog, cloud, run>>

\* Remove goes on at Cloudflare, with the tunnel it read.
DeleteTunnel(x) ==
    /\ act[x].pc = "delete" /\ mgr.gen < MaxGen
    /\ LET a == act[x].acct
       IN  \/ /\ cloud' = IF cloud.tunnel[a] = act[x].sec.id THEN [cloud EXCEPT !.tunnel[a] = 0] ELSE cloud
              /\ act' = [act EXCEPT ![x].pc = "route"] /\ UNCHANGED <<mgr, hist>>
           \/ UNCHANGED cloud /\ Fails(act[x].gen) /\ act' = [act EXCEPT ![x] = Done]
    /\ UNCHANGED <<vault, catalog, url, run>>
DeleteRoute(x) ==
    /\ act[x].pc = "route"
    /\ LET a == act[x].acct
       IN  \/ cloud' = IF cloud.name[a] = act[x].sec.id THEN [cloud EXCEPT !.name[a] = 0] ELSE cloud
           \/ UNCHANGED cloud
    /\ act' = [act EXCEPT ![x].pc = "forget"]
    /\ UNCHANGED <<mgr, vault, catalog, url, run, hist>>
ForgetIt(x) ==
    /\ act[x].pc = "forget" /\ mgr.gen < MaxGen
    /\ Forget /\ act' = [Halted(act) EXCEPT ![x] = Done]
    /\ UNCHANGED <<vault, catalog, url, cloud, run>>

-----------------------------------------------------------------------------
(* A pasted token, and a restored copy.                                      *)

\* putSettings, savePastedToken: an empty one clears the file.
Paste(x) ==
    /\ "paste" \in Kinds
    /\ act[x].pc = "idle"
    /\ \E s \in {None, Token("owner")} : vault' = s
    /\ act' = [act EXCEPT ![x] = [Idle EXCEPT !.pc = "drop", !.for = "paste"]]
    /\ UNCHANGED <<mgr, catalog, url, cloud, run, hist>>

\* restore, restoreSavedBackup: a token of an older version comes back.
Restore(x) ==
    /\ "restore" \in Kinds
    /\ act[x].pc = "idle"
    /\ catalog' \in {"none", "copy"}
    /\ act' = [act EXCEPT ![x] = [Idle EXCEPT !.pc = "drop", !.for = "restore"]]
    /\ UNCHANGED <<mgr, vault, url, cloud, run, hist>>

-----------------------------------------------------------------------------
(* applyTunnel and Runner.                                                   *)

\* dropCatalogToken.
Drop(x) ==
    /\ act[x].pc = "drop" /\ catalog' = "none" /\ act' = [act EXCEPT ![x].pc = "load"]
    /\ UNCHANGED <<mgr, vault, url, cloud, run, hist>>
\* The file is read before Apply takes its lock.
Load(x) ==
    /\ act[x].pc = "load" /\ act' = [act EXCEPT ![x].pc = "apply", ![x].read = vault]
    /\ hist' = [hist EXCEPT !.crossed = @ \/ \E y \in Actors \ {x} : act[y].pc \in {"apply", "start"}]
    /\ UNCHANGED <<mgr, vault, catalog, url, cloud, run>>

After(x) ==
    CASE act[x].for = "setup" -> [act[x] EXCEPT !.pc = "finish", !.read = None]
      [] act[x].for = "remove" -> [act[x] EXCEPT !.pc = "delete", !.read = None]
      [] act[x].for = "off" -> [act[x] EXCEPT !.pc = "forget", !.read = None]
      [] OTHER -> Done

\* Apply: the same token again changes nothing; the old loop is cancelled and waited for.
Same(sec) == sec = run.sec /\ (sec = None \/ run.loop)
Apply(x) ==
    /\ act[x].pc = "apply" /\ run.by = 0
    /\ IF Same(act[x].read) THEN act' = [act EXCEPT ![x] = After(x)] /\ UNCHANGED run
       ELSE /\ act' = [act EXCEPT ![x].pc = "start"]
            /\ run' = [sec |-> act[x].read, loop |-> FALSE, proc |-> FALSE, dying |-> run.dying \/ run.proc, by |-> x]
    /\ UNCHANGED <<mgr, vault, catalog, url, cloud, hist>>
\* Mutant: without waiting for the old one.
WaitedNot == TRUE
Waited == ~run.dying
Start(x) ==
    /\ act[x].pc = "start" /\ Waited
    /\ run' = [run EXCEPT !.loop = run.sec # None, !.by = 0]
    /\ act' = [act EXCEPT ![x] = After(x)]
    /\ UNCHANGED <<mgr, vault, catalog, url, cloud, hist>>

\* loop, runOnce: cloudflared starts, ends and is started again.
Runs == run.loop /\ run' = [run EXCEPT !.proc = ~@] /\ UNCHANGED <<mgr, act, vault, catalog, url, cloud, hist>>
Dies == run.dying /\ run' = [run EXCEPT !.dying = FALSE] /\ UNCHANGED <<mgr, act, vault, catalog, url, cloud, hist>>

-----------------------------------------------------------------------------
\* StartTunnel: a token of the catalogue moves into the file if that has none, and what
\* the file holds is run, before anything is served.
Boot ==
    LET kept == IF catalog = "none" \/ vault # None THEN vault ELSE Token(catalog)
    IN  /\ hist.crashes < MaxCrashes /\ mgr.gen < MaxGen
        /\ vault' = kept /\ catalog' = "none"
        /\ run' = [sec |-> kept, loop |-> kept # None, proc |-> FALSE, dying |-> FALSE, by |-> 0]
        /\ mgr' = Stopped("idle")
        /\ act' = [x \in Actors |-> IF act[x].pc = "idle" THEN Idle ELSE Done]
        /\ hist' = [hist EXCEPT !.asked = FALSE, !.crashes = @ + 1, !.crossed = FALSE, !.left = FALSE,
                                !.cut = @ \/ catalog = "copy"]
        /\ UNCHANGED <<url, cloud>>

Next ==
    \/ \E remove \in BOOLEAN : StartLogin(remove)
    \/ Cancel \/ HoldEnds \/ Boot \/ Runs \/ Dies
    \/ \E x \in Gens :
          \/ Fetch(x) \/ Authorized(x)
          \/ MakeTunnel(x) \/ RouteDNS(x) \/ AskToken(x) \/ Install(x) \/ InstallAddress(x) \/ Finish(x)
    \/ \E x \in Requests : AskSetup(x) \/ Setup(x) \/ AskRemove(x) \/ Paste(x) \/ Restore(x)
    \/ \E x \in Actors :
          \/ RemoveBegin(x) \/ RemoveInstalled(x) \/ UninstallRead(x) \/ Clear(x) \/ ForgetAddress(x)
          \/ DeleteTunnel(x) \/ DeleteRoute(x) \/ ForgetIt(x)
          \/ Drop(x) \/ Load(x) \/ Apply(x) \/ Start(x)

Spec == Init /\ [][Next]_vars

-----------------------------------------------------------------------------
\* A certificate, which controls the owner's account, is kept only for a sign-in the
\* owner asked for and has not ended, whatever finishes late (setupFailed).
CertIsAskedFor == mgr.acct # "none" => mgr.st = "authorized" /\ hist.asked

\* A setup that shows as running has somebody to end it: nothing else does
\* (StartLogin, Cancel).
SetupIsRunning ==
    mgr.st = "provisioning" => act[mgr.gen].for = "setup" /\ act[mgr.gen].pc \notin {"idle", "done", "fetch", "got"}

\* One cloudflared runs at a time (Apply).
OneAtATime == ~(run.proc /\ run.dying)

\* Once every request has applied what it saved, the saved tunnel is the one that runs,
\* after any crash too, unless two of them crossed or an address could not be saved
\* (applyTunnel).
Applying == {"address", "forget url", "drop", "load", "apply", "start"}
RunsWhatIsSaved ==
    (\A x \in Actors : act[x].pc \notin Applying) /\ ~hist.crossed /\ ~hist.left => run.sec = vault

\* The token of a restored copy is not run, unless a crash comes between the restore and
\* its end (dropCatalogToken).
CopiesAreNotRun == run.sec.by = "copy" \/ vault.by = "copy" => hist.cut

\* All of these (Manager, Vault, Runner).
TunnelHolds == CertIsAskedFor /\ SetupIsRunning /\ OneAtATime /\ RunsWhatIsSaved /\ CopiesAreNotRun
=============================================================================
