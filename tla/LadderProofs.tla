----------------------------- MODULE LadderProofs -----------------------------
(***************************************************************************)
(* Whatever crashes, breaks, stands still or changes under a ladder, its   *)
(* rungs are packed from the one process it holds, and no process runs     *)
(* that neither the ladder nor a kill accounts for; for any number of      *)
(* rungs, processes and ladders.                                           *)
(***************************************************************************)
EXTENDS Ladder, SequenceTheorems, TLAPS

Proc == [st : {"run", "gone"}, killed : BOOLEAN, grace : BOOLEAN, noted : BOOLEAN]
Watcher == [at : {"wait", "packs", "done"}, gen : Nat, respawn : BOOLEAN]
Packager == [alive : BOOLEAN, from : Nat]

\* What the handlers keep: one watcher per process, and the process of a ladder exists.
Shape ==
    /\ encProcs \in Seq(Proc) /\ watchers \in Seq(Watcher) /\ Len(watchers) = Len(encProcs)
    /\ packs \in [Rungs -> Packager]
    /\ group.gen \in Nat /\ group.cmd \in Nat /\ group.waited \in BOOLEAN
    /\ DOMAIN group = {"up", "gen", "cmd", "waited", "restarted", "fallback", "args", "filter"}

\* A process somebody waited for is gone: of a ladder's, that its watcher noted it, and of a
\* watcher, that it is past the wait.
WaitedIsGone ==
    /\ group.up => group.cmd \in Ids
    /\ group.up /\ group.waited => ~Running(group.cmd)
    /\ \A p \in Ids : watchers[p].at # "wait" => ~Running(p)

LadderInv == Shape /\ WaitedIsGone /\ LadderHolds

LEMMA InitHolds == ASSUME LadderInit PROVE LadderInv
BY DEF LadderInit, LadderInv, Shape, WaitedIsGone, LadderHolds, RungsTogether, NoStrayEncode, Fed, Ids, Packager,
       Proc, Watcher

\* Whether a process is the ladder's or on its way out, as the table has it.
Owned(q, g, p) == q[p].grace \/ (g.up /\ g.cmd = p)
Fine(q, g) == \A p \in DOMAIN q : q[p].st = "run" /\ ~q[p].killed => Owned(q, g, p) /\ q[p].noted

LEMMA FineIs == NoStrayEncode <=> Fine(encProcs, group)
BY DEF NoStrayEncode, Fine, Owned, Ids, Running

\* A kill, a note and a grace leave the rows of the others.
LEMMA KillIs ==
    ASSUME NEW q \in Seq(Proc), NEW p
    PROVE  /\ Killed(q, p) \in Seq(Proc) /\ Len(Killed(q, p)) = Len(q)
           /\ \A x \in DOMAIN q : x # p => Killed(q, p)[x] = q[x]
           /\ p \in DOMAIN q => /\ Killed(q, p)[p].st = q[p].st /\ Killed(q, p)[p].noted = q[p].noted
                                /\ Killed(q, p)[p].grace = q[p].grace
                                /\ Killed(q, p)[p].st = "run" => Killed(q, p)[p].killed
<1>1. CASE p \in DOMAIN q /\ q[p].st = "run"
  <2>1. q[p] \in Proc BY <1>1
  <2>2. [q[p] EXCEPT !.killed = TRUE] \in Proc BY <2>1 DEF Proc
  <2>3. Killed(q, p) = [q EXCEPT ![p] = [q[p] EXCEPT !.killed = TRUE]] BY <1>1 DEF Killed
  <2> QED BY <1>1, <2>1, <2>2, <2>3, ExceptSeq DEF Proc
<1>2. CASE ~(p \in DOMAIN q /\ q[p].st = "run")
  BY <1>2 DEF Killed
<1> QED BY <1>1, <1>2

LEMMA StopIs ==
    ASSUME LadderInv, group.up
    PROVE  LET q == StopLadder(encProcs)
           IN  /\ q \in Seq(Proc) /\ Len(q) = Len(encProcs)
               /\ \A x \in Ids : q[x].st = encProcs[x].st
               /\ \A x \in Ids : q[x].st = "run" /\ ~q[x].killed => q[x].grace /\ q[x].noted
<1> DEFINE c == group.cmd
<1>0. c \in Ids /\ encProcs \in Seq(Proc) /\ Ids = DOMAIN encProcs BY DEF LadderInv, WaitedIsGone, Shape, Ids
<1>1. \A x \in Ids : Running(x) /\ ~encProcs[x].killed => (encProcs[x].grace \/ x = c) /\ encProcs[x].noted
  BY DEF LadderInv, LadderHolds, NoStrayEncode
<1>2. CASE group.waited
  <2>1. ~Running(c) BY <1>2 DEF LadderInv, WaitedIsGone
  <2> QED BY <1>0, <1>1, <1>2, <2>1 DEF StopLadder, Running
<1>3. CASE ~group.waited
  <2> DEFINE k == Killed(encProcs, c)
             q == [k EXCEPT ![c] = [k[c] EXCEPT !.noted = FALSE]]
  <2>1. /\ k \in Seq(Proc) /\ Len(k) = Len(encProcs)
        /\ \A x \in Ids : x # c => k[x] = encProcs[x]
        /\ k[c].st = encProcs[c].st /\ (k[c].st = "run" => k[c].killed)
    BY <1>0, KillIs
  <2>2. c \in 1 .. Len(k) /\ k[c] \in Proc BY <1>0, <2>1
  <2>3. [k[c] EXCEPT !.noted = FALSE] \in Proc BY <2>2 DEF Proc
  <2> HIDE DEF k
  <2>4. q \in Seq(Proc) /\ Len(q) = Len(k) /\ DOMAIN q = DOMAIN k /\ \A x \in DOMAIN k : x # c => q[x] = k[x]
    BY <2>1, <2>2, <2>3, ExceptSeq
  <2>5. q[c].st = k[c].st /\ q[c].killed = k[c].killed BY <2>1, <2>2 DEF Proc
  <2>6. StopLadder(encProcs) = q BY <1>3 DEF StopLadder, k
  <2>7. DOMAIN k = Ids BY <1>0, <2>1
  <2> QED BY <1>0, <1>1, <2>1, <2>4, <2>5, <2>6, <2>7 DEF Running
<1> QED BY <1>2, <1>3 DEF LadderInv, Shape

\* The processes and watchers a handler leaves, the ladder's own killed or in its grace.
Left(q, w) ==
    /\ q \in Seq(Proc) /\ Len(q) = Len(encProcs)
    /\ \A x \in Ids : q[x].st = "run" => encProcs[x].st = "run"
    /\ \A x \in Ids : q[x].st = "run" /\ ~q[x].killed => q[x].grace /\ q[x].noted
    /\ w \in Seq(Watcher) /\ Len(w) = Len(encProcs)
    /\ \A x \in Ids : w[x].at # "wait" => ~Running(x)

\* A new process takes over every rung.
LEMMA TakesOver ==
    ASSUME LadderInv, NEW q, NEW w, Left(q, w), NEW gen \in Nat, NEW respawn \in BOOLEAN,
           encProcs' = Append(q, NewProc), watchers' = Watching(w, gen, respawn),
           packs' \in [Rungs -> Packager], \A r \in Rungs : packs'[r].from = NextProc,
           group'.up, group'.gen \in Nat, group'.cmd = NextProc, group'.waited = FALSE,
           DOMAIN group' = DOMAIN group
    PROVE  LadderInv'
<1> DEFINE n == NextProc
           v == [at |-> "wait", gen |-> gen, respawn |-> respawn]
<1>0. /\ encProcs \in Seq(Proc) /\ Len(encProcs) \in Nat /\ Ids = 1 .. Len(encProcs) /\ n = Len(encProcs) + 1
      /\ DOMAIN group = {"up", "gen", "cmd", "waited", "restarted", "fallback", "args", "filter"}
  BY DEF LadderInv, Shape, Ids, NextProc
<1>1. NewProc \in Proc /\ v \in Watcher BY DEF NewProc, Proc, Watcher
<1>2. /\ encProcs' \in Seq(Proc) /\ Len(encProcs') = n /\ Ids' = 1 .. n
      /\ encProcs'[n] = NewProc /\ \A x \in Ids : encProcs'[x] = q[x]
  BY <1>0, <1>1 DEF Left, Ids
<1>3. /\ watchers' \in Seq(Watcher) /\ Len(watchers') = n
      /\ watchers'[n] = v /\ \A x \in Ids : watchers'[x] = w[x]
  BY <1>0, <1>1 DEF Left, Watching
<1>4. n \in Nat /\ n \in Ids' /\ \A x \in Ids' : x = n \/ x \in Ids BY <1>0, <1>2
<1>5. Shape' BY <1>0, <1>2, <1>3, <1>4 DEF Shape
<1>6. WaitedIsGone'
  <2>1. ASSUME NEW x \in Ids', watchers'[x].at # "wait" PROVE ~Running(x)'
    <3>0. watchers'[n].at = "wait" BY <1>3
    <3>1. x \in Ids BY <1>4, <2>1, <3>0
    <3>2. ~Running(x) BY <1>3, <2>1, <3>1 DEF Left
    <3> QED BY <1>2, <3>1, <3>2 DEF Left, Running
  <2> QED BY <1>4, <2>1 DEF WaitedIsGone
<1>7. RungsTogether' BY DEF RungsTogether
<1>8. ASSUME NEW x \in Ids', Running(x)', ~encProcs'[x].killed
      PROVE  (encProcs'[x].grace \/ (group'.up /\ group'.cmd = x)) /\ encProcs'[x].noted
  <2>1. CASE x = n BY <1>2, <2>1 DEF NewProc
  <2>2. CASE x \in Ids
    <3>1. q[x].grace /\ q[x].noted BY <1>2, <1>8, <2>2 DEF Left, Running
    <3> QED BY <1>2, <2>2, <3>1
  <2> QED BY <1>4, <2>1, <2>2
<1> QED BY <1>5, <1>6, <1>7, <1>8 DEF LadderInv, LadderHolds, NoStrayEncode

\* The ladder is given up.
LEMMA GivesUp ==
    ASSUME LadderInv, NEW q, NEW w, Left(q, w), encProcs' = q, watchers' = w, UNCHANGED packs,
           group'.up = FALSE, group'.gen \in Nat, group'.cmd \in Nat, group'.waited \in BOOLEAN,
           DOMAIN group' = DOMAIN group
    PROVE  LadderInv'
<1>1. Ids' = Ids /\ Len(encProcs) \in Nat BY DEF LadderInv, Shape, Left, Ids
<1>2. Shape' BY DEF LadderInv, Shape, Left
<1>3. WaitedIsGone' BY <1>1 DEF WaitedIsGone, Left, Running
<1>4. LadderHolds' BY <1>1 DEF LadderHolds, RungsTogether, NoStrayEncode, Left, Running
<1> QED BY <1>2, <1>3, <1>4 DEF LadderInv

LEMMA FedIs == ASSUME NEW p \in Nat PROVE Fed(p) \in [Rungs -> Packager] /\ \A r \in Rungs : Fed(p)[r].from = p
BY DEF Fed, Packager

\* What a stop leaves, with the watchers as they are.
LEMMA StopLeaves == ASSUME LadderInv, group.up PROVE Left(StopLadder(encProcs), watchers)
<1>1. /\ encProcs \in Seq(Proc) /\ watchers \in Seq(Watcher) /\ Len(watchers) = Len(encProcs)
      /\ \A x \in Ids : watchers[x].at # "wait" => ~Running(x)
  BY DEF LadderInv, Shape, WaitedIsGone
<1> QED BY <1>1, StopIs DEF Left

\* Of a ladder that is down, nothing runs that is not on its way out.
LEMMA DownLeaves == ASSUME LadderInv, ~group.up PROVE Left(encProcs, watchers)
BY DEF LadderInv, LadderHolds, NoStrayEncode, Shape, WaitedIsGone, Left, Running

\* startLadderLocked, after what was there is gone.
LEMMA StartHolds ==
    ASSUME LadderInv, NEW q, Left(q, watchers), NEW ok \in BOOLEAN, Start(group.gen + 1, ok),
           encProcs' = IF ok THEN Append(q, NewProc) ELSE q
    PROVE  LadderInv'
<1>1. group.gen \in Nat /\ group.cmd \in Nat /\ group.waited \in BOOLEAN /\ NextProc \in Nat /\ group.gen + 1 \in Nat
      /\ DOMAIN group = {"up", "gen", "cmd", "waited", "restarted", "fallback", "args", "filter"}
  BY DEF LadderInv, Shape, NextProc
<1>2. CASE ok
  <2>1. /\ packs' = Fed(NextProc) /\ watchers' = Watching(watchers, group.gen + 1, FALSE)
        /\ group' = [up |-> TRUE, gen |-> group.gen + 1, cmd |-> NextProc, waited |-> FALSE, restarted |-> FALSE,
                     fallback |-> softKey, args |-> ArgsOf(softKey), filter |-> NextProc]
    BY <1>2 DEF Start
  <2>2. packs' \in [Rungs -> Packager] /\ \A r \in Rungs : packs'[r].from = NextProc BY <1>1, <2>1, FedIs
  <2>3. /\ group'.up /\ group'.gen = group.gen + 1 /\ group'.cmd = NextProc /\ group'.waited = FALSE
        /\ DOMAIN group' = DOMAIN group
    BY <1>1, <2>1
  <2> QED BY <1>1, <1>2, <2>1, <2>2, <2>3, TakesOver
<1>3. CASE ~ok
  <2>1. group' = [Down(group) EXCEPT !.gen = group.gen + 1] /\ UNCHANGED <<packs, watchers>> BY <1>3 DEF Start
  <2>2. /\ group'.up = FALSE /\ group'.gen = group.gen + 1 /\ group'.cmd = group.cmd /\ group'.waited = group.waited
        /\ DOMAIN group' = DOMAIN group
    BY <1>1, <2>1 DEF Down
  <2> QED BY <1>1, <1>3, <2>1, <2>2, GivesUp
<1> QED BY <1>2, <1>3

LEMMA EnsureHolds == ASSUME LadderInv, Ensure PROVE LadderInv'
<1>1. Left(encProcs, watchers) BY DownLeaves DEF Ensure
<1> QED BY <1>1, StartHolds DEF Ensure

LEMMA RebuildHolds == ASSUME LadderInv, Rebuild PROVE LadderInv'
<1>1. Left(StopLadder(encProcs), watchers) BY StopLeaves DEF Rebuild
<1> QED BY <1>1, StartHolds DEF Rebuild

LEMMA IdleStopHolds == ASSUME LadderInv, IdleStop PROVE LadderInv'
<1>1. Left(StopLadder(encProcs), watchers) BY StopLeaves DEF IdleStop
<1>2. /\ group'.up = FALSE /\ group'.gen = group.gen /\ group'.cmd = group.cmd /\ group'.waited = group.waited
      /\ DOMAIN group' = DOMAIN group /\ group.gen \in Nat /\ group.cmd \in Nat /\ group.waited \in BOOLEAN
  BY DEF IdleStop, Down, LadderInv, Shape
<1> QED BY <1>1, <1>2, GivesUp DEF IdleStop

\* restartLadderLocked, from the watchers w, whatever became of the process.
LEMMA RestartHolds ==
    ASSUME LadderInv, group.up, NEW w, Left(StopLadder(encProcs), w), NEW software \in BOOLEAN, NEW ok \in BOOLEAN,
           RestartLadder(encProcs, w, software, ok)
    PROVE  LadderInv'
<1> DEFINE q == IF group.waited THEN encProcs ELSE Killed(encProcs, group.cmd)
           d == [q EXCEPT ![group.cmd].noted = FALSE]
<1>1. /\ group.gen \in Nat /\ group.cmd \in Ids /\ group.cmd \in Nat /\ group.waited \in BOOLEAN /\ NextProc \in Nat
      /\ DOMAIN group = {"up", "gen", "cmd", "waited", "restarted", "fallback", "args", "filter"}
      /\ encProcs \in Seq(Proc) /\ Ids = DOMAIN encProcs
  BY DEF LadderInv, Shape, WaitedIsGone, NextProc, Ids
<1>2. /\ q \in Seq(Proc) /\ Len(q) = Len(encProcs)
      /\ \A x \in Ids : x # group.cmd => q[x] = encProcs[x]
      /\ q[group.cmd].st = encProcs[group.cmd].st
      /\ q[group.cmd].st = "run" => q[group.cmd].killed
  BY <1>1, KillIs DEF LadderInv, WaitedIsGone, Running
<1> HIDE DEF q
<1>3. \A x \in Ids : Running(x) /\ ~encProcs[x].killed => (encProcs[x].grace \/ x = group.cmd) /\ encProcs[x].noted
  BY DEF LadderInv, LadderHolds, NoStrayEncode
<1>4. Left(q, w) BY <1>1, <1>2, <1>3 DEF Left, Running
<1>5. Left(d, w)
  <2>1. group.cmd \in 1 .. Len(q) /\ q[group.cmd] \in Proc BY <1>1, <1>2
  <2>2. [q[group.cmd] EXCEPT !.noted = FALSE] \in Proc BY <2>1 DEF Proc
  <2>3. /\ d \in Seq(Proc) /\ Len(d) = Len(q) /\ \A x \in 1 .. Len(q) : x # group.cmd => d[x] = q[x]
        /\ d[group.cmd] = [q[group.cmd] EXCEPT !.noted = FALSE]
    <3> DEFINE e == [q[group.cmd] EXCEPT !.noted = FALSE]
    <3>1. d = [q EXCEPT ![group.cmd] = e] OBVIOUS
    <3>2. DOMAIN q = 1 .. Len(q) BY <1>2
    <3> HIDE DEF e, d
    <3>3. e \in Proc BY <2>2 DEF e
    <3>4. /\ d \in Seq(Proc) /\ Len(d) = Len(q) /\ \A x \in 1 .. Len(q) : d[x] = IF x = group.cmd THEN e ELSE q[x]
      BY <1>2, <2>1, <3>1, <3>3, ExceptSeq
    <3> QED BY <2>1, <3>4 DEF e
  <2>4. d[group.cmd].st = q[group.cmd].st /\ d[group.cmd].killed = q[group.cmd].killed BY <2>1, <2>3 DEF Proc
  <2>5. Ids = 1 .. Len(q) BY <1>1, <1>2
  <2> HIDE DEF d
  <2>6. \A x \in Ids : d[x].st = "run" => encProcs[x].st = "run" BY <1>2, <2>3, <2>4, <2>5
  <2>7. \A x \in Ids : d[x].st = "run" /\ ~d[x].killed => d[x].grace /\ d[x].noted
    BY <1>2, <1>4, <2>3, <2>4, <2>5 DEF Left
  <2> QED BY <1>2, <1>4, <2>3, <2>6, <2>7 DEF Left
<1>6. CASE ok
  <2>1. /\ packs' = Fed(NextProc) /\ watchers' = Watching(w, group.gen, FALSE) /\ encProcs' = Append(q, NewProc)
        /\ group' = [group EXCEPT !.cmd = NextProc, !.waited = FALSE, !.restarted = TRUE,
                                  !.fallback = @ \/ software, !.filter = NextProc,
                                  !.args = IF software THEN ArgsOf(TRUE) ELSE @]
    BY <1>6 DEF RestartLadder, q
  <2>2. packs' \in [Rungs -> Packager] /\ \A r \in Rungs : packs'[r].from = NextProc BY <1>1, <2>1, FedIs
  <2>3. /\ group'.up /\ group'.gen = group.gen /\ group'.cmd = NextProc /\ group'.waited = FALSE
        /\ DOMAIN group' = DOMAIN group
    BY <1>1, <2>1
  <2> QED BY <1>1, <1>4, <2>1, <2>2, <2>3, TakesOver
<1>7. CASE ~ok
  <2>1. group' = Down(group) /\ encProcs' = d /\ watchers' = w /\ UNCHANGED packs BY <1>7 DEF RestartLadder, q
  <2>2. /\ group'.up = FALSE /\ group'.gen = group.gen /\ group'.cmd = group.cmd /\ group'.waited = group.waited
        /\ DOMAIN group' = DOMAIN group
    BY <1>1, <2>1 DEF Down
  <2> HIDE DEF d
  <2> QED BY <1>1, <1>5, <2>1, <2>2, GivesUp
<1> QED BY <1>6, <1>7

\* One process, or one watcher, changes.
LEMMA ProcChanges ==
    ASSUME LadderInv, NEW p \in Ids, NEW c \in Proc, encProcs' = [encProcs EXCEPT ![p] = c]
    PROVE  /\ Ids' = Ids /\ encProcs' \in Seq(Proc) /\ Len(encProcs') = Len(encProcs) /\ encProcs'[p] = c
           /\ \A x \in Ids : x # p => encProcs'[x] = encProcs[x]
BY ExceptSeq DEF LadderInv, Shape, Ids

\* A process ends, is killed or leaves the file of processes.
LEMMA ProcHolds ==
    ASSUME LadderInv, NEW p \in Ids, NEW c \in Proc, encProcs' = [encProcs EXCEPT ![p] = c],
           c.st = "run" => encProcs[p].st = "run" /\ (encProcs[p].killed => c.killed),
           c.st = "run" /\ ~c.killed => c.grace = encProcs[p].grace /\ c.noted = encProcs[p].noted,
           UNCHANGED <<group, packs, watchers>>
    PROVE  LadderInv'
<1>1. /\ Ids' = Ids /\ encProcs' \in Seq(Proc) /\ Len(encProcs') = Len(encProcs) /\ encProcs'[p] = c
      /\ \A x \in Ids : x # p => encProcs'[x] = encProcs[x]
  BY ProcChanges
<1>2. \A x \in Ids : Running(x)' => Running(x) BY <1>1 DEF Running
<1>3. Shape' BY <1>1 DEF LadderInv, Shape
<1>4. WaitedIsGone' BY <1>1, <1>2 DEF LadderInv, WaitedIsGone
<1>5. RungsTogether' BY DEF LadderInv, LadderHolds, RungsTogether
<1>6. NoStrayEncode' BY <1>1 DEF LadderInv, LadderHolds, NoStrayEncode, Running
<1> QED BY <1>3, <1>4, <1>5, <1>6 DEF LadderInv, LadderHolds

LEMMA ExitsHolds == ASSUME LadderInv, NEW p \in Ids, Exits(p) PROVE LadderInv'
<1>1. encProcs[p] \in Proc BY DEF LadderInv, Shape, Ids
<1>2. [encProcs[p] EXCEPT !.st = "gone"] \in Proc BY <1>1 DEF Proc
<1>3. [encProcs[p] EXCEPT !.st = "gone"].st = "gone" BY <1>1 DEF Proc
<1>4. encProcs' = [encProcs EXCEPT ![p] = [encProcs[p] EXCEPT !.st = "gone"]] BY DEF Exits
<1> QED BY <1>2, <1>3, <1>4, ProcHolds DEF Exits

LEMMA GraceEndsHolds == ASSUME LadderInv, NEW p \in Ids, GraceEnds(p) PROVE LadderInv'
<1> DEFINE k == Killed(encProcs, p)
           c == [k[p] EXCEPT !.grace = FALSE]
<1>1. encProcs \in Seq(Proc) /\ Ids = DOMAIN encProcs BY DEF LadderInv, Shape, Ids
<1>2. /\ k \in Seq(Proc) /\ Len(k) = Len(encProcs) /\ \A x \in Ids : x # p => k[x] = encProcs[x]
      /\ k[p].st = encProcs[p].st /\ (k[p].st = "run" => k[p].killed)
  BY <1>1, KillIs
<1> HIDE DEF k
<1>3. k[p] \in Proc /\ c \in Proc /\ c.st = k[p].st /\ c.killed = k[p].killed
  <2>1. k[p] \in Proc BY <1>1, <1>2
  <2> QED BY <2>1 DEF Proc
<1>4. encProcs' = [k EXCEPT ![p] = c] BY DEF GraceEnds, k
<1>5. encProcs' = [encProcs EXCEPT ![p] = c]
  <2>1. DOMAIN k = DOMAIN encProcs BY <1>1, <1>2
  <2> QED BY <1>1, <1>2, <1>4, <2>1
<1>6. UNCHANGED <<group, packs, watchers>> BY DEF GraceEnds
<1> HIDE DEF c
<1> QED BY <1>2, <1>3, <1>5, <1>6, ProcHolds

LEMMA UnfreezeHolds == ASSUME LadderInv, Unfreeze PROVE LadderInv'
<1> DEFINE p == group.cmd
           k == Killed(encProcs, p)
<1>1. /\ encProcs \in Seq(Proc) /\ Ids = DOMAIN encProcs /\ p \in Ids
      /\ DOMAIN group = {"up", "gen", "cmd", "waited", "restarted", "fallback", "args", "filter"}
  BY DEF LadderInv, Shape, WaitedIsGone, Ids, Unfreeze
<1>2. /\ k \in Seq(Proc) /\ Len(k) = Len(encProcs) /\ \A x \in Ids : x # p => k[x] = encProcs[x]
      /\ k[p].st = encProcs[p].st /\ (k[p].st = "run" => k[p].killed)
  BY <1>1, KillIs
<1> HIDE DEF k
<1>3. encProcs' = k /\ Ids' = Ids BY <1>1, <1>2 DEF Unfreeze, k, Ids
<1>4. /\ group'.up = group.up /\ group'.gen = group.gen /\ group'.cmd = p /\ group'.waited = group.waited
      /\ DOMAIN group' = DOMAIN group /\ UNCHANGED <<packs, watchers>>
  BY <1>1 DEF Unfreeze
<1>5. \A x \in Ids : Running(x)' => Running(x) BY <1>1, <1>2, <1>3 DEF Running
<1>6. Shape' BY <1>2, <1>3, <1>4 DEF LadderInv, Shape
<1>7. WaitedIsGone' BY <1>3, <1>4, <1>5 DEF LadderInv, WaitedIsGone
<1>8. RungsTogether' BY <1>4 DEF LadderInv, LadderHolds, RungsTogether
<1>9. NoStrayEncode' BY <1>1, <1>2, <1>3, <1>4 DEF LadderInv, LadderHolds, NoStrayEncode, Running
<1> QED BY <1>6, <1>7, <1>8, <1>9 DEF LadderInv, LadderHolds

LEMMA PackDiesHolds == ASSUME LadderInv, NEW r \in Rungs, PackDies(r) PROVE LadderInv'
<1>1. packs \in [Rungs -> Packager] /\ packs[r] \in Packager /\ packs' = [packs EXCEPT ![r].alive = FALSE]
  BY DEF LadderInv, Shape, PackDies
<1>2. packs' \in [Rungs -> Packager] /\ \A s \in Rungs : packs'[s].from = packs[s].from BY <1>1 DEF Packager
<1>3. UNCHANGED <<group, encProcs, watchers>> BY DEF PackDies
<1> QED BY <1>2, <1>3 DEF LadderInv, Shape, WaitedIsGone, LadderHolds, RungsTogether, NoStrayEncode, Ids, Running

\* A watcher that saw its process end goes on.
LEMMA WatcherMoves ==
    ASSUME LadderInv, NEW p \in Ids, ~Running(p), NEW at \in {"packs", "done"}, NEW w,
           w = [watchers EXCEPT ![p].at = at]
    PROVE  /\ w \in Seq(Watcher) /\ Len(w) = Len(encProcs)
           /\ \A x \in Ids : w[x].at # "wait" => ~Running(x)
<1> DEFINE e == [watchers[p] EXCEPT !.at = at]
<1>1. watchers \in Seq(Watcher) /\ Ids = 1 .. Len(watchers) /\ watchers[p] \in Watcher
  BY DEF LadderInv, Shape, Ids
<1>2. e \in Watcher BY <1>1 DEF Watcher
<1>3. w = [watchers EXCEPT ![p] = e] OBVIOUS
<1> HIDE DEF e
<1>4. w \in Seq(Watcher) /\ Len(w) = Len(watchers) /\ \A x \in 1 .. Len(watchers) : w[x] = IF x = p THEN e ELSE watchers[x]
  BY <1>1, <1>2, <1>3, ExceptSeq
<1> QED BY <1>1, <1>4 DEF LadderInv, Shape, WaitedIsGone

LEMMA WatchEndsHolds == ASSUME LadderInv, NEW p \in Ids, WatchEnds(p) PROVE LadderInv'
<1> DEFINE c == [encProcs[p] EXCEPT !.noted = FALSE]
           at == IF Mine(p) THEN "packs" ELSE "done"
<1>1. /\ encProcs[p] \in Proc /\ Ids = DOMAIN encProcs
      /\ DOMAIN group = {"up", "gen", "cmd", "waited", "restarted", "fallback", "args", "filter"}
      /\ group.gen \in Nat /\ group.cmd \in Nat /\ group.waited \in BOOLEAN
  BY DEF LadderInv, Shape, Ids
<1>2. c \in Proc /\ c.st = encProcs[p].st /\ c.killed = encProcs[p].killed BY <1>1 DEF Proc
<1>3. encProcs' = [encProcs EXCEPT ![p] = c] BY DEF WatchEnds
<1> HIDE DEF c
<1>4. /\ Ids' = Ids /\ encProcs' \in Seq(Proc) /\ Len(encProcs') = Len(encProcs) /\ encProcs'[p] = c
      /\ \A x \in Ids : x # p => encProcs'[x] = encProcs[x]
  BY <1>2, <1>3, ProcChanges
<1>5. ~Running(p) /\ watchers' = [watchers EXCEPT ![p].at = at] /\ UNCHANGED packs BY DEF WatchEnds
<1>6. /\ watchers' \in Seq(Watcher) /\ Len(watchers') = Len(encProcs)
      /\ \A x \in Ids : watchers'[x].at # "wait" => ~Running(x)
  <2>1. at \in {"packs", "done"} OBVIOUS
  <2> HIDE DEF at
  <2> QED BY <1>5, <2>1, WatcherMoves
<1>7. /\ group'.up = group.up /\ group'.gen = group.gen /\ group'.cmd = group.cmd /\ DOMAIN group' = DOMAIN group
      /\ group'.waited \in BOOLEAN /\ (group'.waited => group.waited \/ group.cmd = p)
  <2>1. CASE Mine(p) BY <1>1, <2>1 DEF WatchEnds, Mine
  <2>2. CASE ~Mine(p) BY <1>1, <2>2 DEF WatchEnds
  <2> QED BY <2>1, <2>2
<1>8. \A x \in Ids : Running(x)' <=> Running(x) BY <1>2, <1>4 DEF Running
<1>9. Shape' BY <1>1, <1>4, <1>5, <1>6, <1>7 DEF LadderInv, Shape
<1>10. WaitedIsGone' BY <1>4, <1>5, <1>6, <1>7, <1>8 DEF LadderInv, WaitedIsGone
<1>11. RungsTogether' BY <1>5, <1>7 DEF LadderInv, LadderHolds, RungsTogether
<1>12. NoStrayEncode' BY <1>4, <1>5, <1>7, <1>8 DEF LadderInv, LadderHolds, NoStrayEncode
<1> QED BY <1>9, <1>10, <1>11, <1>12 DEF LadderInv, LadderHolds

LEMMA WatchActsHolds == ASSUME LadderInv, NEW p \in Ids, WatchActs(p) PROVE LadderInv'
<1> DEFINE w == [watchers EXCEPT ![p].at = "done"]
<1>1. ~Running(p) BY DEF WatchActs, LadderInv, WaitedIsGone
<1>2. w \in Seq(Watcher) /\ Len(w) = Len(encProcs) /\ \A x \in Ids : w[x].at # "wait" => ~Running(x)
  BY <1>1, WatcherMoves
<1>3. /\ \/ watchers' = w /\ UNCHANGED <<group, packs, encProcs>>
         \/ /\ group.up /\ Mine(p)
            /\ \E early, ok \in BOOLEAN :
                 RestartLadder(encProcs, w, early /\ ~watchers[p].respawn /\ ~group.fallback /\ GpuFirst, ok)
         \/ /\ group.up /\ Mine(p)
            /\ group' = Down(group) /\ watchers' = w /\ UNCHANGED <<packs, encProcs>>
  BY DEF WatchActs
<1> HIDE DEF w
<1>4. CASE watchers' = w /\ UNCHANGED <<group, packs, encProcs>>
  <2>1. Ids' = Ids /\ \A x \in Ids : Running(x)' <=> Running(x) BY <1>4 DEF Ids, Running
  <2>2. Shape' BY <1>2, <1>4 DEF LadderInv, Shape
  <2>3. WaitedIsGone' BY <1>2, <1>4, <2>1 DEF LadderInv, WaitedIsGone
  <2>4. LadderHolds' BY <1>4, <2>1 DEF LadderInv, LadderHolds, RungsTogether, NoStrayEncode
  <2> QED BY <2>2, <2>3, <2>4 DEF LadderInv
<1>5. CASE /\ group.up /\ Mine(p)
           /\ \E early, ok \in BOOLEAN :
                RestartLadder(encProcs, w, early /\ ~watchers[p].respawn /\ ~group.fallback /\ GpuFirst, ok)
  <2>1. PICK software, ok \in BOOLEAN : RestartLadder(encProcs, w, software, ok)
    BY <1>5
  <2>2. Left(StopLadder(encProcs), w) BY <1>2, <1>5, StopLeaves DEF Left
  <2> QED BY <1>5, <2>1, <2>2, RestartHolds
<1>6. CASE /\ group.up /\ Mine(p)
           /\ group' = Down(group) /\ watchers' = w /\ UNCHANGED <<packs, encProcs>>
  <2>1. Left(encProcs, w)
    BY <1>1, <1>2, <1>6 DEF LadderInv, LadderHolds, NoStrayEncode, Shape, Left, Running, Mine
  <2>2. /\ group'.up = FALSE /\ group'.gen = group.gen /\ group'.cmd = group.cmd /\ group'.waited = group.waited
        /\ DOMAIN group' = DOMAIN group /\ group.gen \in Nat /\ group.cmd \in Nat /\ group.waited \in BOOLEAN
    BY <1>6 DEF Down, LadderInv, Shape
  <2> QED BY <1>6, <2>1, <2>2, GivesUp
<1> QED BY <1>3, <1>4, <1>5, <1>6

LEMMA FollowBreakHolds == ASSUME LadderInv, FollowBreak PROVE LadderInv'
<1>1. PICK b \in breaks :
        IF ~(group.up /\ b = <<group.gen, group.filter>>) THEN UNCHANGED <<group, packs, encProcs, watchers, softKey>>
        ELSE \/ /\ Followed(packs, NextProc)
                /\ packs' = Follow(packs, NextProc)
                /\ group' = [group EXCEPT !.cmd = NextProc, !.waited = FALSE]
                /\ encProcs' = Append(Grace(encProcs, group.cmd), NewProc)
                /\ watchers' = Watching(watchers, group.gen, TRUE)
             \/ \E ok \in BOOLEAN : RestartLadder(encProcs, watchers, FALSE, ok)
  BY DEF FollowBreak
<1>2. CASE UNCHANGED <<group, packs, encProcs, watchers, softKey>>
  BY <1>2 DEF LadderInv, Shape, WaitedIsGone, LadderHolds, RungsTogether, NoStrayEncode, Ids, Running
<1>3. CASE /\ group.up /\ Followed(packs, NextProc)
           /\ packs' = Follow(packs, NextProc)
           /\ group' = [group EXCEPT !.cmd = NextProc, !.waited = FALSE]
           /\ encProcs' = Append(Grace(encProcs, group.cmd), NewProc)
           /\ watchers' = Watching(watchers, group.gen, TRUE)
  <2> DEFINE q == Grace(encProcs, group.cmd)
             e == [encProcs[group.cmd] EXCEPT !.grace = TRUE]
  <2>1. /\ encProcs \in Seq(Proc) /\ group.cmd \in Ids /\ Ids = 1 .. Len(encProcs) /\ NextProc \in Nat
        /\ encProcs[group.cmd] \in Proc /\ packs \in [Rungs -> Packager] /\ group.gen \in Nat
        /\ DOMAIN group = {"up", "gen", "cmd", "waited", "restarted", "fallback", "args", "filter"}
    BY <1>3 DEF LadderInv, Shape, WaitedIsGone, Ids, NextProc
  <2>2. /\ e \in Proc /\ e.st = encProcs[group.cmd].st /\ e.killed = encProcs[group.cmd].killed
        /\ e.noted = encProcs[group.cmd].noted /\ e.grace
    BY <2>1 DEF Proc
  <2>3. q = [encProcs EXCEPT ![group.cmd] = e] BY DEF Grace
  <2> HIDE DEF e, q
  <2>4. /\ q \in Seq(Proc) /\ Len(q) = Len(encProcs)
        /\ \A x \in Ids : q[x] = IF x = group.cmd THEN e ELSE encProcs[x]
    BY <2>1, <2>2, <2>3, ExceptSeq
  <2>5. \A x \in Ids : Running(x) /\ ~encProcs[x].killed => (encProcs[x].grace \/ x = group.cmd) /\ encProcs[x].noted
    BY DEF LadderInv, LadderHolds, NoStrayEncode
  <2>6. Left(q, watchers) BY <2>1, <2>2, <2>4, <2>5 DEF Left, Running, LadderInv, Shape, WaitedIsGone
  <2>7. packs' \in [Rungs -> Packager] /\ \A r \in Rungs : packs'[r].from = NextProc
    <3>1. packs' = [r \in Rungs |-> [packs[r] EXCEPT !.from = NextProc]] BY <1>3 DEF Followed, Follow
    <3> QED BY <2>1, <3>1 DEF Packager
  <2>8. /\ group'.up /\ group'.gen = group.gen /\ group'.cmd = NextProc /\ group'.waited = FALSE
        /\ DOMAIN group' = DOMAIN group
    BY <1>3, <2>1
  <2> QED BY <1>3, <2>1, <2>6, <2>7, <2>8, TakesOver DEF q
<1>4. CASE group.up /\ \E ok \in BOOLEAN : RestartLadder(encProcs, watchers, FALSE, ok)
  <2>1. Left(StopLadder(encProcs), watchers) BY <1>4, StopLeaves
  <2> QED BY <1>4, <2>1, RestartHolds
<1> QED BY <1>1, <1>2, <1>3, <1>4

LEMMA NextHolds == ASSUME LadderInv, [LadderNext]_ladderVars PROVE LadderInv'
<1>1. CASE Ensure BY <1>1, EnsureHolds
<1>2. CASE IdleStop BY <1>2, IdleStopHolds
<1>3. CASE FollowBreak BY <1>3, FollowBreakHolds
<1>4. CASE Unfreeze BY <1>4, UnfreezeHolds
<1>5. CASE Rebuild BY <1>5, RebuildHolds
<1>6. CASE Break \/ SourceChanges \/ UNCHANGED ladderVars
  <2>1. UNCHANGED <<group, packs, encProcs, watchers>> BY <1>6 DEF Break, SourceChanges, ladderVars
  <2> QED BY <2>1 DEF LadderInv, Shape, WaitedIsGone, LadderHolds, RungsTogether, NoStrayEncode, Ids, Running
<1>7. ASSUME NEW p \in Ids, Exits(p) \/ GraceEnds(p) \/ WatchEnds(p) \/ WatchActs(p) PROVE LadderInv'
  BY <1>7, ExitsHolds, GraceEndsHolds, WatchEndsHolds, WatchActsHolds
<1>8. ASSUME NEW r \in Rungs, PackDies(r) PROVE LadderInv' BY <1>8, PackDiesHolds
<1> QED BY <1>1, <1>2, <1>3, <1>4, <1>5, <1>6, <1>7, <1>8 DEF LadderNext

-----------------------------------------------------------------------------
\* What the handlers of a ladder keep between them, at every step (ensureLadderLocked,
\* watchLadder, followLadderBreak, rebuildLaddersLocked).
THEOREM Kept == LadderSpec => []LadderInv
<1>1. LadderInit => LadderInv BY InitHolds
<1>2. LadderInv /\ [LadderNext]_ladderVars => LadderInv' BY NextHolds
<1> QED BY <1>1, <1>2, PTL DEF LadderSpec

\* Every rung of a ladder comes from the one process it holds, and no process goes on that
\* the ladder does not hold and nobody is killing (restartLadderLocked, stopLadderLocked).
THEOREM LaddersHold == LadderSpec => []LadderHolds
<1>1. LadderInv => LadderHolds BY DEF LadderInv
<1> QED BY <1>1, Kept, PTL
=============================================================================
