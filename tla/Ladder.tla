-------------------------------- MODULE Ladder --------------------------------
(***************************************************************************)
(* The quality ladder of one channel and picture mode (live/ladder.go):    *)
(* one ffmpeg writes every rung, each rung has a packager of its own, and  *)
(* viewers sit on the primary.  Everything but waiting for the process and *)
(* for the packagers happens under the hub's lock, so each handler is one  *)
(* step; watchLadder is three.  A group's identity is that of its primary  *)
(* rendition; a process is named by the order it was started in.           *)
(***************************************************************************)
EXTENDS Integers, Sequences

CONSTANTS Rungs,          \* the picture sizes, tallest first: 1..n
          Looks,          \* what the source looks like (film, field order, sound)
          GpuFirst,       \* the encoder is a hardware one
          MaxProcs,       \* bound: processes ever started
          MaxGroups       \* bound: ladders ever started

VARIABLES group,      \* the ladder: up, gen, cmd, waited, restarted, fallback, args, filter
          packs,      \* rung -> its packager: alive, the process it takes
          encProcs,      \* process -> run, killed, grace, noted
          watchers,      \* process -> where its watchLadder is, the group it is for
          breaks,     \* calls of followLadderBreak to come: group, filter
          look,       \* the source now
          softKey     \* f.soft: this key fell back before
ladderVars == <<group, packs, encProcs, watchers, breaks, look, softKey>>

Ids == DOMAIN encProcs
Running(p) == encProcs[p].st = "run"
(* LadderArgs: the command is a function of the source and the encoder. *)
ArgsOf(soft) == <<look, soft \/ ~GpuFirst>>

NewProc == [st |-> "run", killed |-> FALSE, grace |-> FALSE, noted |-> TRUE]
Killed(q, p) == IF p \in DOMAIN q /\ q[p].st = "run" THEN [q EXCEPT ![p].killed = TRUE] ELSE q
Watching(w, gen, respawn) == Append(w, [at |-> "wait", gen |-> gen, respawn |-> respawn])
CanStart == Len(encProcs) < MaxProcs
NextProc == Len(encProcs) + 1
Fed(p) == [r \in Rungs |-> [alive |-> TRUE, from |-> p]]
Down(g) == [g EXCEPT !.up = FALSE]

(* stopLadderLocked: the process is killed unless it was already waited    *)
(* for, and every rung's folder goes.                                      *)
StopLadder(q) == IF group.waited THEN q
                 ELSE [Killed(q, group.cmd) EXCEPT ![group.cmd].noted = FALSE]

(* ensureLadderLocked, startLadderLocked; a viewer count of zero for the  *)
(* idle time may stop the ladder at any moment.                            *)
Start(gen, ok) ==
    IF ok THEN /\ group' = [up |-> TRUE, gen |-> gen, cmd |-> NextProc, waited |-> FALSE, restarted |-> FALSE,
                            fallback |-> softKey, args |-> ArgsOf(softKey), filter |-> NextProc]
               /\ packs' = Fed(NextProc)
               /\ watchers' = Watching(watchers, gen, FALSE)
    ELSE group' = [Down(group) EXCEPT !.gen = gen] /\ UNCHANGED <<packs, watchers>>
Ensure == \E ok \in BOOLEAN :
    /\ ~group.up /\ CanStart /\ group.gen < MaxGroups
    /\ Start(group.gen + 1, ok)
    /\ encProcs' = IF ok THEN Append(encProcs, NewProc) ELSE encProcs
    /\ UNCHANGED <<breaks, look, softKey>>
IdleStop == /\ group.up
            /\ encProcs' = StopLadder(encProcs) /\ group' = Down(group)
            /\ UNCHANGED <<packs, watchers, breaks, look, softKey>>

(* A process ends by itself or because it was killed; its watchLadder sees it. *)
Exits(p) == /\ Running(p) /\ encProcs' = [encProcs EXCEPT ![p].st = "gone"]
            /\ UNCHANGED <<group, packs, watchers, breaks, look, softKey>>
PackDies(r) == /\ group.up /\ packs[r].alive /\ packs' = [packs EXCEPT ![r].alive = FALSE]
               /\ UNCHANGED <<group, encProcs, watchers, breaks, look, softKey>>
GraceEnds(p) == /\ encProcs[p].grace
                /\ encProcs' = [Killed(encProcs, p) EXCEPT ![p].grace = FALSE]
                /\ UNCHANGED <<group, packs, watchers, breaks, look, softKey>>

(* restartLadderLocked: the same rungs and viewers, a new process. *)
RestartLadder(q, w, software, ok) ==
    LET live == Killed(q, group.cmd) IN
    IF ok THEN /\ group' = [group EXCEPT !.cmd = NextProc, !.waited = FALSE, !.restarted = TRUE,
                                         !.fallback = @ \/ software, !.filter = NextProc,
                                         !.args = IF software THEN ArgsOf(TRUE) ELSE @]
               /\ packs' = Fed(NextProc)
               /\ encProcs' = Append(IF group.waited THEN q ELSE live, NewProc)
               /\ watchers' = Watching(w, group.gen, FALSE)
               /\ softKey' = (softKey \/ software)
    ELSE /\ group' = Down(group)
         /\ encProcs' = [(IF group.waited THEN q ELSE live) EXCEPT ![group.cmd].noted = FALSE]
         /\ watchers' = w
         /\ UNCHANGED <<packs, softKey>>

(* watchLadder: cmd.Wait returned. *)
Mine(p) == group.gen = watchers[p].gen /\ group.cmd = p
WatchEnds(p) ==
    /\ watchers[p].at = "wait" /\ ~Running(p)
    /\ group' = IF Mine(p) THEN [group EXCEPT !.waited = TRUE] ELSE group
    /\ watchers' = [watchers EXCEPT ![p].at = IF Mine(p) THEN "packs" ELSE "done"]
    /\ encProcs' = [encProcs EXCEPT ![p].noted = FALSE]
    /\ UNCHANGED <<packs, breaks, look, softKey>>
(* The packagers had their time: restart once, on the processor when the   *)
(* hardware encoder failed early, else give the ladder up.                 *)
WatchActs(p) ==
    /\ watchers[p].at = "packs"
    /\ UNCHANGED <<breaks, look>>
    /\ LET w == [watchers EXCEPT ![p].at = "done"] IN
       IF ~(group.up /\ Mine(p)) THEN watchers' = w /\ UNCHANGED <<group, packs, encProcs, softKey>>
       ELSE \/ /\ ~group.restarted /\ CanStart
               /\ \E early, ok \in BOOLEAN :
                    RestartLadder(encProcs, w, early /\ ~watchers[p].respawn /\ ~group.fallback /\ GpuFirst, ok)
            \/ group' = Down(group) /\ watchers' = w /\ UNCHANGED <<packs, encProcs, softKey>>

(* The filter saw a timestamp go backwards. *)
Break == /\ group.up /\ breaks = {}
         /\ breaks' = breaks \cup {<<group.gen, group.filter>>}
         /\ UNCHANGED <<group, packs, encProcs, watchers, look, softKey>>
(* followLadderBreak: a second process; every packager goes on with its    *)
(* output, or the whole ladder is restarted.  The first is killed after a  *)
(* while.                                                                  *)
FollowSome(from, p) == [r \in Rungs |-> IF from[r].alive THEN [from[r] EXCEPT !.from = p] ELSE from[r]]     \* mutant
Follow(from, p) == IF \A r \in Rungs : from[r].alive THEN [r \in Rungs |-> [from[r] EXCEPT !.from = p]] ELSE from
Followed(from, p) == Follow(from, p) # from
NoGrace(q, p) == q                                                            \* mutant
Grace(q, p) == [q EXCEPT ![p].grace = TRUE]
FollowBreak == \E b \in breaks :
    /\ breaks' = breaks \ {b}
    /\ UNCHANGED <<look>>
    /\ IF ~(group.up /\ b = <<group.gen, group.filter>>) THEN UNCHANGED <<group, packs, encProcs, watchers, softKey>>
       ELSE /\ CanStart
            /\ \/ /\ Followed(packs, NextProc)
                  /\ packs' = Follow(packs, NextProc)
                  /\ group' = [group EXCEPT !.cmd = NextProc, !.waited = FALSE]
                  /\ encProcs' = Append(Grace(encProcs, group.cmd), NewProc)
                  /\ watchers' = Watching(watchers, group.gen, TRUE)
                  /\ UNCHANGED softKey
               \/ ~Followed(packs, NextProc) /\ \E ok \in BOOLEAN : RestartLadder(encProcs, watchers, FALSE, ok)

(* unfreezeLadderRungLocked: one rung stands still, the shared process goes. *)
Unfreeze == /\ group.up /\ ~group.waited
            /\ group' = [group EXCEPT !.restarted = FALSE]
            /\ encProcs' = Killed(encProcs, group.cmd)
            /\ UNCHANGED <<packs, watchers, breaks, look, softKey>>
(* rebuildLaddersLocked: the source changed; stopped and started again,    *)
(* once for the group, with the viewers it had.                            *)
SourceChanges == /\ look' \in Looks \ {look}
                 /\ UNCHANGED <<group, packs, encProcs, watchers, breaks, softKey>>
Rebuild == /\ group.up /\ group.args # ArgsOf(group.fallback) /\ CanStart /\ group.gen < MaxGroups
           /\ \E ok \in BOOLEAN :
                /\ Start(group.gen + 1, ok)
                /\ encProcs' = IF ok THEN Append(StopLadder(encProcs), NewProc) ELSE StopLadder(encProcs)
           /\ UNCHANGED <<breaks, look, softKey>>

LadderInit ==
    /\ group = [up |-> FALSE, gen |-> 0, cmd |-> 0, waited |-> FALSE, restarted |-> FALSE, fallback |-> FALSE,
                args |-> <<>>, filter |-> 0]
    /\ packs = Fed(0) /\ encProcs = <<>> /\ watchers = <<>> /\ breaks = {}
    /\ look \in Looks /\ softKey = FALSE
LadderNext ==
    \/ Ensure \/ IdleStop \/ Break \/ FollowBreak \/ Unfreeze \/ SourceChanges \/ Rebuild
    \/ \E p \in Ids : Exits(p) \/ GraceEnds(p) \/ WatchEnds(p) \/ WatchActs(p)
    \/ \E r \in Rungs : PackDies(r)
LadderSpec == LadderInit /\ [][LadderNext]_ladderVars

-----------------------------------------------------------------------------
(* Whatever replaced the encode - a crash, a timestamp break, a new        *)
(* source - every rung of a ladder is packed from the one process the      *)
(* ladder holds (followLadderBreak, restartLadderLocked).                  *)
RungsTogether == group.up => \A r \in Rungs : packs[r].from = group.cmd

(* No ffmpeg goes on beside the ladder: a process that runs is the one the *)
(* ladder holds, or is being killed; and one that nobody is killing is     *)
(* noted, so a crashed server's next start finds it (NotePID, ForgetPID).  *)
NoStrayEncode ==
    \A p \in Ids : Running(p) /\ ~encProcs[p].killed =>
        /\ encProcs[p].grace \/ (group.up /\ group.cmd = p)
        /\ encProcs[p].noted

(* Both (watchLadder, followLadderBreak). *)
LadderHolds == RungsTogether /\ NoStrayEncode
=============================================================================
