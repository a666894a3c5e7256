----------------------------- MODULE MCSettling -----------------------------
(* What must come to an end whatever happens meanwhile: the reader of a     *)
(* tape (Backfill), the secure name (Direct) and a player whose picture     *)
(* stops (Picture).  No step changes the state of two, so a behaviour is    *)
(* one of one part: `part` says which; the variables of the parts but       *)
(* "backfill" are the slots v1..v10, in the order each declares them.       *)
EXTENDS Backfill

VARIABLES part, v1, v2, v3, v4, v5, v6, v7, v8, v9, v10

-----------------------------------------------------------------------------
\* A machine on a wire, and one with a VPN that has the default route.
A(n, k) == [net |-> n, k |-> k]
Wired == [primary |-> A("home", 1), ifs |-> {[virtual |-> FALSE, addrs |-> {A("home", 1), A("ula", 1)}]}]
Vpn == [primary |-> A("home", 2), ifs |-> {[virtual |-> TRUE, addrs |-> {A("home", 2)}],
                                            [virtual |-> FALSE, addrs |-> {A("home", 1)}]}]
Naming == INSTANCE Direct WITH
    Homes <- {Wired, Vpn}, MaxNames <- 3, MaxSwitches <- 1, MaxFaults <- 1,
    mem <- v1, disk <- v2, loop <- v3, owner <- v4, kick <- v5, home <- v6, service <- v7,
    faults <- v8, switches <- v9, calm <- v10

\* A player whose start may be refused.
Refused == INSTANCE Picture WITH
    FrozenTicks <- 1, SettledTicks <- 2, MaxFrozenSteps <- 2, RetryEvery <- 1, MaxRetries <- 1, LastAsk <- 1,
    MaxHold <- 1, MaxStarts <- 2, Causes <- {"none"},
    cause <- v1, video <- v2, me <- v3, run <- v4, shown <- v5, clock <- v6, frozen <- v7, recov <- v8, later <- v9

none10 == v1 = 0 /\ v2 = 0 /\ v3 = 0 /\ v4 = 0 /\ v5 = 0 /\ v6 = 0 /\ v7 = 0 /\ v8 = 0 /\ v9 = 0 /\ v10 = 0
slots == <<v1, v2, v3, v4, v5, v6, v7, v8, v9, v10>>
all == <<part, vars, slots>>

-----------------------------------------------------------------------------
SettlingInit ==
    /\ Init
    /\ \/ part = "backfill" /\ none10
       \/ part = "direct" /\ Naming!DirectInit
       \/ part = "refused" /\ Refused!Init /\ v10 = 0

SettlingNext ==
    \/ part = "backfill" /\ Next /\ UNCHANGED <<part, slots>>
    \/ part = "direct" /\ Naming!DirectNext /\ UNCHANGED <<part, vars>>
    \/ part = "refused" /\ Refused!Next /\ UNCHANGED <<part, vars, v10>>

\* The fairness of each part, of its own steps (Backfill, Direct, Picture).
SettlingSpec ==
    /\ SettlingInit /\ [][SettlingNext]_all
    /\ Fairness
    /\ WF_all(part = "direct" /\ Naming!LoopNext /\ UNCHANGED <<part, vars>>)
    /\ WF_all(part = "direct" /\ (Naming!OwnerSaves \/ Naming!Kicks) /\ UNCHANGED <<part, vars>>)
    /\ WF_all(part = "direct" /\ Naming!DayPasses /\ UNCHANGED <<part, vars>>)
    /\ WF_all(part = "refused" /\ Refused!Tick /\ UNCHANGED <<part, vars, v10>>)
    /\ WF_all(part = "refused" /\ Refused!Settle /\ UNCHANGED <<part, vars, v10>>)

-----------------------------------------------------------------------------
\* An ended recording leaves the fan-out for good, and a copy reaches live or ends
\* (backfill, deliver).
BackfillSettles == EndedLetsGo /\ HandsOver

\* A secure address that works is lost only when the owner, the service or time
\* takes it, and once nothing fails any more the name is registered, certified and
\* points here (Step, issue).  A player's clocks ask once and leave a moving picture
\* alone, and a picture that stands still is started again or told of (useLiveStream,
\* FrozenPicture).
OthersSettle ==
    /\ [][part = "direct" => Naming!UsableStays]_all
    /\ <>(part = "direct" /\ v10) => <>[](part = "direct" => Naming!Settled)
    /\ [](part = "refused" => Refused!RetryingIsStarting /\ Refused!StoppedIsRetried)
    /\ [][part = "refused" => Refused!MovesOn]_all
    /\ (part = "refused" /\ Refused!StandsStill) ~> (part = "refused" /\ Refused!Handled)
=============================================================================
