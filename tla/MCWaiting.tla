------------------------------ MODULE MCWaiting ------------------------------
(* What must come to an end in Hub, in two small houses: in the one of the  *)
(* .cfg requests wait for each other's opens, in the other (Fail, over the  *)
(* same variables) a tuner's streams end.  Beside them, an encode with its  *)
(* sound lead (Lead).  `part` says which it is.                             *)
EXTENDS Hub

VARIABLES part, v1, v2, v3, v4, v5
all == <<part, vars, v1, v2, v3, v4, v5>>
slots == <<v1, v2, v3, v4, v5>>

\* Three channels of which 1 and 2 share a frequency.
MCFreq == <<1, 1, 2>>

Fail == INSTANCE Hub WITH Own <- {0}, Other <- {}, Freq <- <<1>>, Unknown <- {},
    Clients <- {"one"}, Kinds <- {"watch"}, Holds <- {0}, Faults <- {"stream"},
    MaxMux <- 3, MaxViewers <- 1

\* A broadcast of five pictures in three groups, and one restart.
Leading == INSTANCE Lead WITH
    Pictures <- 5, Keys <- {1, 3, 5}, ChunkMax <- 2, QueueCap <- 3, MaxRestarts <- 1,
    tee <- v1, lead <- v2, enc <- v3, pack <- v4, fault <- v5

none5 == v1 = 0 /\ v2 = 0 /\ v3 = 0 /\ v4 = 0 /\ v5 = 0

WaitingInit ==
    \/ part = "wait" /\ Init /\ none5
    \/ part = "fail" /\ Fail!Init /\ none5
    \/ part = "lead" /\ Leading!Init /\ Init

WaitingNext ==
    \/ part = "wait" /\ Next /\ UNCHANGED <<part, slots>>
    \/ part = "fail" /\ Fail!Next /\ UNCHANGED <<part, slots>>
    \/ part = "lead" /\ Leading!Next /\ UNCHANGED <<part, vars>>
    \/ part = "lead" /\ UNCHANGED all    \* the broadcast is over

\* The fairness of Hub in each house, and of Lead.
WaitingSpec ==
    /\ WaitingInit /\ [][WaitingNext]_all
    /\ \A c \in Clients : WF_all(part = "wait" /\ Step(c) /\ UNCHANGED <<part, slots>>)
    /\ \A ch \in Channels : WF_all(part = "wait" /\ IdleStop(ch) /\ UNCHANGED <<part, slots>>)
    /\ \A ch \in Channels : WF_all(part = "wait" /\ LingerEnds(ch) /\ UNCHANGED <<part, slots>>)
    /\ \A t \in Tuners : WF_all(part = "wait" /\ ReleaseDone(t) /\ UNCHANGED <<part, slots>>)
    /\ WF_all(part = "fail" /\ Fail!Step("one") /\ UNCHANGED <<part, slots>>)
    /\ WF_all(part = "fail" /\ Fail!IdleStop(1) /\ UNCHANGED <<part, slots>>)
    /\ WF_all(part = "fail" /\ Fail!LingerEnds(1) /\ UNCHANGED <<part, slots>>)
    /\ WF_all(part = "fail" /\ Fail!ReleaseDone(0) /\ UNCHANGED <<part, slots>>)
    /\ \A i \in 1..3 : WF_all(part = "fail" /\ Fail!Reader(i) /\ UNCHANGED <<part, slots>>)
    /\ WF_all(part = "lead" /\ Leading!Runs /\ UNCHANGED <<part, vars>>)

\* A request for a channel ends whatever the others do, and once nobody watches,
\* records or asks, every tuner comes back (endOpenLocked, unmarkLocked, idleStop,
\* releaseLaterLocked).  The lead and the encode after it are one picture, in order, and
\* the packager reads on to the encode, or ends with a rendition that is stopped (leadTee,
\* followTakeover).
HubSettles ==
    /\ \A c \in Clients : (part = "wait" /\ req[c].pc # "idle") ~> (part = "wait" => req[c].pc = "idle")
    /\ (part = "fail" /\ req["one"].pc # "idle") ~> (part = "fail" => req["one"].pc = "idle")
    /\ <>[](part = "wait" /\ Quiet) => <>[](part = "wait" => Released)
    /\ <>[](part = "fail" /\ Fail!Quiet) => <>[](part = "fail" => Fail!Released)
    /\ [](part = "lead" => Leading!PlaysInOrder /\ Leading!Seamless)
    /\ (part = "lead" /\ Leading!Awaited) ~> (part = "lead" => Leading!HandedOver)
    /\ (part = "lead" /\ v4.ended) ~> (part = "lead" => v4.done)
=============================================================================
