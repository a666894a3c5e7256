----------------------------- MODULE MCDelivery -----------------------------
(* From a tuned channel to a player: the encodes that carry it (Encodes,    *)
(* Ladder), and the playlists made of them (Pack, Dates).  No step below    *)
(* changes the state of two of them, so a behaviour is one of one part:     *)
(* `part` says which, and the slots v1..v7 are that part's variables, in    *)
(* the order it declares them.                                              *)
EXTENDS Ladder

CONSTANTS a, b          \* two players, or two encodes of a channel

VARIABLES part, v1, v2, v3, v4, v5, v6, v7
slots == <<v1, v2, v3, v4, v5, v6, v7>>
none == v1 = 0 /\ v2 = 0 /\ v3 = 0 /\ v4 = 0 /\ v5 = 0 /\ v6 = 0 /\ v7 = 0

-----------------------------------------------------------------------------
\* Ticks of about 0.1 s for a split encode, of 0.5 s for another; the timestamp
\* wraps after 32 of them.
Packaging == INSTANCE Pack WITH
    PartTicks <- 3, MinPart <- 2, SplitMin <- 2, SplitPart <- 3, SplitGoal <- 2, JumpTicks <- 8,
    LongGroup <- 5, LongTarget <- 8, LongEvidence <- 2, ShortEvidence <- 3, TargetFloor <- 3,
    Restart <- 12, Window <- 9, Slack <- 0, Listed <- 1, Kept <- 2, OpenCap <- 4, Wrap <- 32,
    Splits <- {TRUE, FALSE}, SplitDurs <- {{1}}, WholeDurs <- {{1, 4}, {0, 4}}, Steps <- {-1, 0, 9},
    SplitFrags <- 5, WholeFrags <- 4, MaxJumps <- 1,
    Encodes <- {<<1, TRUE, FALSE>>, <<1, TRUE, TRUE>>},
    p <- v1, list <- v2, gate <- v3, due <- v4, src <- v5, asked <- v6

Dating == INSTANCE Dates WITH
    Streams <- {a, b}, Wrap <- 32, Hour <- 12, Behind <- 2, SegFrames <- 1, KeptSegs <- 2, Jump <- 5,
    MaxFrame <- 5, MaxSilence <- 1, MaxLag <- 0, MaxOdd <- 1,
    now <- v1, frame <- v2, station <- v3, enc <- v4, said <- v5, odd <- v6

\* A picture, and the silent one it becomes when its sound cannot be decoded.
Silent(k) == IF k = "p720" THEN "mute" ELSE k
Joins(want, have) == want = "mute" \/ have # "mute"
Encoding == INSTANCE Encodes WITH
    Channels <- {1}, Keys <- {"p720", "mute"}, Copies <- {}, Viewers <- {a, b},
    TileCounts <- {1, 2}, Budget <- 1, MaxProcs <- 3, MaxQuirks <- 1, MaxVisits <- 2,
    hub <- v1, procs <- v2, packs <- v3, player <- v4, late <- v5, quirks <- v6, visits <- v7

-----------------------------------------------------------------------------
Init ==
    /\ LadderInit
    /\ \/ part = "pack" /\ Packaging!Init /\ v7 = 0
       \/ part = "dates" /\ Dating!Init /\ v7 = 0
       \/ part = "encode" /\ Encoding!Init
       \/ part = "ladder" /\ none
    /\ part = "ladder" \/ look = "video"

Next ==
    \/ part = "pack" /\ Packaging!Next /\ UNCHANGED <<part, ladderVars, v7>>
    \/ part = "dates" /\ Dating!Next /\ UNCHANGED <<part, ladderVars, v7>>
    \/ part = "encode" /\ Encoding!Next /\ UNCHANGED <<part, ladderVars>>
    \/ part = "ladder" /\ LadderNext /\ UNCHANGED <<part, slots>>

Spec == Init /\ [][Next]_<<part, ladderVars, slots>>

-----------------------------------------------------------------------------
\* A player never reads what the broadcast did not carry: the bytes a packager
\* took are in order and once in segments and parts, those a playlist lists are
\* served for as long as it lists them, parts keep the lengths PART-TARGET allows,
\* a blocked request brings news (place, gather, referParts, ready), and the dates
\* of a channel hold through its clock's jumps and agree between its encodes
\* (Timeline.stamp, Shift).
PlaylistsHold ==
    /\ part = "pack" => /\ Packaging!InOrderOnce /\ Packaging!ListedIsServed /\ Packaging!PartsEven
                        /\ Packaging!AnsweredGoesOn /\ Packaging!OneOffset
    /\ part = "dates" => Dating!DatesHold /\ Dating!SiblingsAgree

\* A directory is written by one encode at a time, the pictures a host was promised
\* are counted while their encodes run, and a viewer is counted under the encode it
\* reads, through failures, retries, fallbacks and rebuilds (startTranscode, reap).
EncodesHold ==
    part = "encode" => Encoding!OneWriter /\ Encoding!TilesKept /\ Encoding!ViewersTrue

=============================================================================
