-------------------------------- MODULE Tape --------------------------------
(***************************************************************************)
(* What the ring promises its readers: of all the bytes ever appended it   *)
(* holds those of [start, received), the ones before flushed on disk.  A   *)
(* position never changes its byte, what is given up is the oldest, and    *)
(* nothing comes back.  Ring implements it; Backfill is built on it.       *)
(***************************************************************************)
EXTENDS Integers

CONSTANTS
    MaxChunk,       \* bound: longest chunk
    MaxPos          \* bound: bytes a behaviour appends

ASSUME TapeAssumption == MaxChunk \in Nat \ {0} /\ MaxPos \in Nat

VARIABLES start, flushed, received, closed

tape == <<start, flushed, received, closed>>

TapeInit == start = 0 /\ flushed = 0 /\ received = 0 /\ closed = FALSE

\* Append: the bytes are kept, or the tape has nothing before its new end.
Take(n) ==
    /\ received + n <= MaxPos
    /\ received' = received + n
    /\ \/ UNCHANGED <<start, flushed>>
       \/ start' = received' /\ flushed' = received'
    /\ UNCHANGED closed

\* Bytes go to disk, the oldest are given up, or all of them.
Move(s, f) ==
    /\ start <= s /\ s <= f /\ flushed <= f /\ f <= received
    /\ start' = s /\ flushed' = f
    /\ UNCHANGED <<received, closed>>

\* Close: a closed tape answers no reader, so it holds nothing.
CloseTape ==
    /\ ~closed /\ closed' = TRUE
    /\ start' = received /\ flushed' = received /\ UNCHANGED received

TapeNext ==
    \/ \E n \in 1..MaxChunk : Take(n)
    \/ \E s, f \in 0..received : Move(s, f)
    \/ CloseTape

TapeSpec == TapeInit /\ [][TapeNext]_tape
=============================================================================
