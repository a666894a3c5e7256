------------------------------- MODULE MCRing -------------------------------
EXTENDS Ring

RingSettles == PendingDrains /\ CloseCleansUp
=============================================================================
