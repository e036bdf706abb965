------------------------- MODULE MCConcurrentQueue --------------------------
EXTENDS ConcurrentQueue, TLC

CONSTANTS p1, p2, c1, c2

Pushes == (p1 :> 3) @@ (p2 :> 1)
=============================================================================
