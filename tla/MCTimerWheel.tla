---------------------------- MODULE MCTimerWheel ----------------------------
(***************************************************************************)
(* A wheel of two levels of two slots (range 4), with two loops and one    *)
(* timer, or one loop and two timers.                                      *)
(***************************************************************************)
EXTENDS TimerWheel, TLC

Symmetry == Permutations(Timers)
=============================================================================
