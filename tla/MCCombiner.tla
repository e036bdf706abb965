----------------------------- MODULE MCCombiner -----------------------------
(* The small instance of Combiner for TLC.  Liveness is checked, so there is no symmetry. *)
EXTENDS Combiner, TLC
=============================================================================
