---------------------------- MODULE MCCoroutine -----------------------------
(* The small instance of Coroutine for TLC.  Liveness is checked, so there is no symmetry. *)
EXTENDS Coroutine, TLC
=============================================================================
