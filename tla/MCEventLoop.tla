---------------------------- MODULE MCEventLoop -----------------------------
(* The small instance of EventLoop for TLC.  Liveness is checked, so there is no symmetry. *)
EXTENDS EventLoop, TLC
=============================================================================
