------------------------------ MODULE Handoff -------------------------------
(***************************************************************************)
(* What the users of ConcurrentQueue rely on, be it the queue of finished  *)
(* operations or a pool of free cells: a value that was put in comes out   *)
(* once.                                                                   *)
(***************************************************************************)
CONSTANT Items

VARIABLES
  inside,   \* values put in and not yet taken out
  outside   \* values taken out

Init == inside = {} /\ outside = {}

Put(v) ==
  /\ v \notin inside \cup outside
  /\ inside' = inside \cup {v}
  /\ UNCHANGED outside

Take(v) ==
  /\ v \in inside
  /\ inside' = inside \ {v}
  /\ outside' = outside \cup {v}

Spec == Init /\ [][\E v \in Items : Put(v) \/ Take(v)]_<<inside, outside>>
=============================================================================
