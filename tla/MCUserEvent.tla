---------------------------- MODULE MCUserEvent -----------------------------
(***************************************************************************)
(* Two loop threads, one activating, one deleting and one calling thread.  *)
(***************************************************************************)
EXTENDS UserEvent

Scene(hasCallback, inputs, expired, fails) ==
  [callback |-> hasCallback, isSemaphore |-> ~hasCallback, maxInputs |-> inputs, maxExpired |-> expired, fails |-> fails]

\* A counting event for a coroutine, and a coalescing one with a callback: with more calls,
\* or with a timer that may fail to start.
AllScenes == {Scene(FALSE, 3, 1, FALSE), Scene(TRUE, 3, 1, FALSE), Scene(FALSE, 2, 2, TRUE), Scene(TRUE, 2, 2, TRUE)}
Symmetry == Permutations(Loops)
=============================================================================
