-------------------------- MODULE CoroutineProofs ---------------------------
(***************************************************************************)
(* The safety of the coroutine's counter protocol for any number of        *)
(* threads and suspensions.  The invariants of Coroutine are not inductive *)
(* by themselves: what makes them so is the exact value of the counter in  *)
(* every phase of the runner, with the wakeup outstanding or delivered.    *)
(***************************************************************************)
EXTENDS Coroutine, TLAPS

Runs(t) == at[t] \notin {"out", "claim"}
Claims(t) == at[t] = "claim"

\* The wakeup of the current suspension has not reached the counter.
Outstanding == armed = 1 \/ \E t \in Threads : Claims(t)

\* What the word holds beyond the runner's own share.
Delivered(n) == counter = IF Outstanding THEN n ELSE n + 2

Suspended == context = "saved" /\ owed = 1 /\ finished = 0
Ended == context = "over" /\ finished = 1 /\ owed = 0

Inside ==
  \/ context = "running" /\ finished = 0 /\ owed = 0 /\ counter = 2
  \/ context = "running" /\ finished = 0 /\ owed = 1 /\ Delivered(2)
  \/ context = "banked" /\ finished = 0 /\ owed = 1 /\ ~Outstanding /\ counter = 3
  \/ context = "leaving" /\ finished = 0 /\ owed = 1 /\ Delivered(1)
  \/ context = "ending" /\ finished = 1 /\ owed = 0 /\ counter = 2

Phase(t) ==
  /\ at[t] = "resume" => Suspended /\ ~Outstanding /\ counter = 2
  /\ at[t] = "inside" => Inside
  /\ at[t] = "back" => (Suspended /\ Delivered(1)) \/ (Ended /\ counter = 1)
  /\ at[t] = "drop" => Suspended /\ Delivered(1)
  /\ at[t] = "reap" => Ended /\ counter = 1
  /\ at[t] = "free" => Ended /\ counter = 0

IInv ==
  /\ TypeOK
  /\ \A t, u \in Threads : Runs(t) /\ Runs(u) => t = u
  /\ \A t, u \in Threads : Claims(t) /\ Claims(u) => t = u
  /\ \A t \in Threads : Claims(t) => armed = 0
  /\ Outstanding => owed = 1
  /\ \A t \in Threads : Runs(t) => Phase(t) /\ freed = 0
  /\ (\A t \in Threads : ~Runs(t)) => IF freed = 1 THEN Ended ELSE Suspended /\ Outstanding /\ counter = 0
-----------------------------------------------------------------------------
\* A new coroutine is suspended with its first wakeup outstanding.
LEMMA InitInvariant == Init => IInv
<1> SUFFICES ASSUME Init PROVE IInv
  OBVIOUS
<1>1. TypeOK
  BY YieldsAssumption DEF Init, TypeOK
<1>2. \A t \in Threads : ~Runs(t) /\ ~Claims(t)
  BY DEF Init, Runs, Claims
<1>3. Suspended /\ Outstanding /\ counter = 0 /\ freed = 0 /\ owed = 1
  BY DEF Init, Suspended, Outstanding
<1> QED
  BY <1>1, <1>2, <1>3 DEF IInv

\* Every step keeps the invariant.
LEMMA NextInvariant == IInv /\ [Next]_vars => IInv'
<1> SUFFICES ASSUME IInv, [Next]_vars PROVE IInv'
  OBVIOUS
<1> USE YieldsAssumption
<1>1. ASSUME NEW t \in Threads, callBegins(t) PROVE IInv'
  BY <1>1 DEF callBegins, IInv, TypeOK, Runs, Claims, Outstanding, Delivered, Suspended, Ended, Inside, Phase, Go
<1>2. ASSUME NEW t \in Threads, callClaims(t) PROVE IInv'
  BY <1>2 DEF callClaims, IInv, TypeOK, Runs, Claims, Outstanding, Delivered, Suspended, Ended, Inside, Phase, Go
<1>3. ASSUME NEW t \in Threads, callSwitches(t) PROVE IInv'
  BY <1>3 DEF callSwitches, IInv, TypeOK, Runs, Claims, Outstanding, Delivered, Suspended, Ended, Inside, Phase, Go
<1>4. ASSUME NEW t \in Threads, callReturns(t) PROVE IInv'
  BY <1>4 DEF callReturns, IInv, TypeOK, Runs, Claims, Outstanding, Delivered, Suspended, Ended, Inside, Phase, Go
<1>5. ASSUME NEW t \in Threads, callDrops(t) PROVE IInv'
  BY <1>5 DEF callDrops, IInv, TypeOK, Runs, Claims, Outstanding, Delivered, Suspended, Ended, Inside, Phase, Go
<1>6. ASSUME NEW t \in Threads, callFrees(t) PROVE IInv'
  BY <1>6 DEF callFrees, IInv, TypeOK, Runs, Claims, Outstanding, Delivered, Suspended, Ended, Inside, Phase, Go
<1>7. ASSUME NEW t \in Threads, bodyArms(t) PROVE IInv'
  BY <1>7 DEF bodyArms, IInv, TypeOK, Runs, Claims, Outstanding, Delivered, Suspended, Ended, Inside, Phase, Go
<1>8. ASSUME NEW t \in Threads, yieldSteps(t) PROVE IInv'
  BY <1>8 DEF yieldSteps, IInv, TypeOK, Runs, Claims, Outstanding, Delivered, Suspended, Ended, Inside, Phase, Go
<1>9. ASSUME NEW t \in Threads, yieldConsumes(t) PROVE IInv'
  BY <1>9 DEF yieldConsumes, IInv, TypeOK, Runs, Claims, Outstanding, Delivered, Suspended, Ended, Inside, Phase, Go
<1>10. ASSUME NEW t \in Threads, yieldSwitches(t) PROVE IInv'
  BY <1>10 DEF yieldSwitches, IInv, TypeOK, Runs, Claims, Outstanding, Delivered, Suspended, Ended, Inside, Phase, Go
<1>11. ASSUME NEW t \in Threads, fiberFinishes(t) PROVE IInv'
  BY <1>11 DEF fiberFinishes, IInv, TypeOK, Runs, Claims, Outstanding, Delivered, Suspended, Ended, Inside, Phase, Go
<1>12. ASSUME NEW t \in Threads, fiberExits(t) PROVE IInv'
  BY <1>12 DEF fiberExits, IInv, TypeOK, Runs, Claims, Outstanding, Delivered, Suspended, Ended, Inside, Phase, Go
<1>13. CASE UNCHANGED vars
  BY <1>13 DEF vars, IInv, TypeOK, Runs, Claims, Outstanding, Delivered, Suspended, Ended, Inside, Phase, Go
<1> QED
  BY <1>1, <1>2, <1>3, <1>4, <1>5, <1>6, <1>7, <1>8, <1>9, <1>10, <1>11, <1>12, <1>13
     DEF Next, coroutineCall, body, coroutineYield

\* The invariant holds in every reachable state.
LEMMA Invariant == Spec => []IInv
  BY InitInvariant, NextInvariant, PTL DEF Spec
-----------------------------------------------------------------------------
\* The counter stays between 0 and 4 and the storage is freed at most once, for
\* any number of threads and suspensions.
THEOREM TypeCorrect == Spec => []TypeOK
<1>1. IInv => TypeOK
  BY DEF IInv
<1> QED
  BY <1>1, Invariant, PTL

\* coroutineCall never switches into a coroutine that another thread still runs
\* or whose registers are not saved yet.
THEOREM OneRunner == Spec => []ResumedOnlyWhenSaved
<1>1. IInv => ResumedOnlyWhenSaved
  BY DEF IInv, TypeOK, Runs, Phase, Suspended, ResumedOnlyWhenSaved
<1> QED
  BY <1>1, Invariant, PTL

\* A coroutine that freed itself inside coroutineCall is not touched again by any
\* caller or runner.
THEOREM SafeSelfFree == Spec => []UntouchedAfterFree
<1>1. IInv => UntouchedAfterFree
  BY DEF IInv, TypeOK, Runs, Claims, Outstanding, Ended, UntouchedAfterFree
<1> QED
  BY <1>1, Invariant, PTL

\* The assertion of coroutineYield holds whenever the body yields.
THEOREM YieldAssertion == Spec => []NoDoubleYield
<1>1. IInv => NoDoubleYield
  BY DEF IInv, TypeOK, Runs, Phase, Inside, Delivered, NoDoubleYield
<1> QED
  BY <1>1, Invariant, PTL
=============================================================================
