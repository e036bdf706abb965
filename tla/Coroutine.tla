----------------------------- MODULE Coroutine ------------------------------
(***************************************************************************)
(* The wakeup protocol of a coroutine: coroutineCall and coroutineYield of *)
(* src/src/asyncio/coroutinePosix.c (coroutineWin32.c has the same one).   *)
(* One word, counter, decides who switches into the coroutine: a call adds *)
(* 2, and each of the two sides of a suspension takes 1 away.  A call that *)
(* finds the word above 0 leaves, and its 2 are found by the side that     *)
(* takes its 1 away last.                                                  *)
(*                                                                         *)
(* The callers keep the contract of coroutine.h: one call per suspension.  *)
(* The coroutine arms one source of a wakeup (an operation, an event)      *)
(* before it yields; the source fires on any thread, at any time from then *)
(* on, the moments inside coroutineYield and after it included.            *)
(***************************************************************************)
EXTENDS Naturals

CONSTANTS
  Threads,     \* the loop threads
  MaxYields    \* bound on the suspensions of the coroutine

ASSUME YieldsAssumption == MaxYields \in Nat

VARIABLES
  counter, finished,
  freed,      \* how often the coroutine's memory was given back
  context,    \* "saved", "running" or in a step of coroutineYield or of its end
  armed,      \* sources that are armed and have not fired
  owed,       \* suspensions that are asked for and not over
  yields,     \* suspensions so far
  at          \* where each thread is in coroutineCall

vars == <<counter, finished, freed, context, armed, owed, yields, at>>

Go(t, pc) == at' = [at EXCEPT ![t] = pc]

\* coroutineNew; the creator is to make the first call.
Init ==
  /\ counter = 0
  /\ finished = 0
  /\ freed = 0
  /\ context = "saved"
  /\ armed = 1
  /\ owed = 1
  /\ yields = 0
  /\ at = [t \in Threads |-> "out"]
-----------------------------------------------------------------------------
\* The source fires: coroutineCall, the check of the finished flag.
callBegins(t) ==
  /\ at[t] = "out"
  /\ armed = 1
  /\ armed' = 0
  /\ Go(t, IF finished = 1 THEN "out" ELSE "claim")
  /\ UNCHANGED <<counter, finished, freed, context, owed, yields>>

\* coroutineCall, fetch_and_add 2: an active coroutine is left alone.
callClaims(t) ==
  /\ at[t] = "claim"
  /\ counter' = counter + 2
  /\ Go(t, IF counter = 0 THEN "resume" ELSE "out")
  /\ UNCHANGED <<finished, freed, context, armed, owed, yields>>

\* coroutineCall, the switch into the coroutine.
callSwitches(t) ==
  /\ at[t] = "resume"
  /\ context' = "running"
  /\ owed' = 0
  /\ Go(t, "inside")
  /\ UNCHANGED <<counter, finished, freed, armed, yields>>

\* coroutineCall, back from the switch: the flag is captured first ...
callReturns(t) ==
  /\ at[t] = "back"
  /\ Go(t, IF finished = 1 THEN "reap" ELSE "drop")
  /\ UNCHANGED <<counter, finished, freed, context, armed, owed, yields>>

\* Slip: the runner leaves without looking at what the word was.
callDropsBlindly(t) ==
  /\ at[t] \in {"drop", "reap"}
  /\ counter' = counter - 1
  /\ Go(t, IF at[t] = "reap" THEN "free" ELSE "out")
  /\ UNCHANGED <<finished, freed, context, armed, owed, yields>>

\* ... then the runner's own 1 is taken away; a call that came meanwhile sends
\* it round again, unless the coroutine is over.
callDrops(t) ==
  /\ at[t] \in {"drop", "reap"}
  /\ counter' = counter - 1
  /\ Go(t, IF at[t] = "reap" THEN "free" ELSE IF counter # 1 THEN "resume" ELSE "out")
  /\ UNCHANGED <<finished, freed, context, armed, owed, yields>>

\* coroutineCall on a coroutine that ran to its end: the storage is freed.
callFrees(t) ==
  /\ at[t] = "free"
  /\ freed' = freed + 1
  /\ Go(t, "out")
  /\ UNCHANGED <<counter, finished, context, armed, owed, yields>>
-----------------------------------------------------------------------------
\* The body submits the operation or installs the waiter it will yield for.
bodyArms(t) ==
  /\ at[t] = "inside"
  /\ context = "running"
  /\ owed = 0
  /\ yields < MaxYields
  /\ armed' = 1
  /\ owed' = 1
  /\ yields' = yields + 1
  /\ UNCHANGED <<counter, finished, freed, context, at>>

\* coroutineYield, the first decrement: was there a call already?
yieldSteps(t) ==
  /\ at[t] = "inside"
  /\ context = "running"
  /\ owed = 1
  /\ counter' = counter - 1
  /\ context' = IF counter = 2 THEN "leaving" ELSE "banked"
  /\ UNCHANGED <<finished, freed, armed, owed, yields, at>>

\* coroutineYield, the second decrement: the banked wakeup is consumed.
yieldConsumes(t) ==
  /\ at[t] = "inside"
  /\ context = "banked"
  /\ counter' = counter - 1
  /\ context' = "running"
  /\ owed' = 0
  /\ UNCHANGED <<finished, freed, armed, yields, at>>

\* coroutineYield, the switch back to the runner.
yieldSwitches(t) ==
  /\ at[t] = "inside"
  /\ context = "leaving"
  /\ context' = "saved"
  /\ Go(t, "back")
  /\ UNCHANGED <<counter, finished, freed, armed, owed, yields>>

\* fiberEntryPoint: the entry function returned; the flag ...
fiberFinishes(t) ==
  /\ at[t] = "inside"
  /\ context = "running"
  /\ owed = 0
  /\ finished' = 1
  /\ context' = "ending"
  /\ UNCHANGED <<counter, freed, armed, owed, yields, at>>

\* ... the decrement and the last switch.
fiberExits(t) ==
  /\ at[t] = "inside"
  /\ context = "ending"
  /\ counter' = counter - 1
  /\ context' = "over"
  /\ Go(t, "back")
  /\ UNCHANGED <<finished, freed, armed, owed, yields>>
-----------------------------------------------------------------------------
coroutineCall(t) ==
  \/ callClaims(t) \/ callSwitches(t) \/ callReturns(t) \/ callDrops(t) \/ callFrees(t)

body(t) == bodyArms(t) \/ fiberFinishes(t)

coroutineYield(t) ==
  \/ yieldSteps(t) \/ yieldConsumes(t) \/ yieldSwitches(t) \/ fiberExits(t)

Next == \E t \in Threads : callBegins(t) \/ coroutineCall(t) \/ body(t) \/ coroutineYield(t)

Spec == Init /\ [][Next]_vars

\* Sources fire, and a thread inside these functions runs on.
FairSpec ==
  /\ Spec
  /\ WF_vars(\E t \in Threads : callBegins(t))
  /\ \A t \in Threads : WF_vars(coroutineCall(t)) /\ WF_vars(body(t)) /\ WF_vars(coroutineYield(t))
-----------------------------------------------------------------------------
TypeOK ==
  /\ counter \in 0 .. 4
  /\ finished \in 0 .. 1 /\ freed \in 0 .. 1 /\ armed \in 0 .. 1 /\ owed \in 0 .. 1
  /\ context \in {"saved", "running", "banked", "leaving", "ending", "over"}
  /\ yields \in 0 .. MaxYields
  /\ at \in [Threads -> {"out", "claim", "resume", "inside", "back", "drop", "reap", "free"}]

\* A thread switches into the coroutine only when its context is saved and no
\* other thread runs it: two runners would share one stack, and a resume before
\* the save would continue from a stale context.
ResumedOnlyWhenSaved ==
  \A t \in Threads : at[t] = "resume" =>
    context = "saved" /\ \A u \in Threads \ {t} : at[u] \in {"out", "claim"}

\* Nothing of the coroutine is touched once it has freed itself: no caller is
\* between its check and its increment, no runner has a decrement left.
UntouchedAfterFree == freed = 1 => armed = 0 /\ \A t \in Threads : at[t] = "out"

\* coroutineYield's assertion "Double yield detected" holds.
NoDoubleYield == \A t \in Threads : at[t] = "inside" /\ context = "running" => counter >= 2

\* A fired wakeup is never lost: the suspension it was armed for ends.
WakeupEndsSuspension == owed = 1 /\ armed = 0 ~> owed = 0
=============================================================================
