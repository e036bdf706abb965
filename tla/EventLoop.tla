----------------------------- MODULE EventLoop ------------------------------
(***************************************************************************)
(* The threads of asyncLoop on the epoll backend: the slots they occupy,   *)
(* the queue of finished operations they drain, the eventfd doorbell that  *)
(* wakes them, and postQuitOperation.                                      *)
(*                                                                         *)
(* The global queue is what ConcurrentQueue shows it to be: its length,    *)
(* and a pop that may answer "empty" while a push is between its claim and *)
(* its publication.  Sleeps without a timeout are the worst case: a timer  *)
(* or a ready descriptor may end them, and nothing depends on it.          *)
(***************************************************************************)
EXTENDS Naturals, FiniteSets

CONSTANTS
  Threads,     \* threads that call asyncLoop
  Outsiders,   \* other threads that finish operations or ask the loops to quit
  Limits,      \* the values of loopThreadLimit that createAsyncBase is given
  MaxItems,    \* bound on the operations finished
  MaxQuits     \* bound on the calls of postQuitOperation

ASSUME LimitsAssumption == Limits \subseteq Nat \ {0}
ASSUME ThreadsAssumption == IsFiniteSet(Threads) /\ Threads \cap Outsiders = {}

VARIABLES
  loopThreadLimit,
  slots,        \* loopThreadSlots: the bits that are set
  messageLoopThreadCounter,
  quitRequested,
  queue,        \* the length of globalQueue
  edge, full,   \* the eventfd, 0 or 1: on epoll's ready list, counter above 0
  at,           \* where each thread is in its loop
  id,           \* messageLoopThreadId, or the slot looked at while entering
  ring,         \* the doorbell each thread still owes after a push or a request to quit
  items, quits  \* bounded inputs so far

vars == <<loopThreadLimit, slots, messageLoopThreadCounter, quitRequested, queue, edge, full, at, id, ring, items, quits>>

Actors == Threads \cup Outsiders

Init ==
  /\ loopThreadLimit \in Limits
  /\ slots = {}
  /\ messageLoopThreadCounter = 0
  /\ quitRequested = 0
  /\ queue = 0
  /\ edge = 0 /\ full = 0
  /\ at = [t \in Threads |-> "out"]
  /\ id = [t \in Threads |-> 0]
  /\ ring = [x \in Actors |-> "no"]
  /\ items = 0 /\ quits = 0

At(t, pc) == at[t] = pc /\ ring[t] = "no"
Go(t, pc) == at' = [at EXCEPT ![t] = pc]
Owes(x, what) == ring' = [ring EXCEPT ![x] = what]
Slots == <<slots, messageLoopThreadCounter, id>>
Bell == <<edge, full>>
Inputs == <<loopThreadLimit, items, quits>>
-----------------------------------------------------------------------------
\* asyncLoop is called; at most loopThreadLimit threads are in it at a time.
asyncLoop(t) ==
  /\ At(t, "out")
  /\ Cardinality({u \in Threads : at[u] # "out" \/ ring[u] # "no"}) < loopThreadLimit
  /\ Go(t, "enter")
  /\ id' = [id EXCEPT ![t] = 0]
  /\ UNCHANGED <<slots, messageLoopThreadCounter, quitRequested, queue, Bell, ring, Inputs>>

\* loopThreadEnter, one slot of the scan: taken if free, else the next one.
loopThreadEnter(t) ==
  /\ At(t, "enter")
  /\ id[t] < loopThreadLimit
  /\ \/ /\ id[t] \notin slots
        /\ slots' = slots \cup {id[t]}
        /\ Go(t, "count")
        /\ UNCHANGED id
     \/ /\ id[t] \in slots
        /\ id' = [id EXCEPT ![t] = @ + 1]
        /\ UNCHANGED <<slots, at>>
  /\ UNCHANGED <<messageLoopThreadCounter, quitRequested, queue, Bell, ring, Inputs>>

\* loopThreadEnter, the thread counts itself in.
loopThreadCounted(t) ==
  /\ At(t, "count")
  /\ messageLoopThreadCounter' = messageLoopThreadCounter + 1
  /\ Go(t, "drain")
  /\ UNCHANGED <<slots, id, quitRequested, queue, Bell, ring, Inputs>>

\* executeGlobalQueue: one callback, or the pop that answers "empty".
executeGlobalQueue(t) ==
  /\ At(t, "drain")
  /\ \/ /\ queue > 0
        /\ queue' = queue - 1
        /\ Go(t, "callback")
     \/ /\ queue = 0 \/ \E x \in Actors : ring[x] = "push"
        /\ Go(t, "check")
        /\ UNCHANGED queue
  /\ UNCHANGED <<Slots, quitRequested, Bell, ring, Inputs>>

callbackReturns(t) ==
  /\ At(t, "callback")
  /\ Go(t, "drain")
  /\ UNCHANGED <<Slots, quitRequested, queue, Bell, ring, Inputs>>

\* Slip: the loop starts over where it should be left.
checkQuitContinues(t) ==
  /\ At(t, "check")
  /\ Go(t, IF quitRequested = 1 THEN "drain" ELSE "sleep")
  /\ UNCHANGED <<Slots, quitRequested, queue, Bell, ring, Inputs>>

\* epollNextFinishedOperation, the check between the drain and the sleep.
checkQuit(t) ==
  /\ At(t, "check")
  /\ Go(t, IF quitRequested = 1 THEN "leave" ELSE "sleep")
  /\ UNCHANGED <<Slots, quitRequested, queue, Bell, ring, Inputs>>

\* epoll_wait returns the doorbell's edge to one sleeper; an eventfd that was read
\* in between is not ready any more, and the sleeper sleeps on.
doorbellWakes(t) ==
  /\ At(t, "sleep")
  /\ edge = 1
  /\ edge' = 0
  /\ Go(t, IF full = 1 THEN "woken" ELSE "sleep")
  /\ UNCHANGED <<Slots, quitRequested, queue, full, ring, Inputs>>

\* The doorbell's turn among the events returned: eventfd_read.
doorbellRead(t) ==
  /\ At(t, "woken")
  /\ full' = 0
  /\ Go(t, "events")
  /\ UNCHANGED <<Slots, quitRequested, queue, edge, ring, Inputs>>

\* A timer or another descriptor ends the sleep; handlers may finish operations.
otherWakes(t) ==
  /\ At(t, "sleep")
  /\ Go(t, "events")
  /\ UNCHANGED <<Slots, quitRequested, queue, Bell, ring, Inputs>>

\* The last event was handled: back to the top of the loop.
eventsHandled(t) ==
  /\ At(t, "events")
  /\ Go(t, "drain")
  /\ UNCHANGED <<Slots, quitRequested, queue, Bell, ring, Inputs>>

\* Slip: an exiting thread does not ring for the others.
loopThreadExitSilent(t) ==
  /\ At(t, "leave")
  /\ messageLoopThreadCounter' = messageLoopThreadCounter - 1
  /\ Go(t, "vacate")
  /\ UNCHANGED <<slots, id, quitRequested, queue, Bell, ring, Inputs>>

\* loopThreadExit: the thread counts itself out and learns how many remain ...
loopThreadExit(t) ==
  /\ At(t, "leave")
  /\ messageLoopThreadCounter' = messageLoopThreadCounter - 1
  /\ Go(t, IF messageLoopThreadCounter > 1 THEN "vacateRing" ELSE "vacate")
  /\ UNCHANGED <<slots, id, quitRequested, queue, Bell, ring, Inputs>>

\* ... clears its bit, and asyncLoop returns, after ringing for the others.
loopThreadVacates(t) ==
  /\ At(t, "vacate") \/ At(t, "vacateRing")
  /\ slots' = slots \ {id[t]}
  /\ id' = [id EXCEPT ![t] = 0]
  /\ Go(t, "out")
  /\ Owes(t, IF at[t] = "vacateRing" THEN "ring" ELSE "no")
  /\ UNCHANGED <<messageLoopThreadCounter, quitRequested, queue, Bell, Inputs>>
-----------------------------------------------------------------------------
\* Code outside the loop, a callback, or the handler of an event: where an
\* operation is finished or the loops are asked to quit.
Active(x) == ring[x] = "no" /\ (x \in Threads => at[x] \in {"callback", "woken", "events"})

\* addToGlobalQueue, epollEnqueue: the push begins ...
enqueue(x) ==
  /\ Active(x)
  /\ items < MaxItems
  /\ items' = items + 1
  /\ Owes(x, "push")
  /\ UNCHANGED <<Slots, quitRequested, queue, Bell, at, loopThreadLimit, quits>>

\* ... ends, and owes a doorbell unless the only loop thread pushed it itself.
enqueuePublishes(x) ==
  /\ ring[x] = "push"
  /\ queue' = queue + 1
  /\ Owes(x, IF x \in Threads /\ loopThreadLimit = 1 THEN "no" ELSE "ring")
  /\ UNCHANGED <<Slots, quitRequested, Bell, at, Inputs>>

\* postQuitOperation: the sticky word, then the doorbell.
postQuitOperation(x) ==
  /\ Active(x)
  /\ quits < MaxQuits
  /\ quits' = quits + 1
  /\ quitRequested' = 1
  /\ Owes(x, "ring")
  /\ UNCHANGED <<Slots, queue, Bell, at, loopThreadLimit, items>>

\* epollWakeupLoop: eventfd_write.
wakeupLoop(x) ==
  /\ ring[x] = "ring"
  /\ edge' = 1
  /\ full' = 1
  /\ Owes(x, "no")
  /\ UNCHANGED <<Slots, quitRequested, queue, at, Inputs>>

\* resetQuitOperation, quiescent by contract: asserts that nobody is registered.
Quiescent == (\A t \in Threads : at[t] = "out") /\ \A x \in Actors : ring[x] = "no"
resetQuitOperation ==
  /\ quitRequested = 1
  /\ Quiescent
  /\ quitRequested' = 0
  /\ UNCHANGED <<Slots, queue, Bell, at, ring, Inputs>>

loopStep(t) ==
  \/ loopThreadEnter(t) \/ loopThreadCounted(t) \/ executeGlobalQueue(t) \/ callbackReturns(t)
  \/ checkQuit(t) \/ doorbellRead(t) \/ eventsHandled(t)
  \/ loopThreadExit(t) \/ loopThreadVacates(t)

postStep(x) == enqueuePublishes(x) \/ wakeupLoop(x)

Next ==
  \/ \E t \in Threads : asyncLoop(t) \/ loopStep(t) \/ doorbellWakes(t) \/ otherWakes(t)
  \/ \E x \in Actors : enqueue(x) \/ postQuitOperation(x) \/ postStep(x)
  \/ resetQuitOperation

Spec == Init /\ [][Next]_vars

\* Threads run on, and epoll_wait returns to some sleeper when it has an edge.
FairSpec ==
  /\ Spec
  /\ \A t \in Threads : WF_vars(loopStep(t))
  /\ WF_vars(\E t \in Threads : doorbellWakes(t))
  /\ \A x \in Actors : WF_vars(postStep(x))
-----------------------------------------------------------------------------
TypeOK ==
  /\ loopThreadLimit \in Limits
  /\ slots \subseteq 0 .. loopThreadLimit - 1
  /\ messageLoopThreadCounter \in 0 .. loopThreadLimit
  /\ quitRequested \in {0, 1} /\ edge \in {0, 1} /\ full \in {0, 1}
  /\ queue \in Nat /\ items \in Nat /\ quits \in Nat
  /\ at \in [Threads -> {"out", "enter", "count", "drain", "callback", "check", "sleep", "woken",
                          "events", "leave", "vacate", "vacateRing"}]
  /\ id \in [Threads -> 0 .. loopThreadLimit]
  /\ ring \in [Actors -> {"no", "push", "ring"}]

Registered(t) == at[t] \notin {"out", "enter"}

\* Each registered thread has a slot of its own: the timer state of a slot, which
\* is plain memory of its thread, is never shared, also when slots are reused.
SlotsArePrivate ==
  /\ slots = {id[t] : t \in {u \in Threads : Registered(u)}}
  /\ \A t, u \in Threads : Registered(t) /\ Registered(u) /\ id[t] = id[u] => t = u

\* The scan of loopThreadEnter always finds a slot while at most loopThreadLimit threads are
\* in asyncLoop, although slots come and go behind it: its last assertion holds.
EntryFindsASlot == \A t \in Threads : at[t] = "enter" => id[t] < loopThreadLimit

InLoop == {t \in Threads : at[t] # "out"}

\* No lost wakeup: when every thread in asyncLoop sleeps, the doorbell is silent
\* and nobody is about to ring it, then no finished operation waits in the queue
\* and no request to quit is unanswered.
SleepersHaveNothingToDo ==
  /\ \A t \in InLoop : at[t] = "sleep"
  /\ InLoop # {}
  /\ edge = 0 \/ full = 0
  /\ \A x \in Actors : ring[x] = "no"
  => queue = 0 /\ quitRequested = 0

\* One doorbell of postQuitOperation reaches every thread in the loop: each of
\* them returns, unless the request was withdrawn meanwhile.  And a finished
\* operation gets its callback as long as a thread is in the loop.
QuitReachesEveryThread ==
  /\ \A t \in Threads : quitRequested = 1 /\ at[t] # "out" ~> at[t] = "out"
  /\ queue > 0 /\ InLoop # {} ~> queue = 0 \/ InLoop = {}
=============================================================================
