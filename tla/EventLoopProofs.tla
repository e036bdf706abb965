-------------------------- MODULE EventLoopProofs ---------------------------
(***************************************************************************)
(* The safety of the event loop's threads for any number of threads, slots *)
(* and finished operations.                                                *)
(***************************************************************************)
EXTENDS EventLoop, FiniteSetTheorems, TLAPS

Types ==
  /\ loopThreadLimit \in Nat \ {0}
  /\ slots \in SUBSET Nat
  /\ messageLoopThreadCounter \in Nat
  /\ quitRequested \in {0, 1} /\ edge \in {0, 1} /\ full \in {0, 1}
  /\ queue \in Nat /\ items \in Nat /\ quits \in Nat
  /\ at \in [Threads -> {"out", "enter", "count", "drain", "callback", "check", "sleep", "woken",
                          "events", "leave", "vacate", "vacateRing"}]
  /\ id \in [Threads -> Nat]
  /\ ring \in [Actors -> {"no", "push", "ring"}]

\* The bits that are set are the slots of the registered threads, one each.
Owned ==
  /\ \A t \in Threads : Registered(t) => id[t] \in slots
  /\ \A s \in slots : \E t \in Threads : Registered(t) /\ id[t] = s
  /\ \A t, u \in Threads : Registered(t) /\ Registered(u) /\ id[t] = id[u] => t = u

\* Why the scan finds a slot: a thread moves past slot k only while another one
\* holds it, so at most loopThreadLimit - k threads can be at slot k or beyond.
Above(k) == {t \in Threads : at[t] # "out" /\ id[t] >= k}
ScanBound == \A k \in 0 .. loopThreadLimit : Cardinality(Above(k)) <= loopThreadLimit - k

Counted == {t \in Threads : at[t] \notin {"out", "enter", "count", "vacate", "vacateRing"}}
CounterExact == messageLoopThreadCounter = Cardinality(Counted)

\* A loop thread pushes from a callback or from the handler of an event.
PushedFromHandlers == \A t \in Threads : ring[t] = "push" => at[t] \in {"callback", "woken", "events"}

\* The doorbell can be heard, or somebody still owes it.
Alert == (edge = 1 /\ full = 1) \/ \E x \in Actors : ring[x] # "no"

\* Threads that look into the queue before they sleep; and that look at the
\* request to quit, or ring on the way out.
Awake == {"enter", "count", "drain", "callback", "woken", "events"}
Leaving == {"check", "leave", "vacateRing"}

QueueWatched == queue > 0 /\ InLoop # {} => Alert \/ \E t \in Threads : at[t] \in Awake
QuitWatched ==
  quitRequested = 1 /\ (\E t \in Threads : at[t] = "sleep")
  => Alert \/ \E t \in Threads : at[t] \in Awake \cup Leaving

IInv ==
  /\ Types /\ Owned /\ ScanBound /\ CounterExact
  /\ PushedFromHandlers /\ QueueWatched /\ QuitWatched
-----------------------------------------------------------------------------

\* The sets of threads that are counted are finite.
LEMMA FiniteThreads == \A S \in SUBSET Threads : IsFiniteSet(S) /\ Cardinality(S) \in Nat
  BY ThreadsAssumption, FS_Subset, FS_CardinalityType

\* A thread that leaves has counted itself in; if it learns that nobody remains,
\* it was the only one counted.
LEMMA LastOneOut ==
  ASSUME IInv, NEW t \in Threads, at[t] = "leave"
  PROVE  /\ messageLoopThreadCounter >= 1
         /\ messageLoopThreadCounter <= 1 => Counted = {t}
<1>1. Counted \in SUBSET Threads /\ {t} \in SUBSET Counted
  BY DEF Counted
<1>2. IsFiniteSet(Counted) /\ Cardinality(Counted) \in Nat
  BY <1>1, FiniteThreads
<1>3. Cardinality({t}) = 1
  BY FS_Singleton, Zenon
<1>4. Cardinality({t}) <= Cardinality(Counted) /\ (Cardinality(Counted) = Cardinality({t}) => Counted = {t})
  BY <1>1, <1>2, FS_Subset
<1> QED
  BY <1>2, <1>3, <1>4 DEF IInv, CounterExact

\* Every step keeps the types.
LEMMA TypesStep == IInv /\ [Next]_vars => Types'
<1> SUFFICES ASSUME IInv, [Next]_vars PROVE Types'
  OBVIOUS
<1> USE ThreadsAssumption DEF IInv, At, Go, Owes, Slots, Bell, Inputs, Actors
<1>1. ASSUME NEW t \in Threads, asyncLoop(t) PROVE Types'
  BY <1>1 DEF asyncLoop, Types
<1>2. ASSUME NEW t \in Threads, loopThreadEnter(t) PROVE Types'
  <2>1. id[t] \in Nat /\ id[t] + 1 \in Nat
    BY DEF Types
  <2>2. slots' \in SUBSET Nat
    BY <1>2, <2>1, Zenon DEF loopThreadEnter, Types
  <2>3. id' \in [Threads -> Nat]
    BY <1>2, <2>1 DEF loopThreadEnter, Types
  <2> QED
    BY <1>2, <2>2, <2>3 DEF loopThreadEnter, Types
<1>3. ASSUME NEW t \in Threads, loopThreadCounted(t) PROVE Types'
  BY <1>3 DEF loopThreadCounted, Types
<1>4. ASSUME NEW t \in Threads, executeGlobalQueue(t) PROVE Types'
  BY <1>4 DEF executeGlobalQueue, Types
<1>5. ASSUME NEW t \in Threads, callbackReturns(t) PROVE Types'
  BY <1>5 DEF callbackReturns, Types
<1>6. ASSUME NEW t \in Threads, checkQuit(t) PROVE Types'
  BY <1>6 DEF checkQuit, Types
<1>7. ASSUME NEW t \in Threads, doorbellWakes(t) PROVE Types'
  BY <1>7 DEF doorbellWakes, Types
<1>8. ASSUME NEW t \in Threads, doorbellRead(t) PROVE Types'
  BY <1>8 DEF doorbellRead, Types
<1>9. ASSUME NEW t \in Threads, otherWakes(t) PROVE Types'
  BY <1>9 DEF otherWakes, Types
<1>10. ASSUME NEW t \in Threads, eventsHandled(t) PROVE Types'
  BY <1>10 DEF eventsHandled, Types
<1>11. ASSUME NEW t \in Threads, loopThreadExit(t) PROVE Types'
  <2>1. messageLoopThreadCounter >= 1
    BY <1>11, LastOneOut DEF loopThreadExit
  <2> QED
    BY <1>11, <2>1 DEF loopThreadExit, Types
<1>12. ASSUME NEW t \in Threads, loopThreadVacates(t) PROVE Types'
  BY <1>12, Zenon DEF loopThreadVacates, Types
<1>13. ASSUME NEW x \in Actors, enqueue(x) PROVE Types'
  BY <1>13 DEF enqueue, Active, Types
<1>14. ASSUME NEW x \in Actors, enqueuePublishes(x) PROVE Types'
  BY <1>14 DEF enqueuePublishes, Types
<1>15. ASSUME NEW x \in Actors, postQuitOperation(x) PROVE Types'
  BY <1>15 DEF postQuitOperation, Active, Types
<1>16. ASSUME NEW x \in Actors, wakeupLoop(x) PROVE Types'
  BY <1>16 DEF wakeupLoop, Types
<1>17. CASE resetQuitOperation
  BY <1>17 DEF resetQuitOperation, Quiescent, Types
<1>18. CASE UNCHANGED vars
  BY <1>18 DEF vars, Types
<1> QED
  BY ONLY [Next]_vars, <1>1, <1>2, <1>3, <1>4, <1>5, <1>6, <1>7, <1>8,
          <1>9, <1>10, <1>11, <1>12, <1>13, <1>14, <1>15, <1>16, <1>17, <1>18 DEF Next, loopStep, postStep

\* Nobody leaves a handler in the middle of a push.
LEMMA PushedStep == IInv /\ [Next]_vars => PushedFromHandlers'
<1> SUFFICES ASSUME IInv, [Next]_vars PROVE PushedFromHandlers'
  OBVIOUS
<1> USE ThreadsAssumption DEF IInv, At, Go, Owes, Slots, Bell, Inputs, Actors
<1>1. ASSUME NEW t \in Threads, asyncLoop(t) PROVE PushedFromHandlers'
  BY <1>1 DEF asyncLoop, Types, PushedFromHandlers
<1>2. ASSUME NEW t \in Threads, loopThreadEnter(t) PROVE PushedFromHandlers'
  BY <1>2 DEF loopThreadEnter, Types, PushedFromHandlers
<1>3. ASSUME NEW t \in Threads, loopThreadCounted(t) PROVE PushedFromHandlers'
  BY <1>3 DEF loopThreadCounted, Types, PushedFromHandlers
<1>4. ASSUME NEW t \in Threads, executeGlobalQueue(t) PROVE PushedFromHandlers'
  BY <1>4 DEF executeGlobalQueue, Types, PushedFromHandlers
<1>5. ASSUME NEW t \in Threads, callbackReturns(t) PROVE PushedFromHandlers'
  BY <1>5 DEF callbackReturns, Types, PushedFromHandlers
<1>6. ASSUME NEW t \in Threads, checkQuit(t) PROVE PushedFromHandlers'
  BY <1>6 DEF checkQuit, Types, PushedFromHandlers
<1>7. ASSUME NEW t \in Threads, doorbellWakes(t) PROVE PushedFromHandlers'
  BY <1>7 DEF doorbellWakes, Types, PushedFromHandlers
<1>8. ASSUME NEW t \in Threads, doorbellRead(t) PROVE PushedFromHandlers'
  BY <1>8 DEF doorbellRead, Types, PushedFromHandlers
<1>9. ASSUME NEW t \in Threads, otherWakes(t) PROVE PushedFromHandlers'
  BY <1>9 DEF otherWakes, Types, PushedFromHandlers
<1>10. ASSUME NEW t \in Threads, eventsHandled(t) PROVE PushedFromHandlers'
  BY <1>10 DEF eventsHandled, Types, PushedFromHandlers
<1>11. ASSUME NEW t \in Threads, loopThreadExit(t) PROVE PushedFromHandlers'
  BY <1>11 DEF loopThreadExit, Types, PushedFromHandlers
<1>12. ASSUME NEW t \in Threads, loopThreadVacates(t) PROVE PushedFromHandlers'
  BY <1>12 DEF loopThreadVacates, Types, PushedFromHandlers
<1>13. ASSUME NEW x \in Actors, enqueue(x) PROVE PushedFromHandlers'
  BY <1>13 DEF enqueue, Active, Types, PushedFromHandlers
<1>14. ASSUME NEW x \in Actors, enqueuePublishes(x) PROVE PushedFromHandlers'
  BY <1>14 DEF enqueuePublishes, Types, PushedFromHandlers
<1>15. ASSUME NEW x \in Actors, postQuitOperation(x) PROVE PushedFromHandlers'
  BY <1>15 DEF postQuitOperation, Active, Types, PushedFromHandlers
<1>16. ASSUME NEW x \in Actors, wakeupLoop(x) PROVE PushedFromHandlers'
  BY <1>16 DEF wakeupLoop, Types, PushedFromHandlers
<1>17. CASE resetQuitOperation
  BY <1>17 DEF resetQuitOperation, Quiescent, Types, PushedFromHandlers
<1>18. CASE UNCHANGED vars
  BY <1>18 DEF vars, Types, PushedFromHandlers
<1> QED
  BY ONLY [Next]_vars, <1>1, <1>2, <1>3, <1>4, <1>5, <1>6, <1>7, <1>8,
          <1>9, <1>10, <1>11, <1>12, <1>13, <1>14, <1>15, <1>16, <1>17, <1>18 DEF Next, loopStep, postStep

\* No step leaves finished operations to sleepers alone.
LEMMA QueueStep == IInv /\ [Next]_vars => QueueWatched'
<1> SUFFICES ASSUME IInv, [Next]_vars PROVE QueueWatched'
  OBVIOUS
<1> USE ThreadsAssumption DEF IInv, At, Go, Owes, Slots, Bell, Inputs, Actors
<1>1. ASSUME NEW t \in Threads, asyncLoop(t) PROVE QueueWatched'
  BY <1>1 DEF asyncLoop, Types, PushedFromHandlers, QueueWatched, Alert, Awake, InLoop
<1>2. ASSUME NEW t \in Threads, loopThreadEnter(t) PROVE QueueWatched'
  BY <1>2 DEF loopThreadEnter, Types, PushedFromHandlers, QueueWatched, Alert, Awake, InLoop
<1>3. ASSUME NEW t \in Threads, loopThreadCounted(t) PROVE QueueWatched'
  BY <1>3 DEF loopThreadCounted, Types, PushedFromHandlers, QueueWatched, Alert, Awake, InLoop
<1>4. ASSUME NEW t \in Threads, executeGlobalQueue(t) PROVE QueueWatched'
  BY <1>4 DEF executeGlobalQueue, Types, PushedFromHandlers, QueueWatched, Alert, Awake, InLoop
<1>5. ASSUME NEW t \in Threads, callbackReturns(t) PROVE QueueWatched'
  BY <1>5 DEF callbackReturns, Types, PushedFromHandlers, QueueWatched, Alert, Awake, InLoop
<1>6. ASSUME NEW t \in Threads, checkQuit(t) PROVE QueueWatched'
  BY <1>6 DEF checkQuit, Types, PushedFromHandlers, QueueWatched, Alert, Awake, InLoop
<1>7. ASSUME NEW t \in Threads, doorbellWakes(t) PROVE QueueWatched'
  BY <1>7 DEF doorbellWakes, Types, PushedFromHandlers, QueueWatched, Alert, Awake, InLoop
<1>8. ASSUME NEW t \in Threads, doorbellRead(t) PROVE QueueWatched'
  BY <1>8 DEF doorbellRead, Types, PushedFromHandlers, QueueWatched, Alert, Awake, InLoop
<1>9. ASSUME NEW t \in Threads, otherWakes(t) PROVE QueueWatched'
  BY <1>9 DEF otherWakes, Types, PushedFromHandlers, QueueWatched, Alert, Awake, InLoop
<1>10. ASSUME NEW t \in Threads, eventsHandled(t) PROVE QueueWatched'
  BY <1>10 DEF eventsHandled, Types, PushedFromHandlers, QueueWatched, Alert, Awake, InLoop
<1>11. ASSUME NEW t \in Threads, loopThreadExit(t) PROVE QueueWatched'
  BY <1>11 DEF loopThreadExit, Types, PushedFromHandlers, QueueWatched, Alert, Awake, InLoop
<1>12. ASSUME NEW t \in Threads, loopThreadVacates(t) PROVE QueueWatched'
  BY <1>12 DEF loopThreadVacates, Types, PushedFromHandlers, QueueWatched, Alert, Awake, InLoop
<1>13. ASSUME NEW x \in Actors, enqueue(x) PROVE QueueWatched'
  BY <1>13 DEF enqueue, Active, Types, PushedFromHandlers, QueueWatched, Alert, Awake, InLoop
<1>14. ASSUME NEW x \in Actors, enqueuePublishes(x) PROVE QueueWatched'
  BY <1>14 DEF enqueuePublishes, Types, PushedFromHandlers, QueueWatched, Alert, Awake, InLoop
<1>15. ASSUME NEW x \in Actors, postQuitOperation(x) PROVE QueueWatched'
  BY <1>15 DEF postQuitOperation, Active, Types, PushedFromHandlers, QueueWatched, Alert, Awake, InLoop
<1>16. ASSUME NEW x \in Actors, wakeupLoop(x) PROVE QueueWatched'
  BY <1>16 DEF wakeupLoop, Types, PushedFromHandlers, QueueWatched, Alert, Awake, InLoop
<1>17. CASE resetQuitOperation
  BY <1>17 DEF resetQuitOperation, Quiescent, Types, PushedFromHandlers, QueueWatched, Alert, Awake, InLoop
<1>18. CASE UNCHANGED vars
  BY <1>18 DEF vars, Types, PushedFromHandlers, QueueWatched, Alert, Awake, InLoop
<1> QED
  BY ONLY [Next]_vars, <1>1, <1>2, <1>3, <1>4, <1>5, <1>6, <1>7, <1>8,
          <1>9, <1>10, <1>11, <1>12, <1>13, <1>14, <1>15, <1>16, <1>17, <1>18 DEF Next, loopStep, postStep

\* No step leaves a request to quit to sleepers alone: the last thread counted
\* out leaves nobody asleep, the others ring.
LEMMA QuitStep == IInv /\ [Next]_vars => QuitWatched'
<1> SUFFICES ASSUME IInv, [Next]_vars PROVE QuitWatched'
  OBVIOUS
<1> USE ThreadsAssumption DEF IInv, At, Go, Owes, Slots, Bell, Inputs, Actors
<1>1. ASSUME NEW t \in Threads, asyncLoop(t) PROVE QuitWatched'
  BY <1>1 DEF asyncLoop, Types, PushedFromHandlers, QuitWatched, Alert, Awake, Leaving
<1>2. ASSUME NEW t \in Threads, loopThreadEnter(t) PROVE QuitWatched'
  BY <1>2 DEF loopThreadEnter, Types, PushedFromHandlers, QuitWatched, Alert, Awake, Leaving
<1>3. ASSUME NEW t \in Threads, loopThreadCounted(t) PROVE QuitWatched'
  BY <1>3 DEF loopThreadCounted, Types, PushedFromHandlers, QuitWatched, Alert, Awake, Leaving
<1>4. ASSUME NEW t \in Threads, executeGlobalQueue(t) PROVE QuitWatched'
  BY <1>4 DEF executeGlobalQueue, Types, PushedFromHandlers, QuitWatched, Alert, Awake, Leaving
<1>5. ASSUME NEW t \in Threads, callbackReturns(t) PROVE QuitWatched'
  BY <1>5 DEF callbackReturns, Types, PushedFromHandlers, QuitWatched, Alert, Awake, Leaving
<1>6. ASSUME NEW t \in Threads, checkQuit(t) PROVE QuitWatched'
  BY <1>6 DEF checkQuit, Types, PushedFromHandlers, QuitWatched, Alert, Awake, Leaving
<1>7. ASSUME NEW t \in Threads, doorbellWakes(t) PROVE QuitWatched'
  BY <1>7 DEF doorbellWakes, Types, PushedFromHandlers, QuitWatched, Alert, Awake, Leaving
<1>8. ASSUME NEW t \in Threads, doorbellRead(t) PROVE QuitWatched'
  BY <1>8 DEF doorbellRead, Types, PushedFromHandlers, QuitWatched, Alert, Awake, Leaving
<1>9. ASSUME NEW t \in Threads, otherWakes(t) PROVE QuitWatched'
  BY <1>9 DEF otherWakes, Types, PushedFromHandlers, QuitWatched, Alert, Awake, Leaving
<1>10. ASSUME NEW t \in Threads, eventsHandled(t) PROVE QuitWatched'
  BY <1>10 DEF eventsHandled, Types, PushedFromHandlers, QuitWatched, Alert, Awake, Leaving
<1>11. ASSUME NEW t \in Threads, loopThreadExit(t) PROVE QuitWatched'
  <2>1. CASE messageLoopThreadCounter > 1
    BY <1>11, <2>1 DEF loopThreadExit, Types, QuitWatched, Leaving
  <2>2. CASE messageLoopThreadCounter <= 1
    <3>1. Counted = {t}
      BY <1>11, <2>2, LastOneOut DEF loopThreadExit
    <3>2. \A u \in Threads : at[u] # "sleep"
      BY <1>11, <3>1 DEF loopThreadExit, Counted
    <3> QED
      BY <1>11, <3>2 DEF loopThreadExit, Types, QuitWatched
  <2> QED
    BY <2>1, <2>2 DEF Types
<1>12. ASSUME NEW t \in Threads, loopThreadVacates(t) PROVE QuitWatched'
  BY <1>12 DEF loopThreadVacates, Types, PushedFromHandlers, QuitWatched, Alert, Awake, Leaving
<1>13. ASSUME NEW x \in Actors, enqueue(x) PROVE QuitWatched'
  BY <1>13 DEF enqueue, Active, Types, PushedFromHandlers, QuitWatched, Alert, Awake, Leaving
<1>14. ASSUME NEW x \in Actors, enqueuePublishes(x) PROVE QuitWatched'
  BY <1>14 DEF enqueuePublishes, Types, PushedFromHandlers, QuitWatched, Alert, Awake, Leaving
<1>15. ASSUME NEW x \in Actors, postQuitOperation(x) PROVE QuitWatched'
  BY <1>15 DEF postQuitOperation, Active, Types, PushedFromHandlers, QuitWatched, Alert, Awake, Leaving
<1>16. ASSUME NEW x \in Actors, wakeupLoop(x) PROVE QuitWatched'
  BY <1>16 DEF wakeupLoop, Types, PushedFromHandlers, QuitWatched, Alert, Awake, Leaving
<1>17. CASE resetQuitOperation
  BY <1>17 DEF resetQuitOperation, Quiescent, Types, PushedFromHandlers, QuitWatched, Alert, Awake, Leaving
<1>18. CASE UNCHANGED vars
  BY <1>18 DEF vars, Types, PushedFromHandlers, QuitWatched, Alert, Awake, Leaving
<1> QED
  BY ONLY [Next]_vars, <1>1, <1>2, <1>3, <1>4, <1>5, <1>6, <1>7, <1>8,
          <1>9, <1>10, <1>11, <1>12, <1>13, <1>14, <1>15, <1>16, <1>17, <1>18 DEF Next, loopStep, postStep

\* Every step keeps the slots private.
LEMMA OwnedStep == IInv /\ [Next]_vars => Owned'
<1> SUFFICES ASSUME IInv, [Next]_vars PROVE Owned'
  OBVIOUS
<1> USE ThreadsAssumption DEF IInv, At, Go, Owes, Slots, Bell, Inputs, Actors
<1>1. ASSUME NEW t \in Threads, asyncLoop(t) PROVE Owned'
  BY <1>1 DEF asyncLoop, Types, Owned, Registered
<1>2. ASSUME NEW t \in Threads, loopThreadEnter(t) PROVE Owned'
  <2>1. CASE id[t] \in slots
    <3>1. slots' = slots /\ at' = at /\ id' = [id EXCEPT ![t] = id[t] + 1] /\ ~Registered(t)
      BY <1>2, <2>1 DEF loopThreadEnter, Registered
    <3>2. \A u \in Threads : Registered(u)' <=> Registered(u)
      BY <3>1 DEF Registered
    <3>3. \A u \in Threads : Registered(u) => id'[u] = id[u]
      BY <3>1 DEF Types
    <3> QED
      BY <3>1, <3>2, <3>3 DEF Owned
  <2>2. CASE id[t] \notin slots
    <3>1. slots' = slots \cup {id[t]} /\ id' = id /\ at' = [at EXCEPT ![t] = "count"]
      BY <1>2, <2>2 DEF loopThreadEnter
    <3>2. \A u \in Threads : Registered(u)' <=> (u = t \/ Registered(u))
      BY <3>1 DEF Types, Registered
    <3>3. \A u \in Threads : Registered(u) => id[u] # id[t]
      BY <2>2 DEF Owned
    <3> QED
      BY <3>1, <3>2, <3>3 DEF Owned
  <2> QED
    BY <2>1, <2>2
<1>3. ASSUME NEW t \in Threads, loopThreadCounted(t) PROVE Owned'
  BY <1>3 DEF loopThreadCounted, Types, Owned, Registered
<1>4. ASSUME NEW t \in Threads, executeGlobalQueue(t) PROVE Owned'
  BY <1>4 DEF executeGlobalQueue, Types, Owned, Registered
<1>5. ASSUME NEW t \in Threads, callbackReturns(t) PROVE Owned'
  BY <1>5 DEF callbackReturns, Types, Owned, Registered
<1>6. ASSUME NEW t \in Threads, checkQuit(t) PROVE Owned'
  BY <1>6 DEF checkQuit, Types, Owned, Registered
<1>7. ASSUME NEW t \in Threads, doorbellWakes(t) PROVE Owned'
  BY <1>7 DEF doorbellWakes, Types, Owned, Registered
<1>8. ASSUME NEW t \in Threads, doorbellRead(t) PROVE Owned'
  BY <1>8 DEF doorbellRead, Types, Owned, Registered
<1>9. ASSUME NEW t \in Threads, otherWakes(t) PROVE Owned'
  BY <1>9 DEF otherWakes, Types, Owned, Registered
<1>10. ASSUME NEW t \in Threads, eventsHandled(t) PROVE Owned'
  BY <1>10 DEF eventsHandled, Types, Owned, Registered
<1>11. ASSUME NEW t \in Threads, loopThreadExit(t) PROVE Owned'
  BY <1>11 DEF loopThreadExit, Types, Owned, Registered
<1>12. ASSUME NEW t \in Threads, loopThreadVacates(t) PROVE Owned'
  BY <1>12 DEF loopThreadVacates, Types, Owned, Registered
<1>13. ASSUME NEW x \in Actors, enqueue(x) PROVE Owned'
  BY <1>13 DEF enqueue, Active, Types, Owned, Registered
<1>14. ASSUME NEW x \in Actors, enqueuePublishes(x) PROVE Owned'
  BY <1>14 DEF enqueuePublishes, Types, Owned, Registered
<1>15. ASSUME NEW x \in Actors, postQuitOperation(x) PROVE Owned'
  BY <1>15 DEF postQuitOperation, Active, Types, Owned, Registered
<1>16. ASSUME NEW x \in Actors, wakeupLoop(x) PROVE Owned'
  BY <1>16 DEF wakeupLoop, Types, Owned, Registered
<1>17. CASE resetQuitOperation
  BY <1>17 DEF resetQuitOperation, Quiescent, Types, Owned, Registered
<1>18. CASE UNCHANGED vars
  BY <1>18 DEF vars, Types, Owned, Registered
<1> QED
  BY ONLY [Next]_vars, <1>1, <1>2, <1>3, <1>4, <1>5, <1>6, <1>7, <1>8,
          <1>9, <1>10, <1>11, <1>12, <1>13, <1>14, <1>15, <1>16, <1>17, <1>18 DEF Next, loopStep, postStep

\* The counter is the number of threads between counting in and counting out.
LEMMA CounterStep == IInv /\ [Next]_vars => CounterExact'
<1> SUFFICES ASSUME IInv, [Next]_vars PROVE CounterExact'
  OBVIOUS
<1> USE ThreadsAssumption DEF IInv, At, Go, Owes, Slots, Bell, Inputs, Actors
<1>1. ASSUME NEW t \in Threads, asyncLoop(t) PROVE CounterExact'
  <2>1. Counted' = Counted
    BY <1>1 DEF asyncLoop, Types, Counted
  <2> QED
    BY <1>1, <2>1 DEF asyncLoop, CounterExact
<1>2. ASSUME NEW t \in Threads, loopThreadEnter(t) PROVE CounterExact'
  <2>1. Counted' = Counted
    BY <1>2 DEF loopThreadEnter, Types, Counted
  <2> QED
    BY <1>2, <2>1 DEF loopThreadEnter, CounterExact
<1>3. ASSUME NEW t \in Threads, loopThreadCounted(t) PROVE CounterExact'
  <2>1. Counted' = Counted \cup {t} /\ t \notin Counted
    BY <1>3 DEF loopThreadCounted, Types, Counted
  <2>2. Counted \in SUBSET Threads
    BY DEF Counted
  <2>3. Cardinality(Counted \cup {t}) = Cardinality(Counted) + 1
    BY <2>1, <2>2, FiniteThreads, FS_AddElement
  <2> QED
    BY <1>3, <2>1, <2>3 DEF loopThreadCounted, CounterExact
<1>4. ASSUME NEW t \in Threads, executeGlobalQueue(t) PROVE CounterExact'
  <2>1. Counted' = Counted
    BY <1>4 DEF executeGlobalQueue, Types, Counted
  <2> QED
    BY <1>4, <2>1 DEF executeGlobalQueue, CounterExact
<1>5. ASSUME NEW t \in Threads, callbackReturns(t) PROVE CounterExact'
  <2>1. Counted' = Counted
    BY <1>5 DEF callbackReturns, Types, Counted
  <2> QED
    BY <1>5, <2>1 DEF callbackReturns, CounterExact
<1>6. ASSUME NEW t \in Threads, checkQuit(t) PROVE CounterExact'
  <2>1. Counted' = Counted
    BY <1>6 DEF checkQuit, Types, Counted
  <2> QED
    BY <1>6, <2>1 DEF checkQuit, CounterExact
<1>7. ASSUME NEW t \in Threads, doorbellWakes(t) PROVE CounterExact'
  <2>1. Counted' = Counted
    BY <1>7 DEF doorbellWakes, Types, Counted
  <2> QED
    BY <1>7, <2>1 DEF doorbellWakes, CounterExact
<1>8. ASSUME NEW t \in Threads, doorbellRead(t) PROVE CounterExact'
  <2>1. Counted' = Counted
    BY <1>8 DEF doorbellRead, Types, Counted
  <2> QED
    BY <1>8, <2>1 DEF doorbellRead, CounterExact
<1>9. ASSUME NEW t \in Threads, otherWakes(t) PROVE CounterExact'
  <2>1. Counted' = Counted
    BY <1>9 DEF otherWakes, Types, Counted
  <2> QED
    BY <1>9, <2>1 DEF otherWakes, CounterExact
<1>10. ASSUME NEW t \in Threads, eventsHandled(t) PROVE CounterExact'
  <2>1. Counted' = Counted
    BY <1>10 DEF eventsHandled, Types, Counted
  <2> QED
    BY <1>10, <2>1 DEF eventsHandled, CounterExact
<1>11. ASSUME NEW t \in Threads, loopThreadExit(t) PROVE CounterExact'
  <2>1. Counted' = Counted \ {t} /\ t \in Counted
    BY <1>11 DEF loopThreadExit, Types, Counted
  <2>2. Counted \in SUBSET Threads
    BY DEF Counted
  <2>3. Cardinality(Counted \ {t}) = Cardinality(Counted) - 1
    BY <2>1, <2>2, FiniteThreads, FS_RemoveElement
  <2> QED
    BY <1>11, <2>1, <2>3 DEF loopThreadExit, CounterExact
<1>12. ASSUME NEW t \in Threads, loopThreadVacates(t) PROVE CounterExact'
  <2>1. Counted' = Counted
    BY <1>12 DEF loopThreadVacates, Types, Counted
  <2> QED
    BY <1>12, <2>1 DEF loopThreadVacates, CounterExact
<1>13. ASSUME NEW x \in Actors, enqueue(x) PROVE CounterExact'
  <2>1. Counted' = Counted
    BY <1>13 DEF enqueue, Types, Counted
  <2> QED
    BY <1>13, <2>1 DEF enqueue, CounterExact
<1>14. ASSUME NEW x \in Actors, enqueuePublishes(x) PROVE CounterExact'
  <2>1. Counted' = Counted
    BY <1>14 DEF enqueuePublishes, Types, Counted
  <2> QED
    BY <1>14, <2>1 DEF enqueuePublishes, CounterExact
<1>15. ASSUME NEW x \in Actors, postQuitOperation(x) PROVE CounterExact'
  <2>1. Counted' = Counted
    BY <1>15 DEF postQuitOperation, Types, Counted
  <2> QED
    BY <1>15, <2>1 DEF postQuitOperation, CounterExact
<1>16. ASSUME NEW x \in Actors, wakeupLoop(x) PROVE CounterExact'
  <2>1. Counted' = Counted
    BY <1>16 DEF wakeupLoop, Types, Counted
  <2> QED
    BY <1>16, <2>1 DEF wakeupLoop, CounterExact
<1>17. CASE resetQuitOperation
  <2>1. Counted' = Counted
    BY <1>17 DEF resetQuitOperation, Quiescent, Types, Counted
  <2> QED
    BY <1>17, <2>1 DEF resetQuitOperation, Quiescent, CounterExact
<1>18. CASE UNCHANGED vars
  <2>1. Counted' = Counted
    BY <1>18 DEF vars, Types, Counted
  <2> QED
    BY <1>18, <2>1 DEF vars, CounterExact
<1> QED
  BY ONLY [Next]_vars, <1>1, <1>2, <1>3, <1>4, <1>5, <1>6, <1>7, <1>8,
          <1>9, <1>10, <1>11, <1>12, <1>13, <1>14, <1>15, <1>16, <1>17, <1>18 DEF Next, loopStep, postStep

\* The bound behind the scan: entering threads start at slot 0, and one that goes
\* past a slot leaves its owner behind.
LEMMA ScanStep == IInv /\ [Next]_vars => ScanBound'
<1> SUFFICES ASSUME IInv, [Next]_vars PROVE ScanBound'
  OBVIOUS
<1> USE ThreadsAssumption DEF IInv, At, Go, Owes, Slots, Bell, Inputs, Actors
<1>0. loopThreadLimit' = loopThreadLimit /\ loopThreadLimit \in Nat \ {0}
  BY Zenon DEF Types, vars, Next, loopStep, postStep, asyncLoop, loopThreadEnter, loopThreadCounted,
         executeGlobalQueue, callbackReturns, checkQuit, doorbellWakes, doorbellRead, otherWakes,
         eventsHandled, loopThreadExit, loopThreadVacates, enqueue, enqueuePublishes,
         postQuitOperation, wakeupLoop, resetQuitOperation
<1> USE <1>0
<1>b. ASSUME NEW k \in 0 .. loopThreadLimit, Above(k)' \subseteq Above(k)
      PROVE  Cardinality(Above(k)') <= loopThreadLimit - k
  <2>1. Above(k) \in SUBSET Threads /\ Above(k)' \in SUBSET Above(k)
    BY <1>b DEF Above
  <2>2. Cardinality(Above(k)') <= Cardinality(Above(k))
    BY <2>1, FiniteThreads, FS_Subset
  <2>3. Cardinality(Above(k)) \in Nat /\ Cardinality(Above(k)') \in Nat
    BY <2>1, FiniteThreads
  <2> QED
    BY <2>2, <2>3 DEF ScanBound
<1>a. ASSUME \A k \in 0 .. loopThreadLimit : Above(k)' \subseteq Above(k)
      PROVE  ScanBound'
  BY <1>a, <1>b DEF ScanBound
<1>1. ASSUME NEW t \in Threads, asyncLoop(t) PROVE ScanBound'
  <2> DEFINE Inside == {u \in Threads : at[u] # "out" \/ ring[u] # "no"}
  <2>1. Cardinality(Inside) < loopThreadLimit /\ Inside \in SUBSET Threads
    BY <1>1 DEF asyncLoop
  <2>2. IsFiniteSet(Inside \cup {t}) /\ Cardinality(Inside \cup {t}) <= loopThreadLimit
    BY <2>1, FiniteThreads, FS_AddElement
  <2>3. Above(0)' \in SUBSET (Inside \cup {t})
    BY <1>1 DEF asyncLoop, Types, Above
  <2>4. Cardinality(Above(0)') <= loopThreadLimit
    <3>1. Cardinality(Above(0)') \in Nat
      BY <2>3, <2>1, FiniteThreads
    <3> QED
      BY <3>1, <2>2, <2>3, FS_Subset, FS_CardinalityType
  <2>5. \A k \in 0 .. loopThreadLimit : k # 0 => Above(k)' \subseteq Above(k)
    BY <1>1 DEF asyncLoop, Types, Above
  <2> QED
    BY <2>4, <2>5, <1>b DEF ScanBound
<1>2. ASSUME NEW t \in Threads, loopThreadEnter(t) PROVE ScanBound'
  <2>1. CASE id[t] \notin slots
    <3>1. \A k \in 0 .. loopThreadLimit : Above(k)' \subseteq Above(k)
      BY <1>2, <2>1 DEF loopThreadEnter, Types, Above
    <3> QED
      BY <3>1, <1>a
  <2>2. CASE id[t] \in slots
    <3>1. PICK u \in Threads : Registered(u) /\ id[u] = id[t]
      BY <2>2 DEF Owned
    <3>2. u # t /\ at[u] # "out"
      BY <1>2, <3>1 DEF loopThreadEnter, Registered
    <3>3. PICK j \in Nat : j = id[t]
      BY DEF Types
    <3>4. j < loopThreadLimit /\ id' = [id EXCEPT ![t] = j + 1] /\ at' = at
      BY <1>2, <2>2, <3>3 DEF loopThreadEnter
    <3>5. \A k \in 0 .. loopThreadLimit : k # j + 1 => Above(k)' \subseteq Above(k)
      BY <3>3, <3>4 DEF Types, Above
    <3>6. Above(j + 1)' \in SUBSET (Above(j) \ {u}) /\ u \in Above(j)
      BY <3>1, <3>2, <3>3, <3>4 DEF Types, Above
    <3>7. Above(j) \in SUBSET Threads /\ Cardinality(Above(j)) <= loopThreadLimit - j
      BY <3>4 DEF Above, ScanBound
    <3>8. /\ IsFiniteSet(Above(j) \ {u})
          /\ Cardinality(Above(j) \ {u}) = Cardinality(Above(j)) - 1
      BY <3>6, <3>7, FiniteThreads, FS_RemoveElement
    <3>9. Cardinality(Above(j + 1)') <= Cardinality(Above(j) \ {u})
      BY <3>6, <3>8, FS_Subset
    <3>10. Cardinality(Above(j + 1)') \in Nat /\ Cardinality(Above(j)) \in Nat
      BY <3>6, <3>7, FiniteThreads
    <3>11. Cardinality(Above(j + 1)') <= loopThreadLimit - (j + 1)
      BY <3>4, <3>7, <3>8, <3>9, <3>10
    <3> QED
      BY <3>4, <3>5, <3>11, <1>b DEF ScanBound
  <2> QED
    BY <2>1, <2>2
<1>3. ASSUME NEW t \in Threads, loopThreadCounted(t) PROVE ScanBound'
  <2>1. \A k \in 0 .. loopThreadLimit : Above(k)' \subseteq Above(k)
    BY <1>3 DEF loopThreadCounted, Types, Above
  <2> QED
    BY <2>1, <1>a
<1>4. ASSUME NEW t \in Threads, executeGlobalQueue(t) PROVE ScanBound'
  <2>1. \A k \in 0 .. loopThreadLimit : Above(k)' \subseteq Above(k)
    BY <1>4 DEF executeGlobalQueue, Types, Above
  <2> QED
    BY <2>1, <1>a
<1>5. ASSUME NEW t \in Threads, callbackReturns(t) PROVE ScanBound'
  <2>1. \A k \in 0 .. loopThreadLimit : Above(k)' \subseteq Above(k)
    BY <1>5 DEF callbackReturns, Types, Above
  <2> QED
    BY <2>1, <1>a
<1>6. ASSUME NEW t \in Threads, checkQuit(t) PROVE ScanBound'
  <2>1. \A k \in 0 .. loopThreadLimit : Above(k)' \subseteq Above(k)
    BY <1>6 DEF checkQuit, Types, Above
  <2> QED
    BY <2>1, <1>a
<1>7. ASSUME NEW t \in Threads, doorbellWakes(t) PROVE ScanBound'
  <2>1. \A k \in 0 .. loopThreadLimit : Above(k)' \subseteq Above(k)
    BY <1>7 DEF doorbellWakes, Types, Above
  <2> QED
    BY <2>1, <1>a
<1>8. ASSUME NEW t \in Threads, doorbellRead(t) PROVE ScanBound'
  <2>1. \A k \in 0 .. loopThreadLimit : Above(k)' \subseteq Above(k)
    BY <1>8 DEF doorbellRead, Types, Above
  <2> QED
    BY <2>1, <1>a
<1>9. ASSUME NEW t \in Threads, otherWakes(t) PROVE ScanBound'
  <2>1. \A k \in 0 .. loopThreadLimit : Above(k)' \subseteq Above(k)
    BY <1>9 DEF otherWakes, Types, Above
  <2> QED
    BY <2>1, <1>a
<1>10. ASSUME NEW t \in Threads, eventsHandled(t) PROVE ScanBound'
  <2>1. \A k \in 0 .. loopThreadLimit : Above(k)' \subseteq Above(k)
    BY <1>10 DEF eventsHandled, Types, Above
  <2> QED
    BY <2>1, <1>a
<1>11. ASSUME NEW t \in Threads, loopThreadExit(t) PROVE ScanBound'
  <2>1. \A k \in 0 .. loopThreadLimit : Above(k)' \subseteq Above(k)
    BY <1>11 DEF loopThreadExit, Types, Above
  <2> QED
    BY <2>1, <1>a
<1>12. ASSUME NEW t \in Threads, loopThreadVacates(t) PROVE ScanBound'
  <2>1. \A k \in 0 .. loopThreadLimit : Above(k)' \subseteq Above(k)
    BY <1>12 DEF loopThreadVacates, Types, Above
  <2> QED
    BY <2>1, <1>a
<1>13. ASSUME NEW x \in Actors, enqueue(x) PROVE ScanBound'
  <2>1. \A k \in 0 .. loopThreadLimit : Above(k)' \subseteq Above(k)
    BY <1>13 DEF enqueue, Types, Above
  <2> QED
    BY <2>1, <1>a
<1>14. ASSUME NEW x \in Actors, enqueuePublishes(x) PROVE ScanBound'
  <2>1. \A k \in 0 .. loopThreadLimit : Above(k)' \subseteq Above(k)
    BY <1>14 DEF enqueuePublishes, Types, Above
  <2> QED
    BY <2>1, <1>a
<1>15. ASSUME NEW x \in Actors, postQuitOperation(x) PROVE ScanBound'
  <2>1. \A k \in 0 .. loopThreadLimit : Above(k)' \subseteq Above(k)
    BY <1>15 DEF postQuitOperation, Types, Above
  <2> QED
    BY <2>1, <1>a
<1>16. ASSUME NEW x \in Actors, wakeupLoop(x) PROVE ScanBound'
  <2>1. \A k \in 0 .. loopThreadLimit : Above(k)' \subseteq Above(k)
    BY <1>16 DEF wakeupLoop, Types, Above
  <2> QED
    BY <2>1, <1>a
<1>17. CASE resetQuitOperation
  <2>1. \A k \in 0 .. loopThreadLimit : Above(k)' \subseteq Above(k)
    BY <1>17 DEF resetQuitOperation, Quiescent, Types, Above
  <2> QED
    BY <2>1, <1>a
<1>18. CASE UNCHANGED vars
  <2>1. \A k \in 0 .. loopThreadLimit : Above(k)' \subseteq Above(k)
    BY <1>18 DEF vars, Types, Above
  <2> QED
    BY <2>1, <1>a
<1> QED
  BY ONLY [Next]_vars, <1>1, <1>2, <1>3, <1>4, <1>5, <1>6, <1>7, <1>8,
          <1>9, <1>10, <1>11, <1>12, <1>13, <1>14, <1>15, <1>16, <1>17, <1>18 DEF Next, loopStep, postStep

\* The initial state satisfies the inductive invariant.
LEMMA InitInvariant == Init => IInv
<1> SUFFICES ASSUME Init PROVE IInv
  OBVIOUS
<1>1. Types
  BY LimitsAssumption DEF Init, Types, Actors
<1>2. Owned
  BY DEF Init, Owned, Registered
<1>3. PushedFromHandlers /\ QueueWatched /\ QuitWatched
  BY DEF Init, Actors, PushedFromHandlers, QueueWatched, QuitWatched
<1>4. Counted = {} /\ \A k \in 0 .. loopThreadLimit : Above(k) = {}
  BY DEF Init, Counted, Above
<1>5. CounterExact /\ ScanBound
  BY <1>1, <1>4, FS_EmptySet DEF Init, Types, CounterExact, ScanBound
<1> QED
  BY <1>1, <1>2, <1>3, <1>5 DEF IInv

\* The invariant holds in every reachable state.
LEMMA Invariant == Spec => []IInv
<1>1. IInv /\ [Next]_vars => IInv'
  BY TypesStep, OwnedStep, ScanStep, CounterStep, PushedStep, QueueStep, QuitStep DEF IInv
<1> QED
  BY <1>1, InitInvariant, PTL DEF Spec

\* No thread runs out of slots in loopThreadEnter: its closing assertion cannot
\* fail while at most loopThreadLimit threads are in asyncLoop.
THEOREM ScanSucceeds == Spec => []EntryFindsASlot
<1>1. IInv => EntryFindsASlot
  <2> SUFFICES ASSUME IInv, NEW t \in Threads, at[t] = "enter" PROVE id[t] < loopThreadLimit
    BY DEF EntryFindsASlot
  <2>0. loopThreadLimit \in Nat
    BY DEF IInv, Types
  <2>1. Above(loopThreadLimit) = {}
    <3>1. Above(loopThreadLimit) \in SUBSET Threads
      BY DEF Above
    <3>2. Cardinality(Above(loopThreadLimit)) <= loopThreadLimit - loopThreadLimit
      BY <2>0 DEF IInv, ScanBound
    <3>3. Cardinality(Above(loopThreadLimit)) = 0
      BY <3>1, <3>2, FiniteThreads, <2>0
    <3> QED
      BY <3>1, <3>3, FiniteThreads, FS_EmptySet
  <2> QED
    BY <2>0, <2>1 DEF Above, IInv, Types
<1> QED
  BY <1>1, Invariant, PTL

\* A slot, and with it the timer state of a loop, belongs to one thread.
THEOREM PrivateSlots == Spec => []SlotsArePrivate
<1>1. IInv => SlotsArePrivate
  <2> SUFFICES ASSUME IInv PROVE SlotsArePrivate
    OBVIOUS
  <2>1. \A s \in slots : s \in {id[t] : t \in {u \in Threads : Registered(u)}}
    BY DEF IInv, Owned
  <2>2. \A s \in {id[t] : t \in {u \in Threads : Registered(u)}} : s \in slots
    BY DEF IInv, Owned
  <2>3. slots = {id[t] : t \in {u \in Threads : Registered(u)}}
    BY <2>1, <2>2
  <2> QED
    BY <2>3 DEF IInv, Owned, SlotsArePrivate
<1> QED
  BY <1>1, Invariant, PTL

\* No wakeup is lost between the check of the queue, the check of quitRequested
\* and epoll_wait, whatever the doorbell's edges and reads interleave with.
THEOREM NoLostWakeup == Spec => []SleepersHaveNothingToDo
<1>1. IInv => SleepersHaveNothingToDo
  BY DEF IInv, Types, QueueWatched, QuitWatched, Alert, Awake, Leaving, InLoop, SleepersHaveNothingToDo
<1> QED
  BY <1>1, Invariant, PTL
=============================================================================
