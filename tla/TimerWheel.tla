----------------------------- MODULE TimerWheel -----------------------------
(***************************************************************************)
(* The hierarchical timer wheel behind operation timeouts: threads arm     *)
(* timers while loop threads sweep due ticks, help each other, cascade     *)
(* far timers to narrower windows, and compute how long they may sleep.    *)
(*                                                                         *)
(* A step is one access to shared memory.  A link is named by its timer.   *)
(* The head of a slot is the set of links pushed on it: within one         *)
(* incarnation the set only grows, so comparing sets is comparing heads.   *)
(* Every caller passes a loop state, so the overflow counter of            *)
(* timerPreclearOverflow stays 0 and is left out.                          *)
(***************************************************************************)
EXTENDS Naturals, FiniteSets, FiniteSetsExt

CONSTANTS
  SLOTS,       \* TIMER_WHEEL_SLOTS, a power of 2
  WORD,        \* slots of a level whose bits are in one word of occupancy, 64 in the code
  LEVELS,      \* TIMER_WHEEL_LEVELS
  Limits,      \* the values of loopThreadLimit that createAsyncBase is given
  Timers,      \* operations with a timeout, each armed once by a thread of its own
  Start,       \* the tick at which the base is created
  MaxTick,     \* bound on the clock
  MaxDeadline, \* bound on the deadlines
  MaxThreads   \* bound on loop threads plus armed timers

VARIABLES
  loopThreadLimit,   \* the loop threads are 1 .. loopThreadLimit
  slots,       \* per level and index: [base, chain], changed as a pair
  occupancy,   \* the bits that are set
  timerCloseCursor,
  clock,       \* what getMonotonicTicks answers
  wakeTick, preclearSequence,   \* TimerLoopState of each loop
  bell,        \* the doorbell of wakeupLoop is unanswered, 0 or 1
  op,          \* per timer: idle, pending, finished otherwise, or timed out
  deadline,    \* deadlineTick of each link
  ins,         \* per thread: its call of timerWheelInsert
  th           \* per loop thread: where it is, and its locals

vars == <<loopThreadLimit, slots, occupancy, timerCloseCursor, clock, wakeTick, preclearSequence, bell, op, deadline, ins, th>>

Loops == 1 .. loopThreadLimit
Threads == Loops \cup Timers
Level == 0 .. LEVELS - 1
Slot == Level \X (0 .. SLOTS - 1)

Eternal == 1000      \* timerSleepEternal
Awake == 1001        \* UINTPTR_MAX

timerWheelWidth(level) == SLOTS ^ level
timerWheelPeriod(level) == SLOTS ^ (level + 1)
Align(tick, level) == (tick \div timerWheelWidth(level)) * timerWheelWidth(level)
SlotOf(tick, level) == <<level, (tick \div timerWheelWidth(level)) % SLOTS>>

ASSUME WheelAssumption ==
  /\ SLOTS \in Nat \ {0, 1}
  /\ WORD \in Nat \ {0}
  /\ LEVELS \in Nat \ {0, 1}
  /\ Start \in Nat
  /\ Limits \subseteq Nat
  /\ \A n \in Limits : Timers \cap (1 .. n) = {}

\* What the proofs use of powers, whose arithmetic the provers do not know; true for
\* every SLOTS and LEVELS of at least 2.
ASSUME PowersAssumption ==
  /\ SLOTS ^ 0 = 1
  /\ \A v \in Level : SLOTS ^ v \in Nat \ {0} /\ SLOTS ^ (v + 1) = SLOTS ^ v * SLOTS
  /\ SLOTS ^ LEVELS \in Nat /\ SLOTS < SLOTS ^ LEVELS
  /\ \A n \in 0 .. SLOTS ^ LEVELS - 1 : \E v \in Level : n < SLOTS ^ (v + 1) /\ (v > 0 => SLOTS ^ v <= n)

NoInsert == [at |-> "none"]

timerWheelInit(current) ==
  /\ slots = [s \in Slot |->
       LET first == (current \div timerWheelPeriod(s[1])) * timerWheelPeriod(s[1]) + (s[2] * timerWheelWidth(s[1]))
       IN  [base |-> IF first < current THEN first + timerWheelPeriod(s[1]) ELSE first, chain |-> {}]]
  /\ occupancy = {}
  /\ timerCloseCursor = current

Init ==
  /\ loopThreadLimit \in Limits
  /\ timerWheelInit(Start)
  /\ clock = Start
  /\ wakeTick = [l \in Loops |-> Awake]
  /\ preclearSequence = [l \in Loops |-> 0]
  /\ bell = 0
  /\ op = [t \in Timers |-> "idle"]
  /\ deadline = [t \in Timers |-> 0]
  /\ ins = [x \in Threads |-> NoInsert]
  /\ th = [l \in Loops |-> [at |-> "top"]]

Wheel == <<loopThreadLimit, slots, occupancy, timerCloseCursor>>
Sleep == <<wakeTick, preclearSequence, bell>>

\* Continue thread l with these locals.
Go(l, frame) == th' = [th EXCEPT ![l] = frame]
At(l, pc) == th[l].at = pc /\ ins[l] = NoInsert

Tick ==
  /\ clock < MaxTick
  /\ clock' = clock + 1
  /\ UNCHANGED <<Wheel, Sleep, op, deadline, ins, th>>

\* The operation ends otherwise; its link stays behind in the wheel.
opFinishes(t) ==
  /\ op[t] = "pending"
  /\ op' = [op EXCEPT ![t] = "finished"]
  /\ UNCHANGED <<Wheel, Sleep, clock, deadline, ins, th>>

\* opCancel(aosTimeout), gated by the generation and the pending status.
Expire(t) == op' = [op EXCEPT ![t] = IF @ = "pending" THEN "timedout" ELSE @]
-----------------------------------------------------------------------------
(* timerWheelInsert, called by x for link t from a proven sweep position.  *)

\* opArmTimer: the deadline is at least a tick after the clock that is read here.
opArmTimer(t, d) ==
  /\ op[t] = "idle"
  /\ loopThreadLimit + Cardinality({u \in Timers : op[u] # "idle"}) < MaxThreads
  /\ d > clock
  /\ op' = [op EXCEPT ![t] = "pending"]
  /\ deadline' = [deadline EXCEPT ![t] = d]
  /\ ins' = [ins EXCEPT ![t] = [at |-> "arm", link |-> t]]
  /\ UNCHANGED <<Wheel, Sleep, clock, th>>

\* addToTimeoutQueue: the cursor is read, which may be past the deadline by now, and
\* the insert begins.
addToTimeoutQueue(t) ==
  /\ ins[t].at = "arm"
  /\ ins' = [ins EXCEPT ![t] = [at |-> "route", link |-> ins[t].link, cursor |-> timerCloseCursor]]
  /\ UNCHANGED <<Wheel, Sleep, clock, op, deadline, th>>

\* The window a link is routed to: by its distance, or the last point in range.
Route(d, cursor) ==
  LET distance == d - cursor
      range == SLOTS ^ LEVELS
      routeDistance == IF distance < range THEN distance ELSE range - 1
      level == CHOOSE v \in Level : /\ routeDistance < timerWheelPeriod(v)
                                    /\ v > 0 => timerWheelWidth(v) <= routeDistance
  IN  [level |-> level, tick |-> cursor + routeDistance]

\* The slot is that of the route; what is pushed on it depends on its incarnation.
Publish(x, place, base, refused) ==
  LET i == ins[x]
      s == slots[place]
  IN  \/ /\ ~refused /\ s.base = base
         /\ slots' = [slots EXCEPT ![place].chain = @ \cup {i.link}]
         /\ ins' = [ins EXCEPT ![x] = [at |-> "mark", link |-> i.link, place |-> place]]
         /\ UNCHANGED op
      \/ /\ ~refused /\ s.base # base /\ place[1] > 0
         /\ ins' = [ins EXCEPT ![x].cursor = base]
         /\ UNCHANGED <<slots, op>>
      \/ /\ refused \/ (s.base # base /\ place[1] = 0)
         /\ Expire(i.link)
         /\ ins' = [ins EXCEPT ![x] = NoInsert]
         /\ UNCHANGED slots

\* Slip: the deadline of the tick that is swept next is taken for passed.
timerWheelInsertEarly(x) ==
  /\ ins[x].at = "route"
  /\ LET d == deadline[ins[x].link]
         r == Route(d, ins[x].cursor)
     IN  Publish(x, SlotOf(r.tick, r.level), Align(r.tick, r.level), d <= ins[x].cursor)
  /\ UNCHANGED <<loopThreadLimit, occupancy, timerCloseCursor, Sleep, clock, deadline, th>>

\* Slip: a late arm is not refused; its unsigned distance wraps to one out of range.
timerWheelInsertLate(x) ==
  /\ ins[x].at = "route"
  /\ LET cursor == ins[x].cursor
         d == deadline[ins[x].link]
         r == Route(IF d < cursor THEN cursor + SLOTS ^ LEVELS ELSE d, cursor)
     IN  Publish(x, SlotOf(r.tick, r.level), Align(r.tick, r.level), FALSE)
  /\ UNCHANGED <<loopThreadLimit, occupancy, timerCloseCursor, Sleep, clock, deadline, th>>

\* timerWheelInsert up to the pair CAS: published, routed again one level down, or
\* refused because the window of the deadline is swept.
timerWheelInsert(x) ==
  /\ ins[x].at = "route"
  /\ LET d == deadline[ins[x].link]
         r == Route(d, ins[x].cursor)
     IN  Publish(x, SlotOf(r.tick, r.level), Align(r.tick, r.level), d < ins[x].cursor)
  /\ UNCHANGED <<loopThreadLimit, occupancy, timerCloseCursor, Sleep, clock, deadline, th>>

\* timerWheelTryPublish: every publisher sets the bit itself.
timerWheelMarkOccupied(x) ==
  /\ ins[x].at = "mark"
  /\ occupancy' = occupancy \cup {ins[x].place}
  /\ ins' = [ins EXCEPT ![x] = [at |-> "kick", due |-> deadline[ins[x].link], i |-> 1, hasSleeper |-> FALSE]]
  /\ UNCHANGED <<loopThreadLimit, slots, timerCloseCursor, Sleep, clock, op, deadline, th>>

\* timerKickUncoveredSleepers, one loop's horizon a step; the doorbell at the end.
timerKickUncoveredSleepers(x) ==
  /\ ins[x].at = "kick"
  /\ LET k == ins[x]
     IN  \/ /\ k.i <= loopThreadLimit /\ wakeTick[k.i] <= k.due + 1
            /\ ins' = [ins EXCEPT ![x] = NoInsert]
            /\ UNCHANGED bell
         \/ /\ k.i <= loopThreadLimit /\ wakeTick[k.i] > k.due + 1
            /\ ins' = [ins EXCEPT ![x].i = @ + 1, ![x].hasSleeper = @ \/ wakeTick[k.i] # Awake]
            /\ UNCHANGED bell
         \/ /\ k.i > loopThreadLimit
            /\ bell' = IF k.hasSleeper THEN 1 ELSE bell
            /\ ins' = [ins EXCEPT ![x] = NoInsert]
  /\ UNCHANGED <<Wheel, wakeTick, preclearSequence, clock, op, deadline, th>>
-----------------------------------------------------------------------------
(* The sweep: processTimeoutQueue of a loop thread that read the clock.    *)

\* processTimeoutQueue: help with the first unconfirmed tick, or be done.
processTimeoutQueue(l) ==
  /\ At(l, "sweep")
  /\ Go(l, IF timerCloseCursor >= th[l].now THEN [at |-> "top"]
           ELSE [at |-> "visit", now |-> th[l].now, tick |-> timerCloseCursor, level |-> LEVELS - 1])
  /\ UNCHANGED <<Wheel, Sleep, clock, op, deadline, ins>>

VisitFrame(l, pc) == [at |-> pc, now |-> th[l].now, tick |-> th[l].tick, level |-> th[l].level]
DetachFrame(l, pc, seen, opened) ==
  [at |-> pc, now |-> th[l].now, tick |-> th[l].tick, level |-> th[l].level, seen |-> seen, opened |-> opened]
Place(l) == SlotOf(th[l].tick, th[l].level)
Reopened(l) == [base |-> th[l].tick + timerWheelPeriod(th[l].level), chain |-> {}]

\* timerWheelSweepTick: the levels whose boundary the tick is, from the top, and the
\* load that begins timerWheelDetach.
timerWheelSweepTick(l) ==
  /\ At(l, "visit")
  /\ Go(l, IF Align(th[l].tick, th[l].level) = th[l].tick
           THEN DetachFrame(l, "detach", slots[Place(l)], FALSE)
           ELSE [th[l] EXCEPT !.level = @ - 1])
  /\ UNCHANGED <<Wheel, Sleep, clock, op, deadline, ins>>

\* The visit of a level is over: the next level, or the confirmation of the tick.
Visited(l) == IF th[l].level > 0 THEN [VisitFrame(l, "visit") EXCEPT !.level = @ - 1] ELSE VisitFrame(l, "confirm")
Close(l, chain) == [at |-> "close", now |-> th[l].now, tick |-> th[l].tick, level |-> th[l].level,
                    opened |-> th[l].opened, chain |-> chain]

\* timerWheelDetach, the top of its loop: past the window (repair the bit), bit
\* clear (drain without a bracket), or a bracket to open before the clear.
timerWheelDetach(l) ==
  /\ At(l, "detach")
  /\ \/ /\ th[l].seen.base > th[l].tick
        /\ occupancy' = IF th[l].seen.chain # {} THEN occupancy \cup {Place(l)} ELSE occupancy
        /\ Go(l, Close(l, {}))
        /\ UNCHANGED preclearSequence
     \/ /\ th[l].seen.base <= th[l].tick /\ th[l].opened
        /\ Go(l, [th[l] EXCEPT !.at = "clear"])
        /\ UNCHANGED <<occupancy, preclearSequence>>
     \/ /\ th[l].seen.base <= th[l].tick /\ ~th[l].opened /\ Place(l) \notin occupancy
        /\ Go(l, [th[l] EXCEPT !.at = "drain"])
        /\ UNCHANGED <<occupancy, preclearSequence>>
     \/ /\ th[l].seen.base <= th[l].tick /\ ~th[l].opened /\ Place(l) \in occupancy
        /\ preclearSequence' = [preclearSequence EXCEPT ![l] = @ + 1]
        /\ Go(l, [th[l] EXCEPT !.at = "clear", !.opened = TRUE])
        /\ UNCHANGED occupancy
  /\ UNCHANGED <<loopThreadLimit, slots, timerCloseCursor, wakeTick, bell, clock, op, deadline, ins>>

\* timerWheelClearOccupied, before the drain.
timerWheelClearOccupied(l) ==
  /\ At(l, "clear")
  /\ occupancy' = occupancy \ {Place(l)}
  /\ Go(l, [th[l] EXCEPT !.at = "drain"])
  /\ UNCHANGED <<loopThreadLimit, slots, timerCloseCursor, Sleep, clock, op, deadline, ins>>

\* timerWheelDetach, the pair CAS that drains and reopens; a loss observes afresh.
timerWheelDrain(l) ==
  /\ At(l, "drain")
  /\ \/ /\ slots[Place(l)] = th[l].seen
        /\ slots' = [slots EXCEPT ![Place(l)] = Reopened(l)]
        /\ Go(l, Close(l, th[l].seen.chain))
     \/ /\ slots[Place(l)] # th[l].seen
        /\ Go(l, [th[l] EXCEPT !.at = "detach", !.seen = slots[Place(l)]])
        /\ UNCHANGED slots
  /\ UNCHANGED <<loopThreadLimit, occupancy, timerCloseCursor, Sleep, clock, op, deadline, ins>>

\* timerWheelDetach, the end: the bracket is closed if it was opened.
timerWheelDetached(l) ==
  /\ At(l, "close")
  /\ preclearSequence' = [preclearSequence EXCEPT ![l] = IF th[l].opened THEN @ + 1 ELSE @]
  /\ Go(l, IF th[l].chain = {} THEN Visited(l)
           ELSE [at |-> "process", now |-> th[l].now, tick |-> th[l].tick, level |-> th[l].level, chain |-> th[l].chain])
  /\ UNCHANGED <<Wheel, wakeTick, bell, clock, op, deadline, ins>>

\* timerWheelProcessDetached: a link is dropped, re-routed from this tick, or due.
timerWheelProcessDetached(l) ==
  /\ At(l, "process")
  /\ \E t \in th[l].chain :
       /\ Go(l, IF th[l].chain = {t} THEN Visited(l) ELSE [th[l] EXCEPT !.chain = @ \ {t}])
       /\ \/ /\ op[t] # "pending"
             /\ UNCHANGED <<op, ins>>
          \/ /\ op[t] = "pending" /\ deadline[t] > th[l].tick
             /\ ins' = [ins EXCEPT ![l] = [at |-> "route", link |-> t, cursor |-> th[l].tick]]
             /\ UNCHANGED op
          \/ /\ op[t] = "pending" /\ deadline[t] <= th[l].tick
             /\ Expire(t)
             /\ UNCHANGED ins
  /\ UNCHANGED <<Wheel, Sleep, clock, deadline>>

\* timerWheelSweepTick, the end: the tick is confirmed unless a helper did it.
confirmTick(l) ==
  /\ At(l, "confirm")
  /\ timerCloseCursor' = IF timerCloseCursor = th[l].tick THEN th[l].tick + 1 ELSE timerCloseCursor
  /\ Go(l, [at |-> "sweep", now |-> th[l].now])
  /\ UNCHANGED <<loopThreadLimit, slots, occupancy, Sleep, clock, op, deadline, ins>>
-----------------------------------------------------------------------------
(* The sleep: epollNextFinishedOperation around timerLoopPrepareSleep.     *)

\* Slip: the scan runs while the loop still counts as awake.
publishEternalLate(l) ==
  /\ At(l, "top")
  /\ Go(l, [at |-> "from", now |-> clock])
  /\ UNCHANGED <<Wheel, Sleep, clock, op, deadline, ins>>

\* The clock is read, and timerLoopPrepareSleep first publishes the worst case it may
\* commit to.
publishEternal(l) ==
  /\ At(l, "top")
  /\ wakeTick' = [wakeTick EXCEPT ![l] = Eternal]
  /\ Go(l, [at |-> "from", now |-> clock])
  /\ UNCHANGED <<Wheel, preclearSequence, bell, clock, op, deadline, ins>>

readFrom(l) ==
  /\ At(l, "from")
  /\ Go(l, [at |-> "before", from |-> IF timerCloseCursor < th[l].now THEN timerCloseCursor ELSE th[l].now])
  /\ UNCHANGED <<Wheel, Sleep, clock, op, deadline, ins>>

\* timerPreclearSnapshot: one load for each other loop, and one suffices when there
\* are 2; 0 stands for an open bracket, otherwise 1 + the version.
timerPreclearSnapshot(l) ==
  LET others == Loops \ {l}
  IN  IF \E o \in others : preclearSequence[o] % 2 = 1 THEN 0
      ELSE 1 + MapThenSumSet(LAMBDA o : preclearSequence[o], others)

Decided(l, wake) == [at |-> "commit", wake |-> wake]
Scanning(l, version, attempt) ==
  [at |-> "scan", from |-> th[l].from, version |-> version, attempt |-> attempt, level |-> 0, passed |-> 0, best |-> Eternal]

snapshotBefore(l) ==
  /\ At(l, "before")
  /\ LET before == timerPreclearSnapshot(l)
     IN  Go(l, IF before = 0 THEN Decided(l, th[l].from + 1) ELSE Scanning(l, before, 0))
  /\ UNCHANGED <<Wheel, Sleep, clock, op, deadline, ins>>

\* The first visit of a level from a tick on.
Boundary(from, level) == Align(from + timerWheelWidth(level) - 1, level)

\* A level is done: the next one, unless none is left or it cannot be earlier.
Scanned(f, best) ==
  IF f.level = LEVELS - 1 \/ Boundary(f.from, f.level + 1) + 1 >= best
  THEN [at |-> "after", from |-> f.from, version |-> f.version, attempt |-> f.attempt, best |-> best]
  ELSE [f EXCEPT !.level = @ + 1, !.passed = 0, !.best = best]

\* timerWheelNearestWake, the load of one word: the first occupied slot in visit order
\* from the boundary of the level on, or the next word while it may be earlier.
timerWheelNearestWake(l) ==
  /\ At(l, "scan")
  /\ LET f == th[l]
         width == timerWheelWidth(f.level)
         VisitTick(n) == Boundary(f.from, f.level) + n * width
         slotIndex == SlotOf(VisitTick(f.passed), f.level)[2]
         take == Min({WORD - (slotIndex % WORD), SLOTS - f.passed})
         hit == {n \in f.passed .. f.passed + take - 1 : SlotOf(VisitTick(n), f.level) \in occupancy}
         passed == f.passed + take
     IN  Go(l, IF hit # {} THEN Scanned(f, Min({f.best, VisitTick(Min(hit)) + 1}))
               ELSE IF passed = SLOTS \/ VisitTick(passed) + 1 >= f.best THEN Scanned(f, f.best)
               ELSE [f EXCEPT !.passed = passed])
  /\ UNCHANGED <<Wheel, Sleep, clock, op, deadline, ins>>

\* The scan is trusted when no bracket is open and none turned over; else once more,
\* and then the sleep is capped.
snapshotAfter(l) ==
  /\ At(l, "after")
  /\ LET after == timerPreclearSnapshot(l)
     IN  Go(l, IF th[l].best = th[l].from + 1 \/ after = th[l].version THEN Decided(l, th[l].best)
               ELSE IF after = 0 \/ th[l].attempt = 1
                    THEN Decided(l, Min({th[l].best, th[l].from + 1}))
                    ELSE Scanning(l, after, th[l].attempt + 1))
  /\ UNCHANGED <<Wheel, Sleep, clock, op, deadline, ins>>

\* timerLoopPrepareSleep, the end; the eternal horizon stays if nothing is parked.
commitSleep(l) ==
  /\ At(l, "commit")
  /\ wakeTick' = [wakeTick EXCEPT ![l] = th[l].wake]
  /\ Go(l, [at |-> "asleep"])
  /\ UNCHANGED <<Wheel, preclearSequence, bell, clock, op, deadline, ins>>

\* epoll_wait returns: the doorbell woke this sleeper, or its timeout is over, another
\* descriptor is ready or a signal came, which may be at any time.
wakes(l) ==
  /\ At(l, "asleep")
  /\ bell' \in {bell, 0}
  /\ Go(l, [at |-> "woken"])
  /\ UNCHANGED <<Wheel, wakeTick, preclearSequence, clock, op, deadline, ins>>

\* timerLoopCancelSleep, and the clock read that starts the sweep.
timerLoopCancelSleep(l) ==
  /\ At(l, "woken")
  /\ wakeTick' = [wakeTick EXCEPT ![l] = Awake]
  /\ Go(l, [at |-> "sweep", now |-> clock])
  /\ UNCHANGED <<Wheel, preclearSequence, bell, clock, op, deadline, ins>>

insertStep(x) == timerWheelInsert(x) \/ timerWheelMarkOccupied(x) \/ timerKickUncoveredSleepers(x)

sweepStep(l) ==
  \/ processTimeoutQueue(l) \/ timerWheelSweepTick(l) \/ timerWheelDetach(l) \/ timerWheelClearOccupied(l)
  \/ timerWheelDrain(l) \/ timerWheelDetached(l) \/ timerWheelProcessDetached(l) \/ confirmTick(l)

sleepStep(l) ==
  \/ publishEternal(l) \/ readFrom(l) \/ snapshotBefore(l) \/ timerWheelNearestWake(l)
  \/ snapshotAfter(l) \/ commitSleep(l) \/ wakes(l) \/ timerLoopCancelSleep(l)

Next ==
  \/ Tick
  \/ \E t \in Timers : opFinishes(t) \/ addToTimeoutQueue(t) \/ \E d \in clock .. MaxDeadline : opArmTimer(t, d)
  \/ \E x \in Threads : insertStep(x)
  \/ \E l \in Loops : sweepStep(l) \/ sleepStep(l)

Spec == Init /\ [][Next]_vars
-----------------------------------------------------------------------------
Chain(l) == IF th[l].at \in {"close", "process"} THEN th[l].chain ELSE {}
Routing(x) == IF ins[x].at \in {"arm", "route"} THEN {ins[x].link} ELSE {}

\* A timeout is never early: an operation times out only once the clock is past its
\* deadline, also when the arm races the sweep of that tick or a cascade is refused.
NeverEarly == \A t \in Timers : op[t] = "timedout" => clock > deadline[t]

\* Where a timer is: in slots, in chains of sweepers, in calls of insert.
Places(t) ==
  ({"slot"} \X {s \in Slot : t \in slots[s].chain})
    \cup ({"chain"} \X {l \in Loops : t \in Chain(l)})
    \cup ({"insert"} \X {x \in Threads : t \in Routing(x)})

\* A pending timer is in exactly one place, however many threads visit the same
\* window: none is lost or handed to two sweepers.  And none is parked a rotation
\* late: a slot is visited at its base tick, which is not behind the cursor and not
\* after the deadline of a timer in it.
HeldOnce ==
  /\ \A t \in Timers : op[t] = "pending" => \E p \in Places(t) : Places(t) = {p}
  /\ \A s \in Slot : /\ slots[s].base >= timerCloseCursor
                     /\ \A t \in slots[s].chain : slots[s].base <= deadline[t]

\* No lost wakeup: when every loop sleeps, no doorbell is pending and no arm is under
\* way, some sleeper's horizon covers each parked timer.
SleepersCoverTimers ==
  (/\ \A l \in Loops : At(l, "asleep")
   /\ bell = 0
   /\ \A x \in Threads : ins[x] = NoInsert)
  => \A t \in Timers : op[t] = "pending" => \E l \in Loops : wakeTick[l] <= deadline[t] + 1
=============================================================================
