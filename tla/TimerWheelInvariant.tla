------------------------ MODULE TimerWheelInvariant -------------------------
(***************************************************************************)
(* The inductive invariant of the timer wheel, the arithmetic of its       *)
(* windows, the initial state, the sleep and the visit of a slot.          *)
(***************************************************************************)
EXTENDS TimerWheel, TLAPS

Pair == [base : Nat, chain : SUBSET Timers]
Resting == {"top", "from", "before", "scan", "after", "commit", "asleep", "woken"}
Detaching == {"detach", "clear", "drain"}
Sweeping == {"visit", "confirm", "close", "process"} \cup Detaching

\* The fields of a sweeper's frame; the frames of the sleep do not matter here.
Frame(f) ==
  /\ "at" \in DOMAIN f /\ f.at \in Resting \cup {"sweep"} \cup Sweeping
  /\ f.at = "sweep" => f.now \in Nat
  /\ f.at \in {"visit", "confirm"} => f \in [at : {"visit", "confirm"}, now : Nat, tick : Nat, level : Level]
  /\ f.at \in Detaching => f \in [at : Detaching, now : Nat, tick : Nat, level : Level, seen : Pair, opened : BOOLEAN]
  /\ f.at = "close" => f \in [at : {"close"}, now : Nat, tick : Nat, level : Level, opened : BOOLEAN, chain : SUBSET Timers]
  /\ f.at = "process" => f \in [at : {"process"}, now : Nat, tick : Nat, level : Level, chain : SUBSET Timers]

\* The levels that a visit has behind it.
Done(f, v) == f.at = "confirm" \/ v > f.level \/ (f.at \in {"close", "process"} /\ v = f.level)

\* A sweeper works on a tick that is over and was the first unconfirmed one.  What it
\* has behind it is reopened for the next rotation, and what it saw is not newer than
\* what is there.
Sane(f, wheel, cursor, time) ==
  /\ Frame(f)
  /\ f.at = "sweep" => f.now <= time
  /\ f.at \in Sweeping =>
       /\ f.tick < f.now /\ f.now <= time /\ f.tick <= cursor
       /\ \A v \in Level : Done(f, v) /\ Align(f.tick, v) = f.tick => wheel[SlotOf(f.tick, v)].base > f.tick
  /\ f.at \in Detaching =>
       /\ Align(f.tick, f.level) = f.tick
       /\ f.seen.base <= wheel[SlotOf(f.tick, f.level)].base
       /\ f.at # "detach" => f.seen.base <= f.tick

\* Every slot stands for one window of its level: the next one that is not visited.
Window(s, base, cursor, time) ==
  /\ SlotOf(base, s[1]) = s /\ Align(base, s[1]) = base
  /\ cursor <= base
  /\ base <= cursor + timerWheelPeriod(s[1])
  /\ base < time + timerWheelPeriod(s[1])

Inserting ==
  {NoInsert} \cup [at : {"arm"}, link : Timers] \cup [at : {"route"}, link : Timers, cursor : Nat]
    \cup [at : {"mark"}, link : Timers, place : Slot]

Types ==
  /\ loopThreadLimit \in Limits
  /\ clock \in Nat /\ timerCloseCursor \in Nat /\ timerCloseCursor <= clock
  /\ slots \in [Slot -> Pair]
  /\ op \in [Timers -> {"idle", "pending", "finished", "timedout"}]
  /\ deadline \in [Timers -> Nat]
  /\ DOMAIN ins = Threads
  /\ \A x \in Threads : "at" \in DOMAIN ins[x] /\ (ins[x] \in Inserting \/ ins[x].at = "kick")
  /\ DOMAIN th = Loops

Sweepers == \A l \in Loops : Sane(th[l], slots, timerCloseCursor, clock)
Windows == \A s \in Slot : Window(s, slots[s].base, timerCloseCursor, clock)

\* An insert routes from a position that the sweep has reached.
Reached == \A x \in Threads : ins[x].at = "route" => ins[x].cursor <= timerCloseCursor

\* No timer is in two places, a pending one is somewhere, an idle one nowhere.
InSlot(t, s) == t \in slots[s].chain
InChain(t, l) == t \in Chain(l)
InRoute(t, x) == t \in Routing(x)
Apart ==
  /\ \A t \in Timers, s, r \in Slot : InSlot(t, s) /\ InSlot(t, r) => s = r
  /\ \A t \in Timers, l, k \in Loops : InChain(t, l) /\ InChain(t, k) => l = k
  /\ \A t \in Timers, x, y \in Threads : InRoute(t, x) /\ InRoute(t, y) => x = y
  /\ \A t \in Timers, s \in Slot, l \in Loops : ~(InSlot(t, s) /\ InChain(t, l))
  /\ \A t \in Timers, s \in Slot, x \in Threads : ~(InSlot(t, s) /\ InRoute(t, x))
  /\ \A t \in Timers, l \in Loops, x \in Threads : ~(InChain(t, l) /\ InRoute(t, x))
Somewhere(t) ==
  (\E s \in Slot : InSlot(t, s)) \/ (\E l \in Loops : InChain(t, l)) \/ (\E x \in Threads : InRoute(t, x))
Kept == \A t \in Timers : /\ op[t] = "pending" => Somewhere(t)
                          /\ op[t] = "idle" => ~Somewhere(t) /\ ins[t] = NoInsert
InTime == \A s \in Slot : \A t \in Timers : InSlot(t, s) => slots[s].base <= deadline[t]

IInv == Types /\ Sweepers /\ Windows /\ Reached /\ Apart /\ Kept /\ InTime /\ NeverEarly
-----------------------------------------------------------------------------
(* Arithmetic of windows. *)

\* Division with remainder.
LEMMA DivMod ==
  ASSUME NEW a \in Nat, NEW w \in Nat \ {0}
  PROVE  a \div w \in Nat /\ a % w \in 0 .. w - 1 /\ a = (a \div w) * w + (a % w)
  OBVIOUS

\* The quotient and the remainder of a number written as k * w + r.
LEMMA DivOfSum ==
  ASSUME NEW k \in Nat, NEW w \in Nat \ {0}, NEW r \in 0 .. w - 1
  PROVE  (k * w + r) \div w = k /\ (k * w + r) % w = r
  OBVIOUS

\* Dividing a product by one factor gives the other.
LEMMA DivOfProduct ==
  ASSUME NEW k \in Nat, NEW w \in Nat \ {0}
  PROVE  (k * w) \div w = k
  OBVIOUS

\* A product keeps the order of its factors.
LEMMA Scaled ==
  ASSUME NEW i \in Nat, NEW j \in Nat, NEW w \in Nat \ {0}
  PROVE  i * w \in Nat /\ (i < j <=> i * w < j * w) /\ (i + j) * w = i * w + j * w
  OBVIOUS

\* Two numbers with the same index on a wheel of n slots are a rotation apart.
LEMMA NextMultiple ==
  ASSUME NEW i \in Nat, NEW j \in Nat, NEW n \in Nat \ {0}, i % n = j % n, i < j
  PROVE  i + n <= j
<1>1. PICK q \in Nat : i = q * n + (i % n)
  BY DivMod, Zenon
<1>2. PICK p \in Nat : j = p * n + (j % n)
  BY DivMod, Zenon
<1>3. i % n \in Nat
  BY DivMod
<1>4. q * n < p * n /\ q * n \in Nat /\ p * n \in Nat
  BY <1>1, <1>2, <1>3, Scaled
<1>5. q + 1 <= p
  BY <1>4, Scaled
<1>6. (q + 1) * n <= p * n
  BY <1>5
<1>7. (q + 1) * n = q * n + n
  OBVIOUS
<1> QED
  BY <1>1, <1>2, <1>3, <1>4, <1>6, <1>7

\* A whole rotation later the index on the wheel is the same.
LEMMA AddPeriod ==
  ASSUME NEW k \in Nat, NEW n \in Nat \ {0}
  PROVE  (k + n) % n = k % n
<1>1. PICK q \in Nat, r \in 0 .. n - 1 : k = q * n + r
  BY DivMod, Zenon
<1>2. k + n = (q + 1) * n + r
  BY <1>1
<1>3. ((q + 1) * n + r) % n = r
  BY q + 1 \in Nat, DivOfSum
<1>4. (q * n + r) % n = r
  BY DivOfSum
<1> QED
  BY <1>1, <1>2, <1>3, <1>4

\* Widths and periods of timerWheelWidth and timerWheelPeriod are positive.
LEMMA Widths ==
  ASSUME NEW v \in Level
  PROVE  /\ v \in Nat /\ timerWheelWidth(v) \in Nat \ {0}
         /\ timerWheelPeriod(v) \in Nat \ {0} /\ timerWheelPeriod(v) = SLOTS * timerWheelWidth(v)
         /\ timerWheelWidth(0) = 1 /\ timerWheelPeriod(0) = SLOTS
<1>1. v \in Nat /\ 0 \in Level
  BY WheelAssumption DEF Level
<1>2. timerWheelWidth(v) \in Nat \ {0} /\ timerWheelPeriod(v) = timerWheelWidth(v) * SLOTS
  BY PowersAssumption DEF timerWheelWidth, timerWheelPeriod
<1>3. timerWheelWidth(0) = 1 /\ timerWheelPeriod(0) = timerWheelWidth(0) * SLOTS
  BY <1>1, PowersAssumption DEF timerWheelWidth, timerWheelPeriod
<1> QED
  BY <1>1, <1>2, <1>3, WheelAssumption

\* A tick is in the window that Align and SlotOf give it.
LEMMA Aligned ==
  ASSUME NEW a \in Nat, NEW v \in Level
  PROVE  /\ Align(a, v) \in Nat /\ Align(a, v) <= a
         /\ Align(Align(a, v), v) = Align(a, v)
         /\ SlotOf(a, v) \in Slot /\ SlotOf(Align(a, v), v) = SlotOf(a, v)
         /\ SlotOf(a, v)[1] = v
<1> DEFINE w == timerWheelWidth(v)
           k == a \div w
<1>1. w \in Nat \ {0} /\ SLOTS \in Nat \ {0}
  BY Widths, WheelAssumption
<1>2. k \in Nat /\ a = k * w + (a % w) /\ a % w \in 0 .. w - 1
  BY <1>1, DivMod, Zenon
<1> HIDE DEF k, w
<1>3. k * w \in Nat /\ k * w <= a
  BY <1>1, <1>2
<1>4. (k * w) \div w = k
  BY <1>1, <1>2, DivOfProduct
<1>5. k % SLOTS \in 0 .. SLOTS - 1
  BY <1>1, <1>2, DivMod
<1> QED
  BY <1>3, <1>4, <1>5 DEF Align, SlotOf, Slot, k, w

\* The window that follows in the same slot begins a period later.
LEMMA Rotation ==
  ASSUME NEW a \in Nat, NEW v \in Level, Align(a, v) = a
  PROVE  LET next == a + timerWheelPeriod(v) IN Align(next, v) = next /\ SlotOf(next, v) = SlotOf(a, v)
<1> DEFINE w == timerWheelWidth(v)
           k == a \div w
<1>1. w \in Nat \ {0} /\ SLOTS \in Nat \ {0} /\ timerWheelPeriod(v) = SLOTS * w
  BY Widths, WheelAssumption
<1>2. k \in Nat /\ a = k * w
  BY <1>1, DivMod, Zenon DEF Align
<1>3. a + timerWheelPeriod(v) = (k + SLOTS) * w
  BY <1>1, <1>2, Scaled
<1>4. ((k + SLOTS) * w) \div w = k + SLOTS
  BY <1>1, <1>2, k + SLOTS \in Nat, DivOfProduct
<1>5. (k + SLOTS) % SLOTS = k % SLOTS
  BY <1>1, <1>2, AddPeriod
<1> QED
  BY <1>3, <1>4, <1>5 DEF Align, SlotOf

\* Two windows of one slot are at least a period apart.
LEMMA WindowsApart ==
  ASSUME NEW a \in Nat, NEW b \in Nat, NEW v \in Level,
         Align(a, v) = a, Align(b, v) = b, SlotOf(a, v) = SlotOf(b, v), a < b
  PROVE  a + timerWheelPeriod(v) <= b
<1> DEFINE w == timerWheelWidth(v)
           i == a \div w
           j == b \div w
<1>1. w \in Nat \ {0} /\ SLOTS \in Nat \ {0} /\ timerWheelPeriod(v) = SLOTS * w
  BY Widths, WheelAssumption
<1>2. i \in Nat /\ j \in Nat /\ a = i * w /\ b = j * w
  BY <1>1, DivMod, Zenon DEF Align
<1>3. i % SLOTS = j % SLOTS
  BY DEF SlotOf
<1>4. i < j
  BY <1>1, <1>2, Scaled
<1>5. i + SLOTS <= j
  BY <1>1, <1>2, <1>3, <1>4, NextMultiple
<1>6. (i + SLOTS) * w <= j * w
  BY <1>1, <1>2, <1>5, Scaled
<1> QED
  BY <1>1, <1>2, <1>6, Scaled

\* Where an insert is routed: into a window of a level that the slot can stand for,
\* not after the deadline, and exactly at the deadline on level 0.
LEMMA Routed ==
  ASSUME NEW d \in Nat, NEW cursor \in Nat, cursor <= d
  PROVE  LET r == Route(d, cursor)
         IN  /\ r.level \in Level /\ r.tick \in Nat
             /\ cursor <= r.tick /\ r.tick <= d /\ r.tick < cursor + timerWheelPeriod(r.level)
             /\ r.level = 0 => r.tick = d
<1> DEFINE range == SLOTS ^ LEVELS
           distance == d - cursor
           near == IF distance < range THEN distance ELSE range - 1
           Fits(v) == near < timerWheelPeriod(v) /\ (v > 0 => timerWheelWidth(v) <= near)
           level == CHOOSE v \in Level : Fits(v)
<1>1. range \in Nat /\ SLOTS < range /\ SLOTS \in Nat
  BY PowersAssumption, WheelAssumption
<1>2. near \in 0 .. range - 1 /\ near <= distance /\ (near < SLOTS => near = distance)
  BY <1>1
<1>3. \E v \in Level : Fits(v)
  BY <1>2, PowersAssumption DEF timerWheelWidth, timerWheelPeriod
<1>4. level \in Level /\ Fits(level)
  BY <1>3
<1>5. Route(d, cursor) = [level |-> level, tick |-> cursor + near]
  BY DEF Route
<1> HIDE DEF level, near
<1>6. level = 0 => near < SLOTS
  BY <1>4, Widths
<1>7. timerWheelPeriod(level) \in Nat
  BY <1>4, Widths
<1> QED
  BY <1>2, <1>4, <1>5, <1>6, <1>7

-----------------------------------------------------------------------------
(* The inductive invariant. *)

\* The windows that timerWheelInit opens.
LEMMA FirstWindows ==
  ASSUME NEW s \in Slot
  PROVE  LET period == timerWheelPeriod(s[1])
             first == (Start \div period) * period + (s[2] * timerWheelWidth(s[1]))
             base == IF first < Start THEN first + period ELSE first
         IN  base \in Nat /\ Window(s, base, Start, Start)
<1> DEFINE v == s[1]
           w == timerWheelWidth(v)
           period == timerWheelPeriod(v)
           q == Start \div period
           k == q * SLOTS + s[2]
           first == q * period + (s[2] * w)
<1>1. v \in Level /\ s[2] \in 0 .. SLOTS - 1 /\ s = <<v, s[2]>>
  BY DEF Slot
<1>2. w \in Nat \ {0} /\ period \in Nat \ {0} /\ period = SLOTS * w /\ SLOTS \in Nat \ {0} /\ Start \in Nat
  BY <1>1, Widths, WheelAssumption
<1>3. q \in Nat /\ Start % period \in 0 .. period - 1 /\ Start = q * period + (Start % period)
  BY <1>2, DivMod, Zenon
<1> HIDE DEF v, w, period, q
<1>4. k \in Nat /\ first = k * w /\ first \in Nat
  BY <1>1, <1>2, <1>3
<1>5. k % SLOTS = s[2]
  <2>1. \A i \in 0 .. SLOTS - 1 : (q * SLOTS + i) % SLOTS = i
    BY <1>2, <1>3, DivOfSum, ZenonT(30)
  <2> QED
    BY <1>1, <2>1
<1>6. first \div w = k
  BY <1>2, <1>4, DivOfProduct
<1>7. Align(first, v) = first /\ SlotOf(first, v) = s
  BY <1>1, <1>4, <1>5, <1>6 DEF Align, SlotOf, w
<1>8. Align(first + period, v) = first + period /\ SlotOf(first + period, v) = s
  BY <1>1, <1>4, <1>7, Rotation DEF period
<1>9. s[2] * w \in Nat /\ s[2] * w < SLOTS * w
  BY <1>1, <1>2, Scaled
<1>10. q * period \in Nat
  BY <1>2, <1>3
<1>11. Start < first + period /\ first < Start + period
  BY <1>2, <1>3, <1>9, <1>10
<1> HIDE DEF first
<1> QED
  BY <1>2, <1>4, <1>7, <1>8, <1>11 DEF Window, v, first, w, period, q

\* The invariant holds when the base is created.
LEMMA Initially == Init => IInv
<1> SUFFICES ASSUME Init PROVE IInv
  OBVIOUS
<1>1. \A s \in Slot : slots[s].base \in Nat /\ Window(s, slots[s].base, Start, Start) /\ slots[s].chain = {}
  BY FirstWindows DEF Init, timerWheelInit
<1>2. slots \in [Slot -> Pair]
  BY <1>1, Zenon DEF Init, timerWheelInit, Pair
<1>3. \A l \in Loops : th[l] = [at |-> "top"]
  BY DEF Init
<1>4. \A x \in Threads : ins[x] = NoInsert /\ NoInsert.at = "none"
  BY DEF Init, NoInsert
<1>5. Types
  BY <1>2, <1>4, WheelAssumption DEF Init, Types, timerWheelInit, Inserting, NoInsert
<1>6. Sweepers
  BY <1>3 DEF Sweepers, Sane, Frame, Resting, Sweeping, Detaching
<1>7. Windows /\ Reached
  BY <1>1, <1>4 DEF Windows, Reached, Init, timerWheelInit
<1>8. \A t \in Timers : ~Somewhere(t)
  BY <1>1, <1>3, <1>4 DEF Somewhere, InSlot, InChain, InRoute, Chain, Routing
<1>9. Apart /\ Kept /\ InTime
  BY <1>4, <1>8 DEF Apart, Kept, InTime, Somewhere, Init, Threads
<1>10. NeverEarly
  BY DEF NeverEarly, Init
<1> QED
  BY <1>5, <1>6, <1>7, <1>9, <1>10 DEF IInv

\* What holds of a sweeper goes on to hold when windows, cursor and clock advance.
LEMMA SaneLater ==
  ASSUME NEW f, NEW wheel \in [Slot -> Pair], NEW later \in [Slot -> Pair],
         NEW cursor \in Nat, NEW cursor2 \in Nat, NEW time \in Nat, NEW time2 \in Nat,
         cursor <= cursor2, time <= time2, \A s \in Slot : wheel[s].base <= later[s].base,
         Sane(f, wheel, cursor, time)
  PROVE  Sane(f, later, cursor2, time2)
<1>1. \A s \in Slot : wheel[s].base \in Nat /\ later[s].base \in Nat
  BY DEF Pair
<1>2. f.at \in Sweeping => f.tick \in Nat /\ f.now \in Nat /\ f.level \in Level
  BY DEF Sane, Frame, Sweeping, Detaching
<1>3. f.at \in Sweeping => \A v \in Level : SlotOf(f.tick, v) \in Slot
  BY <1>2, Aligned
<1>4. f.at \in Detaching => f.at \in Sweeping /\ f.seen.base \in Nat
  BY DEF Sane, Frame, Sweeping, Detaching, Pair
<1> QED
  BY <1>1, <1>2, <1>3, <1>4 DEF Sane, Frame

\* A step of a sweeper that changes neither the wheel nor the chain it holds.
LEMMA SweeperMoves ==
  ASSUME IInv, NEW l \in Loops, DOMAIN th' = Loops, \A k \in Loops \ {l} : th'[k] = th[k],
         Sane(th'[l], slots, timerCloseCursor, clock), Chain(l)' = Chain(l),
         UNCHANGED <<loopThreadLimit, slots, timerCloseCursor, clock, op, deadline, ins>>
  PROVE  IInv'
<1>1. Loops' = Loops /\ Threads' = Threads
  BY DEF Loops, Threads
<1>2. \A k \in Loops : Chain(k)' = Chain(k)
  BY DEF Chain
<1>3. \A x \in Threads : Routing(x)' = Routing(x)
  BY DEF Routing
<1>4. Types' /\ Windows' /\ Reached' /\ NeverEarly'
  BY <1>1 DEF IInv, Types, Windows, Reached, NeverEarly
<1>5. Sweepers'
  BY <1>1 DEF IInv, Sweepers
<1>6. Apart' /\ InTime'
  BY <1>1, <1>2, <1>3 DEF IInv, Apart, InTime, InSlot, InChain, InRoute
<1>7. \A t \in Timers : Somewhere(t)' <=> Somewhere(t)
  BY <1>1, <1>2, <1>3 DEF Somewhere, InSlot, InChain, InRoute
<1>8. Kept'
  BY <1>7 DEF IInv, Kept
<1> QED
  BY <1>4, <1>5, <1>6, <1>8 DEF IInv

\* The frames of the sleep carry nothing that the invariant speaks of.
LEMMA Rests ==
  ASSUME NEW f, NEW wheel, NEW cursor, NEW time, "at" \in DOMAIN f, f.at \in Resting
  PROVE  Sane(f, wheel, cursor, time)
  BY DEF Sane, Frame, Resting, Sweeping, Detaching

\* The steps around the sleep.
LEMMA SleepStep ==
  ASSUME IInv, NEW l \in Loops, sleepStep(l)
  PROVE  IInv'
<1> USE DEF At, Go, Wheel, Sleep
<1>1. DOMAIN th = Loops /\ Sane(th[l], slots, timerCloseCursor, clock) /\ clock \in Nat
  BY DEF IInv, Types, Sweepers
<1>2. "at" \in DOMAIN th[l]
  BY <1>1, Zenon DEF Sane, Frame
<1>3. CASE publishEternal(l) \/ readFrom(l) \/ snapshotBefore(l) \/ commitSleep(l) \/ wakes(l)
  <2>1. DOMAIN th' = Loops /\ (\A k \in Loops \ {l} : th'[k] = th[k]) /\ "at" \in DOMAIN th'[l] /\ th'[l].at \in Resting
    BY <1>1, <1>3 DEF publishEternal, readFrom, snapshotBefore, commitSleep, wakes, Decided, Scanning, Resting
  <2>2. Chain(l)' = Chain(l)
    BY <1>3, <2>1 DEF Chain, Resting, publishEternal, readFrom, snapshotBefore, commitSleep, wakes
  <2> QED
    BY <1>3, <2>1, <2>2, Rests, SweeperMoves, Zenon
    DEF publishEternal, readFrom, snapshotBefore, commitSleep, wakes
<1>4. CASE timerWheelNearestWake(l) \/ snapshotAfter(l)
  <2>1. DOMAIN th' = Loops /\ (\A k \in Loops \ {l} : th'[k] = th[k]) /\ "at" \in DOMAIN th'[l] /\ th'[l].at \in Resting
    <3>1. CASE snapshotAfter(l)
      BY <1>1, <3>1 DEF snapshotAfter, Decided, Scanning, Resting
    <3>2. CASE timerWheelNearestWake(l)
      <4>1. th[l].at = "scan"
        BY <3>2 DEF timerWheelNearestWake
      <4>2. \A best : "at" \in DOMAIN Scanned(th[l], best) /\ Scanned(th[l], best).at \in {"scan", "after"}
        BY <1>2, <4>1 DEF Scanned
      <4>3. \/ \E n : th' = [th EXCEPT ![l] = [th[l] EXCEPT !.passed = n]]
            \/ \E best : th' = [th EXCEPT ![l] = Scanned(th[l], best)]
        BY <3>2, Zenon DEF timerWheelNearestWake
      <4> QED
        BY <1>1, <1>2, <4>1, <4>2, <4>3, Zenon DEF Resting
    <3> QED
      BY <1>4, <3>1, <3>2
  <2>2. Chain(l)' = Chain(l)
    BY <1>4, <2>1, Zenon DEF Chain, Resting, timerWheelNearestWake, snapshotAfter
  <2> QED
    BY <1>4, <2>1, <2>2, Rests, SweeperMoves DEF timerWheelNearestWake, snapshotAfter
<1>5. CASE timerLoopCancelSleep(l)
  <2>1. DOMAIN th' = Loops /\ (\A k \in Loops \ {l} : th'[k] = th[k]) /\ th'[l] = [at |-> "sweep", now |-> clock]
    BY <1>1, <1>5, Zenon DEF timerLoopCancelSleep
  <2>2. Sane(th'[l], slots, timerCloseCursor, clock)
    BY <1>1, <2>1 DEF Sane, Frame, Resting, Sweeping, Detaching
  <2>3. Chain(l)' = Chain(l)
    BY <1>5, <2>1, Zenon DEF Chain, timerLoopCancelSleep
  <2> QED
    BY <1>5, <2>1, <2>2, <2>3, SweeperMoves, ZenonT(30) DEF timerLoopCancelSleep
<1> QED
  BY <1>3, <1>4, <1>5 DEF sleepStep

\* The level after the one that was visited, or the confirmation.
LEMMA VisitedSane ==
  ASSUME NEW l \in Loops, NEW wheel, NEW cursor, NEW time,
         Sane(th[l], wheel, cursor, time), th[l].at \in {"close", "process"}
  PROVE  Sane(Visited(l), wheel, cursor, time) /\ Visited(l).at \in {"visit", "confirm"}
<1> DEFINE f == th[l]
           g == Visited(l)
<1>1. f.now \in Nat /\ f.tick \in Nat /\ f.level \in Level /\ f.at \in Sweeping
  BY DEF Sane, Frame, Sweeping
<1>2. f.level \in Nat /\ (f.level > 0 => f.level - 1 \in Level)
  BY <1>1, WheelAssumption DEF Level
<1>3. g = IF f.level > 0 THEN [at |-> "visit", now |-> f.now, tick |-> f.tick, level |-> f.level - 1]
          ELSE [at |-> "confirm", now |-> f.now, tick |-> f.tick, level |-> f.level]
  BY DEF Visited, VisitFrame
<1>4. g \in [at : {"visit", "confirm"}, now : Nat, tick : Nat, level : Level] /\ g.tick = f.tick /\ g.now = f.now
  BY <1>1, <1>2, <1>3
<1>5. \A v \in Level : Done(g, v) => Done(f, v)
  <2> SUFFICES ASSUME NEW v \in Level, Done(g, v) PROVE v >= f.level
    BY <1>2 DEF Done, Level
  <2> QED
    BY <1>2, <1>3 DEF Done, Level
<1>6. Frame(g) /\ g.at \in Sweeping /\ g.at \notin Detaching
  BY <1>4, SMTT(30) DEF Frame, Sweeping, Detaching, Resting
<1> HIDE DEF g
<1>7. Sane(g, wheel, cursor, time)
  BY <1>1, <1>4, <1>5, <1>6 DEF Sane
<1> QED
  BY <1>4, <1>7 DEF g
-----------------------------------------------------------------------------
\* The steps of a sweep that leave wheel and cursor alone.
LEMMA LookStep ==
  ASSUME IInv, NEW l \in Loops,
         \/ processTimeoutQueue(l) \/ timerWheelSweepTick(l) \/ timerWheelDetach(l)
         \/ timerWheelClearOccupied(l) \/ timerWheelDetached(l)
  PROVE  IInv'
<1> USE DEF At, Go, Wheel, Sleep
<1>1. /\ DOMAIN th = Loops /\ Sane(th[l], slots, timerCloseCursor, clock) /\ clock \in Nat
      /\ timerCloseCursor \in Nat /\ slots \in [Slot -> Pair] /\ timerCloseCursor <= clock
  BY SMTT(30) DEF IInv, Types, Sweepers
<1>2. CASE processTimeoutQueue(l)
  <2>1. DOMAIN th' = Loops /\ \A k \in Loops \ {l} : th'[k] = th[k]
    BY <1>1, <1>2, Zenon DEF processTimeoutQueue
  <2>2. th[l].now \in Nat /\ th[l].now <= clock /\ th[l].at = "sweep"
    BY <1>1, <1>2, SMTT(30) DEF processTimeoutQueue, Sane, Frame
  <2>3. Sane(th'[l], slots, timerCloseCursor, clock) /\ th'[l].at \in {"top", "visit"}
    <3>1. CASE timerCloseCursor >= th[l].now
      <4>1. th'[l] = [at |-> "top"]
        BY <1>1, <1>2, <3>1, SMTT(30) DEF processTimeoutQueue
      <4> QED
        BY <4>1, Rests DEF Resting
    <3>2. CASE ~(timerCloseCursor >= th[l].now)
      <4> DEFINE f == [at |-> "visit", now |-> th[l].now, tick |-> timerCloseCursor, level |-> LEVELS - 1]
      <4>1. th'[l] = f
        BY <1>1, <1>2, <3>2 DEF processTimeoutQueue
      <4>2. LEVELS - 1 \in Level /\ \A v \in Level : ~(v > LEVELS - 1)
        BY WheelAssumption DEF Level
      <4>3. \A v \in Level : ~Done(f, v)
        BY <4>2, Zenon DEF Done
      <4>4. Frame(f) /\ f.at = "visit" /\ f.tick = timerCloseCursor /\ f.now = th[l].now
        BY <1>1, <2>2, <4>2, Zenon DEF Frame, Sweeping, Detaching, Resting
      <4> HIDE DEF f
      <4>5. Sane(f, slots, timerCloseCursor, clock)
        BY <1>1, <2>2, <3>2, <4>3, <4>4, SMTT(30) DEF Sane, Sweeping, Detaching
      <4> QED
        BY <4>1, <4>4, <4>5
    <3> QED
      BY <3>1, <3>2
  <2>4. Chain(l)' = Chain(l)
    BY <2>2, <2>3 DEF Chain
  <2> QED
    BY <1>2, <2>1, <2>3, <2>4, SweeperMoves DEF processTimeoutQueue
<1>3. CASE timerWheelSweepTick(l)
  <2> DEFINE f == th[l]
  <2>1. DOMAIN th' = Loops /\ \A k \in Loops \ {l} : th'[k] = th[k]
    BY <1>1, <1>3 DEF timerWheelSweepTick
  <2>2. /\ f.at = "visit" /\ f \in [at : {"visit", "confirm"}, now : Nat, tick : Nat, level : Level]
        /\ f.tick < f.now /\ f.now <= clock /\ f.tick <= timerCloseCursor
        /\ \A v \in Level : Done(f, v) /\ Align(f.tick, v) = f.tick => slots[SlotOf(f.tick, v)].base > f.tick
    BY <1>1, <1>3 DEF timerWheelSweepTick, Sane, Frame, Sweeping
  <2>3. CASE Align(f.tick, f.level) = f.tick
    <3> DEFINE g == DetachFrame(l, "detach", slots[Place(l)], FALSE)
    <3>1. th'[l] = g
      BY <1>1, <1>3, <2>3, Zenon DEF timerWheelSweepTick
    <3>2. Place(l) = SlotOf(f.tick, f.level) /\ Place(l) \in Slot
      BY <2>2, Aligned DEF Place
    <3>3. slots[Place(l)] \in Pair /\ slots[Place(l)].base \in Nat
      BY <1>1, <3>2 DEF Pair
    <3>4. g = [at |-> "detach", now |-> f.now, tick |-> f.tick, level |-> f.level, seen |-> slots[Place(l)], opened |-> FALSE]
      BY Zenon DEF DetachFrame
    <3> HIDE DEF g
    <3>5. Frame(g) /\ g.at = "detach"
      BY <2>2, <3>3, <3>4 DEF Frame, Sweeping, Detaching, Resting
    <3>6. g.tick = f.tick /\ g.now = f.now /\ g.level = f.level /\ g.seen = slots[Place(l)]
      BY <3>4
    <3>7. \A v \in Level : Done(g, v) => Done(f, v)
      BY <2>2, <3>5, <3>6, SMTT(30) DEF Done
    <3>8. Sane(g, slots, timerCloseCursor, clock)
      BY <2>2, <2>3, <3>2, <3>3, <3>5, <3>6, <3>7, SMTT(30) DEF Sane, Sweeping, Detaching
    <3>9. Chain(l)' = Chain(l)
      BY <2>2, <3>1, <3>5 DEF Chain
    <3> QED
      BY <1>3, <2>1, <3>1, <3>8, <3>9, SweeperMoves, Zenon DEF timerWheelSweepTick
  <2>4. CASE Align(f.tick, f.level) # f.tick
    <3> DEFINE g == [f EXCEPT !.level = @ - 1]
    <3>1. th'[l] = g
      BY <1>1, <1>3, <2>4, Zenon DEF timerWheelSweepTick
    <3>2. f.level # 0
      <4>1. Align(f.tick, 0) = f.tick
        BY <2>2, Widths, DivOfProduct DEF Align
      <4> QED
        BY <2>4, <4>1
    <3>3. f.level \in Nat /\ f.level - 1 \in Level
      BY <2>2, <3>2, WheelAssumption DEF Level
    <3>4. g = [at |-> "visit", now |-> f.now, tick |-> f.tick, level |-> f.level - 1]
      BY <2>2
    <3>5. Frame(g) /\ g.at = "visit" /\ g.tick = f.tick /\ g.now = f.now /\ g.level = f.level - 1
      BY <2>2, <3>3, <3>4, SMTT(30) DEF Frame, Sweeping, Detaching, Resting
    <3> HIDE DEF g
    <3>6. \A v \in Level : Done(g, v) /\ Align(f.tick, v) = f.tick => Done(f, v)
      BY <2>2, <2>4, <3>3, <3>5 DEF Done, Level
    <3>7. Sane(g, slots, timerCloseCursor, clock)
      BY <2>2, <3>5, <3>6, Zenon DEF Sane, Sweeping, Detaching
    <3>8. Chain(l)' = Chain(l)
      BY <2>2, <3>1, <3>5 DEF Chain
    <3> QED
      BY <1>3, <2>1, <3>1, <3>7, <3>8, SweeperMoves, Zenon DEF timerWheelSweepTick
  <2> QED
    BY <2>3, <2>4
<1>4. CASE timerWheelDetach(l) \/ timerWheelClearOccupied(l)
  <2> DEFINE f == th[l]
             g == th'[l]
  <2>1. DOMAIN th' = Loops /\ \A k \in Loops \ {l} : th'[k] = th[k]
    BY <1>1, <1>4 DEF timerWheelDetach, timerWheelClearOccupied
  <2>2. f.at \in Detaching
    BY <1>4, Zenon DEF timerWheelDetach, timerWheelClearOccupied, Detaching
  <2>3. /\ f \in [at : Detaching, now : Nat, tick : Nat, level : Level, seen : Pair, opened : BOOLEAN]
        /\ f.tick < f.now /\ f.now <= clock /\ f.tick <= timerCloseCursor
        /\ \A v \in Level : Done(f, v) /\ Align(f.tick, v) = f.tick => slots[SlotOf(f.tick, v)].base > f.tick
        /\ Align(f.tick, f.level) = f.tick /\ f.seen.base <= slots[SlotOf(f.tick, f.level)].base
        /\ f.at # "detach" => f.seen.base <= f.tick
    BY <1>1, <2>2, ZenonT(30) DEF Sane, Frame, Sweeping
  <2>4. SlotOf(f.tick, f.level) \in Slot /\ f.seen.base \in Nat /\ slots[SlotOf(f.tick, f.level)].base \in Nat
    BY <1>1, <2>3, Aligned, ZenonT(30) DEF Pair
  <2>5. CASE timerWheelDetach(l) /\ f.seen.base > f.tick
    <3>1. g = [at |-> "close", now |-> f.now, tick |-> f.tick, level |-> f.level, opened |-> f.opened, chain |-> {}]
      <4>1. th' = [th EXCEPT ![l] = Close(l, {})]
        BY <2>3, <2>4, <2>5, SMTT(30) DEF timerWheelDetach
      <4> QED
        BY <1>1, <4>1 DEF Close
    <3> HIDE DEF g
    <3>2. Frame(g) /\ g.at = "close" /\ g.chain = {}
      <4>1. f.now \in Nat /\ f.tick \in Nat /\ f.level \in Level /\ f.opened \in BOOLEAN
        BY <2>3, Zenon
      <4>2. g \in [at : {"close"}, now : Nat, tick : Nat, level : Level, opened : BOOLEAN, chain : SUBSET Timers]
        BY <3>1, <4>1
      <4>3. g.at = "close" /\ g.chain = {}
        BY <3>1, Zenon
      <4> QED
        BY <4>2, <4>3, ZenonT(30) DEF Frame, Sweeping, Detaching, Resting
    <3>3. g.tick = f.tick /\ g.now = f.now /\ g.level = f.level
      BY <3>1, SMTT(30)
    <3>4. \A v \in Level : Done(g, v) => Done(f, v) \/ v = f.level
      BY <3>2, <3>3, SMTT(30) DEF Done
    <3>5. slots[SlotOf(f.tick, f.level)].base > f.tick
      BY <2>3, <2>4, <2>5, SMTT(30)
    <3>6. Sane(g, slots, timerCloseCursor, clock)
      BY <2>3, <3>2, <3>3, <3>4, <3>5, ZenonT(30) DEF Sane, Sweeping, Detaching
    <3>7. Chain(l)' = Chain(l)
      BY <2>2, <3>2 DEF Chain, Detaching, g
    <3> QED
      BY <1>4, <2>1, <3>6, <3>7, SweeperMoves DEF timerWheelDetach, timerWheelClearOccupied, g
  <2>6. CASE ~(timerWheelDetach(l) /\ f.seen.base > f.tick)
    <3>1. f.seen.base <= f.tick
      BY <1>4, <2>3, <2>4, <2>6 DEF timerWheelClearOccupied
    <3>2. \E pc \in {"clear", "drain"}, opened \in BOOLEAN : th' = [th EXCEPT ![l] = [f EXCEPT !.at = pc, !.opened = opened]]
      <4>1. CASE timerWheelClearOccupied(l)
        <5>1. [f EXCEPT !.at = "drain"] = [f EXCEPT !.at = "drain", !.opened = f.opened] /\ f.opened \in BOOLEAN
          BY <2>3, Zenon
        <5> QED
          BY <4>1, <5>1, Zenon DEF timerWheelClearOccupied
      <4>2. CASE timerWheelDetach(l)
        <5>1. /\ [f EXCEPT !.at = "drain"] = [f EXCEPT !.at = "drain", !.opened = f.opened] /\ f.opened \in BOOLEAN
              /\ [f EXCEPT !.at = "clear"] = [f EXCEPT !.at = "clear", !.opened = f.opened]
          BY <2>3, Zenon
        <5>2. \/ th' = [th EXCEPT ![l] = [f EXCEPT !.at = "drain"]]
              \/ th' = [th EXCEPT ![l] = [f EXCEPT !.at = "clear"]]
              \/ th' = [th EXCEPT ![l] = [f EXCEPT !.at = "clear", !.opened = TRUE]]
          BY <4>2, <2>6 DEF timerWheelDetach
        <5> QED
          BY <5>1, <5>2, Zenon
      <4> QED
        BY <1>4, <4>1, <4>2, Zenon
    <3>3. PICK pc \in {"clear", "drain"}, opened \in BOOLEAN : g = [f EXCEPT !.at = pc, !.opened = opened]
      BY <1>1, <3>2, Zenon
    <3>4. g = [at |-> pc, now |-> f.now, tick |-> f.tick, level |-> f.level, seen |-> f.seen, opened |-> opened]
      BY <2>3, <3>3, Zenon
    <3> HIDE DEF g
    <3>5. Frame(g) /\ g.at \in {"clear", "drain"}
      BY <2>3, <3>4 DEF Frame, Sweeping, Detaching, Resting
    <3>6. g.tick = f.tick /\ g.now = f.now /\ g.level = f.level /\ g.seen = f.seen
      BY <3>4, Zenon
    <3>7. \A v \in Level : Done(g, v) => Done(f, v)
      BY <3>5, <3>6 DEF Done
    <3>8. Sane(g, slots, timerCloseCursor, clock)
      BY <2>3, <3>1, <3>5, <3>6, <3>7, ZenonT(30) DEF Sane, Sweeping, Detaching
    <3>9. Chain(l)' = Chain(l)
      BY <2>2, <3>5 DEF Chain, Detaching, g
    <3> QED
      BY <1>4, <2>1, <3>8, <3>9, SweeperMoves DEF timerWheelDetach, timerWheelClearOccupied, g
  <2> QED
    BY <2>5, <2>6
<1>5. CASE timerWheelDetached(l)
  <2> DEFINE f == th[l]
  <2>1. DOMAIN th' = Loops /\ \A k \in Loops \ {l} : th'[k] = th[k]
    BY <1>1, <1>5, Zenon DEF timerWheelDetached
  <2>2. f.at = "close"
    BY <1>5, Zenon DEF timerWheelDetached
  <2>3. CASE f.chain = {}
    <3>1. th'[l] = Visited(l)
      BY <1>1, <1>5, <2>3, Zenon DEF timerWheelDetached
    <3>2. Sane(th'[l], slots, timerCloseCursor, clock) /\ th'[l].at \in {"visit", "confirm"}
      BY <1>1, <2>2, <3>1, VisitedSane, Zenon
    <3>3. Chain(l)' = Chain(l)
      BY <2>2, <2>3, <3>2, Zenon DEF Chain
    <3> QED
      BY <1>5, <2>1, <3>2, <3>3, SweeperMoves, Zenon DEF timerWheelDetached
  <2>4. CASE f.chain # {}
    <3> DEFINE g == [at |-> "process", now |-> f.now, tick |-> f.tick, level |-> f.level, chain |-> f.chain]
    <3>1. th'[l] = g
      BY <1>1, <1>5, <2>4, Zenon DEF timerWheelDetached
    <3>2. f \in [at : {"close"}, now : Nat, tick : Nat, level : Level, opened : BOOLEAN, chain : SUBSET Timers]
      BY <1>1, <2>2, Zenon DEF Sane, Frame
    <3>3. Frame(g) /\ g.at = "process" /\ g.tick = f.tick /\ g.now = f.now /\ g.level = f.level /\ g.chain = f.chain
      BY <3>2 DEF Frame, Sweeping, Detaching, Resting
    <3> HIDE DEF g
    <3>4. \A v \in Level : Done(g, v) => Done(f, v)
      BY <2>2, <3>3, Zenon DEF Done
    <3>5. Sane(g, slots, timerCloseCursor, clock)
      BY <1>1, <2>2, <3>3, <3>4, Zenon DEF Sane, Sweeping, Detaching
    <3>6. Chain(l)' = Chain(l)
      BY <2>2, <3>1, <3>3 DEF Chain
    <3> QED
      BY <1>5, <2>1, <3>1, <3>5, <3>6, SweeperMoves, Zenon DEF timerWheelDetached
  <2> QED
    BY <2>3, <2>4
<1> QED
  BY <1>2, <1>3, <1>4, <1>5
=============================================================================
