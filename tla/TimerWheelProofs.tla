-------------------------- MODULE TimerWheelProofs --------------------------
(***************************************************************************)
(* The timer wheel is never early and holds every timer once, for any      *)
(* number of slots, levels, loop threads and timers.                       *)
(***************************************************************************)
EXTENDS TimerWheelInvariant

\* The pair CAS: the chain of the window passes to the sweeper and the slot is
\* reopened, or the sweeper looks again.
LEMMA DrainStep ==
  ASSUME IInv, NEW l \in Loops, timerWheelDrain(l)
  PROVE  IInv'
<1> USE DEF At, Go, Sleep
<1> DEFINE f == th[l]
           place == SlotOf(f.tick, f.level)
           p == timerWheelPeriod(f.level)
<1>1. /\ DOMAIN th = Loops /\ Sane(f, slots, timerCloseCursor, clock) /\ clock \in Nat
      /\ timerCloseCursor \in Nat /\ slots \in [Slot -> Pair] /\ timerCloseCursor <= clock
  BY DEF IInv, Types, Sweepers
<1>2. f.at = "drain"
  BY DEF timerWheelDrain
<1>3. /\ f \in [at : Detaching, now : Nat, tick : Nat, level : Level, seen : Pair, opened : BOOLEAN]
      /\ f.tick < f.now /\ f.now <= clock /\ f.tick <= timerCloseCursor
      /\ \A v \in Level : Done(f, v) /\ Align(f.tick, v) = f.tick => slots[SlotOf(f.tick, v)].base > f.tick
      /\ Align(f.tick, f.level) = f.tick /\ f.seen.base <= slots[place].base
      /\ f.seen.base <= f.tick
  BY <1>1, <1>2 DEF Sane, Frame, Sweeping, Detaching
<1>4. /\ place \in Slot /\ place[1] = f.level /\ slots[place] \in Pair /\ slots[place].base \in Nat
      /\ f.seen \in Pair /\ f.seen.base \in Nat /\ f.seen.chain \in SUBSET Timers /\ p \in Nat \ {0}
  BY <1>1, <1>3, Aligned, Widths DEF Pair
<1>5. Loops' = Loops /\ Threads' = Threads /\ UNCHANGED <<loopThreadLimit, timerCloseCursor, clock, op, deadline, ins>>
  BY DEF timerWheelDrain, Loops, Threads
<1>6. CASE slots[place] # f.seen
  <2> DEFINE g == [f EXCEPT !.at = "detach", !.seen = slots[place]]
  <2>1. th' = [th EXCEPT ![l] = g] /\ UNCHANGED slots
    BY <1>6 DEF timerWheelDrain, Place
  <2>2. /\ g \in [at : Detaching, now : Nat, tick : Nat, level : Level, seen : Pair, opened : BOOLEAN]
        /\ g.at = "detach" /\ g.tick = f.tick /\ g.now = f.now /\ g.level = f.level /\ g.seen = slots[place]
    <3>1. ASSUME NEW h \in [at : Detaching, now : Nat, tick : Nat, level : Level, seen : Pair, opened : BOOLEAN], NEW z \in Pair
          PROVE  LET e == [h EXCEPT !.at = "detach", !.seen = z]
                 IN  /\ e \in [at : Detaching, now : Nat, tick : Nat, level : Level, seen : Pair, opened : BOOLEAN]
                     /\ e.at = "detach" /\ e.tick = h.tick /\ e.now = h.now /\ e.level = h.level /\ e.seen = z
      BY Zenon DEF Detaching
    <3> QED
      BY <1>3, <1>4, <3>1, Zenon
  <2> HIDE DEF g
  <2>3. DOMAIN th' = Loops /\ th'[l] = g /\ \A k \in Loops \ {l} : th'[k] = th[k]
    BY <1>1, <2>1
  <2>4. Frame(g) /\ g.at = "detach"
    BY <1>3, <1>4, <2>2 DEF Frame, Sweeping, Detaching, Resting
  <2>5. g.tick = f.tick /\ g.now = f.now /\ g.level = f.level /\ g.seen = slots[place]
    BY <2>2
  <2>6. \A v \in Level : Done(g, v) => Done(f, v)
    BY <2>4, <2>5 DEF Done
  <2>7. Sane(g, slots, timerCloseCursor, clock)
    BY <1>3, <1>4, <2>4, <2>5, <2>6 DEF Sane, Sweeping, Detaching
  <2>8. Chain(l)' = Chain(l)
    BY <1>2, <2>3, <2>4 DEF Chain
  <2> QED
    BY <1>5, <2>1, <2>3, <2>7, <2>8, SweeperMoves
<1>7. CASE slots[place] = f.seen
  <2> DEFINE g == [at |-> "close", now |-> f.now, tick |-> f.tick, level |-> f.level, opened |-> f.opened, chain |-> f.seen.chain]
  <2>1. th' = [th EXCEPT ![l] = g] /\ slots' = [slots EXCEPT ![place] = [base |-> f.tick + p, chain |-> {}]]
    BY <1>7 DEF timerWheelDrain, Place, Close, Reopened
  <2>2. DOMAIN th' = Loops /\ th'[l] = g /\ \A k \in Loops \ {l} : th'[k] = th[k]
    BY <1>1, <2>1
  <2>3. /\ slots' \in [Slot -> Pair]
        /\ slots'[place].base = f.tick + p /\ slots'[place].chain = {}
        /\ \A s \in Slot \ {place} : slots'[s] = slots[s]
    BY <1>1, <1>3, <1>4, <2>1 DEF Pair
  <2>4. slots[place].base = f.tick /\ timerCloseCursor = f.tick
    BY <1>1, <1>3, <1>4, <1>7 DEF IInv, Windows, Window
  <2>5. \A s \in Slot : slots[s].base <= slots'[s].base
    BY <1>1, <1>3, <1>4, <2>3, <2>4 DEF Pair
  <2>6. Frame(g) /\ g.at = "close" /\ g.tick = f.tick /\ g.now = f.now /\ g.level = f.level /\ g.chain = f.seen.chain
    BY <1>3, <1>4 DEF Frame, Sweeping, Detaching, Resting
  <2> HIDE DEF g
  <2>7. Types'
    BY <1>1, <1>5, <2>2, <2>3 DEF IInv, Types
  <2>8. Windows'
    <3>1. Window(place, f.tick + p, timerCloseCursor, clock)
      <4>1. Align(f.tick + p, f.level) = f.tick + p /\ SlotOf(f.tick + p, f.level) = place
        BY <1>3, Rotation
      <4> QED
        BY <1>1, <1>3, <1>4, <2>4, <4>1 DEF Window
    <3> QED
      BY <1>5, <2>3, <3>1 DEF IInv, Windows
  <2>9. Sweepers'
    <3>1. Sane(f, slots', timerCloseCursor, clock)
      BY <1>1, <2>3, <2>5, SaneLater
    <3>2. \A v \in Level : Done(g, v) => Done(f, v) \/ v = f.level
      BY <2>6 DEF Done
    <3>3. slots'[place].base > f.tick
      BY <1>3, <1>4, <2>3
    <3>4. Sane(g, slots', timerCloseCursor, clock)
      BY <1>2, <2>6, <3>1, <3>2, <3>3 DEF Sane, Sweeping, Detaching
    <3> QED
      BY <1>1, <1>5, <2>2, <2>3, <2>5, <3>4, SaneLater DEF IInv, Sweepers
  <2>10. Reached' /\ NeverEarly'
    BY <1>5 DEF IInv, Reached, NeverEarly
  <2>11. \A u \in Timers, s \in Slot : InSlot(u, s)' <=> InSlot(u, s) /\ s # place
    BY <1>4, <2>3 DEF InSlot
  <2>12. \A u \in Timers, k \in Loops : InChain(u, k)' <=> IF k = l THEN InSlot(u, place) ELSE InChain(u, k)
    BY <1>7, <2>2, <2>6 DEF InChain, InSlot, Chain
  <2>13. \A u \in Timers : ~InChain(u, l)
    BY <1>2 DEF InChain, Chain
  <2>14. \A u \in Timers, x \in Threads : InRoute(u, x)' <=> InRoute(u, x)
    BY <1>5 DEF InRoute, Routing
  <2>15. Apart'
    BY <1>4, <1>5, <2>11, <2>12, <2>14 DEF IInv, Apart
  <2>16. \A u \in Timers : Somewhere(u)' <=> Somewhere(u)
    BY <1>4, <1>5, <2>11, <2>12, <2>13, <2>14 DEF Somewhere
  <2>17. Kept'
    BY <1>5, <2>16 DEF IInv, Kept
  <2>18. InTime'
    BY <1>5, <2>3, <2>11 DEF IInv, InTime
  <2> QED
    BY <2>7, <2>8, <2>9, <2>10, <2>15, <2>17, <2>18 DEF IInv
<1> QED
  BY <1>6, <1>7

\* A timer leaves the chain of its sweeper: dropped, due, or into a call of insert.
LEMMA ProcessStep ==
  ASSUME IInv, NEW l \in Loops, timerWheelProcessDetached(l)
  PROVE  IInv'
<1> USE DEF At, Go, Wheel, Sleep
<1> DEFINE f == th[l]
<1>1. /\ DOMAIN th = Loops /\ Sane(f, slots, timerCloseCursor, clock) /\ clock \in Nat /\ DOMAIN ins = Threads
      /\ timerCloseCursor \in Nat /\ slots \in [Slot -> Pair] /\ timerCloseCursor <= clock
  BY DEF IInv, Types, Sweepers
<1>2. f.at = "process" /\ ins[l] = NoInsert /\ l \in Threads
  BY DEF timerWheelProcessDetached, Threads
<1>3. /\ f \in [at : {"process"}, now : Nat, tick : Nat, level : Level, chain : SUBSET Timers]
      /\ f.tick < f.now /\ f.now <= clock /\ f.tick <= timerCloseCursor
  BY <1>1, <1>2 DEF Sane, Frame, Sweeping
<1>4. Loops' = Loops /\ Threads' = Threads /\ UNCHANGED <<loopThreadLimit, slots, timerCloseCursor, clock, deadline>>
  BY DEF timerWheelProcessDetached, Loops, Threads
<1>5. PICK t \in f.chain :
        /\ th' = [th EXCEPT ![l] = IF f.chain = {t} THEN Visited(l) ELSE [f EXCEPT !.chain = @ \ {t}]]
        /\ \/ op[t] # "pending" /\ UNCHANGED <<op, ins>>
           \/ /\ op[t] = "pending"
              /\ ins' = [ins EXCEPT ![l] = [at |-> "route", link |-> t, cursor |-> f.tick]]
              /\ UNCHANGED op
           \/ op[t] = "pending" /\ deadline[t] <= f.tick /\ Expire(t) /\ UNCHANGED ins
  BY Zenon DEF timerWheelProcessDetached
<1>6. DOMAIN th' = Loops /\ \A k \in Loops \ {l} : th'[k] = th[k]
  BY <1>1, <1>5
<1>7. Sane(th'[l], slots, timerCloseCursor, clock) /\ Chain(l)' = f.chain \ {t}
  <2>1. CASE f.chain = {t}
    <3>1. th'[l] = Visited(l)
      BY <1>1, <1>5, <2>1
    <3>2. Sane(th'[l], slots, timerCloseCursor, clock) /\ th'[l].at \in {"visit", "confirm"}
      BY <1>1, <1>2, <3>1, VisitedSane
    <3> QED
      BY <2>1, <3>2 DEF Chain
  <2>2. CASE f.chain # {t}
    <3> DEFINE g == [f EXCEPT !.chain = @ \ {t}]
    <3>1. th'[l] = g
      BY <1>1, <1>5, <2>2
    <3>2. g = [at |-> "process", now |-> f.now, tick |-> f.tick, level |-> f.level, chain |-> f.chain \ {t}]
      BY <1>3
    <3> HIDE DEF g
    <3>3. Frame(g) /\ g.at = "process" /\ g.tick = f.tick /\ g.now = f.now /\ g.level = f.level /\ g.chain = f.chain \ {t}
      BY <1>3, <3>2 DEF Frame, Sweeping, Detaching, Resting
    <3>4. \A v \in Level : Done(g, v) => Done(f, v)
      BY <1>2, <3>3 DEF Done
    <3>5. Sane(g, slots, timerCloseCursor, clock)
      BY <1>1, <1>2, <3>3, <3>4 DEF Sane, Sweeping, Detaching
    <3> QED
      BY <3>1, <3>3, <3>5 DEF Chain
  <2> QED
    BY <2>1, <2>2
<1>8. Sweepers' /\ Windows'
  BY <1>4, <1>6, <1>7 DEF IInv, Sweepers, Windows
<1>9. t \in Timers /\ InChain(t, l)
  BY <1>2, <1>3 DEF InChain, Chain
<1>10. /\ \A s \in Slot : ~InSlot(t, s)
       /\ \A x \in Threads : ~InRoute(t, x)
       /\ \A k \in Loops : InChain(t, k) => k = l
       /\ op[t] # "idle"
  BY <1>9 DEF IInv, Apart, Kept, Somewhere
<1>11. \A u \in Timers, k \in Loops : InChain(u, k)' <=> InChain(u, k) /\ ~(k = l /\ u = t)
  BY <1>2, <1>6, <1>7 DEF InChain, Chain
<1>12. \A u \in Timers, s \in Slot : InSlot(u, s)' <=> InSlot(u, s)
  BY <1>4 DEF InSlot
<1>13. InTime'
  BY <1>4, <1>12 DEF IInv, InTime
<1>14. CASE /\ UNCHANGED ins
            /\ \/ op[t] # "pending" /\ UNCHANGED op
               \/ op[t] = "pending" /\ deadline[t] <= f.tick /\ Expire(t)
  <2>1. /\ op' \in [Timers -> {"idle", "pending", "finished", "timedout"}]
        /\ \A u \in Timers \ {t} : op'[u] = op[u]
        /\ op'[t] \notin {"pending", "idle"}
        /\ op'[t] = "timedout" => op[t] = "timedout" \/ deadline[t] <= f.tick
    BY <1>9, <1>10, <1>14 DEF IInv, Types, Expire
  <2>2. Types' /\ Reached'
    BY <1>4, <1>6, <1>14, <2>1 DEF IInv, Types, Reached
  <2>3. \A u \in Timers, x \in Threads : InRoute(u, x)' <=> InRoute(u, x)
    BY <1>14, Zenon DEF InRoute, Routing
  <2>4. Apart'
    BY <1>4, <1>11, <1>12, <2>3 DEF IInv, Apart
  <2>5. \A u \in Timers \ {t} : Somewhere(u)' <=> Somewhere(u)
    BY <1>4, <1>11, <1>12, <2>3 DEF Somewhere
  <2>6. Kept'
    BY <1>14, <2>1, <2>5 DEF IInv, Kept
  <2>7. NeverEarly'
    <3>1. \A u \in Timers : deadline[u] \in Nat
      BY DEF IInv, Types
    <3> QED
      BY <1>1, <1>3, <1>4, <2>1, <3>1 DEF IInv, NeverEarly
  <2> QED
    BY <1>8, <1>13, <2>2, <2>4, <2>6, <2>7 DEF IInv
<1>15. CASE op[t] = "pending" /\ ins' = [ins EXCEPT ![l] = [at |-> "route", link |-> t, cursor |-> f.tick]] /\ UNCHANGED op
  <2>1. /\ DOMAIN ins' = Threads /\ ins'[l] = [at |-> "route", link |-> t, cursor |-> f.tick]
        /\ \A x \in Threads \ {l} : ins'[x] = ins[x]
    BY <1>1, <1>2, <1>15
  <2>2. ins'[l] \in Inserting /\ "at" \in DOMAIN ins'[l]
    BY <1>3, <1>9, <2>1 DEF Inserting
  <2>3. Types'
    BY <1>4, <1>6, <1>15, <2>1, <2>2, SMTT(30) DEF IInv, Types
  <2>4. Reached' /\ NeverEarly'
    BY <1>3, <1>4, <1>15, <2>1 DEF IInv, Reached, NeverEarly
  <2>5. \A u \in Timers : ~InRoute(u, l)
    BY <1>2 DEF InRoute, Routing, NoInsert
  <2>6. \A u \in Timers, x \in Threads : InRoute(u, x)' <=> InRoute(u, x) \/ (x = l /\ u = t)
    BY <1>2, <2>1, <2>5, SMTT(30) DEF InRoute, Routing
  <2>7. Apart'
    BY <1>4, <1>10, <1>11, <1>12, <2>6 DEF IInv, Apart
  <2>8. Somewhere(t)' /\ \A u \in Timers \ {t} : Somewhere(u)' <=> Somewhere(u)
    <3>1. Somewhere(t)'
      BY <1>2, <1>4, <1>9, <2>6 DEF Somewhere
    <3>2. \A u \in Timers \ {t} : Somewhere(u)' <=> Somewhere(u)
      BY <1>4, <1>11, <1>12, <2>6, Zenon DEF Somewhere
    <3> QED
      BY <3>1, <3>2, SMTT(30)
  <2>9. Kept'
    <3>1. l \notin Timers
      BY WheelAssumption DEF IInv, Types, Loops
    <3>2. \A u \in Timers : ins'[u] = ins[u]
      BY <2>1, <3>1 DEF Threads
    <3> QED
      BY <1>10, <1>15, <2>8, <3>2, Zenon DEF IInv, Kept
  <2> QED
    BY <1>8, <1>13, <2>3, <2>4, <2>7, <2>9 DEF IInv
<1> QED
  BY <1>5, <1>14, <1>15

\* The confirmation moves the cursor: every window that starts at the tick is
\* reopened by then, so no slot is left behind.
LEMMA ConfirmStep ==
  ASSUME IInv, NEW l \in Loops, confirmTick(l)
  PROVE  IInv'
<1> USE DEF At, Go, Sleep
<1> DEFINE f == th[l]
           g == [at |-> "sweep", now |-> f.now]
<1>1. /\ DOMAIN th = Loops /\ Sane(f, slots, timerCloseCursor, clock) /\ clock \in Nat
      /\ timerCloseCursor \in Nat /\ slots \in [Slot -> Pair] /\ timerCloseCursor <= clock
  BY DEF IInv, Types, Sweepers
<1>2. f.at = "confirm"
  BY DEF confirmTick
<1>3. /\ f.now \in Nat /\ f.tick \in Nat /\ f.level \in Level
      /\ f.tick < f.now /\ f.now <= clock /\ f.tick <= timerCloseCursor
      /\ \A v \in Level : Align(f.tick, v) = f.tick => slots[SlotOf(f.tick, v)].base > f.tick
  BY <1>1, <1>2 DEF Sane, Frame, Sweeping, Done
<1>4. Loops' = Loops /\ Threads' = Threads /\ UNCHANGED <<loopThreadLimit, slots, clock, op, deadline, ins>>
  BY DEF confirmTick, Loops, Threads
<1>5. DOMAIN th' = Loops /\ th'[l] = g /\ \A k \in Loops \ {l} : th'[k] = th[k]
  BY <1>1 DEF confirmTick
<1>6. Frame(g) /\ g.at = "sweep" /\ g.now = f.now
  BY <1>3 DEF Frame, Sweeping, Detaching, Resting
<1> HIDE DEF g
<1>7. timerCloseCursor' \in Nat /\ timerCloseCursor <= timerCloseCursor' /\ timerCloseCursor' <= clock
  BY <1>1, <1>3 DEF confirmTick
<1>8. timerCloseCursor' = timerCloseCursor \/ (timerCloseCursor = f.tick /\ timerCloseCursor' = f.tick + 1)
  BY DEF confirmTick
<1>9. Types'
  BY <1>4, <1>5, <1>7 DEF IInv, Types
<1>10. Windows'
  <2>1. SUFFICES ASSUME NEW s \in Slot PROVE Window(s, slots[s].base, timerCloseCursor', clock)
    BY <1>4 DEF Windows
  <2>2. Window(s, slots[s].base, timerCloseCursor, clock) /\ slots[s].base \in Nat /\ s[1] \in Level
    BY <1>1 DEF IInv, Windows, Pair, Slot
  <2>3. timerWheelPeriod(s[1]) \in Nat
    BY <2>2, Widths
  <2>4. slots[s].base # f.tick
    BY <1>3, <2>2 DEF Window
  <2>5. timerCloseCursor' <= slots[s].base
    BY <1>1, <1>3, <1>8, <2>2, <2>4 DEF Window
  <2> QED
    BY <1>1, <1>7, <2>2, <2>3, <2>5 DEF Window
<1>11. Sweepers'
  <2>1. Sane(g, slots, timerCloseCursor', clock)
    BY <1>3, <1>6 DEF Sane, Sweeping, Detaching
  <2>2. \A k \in Loops \ {l} : Sane(th[k], slots, timerCloseCursor', clock)
    BY <1>1, <1>7, SaneLater DEF IInv, Sweepers, Pair
  <2> QED
    BY <1>4, <1>5, <2>1, <2>2 DEF Sweepers
<1>12. Reached'
  <2>1. \A x \in Threads : ins[x].at = "route" => ins[x].cursor \in Nat
    BY DEF IInv, Types, Inserting, NoInsert
  <2> QED
    BY <1>1, <1>4, <1>7, <2>1 DEF IInv, Reached
<1>13. \A u \in Timers, k \in Loops : InChain(u, k)' <=> InChain(u, k)
  BY <1>2, <1>5, <1>6 DEF InChain, Chain
<1>14. /\ \A u \in Timers, s \in Slot : InSlot(u, s)' <=> InSlot(u, s)
       /\ \A u \in Timers, x \in Threads : InRoute(u, x)' <=> InRoute(u, x)
  BY <1>4 DEF InSlot, InRoute, Routing
<1>15. Apart'
  BY <1>4, <1>13, <1>14, Zenon DEF IInv, Apart
<1>16. Kept'
  BY <1>4, <1>13, <1>14, Zenon DEF IInv, Kept, Somewhere
<1>17. InTime' /\ NeverEarly'
  BY <1>4, <1>14 DEF IInv, InTime, NeverEarly
<1> QED
  BY <1>9, <1>10, <1>11, <1>12, <1>15, <1>16, <1>17 DEF IInv
-----------------------------------------------------------------------------
\* The clock.
LEMMA TickStep ==
  ASSUME IInv, Tick
  PROVE  IInv'
<1> USE DEF Tick, Wheel, Sleep
<1>1. clock \in Nat /\ clock' = clock + 1 /\ timerCloseCursor \in Nat /\ slots \in [Slot -> Pair]
  BY DEF IInv, Types
<1>2. Loops' = Loops /\ Threads' = Threads
  BY DEF Loops, Threads
<1>3. Types' /\ Reached'
  BY <1>1, <1>2 DEF IInv, Types, Reached
<1>4. Sweepers'
  <2>1. \A s \in Slot : slots[s].base <= slots[s].base
    BY <1>1 DEF Pair
  <2> QED
    BY <1>1, <1>2, <2>1, SaneLater DEF IInv, Sweepers
<1>5. Windows'
  <2>1. \A s \in Slot : slots[s].base \in Nat /\ timerWheelPeriod(s[1]) \in Nat
    BY <1>1, Widths, Zenon DEF Pair, Slot
  <2> QED
    BY <1>1, <2>1 DEF IInv, Windows, Window
<1>6. Apart' /\ InTime'
  BY <1>2 DEF IInv, Apart, InTime, InSlot, InChain, InRoute, Chain, Routing
<1>7. Kept'
  BY <1>2 DEF IInv, Kept, Somewhere, InSlot, InChain, InRoute, Chain, Routing
<1>8. NeverEarly'
  BY <1>1 DEF IInv, Types, NeverEarly
<1> QED
  BY <1>3, <1>4, <1>5, <1>6, <1>7, <1>8 DEF IInv

\* The operation ends otherwise, and its link stays.
LEMMA FinishStep ==
  ASSUME IInv, NEW t \in Timers, opFinishes(t)
  PROVE  IInv'
<1> USE DEF opFinishes, Wheel, Sleep
<1>1. Loops' = Loops /\ Threads' = Threads
  BY DEF Loops, Threads
<1>2. op' \in [Timers -> {"idle", "pending", "finished", "timedout"}] /\ \A u \in Timers : op'[u] # op[u] => op'[u] = "finished"
  BY DEF IInv, Types
<1>3. Types' /\ Reached' /\ Sweepers' /\ Windows'
  BY <1>1, <1>2, SMTT(30) DEF IInv, Types, Reached, Sweepers, Windows
<1>4. Apart' /\ InTime'
  BY <1>1 DEF IInv, Apart, InTime, InSlot, InChain, InRoute, Chain, Routing
<1>5. \A u \in Timers : Somewhere(u)' <=> Somewhere(u)
  BY <1>1 DEF Somewhere, InSlot, InChain, InRoute, Chain, Routing
<1>6. Kept'
  BY <1>2, <1>5 DEF IInv, Kept
<1>7. NeverEarly'
  BY <1>2 DEF IInv, NeverEarly
<1> QED
  BY <1>3, <1>4, <1>6, <1>7 DEF IInv

\* A timer is armed: it is nowhere, and then in the call of its thread.
LEMMA ArmStep ==
  ASSUME IInv, NEW t \in Timers, NEW d \in clock .. MaxDeadline, opArmTimer(t, d)
  PROVE  IInv'
<1> USE DEF opArmTimer, Wheel, Sleep
<1>1. Loops' = Loops /\ Threads' = Threads /\ t \in Threads
  BY DEF Loops, Threads
<1>2. clock \in Nat /\ timerCloseCursor \in Nat /\ d \in Nat
  BY DEF IInv, Types
<1>3. /\ DOMAIN ins' = Threads /\ ins'[t] = [at |-> "arm", link |-> t]
      /\ \A x \in Threads \ {t} : ins'[x] = ins[x]
  BY <1>1 DEF IInv, Types
<1>4. ~Somewhere(t) /\ ins[t] = NoInsert
  BY DEF IInv, Kept
<1>5. /\ op' \in [Timers -> {"idle", "pending", "finished", "timedout"}] /\ op'[t] = "pending"
      /\ \A u \in Timers \ {t} : op'[u] = op[u]
      /\ deadline' \in [Timers -> Nat] /\ \A u \in Timers \ {t} : deadline'[u] = deadline[u]
  BY <1>2 DEF IInv, Types
<1>6. ins'[t] \in Inserting /\ "at" \in DOMAIN ins'[t]
  BY <1>2, <1>3 DEF Inserting
<1>7. Types'
  BY <1>1, <1>2, <1>3, <1>5, <1>6 DEF IInv, Types
<1>8. Reached' /\ Sweepers' /\ Windows'
  BY <1>1, <1>2, <1>3 DEF IInv, Reached, Sweepers, Windows
<1>9. /\ \A u \in Timers, s \in Slot : InSlot(u, s)' <=> InSlot(u, s)
      /\ \A u \in Timers, l \in Loops : InChain(u, l)' <=> InChain(u, l)
  BY DEF InSlot, InChain, Chain
<1>10. \A u \in Timers, x \in Threads : InRoute(u, x)' <=> (x = t /\ u = t) \/ (x # t /\ InRoute(u, x))
  BY <1>3 DEF InRoute, Routing
<1>11. \A x \in Threads : ~InRoute(t, x)
  BY <1>4 DEF Somewhere
<1>12. Apart'
  BY <1>1, <1>4, <1>9, <1>10 DEF IInv, Apart, Somewhere
<1>13. \A u \in Timers \ {t} : Somewhere(u) => Somewhere(u)'
  <2>1. ~InRoute(t, t) /\ \A u \in Timers : ~InRoute(u, t)
    BY <1>4 DEF InRoute, Routing, NoInsert
  <2> QED
    BY <1>1, <1>9, <1>10, <2>1, SMTT(30) DEF Somewhere
<1>14. Somewhere(t)'
  BY <1>1, <1>10 DEF Somewhere
<1>15. \A u \in Timers \ {t} : Somewhere(u)' => Somewhere(u)
  BY <1>1, <1>9, <1>10 DEF Somewhere
<1>16. Kept'
  <2>1. \A u \in Timers \ {t} : ins'[u] = ins[u]
    BY <1>3, SMTT(30) DEF Threads
  <2> QED
    BY <1>5, <1>13, <1>14, <1>15, <2>1 DEF IInv, Kept
<1>17. InTime'
  BY <1>4, <1>5, <1>9 DEF IInv, InTime, Somewhere
<1>18. NeverEarly'
  BY <1>5 DEF IInv, NeverEarly
<1> QED
  BY <1>7, <1>8, <1>12, <1>16, <1>17, <1>18 DEF IInv

\* The close cursor is loaded for an armed timer, which stays in the call of its thread.
LEMMA LoadStep ==
  ASSUME IInv, NEW t \in Timers, addToTimeoutQueue(t)
  PROVE  IInv'
<1> USE DEF addToTimeoutQueue, Wheel, Sleep
<1>1. Loops' = Loops /\ Threads' = Threads /\ t \in Threads
  BY DEF Loops, Threads
<1>2. ins[t] \in [at : {"arm"}, link : Timers] /\ ins[t].link \in Timers /\ timerCloseCursor \in Nat
  BY <1>1 DEF IInv, Types, Inserting, NoInsert
<1>3. /\ DOMAIN ins' = Threads /\ ins'[t] = [at |-> "route", link |-> ins[t].link, cursor |-> timerCloseCursor]
      /\ \A x \in Threads \ {t} : ins'[x] = ins[x]
  BY <1>1 DEF IInv, Types
<1>4. ins'[t] \in Inserting /\ "at" \in DOMAIN ins'[t]
  BY <1>2, <1>3 DEF Inserting
<1>5. Types' /\ NeverEarly'
  BY <1>1, <1>3, <1>4 DEF IInv, Types, NeverEarly
<1>6. Reached' /\ Sweepers' /\ Windows'
  BY <1>1, <1>2, <1>3 DEF IInv, Reached, Sweepers, Windows
<1>7. /\ \A u \in Timers, s \in Slot : InSlot(u, s)' <=> InSlot(u, s)
      /\ \A u \in Timers, l \in Loops : InChain(u, l)' <=> InChain(u, l)
  BY DEF InSlot, InChain, Chain
<1>8. \A u \in Timers, x \in Threads : InRoute(u, x)' <=> InRoute(u, x)
  BY <1>3 DEF InRoute, Routing
<1>9. Apart' /\ InTime'
  BY <1>1, <1>7, <1>8, Zenon DEF IInv, Apart, InTime
<1>10. \A u \in Timers : Somewhere(u)' <=> Somewhere(u)
  BY <1>1, <1>7, <1>8, Zenon DEF Somewhere
<1>11. \A u \in Timers : ins[u] = NoInsert => ins'[u] = NoInsert
  BY <1>1, <1>3 DEF NoInsert, Threads
<1>12. Kept'
  BY <1>10, <1>11, Zenon DEF IInv, Kept
<1> QED
  BY <1>5, <1>6, <1>9, <1>12 DEF IInv

\* An insert that is not routing: marking the slot and kicking sleepers.
LEMMA MarkStep ==
  ASSUME IInv, NEW x \in Threads, timerWheelMarkOccupied(x) \/ timerKickUncoveredSleepers(x)
  PROVE  IInv'
<1>1. Loops' = Loops /\ Threads' = Threads /\ UNCHANGED <<loopThreadLimit, slots, timerCloseCursor, clock, op, deadline, th>>
  BY DEF timerWheelMarkOccupied, timerKickUncoveredSleepers, Wheel, Loops, Threads
<1>2. ins[x].at \in {"mark", "kick"} /\ DOMAIN ins = Threads /\ "at" \in DOMAIN ins[x]
  BY DEF timerWheelMarkOccupied, timerKickUncoveredSleepers, IInv, Types
<1>3. /\ DOMAIN ins' = Threads /\ \A y \in Threads \ {x} : ins'[y] = ins[y]
      /\ "at" \in DOMAIN ins'[x] /\ (ins'[x] = NoInsert \/ ins'[x].at = "kick")
  <2>1. CASE timerWheelMarkOccupied(x)
    BY <1>2, <2>1 DEF timerWheelMarkOccupied
  <2>2. CASE timerKickUncoveredSleepers(x)
    <3>1. ins[x].at = "kick"
      BY <2>2 DEF timerKickUncoveredSleepers
    <3>2. \/ ins' = [ins EXCEPT ![x] = NoInsert]
          \/ \E i, h : ins' = [ins EXCEPT ![x].i = i, ![x].hasSleeper = h]
      BY <2>2 DEF timerKickUncoveredSleepers
    <3>3. CASE ins' = [ins EXCEPT ![x] = NoInsert]
      BY <1>2, <3>3 DEF NoInsert
    <3>4. ASSUME NEW i, NEW h, ins' = [ins EXCEPT ![x].i = i, ![x].hasSleeper = h]
          PROVE  /\ DOMAIN ins' = Threads /\ \A y \in Threads \ {x} : ins'[y] = ins[y]
                 /\ "at" \in DOMAIN ins'[x] /\ ins'[x].at = ins[x].at
      BY <1>2, <3>4
    <3> QED
      BY <3>1, <3>2, <3>3, <3>4, Zenon
  <2> QED
    BY <2>1, <2>2
<1>4. NoInsert.at = "none" /\ ins'[x].at \in {"none", "kick"} /\ ins[x] # NoInsert
  BY <1>2, <1>3, SMTT(30) DEF NoInsert
<1>5. Types'
  BY <1>1, <1>3, SMTT(30) DEF IInv, Types, Inserting
<1>6. Reached' /\ Sweepers' /\ Windows' /\ NeverEarly'
  BY <1>1, <1>3, <1>4, Zenon DEF IInv, Reached, Sweepers, Windows, NeverEarly
<1>7. \A u \in Timers, y \in Threads : InRoute(u, y)' <=> InRoute(u, y)
  BY <1>2, <1>3, <1>4 DEF InRoute, Routing
<1>8. /\ \A u \in Timers, s \in Slot : InSlot(u, s)' <=> InSlot(u, s)
      /\ \A u \in Timers, l \in Loops : InChain(u, l)' <=> InChain(u, l)
  BY <1>1, Zenon DEF InSlot, InChain, Chain
<1>9. Apart' /\ InTime'
  BY <1>1, <1>7, <1>8, Zenon DEF IInv, Apart, InTime
<1>10. \A u \in Timers : Somewhere(u)' <=> Somewhere(u)
  BY <1>1, <1>7, <1>8 DEF Somewhere
<1>11. Kept'
  <2>1. \A u \in Timers : u \in Threads
    BY DEF Threads
  <2>2. \A u \in Timers : ins[u] = NoInsert => ins'[u] = NoInsert
    BY <1>3, <1>4, <2>1
  <2> QED
    BY <1>1, <1>10, <2>2 DEF IInv, Kept
<1> QED
  BY <1>5, <1>6, <1>9, <1>11 DEF IInv

\* A thread takes the timer of its call out of it: the timer is published in the slot
\* of its window, or it is over.
LEMMA InsertStep ==
  ASSUME IInv, NEW x \in Threads, timerWheelInsert(x)
  PROVE  IInv'
<1> DEFINE i == ins[x]
           t == i.link
           d == deadline[t]
           r == Route(d, i.cursor)
           place == SlotOf(r.tick, r.level)
           base == Align(r.tick, r.level)
<1>1. Loops' = Loops /\ Threads' = Threads /\ UNCHANGED <<loopThreadLimit, timerCloseCursor, clock, deadline, th>>
  BY Zenon DEF timerWheelInsert, Loops, Threads
<1>2. i \in [at : {"route"}, link : Timers, cursor : Nat] /\ i.at = "route" /\ i.cursor <= timerCloseCursor
  <2>1. ins[x].at = "route"
    BY Zenon DEF timerWheelInsert
  <2>2. ins[x] \in Inserting /\ ins[x].cursor <= timerCloseCursor
    BY <2>1, Zenon DEF IInv, Types, Reached
  <2> QED
    BY <2>1, <2>2 DEF Inserting, NoInsert
<1>3. t \in Timers /\ d \in Nat /\ i.cursor \in Nat
  BY <1>2 DEF IInv, Types
<1>4. /\ slots \in [Slot -> Pair] /\ timerCloseCursor \in Nat /\ clock \in Nat /\ timerCloseCursor <= clock
      /\ DOMAIN ins = Threads
  BY DEF IInv, Types
<1>5. Publish(x, place, base, d < i.cursor)
  BY ZenonT(30) DEF timerWheelInsert
<1>6. InRoute(t, x) /\ \A y \in Threads : InRoute(t, y) => y = x
  BY <1>2, <1>3, SMTT(30) DEF InRoute, Routing, IInv, Apart
<1>7. /\ \A s \in Slot : ~InSlot(t, s)
      /\ \A l \in Loops : ~InChain(t, l)
      /\ op[t] # "idle"
  BY <1>3, <1>6 DEF IInv, Apart, Kept, Somewhere
<1>8. /\ \A u \in Timers, l \in Loops : InChain(u, l)' <=> InChain(u, l)
  BY <1>1, Zenon DEF InChain, Chain
<1>9. i.cursor <= d =>
        /\ r.level \in Level /\ r.tick \in Nat /\ r.tick <= d /\ r.tick < i.cursor + timerWheelPeriod(r.level)
        /\ r.level = 0 => r.tick = d
        /\ place \in Slot /\ place[1] = r.level /\ base \in Nat /\ base <= r.tick
        /\ Align(base, r.level) = base /\ SlotOf(base, r.level) = place
        /\ r.level = 0 => base = d
        /\ timerWheelPeriod(r.level) \in Nat \ {0}
  <2> SUFFICES ASSUME i.cursor <= d
               PROVE  /\ r.level \in Level /\ r.tick \in Nat /\ r.tick <= d /\ r.tick < i.cursor + timerWheelPeriod(r.level)
                      /\ r.level = 0 => r.tick = d
                      /\ place \in Slot /\ place[1] = r.level /\ base \in Nat /\ base <= r.tick
                      /\ Align(base, r.level) = base /\ SlotOf(base, r.level) = place
                      /\ r.level = 0 => base = d
                      /\ timerWheelPeriod(r.level) \in Nat \ {0}
    BY Zenon
  <2>1. /\ r.level \in Level /\ r.tick \in Nat /\ r.tick <= d /\ r.tick < i.cursor + timerWheelPeriod(r.level)
        /\ r.level = 0 => r.tick = d
    BY <1>3, Routed
  <2> HIDE DEF r
  <2>2. /\ place \in Slot /\ place[1] = r.level /\ base \in Nat /\ base <= r.tick
        /\ Align(base, r.level) = base /\ SlotOf(base, r.level) = place
        /\ timerWheelPeriod(r.level) \in Nat \ {0}
    BY <2>1, Aligned, Widths
  <2>3. Align(r.tick, 0) = r.tick
    BY <2>1, Widths, DivOfProduct DEF Align
  <2> QED
    BY <2>1, <2>2, <2>3
<1> HIDE DEF r, place, base
\* The window of the route is open, or it has been visited.
<1>10. i.cursor <= d /\ slots[place].base # base => base < clock /\ base <= timerCloseCursor
  <2> SUFFICES ASSUME i.cursor <= d, slots[place].base # base PROVE base < clock /\ base <= timerCloseCursor
    OBVIOUS
  <2> DEFINE b == slots[place].base
             p == timerWheelPeriod(r.level)
  <2>1. Window(place, b, timerCloseCursor, clock) /\ b \in Nat /\ place[1] = r.level
    BY <1>4, <1>9, Zenon DEF IInv, Windows, Pair
  <2>2. ~(b < base)
    <3>1. b < base => b + p <= base
      BY <1>9, <2>1, WindowsApart, Zenon DEF Window
    <3> HIDE DEF b, p
    <3> QED
      BY <1>2, <1>3, <1>4, <1>9, <2>1, <3>1 DEF Window, p
  <2>3. base + p <= b
    BY <1>9, <2>1, <2>2, WindowsApart DEF Window
  <2> QED
    BY <1>4, <1>9, <2>1, <2>3 DEF Window
<1> HIDE DEF i, t, d
<1>11. CASE ~(d < i.cursor) /\ slots[place].base = base
  <2>1. place \in Slot /\ base <= d /\ slots[place] \in Pair
    BY <1>3, <1>4, <1>9, <1>11
  <2>2. /\ slots' = [slots EXCEPT ![place].chain = @ \cup {t}] /\ UNCHANGED op
        /\ ins' = [ins EXCEPT ![x] = [at |-> "mark", link |-> t, place |-> place]]
    BY <1>5, <1>11 DEF Publish, i, t
  <2>3. /\ DOMAIN ins' = Threads /\ ins'[x] = [at |-> "mark", link |-> t, place |-> place]
        /\ \A y \in Threads \ {x} : ins'[y] = ins[y]
    BY <1>4, <2>2
  <2>4. /\ slots' \in [Slot -> Pair] /\ \A s \in Slot : slots'[s].base = slots[s].base
        /\ slots'[place].chain = slots[place].chain \cup {t}
        /\ \A s \in Slot \ {place} : slots'[s].chain = slots[s].chain
    BY <1>3, <1>4, <2>1, <2>2, Zenon DEF Pair
  <2>5. ins'[x] \in Inserting /\ "at" \in DOMAIN ins'[x] /\ ins'[x].at = "mark" /\ ins'[x] # NoInsert /\ ins[x] # NoInsert
    BY <1>2, <1>3, <2>1, <2>3 DEF Inserting, NoInsert, i
  <2>6. Types'
    BY <1>1, <2>2, <2>3, <2>4, <2>5 DEF IInv, Types
  <2>7. Reached' /\ Windows' /\ NeverEarly'
    BY <1>1, <2>2, <2>3, <2>4, <2>5, Zenon DEF IInv, Reached, Windows, NeverEarly
  <2>8. Sweepers'
    <3>1. \A s \in Slot : slots[s].base <= slots'[s].base
      BY <1>4, <2>4 DEF Pair
    <3> QED
      BY <1>1, <1>4, <2>4, <3>1, SaneLater DEF IInv, Sweepers
  <2>9. \A u \in Timers, s \in Slot : InSlot(u, s)' <=> InSlot(u, s) \/ (u = t /\ s = place)
    BY <2>1, <2>4 DEF InSlot
  <2>10. \A u \in Timers, y \in Threads : InRoute(u, y)' <=> InRoute(u, y) /\ y # x
    BY <2>3, <2>5 DEF InRoute, Routing
  <2>11. Apart'
    BY <1>1, <1>6, <1>7, <1>8, <2>9, <2>10, SMTT(30) DEF IInv, Apart
  <2>12. InTime'
    <3>1. slots'[place].base <= deadline'[t]
      BY <1>1, <1>11, <2>1, <2>4 DEF d
    <3> QED
      BY <1>1, <2>4, <2>9, <3>1 DEF IInv, InTime
  <2>13. \A u \in Timers : Somewhere(u)' <=> Somewhere(u)
    <3>1. \A u \in Timers : InRoute(u, x) => u = t
      BY DEF InRoute, Routing, i, t
    <3> QED
      BY <1>1, <1>6, <1>8, <2>1, <2>9, <2>10, <3>1 DEF Somewhere
  <2>14. Kept'
    <3>1. \A u \in Timers : u \in Threads
      BY DEF Threads
    <3>2. \A u \in Timers : ins[u] = NoInsert => ins'[u] = NoInsert
      BY <2>3, <2>5, <3>1
    <3> QED
      BY <2>2, <2>13, <3>2 DEF IInv, Kept
  <2> QED
    BY <2>6, <2>7, <2>8, <2>11, <2>12, <2>14 DEF IInv
<1>12. CASE ~(d < i.cursor) /\ slots[place].base # base /\ place[1] > 0
  <2>1. base \in Nat /\ base <= timerCloseCursor
    BY <1>3, <1>9, <1>10, <1>12
  <2>2. ins' = [ins EXCEPT ![x].cursor = base] /\ UNCHANGED <<slots, op>>
    BY <1>5, <1>9, <1>12, Widths DEF Publish, i, t, Level
  <2>3. /\ DOMAIN ins' = Threads /\ \A y \in Threads \ {x} : ins'[y] = ins[y]
        /\ ins'[x] = [at |-> "route", link |-> t, cursor |-> base]
    BY <1>2, <1>4, <2>2 DEF i, t
  <2>4. ins'[x] \in Inserting /\ "at" \in DOMAIN ins'[x] /\ ins'[x].at = "route" /\ ins'[x].link = t /\ ins'[x].cursor = base
    BY <1>3, <2>1, <2>3 DEF Inserting
  <2>5. Types'
    BY <1>1, <2>2, <2>3, <2>4 DEF IInv, Types
  <2>6. Reached' /\ Sweepers' /\ Windows' /\ NeverEarly'
    BY <1>1, <2>1, <2>2, <2>3, <2>4, SMTT(30) DEF IInv, Reached, Sweepers, Windows, NeverEarly
  <2>7. \A u \in Timers, y \in Threads : InRoute(u, y)' <=> InRoute(u, y)
    BY <1>2, <2>3, <2>4 DEF InRoute, Routing, i, t
  <2>8. \A u \in Timers, s \in Slot : InSlot(u, s)' <=> InSlot(u, s)
    BY <2>2 DEF InSlot
  <2>9. Apart' /\ InTime'
    BY <1>1, <1>8, <2>2, <2>7, <2>8 DEF IInv, Apart, InTime
  <2>10. \A u \in Timers : Somewhere(u)' <=> Somewhere(u)
    BY <1>1, <1>8, <2>7, <2>8 DEF Somewhere
  <2>11. Kept'
    <3>1. \A u \in Timers : u \in Threads
      BY DEF Threads
    <3>2. \A u \in Timers : ins[u] = NoInsert => ins'[u] = NoInsert
      BY <1>2, <2>3, <3>1 DEF NoInsert, i
    <3> QED
      BY <2>2, <2>10, <3>2 DEF IInv, Kept
  <2> QED
    BY <2>5, <2>6, <2>9, <2>11 DEF IInv
<1>13. CASE d < i.cursor \/ (slots[place].base # base /\ place[1] = 0)
  <2>1. d < clock
    BY <1>2, <1>3, <1>4, <1>9, <1>10, <1>13
  <2>2. ins' = [ins EXCEPT ![x] = NoInsert] /\ UNCHANGED slots /\ op' = [op EXCEPT ![t] = IF @ = "pending" THEN "timedout" ELSE @]
    BY <1>5, <1>13 DEF Publish, Expire, i, t
  <2>3. DOMAIN ins' = Threads /\ ins'[x] = NoInsert /\ \A y \in Threads \ {x} : ins'[y] = ins[y]
    BY <1>4, <2>2
  <2>4. /\ op' \in [Timers -> {"idle", "pending", "finished", "timedout"}]
        /\ op'[t] # "pending" /\ op'[t] # "idle" /\ \A u \in Timers \ {t} : op'[u] = op[u]
    BY <1>3, <1>7, <2>2, Zenon DEF IInv, Types
  <2>5. Types'
    BY <1>1, <2>2, <2>3, <2>4, SMTT(30) DEF IInv, Types, Inserting, NoInsert
  <2>6. NeverEarly'
    BY <1>1, <1>3, <1>4, <2>1, <2>4, SMTT(30) DEF IInv, NeverEarly, d
  <2>7. Reached' /\ Sweepers' /\ Windows'
    BY <1>1, <2>2, <2>3, SMTT(30) DEF IInv, Reached, Sweepers, Windows, NoInsert
  <2>8. \A u \in Timers, y \in Threads : InRoute(u, y)' <=> InRoute(u, y) /\ y # x
    BY <2>3 DEF InRoute, Routing, NoInsert
  <2>9. \A u \in Timers, s \in Slot : InSlot(u, s)' <=> InSlot(u, s)
    BY <2>2 DEF InSlot
  <2>10. Apart' /\ InTime'
    BY <1>1, <1>8, <2>2, <2>8, <2>9, Zenon DEF IInv, Apart, InTime
  <2>11. \A u \in Timers : (Somewhere(u)' => Somewhere(u)) /\ (u # t /\ Somewhere(u) => Somewhere(u)')
    <3>1. \A u \in Timers : InRoute(u, x) => u = t
      BY DEF InRoute, Routing, i, t
    <3> QED
      BY <1>1, <1>8, <2>8, <2>9, <3>1, Zenon DEF Somewhere
  <2>12. Kept'
    <3>1. \A u \in Timers : u \in Threads
      BY DEF Threads
    <3>2. \A u \in Timers : ins[u] = NoInsert => ins'[u] = NoInsert
      BY <2>3, <3>1
    <3> QED
      BY <2>4, <2>11, <3>2 DEF IInv, Kept
  <2> QED
    BY <2>5, <2>6, <2>7, <2>10, <2>12 DEF IInv
<1> QED
  <2>1. ~(d < i.cursor) => place[1] \in Nat
    BY <1>3, <1>9, Widths
  <2> QED
    BY <1>11, <1>12, <1>13, <2>1

\* The invariant is kept by every step.
LEMMA Inductive == IInv /\ [Next]_vars => IInv'
<1> SUFFICES ASSUME IInv, [Next]_vars PROVE IInv'
  OBVIOUS
<1>1. CASE Tick
  BY <1>1, TickStep
<1>2. CASE \E t \in Timers : opFinishes(t) \/ addToTimeoutQueue(t) \/ \E d \in clock .. MaxDeadline : opArmTimer(t, d)
  BY <1>2, FinishStep, ArmStep, LoadStep
<1>3. CASE \E x \in Threads : insertStep(x)
  BY <1>3, InsertStep, MarkStep DEF insertStep
<1>4. CASE \E l \in Loops : sweepStep(l)
  BY <1>4, LookStep, DrainStep, ProcessStep, ConfirmStep DEF sweepStep
<1>5. CASE \E l \in Loops : sleepStep(l)
  BY <1>5, SleepStep DEF sleepStep
<1>6. CASE UNCHANGED vars
  <2>1. Loops' = Loops /\ Threads' = Threads
    BY <1>6, Zenon DEF vars, Loops, Threads
  <2>2. Types' /\ Sweepers' /\ Windows' /\ Reached' /\ NeverEarly'
    BY <1>6, <2>1 DEF IInv, vars, Types, Sweepers, Windows, Reached, NeverEarly
  <2>3. /\ \A t, s : InSlot(t, s)' <=> InSlot(t, s)
        /\ \A t, l : InChain(t, l)' <=> InChain(t, l)
        /\ \A t, x : InRoute(t, x)' <=> InRoute(t, x)
    BY <1>6, Zenon DEF vars, InSlot, InChain, InRoute, Chain, Routing
  <2>4. Apart' /\ InTime'
    BY <1>6, <2>1, <2>3, ZenonT(30) DEF IInv, vars, Apart, InTime
  <2>5. Kept'
    BY <1>6, <2>1, <2>3, ZenonT(30) DEF IInv, vars, Kept, Somewhere
  <2> QED
    BY <2>2, <2>4, <2>5 DEF IInv
<1> QED
  BY <1>1, <1>2, <1>3, <1>4, <1>5, <1>6 DEF Next

\* A timeout is never early, however arms, sweeps, helpers and cascades interleave:
\* whichever of them expires a timer has seen the sweep go past its deadline.
THEOREM NeverTooEarly == Spec => []NeverEarly
<1>1. IInv => NeverEarly
  BY DEF IInv
<1> QED
  BY <1>1, Initially, Inductive, PTL DEF Spec

\* The invariant gives the one place of a pending timer.
LEMMA SinglePlace ==
  ASSUME IInv, NEW t \in Timers, op[t] = "pending"
  PROVE  \E p \in Places(t) : Places(t) = {p}
<1>1. Somewhere(t) /\ Apart
  BY DEF IInv, Kept
<1>2. CASE \E s \in Slot : InSlot(t, s)
  <2>1. PICK s \in Slot : InSlot(t, s)
    BY <1>2, Zenon
  <2>2. Places(t) = {<<"slot", s>>}
    BY <1>1, <2>1 DEF Apart, Places, InSlot, InChain, InRoute
  <2> QED
    BY <2>2
<1>3. CASE \E l \in Loops : InChain(t, l)
  <2>1. PICK l \in Loops : InChain(t, l)
    BY <1>3, Zenon
  <2>2. Places(t) = {<<"chain", l>>}
    BY <1>1, <2>1 DEF Apart, Places, InSlot, InChain, InRoute
  <2> QED
    BY <2>2
<1>4. CASE \E x \in Threads : InRoute(t, x)
  <2>1. PICK x \in Threads : InRoute(t, x)
    BY <1>4
  <2>2. Places(t) = {<<"insert", x>>}
    BY <1>1, <2>1, SMTT(30) DEF Apart, Places, InSlot, InChain, InRoute
  <2> QED
    BY <2>2, SMTT(30)
<1> QED
  BY <1>1, <1>2, <1>3, <1>4 DEF Somewhere

\* A pending timer is in one slot, one sweeper's chain or one insert, and a slot that
\* holds timers will be visited no later than the deadline of any of them.
THEOREM HeldInOnePlace == Spec => []HeldOnce
<1>1. IInv => HeldOnce
  <2> SUFFICES ASSUME IInv PROVE HeldOnce
    OBVIOUS
  <2>1. \A s \in Slot : slots[s].base \in Nat /\ slots[s].chain \subseteq Timers /\ timerCloseCursor \in Nat
    BY DEF IInv, Types, Pair
  <2>2. \A s \in Slot : timerCloseCursor <= slots[s].base
    BY DEF IInv, Windows, Window
  <2>3. \A s \in Slot : \A t \in slots[s].chain : slots[s].base <= deadline[t]
    BY <2>1 DEF IInv, InTime, InSlot
  <2> QED
    BY <2>1, <2>2, <2>3, SinglePlace DEF HeldOnce
<1> QED
  BY <1>1, Initially, Inductive, PTL DEF Spec
=============================================================================
