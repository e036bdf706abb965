------------------------ MODULE ConcurrentQueueProofs -----------------------
(***************************************************************************)
(* Every step of the pushes and the pops of ringBuffer.c keeps the         *)
(* invariant of the queue, so it always holds; the queue then implements   *)
(* the hand-over of Handoff.                                               *)
(***************************************************************************)
EXTENDS ConcurrentQueuePop

-----------------------------------------------------------------------------
(* The steps that move only a thread or a cursor. *)

\* The sequence number of a cell is at most a lap ahead of the claimed positions,
\* and not behind the positions already popped.
LEMMA SequenceBounds ==
  ASSUME QueueInv, NEW p \in Ladder, NEW j \in Nat
  PROVE  /\ Sequence(p, j) \in Nat /\ Sequence(p, j) < Sealed /\ Sealed \in Nat
         /\ j < dequeuePos[p] => Sequence(p, j) >= j + 1
<1>1. TypeInv /\ RingOK(p)
  BY DEF QueueInv
<1> DEFINE d == dequeuePos[p]
           S == Size(p)
<1>2. /\ Top(p) \in Nat /\ d \in Nat /\ S \in Nat /\ S >= 2 /\ d <= Top(p)
      /\ Top(p) + S < Sealed /\ Sealed \in Nat
  BY <1>1, TopBound
<1>3. PICK i \in d .. d + S - 1 : Index(p, i) = Index(p, j)
  BY <1>2, IndexCover, Zenon
<1>4. Sequence(p, j) = Sequence(p, i) /\ CellOK(p, i) /\ i \in Nat
  BY <1>1, <1>2, <1>3 DEF Sequence, RingOK
<1>5. Sequence(p, i) \in {i, i + 1, i + 1 - S}
  BY <1>2, <1>4 DEF CellOK
<1>6. j < d => i >= j + S
  BY <1>2, <1>3, <1>4, IndexFacts
<1>7. Sequence(p, j) \in Nat
  BY <1>1, CellType, Zenon
<1> QED BY <1>2, <1>3, <1>4, <1>5, <1>6, <1>7

\* A step of a push that moves the thread, or the write cursor up, keeps the invariant.
LEMMA QuietPush ==
  ASSUME QueueInv, TypeInv', NEW t \in Producers, NEW p, NEW j,
         UNCHANGED <<cell, enqueuePos, dequeuePos, ReadPartition, taken>>,
         \A u \in Threads : u # t => at'[u] = at[u],
         at[t].pc # "publish", at[t].sent < MaxPushes[t],
         at'[t].pc \in {"again", "pos", "look", "claim", "full"},
         at'[t].part = p, at'[t].pos = j, at'[t].sent = at[t].sent,
         at[t].part <= p, p <= WritePartition', WritePartition <= WritePartition',
         at'[t].pc \in {"look", "claim"} => j <= enqueuePos[p],
         at'[t].pc = "claim" => j # Sealed /\ (j = enqueuePos[p] => Sequence(p, j) = j)
  PROVE  QueueInv'
<1>1. t \in Threads /\ t \notin Consumers /\ TypeInv /\ ProducerOK(t) /\ Cursors
  BY ThreadAssumption DEF Threads, QueueInv
<1>2. at[t].pc \notin {"publish", "read"} /\ at'[t].pc \notin {"publish", "read"}
  BY <1>1 DEF ProducerOK
<1>3. ReadPartition <= ReadPartition'
  BY <1>1, CursorType
<1>4. /\ \A q \in Ladder : RingOK(q)'
      /\ \A u \in Producers : u # t => ProducerOK(u)'
      /\ \A u \in Consumers : u # t => ConsumerOK(u)'
      /\ ValuesOK' /\ OrderOK'
  BY <1>1, <1>2, <1>3, QuietStep
<1>5. ProducerOK(t)'
  <2>1. Sequence(p, j)' = Sequence(p, j)
    BY CellsKept
  <2>2. at'[t].sent <= MaxPushes[t]
    BY <1>1, PositionType, ThreadAssumption
  <2> QED BY <1>2, <2>1, <2>2 DEF ProducerOK
<1>6. Cursors'
  <2>1. WritePartition \in Nat /\ ReadPartition \in Nat /\ \A q \in Ladder : q \in Nat
    BY <1>1, CursorType
  <2>2. WritePartition' \in Nat
    BY <1>1, CursorTypeNext
  <2> QED BY <1>1, <2>1, <2>2 DEF Cursors, Ladder
<1> QED BY <1>1, <1>4, <1>5, <1>6 DEF QueueInv, Ladder

\* A step of a pop that moves the thread, or the read cursor past a sealed ring, keeps
\* the invariant.
LEMMA QuietPop ==
  ASSUME QueueInv, TypeInv', NEW t \in Consumers, NEW p, NEW j,
         UNCHANGED <<cell, enqueuePos, dequeuePos, WritePartition, taken>>,
         \A u \in Threads : u # t => at'[u] = at[u],
         at[t].pc # "read",
         at'[t].pc \in {"idle", "again", "pos", "look", "claim", "empty", "drained", "compare", "seal", "advance"},
         at'[t].part = p, at'[t].pos = j, at'[t].sent = at[t].sent,
         at[t].part <= p, p <= ReadPartition', ReadPartition <= ReadPartition',
         ReadPartition' <= WritePartition, \A q \in Ladder : q < ReadPartition' => enqueuePos[q] = Sealed,
         at'[t].pc \in {"look", "claim"} => j <= dequeuePos[p],
         at'[t].pc = "claim" /\ j = dequeuePos[p] => Sequence(p, j) = j + 1,
         at'[t].pc \in {"drained", "compare", "seal", "advance"} => p < WritePartition,
         at'[t].pc \in {"compare", "seal"} => j # Sealed,
         at'[t].pc = "seal" => j <= dequeuePos[p],
         at'[t].pc = "advance" => enqueuePos[p] = Sealed
  PROVE  QueueInv'
<1>1. t \in Threads /\ t \notin Producers /\ TypeInv /\ ConsumerOK(t) /\ Cursors
  BY ThreadAssumption DEF Threads, QueueInv
<1>2. at[t].pc \notin {"publish", "read"} /\ at'[t].pc \notin {"publish", "read"}
  BY <1>1 DEF ConsumerOK
<1>3. WritePartition <= WritePartition'
  BY <1>1, CursorType
<1>4. /\ \A q \in Ladder : RingOK(q)'
      /\ \A u \in Producers : u # t => ProducerOK(u)'
      /\ \A u \in Consumers : u # t => ConsumerOK(u)'
      /\ ValuesOK' /\ OrderOK'
  BY <1>1, <1>2, <1>3, QuietStep
<1>5. ConsumerOK(t)'
  <2>1. Sequence(p, j)' = Sequence(p, j)
    BY CellsKept
  <2> QED BY <1>2, <2>1 DEF ConsumerOK
<1>6. Cursors'
  BY <1>1 DEF Cursors, Ladder
<1> QED BY <1>1, <1>4, <1>5, <1>6 DEF QueueInv, Ladder

\* What a load of a growing cursor returns lies between what was seen and what is there.
LEMMA LoadedBounds ==
  ASSUME TypeInv, NEW t, NEW seen \in Nat, NEW cursor \in Ladder, seen <= cursor, NEW p \in Loaded(t, seen, cursor)
  PROVE  p \in Ladder /\ seen <= p /\ p <= cursor
BY SizeAssumption DEF Loaded, Ladder

\* A thread that goes to another place leaves the others where they are.
LEMMA ThreadMove ==
  ASSUME TypeInv, NEW t \in Threads, NEW r \in Place, at' = [at EXCEPT ![t] = r]
  PROVE  at' \in [Threads -> Place] /\ at'[t] = r /\ \A u \in Threads : u # t => at'[u] = at[u]
<1>1. at \in [Threads -> Place]
  BY Typed
<1> QED BY <1>1

\* It keeps the types if the cursors do.
LEMMA TypeMove ==
  ASSUME TypeInv, NEW t \in Threads, NEW r \in Place, at' = [at EXCEPT ![t] = r], UNCHANGED <<cell, taken>>,
         enqueuePos' \in [Ladder -> Nat], dequeuePos' \in [Ladder -> Nat],
         WritePartition' \in Ladder, ReadPartition' \in Ladder
  PROVE  TypeInv' /\ at'[t] = r /\ \A u \in Threads : u # t => at'[u] = at[u]
<1>1. at' \in [Threads -> Place] /\ at'[t] = r /\ \A u \in Threads : u # t => at'[u] = at[u]
  BY ThreadMove, Zenon
<1>2. /\ cell' = [p \in Ladder |-> cell'[p]] /\ taken' \in SUBSET Values
      /\ \A p \in Ladder : cell'[p] \in [0 .. Size(p) - 1 -> [sequence : Nat, data : Values \cup {<<>>}]]
  BY Zenon DEF TypeInv, TypeOK
<1>3. TypeInv'
  BY <1>1, <1>2, Zenon DEF TypeInv, TypeOK, Ladder, Size, Threads, Values, Stages, Place
<1> QED BY <1>1, <1>3

\* Every step of a push keeps the invariant.
LEMMA PushStep ==
  ASSUME QueueInv, NEW t \in Producers, concurrentQueuePush(t)
  PROVE  QueueInv'
<1>1. TypeInv /\ t \in Threads /\ ProducerOK(t) /\ Cursors /\ t \notin Consumers
  BY ThreadAssumption DEF QueueInv, Threads
<1>2. PICK p \in Ladder, e \in Nat : p = at[t].part /\ e = at[t].pos
  BY <1>1, PositionType
<1>3. /\ at[t] \in Place /\ enqueuePos \in [Ladder -> Nat] /\ dequeuePos \in [Ladder -> Nat]
      /\ WritePartition \in Ladder /\ ReadPartition \in Ladder /\ at \in [Threads -> Place]
  BY <1>1, Typed
<1>4. /\ p \in Nat /\ p <= p /\ p <= WritePartition /\ enqueuePos[p] \in Nat /\ WritePartition \in Nat
      /\ WritePartition <= WritePartition /\ at[t].sent \in Nat
      /\ at[t].pc # "idle" => at[t].sent < MaxPushes[t]
  <2>1. p <= WritePartition /\ (at[t].pc # "idle" => at[t].sent < MaxPushes[t])
    BY <1>1, <1>2, Zenon DEF ProducerOK
  <2>2. p \in Nat /\ WritePartition \in Nat /\ enqueuePos[p] \in Nat
    BY <1>1, <1>2, <1>3, Typed
  <2>3. at[t].sent \in Nat
    BY <1>3, Zenon DEF Place
  <2> QED BY <2>1, <2>2, <2>3
<1>5. Cell(t).sequence = Sequence(p, e)
  BY <1>2 DEF Cell, Sequence
\* The steps that move the thread only.
<1>6. ASSUME NEW r \in Place, at' = [at EXCEPT ![t] = r], Local,
             at[t].pc # "publish", at[t].sent < MaxPushes[t],
             r.pc \in {"pos", "look", "claim", "full"}, r.sent = at[t].sent, p <= r.part, r.part <= WritePartition,
             r.pc \in {"look", "claim"} => r.pos <= enqueuePos[r.part],
             r.pc = "claim" => r.pos # Sealed /\ (r.pos = enqueuePos[r.part] => Sequence(r.part, r.pos) = r.pos)
      PROVE  QueueInv'
  <2>1. UNCHANGED <<cell, enqueuePos, dequeuePos, WritePartition, ReadPartition, taken>>
    BY <1>6 DEF Local
  <2>2. TypeInv' /\ at'[t] = r /\ \A u \in Threads : u # t => at'[u] = at[u]
    BY <2>1, <1>1, <1>3, <1>6, TypeMove, Zenon
  <2>3. WritePartition <= WritePartition' /\ r.part <= WritePartition'
    BY <2>1, <1>4, <1>6
  <2>4. r.pc \in {"again", "pos", "look", "claim", "full"}
    BY <1>6
  <2> QED BY <2>1, <2>2, <2>3, <2>4, <1>2, <1>6, QuietPush
<1>7. CASE pushSelects(t)
  <2>1. PICK q \in Loaded(t, p, WritePartition) : at' = [at EXCEPT ![t].pc = "pos", ![t].part = q]
    BY <1>2, <1>7, Zenon DEF pushSelects
  <2>2. q \in Ladder /\ p <= q /\ q <= WritePartition
    BY <1>1, <1>3, <1>4, LoadedBounds
  <2> DEFINE r == [at[t] EXCEPT !.pc = "pos", !.part = q]
  <2>3. at' = [at EXCEPT ![t] = r]
    BY <2>1, Zenon
  <2>4. r \in Place /\ r.pc = "pos" /\ r.part = q /\ r.sent = at[t].sent
    BY <2>2, <1>3, Zenon DEF Place, Stages
  <2>5. Local /\ at[t].pc # "publish" /\ at[t].sent < MaxPushes[t]
    BY <1>4, <1>7 DEF pushSelects, At
  <2> HIDE DEF r
  <2> QED BY <2>2, <2>3, <2>4, <2>5, <1>6, Zenon
<1>8. CASE pushPosition(t)
  <2> DEFINE r == [at[t] EXCEPT !.pc = "look", !.pos = enqueuePos[p]]
  <2>1. at' = [at EXCEPT ![t] = r]
    BY <1>2, <1>8, Zenon DEF pushPosition, GoAt
  <2>2. r \in Place /\ r.pc = "look" /\ r.part = p /\ r.pos = enqueuePos[p] /\ r.sent = at[t].sent
    BY <1>2, <1>3, <1>4, Zenon DEF Place, Stages
  <2>3. Local /\ at[t].pc # "publish" /\ at[t].sent < MaxPushes[t]
    BY <1>4, <1>8 DEF pushPosition, At
  <2>4. enqueuePos[p] <= enqueuePos[p]
    BY <1>4
  <2> HIDE DEF r
  <2> QED BY <2>1, <2>2, <2>3, <2>4, <1>4, <1>6, Zenon
<1>9. CASE pushLooks(t)
  <2>1. PICK c \in {"claim", "full", "pos"} :
          at' = [at EXCEPT ![t].pc = c] /\ (c = "claim" => Sequence(p, e) - e = 0)
    BY <1>2, <1>5, <1>9 DEF pushLooks, Go
  <2> DEFINE r == [at[t] EXCEPT !.pc = c]
  <2>2. at' = [at EXCEPT ![t] = r]
    BY <2>1, Zenon
  <2>3. r \in Place /\ r.pc = c /\ r.part = p /\ r.pos = e /\ r.sent = at[t].sent
    BY <1>2, <1>3, Zenon DEF Place, Stages
  <2>4. Local /\ at[t].pc = "look" /\ at[t].sent < MaxPushes[t]
    BY <1>4, <1>9 DEF pushLooks, At
  <2>5. e <= enqueuePos[p]
    BY <2>4, <1>1, <1>2, Zenon DEF ProducerOK
  <2>6. c = "claim" => Sequence(p, e) = e /\ e # Sealed
    BY <2>1, <1>2, SequenceBounds
  <2> HIDE DEF r
  <2> QED BY <2>2, <2>3, <2>4, <2>5, <2>6, <1>4, <1>6, Zenon
<1>10. CASE pushClaims(t)
  <2>1. at[t].pc = "claim" /\ UNCHANGED <<cell, dequeuePos, WritePartition, ReadPartition, taken>>
    BY <1>10 DEF pushClaims, At
  <2>2. CASE /\ enqueuePos[p] = e
             /\ enqueuePos' = [enqueuePos EXCEPT ![p] = @ + 1]
             /\ at' = [at EXCEPT ![t].pc = "publish"]
    <3> DEFINE r == [at[t] EXCEPT !.pc = "publish"]
    <3>1. enqueuePos' \in [Ladder -> Nat]
      BY <2>2, <1>2, <1>3
    <3>2. r \in Place /\ at' = [at EXCEPT ![t] = r]
      BY <2>2, <1>3, Zenon DEF Place, Stages
    <3> HIDE DEF r
    <3>3. TypeInv'
      BY <2>1, <3>1, <3>2, <1>1, <1>3, TypeMove, Zenon
    <3> QED BY <2>1, <2>2, <3>3, <1>2, PushClaim, Zenon
  <2>3. CASE /\ enqueuePos' = enqueuePos
             /\ at' = [at EXCEPT ![t].pc = "look", ![t].pos = enqueuePos[p]]
    <3> DEFINE r == [at[t] EXCEPT !.pc = "look", !.pos = enqueuePos[p]]
    <3>1. at' = [at EXCEPT ![t] = r]
      BY <2>3, Zenon
    <3>2. r \in Place /\ r.pc = "look" /\ r.part = p /\ r.pos = enqueuePos[p] /\ r.sent = at[t].sent
      BY <1>2, <1>3, <1>4, Zenon DEF Place, Stages
    <3>3. Local /\ at[t].sent < MaxPushes[t] /\ enqueuePos[p] <= enqueuePos[p]
      BY <2>1, <2>3, <1>4 DEF Local
    <3> HIDE DEF r
    <3> QED BY <2>1, <3>1, <3>2, <3>3, <1>4, <1>6, Zenon
  <2> QED BY <2>2, <2>3, <1>2, <1>10 DEF pushClaims, Go, GoAt
<1>11. CASE pushPublishes(t)
  <2> DEFINE n == at[t].sent + 1
             r == [at[t] EXCEPT !.pc = "idle", !.pos = 0, !.sent = n]
  <2>1. /\ at[t].pc = "publish" /\ Store(t, e + 1, Item(t))
        /\ at' = [at EXCEPT ![t].pc = "idle", ![t].pos = 0, ![t].sent = @ + 1]
        /\ UNCHANGED <<enqueuePos, dequeuePos, WritePartition, ReadPartition, taken>>
    BY <1>2, <1>11 DEF pushPublishes, At
  <2>2. n \in Nat /\ at' = [at EXCEPT ![t].pc = "idle", ![t].pos = 0, ![t].sent = n]
    BY <2>1, <1>4
  <2> HIDE DEF n
  <2>3. r \in Place /\ at' = [at EXCEPT ![t] = r]
    BY <2>2, <1>3, Zenon DEF Place, Stages
  <2> HIDE DEF r
  <2>4. at' \in [Threads -> Place]
    BY <2>3, <1>1, ThreadMove, Zenon
  <2>5. Item(t) \in Values \cup {<<>>} /\ e + 1 \in Nat
    BY <2>1, <1>2, ItemFacts
  <2>6. /\ cell' = [q \in Ladder |-> cell'[q]]
        /\ \A q \in Ladder : cell'[q] \in [0 .. Size(q) - 1 -> [sequence : Nat, data : Values \cup {<<>>}]]
    BY <2>1, <2>5, <1>1, StoreType
  <2>7. TypeInv'
    BY <2>1, <2>4, <2>6, <1>1, Zenon DEF TypeInv, TypeOK, Ladder, Size, Threads, Values, Stages, Place
  <2> QED BY <2>1, <2>7, <1>2, PushPublish, Zenon
<1>12. CASE pushMovesUp(t)
  <2>1. at[t].pc = "full" /\ UNCHANGED <<cell, enqueuePos, dequeuePos, ReadPartition, taken>>
    BY <1>12 DEF pushMovesUp, At
  <2>2. PICK w \in Ladder : w = WritePartition' /\ p <= w /\ w <= w /\ WritePartition <= w
    <3>1. WritePartition' = IF p + 1 < Partitions /\ WritePartition = p THEN p + 1 ELSE WritePartition
      BY <1>2, <1>12 DEF pushMovesUp
    <3>2. Partitions \in Nat /\ Ladder = 0 .. Partitions - 1
      BY SizeAssumption DEF Ladder
    <3> QED BY <3>1, <3>2, <1>3, <1>4
  <2> DEFINE r == [at[t] EXCEPT !.pc = "again", !.pos = 0, !.part = w]
  <2>3. at' = [at EXCEPT ![t] = r]
    BY <2>2, <1>12, Zenon DEF pushMovesUp
  <2>4. r \in Place /\ r.pc = "again" /\ r.part = w /\ r.pos = 0 /\ r.sent = at[t].sent
    BY <1>3, Zenon DEF Place, Stages
  <2> HIDE DEF r
  <2>5. TypeInv' /\ at'[t] = r /\ \A u \in Threads : u # t => at'[u] = at[u]
    BY <2>1, <2>2, <2>3, <2>4, <1>1, <1>3, TypeMove, Zenon
  <2>6. at[t].sent < MaxPushes[t]
    BY <2>1, <1>4
  <2> QED BY <2>1, <2>2, <2>4, <2>5, <2>6, <1>2, QuietPush, SMTT(30)
<1> QED BY <1>7, <1>8, <1>9, <1>10, <1>11, <1>12 DEF concurrentQueuePush

\* Every step of a pop keeps the invariant.
LEMMA PopStep ==
  ASSUME QueueInv, NEW t \in Consumers, concurrentQueuePop(t)
  PROVE  QueueInv'
<1>1. TypeInv /\ t \in Threads /\ ConsumerOK(t) /\ Cursors
  BY DEF QueueInv, Threads
<1>2. PICK p \in Ladder, d \in Nat : p = at[t].part /\ d = at[t].pos
  BY <1>1, PositionType
<1>3. /\ at[t] \in Place /\ enqueuePos \in [Ladder -> Nat] /\ dequeuePos \in [Ladder -> Nat]
      /\ WritePartition \in Ladder /\ ReadPartition \in Ladder /\ at \in [Threads -> Place]
      /\ p \in Nat /\ p <= p /\ p <= ReadPartition /\ ReadPartition <= WritePartition /\ dequeuePos[p] \in Nat
      /\ ReadPartition \in Nat /\ WritePartition \in Nat /\ enqueuePos[p] \in Nat
  <2>1. p <= ReadPartition /\ ReadPartition <= WritePartition
    BY <1>1, <1>2, Zenon DEF ConsumerOK, Cursors
  <2> QED BY <2>1, <1>1, <1>2, Typed
<1>4. \A q \in Ladder : q < ReadPartition => enqueuePos[q] = Sealed
  BY <1>1 DEF Cursors
<1>5. Cell(t).sequence = Sequence(p, d) /\ Cell(t).data = Data(p, d)
  BY <1>2 DEF Cell, Sequence, Data
\* The steps that move the thread only.
<1>6. ASSUME NEW r \in Place, at' = [at EXCEPT ![t] = r], Local,
             at[t].pc # "read",
             r.pc \in {"idle", "again", "pos", "look", "claim", "empty", "drained", "compare", "seal", "advance"},
             r.sent = at[t].sent, p <= r.part, r.part <= ReadPartition,
             r.pc \in {"look", "claim"} => r.pos <= dequeuePos[r.part],
             r.pc = "claim" /\ r.pos = dequeuePos[r.part] => Sequence(r.part, r.pos) = r.pos + 1,
             r.pc \in {"drained", "compare", "seal", "advance"} => r.part < WritePartition,
             r.pc \in {"compare", "seal"} => r.pos # Sealed,
             r.pc = "seal" => r.pos <= dequeuePos[r.part],
             r.pc = "advance" => enqueuePos[r.part] = Sealed
      PROVE  QueueInv'
  <2>1. UNCHANGED <<cell, enqueuePos, dequeuePos, WritePartition, ReadPartition, taken>>
    BY <1>6 DEF Local
  <2>2. TypeInv' /\ at'[t] = r /\ \A u \in Threads : u # t => at'[u] = at[u]
    BY <2>1, <1>1, <1>3, <1>6, TypeMove, Zenon
  <2>3. ReadPartition <= ReadPartition' /\ r.part <= ReadPartition' /\ ReadPartition' <= WritePartition
    BY <2>1, <1>3, <1>6
  <2>4. \A q \in Ladder : q < ReadPartition' => enqueuePos[q] = Sealed
    BY <2>1, <1>4
  <2> QED BY <2>1, <2>2, <2>3, <2>4, <1>2, <1>6, QuietPop
<1>7. CASE popSelects(t)
  <2>1. PICK q \in Loaded(t, p, ReadPartition) :
          at' = [at EXCEPT ![t].pc = "pos", ![t].part = q,
                           ![t].before = IF t \notin Watched THEN {}
                                           ELSE IF At(t, "idle") THEN Published \ taken ELSE @ \ taken]
    BY <1>2, <1>7, Zenon DEF popSelects
  <2>2. q \in Ladder /\ p <= q /\ q <= ReadPartition
    BY <1>1, <1>3, LoadedBounds
  <2> DEFINE b == IF t \notin Watched THEN {}
                  ELSE IF At(t, "idle") THEN Published \ taken ELSE at[t].before \ taken
             r == [at[t] EXCEPT !.pc = "pos", !.part = q, !.before = b]
  <2>3. at' = [at EXCEPT ![t] = r]
    BY <2>1, Zenon
  <2>4. b \in SUBSET Values
    <3>1. at[t].before \subseteq Values
      BY <1>3, Zenon DEF Place
    <3>2. Published \subseteq Values
      BY DEF Published
    <3> QED BY <3>1, <3>2, Zenon
  <2> HIDE DEF b
  <2>5. r \in Place /\ r.pc = "pos" /\ r.part = q /\ r.sent = at[t].sent
    BY <2>2, <2>4, <1>2, <1>3, Zenon DEF Place, Stages
  <2>6. Local /\ at[t].pc # "read"
    BY <1>7 DEF popSelects, At
  <2> HIDE DEF r
  <2> QED BY <2>2, <2>3, <2>5, <2>6, <1>6, Zenon
<1>8. CASE popPosition(t)
  <2> DEFINE r == [at[t] EXCEPT !.pc = "look", !.pos = dequeuePos[p]]
  <2>1. at' = [at EXCEPT ![t] = r] /\ Local /\ at[t].pc = "pos"
    BY <1>2, <1>8, Zenon DEF popPosition, GoAt, At
  <2>2. r \in Place /\ r.pc = "look" /\ r.part = p /\ r.pos = dequeuePos[p] /\ r.sent = at[t].sent
    BY <1>2, <1>3, Zenon DEF Place, Stages
  <2>3. dequeuePos[p] <= dequeuePos[p]
    BY <1>3
  <2> HIDE DEF r
  <2> QED BY <2>1, <2>2, <2>3, <1>3, <1>6, Zenon
<1>9. CASE popLooks(t)
  <2>1. PICK c \in {"claim", "empty", "pos"} :
          at' = [at EXCEPT ![t].pc = c] /\ (c = "claim" => Sequence(p, d) - (d + 1) = 0)
    BY <1>2, <1>5, <1>9 DEF popLooks, Go
  <2> DEFINE r == [at[t] EXCEPT !.pc = c]
  <2>2. at' = [at EXCEPT ![t] = r] /\ Local /\ at[t].pc = "look"
    BY <2>1, <1>9 DEF popLooks, At
  <2>3. r \in Place /\ r.pc = c /\ r.part = p /\ r.pos = d /\ r.sent = at[t].sent
    BY <1>2, <1>3, Zenon DEF Place, Stages
  <2>4. d <= dequeuePos[p]
    BY <2>2, <1>1, <1>2, Zenon DEF ConsumerOK
  <2>5. c = "claim" => Sequence(p, d) = d + 1
    BY <2>1, <1>1, <1>2, CellType
  <2> HIDE DEF r
  <2> QED BY <2>2, <2>3, <2>4, <2>5, <1>3, <1>6, Zenon
<1>10. CASE popClaims(t)
  <2>1. at[t].pc = "claim" /\ UNCHANGED <<cell, enqueuePos, WritePartition, ReadPartition, taken>>
    BY <1>10 DEF popClaims, At
  <2>2. CASE /\ dequeuePos[p] = d
             /\ dequeuePos' = [dequeuePos EXCEPT ![p] = @ + 1]
             /\ at' = [at EXCEPT ![t].pc = "read"]
    <3>1. dequeuePos' \in [Ladder -> Nat]
      BY <2>2, <1>2, <1>3
    <3> DEFINE r == [at[t] EXCEPT !.pc = "read"]
    <3>2. r \in Place /\ at' = [at EXCEPT ![t] = r]
      BY <2>2, <1>3, Zenon DEF Place, Stages
    <3> HIDE DEF r
    <3>3. TypeInv'
      BY <2>1, <3>1, <3>2, <1>1, <1>3, TypeMove, Zenon
    <3> QED BY <2>1, <2>2, <3>3, <1>2, PopClaim, Zenon
  <2>3. CASE /\ dequeuePos' = dequeuePos
             /\ at' = [at EXCEPT ![t].pc = "look", ![t].pos = dequeuePos[p]]
    <3> DEFINE r == [at[t] EXCEPT !.pc = "look", !.pos = dequeuePos[p]]
    <3>1. at' = [at EXCEPT ![t] = r] /\ Local
      BY <2>1, <2>3, Zenon DEF Local
    <3>2. r \in Place /\ r.pc = "look" /\ r.part = p /\ r.pos = dequeuePos[p] /\ r.sent = at[t].sent
      BY <1>2, <1>3, Zenon DEF Place, Stages
    <3>3. dequeuePos[p] <= dequeuePos[p] 
      BY <1>3
    <3> HIDE DEF r
    <3> QED BY <2>1, <3>1, <3>2, <3>3, <1>3, <1>6, Zenon
  <2> QED BY <2>2, <2>3, <1>2, <1>10 DEF popClaims, Go, GoAt
<1>11. CASE popReturns(t)
  <2>1. /\ at[t].pc = "read" /\ Store(t, d + Size(p), <<>>) /\ taken' = taken \cup {Data(p, d)}
        /\ UNCHANGED <<enqueuePos, dequeuePos, WritePartition, ReadPartition>>
    BY <1>2, <1>5, <1>11 DEF popReturns, At
  <2> DEFINE r == [at[t] EXCEPT !.pc = "idle", !.pos = 0, !.before = {}]
  <2>2. at' = [at EXCEPT ![t] = r]
    BY <1>11, Zenon DEF popReturns
  <2>3. r \in Place /\ r.pc = "idle" /\ r.part = p /\ r.pos = 0 /\ r.sent = at[t].sent
    BY <1>2, <1>3, Zenon DEF Place, Stages
  <2> HIDE DEF r
  <2>4. at' \in [Threads -> Place] /\ (\A u \in Threads : u # t => at'[u] = at[u]) /\ at'[t] = r
    BY <2>2, <2>3, <1>1, ThreadMove, Zenon
  <2>5. Data(p, d) \in Values
    BY <2>1, <1>2, ReaderFacts DEF Reader
  <2>6. d + Size(p) \in Nat /\ <<>> \in Values \cup {<<>>}
    BY <1>2, SizeType
  <2>7. /\ cell' = [q \in Ladder |-> cell'[q]]
        /\ \A q \in Ladder : cell'[q] \in [0 .. Size(q) - 1 -> [sequence : Nat, data : Values \cup {<<>>}]]
    BY <2>1, <2>6, <1>1, StoreType
  <2>8. TypeInv'
    BY <2>1, <2>4, <2>5, <2>7, <1>1, Zenon DEF TypeInv, TypeOK, Ladder, Size, Threads, Values, Stages, Place
  <2> QED BY <2>1, <2>3, <2>4, <2>8, <1>2, PopReturn, Zenon
<1>12. CASE popFindsEmpty(t)
  <2>1. Local /\ at[t].pc = "empty"
    BY <1>12 DEF popFindsEmpty, At
  <2>2. PICK w \in Loaded(t, 0, WritePartition) :
          at' = IF at[t].part >= w THEN [at EXCEPT ![t].pc = "idle", ![t].pos = 0, ![t].before = {}]
                ELSE [at EXCEPT ![t].pc = "drained"]
    BY <1>12 DEF popFindsEmpty
  <2>3. w \in Ladder /\ w <= WritePartition
    BY <1>1, <1>3, LoadedBounds
  <2>4. CASE p >= w
    <3> DEFINE r == [at[t] EXCEPT !.pc = "idle", !.pos = 0, !.before = {}]
    <3>1. at' = [at EXCEPT ![t] = r]
      BY <2>2, <2>4, <1>2, Zenon
    <3>2. r \in Place /\ r.pc = "idle" /\ r.part = p /\ r.pos = 0 /\ r.sent = at[t].sent
      BY <1>2, <1>3, Zenon DEF Place, Stages
    <3> HIDE DEF r
    <3> QED BY <2>1, <3>1, <3>2, <1>3, <1>6, Zenon
  <2>5. CASE ~(p >= w)
    <3> DEFINE r == [at[t] EXCEPT !.pc = "drained"]
    <3>1. at' = [at EXCEPT ![t] = r]
      BY <2>2, <2>5, <1>2
    <3>2. r \in Place /\ r.pc = "drained" /\ r.part = p /\ r.pos = d /\ r.sent = at[t].sent
      BY <1>2, <1>3, Zenon DEF Place, Stages
    <3>3. p < WritePartition
      BY <2>3, <2>5, <1>1, <1>3, CursorType
    <3> HIDE DEF r
    <3> QED BY <2>1, <3>1, <3>2, <3>3, <1>3, <1>6, Zenon
  <2> QED BY <2>4, <2>5
<1>13. CASE popReadsEnqueue(t)
  <2>1. Local /\ at[t].pc = "drained"
    BY <1>13 DEF popReadsEnqueue, At
  <2>2. p < WritePartition
    BY <2>1, <1>1, <1>2, Zenon DEF ConsumerOK
  <2>3. PICK c \in {"advance", "compare"}, j \in Nat :
          /\ at' = [at EXCEPT ![t].pc = c, ![t].pos = j]
          /\ c = "advance" => enqueuePos[p] = Sealed
          /\ c = "compare" => j # Sealed
    BY <1>2, <1>3, <1>13 DEF popReadsEnqueue, GoAt
  <2> DEFINE r == [at[t] EXCEPT !.pc = c, !.pos = j]
  <2>4. at' = [at EXCEPT ![t] = r]
    BY <2>3, Zenon
  <2>5. r \in Place /\ r.pc = c /\ r.part = p /\ r.pos = j /\ r.sent = at[t].sent
    BY <1>2, <1>3, Zenon DEF Place, Stages
  <2> HIDE DEF r
  <2> QED BY <2>1, <2>2, <2>3, <2>4, <2>5, <1>3, <1>6, Zenon
<1>14. CASE popCompares(t)
  <2>1. Local /\ at[t].pc = "compare"
    BY <1>14 DEF popCompares, At
  <2>2. p < WritePartition /\ d # Sealed
    BY <2>1, <1>1, <1>2, Zenon DEF ConsumerOK
  <2>3. PICK c \in {"seal", "again"}, j \in Nat :
          /\ at' = [at EXCEPT ![t].pc = c, ![t].pos = j]
          /\ c = "seal" => j = d /\ d = dequeuePos[p]
    <3>1. CASE dequeuePos[p] = d
      <4>1. at' = [at EXCEPT ![t].pc = "seal"]
        BY <3>1, <1>2, <1>14 DEF popCompares, Go
      <4>2. at' = [at EXCEPT ![t].pc = "seal", ![t].pos = d]
        BY <4>1, <1>2, <1>3, Zenon DEF Place
      <4> QED BY <3>1, <4>2, <1>2, Zenon
    <3>2. CASE dequeuePos[p] # d
      BY <3>2, <1>2, <1>14 DEF popCompares, GoAt
    <3> QED BY <3>1, <3>2
  <2> DEFINE r == [at[t] EXCEPT !.pc = c, !.pos = j]
  <2>4. at' = [at EXCEPT ![t] = r]
    BY <2>3, Zenon
  <2>5. r \in Place /\ r.pc = c /\ r.part = p /\ r.pos = j /\ r.sent = at[t].sent
    BY <1>2, <1>3, Zenon DEF Place, Stages
  <2>6. c = "seal" => j <= dequeuePos[p]
    BY <2>3, <1>3
  <2> HIDE DEF r
  <2> QED BY <2>1, <2>2, <2>3, <2>4, <2>5, <2>6, <1>3, <1>6, Zenon
<1>15. CASE popSeals(t)
  <2>1. at[t].pc = "seal" /\ UNCHANGED <<cell, dequeuePos, WritePartition, ReadPartition, taken>>
    BY <1>15 DEF popSeals, At
  <2>2. CASE enqueuePos[p] = d
    <3> DEFINE r == [at[t] EXCEPT !.pc = "advance", !.pos = 0]
    <3>1. enqueuePos' = [enqueuePos EXCEPT ![p] = Sealed] /\ at' = [at EXCEPT ![t] = r]
      BY <2>2, <1>2, <1>15, Zenon DEF popSeals, GoAt
    <3>2. r \in Place /\ r.pc = "advance" /\ r.part = p /\ r.pos = 0 /\ r.sent = at[t].sent
      BY <1>2, <1>3, Zenon DEF Place, Stages
    <3> HIDE DEF r
    <3>3. enqueuePos' \in [Ladder -> Nat]
      BY <3>1, <1>3, SealAssumption
    <3>4. TypeInv' /\ at'[t] = r /\ \A u \in Threads : u # t => at'[u] = at[u]
      BY <2>1, <3>1, <3>2, <3>3, <1>1, <1>3, TypeMove, Zenon
    <3> QED BY <2>1, <2>2, <3>1, <3>2, <3>4, <1>2, PopSeal, Zenon
  <2>3. CASE enqueuePos[p] # d
    <3> DEFINE r == [at[t] EXCEPT !.pc = "again", !.pos = 0]
    <3>1. enqueuePos' = enqueuePos /\ at' = [at EXCEPT ![t] = r]
      BY <2>3, <1>2, <1>15, Zenon DEF popSeals, GoAt
    <3>2. r \in Place /\ r.pc = "again" /\ r.part = p /\ r.pos = 0 /\ r.sent = at[t].sent
      BY <1>2, <1>3, Zenon DEF Place, Stages
    <3>3. Local
      BY <2>1, <3>1 DEF Local
    <3> HIDE DEF r
    <3> QED BY <2>1, <3>1, <3>2, <3>3, <1>3, <1>6, Zenon
  <2> QED BY <2>2, <2>3
<1>16. CASE popAdvances(t)
  <2>1. at[t].pc = "advance" /\ UNCHANGED <<cell, enqueuePos, dequeuePos, WritePartition, taken>>
    BY <1>16 DEF popAdvances, At
  <2>2. p < WritePartition /\ enqueuePos[p] = Sealed
    BY <2>1, <1>1, <1>2, Zenon DEF ConsumerOK
  <2>3. ReadPartition' = IF ReadPartition = p THEN p + 1 ELSE ReadPartition
    BY <1>2, <1>16 DEF popAdvances
  <2>4. PICK n \in Ladder : n = ReadPartition' /\ ReadPartition <= n /\ n <= WritePartition /\ p <= n /\ n <= n
    BY <2>2, <2>3, <1>3, SizeAssumption DEF Ladder
  <2>5. \A q \in Ladder : q < n => enqueuePos[q] = Sealed
    <3> TAKE q \in Ladder
    <3>1. q \in Nat
      BY <1>1, CursorType
    <3> QED BY <3>1, <2>2, <2>3, <2>4, <1>3, <1>4
  <2> DEFINE r == [at[t] EXCEPT !.pc = "again", !.part = n]
  <2>6. at' = [at EXCEPT ![t] = r]
    BY <2>4, <1>16, Zenon DEF popAdvances
  <2>7. r \in Place /\ r.pc = "again" /\ r.part = n /\ r.pos = d /\ r.sent = at[t].sent
    BY <1>2, <1>3, Zenon DEF Place, Stages
  <2> HIDE DEF r
  <2>8. TypeInv' /\ at'[t] = r /\ \A u \in Threads : u # t => at'[u] = at[u]
    BY <2>1, <2>4, <2>6, <2>7, <1>1, <1>3, TypeMove, Zenon
  <2> QED BY <2>1, <2>4, <2>5, <2>7, <2>8, <1>2, QuietPop, SMTT(30)
<1> QED BY <1>7, <1>8, <1>9, <1>10, <1>11, <1>12, <1>13, <1>14, <1>15, <1>16, SMTT(30) DEF concurrentQueuePop
-----------------------------------------------------------------------------
(* The theorems. *)

\* The queue that concurrentQueueInit makes satisfies the invariant.
LEMMA QueueInit == Init => QueueInv
<1> SUFFICES ASSUME Init PROVE QueueInv
  OBVIOUS
<1>1. 0 \in Ladder /\ \A p \in Ladder : p \in Nat
  BY SizeAssumption DEF Ladder
<1>2. \A t \in Threads : at[t] = [pc |-> "idle", part |-> 0, pos |-> 0, sent |-> 0, before |-> {}]
  BY DEF Init
<1>3. \A p \in Ladder : enqueuePos[p] = 0 /\ dequeuePos[p] = 0 /\ Top(p) = 0
  BY DEF Init, Top
<1>4. \A p \in Ladder, i \in Nat : i < Size(p) => cell[p][i] = [sequence |-> i, data |-> <<>>]
  BY SizeType DEF Init
<1>5. TypeInv
  <2>1. cell = [p \in Ladder |-> cell[p]]
    BY DEF Init
  <2>2. \A p \in Ladder : cell[p] \in [0 .. Size(p) - 1 -> [sequence : Nat, data : Values \cup {<<>>}]]
    BY SizeType DEF Init
  <2>3. at \in [Threads -> Place]
    <3>1. [pc |-> "idle", part |-> 0, pos |-> 0, sent |-> 0, before |-> {}] \in Place
      BY <1>1 DEF Place, Stages
    <3> QED BY <3>1 DEF Init
  <2> QED BY <2>1, <2>2, <2>3, <1>1 DEF Init, TypeInv, TypeOK
<1>6. \A t \in Threads : \A p, j : ~Writer(t, p, j) /\ ~Reader(t, p, j)
  BY <1>2 DEF Writer, Reader
<1>7. Published = {} /\ Claimed = {}
  <2>1. \A v \in Values : v[1] \in Threads /\ v[2] \in Nat /\ 1 <= v[2]
    BY ValuesType DEF Threads
  <2> QED BY <2>1, <1>2 DEF Published, Claimed
<1>8. \A p \in Ladder : RingOK(p)
  <2> TAKE p \in Ladder
  <2>1. Size(p) \in Nat /\ Size(p) >= 2
    BY SizeType
  <2>2. Cardinality(Claimed) = 0
    BY <1>7, FS_EmptySet
  <2>3. \A j \in 0 .. 0 + Size(p) - 1 : CellOK(p, j)
    <3> TAKE j \in 0 .. 0 + Size(p) - 1
    <3>1. j \in Nat /\ j < Size(p) /\ j \in 0 .. Size(p) - 1 /\ j = Size(p) * 0 + j
      BY <2>1
    <3>2. Index(p, j) = j
      BY <2>1, <3>1, ModUnique DEF Index
    <3>3. Sequence(p, j) = j /\ Data(p, j) = <<>>
      <4>1. cell[p][j] = [sequence |-> j, data |-> <<>>]
        BY <3>1, <1>4
      <4>2. Sequence(p, j) = cell[p][j].sequence /\ Data(p, j) = cell[p][j].data
        BY <3>2 DEF Sequence, Data
      <4> QED BY <4>1, <4>2
    <3> QED BY <3>1, <3>3, <1>3 DEF CellOK
  <2> QED BY <2>1, <2>2, <2>3, <1>3 DEF RingOK
<1>9. \A t \in Producers : ProducerOK(t)
  BY <1>2, ThreadAssumption DEF ProducerOK, Threads, Init
<1>10. \A t \in Consumers : ConsumerOK(t)
  BY <1>2 DEF ConsumerOK, Threads, Init
<1>11. \A p \in Ladder, j \in Positions : ~Held(p, j)
  <2> TAKE p \in Ladder, j \in Positions
  <2>1. j \in Nat
    BY SealAssumption DEF Positions
  <2> QED BY <2>1, <1>3, <1>6 DEF Held, Threads
<1>12. ValuesOK
  BY <1>7, <1>11 DEF ValuesOK, Init
<1>13. OrderOK
  BY <1>6 DEF OrderOK, Got, Init, Threads
<1>14. Cursors
  BY <1>1, <1>3 DEF Cursors, Init
<1> QED BY <1>5, <1>8, <1>9, <1>10, <1>12, <1>13, <1>14 DEF QueueInv

\* A step that changes nothing keeps the invariant.
LEMMA QueueStutter == QueueInv /\ UNCHANGED vars => QueueInv'
<1> SUFFICES ASSUME QueueInv, UNCHANGED vars PROVE QueueInv'
  OBVIOUS
<1>1. UNCHANGED <<cell, enqueuePos, dequeuePos, WritePartition, ReadPartition, at, taken>>
  BY DEF vars
<1>2. TypeInv'
  BY <1>1, Zenon DEF QueueInv, TypeInv, TypeOK, Ladder, Size, Threads, Values, Stages, Place
<1>3. \A p, j : Sequence(p, j)' = Sequence(p, j) /\ Data(p, j)' = Data(p, j)
  BY <1>1, CellsKept
<1>4. /\ \A p : Top(p)' = Top(p) /\ Size(p)' = Size(p)
      /\ \A t, p, j : (Writer(t, p, j)' <=> Writer(t, p, j)) /\ (Reader(t, p, j)' <=> Reader(t, p, j))
      /\ Published' = Published /\ Claimed' = Claimed
  BY <1>1 DEF Top, Size, Writer, Reader, Published, Claimed, Values
<1>5. \A p \in Ladder : RingOK(p)'
  BY <1>1, <1>3, <1>4 DEF QueueInv, RingOK, CellOK
<1>6. \A t \in Producers : ProducerOK(t)'
  <2> TAKE t \in Producers
  <2>1. TypeInv /\ ProducerOK(t) /\ t \in Threads
    BY DEF QueueInv, Threads
  <2>2. PICK p \in Ladder, j \in Nat : p = at[t].part /\ j = at[t].pos
    BY <2>1, PositionType
  <2>3. WritePartition <= WritePartition' /\ enqueuePos[p] <= enqueuePos'[p]
    BY <2>1, <2>2, <1>1, CursorType
  <2>4. at[t].pc = "publish" => /\ dequeuePos[p] <= j /\ j < Top(p)
                                /\ \A w \in Producers : Writer(w, p, j) => w = t
    BY <2>1, <2>2, Zenon DEF ProducerOK
  <2>5. at[t].pc = "publish" => /\ dequeuePos'[p] <= j /\ j < Top(p)'
                                /\ \A w \in Producers : Writer(w, p, j)' => w = t
    BY <2>4, <1>1, <1>4, SMTT(30)
  <2> QED BY <2>1, <2>2, <2>3, <2>5, <1>1, <1>2, <1>3, ProducerKept, SMTT(30)
<1>7. \A t \in Consumers : ConsumerOK(t)'
  <2> TAKE t \in Consumers
  <2>1. TypeInv /\ ConsumerOK(t) /\ t \in Threads
    BY DEF QueueInv, Threads
  <2>2. PICK p \in Ladder, j \in Nat : p = at[t].part /\ j = at[t].pos
    BY <2>1, PositionType
  <2>3. WritePartition <= WritePartition' /\ ReadPartition <= ReadPartition' /\ dequeuePos[p] <= dequeuePos'[p]
    BY <2>1, <2>2, <1>1, CursorType
  <2>4. at[t].pc = "read" => Top(p) <= j + Size(p) /\ \A w \in Consumers : Reader(w, p, j) => w = t
    BY <2>1, <2>2, Zenon DEF ConsumerOK
  <2>5. at[t].pc = "read" => Top(p)' <= j + Size(p) /\ \A w \in Consumers : Reader(w, p, j)' => w = t
    BY <2>4, <1>1, <1>4
  <2> QED BY <2>1, <2>2, <2>3, <2>5, <1>1, <1>2, <1>3, ConsumerKept, SMTT(30)
<1>8. \A p, j : Held(p, j)' <=> Held(p, j)
  BY <1>1, <1>3, <1>4, SMTT(30) DEF Held
<1>9. ValuesOK'
  BY <1>1, <1>3, <1>4, <1>8, ValuesKept DEF QueueInv
<1>10. OrderOK'
  <2>1. \A v : Got(v)' <=> Got(v)
    BY <1>1, <1>3, <1>4 DEF Got, Positions, Ladder
  <2> QED BY <2>1 DEF QueueInv, OrderOK
<1>11. Cursors'
  BY <1>1 DEF QueueInv, Cursors, Ladder
<1> QED BY <1>2, <1>5, <1>6, <1>7, <1>9, <1>10, <1>11 DEF QueueInv, Ladder

\* Cells, positions and threads of ringBuffer.c always fit together as QueueInv says.
THEOREM QueueInvariant == Spec => []QueueInv
<1>1. QueueInv /\ [Next]_vars => QueueInv'
  BY PushStep, PopStep, QueueStutter DEF Next
<1> QED BY QueueInit, <1>1, PTL DEF Spec

\* A step of one thread leaves the others where they are.
LEMMA OthersStay ==
  ASSUME TypeInv, NEW s \in Threads, concurrentQueuePush(s) \/ concurrentQueuePop(s), NEW u \in Threads, u # s
  PROVE  at'[u] = at[u]
<1>1. CASE concurrentQueuePush(s)
  BY <1>1 DEF concurrentQueuePush, pushSelects, pushPosition, pushLooks, pushClaims, pushPublishes, pushMovesUp,
              Go, GoAt, TypeInv, TypeOK
<1>2. CASE concurrentQueuePop(s)
  BY <1>2, Zenon DEF concurrentQueuePop, popSelects, popPosition, popLooks, popClaims, popReturns, popFindsEmpty,
              popReadsEnqueue, popCompares, popSeals, popAdvances, Go, GoAt, TypeInv, TypeOK
<1> QED BY <1>1, <1>2, SMTT(30)

\* What the pops can still find is what was published and not yet handed out.
NothingLost == Inside = Published \ taken

\* No published value of ringBuffer.c is lost in a ring that the read cursor has left.
LEMMA InsideIsUntaken == QueueInv => NothingLost
<1>1. \A v : v \in Inside <=> \/ \E p \in ReadPartition .. Partitions - 1 : v \in Readable(p)
                             \/ \E t \in Reading : v = Cell(t).data
  <2>1. \A v : v \in InRings <=> \E p \in ReadPartition .. Partitions - 1 : v \in Readable(p)
    BY DEF InRings
  <2>2. \A v : v \in InHands <=> \E t \in Reading : v = Cell(t).data
    BY DEF InHands
  <2> QED BY <2>1, <2>2 DEF Inside
<1> SUFFICES ASSUME QueueInv PROVE Inside = Published \ taken
  BY DEF NothingLost
<1>2. TypeInv /\ Cursors /\ ValuesOK /\ \A p \in Ladder : RingOK(p)
  BY DEF QueueInv
<1>3. \A p \in Ladder : p \in Nat
  BY <1>2, CursorType
<1>4. \A t \in Reading : /\ t \in Consumers
                         /\ \E p \in Ladder, j \in Positions : Reader(t, p, j) /\ Cell(t).data = Data(p, j)
  <2> TAKE t \in Reading
  <2>1. t \in Consumers /\ Reader(t, at[t].part, at[t].pos)
    BY DEF Reading, At, Reader
  <2>2. at[t].part \in Ladder /\ at[t].pos \in Positions
    BY <2>1, ReaderFacts
  <2> QED BY <2>1, <2>2 DEF Cell, Data
<1>5. ASSUME NEW v \in Inside PROVE v \in Published \ taken
  <2>1. ASSUME NEW p \in Ladder, NEW j \in Positions, Held(p, j), v = Data(p, j) PROVE v \in Published \ taken
    BY <2>1, <1>2 DEF ValuesOK
  <2>2. CASE \E p \in ReadPartition .. Partitions - 1 : v \in Readable(p)
    <3>1. PICK p \in ReadPartition .. Partitions - 1 : v \in Readable(p)
      BY <2>2
    <3>2. p \in Ladder
      BY <3>1, <1>2, CursorType, SizeAssumption DEF Ladder
    <3>3. PICK i \in Window(p) : Sequence(p, i) = i + 1 /\ v = Data(p, i)
      BY <3>1 DEF Readable, Sequence, Data
    <3>4. /\ Top(p) \in Nat /\ dequeuePos[p] \in Nat /\ Size(p) \in Nat
          /\ \A j \in Nat : j < Top(p) => j \in Positions
      BY <3>2, <1>2, TopBound
    <3>5. i \in Nat /\ dequeuePos[p] <= i /\ i < Top(p)
      BY <3>3, <3>4 DEF Window, Top
    <3>6. Held(p, i)
      BY <3>3, <3>5 DEF Held
    <3> QED BY <2>1, <3>2, <3>3, <3>4, <3>5, <3>6
  <2>3. CASE \E t \in Reading : v = Cell(t).data
    <3>1. PICK t \in Reading : v = Cell(t).data
      BY <2>3
    <3>2. PICK p \in Ladder, j \in Positions : Reader(t, p, j) /\ Cell(t).data = Data(p, j)
      BY <1>4
    <3>3. Held(p, j)
      BY <3>2, <1>4 DEF Held
    <3> QED BY <2>1, <3>1, <3>2, <3>3
  <2> QED BY <2>2, <2>3, <1>1
<1>6. ASSUME NEW v \in Published \ taken PROVE v \in Inside
  <2>1. PICK p \in Ladder, j \in Positions : Held(p, j) /\ Data(p, j) = v
    BY <1>2 DEF ValuesOK
  <2>2. CASE \E t \in Consumers : Reader(t, p, j)
    <3>1. PICK t \in Consumers : Reader(t, p, j)
      BY <2>2
    <3>2. t \in Reading /\ Cell(t).data = v
      BY <2>1, <3>1 DEF Reading, Reader, At, Cell, Data
    <3> QED BY <3>2, <1>1
  <2>3. CASE dequeuePos[p] <= j /\ j < Top(p) /\ Sequence(p, j) = j + 1
    <3>1. /\ Top(p) \in Nat /\ dequeuePos[p] \in Nat /\ Size(p) \in Nat /\ Top(p) <= dequeuePos[p] + Size(p)
          /\ Sealed \in Nat
      BY <1>2, TopBound
    <3>2. j \in Nat
      BY <3>1 DEF Positions
    <3>3. enqueuePos[p] # Sealed /\ enqueuePos[p] = Top(p)
      BY <2>3, <3>1, <3>2 DEF Top
    <3>4. p \in ReadPartition .. Partitions - 1
      <4>1. ~(p < ReadPartition)
        BY <3>3, <1>2, SMTT(30) DEF Cursors
      <4> QED BY <4>1, <1>2, <1>3, CursorType, SizeAssumption, SMTT(30) DEF Ladder
    <3>5. j \in Window(p)
      BY <2>3, <3>1, <3>2, <3>3, SMTT(30) DEF Window
    <3>6. v \in Readable(p)
      BY <2>1, <2>3, <3>5 DEF Readable, Sequence, Data
    <3> QED BY <3>4, <3>6, <1>1
  <2> QED BY <2>1, <2>2, <2>3 DEF Held
<1> QED BY <1>5, <1>6

\* The values of a producer are claimed by pops in the order of its pushes.
LEMMA PushOrder == QueueInv => ClaimedInPushOrder
<1> SUFFICES ASSUME QueueInv PROVE ClaimedInPushOrder
  OBVIOUS
<1>1. \A v : (v \in taken \cup {Cell(t).data : t \in Reading}) <=> Got(v)
  <2> TAKE v
  <2>1. \A t \in Consumers : t \in Reading => Reader(t, at[t].part, at[t].pos) /\ Cell(t).data = Data(at[t].part, at[t].pos)
    BY DEF Reading, Reader, At, Cell, Data
  <2>2. ASSUME NEW t \in Reading PROVE Got(Cell(t).data)
    <3>1. t \in Consumers /\ Reader(t, at[t].part, at[t].pos) /\ Cell(t).data = Data(at[t].part, at[t].pos)
      BY <2>1 DEF Reading
    <3>2. at[t].part \in Ladder /\ at[t].pos \in Positions
      BY <3>1, ReaderFacts
    <3> QED BY <3>1, <3>2 DEF Got
  <2>3. ASSUME NEW p, NEW j, NEW t \in Consumers, Reader(t, p, j) PROVE t \in Reading /\ Cell(t).data = Data(p, j)
    BY <2>3 DEF Reading, Reader, At, Cell, Data
  <2> QED BY <2>2, <2>3 DEF Got
<1>2. \A v \in Values : \A n \in 1 .. v[2] - 1 : <<v[1], n>> \in Values
  <2> TAKE v \in Values
  <2> TAKE n \in 1 .. v[2] - 1
  <2>1. v[1] \in Producers /\ v[2] \in Nat /\ v[2] <= MaxPushes[v[1]] /\ MaxPushes[v[1]] \in Nat
    BY ValuesType, ThreadAssumption
  <2> QED BY <2>1, ValuesOf
<1>3. OrderOK
  BY DEF QueueInv
<1> QED BY <1>1, <1>2, <1>3, Zenon DEF ClaimedInPushOrder, OrderOK

\* A step of the queue puts one published value in, takes one out, or changes neither.
LEMMA StepHandsOver ==
  ASSUME QueueInv, NothingLost, NothingLost', [Next]_vars
  PROVE  [\E v \in Values : H!Put(v) \/ H!Take(v)]_<<Inside, taken>>
<1>1. Inside = Published \ taken /\ Inside' = Published' \ taken'
  BY DEF NothingLost
<1>2. TypeInv /\ ValuesOK
  BY DEF QueueInv
<1>3. ASSUME \A u \in Producers : at'[u].sent = at[u].sent PROVE Published' = Published
  <2>1. \A v \in Values : at'[v[1]].sent = at[v[1]].sent
    BY <1>3, ValuesType
  <2> QED BY <2>1 DEF Published, Values
<1>4. ASSUME NEW t \in Producers, pushPublishes(t) PROVE H!Put(Item(t)) /\ Item(t) \in Values
  <2>1. /\ Item(t) \in Values /\ Item(t)[1] = t /\ Item(t)[2] = at[t].sent + 1 /\ at[t].sent \in Nat
        /\ Item(t) \notin Published /\ Item(t) = <<t, at[t].sent + 1>>
    BY <1>4, ItemFacts DEF pushPublishes, At
  <2>2. t \in Threads /\ \A u \in Producers : u \in Threads
    BY DEF Threads
  <2>3. at'[t].sent = at[t].sent + 1 /\ \A u \in Producers : u # t => at'[u] = at[u]
    BY <2>2, <1>2, <1>4, SMTT(30) DEF pushPublishes, TypeInv, TypeOK
  <2>4. Published' = Published \cup {Item(t)}
    <3>1. \A w \in Values : w \in Published' <=> w \in Published \/ w = Item(t)
      <4> TAKE w \in Values
      <4>1. w[1] \in Producers /\ w = <<w[1], w[2]>> /\ w[2] \in Nat
        BY ValuesType
      <4>2. CASE w[1] = t
        <5>1. w = Item(t) <=> w[2] = at[t].sent + 1
          BY <2>1, <4>1, <4>2
        <5>2. w \in Published <=> w[2] <= at[t].sent
          BY <4>2 DEF Published
        <5>3. w \in Published' <=> w[2] <= at[t].sent + 1
          BY <4>2, <2>3 DEF Published
        <5> QED BY <2>1, <4>1, <5>1, <5>2, <5>3, SMTT(30)
      <4>3. CASE w[1] # t
        BY <2>1, <2>3, <4>1, <4>3 DEF Published
      <4> QED BY <4>2, <4>3
    <3> QED BY <3>1, <2>1 DEF Published
  <2>5. taken' = taken
    BY <1>4 DEF pushPublishes
  <2>6. taken \subseteq Published
    BY <1>2 DEF ValuesOK
  <2> QED BY <2>1, <2>4, <2>5, <2>6, <1>1 DEF H!Put
<1>5. ASSUME NEW t \in Consumers, popReturns(t) PROVE \E v \in Values : H!Take(v)
  <2>1. Reader(t, at[t].part, at[t].pos) /\ t \in Threads /\ t \notin Producers
    BY <1>5, ThreadAssumption DEF popReturns, At, Reader, Threads
  <2>2. PICK p \in Ladder, j \in Positions : p = at[t].part /\ j = at[t].pos
    BY <2>1, ReaderFacts
  <2>3. Held(p, j) /\ Data(p, j) \in Values
    BY <2>1, <2>2, ReaderFacts DEF Held
  <2>4. Data(p, j) \in Published \ taken
    BY <2>3, <1>2 DEF ValuesOK
  <2>5. taken' = taken \cup {Data(p, j)}
    BY <2>2, <1>5 DEF popReturns, Cell, Data
  <2>6. \A u \in Producers : at'[u].sent = at[u].sent
    BY <2>1, <1>2, <1>5 DEF popReturns, TypeInv, TypeOK, Threads
  <2>7. Published' = Published
    BY <2>6, <1>3
  <2> QED BY <2>3, <2>4, <2>5, <2>7, <1>1 DEF H!Take
<1>6. ASSUME NEW t \in Producers, concurrentQueuePush(t), ~pushPublishes(t) PROVE UNCHANGED <<Inside, taken>>
  <2>1. t \in Threads
    BY DEF Threads
  <2>2. at'[t].sent = at[t].sent
    <3>1. at \in [Threads -> Place] /\ at[t] \in Place
      BY <1>2, <2>1, Typed
    <3> QED BY <1>6, <2>1, <3>1 DEF concurrentQueuePush, pushSelects, pushPosition, pushLooks, pushClaims,
                                    pushMovesUp, Go, GoAt, Place
  <2>3. taken' = taken
    BY <1>6 DEF concurrentQueuePush, pushSelects, pushPosition, pushLooks, pushClaims, pushMovesUp, Local
  <2>4. \A u \in Producers : at'[u].sent = at[u].sent
    BY <2>1, <2>2, <1>2, <1>6, OthersStay DEF Threads
  <2> QED BY <2>3, <2>4, <1>1, <1>3
<1>7. ASSUME NEW t \in Consumers, concurrentQueuePop(t), ~popReturns(t) PROVE UNCHANGED <<Inside, taken>>
  <2>1. t \in Threads /\ t \notin Producers
    BY ThreadAssumption DEF Threads
  <2>2. taken' = taken
    BY <1>7, Zenon DEF concurrentQueuePop, popSelects, popPosition, popLooks, popClaims, popFindsEmpty,
                popReadsEnqueue, popCompares, popSeals, popAdvances, Local
  <2>3. \A u \in Producers : at'[u].sent = at[u].sent
    BY <2>1, <1>2, <1>7, OthersStay DEF Threads
  <2> QED BY <2>2, <2>3, <1>1, <1>3
<1>8. ASSUME UNCHANGED vars PROVE UNCHANGED <<Inside, taken>>
  <2>1. Published' = Published /\ taken' = taken
    BY <1>3, <1>8 DEF vars
  <2> QED BY <2>1, <1>1
<1>9. ASSUME NEW t \in Producers, concurrentQueuePush(t)
      PROVE  [\E v \in Values : H!Put(v) \/ H!Take(v)]_<<Inside, taken>>
  BY <1>4, <1>6, <1>9
<1>10. ASSUME NEW t \in Consumers, concurrentQueuePop(t)
       PROVE  [\E v \in Values : H!Put(v) \/ H!Take(v)]_<<Inside, taken>>
  BY <1>5, <1>7, <1>10
<1> QED BY <1>8, <1>9, <1>10 DEF Next

\* The lock-free queue of ringBuffer.c implements the hand-over that its users rely on:
\* every value whose push published it is inside until one pop takes it out, and the
\* values of one producer are claimed in the order it pushed them.
THEOREM QueueHandsOverOnce == Spec => HandsOverOnce
<1>1. Init /\ NothingLost => H!Init
  <2> SUFFICES ASSUME Init, NothingLost PROVE H!Init
    OBVIOUS
  <2>1. Published = {}
    <3>1. \A v \in Values : v[1] \in Threads /\ v[2] \in Nat /\ 1 <= v[2]
      BY ValuesType DEF Threads
    <3>2. \A t \in Threads : at[t].sent = 0
      BY DEF Init
    <3> QED BY <3>1, <3>2 DEF Published
  <2> QED BY <2>1 DEF NothingLost, H!Init, Init
<1>2. QueueInv /\ NothingLost /\ NothingLost' /\ [Next]_vars
        => [\E v \in Values : H!Put(v) \/ H!Take(v)]_<<Inside, taken>>
  BY StepHandsOver
<1>3. QueueInv => TypeOK /\ ClaimedInPushOrder /\ ReadBehindWrite
  BY PushOrder DEF QueueInv, TypeInv, Cursors, ReadBehindWrite
<1> QED BY QueueInvariant, InsideIsUntaken, <1>1, <1>2, <1>3, PTL DEF Spec, HandsOverOnce, H!Spec

\* A pop that finds nothing past a published value stands at the cell of a push that has
\* claimed it and has still to publish it.
LEMMA LookFindsEmpty ==
  ASSUME QueueInv, NEW t \in Consumers, popLooks(t), at'[t].pc = "empty",
         NEW v \in Values, NEW i \in Holding(at[t].part, v)
  PROVE  Stalled(at[t].part, i)
<1>1. TypeInv /\ t \in Threads /\ ConsumerOK(t) /\ at[t].pc = "look"
  BY DEF QueueInv, Threads, popLooks, At
<1>2. PICK p \in Ladder, j \in Nat : p = at[t].part /\ j = at[t].pos
  BY <1>1, PositionType
<1>3. j <= dequeuePos[p] /\ RingOK(p)
  BY <1>1, <1>2, ZenonT(30) DEF ConsumerOK, QueueInv
<1> DEFINE d == dequeuePos[p]
<1>4. Sequence(p, j) \in Nat /\ (j < d => Sequence(p, j) >= j + 1)
  BY <1>2, SequenceBounds
<1>5. Sequence(p, j) - (j + 1) < 0
  <2>1. at \in [Threads -> Place] /\ at[t] \in Place
    BY <1>1, Typed
  <2>2. \A c : at' = [at EXCEPT ![t].pc = c] => at'[t].pc = c
    BY <2>1, <1>1 DEF Place
  <2>3. Cell(t).sequence = Sequence(p, j)
    BY <1>2 DEF Cell, Sequence
  <2> QED BY <2>2, <2>3, <1>2 DEF popLooks, Go
<1>6. /\ Top(p) \in Nat /\ d \in Nat /\ Size(p) \in Nat /\ Size(p) >= 2
  BY <1>1, <1>3, TopBound
<1>7. j = d
  BY <1>2, <1>3, <1>4, <1>5, <1>6
<1>8. i \in Nat /\ d <= i /\ i < Top(p) /\ Data(p, i) = v
  <2>1. i \in Holding(p, v)
    BY <1>2
  <2>2. i \in Window(p) /\ Data(p, i) = v
    BY <2>1 DEF Holding, Data
  <2> QED BY <2>2, <1>6 DEF Window, Top
<1>9. CellOK(p, d)
  BY <1>3, <1>6, SMTT(30) DEF RingOK
<1>10. Data(p, d) = <<>> /\ \E u \in Producers : Writer(u, p, d)
  BY <1>4, <1>5, <1>6, <1>7, <1>8, <1>9, SMTT(30) DEF CellOK
<1>11. d < i
  BY <1>6, <1>8, <1>10, ValuesType
<1> QED BY <1>2, <1>10, <1>11 DEF Stalled, Writer, At

\* concurrentQueuePop answers "empty" in front of a published value only when a push
\* that claimed an earlier cell has still to publish it and to ring its doorbell.
THEOREM QueueEmptyOnlyBehindAPush == Spec => EmptyOnlyBehindAPush
<1> DEFINE Honest(t) ==
      /\ At(t, "look") /\ at'[t].pc = "empty" =>
           \A v \in at[t].before \ taken : \A i \in Holding(at[t].part, v) : Stalled(at[t].part, i)
      /\ At(t, "empty") /\ at'[t].pc = "idle" /\ t \notin StaleReaders =>
           \A v \in at[t].before \ taken : \A p \in at[t].part + 1 .. Partitions - 1 : Holding(p, v) = {}
<1>1. ASSUME QueueInv, Next, NEW t \in Consumers PROVE Honest(t)
  <2>1. TypeInv /\ t \in Threads /\ Cursors
    BY <1>1 DEF QueueInv, Threads
  <2>2. PICK s \in Threads : (s \in Producers /\ concurrentQueuePush(s)) \/ (s \in Consumers /\ concurrentQueuePop(s))
    BY <1>1 DEF Next, Threads
  <2>3. CASE s # t
    <3>1. at'[t] = at[t]
      BY <2>1, <2>2, <2>3, OthersStay, Zenon
    <3> QED BY <3>1 DEF At
  <2>4. CASE s = t
    <3>1. concurrentQueuePop(t)
      BY <2>2, <2>4, ThreadAssumption, Zenon
    <3>2. ASSUME At(t, "look"), at'[t].pc = "empty",
                 NEW v \in at[t].before \ taken, NEW i \in Holding(at[t].part, v)
          PROVE  Stalled(at[t].part, i)
      <4>1. popLooks(t)
        BY <3>1, <3>2 DEF concurrentQueuePop, popSelects, popPosition, popClaims, popReturns, popFindsEmpty,
                          popReadsEnqueue, popCompares, popSeals, popAdvances, At
      <4>2. v \in Values
        <5>1. at[t] \in Place
          BY <2>1, Typed
        <5>2. at[t].before \subseteq Values
          BY <5>1, Zenon DEF Place
        <5> QED BY <5>2, <3>2
      <4> QED BY <3>2, <4>1, <4>2, <1>1, LookFindsEmpty
    <3>3. ASSUME At(t, "empty"), at'[t].pc = "idle", t \notin StaleReaders, NEW v,
                 NEW p \in at[t].part + 1 .. Partitions - 1
          PROVE  Holding(p, v) = {}
      <4>1. popFindsEmpty(t)
        BY <3>1, <3>3 DEF concurrentQueuePop, popSelects, popPosition, popLooks, popClaims, popReturns,
                          popReadsEnqueue, popCompares, popSeals, popAdvances, At
      <4>2. at[t].part >= WritePartition
        <5> SUFFICES ASSUME ~(at[t].part >= WritePartition) PROVE FALSE
          OBVIOUS
        <5>1. at' = [at EXCEPT ![t].pc = "drained"]
          BY <3>3, <4>1 DEF popFindsEmpty, Loaded
        <5>2. at'[t].pc = "drained"
          BY <5>1, <2>1 DEF TypeInv, TypeOK
        <5> QED BY <3>3, <5>2
      <4>3. at[t].part \in Nat /\ WritePartition \in Nat
        BY <2>1, PositionType, CursorType
      <4>4. p \in Ladder /\ p > WritePartition
        BY <3>3, <4>2, <4>3, SizeAssumption DEF Ladder
      <4>5. enqueuePos[p] = 0 /\ dequeuePos[p] \in Nat /\ Size(p) \in Nat
        BY <4>4, <2>1, CursorType, SizeType, SMTT(30) DEF Cursors
      <4> QED BY <4>5 DEF Holding, Window
    <3> QED BY <3>2, <3>3
  <2> QED BY <2>3, <2>4
<1>2. QueueInv /\ [Next]_vars => [\A t \in Consumers : Honest(t)]_vars
  BY <1>1
<1> QED BY QueueInvariant, <1>2, PTL DEF Spec, EmptyOnlyBehindAPush
=============================================================================
