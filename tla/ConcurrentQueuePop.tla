-------------------------- MODULE ConcurrentQueuePop ------------------------
(***************************************************************************)
(* The steps of concurrentQueuePop that change a cell or a position keep   *)
(* the invariant of the queue.                                             *)
(***************************************************************************)
EXTENDS ConcurrentQueueInvariant

\* partitionPop: the store that frees the cell hands its value out, once.
LEMMA PopReturn ==
  ASSUME QueueInv, TypeInv', NEW t \in Consumers, NEW p, NEW r,
         at[t].pc = "read", p = at[t].part, r = at[t].pos,
         Store(t, r + Size(p), <<>>),
         taken' = taken \cup {Data(p, r)},
         \A u \in Threads : u # t => at'[u] = at[u],
         at'[t].pc = "idle", at'[t].part = p, at'[t].pos = 0, at'[t].sent = at[t].sent,
         UNCHANGED <<enqueuePos, dequeuePos, WritePartition, ReadPartition>>
  PROVE  QueueInv'
<1>1. TypeInv /\ t \in Threads /\ p \in Ladder /\ r \in Nat /\ ConsumerOK(t) /\ RingOK(p) /\ Reader(t, p, r)
  BY PositionType DEF QueueInv, Threads, Reader
<1> DEFINE d == dequeuePos[p]
           S == Size(p)
           v == Data(p, r)
<1>2. /\ r \in Positions /\ r < d /\ Top(p) <= r + S /\ Sequence(p, r) = r + 1 /\ v \in Values
      /\ \A u \in Consumers : Reader(u, p, r) => u = t
  BY <1>1, ReaderFacts
<1>3. /\ Top(p) \in Nat /\ d \in Nat /\ S \in Nat /\ S >= 2 /\ d <= Top(p) /\ Top(p) <= d + S
      /\ Sealed \in Nat
  BY <1>1, TopBound
<1>4. \A q \in Ladder, j \in Nat :
        /\ q = p /\ Index(p, j) = Index(p, r) => Sequence(q, j)' = r + S /\ Data(q, j)' = <<>>
        /\ ~(q = p /\ Index(p, j) = Index(p, r)) => Sequence(q, j)' = Sequence(q, j) /\ Data(q, j)' = Data(q, j)
  <2>1. r + S \in Nat /\ <<>> \in Values \cup {<<>>}
    BY <1>1, <1>3
  <2> QED BY <2>1, <1>1, StoreAt
<1> HIDE DEF v
<1>5. /\ \A i, j \in Nat : Index(p, i) = Index(p, j) /\ i < j => j >= i + S
      /\ Index(p, r + S) = Index(p, r)
  BY <1>1, IndexFacts
\* The freed cell is in the window as the position a lap later, which is unclaimed.
<1>6. \A j \in Nat : d <= j /\ j < d + S /\ j # r + S => Index(p, j) # Index(p, r)
  <2> TAKE j \in Nat
  <2> SUFFICES ASSUME d <= j, j < d + S, j # r + S, Index(p, j) = Index(p, r) PROVE FALSE
    OBVIOUS
  <2>1. j >= r + S
    BY <1>1, <1>2, <1>3, <1>5, SMTT(30)
  <2>2. r + S \in Nat /\ r + S < j /\ Index(p, r + S) = Index(p, j)
    BY <2>1, <1>1, <1>3, <1>5
  <2>3. j >= (r + S) + S
    BY <2>2, <1>5
  <2> QED BY <2>3, <1>1, <1>2, <1>3
<1>7. \A u \in Consumers : \A j : Reader(u, p, j) /\ u # t => j \in Nat /\ Index(p, j) # Index(p, r) /\ j # r
  <2> TAKE u \in Consumers
  <2> TAKE j
  <2> HAVE Reader(u, p, j) /\ u # t
  <2>1. j \in Nat /\ j < d /\ Top(p) <= j + S
    BY ReaderFacts
  <2>2. j # r
    BY <1>2
  <2>3. Index(p, j) = Index(p, r) => j >= r + S \/ r >= j + S
    BY <2>1, <2>2, <1>1, <1>5
  <2> QED BY <2>1, <2>2, <2>3, <1>1, <1>2, <1>3
<1>8. \A q : Top(q)' = Top(q)
  BY DEF Top
<1>9. /\ \A u \in Producers : \A q, j : Writer(u, q, j)' <=> Writer(u, q, j)
      /\ \A u \in Consumers : \A q, j : Reader(u, q, j)' <=> Reader(u, q, j) /\ u # t
  BY ThreadAssumption DEF Writer, Reader, Threads
<1>10. \A u \in Producers : u \in Threads /\ at'[u] = at[u]
  BY ThreadAssumption DEF Threads
<1>11. Published' = Published /\ Claimed' = Claimed
  <2>1. \A w \in Values : at'[w[1]] = at[w[1]]
    BY <1>10, ValuesType
  <2> QED BY <2>1 DEF Published, Claimed
<1>12. \A q \in Ladder : RingOK(q)'
  <2> TAKE q \in Ladder
  <2>1. RingOK(q) /\ Size(q)' = Size(q) /\ dequeuePos[q] \in Nat /\ Size(q) \in Nat
    BY <1>1, TopBound DEF QueueInv, Size
  <2>2. CASE q # p
    <3>1. \A j \in dequeuePos[q] .. dequeuePos[q] + Size(q) - 1 :
            /\ Sequence(q, j)' = Sequence(q, j) /\ Data(q, j)' = Data(q, j)
            /\ \A u \in Consumers : Reader(u, q, j - Size(q)) => Reader(u, q, j - Size(q))'
      <4> TAKE j \in dequeuePos[q] .. dequeuePos[q] + Size(q) - 1
      <4>1. j \in Nat
        BY <2>1
      <4>2. ~Reader(t, q, j - Size(q))
        BY <2>2 DEF Reader
      <4> QED BY <4>1, <4>2, <2>2, <1>4, <1>9
    <3> QED BY <2>1, <3>1, <1>8, <1>9, <1>11, RingKept, Zenon
  <2>3. CASE q = p
    <3>1. \A j \in d .. d + S - 1 : CellOK(p, j)'
      <4> TAKE j \in d .. d + S - 1
      <4>1. CellOK(p, j) /\ j \in Nat /\ d <= j /\ j < d + S
        BY <1>1, <1>3, SMTT(30) DEF RingOK
      <4>2. CASE j = r + S
        <5>1. Sequence(p, j)' = j /\ Data(p, j)' = <<>> /\ ~(j < Top(p)')
          BY <4>1, <4>2, <1>1, <1>2, <1>3, <1>4, <1>5, <1>8
        <5> QED BY <5>1 DEF CellOK
      <4>3. CASE j # r + S
        <5>1. Sequence(p, j)' = Sequence(p, j) /\ Data(p, j)' = Data(p, j)
          BY <4>1, <4>3, <1>1, <1>4, <1>6, Zenon
        <5>2. ~Reader(t, p, j - S)
          <6>1. j - S # r
            BY <4>1, <4>3, <1>1, <1>3
          <6> QED BY <6>1 DEF Reader
        <5> QED BY <4>1, <5>1, <5>2, <1>8, <1>9, <2>1, <2>3, Zenon DEF CellOK
      <4> QED BY <4>2, <4>3
    <3> QED BY <2>1, <2>3, <3>1, <1>8, <1>11, Zenon DEF RingOK
  <2> QED BY <2>2, <2>3
<1>13. \A u \in Producers : ProducerOK(u)'
  <2> TAKE u \in Producers
  <2>1. ProducerOK(u) /\ u \in Threads /\ at'[u] = at[u]
    BY <1>10 DEF QueueInv
  <2>2. PICK q \in Ladder, j \in Nat : q = at[u].part /\ j = at[u].pos
    BY <1>1, <2>1, PositionType, Zenon
  <2>3. at[u].pc = "claim" /\ j = enqueuePos'[q] => Sequence(q, j)' = Sequence(q, j)
    <3> SUFFICES ASSUME at[u].pc = "claim", j = enqueuePos[q], q = p, Index(p, j) = Index(p, r) PROVE FALSE
      BY <2>2, <1>4
    <3>1. Sequence(p, j) = j
      BY <2>1, <2>2 DEF ProducerOK
    <3>2. Sequence(p, r) = j
      BY <3>1 DEF Sequence
    <3>3. j = r + 1
      BY <3>2, <1>2
    <3> QED BY <3>3, <2>2, <1>1, <1>3, <1>5, SMTT(30)
  <2>4. at[u].pc = "publish" =>
          /\ dequeuePos'[q] <= j /\ j < Top(q)' /\ Sequence(q, j)' = Sequence(q, j)
          /\ \A w \in Producers : Writer(w, q, j)' => w = u
    <3> HAVE at[u].pc = "publish"
    <3>1. /\ dequeuePos[q] <= j /\ j < Top(q)
          /\ \A w \in Producers : Writer(w, q, j) => w = u
      BY <2>2, WriterFacts DEF Writer
    <3>2. q = p => j # r + S /\ j < d + S
      BY <3>1, <2>2, <1>1, <1>2, <1>3
    <3>3. Sequence(q, j)' = Sequence(q, j)
      BY <3>1, <3>2, <2>2, <1>4, <1>6, Zenon
    <3> QED BY <3>1, <3>3, <1>8, <1>9
  <2>5. WritePartition <= WritePartition' /\ enqueuePos[q] <= enqueuePos'[q]
    BY <1>1, CursorType
  <2> QED BY <2>1, <2>2, <2>3, <2>4, <2>5, <1>1, ProducerKept, Zenon
<1>14. \A u \in Consumers : ConsumerOK(u)'
  <2> TAKE u \in Consumers
  <2>1. CASE u = t
    BY <2>1, <1>1, Zenon DEF ConsumerOK
  <2>2. CASE u # t
    <3>1. ConsumerOK(u) /\ u \in Threads /\ at'[u] = at[u]
      BY <2>2 DEF QueueInv, Threads
    <3>2. PICK q \in Ladder, j \in Nat : q = at[u].part /\ j = at[u].pos
      BY <1>1, <3>1, PositionType, Zenon
    <3>3. at[u].pc = "claim" /\ j = dequeuePos'[q] => Sequence(q, j)' = Sequence(q, j)
      <4> SUFFICES ASSUME at[u].pc = "claim", j = dequeuePos[q], q = p, Index(p, j) = Index(p, r) PROVE FALSE
        BY <3>2, <1>4
      <4>1. Sequence(p, j) = j + 1
        BY <3>1, <3>2, Zenon DEF ConsumerOK
      <4>2. Sequence(p, r) = j + 1
        BY <4>1, Zenon DEF Sequence
      <4> QED BY <4>2, <3>2, <1>1, <1>2, <1>3, SMTT(30)
    <3>4. at[u].pc = "read" => /\ Top(q)' <= j + Size(q)
                               /\ Sequence(q, j)' = Sequence(q, j) /\ Data(q, j)' = Data(q, j)
                               /\ \A w \in Consumers : Reader(w, q, j)' => w = u
      <4> HAVE at[u].pc = "read"
      <4>1. /\ Reader(u, q, j) /\ Top(q) <= j + Size(q)
            /\ \A w \in Consumers : Reader(w, q, j) => w = u
        BY <3>2, ReaderFacts DEF Reader
      <4>2. Sequence(q, j)' = Sequence(q, j) /\ Data(q, j)' = Data(q, j)
        BY <2>2, <3>2, <4>1, <1>4, <1>7, Zenon
      <4> QED BY <4>1, <4>2, <1>8, <1>9
    <3>5. /\ WritePartition <= WritePartition' /\ ReadPartition <= ReadPartition'
          /\ dequeuePos[q] <= dequeuePos'[q]
      BY <1>1, CursorType
    <3>6. enqueuePos[q] = Sealed => enqueuePos'[q] = Sealed
      BY Zenon
    <3> QED BY <3>1, <3>2, <3>3, <3>4, <3>5, <3>6, <1>1, ConsumerKept, Zenon
  <2> QED BY <2>1, <2>2
<1>15. \A q \in Ladder, j \in Positions :
         /\ Held(q, j)' <=> Held(q, j) /\ ~(q = p /\ j = r)
         /\ Held(q, j)' => Data(q, j)' = Data(q, j)
  <2> TAKE q \in Ladder, j \in Positions
  <2>1. j \in Nat
    BY <1>3 DEF Positions
  <2>2. CASE q # p
    <3>1. \A u \in Consumers : Reader(u, q, j)' <=> Reader(u, q, j)
      BY <2>2, <1>9, ZenonT(30) DEF Reader
    <3> QED BY <2>1, <2>2, <3>1, <1>4, <1>8 DEF Held
  <2>3. CASE q = p /\ j = r
    <3>1. \A u \in Consumers : ~Reader(u, p, r)'
      BY <1>2, <1>9, Zenon
    <3>2. ~(dequeuePos'[p] <= r)
      BY <1>1, <1>2, <1>3
    <3>3. ~Held(p, r)'
      BY <3>1, <3>2, Zenon DEF Held
    <3> QED BY <2>3, <3>3
  <2>4. CASE q = p /\ j # r
    <3>1. d <= j /\ j < Top(p) => Sequence(p, j)' = Sequence(p, j) /\ Data(p, j)' = Data(p, j)
      <4> HAVE d <= j /\ j < Top(p)
      <4>1. j < d + S /\ j # r + S
        BY <2>1, <1>1, <1>2, <1>3
      <4> QED BY <4>1, <2>1, <1>1, <1>4, <1>6
    <3>2. \A u \in Consumers : Reader(u, p, j)' <=> Reader(u, p, j)
      BY <2>4, <1>9 DEF Reader
    <3>3. (\E u \in Consumers : Reader(u, p, j)) => Data(p, j)' = Data(p, j)
      <4> SUFFICES ASSUME NEW u \in Consumers, Reader(u, p, j) PROVE Data(p, j)' = Data(p, j)
        OBVIOUS
      <4>1. u # t
        BY <2>4, Zenon DEF Reader
      <4> QED BY <4>1, <2>1, <1>1, <1>4, <1>7, Zenon
    <3> QED BY <2>4, <3>1, <3>2, <3>3, <1>8, Zenon DEF Held
  <2> QED BY <2>2, <2>3, <2>4
\* The value leaves the one place that held it.
<1>16. ValuesOK'
  <2>1. ValuesOK
    BY DEF QueueInv
  <2>2. Held(p, r)
    BY <1>1, Zenon DEF Held
  <2>3. v \in Published
    BY <2>1, <2>2, <1>1, <1>2, Zenon DEF ValuesOK, v
  <2>4. \A q \in Ladder, j \in Positions : Held(q, j)' => Data(q, j)' = Data(q, j) /\ Held(q, j) /\ Data(q, j) # v
    <3> TAKE q \in Ladder, j \in Positions
    <3> HAVE Held(q, j)'
    <3>1. Data(q, j)' = Data(q, j) /\ Held(q, j) /\ ~(q = p /\ j = r)
      BY <1>15, Zenon
    <3>2. Data(q, j) # Data(p, r)
      BY <3>1, <2>1, <2>2, <1>1, <1>2 DEF ValuesOK
    <3> QED BY <3>1, <3>2 DEF v
  <2>5. taken' = taken \cup {v}
    BY Zenon DEF v
  <2>6. taken' \subseteq Published'
    BY <2>1, <2>3, <2>5, <1>11, Zenon DEF ValuesOK
  <2>7. \A q \in Ladder, j \in Positions : Held(q, j)' =>
          /\ Data(q, j)' \in Published' \ taken'
          /\ \A u \in Producers : Data(q, j)'[1] = u =>
               q <= at'[u].part /\ (at'[u].pc = "publish" /\ q = at'[u].part => j < at'[u].pos)
    <3> TAKE q \in Ladder, j \in Positions
    <3> HAVE Held(q, j)'
    <3>1. Data(q, j)' = Data(q, j) /\ Held(q, j) /\ Data(q, j) # v
      BY <2>4, Zenon
    <3>2. /\ Data(q, j) \in Published \ taken
          /\ \A u \in Producers : Data(q, j)[1] = u =>
               q <= at[u].part /\ (at[u].pc = "publish" /\ q = at[u].part => j < at[u].pos)
      BY <3>1, <2>1, Zenon DEF ValuesOK
    <3> QED BY <3>1, <3>2, <2>5, <1>10, <1>11, Zenon
  <2>8. \A q, s \in Ladder, i, j \in Positions : Held(q, i)' /\ Held(s, j)' =>
          /\ Data(q, i)' = Data(s, j)' => q = s /\ i = j
          /\ Data(q, i)'[1] = Data(s, j)'[1] /\ Data(q, i)'[2] < Data(s, j)'[2] => Before(q, i, s, j)
    BY <2>1, <2>4 DEF ValuesOK
  <2>9. \A w \in Published' \ taken' : \E q \in Ladder, j \in Positions : Held(q, j)' /\ Data(q, j)' = w
    <3> TAKE w \in Published' \ taken'
    <3>1. PICK q \in Ladder, j \in Positions : Held(q, j) /\ Data(q, j) = w
      BY <2>1, <2>5, <1>11, Zenon DEF ValuesOK
    <3>2. ~(q = p /\ j = r)
      BY <3>1, <2>5, Zenon DEF v
    <3> QED BY <3>1, <3>2, <1>15
  <2> QED BY <2>6, <2>7, <2>8, <2>9, Zenon DEF ValuesOK, Before, Positions, Ladder
<1>17. OrderOK'
  <2>1. \A q \in Ladder, j \in Positions, u \in Consumers : Reader(u, q, j) /\ u # t => Data(q, j)' = Data(q, j)
    <3> TAKE q \in Ladder, j \in Positions, u \in Consumers
    <3> HAVE Reader(u, q, j) /\ u # t
    <3>1. Held(q, j)'
      BY <1>9, Zenon DEF Held
    <3> QED BY <3>1, <1>15
  <2>2. \A w : Got(w)' <=> Got(w)
    <3> TAKE w
    <3>1. ASSUME Got(w) PROVE Got(w)'
      <4>1. CASE w \in taken
        BY <4>1, Zenon DEF Got
      <4>2. ASSUME NEW q \in Ladder, NEW j \in Positions, Data(q, j) = w, NEW u \in Consumers, Reader(u, q, j)
            PROVE  Got(w)'
        <5>1. CASE u = t
          <6>1. q = p /\ j = r
            BY <4>2, <5>1, Zenon DEF Reader
          <6> QED BY <6>1, <4>2 DEF Got
        <5>2. CASE u # t
          BY <4>2, <5>2, <2>1, <1>9, Zenon DEF Got, Positions, Ladder
        <5> QED BY <5>1, <5>2, Zenon
      <4> QED BY <3>1, <4>1, <4>2 DEF Got
    <3>2. ASSUME Got(w)' PROVE Got(w)
      <4>1. CASE w \in taken
        BY <4>1, Zenon DEF Got
      <4>2. CASE w = Data(p, r)
        BY <4>2, <1>1, <1>2 DEF Got
      <4>3. ASSUME NEW q \in Ladder, NEW j \in Positions, Data(q, j)' = w, NEW u \in Consumers, Reader(u, q, j)'
            PROVE  Got(w)
        <5>1. Reader(u, q, j) /\ u # t
          BY <4>3, <1>9, Zenon
        <5>2. Data(q, j) = w
          BY <4>3, <5>1, <2>1, Zenon
        <5> QED BY <5>1, <5>2, Zenon DEF Got
      <4> QED BY <3>2, <4>1, <4>2, <4>3, Zenon DEF Got, Positions, Ladder
    <3> QED BY <3>1, <3>2
  <2> QED BY <2>2 DEF QueueInv, OrderOK
<1>18. Cursors'
  BY DEF QueueInv, Cursors, Ladder
<1> QED BY <1>12, <1>13, <1>14, <1>16, <1>17, <1>18 DEF QueueInv, Ladder

\* partitionPop: the CAS on dequeuePos takes the oldest published cell; the claimed value
\* is the oldest of its producer, because the rings below are sealed and drained.
LEMMA PopClaim ==
  ASSUME QueueInv, TypeInv', NEW t \in Consumers, NEW p, NEW d,
         at[t].pc = "claim", p = at[t].part, d = at[t].pos, dequeuePos[p] = d,
         dequeuePos' = [dequeuePos EXCEPT ![p] = @ + 1],
         at' = [at EXCEPT ![t].pc = "read"],
         UNCHANGED <<cell, enqueuePos, WritePartition, ReadPartition, taken>>
  PROVE  QueueInv'
<1>1. TypeInv /\ t \in Threads /\ p \in Ladder /\ d \in Nat /\ ConsumerOK(t) /\ RingOK(p)
  BY PositionType DEF QueueInv, Threads
<1> DEFINE S == Size(p)
<1>2. Sequence(p, d) = d + 1
  BY <1>1 DEF ConsumerOK
<1>3. /\ Top(p) \in Nat /\ S \in Nat /\ S >= 2 /\ d <= Top(p) /\ Top(p) <= d + S
      /\ Top(p) + S < Sealed /\ Sealed \in Nat
  BY <1>1, TopBound
<1>4. \A j \in d .. d + S - 1 : CellOK(p, j)
  BY <1>1 DEF RingOK
<1>5. d < Top(p) /\ Data(p, d) \in Values
  <2>1. CellOK(p, d)
    BY <1>1, <1>3, <1>4
  <2> QED BY <2>1, <1>1, <1>2, <1>3, SMTT(30) DEF CellOK
<1>6. enqueuePos[p] # Sealed /\ Top(p) = enqueuePos[p]
  BY <1>1, <1>3, <1>5 DEF Top
<1>7. d \in Positions
  BY <1>1, <1>5, TopBound
<1>8. \A q, j : Sequence(q, j)' = Sequence(q, j) /\ Data(q, j)' = Data(q, j)
  BY CellsKept
<1>9. /\ \A u \in Threads : u # t => at'[u] = at[u]
      /\ at'[t].pc = "read" /\ at'[t].part = p /\ at'[t].pos = d /\ at'[t].sent = at[t].sent
  BY <1>1 DEF TypeInv, TypeOK
<1>10. dequeuePos'[p] = d + 1 /\ \A q \in Ladder : q # p => dequeuePos'[q] = dequeuePos[q]
  BY <1>1 DEF TypeInv, TypeOK
<1>11. \A q \in Ladder : Top(q)' = Top(q)
  BY <1>6, <1>10 DEF Top
<1>12. /\ \A u \in Producers : \A q, j : Writer(u, q, j)' <=> Writer(u, q, j)
       /\ \A u \in Consumers : \A q, j : Reader(u, q, j)' <=> Reader(u, q, j) \/ (u = t /\ q = p /\ j = d)
  BY <1>9, ThreadAssumption DEF Writer, Reader, Threads
<1>13. Published' = Published /\ Claimed' = Claimed
  <2>1. \A w \in Values : at'[w[1]] = at[w[1]]
    BY <1>9, ValuesType, ThreadAssumption DEF Threads
  <2> QED BY <2>1 DEF Published, Claimed
<1>14. \A q \in Ladder : RingOK(q)'
  <2> TAKE q \in Ladder
  <2>1. RingOK(q) /\ Size(q)' = Size(q)
    BY DEF QueueInv, Size
  <2>2. CASE q # p
    BY <2>1, <2>2, <1>8, <1>10, <1>11, <1>12, <1>13, RingKept, Zenon
  <2>3. CASE q = p
    <3>1. \A j \in d + 1 .. d + S : CellOK(p, j)'
      <4> TAKE j \in d + 1 .. d + S
      <4>1. CASE j = d + S
        <5>1. Index(p, j) = Index(p, d)
          BY <4>1, <1>1, IndexFacts
        <5>2. Sequence(p, j) = d + 1
          BY <5>1, <1>2 DEF Sequence
        <5>3. Sequence(p, j)' = j + 1 - S /\ Reader(t, p, j - S)' /\ ~(j < Top(p)')
          BY <4>1, <5>2, <1>1, <1>3, <1>8, <1>11, <1>12
        <5> QED BY <5>3, <2>1, <2>3 DEF CellOK
      <4>2. CASE j # d + S
        <5>1. CellOK(p, j)
          BY <4>2, <1>1, <1>3, <1>4
        <5> QED BY <5>1, <1>8, <1>11, <1>12, <2>1, <2>3, Zenon DEF CellOK
      <4> QED BY <4>1, <4>2
    <3>2. \A j \in dequeuePos'[p] .. dequeuePos'[p] + Size(p) - 1 : CellOK(p, j)'
      BY <3>1, <1>1, <1>3, <1>10
    <3>3. d + 1 <= Top(p) /\ Top(p) <= d + 1 + S /\ Top(p) <= Cardinality(Claimed)
      BY <1>1, <1>3, <1>5 DEF RingOK
    <3> QED BY <2>1, <2>3, <3>2, <3>3, <1>10, <1>11, <1>13, Zenon DEF RingOK
  <2> QED BY <2>2, <2>3
<1>15. \A u \in Producers : ProducerOK(u)'
  <2> TAKE u \in Producers
  <2>1. ProducerOK(u) /\ u \in Threads /\ at'[u] = at[u]
    BY <1>9, ThreadAssumption DEF QueueInv, Threads
  <2>2. PICK q \in Ladder, j \in Nat : q = at[u].part /\ j = at[u].pos
    BY <1>1, <2>1, PositionType
  <2>3. at[u].pc = "publish" =>
          /\ dequeuePos'[q] <= j /\ j < Top(q)'
          /\ \A w \in Producers : Writer(w, q, j)' => w = u
    <3> HAVE at[u].pc = "publish"
    <3>1. /\ dequeuePos[q] <= j /\ j < Top(q) /\ Sequence(q, j) = j
          /\ \A w \in Producers : Writer(w, q, j) => w = u
      BY <2>2, WriterFacts DEF Writer
    <3>2. dequeuePos'[q] <= j
      BY <3>1, <2>2, <1>1, <1>2, <1>10
    <3> QED BY <3>1, <3>2, <1>11, <1>12
  <2>4. WritePartition <= WritePartition' /\ enqueuePos[q] <= enqueuePos'[q]
    BY <1>1, CursorType
  <2> QED BY <2>1, <2>2, <2>3, <2>4, <1>1, <1>8, ProducerKept, Zenon
<1>16. \A u \in Consumers : ConsumerOK(u)'
  <2> TAKE u \in Consumers
  <2>1. CASE u = t
    <3>1. \A w \in Consumers : Reader(w, p, d)' => w = t
      <4> TAKE w \in Consumers
      <4>1. Reader(w, p, d) => d < dequeuePos[p]
        BY ReaderFacts
      <4> QED BY <4>1, <1>1, <1>12
    <3>2. p <= ReadPartition
      BY <1>1 DEF ConsumerOK
    <3>3. Size(p)' = Size(p)
      BY DEF Size
    <3>4. d < d + 1 /\ Top(p)' <= d + S /\ Sequence(p, d)' = d + 1 /\ Data(p, d)' \in Values
      BY <1>1, <1>2, <1>3, <1>5, <1>8, <1>11
    <3> QED BY <2>1, <3>1, <3>2, <3>3, <3>4, <1>9, <1>10 DEF ConsumerOK
  <2>2. CASE u # t
    <3>1. ConsumerOK(u) /\ u \in Threads /\ at'[u] = at[u]
      BY <2>2, <1>9 DEF QueueInv, Threads
    <3>2. PICK q \in Ladder, j \in Nat : q = at[u].part /\ j = at[u].pos
      BY <1>1, <3>1, PositionType
    <3>3. dequeuePos[q] \in Nat /\ dequeuePos[q] <= dequeuePos'[q]
      BY <1>1, <1>10, <3>2, CursorType
    <3>4. at[u].pc = "claim" /\ j = dequeuePos'[q] => j = dequeuePos[q]
      <4>1. at[u].pc = "claim" => j <= dequeuePos[q]
        BY <3>1, <3>2 DEF ConsumerOK
      <4> QED BY <4>1, <3>2, <3>3, <1>1, <1>10
    <3>5. at[u].pc = "read" => /\ Top(q)' <= j + Size(q)
                               /\ \A w \in Consumers : Reader(w, q, j)' => w = u
      <4> HAVE at[u].pc = "read"
      <4>1. /\ j < dequeuePos[q] /\ Top(q) <= j + Size(q)
            /\ \A w \in Consumers : Reader(w, q, j) => w = u
        BY <3>2, ReaderFacts DEF Reader
      <4>2. ~(q = p /\ j = d)
        BY <4>1, <1>1
      <4> QED BY <4>1, <4>2, <1>11, <1>12
    <3>6. WritePartition <= WritePartition' /\ ReadPartition <= ReadPartition'
      BY <1>1, CursorType
    <3> QED BY <3>1, <3>2, <3>3, <3>4, <3>5, <3>6, <1>1, <1>8, ConsumerKept, Zenon
  <2> QED BY <2>1, <2>2
<1>17. \A q \in Ladder, j \in Positions : Held(q, j)' <=> Held(q, j)
  <2> TAKE q \in Ladder, j \in Positions
  <2>1. j \in Nat
    BY <1>3 DEF Positions
  <2>2. CASE q # p
    BY <2>2, <1>8, <1>10, <1>11, <1>12 DEF Held
  <2>3. CASE q = p /\ j = d
    <3>1. Held(p, d) /\ Held(p, d)'
      BY <1>1, <1>2, <1>5, <1>12 DEF Held
    <3> QED BY <2>3, <3>1
  <2>4. CASE q = p /\ j # d
    <3>1. d + 1 <= j <=> d <= j
      BY <2>1, <2>4, <1>1
    <3> QED BY <2>4, <3>1, <1>1, <1>8, <1>10, <1>11, <1>12 DEF Held
  <2> QED BY <2>2, <2>3, <2>4
<1>18. ValuesOK'
  <2>1. \A u \in Producers : at'[u] = at[u]
    BY <1>9, ThreadAssumption DEF Threads
  <2> QED BY <2>1, <1>8, <1>13, <1>17, ValuesKept DEF QueueInv
\* The claimed value is the oldest of its producer, since the rings below are drained.
<1>19. OrderOK'
  <2>1. ValuesOK /\ OrderOK /\ Cursors
    BY DEF QueueInv
  <2>2. \A w : Got(w)' <=> Got(w) \/ w = Data(p, d)
    BY <1>1, <1>7, <1>8, <1>12 DEF Got, Positions, Ladder
  <2> SUFFICES ASSUME NEW w \in Values, Got(w)', NEW n \in 1 .. w[2] - 1
               PROVE  Got(<<w[1], n>>)'
    BY DEF OrderOK
  <2>3. CASE Got(w)
    BY <2>1, <2>2, <2>3 DEF OrderOK
  <2>4. CASE w = Data(p, d)
    <3>1. Held(p, d) /\ Data(p, d) \in Published
      BY <1>1, <1>2, <1>5, <1>7, <2>1 DEF Held, ValuesOK
    <3>2. w[1] \in Producers /\ w[2] \in Nat /\ w[2] <= MaxPushes[w[1]] /\ MaxPushes[w[1]] \in Nat
      BY ValuesType, ThreadAssumption
    <3>3. n \in Nat /\ 1 <= n /\ n < w[2]
      BY <3>2
    <3>4. <<w[1], n>> \in Values
      BY <3>2, <3>3, ValuesOf
    <3>5. <<w[1], n>> \in Published
      <4>1. w[2] <= at[w[1]].sent /\ at[w[1]].sent \in Nat
        BY <1>1, <2>4, <3>1, <3>2, PositionType DEF Published, Threads
      <4> QED BY <4>1, <3>2, <3>3, <3>4, SMTT(30) DEF Published
    <3>6. CASE <<w[1], n>> \in taken
      BY <3>6, <2>2 DEF Got
    <3>7. CASE <<w[1], n>> \notin taken
      <4>1. PICK q \in Ladder, j \in Positions : Held(q, j) /\ Data(q, j) = <<w[1], n>>
        BY <3>5, <3>7, <2>1 DEF ValuesOK
      <4>2. Before(q, j, p, d)
        <5>1. Data(q, j)[1] = Data(p, d)[1] /\ Data(q, j)[2] < Data(p, d)[2]
          BY <4>1, <2>4, <3>3
        <5> QED BY <5>1, <4>1, <3>1, <1>1, <1>7, <2>1, Zenon DEF ValuesOK
      <4>3. ~(dequeuePos[q] <= j /\ j < Top(q))
        <5>1. j \in Nat /\ dequeuePos[q] \in Nat /\ q \in Nat /\ p \in Nat /\ ReadPartition \in Nat
          BY <1>1, <1>3, CursorType DEF Positions
        <5>2. CASE q < p
          <6>1. p <= ReadPartition
            BY <1>1 DEF ConsumerOK
          <6>2. enqueuePos[q] = Sealed
            BY <5>1, <5>2, <6>1, <2>1 DEF Cursors
          <6>3. Top(q) = dequeuePos[q]
            BY <6>2 DEF Top
          <6> QED BY <5>1, <6>3
        <5>3. CASE q = p /\ j < d
          BY <5>1, <5>3, <1>1
        <5> QED BY <5>2, <5>3, <4>2 DEF Before
      <4>4. \E u \in Consumers : Reader(u, q, j)
        BY <4>1, <4>3 DEF Held
      <4>5. Got(<<w[1], n>>)
        BY <4>1, <4>4 DEF Got
      <4> QED BY <4>5, <2>2
    <3> QED BY <3>6, <3>7
  <2> QED BY <2>2, <2>3, <2>4
<1>20. Cursors'
  BY DEF QueueInv, Cursors, Ladder
<1> QED BY <1>14, <1>15, <1>16, <1>18, <1>19, <1>20 DEF QueueInv, Ladder

\* The CAS that seals a ring succeeds only when every claimed position was popped.
LEMMA PopSeal ==
  ASSUME QueueInv, TypeInv', NEW t \in Consumers, NEW p, NEW e,
         at[t].pc = "seal", p = at[t].part, e = at[t].pos, enqueuePos[p] = e,
         enqueuePos' = [enqueuePos EXCEPT ![p] = Sealed],
         \A u \in Threads : u # t => at'[u] = at[u],
         at'[t].pc = "advance", at'[t].part = p, at'[t].pos = 0, at'[t].sent = at[t].sent,
         UNCHANGED <<cell, dequeuePos, WritePartition, ReadPartition, taken>>
  PROVE  QueueInv'
<1>1. TypeInv /\ t \in Threads /\ p \in Ladder /\ e \in Nat /\ ConsumerOK(t) /\ RingOK(p)
  BY PositionType, Zenon DEF QueueInv, Threads
<1>2. e # Sealed /\ e <= dequeuePos[p] /\ p < WritePartition /\ p <= ReadPartition
  BY <1>1, Zenon DEF ConsumerOK
<1>3. Top(p) = e /\ dequeuePos[p] = e /\ e < Sealed /\ Sealed \in Nat
  <2>1. Top(p) = e
    BY <1>2, Zenon DEF Top
  <2>2. dequeuePos[p] \in Nat /\ dequeuePos[p] <= e /\ Size(p) \in Nat /\ e + Size(p) < Sealed /\ Sealed \in Nat
    BY <2>1, <1>1, TopBound
  <2> QED BY <2>1, <2>2, <1>1, <1>2
<1>5. enqueuePos'[p] = Sealed /\ \A q \in Ladder : q # p => enqueuePos'[q] = enqueuePos[q]
  BY <1>1 DEF TypeInv, TypeOK
<1>6. \A q \in Ladder : Top(q)' = Top(q)
  BY <1>3, <1>5, Zenon DEF Top
<1>7. /\ \A u \in Threads : \A q, j : Writer(u, q, j)' <=> Writer(u, q, j)
      /\ \A u \in Threads : \A q, j : Reader(u, q, j)' <=> Reader(u, q, j)
      /\ Published' = Published
      /\ Claimed' = Claimed
  BY <1>1, ViewKept, Zenon
<1>8. \A q, j : Sequence(q, j)' = Sequence(q, j) /\ Data(q, j)' = Data(q, j)
  BY CellsKept, Zenon
<1>9. \A q \in Ladder : RingOK(q)'
  <2> TAKE q \in Ladder
  <2>1. RingOK(q)
    BY Zenon DEF QueueInv
  <2> QED BY <2>1, <1>6, <1>7, <1>8, RingKept, Zenon DEF Threads
<1>10. \A u \in Producers : ProducerOK(u)'
  <2> TAKE u \in Producers
  <2>1. ProducerOK(u) /\ u \in Threads /\ at'[u] = at[u]
    BY ThreadAssumption DEF QueueInv, Threads
  <2>2. PICK q \in Ladder, j \in Nat : q = at[u].part /\ j = at[u].pos
    BY <1>1, <2>1, PositionType, Zenon
  <2>3. at[u].pc = "publish" =>
          /\ dequeuePos'[q] <= j /\ j < Top(q)'
          /\ \A w \in Producers : Writer(w, q, j)' => w = u
    <3> HAVE at[u].pc = "publish"
    <3>1. /\ dequeuePos[q] <= j /\ j < Top(q)
          /\ \A w \in Producers : Writer(w, q, j) => w = u
      BY <2>2, WriterFacts, Zenon DEF Writer
    <3> QED BY <3>1, <1>6, <1>7, Zenon DEF Threads
  <2>4. WritePartition <= WritePartition' /\ enqueuePos[q] <= enqueuePos'[q]
    BY <1>1, <1>3, <1>5, CursorType
  <2>5. at[u].pc = "claim" /\ j = enqueuePos'[q] => j = enqueuePos[q]
    BY <2>1, <2>2, <1>5, Zenon DEF ProducerOK
  <2> QED BY <2>1, <2>2, <2>3, <2>4, <2>5, <1>1, <1>8, ProducerKept, Zenon
<1>11. \A u \in Consumers : ConsumerOK(u)'
  <2> TAKE u \in Consumers
  <2>1. CASE u = t
    BY <2>1, <1>2, <1>5, Zenon DEF ConsumerOK
  <2>2. CASE u # t
    <3>1. ConsumerOK(u) /\ u \in Threads /\ at'[u] = at[u]
      BY <2>2, Zenon DEF QueueInv, Threads
    <3>2. PICK q \in Ladder, j \in Nat : q = at[u].part /\ j = at[u].pos
      BY <1>1, <3>1, PositionType, Zenon
    <3>3. at[u].pc = "read" => /\ Top(q)' <= j + Size(q)
                               /\ \A w \in Consumers : Reader(w, q, j)' => w = u
      <4> HAVE at[u].pc = "read"
      <4>1. /\ Top(q) <= j + Size(q)
            /\ \A w \in Consumers : Reader(w, q, j) => w = u
        BY <3>2, ReaderFacts, Zenon DEF Reader
      <4> QED BY <4>1, <1>6, <1>7, Zenon DEF Threads
    <3>4. /\ WritePartition <= WritePartition' /\ ReadPartition <= ReadPartition'
          /\ dequeuePos[q] <= dequeuePos'[q]
      BY <1>1, CursorType
    <3>5. enqueuePos[q] = Sealed => enqueuePos'[q] = Sealed
      BY <1>5, Zenon
    <3> QED BY <3>1, <3>2, <3>3, <3>4, <3>5, <1>1, <1>8, ConsumerKept, Zenon
  <2> QED BY <2>1, <2>2, Zenon
<1>12. \A q \in Ladder, j \in Positions : Held(q, j)' <=> Held(q, j)
  BY <1>6, <1>7, <1>8, Zenon DEF Held, Threads
<1>13. ValuesOK'
  <2>1. \A u \in Producers : at'[u] = at[u]
    BY ThreadAssumption, Zenon DEF Threads
  <2> QED BY <2>1, <1>7, <1>8, <1>12, ValuesKept, Zenon DEF QueueInv
<1>14. OrderOK'
  <2>1. \A v : Got(v)' <=> Got(v)
    BY <1>7, <1>8, Zenon DEF Got, Positions, Threads, Ladder
  <2> QED BY <2>1, Zenon DEF QueueInv, OrderOK
<1>15. Cursors'
  <2>1. p \in Nat /\ WritePartition \in Nat /\ \A q \in Ladder : q \in Nat
    BY <1>1, CursorType, Zenon
  <2>2. Cursors
    BY DEF QueueInv
  <2>3. \A q \in Ladder : q < ReadPartition => enqueuePos'[q] = Sealed
    BY <2>2, <1>5 DEF Cursors
  <2>4. \A q \in Ladder : q > WritePartition => enqueuePos'[q] = 0
    BY <2>1, <2>2, <1>2, <1>5 DEF Cursors
  <2> QED BY <2>2, <2>3, <2>4, Zenon DEF Cursors, Ladder
<1> QED BY <1>9, <1>10, <1>11, <1>13, <1>14, <1>15, Zenon DEF QueueInv, Ladder
=============================================================================
