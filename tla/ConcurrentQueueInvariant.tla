---------------------- MODULE ConcurrentQueueInvariant ----------------------
(***************************************************************************)
(* The inductive invariant of the queue of ringBuffer.c, for any number of *)
(* producers and consumers and any sizes of the rings: the arithmetic of   *)
(* positions, what every step needs, and the steps of concurrentQueuePush  *)
(* that change a cell or a position.                                       *)
(***************************************************************************)
EXTENDS ConcurrentQueue, FiniteSetTheorems, TLAPS

(***************************************************************************)
(* Arithmetic of positions: Index maps the positions of a window of Size(p)*)
(* to different cells, and a position to the same cell a lap later.        *)
(***************************************************************************)

\* 2^p counts the subsets of a set of p elements.
LEMMA PowerOfTwo == ASSUME NEW p \in Nat PROVE 2 ^ p \in Nat /\ 2 ^ p >= 1
<1>1. IsFiniteSet(1 .. p) /\ Cardinality(1 .. p) = p
  BY FS_Interval
<1>2. IsFiniteSet(SUBSET (1 .. p)) /\ Cardinality(SUBSET (1 .. p)) = 2 ^ p
  BY <1>1, FS_SUBSET, Zenon
<1>3. SUBSET (1 .. p) # {}
  BY Zenon
<1> QED BY <1>2, <1>3, FS_CardinalityType, FS_EmptySet

\* Every ring has at least two cells, so that the sequence numbers of a free and of
\* a published cell are never confused.
LEMMA SizeType == ASSUME NEW p \in Ladder PROVE Size(p) \in Nat /\ Size(p) >= 2
<1>1. p \in Nat
  BY SizeAssumption DEF Ladder
<1>2. 2 ^ p \in Nat /\ 2 ^ p >= 1
  BY <1>1, PowerOfTwo
<1> HIDE <1>1
<1> DEFINE k == 2 ^ p
<1>3. InitialSize * k \in Nat /\ InitialSize * k >= 2
  <2> HIDE DEF k
  <2>1. k \in Nat /\ k >= 1 /\ InitialSize \in Nat /\ InitialSize >= 2
    BY <1>2, SizeAssumption DEF k
  <2> QED BY <2>1
<1> QED BY <1>3 DEF Size

\* Division with remainder.
LEMMA ModType ==
  ASSUME NEW S \in Nat, S > 0, NEW a \in Nat
  PROVE  a % S \in 0 .. S - 1 /\ a \div S \in Nat /\ a = S * (a \div S) + (a % S)
OBVIOUS

\* The remainder is determined by being below the divisor.
LEMMA ModUnique ==
  ASSUME NEW S \in Nat, S > 0, NEW y \in Nat, NEW r \in 0 .. S - 1, NEW b \in Nat, b = S * y + r
  PROVE  b % S = r
<1> DEFINE z == b \div S
<1>1. z \in Nat /\ b = S * z + (b % S) /\ b % S \in 0 .. S - 1
  BY ModType
<1>2. S * y + r = S * z + (b % S)
  BY <1>1
<1> HIDE DEF z
<1>3. ~(y < z)
  <2> SUFFICES ASSUME z >= y + 1 PROVE FALSE
    BY <1>1
  <2>1. S * z >= S * (y + 1)
    BY <1>1
  <2>2. S * (y + 1) = S * y + S
    BY <1>1
  <2> QED BY <2>1, <2>2, <1>1, <1>2
<1>4. ~(z < y)
  <2> SUFFICES ASSUME y >= z + 1 PROVE FALSE
    BY <1>1
  <2>1. S * y >= S * (z + 1)
    BY <1>1
  <2>2. S * (z + 1) = S * z + S
    BY <1>1
  <2> QED BY <2>1, <2>2, <1>1, <1>2
<1> QED BY <1>1, <1>2, <1>3, <1>4

\* A lap later the remainder is the same.
LEMMA ModShift ==
  ASSUME NEW S \in Nat, S > 0, NEW a \in Nat
  PROVE  (a + S) % S = a % S
<1> DEFINE y == (a \div S) + 1
           r == a % S
           b == a + S
<1>1. a \div S \in Nat /\ a = S * (a \div S) + r /\ r \in 0 .. S - 1
  BY ModType
<1>2. y \in Nat /\ b \in Nat /\ b = S * y + r
  BY <1>1
<1> HIDE DEF y, r, b
<1>3. b % S = r
  BY <1>1, <1>2, ModUnique
<1> QED BY <1>3 DEF r, b

\* Two positions of one cell are at least a lap apart.
LEMMA ModApart ==
  ASSUME NEW S \in Nat, S > 0, NEW a \in Nat, NEW b \in Nat, a % S = b % S, a < b
  PROVE  b >= a + S
<1> DEFINE x == a \div S
           y == b \div S
<1>1. x \in Nat /\ y \in Nat /\ a = S * x + (a % S) /\ b = S * y + (b % S) /\ a % S \in Nat
  BY ModType
<1>2. S * x < S * y
  BY <1>1
<1>3. y >= x + 1
  BY <1>1, <1>2
<1>4. S * y >= S * (x + 1)
  BY <1>3, <1>1
<1> QED BY <1>1, <1>4

\* Every lap has a position for each cell.
LEMMA ModCover ==
  ASSUME NEW S \in Nat, S > 0, NEW a \in Nat, NEW d \in Nat
  PROVE  \E j \in d .. d + S - 1 : j % S = a % S
<1> DEFINE x == d \div S
           r == a % S
           q == d % S
<1>1. x \in Nat /\ d = S * x + q /\ q \in 0 .. S - 1 /\ r \in 0 .. S - 1
  BY ModType
<1>2. CASE r >= q
  <2>1. S * x + r \in d .. d + S - 1
    BY <1>1, <1>2
  <2>2. (S * x + r) % S = r
    BY <1>1, ModUnique
  <2> QED BY <2>1, <2>2
<1>3. CASE r < q
  <2>1. S * (x + 1) + r \in d .. d + S - 1
    BY <1>1, <1>3
  <2>2. (S * (x + 1) + r) % S = r
    BY <1>1, ModUnique, SMTT(30)
  <2> QED BY <2>1, <2>2
<1> QED BY <1>1, <1>2, <1>3

\* What the steps of the queue need of Index.
LEMMA IndexFacts ==
  ASSUME NEW p \in Ladder
  PROVE  /\ \A j \in Nat : Index(p, j) \in 0 .. Size(p) - 1
         /\ \A i, j \in Nat : Index(p, i) = Index(p, j) /\ i < j => j >= i + Size(p)
         /\ \A j \in Nat : Index(p, j + Size(p)) = Index(p, j)
<1>1. Size(p) \in Nat /\ Size(p) > 0
  BY SizeType
<1> QED BY <1>1, ModType, ModApart, ModShift, Zenon DEF Index

\* Every cell is named by a position of the window that starts at d.
LEMMA IndexCover ==
  ASSUME NEW p \in Ladder, NEW a \in Nat, NEW d \in Nat
  PROVE  \E j \in d .. d + Size(p) - 1 : Index(p, j) = Index(p, a)
<1>1. Size(p) \in Nat /\ Size(p) > 0
  BY SizeType
<1> QED BY <1>1, ModCover, Zenon DEF Index
-----------------------------------------------------------------------------
\* The cell that a position of a ring names.
Sequence(p, j) == cell[p][Index(p, j)].sequence
Data(p, j) == cell[p][Index(p, j)].data

\* Where the claimed positions of a ring end; nothing is claimed in a sealed one.
Top(p) == IF enqueuePos[p] = Sealed THEN dequeuePos[p] ELSE enqueuePos[p]

Positions == 0 .. Sealed - 1

\* t has claimed position j of ring p and has not yet published or freed it.
Writer(t, p, j) == at[t].pc = "publish" /\ at[t].part = p /\ at[t].pos = j
Reader(t, p, j) == at[t].pc = "read" /\ at[t].part = p /\ at[t].pos = j

\* The values whose cell has been claimed.
Claimed == {v \in Values : v[2] <= at[v[1]].sent \/ (at[v[1]].pc = "publish" /\ v[2] = at[v[1]].sent + 1)}

TypeInv == TypeOK /\ cell = [p \in Ladder |-> cell[p]]

Cursors ==
  /\ ReadPartition <= WritePartition
  /\ \A p \in Ladder : p < ReadPartition => enqueuePos[p] = Sealed
  /\ \A p \in Ladder : p > WritePartition => enqueuePos[p] = 0

\* A position of the window is claimed (by a push that has still to publish it, or
\* published), or free (or waiting for the pop that claimed it a lap before).
CellOK(p, j) ==
  /\ j < Top(p) => \/ Sequence(p, j) = j /\ Data(p, j) = <<>> /\ \E t \in Producers : Writer(t, p, j)
                   \/ Sequence(p, j) = j + 1 /\ Data(p, j) \in Values
  /\ j >= Top(p) => \/ Sequence(p, j) = j /\ Data(p, j) = <<>>
                    \/ Sequence(p, j) = j + 1 - Size(p) /\ \E t \in Consumers : Reader(t, p, j - Size(p))

RingOK(p) ==
  /\ dequeuePos[p] <= Top(p)
  /\ Top(p) <= dequeuePos[p] + Size(p)
  /\ Top(p) <= Cardinality(Claimed)
  /\ \A j \in dequeuePos[p] .. dequeuePos[p] + Size(p) - 1 : CellOK(p, j)

ProducerOK(t) ==
  \A p \in {at[t].part}, j \in {at[t].pos} :
    /\ at[t].pc \in {"idle", "again", "pos", "look", "claim", "publish", "full"}
    /\ p <= WritePartition
    /\ at[t].sent <= MaxPushes[t]
    /\ at[t].pc # "idle" => at[t].sent < MaxPushes[t]
    /\ at[t].pc \in {"look", "claim"} => j <= enqueuePos[p]
    /\ at[t].pc = "claim" => j # Sealed /\ (j = enqueuePos[p] => Sequence(p, j) = j)
    /\ at[t].pc = "publish" =>
         /\ dequeuePos[p] <= j
         /\ j < Top(p)
         /\ Sequence(p, j) = j
         /\ \A u \in Producers : Writer(u, p, j) => u = t

ConsumerOK(t) ==
  \A p \in {at[t].part}, j \in {at[t].pos} :
    /\ at[t].pc \in {"idle", "again", "pos", "look", "claim", "read",
                     "empty", "drained", "compare", "seal", "advance"}
    /\ p <= ReadPartition
    /\ at[t].pc \in {"look", "claim"} => j <= dequeuePos[p]
    /\ at[t].pc = "claim" /\ j = dequeuePos[p] => Sequence(p, j) = j + 1
    /\ at[t].pc = "read" =>
         /\ j < dequeuePos[p]
         /\ Top(p) <= j + Size(p)
         /\ Sequence(p, j) = j + 1
         /\ Data(p, j) \in Values
         /\ \A u \in Consumers : Reader(u, p, j) => u = t
    /\ at[t].pc \in {"drained", "compare", "seal", "advance"} => p < WritePartition
    /\ at[t].pc \in {"compare", "seal"} => j # Sealed
    /\ at[t].pc = "seal" => j <= dequeuePos[p]
    /\ at[t].pc = "advance" => enqueuePos[p] = Sealed

\* Position j of ring p holds a value that is in the queue.
Held(p, j) ==
  \/ dequeuePos[p] <= j /\ j < Top(p) /\ Sequence(p, j) = j + 1
  \/ \E t \in Consumers : Reader(t, p, j)

\* Position i of ring p comes before position j of ring q.
Before(p, i, q, j) == p < q \/ (p = q /\ i < j)

ValuesOK ==
  /\ taken \subseteq Published
  /\ \A p \in Ladder, j \in Positions : Held(p, j) =>
       /\ Data(p, j) \in Published \ taken
       /\ \A t \in Producers : Data(p, j)[1] = t =>
            p <= at[t].part /\ (at[t].pc = "publish" /\ p = at[t].part => j < at[t].pos)
  /\ \A p, q \in Ladder, i, j \in Positions : Held(p, i) /\ Held(q, j) =>
       /\ Data(p, i) = Data(q, j) => p = q /\ i = j
       /\ Data(p, i)[1] = Data(q, j)[1] /\ Data(p, i)[2] < Data(q, j)[2] => Before(p, i, q, j)
  /\ \A v \in Published \ taken : \E p \in Ladder, j \in Positions : Held(p, j) /\ Data(p, j) = v

\* A pop has claimed v.
Got(v) ==
  \/ v \in taken
  \/ \E p \in Ladder, j \in Positions : Data(p, j) = v /\ \E t \in Consumers : Reader(t, p, j)

OrderOK == \A v \in Values : Got(v) => \A n \in 1 .. v[2] - 1 : Got(<<v[1], n>>)

QueueInv ==
  /\ TypeInv
  /\ Cursors
  /\ \A p \in Ladder : RingOK(p)
  /\ \A t \in Producers : ProducerOK(t)
  /\ \A t \in Consumers : ConsumerOK(t)
  /\ ValuesOK
  /\ OrderOK
-----------------------------------------------------------------------------
(* Constants and types. *)

\* Finitely many values are ever pushed.
LEMMA ValuesFinite == IsFiniteSet(Values) /\ Cardinality(Values) \in Nat
<1> DEFINE own(t) == {t} \X (1 .. MaxPushes[t])
           f == [t \in Producers |-> own(t)]
           T == {own(t) : t \in Producers}
<1>1. f \in Surjection(Producers, T)
  BY DEF Surjection
<1>2. IsFiniteSet(T)
  BY <1>1, ThreadAssumption, FS_Surjection
<1>3. \A t \in Producers : IsFiniteSet(own(t))
  <2> TAKE t \in Producers
  <2>1. IsFiniteSet({t})
    BY FS_Singleton, Zenon
  <2>2. MaxPushes[t] \in Int
    BY ThreadAssumption
  <2>3. IsFiniteSet(1 .. MaxPushes[t])
    BY <2>2, FS_Interval
  <2> QED BY <2>1, <2>3, FS_Product, Zenon
<1>4. IsFiniteSet(UNION T)
  BY <1>2, <1>3, FS_UNION, Zenon
<1> QED BY <1>4, FS_CardinalityType DEF Values

\* A value is a producer with the number of its push.
LEMMA ValuesType ==
  \A v \in Values : /\ v[1] \in Producers
                    /\ v[2] \in Nat /\ 1 <= v[2] /\ v[2] <= MaxPushes[v[1]]
                    /\ v = <<v[1], v[2]>>
                    /\ v # <<>>
BY ThreadAssumption DEF Values

\* The pushes that a producer is allowed are values.
LEMMA ValuesOf ==
  \A t \in Producers, n \in Nat : 1 <= n /\ n <= MaxPushes[t] => <<t, n>> \in Values
BY ThreadAssumption DEF Values

\* The types of the shared cursors and of the threads.
LEMMA Typed ==
  ASSUME TypeInv
  PROVE  /\ at \in [Threads -> Place] /\ enqueuePos \in [Ladder -> Nat] /\ dequeuePos \in [Ladder -> Nat]
         /\ WritePartition \in Ladder /\ ReadPartition \in Ladder /\ \A p \in Ladder : p \in Nat
BY SizeAssumption DEF TypeInv, TypeOK, Ladder

\* Where a thread is.
LEMMA PositionType ==
  ASSUME TypeInv, NEW u \in Threads
  PROVE  /\ at[u].part \in Ladder /\ at[u].part \in Nat
         /\ at[u].pos \in Nat /\ at[u].sent \in Nat
<1>1. at[u] \in Place
  BY Typed
<1>2. at[u].part \in Ladder /\ at[u].pos \in Nat /\ at[u].sent \in Nat
  BY <1>1, Zenon DEF Place
<1> QED BY <1>2, Typed

\* What a position names is a cell.
LEMMA CellType ==
  ASSUME TypeInv, NEW p \in Ladder, NEW j \in Nat
  PROVE  /\ Index(p, j) \in 0 .. Size(p) - 1
         /\ Sequence(p, j) \in Nat
         /\ Data(p, j) \in Values \cup {<<>>}
<1>1. Index(p, j) \in 0 .. Size(p) - 1
  BY IndexFacts
<1>2. cell[p] \in [0 .. Size(p) - 1 -> [sequence : Nat, data : Values \cup {<<>>}]]
  BY DEF TypeInv, TypeOK
<1>3. cell[p][Index(p, j)] \in [sequence : Nat, data : Values \cup {<<>>}]
  BY <1>1, <1>2, Zenon
<1> QED BY <1>1, <1>3 DEF Sequence, Data

\* A store changes the one cell that its position names.
LEMMA StoreType ==
  ASSUME TypeInv, NEW t \in Threads, NEW s \in Nat, NEW d \in Values \cup {<<>>}, Store(t, s, d)
  PROVE  /\ cell' = [p \in Ladder |-> cell'[p]]
         /\ \A p \in Ladder : cell'[p] \in [0 .. Size(p) - 1 -> [sequence : Nat, data : Values \cup {<<>>}]]
<1> DEFINE q == at[t].part
           i == Index(q, at[t].pos)
<1>1. q \in Ladder /\ at[t].pos \in Nat
  BY PositionType
<1>2. i \in 0 .. Size(q) - 1
  BY <1>1, CellType, Zenon
<1>3. cell' = [cell EXCEPT ![q] = [cell[q] EXCEPT ![i] = [sequence |-> s, data |-> d]]]
  BY DEF Store
<1> HIDE DEF q, i
<1>4. \A p \in Ladder : cell[p] \in [0 .. Size(p) - 1 -> [sequence : Nat, data : Values \cup {<<>>}]]
  BY DEF TypeInv, TypeOK
<1>5. cell = [p \in Ladder |-> cell[p]]
  BY DEF TypeInv
<1>6. cell' = [p \in Ladder |-> cell'[p]]
  BY <1>3, <1>5, Zenon
<1>7. \A p \in Ladder : cell'[p] = IF p = q THEN [cell[q] EXCEPT ![i] = [sequence |-> s, data |-> d]] ELSE cell[p]
  BY <1>3, <1>5
<1>8. [cell[q] EXCEPT ![i] = [sequence |-> s, data |-> d]]
        \in [0 .. Size(q) - 1 -> [sequence : Nat, data : Values \cup {<<>>}]]
  BY <1>1, <1>2, <1>4
<1> QED BY <1>4, <1>6, <1>7, <1>8, Zenon

\* What the positions of the rings name after a store.
LEMMA StoreAt ==
  ASSUME TypeInv, NEW t \in Threads, NEW s \in Nat, NEW d \in Values \cup {<<>>}, Store(t, s, d),
         NEW p \in Ladder, NEW j \in Nat
  PROVE  /\ p = at[t].part /\ Index(p, j) = Index(p, at[t].pos) => Sequence(p, j)' = s /\ Data(p, j)' = d
         /\ ~(p = at[t].part /\ Index(p, j) = Index(p, at[t].pos)) =>
              Sequence(p, j)' = Sequence(p, j) /\ Data(p, j)' = Data(p, j)
<1> DEFINE q == at[t].part
           i == Index(q, at[t].pos)
           k == Index(p, j)
<1>1. q \in Ladder /\ at[t].pos \in Nat
  BY PositionType
<1>2. i \in 0 .. Size(q) - 1 /\ k \in 0 .. Size(p) - 1
  BY <1>1, CellType, Zenon
<1>3. cell' = [cell EXCEPT ![q] = [cell[q] EXCEPT ![i] = [sequence |-> s, data |-> d]]]
  BY DEF Store
<1>4. Sequence(p, j)' = cell'[p][k].sequence /\ Data(p, j)' = cell'[p][k].data
  BY DEF Sequence, Data, Index
<1>5. Sequence(p, j) = cell[p][k].sequence /\ Data(p, j) = cell[p][k].data
  BY DEF Sequence, Data
<1>6. cell = [pp \in Ladder |-> cell[pp]] /\ cell[p] \in [0 .. Size(p) - 1 -> [sequence : Nat, data : Values \cup {<<>>}]]
  BY DEF TypeInv, TypeOK
<1>7. (p = q /\ k = i) <=> (p = at[t].part /\ Index(p, j) = Index(p, at[t].pos))
  OBVIOUS
<1> HIDE DEF q, i, k
<1>8. CASE p = q /\ k = i
  <2>1. cell'[p][k] = [sequence |-> s, data |-> d]
    BY <1>2, <1>3, <1>6, <1>8
  <2> QED BY <2>1, <1>4, <1>7, <1>8
<1>9. CASE p = q /\ k # i
  <2>1. cell'[p][k] = cell[p][k]
    BY <1>2, <1>3, <1>6, <1>9
  <2> QED BY <2>1, <1>4, <1>5, <1>7, <1>9
<1>10. CASE p # q
  <2>1. cell'[p] = cell[p]
    BY <1>3, <1>6, <1>10
  <2> QED BY <2>1, <1>4, <1>5, <1>7, <1>10
<1> QED BY <1>8, <1>9, <1>10

\* Nothing but a store changes a cell.
LEMMA CellsKept ==
  ASSUME cell' = cell, NEW p, NEW j
  PROVE  Sequence(p, j)' = Sequence(p, j) /\ Data(p, j)' = Data(p, j)
BY DEF Sequence, Data, Index, Size
-----------------------------------------------------------------------------
(* Steps that leave the claimed cells alone. *)

\* The view of the rings and of the other threads depends on at only through the
\* threads that hold a cell.
LEMMA ViewKept ==
  ASSUME TypeInv, TypeInv', NEW t \in Threads,
         \A u \in Threads : u # t => at'[u] = at[u],
         at[t].pc \notin {"publish", "read"}, at'[t].pc \notin {"publish", "read"},
         at'[t].sent = at[t].sent
  PROVE  /\ \A u \in Threads : \A p, j : Writer(u, p, j)' <=> Writer(u, p, j)
         /\ \A u \in Threads : \A p, j : Reader(u, p, j)' <=> Reader(u, p, j)
         /\ Published' = Published
         /\ Claimed' = Claimed
<1>1. \A u \in Threads : \A p, j : Writer(u, p, j)' <=> Writer(u, p, j)
  BY DEF Writer
<1>2. \A u \in Threads : \A p, j : Reader(u, p, j)' <=> Reader(u, p, j)
  BY DEF Reader
<1>3. \A u \in Producers : at'[u].sent = at[u].sent /\ (at'[u].pc = "publish" <=> at[u].pc = "publish")
  BY DEF Threads
<1>4. \A v \in Values : v[1] \in Producers
  BY ValuesType
<1>5. Published' = Published
  BY <1>3, <1>4 DEF Published
<1>6. Claimed' = Claimed
  BY <1>3, <1>4 DEF Claimed
<1> QED BY <1>1, <1>2, <1>5, <1>6

\* A ring is as it was when its positions, its cells and the claims on them are.
LEMMA RingKept ==
  ASSUME NEW p \in Ladder, RingOK(p),
         dequeuePos'[p] = dequeuePos[p], Top(p)' = Top(p), Claimed' = Claimed,
         \A j \in dequeuePos[p] .. dequeuePos[p] + Size(p) - 1 :
            /\ Sequence(p, j)' = Sequence(p, j) /\ Data(p, j)' = Data(p, j)
            /\ \A u \in Producers : Writer(u, p, j) => Writer(u, p, j)'
            /\ \A u \in Consumers : Reader(u, p, j - Size(p)) => Reader(u, p, j - Size(p))'
  PROVE  RingOK(p)'
<1>1. Size(p)' = Size(p)
  BY DEF Size
<1>2. \A j \in dequeuePos[p] .. dequeuePos[p] + Size(p) - 1 : CellOK(p, j)'
  BY <1>1 DEF RingOK, CellOK
<1> QED BY <1>1, <1>2 DEF RingOK

\* The positions and the cursors are numbers, before a step
LEMMA CursorType ==
  ASSUME TypeInv
  PROVE  /\ WritePartition \in Ladder /\ WritePartition \in Nat
         /\ ReadPartition \in Ladder /\ ReadPartition \in Nat
         /\ \A p \in Ladder : p \in Nat /\ enqueuePos[p] \in Nat /\ dequeuePos[p] \in Nat
<1>1. /\ WritePartition \in Ladder /\ ReadPartition \in Ladder
      /\ enqueuePos \in [Ladder -> Nat] /\ dequeuePos \in [Ladder -> Nat]
  BY DEF TypeInv, TypeOK
<1>2. \A p \in Ladder : p \in Nat
  BY SizeAssumption DEF Ladder
<1> QED BY <1>1, <1>2

\* and after it.
LEMMA CursorTypeNext ==
  ASSUME TypeInv'
  PROVE  /\ WritePartition' \in Ladder /\ WritePartition' \in Nat
         /\ ReadPartition' \in Ladder /\ ReadPartition' \in Nat
         /\ \A p \in Ladder : p \in Nat /\ enqueuePos'[p] \in Nat /\ dequeuePos'[p] \in Nat
<1>1. /\ WritePartition' \in Ladder /\ ReadPartition' \in Ladder
      /\ enqueuePos' \in [Ladder -> Nat] /\ dequeuePos' \in [Ladder -> Nat]
  BY DEF TypeInv, TypeOK, Ladder
<1>2. \A p \in Ladder : p \in Nat
  BY SizeAssumption DEF Ladder
<1> QED BY <1>1, <1>2

\* A producer that does not move stays right when the cells it relies on do.
LEMMA ProducerKept ==
  ASSUME TypeInv, TypeInv', NEW u \in Producers, ProducerOK(u), at'[u] = at[u],
         NEW p, NEW j, p = at[u].part, j = at[u].pos,
         WritePartition <= WritePartition', enqueuePos[p] <= enqueuePos'[p],
         at[u].pc = "claim" /\ j = enqueuePos'[p] => j = enqueuePos[p] /\ Sequence(p, j)' = Sequence(p, j),
         at[u].pc = "publish" =>
            /\ dequeuePos'[p] <= j
            /\ j < Top(p)'
            /\ Sequence(p, j)' = Sequence(p, j)
            /\ \A w \in Producers : Writer(w, p, j)' => w = u
  PROVE  ProducerOK(u)'
<1>1. /\ p \in Ladder /\ j \in Nat /\ WritePartition \in Nat /\ WritePartition' \in Nat
      /\ enqueuePos[p] \in Nat /\ enqueuePos'[p] \in Nat
  <2>1. p \in Ladder /\ j \in Nat
    BY PositionType DEF Threads
  <2>2. WritePartition \in Nat /\ enqueuePos[p] \in Nat
    BY <2>1, CursorType
  <2>3. WritePartition' \in Nat /\ enqueuePos'[p] \in Nat
    BY <2>1, CursorTypeNext
  <2> QED BY <2>1, <2>2, <2>3
<1>2. at[u].part = p /\ at[u].pos = j /\ at'[u].part = p /\ at'[u].pos = j /\ at'[u].pc = at[u].pc /\ at'[u].sent = at[u].sent
  OBVIOUS
<1>3. j <= enqueuePos[p] => j <= enqueuePos'[p]
  BY <1>1
<1>4. p <= WritePartition => p <= WritePartition'
  BY <1>1, PositionType DEF Threads
<1> QED BY <1>2, <1>3, <1>4 DEF ProducerOK

\* A consumer that does not move stays right when the cells it relies on do.
LEMMA ConsumerKept ==
  ASSUME TypeInv, TypeInv', NEW u \in Consumers, ConsumerOK(u), at'[u] = at[u],
         NEW p, NEW j, p = at[u].part, j = at[u].pos,
         WritePartition <= WritePartition', ReadPartition <= ReadPartition',
         dequeuePos[p] <= dequeuePos'[p],
         enqueuePos[p] = Sealed => enqueuePos'[p] = Sealed,
         at[u].pc = "claim" /\ j = dequeuePos'[p] => j = dequeuePos[p] /\ Sequence(p, j)' = Sequence(p, j),
         at[u].pc = "read" =>
            /\ Top(p)' <= j + Size(p)
            /\ Sequence(p, j)' = Sequence(p, j) /\ Data(p, j)' = Data(p, j)
            /\ \A w \in Consumers : Reader(w, p, j)' => w = u
  PROVE  ConsumerOK(u)'
<1>1. /\ p \in Ladder /\ j \in Nat /\ WritePartition \in Nat /\ WritePartition' \in Nat
      /\ ReadPartition \in Nat /\ ReadPartition' \in Nat
      /\ dequeuePos[p] \in Nat /\ dequeuePos'[p] \in Nat
  BY PositionType, CursorType, CursorTypeNext DEF Threads
<1>2. Size(p)' = Size(p)
  BY DEF Size
<1>3. at[u].part = p /\ at[u].pos = j /\ at'[u].part = p /\ at'[u].pos = j /\ at'[u].pc = at[u].pc
  OBVIOUS
<1>4. /\ j <= dequeuePos[p] => j <= dequeuePos'[p]
      /\ j < dequeuePos[p] => j < dequeuePos'[p]
      /\ p <= ReadPartition => p <= ReadPartition'
      /\ p < WritePartition => p < WritePartition'
  BY <1>1, PositionType DEF Threads
<1> QED BY <1>2, <1>3, <1>4 DEF ConsumerOK

\* What the values in the queue are does not change when no value enters or leaves.
LEMMA ValuesKept ==
  ASSUME ValuesOK, taken' = taken, Published' = Published,
         \A p \in Ladder, j \in Positions : Held(p, j)' => Held(p, j),
         \A p \in Ladder, j \in Positions : Held(p, j) => Held(p, j)' /\ Data(p, j)' = Data(p, j),
         \A t \in Producers, p \in Ladder, j \in Positions :
            Held(p, j) /\ p <= at[t].part /\ (at[t].pc = "publish" /\ p = at[t].part => j < at[t].pos) =>
              p <= at'[t].part /\ (at'[t].pc = "publish" /\ p = at'[t].part => j < at'[t].pos)
  PROVE  ValuesOK'
BY DEF ValuesOK, Before, Positions

\* No position of a ring comes near the seal.
LEMMA TopBound ==
  ASSUME TypeInv, NEW p \in Ladder, RingOK(p)
  PROVE  /\ Top(p) \in Nat /\ dequeuePos[p] \in Nat /\ Size(p) \in Nat /\ Size(p) >= 2
         /\ dequeuePos[p] <= Top(p) /\ Top(p) <= dequeuePos[p] + Size(p)
         /\ Top(p) + Size(p) < Sealed /\ Sealed \in Nat
         /\ \A j \in Nat : j < Top(p) => j \in Positions
<1>1. IsFiniteSet(Claimed) /\ Cardinality(Claimed) \in Nat /\ Cardinality(Claimed) <= Cardinality(Values)
  <2>1. Claimed \in SUBSET Values
    BY DEF Claimed
  <2> QED BY <2>1, ValuesFinite, FS_Subset, FS_CardinalityType
<1>2. enqueuePos[p] \in Nat /\ dequeuePos[p] \in Nat
  BY CursorType
<1>3. Top(p) \in Nat
  BY <1>2 DEF Top
<1>4. Top(p) <= Cardinality(Claimed) /\ dequeuePos[p] <= Top(p) /\ Top(p) <= dequeuePos[p] + Size(p)
  BY DEF RingOK
<1>5. Size(p) \in Nat /\ Size(p) >= 2
  BY SizeType
<1>6. Sealed \in Nat /\ Sealed > Cardinality(Values) + Size(p)
  BY SealAssumption
<1>7. Cardinality(Values) \in Nat
  BY ValuesFinite
<1>8. Top(p) + Size(p) < Sealed
  BY <1>1, <1>3, <1>4, <1>5, <1>6, <1>7
<1> QED BY <1>2, <1>3, <1>4, <1>5, <1>6, <1>8 DEF Positions

\* A consumer that reads a cell reads one that it claimed.
LEMMA ReaderFacts ==
  ASSUME QueueInv, NEW t \in Consumers, NEW p, NEW j, Reader(t, p, j)
  PROVE  /\ p \in Ladder /\ j \in Nat /\ j \in Positions
         /\ j < dequeuePos[p] /\ Top(p) <= j + Size(p)
         /\ Sequence(p, j) = j + 1 /\ Data(p, j) \in Values
         /\ \A u \in Consumers : Reader(u, p, j) => u = t
<1>1. at[t].part = p /\ at[t].pos = j /\ at[t].pc = "read"
  BY DEF Reader
<1>2. p \in Ladder /\ j \in Nat
  BY <1>1, PositionType DEF QueueInv, Threads
<1>3. /\ j < dequeuePos[p] /\ Top(p) <= j + Size(p)
      /\ Sequence(p, j) = j + 1 /\ Data(p, j) \in Values
      /\ \A u \in Consumers : Reader(u, p, j) => u = t
  BY <1>1 DEF QueueInv, ConsumerOK
<1>4. j < Top(p)
  BY <1>2, <1>3, TopBound DEF QueueInv
<1>5. j \in Positions
  BY <1>2, <1>4, TopBound DEF QueueInv
<1> QED BY <1>2, <1>3, <1>5

\* A producer that has still to publish its cell claimed it alone.
LEMMA WriterFacts ==
  ASSUME QueueInv, NEW t \in Producers, NEW p, NEW j, Writer(t, p, j)
  PROVE  /\ p \in Ladder /\ j \in Nat /\ j \in Positions
         /\ dequeuePos[p] <= j /\ j < Top(p) /\ Sequence(p, j) = j
         /\ enqueuePos[p] = Top(p)
         /\ \A u \in Producers : Writer(u, p, j) => u = t
<1>1. at[t].part = p /\ at[t].pos = j /\ at[t].pc = "publish"
  BY DEF Writer
<1>2. p \in Ladder /\ j \in Nat
  BY <1>1, PositionType DEF QueueInv, Threads
<1>3. /\ dequeuePos[p] <= j /\ j < Top(p) /\ Sequence(p, j) = j
      /\ \A u \in Producers : Writer(u, p, j) => u = t
  BY <1>1 DEF QueueInv, ProducerOK
<1>4. j \in Positions
  BY <1>2, <1>3, TopBound DEF QueueInv
<1>5. enqueuePos[p] # Sealed
  <2> SUFFICES ASSUME enqueuePos[p] = Sealed PROVE FALSE
    OBVIOUS
  <2>1. Top(p) = dequeuePos[p]
    BY DEF Top
  <2>2. dequeuePos[p] \in Nat
    BY <1>2, CursorType DEF QueueInv
  <2> QED BY <2>1, <2>2, <1>2, <1>3
<1>6. enqueuePos[p] = Top(p)
  BY <1>5 DEF Top
<1> QED BY <1>2, <1>3, <1>4, <1>6

\* A step of one thread that neither enters nor leaves a cell, and moves no position.
LEMMA QuietStep ==
  ASSUME QueueInv, TypeInv', NEW t \in Threads,
         UNCHANGED <<cell, enqueuePos, dequeuePos, taken>>,
         \A u \in Threads : u # t => at'[u] = at[u],
         at[t].pc \notin {"publish", "read"}, at'[t].pc \notin {"publish", "read"},
         at'[t].sent = at[t].sent, at[t].part <= at'[t].part,
         WritePartition <= WritePartition', ReadPartition <= ReadPartition'
  PROVE  /\ \A p \in Ladder : RingOK(p)'
         /\ \A u \in Producers : u # t => ProducerOK(u)'
         /\ \A u \in Consumers : u # t => ConsumerOK(u)'
         /\ ValuesOK' /\ OrderOK'
<1>1. TypeInv
  BY DEF QueueInv
<1>2. /\ \A u \in Threads : \A p, j : Writer(u, p, j)' <=> Writer(u, p, j)
      /\ \A u \in Threads : \A p, j : Reader(u, p, j)' <=> Reader(u, p, j)
      /\ Published' = Published
      /\ Claimed' = Claimed
  BY <1>1, ViewKept
<1>3. \A p, j : Sequence(p, j)' = Sequence(p, j) /\ Data(p, j)' = Data(p, j)
  BY CellsKept
<1>4. \A p : Top(p)' = Top(p)
  BY DEF Top
<1>5. \A p \in Ladder : RingOK(p)'
  <2> TAKE p \in Ladder
  <2>1. RingOK(p)
    BY DEF QueueInv
  <2> QED BY <2>1, <1>2, <1>3, <1>4, RingKept DEF Threads
<1>6. \A u \in Producers : u # t => ProducerOK(u)'
  <2> TAKE u \in Producers
  <2> HAVE u # t
  <2>1. ProducerOK(u) /\ u \in Threads
    BY DEF QueueInv, Threads
  <2> DEFINE p == at[u].part
             j == at[u].pos
  <2>2. p \in Ladder /\ j \in Nat
    BY <1>1, <2>1, PositionType
  <2>3. at[u].pc = "publish" => /\ dequeuePos[p] <= j /\ j < Top(p)
                                /\ \A w \in Producers : Writer(w, p, j) => w = u
    BY <2>1 DEF ProducerOK
  <2>4. enqueuePos[p] \in Nat
    BY <1>1, <2>2, CursorType, SMTT(30)
  <2>5. at[u].pc = "publish" => /\ dequeuePos'[p] <= j /\ j < Top(p)'
                                /\ \A w \in Producers : Writer(w, p, j)' => w = u
    BY <2>3, <1>2, <1>4 DEF Threads
  <2> HIDE DEF p, j
  <2>6. at'[u] = at[u]
    BY <2>1
  <2>7. enqueuePos[p] <= enqueuePos'[p]
    BY <2>4
  <2> QED BY <2>1, <2>5, <2>6, <2>7, <1>1, <1>3, ProducerKept DEF p, j
<1>7. \A u \in Consumers : u # t => ConsumerOK(u)'
  <2> TAKE u \in Consumers
  <2> HAVE u # t
  <2>1. ConsumerOK(u) /\ u \in Threads
    BY DEF QueueInv, Threads
  <2> DEFINE p == at[u].part
             j == at[u].pos
  <2>2. p \in Ladder /\ j \in Nat
    BY <1>1, <2>1, PositionType
  <2>3. at[u].pc = "read" => /\ Top(p) <= j + Size(p)
                             /\ \A w \in Consumers : Reader(w, p, j) => w = u
    BY <2>1 DEF ConsumerOK
  <2>4. dequeuePos[p] \in Nat
    BY <1>1, <2>2, CursorType, Zenon
  <2>5. at[u].pc = "read" => /\ Top(p)' <= j + Size(p)
                             /\ \A w \in Consumers : Reader(w, p, j)' => w = u
    BY <2>3, <1>2, <1>4 DEF Threads
  <2> HIDE DEF p, j
  <2>6. at'[u] = at[u]
    BY <2>1
  <2>7. dequeuePos[p] <= dequeuePos'[p]
    BY <2>4
  <2> QED BY <2>1, <2>5, <2>6, <2>7, <1>1, <1>3, ConsumerKept, SMTT(30) DEF p, j
<1>8. \A p \in Ladder, j \in Positions : Held(p, j)' <=> Held(p, j)
  BY <1>2, <1>3, <1>4 DEF Held, Threads
<1>9. \A u \in Producers : \/ at'[u] = at[u]
                           \/ u = t /\ at[u].part <= at'[u].part /\ at'[u].pc # "publish"
  BY DEF Threads
<1>10. \A u \in Producers : at[u].part \in Nat /\ at'[u].part \in Nat
  <2> TAKE u \in Producers
  <2>1. u \in Threads
    BY DEF Threads
  <2>2. at[u].part \in Nat
    BY <1>1, <2>1, PositionType
  <2>3. at'[u].part \in Ladder
    <3>1. at'[u] \in Place
      BY <2>1 DEF TypeInv, TypeOK, Threads, Place, Stages, Ladder, Values
    <3> QED BY <3>1, Zenon DEF Place
  <2> QED BY <1>1, <2>2, <2>3, CursorType
<1>11. \A u \in Producers, p \in Ladder, j \in Positions :
         p <= at[u].part /\ (at[u].pc = "publish" /\ p = at[u].part => j < at[u].pos) =>
           p <= at'[u].part /\ (at'[u].pc = "publish" /\ p = at'[u].part => j < at'[u].pos)
  <2> TAKE u \in Producers, p \in Ladder, j \in Positions
  <2>1. p \in Nat
    BY <1>1, CursorType
  <2>2. at[u].part \in Nat /\ at'[u].part \in Nat
    BY <1>10, SMTT(30)
  <2> QED BY <2>1, <2>2, <1>9
<1>12. ValuesOK'
  BY <1>2, <1>3, <1>8, <1>11, ValuesKept DEF QueueInv
<1>13. OrderOK'
  <2>1. \A v : Got(v)' <=> Got(v)
    BY <1>2, <1>3 DEF Got, Positions, Threads, Ladder
  <2> QED BY <2>1 DEF QueueInv, OrderOK
<1> QED BY <1>5, <1>6, <1>7, <1>12, <1>13
-----------------------------------------------------------------------------
(* The four steps at which a cell changes hands, and the seal. *)

\* The value that t is pushing is the next of its own.
LEMMA ItemFacts ==
  ASSUME QueueInv, NEW t \in Producers, at[t].pc # "idle"
  PROVE  /\ at[t].sent \in Nat
         /\ Item(t) \in Values /\ Item(t) = <<t, at[t].sent + 1>>
         /\ Item(t)[1] = t /\ Item(t)[2] = at[t].sent + 1
         /\ Item(t) \notin Published
<1>1. at[t].sent \in Nat
  BY PositionType DEF QueueInv, Threads
<1>2. at[t].sent < MaxPushes[t] /\ MaxPushes[t] \in Nat
  BY ThreadAssumption DEF QueueInv, ProducerOK
<1>3. Item(t) \in Values
  BY <1>1, <1>2, ValuesOf DEF Item
<1> QED BY <1>1, <1>3 DEF Item, Published

\* partitionPush: the CAS on enqueuePos takes the next free cell, which no consumer is
\* still reading, since its sequence number says it was freed.
LEMMA PushClaim ==
  ASSUME QueueInv, TypeInv', NEW t \in Producers, NEW p, NEW e,
         at[t].pc = "claim", p = at[t].part, e = at[t].pos, enqueuePos[p] = e,
         enqueuePos' = [enqueuePos EXCEPT ![p] = @ + 1],
         at' = [at EXCEPT ![t].pc = "publish"],
         UNCHANGED <<cell, dequeuePos, WritePartition, ReadPartition, taken>>
  PROVE  QueueInv'
<1>1. TypeInv /\ t \in Threads /\ p \in Ladder /\ e \in Nat /\ ProducerOK(t) /\ RingOK(p)
  BY PositionType DEF QueueInv, Threads
<1> DEFINE d == dequeuePos[p]
           S == Size(p)
<1>2. e # Sealed /\ Sequence(p, e) = e
  BY <1>1 DEF ProducerOK
<1>3. Top(p) = e
  BY <1>2 DEF Top
<1>4. d \in Nat /\ S \in Nat /\ S >= 2 /\ d <= e /\ e <= d + S /\ e + S < Sealed /\ Sealed \in Nat
  BY <1>1, <1>3, TopBound
<1>5. \A j \in d .. d + S - 1 : CellOK(p, j)
  BY <1>1 DEF RingOK
<1>6. e < d + S
  <2> SUFFICES ASSUME e = d + S PROVE FALSE
    BY <1>1, <1>4
  <2>1. Index(p, e) = Index(p, d)
    BY <1>1, <1>4, IndexFacts, SMTT(30)
  <2>2. Sequence(p, d) = e
    BY <1>2, <2>1 DEF Sequence
  <2>3. Sequence(p, d) = d \/ Sequence(p, d) = d + 1
    BY <1>3, <1>4, <1>5 DEF CellOK
  <2> QED BY <2>2, <2>3, <1>4
<1>7. Data(p, e) = <<>>
  <2>1. CellOK(p, e)
    BY <1>1, <1>4, <1>5, <1>6
  <2> QED BY <2>1, <1>1, <1>2, <1>3, <1>4, SMTT(30) DEF CellOK
<1>8. \A q, j : Sequence(q, j)' = Sequence(q, j) /\ Data(q, j)' = Data(q, j)
  BY CellsKept
<1>9. /\ \A u \in Threads : u # t => at'[u] = at[u]
      /\ at'[t].pc = "publish" /\ at'[t].part = p /\ at'[t].pos = e /\ at'[t].sent = at[t].sent
  BY <1>1 DEF TypeInv, TypeOK
<1>10. enqueuePos'[p] = e + 1 /\ \A q \in Ladder : q # p => enqueuePos'[q] = enqueuePos[q]
  BY <1>1 DEF TypeInv, TypeOK
<1>11. Top(p)' = e + 1 /\ \A q \in Ladder : q # p => Top(q)' = Top(q)
  <2>1. e + 1 # Sealed
    BY <1>1, <1>4
  <2> QED BY <2>1, <1>10 DEF Top
<1>12. /\ \A u \in Producers : \A q, j : Writer(u, q, j)' <=> Writer(u, q, j) \/ (u = t /\ q = p /\ j = e)
       /\ \A u \in Consumers : \A q, j : Reader(u, q, j)' <=> Reader(u, q, j)
  BY <1>9, ThreadAssumption DEF Writer, Reader, Threads
<1>13. Published' = Published
  <2>1. \A v \in Values : at'[v[1]].sent = at[v[1]].sent
    BY <1>9, ValuesType DEF Threads
  <2> QED BY <2>1 DEF Published
<1>14. Cardinality(Claimed') = Cardinality(Claimed) + 1 /\ Cardinality(Claimed) \in Nat
  <2>1. Item(t) \in Values /\ Item(t) \notin Claimed
    BY <1>1, ItemFacts DEF Claimed, Published
  <2>2. Claimed' = Claimed \cup {Item(t)}
    <3>1. \A v \in Values : v \in Claimed' <=> v \in Claimed \/ v = Item(t)
      <4> TAKE v \in Values
      <4>1. v[1] \in Producers /\ v = <<v[1], v[2]>> /\ v[2] \in Nat
        BY ValuesType
      <4>2. at[t].sent \in Nat
        BY <1>1, PositionType
      <4>3. CASE v[1] = t
        BY <4>1, <4>2, <4>3, <1>9 DEF Claimed, Item
      <4>4. CASE v[1] # t
        <5>1. at'[v[1]] = at[v[1]]
          BY <4>1, <4>4, <1>9 DEF Threads
        <5> QED BY <4>1, <4>4, <5>1 DEF Claimed, Item
      <4> QED BY <4>3, <4>4
    <3> QED BY <3>1, <2>1 DEF Claimed
  <2>3. IsFiniteSet(Claimed)
    <3>1. Claimed \in SUBSET Values
      BY DEF Claimed
    <3> QED BY <3>1, ValuesFinite, FS_Subset
  <2> QED BY <2>1, <2>2, <2>3, FS_AddElement, FS_CardinalityType
<1>15. \A q \in Ladder : RingOK(q)'
  <2> TAKE q \in Ladder
  <2>1. RingOK(q) /\ Size(q)' = Size(q)
    BY DEF QueueInv, Size
  <2>2. CASE q # p
    <3>1. \A j \in dequeuePos[q] .. dequeuePos[q] + Size(q) - 1 : CellOK(q, j)'
      BY <2>1, <2>2, <1>8, <1>11, <1>12 DEF CellOK, RingOK
    <3>2. Top(q) \in Nat
      BY <1>1, <2>1, TopBound
    <3> QED BY <2>1, <2>2, <3>1, <3>2, <1>11, <1>14 DEF RingOK
  <2>3. CASE q = p
    <3>1. \A j \in d .. d + S - 1 : CellOK(p, j)'
      <4> TAKE j \in d .. d + S - 1
      <4>1. CellOK(p, j)
        BY <1>5
      <4>2. CASE j = e
        BY <4>2, <1>1, <1>2, <1>7, <1>8, <1>11, <1>12 DEF CellOK
      <4>3. CASE j # e
        <5>1. (j < e + 1 <=> j < e) /\ (j >= e + 1 => j >= e)
          BY <4>3, <1>1, <1>4
        <5> QED BY <4>1, <5>1, <1>3, <1>8, <1>11, <1>12, <2>1, <2>3 DEF CellOK
      <4> QED BY <4>2, <4>3
    <3>2. e <= Cardinality(Claimed)
      BY <1>1, <1>3 DEF RingOK
    <3>3. d <= e + 1 /\ e + 1 <= d + S /\ e + 1 <= Cardinality(Claimed')
      BY <3>2, <1>1, <1>4, <1>6, <1>14
    <3> QED BY <2>1, <2>3, <3>1, <3>3, <1>11 DEF RingOK
  <2> QED BY <2>2, <2>3
<1>16. \A u \in Producers : ProducerOK(u)'
  <2> TAKE u \in Producers
  <2>1. CASE u = t
    <3>1. \A w \in Producers : Writer(w, p, e)' => w = t
      <4> TAKE w \in Producers
      <4>1. Writer(w, p, e) => e < Top(p)
        BY WriterFacts
      <4> QED BY <4>1, <1>1, <1>3, <1>12
    <3>2. at'[t].sent <= MaxPushes[t] /\ at'[t].sent < MaxPushes[t] /\ p <= WritePartition
      BY <1>1, <1>9 DEF ProducerOK
    <3>3. d <= e /\ e < e + 1 /\ Sequence(p, e)' = e
      BY <1>1, <1>2, <1>4, <1>8
    <3> QED BY <2>1, <3>1, <3>2, <3>3, <1>9, <1>11 DEF ProducerOK
  <2>2. CASE u # t
    <3>1. ProducerOK(u) /\ u \in Threads /\ at'[u] = at[u]
      BY <2>2, <1>9 DEF QueueInv, Threads
    <3> DEFINE q == at[u].part
               j == at[u].pos
    <3>2. q \in Ladder /\ j \in Nat
      BY <1>1, <3>1, PositionType
    <3>3. enqueuePos[q] \in Nat /\ enqueuePos'[q] \in Nat /\ enqueuePos[q] <= enqueuePos'[q]
      BY <1>1, <1>10, <3>2, CursorType
    <3>4. at[u].pc = "claim" /\ j = enqueuePos'[q] => j = enqueuePos[q]
      <4>1. at[u].pc = "claim" => j <= enqueuePos[q]
        BY <3>1 DEF ProducerOK
      <4> QED BY <4>1, <3>2, <3>3
    <3>5. at[u].pc = "publish" => Writer(u, q, j)
      BY DEF Writer
    <3>6. at[u].pc = "publish" =>
            /\ dequeuePos'[q] <= j /\ j < Top(q)'
            /\ \A w \in Producers : Writer(w, q, j)' => w = u
      <4> HAVE at[u].pc = "publish"
      <4>1. /\ dequeuePos[q] <= j /\ j < Top(q)
            /\ \A w \in Producers : Writer(w, q, j) => w = u
        BY <3>5, WriterFacts
      <4>2. ~(q = p /\ j = e)
        BY <4>1, <1>1, <1>3
      <4>3. j < Top(q)'
        BY <4>1, <3>2, <1>1, <1>3, <1>11
      <4> QED BY <4>1, <4>2, <4>3, <1>12
    <3> HIDE DEF q, j
    <3>7. WritePartition <= WritePartition'
      BY <1>1, CursorType
    <3> QED BY <3>1, <3>3, <3>4, <3>6, <3>7, <1>1, <1>8, ProducerKept, SMTT(30) DEF q, j
  <2> QED BY <2>1, <2>2
<1>17. \A u \in Consumers : ConsumerOK(u)'
  <2> TAKE u \in Consumers
  <2>1. ConsumerOK(u) /\ u \in Threads /\ at'[u] = at[u]
    BY <1>9, ThreadAssumption DEF QueueInv, Threads
  <2> DEFINE q == at[u].part
             j == at[u].pos
  <2>2. q \in Ladder /\ j \in Nat
    BY <1>1, <2>1, PositionType
  <2>3. enqueuePos[q] = Sealed => enqueuePos'[q] = Sealed
    BY <1>2, <1>10, <2>2
  <2>4. at[u].pc = "read" => /\ Top(q)' <= j + Size(q)
                             /\ \A w \in Consumers : Reader(w, q, j)' => w = u
    <3> HAVE at[u].pc = "read"
    <3>1. /\ Reader(u, q, j) /\ Top(q) <= j + Size(q) /\ Sequence(q, j) = j + 1
          /\ \A w \in Consumers : Reader(w, q, j) => w = u
      BY ReaderFacts DEF Reader
    <3>2. q = p => e # j + S
      <4> SUFFICES ASSUME q = p, e = j + S PROVE FALSE
        OBVIOUS
      <4>1. Index(p, e) = Index(p, j)
        BY <2>2, <1>1, IndexFacts, SMTT(30)
      <4>2. Sequence(p, j) = e
        BY <1>2, <4>1 DEF Sequence
      <4> QED BY <4>2, <3>1, <2>2, <1>4
    <3>3. Top(q)' <= j + Size(q)
      BY <3>1, <3>2, <2>2, <1>1, <1>3, <1>4, <1>11
    <3> QED BY <3>1, <3>3, <1>12
  <2> HIDE DEF q, j
  <2>5. WritePartition <= WritePartition' /\ ReadPartition <= ReadPartition' /\ dequeuePos[q] <= dequeuePos'[q]
    BY <1>1, <2>2, CursorType
  <2> QED BY <2>1, <2>3, <2>4, <2>5, <1>1, <1>8, ConsumerKept DEF q, j
<1>18. \A q \in Ladder, j \in Positions : Held(q, j)' <=> Held(q, j)
  <2> TAKE q \in Ladder, j \in Positions
  <2>1. j \in Nat
    BY <1>4 DEF Positions
  <2>2. CASE q # p
    BY <2>2, <1>8, <1>11, <1>12 DEF Held
  <2>3. CASE q = p
    <3>1. j < e + 1 /\ Sequence(p, j) = j + 1 => j < e
      BY <2>1, <1>1, <1>2
    <3> QED BY <2>1, <2>3, <3>1, <1>1, <1>3, <1>8, <1>11, <1>12 DEF Held
  <2> QED BY <2>2, <2>3
<1>19. ValuesOK'
  <2>1. \A u \in Producers, q \in Ladder, j \in Positions :
          Held(q, j) /\ q <= at[u].part /\ (at[u].pc = "publish" /\ q = at[u].part => j < at[u].pos) =>
            q <= at'[u].part /\ (at'[u].pc = "publish" /\ q = at'[u].part => j < at'[u].pos)
    <3> TAKE u \in Producers, q \in Ladder, j \in Positions
    <3>1. CASE u # t
      BY <3>1, <1>9 DEF Threads
    <3>2. CASE u = t
      <4>1. j \in Nat
        BY <1>4 DEF Positions
      <4>2. Held(p, j) => j < e
        BY <4>1, <1>1, <1>3, <1>4, ReaderFacts DEF Held
      <4> QED BY <3>2, <4>2, <1>9
    <3> QED BY <3>1, <3>2
  <2> QED BY <2>1, <1>8, <1>13, <1>18, ValuesKept DEF QueueInv
<1>20. OrderOK'
  <2>1. \A v : Got(v)' <=> Got(v)
    BY <1>8, <1>12 DEF Got, Positions, Ladder
  <2> QED BY <2>1 DEF QueueInv, OrderOK
<1>21. Cursors'
  <2>1. p <= WritePartition
    BY <1>1 DEF ProducerOK
  <2>2. Cursors
    BY DEF QueueInv
  <2>3. \A q \in Ladder : q \in Nat
    BY <1>1, CursorType
  <2>4. WritePartition \in Nat /\ ReadPartition \in Nat
    BY <1>1, CursorType
  <2>5. \A q \in Ladder : q < ReadPartition => enqueuePos'[q] = Sealed
    BY <2>2, <1>2, <1>10 DEF Cursors
  <2>6. \A q \in Ladder : q > WritePartition => enqueuePos'[q] = 0
    BY <2>1, <2>2, <2>3, <2>4, <1>1, <1>10 DEF Cursors
  <2> QED BY <2>2, <2>5, <2>6 DEF Cursors, Ladder
<1> QED BY <1>15, <1>16, <1>17, <1>19, <1>20, <1>21 DEF QueueInv, Ladder

\* partitionPush: the store of the sequence number makes the value readable.
LEMMA PushPublish ==
  ASSUME QueueInv, TypeInv', NEW t \in Producers, NEW p, NEW e,
         at[t].pc = "publish", p = at[t].part, e = at[t].pos,
         Store(t, e + 1, Item(t)),
         at' = [at EXCEPT ![t].pc = "idle", ![t].pos = 0, ![t].sent = @ + 1],
         UNCHANGED <<enqueuePos, dequeuePos, WritePartition, ReadPartition, taken>>
  PROVE  QueueInv'
<1>1. TypeInv /\ t \in Threads /\ p \in Ladder /\ e \in Nat /\ ProducerOK(t) /\ RingOK(p) /\ Writer(t, p, e)
  BY PositionType DEF QueueInv, Threads, Writer
<1> DEFINE d == dequeuePos[p]
           S == Size(p)
           v == Item(t)
<1>2. /\ e \in Positions /\ d <= e /\ e < Top(p) /\ Sequence(p, e) = e /\ enqueuePos[p] = Top(p)
      /\ \A u \in Producers : Writer(u, p, e) => u = t
  BY <1>1, WriterFacts
<1>3. /\ Top(p) \in Nat /\ d \in Nat /\ S \in Nat /\ S >= 2 /\ d <= Top(p) /\ Top(p) <= d + S
      /\ Top(p) + S < Sealed /\ Sealed \in Nat
  BY <1>1, TopBound
<1>4. /\ v \in Values /\ v[1] = t /\ v[2] = at[t].sent + 1 /\ at[t].sent \in Nat
      /\ v \notin Published /\ v = <<t, at[t].sent + 1>>
  BY ItemFacts
<1>5. \A q \in Ladder, j \in Nat :
        /\ q = p /\ Index(p, j) = Index(p, e) => Sequence(q, j)' = e + 1 /\ Data(q, j)' = v
        /\ ~(q = p /\ Index(p, j) = Index(p, e)) => Sequence(q, j)' = Sequence(q, j) /\ Data(q, j)' = Data(q, j)
  <2>1. e + 1 \in Nat /\ v \in Values \cup {<<>>}
    BY <1>1, <1>4
  <2> HIDE DEF v
  <2> QED BY <2>1, <1>1, StoreAt DEF v
<1> HIDE DEF v
<1>6. Sequence(p, e)' = e + 1 /\ Data(p, e)' = v
  BY <1>1, <1>5
<1>7. \A i, j \in Nat : Index(p, i) = Index(p, j) /\ i < j => j >= i + S
  BY <1>1, IndexFacts
<1>8. \A j \in Nat : d <= j /\ j < d + S /\ j # e => Index(p, j) # Index(p, e)
  <2> TAKE j \in Nat
  <2> SUFFICES ASSUME d <= j, j < d + S, j # e, Index(p, j) = Index(p, e) PROVE FALSE
    OBVIOUS
  <2>1. CASE j < e
    <3>1. e >= j + S
      BY <2>1, <1>1, <1>7
    <3> QED BY <3>1, <1>1, <1>2, <1>3
  <2>2. CASE e < j
    <3>1. j >= e + S
      BY <2>2, <1>1, <1>7
    <3> QED BY <3>1, <1>1, <1>2, <1>3
  <2> QED BY <2>1, <2>2, <1>1
<1>9. \A u \in Consumers : \A j : Reader(u, p, j) => j \in Nat /\ Index(p, j) # Index(p, e) /\ j # e
  <2> TAKE u \in Consumers
  <2> TAKE j
  <2> HAVE Reader(u, p, j)
  <2>1. j \in Nat /\ j < d /\ Top(p) <= j + S
    BY ReaderFacts
  <2>2. Index(p, j) = Index(p, e) => e >= j + S
    BY <2>1, <1>1, <1>2, <1>3, <1>7
  <2> QED BY <2>1, <2>2, <1>1, <1>2, <1>3
<1>10. /\ \A u \in Threads : u # t => at'[u] = at[u]
       /\ at'[t].pc = "idle" /\ at'[t].part = p /\ at'[t].pos = 0 /\ at'[t].sent = at[t].sent + 1
  BY <1>1 DEF TypeInv, TypeOK
<1>11. \A q : Top(q)' = Top(q)
  BY DEF Top
<1>12. /\ \A u \in Producers : \A q, j : Writer(u, q, j)' <=> Writer(u, q, j) /\ u # t
       /\ \A u \in Consumers : \A q, j : Reader(u, q, j)' <=> Reader(u, q, j)
  BY <1>10, ThreadAssumption, Zenon DEF Writer, Reader, Threads
<1>13. Published' = Published \cup {v} /\ Claimed' = Claimed
  <2>1. \A w \in Values : /\ w \in Published' <=> w \in Published \/ w = v
                          /\ w \in Claimed' <=> w \in Claimed
    <3> TAKE w \in Values
    <3>1. w[1] \in Producers /\ w = <<w[1], w[2]>> /\ w[2] \in Nat
      BY ValuesType
    <3>2. CASE w[1] = t
      <4>1. w = v <=> w[2] = at[t].sent + 1
        BY <3>1, <3>2, <1>4
      <4>2. w \in Published <=> w[2] <= at[t].sent
        BY <3>2 DEF Published
      <4>3. w \in Published' <=> w[2] <= at[t].sent + 1
        BY <3>2, <1>10, Zenon DEF Published
      <4>4. w \in Claimed <=> w[2] <= at[t].sent \/ w[2] = at[t].sent + 1
        BY <3>2 DEF Claimed
      <4>5. w \in Claimed' <=> w[2] <= at[t].sent + 1
        BY <3>2, <1>10, Zenon DEF Claimed
      <4> QED BY <3>1, <4>1, <4>2, <4>3, <4>4, <4>5, <1>4
    <3>3. CASE w[1] # t
      <4>1. at'[w[1]] = at[w[1]] /\ w # v
        BY <3>1, <3>3, <1>4, <1>10, Zenon DEF Threads
      <4> QED BY <3>1, <4>1, Zenon DEF Published, Claimed
    <3> QED BY <3>2, <3>3
  <2> QED BY <2>1, <1>4, Zenon DEF Published, Claimed
<1>14. \A q \in Ladder : RingOK(q)'
  <2> TAKE q \in Ladder
  <2>1. RingOK(q) /\ Size(q)' = Size(q) /\ dequeuePos[q] \in Nat /\ Size(q) \in Nat
    BY <1>1, TopBound DEF QueueInv, Size
  <2>2. CASE q # p
    <3>1. \A j \in dequeuePos[q] .. dequeuePos[q] + Size(q) - 1 :
            /\ Sequence(q, j)' = Sequence(q, j) /\ Data(q, j)' = Data(q, j)
            /\ \A u \in Producers : Writer(u, q, j) => Writer(u, q, j)'
      <4> TAKE j \in dequeuePos[q] .. dequeuePos[q] + Size(q) - 1
      <4>1. j \in Nat
        BY <2>1
      <4>2. ~Writer(t, q, j)
        BY <2>2, <1>1 DEF Writer
      <4> QED BY <4>1, <4>2, <2>2, <1>5, <1>12
    <3> QED BY <2>1, <3>1, <1>11, <1>12, <1>13, RingKept
  <2>3. CASE q = p
    <3>1. \A j \in d .. d + S - 1 : CellOK(p, j)'
      <4> TAKE j \in d .. d + S - 1
      <4>1. CellOK(p, j) /\ j \in Nat
        BY <1>1, <1>3 DEF RingOK
      <4>2. CASE j = e
        BY <4>2, <1>1, <1>2, <1>3, <1>4, <1>6, <1>11 DEF CellOK
      <4>3. CASE j # e
        <5>1. Sequence(p, j)' = Sequence(p, j) /\ Data(p, j)' = Data(p, j)
          <6>1. d <= j /\ j < d + S
            BY <1>3
          <6> QED BY <6>1, <4>1, <4>3, <1>1, <1>5, <1>8
        <5>2. ~Writer(t, p, j)
          BY <4>3, <1>1 DEF Writer
        <5> QED BY <4>1, <5>1, <5>2, <1>11, <1>12, <2>1, <2>3, SMTT(30) DEF CellOK
      <4> QED BY <4>2, <4>3
    <3> QED BY <2>1, <2>3, <3>1, <1>11, <1>13 DEF RingOK
  <2> QED BY <2>2, <2>3
<1>15. \A u \in Producers : ProducerOK(u)'
  <2> TAKE u \in Producers
  <2>1. CASE u = t
    <3>1. p <= WritePartition /\ at[t].sent < MaxPushes[t] /\ MaxPushes[t] \in Nat
      BY <1>1, ThreadAssumption DEF ProducerOK
    <3>2. at[t].sent + 1 <= MaxPushes[t]
      BY <3>1, <1>4
    <3> QED BY <2>1, <3>1, <3>2, <1>10 DEF ProducerOK
  <2>2. CASE u # t
    <3>1. ProducerOK(u) /\ u \in Threads /\ at'[u] = at[u]
      BY <2>2, <1>10, Zenon DEF QueueInv, Threads
    <3>2. PICK q \in Ladder, j \in Nat : q = at[u].part /\ j = at[u].pos
      BY <1>1, <3>1, PositionType
    <3>3. enqueuePos[q] \in Nat
      BY <1>1, <3>2, CursorType
    <3>4. at[u].pc = "claim" /\ j = enqueuePos'[q] => Sequence(q, j)' = Sequence(q, j)
      <4> SUFFICES ASSUME at[u].pc = "claim", j = enqueuePos[q], q = p, Index(p, j) = Index(p, e) PROVE FALSE
        BY <3>2, <1>5
      <4>1. Sequence(p, j) = j
        BY <3>1, <3>2 DEF ProducerOK
      <4>2. Sequence(p, e) = j
        BY <4>1 DEF Sequence
      <4> QED BY <4>2, <1>1, <1>2, <1>3
    <3>5. at[u].pc = "publish" =>
            /\ dequeuePos'[q] <= j /\ j < Top(q)' /\ Sequence(q, j)' = Sequence(q, j)
            /\ \A w \in Producers : Writer(w, q, j)' => w = u
      <4> HAVE at[u].pc = "publish"
      <4>1. /\ dequeuePos[q] <= j /\ j < Top(q) /\ Writer(u, q, j)
            /\ \A w \in Producers : Writer(w, q, j) => w = u
        BY <3>2, WriterFacts DEF Writer
      <4>2. ~(q = p /\ j = e)
        BY <4>1, <2>2, <1>2
      <4>3. Sequence(q, j)' = Sequence(q, j)
        <5>1. q = p => Index(p, j) # Index(p, e)
          BY <4>1, <4>2, <3>2, <1>3, <1>8
        <5> QED BY <5>1, <3>2, <1>5
      <4> QED BY <4>1, <4>3, <1>11, <1>12
    <3>6. WritePartition <= WritePartition' /\ enqueuePos[q] <= enqueuePos'[q]
      BY <1>1, <3>3, CursorType
    <3> QED BY <3>1, <3>2, <3>4, <3>5, <3>6, <1>1, ProducerKept, Zenon
  <2> QED BY <2>1, <2>2
<1>16. \A u \in Consumers : ConsumerOK(u)'
  <2> TAKE u \in Consumers
  <2>1. ConsumerOK(u) /\ u \in Threads /\ at'[u] = at[u]
    BY <1>10, ThreadAssumption, Zenon DEF QueueInv, Threads
  <2>2. PICK q \in Ladder, j \in Nat : q = at[u].part /\ j = at[u].pos
    BY <1>1, <2>1, PositionType
  <2>3. at[u].pc = "claim" /\ j = dequeuePos'[q] => Sequence(q, j)' = Sequence(q, j)
    <3> SUFFICES ASSUME at[u].pc = "claim", j = dequeuePos[q], q = p, Index(p, j) = Index(p, e) PROVE FALSE
      BY <2>2, <1>5
    <3>1. Sequence(p, j) = j + 1
      BY <2>1, <2>2 DEF ConsumerOK
    <3>2. Sequence(p, e) = j + 1
      BY <3>1 DEF Sequence
    <3>3. j = e
      BY <2>2, <1>3, <1>8
    <3> QED BY <3>2, <3>3, <1>1, <1>2
  <2>4. at[u].pc = "read" => /\ Top(q)' <= j + Size(q)
                             /\ Sequence(q, j)' = Sequence(q, j) /\ Data(q, j)' = Data(q, j)
                             /\ \A w \in Consumers : Reader(w, q, j)' => w = u
    <3> HAVE at[u].pc = "read"
    <3>1. /\ Reader(u, q, j) /\ Top(q) <= j + Size(q)
          /\ \A w \in Consumers : Reader(w, q, j) => w = u
      BY <2>2, ReaderFacts DEF Reader
    <3>2. Sequence(q, j)' = Sequence(q, j) /\ Data(q, j)' = Data(q, j)
      BY <3>1, <2>2, <1>5, <1>9
    <3> QED BY <3>1, <3>2, <1>11, <1>12
  <2>5. WritePartition <= WritePartition' /\ ReadPartition <= ReadPartition' /\ dequeuePos[q] <= dequeuePos'[q]
    BY <1>1, <2>2, CursorType
  <2> QED BY <2>1, <2>2, <2>3, <2>4, <2>5, <1>1, ConsumerKept, Zenon
\* The pushed value joins the values in the queue, behind its producer's earlier ones.
<1>17. \A q \in Ladder, j \in Positions :
         /\ Held(q, j)' <=> Held(q, j) \/ (q = p /\ j = e)
         /\ Held(q, j) => Data(q, j)' = Data(q, j) /\ ~(q = p /\ j = e)
  <2> TAKE q \in Ladder, j \in Positions
  <2>1. j \in Nat
    BY <1>3 DEF Positions
  <2>2. CASE q # p
    BY <2>1, <2>2, <1>5, <1>11, <1>12 DEF Held
  <2>3. CASE q = p /\ j = e
    <3>1. Held(p, e)'
      BY <1>2, <1>6, <1>11 DEF Held
    <3>2. ~Held(p, e)
      BY <1>1, <1>2, <1>9 DEF Held
    <3> QED BY <2>3, <3>1, <3>2
  <2>4. CASE q = p /\ j # e
    <3>1. d <= j /\ j < Top(p) => Sequence(p, j)' = Sequence(p, j) /\ Data(p, j)' = Data(p, j)
      <4> HAVE d <= j /\ j < Top(p)
      <4>1. j < d + S
        BY <2>1, <1>3
      <4> QED BY <4>1, <2>1, <2>4, <1>1, <1>5, <1>8
    <3>2. (\E u \in Consumers : Reader(u, p, j)) => Sequence(p, j)' = Sequence(p, j) /\ Data(p, j)' = Data(p, j)
      BY <2>1, <1>1, <1>5, <1>9
    <3> QED BY <2>4, <3>1, <3>2, <1>11, <1>12 DEF Held
  <2> QED BY <2>2, <2>3, <2>4
<1>18. ValuesOK'
  <2>1. ValuesOK
    BY DEF QueueInv
  <2>2. \A q \in Ladder, j \in Positions : Held(q, j) => Data(q, j) \in Published \ taken
    BY <2>1 DEF ValuesOK
  <2>3. taken \subseteq Published
    BY <2>1 DEF ValuesOK
  <2>4. \A q \in Ladder, j \in Positions : Held(q, j)' =>
          /\ Data(q, j)' \in Published' \ taken
          /\ \A u \in Producers : Data(q, j)'[1] = u =>
               q <= at'[u].part /\ (at'[u].pc = "publish" /\ q = at'[u].part => j < at'[u].pos)
    <3> TAKE q \in Ladder, j \in Positions
    <3> HAVE Held(q, j)'
    <3>1. CASE q = p /\ j = e
      <4>1. p <= at'[t].part
        BY <1>1, <1>10, CursorType
      <4> QED BY <3>1, <4>1, <2>3, <1>4, <1>6, <1>10, <1>13, Zenon
    <3>2. CASE ~(q = p /\ j = e)
      <4>1. Held(q, j) /\ Data(q, j)' = Data(q, j)
        BY <3>2, <1>17
      <4>2. \A u \in Producers : Data(q, j)[1] = u =>
               q <= at[u].part /\ (at[u].pc = "publish" /\ q = at[u].part => j < at[u].pos)
        BY <4>1, <2>1 DEF ValuesOK
      <4>3. \A u \in Producers : at'[u].part = at[u].part /\
               (at'[u].pc = "publish" => at[u].pc = "publish" /\ at'[u].pos = at[u].pos)
        BY <1>1, <1>10, Zenon DEF Threads
      <4> QED BY <4>1, <4>2, <4>3, <2>2, <1>13, Zenon
    <3> QED BY <3>1, <3>2, Zenon
  <2>5. \A q, r \in Ladder, i, j \in Positions : Held(q, i)' /\ Held(r, j)' =>
          /\ Data(q, i)' = Data(r, j)' => q = r /\ i = j
          /\ Data(q, i)'[1] = Data(r, j)'[1] /\ Data(q, i)'[2] < Data(r, j)'[2] => Before(q, i, r, j)
    <3> TAKE q, r \in Ladder, i, j \in Positions
    <3> HAVE Held(q, i)' /\ Held(r, j)'
    <3>1. CASE ~(q = p /\ i = e) /\ ~(r = p /\ j = e)
      BY <3>1, <2>1, <1>17 DEF ValuesOK
    <3>2. CASE q = p /\ i = e /\ r = p /\ j = e
      <4>1. ~(v[2] < v[2])
        BY <1>4
      <4> QED BY <3>2, <4>1, <1>6
    <3>3. CASE q = p /\ i = e /\ ~(r = p /\ j = e)
      <4>1. Held(r, j) /\ Data(r, j)' = Data(r, j) /\ Data(r, j) \in Published
        BY <3>3, <2>2, <1>17
      <4>2. Data(r, j) # v
        BY <4>1, <1>4
      <4>3. v[1] = Data(r, j)[1] => ~(v[2] < Data(r, j)[2])
        <5>1. Data(r, j) \in Values /\ Data(r, j)[2] <= at[Data(r, j)[1]].sent
          BY <4>1 DEF Published
        <5> QED BY <5>1, <1>4, ValuesType
      <4> QED BY <3>3, <4>1, <4>2, <4>3, <1>6
    <3>4. CASE ~(q = p /\ i = e) /\ r = p /\ j = e
      <4>1. Held(q, i) /\ Data(q, i)' = Data(q, i) /\ Data(q, i) \in Published
        BY <3>4, <2>2, <1>17
      <4>2. Data(q, i) # v
        BY <4>1, <1>4
      <4>3. Data(q, i)[1] = t => q <= p /\ (q = p => i < e)
        BY <4>1, <2>1, <1>1 DEF ValuesOK
      <4>4. Data(q, i)[1] = t => Before(q, i, p, e)
        BY <4>3, <1>1, CursorType DEF Before
      <4> QED BY <3>4, <4>1, <4>2, <4>4, <1>4, <1>6, SMTT(30)
    <3> QED BY <3>1, <3>2, <3>3, <3>4
  <2>6. \A w \in Published' \ taken : \E q \in Ladder, j \in Positions : Held(q, j)' /\ Data(q, j)' = w
    <3> TAKE w \in Published' \ taken
    <3>1. CASE w = v
      <4>1. Held(p, e)'
        BY <1>1, <1>2, <1>17
      <4> QED BY <3>1, <4>1, <1>1, <1>2, <1>6
    <3>2. CASE w # v
      <4>1. PICK q \in Ladder, j \in Positions : Held(q, j) /\ Data(q, j) = w
        BY <3>2, <2>1, <1>13 DEF ValuesOK
      <4> QED BY <4>1, <1>17
    <3> QED BY <3>1, <3>2
  <2> QED BY <2>3, <2>4, <2>5, <2>6, <1>13, Zenon DEF ValuesOK, Before, Positions, Ladder
<1>19. OrderOK'
  <2>1. \A q \in Ladder, j \in Positions : (\E u \in Consumers : Reader(u, q, j)) => Data(q, j)' = Data(q, j)
    <3> TAKE q \in Ladder, j \in Positions
    <3> HAVE \E u \in Consumers : Reader(u, q, j)
    <3>1. Held(q, j)
      BY DEF Held
    <3> QED BY <3>1, <1>17
  <2>2. \A w : Got(w)' <=> Got(w)
    BY <2>1, <1>12 DEF Got, Positions, Ladder
  <2> QED BY <2>2 DEF QueueInv, OrderOK
<1>20. Cursors'
  BY DEF QueueInv, Cursors, Ladder
<1> QED BY <1>14, <1>15, <1>16, <1>18, <1>19, <1>20 DEF QueueInv, Ladder
=============================================================================
