--------------------------- MODULE ConcurrentQueue --------------------------
(***************************************************************************)
(* src/src/asyncio/ringBuffer.c: the unbounded lock-free queue behind      *)
(* base->globalQueue and every pool.  It is a ladder of rings, each twice  *)
(* as large as the one before.  Producers move up when their ring is full, *)
(* consumers when theirs is drained, sealing it against late producers.    *)
(*                                                                         *)
(* Each load or CAS of a shared word is a step.  The store of a cell's     *)
(* data and the store of its sequence are one step, because nobody else    *)
(* may touch a claimed cell; so are the load of the data and the store     *)
(* that frees the cell.  A ring that partitionInit has not yet allocated   *)
(* answers a pop as an empty one does, so the rings are there from the     *)
(* start.                                                                  *)
(***************************************************************************)
EXTENDS Integers, FiniteSets

CONSTANTS
  Producers, Consumers,
  MaxPushes,       \* MaxPushes[t] bounds the pushes of producer t
  InitialSize,     \* 2^CONCURRENT_QUEUE_INITIAL_SIZE_LOG2
  Partitions,      \* CONCURRENT_QUEUE_PARTITIONS
  Sealed,          \* CONCURRENT_QUEUE_SEALED
  Watched,         \* the consumers whose pops remember what was published when they began (history)
  StaleReaders     \* the threads whose relaxed loads of a partition cursor may return an older value

ASSUME SizeAssumption == InitialSize \in Nat \ {0, 1} /\ Partitions \in Nat \ {0}

ASSUME ThreadAssumption ==
  /\ IsFiniteSet(Producers)
  /\ Producers \cap Consumers = {}
  /\ MaxPushes \in [Producers -> Nat]

VARIABLES
  cell,                           \* the rings: a sequence number and a datum per cell
  enqueuePos, dequeuePos,
  WritePartition, ReadPartition,
  at,                             \* where each thread is in its call
  taken                           \* history: the values pops have returned

vars == <<cell, enqueuePos, dequeuePos, WritePartition, ReadPartition, at, taken>>

Threads == Producers \cup Consumers
Ladder == 0 .. Partitions - 1
Size(p) == InitialSize * 2 ^ p
Index(p, pos) == pos % Size(p)   \* pos & mask
Values == UNION {{t} \X (1 .. MaxPushes[t]) : t \in Producers}

\* No position and no sequence number of a ring reaches the seal.
ASSUME SealAssumption == Sealed \in Nat /\ \A p \in Ladder : Sealed > Cardinality(Values) + Size(p)

\* Where a thread can be in a push or a pop.
Stages == {"idle", "again", "pos", "look", "claim", "publish", "full", "read",
           "empty", "drained", "compare", "seal", "advance"}
Place == [pc : Stages, part : Ladder, pos : Nat, sent : Nat, before : SUBSET Values]

Init ==
  /\ cell = [p \in Ladder |-> [i \in 0 .. Size(p) - 1 |-> [sequence |-> i, data |-> <<>>]]]
  /\ enqueuePos = [p \in Ladder |-> 0]
  /\ dequeuePos = [p \in Ladder |-> 0]
  /\ WritePartition = 0
  /\ ReadPartition = 0
  /\ at = [t \in Threads |-> [pc |-> "idle", part |-> 0, pos |-> 0, sent |-> 0, before |-> {}]]
  /\ taken = {}

At(t, pc) == at[t].pc = pc
Go(t, pc) == at' = [at EXCEPT ![t].pc = pc]
GoAt(t, pc, pos) == at' = [at EXCEPT ![t].pc = pc, ![t].pos = pos]
Local == UNCHANGED <<cell, enqueuePos, dequeuePos, WritePartition, ReadPartition, taken>>
Cell(t) == cell[at[t].part][Index(at[t].part, at[t].pos)]
Store(t, sequence, data) ==
  cell' = [cell EXCEPT ![at[t].part][Index(at[t].part, at[t].pos)] = [sequence |-> sequence, data |-> data]]

\* What t's relaxed load of a growing cursor returns: a thread never sees a value
\* older than one it has seen, by a load or by a CAS that failed.
Loaded(t, seen, cursor) == IF t \in StaleReaders THEN seen .. cursor ELSE {cursor}

\* The push that t has claimed a cell for.
Item(t) == <<t, at[t].sent + 1>>

\* A value is published when its cell's sequence says so; until then its cell is
\* claimed and unreadable.
Published == {v \in Values : v[2] <= at[v[1]].sent}
-----------------------------------------------------------------------------
\* concurrentQueuePush: the partition to try, on entry and after a full ring.
pushSelects(t) ==
  /\ \/ At(t, "idle") /\ at[t].sent < MaxPushes[t]
     \/ At(t, "again")
  /\ \E p \in Loaded(t, at[t].part, WritePartition) : at' = [at EXCEPT ![t].pc = "pos", ![t].part = p]
  /\ Local

\* partitionPush: the load of enqueuePos ...
pushPosition(t) ==
  /\ At(t, "pos")
  /\ GoAt(t, "look", enqueuePos[at[t].part])
  /\ Local

\* ... the check of the cell it names ...
pushLooks(t) ==
  /\ At(t, "look")
  /\ LET diff == Cell(t).sequence - at[t].pos IN
     \/ diff = 0 /\ Go(t, "claim")
     \/ diff < 0 /\ Go(t, "full")
     \/ diff > 0 /\ Go(t, "pos")
  /\ Local

\* Slip: a failed claim is retried at the position it failed for.
pushClaimsAgain(t) ==
  /\ At(t, "claim")
  /\ LET p == at[t].part IN
     \/ /\ enqueuePos[p] = at[t].pos
        /\ enqueuePos' = [enqueuePos EXCEPT ![p] = @ + 1]
        /\ Go(t, "publish")
     \/ /\ enqueuePos[p] # at[t].pos
        /\ Go(t, "look")
        /\ UNCHANGED enqueuePos
  /\ UNCHANGED <<cell, dequeuePos, WritePartition, ReadPartition, taken>>

\* ... the claim, which on failure goes on from the position it observed ...
pushClaims(t) ==
  /\ At(t, "claim")
  /\ LET p == at[t].part IN
     \/ /\ enqueuePos[p] = at[t].pos
        /\ enqueuePos' = [enqueuePos EXCEPT ![p] = @ + 1]
        /\ Go(t, "publish")
     \/ /\ enqueuePos[p] # at[t].pos
        /\ GoAt(t, "look", enqueuePos[p])
        /\ UNCHANGED enqueuePos
  /\ UNCHANGED <<cell, dequeuePos, WritePartition, ReadPartition, taken>>

\* ... and the publication of the claimed cell; the push returns.
pushPublishes(t) ==
  /\ At(t, "publish")
  /\ Store(t, at[t].pos + 1, Item(t))
  /\ at' = [at EXCEPT ![t].pc = "idle", ![t].pos = 0, ![t].sent = @ + 1]
  /\ UNCHANGED <<enqueuePos, dequeuePos, WritePartition, ReadPartition, taken>>

\* A full ring: the write cursor moves up, unless somebody moved it already.
pushMovesUp(t) ==
  /\ At(t, "full")
  /\ WritePartition' = IF at[t].part + 1 < Partitions /\ WritePartition = at[t].part
                       THEN at[t].part + 1 ELSE WritePartition
  /\ at' = [at EXCEPT ![t].pc = "again", ![t].pos = 0, ![t].part = WritePartition']
  /\ UNCHANGED <<cell, enqueuePos, dequeuePos, ReadPartition, taken>>
-----------------------------------------------------------------------------
\* concurrentQueuePop: the partition to try, on entry and on each retry.
popSelects(t) ==
  /\ At(t, "idle") \/ At(t, "again")
  /\ \E p \in Loaded(t, at[t].part, ReadPartition) :
       at' = [at EXCEPT ![t].pc = "pos", ![t].part = p,
                        ![t].before = IF t \notin Watched THEN {}
                                        ELSE IF At(t, "idle") THEN Published \ taken ELSE @ \ taken]
  /\ Local

\* partitionPop: the load of dequeuePos ...
popPosition(t) ==
  /\ At(t, "pos")
  /\ GoAt(t, "look", dequeuePos[at[t].part])
  /\ Local

\* ... the check of the cell it names ...
popLooks(t) ==
  /\ At(t, "look")
  /\ LET diff == Cell(t).sequence - (at[t].pos + 1) IN
     \/ diff = 0 /\ Go(t, "claim")
     \/ diff < 0 /\ Go(t, "empty")
     \/ diff > 0 /\ Go(t, "pos")
  /\ Local

\* ... the claim ...
popClaims(t) ==
  /\ At(t, "claim")
  /\ LET p == at[t].part IN
     \/ /\ dequeuePos[p] = at[t].pos
        /\ dequeuePos' = [dequeuePos EXCEPT ![p] = @ + 1]
        /\ Go(t, "read")
     \/ /\ dequeuePos[p] # at[t].pos
        /\ GoAt(t, "look", dequeuePos[p])
        /\ UNCHANGED dequeuePos
  /\ UNCHANGED <<cell, enqueuePos, WritePartition, ReadPartition, taken>>

\* ... the datum is read and the cell freed for the next lap; the pop returns 1.
popReturns(t) ==
  /\ At(t, "read")
  /\ taken' = taken \cup {Cell(t).data}
  /\ Store(t, at[t].pos + Size(at[t].part), <<>>)
  /\ at' = [at EXCEPT ![t].pc = "idle", ![t].pos = 0, ![t].before = {}]
  /\ UNCHANGED <<enqueuePos, dequeuePos, WritePartition, ReadPartition>>

\* Slip: an empty ring is taken for an empty queue.
popStops(t) ==
  /\ At(t, "empty")
  /\ at' = [at EXCEPT ![t].pc = "idle", ![t].pos = 0, ![t].before = {}]
  /\ Local

\* An empty ring: without a next one the pop returns 0.
popFindsEmpty(t) ==
  /\ At(t, "empty")
  /\ \E w \in Loaded(t, 0, WritePartition) :
       at' = IF at[t].part >= w THEN [at EXCEPT ![t].pc = "idle", ![t].pos = 0, ![t].before = {}]
             ELSE [at EXCEPT ![t].pc = "drained"]
  /\ Local

\* Before the cursor moves, the ring must be drained and sealed: the two loads ...
popReadsEnqueue(t) ==
  /\ At(t, "drained")
  /\ LET e == enqueuePos[at[t].part]
     IN  IF e = Sealed THEN GoAt(t, "advance", 0) ELSE GoAt(t, "compare", e)
  /\ Local

\* Slip: the ring is not sealed.
popComparesOnly(t) ==
  /\ At(t, "compare")
  /\ GoAt(t, IF dequeuePos[at[t].part] = at[t].pos THEN "advance" ELSE "again", 0)
  /\ Local

popCompares(t) ==
  /\ At(t, "compare")
  /\ IF dequeuePos[at[t].part] = at[t].pos THEN Go(t, "seal") ELSE GoAt(t, "again", 0)
  /\ Local

\* ... the sealing CAS, which a claim that slipped in fails ...
popSeals(t) ==
  /\ At(t, "seal")
  /\ LET p == at[t].part
         won == enqueuePos[p] = at[t].pos
     IN  /\ enqueuePos' = IF won THEN [enqueuePos EXCEPT ![p] = Sealed] ELSE enqueuePos
         /\ GoAt(t, IF won THEN "advance" ELSE "again", 0)
  /\ UNCHANGED <<cell, dequeuePos, WritePartition, ReadPartition, taken>>

\* ... and the advance of the read cursor, which several consumers may help.
popAdvances(t) ==
  /\ At(t, "advance")
  /\ ReadPartition' = IF ReadPartition = at[t].part THEN at[t].part + 1 ELSE ReadPartition
  /\ at' = [at EXCEPT ![t].pc = "again", ![t].part = ReadPartition']
  /\ UNCHANGED <<cell, enqueuePos, dequeuePos, WritePartition, taken>>
-----------------------------------------------------------------------------
concurrentQueuePush(t) ==
  \/ pushSelects(t) \/ pushPosition(t) \/ pushLooks(t) \/ pushClaims(t)
  \/ pushPublishes(t) \/ pushMovesUp(t)

concurrentQueuePop(t) ==
  \/ popSelects(t) \/ popPosition(t) \/ popLooks(t) \/ popClaims(t) \/ popReturns(t)
  \/ popFindsEmpty(t) \/ popReadsEnqueue(t) \/ popCompares(t) \/ popSeals(t) \/ popAdvances(t)

Next ==
  \/ \E t \in Producers : concurrentQueuePush(t)
  \/ \E t \in Consumers : concurrentQueuePop(t)

Spec == Init /\ [][Next]_vars

\* A thread inside a call keeps running; consumers keep polling.
FairSpec ==
  /\ Spec
  /\ \A t \in Producers : WF_vars(concurrentQueuePush(t))
  /\ \A t \in Consumers : WF_vars(concurrentQueuePop(t))
-----------------------------------------------------------------------------
TypeOK ==
  /\ \A p \in Ladder : cell[p] \in [0 .. Size(p) - 1 -> [sequence : Nat, data : Values \cup {<<>>}]]
  /\ enqueuePos \in [Ladder -> Nat]
  /\ dequeuePos \in [Ladder -> Nat]
  /\ WritePartition \in Ladder
  /\ ReadPartition \in Ladder
  /\ at \in [Threads -> Place]
  /\ taken \subseteq Values

\* Readers that have claimed a cell and not yet read it.
Reading == {t \in Consumers : At(t, "read")}

\* The values a pop can still find: cells of the rings the read cursor has not
\* left, between the two positions, and the cells being read.
Window(p) == {i \in dequeuePos[p] .. dequeuePos[p] + Size(p) - 1 :
                i < enqueuePos[p] /\ enqueuePos[p] # Sealed}
Readable(p) == {cell[p][Index(p, i)].data :
                  i \in {j \in Window(p) : cell[p][Index(p, j)].sequence = j + 1}}
InRings == UNION {Readable(p) : p \in ReadPartition .. Partitions - 1}
InHands == {Cell(t).data : t \in Reading}
Inside == InRings \cup InHands

H == INSTANCE Handoff WITH Items <- Values, inside <- Inside, outside <- taken

\* Values of one producer are claimed in the order it pushed them, across rings.
ClaimedInPushOrder ==
  LET claimed == Values \cap (taken \cup {Cell(t).data : t \in Reading})
  IN  \A v \in claimed : \A n \in 1 .. v[2] - 1 : <<v[1], n>> \in claimed

\* The read cursor never passes the write cursor, even when consumers see a stale
\* write cursor, so it cannot seal rings that were never used.
ReadBehindWrite == ReadPartition <= WritePartition

\* The queue hands every value over exactly once: no cell is overwritten before
\* it is read or read twice, and no value is left in a ring that the read cursor
\* has passed, whatever producer stalls between its load and its claim.  On the way
\* the values of a producer keep their order and the cursors theirs.
HandsOverOnce == H!Spec /\ [](TypeOK /\ ClaimedInPushOrder /\ ReadBehindWrite)

\* Where a value is.
Holding(p, v) == {i \in Window(p) : cell[p][Index(p, i)].data = v}
Stalled(p, i) == \E t \in Producers : At(t, "publish") /\ at[t].part = p /\ at[t].pos < i

\* A pop answers "empty" past a value whose push had returned before the pop
\* began only if an earlier cell is claimed by a push that has still to publish
\* it: that push will ring its own doorbell, so a loop thread that goes to sleep
\* on this answer is woken.  A thread that may see an older write cursor can also
\* answer "empty" in front of a ring it does not know of.  (Every consumer may be
\* watched; the pops of the others remember nothing.)
EmptyOnlyBehindAPush ==
  [][\A t \in Consumers :
       /\ At(t, "look") /\ at'[t].pc = "empty" =>
            \A v \in at[t].before \ taken : \A i \in Holding(at[t].part, v) : Stalled(at[t].part, i)
       /\ At(t, "empty") /\ at'[t].pc = "idle" /\ t \notin StaleReaders =>
            \A v \in at[t].before \ taken : \A p \in at[t].part + 1 .. Partitions - 1 : Holding(p, v) = {}]_vars

\* Every push returns and every value is handed out: no producer spins for ever
\* on a sealed ring and no consumer waits for ever in front of one.
EverythingDelivered == <>[](taken = Values)
=============================================================================
