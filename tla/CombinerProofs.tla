--------------------------- MODULE CombinerProofs ---------------------------
(***************************************************************************)
(* Proofs about Combiner for any set of threads, operations and tags and   *)
(* any number of incarnations: its safety, and that it implements Mailbox. *)
(***************************************************************************)
EXTENDS Combiner, SequenceTheorems, TLAPS

\* The inductive strengthening.  Head is 0 exactly when nobody owns a live
\* object; only a thread inside combiner() holds captured entries; a destroyed
\* object keeps a non-zero Head until initObjectRoot resets it, and nobody can
\* enter it afterwards because no envelope carries its new generation yet.
IInv ==
  /\ TypeOK
  /\ SingleOwner
  /\ NoPassOnDeadObject
  /\ head = Idle => Owners = {}
  /\ life = "live" /\ head # Idle => Owners # {}
  /\ life = "dead" => head # Idle
  /\ life = "building" => head = Idle
  /\ \A t \in Threads : pc[t] # "run" => chain[t] = <<>>

\* The stub is a well-formed word, and is not the idle one.
LEMMA StubType == Stub \in Seq(Entry) /\ Stub # Idle /\ Len(Stub) = 1
  BY DEF Stub, Idle, Node, Entry

\* Linking a node gives a well-formed, non-zero word.
LEMMA PushType ==
  ASSUME NEW op \in Ops, NEW w \in Seq(Entry)
  PROVE  /\ <<Node(op)>> \in Seq(Entry)
         /\ <<Node(op)>> \o w \in Seq(Entry)
         /\ <<Node(op)>> \o w # Idle
  BY DEF Node, Entry, Idle

\* OR-ing tags onto the newest entry keeps the word well-formed.
LEMMA OrType ==
  ASSUME NEW w \in Seq(Entry), w # Idle, NEW tags \in SUBSET Tags
  PROVE  /\ <<Bare(tags)>> \in Seq(Entry)
         /\ <<Bare(tags)>> # Idle
         /\ [w EXCEPT ![1] = Tagged(@, tags)] \in Seq(Entry)
         /\ [w EXCEPT ![1] = Tagged(@, tags)] # Idle
  <1>1. w[1] \in Entry /\ Len(w) \in Nat \ {0} /\ 1 \in DOMAIN w
    BY DEF Idle
  <1>2. Tagged(w[1], tags) \in Entry
    BY <1>1 DEF Entry, Tagged
  <1>3. Bare(tags) \in Entry
    BY DEF Bare, Entry
  <1>4. QED
    BY <1>1, <1>2, <1>3 DEF Idle

\* What the owner captures is a well-formed list of entries.
LEMMA CapturedType ==
  ASSUME NEW w \in Seq(Entry), w # Idle
  PROVE  Captured(w) \in Seq(Entry)
  <1>1. Reversed(w) \in Seq(Entry) /\ Reversed(w) # <<>>
    BY DEF Reversed, Idle
  <1>2. Tail(Reversed(w)) \in Seq(Entry)
    BY <1>1
  <1>3. QED
    BY <1>1, <1>2 DEF Captured

\* The initial state satisfies the inductive invariant.
LEMMA InitIInv == Init => IInv
  BY DEF Init, IInv, TypeOK, SingleOwner, NoPassOnDeadObject, Owners, Idle

\* Becoming the owner of an idle live object.
LEMMA EnterIdle ==
  ASSUME IInv, NEW t \in Threads, pc[t] = "out", life = "live", head = Idle,
         head' \in Seq(Entry), head' # Idle,
         NEW to \in {"run", "acquired"}, pc' = [pc EXCEPT ![t] = to],
         chain' \in [Threads -> Seq(Entry)],
         \A u \in Threads : u # t => chain'[u] = chain[u],
         to = "acquired" => chain'[t] = <<>>,
         UNCHANGED <<generation, life>>
  PROVE  IInv'
  <1>1. Owners = {}
    BY DEF IInv
  <1>2. TypeOK'
    BY Zenon DEF IInv, TypeOK
  <1>3. Owners' = {t}
    BY <1>1 DEF Owners, IInv, TypeOK
  <1>4. SingleOwner' /\ NoPassOnDeadObject'
    BY <1>3 DEF Owners, SingleOwner, NoPassOnDeadObject
  <1>5. \A u \in Threads : pc'[u] # "run" => chain'[u] = <<>>
    BY DEF IInv, TypeOK
  <1>6. QED
    BY <1>2, <1>3, <1>4, <1>5 DEF IInv

\* Changing the newest entries of a non-zero word.
LEMMA PushBusy ==
  ASSUME IInv, head # Idle, head' \in Seq(Entry), head' # Idle,
         UNCHANGED <<generation, life, pc, chain>>
  PROVE  IInv'
  BY DEF IInv, TypeOK, Owners, SingleOwner, NoPassOnDeadObject

\* OR-ing tags onto the Head of a live object.
LEMMA OrTagsIInv ==
  ASSUME IInv, NEW t \in Threads, NEW tags \in SUBSET Tags, life = "live", OrTags(t, tags)
  PROVE  IInv'
  <1>0. head \in Seq(Entry) /\ chain \in [Threads -> Seq(Entry)] /\ <<>> \in Seq(Entry)
    BY DEF IInv, TypeOK
  <1>1. CASE head = Idle
    <2>1. /\ head' = <<Bare(tags)>>
          /\ pc' = [pc EXCEPT ![t] = "run"]
          /\ chain' = [chain EXCEPT ![t] = <<>>]
          /\ pc[t] = "out"
          /\ UNCHANGED <<generation, life>>
      BY <1>1 DEF OrTags, Enter
    <2>2. <<Bare(tags)>> \in Seq(Entry) /\ <<Bare(tags)>> # Idle
      BY DEF Bare, Entry, Idle
    <2>3. QED
      BY <1>0, <1>1, <2>1, <2>2, EnterIdle, Zenon
  <1>2. CASE head # Idle
    BY <1>0, <1>2, OrType, PushBusy, Zenon DEF OrTags
  <1>3. QED
    BY <1>1, <1>2

\* Submissions, on either path, preserve the invariant.
LEMMA SubmitIInv ==
  ASSUME IInv, NEW t \in Threads, NEW op \in Ops, life = "live",
         PushOperation(t, op) \/ Acquire(t, op)
  PROVE  IInv'
  <1>0. head \in Seq(Entry) /\ chain \in [Threads -> Seq(Entry)]
    BY DEF IInv, TypeOK
  <1>1. CASE head = Idle /\ PushOperation(t, op)
    <2>1. /\ head' = Stub
          /\ pc' = [pc EXCEPT ![t] = "run"]
          /\ chain' = [chain EXCEPT ![t] = <<Node(op)>>]
          /\ pc[t] = "out"
          /\ UNCHANGED <<generation, life>>
      BY <1>1 DEF PushOperation, Enter
    <2>2. QED
      BY <1>0, <1>1, <2>1, StubType, PushType, EnterIdle, Zenon
  <1>2. CASE head = Idle /\ Acquire(t, op)
    <2>1. /\ head' = Stub
          /\ pc' = [pc EXCEPT ![t] = "acquired"]
          /\ pc[t] = "out"
          /\ UNCHANGED <<generation, life, chain>>
      BY <1>2 DEF Acquire
    <2>2. chain[t] = <<>>
      BY <2>1 DEF IInv
    <2>3. QED
      BY <1>0, <1>2, <2>1, <2>2, StubType, EnterIdle, Zenon
  <1>3. CASE head # Idle
    BY <1>0, <1>3, PushType, PushBusy, Zenon DEF PushOperation, Acquire, PushNode
  <1>4. QED
    BY <1>1, <1>2, <1>3

\* A step of the owner that stays the owner, with Head still non-zero.
LEMMA OwnerStays ==
  ASSUME IInv, NEW t \in Threads, pc[t] # "out",
         NEW to \in {"run", "acquired", "sweep"}, pc' = [pc EXCEPT ![t] = to],
         head' \in Seq(Entry), head' # Idle,
         chain' \in [Threads -> Seq(Entry)],
         \A u \in Threads : u # t => chain'[u] = chain[u],
         to # "run" => chain'[t] = <<>>,
         UNCHANGED <<generation, life>>
  PROVE  IInv'
  <1>1. TypeOK'
    BY Zenon DEF IInv, TypeOK
  <1>2. Owners' = Owners /\ t \in Owners
    BY DEF Owners, IInv, TypeOK
  <1>3. SingleOwner'
    BY DEF SingleOwner, IInv, TypeOK
  <1>4. life = "live"
    BY <1>2 DEF IInv, NoPassOnDeadObject, TypeOK
  <1>5. \A u \in Threads : pc'[u] # "run" => chain'[u] = <<>>
    BY DEF IInv, TypeOK
  <1>6. QED
    BY <1>1, <1>2, <1>3, <1>4, <1>5 DEF IInv, NoPassOnDeadObject

\* A step of the owner that leaves: by the release CAS, or by destroying the
\* object.
LEMMA OwnerLeaves ==
  ASSUME IInv, NEW t \in Threads, pc[t] # "out", pc' = [pc EXCEPT ![t] = "out"],
         chain' \in [Threads -> Seq(Entry)],
         \A u \in Threads : u # t => chain'[u] = chain[u],
         chain'[t] = <<>>,
         \/ head' = Idle /\ UNCHANGED <<generation, life>>
         \/ UNCHANGED head /\ life' = "dead" /\ generation' = generation + 1
  PROVE  IInv'
  <1>1. Owners' = {}
    BY DEF Owners, IInv, TypeOK, SingleOwner
  <1>2. TypeOK'
    <2>1. head' \in Seq(Entry)
      <3>1. CASE head' = Idle
        BY <3>1 DEF Idle
      <3>2. CASE head' = head
        BY <3>2 DEF IInv, TypeOK
      <3>3. QED
        BY <3>1, <3>2
    <2>2. generation' \in Nat \ {0} /\ life' \in {"live", "dead", "building"}
      BY DEF IInv, TypeOK
    <2>3. pc' \in [Threads -> {"out", "acquired", "run", "sweep"}]
      BY DEF IInv, TypeOK
    <2>4. QED
      BY <2>1, <2>2, <2>3 DEF TypeOK
  <1>3. t \in Owners
    BY DEF Owners
  <1>4. SingleOwner' /\ NoPassOnDeadObject'
    BY <1>1 DEF SingleOwner, NoPassOnDeadObject, Owners
  <1>5. \A u \in Threads : pc'[u] # "run" => chain'[u] = <<>>
    BY DEF IInv, TypeOK
  <1>6. life = "live" /\ head # Idle
    BY <1>3 DEF IInv, NoPassOnDeadObject
  <1>7. QED
    BY <1>1, <1>2, <1>4, <1>5, <1>6 DEF IInv

\* The owner's straight-line code preserves the invariant.
LEMMA CombinerStepIInv ==
  ASSUME IInv, NEW t \in Threads, CombinerStep(t)
  PROVE  IInv'
  <1>0. /\ head \in Seq(Entry)
        /\ chain \in [Threads -> Seq(Entry)]
        /\ pc \in [Threads -> {"out", "acquired", "run", "sweep"}]
    BY DEF IInv, TypeOK
  <1>1. head # Idle \/ pc[t] = "out"
    BY <1>0 DEF IInv, Owners
  <1>2. CASE Capture(t)
    <2>1. /\ pc[t] = "run"
          /\ pc' = [pc EXCEPT ![t] = "run"]
          /\ head' = Stub
          /\ chain' = [chain EXCEPT ![t] = Captured(head)]
          /\ UNCHANGED <<generation, life>>
      BY <1>0, <1>2 DEF Capture
    <2>2. Captured(head) \in Seq(Entry)
      BY <1>0, <1>1, <2>1, CapturedType
    <2>3. QED
      BY <1>0, <2>1, <2>2, StubType, OwnerStays, Zenon
  <1>3. CASE Dispatch(t)
    <2>0. Tail(chain[t]) \in Seq(Entry)
      BY <1>0, <1>3 DEF Dispatch
    <2>1. CASE "DELETE" \in Head(chain[t]).tags
      <3>1. /\ pc[t] = "run"
            /\ pc' = [pc EXCEPT ![t] = "out"]
            /\ chain' = [chain EXCEPT ![t] = <<>>]
            /\ UNCHANGED head /\ life' = "dead" /\ generation' = generation + 1
        BY <1>3, <2>1 DEF Dispatch
      <3>2. /\ chain' \in [Threads -> Seq(Entry)]
            /\ chain'[t] = <<>>
            /\ \A u \in Threads : u # t => chain'[u] = chain[u]
        BY <1>0, <3>1
      <3>3. QED
        BY <3>1, <3>2, OwnerLeaves, Zenon
    <2>2. CASE "DELETE" \notin Head(chain[t]).tags
      <3>1. /\ pc[t] = "run"
            /\ pc' = [pc EXCEPT ![t] = "run"]
            /\ chain' = [chain EXCEPT ![t] = Tail(@)]
            /\ UNCHANGED <<head, generation, life>>
        BY <1>0, <1>3, <2>2 DEF Dispatch
      <3>2. QED
        BY <1>0, <1>1, <2>0, <3>1, OwnerStays, Zenon
    <2>3. QED
      BY <2>1, <2>2
  <1>4. CASE SeeStub(t)
    BY <1>0, <1>1, <1>4, OwnerStays, Zenon DEF SeeStub
  <1>5. CASE Release(t)
    <2>1. chain[t] = <<>>
      BY <1>5 DEF Release, IInv
    <2>2. CASE head = Stub
      BY <1>0, <1>5, <2>1, <2>2, OwnerLeaves DEF Release
    <2>3. CASE head # Stub
      BY <1>0, <1>1, <1>5, <2>1, <2>3, OwnerStays, Zenon DEF Release
    <2>4. QED
      BY <2>2, <2>3
  <1>6. QED
    BY <1>2, <1>3, <1>4, <1>5 DEF CombinerStep

\* Every step of the specification preserves the invariant.
LEMMA NextIInv == IInv /\ [Next]_vars => IInv'
  <1>1. SUFFICES ASSUME IInv, [Next]_vars PROVE IInv'
    OBVIOUS
  <1>2. ASSUME NEW t \in Threads, NEW op \in Ops, MaySubmit(op),
               PushOperation(t, op) \/ Acquire(t, op)
        PROVE  IInv'
    BY <1>1, <1>2, SubmitIInv DEF MaySubmit, Referenced
  <1>3. ASSUME NEW t \in Threads, NEW entries \in Seq(Entry), RunAcquired(t, entries)
        PROVE  IInv'
    <2>1. /\ pc[t] = "acquired"
          /\ pc' = [pc EXCEPT ![t] = "run"]
          /\ chain' = [chain EXCEPT ![t] = entries]
          /\ UNCHANGED <<head, generation, life>>
      BY <1>3 DEF RunAcquired, Enter
    <2>2. /\ head \in Seq(Entry) /\ head # Idle
          /\ chain' \in [Threads -> Seq(Entry)]
          /\ \A u \in Threads : u # t => chain'[u] = chain[u]
      BY <1>1, <2>1 DEF IInv, TypeOK, Owners
    <2>3. QED
      BY <1>1, <2>1, <2>2, OwnerStays, Zenon
  <1>4. ASSUME NEW t \in Threads, NEW tags \in (SUBSET Signals) \ {{}}, Referenced, PushCounter(t, tags)
        PROVE  IInv'
    BY <1>1, <1>4, OrTagsIInv DEF PushCounter, Referenced, Tags
  <1>5. ASSUME NEW t \in Threads, NEW tags \in (SUBSET Signals) \ {{}}, NEW g \in Issued,
               PushValidated(t, g, tags)
        PROVE  IInv'
    <2>1. CASE UNCHANGED vars
      BY <1>1, <2>1 DEF vars, IInv, TypeOK, SingleOwner, NoPassOnDeadObject, Owners
    <2>2. CASE generation = g /\ OrTags(t, tags)
      <3>1. life = "live"
        BY <1>1, <2>2 DEF Issued, IInv, TypeOK
      <3>2. QED
        BY <1>1, <2>2, <3>1, OrTagsIInv DEF Tags
    <2>3. QED
      BY <1>5, <2>1, <2>2 DEF PushValidated
  <1>6. ASSUME NEW t \in Threads, MayDelete(t), PushDelete(t)
        PROVE  IInv'
    BY <1>1, <1>6, OrTagsIInv DEF PushDelete, MayDelete, Referenced, Tags
  <1>7. CASE ResetHead
    <2>1. TypeOK'
      BY <1>1, <1>7 DEF ResetHead, IInv, TypeOK, Idle
    <2>2. QED
      BY <1>1, <1>7, <2>1
      DEF ResetHead, IInv, SingleOwner, NoPassOnDeadObject, Owners
  <1>8. CASE Publish
    BY <1>1, <1>8 DEF Publish, IInv, TypeOK, SingleOwner, NoPassOnDeadObject, Owners
  <1>9. CASE UNCHANGED vars
    BY <1>1, <1>9 DEF vars, IInv, TypeOK, SingleOwner, NoPassOnDeadObject, Owners
  <1>10. \A op \in Ops : <<Node(op)>> \in Seq(Entry)
    BY DEF Node, Entry
  <1>11. <<>> \in Seq(Entry)
    OBVIOUS
  <1>12. QED
    BY <1>1, <1>2, <1>3, <1>4, <1>5, <1>6, <1>7, <1>8, <1>9, <1>10, <1>11,
       CombinerStepIInv, ZenonT(30) DEF Next

\* The inductive invariant holds in every reachable state.
LEMMA Invariance == Spec => []IInv
  BY InitIInv, NextIInv, PTL DEF Spec

\* Type correctness of the Head word, the generation and the captured chains.
THEOREM TypeCorrect == Spec => []TypeOK
  <1>1. IInv => TypeOK
    BY DEF IInv
  <1>2. QED
    BY <1>1, Invariance, PTL

\* Two threads are never inside the combiner of one object, however many threads
\* submit, signal, cancel, delete and recycle it.
THEOREM MutualExclusion == Spec => []SingleOwner
  <1>1. IInv => SingleOwner
    BY DEF IInv
  <1>2. QED
    BY <1>1, Invariance, PTL

\* No thread is inside the combiner of a destroyed or half-built object.
THEOREM DeadObjectsAreLeftAlone == Spec => []NoPassOnDeadObject
  <1>1. IInv => NoPassOnDeadObject
    BY DEF IInv
  <1>2. QED
    BY <1>1, Invariance, PTL

\* A push never lands on a live object that nobody will drain.
THEOREM SignalsAreOwned == Spec => []NoOrphanedSignal
  <1>1. ASSUME IInv PROVE NoOrphanedSignal
    <2>1. SUFFICES ASSUME life = "live", Owners = {}, head # Idle \/ Pending # {}
                   PROVE  FALSE
      BY DEF NoOrphanedSignal
    <2>2. head = Idle
      BY <1>1, <2>1 DEF IInv
    <2>3. \A t \in Threads : chain[t] = <<>>
      BY <1>1, <2>1 DEF IInv, Owners
    <2>4. Pending = {}
      BY <2>2, <2>3 DEF Pending, EntriesOf, Idle
    <2>5. QED
      BY <2>1, <2>2, <2>4
  <1>2. QED
    BY <1>1, Invariance, PTL
-----------------------------------------------------------------------------
\* The combiner implements Mailbox.

\* What Reversed returns.
LEMMA ReversedType ==
  ASSUME NEW S, NEW s \in Seq(S)
  PROVE  /\ Reversed(s) \in Seq(S)
         /\ Len(Reversed(s)) = Len(s)
         /\ \A i \in 1 .. Len(s) : Reversed(s)[i] = s[(Len(s) - i) + 1]
  BY DEF Reversed

\* The first element of a sequence is the last of its reversal.
LEMMA ReversedPush ==
  ASSUME NEW S, NEW s \in Seq(S), NEW e \in S
  PROVE  Reversed(<<e>> \o s) = Append(Reversed(s), e)
  <1> DEFINE a == Reversed(<<e>> \o s)
             b == Append(Reversed(s), e)
  <1>1. <<e>> \o s \in Seq(S) /\ Len(<<e>> \o s) = Len(s) + 1 /\ Len(s) \in Nat
    OBVIOUS
  <1>2. (<<e>> \o s)[1] = e /\ \A i \in 1 .. Len(s) : (<<e>> \o s)[i + 1] = s[i]
    OBVIOUS
  <1>3. a \in Seq(S) /\ Len(a) = Len(s) + 1
    BY <1>1, ReversedType, Zenon
  <1>4. b \in Seq(S) /\ Len(b) = Len(s) + 1
    BY <1>1, ReversedType
  <1>5. ASSUME NEW i \in 1 .. Len(s) + 1 PROVE a[i] = b[i]
    <2>1. a[i] = (<<e>> \o s)[((Len(s) + 1) - i) + 1]
      <3> DEFINE u == <<e>> \o s
      <3>1. u \in Seq(S) /\ Len(u) = Len(s) + 1 /\ i \in 1 .. Len(u)
        BY <1>1
      <3> HIDE DEF u
      <3>2. Reversed(u)[i] = u[(Len(u) - i) + 1]
        BY <3>1, ReversedType
      <3>3. QED
        BY <3>1, <3>2 DEF u
    <2>2. CASE i = Len(s) + 1
      BY <1>1, <1>2, <2>1, <2>2, ReversedType
    <2>3. CASE i # Len(s) + 1
      <3>1. i \in 1 .. Len(s) /\ (Len(s) - i) + 1 \in 1 .. Len(s)
            /\ ((Len(s) + 1) - i) + 1 = ((Len(s) - i) + 1) + 1
        BY <1>1, <2>3
      <3>2. a[i] = s[(Len(s) - i) + 1]
        BY <1>2, <2>1, <3>1
      <3>3. b[i] = Reversed(s)[i]
        BY <1>1, <3>1, ReversedType
      <3>4. QED
        BY <3>1, <3>2, <3>3, ReversedType
    <2>4. QED
      BY <2>2, <2>3, Zenon
  <1>6. QED
    BY <1>3, <1>4, <1>5, SeqEqual, Zenon

\* Replacing the first element replaces the last one of the reversal.
LEMMA ReversedExcept ==
  ASSUME NEW S, NEW s \in Seq(S), s # <<>>, NEW e \in S
  PROVE  Reversed([s EXCEPT ![1] = e]) = [Reversed(s) EXCEPT ![Len(s)] = e]
  <1> DEFINE v == [s EXCEPT ![1] = e]
             r == Reversed(s)
             b == [r EXCEPT ![Len(s)] = e]
  <1>1. Len(s) \in Nat \ {0} /\ 1 \in 1 .. Len(s) /\ Len(s) \in 1 .. Len(s)
    OBVIOUS
  <1>2. /\ v \in Seq(S) /\ Len(v) = Len(s)
        /\ \A j \in 1 .. Len(s) : v[j] = IF j = 1 THEN e ELSE s[j]
    BY <1>1, ExceptSeq
  <1>3. /\ b \in Seq(S) /\ Len(b) = Len(s)
        /\ \A j \in 1 .. Len(s) : b[j] = IF j = Len(s) THEN e ELSE r[j]
    BY <1>1, ReversedType, ExceptSeq
  <1>4. Reversed(v) \in Seq(S) /\ Len(Reversed(v)) = Len(s)
    BY <1>2, ReversedType, Zenon
  <1>5. ASSUME NEW i \in 1 .. Len(s) PROVE Reversed(v)[i] = b[i]
    <2>1. (Len(s) - i) + 1 \in 1 .. Len(s) /\ ((Len(s) - i) + 1 = 1 <=> i = Len(s))
      BY <1>1
    <2>2. Reversed(v)[i] = v[(Len(s) - i) + 1] /\ r[i] = s[(Len(s) - i) + 1]
      <3> HIDE DEF v
      <3>1. i \in 1 .. Len(v)
        BY <1>2
      <3>2. Reversed(v)[i] = v[(Len(v) - i) + 1]
        BY <1>2, <3>1, ReversedType
      <3>3. QED
        BY <1>2, <3>2, ReversedType
    <2>3. QED
      BY <1>2, <1>3, <2>1, <2>2, Zenon
  <1>6. QED
    BY <1>3, <1>4, <1>5, SeqEqual, Zenon

\* Appending to, or replacing the last element of, a sequence of two or more
\* leaves its head alone and does the same to its tail.
LEMMA TailAppend ==
  ASSUME NEW S, NEW s \in Seq(S), s # <<>>, NEW e \in S
  PROVE  /\ Head(Append(s, e)) = Head(s)
         /\ Tail(Append(s, e)) = Append(Tail(s), e)
  OBVIOUS

\* Replacing the last element of a sequence of several replaces the last of its tail.
LEMMA TailExcept ==
  ASSUME NEW S, NEW s \in Seq(S), Len(s) > 1, NEW e \in S
  PROVE  /\ Head([s EXCEPT ![Len(s)] = e]) = Head(s)
         /\ Tail([s EXCEPT ![Len(s)] = e]) = [Tail(s) EXCEPT ![Len(Tail(s))] = e]
  <1>1. Len(s) \in Nat /\ s # <<>> /\ Len(s) \in 1 .. Len(s) /\ 1 \in 1 .. Len(s)
    OBVIOUS
  <1>2. PICK v : v = [s EXCEPT ![Len(s)] = e]
    BY Zenon
  <1>3. /\ v \in Seq(S) /\ Len(v) = Len(s) /\ v # <<>>
        /\ \A j \in 1 .. Len(s) : v[j] = IF j = Len(s) THEN e ELSE s[j]
    BY <1>1, <1>2, ExceptSeq
  <1>4. PICK tl \in Seq(S) : tl = Tail(s)
    BY <1>1, HeadTailProperties, Zenon
  <1>5. Len(tl) = Len(s) - 1 /\ \A j \in 1 .. Len(tl) : tl[j] = s[j + 1]
    BY <1>1, <1>4, HeadTailProperties
  <1>6. PICK a \in Seq(S) : a = Tail(v)
    BY <1>3, HeadTailProperties, Zenon
  <1>7. Len(a) = Len(v) - 1 /\ \A j \in 1 .. Len(a) : a[j] = v[j + 1]
    BY <1>3, <1>6, HeadTailProperties
  <1>8. Len(tl) \in 1 .. Len(tl)
    BY <1>1, <1>5
  <1>9. PICK b : b = [tl EXCEPT ![Len(tl)] = e]
    BY Zenon
  <1>10. /\ b \in Seq(S) /\ Len(b) = Len(tl)
         /\ \A j \in 1 .. Len(tl) : b[j] = IF j = Len(tl) THEN e ELSE tl[j]
    BY <1>8, <1>9, ExceptSeq
  <1>11. ASSUME NEW j \in 1 .. Len(a) PROVE a[j] = b[j]
    <2>1. /\ j + 1 \in 1 .. Len(s) /\ j \in 1 .. Len(tl)
          /\ (j + 1 = Len(s) <=> j = Len(tl))
      BY <1>1, <1>3, <1>5, <1>7
    <2>2. QED
      BY <1>3, <1>5, <1>7, <1>10, <2>1, SMTT(30)
  <1>12. a = b
    BY <1>3, <1>5, <1>7, <1>10, <1>11, SeqEqual, SMTT(30)
  <1>13. Head(v) = Head(s)
    BY <1>1, <1>3
  <1>14. QED
    BY <1>2, <1>4, <1>6, <1>9, <1>12, <1>13

\* What happens to the last element of the second part of a concatenation
\* happens to the last element of the whole.
LEMMA ConcatAppend ==
  ASSUME NEW S, NEW s \in Seq(S), NEW u \in Seq(S), NEW e \in S
  PROVE  s \o Append(u, e) = Append(s \o u, e)
  OBVIOUS

\* Replacing the last element of the second part replaces the last of the whole.
LEMMA ConcatExcept ==
  ASSUME NEW S, NEW s \in Seq(S), NEW u \in Seq(S), u # <<>>, NEW e \in S
  PROVE  /\ s \o u # <<>>
         /\ (s \o u)[Len(s \o u)] = u[Len(u)]
         /\ s \o [u EXCEPT ![Len(u)] = e] = [s \o u EXCEPT ![Len(s \o u)] = e]
  <1>1. Len(s) \in Nat /\ Len(u) \in Nat \ {0} /\ Len(u) \in 1 .. Len(u)
    OBVIOUS
  <1>2. PICK c \in Seq(S) : c = s \o u
    BY ConcatProperties, Zenon
  <1>3. /\ Len(c) = Len(s) + Len(u)
        /\ \A i \in 1 .. Len(c) : c[i] = IF i <= Len(s) THEN s[i] ELSE u[i - Len(s)]
    BY <1>2, ConcatProperties
  <1>4. PICK v : v = [u EXCEPT ![Len(u)] = e]
    BY Zenon
  <1>5. /\ v \in Seq(S) /\ Len(v) = Len(u)
        /\ \A j \in 1 .. Len(u) : v[j] = IF j = Len(u) THEN e ELSE u[j]
    BY <1>1, <1>4, ExceptSeq
  <1>6. PICK a \in Seq(S) : a = s \o v
    BY <1>5, ConcatProperties, Zenon
  <1>7. /\ Len(a) = Len(s) + Len(u)
        /\ \A i \in 1 .. Len(a) : a[i] = IF i <= Len(s) THEN s[i] ELSE v[i - Len(s)]
    <2>0. v \in Seq(S)
      BY <1>5
    <2>1. /\ Len(a) = Len(s) + Len(v)
          /\ \A i \in 1 .. Len(s) + Len(v) :
               a[i] = IF i <= Len(s) THEN s[i] ELSE v[i - Len(s)]
      BY <1>6, <2>0, ConcatProperties
    <2>2. QED
      BY <1>5, <2>1
  <1>8. Len(c) \in 1 .. Len(c) /\ ~(Len(c) <= Len(s)) /\ Len(c) - Len(s) = Len(u)
    BY <1>1, <1>3
  <1>9. PICK b : b = [c EXCEPT ![Len(c)] = e]
    BY ZenonT(30)
  <1>10. /\ b \in Seq(S) /\ Len(b) = Len(c)
         /\ \A i \in 1 .. Len(c) : b[i] = IF i = Len(c) THEN e ELSE c[i]
    BY <1>8, <1>9, ExceptSeq
  <1>11. ASSUME NEW i \in 1 .. Len(a) PROVE a[i] = b[i]
    <2>1. CASE i <= Len(s)
      <3>1. i \in 1 .. Len(c) /\ i # Len(c)
        BY <1>1, <1>3, <1>7, <2>1
      <3>2. a[i] = s[i] /\ c[i] = s[i]
        BY <1>3, <1>7, <2>1, <3>1
      <3>3. QED
        BY <1>10, <3>1, <3>2
    <2>2. CASE ~(i <= Len(s))
      <3>1. /\ i - Len(s) \in 1 .. Len(u) /\ i \in 1 .. Len(c)
            /\ (i - Len(s) = Len(u) <=> i = Len(c))
        BY <1>1, <1>3, <1>7, <2>2
      <3>2. QED
        BY <1>3, <1>5, <1>7, <1>10, <2>2, <3>1, Zenon
    <2>3. QED
      BY <2>1, <2>2
  <1>12. a = b
    BY <1>3, <1>7, <1>10, <1>11, SeqEqual
  <1>13. c # <<>> /\ c[Len(c)] = u[Len(u)]
    BY <1>3, <1>8
  <1>14. QED
    BY <1>2, <1>4, <1>6, <1>9, <1>12, <1>13, Zenon

\* The head and the tail of a concatenation come from its first part.
LEMMA HeadTailOfConcat ==
  ASSUME NEW S, NEW s \in Seq(S), NEW v \in Seq(S), s # <<>>
  PROVE  /\ s \o v # <<>> /\ Head(s \o v) = Head(s)
         /\ Tail(s \o v) = Tail(s) \o v
  OBVIOUS

\* Tags OR-ed onto the last entry of the second part are OR-ed onto the whole.
LEMMA ConcatTagged ==
  ASSUME NEW s \in Seq(Entry), NEW u \in Seq(Entry), u # <<>>, NEW tags \in SUBSET Tags
  PROVE  /\ s \o u # <<>>
         /\ s \o [u EXCEPT ![Len(u)] = Tagged(@, tags)]
            = [s \o u EXCEPT ![Len(s \o u)] = [op |-> @.op, tags |-> @.tags \cup tags]]
  <1>1. u[Len(u)] \in Entry
    OBVIOUS
  <1>2. PICK e \in Entry : e = Tagged(u[Len(u)], tags)
    BY <1>1, Zenon DEF Tagged, Entry
  <1>3. PICK c : c = s \o u
    BY Zenon
  <1>4. c # <<>> /\ c[Len(c)] = u[Len(u)]
    BY <1>3, ConcatExcept
  <1>5. s \o [u EXCEPT ![Len(u)] = e] = [c EXCEPT ![Len(c)] = e]
    BY <1>3, ConcatExcept
  <1>6. e = [op |-> c[Len(c)].op, tags |-> c[Len(c)].tags \cup tags]
    BY <1>2, <1>4 DEF Tagged
  <1>7. QED
    BY <1>2, <1>3, <1>4, <1>5, <1>6, Zenon

\* The bare stub holds no entry.
LEMMA CapturedStub == Captured(Stub) = <<>>
  BY DEF Captured, Stub, Reversed

\* A node linked on top of the word is the last one the owner will reach.
LEMMA CapturedPush ==
  ASSUME NEW w \in Seq(Entry), w # Idle, NEW op \in Ops
  PROVE  Captured(<<Node(op)>> \o w) = Append(Captured(w), Node(op))
  <1>1. Node(op) \in Entry
    BY DEF Node, Entry
  <1>2. Reversed(w) \in Seq(Entry) /\ Reversed(w) # <<>>
    BY ReversedType DEF Idle
  <1>3. Reversed(<<Node(op)>> \o w) = Append(Reversed(w), Node(op))
    BY <1>1, ReversedPush
  <1>4. /\ Head(Append(Reversed(w), Node(op))) = Head(Reversed(w))
        /\ Tail(Append(Reversed(w), Node(op))) = Append(Tail(Reversed(w)), Node(op))
    BY <1>1, <1>2, TailAppend
  <1>5. QED
    BY <1>3, <1>4, SMTT(30) DEF Captured

\* A tag becomes an entry of its own on the bare stub, and joins the newest
\* entry of any other word.
LEMMA CapturedOr ==
  ASSUME NEW w \in Seq(Entry), w # Idle, NEW tags \in SUBSET Tags, tags # {}
  PROVE  LET v == [w EXCEPT ![1] = Tagged(@, tags)]
             c == Captured(w)
         IN  \/ w = Stub /\ Captured(v) = <<Bare(tags)>>
             \/ /\ c # <<>>
                /\ Captured(v) = [c EXCEPT ![Len(c)] = Tagged(@, tags)]
  <1>1. PICK r \in Seq(Entry) : r = Reversed(w)
    BY ReversedType
  <1>2. /\ Len(w) \in Nat \ {0} /\ w[1] \in Entry /\ w # <<>>
        /\ Len(r) = Len(w) /\ r[Len(r)] = w[1] /\ r # <<>>
    BY <1>1, ReversedType DEF Idle
  <1>3. PICK e : e = Tagged(w[1], tags)
    OBVIOUS
  <1>4. e \in Entry /\ e # Node(NoOp)
    BY <1>2, <1>3 DEF Entry, Tagged, Node
  <1>5. PICK v : v = [w EXCEPT ![1] = e]
    BY Zenon
  <1>6. Reversed(v) = [r EXCEPT ![Len(r)] = e]
    <2>1. Reversed([w EXCEPT ![1] = e]) = [Reversed(w) EXCEPT ![Len(w)] = e]
      BY <1>2, <1>4, ReversedExcept, Zenon
    <2>2. QED
      BY <1>1, <1>2, <1>5, <2>1
  <1>7. PICK c : c = Captured(w)
    OBVIOUS
  <1>8. SUFFICES \/ w = Stub /\ Captured(v) = <<Bare(tags)>>
                 \/ c # <<>> /\ c[Len(c)] = w[1] /\ Captured(v) = [c EXCEPT ![Len(c)] = e]
    <2>1. v = [w EXCEPT ![1] = Tagged(@, tags)]
      BY <1>3, <1>5
    <2>2. c[Len(c)] = w[1] => e = Tagged(c[Len(c)], tags)
      BY <1>3
    <2>3. QED
      BY <1>7, <2>1, <2>2, Zenon
  <1>9. CASE Len(w) = 1
    <2>1. r = <<w[1]>> /\ w = <<w[1]>>
      BY <1>2, <1>9
    <2>2. Reversed(v) = <<e>>
      BY <1>6, <2>1
    <2>3. Captured(v) = <<e>>
      BY <1>4, <2>2 DEF Captured
    <2>4. CASE w[1] = Node(NoOp)
      <3>1. w = Stub
        BY <2>1, <2>4 DEF Stub
      <3>2. e = Bare(tags)
        BY <1>3, <2>4 DEF Tagged, Node, Bare
      <3>3. QED
        BY <2>3, <3>1, <3>2
    <2>5. CASE w[1] # Node(NoOp)
      <3>1. c = <<w[1]>>
        BY <1>1, <1>7, <2>1, <2>5 DEF Captured
      <3>2. QED
        BY <2>3, <3>1
    <2>6. QED
      BY <2>4, <2>5
  <1>10. CASE Len(w) # 1
    <2>1. /\ Head(Reversed(v)) = Head(r)
          /\ Tail(Reversed(v)) = [Tail(r) EXCEPT ![Len(Tail(r))] = e]
      BY <1>2, <1>4, <1>6, <1>10, TailExcept, SMTT(30)
    <2>2. CASE Head(r) = Node(NoOp)
      <3>1. c = Tail(r) /\ Captured(v) = Tail(Reversed(v))
        BY <1>1, <1>7, <2>1, <2>2 DEF Captured
      <3>2. Tail(r) # <<>> /\ Tail(r)[Len(Tail(r))] = w[1]
        <4>1. /\ Tail(r) \in Seq(Entry) /\ Len(Tail(r)) = Len(r) - 1
              /\ \A i \in 1 .. Len(Tail(r)) : Tail(r)[i] = r[i + 1]
          BY <1>2, HeadTailProperties
        <4>2. Len(Tail(r)) \in 1 .. Len(Tail(r)) /\ Len(Tail(r)) + 1 = Len(r)
          BY <1>2, <1>10, <4>1
        <4>3. Tail(r)[Len(Tail(r))] = r[Len(Tail(r)) + 1]
          BY <4>1, <4>2
        <4>4. Tail(r) # <<>>
          <5>1. Len(Tail(r)) # 0
            BY <1>2, <1>10, <4>1
          <5>2. Len(<<>>) = 0
            OBVIOUS
          <5>3. QED
            BY <5>1, <5>2, Zenon
        <4>5. QED
          BY <1>2, <4>2, <4>3, <4>4
      <3>3. QED
        BY <2>1, <3>1, <3>2
    <2>3. CASE Head(r) # Node(NoOp)
      <3>1. c = r /\ Captured(v) = Reversed(v)
        BY <1>1, <1>7, <2>1, <2>3, SMTT(30) DEF Captured
      <3>2. QED
        BY <1>2, <1>6, <3>1, Zenon
    <2>4. QED
      BY <2>2, <2>3
  <1>11. QED
    BY <1>9, <1>10

\* What the refinement mapping shows of an object that t owns, and of one that
\* nobody owns.
OwnedView(t) ==
  /\ Owners = {t} /\ life = "live" /\ head # Idle
  /\ Unserved = Captured(head)
  /\ Unserved \in Seq(Entry) /\ chain[t] \in Seq(Entry)
  /\ Inbox = chain[t] \o Unserved
  /\ Claiming = (pc[t] = "acquired")

UnownedView == Owners = {} /\ Inbox = <<>> /\ Claiming = FALSE

View == \/ UnownedView
        \/ \E t \in Threads : pc[t] # "out" /\ OwnedView(t)

\* The mapping is well defined: one of the two views always applies.
LEMMA MappingViews ==
  IInv => /\ Owners = {} => UnownedView
          /\ \A t \in Threads : pc[t] # "out" => OwnedView(t)
  <1>1. SUFFICES ASSUME IInv
                 PROVE  /\ Owners = {} => UnownedView
                        /\ \A t \in Threads : pc[t] # "out" => OwnedView(t)
    OBVIOUS
  <1>2. ASSUME Owners = {} PROVE UnownedView
    BY <1>2 DEF Owners, Inbox, Claiming, UnownedView
  <1>3. ASSUME NEW t \in Threads, pc[t] # "out" PROVE OwnedView(t)
    <2>1. Owners = {t}
      BY <1>1, <1>3 DEF Owners, IInv, SingleOwner
    <2>2. life = "live" /\ head # Idle
      BY <1>1, <2>1 DEF IInv, NoPassOnDeadObject
    <2>3. Unserved = Captured(head) /\ Unserved \in Seq(Entry)
      BY <1>1, <2>2, CapturedType DEF Unserved, IInv, TypeOK
    <2>4. Claiming = (pc[t] = "acquired")
      BY <2>1, Zenon DEF Claiming, Owners
    <2>5. Inbox = chain[t] \o Unserved
      BY <2>1, Zenon DEF Inbox, Held
    <2>6. QED
      BY <1>1, <2>1, <2>2, <2>3, <2>4, <2>5, SMTT(30) DEF IInv, TypeOK, OwnedView
  <1>4. QED
    BY <1>2, <1>3

\* The views apply in the next state as well.
LEMMA MappingViewsPrime ==
  IInv' => /\ Owners' = {} => UnownedView'
           /\ \A t \in Threads : pc'[t] # "out" => OwnedView(t)'
  <1>1. (IInv => /\ Owners = {} => UnownedView
                 /\ \A t \in Threads : pc[t] # "out" => OwnedView(t))'
    BY MappingViews, PTL
  <1>2. QED
    BY <1>1

\* The initial states of the combiner are initial states of the mailbox.
LEMMA RefineInit == Init => MB!Init
  <1>1. SUFFICES ASSUME Init PROVE MB!Init
    OBVIOUS
  <1>2. IInv /\ Owners = {}
    BY <1>1, InitIInv DEF Init, IInv
  <1>3. QED
    BY <1>2, MappingViews DEF MB!Init, UnownedView

\* A busy push is a Post to the same server.
LEMMA RefinePushBusy ==
  ASSUME IInv, IInv', life = "live", NEW t \in Threads, NEW op \in Ops,
         head # Idle, PushNode(op), UNCHANGED <<generation, life, pc, chain>>
  PROVE  MB!Post(t, op)
  <1>1. PICK u \in Threads : pc[u] # "out"
    BY DEF IInv, Owners
  <1>2. OwnedView(u) /\ OwnedView(u)'
    BY <1>1, MappingViews, MappingViewsPrime
  <1>3. Unserved' = Append(Unserved, Node(op))
    BY <1>2, CapturedPush, SMTT(30) DEF OwnedView, PushNode, IInv, TypeOK
  <1>4. Inbox' = Append(Inbox, Node(op))
    <2>1. Node(op) \in Entry
      BY DEF Node, Entry
    <2>2. Unserved \in Seq(Entry) /\ chain[u] \in Seq(Entry) /\ Inbox = chain[u] \o Unserved
      BY <1>2 DEF OwnedView
    <2>3. Inbox' = chain[u] \o Append(Unserved, Node(op))
      BY <1>2, <1>3 DEF OwnedView
    <2>4. chain[u] \o Append(Unserved, Node(op)) = Append(chain[u] \o Unserved, Node(op))
      <3>1. \A s, v \in Seq(Entry), e \in Entry : s \o Append(v, e) = Append(s \o v, e)
        BY ConcatAppend
      <3>2. QED
        BY <2>1, <2>2, <3>1, Zenon
    <2>5. QED
      BY <2>2, <2>3, <2>4, Zenon
  <1>5. Owners' = Owners /\ Owners # {} /\ Claiming' = Claiming
    BY <1>2 DEF OwnedView
  <1>6. QED
    BY <1>4, <1>5 DEF MB!Post, MB!Serve, Node

\* OR-ing a tag onto the Head of an owned object is a Signal to the same server.
LEMMA RefineOrBusy ==
  ASSUME IInv, IInv', life = "live", NEW t \in Threads,
         NEW tags \in SUBSET Tags, tags # {},
         head # Idle, head' = [head EXCEPT ![1] = Tagged(@, tags)],
         UNCHANGED <<generation, life, pc, chain>>
  PROVE  MB!Signal(t, tags)
  <1>1. PICK u \in Threads : pc[u] # "out"
    BY DEF IInv, Owners
  <1>2. OwnedView(u) /\ OwnedView(u)'
    BY <1>1, MappingViews, MappingViewsPrime
  <1>3. /\ Unserved \in Seq(Entry) /\ chain[u] \in Seq(Entry) /\ Unserved' \in Seq(Entry)
        /\ Inbox = chain[u] \o Unserved
        /\ Inbox' = chain[u] \o Unserved'
        /\ Unserved = Captured(head) /\ Unserved' = Captured(head')
    BY <1>2 DEF OwnedView
  <1>4. Owners' = Owners /\ Owners # {} /\ Claiming' = Claiming
    BY <1>2 DEF OwnedView
  <1>5. \/ Unserved = <<>> /\ Unserved' = <<Bare(tags)>>
        \/ /\ Unserved # <<>>
           /\ Unserved' = [Unserved EXCEPT ![Len(Unserved)] = Tagged(@, tags)]
    BY <1>3, CapturedOr, CapturedStub, Zenon DEF IInv, TypeOK
  <1>6. CASE Unserved = <<>> /\ Unserved' = <<Bare(tags)>>
    <2>1. Bare(tags) \in Entry
      BY DEF Bare, Entry
    <2>2. Inbox = chain[u] /\ Inbox' = Append(chain[u], Bare(tags))
      <3>1. \A s \in Seq(Entry), e \in Entry : s \o <<>> = s /\ s \o <<e>> = Append(s, e)
        OBVIOUS
      <3>2. QED
        BY <1>3, <1>6, <2>1, <3>1, Zenon
    <2>3. Inbox' = Append(Inbox, Bare(tags))
      BY <2>2, Zenon
    <2>4. QED
      BY <1>4, <2>3 DEF MB!Signal, MB!Serve, Bare
  <1>7. CASE /\ Unserved # <<>>
             /\ Unserved' = [Unserved EXCEPT ![Len(Unserved)] = Tagged(@, tags)]
    <2>1. PICK s \in Seq(Entry) : s = chain[u]
      BY <1>3
    <2>2. PICK v \in Seq(Entry) : v = Unserved
      BY <1>3
    <2>3. v # <<>> /\ Unserved' = [v EXCEPT ![Len(v)] = Tagged(@, tags)]
      BY <1>7, <2>2
    <2>4. Inbox = s \o v /\ Inbox' = s \o [v EXCEPT ![Len(v)] = Tagged(@, tags)]
      BY <1>3, <2>1, <2>2, <2>3, Zenon
    <2>5. /\ s \o v # <<>>
          /\ s \o [v EXCEPT ![Len(v)] = Tagged(@, tags)]
             = [s \o v EXCEPT ![Len(s \o v)] = [op |-> @.op, tags |-> @.tags \cup tags]]
      BY <2>3, ConcatTagged, Zenon
    <2>9. Inbox # <<>> /\ Inbox' = [Inbox EXCEPT ![Len(Inbox)] =
                                      [op |-> @.op, tags |-> @.tags \cup tags]]
      BY <2>4, <2>5, Zenon
    <2>10. QED
      BY <1>4, <2>9 DEF MB!Signal, MB!Serve
  <1>8. QED
    BY <1>5, <1>6, <1>7

\* OR-ing a tag onto the Head of a live object is a Signal.
LEMMA RefineOrTags ==
  ASSUME IInv, IInv', life = "live", NEW t \in Threads,
         NEW tags \in SUBSET Tags, tags # {}, OrTags(t, tags)
  PROVE  MB!Signal(t, tags)
  <1>1. CASE head # Idle
    BY <1>1, RefineOrBusy DEF OrTags
  <1>2. CASE head = Idle
    <2>1. Owners = {} /\ Inbox = <<>> /\ Claiming = FALSE
      BY <1>2, MappingViews DEF IInv, UnownedView
    <2>2. /\ head' = <<Bare(tags)>>
          /\ pc' = [pc EXCEPT ![t] = "run"]
          /\ chain' = [chain EXCEPT ![t] = <<>>]
      BY <1>2 DEF OrTags, Enter
    <2>3. pc'[t] = "run" /\ chain'[t] = <<>>
      BY <2>2 DEF IInv, TypeOK
    <2>4. OwnedView(t)'
      BY <2>3, MappingViewsPrime
    <2>5. Captured(<<Bare(tags)>>) = <<Bare(tags)>>
      BY DEF Captured, Reversed, Bare, Node
    <2>6. Owners' = {t} /\ Claiming' = FALSE /\ Inbox' = <<>> \o <<Bare(tags)>>
      BY <2>2, <2>3, <2>4, <2>5, Zenon DEF OwnedView
    <2>7. Inbox' = Append(Inbox, Bare(tags))
      BY <2>1, <2>6
    <2>8. QED
      BY <2>1, <2>6, <2>7, Zenon DEF MB!Signal, MB!Serve, Bare
  <1>3. QED
    BY <1>1, <1>2

\* A push onto an idle object is a Post by its new server, an idle Acquire a Claim.
LEMMA RefineSubmit ==
  ASSUME IInv, IInv', life = "live", NEW t \in Threads, NEW op \in Ops,
         PushOperation(t, op) \/ Acquire(t, op)
  PROVE  MB!Next
  <1>1. CASE head # Idle
    <2>1. MB!Post(t, op)
      BY <1>1, RefinePushBusy DEF PushOperation, Acquire
    <2>2. QED
      BY <2>1 DEF MB!Next
  <1>2. CASE head = Idle
    <2>1. /\ Owners = {} /\ Inbox = <<>> /\ Claiming = FALSE
          /\ head' = Stub /\ pc[t] = "out" /\ chain[t] = <<>>
      BY <1>2, MappingViews, SMTT(30) DEF IInv, UnownedView, PushOperation, Acquire
    <2>2. CASE PushOperation(t, op)
      <3>1. pc'[t] = "run" /\ chain'[t] = <<Node(op)>>
        BY <1>2, <2>2 DEF PushOperation, Enter, IInv, TypeOK
      <3>2. OwnedView(t)'
        BY <3>1, MappingViewsPrime
      <3>3. Owners' = {t} /\ Claiming' = FALSE /\ Inbox' = <<Node(op)>> \o <<>>
        BY <2>1, <3>1, <3>2, CapturedStub, Zenon DEF OwnedView
      <3>4. Inbox' = Append(Inbox, Node(op))
        BY <2>1, <3>3
      <3>5. MB!Post(t, op)
        BY <2>1, <3>3, <3>4, Zenon DEF MB!Post, MB!Serve, Node
      <3>6. QED
        BY <3>5 DEF MB!Next
    <2>3. CASE Acquire(t, op)
      <3>1. pc'[t] = "acquired" /\ chain'[t] = <<>>
        BY <1>2, <2>1, <2>3 DEF Acquire, IInv, TypeOK
      <3>2. OwnedView(t)'
        BY <3>1, MappingViewsPrime
      <3>3. Owners' = {t} /\ Claiming' = TRUE /\ Inbox' = <<>> \o <<>>
        BY <2>1, <3>1, <3>2, CapturedStub, Zenon DEF OwnedView
      <3>4. MB!Claim(t)
        BY <2>1, <3>3 DEF MB!Claim
      <3>5. QED
        BY <3>4 DEF MB!Next
    <2>4. QED
      BY <2>2, <2>3
  <1>3. QED
    BY <1>1, <1>2

\* Entering the combiner after the synchronous attempt posts the claimed entry,
\* or drops the claim.
LEMMA RefineRunAcquired ==
  ASSUME IInv, IInv', NEW t \in Threads,
         \/ RunAcquired(t, <<>>)
         \/ \E op \in Ops : RunAcquired(t, <<Node(op)>>)
  PROVE  MB!Next
  <1>1. /\ pc[t] = "acquired" /\ pc'[t] = "run" /\ chain[t] = <<>>
        /\ UNCHANGED <<head, generation, life>>
    BY DEF RunAcquired, Enter, IInv, TypeOK
  <1>2. OwnedView(t) /\ OwnedView(t)'
    BY <1>1, MappingViews, MappingViewsPrime
  <1>3. /\ Owners' = Owners /\ Claiming = TRUE /\ Claiming' = FALSE
        /\ Unserved' = Unserved /\ Unserved \in Seq(Entry)
        /\ Inbox = <<>> \o Unserved /\ Inbox' = chain'[t] \o Unserved
    BY <1>1, <1>2, Zenon DEF OwnedView
  <1>4. Inbox = Unserved
    BY <1>3
  <1>5. CASE RunAcquired(t, <<>>)
    <2>1. chain'[t] = <<>>
      BY <1>5 DEF RunAcquired, Enter, IInv, TypeOK
    <2>2. Inbox' = Inbox
      BY <1>3, <2>1
    <2>3. MB!DropClaim
      BY <1>3, <2>2 DEF MB!DropClaim
    <2>4. QED
      BY <2>3 DEF MB!Next
  <1>6. CASE \E op \in Ops : RunAcquired(t, <<Node(op)>>)
    <2>1. PICK op \in Ops : RunAcquired(t, <<Node(op)>>)
      BY <1>6
    <2>2. chain'[t] = <<Node(op)>>
      BY <2>1 DEF RunAcquired, Enter, IInv, TypeOK
    <2>3. Inbox' = <<Node(op)>> \o Inbox
      BY <1>3, <1>4, <2>2, Zenon
    <2>4. MB!PostClaimed(op)
      BY <1>3, <2>3 DEF MB!PostClaimed, Node
    <2>5. QED
      BY <2>4 DEF MB!Next
  <1>7. QED
    BY <1>5, <1>6

\* Capturing Head only moves entries from one part of the inbox to the other.
LEMMA RefineCapture ==
  ASSUME IInv, IInv', NEW t \in Threads, Capture(t)
  PROVE  UNCHANGED MB!vars
  <1>1. /\ pc[t] = "run" /\ pc' = pc /\ chain[t] = <<>> /\ head' = Stub
        /\ chain'[t] = Captured(head)
    BY DEF Capture, IInv, TypeOK
  <1>2. OwnedView(t) /\ OwnedView(t)'
    BY <1>1, MappingViews, MappingViewsPrime, SMTT(30)
  <1>3. /\ Unserved = Captured(head) /\ Unserved \in Seq(Entry) /\ Unserved' = <<>>
        /\ Inbox = <<>> \o Unserved /\ Inbox' = Unserved \o <<>>
        /\ Owners' = Owners /\ Claiming' = Claiming
    BY <1>1, <1>2, CapturedStub DEF OwnedView
  <1>4. Inbox' = Inbox
    BY <1>3
  <1>5. QED
    BY <1>3, <1>4 DEF MB!vars

\* Dispatching an entry takes it from the front of the inbox.
LEMMA RefineDispatch ==
  ASSUME IInv, IInv', NEW t \in Threads, Dispatch(t)
  PROVE  MB!Take
  <1>1. /\ pc[t] = "run" /\ chain[t] # <<>> /\ head' = head
        /\ chain[t] \in Seq(Entry)
    BY DEF Dispatch, IInv, TypeOK
  <1>2. OwnedView(t)
    BY <1>1, MappingViews
  <1>3. /\ Unserved = Captured(head) /\ Unserved \in Seq(Entry)
        /\ Inbox = chain[t] \o Unserved /\ Owners = {t} /\ Claiming = FALSE
    BY <1>1, <1>2, Zenon DEF OwnedView
  <1>4. /\ Inbox # <<>> /\ Head(Inbox) = Head(chain[t])
        /\ Tail(Inbox) = Tail(chain[t]) \o Unserved
    <2>1. \A s, v \in Seq(Entry) :
            s # <<>> => /\ s \o v # <<>> /\ Head(s \o v) = Head(s)
                        /\ Tail(s \o v) = Tail(s) \o v
      BY HeadTailOfConcat
    <2>2. QED
      BY <1>1, <1>3, <2>1, Zenon
  <1>5. CASE "DELETE" \in Head(chain[t]).tags
    <2>1. pc' = [pc EXCEPT ![t] = "out"]
      BY <1>5 DEF Dispatch
    <2>2. Owners' = {}
      BY <1>3, <2>1 DEF Owners, IInv, TypeOK
    <2>3. UnownedView'
      BY <2>2, MappingViewsPrime
    <2>4. Inbox' = <<>> /\ Claiming' = FALSE
      BY <2>3 DEF UnownedView
    <2>5. QED
      BY <1>3, <1>4, <1>5, <2>2, <2>4, Zenon DEF MB!Take
  <1>6. CASE "DELETE" \notin Head(chain[t]).tags
    <2>1. pc' = pc /\ chain'[t] = Tail(chain[t])
      BY <1>6 DEF Dispatch, IInv, TypeOK
    <2>2. OwnedView(t)'
      BY <1>1, <2>1, MappingViewsPrime, SMTT(30)
    <2>3. /\ Owners' = Owners /\ Claiming' = Claiming
          /\ Inbox' = Tail(chain[t]) \o Unserved
      BY <1>1, <1>2, <2>1, <2>2, SMTT(30) DEF OwnedView
    <2>4. Inbox' = Tail(Inbox)
      BY <1>4, <2>3, Zenon
    <2>5. QED
      BY <1>3, <1>4, <1>6, <2>3, <2>4, SMTT(30) DEF MB!Take
  <1>7. QED
    BY <1>5, <1>6

\* The load that finds the stub changes nothing; the release CAS leaves an empty
\* mailbox, or fails and changes nothing.
LEMMA RefineRelease ==
  ASSUME IInv, IInv', NEW t \in Threads, SeeStub(t) \/ Release(t)
  PROVE  MB!Leave \/ UNCHANGED MB!vars
  <1>1. pc[t] \in {"run", "sweep"} /\ chain' = chain /\ chain[t] = <<>>
    BY DEF SeeStub, Release, IInv, TypeOK
  <1>2. OwnedView(t)
    BY <1>1, MappingViews
  <1>3. CASE head' = head
    <2>1. pc'[t] \in {"run", "sweep"}
      BY <1>2, <1>3 DEF SeeStub, Release, OwnedView, IInv, TypeOK
    <2>2. OwnedView(t)'
      BY <2>1, MappingViewsPrime
    <2>3. Owners' = Owners /\ Claiming' = Claiming /\ Inbox' = Inbox
      BY <1>1, <1>2, <1>3, <2>1, <2>2, SMTT(30) DEF OwnedView
    <2>4. QED
      BY <2>3 DEF MB!vars
  <1>4. CASE head' # head
    <2>1. head = Stub /\ head' = Idle
      BY <1>4 DEF SeeStub, Release
    <2>2. Unserved = <<>> /\ Inbox = <<>> \o <<>> /\ Owners = {t} /\ Claiming = FALSE
      BY <1>1, <1>2, <2>1, CapturedStub, Zenon DEF OwnedView
    <2>3. Owners' = {} /\ UnownedView'
      BY <2>1, MappingViewsPrime DEF IInv
    <2>4. Inbox = <<>>
      BY <2>2
    <2>5. Inbox' = Inbox /\ Claiming' = Claiming
      BY <2>2, <2>3, <2>4, Zenon DEF UnownedView
    <2>6. QED
      BY <2>2, <2>3, <2>4, <2>5 DEF MB!Leave
  <1>5. QED
    BY <1>3, <1>4

\* Every step of the combiner is a step of the mailbox or changes nothing of it.
LEMMA RefineNext == IInv /\ IInv' /\ [Next]_vars => [MB!Next]_(MB!vars)
  <1>1. SUFFICES ASSUME IInv, IInv', [Next]_vars PROVE MB!Next \/ UNCHANGED MB!vars
    OBVIOUS
  <1>2. ASSUME NEW t \in Threads, NEW tags \in SUBSET Tags, tags # {}, life = "live",
               OrTags(t, tags)
        PROVE  MB!Next
    <2>1. MB!Signal(t, tags)
      BY <1>1, <1>2, RefineOrTags
    <2>2. QED
      BY <2>1 DEF MB!Next, MB!Tags, Tags
  <1>3. CASE UNCHANGED vars
    BY <1>3 DEF vars, MB!vars, Inbox, Held, Owners, Claiming, Unserved
  <1>4. ASSUME NEW t \in Threads, NEW op \in Ops, MaySubmit(op),
               PushOperation(t, op) \/ Acquire(t, op) \/ RunAcquired(t, <<Node(op)>>)
        PROVE  MB!Next
    BY <1>1, <1>4, RefineSubmit, RefineRunAcquired DEF MaySubmit, Referenced
  <1>5. ASSUME NEW t \in Threads, RunAcquired(t, <<>>) PROVE MB!Next
    BY <1>1, <1>5, RefineRunAcquired
  <1>6. ASSUME NEW t \in Threads, NEW tags \in (SUBSET Signals) \ {{}}, Referenced, PushCounter(t, tags)
        PROVE  MB!Next
    BY <1>2, <1>6 DEF PushCounter, Referenced, Tags
  <1>7. ASSUME NEW t \in Threads, NEW tags \in (SUBSET Signals) \ {{}}, NEW g \in Issued,
               PushValidated(t, g, tags)
        PROVE  MB!Next \/ UNCHANGED MB!vars
    <2>1. CASE generation = g /\ OrTags(t, tags)
      <3>1. life = "live"
        BY <1>1, <2>1 DEF Issued, IInv, TypeOK
      <3>2. QED
        BY <1>2, <2>1, <3>1 DEF Tags
    <2>2. QED
      BY <1>3, <1>7, <2>1 DEF PushValidated
  <1>8. ASSUME NEW t \in Threads, MayDelete(t), PushDelete(t) PROVE MB!Next
    BY <1>2, <1>8 DEF PushDelete, MayDelete, Referenced, Tags
  <1>9. ASSUME NEW t \in Threads, CombinerStep(t) PROVE MB!Next \/ UNCHANGED MB!vars
    BY <1>1, <1>9, RefineCapture, RefineDispatch, RefineRelease, SMTT(30) DEF CombinerStep, MB!Next
  <1>10. CASE ResetHead \/ Publish
    <2>0. life # "live" /\ pc' = pc
      BY <1>10 DEF ResetHead, Publish
    <2>1. Owners = {} /\ Owners' = {}
      BY <1>1, <2>0 DEF IInv, NoPassOnDeadObject, Owners
    <2>2. UnownedView /\ UnownedView'
      BY <1>1, <2>1, MappingViews, MappingViewsPrime
    <2>3. QED
      BY <2>2, Zenon DEF UnownedView, MB!vars
  <1>11. QED
    BY <1>1, <1>3, <1>4, <1>5, <1>6, <1>7, <1>8, <1>9, <1>10, Zenon DEF Next

\* The combiner implements the mailbox: the Head word, the reversal of captured
\* chains and the release CAS together serve every pushed operation and tag
\* exactly once, in push order, one thread at a time.
THEOREM CombinerImplementsMailbox == Spec => ServesInOrder
  BY RefineInit, RefineNext, Invariance, PTL DEF Spec, ServesInOrder, MB!Spec
=============================================================================
