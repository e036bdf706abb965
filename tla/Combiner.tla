------------------------------ MODULE Combiner ------------------------------
(***************************************************************************)
(* The per-object combiner of src/src/asyncio: the Head word               *)
(* (header.tag.low), the object generation (header.tag.high) and the       *)
(* threads that push onto Head and drain it.                               *)
(*                                                                         *)
(* Head is one atomic word.  In the code it is 0 (nobody owns the object), *)
(* the stub pointer (owned, nothing pushed) or the newest operation node   *)
(* of a chain linked through asyncOpRoot.next; its six low bits are the    *)
(* tags OR-ed onto the newest entry.  Here it is the sequence of entries,  *)
(* newest first: Idle is the word 0, Stub the bare stub.  A bare tag on a  *)
(* NULL pointer and a tag on the stub differ only in the pointer bits,     *)
(* which no comparison tells apart once a tag is set, so both are the      *)
(* entry [op |-> NoOp, tags |-> ...].                                      *)
(*                                                                         *)
(* A compare-and-swap loop is one step: the step of its successful CAS,    *)
(* which reads the very value it replaces.                                 *)
(***************************************************************************)
EXTENDS Naturals, Sequences, FiniteSets

CONSTANTS
  Threads,        \* threads that may call into the object
  Ops,            \* operation nodes
  NoOp,           \* the NULL/stub pointer
  Signals,        \* the tags other than DELETE that the instance uses
  MaxGeneration   \* bound on object incarnations in one piece of storage

ASSUME NoOpAssumption == NoOp \notin Ops
ASSUME SignalsAssumption == Signals \subseteq {"READ", "WRITE", "ERROR", "CANCEL", "CANCELIO"}
ASSUME GenerationAssumption == MaxGeneration \in Nat \ {0}

VARIABLES
  head,        \* header.tag.low
  generation,  \* header.tag.high
  life,        \* "live", "dead" (destructor ran) or "building" (initObjectRoot)
  pc,          \* where each thread is with respect to the combiner
  chain        \* the captured entries a thread still has to dispatch

vars == <<head, generation, life, pc, chain>>

Tags == Signals \cup {"DELETE"}
Entry == [op : Ops \cup {NoOp}, tags : SUBSET Tags]
Node(op) == [op |-> op, tags |-> {}]
Bare(tags) == [op |-> NoOp, tags |-> tags]
Tagged(e, tags) == [op |-> e.op, tags |-> e.tags \cup tags]

Idle == <<>>
Stub == <<Node(NoOp)>>

EntriesOf(s) == {s[i] : i \in DOMAIN s}

\* Every entry that was pushed and not yet dispatched.
Pending == EntriesOf(head) \cup UNION {EntriesOf(chain[t]) : t \in Threads}
InTransit == {e.op : e \in Pending} \ {NoOp}
DeletePosted == \E e \in Pending : "DELETE" \in e.tags
-----------------------------------------------------------------------------
Init ==
  /\ head = Idle
  /\ generation = 1
  /\ life = "live"
  /\ pc = [t \in Threads |-> "out"]
  /\ chain = [t \in Threads |-> <<>>]

\* A call of combiner() with stackTop = stub; entries is its forRun argument.
Enter(t, entries) ==
  /\ pc' = [pc EXCEPT ![t] = "run"]
  /\ chain' = [chain EXCEPT ![t] = entries]

\* A node is linked on top of the current head: op->next = head.
PushNode(op) == head' = <<Node(op)>> \o head

\* An operation submitted while the object is idle makes its thread the owner
\* and is handed to combiner() directly instead of travelling through Head.
PushOperation(t, op) ==
  /\ pc[t] = "out"
  /\ \/ /\ head = Idle
        /\ head' = Stub
        /\ Enter(t, <<Node(op)>>)
     \/ /\ head # Idle
        /\ PushNode(op)
        /\ UNCHANGED <<pc, chain>>
  /\ UNCHANGED <<generation, life>>

\* The optimistic submission: the winner of an idle object owns it and runs the
\* synchronous attempt before it enters combiner(); a loser queues its node.
Acquire(t, op) ==
  /\ pc[t] = "out"
  /\ \/ /\ head = Idle
        /\ head' = Stub
        /\ pc' = [pc EXCEPT ![t] = "acquired"]
     \/ /\ head # Idle
        /\ PushNode(op)
        /\ UNCHANGED pc
  /\ UNCHANGED <<generation, life, chain>>

\* The owner made by Acquire enters combiner(), with the operation it still has
\* to start (forRun) or with none.
RunAcquired(t, entries) ==
  /\ pc[t] = "acquired"
  /\ Enter(t, entries)
  /\ UNCHANGED <<head, generation, life>>

\* fetch_or of tags onto Head; the thread that finds 0 becomes the owner.
OrTags(t, tags) ==
  /\ pc[t] = "out"
  /\ \/ /\ head = Idle
        /\ head' = <<Bare(tags)>>
        /\ Enter(t, <<>>)
     \/ /\ head # Idle
        /\ head' = [head EXCEPT ![1] = Tagged(@, tags)]
        /\ UNCHANGED <<pc, chain>>
  /\ UNCHANGED <<generation, life>>

PushCounter(t, tags) == OrTags(t, tags)

PushDelete(t) == OrTags(t, {"DELETE"})

\* A signal whose sender owns no reference: the double-word CAS compares the
\* generation the sender was given with the object's, in the same step.
PushValidated(t, g, tags) ==
  /\ pc[t] = "out"
  /\ \/ /\ generation # g
        /\ UNCHANGED vars
     \/ /\ generation = g
        /\ OrTags(t, tags)
-----------------------------------------------------------------------------
\* Slip: the captured chain runs newest first.
CapturedUnreversed(word) == SelectSeq(word, LAMBDA e : e # Node(NoOp))

\* combiner(): the reversal of the captured chain, link by link.
Reversed(word) == [i \in 1 .. Len(word) |-> word[(Len(word) - i) + 1]]

\* The captured word as the list the owner runs: oldest entry first, and the
\* exact stub, which carries nothing, dropped.
Captured(word) ==
  LET oldestFirst == Reversed(word)
  IN  IF Head(oldestFirst) = Node(NoOp) THEN Tail(oldestFirst) ELSE oldestFirst

\* combiner(), capture: Head goes back to the stub and the chain is reversed.
Capture(t) ==
  /\ pc[t] = "run"
  /\ chain[t] = <<>>
  /\ head # Stub
  /\ head' = Stub
  /\ chain' = [chain EXCEPT ![t] = Captured(head)]
  /\ UNCHANGED <<generation, life, pc>>

\* combiner(), dispatch of one captured entry.  A DELETE entry retires the
\* generation, destroys the object and leaves without touching Head again.
Dispatch(t) ==
  /\ pc[t] = "run"
  /\ chain[t] # <<>>
  /\ \/ /\ "DELETE" \in Head(chain[t]).tags
        /\ generation' = generation + 1
        /\ life' = "dead"
        /\ pc' = [pc EXCEPT ![t] = "out"]
        /\ chain' = [chain EXCEPT ![t] = <<>>]
     \/ /\ "DELETE" \notin Head(chain[t]).tags
        /\ chain' = [chain EXCEPT ![t] = Tail(@)]
        /\ UNCHANGED <<generation, life, pc>>
  /\ UNCHANGED head

\* combiner(), the load that finds the bare stub.
SeeStub(t) ==
  /\ pc[t] = "run"
  /\ chain[t] = <<>>
  /\ head = Stub
  /\ pc' = [pc EXCEPT ![t] = "sweep"]
  /\ UNCHANGED <<head, generation, life, chain>>

\* Slip: a failed release CAS is tried again without looking at Head.
ReleaseRetried(t) ==
  /\ pc[t] = "sweep"
  /\ \/ /\ head = Stub
        /\ head' = Idle
        /\ pc' = [pc EXCEPT ![t] = "out"]
     \/ /\ head # Stub
        /\ UNCHANGED <<head, pc>>
  /\ UNCHANGED <<generation, life, chain>>

\* combiner(), the CAS stub -> 0: it fails when something was pushed since.
Release(t) ==
  /\ pc[t] = "sweep"
  /\ \/ /\ head = Stub
        /\ head' = Idle
        /\ pc' = [pc EXCEPT ![t] = "out"]
     \/ /\ head # Stub
        /\ pc' = [pc EXCEPT ![t] = "run"]
        /\ UNCHANGED head
  /\ UNCHANGED <<generation, life, chain>>

\* Recycling of the storage: initObjectRoot resets Head first ...
ResetHead ==
  /\ life = "dead"
  /\ generation <= MaxGeneration
  /\ life' = "building"
  /\ head' = Idle
  /\ UNCHANGED <<generation, pc, chain>>

\* ... then fills the other fields, and only then is the object handed out.
Publish ==
  /\ life = "building"
  /\ life' = "live"
  /\ UNCHANGED <<head, generation, pc, chain>>
-----------------------------------------------------------------------------
\* The contract of the callers.  A submission or a cancelIo needs a reference,
\* so it never follows DELETE; DELETE is pushed by the last reference, and every
\* node in transit holds one.  Envelopes carry a generation that was published.
Referenced == life = "live" /\ ~DeletePosted
MaySubmit(op) == Referenced /\ op \notin InTransit
MayDelete(t) == Referenced /\ InTransit = {} /\ \A u \in Threads : pc[u] # "acquired"
Issued == 1 .. (IF life = "live" THEN generation ELSE generation - 1)

CombinerStep(t) ==
  \/ Capture(t)
  \/ Dispatch(t)
  \/ SeeStub(t)
  \/ Release(t)

Next ==
  \/ \E t \in Threads, op \in Ops :
       /\ MaySubmit(op)
       /\ PushOperation(t, op) \/ Acquire(t, op) \/ RunAcquired(t, <<Node(op)>>)
  \/ \E t \in Threads : RunAcquired(t, <<>>)
  \/ \E t \in Threads, tags \in (SUBSET Signals) \ {{}} :
       \/ Referenced /\ PushCounter(t, tags)
       \/ \E g \in Issued : PushValidated(t, g, tags)
  \/ \E t \in Threads : MayDelete(t) /\ PushDelete(t)
  \/ \E t \in Threads : CombinerStep(t)
  \/ ResetHead
  \/ Publish

Spec == Init /\ [][Next]_vars

\* A thread that owns the object keeps executing its own straight-line code.
Fairness ==
  \A t \in Threads : WF_vars(CombinerStep(t)) /\ WF_vars(RunAcquired(t, <<>>))

FairSpec == Spec /\ Fairness
-----------------------------------------------------------------------------
TypeOK ==
  /\ head \in Seq(Entry)
  /\ generation \in Nat \ {0}
  /\ life \in {"live", "dead", "building"}
  /\ pc \in [Threads -> {"out", "acquired", "run", "sweep"}]
  /\ chain \in [Threads -> Seq(Entry)]

Owners == {t \in Threads : pc[t] # "out"}

\* At most one thread is between winning Head (combinerAcquire or a push onto 0)
\* and its release CAS: queues, the initialization slot and op->running are
\* plain memory that only this exclusion protects.
SingleOwner == \A t, u \in Threads : pc[t] # "out" /\ pc[u] # "out" => t = u

\* Nothing pushed onto a live object waits with nobody to serve it: a non-zero
\* Head, or a captured entry, always has an owner that will reach it.
NoOrphanedSignal == life = "live" /\ (head # Idle \/ Pending # {}) => Owners # {}

\* No thread runs the combiner of an object that was destroyed or that
\* initObjectRoot is still filling: stale envelopes fail the generation CAS.
NoPassOnDeadObject == life # "live" => Owners = {}

\* The refinement of Mailbox: the inbox is what the owner still holds, followed
\* by what Head holds in the order it was pushed.
Unserved == IF head = Idle \/ life # "live" THEN <<>> ELSE Captured(head)
Held(t) == chain[t] \o Unserved
Inbox == IF Owners = {} THEN <<>> ELSE Held(CHOOSE t \in Owners : TRUE)
Claiming == \E t \in Threads : pc[t] = "acquired"

MB == INSTANCE Mailbox WITH inbox <- Inbox, server <- Owners, claimed <- Claiming

\* The combiner is a serial first-come-first-served mailbox: entries are
\* dispatched exactly once, one at a time, in the order they were pushed, and a
\* tag travels no further back than the newest entry it was OR-ed onto.
ServesInOrder == MB!Spec

\* Every node that is pushed is eventually dispatched.
EveryNodeDispatched == \A op \in Ops : op \in InTransit ~> op \notin InTransit
=============================================================================
