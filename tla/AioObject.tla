----------------------------- MODULE AioObject ------------------------------
(***************************************************************************)
(* One asynchronous object (aioObjectRoot) with its operations, from the   *)
(* submission of an operation to its callback and from the creation of the *)
(* object to its destruction and the reuse of its storage.                 *)
(*                                                                         *)
(* Concurrency control is the Combiner: this module conjoins its actions   *)
(* with what the caller or the dispatched handler does.  All that the code *)
(* protects by combiner ownership (queues, initialization slot,            *)
(* op->running) changes only in the owner's handler steps; what other      *)
(* threads race on (op->tag, DeletePending, refs, Head) is read or CAS-ed  *)
(* in a step of its own wherever the order could matter.                   *)
(*                                                                         *)
(* The kind of the object selects the backend half of the handler.         *)
(* "epoll", "kqueue": a socket or device on that reactor; cancelMethod     *)
(* returns 1.  "composite": an object whose operations run child           *)
(* operations on another object (SSL, HTTP, ...); cancelMethod cancels the *)
(* child, returns 0, and the operation is retained until the child's       *)
(* completion arrives.                                                     *)
(***************************************************************************)
EXTENDS Naturals, Sequences, FiniteSets, SequencesExt

CONSTANTS
  Threads, Ops, NoOp,
  Clients,          \* the threads that are given a reference to each new object
  Profiles,         \* what an object is and how its clients use it, see Profile
  MaxGeneration,    \* bound on object incarnations
  MaxOpGeneration   \* bound on incarnations of each operation

VARIABLES
  head, generation, life, pc, chain,  \* the combiner
  op,                \* the asyncOpRoot cells
  pool,              \* operations in the free pool
  queue,             \* readQueue and writeQueue
  initializationOp,
  globalQueue,       \* how often each operation sits in base->globalQueue
  DeletePending, refs,
  holders,           \* threads that hold a reference of their own
  handle,            \* the creator's reference, consumed by objectDelete
  timers,            \* armed timeout links, in the wheel or in the kernel
  published,         \* the links that the timer cells of realtime operations hold
  child,             \* composite: the child operation of each operation
  armed, Registered, \* the one-shot mask or filters, membership in the epoll set
  work,              \* the handler invocation in progress
  todo,              \* calls a thread outside the combiner still has to make
  ioSeen,            \* history: ordinary I/O was submitted to this incarnation
  sentenced,         \* history: operations a cancelIo or a failed init covers
  order,             \* history: parked operations in submission order
  profile            \* the profile of this behaviour; never changes

Word == <<head, generation, life, pc, chain>>
Parked == <<op, queue, initializationOp, globalQueue, child, sentenced, timers, published>>
Life == <<DeletePending, refs, holders, handle>>
Kernel == <<armed, Registered, profile>>
vars == <<Word, Parked, Life, Kernel, pool, work, todo, ioSeen, order>>

C == INSTANCE Combiner WITH Signals <- {"READ", "WRITE", "ERROR", "CANCEL", "CANCELIO"}

Directions == {"READ", "WRITE"}

\* ops, dirs: the operations and directions in use; calls: what the clients call;
\* timed: the operations with a timeout; realtime: those of them with afRealtime;
\* inits: are initialization operations submitted; objects, cells: bounds on
\* incarnations.
Profile ==
  [kind : {"epoll", "kqueue", "composite"}, ops : SUBSET Ops, dirs : SUBSET Directions,
   calls : SUBSET {"push", "started", "acquire", "finished", "cancelIo", "delete"},
   timed : SUBSET Ops, realtime : SUBSET Ops, inits : SUBSET BOOLEAN,
   objects : 1 .. MaxGeneration, cells : 1 .. MaxOpGeneration]

ASSUME ProfilesAssumption == Profiles \subseteq Profile

Kind == profile.kind
Fresh == [gen |-> 0, status |-> "Success", dir |-> "READ", init |-> FALSE, running |-> "Waiting"]
Terminal == {"Success", "Canceled", "Timeout", "Disconnected", "UnknownError"}
Retains == Kind = "composite"   \* cancelMethod returns 0
Descriptor == Kind # "composite"

NoWork == [stage |-> "none", op |-> NoOp, tags |-> {}, progress |-> {}, io |-> {},
           need |-> {}, old |-> {}, dir |-> "READ", result |-> "Pending"]
-----------------------------------------------------------------------------
(* The object's private state as a value, so that the code's sequence of   *)
(* calls is a composition of operators.                                    *)

Object == [op |-> op, queue |-> queue, slot |-> initializationOp, done |-> globalQueue,
           child |-> child, swept |-> sentenced, timers |-> timers, published |-> published,
           need |-> work.need]

Commit(result) ==
  \E s \in {result} :
    /\ op' = s.op
    /\ queue' = s.queue
    /\ initializationOp' = s.slot
    /\ globalQueue' = s.done
    /\ child' = s.child
    /\ sentenced' = s.swept
    /\ timers' = s.timers
    /\ published' = s.published

Status(s, o) == s.op[o].status
Running(s, o) == s.op[o].running
Queued(s) == ToSet(s.queue["READ"]) \cup ToSet(s.queue["WRITE"])

eqPushBack(q, o) == Append(q, o)

\* Winner-takes: only the first terminal status sticks.
opSetStatus(s, o, status) ==
  IF Status(s, o) = "Pending" THEN [s EXCEPT !.op[o].status = status] ELSE s

addToGlobalQueue(s, O) ==
  [s EXCEPT !.done = [o \in Ops |-> IF o \in O THEN @[o] + 1 ELSE @[o]]]

\* stopTimer: the timer cell is unpublished and the kernel's timer disarmed.
stopTimer(s, O) ==
  [s EXCEPT !.timers = {l \in @ : l.op \notin O}, !.published = {l \in @ : l.op \notin O}]

\* The realtime timer of an operation that did not time out is stopped first.
opRelease(s, O) ==
  addToGlobalQueue(stopTimer(s, {o \in O \cap profile.realtime : Status(s, o) # "Timeout"}), O)

\* op->running = arCancelling and cancelMethod, for each operation of O.
cancelMethod(s, O) ==
  [s EXCEPT
     !.op = [o \in Ops |-> IF o \in O THEN [@[o] EXCEPT !.running = "Cancelling"] ELSE @[o]],
     !.child = [o \in Ops |-> IF o \in O /\ @[o] = "flight" THEN "cancelled" ELSE @[o]]]

\* Slip: a released operation stays linked in the survivor list.
detachLinked(s, dir, cancelled, released) ==
  opRelease([cancelMethod(s, cancelled) EXCEPT !.queue[dir] = @], released)

\* The survivor list of a positional sweep: released operations leave the queue,
\* the others keep their order.
detach(s, dir, cancelled, released) ==
  opRelease(
    [cancelMethod(s, cancelled) EXCEPT !.queue[dir] = SelectSeq(@, LAMBDA o : o \notin released)],
    released)

\* Slip: an operation in flight is released at once.
cancelInFlight(s, dir, status) ==
  LET won == {o \in ToSet(s.queue[dir]) : Status(s, o) = "Pending"}
      marked == [s EXCEPT !.op = [o \in Ops |->
                   IF o \in won THEN [@[o] EXCEPT !.status = status] ELSE @[o]]]
  IN  detach(marked, dir, {}, won)

\* An operation that lost its status race stays for the winner's own scan.
cancelOperationList(s, dir, status) ==
  LET won == {o \in ToSet(s.queue[dir]) : Status(s, o) = "Pending"}
      inFlight == {o \in won : Running(s, o) = "Running"}
      marked == [s EXCEPT !.op = [o \in Ops |->
                   IF o \in won THEN [@[o] EXCEPT !.status = status] ELSE @[o]]]
  IN  detach(marked, dir, inFlight, IF Retains THEN won \ inFlight ELSE won)

cancelQueues(s, status) ==
  cancelOperationList(cancelOperationList(s, "READ", status), "WRITE", status)

\* The slot is vacated; a failure cancels all that queued behind it.
leaveSlot(s, status, kick) ==
  LET vacated == [s EXCEPT !.slot = NoOp, !.need = @ \cup kick]
  IN  IF status = "Success" THEN vacated
      ELSE cancelQueues([vacated EXCEPT !.swept = @ \cup Queued(s)], status)

initializationRelease(s, o, kick) == leaveSlot(opRelease(s, {o}), Status(s, o), kick)

\* The same before the timer is armed: there is none to stop.
initializationReleaseUnstarted(s, o, kick) == leaveSlot(addToGlobalQueue(s, {o}), Status(s, o), kick)

\* A terminal operation in the slot is released, unless its I/O is in flight.
retireInitialization(s, o, kick) ==
  CASE Running(s, o) = "Waiting" -> initializationReleaseUnstarted(s, o, kick)
    [] Running(s, o) = "Running" ->
         IF Retains THEN cancelMethod(s, {o})
                    ELSE initializationRelease(cancelMethod(s, {o}), o, kick)
    [] Running(s, o) = "Cancelling" -> s

cancelInitializationOp(s, status) ==
  IF s.slot # NoOp /\ Status(s, s.slot) = "Pending"
  THEN retireInitialization(opSetStatus(s, s.slot, status), s.slot, {})
  ELSE s

cancelAllObjectOperations(s) ==
  cancelQueues(cancelInitializationOp(s, "Canceled"), "Canceled")

reapQueue(s, dir) ==
  LET terminal == {o \in ToSet(s.queue[dir]) : Status(s, o) # "Pending"}
      inFlight == {o \in terminal : Running(s, o) = "Running"}
      waiting == {o \in terminal : Running(s, o) = "Waiting"}
      rest == detach(s, dir, inFlight, IF Retains THEN waiting ELSE waiting \cup inFlight)
      kick == rest.queue[dir] # <<>> /\ Running(rest, Head(rest.queue[dir])) = "Waiting"
  IN  [rest EXCEPT !.need = @ \cup (IF kick THEN {dir} ELSE {})]

\* Slip: cancelIo does not reach the initialization slot.
reapQueuesOnly(s, tags) ==
  LET swept == IF "CANCELIO" \in tags THEN cancelQueues(s, "Canceled") ELSE s
      vacated == IF swept.slot # NoOp /\ Status(swept, swept.slot) # "Pending"
                 THEN retireInitialization(swept, swept.slot, Directions)
                 ELSE swept
  IN  reapQueue(reapQueue(vacated, "READ"), "WRITE")

reapObject(s, tags) ==
  LET swept == IF "CANCELIO" \in tags THEN cancelAllObjectOperations(s) ELSE s
      vacated == IF swept.slot # NoOp /\ Status(swept, swept.slot) # "Pending"
                 THEN retireInitialization(swept, swept.slot, Directions)
                 ELSE swept
  IN  reapQueue(reapQueue(vacated, "READ"), "WRITE")
-----------------------------------------------------------------------------
(* Submission.  A thread submits and cancels through a reference it holds. *)

Call(what, o, gen, tags) == [what |-> what, op |-> o, gen |-> gen, tags |-> tags]
Plain(what) == Call(what, NoOp, 0, {})

Free(t) == pc[t] = "out" /\ todo[t] = <<>>
Holds(t) == Free(t) /\ t \in holders

Submitted == C!InTransit \cup Queued(Object) \cup ({initializationOp, work.op} \ {NoOp})

\* Slip: the operation does not retain its object.
initAsyncOpUnretained(o, dir, init, running, status) ==
  /\ op' = [op EXCEPT ![o] = [gen |-> @.gen + 1, status |-> status, dir |-> dir, init |-> init, running |-> running]]
  /\ ioSeen' = (ioSeen \/ ~init)
  /\ UNCHANGED Life

\* asyncOpAlloc takes a cell of the pool, initAsyncOpRoot retains the object,
\* fills the cell and publishes the new generation last.
initAsyncOpRoot(o, dir, init, running, status) ==
  /\ refs' = refs + 1
  /\ op' = [op EXCEPT ![o] = [gen |-> @.gen + 1, status |-> status, dir |-> dir, init |-> init, running |-> running]]
  /\ ioSeen' = (ioSeen \/ ~init)
  /\ UNCHANGED <<DeletePending, holders, handle>>

asyncOpAlloc(o) ==
  /\ o \in pool
  /\ op[o].gen < profile.cells
  /\ pool' = pool \ {o}

\* aioConnect, aioAccept, the datagram calls, aioSslConnect, the HTTP and SMTP
\* requests: combinerPushOperation.  Accept and the child operations of a
\* composite are pushed already running on a reactor (afSyncStarted).  An
\* initialization operation precedes ordinary I/O by contract.
aioPush(t, o, dir, init, running) ==
  /\ Holds(t)
  /\ asyncOpAlloc(o)
  /\ init => ~ioSeen
  /\ C!PushOperation(t, o)
  /\ initAsyncOpRoot(o, dir, init, running, "Pending")
  /\ order' = Append(order, o)
  /\ UNCHANGED <<queue, initializationOp, globalQueue, child, sentenced, Kernel, timers, published, work, todo>>

\* A datagram call that finished in its own system call, or was refused by a
\* closing object, bypasses the combiner.
aioFinishedInline(t, o, dir, status) ==
  /\ Holds(t)
  /\ status = "Canceled" => DeletePending
  /\ asyncOpAlloc(o)
  /\ initAsyncOpRoot(o, dir, FALSE, "Waiting", status)
  /\ globalQueue' = addToGlobalQueue(Object, {o}).done
  /\ UNCHANGED <<Word, queue, initializationOp, child, sentenced, Kernel, timers, published, work, todo, order>>

\* combinerAcquire: a busy object gets the new operation; an idle one is owned,
\* and the cell o is kept at hand for what the owner decides next.
combinerAcquire(t, o, dir) ==
  /\ Holds(t)
  /\ asyncOpAlloc(o)
  /\ C!Acquire(t, o)
  /\ \/ /\ head # C!Idle
        /\ initAsyncOpRoot(o, dir, FALSE, "Waiting", "Pending")
        /\ UNCHANGED work
     \/ /\ head = C!Idle
        /\ work' = [NoWork EXCEPT !.stage = "acquired", !.op = o, !.dir = dir]
        /\ UNCHANGED <<Life, op, ioSeen>>
  /\ order' = Append(order, o)
  /\ UNCHANGED <<queue, initializationOp, globalQueue, child, sentenced, Kernel, timers, published, todo>>

MustQueue == queue[work.dir] # <<>> \/ initializationOp # NoOp \/ DeletePending

\* combinerAcquire, idle but not free to run: queue behind the earlier ones.
acquiredQueue(t) ==
  /\ work.stage = "acquired"
  /\ MustQueue
  /\ C!RunAcquired(t, <<C!Node(work.op)>>)
  /\ initAsyncOpRoot(work.op, work.dir, FALSE, "Waiting", "Pending")
  /\ work' = NoWork
  /\ UNCHANGED <<queue, initializationOp, globalQueue, child, sentenced, Kernel, pool, timers, published, todo, order>>

\* runAioOperation, syncImpl done: the result is returned inline ...
syncInline(t) ==
  /\ work.stage = "acquired"
  /\ ~MustQueue
  /\ C!RunAcquired(t, <<>>)
  /\ pool' = pool \cup {work.op}
  /\ work' = NoWork
  /\ ioSeen' = TRUE
  /\ sentenced' = sentenced \ {work.op}
  /\ order' = Remove(order, work.op)
  /\ UNCHANGED <<op, queue, initializationOp, globalQueue, child, Life, Kernel, timers, published, todo>>

\* ... or through the global queue ...
syncFinished(t, status) ==
  /\ work.stage = "acquired"
  /\ ~MustQueue
  /\ C!RunAcquired(t, <<>>)
  /\ initAsyncOpRoot(work.op, work.dir, FALSE, "Waiting", status)
  /\ globalQueue' = addToGlobalQueue(Object, {work.op}).done
  /\ work' = NoWork
  /\ order' = Remove(order, work.op)
  /\ UNCHANGED <<queue, initializationOp, child, sentenced, Kernel, pool, timers, published, todo>>

\* ... or the operation is parked with its I/O already started.
syncStarted(t) ==
  /\ work.stage = "acquired"
  /\ ~MustQueue
  /\ C!RunAcquired(t, <<C!Node(work.op)>>)
  /\ initAsyncOpRoot(work.op, work.dir, FALSE, "Running", "Pending")
  /\ child' = [child EXCEPT ![work.op] = IF Retains THEN "flight" ELSE @]
  /\ work' = NoWork
  /\ UNCHANGED <<queue, initializationOp, globalQueue, sentenced, Kernel, pool, timers, published, todo, order>>
-----------------------------------------------------------------------------
(* Cancellation, references, timers, kernel events, children, callbacks.   *)

Then(t, calls) == todo' = [todo EXCEPT ![t] = calls]
NextCall(t) == Head(todo[t])
Called(t) == todo' = [todo EXCEPT ![t] = Tail(@)]
Calling(t, what) == pc[t] = "out" /\ todo[t] # <<>> /\ NextCall(t).what = what

\* The push of COMBINER_TAG_CANCELIO covers what is submitted at that moment.
pushCancelIo(t) ==
  /\ C!PushCounter(t, {"CANCELIO"})
  /\ sentenced' = sentenced \cup Submitted
  /\ UNCHANGED <<op, queue, initializationOp, globalQueue, child, Life, Kernel, pool, timers, published, work, ioSeen, order>>

cancelIo(t) ==
  /\ Holds(t)
  /\ pushCancelIo(t)
  /\ UNCHANGED todo

\* objectDelete: the flag first, then cancelIo, then the creator's reference.
objectDelete(t) ==
  /\ Free(t)
  /\ handle
  /\ life = "live"
  /\ DeletePending' = TRUE
  /\ handle' = FALSE
  /\ Then(t, <<Plain("cancelIo"), Plain("unref")>>)
  /\ UNCHANGED <<Word, Parked, refs, holders, Kernel, pool, work, ioSeen, order>>

\* ... objectDelete's own cancelIo, which may run a whole combiner pass ...
deleteCancels(t) ==
  /\ Calling(t, "cancelIo")
  /\ pushCancelIo(t)
  /\ Called(t)

\* Slip: the count before the decrement is compared with 0.
decrementNeverLast(t) ==
  /\ refs' = refs - 1
  /\ Then(t, IF refs = 0 THEN <<Plain("delete")>> ELSE <<>>)

\* objectDecrementReference: the last one is to push DELETE.
objectDecrementReference(t) ==
  /\ refs' = refs - 1
  /\ Then(t, IF refs = 1 THEN <<Plain("delete")>> ELSE <<>>)

\* ... and its reference.
deleteReleases(t) ==
  /\ Calling(t, "unref")
  /\ objectDecrementReference(t)
  /\ UNCHANGED <<Word, Parked, DeletePending, holders, handle, Kernel, pool, work, ioSeen, order>>

\* A holder gives its reference back.
dropReference(t) ==
  /\ Holds(t)
  /\ holders' = holders \ {t}
  /\ objectDecrementReference(t)
  /\ UNCHANGED <<Word, Parked, DeletePending, handle, Kernel, pool, work, ioSeen, order>>

pushDelete(t) ==
  /\ Calling(t, "delete")
  /\ C!PushDelete(t)
  /\ Called(t)
  /\ UNCHANGED <<Parked, Life, Kernel, pool, work, ioSeen, order>>

\* Slip: the sender takes the object's current generation for its own.
pushUnvalidated(t) ==
  /\ Calling(t, "validated")
  /\ C!PushValidated(t, generation, NextCall(t).tags)
  /\ Called(t)
  /\ UNCHANGED <<Parked, Life, Kernel, pool, work, ioSeen, order>>

\* The signal of a timer or of the kernel, with the generation it was armed for.
pushValidated(t) ==
  /\ Calling(t, "validated")
  /\ C!PushValidated(t, NextCall(t).gen, NextCall(t).tags)
  /\ Called(t)
  /\ UNCHANGED <<Parked, Life, Kernel, pool, work, ioSeen, order>>

\* Slip: the status CAS does not compare the generation.
opCancelAnyGeneration(t, link) ==
  /\ op[link.op].status = "Pending"
  /\ op' = [op EXCEPT ![link.op].status = "Timeout"]
  /\ Then(t, <<Call("validated", NoOp, link.object, {"CANCEL"})>>)

\* Slip: the winner of the status does not signal the object.
opCancelSilent(t, link) ==
  /\ op' = IF op[link.op].gen = link.gen THEN opSetStatus(Object, link.op, "Timeout").op ELSE op
  /\ Then(t, <<>>)

\* opCancel by a thread with no other call to make; only the winner of the status
\* signals the object, with the generation the link was armed for.
opCancel(t, link) ==
  \/ /\ op[link.op].gen = link.gen
     /\ op[link.op].status = "Pending"
     /\ op' = [op EXCEPT ![link.op].status = "Timeout"]
     /\ Then(t, <<Call("validated", NoOp, link.object, {"CANCEL"})>>)
  \/ /\ op[link.op].gen # link.gen \/ op[link.op].status # "Pending"
     /\ Then(t, <<>>)
     /\ UNCHANGED op

\* A link of the wheel expires.
wheelExpires(t, link) ==
  /\ Free(t)
  /\ link \in timers /\ link.op \notin profile.realtime
  /\ timers' = timers \ {link}
  /\ opCancel(t, link)
  /\ UNCHANGED <<Word, queue, initializationOp, globalQueue, child, sentenced, published, Life, Kernel, pool, work, ioSeen, order>>

\* epoll_wait or kevent returns the one-shot event of a realtime timer, with the
\* publication it was armed for.
timerEvent(t, link) ==
  /\ Free(t)
  /\ link \in timers /\ link.op \in profile.realtime
  /\ timers' = timers \ {link}
  /\ Then(t, <<Call("expired", link.op, link.gen, {})>>)
  /\ UNCHANGED <<Word, op, queue, initializationOp, globalQueue, child, sentenced, published, Life, Kernel, pool, work, ioSeen, order>>

\* Slip: the event is taken for the current publication of the cell.
timerLoadAny(t) ==
  /\ Calling(t, "expired")
  /\ LET current == {l \in published : l.op = NextCall(t).op}
     IN  Then(t, [i \in 1 .. Cardinality(current) |-> [what |-> "timeout", link |-> CHOOSE l \in current : TRUE]])
  /\ UNCHANGED <<Word, Parked, Life, Kernel, pool, work, ioSeen, order>>

\* The loop reads the cell.  A cell that is unpublished, or published for another
\* incarnation, has nothing to do with this event.
timerLoad(t) ==
  /\ Calling(t, "expired")
  /\ LET current == {l \in published : l.op = NextCall(t).op /\ l.gen = NextCall(t).gen}
     IN  Then(t, [i \in 1 .. Cardinality(current) |-> [what |-> "timeout", link |-> CHOOSE l \in current : TRUE]])
  /\ UNCHANGED <<Word, Parked, Life, Kernel, pool, work, ioSeen, order>>

\* ... and cancels with what it has read, however late.
timerCancels(t) ==
  /\ Calling(t, "timeout")
  /\ opCancel(t, NextCall(t).link)
  /\ UNCHANGED <<Word, queue, initializationOp, globalQueue, child, sentenced, timers, published, Life, Kernel, pool, work, ioSeen, order>>

\* epoll_wait returns an event of an armed descriptor and disarms it; the
\* envelope holds the generation the descriptor was registered with.
epollEvent(t, tags) ==
  /\ Free(t)
  /\ Kind = "epoll"
  /\ armed # {}
  /\ tags \in {{"READ", "WRITE"}, {"READ", "WRITE", "ERROR"}} \cup {{d} : d \in armed}
  /\ armed' = {}
  /\ Then(t, <<Call("validated", NoOp, generation, tags)>>)
  /\ UNCHANGED <<Word, Parked, Life, Registered, profile, pool, work, ioSeen, order>>

\* Only the read filter reports the end of the stream as an error.
FilterTags(filter, eof) == {filter} \cup (IF eof /\ filter = "READ" THEN {"ERROR"} ELSE {})

\* kevent returns the events of some filters, each of which is thereby removed, and
\* the loop handles them one after the other.
kqueueEvents(t) ==
  /\ Free(t)
  /\ Kind = "kqueue"
  /\ \E ready \in SUBSET armed \ {{}}, eof \in BOOLEAN :
       /\ armed' = armed \ ready
       /\ \E events \in SetToSeqs(ready) :
            Then(t, [i \in DOMAIN events |-> Call("validated", NoOp, generation, FilterTags(events[i], eof))])
  /\ UNCHANGED <<Word, Parked, Life, Registered, profile, pool, work, ioSeen, order>>

\* The child operation of a composite finishes: resumeParent, first half.
childCompletes(t, o, success) ==
  /\ Free(t)
  /\ child[o] # "none"
  /\ child' = [child EXCEPT ![o] = "none"]
  /\ op' = IF success THEN op ELSE opSetStatus(Object, o, "Disconnected").op
  /\ Then(t, <<Call("progress", o, op[o].gen, {op[o].dir})>>)
  /\ UNCHANGED <<Word, queue, initializationOp, globalQueue, sentenced, Life, Kernel, pool, timers, published, work, ioSeen, order>>

\* resumeParent, second half: the signal is never gated on the status.
resumeParent(t) ==
  /\ Calling(t, "progress")
  /\ C!PushCounter(t, NextCall(t).tags)
  /\ Called(t)
  /\ UNCHANGED <<Parked, Life, Kernel, pool, work, ioSeen, order>>

\* executeGlobalQueue: the callback runs, then releaseAsyncOp gives the
\* operation's reference back and the cell returns to the pool.  A pooled cell
\* keeps its generation and a terminal status; its other fields are dead.
executeGlobalQueue(t, o) ==
  /\ Free(t)
  /\ globalQueue[o] > 0
  /\ globalQueue' = [globalQueue EXCEPT ![o] = @ - 1]
  /\ pool' = pool \cup {o}
  /\ op' = [op EXCEPT ![o] = [Fresh EXCEPT !.gen = op[o].gen]]
  /\ sentenced' = sentenced \ {o}
  /\ order' = Remove(order, o)
  /\ objectDecrementReference(t)
  /\ UNCHANGED <<Word, queue, initializationOp, child, DeletePending, holders, handle, Kernel, timers, published, work, ioSeen>>
-----------------------------------------------------------------------------
(* The owner.  combinerDispatch and the backend's handler, one stage per     *)
(* read of state that other threads change.                                *)

Stages == <<"start", "signal", "reap", "error", "READ", "WRITE", "rearm", "none">>

\* Slip: the queues are not frozen behind the initialization slot.
WantedUnfrozen(w, s, stage) ==
  CASE stage = "start" -> w.op # NoOp
    [] stage = "signal" -> w.progress # {} /\ s.slot # NoOp
    [] stage = "reap" -> w.tags \cap {"CANCEL", "CANCELIO"} # {}
    [] stage = "error" -> "ERROR" \in w.io
    [] stage \in Directions -> stage \in s.need /\ s.queue[stage] # <<>>
    [] stage = "rearm" -> Descriptor
    [] stage = "none" -> TRUE

Wanted(w, s, stage) ==
  CASE stage = "start" -> w.op # NoOp
    [] stage = "signal" -> w.progress # {} /\ s.slot # NoOp
    [] stage = "reap" -> w.tags \cap {"CANCEL", "CANCELIO"} # {}
    [] stage = "error" -> "ERROR" \in w.io
    [] stage \in Directions -> stage \in s.need /\ s.slot = NoOp /\ s.queue[stage] # <<>>
    [] stage = "rearm" -> Descriptor
    [] stage = "none" -> TRUE

\* The first stage after i that has something to do.
Following(w, s, i) ==
  Stages[CHOOSE j \in i + 1 .. Len(Stages) :
           Wanted(w, s, Stages[j]) /\ \A k \in i + 1 .. j - 1 : ~Wanted(w, s, Stages[k])]

StageIndex(stage) == CHOOSE i \in DOMAIN Stages : Stages[i] = stage

\* Store the object's new private state and move on to the given stage.
At(t, stage) == pc[t] = "run" /\ work.stage = stage
Store(s, stage) ==
  /\ Commit(s)
  /\ work' = IF stage = "none" THEN NoWork
             ELSE [work EXCEPT !.need = s.need, !.stage = stage, !.result = "Pending", !.dir = "READ",
                               !.op = IF stage \in {"armed", "queued"} THEN @ ELSE NoOp]
Leave(result, stage) == \E s \in {result} : Store(s, Following(work, s, StageIndex(stage)))
Quiet == UNCHANGED <<Word, Life, Kernel, pool, todo, ioSeen, order>>

combinerActiveIoEvents(s) ==
  IF s.slot # NoOp
  THEN IF Running(s, s.slot) = "Running" THEN {s.op[s.slot].dir} ELSE {}
  ELSE {d \in Directions : s.queue[d] # <<>>}

\* reactorCombinerCore, prologue; a mute descriptor gets no readiness.
Prologue(w, s, mute) ==
  LET progress == IF mute THEN {} ELSE w.tags \cap Directions
      begun == [w EXCEPT !.progress = progress, !.need = progress,
                  !.io = IF ~Descriptor \/ mute THEN {} ELSE w.tags \cap (Directions \cup {"ERROR"}),
                  !.old = IF Descriptor THEN combinerActiveIoEvents(s) ELSE {}]
      first == Following(begun, [s EXCEPT !.need = progress], 0)
  IN  IF first = "none" THEN NoWork ELSE [begun EXCEPT !.stage = first]

\* combinerDispatch.  DELETE destroys the object and its descriptor; progress
\* on a dying object is paired with the sweep.  The flag is read again by the
\* handler of a descriptor that has readiness to process.
combinerDispatch(t) ==
  /\ work.stage = "none"
  /\ C!Dispatch(t)
  /\ LET e == Head(chain[t])
         progress == e.tags \cap Directions # {}
         w == [NoWork EXCEPT !.op = e.op, !.tags = e.tags]
     IN
     \/ /\ "DELETE" \in e.tags
        /\ Commit(cancelAllObjectOperations(Object))
        /\ armed' = {}
        /\ Registered' = FALSE
        /\ UNCHANGED <<profile, work>>
     \/ /\ "DELETE" \notin e.tags
        /\ \E s \in {IF progress /\ DeletePending THEN cancelAllObjectOperations(Object) ELSE Object} :
             /\ Commit(s)
             /\ work' = IF Descriptor /\ progress THEN [w EXCEPT !.stage = "core"] ELSE Prologue(w, s, FALSE)
        /\ UNCHANGED Kernel
  /\ UNCHANGED <<Life, pool, todo, ioSeen, order>>

reactorCombinerCore(t) ==
  /\ At(t, "core")
  /\ work' = Prologue(work, Object, DeletePending)
  /\ Quiet
  /\ UNCHANGED Parked

opReleaseUnstarted(s, o, status) == addToGlobalQueue(opSetStatus(s, o, status), {o})

Link(s, o) == [op |-> o, gen |-> s.op[o].gen, object |-> generation]

\* epollStartTimer, kqueueArmTimer: the cell is published for this incarnation of
\* operation and object, or the kernel refuses and the operation fails.
startTimer(s, o) ==
  LET idle == stopTimer(s, {o})
  IN  {[idle EXCEPT !.timers = @ \cup {Link(s, o)}, !.published = @ \cup {Link(s, o)}],
       opSetStatus(idle, o, "UnknownError")}

\* The outcomes of arming the timer of o, in the kernel or in the wheel.
opArmTimer(s, o) ==
  IF o \in profile.realtime THEN startTimer(s, o)
  ELSE {[s EXCEPT !.timers = IF o \in profile.timed THEN @ \cup {Link(s, o)} ELSE @]}

\* startOperation, up to and including the arming of the timer, which may
\* itself expire the operation.
startOperation(t) ==
  LET o == work.op
      rejected == op[o].running = "Waiting" /\ DeletePending
  IN
  /\ At(t, "start")
  /\ \/ /\ rejected
        /\ Leave(opReleaseUnstarted(Object, o, "Canceled"), "start")
     \/ /\ ~rejected
        /\ op[o].init
        /\ initializationOp # NoOp
        /\ Leave(opReleaseUnstarted(Object, o, "UnknownError"), "start")
     \/ /\ ~rejected
        /\ op[o].init
        /\ initializationOp = NoOp
        /\ \E s \in opArmTimer(Object, o) : Store([s EXCEPT !.slot = o], "armed")
     \/ /\ ~rejected
        /\ ~op[o].init
        /\ \E s \in opArmTimer([Object EXCEPT !.queue[op[o].dir] = eqPushBack(@, o)], o) : Store(s, "queued")
  /\ UNCHANGED <<Word, Life, Kernel, pool, todo, ioSeen, order>>

\* executeMethod returned aosPending: the I/O of o is in flight.
Started(s, o) ==
  [s EXCEPT !.op[o].running = "Running", !.child[o] = IF Retains THEN "flight" ELSE @]

Results == {"Success", "Disconnected"}

\* executeMethod on the slot, then initializationTryComplete.
driveInitialization(o) ==
  \/ Leave(Started(Object, o), IF work.stage = "armed" THEN "start" ELSE "signal")
  \/ \E result \in Results :
       /\ work' = [work EXCEPT !.stage = "initDone", !.op = o, !.result = result]
       /\ UNCHANGED Parked

\* startOperation, the rest of an initialization operation.
startInitialization(t) ==
  /\ At(t, "armed")
  /\ \/ /\ op[work.op].status # "Pending"
        /\ Leave(initializationRelease(Object, work.op, Directions), "start")
     \/ /\ op[work.op].status = "Pending"
        /\ driveInitialization(work.op)
  /\ Quiet

\* startOperation, the rest of an ordinary operation.
startQueued(t) ==
  /\ At(t, "queued")
  /\ LET dir == op[work.op].dir IN
     \/ /\ op[work.op].status # "Pending"
        /\ Leave(reapObject(Object, {"CANCEL"}), "start")
     \/ /\ op[work.op].status = "Pending"
        /\ Leave([Object EXCEPT !.need =
                    @ \cup (IF op[Head(queue[dir])].running = "Waiting" THEN {dir} ELSE {})], "start")
  /\ Quiet

processInitializationOp(t) ==
  /\ At(t, "signal")
  /\ LET o == initializationOp IN
     \/ /\ op[o].running = "Running"
        /\ op[o].status = "Pending"
        /\ driveInitialization(o)
     \/ /\ op[o].running # "Waiting"
        /\ op[o].running = "Running" => op[o].status # "Pending"
        /\ Leave(initializationRelease(Object, o, Directions), "signal")
  /\ Quiet

\* initializationTryComplete, terminal result: an earlier winner's status stays.
initializationTryComplete(t) ==
  /\ At(t, "initDone")
  /\ Leave(initializationRelease(opSetStatus(Object, work.op, work.result), work.op, Directions), "signal")
  /\ Quiet

reap(t) ==
  /\ At(t, "reap")
  /\ Leave(reapObject(Object, work.tags), "reap")
  /\ Quiet

\* The error sweep: FIONREAD decides whether the read side is drained.
errorSweep(t) ==
  /\ At(t, "error")
  /\ \/ Leave(cancelOperationList(Object, "READ", "Disconnected"), "error")
     \/ Leave(Object, "error")
  /\ Quiet

\* The head of the queue is released and the list goes on with the next one.
Advance(s, dir) ==
  \E rest \in {opRelease([s EXCEPT !.queue[dir] = Tail(@)], {Head(s.queue[dir])})} :
    IF rest.queue[dir] # <<>> THEN Store(rest, dir) ELSE Leave(rest, dir)

\* executeOperationList, one turn of its loop up to the return of executeMethod.
executeOperationList(t, dir) ==
  /\ At(t, dir)
  /\ LET o == Head(queue[dir]) IN
     \/ /\ op[o].status # "Pending"
        /\ Advance(Object, dir)
     \/ /\ op[o].status = "Pending"
        /\ DeletePending
        /\ Leave(Object, dir)
     \/ /\ op[o].status = "Pending"
        /\ ~DeletePending
        /\ \/ Leave(Started(Object, o), dir)
           \/ \E result \in Results :
                /\ work' = [work EXCEPT !.stage = "done", !.dir = dir, !.result = result]
                /\ UNCHANGED Parked
  /\ Quiet

\* Slip: opForceStatus where the status is still contended.
executeForced(t) ==
  /\ At(t, "done")
  /\ Advance([Object EXCEPT !.op[Head(queue[work.dir])].status = work.result], work.dir)
  /\ Quiet

\* ... and its status CAS and release.
executeFinished(t) ==
  /\ At(t, "done")
  /\ Advance(opSetStatus(Object, Head(queue[work.dir]), work.result), work.dir)
  /\ Quiet

\* Slip: the delivered event is not taken to have consumed the one-shot mask.
rearmUnlessChanged(t) ==
  /\ At(t, "rearm") /\ Kind = "epoll"
  /\ LET new == combinerActiveIoEvents(Object)
     IN  armed' = IF new # work.old THEN new ELSE armed
  /\ Registered' = TRUE
  /\ work' = NoWork
  /\ UNCHANGED <<Word, Parked, Life, profile, pool, todo, ioSeen, order>>

\* combinerTaskHandler of epoll, epilogue.  The mask believed to be armed is
\* computed, not read back.
rearm(t) ==
  /\ At(t, "rearm") /\ Kind = "epoll"
  /\ LET current == IF work.io # {} THEN {} ELSE work.old
         new == combinerActiveIoEvents(Object)
     IN
     \/ /\ ~DeletePending
        /\ new # {}
        /\ armed' = IF ~Registered \/ current # new THEN new ELSE armed
        /\ Registered' = TRUE
     \/ /\ ~DeletePending
        /\ new = {}
        /\ current # {}
        /\ armed' = {}
        /\ Registered' = FALSE
     \/ /\ DeletePending \/ (new = {} /\ current = {})
        /\ UNCHANGED <<armed, Registered>>
  /\ work' = NoWork
  /\ UNCHANGED <<Word, Parked, Life, profile, pool, todo, ioSeen, order>>

\* Slip: the delivered filter is not told from the one that is still armed.
rearmFiltersOfBoth(t) ==
  /\ At(t, "rearm") /\ Kind = "kqueue"
  /\ LET kept == IF work.io # {} THEN {} ELSE work.old
         new == combinerActiveIoEvents(Object)
     IN  armed' = IF DeletePending THEN armed ELSE (armed \cup (new \ kept)) \ (kept \ new)
  /\ work' = NoWork
  /\ UNCHANGED <<Word, Parked, Life, Registered, profile, pool, todo, ioSeen, order>>

\* combinerTaskHandler of kqueue, epilogue.  The filters believed to be still armed
\* are those in use before the pass that it got no event of.
rearmFilters(t) ==
  /\ At(t, "rearm") /\ Kind = "kqueue"
  /\ LET activated == work.old \ work.io
         new == combinerActiveIoEvents(Object)
     IN  armed' = IF DeletePending THEN armed ELSE (armed \cup (new \ activated)) \ (activated \ new)
  /\ work' = NoWork
  /\ UNCHANGED <<Word, Parked, Life, Registered, profile, pool, todo, ioSeen, order>>

\* combiner(), between handler invocations: capture, sweep, release.
capture(t) ==
  /\ work.stage = "none"
  /\ C!Capture(t)
  /\ UNCHANGED <<Parked, Life, Kernel, pool, work, todo, ioSeen, order>>

\* Slip: no sweep at the release of ownership.
sweepSkipped(t) ==
  /\ work.stage = "none"
  /\ C!SeeStub(t)
  /\ UNCHANGED <<Parked, Life, Kernel, pool, work, todo, ioSeen, order>>

sweep(t) ==
  /\ work.stage = "none"
  /\ C!SeeStub(t)
  /\ Commit(IF DeletePending THEN cancelAllObjectOperations(Object) ELSE Object)
  /\ UNCHANGED <<Life, Kernel, pool, work, todo, ioSeen, order>>

release(t) ==
  /\ C!Release(t)
  /\ UNCHANGED <<Parked, Life, Kernel, pool, work, todo, ioSeen, order>>

handlerStep(t) ==
  \/ combinerDispatch(t)
  \/ reactorCombinerCore(t)
  \/ startOperation(t)
  \/ startInitialization(t)
  \/ startQueued(t)
  \/ processInitializationOp(t)
  \/ initializationTryComplete(t)
  \/ reap(t)
  \/ errorSweep(t)
  \/ \E dir \in Directions : executeOperationList(t, dir)
  \/ executeFinished(t)
  \/ rearm(t)
  \/ rearmFilters(t)
  \/ capture(t)
  \/ sweep(t)
  \/ release(t)
-----------------------------------------------------------------------------
(* The incarnations of the object. *)

Init ==
  /\ C!Init
  /\ op = [o \in Ops |-> Fresh]
  /\ pool = Ops
  /\ queue = [d \in Directions |-> <<>>]
  /\ initializationOp = NoOp
  /\ globalQueue = [o \in Ops |-> 0]
  /\ DeletePending = FALSE
  /\ refs = 1 + Cardinality(Clients)
  /\ holders = Clients
  /\ handle = TRUE
  /\ timers = {} /\ published = {}
  /\ child = [o \in Ops |-> "none"]
  /\ armed = {}
  /\ Registered = FALSE
  /\ work = NoWork
  /\ todo = [t \in Threads |-> <<>>]
  /\ ioSeen = FALSE
  /\ sentenced = {}
  /\ order = <<>>
  /\ profile \in Profiles

\* initObjectRoot on recycled storage: Head first ...
initObjectHead ==
  /\ generation <= profile.objects
  /\ C!ResetHead
  /\ UNCHANGED <<Parked, Life, Kernel, pool, work, todo, ioSeen, order>>

\* ... then the other fields, and the object is handed out.
initObjectRoot ==
  /\ C!Publish
  /\ queue' = [d \in Directions |-> <<>>]
  /\ initializationOp' = NoOp
  /\ refs' = 1 + Cardinality(Clients)
  /\ DeletePending' = FALSE
  /\ holders' = Clients
  /\ handle' = TRUE
  /\ ioSeen' = FALSE
  /\ UNCHANGED <<op, globalQueue, child, sentenced, Kernel, pool, timers, published, work, todo, order>>

\* Every incarnation is over and every call has returned.
Finished ==
  /\ life = "dead"
  /\ generation > profile.objects
  /\ \A t \in Threads : Free(t)
  /\ UNCHANGED vars

clientStep(t) ==
  \/ \E o \in profile.ops, dir \in profile.dirs :
       \/ "push" \in profile.calls /\ \E init \in profile.inits :
            aioPush(t, o, IF init /\ Descriptor THEN "WRITE" ELSE dir, init, "Waiting")  \* actConnect
       \/ "started" \in profile.calls /\ aioPush(t, o, dir, FALSE, "Running")
       \/ "acquire" \in profile.calls /\ combinerAcquire(t, o, dir)
  \/ \E o \in profile.ops, dir \in profile.dirs, status \in {"Success", "Canceled"} :
       "finished" \in profile.calls /\ aioFinishedInline(t, o, dir, status)
  \/ "cancelIo" \in profile.calls /\ cancelIo(t)
  \/ "delete" \in profile.calls /\ objectDelete(t)
  \/ dropReference(t)

syncStep(t) ==
  \/ acquiredQueue(t)
  \/ syncStarted(t)
  \/ syncInline(t)
  \/ \E status \in Results : syncFinished(t, status)

callStep(t) ==
  \/ deleteCancels(t)
  \/ deleteReleases(t)
  \/ pushDelete(t)
  \/ pushValidated(t)
  \/ timerLoad(t)
  \/ timerCancels(t)
  \/ resumeParent(t)

loopStep(t) ==
  \/ \E link \in timers : wheelExpires(t, link) \/ timerEvent(t, link)
  \/ \E tags \in SUBSET {"READ", "WRITE", "ERROR"} : epollEvent(t, tags)
  \/ kqueueEvents(t)
  \/ \E o \in Ops, success \in BOOLEAN : childCompletes(t, o, success)
  \/ \E o \in Ops : executeGlobalQueue(t, o)

Next ==
  \/ \E t \in Threads : clientStep(t) \/ syncStep(t) \/ callStep(t) \/ loopStep(t) \/ handlerStep(t)
  \/ initObjectHead
  \/ initObjectRoot
  \/ Finished

Spec == Init /\ [][Next]_vars

\* A running thread runs on.  Every turn of the loop drains the global queue, so
\* a flood of events delays a callback, a cancelled child's report or a user's
\* release of its reference to a deleted object, but never for ever.
Fairness ==
  /\ \A t \in Threads :
       /\ WF_vars(handlerStep(t))
       /\ WF_vars(syncStep(t))
       /\ WF_vars(callStep(t))
       /\ SF_vars(DeletePending /\ dropReference(t))
  /\ \A o \in Ops :
       /\ SF_vars(\E t \in Threads : executeGlobalQueue(t, o))
       /\ SF_vars(\E t \in Threads, success \in BOOLEAN : child[o] = "cancelled" /\ childCompletes(t, o, success))

FairSpec == Spec /\ Fairness
-----------------------------------------------------------------------------
LinkType == [op : Ops, gen : 1 .. MaxOpGeneration, object : 1 .. MaxGeneration]

TypeOK ==
  /\ C!TypeOK
  /\ op \in [Ops -> [gen : 0 .. MaxOpGeneration, status : Terminal \cup {"Pending"}, dir : Directions,
                     init : BOOLEAN, running : {"Waiting", "Running", "Cancelling"}]]
  /\ pool \subseteq Ops
  /\ queue \in [Directions -> Seq(Ops)]
  /\ initializationOp \in Ops \cup {NoOp}
  /\ globalQueue \in [Ops -> Nat]
  /\ DeletePending \in BOOLEAN /\ handle \in BOOLEAN /\ Registered \in BOOLEAN /\ ioSeen \in BOOLEAN
  /\ refs \in Nat
  /\ holders \subseteq Clients
  /\ timers \subseteq LinkType /\ published \subseteq LinkType
  /\ child \in [Ops -> {"none", "flight", "cancelled"}]
  /\ armed \subseteq Directions
  /\ work.op \in Ops \cup {NoOp} /\ work.need \subseteq Directions
  /\ \A t \in Threads : Len(todo[t]) <= 2
  /\ sentenced \subseteq Ops
  /\ order \in Seq(Ops)

\* The callers keep the combiner's contract: a push through a reference never
\* follows DELETE, DELETE is pushed once and by the last reference with no node
\* in transit, and every envelope carries a generation that was handed out.
CombinerContract == C!Init /\ [][Word' # Word => C!Next]_Word

Occurrences(s, o) == Cardinality({i \in DOMAIN s : s[i] = o})
NodesOf(s, o) == Cardinality({i \in DOMAIN s : s[i].op = o})
One(condition) == IF condition THEN 1 ELSE 0

\* An operation is in exactly one place from its allocation to its callback:
\* the pool, the hands of a submitter or of the handler, Head, a captured chain,
\* one queue, the initialization slot or the global queue.  So no callback runs
\* twice and none is lost, whichever of completion, timeout and cancel wins.  A
\* callback never finds aosPending (the assertion of executeGlobalQueue), and the
\* operations of a direction wait in the order they were submitted, through
\* reversed chains, the optimistic path and the rebuilt survivor lists.
OnePlace ==
  /\ TypeOK
  /\ \A o \in Ops :
       /\ One(o \in pool) + NodesOf(head, o) + One(\E t \in Threads : NodesOf(chain[t], o) > 0)
            + Occurrences(queue["READ"], o) + Occurrences(queue["WRITE"], o)
            + One(initializationOp = o) + globalQueue[o]
            + One(work.op = o /\ work.stage \in {"acquired", "core", "start"}) = 1
       /\ globalQueue[o] > 0 => op[o].status # "Pending"
  /\ \A dir \in Directions : queue[dir] = SelectSeq(order, LAMBDA o : o \in ToSet(queue[dir]))

\* A status, once terminal, is the one the callback sees, whoever else finishes
\* the operation later; only a new generation of the cell starts over.
StatusSettlesOnce ==
  [][\A o \in Ops : op[o].status # "Pending" /\ op'[o].gen = op[o].gen /\ o \notin pool'
                      => op'[o].status = op[o].status]_vars

\* The destructor runs when nothing of the object is left: every cell is back in
\* the pool, no child will report to it and no call still uses a reference.
DestroyedWhenUnused ==
  life # "live" =>
    /\ pool = Ops
    /\ refs = 0 /\ ~handle /\ holders = {}
    /\ \A o \in Ops : child[o] = "none"
    /\ \A t \in Threads : \A i \in DOMAIN todo[t] : todo[t][i].what \in {"validated", "expired", "timeout"}

AtRest == head = C!Idle /\ life = "live"
ParkedOps == Queued(Object) \cup ({initializationOp} \ {NoOp})

\* cancelIo is positional: what was submitted before it does not stay pending on
\* a released object, and what was submitted after it is not cancelled by it.
CancelIoIsPositional ==
  /\ AtRest => \A o \in ParkedOps \cap sentenced : op[o].status # "Pending"
  /\ \A o \in Ops \ pool : op[o].status = "Canceled" => o \in sentenced \/ DeletePending

\* aosTimeout is set only through the link armed for this very incarnation of
\* the cell, which for a realtime timer is still the published one, or because the
\* operation waited behind an initialization that timed out: a stale link or a late
\* event of the kernel never expires the next user of a recycled cell.
TimeoutIsOwn ==
  [][\A o \in Ops : op[o].status = "Pending" /\ op'[o].status = "Timeout" =>
       \/ Link(Object, o) \in timers \cup published
       \/ initializationOp # NoOp /\ op[initializationOp].status = "Timeout"]_vars

\* The child of o has not yet reported to it.
Reporting(o) ==
  \/ child[o] # "none"
  \/ \E t \in Threads : \E i \in DOMAIN todo[t] :
       todo[t][i].what = "progress" /\ todo[t][i].op = o /\ todo[t][i].gen = op[o].gen

\* An operation is not released while its child may still call resumeParent on
\* it: the composite's cell must not be recycled under the child.  Nor is
\* executeMethod run on it again: a second child would use the same buffers and
\* report twice.
RetainedForItsChild ==
  /\ \A o \in Ops : Reporting(o) => o \notin pool /\ globalQueue[o] = 0
  /\ work.stage \in Directions => LET o == Head(queue[work.stage]) IN op[o].status = "Pending" => child[o] = "none"
  /\ work.stage = "signal" /\ op[initializationOp].status = "Pending" => child[initializationOp] = "none"

\* While initialization occupies the slot no ordinary operation starts its I/O.
FrozenBehindInitialization ==
  [][\A o \in Ops : /\ op[o].running = "Waiting" /\ op'[o].running = "Running"
                     /\ ~op'[o].init /\ o \in Queued(Object)
                     => initializationOp = NoOp]_vars

\* An event of the kernel, for one of dirs, that is harvested and not yet pushed.
EventOnItsWay(dirs) ==
  \E t \in Threads : \E i \in DOMAIN todo[t] :
    todo[t][i].what = "validated" /\ todo[t][i].gen = generation /\ todo[t][i].tags \cap dirs # {}

ExpiryOnItsWay ==
  \E t \in Threads : \E i \in DOMAIN todo[t] :
    todo[t][i].what = "validated" /\ todo[t][i].gen = generation /\ "CANCEL" \in todo[t][i].tags

\* What must still arrive for operation o, parked on a released object, to move
\* on: its child's report, or the readiness the one-shot mask is armed for.
\* Only the head of a queue, and the slot, are driven.
HasWaker(o) ==
  CASE Kind = "composite" -> Reporting(o)
    [] Kind = "epoll" -> combinerActiveIoEvents(Object) \subseteq armed \/ EventOnItsWay(Directions)
    [] Kind = "kqueue" -> \A d \in combinerActiveIoEvents(Object) : d \in armed \/ EventOnItsWay({d})

Driven == IF initializationOp # NoOp THEN {initializationOp}
          ELSE {Head(queue[d]) : d \in {e \in Directions : queue[e] # <<>>}}

\* No lost wakeup: whenever nobody owns the object, every operation at the front
\* has a waker, and a parked operation that is already terminal either waits for
\* its child or has a reaping pass on its way.
ParkedHasWaker ==
  AtRest /\ ~DeletePending =>
    /\ \A o \in Driven : HasWaker(o) \/ ExpiryOnItsWay
    /\ \A o \in ParkedOps : op[o].status # "Pending" => Reporting(o) \/ ExpiryOnItsWay

DeleteOnItsWay == \E t \in Threads : \E i \in DOMAIN todo[t] : todo[t][i].what = "cancelIo"

\* The sweep at ownership release leaves nothing behind on a dying object but
\* operations whose child is still to report.
DeleteSweepIsComplete ==
  AtRest /\ DeletePending => \A o \in ParkedOps : Reporting(o) \/ ExpiryOnItsWay \/ DeleteOnItsWay

\* objectDelete leads to the destructor, however operations, timers, events,
\* callbacks and other holders interleave with it.
DeleteCompletes == DeletePending ~> life = "dead"

\* An operation whose status is settled gets its callback.
SettledIsDelivered ==
  \A o \in Ops : (o \notin pool /\ op[o].status # "Pending" /\ op[o].gen > 0) ~> (o \in pool)
=============================================================================
