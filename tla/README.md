# A verification of asyncio

TLA+ modules, TLC models and TLAPS proofs for the C library in `src/`: an
asynchronous I/O runtime (epoll, kqueue, IOCP) with lock-free objects, pooled
operations, timeouts, user events and coroutines, and the protocol objects built
on it. Everything is translated from the code; `PROJECT.json` maps each
definition to the lines it stands for.

## 1. The system and what is hard about it

| Part | Source (`src/src/`) | What is hard | Module |
|---|---|---|---|
| Object combiner | `asyncio/asyncioImpl.h`, `asyncioImpl.c` 676-772 | a push racing the release; an event of an earlier incarnation | `Combiner`, `Mailbox` |
| Operations, queues, lifetime, epoll and kqueue reactors | `asyncioImpl.c` 128-600, `lifetime.c`, `epoll.c`, `kqueue.c`, `reactor.h` | one terminal status from three racing parties; cancellation by position; last reference dropped anywhere; an event in one direction disarms both; a cancelled parent waits for its child | `AioObject` |
| Concurrent queue | `ringBuffer.c` | sealing a drained ring against a late push | `ConcurrentQueue`, `Handoff` |
| Coroutines | `coroutinePosix.c` | wakeup during a run, a yield or the final return | `Coroutine` |
| Event loop threads | `asyncioImpl.c` 98-125, 595-664; `epoll.c` | a lost wakeup; one doorbell for many sleepers | `EventLoop` |
| Timer wheel | `timerWheel.c` | publishing into a slot that is being drained; a sleep computed while timers are armed | `TimerWheel` |
| User events | `events.c`, `epoll.c` | owner hand-off; delete against commit; ticks of an earlier sleep | `UserEvent` |
| Transfers | `ioInternal.c`, `reactor.h` | read-ahead and partial transfers over several wakeups | `StreamIo` |
| Message protocols | `asyncioextras/btc.cpp`, `zmtp.cpp` | handshakes in turns; limits; whose memory a blocked send reads | `Btc`, `Zmtp`, `Messaging` |
| SMTP, HTTP and TLS objects | `smtp.c`, `http.c`, `socketSSL.c`, `p2putils/Http*` | incremental parsing over any split; what is buffered behind a reply; the order of TLS ends and data | `Smtp`, `HttpParse`, `HttpClient`, `SslSocket`, `Clients` |
| Pure algorithms | `p2putils/UriParse.cpp`, `HttpTokens.c`, `base64.c` | what is built must parse back; lengths computed apart from the loop | `UriParse`, `HeaderTable`, `Base64`, `Codecs` |

The parts interact in one line: a caller submits an operation to an **object**;
the **combiner** elects one thread to serve it; the handler parks it and arms the
**reactor** and a **timer**; readiness, expiry, cancellation or a child's report
come back as pushes to the combiner; the settled operation goes through the
**concurrent queue** to an **event loop thread**, which runs the callback or
resumes the **coroutine**, and returns the operation to its pool. A protocol object
is a composite: its operation runs a state machine whose reads and writes are child
operations on the socket underneath.

## 2. Modules

| Module | Correspondence to the code |
|---|---|
| `Mailbox` | what the combiner promises: one owner takes entries in the order they were put |
| `Combiner` | `head` is the `Head` word as a sequence of entries, newest first; each atomic access is a step |
| `AioObject` | one object with its operations, from submission to callback and from creation to reuse. It instantiates `Combiner`: its actions are conjoined, and `CombinerContract` checks that the whole behaves as `Combiner!Spec`. `profile` selects a descriptor or a composite object and what its client does |
| `Handoff` | what a queue promises: every value that was put is taken at most once |
| `ConcurrentQueue` | both operations of the ring ladder, one atomic access a step; threads in `StaleReaders` may see older partition cursors in relaxed loads, and the pops of `Watched` consumers remember what was published when they began |
| `Coroutine` | the counter protocol of call, yield and end; each atomic access and each context switch is a step |
| `EventLoop` | loop threads, doorbell and quit. The queue is the length of `globalQueue` with the weak "empty" answer that `ConcurrentQueue` has; the eventfd is an edge and a level |
| `TimerWheel` | compute a deadline, load the cursor, route, publish, kick; sweep, help, drain, cascade, confirm; the sleep computation with its brackets, its scan of the bitmap word by word: one access to shared memory a step. A slot is its pair of base and chain |
| `UserEvent` | the three words of a user event (`header.tag`, `timerControl`, `waiter`), its doorbell and its timer descriptor; each thread has a stack of frames, as calls nest |
| `StreamIo` | the transfer loops of read, write and connect, and the composite operation that drives them (start procedure, parked child, `resumeParent`) between two peers |
| `Btc`, `Zmtp` | their in-place path and the operation's start procedure, state by state, over `StreamIo` |
| `Smtp`, `HttpClient`, `SslSocket` | the operations of the clients over `StreamIo`; OpenSSL is external: a handshake, records, and sticky ends |
| `HttpParse`, `UriParse` | the parsers as operators that report components and commit a position |
| `Messaging`, `Clients`, `Protocols` | the environment of these objects: two peers, foreign bytes, a mail, web or TLS server; and what the calls may return |
| `Base64`, `HeaderTable`, `Codecs` | pure operators, and the inputs they are tried on |
| `*Proofs`, `*Invariant`, `ConcurrentQueuePop` | proofs, section 5 |
| `MC*` | TLC instances |

Operators that `PROJECT.json` lists as mutants are deliberate mistakes. Each run's
properties are also checked to fail when one of them replaces the definition it
imitates.

### What the abstractions are

* Operations, objects and values are model values. A system call returns one of the
  results that the code tells apart. Memory is sequentially consistent except where a
  module has an explicit stale read.
* `AioObject`: what the code protects by combiner ownership changes in whole handler
  steps (start, signal, reap, error, read, write, re-arm). Separate reads of
  `DeletePending` in one pass are separate steps. A sweep over a queue is one step:
  each operation's status is its own CAS, so the order in which the sweep wins or loses
  them shows nowhere else. The speculative operation that `combinerAcquire` allocates
  and may discard is allocated only when it is used. The envelope of a kernel event
  carries the whole generation; the code keeps 22 bits of it.
* `ConcurrentQueue`: a ring that is not allocated yet answers a pop as an empty one.
* `EventLoop`: a sleep has no timeout of its own. A timer or another descriptor may
  end it at any time, and no property relies on that. The timed sleep is in `TimerWheel`.
* `TimerWheel`: the head of a slot is the set of links pushed on it; within one
  incarnation it only grows, so comparing sets is comparing heads. The observed value
  of a failed CAS is a fresh load. Every caller passes a loop state, so the overflow
  counter of the brackets stays 0 and is left out. A deadline is computed from the clock
  in one step and the cursor is read in another, so the sweep may pass the deadline in
  between and the insert must refuse it. `epoll_wait` may return at any time, for its
  timeout, a descriptor or a signal.
* `UserEvent`: a loop that retries a CAS and reads nothing else is one step. Setting the
  timer descriptor may fail; the owner then rolls its schedule back. A schedule has a
  period and a count, or no end; `allowed` counts the ticks the finite ones still permit.
* `StreamIo` and above: a field of fixed size is one cell or a few, a payload is a few
  cells. The combiner serialises the operations of an object, so a lane runs one
  operation at a time; the interleavings of pushes are `AioObject`'s. A transfer may
  stop after any number of cells. A timeout or a cancellation ends the parent and its
  child. A user of the Bitcoin socket calls again after any failure, at whatever place in
  the stream that left the reader; the magic is assumed not to occur inside of a message,
  and a checksum to fit its own payload only. A frame of zmtp has neither, so nothing could be
  said of a receive that begins inside of one: there, and in HTTP and SMTP, a caller gives
  the connection up after a failure. TLS calls go on after a TLS error, since the ends of
  TLS are sticky, and end with a timeout, which may cut a record.
* HTTP: the parse context lives as long as its client and is one its caller used before;
  every request resets it and every component of a response goes into it as it arrives.
  Over https the same loop calls `aioSslRead` and `aioSslWrite` in place of `implRead` and
  `implWrite` (`http.c` 139-143, 177-182); that they deliver a stream of plaintext is
  `TlsDelivered`, and the pair is not composed.
* SMTP: a TLS session is a mark on the cells that went through it. The scenario says
  whether `sslSocketNew` fails; a timeout or a broken connection meets the sessions whose
  replies are plain.
* TLS: the write of the handshake's last flight that nobody waits for is a queue
  that is flushed while the connect is parked. The capture of a blocked write's payload
  is modelled in `Btc` and `Zmtp` only. A host name that does not fit its extension fails
  the connect before the handshake; a read or a write then carries the handshake on, as
  OpenSSL does.
* `HeaderTable`: the hash is a parameter, so that every collision is met, and so is the
  memory, so that every allocation of the build fails once.

## 3. Runs

State counts are distinct states.

| Run | Instance | States | Properties |
|---|---|---|---|
| `combiner` | 3 threads, 2 operations, 2 incarnations | 13 000 | refinement of `Mailbox`; every node is dispatched |
| `aio_descriptor` | descriptor, 2 operations: on epoll with a timeout, with `cancelIo` and a connect in the slot, pushed running or finished; on kqueue in both directions | 1 434 000 | one place and one settlement per operation, a waker for each parked one, positional cancellation, frozen queues, complete sweep |
| `aio_late` | 2 incarnations of object and operation, with a wheel link (epoll) and a realtime timer (kqueue); composite objects with child operations and a handshake | 679 000 | stale timer links, timer events and kernel events do no harm, operations are kept for their child's report, destruction only when unused, the word obeys `Combiner` |
| `aio_live` | one operation, descriptor and composite | 25 000 | delete ends in the destructor, a settled operation gets its callback |
| `aio_composite_delete` | one operation, **violated** | | section 6 |
| `queue` | 2 producers (3 pushes and 1), 2 consumers, one of them watched, one thread of each side with stale cursors | 530 000 | handed over once and in each producer's order, weak "empty", everything is delivered |
| `coroutine` | 3 threads, up to 6 suspensions | 470 | a fired wakeup ends its suspension |
| `event_loop` | 3 threads for 1 or 2 slots, 1 outsider | 161 000 | no lost wakeup, quit reaches everyone, the queue is drained |
| `timer_wheel` | 2 levels of 2 slots; 2 loops with 1 timer or 1 loop with 2 | 5 270 000 | never early, in one place and visited in time, sleepers cover timers |
| `user_event` | 2 loops, an activating, a deleting and a calling thread; semaphore event with a coroutine, plain event with a callback; with a timer descriptor that can be set or may fail | 1 300 000 | wakeups conserved, ticks wake their own sleep, finite schedules, nothing left by an owner, no early recycling, no forgotten sleeper |
| `protocols` | btc and zmtp between two peers or against foreign bytes; SMTP, HTTP and TLS against a server | 1 506 000 | what arrives is what was sent, also after a failure; handshakes agree and do not stall; replies are obeyed; nothing from before STARTTLS counts after it; mail, HTTP and TLS content arrive whole |
| `codecs` | every input of a small alphabet and length | 1 798 000 | URIs parse back, base64 fits and decodes back, a header table finds its names and no others |

What is proved for every instance and needs no liveness (section 5) is not repeated in
the runs of `Combiner`, `ConcurrentQueue`, `Coroutine` and `EventLoop`, except where a run's property is
itself the theorem's.

A run of `AioObject` starts in any of several *profiles* (`MCAioObject`): the kind of
object, the calls its client makes, the operations with a timeout and the number of
incarnations. A profile never changes; it bounds the environment and nothing in the
handlers depends on it but the kind. `loopThreadLimit` in `EventLoop` and `TimerWheel`,
the kinds of `UserEvent`, the scenarios of `Protocols` and the seeds of `Codecs` are
chosen the same way. Every set of profiles is closed under permutation of the
operations, so the symmetry is sound.

**Bounds.** Two operations are the fewest for which order, position and the freezing
of a queue mean something; two threads are the owner and one racing party, and the
combiner itself is checked with three. Two incarnations give every stale reference
one reuse to hit. The queue starts with rings of 2 cells (the library uses 4096; a
ring of 1 cell breaks the sequence-number scheme itself), so one producer fills a ring
and reaches the next partition while the other still holds the old one; `Sealed` is
larger than every position. The consumers are alike, so it is enough to watch one. Three suspensions are enough for a wakeup to meet each
phase of a later suspension; 6 are allowed. `MaxItems` and `MaxQuits` give the loops a
second round after a reset. The wheel (the library has 1024 slots on each of 4 levels) has a
range of 4 ticks: from tick 1 to 4 the sweep crosses a boundary of level 1 twice, and
deadlines up to 5 lie behind the cursor, at it, on level 0, on level 1 and beyond the range;
`WORD` is 1, so that a level is scanned in two loads.
In `user_event` three of calls, activations and the deletion happen and the timerfd
accumulates one expiration before it is read; or two happen, the timerfd accumulates two,
more than a schedule may have left, and setting it may fail. Buffers of the protocol
objects hold a few cells, so that messages are cut at every place and some do not fit;
`SizeMax` and `IntMax` put the overflow checks within reach. The codecs' alphabets hold
the characters that the code tells apart.

**Deadlock** is checked except where the system may stop. In `aio_late`, `aio_live` and
`aio_composite_delete` the behaviour of section 6 is a stop of a composite object; there
the leads-to properties decide which stops are allowed, and `aio_descriptor` checks
deadlock for descriptors. A coroutine stops once it has freed itself, the clock of
`timer_wheel` and the calls of `user_event` are bounded, and the scenarios of
`protocols` and inputs of `codecs` end; `NobodyStalls` says which ends are allowed, and
`SleepersCoverTimers` and `ParkedIsNotForgotten` say what must not be waiting then.

**Fairness.** A thread inside the combiner, a call or a loop turn runs on: weak fairness of its
own steps. A loop turn runs `executeGlobalQueue` before every wait, so callbacks are
strongly fair; a cancelled child reports, since the kernel or its own object does;
a client that deleted an object drops its other references. In `ConcurrentQueue` and
`Coroutine` each thread's steps are weakly fair, as is the firing of an armed wakeup.
In `EventLoop` threads that run are weakly fair and `epoll_wait` returns to some
sleeper when it has an edge; nothing makes a particular sleeper wake, and timers are
not assumed to fire. `TimerWheel` and `UserEvent` have no leads-to properties: that a
sleep ends needs an assumption on how fast the clock runs against the threads, so they
state what must hold in every state in which all others have come to rest.

## 4. Properties worth naming

* **`ServesInOrder`**: the lock-free word, with tags OR-ed onto nodes that others
  link, behaves like a serial mailbox.
* **`CancelIoIsPositional`**: `cancelIo` covers what was submitted before it.
* **`ParkedHasWaker`**: an object at rest with a parked operation always has a way to
  be woken: an armed mask, an event on its way, a child, or a timer.
* **`RetainedForItsChild`**: late answers find their operation, not yet issued again.
* **`HandsOverOnce`**, **`EverythingDelivered`**: sealing neither loses a value nor
  makes a producer spin.
* **`EmptyOnlyBehindAPush`**: the queue may answer "empty" in front of finished pushes,
  only while an earlier push is unfinished. `EventLoop` is built on this weak answer.
* **`SleepersHaveNothingToDo`**: the unfinished push, a sibling that reads the eventfd,
  the silent push of a single loop and the chain of doorbells at quit fit together.
* **`HeldOnce`**: whatever sweepers help each other and whichever arm loses its race, a
  pending timer has one holder, and its slot comes up no later than its deadline.
* **`SleepersCoverTimers`**: the horizon published before the scan, the brackets around
  a clear and the kick after a publication leave no timer without a sleeper.
* **`WakeupsAreConserved`**, **`TickWakesItsOwnSleep`**: activations, credits and ticks
  add up through parking, hand-off of the owner and deletion.
* **`HandshakesAgree`**: of two zmtp peers one may learn of a refusal only later, but
  none believes in a peer type it did not check.
* **`SecureAfterUpgrade`**: replies that arrived before TLS are never taken for replies
  that arrived through it.
* **`DeliveredAsSent`**: whatever ended a receive of the Bitcoin socket, a later one that
  succeeds has a whole message as it was sent, in order and within its limit.
* **`HttpDelivered`**: the split of a response into pieces does not show, and neither
  does the previous response on the same connection.

The protocols' properties are stated for what the code offers, and the limits of it
show in their statements. A timeout on one lane of a message socket cancels the child of the
other lane too. A reply that the server sends ahead, or that comes in after a timed-out
command, is taken for the reply to the next command. The HTTP client drops what is
buffered past a response when the next request starts, reads a response without framing
as one with an empty body, and does not resume a cancelled parse. A URI with a port and
no host, or without a host and with a path that begins with `//`, and a DNS name that
decodes to an IPv4 address do not parse back to the same components.

## 5. Proofs

All proofs hold for any finite or infinite values of the constants that satisfy the
named assumptions (`EventLoop` asks for a finite set of threads, disjoint from the
outsiders; `TimerWheel` for at least two slots and two levels, bitmap words of at least one slot, and timers that are
not loop threads; `ConcurrentQueue` for rings of at least two cells, finitely many
producers that make finitely many pushes each, and a seal that no position reaches).

* **`CombinerProofs`**: type correctness, `SingleOwner`, `NoPassOnDeadObject` and
  `NoOrphanedSignal`. Mutual exclusion alone is not inductive: the strengthening ties
  the word to ownership (`Head` is 0 exactly when a live object has no owner), says that
  only a thread in its run holds captured entries, and that a dead object keeps a
  non-zero word until `initObjectRoot` clears it.
  Its second part shows that `Combiner` implements `Mailbox`. The pending entries are
  the captured chain followed by the reversed word; a push at the newest end is an
  append, OR-ing tags changes the last entry. The lemmas are about `Reversed`, `Tail`
  and `\o`.
* **`ConcurrentQueueProofs`**: the queue implements `Handoff` and keeps the order of each
  producer and of its cursors (`HandsOverOnce`), and it answers "empty" in front of a
  finished push only behind an unfinished one (`EmptyOnlyBehindAPush`), for any number
  of threads, rings and pushes, with any threads loading stale cursors and any
  consumers watched.
  - `HandsOverOnce` needs to know what a sequence number means. The invariant `QueueInv`
    (`ConcurrentQueueInvariant`) says it for the window of a ring, the `Size(p)` positions
    from `dequeuePos` on (`RingOK`, `CellOK`): a claimed position has a producer that is
    about to publish it, or it is published; an unclaimed one is free, or the consumer
    that claimed it a lap before has still to free it. Two positions of a window
    never share a cell (`IndexFacts`), so the two conditions do not meet.
  - A cell has one writer or one reader (`ProducerOK`, `ConsumerOK`): a claim that
    succeeds finds the sequence number it saw before, because nobody but the holder of
    the position changes it.
  - A ring behind the read cursor is sealed, one above the write cursor unused
    (`Cursors`); the CAS that seals finds `enqueuePos` at a value that
    `dequeuePos` has reached, so that a sealed ring holds nothing but what readers hold. The stale
    load of a cursor only returns a ring the thread may find full or drained again.
  - `ValuesOK` and `OrderOK` follow the values: what is published and not taken is held by
    exactly one position, the positions of a producer's values are ordered as its pushes,
    and what a pop has claimed is closed under earlier pushes of the same producer.
  - `QueueInv` was also checked by TLC on the instance of `queue` before it was proved.
    `ConcurrentQueueInvariant` has the arithmetic and the steps of a push,
    `ConcurrentQueuePop` the steps of a pop that write, `ConcurrentQueueProofs` the rest,
    the initial state and the theorems.
* **`CoroutineProofs`**: one runner, no touch after free, the assertion in
  `coroutineYield`. The invariant is the exact value of the counter for each phase
  of the runner, with the wakeup outstanding or delivered.
* **`EventLoopProofs`**: `SleepersHaveNothingToDo`, `EntryFindsASlot`,
  `SlotsArePrivate`. Three arguments: (1) queued operations have an audible doorbell, a
  thread that owes one, or a thread that will look before it sleeps; (2) the same for
  the request to quit, where the counter equals the number of counted threads, so
  that the last one out leaves no sleeper; (3) at most `loopThreadLimit - k` threads are
  at slot `k` or beyond, because a thread passes a slot only while another one holds it.
* **`TimerWheelProofs`**: `NeverEarly` and `HeldOnce`, for any wheel, any number of loop
  threads and timers, an unbounded clock and any deadlines.
  - The invariant `IInv` (`TimerWheelInvariant`) says what a slot stands for: one
    window of its level, the next one in its rotation that is not visited
    (`Windows`: aligned, not behind the cursor, at most a period ahead of it and less
    than a period ahead of the clock).
  - A sweeper works on a tick that is over and not ahead of the cursor; the
    levels it has behind it are reopened, and the pair it saw is not newer than the one
    in the slot (`Sweepers`). So a pair CAS that succeeds finds the window of exactly the
    cursor's tick, and a tick is confirmed only when no slot has its base there: the
    cursor never overtakes a slot.
  - An insert routes from a position that the sweep has reached (`Reached`), because it
    loads the cursor itself (`LoadStep`), whatever happened since its deadline was
    computed (`ArmStep`). If the slot
    it chose stands for another window than it meant, windows of one slot being a
    period apart (`WindowsApart`), the meant one has been visited, so that the deadline
    of a refused timer is over, and re-routing from its base is again routing from a
    reached position.
  - `Apart`, `Kept` and `InTime` carry the places of the timers along.
  - `TimerWheelInvariant` has the arithmetic, the initial state and the visit of a slot,
    `TimerWheelProofs` the drain, the other steps and the theorems.
  - The provers know nothing of `^`. `PowersAssumption` names the four facts about
    powers of `SLOTS` that are used; they are true for all `SLOTS` and `LEVELS` of at
    least 2, and TLC evaluates them on the instance.

Only model-checked: everything about `AioObject` and `UserEvent`, whose invariants range
over the whole of an object's life and are not yet written down in inductive form; the
protocols and the codecs (their parsers are recursive, and recursion over data is outside
the prover's reach); `SleepersCoverTimers`; and every liveness property, such as
`EverythingDelivered` (fairness and `ENABLED` are outside it too).

## 6. A disagreement between code and comment

`aio_composite_delete`: one pass of the combiner reads `DeletePending` twice. If
`objectDelete` falls between the read in `combinerDispatch` (`asyncioImpl.c:692`) and the
one in `executeOperationList` (`asyncioImpl.c:509`), the pass consumes the progress
signal of a composite operation without running it. The sweep that follows marks it
as cancelling and waits for a child that has already reported. The comment at
`asyncioImpl.c:690` promises that the signal is paired with the sweep.

## 7. Not modelled

* **IOCP**: a proactor, which needs a model of the Windows kernel's completion packets
  and cancellation, and second versions of all handlers of `AioObject`. Fibers of
  Windows likewise.
* **RLPx** (`rlpx.cpp`): an unfinished stub by its own comment.
* **accept, datagrams, devices**: their executors are single calls without partial
  results; how such an operation is parked, cancelled and delivered is in `AioObject`.
  The coroutine wrappers (`io*`) combine a call with `coroutineYield`.
* **Allocation**: pools are sets of cells; failures of `malloc` are modelled in
  `HeaderTable` and `sslSocketNew`, those of rings, timer links and `copyFromOut` are left
  out, and so is the teardown of a base with its wheel.
* **`dynamicBuffer`**: a growable array without a protocol. **Generated token tables**
  are data; the table that is built at run time is in `HeaderTable`.
* The wrap of the 22-bit generation in a kernel envelope: it takes four million reuses
  of one cell behind one delayed event.
* Context-switch assembly, atomics wrappers, examples and MSVC shims have no protocol
  state of their own.
