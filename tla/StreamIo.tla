------------------------------ MODULE StreamIo ------------------------------
(***************************************************************************)
(* Reads and writes on the plain stream socket a protocol object owns       *)
(* (ioInternal.c, and the executors of reactor.h that epoll and kqueue      *)
(* share), together with the composite operation that drives them.          *)
(*                                                                          *)
(* A protocol operation runs its start procedure under the combiner of its  *)
(* object.  The procedure calls implRead or implWrite; the call completes   *)
(* in place, or it leaves a child operation parked on the plain socket and  *)
(* the procedure returns aosPending.  The child's callback is resumeParent, *)
(* which runs the procedure again from the state it saved, or finishes the  *)
(* parent with the child's status.                                          *)
(*                                                                          *)
(* Bytes are abstracted to cells <<tag, value>>; a field of fixed size is   *)
(* one cell or a few.  Two peers "A" and "B" share a connection; each has a *)
(* "read" and a "write" lane, which run concurrently.  Four lanes in all:   *)
(* a lane is a pair <<peer, direction>>.                                    *)
(***************************************************************************)
EXTENDS Naturals, Sequences, FiniteSets, SequencesExt, FiniteSetsExt

VARIABLES
  protocol,     \* the scenario: what the peers speak, with which parameters,
                \* protocol.maxFaults bounding the faults that may strike and
                \* protocol.goesOn saying that users call again after a failure
  sock,         \* sock[q]: the fields of peer q's protocol object
  kernel,       \* kernel[q]: cells the kernel holds for peer q
  sb,           \* sb[q]: cells in the read-ahead buffer of peer q's socket
  totalSize,    \* sb.totalSize, the same for both peers
  run,          \* run[p]: the operation lane p executes
  todo,         \* todo[p]: the calls lane p's user has still to make
  done,         \* done[p]: the results lane p's calls returned, in order
  broken,       \* the connection is gone
  faults        \* faults that have struck

ioVars == <<protocol, sock, kernel, sb, totalSize, run, todo, done, broken, faults>>

Peers == {"A", "B"}
Lanes == Peers \X {"read", "write"}
Other(q) == IF q = "A" THEN "B" ELSE "A"
OtherLane(p) == <<p[1], IF p[2] = "read" THEN "write" ELSE "read">>

NoChild == [kind |-> "none", n |-> 0, all |-> TRUE, cells |-> <<>>]

(***************************************************************************)
(* A lane's operation: mode "idle"; "inline" while the caller's own call    *)
(* runs the impl procedure; "start" while the start procedure runs; or      *)
(* "parked" on a child.  got holds what the last read delivered, v the      *)
(* fields the protocol keeps in its operation.                              *)
(***************************************************************************)
Idle == [mode |-> "idle", st |-> "stInitialize", child |-> NoChild, got |-> <<>>, v |-> <<>>]

Drop(s, n) == SubSeq(s, n + 1, Len(s))
Take(s, n) == SubSeq(s, 1, n)

-----------------------------------------------------------------------------
(* The read-ahead buffer *)

(* copyFromBuffer: fill have up to n from buf; a buffer that does not       *)
(* suffice is emptied.                                                      *)
copyFromBuffer(have, buf, n) ==
  LET need == n - Len(have)
  IN  IF need <= Len(buf)
        THEN [full |-> TRUE, data |-> have \o Take(buf, need), buf |-> Drop(buf, need)]
        ELSE [full |-> FALSE, data |-> have \o buf, buf |-> <<>>]

(* The refill loop of implRead and readSyscall: read up to total cells into *)
(* the buffer, copy, and go on while the read filled the buffer.  A short   *)
(* read leaves the operation waiting without another system call.           *)
RECURSIVE refill(_, _, _, _, _)
refill(have, k, total, n, all) ==
  LET bytes == Min({total, Len(k)})
      c     == copyFromBuffer(have, Take(k, bytes), n)
      rest  == Drop(k, bytes)
  IN  IF bytes = 0
        THEN [ready |-> FALSE, data |-> have, sb |-> <<>>, kernel |-> k]
      ELSE IF c.full \/ ~all
        THEN [ready |-> TRUE, data |-> c.data, sb |-> c.buf, kernel |-> rest]
      ELSE IF bytes = total
        THEN refill(c.data, rest, total, n, all)
      ELSE [ready |-> FALSE, data |-> c.data, sb |-> <<>>, kernel |-> rest]

(* A read straight into the caller's buffer, taken when the request is too  *)
(* large for the read-ahead buffer.                                         *)
direct(have, k, n, all) ==
  LET bytes == Min({n - Len(have), Len(k)})
      data  == have \o Take(k, bytes)
  IN  [ready |-> IF all THEN Len(data) = n ELSE bytes > 0,
       data |-> data, sb |-> <<>>, kernel |-> Drop(k, bytes)]

(* What one attempt to read n cells does: buffered cells first, and a       *)
(* partial hit is enough unless the caller waits for all; then the kernel.  *)
attempt(have, buf, k, n, all, buffered) ==
  LET c == copyFromBuffer(have, buf, n)
  IN  IF c.full \/ (c.data # <<>> /\ ~all)
        THEN [ready |-> TRUE, data |-> c.data, sb |-> c.buf, kernel |-> k]
      ELSE IF buffered
        THEN refill(c.data, k, totalSize, n, all)
      ELSE direct(c.data, k, n, all)

-----------------------------------------------------------------------------
(* The calls a start procedure makes.  They leave sock to the procedure.    *)

Running(p) == run[p].mode \in {"inline", "start"}

(* implRead: in place, or a parked child that already holds what the call   *)
(* could collect.  next is the state the procedure saved before the call.   *)
implRead(p, n, all, next, v) ==
  LET q == p[1]
      r == attempt(<<>>, sb[q], kernel[q], n, all, n < totalSize)
  IN  /\ kernel' = [kernel EXCEPT ![q] = r.kernel]
      /\ sb' = [sb EXCEPT ![q] = r.sb]
      /\ run' = [run EXCEPT ![p] =
                   IF r.ready
                     THEN [@ EXCEPT !.st = next, !.got = r.data, !.v = v]
                     ELSE [@ EXCEPT !.mode = "parked", !.st = next, !.v = v,
                            !.child = [kind |-> "read", n |-> n, all |-> all, cells |-> r.data]]]
      /\ UNCHANGED <<protocol, totalSize, todo, done, broken, faults>>

(* implWrite: the socket takes some of the cells; a child owns a copy of    *)
(* the rest (newAsyncOp copies the payload of a child, which is never       *)
(* started with afNoCopy).                                                  *)
implWrite(p, cells, next, v) ==
  /\ \E k \in 0..Len(cells) :
       /\ broken => (k = 0)
       /\ kernel' = [kernel EXCEPT ![Other(p[1])] = @ \o Take(cells, k)]
       /\ run' = [run EXCEPT ![p] =
                    IF k = Len(cells)
                      THEN [@ EXCEPT !.st = next, !.v = v]
                      ELSE [@ EXCEPT !.mode = "parked", !.st = next, !.v = v,
                             !.child = [kind |-> "write", n |-> Len(cells), all |-> TRUE,
                                        cells |-> Drop(cells, k)]]]
  /\ UNCHANGED <<protocol, sb, totalSize, todo, done, broken, faults>>

(* aioConnect from a start procedure: the child is submitted to the plain   *)
(* socket and the procedure returns aosPending at once.                     *)
aioConnect(p, next, v) ==
  /\ run' = [run EXCEPT ![p] = [@ EXCEPT !.mode = "parked", !.st = next, !.v = v,
                                         !.child = [NoChild EXCEPT !.kind = "connect"]]]
  /\ UNCHANGED <<protocol, kernel, sb, totalSize, todo, done, broken, faults>>

(* A step of the procedure that only moves its own state. *)
Goto(p, next, v) ==
  /\ run' = [run EXCEPT ![p] = [@ EXCEPT !.st = next, !.v = v]]
  /\ UNCHANGED <<protocol, kernel, sb, totalSize, todo, done, broken, faults>>

(* The statuses after which the stream is still in step, so that the next   *)
(* call finds the beginning of a message.                                   *)
InStep == {"aosSuccess", "btcInvalidChecksum"}

(* What peer q's user still means to call after a failure: everything where *)
(* the scenario says so, otherwise nothing, for the connection is given up. *)
AfterFailure(q) ==
  IF protocol.goesOn THEN todo ELSE [p \in Lanes |-> IF p[1] = q THEN <<>> ELSE todo[p]]

(* The operation finishes. *)
Return(p, result) ==
  /\ run' = [run EXCEPT ![p] = Idle]
  /\ done' = [done EXCEPT ![p] = Append(@, result)]
  /\ todo' = IF result.status \in InStep THEN todo ELSE AfterFailure(p[1])
  /\ UNCHANGED <<protocol, kernel, sb, totalSize, broken, faults>>

-----------------------------------------------------------------------------
(* What the event loop does for a parked child *)

Child(p) == run[p].child
Parked(p, kind) == run[p].mode = "parked" /\ Child(p).kind = kind

(* resumeParent(aosSuccess): the start procedure runs again. *)
Resumed(p, data) ==
  run' = [run EXCEPT ![p] = [@ EXCEPT !.mode = "start", !.child = NoChild, !.got = data]]

(* readSyscall: the executor of a parked read, once the kernel reports the  *)
(* socket readable.                                                         *)
readSyscall(p) ==
  LET q == p[1]
      r == attempt(Child(p).cells, sb[q], kernel[q], Child(p).n, Child(p).all, Child(p).n <= totalSize)
  IN  /\ Parked(p, "read")
      /\ kernel[q] # <<>>
      /\ kernel' = [kernel EXCEPT ![q] = r.kernel]
      /\ sb' = [sb EXCEPT ![q] = r.sb]
      /\ IF r.ready
           THEN Resumed(p, r.data)
           ELSE run' = [run EXCEPT ![p].child.cells = r.data]
      /\ UNCHANGED <<protocol, totalSize, todo, done, broken, faults>>

(* epollAsyncWrite: the executor of a parked write; transferStatus keeps it *)
(* pending until every cell is out.                                         *)
writeSyscall(p) ==
  /\ Parked(p, "write")
  /\ ~broken
  /\ \E k \in 1..Len(Child(p).cells) :
       /\ kernel' = [kernel EXCEPT ![Other(p[1])] = @ \o Take(Child(p).cells, k)]
       /\ IF k = Len(Child(p).cells)
            THEN Resumed(p, <<>>)
            ELSE run' = [run EXCEPT ![p].child.cells = Drop(@, k)]
  /\ UNCHANGED <<protocol, sb, totalSize, todo, done, broken, faults>>

(* connectSyscall, run again when the socket becomes writable: the pending  *)
(* connect has succeeded.                                                   *)
connectSyscall(p) ==
  /\ Parked(p, "connect")
  /\ ~broken
  /\ Resumed(p, <<>>)
  /\ UNCHANGED <<protocol, kernel, sb, totalSize, todo, done, broken, faults>>

Ok == [status |-> "aosSuccess", message |-> <<>>]
Failed(status) == [status |-> status, message |-> <<>>]

(* The child ends with an error and resumeParent finishes the parent with   *)
(* the same status: end of file once the kernel holds nothing, a failed     *)
(* write, or a connect that finds SO_ERROR set.                             *)
childFails(p) ==
  /\ broken
  /\ Parked(p, "read") => kernel[p[1]] = <<>>
  /\ run[p].mode = "parked"
  /\ Return(p, Failed(IF Parked(p, "connect") THEN "aosUnknownError" ELSE "aosDisconnected"))

(* The parent's own timeout: its cancel procedure is cancelIo on the plain  *)
(* socket, which cancels the child of the other lane too.                   *)
timeout(p) ==
  /\ run[p].mode = "parked"
  /\ faults < protocol.maxFaults
  /\ faults' = faults + 1
  /\ LET other == OtherLane(p)
         hit   == run[other].mode = "parked"
     IN  /\ run' = [run EXCEPT ![p] = Idle, ![other] = IF hit THEN Idle ELSE @]
         /\ done' = [done EXCEPT ![p] = Append(@, Failed("aosTimeout")),
                                 ![other] = IF hit THEN Append(@, Failed("aosCanceled")) ELSE @]
  /\ todo' = AfterFailure(p[1])
  /\ UNCHANGED <<protocol, kernel, sb, totalSize, broken>>

(* The connection breaks; what the kernel already holds can still be read. *)
disconnect ==
  /\ ~broken
  /\ faults < protocol.maxFaults
  /\ faults' = faults + 1
  /\ broken' = TRUE
  /\ UNCHANGED <<protocol, kernel, sb, totalSize, run, todo, done>>

(* The user makes the next call of the lane.  It runs in place when the     *)
(* lane is free, or is queued and started later; by then it has returned.   *)
Submit(p, modes, v(_, _)) ==
  /\ run[p].mode = "idle"
  /\ todo[p] # <<>>
  /\ \E mode \in modes :
       run' = [run EXCEPT ![p] = [Idle EXCEPT !.mode = mode, !.v = v(mode, Head(todo[p]))]]
  /\ todo' = [todo EXCEPT ![p] = Tail(@)]
  /\ UNCHANGED <<protocol, kernel, sb, totalSize, done, broken, faults>>

Io ==
  /\ \/ \E p \in Lanes : readSyscall(p) \/ writeSyscall(p) \/ connectSyscall(p) \/ childFails(p) \/ timeout(p)
     \/ disconnect
  /\ UNCHANGED sock

(* A scenario fixes the protocol, the objects' fields, the calls of each    *)
(* lane's user and the sizes of the read-ahead buffer to try; its foreign   *)
(* cells, if any, are a write of A's already in flight.                     *)
IoInit(Scenarios) ==
  /\ protocol \in Scenarios
  /\ sock = protocol.sock
  /\ kernel = [q \in Peers |-> <<>>]
  /\ sb = [q \in Peers |-> <<>>]
  /\ totalSize \in protocol.totals
  /\ run = [p \in Lanes |->
              IF p = <<"A", "write">> /\ protocol.foreign # <<>>
                THEN [Idle EXCEPT !.mode = "parked", !.st = "stFinished", !.v = protocol.foreignOp,
                                  !.child = [NoChild EXCEPT !.kind = "write", !.cells = protocol.foreign]]
                ELSE Idle]
  /\ todo = protocol.calls
  /\ done = [p \in Lanes |-> <<>>]
  /\ broken = FALSE
  /\ faults = 0
=============================================================================
