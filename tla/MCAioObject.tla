---------------------------- MODULE MCAioObject -----------------------------
(* Small instances of AioObject for TLC. *)
EXTENDS AioObject, TLC

\* Every set of profiles below is closed under permutations of the operations.
Symmetry == Permutations(Ops)

Use(kind, ops, dirs, calls, timed, inits, objects, cells) ==
  [kind |-> kind, ops |-> ops, dirs |-> dirs, calls |-> calls, timed |-> timed, realtime |-> {}, inits |-> inits,
   objects |-> objects, cells |-> cells]

Realtime(use) == [use EXCEPT !.realtime = use.timed]

\* Submissions on a socket, one with a timeout; with connect and cancelIo among them;
\* and accept and datagrams, which are pushed running or finished.  The filters of
\* kqueue are armed separately, so there both directions are in use.
Descriptors ==
  {Use("epoll", Ops, {"READ"}, {"acquire", "push", "delete"}, {o}, {FALSE}, 1, 1) : o \in Ops}
  \cup {Use("epoll", Ops, {"READ"}, {"acquire", "push", "cancelIo", "delete"}, {}, BOOLEAN, 1, 1),
        Use("epoll", Ops, Directions, {"started", "finished", "delete"}, {}, {FALSE}, 1, 1),
        Use("kqueue", Ops, Directions, {"acquire", "delete"}, {}, {FALSE}, 1, 1)}

\* What comes late: links and events of an earlier use of the storage, and the
\* child's report of a composite operation, also of a handshake.
Late ==
  {Use("epoll", {o}, {"READ"}, {"acquire", "delete"}, {o}, {FALSE}, 2, 2) : o \in Ops}
  \cup {Realtime(Use("kqueue", {o}, {"READ"}, {"acquire", "delete"}, {o}, {FALSE}, 2, 2)) : o \in Ops}
  \cup {Use("composite", Ops, {"READ"}, {"push", "delete"}, {o}, BOOLEAN, 1, 1) : o \in Ops}
  \cup {Use("composite", Ops, {"READ"}, {"acquire", "push", "cancelIo", "delete"}, {}, {FALSE}, 1, 1)}

\* For liveness one operation at a time.
Single ==
  {Use("epoll", Ops, {"READ"}, {"acquire", "delete"}, Ops, {FALSE}, 1, 1),
   Use("composite", Ops, {"READ"}, {"push", "cancelIo"}, Ops, {FALSE}, 1, 2)}

DeletedComposite == {Use("composite", Ops, {"READ"}, {"acquire", "delete"}, {}, {FALSE}, 1, 1)}
=============================================================================
