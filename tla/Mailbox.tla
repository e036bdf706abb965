------------------------------ MODULE Mailbox ------------------------------
(***************************************************************************)
(* What the combiner promises its callers: a mailbox of entries that one   *)
(* thread at a time serves in the order they were posted.  A signal may be *)
(* merged into the newest entry that nobody has taken yet, never into an   *)
(* older one: that is what makes cancelIo positional.                      *)
(***************************************************************************)
EXTENDS Naturals, Sequences

CONSTANTS Threads, Ops, NoOp, Signals

VARIABLES
  inbox,    \* posted entries, oldest first
  server,   \* the threads serving it: none or one
  claimed   \* the server has not yet posted what it claimed the mailbox for

vars == <<inbox, server, claimed>>

Tags == Signals \cup {"DELETE"}

Init == inbox = <<>> /\ server = {} /\ claimed = FALSE

\* Posting to an unserved mailbox makes the poster its server.
Serve(t) == server' = IF server = {} THEN {t} ELSE server

Post(t, op) ==
  /\ inbox' = Append(inbox, [op |-> op, tags |-> {}])
  /\ Serve(t)
  /\ UNCHANGED claimed

Signal(t, tags) ==
  /\ \/ inbox' = Append(inbox, [op |-> NoOp, tags |-> tags])
     \/ /\ inbox # <<>>
        /\ inbox' = [inbox EXCEPT ![Len(inbox)] =
                      [op |-> @.op, tags |-> @.tags \cup tags]]
  /\ Serve(t)
  /\ UNCHANGED claimed

\* Serving without posting: the optimistic synchronous attempt.
Claim(t) ==
  /\ server = {}
  /\ server' = {t}
  /\ claimed' = TRUE
  /\ UNCHANGED inbox

\* The claimant goes first: its entry precedes all that was posted since.
PostClaimed(op) ==
  /\ claimed
  /\ claimed' = FALSE
  /\ inbox' = <<[op |-> op, tags |-> {}]>> \o inbox
  /\ UNCHANGED server

\* The synchronous attempt left nothing to post.
DropClaim ==
  /\ claimed
  /\ claimed' = FALSE
  /\ UNCHANGED <<inbox, server>>

Take ==
  /\ server # {}
  /\ ~claimed
  /\ inbox # <<>>
  /\ \/ /\ "DELETE" \notin Head(inbox).tags
        /\ inbox' = Tail(inbox)
        /\ UNCHANGED server
     \/ /\ "DELETE" \in Head(inbox).tags
        /\ inbox' = <<>>
        /\ server' = {}
  /\ UNCHANGED claimed

Leave ==
  /\ server # {}
  /\ ~claimed
  /\ inbox = <<>>
  /\ server' = {}
  /\ UNCHANGED <<inbox, claimed>>

Next ==
  \/ \E t \in Threads, op \in Ops : Post(t, op)
  \/ \E t \in Threads, tags \in SUBSET Tags : Signal(t, tags)
  \/ \E t \in Threads : Claim(t)
  \/ \E op \in Ops : PostClaimed(op)
  \/ DropClaim
  \/ Take
  \/ Leave

Spec == Init /\ [][Next]_vars
=============================================================================
