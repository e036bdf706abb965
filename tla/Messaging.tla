------------------------------ MODULE Messaging ------------------------------
(***************************************************************************)
(* The two message protocols over one connection: two peers that both run   *)
(* the library, or a peer that runs it against foreign bytes.  A scenario   *)
(* fixes the protocol, the sockets' parameters and the calls each lane's    *)
(* user makes; foreign bytes are a write already in flight.  This module    *)
(* says what the calls of such a scenario may return.                       *)
(***************************************************************************)
EXTENDS Btc, Zmtp

-----------------------------------------------------------------------------
Struck == {Failed("aosTimeout"), Failed("aosCanceled"), Failed("aosDisconnected"), Failed("aosUnknownError")}

(* The results of the receives of peer q, the handshake's left out. *)
Receives(q) ==
  LET all == done[<<q, "read">>]
  IN  IF protocol.calls[<<q, "read">>] # <<>> /\ protocol.calls[<<q, "read">>][1].kind = "accept" /\ all # <<>>
        THEN Tail(all) ELSE all

Limits(q) == SelectSeq(protocol.calls[<<q, "read">>], LAMBDA c : c.kind = "recv")
Sends(q) == SelectSeq(protocol.calls[<<q, "write">>], LAMBDA c : c.kind = "send")

(* The frames that reach the reader of peer q: foreign ones, or those of    *)
(* the other peer's sends that fit a header.                                *)
BtcFrames(q) ==
  LET fits(call) == Len(call.payload) <= BtcLengthMax
      sent       == SelectSeq(Sends(Other(q)), fits)
  IN  IF protocol.frames # <<>> THEN protocol.frames
      ELSE [i \in DOMAIN sent |->
              [magic |-> sock[Other(q)].magic, command |-> copyCommand(sent[i].command),
               payload |-> sent[i].payload, intact |-> TRUE]]

(* What peer q's receives ought to return: the verdict on each frame or     *)
(* message the other peer sends, in order.                                  *)
Verdicts(q) ==
  LET frames == IF protocol.name = "zmtp" THEN ZmtpMessages(Sends(Other(q))) ELSE BtcFrames(q)
  IN  [i \in 1..Min({Len(frames), Len(Limits(q))}) |->
         IF protocol.name = "zmtp" THEN ZmtpExpected(frames[i], Limits(q)[i].limit)
         ELSE BtcExpected(frames[i], Limits(q)[i].limit, sock[q].magic)]

(* The i-th receive of peer q need not begin at a message: one before it    *)
(* ended inside of one, or a send was interrupted.                          *)
OutOfStep(q, i) ==
  \/ \E j \in 1..(i - 1) : Receives(q)[j].status \notin InStep
  \/ \E r \in Range(done[<<Other(q), "write">>]) : r \in Struck

(* What a receive returns that does not begin at a message: a reason to     *)
(* refuse, or a message within its limit.                                   *)
Recovers(q, i) ==
  LET r == Receives(q)[i]
  IN  IF r.status = "aosSuccess" THEN Len(r.message.payload) <= Limits(q)[i].limit
      ELSE r.status \in Range(BtcReasons)

(* The messages peer q accepted, and those it may accept. *)
Accepted(q) ==
  LET succeeds(r) == r.status = "aosSuccess"
      ok          == SelectSeq(Receives(q), succeeds)
  IN  [i \in DOMAIN ok |-> ok[i].message]
Acceptable(q) ==
  LET sound(f) == BtcExpected(f, BtcLengthMax, sock[q].magic).status = "aosSuccess"
      ok       == SelectSeq(BtcFrames(q), sound)
  IN  [i \in DOMAIN ok |-> [command |-> ok[i].command, payload |-> ok[i].payload]]

(* s is t with some elements left out. *)
IsSubsequence(s, t) ==
  \E kept \in SUBSET DOMAIN t : s = FlattenSeq([i \in DOMAIN t |-> IF i \in kept THEN <<t[i]>> ELSE <<>>])

(* Every receive returns what the other side passed to its send, in order,  *)
(* or the first reason to refuse it, wherever reads and writes had to wait, *)
(* whichever calls ran in place and whatever the read-ahead buffer held;    *)
(* the caller's buffer, reused once a send returns, is never what is sent.  *)
(* A user of the Bitcoin socket may call again after any failure: a message *)
(* refused or cut short may cost later ones, but what is accepted then is   *)
(* still a whole message as it was sent, none twice and in order.           *)
DeliveredAsSent ==
  protocol.name \in {"btc", "zmtp"} => \A q \in Peers :
    /\ \A i \in DOMAIN Receives(q) :
         \/ i \in DOMAIN Verdicts(q) /\ Receives(q)[i] = Verdicts(q)[i]
         \/ faults > 0 /\ Receives(q)[i] \in Struck
         \/ protocol.goesOn /\ OutOfStep(q, i) /\ Recovers(q, i)
    /\ protocol.name = "btc" => IsSubsequence(Accepted(q), Acceptable(q))

Waits(p) ==
  \/ run[p].mode = "idle" /\ todo[p] = <<>>
  \/ run[p].mode = "idle" /\ protocol.name = "zmtp" /\ Shaking(p[1]) /\ Next_(p) \notin Handshake
  \/ Parked(p, "read") /\ kernel[p[1]] = <<>>

AtRest == \A p \in Lanes : Waits(p)

(* When nothing moves any more and no fault struck, every message sent has  *)
(* been received: no frame is stuck in a kernel or a read-ahead buffer      *)
(* while its reader sleeps, and the two sides of a handshake never wait for *)
(* each other unless one of them has refused.                               *)
NobodyStalls ==
  (protocol.name \in {"btc", "zmtp"} /\ AtRest /\ faults = 0) =>
     \/ \E p \in Lanes, r \in {"aosUnknownError"} \union Range(BtcReasons) : Failed(r) \in Range(done[p])
     \/ /\ \A q \in Peers : Len(Receives(q)) = Len(Verdicts(q))
        /\ \A q \in Peers : ~Shaking(q)

(* The pairs 23/ZMTP allows, each named once. *)
Pairs == {{"REQ", "REP"}, {"REQ", "ROUTER"}, {"DEALER", "REP"}, {"DEALER"}, {"DEALER", "ROUTER"}, {"ROUTER"},
          {"PUB", "SUB"}, {"PUB", "XSUB"}, {"XPUB", "SUB"}, {"XPUB", "XSUB"}, {"PUSH", "PULL"}, {"PAIR"}}

Shaken(p) == protocol.calls[p] # <<>> /\ protocol.calls[p][1].kind \in Handshake /\ done[p] # <<>>

(* A handshake succeeds only between socket types that may talk to each     *)
(* other and only with a peer that sent a READY command; if either side     *)
(* refuses, without a fault, the other side does not succeed.               *)
HandshakesAgree ==
  protocol.name = "zmtp" =>
    /\ \A p \in Lanes : Shaken(p) /\ done[p][1] = Ok =>
          {sock["A"].type, sock["B"].type} \in Pairs /\ protocol.wellFormed
    /\ \A p, r \in Lanes : (Shaken(p) /\ Shaken(r) /\ faults = 0) => done[p][1] = done[r][1]
=============================================================================
