-------------------------------- MODULE Zmtp --------------------------------
(***************************************************************************)
(* The ZMTP 3.0 socket (asyncioextras/zmtp.cpp, zmtpProto.h): a handshake    *)
(* in which the connecting and the accepting side exchange signature,       *)
(* version, greeting and READY command in lock step, and then messages of   *)
(* one or more frames.                                                      *)
(***************************************************************************)
EXTENDS StreamIo

CONSTANTS
  ShortMax,     \* the largest payload a one-byte length describes (255), in cells
  SendBuffer    \* sizeof(sendBuffer), in cells

SocketTypes == {"REQ", "REP", "DEALER", "ROUTER", "PUB", "XPUB", "SUB", "XSUB", "PUSH", "PULL", "PAIR"}

zmtpValidPeers ==
  [t \in SocketTypes |->
    CASE t = "REQ" -> {"REP", "ROUTER"}
      [] t = "REP" -> {"REQ", "DEALER"}
      [] t = "DEALER" -> {"REP", "DEALER", "ROUTER"}
      [] t = "ROUTER" -> {"REQ", "DEALER", "ROUTER"}
      [] t \in {"PUB", "XPUB"} -> {"SUB", "XSUB"}
      [] t \in {"SUB", "XSUB"} -> {"PUB", "XPUB"}
      [] t = "PUSH" -> {"PULL"}
      [] t = "PULL" -> {"PUSH"}
      [] t = "PAIR" -> {"PAIR"}]

(* REQ accepts only REP, although ROUTER accepts REQ. *)
zmtpPeerCompatibleOneWay(type, peerType) ==
  peerType \in zmtpValidPeers[type] /\ <<type, peerType>> # <<"REQ", "ROUTER">>

(* A name that is no socket type is compatible with nothing. *)
zmtpPeerCompatible(type, peerType) == peerType \in zmtpValidPeers[type]

Type(p) == sock[p[1]].type

-----------------------------------------------------------------------------
(* Frames *)

(* zmtpMsgTypeFor: the flags of a frame. *)
zmtpMsgTypeFor(userType, size) ==
  (CASE userType = "zmtpCommand" -> {"command"}
     [] userType = "zmtpMessagePart" -> {"more"}
     [] OTHER -> {})
  \union (IF size <= ShortMax THEN {} ELSE {"long"})

(* One byte of length for a short frame, eight for a long one, of which the *)
(* first travels with the flags.                                            *)
FrameHeader(flags, size) ==
  IF "long" \in flags
    THEN <<<<"flags", flags>>, <<"length", 0>>, <<"length", size>>>>
    ELSE <<<<"flags", flags>>, <<"length", size % (ShortMax + 1)>>>>

(* zmtpFrameLength, from the header cells read last. *)
zmtpFrameLength(flags, got) ==
  LET cell == IF "long" \in flags THEN got[1] ELSE got[2]
  IN  IF cell[1] = "length" THEN cell[2] ELSE 0

(* zmtpBuildSendHeader: a REQ or REP socket opens every message with an     *)
(* empty delimiter frame.                                                   *)
zmtpBuildSendHeader(type, needSendMore, flags, size) ==
  (IF "command" \notin flags /\ type \in {"REQ", "REP"} /\ ~needSendMore
     THEN FrameHeader({"more"}, 0) ELSE <<>>)
  \o FrameHeader(flags, size)

(* writeReadyCmd; connect sends an empty identity, accept none. *)
writeReadyCmd(type, identity) ==
  <<<<"name", "READY">>, <<"Socket-Type", type>>>>
    \o (IF identity THEN <<<<"Identity", "">>>> ELSE <<>>)

(* readReadyCmd: the command's name, and the last Socket-Type property      *)
(* ("none" when it is no READY command or the property is missing).         *)
readReadyCmd(cells) ==
  LET typed == {i \in DOMAIN cells : cells[i][1] = "Socket-Type"}
  IN  IF cells = <<>> \/ Head(cells) # <<"name", "READY">> \/ typed = {}
        THEN "none" ELSE cells[Max(typed)][2]

-----------------------------------------------------------------------------
(* Receiving *)

ZmtpRecvOp(mode, call) ==
  [call |-> call, flags |-> {}, transferred |-> 0, message |-> <<>>, waiting |-> FALSE]

(* The message with the payload the last read delivered into the stream. *)
Collected(p) ==
  LET v == run[p].v
  IN  IF Len(v.message) < v.transferred THEN [v EXCEPT !.message = @ \o run[p].got] ELSE v

flagsOf(got) == IF got[1][1] = "flags" THEN got[1][2] ELSE {}

(* A frame draws from the budget the previous frames left. *)
frameFits(frameSize, limit, transferred) == frameSize <= limit - transferred

readFrame(p, v) ==
  LET size == zmtpFrameLength(v.flags, run[p].got)
  IN  IF ~frameFits(size, v.call.limit, v.transferred) THEN Return(p, Failed("aosBufferTooSmall"))
      ELSE implRead(p, size, TRUE, IF "more" \in v.flags THEN "stRecvReadType" ELSE "stFinished",
                    [v EXCEPT !.transferred = @ + size])

Complete(v) ==
  [status |-> "aosSuccess",
   message |-> [command |-> "command" \in v.flags, payload |-> v.message]]

(* startZmtpRecv, run by a receive operation and by a handshake that waits  *)
(* for READY.  Its last state belongs to the caller.                        *)
startZmtpRecv(p) ==
  LET v == run[p].v
  IN  /\ run[p].mode = "start"
      /\ v.call.kind = "recv" \/ v.waiting
      /\ \/ /\ run[p].st = "stInitialize"
            /\ Goto(p, "stRecvReadType", [v EXCEPT !.transferred = 0, !.message = <<>>])
         \/ /\ run[p].st = "stRecvReadType"
            /\ implRead(p, 2, TRUE, "stRecvReadSize", Collected(p))
         \/ /\ run[p].st = "stRecvReadSize"
            /\ LET flags == flagsOf(run[p].got)
               IN  IF "long" \in flags
                     THEN implRead(p, 1, TRUE, "stRecvReadData", [v EXCEPT !.flags = flags])
                     ELSE Goto(p, "stRecvReadData", [v EXCEPT !.flags = flags])
         \/ run[p].st = "stRecvReadData" /\ readFrame(p, v)
         \/ run[p].st = "stFinished" /\ ~v.waiting /\ Return(p, Complete(Collected(p)))

(* implZmtpRecvStream: the same frames read by the call itself. *)
implZmtpRecvStream(p) ==
  LET v == run[p].v
  IN  /\ run[p].mode = "inline" /\ v.call.kind = "recv"
      /\ \/ /\ run[p].st \in {"stInitialize", "stRecvReadType"}
            /\ implRead(p, 2, TRUE, "stRecvReadSize", Collected(p))
         \/ /\ run[p].st = "stRecvReadSize"
            /\ "long" \in flagsOf(run[p].got)
            /\ implRead(p, 1, TRUE, "stRecvReadData", [v EXCEPT !.flags = flagsOf(run[p].got)])
         \/ /\ run[p].st = "stRecvReadSize"
            /\ "long" \notin flagsOf(run[p].got)
            /\ readFrame(p, [v EXCEPT !.flags = flagsOf(run[p].got)])
         \/ run[p].st = "stRecvReadData" /\ readFrame(p, v)
         \/ run[p].st = "stFinished" /\ Return(p, Complete(Collected(p)))

-----------------------------------------------------------------------------
(* Sending *)

SendOpOf(call) == [call |-> call, captured |-> FALSE, waiting |-> FALSE]

(* newWriteAsyncOp: the operation owns a copy of the payload unless the     *)
(* caller keeps the buffer.                                                 *)
ZmtpCaptures(v) == [v EXCEPT !.captured = ~v.call.noCopy]

ZmtpSendOp(mode, call) ==
  IF mode = "start" THEN ZmtpCaptures(SendOpOf(call)) ELSE SendOpOf(call)

zmtpPayload(p) ==
  LET v == run[p].v
  IN  IF run[p].mode = "inline" \/ v.captured \/ v.call.noCopy THEN v.call.payload
      ELSE [i \in DOMAIN v.call.payload |-> <<"reused", i>>]

(* The capture skipped in both cases. *)
captureFlagsNever(v, state) == v

(* The operation implZmtpSend makes for a write that has to wait: once the  *)
(* payload is staged no capture is needed (afNoCopy), and only an operation *)
(* whose header is blocked still reads it.                                  *)
captureFlags(v, state) == IF state = "stWriteData" THEN ZmtpCaptures(v) ELSE v

sendHeader(p) ==
  LET call == run[p].v.call
  IN  zmtpBuildSendHeader(Type(p), sock[p[1]].needSendMore,
                          zmtpMsgTypeFor(call.type, Len(call.payload)), Len(call.payload))

(* zmtpBuildSendHeader remembers whether the message goes on. *)
headerBuilt(p) ==
  sock' = [sock EXCEPT ![p[1]].needSendMore = (run[p].v.call.type = "zmtpMessagePart")]

(* Header and payload in one write when they fit the buffer; otherwise the  *)
(* header first.                                                            *)
firstWrite(p, small, large) ==
  IF Len(zmtpPayload(p)) <= SendBuffer - Len(sendHeader(p))
    THEN implWrite(p, sendHeader(p) \o zmtpPayload(p), "stFinished", small)
    ELSE implWrite(p, sendHeader(p), "stWriteData", large)

(* startZmtpSend: the queued path. *)
startZmtpSend(p) ==
  LET v == run[p].v
  IN  /\ run[p].mode = "start" /\ v.call.kind = "send"
      /\ \/ run[p].st = "stInitialize" /\ firstWrite(p, v, v) /\ headerBuilt(p)
         \/ run[p].st = "stWriteData" /\ implWrite(p, zmtpPayload(p), "stFinished", v) /\ UNCHANGED sock
         \/ run[p].st = "stFinished" /\ Return(p, Ok) /\ UNCHANGED sock

(* implZmtpSend: the call itself writes. *)
implZmtpSend(p) ==
  LET v == run[p].v
  IN  /\ run[p].mode = "inline" /\ v.call.kind = "send"
      /\ \/ /\ run[p].st = "stInitialize"
            /\ firstWrite(p, captureFlags(v, "stFinished"), captureFlags(v, "stWriteData"))
            /\ headerBuilt(p)
         \/ /\ run[p].st = "stWriteData"
            /\ implWrite(p, zmtpPayload(p), "stFinished", captureFlags(v, "stFinished"))
            /\ UNCHANGED sock
         \/ run[p].st = "stFinished" /\ Return(p, Ok) /\ UNCHANGED sock

-----------------------------------------------------------------------------
(* The handshake *)

Signature == <<<<"signature", 255>>, <<"signature", 127>>>>
Version == <<<<"version", 3>>>>
Greeting == <<<<"greeting", "NULL">>>>

Reads(n, next) == [io |-> "read", n |-> n, cells |-> <<>>, next |-> next]
Writes(cells, next) == [io |-> "write", n |-> 0, cells |-> cells, next |-> next]

HandshakeOp(mode, call) ==
  [call |-> call, flags |-> {}, transferred |-> 0, message |-> <<>>, waiting |-> FALSE]

(* What the states of startZmtpAccept that examine nothing do. *)
acceptSteps ==
  [stInitialize                   |-> Reads(2, "stAcceptWriteLocalSignature"),
   stAcceptReadMajorVersion       |-> Reads(1, "stAcceptWriteLocalMajorVersion"),
   stAcceptWriteLocalMajorVersion |-> Writes(Version, "stAcceptReadMinorVersion"),
   stAcceptReadMinorVersion       |-> Reads(1, "stAcceptWriteLocalGreeting"),
   stAcceptWriteLocalGreeting     |-> Writes(Greeting, "stAcceptReadReadyMsg")]

(* The connecting side waits for the greeting before it sends its own. *)
connectStepsSwapped ==
  [stConnectWriteLocalSignature    |-> Writes(Signature, "stConnectReadSignature"),
   stConnectReadSignature          |-> Reads(2, "stConnectWriteLocalMajorVersion"),
   stConnectWriteLocalMajorVersion |-> Writes(Version, "stConnectReadMajorVersion"),
   stConnectReadMajorVersion       |-> Reads(1, "stConnectReadGreeting"),
   stConnectReadGreeting           |-> Reads(1, "stConnectWriteLocalGreeting"),
   stConnectWriteLocalGreeting     |-> Writes(Greeting, "stConnectWriteReadyMsg")]

(* What the states of startZmtpConnect that examine nothing do; the         *)
(* accepting side's signature is one of the things it does not examine.     *)
connectSteps ==
  [stConnectWriteLocalSignature    |-> Writes(Signature, "stConnectReadSignature"),
   stConnectReadSignature          |-> Reads(2, "stConnectWriteLocalMajorVersion"),
   stConnectWriteLocalMajorVersion |-> Writes(Version, "stConnectReadMajorVersion"),
   stConnectReadMajorVersion       |-> Reads(1, "stConnectWriteLocalGreeting"),
   stConnectWriteLocalGreeting     |-> Writes(Greeting, "stConnectReadGreeting"),
   stConnectReadGreeting           |-> Reads(1, "stConnectWriteReadyMsg")]

Perform(p, step) ==
  IF step.io = "read" THEN implRead(p, step.n, TRUE, step.next, run[p].v)
  ELSE implWrite(p, step.cells, step.next, run[p].v)

(* The READY command arrives in recvBuffer: the receive procedure runs with *)
(* the buffer's size, which any READY command here fits, as its limit.      *)
waitForReady(p) == Goto(p, "stInitialize", [run[p].v EXCEPT !.waiting = TRUE])

(* READY has to be a command frame that names a compatible socket type. *)
readyAccepted(p) ==
  LET v == Collected(p)
  IN  "command" \in v.flags /\ zmtpPeerCompatible(Type(p), readReadyCmd(v.message))

readyFrame(p, identity) ==
  LET ready == writeReadyCmd(Type(p), identity)
  IN  FrameHeader({"command"}, Len(ready)) \o ready

At(p, st) == run[p].st = st /\ ~run[p].v.waiting
ReadyArrived(p) == run[p].st = "stFinished" /\ run[p].v.waiting

(* startZmtpAccept. *)
startZmtpAccept(p) ==
  LET v == run[p].v
  IN  /\ run[p].mode = "start" /\ v.call.kind = "accept"
      /\ \/ run[p].st \in DOMAIN acceptSteps /\ ~v.waiting /\ Perform(p, acceptSteps[run[p].st])
         \/ /\ At(p, "stAcceptWriteLocalSignature")
            /\ IF run[p].got # Signature THEN Return(p, Failed("aosUnknownError"))
               ELSE implWrite(p, Signature, "stAcceptReadMajorVersion", v)
         \/ At(p, "stAcceptReadReadyMsg") /\ waitForReady(p)
         \/ /\ ReadyArrived(p)
            /\ IF ~readyAccepted(p) THEN Return(p, Failed("aosUnknownError"))
               ELSE implWrite(p, readyFrame(p, FALSE), "stAcceptWriteReadyMsg", [v EXCEPT !.waiting = FALSE])
         \/ At(p, "stAcceptWriteReadyMsg") /\ Return(p, Ok)

(* startZmtpConnect. *)
startZmtpConnect(p) ==
  LET v == run[p].v
  IN  /\ run[p].mode = "start" /\ v.call.kind = "connect"
      /\ \/ At(p, "stInitialize") /\ aioConnect(p, "stConnectWriteLocalSignature", v)
         \/ run[p].st \in DOMAIN connectSteps /\ Perform(p, connectSteps[run[p].st])
         \/ At(p, "stConnectWriteReadyMsg") /\ implWrite(p, readyFrame(p, TRUE), "stConnectReadReadyMsg", v)
         \/ At(p, "stConnectReadReadyMsg") /\ waitForReady(p)
         \/ ReadyArrived(p) /\ Return(p, IF readyAccepted(p) THEN Ok ELSE Failed("aosUnknownError"))

-----------------------------------------------------------------------------
(* The calls.  While a handshake is pending the lanes of its socket are     *)
(* frozen (OPCODE_INIT).                                                    *)

Handshake == {"accept", "connect"}

Shaking(q) ==
  \E p \in Lanes : p[1] = q /\ \/ run[p].mode # "idle" /\ run[p].v.call.kind \in Handshake
                               \/ todo[p] # <<>> /\ Head(todo[p]).kind \in Handshake

Next_(p) == IF todo[p] = <<>> THEN "none" ELSE Head(todo[p]).kind

aioZmtpAccept(p) == Next_(p) = "accept" /\ Submit(p, {"start"}, HandshakeOp)
aioZmtpConnect(p) == Next_(p) = "connect" /\ Submit(p, {"start"}, HandshakeOp)
aioZmtpRecv(p) == Next_(p) = "recv" /\ ~Shaking(p[1]) /\ Submit(p, {"inline", "start"}, ZmtpRecvOp)
aioZmtpSend(p) == Next_(p) = "send" /\ ~Shaking(p[1]) /\ Submit(p, {"inline", "start"}, ZmtpSendOp)

ZmtpStep ==
  \E p \in Lanes :
    \/ startZmtpSend(p) \/ implZmtpSend(p)
    \/ /\ \/ aioZmtpAccept(p) \/ aioZmtpConnect(p) \/ aioZmtpRecv(p) \/ aioZmtpSend(p)
          \/ startZmtpAccept(p) \/ startZmtpConnect(p) \/ startZmtpRecv(p) \/ implZmtpRecvStream(p)
       /\ UNCHANGED sock

-----------------------------------------------------------------------------
(* The messages a list of sends amounts to: parts up to the next frame      *)
(* without MORE, joined.                                                    *)
ZmtpMessages(calls) ==
  LET join(acc, call) ==
        LET whole == acc.part \o call.payload
        IN  IF call.type = "zmtpMessagePart" THEN [acc EXCEPT !.part = whole]
            ELSE [part |-> <<>>,
                  whole |-> Append(acc.whole, [command |-> call.type = "zmtpCommand", payload |-> whole])]
  IN  FoldLeft(join, [part |-> <<>>, whole |-> <<>>], calls).whole

ZmtpExpected(message, limit) ==
  IF Len(message.payload) <= limit THEN [status |-> "aosSuccess", message |-> message]
  ELSE Failed("aosBufferTooSmall")
=============================================================================
