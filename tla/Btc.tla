--------------------------------- MODULE Btc ---------------------------------
(***************************************************************************)
(* The Bitcoin message socket (asyncioextras/btc.cpp): a message is a       *)
(* header of two cells and its payload.  aioBtcSend and aioBtcRecv first    *)
(* try to do everything in place (implBtcSend, implBtcRecv) and fall back   *)
(* to an operation whose start procedure continues from the state reached.  *)
(***************************************************************************)
EXTENDS StreamIo

CONSTANTS
  BtcBuffer,      \* USERSPACE_BUFFER_SIZE, in cells: what a single write may hold
  BtcLengthMax    \* UINT32_MAX of the header's length field, in cells

(* A command is a NUL padded field; 0 is the NUL and 1 any other character. *)
CommandSize == 2
Commands == [1..CommandSize -> 0..1]

(* copyCommand pads a name, which ends at its first NUL. *)
copyCommand(name) ==
  [i \in 1..CommandSize |-> IF \A j \in 1..i : name[j] # 0 THEN name[i] ELSE 0]

(* commandValid: nothing follows the first NUL. *)
commandValid(command) ==
  \A i, j \in 1..CommandSize : (i < j /\ command[i] = 0) => command[j] = 0

(* The checksum tells every two payloads apart. *)
calculateCheckSum(data) == data

btcPayloadFitsHeader(size) == size <= BtcLengthMax

(* MessageHeader on the wire: the magic, then the fields it announces. *)
HeaderSize == 2
HeaderCells(h) == <<<<"magic", h.magic>>, <<"fields", h>>>>

buildMessageHeader(magic, command, data) ==
  HeaderCells([magic |-> magic, command |-> copyCommand(command),
               length |-> Len(data) % (BtcLengthMax + 1),
               checksum |-> calculateCheckSum(Take(data, Len(data) % (BtcLengthMax + 1)))])

NoHeader == [magic |-> "none", command |-> [i \in 1..CommandSize |-> 0], length |-> 0, checksum |-> <<>>]

(* Fields read off other cells: any length, and a checksum that fits no     *)
(* payload.                                                                 *)
Garbled(magic) ==
  {[NoHeader EXCEPT !.magic = magic, !.length = n, !.checksum = <<<<"garbled", 0>>>>] : n \in 0..BtcLengthMax}

(* decodeMessageHeader: what the cells may decode to.  A receive that does  *)
(* not begin at a message finds no magic, for none occurs inside of one, or *)
(* the magic of a message whose sender was interrupted behind it.           *)
decodeMessageHeader(cells) ==
  IF cells[1][1] # "magic" THEN {NoHeader}
  ELSE IF cells[2][1] = "fields" THEN {[cells[2][2] EXCEPT !.magic = cells[1][2]]}
  ELSE Garbled(cells[1][2])

Magic(p) == sock[p[1]].magic

-----------------------------------------------------------------------------
(* Receiving *)

RecvOp(mode, call) == [call |-> call, header |-> NoHeader]

Received(p) ==
  [status |-> "aosSuccess", message |-> [command |-> run[p].v.header.command, payload |-> run[p].got]]

(* The checks on a header, in the order of startBtcRecv. *)
startRecvChecks(h, magic, limit) ==
  IF h.magic # magic THEN "btcInvalidMagic"
  ELSE IF ~commandValid(h.command) THEN "btcInvalidCommand"
  ELSE IF limit < h.length THEN "aosBufferTooSmall"
  ELSE "aosSuccess"

(* The checks in the order of implBtcRecv: the first that fails wins. *)
implRecvChecks(h, magic, limit) ==
  CASE h.magic # magic -> "btcInvalidMagic"
    [] h.magic = magic /\ ~commandValid(h.command) -> "btcInvalidCommand"
    [] h.magic = magic /\ commandValid(h.command) /\ limit < h.length -> "aosBufferTooSmall"
    [] OTHER -> "aosSuccess"

(* The shape both paths share: header, checks, payload, checksum. *)
RecvSteps(p, result(_, _, _)) ==
  LET v == run[p].v
  IN  \/ /\ run[p].st = "stInitialize"
         /\ implRead(p, HeaderSize, TRUE, "stReadData", v)
      \/ /\ run[p].st = "stReadData"
         /\ \E h \in decodeMessageHeader(run[p].got) :
              LET status == result(h, Magic(p), v.call.limit)
              IN  IF status # "aosSuccess" THEN Return(p, Failed(status))
                  ELSE implRead(p, h.length, TRUE, "stFinished", [v EXCEPT !.header = h])
      \/ /\ run[p].st = "stFinished"
         /\ Return(p, IF v.header.checksum = calculateCheckSum(run[p].got)
                        THEN Received(p) ELSE Failed("btcInvalidChecksum"))

(* startBtcRecv: the queued path, resumed in whatever state the child left. *)
startBtcRecv(p) == p[2] = "read" /\ run[p].mode = "start" /\ RecvSteps(p, startRecvChecks)

(* implBtcRecv: the call itself reads, and hands over the state it reached  *)
(* when a read has to wait.  An error becomes an operation of forced status.*)
implBtcRecv(p) == p[2] = "read" /\ run[p].mode = "inline" /\ RecvSteps(p, implRecvChecks)

-----------------------------------------------------------------------------
(* Sending *)

(* newWriteAsyncOp: without afNoCopy the operation owns a copy of the       *)
(* payload, for the caller may reuse the buffer once the call returns.      *)
Captures(v) == [v EXCEPT !.captured = ~v.call.noCopy /\ btcPayloadFitsHeader(Len(v.call.payload))]

SendOp(mode, call) ==
  LET v == [call |-> call, captured |-> FALSE]
  IN  IF mode = "start" THEN Captures(v) ELSE v

Reused(payload) == [i \in DOMAIN payload |-> <<"reused", i>>]

(* What the payload pointer of the operation shows: the caller's buffer     *)
(* holds the message only until the call returns, unless the caller         *)
(* promised to keep it.                                                     *)
Payload(p) ==
  LET v == run[p].v
  IN  IF run[p].mode = "inline" \/ v.captured \/ v.call.noCopy
        THEN v.call.payload ELSE Reused(v.call.payload)

(* btcSendFirstWrite: a small message goes out in one write. *)
btcSendFirstWrite(p, v) ==
  LET header == buildMessageHeader(Magic(p), v.call.command, Payload(p))
  IN  IF HeaderSize + Len(Payload(p)) <= BtcBuffer
        THEN implWrite(p, header \o Payload(p), "stFinished", v)
        ELSE implWrite(p, header, "stWriteData", v)

(* startBtcSend: the queued path. *)
startBtcSend(p) ==
  LET v == run[p].v
  IN  /\ p[2] = "write" /\ run[p].mode = "start"
      /\ IF ~btcPayloadFitsHeader(Len(v.call.payload)) THEN Return(p, Failed("aosBufferTooSmall"))
         ELSE \/ run[p].st = "stInitialize" /\ btcSendFirstWrite(p, v)
              \/ run[p].st = "stWriteData" /\ implWrite(p, Payload(p), "stFinished", v)
              \/ run[p].st = "stFinished" /\ Return(p, Ok)

(* implBtcSend: the call itself writes; an operation made for a write that  *)
(* has to wait captures the payload.                                        *)
implBtcSend(p) ==
  LET v == run[p].v
  IN  /\ p[2] = "write" /\ run[p].mode = "inline"
      /\ IF ~btcPayloadFitsHeader(Len(v.call.payload)) THEN Return(p, Failed("aosBufferTooSmall"))
         ELSE \/ run[p].st = "stInitialize" /\ btcSendFirstWrite(p, Captures(v))
              \/ run[p].st = "stWriteData" /\ implWrite(p, Payload(p), "stFinished", Captures(v))
              \/ run[p].st = "stFinished" /\ Return(p, Ok)

aioBtcRecv(p) == p[2] = "read" /\ Submit(p, {"inline", "start"}, RecvOp)
aioBtcSend(p) == p[2] = "write" /\ Submit(p, {"inline", "start"}, SendOp)

BtcStep ==
  /\ \E p \in Lanes :
       \/ aioBtcRecv(p) \/ startBtcRecv(p) \/ implBtcRecv(p)
       \/ aioBtcSend(p) \/ startBtcSend(p) \/ implBtcSend(p)
  /\ UNCHANGED sock

-----------------------------------------------------------------------------
(* What a receiver of the i-th message promises: the reasons to refuse it,  *)
(* in their order of precedence.                                            *)
BtcReasons == <<"btcInvalidMagic", "btcInvalidCommand", "aosBufferTooSmall", "btcInvalidChecksum">>

BtcExpected(frame, limit, magic) ==
  LET holds(reason) ==
        CASE reason = "btcInvalidMagic" -> frame.magic # magic
          [] reason = "btcInvalidCommand" -> frame.command \notin {copyCommand(c) : c \in Commands}
          [] reason = "aosBufferTooSmall" -> Len(frame.payload) > limit
          [] reason = "btcInvalidChecksum" -> ~frame.intact
      status == Head(SelectSeq(BtcReasons, holds) \o <<"aosSuccess">>)
  IN  [status |-> status,
       message |-> IF status = "aosSuccess"
                     THEN [command |-> frame.command, payload |-> frame.payload] ELSE <<>>]
=============================================================================
