------------------------------ MODULE HttpClient ------------------------------
(***************************************************************************)
(* The HTTP client (asyncio/http.c): one request written, then its response *)
(* read into inBuffer and parsed as it arrives.  The client is peer "A" and *)
(* its operations run on the lane <<"A", "write">>.  The same loop around   *)
(* httpRequestParse is how a server reads a request.                        *)
(*                                                                          *)
(* A character c of a message is the cell <<"char", c>>.                    *)
(***************************************************************************)
EXTENDS StreamIo, HttpParse

CONSTANT HttpBuffer    \* inBufferSize, in cells

HttpLane == <<"A", "write">>

Encode(chars) == [i \in DOMAIN chars |-> <<"char", chars[i]>>]
Decode(cells) == [i \in DOMAIN cells |-> cells[i][2]]

-----------------------------------------------------------------------------
(* The default parse context *)

absentOffset == -1
NULL == -1

(* The context as it is before any response: httpParseDefaultInit gives it  *)
(* an empty buffer and leaves the other fields as they are.                 *)
httpParseDefaultInit(context) == [context EXCEPT !.buffer = <<>>]

(* The context kept from the last response but for its buffer and sizes.    *)
httpDtInitializeKeeps(context) ==
  [context EXCEPT !.contentType.size = 0, !.body.size = 0, !.resultCode = 0, !.buffer = <<>>]

(* httpDtInitialize: nothing of the last response is left. *)
httpDtInitialize(context) ==
  [contentTypeOffset |-> absentOffset, bodyOffset |-> absentOffset,
   contentType |-> [data |-> NULL, size |-> 0], body |-> [data |-> NULL, size |-> 0],
   resultCode |-> 0, buffer |-> <<>>]

(* httpDtFinalize: the offsets become pointers into the finished buffer; no *)
(* body is an empty string at its end.                                      *)
httpDtFinalize(context) ==
  LET buffer == Append(context.buffer, NUL)
      ct     == context.contentTypeOffset
      body   == context.bodyOffset
  IN  [context EXCEPT
         !.buffer = buffer,
         !.contentType.data = IF ct # absentOffset THEN ct ELSE @,
         !.body = IF body # absentOffset THEN [data |-> body, size |-> Len(buffer) - body - 1]
                  ELSE [data |-> Len(buffer) - 1, size |-> 0]]

(* httpParseDefault: Content-Type values and the body accumulate in one     *)
(* buffer, remembered by offset; a NUL ends a value.                        *)
httpParseDefault(context, c) ==
  CASE c[1] = "startLine" -> [context EXCEPT !.resultCode = c[2]]
    [] c[1] = "header" /\ c[2] = <<ContentType>> ->
         [context EXCEPT !.contentTypeOffset = Len(context.buffer), !.contentType.size = Len(c[3]),
                         !.buffer = @ \o c[3] \o <<NUL>>]
    [] c[1] \in {"data", "last"} ->
         [context EXCEPT !.bodyOffset = IF @ = absentOffset THEN Len(context.buffer) ELSE @, !.buffer = @ \o c[2]]
    [] OTHER -> context

(* What the caller finds in the context: a field is <<>> where its pointer  *)
(* is NULL, and otherwise <<the string it points at>>.                      *)
Found(context) ==
  LET field(f) == IF f.data = NULL THEN <<>> ELSE <<SubSeq(context.buffer, f.data + 1, f.data + f.size)>>
  IN  [code |-> context.resultCode, contentType |-> field(context.contentType), body |-> field(context.body)]

(* What a request's callbacks saw: the head's components and the body, and  *)
(* whether DataLast came, once, behind everything else.                     *)
RequestSeen(out) ==
  LET isBody(c) == c[1] \in {"data", "last"}
      isHead(c) == ~isBody(c)
      pieces    == SelectSeq(out, isBody)
  IN  [head |-> SelectSeq(out, isHead),
       body |-> FlattenSeq([i \in DOMAIN pieces |-> pieces[i][2]]),
       complete |-> {i \in DOMAIN out : out[i][1] = "last"} = {Len(out)}]

-----------------------------------------------------------------------------
HttpOp(mode, call) == [call |-> call, reading |-> FALSE, out |-> <<>>]

InBuffer(p) == sock["A"].inBuffer \o (IF run[p].v.reading THEN Decode(run[p].got) ELSE <<>>)

SetHttp(st, inBuffer, context) == sock' = [sock EXCEPT !["A"] = [st |-> st, inBuffer |-> inBuffer, context |-> context]]

httpConnectStart(p) ==
  /\ run[p].mode = "start" /\ run[p].v.call.kind = "connect"
  /\ \/ run[p].st = "stInitialize" /\ aioConnect(p, "stConnected", run[p].v)
     \/ run[p].st = "stConnected" /\ Return(p, Ok)
  /\ UNCHANGED sock

(* The loop of httpParseStart: what is not parsed yet moves to the front of *)
(* the buffer and the rest of it is read into; a component that fills the   *)
(* whole buffer can never be parsed.  A response's components go into the   *)
(* context, a request's are kept as they come.                              *)
httpParseLoop(p, request) ==
  \E r \in {httpParseFrom(request, sock["A"].st, InBuffer(p), <<>>, run[p].v.call.refused)} :
    LET w       == [run[p].v EXCEPT !.reading = TRUE, !.out = IF request THEN @ \o r.out ELSE @]
        parsed  == IF request THEN sock["A"].context ELSE FoldLeft(httpParseDefault, sock["A"].context, r.out)
        context == IF r.result = "ok" /\ ~request THEN httpDtFinalize(parsed) ELSE parsed
        message == IF request THEN RequestSeen(w.out) ELSE Found(context)
    IN  /\ SetHttp(r.st, r.buf, context)
        /\ CASE r.result = "ok" -> Return(p, [status |-> "aosSuccess", message |-> message])
             [] r.result = "need" /\ Len(r.buf) = HttpBuffer -> Return(p, Failed("aosBufferTooSmall"))
             [] r.result = "need" /\ Len(r.buf) # HttpBuffer -> implRead(p, HttpBuffer - Len(r.buf), FALSE, "stParse", w)
             [] r.result = "cancelled" -> Return(p, [status |-> "aosUnknownError", message |-> message])
             [] r.result = "error" -> Return(p, Failed("aosUnknownError"))

(* httpParseStart: a fresh parser, an empty buffer and a reset context, the *)
(* request, the response.                                                   *)
httpParseStart(p) ==
  LET v == run[p].v
  IN  /\ run[p].mode = "start" /\ v.call.kind = "request"
      /\ \/ /\ run[p].st = "stInitialize"
            /\ implWrite(p, v.call.cells, "stParse", v)
            /\ SetHttp(httpInit, <<>>, httpDtInitialize(sock["A"].context))
         \/ run[p].st = "stParse" /\ httpParseLoop(p, FALSE)

(* A server's read loop around httpRequestParse, which keeps what follows   *)
(* the request for the next one.                                            *)
httpServe(p) ==
  LET v == run[p].v
  IN  /\ run[p].mode = "start" /\ v.call.kind = "serve"
      /\ \/ /\ run[p].st = "stInitialize"
            /\ Goto(p, "stParse", v)
            /\ SetHttp(httpRequestParserInit, sock["A"].inBuffer, sock["A"].context)
         \/ run[p].st = "stParse" /\ httpParseLoop(p, TRUE)

aioHttp(p) == Submit(p, {"start"}, HttpOp) /\ UNCHANGED sock

HttpStep ==
  LET p == HttpLane IN aioHttp(p) \/ httpConnectStart(p) \/ httpParseStart(p) \/ httpServe(p)
=============================================================================
