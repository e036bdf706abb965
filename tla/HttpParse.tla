------------------------------ MODULE HttpParse ------------------------------
(***************************************************************************)
(* The HTTP response and request parsers (p2putils/HttpParse.cpp,           *)
(* HttpRequestParse.cpp, HttpParseUtils.h) as operators.  A parser is given *)
(* what has arrived behind the point it committed to, reports components    *)
(* to a callback, commits, and stops when it needs more.                    *)
(*                                                                          *)
(* A character is its ASCII code.  A name, a fixed string or a three-digit  *)
(* code is one cell with a number of its own.                               *)
(***************************************************************************)
EXTENDS UriParse

CONSTANT SizeMax   \* SIZE_MAX

TAB == 9
LF == 10
CR == 13
SP == 32
Comma == 44
Semicolon == 59

HTTP == 1000                        \* "HTTP/"
Version11 == 1001                   \* "1.1"
ContentLength == 1010
TransferEncoding == 1011
ContentType == 1012
Chunked == 1020                     \* "chunked", the value
Gzip == 1021
MethodGet == 1030
Code(n) == 2000 + n
responseCode == 2100..2999
isToken == isLetter \union isDigit \union {45, ContentLength, TransferEncoding, ContentType, Chunked, Gzip, MethodGet}

-----------------------------------------------------------------------------
(* Scanners: [result, value, rest]; the rest counts only on "ok". *)

Scanned(result, value, rest) == [result |-> result, value |-> value, rest |-> rest]
NeedMoreData == Scanned("need", <<>>, <<>>)
Error == Scanned("error", <<>>, <<>>)

canRead(buf, n) == n <= Len(buf)
From(buf, i) == SubSeq(buf, i, Len(buf))
OWS == {SP, TAB}
startsCRLF(buf) == canRead(buf, 2) /\ buf[1] = CR /\ buf[2] = LF
skipOWS(buf) == From(buf, skip(buf, 1, OWS))

skipSPCharacters(buf) ==
  IF buf = <<>> THEN NeedMoreData
  ELSE IF buf[1] # SP THEN Error
  ELSE Scanned("ok", <<>>, From(buf, skip(buf, 1, {SP})))

RECURSIVE trimTrailingOWS(_)
trimTrailingOWS(value) == IF value # <<>> /\ Last(value) \in OWS THEN trimTrailingOWS(Front(value)) ELSE value

First(buf, c) == Min({i \in DOMAIN buf : buf[i] = c} \union {Len(buf) + 1})

(* A line, its CRLF left out; a bare LF, or a CR without its LF, is wrong. *)
readUntilCRLF(buf) ==
  LET cr == First(buf, CR)
  IN  IF First(buf, LF) < cr THEN Error
      ELSE IF cr >= Len(buf) THEN NeedMoreData
      ELSE IF buf[cr + 1] # LF THEN Error
      ELSE Scanned("ok", SubSeq(buf, 1, cr - 1), From(buf, cr + 2))

(* The value of a run of digits; -1 when it does not fit SIZE_MAX. *)
Value(digits, base) ==
  FoldLeft(LAMBDA n, c : IF n = -1 \/ n > (SizeMax - decodeHex(c)) \div base THEN -1 ELSE n * base + decodeHex(c), 0, digits)

(* A number whose digits are followed by tail and CRLF. *)
Number(digits, base, tail) ==
  IF Value(digits, base) = -1 THEN Error
  ELSE IF ~canRead(tail, 2) THEN NeedMoreData
  ELSE IF digits = <<>> \/ ~startsCRLF(tail) THEN Error
  ELSE Scanned("ok", Value(digits, base), From(tail, 3))

readDec(buf) ==
  LET e == skip(buf, 1, isDigit) IN Number(SubSeq(buf, 1, e - 1), 10, skipOWS(From(buf, e)))

(* A chunk size, and behind a ';' anything up to the end of the line. *)
readHex(buf) ==
  LET e      == skip(buf, 1, isHexDigit)
      rest   == From(buf, e)
      digits == SubSeq(buf, 1, e - 1)
      line   == Min({First(rest, CR), First(rest, LF)})
  IN  IF Value(digits, 16) # -1 /\ rest # <<>> /\ rest[1] \notin {CR, Semicolon} THEN Error
      ELSE Number(digits, 16, IF rest # <<>> /\ rest[1] = Semicolon THEN From(rest, line) ELSE rest)

(* "chunked" is the last of the codings. *)
isChunkedTransferEncoding(value) ==
  LET before == trimTrailingOWS(Front(value))
  IN  value # <<>> /\ Last(value) = Chunked /\ (Len(value) = 1 \/ (before # <<>> /\ Last(before) = Comma))

(* httpHeaderTableLookup, httpMethodLookup: the token up to eos. *)
lookup(buf, eos) ==
  LET e == First(buf, eos)
  IN  IF \E i \in 1..(e - 1) : buf[i] \notin isToken THEN Error
      ELSE IF e > Len(buf) THEN NeedMoreData
      ELSE IF e = 1 THEN Error
      ELSE Scanned("ok", SubSeq(buf, 1, e - 1), From(buf, e))

-----------------------------------------------------------------------------
(* A parser's state, and one turn of its loops: [result, st, buf, out],     *)
(* where "step" goes round again.                                           *)

httpInit ==
  [state |-> "httpStStartLine", chunked |-> FALSE, dataRemaining |-> 0, firstFragment |-> TRUE,
   seenContentLength |-> FALSE, seenTransferEncoding |-> FALSE]
httpRequestParserInit == [httpInit EXCEPT !.state = "httpRequestMethod"]

Turn(result, st, buf, out) == [result |-> result, st |-> st, buf |-> buf, out |-> out]
Stops(scanned, st, buf) == Turn(scanned.result, st, buf, <<>>)
To(st, state) == [st EXCEPT !.state = state]

httpParseStartLine(st, buf) ==
  LET sp     == skipSPCharacters(From(buf, 3))
      code   == sp.rest[1]
      after  == Tail(sp.rest)
      phrase == IF after[1] = SP THEN skipOWS(after) ELSE after
      line   == readUntilCRLF(phrase)
  IN  IF ~canRead(buf, 2) THEN Stops(NeedMoreData, st, buf)
      ELSE IF buf[1] # HTTP \/ buf[2] # Version11 THEN Stops(Error, st, buf)
      ELSE IF sp.result # "ok" THEN Stops(sp, st, buf)
      ELSE IF ~canRead(sp.rest, 1) THEN Stops(NeedMoreData, st, buf)
      ELSE IF code \notin responseCode THEN Stops(Error, st, buf)
      ELSE IF after = <<>> THEN Stops(NeedMoreData, st, buf)
      ELSE IF after[1] \notin {SP, CR} THEN Stops(Error, st, buf)
      ELSE IF line.result # "ok" THEN Stops(line, st, buf)
      ELSE Turn("step", To(st, "httpStHeader"), line.rest, <<<<"startLine", code - 2000>>>>)

(* The framing a header line declares; conflicts are refused. *)
Framing(st, name, value, size) ==
  CASE name = <<ContentLength>> ->
         IF st.seenTransferEncoding \/ (st.seenContentLength /\ st.dataRemaining # size) THEN Error
         ELSE Scanned("ok", [st EXCEPT !.dataRemaining = size, !.seenContentLength = TRUE], <<>>)
    [] name = <<TransferEncoding>> ->
         IF st.seenContentLength \/ st.chunked THEN Error
         ELSE Scanned("ok", [st EXCEPT !.chunked = isChunkedTransferEncoding(value), !.seenTransferEncoding = TRUE], <<>>)
    [] OTHER -> Scanned("ok", st, <<>>)

parseHeaderLine(st, buf) ==
  LET name  == lookup(buf, Colon)
      start == skipOWS(Tail(name.rest))
      size  == readDec(start)
      line  == IF name.value = <<ContentLength>> THEN size ELSE readUntilCRLF(start)
      value == trimTrailingOWS(SubSeq(start, 1, Len(start) - Len(line.rest) - 2))
      frame == Framing(st, name.value, value, size.value)
  IN  IF name.result # "ok" THEN Stops(name, st, buf)
      ELSE IF line.result # "ok" THEN Stops(line, st, buf)
      ELSE IF frame.result # "ok" THEN Stops(frame, st, buf)
      ELSE Turn("step", frame.value, line.rest, <<<<"header", name.value, value>>>>)

(* A chunk whose size is known gives up what has arrived; otherwise the     *)
(* CRLF of the chunk before and the next size line, which are committed     *)
(* together.                                                                *)
parseChunkedBody(st, buf, trailerState) ==
  LET n     == Min({st.dataRemaining, Len(buf)})
      left  == st.dataRemaining - n
      lead  == IF st.firstFragment THEN 0 ELSE 2
      size  == readHex(From(buf, lead + 1))
  IN  IF st.dataRemaining > 0
        THEN Turn(IF left = 0 THEN "step" ELSE "need",
                  [st EXCEPT !.dataRemaining = left, !.firstFragment = @ /\ left > 0], From(buf, n + 1),
                  IF n > 0 THEN <<<<"data", SubSeq(buf, 1, n)>>>> ELSE <<>>)
      ELSE IF ~canRead(buf, lead) THEN Stops(NeedMoreData, st, buf)
      ELSE IF lead > 0 /\ ~startsCRLF(buf) THEN Stops(Error, st, buf)
      ELSE IF size.result # "ok" THEN Stops(size, st, buf)
      ELSE IF size.value = 0 THEN Turn("step", To(st, trailerState), size.rest, <<>>)
      ELSE Turn("step", [st EXCEPT !.dataRemaining = size.value], size.rest, <<>>)

(* httpParseBody and httpRequestParseBody without a chunked coding.  "last" *)
(* is the piece that completes the body, whatever type it is reported with. *)
parseSizedBody(st, buf, lastState) ==
  IF canRead(buf, st.dataRemaining)
    THEN Turn("ok", To(st, lastState), From(buf, st.dataRemaining + 1),
              <<<<"last", SubSeq(buf, 1, st.dataRemaining)>>>>)
    ELSE Turn("need", [st EXCEPT !.dataRemaining = @ - Len(buf), !.firstFragment = @ /\ buf = <<>>], <<>>,
              IF buf = <<>> THEN <<>> ELSE <<<<"data", buf>>>>)

(* parseTrailers: complete trailer lines are committed one by one. *)
parseTrailers(st, buf, lastState) ==
  LET line == readUntilCRLF(buf)
  IN  IF startsCRLF(buf) THEN Turn("ok", To(st, lastState), From(buf, 3), <<<<"last", <<>>>>>>)
      ELSE IF line.result # "ok" THEN Stops(line, st, buf)
      ELSE Turn("step", st, line.rest, <<>>)

(* The end of the headers: a transfer coding that does not end in chunked   *)
(* leaves the length unknown.                                               *)
parseHead(st, buf, after(_, _)) ==
  IF ~canRead(buf, 2) THEN Stops(NeedMoreData, st, buf)
  ELSE IF ~startsCRLF(buf) THEN parseHeaderLine(st, buf)
  ELSE IF st.seenTransferEncoding /\ ~st.chunked THEN Stops(Error, st, buf)
  ELSE after(st, From(buf, 3))

-----------------------------------------------------------------------------
(* The request line *)

Named(events, from, to) ==
  LET some == SelectSeq(events, LAMBDA c : c[1] = from) IN [i \in DOMAIN some |-> [some[i] EXCEPT ![1] = to]]

httpRequestParseMethod(st, buf) ==
  LET name == lookup(buf, SP)
      sp   == skipSPCharacters(name.rest)
  IN  IF name.result # "ok" THEN Stops(name, st, buf)
      ELSE Turn("step", To(st, "httpRequestUriPath"), sp.rest, <<<<"method", name.value>>>>)

(* A part of the target: state is the next one once it is complete, and the *)
(* rest is what is behind it.                                               *)
Part(st, part, type, name, state, buf, rest) ==
  IF part.result # "ok" THEN Turn(part.result, st, buf, Named(part.out, type, name))
  ELSE Turn("step", To(st, state), rest, Named(part.out, type, name))

(* A separator of several spaces may go on in the next buffer. *)
afterPath(st, here, path) ==
  LET rest == From(here, path.p)
  IN  IF path.result = "ok" /\ rest[1] = Question
        THEN Part(st, path, "uriCtPathElement", "path", "httpRequestUriQuery", rest, Tail(rest))
        ELSE Part(st, path, "uriCtPathElement", "path", "httpRequestUriFragment", rest, rest)

httpRequestParsePath(st, buf) ==
  LET here == From(buf, skip(buf, 1, {SP})) IN afterPath(st, here, uriParsePath(here, 1, FALSE))

afterQuery(st, buf, query) ==
  LET rest == From(buf, query.p)
  IN  Part(st, query, "uriCtQueryElement", "query", "httpRequestUriFragment", rest, rest)

httpRequestParseQuery(st, buf) == afterQuery(st, buf, uriParseQuery(buf, 1, FALSE))

(* The marker stays with a fragment that is not complete. *)
httpRequestParseFragment(st, buf) ==
  LET marked == buf[1] = SharpSign
      f      == uriParseFragment(buf, 2, FALSE)
      sp     == skipSPCharacters(IF marked THEN From(buf, f.p) ELSE buf)
  IN  IF buf = <<>> THEN Stops(NeedMoreData, st, buf)
      ELSE IF marked /\ f.result # "ok" THEN Stops(NeedMoreData, st, buf)
      ELSE IF sp.result # "ok" THEN Stops(sp, st, buf)
      ELSE Turn("step", To(st, "httpRequestVersion"), sp.rest,
                IF marked THEN Named(f.out, "uriCtFragment", "fragment") ELSE <<>>)

httpRequestParseVersion(st, buf) ==
  LET here == From(buf, skip(buf, 1, {SP}))
  IN  IF ~canRead(here, 4) THEN Stops(NeedMoreData, st, here)
      ELSE IF SubSeq(here, 1, 4) # <<HTTP, Version11, CR, LF>> THEN Stops(Error, st, here)
      ELSE Turn("step", To(st, "httpRequestHeader"), From(here, 5), <<<<"version", here[2]>>>>)

-----------------------------------------------------------------------------
httpTurn(st, buf) ==
  LET body(s, rest) == Turn("step", To(s, "httpStBody"), rest, <<>>)
  IN  CASE st.state = "httpStStartLine" -> httpParseStartLine(st, buf)
        [] st.state = "httpStHeader"    -> parseHead(st, buf, body)
        [] st.state = "httpStBody" /\ st.chunked  -> parseChunkedBody(st, buf, "httpStTrailer")
        [] st.state = "httpStBody" /\ ~st.chunked -> parseSizedBody(st, buf, "httpStLast")
        [] st.state = "httpStTrailer"   -> parseTrailers(st, buf, "httpStLast")
        [] st.state = "httpStLast"      -> Turn("ok", st, buf, <<>>)

(* A request has a body only when a framing header says so. *)
httpRequestTurn(st, buf) ==
  LET body(s, rest) ==
        IF s.chunked \/ s.dataRemaining # 0 THEN Turn("step", To(s, "httpRequestBody"), rest, <<>>)
        ELSE Turn("ok", To(s, "httpRequestStLast"), rest, <<<<"last", <<>>>>>>)
  IN  CASE st.state = "httpRequestMethod"      -> httpRequestParseMethod(st, buf)
        [] st.state = "httpRequestUriPath"     -> httpRequestParsePath(st, buf)
        [] st.state = "httpRequestUriQuery"    -> httpRequestParseQuery(st, buf)
        [] st.state = "httpRequestUriFragment" -> httpRequestParseFragment(st, buf)
        [] st.state = "httpRequestVersion"     -> httpRequestParseVersion(st, buf)
        [] st.state = "httpRequestHeader"      -> parseHead(st, buf, body)
        [] st.state = "httpRequestBody" /\ st.chunked  -> parseChunkedBody(st, buf, "httpRequestTrailer")
        [] st.state = "httpRequestBody" /\ ~st.chunked -> parseSizedBody(st, buf, "httpRequestStLast")
        [] st.state = "httpRequestTrailer"     -> parseTrailers(st, buf, "httpRequestStLast")
        [] st.state = "httpRequestStLast"      -> Turn("ok", st, buf, <<>>)

(* httpParse and httpRequestParse: go round until the message is complete,  *)
(* wrong or short.  refused is the component whose callback returns 0,      *)
(* which a response's callback never does; a cancelled parse is not resumed. *)
RECURSIVE httpParseFrom(_, _, _, _, _), afterTurn(_, _, _, _, _, _)
httpParseFrom(request, st, buf, out, refused) ==
  afterTurn(request, st, buf, out, refused, IF request THEN httpRequestTurn(st, buf) ELSE httpTurn(st, buf))

afterTurn(request, st, buf, out, refused, t) ==
  LET stop == {i \in DOMAIN t.out : t.out[i][1] = refused}
  IN  IF stop # {} THEN Turn("cancelled", st, buf, out \o SubSeq(t.out, 1, Min(stop)))
      ELSE IF t.result = "step" THEN httpParseFrom(request, t.st, t.buf, out \o t.out, refused)
      ELSE [t EXCEPT !.out = out \o @]
=============================================================================
