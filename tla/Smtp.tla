-------------------------------- MODULE Smtp --------------------------------
(***************************************************************************)
(* The SMTP client (asyncio/smtp.c): operations that send one command at a  *)
(* time, each after the reply to the previous one, over a plain socket that *)
(* STARTTLS may wrap into a TLS session.  The client is peer "A" and its    *)
(* operations run on the lane <<"A", "write">>; the server, peer "B", is    *)
(* the environment.                                                         *)
(*                                                                          *)
(* A character of a reply is a cell <<tag, tls, n>>, where tls says whether *)
(* it came through the TLS session; a reply code n is one cell.             *)
(***************************************************************************)
EXTENDS StreamIo

CONSTANT SmtpBuffer    \* sizeof(client->buffer), in cells

Client == <<"A", "write">>

-----------------------------------------------------------------------------
(* The parser *)

NoReply(status) == [status |-> status, code |-> 0, rest |-> <<>>]

(* The first line feed of buf at or after position i, 0 if there is none. *)
memchr(buf, i) ==
  LET found == {j \in i..Len(buf) : buf[j][1] = "LF"} IN IF found = {} THEN 0 ELSE Min(found)

isCode(cell) == cell[1] = "code"
codeOf(cell) == cell[3]

(* The lines of a multiline reply behind the first: each repeats the code,  *)
(* and the last has no '-'.                                                 *)
RECURSIVE lastLine(_, _, _)
lastLine(buf, p, code) ==
  LET lf == memchr(buf, p)
  IN  IF lf = 0 THEN NoReply("aosPending")
      ELSE IF \/ lf - p < 2 \/ buf[lf - 1][1] # "CR" \/ ~isCode(buf[p]) \/ codeOf(buf[p]) # code
              \/ ~(buf[p + 1][1] \in {"-", " "} \/ (buf[p + 1][1] = "CR" /\ lf = p + 2))
        THEN NoReply("smtpInvalidFormat")
      ELSE IF buf[p + 1][1] = "-" THEN lastLine(buf, lf + 1, code)
      ELSE [status |-> "aosSuccess", code |-> code, rest |-> Drop(buf, lf)]

(* smtpTryParse: one complete reply at the head of the buffer, or           *)
(* aosPending when more is needed.                                          *)
smtpTryParse(buf) ==
  LET lf == memchr(buf, 3)
  IN  IF Len(buf) < 3 THEN NoReply("aosPending")
      ELSE IF ~isCode(buf[1]) \/ ~(buf[2][1] \in {"-", " "} \/ (buf[2][1] = "CR" /\ buf[3][1] = "LF"))
        THEN NoReply("smtpInvalidFormat")
      ELSE IF buf[2][1] = "CR" THEN [status |-> "aosSuccess", code |-> codeOf(buf[1]), rest |-> Drop(buf, 3)]
      ELSE IF lf = 0 THEN NoReply("aosPending")
      ELSE IF buf[lf - 1][1] # "CR" THEN NoReply("smtpInvalidFormat")
      ELSE IF buf[2][1] = "-" THEN lastLine(buf, lf + 1, codeOf(buf[1]))
      ELSE [status |-> "aosSuccess", code |-> codeOf(buf[1]), rest |-> Drop(buf, lf)]

(* The distinguished expectations: RCPT, and any 2xx or 3xx code. *)
smtpExpectRcpt == 1
AnyPositive == 0

(* Every positive code taken for the one expected. *)
smtpCheckReplyLax(code, expected) ==
  IF expected = smtpExpectRcpt THEN code \in 250..252 ELSE code \in 200..399

smtpCheckReply(code, expected) ==
  IF expected = AnyPositive THEN code \in 200..399
  ELSE IF expected = smtpExpectRcpt THEN code \in 250..252
  ELSE code = expected

-----------------------------------------------------------------------------
(* Mail text: characters "." "CR" "LF" and others *)

(* strcspn(p, "\r\n"): the length of the line that starts at position i. *)
content(text, i) ==
  LET ends == {j \in i..Len(text) : text[j] \in {"CR", "LF"}}
  IN  (IF ends = {} THEN Len(text) + 1 ELSE Min(ends)) - i

(* The body written without doubling a dot at the start of a line. *)
RECURSIVE bodyLinesUnstuffed(_, _)
bodyLinesUnstuffed(text, i) ==
  IF i > Len(text) THEN <<>>
  ELSE LET n   == content(text, i)
           eol == i + n
           cr  == IF eol <= Len(text) /\ text[eol] = "CR" THEN eol + 1 ELSE eol
           lf  == IF cr <= Len(text) /\ text[cr] = "LF" THEN cr + 1 ELSE cr
       IN  SubSeq(text, i, eol - 1) \o <<"CR", "LF">> \o bodyLinesUnstuffed(text, lf)

(* The lines of the body from position i: a leading dot doubled, any line   *)
(* ending written as CRLF.                                                  *)
RECURSIVE bodyLines(_, _)
bodyLines(text, i) ==
  IF i > Len(text) THEN <<>>
  ELSE LET n   == content(text, i)
           eol == i + n
           cr  == IF eol <= Len(text) /\ text[eol] = "CR" THEN eol + 1 ELSE eol
           lf  == IF cr <= Len(text) /\ text[cr] = "LF" THEN cr + 1 ELSE cr
       IN  (IF text[i] = "." THEN <<".">> ELSE <<>>)
             \o SubSeq(text, i, eol - 1) \o <<"CR", "LF">> \o bodyLines(text, lf)

dynamicBufferWriteMailBody(text) == bodyLines(text, 1) \o <<".", "CR", "LF">>

-----------------------------------------------------------------------------
(* The client's operations.  A command is two cells, so that a write may    *)
(* stop inside it; a mail text is its characters.                           *)

tls == sock["A"].tls

Command(name) == <<<<"command", [name |-> name, tls |-> tls]>>, <<"eol", name>>>>
MailText(text) ==
  LET body == dynamicBufferWriteMailBody(text) IN [i \in DOMAIN body |-> <<"text", body[i]>>]

SmtpOp(mode, call) == [call |-> call, reading |-> FALSE, code |-> 0]

(* What the buffer holds once the read callback has accounted the bytes. *)
Buffered(p) == sock["A"].buffer \o (IF run[p].v.reading THEN run[p].got ELSE <<>>)

Answer(p, status) == [status |-> status, message |-> run[p].v.code]

(* A TLS session fails on cells that are not its records. *)
SslRejects(p) == tls /\ run[p].v.reading /\ \E i \in DOMAIN run[p].got : ~run[p].got[i][2]

SetBuffer(buffer) == sock' = [sock EXCEPT !["A"].buffer = buffer]

(* smtpReadResponse: parse what is buffered and read on while the reply is  *)
(* incomplete; accepted(v, rest) says what follows an accepted reply.       *)
smtpReadResponse(p, expected, accepted(_, _)) ==
  LET v   == run[p].v
      buf == Buffered(p)
      r   == smtpTryParse(buf)
      w   == [v EXCEPT !.reading = FALSE, !.code = r.code]
  IN  IF SslRejects(p) THEN Return(p, Answer(p, "aosUnknownError")) /\ UNCHANGED sock
      ELSE IF r.status = "aosPending" /\ Len(buf) < SmtpBuffer
        THEN implRead(p, SmtpBuffer - Len(buf), FALSE, run[p].st, [v EXCEPT !.reading = TRUE]) /\ SetBuffer(buf)
      ELSE IF r.status # "aosSuccess"
        THEN Return(p, Answer(p, "smtpInvalidFormat")) /\ SetBuffer(buf)
      ELSE IF ~smtpCheckReply(r.code, expected)
        THEN Return(p, [status |-> "smtpError", message |-> r.code]) /\ SetBuffer(r.rest)
      ELSE accepted(w, r.rest)

(* smtpWriteCommand: what is buffered before a command is sent cannot be    *)
(* its reply.                                                               *)
smtpWriteCommand(p, cells, next, v, buffer) ==
  /\ IF buffer # <<>> THEN Return(p, [status |-> "smtpInvalidFormat", message |-> v.code])
     ELSE implWrite(p, cells, next, v)
  /\ SetBuffer(buffer)

(* smtpStepReadWrite: the reply to the previous command, then the next one. *)
smtpStepReadWrite(p, expected, cells, next) ==
  LET send(v, rest) == smtpWriteCommand(p, cells, next, v, rest)
  IN  smtpReadResponse(p, expected, send)

(* sslSocketNew and, unless it fails, aioSslConnect. *)
sslWrap(p, next, v, buffer) ==
  IF protocol.sslFails
    THEN Return(p, [status |-> "aosUnknownError", message |-> v.code]) /\ SetBuffer(buffer)
    ELSE aioConnect(p, next, v) /\ sock' = [sock EXCEPT !["A"] = [tls |-> TRUE, buffer |-> buffer]]

(* smtpStepUpgradeTls without a look at what is still buffered. *)
smtpStepUpgradeTlsBlind(p, next, v, buffer) ==
  IF sock["A"].tls THEN Return(p, [status |-> "smtpError", message |-> v.code]) /\ SetBuffer(buffer)
  ELSE sslWrap(p, next, v, buffer)

(* smtpStepUpgradeTls: wrap the plain socket and start the TLS handshake.   *)
smtpStepUpgradeTls(p, next, v, buffer) ==
  IF sock["A"].tls THEN Return(p, [status |-> "smtpError", message |-> v.code]) /\ SetBuffer(buffer)
  ELSE IF buffer # <<>> THEN Return(p, [status |-> "smtpInvalidFormat", message |-> v.code]) /\ SetBuffer(buffer)
  ELSE sslWrap(p, next, v, buffer)

(* The last reply of an operation. *)
Finishes(p, expected) ==
  LET finish(v, rest) == Return(p, [status |-> "aosSuccess", message |-> v.code]) /\ SetBuffer(rest)
  IN  smtpReadResponse(p, expected, finish)

Starts(p, kind) == run[p].mode = "start" /\ run[p].v.call.kind = kind
St(p, st) == run[p].st = st

(* smtpConnectStart. *)
smtpConnectStart(p) ==
  /\ Starts(p, "connect")
  /\ \/ St(p, "stInitialize") /\ aioConnect(p, "stReadGreeting", run[p].v) /\ UNCHANGED sock
     \/ St(p, "stReadGreeting") /\ Finishes(p, 220)

(* smtpStartTlsStart. *)
smtpStartTlsStart(p) ==
  LET upgrade(v, rest) == smtpStepUpgradeTls(p, "stFinished", v, rest)
  IN  /\ Starts(p, "startTls")
      /\ \/ /\ St(p, "stInitialize")
            /\ smtpWriteCommand(p, Command("STARTTLS"), "stStartTls", run[p].v, Buffered(p))
         \/ St(p, "stStartTls") /\ smtpReadResponse(p, 220, upgrade)
         \/ St(p, "stFinished") /\ Return(p, Answer(p, "aosSuccess")) /\ UNCHANGED sock

(* smtpLoginStart. *)
smtpLoginStart(p) ==
  /\ Starts(p, "login")
  /\ \/ /\ St(p, "stInitialize")
        /\ smtpWriteCommand(p, Command("AUTH LOGIN"), "stSendLogin", run[p].v, Buffered(p))
     \/ St(p, "stSendLogin") /\ smtpStepReadWrite(p, 334, Command("login"), "stSendPassword")
     \/ St(p, "stSendPassword") /\ smtpStepReadWrite(p, 334, Command("password"), "stFinished")
     \/ St(p, "stFinished") /\ Finishes(p, 235)

(* smtpCommandStart: any other command. *)
smtpCommandStart(p) ==
  /\ Starts(p, "command")
  /\ \/ /\ St(p, "stInitialize")
        /\ smtpWriteCommand(p, Command("NOOP"), "stFinished", run[p].v, Buffered(p))
     \/ St(p, "stFinished") /\ Finishes(p, AnyPositive)

(* The states of smtpSendMailStart that read a reply and send a command:    *)
(* the code expected, what is sent, and the state behind it.                *)
sendMailSteps ==
  [stSendStartTls |-> <<250, "STARTTLS", "stStartTls">>,
   stLogin        |-> <<250, "AUTH LOGIN", "stSendLogin">>,
   stSendLogin    |-> <<334, "login", "stSendPassword">>,
   stSendPassword |-> <<334, "password", "stFrom">>,
   stFrom         |-> <<235, "MAIL", "stTo">>,
   stTo           |-> <<250, "RCPT", "stSendData">>,
   stSendData     |-> <<smtpExpectRcpt, "DATA", "stText">>]

(* smtpSendMailStart. *)
smtpSendMailStart(p) ==
  LET v                == run[p].v
      greeted(w, rest) == Goto(p, "stEhlo1", w) /\ SetBuffer(rest)
      upgrade(w, rest) == smtpStepUpgradeTls(p, "stEhlo2", w, rest)
      afterEhlo1       == IF v.call.startTls THEN "stSendStartTls" ELSE "stLogin"
  IN  /\ Starts(p, "sendMail")
      /\ \/ St(p, "stInitialize") /\ aioConnect(p, "stReadGreeting", v) /\ UNCHANGED sock
         \/ St(p, "stReadGreeting") /\ smtpReadResponse(p, 220, greeted)
         \/ St(p, "stEhlo1") /\ smtpWriteCommand(p, Command("EHLO"), afterEhlo1, v, Buffered(p))
         \/ St(p, "stStartTls") /\ smtpReadResponse(p, 220, upgrade)
         \/ St(p, "stEhlo2") /\ smtpWriteCommand(p, Command("EHLO"), "stLogin", v, Buffered(p))
         \/ /\ run[p].st \in DOMAIN sendMailSteps
            /\ LET step == sendMailSteps[run[p].st]
               IN  smtpStepReadWrite(p, step[1], Command(step[2]), step[3])
         \/ St(p, "stText") /\ smtpStepReadWrite(p, 354, MailText(v.call.text), "stFinished")
         \/ St(p, "stFinished") /\ Finishes(p, 250)

aioSmtp(p) == Submit(p, {"start"}, SmtpOp) /\ UNCHANGED sock

SmtpStep ==
  LET p == Client
  IN  \/ aioSmtp(p) \/ smtpConnectStart(p) \/ smtpStartTlsStart(p) \/ smtpLoginStart(p)
      \/ smtpCommandStart(p) \/ smtpSendMailStart(p)
=============================================================================
