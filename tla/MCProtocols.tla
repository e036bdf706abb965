----------------------------- MODULE MCProtocols -----------------------------
EXTENDS Protocols

Cells(tag, n) == [i \in 1..n |-> <<tag, i>>]
NoCalls == [p \in Lanes |-> <<>>]
Call == [kind |-> "none", limit |-> 0, command |-> <<1, 0>>, type |-> "zmtpMessage", payload |-> <<>>, noCopy |-> FALSE]
RecvCall(limit) == [Call EXCEPT !.kind = "recv", !.limit = limit]
BtcSend(command, tag, n, noCopy) ==
  [Call EXCEPT !.kind = "send", !.command = command, !.payload = Cells(tag, n), !.noCopy = noCopy]
ZmtpSend(type, tag, n, noCopy) ==
  [Call EXCEPT !.kind = "send", !.type = type, !.payload = Cells(tag, n), !.noCopy = noCopy]

Scenario(name, sockA, sockB, calls, foreign, frames, wellFormed) ==
  [name |-> name, sock |-> [q \in Peers |-> IF q = "A" THEN sockA ELSE sockB],
   calls |-> calls, foreign |-> foreign, foreignOp |-> SendOpOf([kind |-> "send", payload |-> <<>>]),
   frames |-> frames, wellFormed |-> wellFormed, totals |-> {0, 3}, maxFaults |-> 1, goesOn |-> name = "btc"]

BtcSock(magic) == [magic |-> magic]

BtcOwn ==
  {Scenario("btc", BtcSock("main"), BtcSock(m),
     [NoCalls EXCEPT ![<<"A", "write">>] = <<BtcSend(<<1, 0>>, "a", n1, c1), BtcSend(<<1, 1>>, "b", n2, FALSE)>>,
                     ![<<"B", "read">>] = <<RecvCall(l), RecvCall(2), RecvCall(2)>>],
     <<>>, <<>>, TRUE)
   : m \in {"main", "test"}, n1 \in 0..3, n2 \in 1..2, c1 \in BOOLEAN, l \in 1..2}

Frame(magic, command, n, intact) == [magic |-> magic, command |-> command, payload |-> Cells("f", n), intact |-> intact]
SecondFrame == [magic |-> "main", command |-> <<1, 1>>, payload |-> Cells("g", 1), intact |-> TRUE]
Encoded(f) ==
  HeaderCells([magic |-> f.magic, command |-> f.command, length |-> Len(f.payload),
               checksum |-> IF f.intact THEN f.payload ELSE <<<<"wrong", 0>>>>]) \o f.payload

BtcForeign ==
  {Scenario("btc", BtcSock("main"), BtcSock("main"),
     [NoCalls EXCEPT ![<<"B", "read">>] = <<RecvCall(l), RecvCall(2), RecvCall(2)>>],
     Encoded(f) \o Encoded(SecondFrame), <<f, SecondFrame>>, TRUE)
   : f \in {Frame(m, c, n, s) : m \in {"main", "test"}, c \in Commands, n \in 0..2, s \in BOOLEAN}, l \in 1..2}

ZmtpSock(type) == [type |-> type, needSendMore |-> FALSE]
Shake(kind) == [Call EXCEPT !.kind = kind, !.limit = 8]

ZmtpHello(a, b) ==
  Scenario("zmtp", ZmtpSock(a), ZmtpSock(b),
    [NoCalls EXCEPT ![<<"A", "write">>] = <<Shake("connect")>>, ![<<"B", "read">>] = <<Shake("accept")>>],
    <<>>, <<>>, TRUE)

Faultless(s) == [s EXCEPT !.maxFaults = 0]

\* Whether two types may talk is settled without faults; faults meet one pair of each outcome.
ZmtpHandshakes ==
  {Faultless(ZmtpHello(a, b)) : a \in SocketTypes, b \in SocketTypes}
    \union {ZmtpHello("REQ", b) : b \in {"REP", "PULL"}}

Talk(a, b, t1, n1, c, l) ==
  Scenario("zmtp", ZmtpSock(a), ZmtpSock(b),
    [NoCalls EXCEPT ![<<"A", "write">>] = <<ZmtpSend(t1, "a", n1, c), ZmtpSend("zmtpMessage", "b", 1, FALSE)>>,
                    ![<<"B", "read">>] = <<RecvCall(l), RecvCall(2)>>],
    <<>>, <<>>, TRUE)

ZmtpTalk ==
  UNION {{Talk("REQ", "REP", t1, n1, c, l), Faultless(Talk("PUSH", "PULL", t1, n1, c, l))}
         : t1 \in {"zmtpMessage", "zmtpMessagePart", "zmtpCommand"}, n1 \in {0, 1, 4}, c \in BOOLEAN, l \in {1, 4}}

(* Both directions after a handshake. *)
ZmtpBoth ==
  {Faultless(Scenario("zmtp", ZmtpSock("DEALER"), ZmtpSock("ROUTER"),
     [p \in Lanes |->
        CASE p = <<"A", "write">> -> <<Shake("connect"), ZmtpSend("zmtpMessage", "a", 2, FALSE)>>
          [] p = <<"A", "read">> -> <<RecvCall(2)>>
          [] p = <<"B", "read">> -> <<Shake("accept"), RecvCall(2)>>
          [] p = <<"B", "write">> -> <<ZmtpSend("zmtpMessage", "b", 1, FALSE)>>],
     <<>>, <<>>, TRUE))}

Ready(flags, cells) == FrameHeader(flags, Len(cells)) \o cells
ForeignHello(signature, ready) == signature \o Version \o Greeting \o ready

ZmtpForeign ==
  {Scenario("zmtp", ZmtpSock("PUSH"), ZmtpSock("PULL"),
     [NoCalls EXCEPT ![<<"B", "read">>] = <<Shake("accept")>>], h[1], <<>>, h[2])
   : h \in {<<ForeignHello(Signature, Ready({"command"}, writeReadyCmd("PUSH", TRUE))), TRUE>>,
            <<ForeignHello(Signature, Ready({}, writeReadyCmd("PUSH", TRUE))), FALSE>>,
            <<ForeignHello(Signature, Ready({"command"}, <<<<"name", "READY">>, <<"Identity", "">>>>)), FALSE>>,
            <<ForeignHello(Signature, Ready({"command"}, <<<<"name", "ERROR">>, <<"Socket-Type", "PUSH">>>>)), FALSE>>,
            <<ForeignHello(<<<<"signature", 0>>, <<"signature", 1>>>>, <<>>), FALSE>>}}

MessagingScenarios == BtcOwn \union BtcForeign \union ZmtpHandshakes \union ZmtpTalk \union ZmtpBoth \union ZmtpForeign

-----------------------------------------------------------------------------
(* SMTP *)

SmtpCall(kind) == [kind |-> kind, startTls |-> FALSE, text |-> <<>>]
Mail(startTls, text) == [kind |-> "sendMail", startTls |-> startTls, text |-> text]
SmtpScenario(secure, calls, oddAt, odd) ==
  [name |-> "smtp",
   sock |-> [q \in Peers |->
               IF q = "A" THEN [tls |-> secure, buffer |-> <<>>]
               ELSE [tls |-> secure, said |-> <<>>, heard |-> <<>>, mail |-> <<"none">>]],
   calls |-> [NoCalls EXCEPT ![Client] = calls], oddAt |-> oddAt, odd |-> odd, sslFails |-> FALSE,
   foreign |-> <<>>, totals |-> {3}, maxFaults |-> 0, goesOn |-> FALSE]

Texts == UNION {[1..n -> {".", "CR", "LF", "a"}] : n \in 0..3}

SmtpTexts == {SmtpScenario(FALSE, <<Mail(FALSE, t)>>, 99, "single") : t \in Texts}
SmtpMails == {SmtpScenario(s, <<Mail(~s, <<".">>)>>, at, odd) : s \in BOOLEAN, at \in 0..10, odd \in DOMAIN Shapes}
SmtpSteps == {SmtpScenario(s, <<SmtpCall("connect"), SmtpCall("startTls"), SmtpCall("login"), SmtpCall("command")>>, at, odd) :
                s \in BOOLEAN, at \in 0..5, odd \in DOMAIN Shapes}

\* Faults and a failing sslSocketNew meet the sessions whose replies are all plain.
SmtpPlain == {s \in SmtpMails \union SmtpSteps : s.oddAt = 0 /\ s.odd = "single"}
SmtpFaults == {[s EXCEPT !.maxFaults = 1] : s \in SmtpPlain} \union {[s EXCEPT !.sslFails = TRUE] : s \in SmtpPlain}

SmtpScenarios == SmtpTexts \union SmtpMails \union SmtpSteps \union SmtpFaults

-----------------------------------------------------------------------------
(* HTTP *)

NL == <<CR, LF>>
Field(name, value) == <<name, Colon, SP>> \o value \o NL
Digit(n) == 48 + n
Success(message) == [status |-> "aosSuccess", message |-> message]
Message(cells, due) == [cells |-> cells, due |-> due]

StatusLine(code) == <<HTTP, Version11, SP, Code(code)>>

Body3 == <<97, 98, 99>>
Len3 == Field(ContentLength, <<Digit(3)>>)
Coded(value) == Field(TransferEncoding, value)
Chunks(tail) == <<Digit(2), Semicolon, 120>> \o NL \o <<97, 98>> \o NL \o <<Digit(1)>> \o NL \o <<99>> \o NL \o <<Digit(0)>> \o NL \o tail \o NL

Response(head, due) == Message(StatusLine(200) \o NL \o head, due)
Page(contentType, body) == Success([code |-> 200, contentType |-> contentType, body |-> <<body>>])
FirstResponse == Response(Len3 \o Field(ContentType, <<116>>) \o NL \o Body3, Page(<<<<116>>>>, Body3))

GoodResponses ==
  {Response(NL, Page(<<>>, <<>>)),
   Response(Len3 \o NL \o Body3, Page(<<>>, Body3)),
   FirstResponse,
   Response(Field(ContentType, <<115>>) \o Len3 \o Field(ContentType, <<116, SP>>) \o Len3 \o NL \o Body3, Page(<<<<116>>>>, Body3)),
   Response(Field(ContentType, <<116>>) \o Coded(<<Gzip, Comma, Chunked>>) \o NL \o Chunks(Field(97, <<98>>)), Page(<<<<116>>>>, Body3)),
   Response(Field(ContentLength, <<Digit(0)>>) \o NL, Page(<<>>, <<>>)),
   Message(StatusLine(404) \o <<SP, 79>> \o NL \o NL, Success([code |-> 404, contentType |-> <<>>, body |-> <<<<>>>>]))}

Wrong == Failed("aosUnknownError")
BadResponses ==
  {Response(Len3 \o Coded(<<Chunked>>) \o NL \o Body3, Wrong),
   Response(Coded(<<Chunked>>) \o Len3 \o NL \o Body3, Wrong),
   Response(Coded(<<Gzip>>) \o NL \o Body3, Wrong),
   Response(Coded(<<Chunked, Comma, Gzip>>) \o NL \o Body3, Wrong),
   Response(Len3 \o Field(ContentLength, <<Digit(2)>>) \o NL \o Body3, Wrong),
   Response(Field(ContentLength, <<Digit(3), Digit(2)>>) \o NL \o Body3, Wrong),
   Response(<<97, Colon, LF>> \o NL, Wrong),
   Response(Coded(<<Chunked>>) \o NL \o <<Digit(2)>> \o NL \o Body3 \o NL, Wrong),
   Response(Coded(<<Chunked>>) \o NL \o <<120>> \o NL \o NL, Wrong),
   Message(<<HTTP, Version11, SP, Code(200), 120>> \o NL \o NL, Wrong),
   Message(StatusLine(200) \o <<SP, 79, 75>> \o NL \o NL, Failed("aosBufferTooSmall"))}

Connect == [kind |-> "connect", cells |-> <<>>, refused |-> "none"]
Request == [kind |-> "request", cells |-> Encode(<<MethodGet, SP>>), refused |-> "none"]
Serve(refused) == [kind |-> "serve", cells |-> <<>>, refused |-> refused]

\* A context its caller used before.
UsedContext ==
  httpParseDefaultInit([buffer |-> <<98>>, contentTypeOffset |-> 0, bodyOffset |-> 0, resultCode |-> 500,
                        contentType |-> [data |-> 0, size |-> 1], body |-> [data |-> 0, size |-> 1]])

HttpScenario(serve, calls, messages, faultsToo) ==
  [name |-> "http", serve |-> serve, messages |-> messages,
   sock |-> [q \in Peers |-> IF q = "A" THEN [st |-> httpInit, inBuffer |-> <<>>, context |-> UsedContext] ELSE [sent |-> 0, said |-> <<>>]],
   calls |-> [NoCalls EXCEPT ![HttpLane] = calls], foreign |-> <<>>, totals |-> {3}, maxFaults |-> faultsToo, goesOn |-> FALSE]

HttpResponses ==
  {HttpScenario(FALSE, <<Connect, Request, Request>>, <<FirstResponse, b>>, 0) : b \in GoodResponses \union BadResponses}
    \union {HttpScenario(FALSE, <<Connect, Request>>, <<a>>, 1) : a \in GoodResponses}

-----------------------------------------------------------------------------
Seen(head, body, complete) == [head |-> head, body |-> body, complete |-> complete]
Target == <<MethodGet, SP, SP, Slash, 97, Slash, 98, Question, 99, Equals, 100, Ampersand, 101, Equals, SharpSign, 102, SP, SP>>
TargetSeen == <<<<"method", <<MethodGet>>>>, <<"path", <<97>>>>, <<"path", <<98>>>>, <<"query", <<99>>, <<100>>>>,
                <<"query", <<101>>, <<>>>>, <<"fragment", <<102>>>>, <<"version", Version11>>>>
VersionLine == <<HTTP, Version11>> \o NL
FirstRequest == Message(Target \o VersionLine \o NL, Success(Seen(TargetSeen, <<>>, TRUE)))

GoodRequests ==
  {FirstRequest,
   Message(Target \o VersionLine \o Len3 \o NL \o Body3,
           Success(Seen(Append(TargetSeen, <<"header", <<ContentLength>>, <<Digit(3)>>>>), Body3, TRUE))),
   Message(<<MethodGet, SP, Slash, SP>> \o VersionLine \o Coded(<<Chunked>>) \o NL \o Chunks(<<>>),
           Success(Seen(<<<<"method", <<MethodGet>>>>, <<"path", <<>>>>, <<"version", Version11>>,
                          <<"header", <<TransferEncoding>>, <<Chunked>>>>>>, Body3, TRUE)))}

HttpRequests ==
  {HttpScenario(TRUE, <<Serve("none"), Serve("none")>>, <<a, FirstRequest>>, 0) : a \in GoodRequests}

HttpRefusals ==
  {HttpScenario(TRUE, <<Serve(TargetSeen[k][1])>>,
     <<Message(Target \o VersionLine \o NL,
               [status |-> "aosUnknownError",
                message |-> Seen(SubSeq(TargetSeen, 1, Min({i \in DOMAIN TargetSeen : TargetSeen[i][1] = TargetSeen[k][1]})), <<>>, FALSE)])>>, 0)
   : k \in DOMAIN TargetSeen}

HttpScenarios == HttpResponses \union HttpRequests \union HttpRefusals

-----------------------------------------------------------------------------
TlsCall == [kind |-> "connect", address |-> TRUE, host |-> "fits", n |-> 0, all |-> FALSE, data |-> <<>>, payload |-> <<>>]
Upgrade == [TlsCall EXCEPT !.address = FALSE]
Misnamed(call) == [call EXCEPT !.host = "tooLong"]
SslRead(n, all) == [TlsCall EXCEPT !.kind = "read", !.n = n, !.all = all]
SslWrite(tag, n) == [TlsCall EXCEPT !.kind = "write", !.payload = Cells(tag, n)]

Record(from, to) == <<<<"record", to - from + 1>>>> \o [i \in 1..to - from + 1 |-> <<"s", from + i - 1>>]
Closes == <<<<"close", 0>>>>
Broken == <<<<"bad", 0>>>>

TlsScenario(version, calls, script, faultsToo) ==
  [name |-> "tls", script |-> script,
   sock |-> [q \in Peers |-> IF q = "A" THEN sslSocketNew(version) ELSE [hs |-> "hello", heard |-> <<>>, spoke |-> FALSE]],
   calls |-> [NoCalls EXCEPT ![SslLane] = calls], foreign |-> <<>>, totals |-> {3}, maxFaults |-> faultsToo, goesOn |-> FALSE]

TlsScenarios ==
  {TlsScenario(v, <<c, SslRead(n, all), SslRead(2, all), SslRead(1, FALSE)>>, s, 0)
   : v \in {12, 13}, c \in {TlsCall, Upgrade}, n \in 0..2, all \in BOOLEAN,
     s \in {Record(1, 3), Record(1, 1) \o Record(2, 4), Record(1, 1) \o Record(2, 2) \o Closes, Record(1, 1) \o Broken}}
    \union
  {TlsScenario(v, calls, Record(1, 2), f)
   : v \in {12, 13}, f \in 0..1,
     calls \in {<<SslWrite("a", 2), Upgrade, SslWrite("b", 3), SslRead(2, TRUE), SslWrite("c", 1)>>,
                <<TlsCall, SslWrite("a", 0), SslWrite("b", 4), SslWrite("c", 1)>>,
                <<TlsCall, SslWrite("a", 1), SslWrite("b", 3), SslRead(2, TRUE)>>}}
    \union {TlsScenario(13, <<Upgrade, SslRead(2, TRUE), SslWrite("a", 1)>>, s, 0) : s \in {Broken, Closes}}
    \union
  {TlsScenario(v, calls, Record(1, 2), 0)
   : v \in {12, 13},
     calls \in {<<Misnamed(TlsCall), TlsCall, SslWrite("a", 1), SslRead(2, TRUE)>>,
                <<Misnamed(Upgrade), Upgrade, SslWrite("a", 1), SslRead(2, TRUE)>>,
                <<Misnamed(Upgrade), SslWrite("a", 1), SslRead(1, FALSE)>>}}

AllScenarios == MessagingScenarios \union SmtpScenarios \union HttpScenarios \union TlsScenarios
=============================================================================
