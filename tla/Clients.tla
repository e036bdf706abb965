------------------------------- MODULE Clients -------------------------------
(***************************************************************************)
(* The SMTP client against a mail server, the HTTP client against a web     *)
(* server, the HTTP request parser against a foreign client, and the TLS    *)
(* socket against a TLS server.  An SMTP scenario fixes the client's calls  *)
(* and how the server answers: the reply at position oddAt has the shape    *)
(* odd, every other one is a plain single line.  An HTTP scenario fixes the *)
(* messages and what is to become of them, a TLS scenario the cells the     *)
(* server sends once it may.                                                *)
(***************************************************************************)
EXTENDS Smtp, HttpClient, SslSocket

-----------------------------------------------------------------------------
(* The mail server *)

Server == <<"B", "write">>

ReplyTo(name) ==
  CASE name \in {"greeting", "STARTTLS"} -> 220
    [] name \in {"AUTH LOGIN", "login"}  -> 334
    [] name = "password"                 -> 235
    [] name = "RCPT"                     -> 251
    [] name = "DATA"                     -> 354
    [] OTHER                             -> 250

(* A reply: "c" stands for its code, "2" for 221 and "5" for 500. *)
Shapes ==
  [single       |-> <<"c", " ", "x", "CR", "LF">>,
   bare         |-> <<"c", "CR", "LF">>,
   multi        |-> <<"c", "-", "x", "CR", "LF", "c", " ", "CR", "LF">>,
   multiBare    |-> <<"c", "-", "CR", "LF", "c", "CR", "LF">>,
   refused      |-> <<"5", " ", "CR", "LF">>,
   otherCode    |-> <<"2", " ", "CR", "LF">>,
   ahead        |-> <<"c", "CR", "LF", "2", "CR", "LF">>,
   badSeparator |-> <<"c", "x", "CR", "LF">>,
   noReturn     |-> <<"c", " ", "x", "LF">>,
   mixed        |-> <<"c", "-", "CR", "LF", "5", " ", "CR", "LF">>,
   tooLong      |-> <<"c", "-", "x", "x", "x", "x", "x", "x", "x", "CR", "LF", "c", "CR", "LF">>]

Malformed == {"badSeparator", "noReturn", "mixed", "tooLong"}

CodeCells(code) == [t \in {"c", "2", "5"} |-> CASE t = "c" -> code [] t = "2" -> 221 [] t = "5" -> 500]

Speaks(shape, code, secure) ==
  [i \in DOMAIN Shapes[shape] |->
     LET t == Shapes[shape][i]
     IN  IF t \in {"c", "2", "5"} THEN <<"code", secure, CodeCells(code)[t]>> ELSE <<t, secure, 0>>]

(* The replies a shape amounts to. *)
Told(code, shape) ==
  <<[code |-> code, shape |-> shape]>> \o (IF shape = "ahead" THEN <<[code |-> 221, shape |-> shape]>> ELSE <<>>)

Listening == run[Server].mode # "parked" /\ done[Server] = <<>>

(* The server answers name; its reply goes out as a write that may take     *)
(* several steps.  new is its object with what it has just heard.           *)
Reply(name, new) ==
  LET shape == IF Len(new.said) = protocol.oddAt THEN protocol.odd ELSE "single"
      cells == Speaks(shape, ReplyTo(name), new.tls)
  IN  /\ Listening
      /\ run' = [run EXCEPT ![Server] = [Idle EXCEPT !.mode = "parked",
                                           !.child = [NoChild EXCEPT !.kind = "write", !.cells = cells]]]
      /\ sock' = [sock EXCEPT !["B"] = [new EXCEPT !.said = @ \o Told(cells[1][3], shape),
                                                   !.tls = @ \/ name = "STARTTLS"]]
      /\ UNCHANGED <<protocol, sb, totalSize, todo, done, broken, faults>>

ServerGreets == sock["B"].said = <<>> /\ Reply("greeting", sock["B"]) /\ UNCHANGED kernel

ServerHears ==
  LET heard == kernel["B"][1][2]
  IN  /\ Len(kernel["B"]) >= 2
      /\ kernel["B"][1][1] = "command"
      /\ Reply(heard.name, [sock["B"] EXCEPT !.heard = Append(@, heard)])
      /\ kernel' = [kernel EXCEPT !["B"] = Drop(@, 2)]

LineStart(chars, i) == i = 1 \/ chars[i - 1] = "LF"

(* A mail text ends with the first line that is a dot; the server drops the *)
(* first dot of any other line.                                             *)
ServerTakesMail ==
  LET chars == [i \in DOMAIN kernel["B"] |-> kernel["B"][i][2]]
      ends  == {i \in 1..Len(chars) - 2 : LineStart(chars, i) /\ SubSeq(chars, i, i + 2) = <<".", "CR", "LF">>}
      kept  == SelectSeq([i \in 1..Min(ends) - 1 |-> i], LAMBDA i : ~(LineStart(chars, i) /\ chars[i] = "."))
      text  == [i \in DOMAIN kept |-> chars[kept[i]]]
  IN  /\ kernel["B"] # <<>> /\ kernel["B"][1][1] = "text"
      /\ ends # {}
      /\ Reply("text", [sock["B"] EXCEPT !.heard = Append(@, [name |-> "text", tls |-> sock["B"].tls]), !.mail = text])
      /\ kernel' = [kernel EXCEPT !["B"] = Drop(@, Min(ends) + 2)]

MailServer == ServerGreets \/ ServerHears \/ ServerTakesMail

-----------------------------------------------------------------------------
(* What an SMTP session may look like *)

After(name, tlsOn, codes) == [name |-> name, tls |-> tlsOn, after |-> codes]

(* The commands of the scenario's calls in order, each with the codes that  *)
(* the reply before it may have.                                            *)
CommandsOf(call, before, secure) ==
  CASE call.kind = "connect"  -> <<>>
    [] call.kind = "startTls" -> <<After("STARTTLS", secure, before)>>
    [] call.kind = "login"    -> <<After("AUTH LOGIN", secure, before), After("login", secure, {334}),
                                   After("password", secure, {334})>>
    [] call.kind = "command"  -> <<After("NOOP", secure, before)>>
    [] call.kind = "sendMail" ->
         LET s == secure \/ call.startTls
         IN  <<After("EHLO", secure, {220})>>
             \o (IF call.startTls THEN <<After("STARTTLS", secure, {250}), After("EHLO", TRUE, {220})>> ELSE <<>>)
             \o <<After("AUTH LOGIN", s, {250}), After("login", s, {334}), After("password", s, {334}),
                  After("MAIL", s, {235}), After("RCPT", s, {250}), After("DATA", s, 250..252), After("text", s, {354})>>

Wanted(call) ==
  CASE call.kind \in {"connect", "startTls"} -> {220}
    [] call.kind = "login"    -> {235}
    [] call.kind = "command"  -> 200..399
    [] call.kind = "sendMail" -> {250}

RECURSIVE Script(_, _, _)
Script(calls, before, secure) ==
  IF calls = <<>> THEN <<>>
  ELSE CommandsOf(Head(calls), before, secure)
         \o Script(Tail(calls), Wanted(Head(calls)), secure \/ Head(calls).kind = "startTls")

Session == Script(protocol.calls[Client], {}, protocol.sock["A"].tls)

(* The calls that have returned, and the number of replies they took. *)
Replies(n) == 1 + Len(Script(SubSeq(protocol.calls[Client], 1, n), {}, FALSE))

Upgrades(call) == call.kind = "startTls" \/ call.startTls

Obeys(k, codes) ==
  /\ k <= Len(sock["B"].said)
  /\ sock["B"].said[k].shape \notin Malformed
  /\ sock["B"].said[k].code \in codes

(* The server hears the commands of the session in order, each only when    *)
(* the reply in that position was well formed and carried the code that     *)
(* allows it, credentials and mail through TLS once STARTTLS was asked for; *)
(* a call succeeds only when its last reply did.  It fails only when a      *)
(* reply was at fault, when TLS was asked for twice or could not be set up, *)
(* or with the status of the timeout or the lost connection that struck it. *)
RepliesObeyed ==
  protocol.name = "smtp" =>
    LET heard   == sock["B"].heard
        session == Session
        said    == sock["B"].said
        results == done[Client]
    IN  /\ \A k \in DOMAIN heard :
             /\ k \in DOMAIN session
             /\ heard[k].name = session[k].name
             /\ heard[k].tls = session[k].tls
             /\ k > 1 \/ session[1].after # {} => Obeys(k, session[k].after)
        /\ \A n \in DOMAIN results :
             /\ results[n].status = "aosSuccess" =>
                  /\ Obeys(Replies(n), Wanted(protocol.calls[Client][n]))
                  /\ results[n].message = said[Replies(n)].code
             /\ results[n].status # "aosSuccess" =>
                  \/ faults > 0 /\ results[n].status \in {"aosTimeout", "aosDisconnected", "aosUnknownError"}
                  \/ /\ protocol.oddAt < Len(said)
                     /\ protocol.odd \in Malformed \union {"refused", "otherCode", "ahead"}
                  \/ (protocol.sock["A"].tls \/ protocol.sslFails) /\ Upgrades(protocol.calls[Client][n])

(* Once the session runs over TLS, nothing the client has yet to interpret  *)
(* came in before the handshake: whatever a server, or somebody in its      *)
(* place, sent behind the STARTTLS reply is refused, never taken for the    *)
(* reply to a command that went through TLS.                                *)
SecureAfterUpgrade ==
  (protocol.name = "smtp" /\ sock["A"].tls) =>
     \A i \in DOMAIN sock["A"].buffer : sock["A"].buffer[i][2]

(* The text with every line ending written as CRLF, the last one supplied. *)
Normalised(text) ==
  FlattenSeq([i \in DOMAIN text |->
                IF text[i] = "LF" /\ i > 1 /\ text[i - 1] = "CR" THEN <<>>
                ELSE IF text[i] \in {"CR", "LF"} THEN <<"CR", "LF">>
                ELSE <<text[i]>>])
    \o (IF text # <<>> /\ text[Len(text)] \notin {"CR", "LF"} THEN <<"CR", "LF">> ELSE <<>>)

Mails == SelectSeq(protocol.calls[Client], LAMBDA c : c.kind = "sendMail")

(* The mail a server reads back from the DATA phase is the caller's text,   *)
(* line by line, wherever dots and bare line endings stand in it, and the   *)
(* server finds nothing behind its end.                                     *)
MailArrives ==
  (protocol.name = "smtp" /\ sock["B"].mail # <<"none">>) =>
     /\ sock["B"].mail = Normalised(Mails[1].text)
     /\ kernel["B"] = <<>>

-----------------------------------------------------------------------------
(* HTTP peers *)

(* The other side: it answers a request, two cells, with the next message   *)
(* or, where A serves, sends its requests one behind the other.             *)
WebPeerSends(cells, taken) ==
  /\ Listening
  /\ Len(kernel["B"]) >= taken
  /\ kernel' = [kernel EXCEPT !["B"] = Drop(@, taken)]
  /\ sock' = [sock EXCEPT !["B"].sent = @ + 1]
  /\ run' = [run EXCEPT ![Server] = [Idle EXCEPT !.mode = "parked",
                                       !.child = [NoChild EXCEPT !.kind = "write", !.cells = Encode(cells)]]]
  /\ UNCHANGED <<protocol, sb, totalSize, todo, done, broken, faults>>

WebPeer ==
  LET sent == sock["B"].sent
      all  == [i \in DOMAIN protocol.messages |-> protocol.messages[i].cells]
  IN  \/ protocol.serve /\ sent = 0 /\ WebPeerSends(FlattenSeq(all), 0)
      \/ ~protocol.serve /\ sent < Len(all) /\ WebPeerSends(all[sent + 1], 2)

(* The results due: those of the messages up to the first one refused. *)
Due ==
  LET due == [i \in DOMAIN protocol.messages |-> protocol.messages[i].due]
  IN  SubSeq(due, 1, Min({Len(due)} \union {i \in DOMAIN due : due[i].status # "aosSuccess"}))

(* The results given, the connect's left out. *)
Gave ==
  LET all == done[HttpLane]
  IN  IF protocol.calls[HttpLane][1].kind = "connect" /\ all # <<>> THEN Tail(all) ELSE all

Settled ==
  /\ \A n \in DOMAIN Gave :
       \/ faults > 0 /\ Gave[n].status \in {"aosTimeout", "aosDisconnected"}
       \/ n \in DOMAIN Due /\ Gave[n] = Due[n]
  /\ (run[HttpLane].mode = "idle" /\ todo[HttpLane] = <<>> /\ faults = 0) => Len(Gave) = Len(Due)

(* An HTTP message gives what it was made from, wherever the pieces were    *)
(* cut, in whatever framing, and however little the buffer held: a response *)
(* its code, content type and body, a request its components in order, once *)
(* each, with the body up to one DataLast, and what follows is the next     *)
(* message.  A malformed one, or one whose line fills the buffer, is        *)
(* refused; nothing is reported behind a component the callback refused,    *)
(* and a message cut short by a fault never succeeds.                       *)
HttpDelivered == protocol.name = "http" => Settled

-----------------------------------------------------------------------------
(* The TLS server *)

(* It takes n cells off the wire and, if it has something to say, says it.  *)
TlsServerTakes(n, new, cells) ==
  /\ Listening
  /\ kernel' = [kernel EXCEPT !["B"] = Drop(@, n)]
  /\ sock' = [sock EXCEPT !["B"] = new]
  /\ run' = IF cells = <<>> THEN run
            ELSE [run EXCEPT ![Server] = [Idle EXCEPT !.mode = "parked",
                                            !.child = [NoChild EXCEPT !.kind = "write", !.cells = cells]]]
  /\ UNCHANGED <<protocol, sb, totalSize, todo, done, broken, faults>>

(* The cells it sends once the handshake lets it, which in TLS 1.3 is right *)
(* behind its flight.                                                       *)
TlsServerSpeaks ==
  /\ ~sock["B"].spoke
  /\ sock["B"].hs = "done" \/ (sock["B"].hs = "finished" /\ sock["A"].version = 13)
  /\ TlsServerTakes(0, [sock["B"] EXCEPT !.spoke = TRUE], protocol.script)

TlsServerHears ==
  LET in == kernel["B"]
      b  == sock["B"]
  IN  /\ in # <<>>
      /\ \/ /\ in[1][1] = "hello" /\ b.hs = "hello"
            /\ TlsServerTakes(1, [b EXCEPT !.hs = "finished"], <<<<"flight", 0>>, <<"flight", 0>>>>)
         \/ /\ in[1][1] = "finished" /\ b.hs = "finished"
            /\ TlsServerTakes(1, [b EXCEPT !.hs = "done"],
                              IF sock["A"].version = 13 THEN <<<<"ticket", 0>>>> ELSE <<<<"finished", 0>>>>)
         \/ /\ in[1][1] = "record" /\ b.hs = "done" /\ Len(in) > in[1][2]
            /\ TlsServerTakes(in[1][2] + 1, [b EXCEPT !.heard = @ \o SubSeq(in, 2, in[1][2] + 1)], <<>>)

TlsServer == TlsServerSpeaks \/ TlsServerHears

Called == protocol.calls[SslLane]
Answers == done[SslLane]
Succeeded(n) == n \in DOMAIN Answers /\ Answers[n].status = "aosSuccess"

(* The payload of the writes whose position is in S, in the order of the    *)
(* calls.                                                                   *)
Written(S) ==
  FlattenSeq([n \in DOMAIN Called |-> IF n \in S /\ Called[n].kind = "write" THEN Called[n].payload ELSE <<>>])

Refused == {n \in DOMAIN Answers : Answers[n].status = "aosUnknownError"}

(* The plaintext of the server's script up to a cell that ends the stream,  *)
(* and how it ends.                                                         *)
Endings == {i \in DOMAIN protocol.script : protocol.script[i][1] \in {"close", "bad"}}
Said == SelectSeq(IF Endings = {} THEN protocol.script ELSE Take(protocol.script, Min(Endings)), LAMBDA c : c[1] = "s")
EndsWith(tag) == Endings # {} /\ protocol.script[Min(Endings)][1] = tag
Read == FlattenSeq([n \in DOMAIN Answers |-> IF Called[n].kind = "read" THEN Answers[n].message ELSE <<>>])

(* Nothing is on its way in either direction. *)
TlsQuiet ==
  /\ run[Server].mode # "parked" /\ sock["B"].spoke
  /\ run[SslLane].mode = "idle" \/ Parked(SslLane, "read")
  /\ \A q \in Peers : kernel[q] = <<>>
  /\ sock["A"].detached = <<>>
  /\ faults = 0
TlsWaits(kind) == run[SslLane].mode = "parked" /\ Op(SslLane).kind = kind

(* A handshake is reported complete only when its last message has left the *)
(* client, so that the server can complete it too, and none stalls with     *)
(* each side waiting for the other.  Whatever the cuts of records and of    *)
(* reads, the reads give the server's plaintext in order, nothing twice and *)
(* nothing left out, each as much as was asked for; one ends with           *)
(* aosDisconnected only behind the whole of it, and none waits for what has *)
(* already arrived.  The server gets the payload of the writes in order,    *)
(* none of a write that was refused, and all of one that succeeded unless   *)
(* the connection broke.                                                    *)
TlsDelivered ==
  protocol.name = "tls" =>
    /\ \A n \in DOMAIN Answers : (Called[n].kind = "connect" /\ Succeeded(n)) =>
         sock["B"].hs = "done" \/ <<"finished", 0>> \in Range(kernel["B"])
    /\ TlsQuiet => ~TlsWaits("connect")
    /\ IsPrefix(Read, Said)
    /\ \A n \in DOMAIN Answers : Called[n].kind = "read" =>
         /\ Succeeded(n) =>
              Len(Answers[n].message) \in (IF Called[n].all THEN Called[n].n ELSE Min({1, Called[n].n}))..Called[n].n
         /\ (Answers[n].status = "aosDisconnected" /\ faults = 0) => EndsWith("close") /\ Read = Said
    /\ (TlsQuiet /\ TlsWaits("read")) => Read \o Op(SslLane).data = Said /\ Endings = {}
    /\ IsPrefix(sock["B"].heard, Written(DOMAIN Called \ Refused))
    /\ (TlsQuiet /\ run[SslLane].mode = "idle") => sock["B"].heard = Written(DOMAIN Answers \ Refused)
=============================================================================
