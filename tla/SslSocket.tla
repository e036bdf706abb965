----------------------------- MODULE SslSocket -----------------------------
(***************************************************************************)
(* The TLS socket (asyncio/socketSSL.c): OpenSSL between two memory BIOs,   *)
(* moved to and from the plain socket by connectProc, readProc, writeProc   *)
(* and their in-place counterparts.  The socket is peer "A"; connects,      *)
(* reads and writes share one serialized lane, <<"A", "write">>.  The TLS   *)
(* server, peer "B", is the environment.                                    *)
(*                                                                          *)
(* On the wire, a record is a cell <<"record", k>> followed by its k cells  *)
(* of payload; <<"hello", 0>>, <<"flight", 0>>, <<"finished", 0>>,          *)
(* <<"ticket", 0>> and <<"close", 0>> are the other messages of TLS, and    *)
(* any other cell is one that does not decrypt.                             *)
(***************************************************************************)
EXTENDS StreamIo

CONSTANTS
  SslReadBuffer,   \* sslReadBufferSize, in cells
  RecordMax,       \* payload cells of one record
  IntMax           \* INT_MAX, in cells of ciphertext

SslLane == <<"A", "write">>

-----------------------------------------------------------------------------
(* OpenSSL, as the socket uses it.  tls is the SSL object with its BIOs:    *)
(* hs is the state of the handshake, pending holds decrypted payload that   *)
(* was not asked for yet, dead is the sticky end of the stream; detached    *)
(* holds what aioWrite was given without a callback.                        *)

sslSocketNew(version) ==
  [version |-> version, hs |-> "none", bioIn |-> <<>>, bioOut |-> <<>>, pending |-> <<>>, dead |-> "no",
   detached |-> <<>>]

SSL_set_connect_state(tls) == [tls EXCEPT !.hs = "hello"]

(* The messages of the handshake in order: what the client waits for in a   *)
(* state, what it then says, and the state behind it.                       *)
handshakeStep(tls) ==
  CASE tls.hs = "hello"    -> [await |-> <<>>, say |-> <<<<"hello", 0>>>>, next |-> "flight"]
    [] tls.hs = "flight"   -> [await |-> <<"flight", "flight">>, say |-> <<<<"finished", 0>>>>,
                               next |-> IF tls.version = 13 THEN "done" ELSE "finished"]
    [] tls.hs = "finished" -> [await |-> <<"finished">>, say |-> <<>>, next |-> "done"]

(* SSL_connect: go on as far as the input allows. *)
RECURSIVE SSL_connect(_)
SSL_connect(tls) ==
  LET h    == handshakeStep(tls)
      n    == Len(h.await)
      seen == Min({n, Len(tls.bioIn)})
  IN  IF tls.dead # "no" THEN [tls |-> tls, result |-> "SSL_ERROR_SSL"]
      ELSE IF tls.hs = "done" THEN [tls |-> tls, result |-> "connected"]
      ELSE IF \E i \in 1..seen : tls.bioIn[i][1] # h.await[i]
        THEN [tls |-> [tls EXCEPT !.dead = "fatal"], result |-> "SSL_ERROR_SSL"]
      ELSE IF seen < n THEN [tls |-> tls, result |-> "SSL_ERROR_WANT_READ"]
      ELSE SSL_connect([tls EXCEPT !.bioIn = Drop(@, n), !.bioOut = @ \o h.say, !.hs = h.next])

(* SSL_set_tlsext_host_name refuses a name too long for the extension. *)
SSL_set_tlsext_host_name(host) == host # "tooLong"

(* SSL_read, called until it gives nothing more: payload up to n cells,     *)
(* with the error that stopped it.  A record is decrypted once all of it    *)
(* is there; a handshake that was begun is carried on first.                *)
RECURSIVE SSL_read(_, _, _)
SSL_read(tls, have, n) ==
  LET some == Min({n - Len(have), Len(tls.pending)})
      in   == tls.bioIn
      c    == SSL_connect(tls)
      End(t, error) == [tls |-> t, data |-> have, error |-> error]
  IN  IF Len(have) = n THEN End(tls, "SSL_ERROR_NONE")
      ELSE IF some > 0
        THEN SSL_read([tls EXCEPT !.pending = Drop(@, some)], have \o Take(tls.pending, some), n)
      ELSE IF tls.dead = "closed" THEN End(tls, "SSL_ERROR_ZERO_RETURN")
      ELSE IF tls.dead = "fatal" \/ tls.hs = "none" THEN End(tls, "SSL_ERROR_SSL")
      ELSE IF tls.hs # "done"
        THEN IF c.result = "connected" THEN SSL_read(c.tls, have, n) ELSE End(c.tls, c.result)
      ELSE IF in = <<>> \/ (in[1][1] = "record" /\ Len(in) <= in[1][2]) THEN End(tls, "SSL_ERROR_WANT_READ")
      ELSE CASE in[1][1] = "record" ->
                  SSL_read([tls EXCEPT !.pending = SubSeq(in, 2, in[1][2] + 1), !.bioIn = Drop(in, in[1][2] + 1)], have, n)
             [] in[1][1] = "ticket" -> SSL_read([tls EXCEPT !.bioIn = Tail(in)], have, n)
             [] in[1][1] = "close"  -> SSL_read([tls EXCEPT !.bioIn = Tail(in), !.dead = "closed"], have, n)
             [] OTHER               -> SSL_read([tls EXCEPT !.dead = "fatal"], have, n)

(* SSL_write: frame as much of data as one record takes, behind a handshake *)
(* that was begun; 0 if that is not complete or the stream has failed.      *)
SSL_write(tls, data) ==
  LET t == IF tls.hs \in {"none", "done"} THEN tls ELSE SSL_connect(tls).tls
      n == IF t.hs = "done" /\ t.dead # "fatal" THEN Min({RecordMax, Len(data)}) ELSE 0
  IN  [tls |-> IF n = 0 THEN t ELSE [t EXCEPT !.bioOut = @ \o <<<<"record", n>>>> \o Take(data, n)], n |-> n]

-----------------------------------------------------------------------------
(* Between the BIOs and the plain socket *)

(* copyFromOut: the ciphertext to send, refused when it is longer than an   *)
(* int can say.                                                             *)
copyFromOut(tls) ==
  IF Len(tls.bioOut) > IntMax
    THEN [ok |-> FALSE, cells |-> <<>>, tls |-> tls]
    ELSE [ok |-> TRUE, cells |-> tls.bioOut, tls |-> [tls EXCEPT !.bioOut = <<>>]]

(* sslWriteAll: SSL_write may frame only part of the payload. *)
RECURSIVE sslWriteAll(_, _)
sslWriteAll(tls, data) ==
  LET w == SSL_write(tls, data)
  IN  IF data = <<>> THEN [tls |-> tls, ok |-> TRUE]
      ELSE IF w.n = 0 THEN [tls |-> w.tls, ok |-> FALSE]
      ELSE sslWriteAll(w.tls, Drop(data, w.n))

Op(p) == run[p].v

(* The SSL object with what the last read brought (sslConnectReadCb,        *)
(* sslReadReadCb: BIO_write into bioIn).                                    *)
Fed(p) == [sock["A"] EXCEPT !.bioIn = @ \o run[p].got]

Tls(tls) == sock' = [sock EXCEPT !["A"] = tls]

(* The operation finishes; the caller goes on with its next call whatever   *)
(* the status, for the end of a TLS stream is sticky.                       *)
Answered(p, status, data) ==
  /\ run' = [run EXCEPT ![p] = Idle]
  /\ done' = [done EXCEPT ![p] = Append(@, [status |-> status, message |-> data])]
  /\ UNCHANGED <<protocol, kernel, sb, totalSize, todo, broken, faults>>

-----------------------------------------------------------------------------
(* connectProc *)

(* Slip: success as soon as OpenSSL has queued the final flight. *)
connectedUnflushed(p, tls) == Tls(tls) /\ Answered(p, "aosSuccess", <<>>)

(* The handshake is complete on this side: what OpenSSL still has to say is *)
(* sent, and success reported when the socket has taken it.                 *)
connected(p, tls) ==
  LET out == copyFromOut(tls)
  IN  /\ Tls(out.tls)
      /\ CASE ~out.ok           -> Answered(p, "aosUnknownError", <<>>)
           [] out.cells # <<>>  -> implWrite(p, out.cells, "sslStFinalFlight", Op(p))
           [] OTHER             -> Answered(p, "aosSuccess", <<>>)

(* The handshake needs input: an aioWrite nobody waits for, and an aioRead  *)
(* whose callback runs connectProc again.                                   *)
exchange(p, tls) ==
  LET out == copyFromOut(tls)
  IN  /\ Tls([out.tls EXCEPT !.detached = @ \o out.cells])
      /\ IF out.ok THEN implRead(p, SslReadBuffer, FALSE, "sslStProcessing", Op(p))
         ELSE Answered(p, "aosUnknownError", <<>>)

connectProc(p) ==
  LET c == SSL_connect(Fed(p))
  IN  /\ Op(p).kind = "connect"
      /\ \/ /\ run[p].st = "stInitialize"
            /\ Tls(SSL_set_connect_state(sock["A"]))
            /\ IF ~SSL_set_tlsext_host_name(Op(p).host) THEN Answered(p, "aosUnknownError", <<>>)
               ELSE IF Op(p).address THEN aioConnect(p, "sslStProcessing", Op(p))
               ELSE Goto(p, "sslStProcessing", Op(p))
         \/ /\ run[p].st = "sslStProcessing"
            /\ CASE c.result = "connected"           -> connected(p, c.tls)
                 [] c.result = "SSL_ERROR_WANT_READ" -> exchange(p, c.tls)
                 [] OTHER                            -> Tls(c.tls) /\ Answered(p, "aosUnknownError", <<>>)
         \/ /\ run[p].st = "sslStFinalFlight"
            /\ Answered(p, "aosSuccess", <<>>)
            /\ UNCHANGED sock

(* The write nobody waits for makes progress while the handshake lasts; the *)
(* connect's cancel procedure would cancel it too.                          *)
detachedWrite ==
  /\ run[SslLane].mode = "parked"
  /\ ~broken
  /\ \E k \in 1..Len(sock["A"].detached) :
       /\ kernel' = [kernel EXCEPT !["B"] = @ \o Take(sock["A"].detached, k)]
       /\ sock' = [sock EXCEPT !["A"].detached = Drop(@, k)]
  /\ UNCHANGED <<protocol, sb, totalSize, run, todo, done, broken, faults>>

-----------------------------------------------------------------------------
(* Reads and writes *)

enough(data, call) == Len(data) = call.n \/ (data # <<>> /\ ~call.all)

(* readProc and implSslRead: decrypt what there is; only the want of input  *)
(* is a reason to read the socket.  data is op->bytesTransferred.           *)
sslRead(p) ==
  LET r == SSL_read(Fed(p), Op(p).data, Op(p).n)
  IN  /\ Tls(r.tls)
      /\ IF enough(r.data, Op(p)) THEN Answered(p, "aosSuccess", r.data)
         ELSE CASE r.error = "SSL_ERROR_WANT_READ" ->
                     implRead(p, SslReadBuffer, FALSE, "sslStProcessing", [Op(p) EXCEPT !.data = r.data])
                [] r.error = "SSL_ERROR_ZERO_RETURN" -> Answered(p, "aosDisconnected", r.data)
                [] r.error = "SSL_ERROR_SSL"         -> Answered(p, "aosUnknownError", r.data)

implSslRead(p) == run[p].mode = "inline" /\ Op(p).kind = "read" /\ sslRead(p)
readProc(p) == run[p].mode = "start" /\ Op(p).kind = "read" /\ sslRead(p)

(* The first run of a write: a payload that cannot be framed whole is an    *)
(* error, and what was framed of it is not sent.                            *)
sslWrite(p) ==
  LET w   == sslWriteAll(sock["A"], Op(p).payload)
      out == copyFromOut(w.tls)
  IN  CASE ~w.ok            -> Tls(w.tls) /\ Answered(p, "aosUnknownError", <<>>)
        [] w.ok /\ ~out.ok  -> Tls(w.tls) /\ Answered(p, "aosUnknownError", <<>>)
        [] OTHER            -> Tls(out.tls) /\ implWrite(p, out.cells, "sslStProcessing", Op(p))

(* A write whose implWrite returned in place, or whose child is done. *)
written(p) == run[p].st = "sslStProcessing" /\ Answered(p, "aosSuccess", <<>>) /\ UNCHANGED sock

implSslWrite(p) ==
  /\ run[p].mode = "inline" /\ Op(p).kind = "write"
  /\ (run[p].st = "stInitialize" /\ sslWrite(p)) \/ written(p)

writeProc(p) ==
  /\ run[p].mode = "start" /\ Op(p).kind = "write"
  /\ (run[p].st = "stInitialize" /\ sslWrite(p)) \/ written(p)

(* The calls: a connect is always pushed to the combiner; a read or a write *)
(* runs in place when the lane is free.                                     *)
allocSslOp(mode, call) == call
aioSslConnect ==
  todo[SslLane] # <<>> /\ Head(todo[SslLane]).kind = "connect" /\ Submit(SslLane, {"start"}, allocSslOp) /\ UNCHANGED sock
aioSslRead ==
  todo[SslLane] # <<>> /\ Head(todo[SslLane]).kind = "read" /\ Submit(SslLane, {"inline", "start"}, allocSslOp) /\ UNCHANGED sock
aioSslWrite ==
  todo[SslLane] # <<>> /\ Head(todo[SslLane]).kind = "write" /\ Submit(SslLane, {"inline", "start"}, allocSslOp) /\ UNCHANGED sock

SslStep ==
  \/ aioSslConnect \/ aioSslRead \/ aioSslWrite \/ detachedWrite
  \/ Running(SslLane) /\ (connectProc(SslLane) \/ implSslRead(SslLane) \/ readProc(SslLane)
                            \/ implSslWrite(SslLane) \/ writeProc(SslLane))
=============================================================================
