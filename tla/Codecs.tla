------------------------------- MODULE Codecs -------------------------------
(***************************************************************************)
(* The pure algorithms of the library on every input of a bounded size: an  *)
(* input starts as one of the seeds and grows piece by piece.               *)
(***************************************************************************)
EXTENDS UriParse, Base64, HeaderTable

CONSTANT Seeds   \* records [kind, data, pieces, room, hash, memory]

VARIABLE input

Init == input \in Seeds

Grow ==
  /\ input.room > 0
  /\ \E piece \in input.pieces : input' = [input EXCEPT !.data = @ \o piece, !.room = @ - 1]

Spec == Init /\ [][Grow]_input

-----------------------------------------------------------------------------
(* A registered name that reads as an address once it is decoded. *)
LooksLikeIpv4(u) == u.hostType = "HostTypeDNS" /\ spanIsIpv4(u.host, 1, Len(u.host) + 1)

Of(type, out) == SelectSeq(out, LAMBDA c : c[1] = type)

(* The path elements a callback saw, put together again. *)
Joined(elements, rooted) ==
  FlattenSeq([i \in DOMAIN elements |-> (IF i > 1 \/ rooted THEN <<Slash>> ELSE <<>>) \o elements[i][2]])

(* The elements uriParse reports make up the path it reports, and building  *)
(* a parsed URI and parsing the result gives the same URI back, whatever    *)
(* had to be encoded, wherever '::' stands in an address: what uriParse     *)
(* accepts, URI::build can express.  A URI without a host is left out of    *)
(* the second: build writes no "//" for it, so that a port or a path of two *)
(* slashes changes its meaning.  uriParseHostPort reads an authority the    *)
(* way uriParse does.                                                       *)
UriRoundTrip ==
  input.kind = "uri" =>
    \E r \in {uriParse(input.data)}, hp \in {uriParseHostPort(SubSeq(input.data, 5, Len(input.data)))} :
      LET u    == Uri(r)
          path == Of("uriCtPath", r.out)
      IN  /\ IsPrefix(<<97, Colon, Slash, Slash>>, input.data) /\ hp.result = "ok" =>
               r.result = "ok" /\ r.out = <<<<"uriCtSchema", <<97>>>>>> \o hp.out
          /\ r.result = "ok" /\ path # <<>> =>
               Joined(Of("uriCtPathElement", r.out), path[1][2][1] = Slash) = path[1][2]
          /\ r.result = "ok" /\ u.hostType # "HostTypeNone" /\ ~LooksLikeIpv4(u) =>
               \E again \in {uriParse(build(u))} : again.result = "ok" /\ Uri(again) = u

(* What base64Encode writes base64Decode reads back, and neither writes     *)
(* more than the room its length function tells the caller to provide, on   *)
(* any string, well formed or not.                                          *)
Base64FitsAndReturns ==
  /\ input.kind = "bytes" =>
       /\ base64Decode(base64Encode(input.data)).written = input.data
       /\ LET room == Len(base64Encode(input.data)) + 1
          IN  base64getEncodeLength(Len(input.data)) = IF room <= SizeMax THEN room ELSE 0
  /\ input.kind = "text" =>
       LET d == base64Decode(input.data)
       IN  Len(d.written) = d.size /\ d.size + 1 = base64GetDecodeLength(input.data)

(* A table that could be built finds every name it was given, in any        *)
(* spelling, under the id it was given, the reserved names included, and    *)
(* knows no other name, whatever collides and wherever memory ran out; a    *)
(* request that repeats a header, takes a reserved one or has a name that   *)
(* is no token is refused, and what is no token is never looked up.         *)
TableFindsItsNames ==
  input.kind = "table" =>
    LET prepared == httpHeaderTablePrepare(input.hash, input.memory, input.data)
        given    == input.data \o Reserved
        names    == {given[i].name.folded : i \in DOMAIN given}
    IN  prepared.table.built =>
          /\ Cardinality(names) = Len(given)
          /\ \A f \in DOMAIN input.hash \union {"", Unfoldable} :
               lookupToken(input.hash, prepared, [folded |-> f, raw |-> "any"])
                 = IF f \notin DOMAIN input.hash THEN ParserResultError
                   ELSE IF f \in names THEN (CHOOSE i \in Range(given) : i.name.folded = f).id ELSE 0
=============================================================================
