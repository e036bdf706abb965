------------------------------ MODULE UriParse ------------------------------
(***************************************************************************)
(* The URI parser and builder (p2putils/UriParse.cpp) as operators.  A      *)
(* character is its ASCII code; a position past the end of a string reads   *)
(* as NUL.  A parser takes a string and a position and returns              *)
(* [result, p, out]: its verdict, the position it reached and the           *)
(* components its callback saw, each <<type, value>>.                       *)
(***************************************************************************)
EXTENDS Naturals, Integers, Sequences, FiniteSets, SequencesExt, FiniteSetsExt

NUL == 0
SharpSign == 35
Percent == 37
Ampersand == 38
Dot == 46
Slash == 47
Colon == 58
Equals == 61
Question == 63
AtSign == 64
OpenBracket == 91
CloseBracket == 93

isDigit == 48..57
isLetter == (65..90) \union (97..122)
isHexDigit == isDigit \union (65..70) \union (97..102)
isSubDelims == {33, 36, 38, 39, 40, 41, 42, 43, 44, 59, 61}
isUnreserved == isLetter \union isDigit \union {45, 46, 95, 126}
isPChar == isUnreserved \union isSubDelims \union {Colon, AtSign}
schemeChar == isLetter \union isDigit \union {43, 45, 46}

decodeHex(c) == IF c \in isDigit THEN c - 48 ELSE IF c \in 65..70 THEN c - 55 ELSE c - 87
encodeHex(n) == IF n <= 9 THEN 48 + n ELSE 55 + n

char(s, i) == IF i <= Len(s) THEN s[i] ELSE NUL
Parsed(result, p, out) == [result |-> result, p |-> p, out |-> out]
Bad(p) == Parsed("error", p, <<>>)

(* The first position at or after i whose character is not in set. *)
RECURSIVE skip(_, _, _)
skip(s, i, set) == IF char(s, i) \in set /\ i <= Len(s) THEN skip(s, i + 1, set) ELSE i

(* consumePctEncoded: a '%' and two hexadecimal digits; "need" when the     *)
(* buffer ends inside them.                                                 *)
consumePctEncoded(s, i) ==
  IF char(s, i) # Percent \/ i > Len(s) THEN "invalid"
  ELSE IF i + 1 > Len(s) THEN "need"
  ELSE IF s[i + 1] \notin isHexDigit THEN "invalid"
  ELSE IF i + 2 > Len(s) THEN "need"
  ELSE IF s[i + 2] \notin isHexDigit THEN "invalid" ELSE "accepted"

(* The loop of every scanner: characters of set and encoded ones; need says *)
(* that the string ends inside an encoded one.                              *)
RECURSIVE scan(_, _, _)
scan(s, i, set) ==
  LET j == skip(s, i, set)
      c == consumePctEncoded(s, j)
  IN  IF c = "accepted" THEN scan(s, j + 3, set) ELSE [p |-> j, need |-> c = "need"]

RECURSIVE decimal(_)
decimal(digits) ==
  IF digits = <<>> THEN 0 ELSE 10 * decimal(Front(digits)) + decodeHex(Last(digits))

RECURSIVE hexadecimal(_)
hexadecimal(digits) ==
  IF digits = <<>> THEN 0 ELSE 16 * hexadecimal(Front(digits)) + decodeHex(Last(digits))

(* The loop over a port's digits, which stops once the value is too large. *)
portValue(digits) ==
  FoldLeft(LAMBDA port, c : IF port > 65535 THEN port ELSE 10 * port + decodeHex(c), 0, digits)

Positions(s, i, j, c) == {k \in i..j : s[k] = c}

-----------------------------------------------------------------------------
(* Path, query and fragment.  uriOnly says that the string is a whole URI;  *)
(* otherwise it is what a request parser has of one so far, and a parser    *)
(* that reaches its end needs more.  The position returned is the committed *)
(* one: a caller resumes there.                                             *)

Slice(s, i, j) == SubSeq(s, i, j - 1)

(* uriParsePath: an element per '/', each committed with it, then the last  *)
(* element and the whole path.                                              *)
uriParsePath(s, begin, uriOnly) ==
  LET e        == scan(s, begin, isPChar \union {Slash})
      slashes  == Positions(s, begin, e.p - 1, Slash)
      cuts     == slashes \ {begin}
      from(k)  == IF \E m \in slashes : m < k THEN Max({m \in slashes : m < k}) + 1 ELSE begin
      order    == SetToSortSeq(cuts, <)
      elements == [n \in DOMAIN order |-> <<"uriCtPathElement", Slice(s, from(order[n]), order[n])>>]
      more     == e.need \/ (e.p > Len(s) /\ ~uriOnly)
  IN  IF more THEN Parsed("need", IF cuts = {} THEN begin ELSE Max(cuts), elements)
      ELSE IF e.p = begin THEN Parsed("ok", begin, <<>>)
      ELSE Parsed("ok", e.p, elements \o <<<<"uriCtPathElement", Slice(s, from(e.p), e.p)>>,
                                           <<"uriCtPath", Slice(s, begin, e.p)>>>>)

(* The piece of a query between i and j: the name ends at the last '='. *)
queryElement(s, i, j) ==
  LET eqs == Positions(s, i, j - 1, Equals)
  IN  IF eqs = {} THEN <<>>
      ELSE <<<<"uriCtQueryElement", Slice(s, i, Max(eqs)), Slice(s, Max(eqs) + 1, j)>>>>

(* uriParseQuery: an element per '&' that has a value, committed there.     *)
uriParseQuery(s, begin, uriOnly) ==
  LET e        == scan(s, begin, isPChar \union {Slash, Question})
      cuts     == Positions(s, begin, e.p - 1, Ampersand)
      from(k)  == IF \E m \in cuts : m < k THEN Max({m \in cuts : m < k}) + 1 ELSE begin
      order    == SetToSortSeq(cuts, <)
      elements == FlattenSeq([n \in DOMAIN order |-> queryElement(s, from(order[n]), order[n])])
      commits  == {k \in cuts : queryElement(s, from(k), k) # <<>>}
      more     == e.need \/ (e.p > Len(s) /\ ~uriOnly)
  IN  IF more THEN Parsed("need", IF commits = {} THEN begin ELSE Max(commits), elements)
      ELSE IF e.p = begin THEN Parsed("ok", begin, <<>>)
      ELSE Parsed("ok", e.p, elements \o queryElement(s, from(e.p), e.p) \o <<<<"uriCtQuery", Slice(s, begin, e.p)>>>>)

uriParseFragment(s, begin, uriOnly) ==
  LET e == scan(s, begin, isPChar \union {Slash, Question})
  IN  IF e.need \/ (e.p > Len(s) /\ ~uriOnly) THEN Parsed("need", begin, <<>>)
      ELSE Parsed("ok", e.p, IF e.p = begin THEN <<>> ELSE <<<<"uriCtFragment", Slice(s, begin, e.p)>>>>)

-----------------------------------------------------------------------------
(* Host and authority *)

(* The dotted quad from i: four decimal octets of at most three digits.     *)
(* Leading zeros are the caller's business.                                 *)
RECURSIVE octets(_, _, _)
octets(s, i, n) ==
  LET e      == skip(s, i, isDigit)
      digits == Slice(s, i, e)
      rest   == octets(s, e + 1, n - 1)
  IN  IF digits = <<>> \/ Len(digits) > 3 \/ decimal(digits) > 255 THEN [ok |-> FALSE, p |-> i, list |-> <<>>]
      ELSE IF n = 1 THEN [ok |-> TRUE, p |-> e, list |-> <<digits>>]
      ELSE IF char(s, e) # Dot THEN [ok |-> FALSE, p |-> i, list |-> <<>>]
      ELSE [rest EXCEPT !.list = <<digits>> \o @]

Bytes(quad) == [n \in DOMAIN quad.list |-> decimal(quad.list[n])]

(* The groups behind '::' put where it stands. *)
WidenedBehind(v) == v.head \o v.tail \o [n \in 1..(8 - Len(v.head) - Len(v.tail)) |-> 0]

(* The tail of a literal with '::' filled up from the front. *)
Widened(v) == v.head \o [n \in 1..(8 - Len(v.head) - Len(v.tail)) |-> 0] \o v.tail

(* The groups of an IPv6 literal from position p up to ']'; v collects the  *)
(* groups before and behind '::'.                                           *)
RECURSIVE ipGroups(_, _, _)
ipGroups(s, p, v) ==
  LET count  == Len(v.head) + Len(v.tail)
      e      == skip(s, p, isHexDigit)
      digits == Slice(s, p, e)
      quad   == octets(s, p, 4)
      add(groups) == IF v.compression THEN [v EXCEPT !.tail = @ \o groups] ELSE [v EXCEPT !.head = @ \o groups]
      one    == add(<<hexadecimal(digits)>>)
      b      == Bytes(quad)
  IN  IF char(s, p) = CloseBracket THEN [ok |-> TRUE, p |-> p, v |-> v]
      ELSE IF count = 8 \/ digits = <<>> \/ Len(digits) > 4 THEN [ok |-> FALSE, p |-> p, v |-> v]
      ELSE IF char(s, e) = Dot
        THEN [ok |-> quad.ok /\ char(s, quad.p) = CloseBracket /\ count <= 6, p |-> quad.p,
              v |-> IF quad.ok THEN add(<<256 * b[1] + b[2], 256 * b[3] + b[4]>>) ELSE v]
      ELSE IF char(s, e) = Colon /\ char(s, e + 1) = Colon
        THEN IF v.compression THEN [ok |-> FALSE, p |-> p, v |-> v]
             ELSE ipGroups(s, e + 2, [one EXCEPT !.compression = TRUE])
      ELSE IF char(s, e) = Colon
        THEN IF char(s, e + 1) \in isHexDigit THEN ipGroups(s, e + 1, one) ELSE [ok |-> FALSE, p |-> p, v |-> v]
      ELSE IF char(s, e) = CloseBracket THEN [ok |-> TRUE, p |-> e, v |-> one]
      ELSE [ok |-> FALSE, p |-> p, v |-> v]

(* The address of a literal whose groups are g: eight, or fewer with '::'. *)
ipAddress(i, g) ==
  LET count == Len(g.v.head) + Len(g.v.tail)
  IN  IF ~g.ok \/ (IF g.v.compression THEN count > 7 ELSE count # 8) THEN Bad(i)
      ELSE Parsed("ok", g.p + 1, <<<<"uriCtHostIPv6", Widened(g.v)>>>>)

(* uriParseIpLiteral: i is the position behind '['. *)
uriParseIpLiteral(s, i) ==
  LET leads == char(s, i) = Colon
      v     == [head |-> <<>>, tail |-> <<>>, compression |-> leads]
  IN  IF leads /\ char(s, i + 1) # Colon THEN Bad(i)
      ELSE ipAddress(i, ipGroups(s, IF leads THEN i + 2 ELSE i, v))

(* spanIsIpv4: the whole span is a dotted quad without leading zeros. *)
spanIsIpv4(s, i, e) ==
  LET quad == octets(SubSeq(s, 1, e - 1), i, 4)
  IN  /\ quad.ok
      /\ quad.p = e
      /\ \A n \in DOMAIN quad.list : Len(quad.list[n]) > 1 => quad.list[n][1] # 48

uriParseRegnameHost(s, i) ==
  LET e == scan(s, i, isUnreserved \union isSubDelims).p
  IN  Parsed("ok", e,
        IF e = i THEN <<>>
        ELSE IF spanIsIpv4(s, i, e) THEN <<<<"uriCtHostIPv4", Bytes(octets(s, i, 4))>>>>
        ELSE <<<<"uriCtHostDNS", Slice(s, i, e)>>>>)

uriParseHost(s, i) == IF char(s, i) = OpenBracket THEN uriParseIpLiteral(s, i + 1) ELSE uriParseRegnameHost(s, i)

(* The port behind a host, when there is a colon; need says that it may not *)
(* be empty.                                                                *)
uriParsePort(s, i, need) ==
  LET e == skip(s, i + 1, isDigit)
  IN  IF char(s, i) # Colon THEN Parsed("ok", i, <<>>)
      ELSE IF (need /\ e = i + 1) \/ portValue(Slice(s, i + 1, e)) > 65535 THEN Bad(i)
      ELSE Parsed("ok", e, IF e = i + 1 THEN <<>> ELSE <<<<"uriCtPort", portValue(Slice(s, i + 1, e))>>>>)

(* What follows the part a, unless that was wrong; part takes the position. *)
Followed(a, part(_)) ==
  IF a.result # "ok" THEN a ELSE LET b == part(a.p) IN [b EXCEPT !.out = a.out \o @]

(* A part that is there when the character mark is. *)
Optional(s, sofar, mark, part(_)) ==
  LET marked(p) == IF char(s, p) = mark THEN part(p) ELSE Parsed("ok", p, <<>>) IN Followed(sofar, marked)

uriParseAuthority(s, i) ==
  LET e       == scan(s, i, isUnreserved \union isSubDelims \union {Colon}).p
      user    == IF char(s, e) = AtSign THEN Parsed("ok", e + 1, <<<<"uriCtUserInfo", Slice(s, i, e)>>>>)
                 ELSE Parsed("ok", i, <<>>)
      host(p) == uriParseHost(s, p)
      port(p) == uriParsePort(s, p, FALSE)
  IN  Followed(Followed(user, host), port)

uriParseHierPart(s, i) ==
  LET path(p) == uriParsePath(s, p, TRUE)
  IN  IF char(s, i) = Slash /\ char(s, i + 1) = Slash THEN Optional(s, uriParseAuthority(s, i + 2), Slash, path)
      ELSE uriParsePath(s, i, TRUE)

-----------------------------------------------------------------------------
(* The whole URI *)

(* Nothing may be left of the string. *)
Whole(s, r) == IF r.result # "ok" \/ r.p <= Len(s) THEN Bad(r.p) ELSE r

uriParse(s) ==
  LET e           == skip(s, 1, schemeChar)
      scheme      == Parsed("ok", e + 1, <<<<"uriCtSchema", Slice(s, 1, e)>>>>)
      hier(p)     == uriParseHierPart(s, p)
      query(p)    == uriParseQuery(s, p + 1, TRUE)
      fragment(p) == uriParseFragment(s, p + 1, TRUE)
  IN  IF char(s, 1) \notin isLetter \/ char(s, e) # Colon THEN Bad(1)
      ELSE Whole(s, Optional(s, Optional(s, Followed(scheme, hier), Question, query), SharpSign, fragment))

uriParseHostPort(s) ==
  LET port(p) == IF p = 1 THEN Bad(p) ELSE uriParsePort(s, p, TRUE)
  IN  Whole(s, Followed(uriParseHost(s, 1), port))

(* uriPctDecode: an incomplete encoding stays as it is. *)
RECURSIVE uriPctDecode(_)
uriPctDecode(s) ==
  IF s = <<>> THEN <<>>
  ELSE IF consumePctEncoded(s, 1) = "accepted"
    THEN <<16 * decodeHex(s[2]) + decodeHex(s[3])>> \o uriPctDecode(SubSeq(s, 4, Len(s)))
  ELSE <<s[1]>> \o uriPctDecode(Tail(s))

uriPctEncode(s, extra) ==
  FlattenSeq([i \in DOMAIN s |->
    IF s[i] \in isUnreserved \union isSubDelims \union extra THEN <<s[i]>>
    ELSE <<Percent, encodeHex(s[i] \div 16), encodeHex(s[i] % 16)>>])

NoURI == [schema |-> <<>>, userInfo |-> <<>>, hostType |-> "HostTypeNone", host |-> <<>>, port |-> -1,
          path |-> <<>>, query |-> <<>>, fragment |-> <<>>]

(* stdCb: what each component stores. *)
stdCb(data, c) ==
  CASE c[1] = "uriCtSchema"   -> [data EXCEPT !.schema = c[2]]
    [] c[1] = "uriCtUserInfo" -> [data EXCEPT !.userInfo = uriPctDecode(c[2])]
    [] c[1] = "uriCtHostIPv4" -> [data EXCEPT !.hostType = "HostTypeIPv4", !.host = c[2]]
    [] c[1] = "uriCtHostIPv6" -> [data EXCEPT !.hostType = "HostTypeIPv6", !.host = c[2]]
    [] c[1] = "uriCtHostDNS"  -> [data EXCEPT !.hostType = "HostTypeDNS", !.host = uriPctDecode(c[2])]
    [] c[1] = "uriCtPort"     -> [data EXCEPT !.port = c[2]]
    [] c[1] = "uriCtPath"     -> [data EXCEPT !.path = uriPctDecode(c[2])]
    [] c[1] = "uriCtQuery"    -> [data EXCEPT !.query = uriPctDecode(c[2])]
    [] c[1] = "uriCtFragment" -> [data EXCEPT !.fragment = uriPctDecode(c[2])]
    [] OTHER                  -> data

Uri(parsed) == FoldLeft(stdCb, NoURI, parsed.out)

-----------------------------------------------------------------------------
(* URI::build *)

RECURSIVE xitoa(_)
xitoa(n) == (IF n > 9 THEN xitoa(n \div 10) ELSE <<>>) \o <<48 + (n % 10)>>

RECURSIVE lowerHex(_)
lowerHex(n) == (IF n > 15 THEN lowerHex(n \div 16) ELSE <<>>) \o <<IF (n % 16) > 9 THEN 87 + (n % 16) ELSE 48 + (n % 16)>>

(* The zero groups that '::' replaces, given as <<start, size>>: the        *)
(* longest run of two or more, the first of them; <<9, 0>> for none.        *)
zeroRun(groups) ==
  LET runs == {r \in (1..8) \X (2..8) : /\ r[1] + r[2] <= 9
                                        /\ \A i \in r[1]..(r[1] + r[2] - 1) : groups[i] = 0}
      best == {r \in runs : \A q \in runs : q[2] < r[2] \/ (q[2] = r[2] /\ q[1] >= r[1])}
  IN  IF best = {} THEN <<9, 0>> ELSE CHOOSE r \in best : TRUE

RECURSIVE buildGroups(_, _, _)
buildGroups(groups, i, zero) ==
  IF i > 8 THEN <<>>
  ELSE IF i = zero[1] THEN <<Colon, Colon>> \o buildGroups(groups, i + zero[2], zero)
  ELSE lowerHex(groups[i]) \o (IF i < 8 /\ i + 1 # zero[1] THEN <<Colon>> ELSE <<>>) \o buildGroups(groups, i + 1, zero)

buildHost(u) ==
  CASE u.hostType = "HostTypeIPv4" ->
         xitoa(u.host[1]) \o <<Dot>> \o xitoa(u.host[2]) \o <<Dot>> \o xitoa(u.host[3]) \o <<Dot>> \o xitoa(u.host[4])
    [] u.hostType = "HostTypeIPv6" ->
         <<OpenBracket>> \o buildGroups(u.host, 1, zeroRun(u.host)) \o <<CloseBracket>>
    [] u.hostType = "HostTypeDNS" -> uriPctEncode(u.host, {})
    [] OTHER -> <<>>

build(u) ==
  LET some(part, text) == IF part = <<>> THEN <<>> ELSE text
  IN  some(u.schema, Append(u.schema, Colon))
      \o (IF u.userInfo # <<>> \/ u.hostType # "HostTypeNone" THEN <<Slash, Slash>> ELSE <<>>)
      \o some(u.userInfo, Append(uriPctEncode(u.userInfo, {Colon}), AtSign))
      \o buildHost(u)
      \o (IF u.port >= 0 THEN <<Colon>> \o xitoa(u.port) ELSE <<>>)
      \o uriPctEncode(u.path, {Slash, Colon, AtSign})
      \o some(u.query, <<Question>> \o uriPctEncode(u.query, {Slash, Colon, AtSign, Question}))
      \o some(u.fragment, <<SharpSign>> \o uriPctEncode(u.fragment, {Slash, Colon, AtSign, Question}))
=============================================================================
