------------------------------ MODULE MCCodecs ------------------------------
EXTENDS Codecs

Seed(kind, data, pieces, room) == [kind |-> kind, data |-> data, pieces |-> pieces, room |-> room, hash |-> <<>>, memory |-> 0]
Chars(cs) == {<<c>> : c \in cs}

(* "a:" and then any of  / : @ % 2 F ? # & a *)
UriText == Seed("uri", <<97, 58>>, Chars({47, 58, 64, 37, 50, 70, 63, 35}), 6)
(* "a://h/" and then encoded and plain characters of paths and queries *)
UriPath == Seed("uri", <<97, 58, 47, 47, 104>>,
                {<<47>>, <<97>>, <<61>>, <<38>>, <<63>>, <<37, 50, 53>>, <<37, 50, 102>>, <<35>>}, 5)
(* "a://[" and then groups *)
UriV6 == Seed("uri", <<97, 58, 47, 47, 91>>, {<<58, 58>>, <<49, 58>>, <<48, 58>>, <<49>>, <<48>>, <<102, 48, 58>>, <<49, 46, 48, 46, 48, 46, 50, 93>>, <<93>>}, 5)
UriV6Long == Seed("uri", <<97, 58, 47, 47, 91, 48, 58, 49, 58, 48, 58>>, {<<48, 58>>, <<49, 58>>, <<48, 93>>, <<49, 93>>, <<58>>}, 6)
(* "a://" and then dotted quads and ports *)
UriV4 == Seed("uri", <<97, 58, 47, 47>>, {<<49, 46>>, <<48, 48, 46>>, <<50, 53, 53, 46>>, <<50, 53, 54>>, <<48>>, <<58, 54, 53, 53, 51, 53>>, <<58, 54, 53, 53, 51, 54>>, <<58>>}, 5)

Encodes == Seed("bytes", <<>>, Chars({0, 1, 63, 128, 195, 255}), 5)
Decodes == Seed("text", <<>>, Chars({65, 122, 48, 43, 47, 61, 45}), 5)

Folded == {"a", "b", "cl", "x"}
Name(f, r) == [folded |-> f, raw |-> r]
ReservedNames == <<[name |-> Name("cl", "cl"), id |-> 9]>>
Entry(f, r, id) == <<[name |-> Name(f, r), id |-> id]>>
Entries == {Entry("a", "a", 1), Entry("b", "b", 2), Entry("a", "A", 3), Entry("cl", "cl", 1), Entry("b", "b", 9),
            Entry("", "", 4), Entry("()", "()", 5)}
Table(h, memory) == [kind |-> "table", data |-> <<>>, pieces |-> Entries, room |-> 3, hash |-> h, memory |-> memory]
\* A table of four slots and as many groups takes eight elements.
Tables == {Table(h, 8) : h \in [Folded -> (0..2) \X (0..1)]}
            \union {Table(h, m) : h \in [Folded -> {0, 2} \X (0..1)], m \in 0..7}

AllSeeds == {UriText, UriPath, UriV6, UriV6Long, UriV4, Encodes, Decodes} \union Tables
=============================================================================
