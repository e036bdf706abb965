-------------------------------- MODULE Base64 --------------------------------
(***************************************************************************)
(* base64.c as operators: bytes are 0..255, characters their ASCII codes, a *)
(* string ends at its length (where the program has a NUL).                 *)
(***************************************************************************)
EXTENDS Naturals, Sequences

CONSTANT SizeMax   \* SIZE_MAX

base64EncodeTable(n) ==
  IF n < 26 THEN 65 + n ELSE IF n < 52 THEN 71 + n ELSE IF n < 62 THEN n - 4 ELSE IF n = 62 THEN 43 ELSE 47

(* 64 for a character outside the alphabet. *)
base64DecodeTable(c) ==
  IF c \in 65..90 THEN c - 65 ELSE IF c \in 97..122 THEN c - 71 ELSE IF c \in 48..57 THEN c + 4
  ELSE IF c = 43 THEN 62 ELSE IF c = 47 THEN 63 ELSE 64

Pad == 61

(* The length of the prefix that base64Decode consumes. *)
RECURSIVE validPrefix(_)
validPrefix(in) ==
  IF in = <<>> \/ base64DecodeTable(Head(in)) > 63 THEN 0 ELSE 1 + validPrefix(Tail(in))

(* Room for the decoded bytes and a terminator. *)
base64GetDecodeLength(in) == LET n == validPrefix(in) IN (n \div 4) * 3 + ((n % 4) * 3) \div 4 + 1

(* Room for the encoded text and a terminator; 0 when it does not exist. *)
base64getEncodeLength(len) ==
  LET groups == len \div 3 + (IF len % 3 # 0 THEN 1 ELSE 0)
  IN  IF groups > (SizeMax - 1) \div 4 THEN 0 ELSE groups * 4 + 1

(* The three bytes of a group of four characters, as many as it has. *)
decodeGroup(in) ==
  LET d(i) == base64DecodeTable(in[i])
  IN  (IF Len(in) > 1 THEN <<(d(1) * 4 + d(2) \div 16) % 256>> ELSE <<>>)
      \o (IF Len(in) > 2 THEN <<(d(2) * 16 + d(3) \div 4) % 256>> ELSE <<>>)
      \o (IF Len(in) > 3 THEN <<(d(3) * 64 + d(4)) % 256>> ELSE <<>>)

RECURSIVE decodeGroups(_)
decodeGroups(in) ==
  IF Len(in) > 4 THEN decodeGroup(SubSeq(in, 1, 4)) \o decodeGroups(SubSeq(in, 5, Len(in))) ELSE decodeGroup(in)

(* What base64Decode writes, its terminator left out, and what it returns. *)
base64Decode(in) ==
  LET n == validPrefix(in)
  IN  [written |-> decodeGroups(SubSeq(in, 1, n)), size |-> (n \div 4) * 3 + ((n % 4) * 3) \div 4]

(* The second byte of a short last group written without its high bits. *)
RECURSIVE base64EncodeTruncates(_)
base64EncodeTruncates(in) ==
  LET e(n) == base64EncodeTable(n)
  IN  IF in = <<>> THEN <<>>
      ELSE IF Len(in) = 1 THEN <<e(in[1] \div 4), e((in[1] % 4) * 16), Pad, Pad>>
      ELSE IF Len(in) = 2 THEN <<e(in[1] \div 4), e((in[1] % 4) * 16), e((in[2] % 16) * 4), Pad>>
      ELSE <<e(in[1] \div 4), e((in[1] % 4) * 16 + in[2] \div 16), e((in[2] % 16) * 4 + in[3] \div 64), e(in[3] % 64)>>
             \o base64EncodeTruncates(SubSeq(in, 4, Len(in)))

RECURSIVE base64Encode(_)
base64Encode(in) ==
  LET e(n) == base64EncodeTable(n)
  IN  IF in = <<>> THEN <<>>
      ELSE IF Len(in) = 1 THEN <<e(in[1] \div 4), e((in[1] % 4) * 16), Pad, Pad>>
      ELSE IF Len(in) = 2 THEN <<e(in[1] \div 4), e((in[1] % 4) * 16 + in[2] \div 16), e((in[2] % 16) * 4), Pad>>
      ELSE <<e(in[1] \div 4), e((in[1] % 4) * 16 + in[2] \div 16), e((in[2] % 16) * 4 + in[3] \div 64), e(in[3] % 64)>>
             \o base64Encode(SubSeq(in, 4, Len(in)))
=============================================================================
