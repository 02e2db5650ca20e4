------------------------------- MODULE Base64 -------------------------------
(***************************************************************************)
(* chef::encoding_base64_op (src/include/chef_base/chef_encoding_base64_   *)
(* op.hpp).  A byte is a number, a character of the alphabet its index; =  *)
(* and every other character are negative numbers.                         *)
(***************************************************************************)
EXTENDS Integers, Sequences, SequencesExt

CONSTANTS
  B64Bytes, B64MaxBytes,    \* what is encoded
  B64Chars, B64MaxChars     \* what is decoded

B64Pad     == -1
B64Invalid == -2

ASSUME B64Assumption ==
  B64Bytes \subseteq 0..255 /\ B64Chars \subseteq 0..63 \cup {B64Pad, B64Invalid}

VARIABLES b64Bytes, b64Chars

b64Vars == <<b64Bytes, b64Chars>>

IsBase64(c) == c >= 0

B64From3(a) ==        \* three bytes to four characters
  <<a[1] \div 4, (a[1] % 4) * 16 + a[2] \div 16, (a[2] % 16) * 4 + a[3] \div 64, a[3] % 64>>
B64Shifted(a) ==      \* deviation: a wrong shift
  <<(a[1] * 4 + ((a[2] \div 4) % 4)) % 256, ((a[2] % 16) * 16 + ((a[3] \div 4) % 16)) % 256,
    ((a[3] % 4) * 64 + a[4]) % 256>>
B64From4(a) ==        \* the + of unsigned characters
  <<(a[1] * 4 + ((a[2] \div 16) % 4)) % 256, ((a[2] % 16) * 16 + ((a[3] \div 4) % 16)) % 256,
    ((a[3] % 4) * 64 + a[4]) % 256>>

B64Groups(s, n) == [i \in 1..Len(s) \div n |-> SubSeq(s, (i - 1) * n + 1, i * n)]
B64Rest(s, n)   == SubSeq(s, Len(s) - (Len(s) % n) + 1, Len(s))
B64Fill(s, n, x) == s \o [i \in 1..n - Len(s) |-> x]

B64Tail(r)     == SubSeq(B64From3(B64Fill(r, 3, 0)), 1, Len(r) + 1)

Encode(s) ==
  LET i == Len(s) % 3 IN
  FlattenSeq([g \in 1..Len(s) \div 3 |-> B64From3(B64Groups(s, 3)[g])])
    \o (IF i = 0 THEN << >> ELSE B64Fill(B64Tail(B64Rest(s, 3)), 4, B64Pad))

B64Valid(s) == \* up to the first = or invalid character
  LET stops == {i \in DOMAIN s : ~IsBase64(s[i])} IN
  IF stops = {} THEN s ELSE SubSeq(s, 1, (CHOOSE i \in stops : \A j \in stops : i <= j) - 1)

B64FilledTail(r) == B64From4(B64Fill(r, 4, 255))     \* find() of 0 is npos, cut to a byte

Decode(s) ==
  LET v == B64Valid(s)
      r == B64Rest(v, 4)
  IN FlattenSeq([g \in 1..Len(v) \div 4 |-> B64From4(B64Groups(v, 4)[g])])
       \o (IF r = << >> THEN << >> ELSE SubSeq(B64FilledTail(r), 1, Len(r) - 1))

B64Init == b64Bytes = << >> /\ b64Chars = << >>
B64EncodeCall(s) == b64Vars = << << >>, << >> >> /\ b64Bytes' = s /\ UNCHANGED b64Chars
B64DecodeCall(s) == b64Vars = << << >>, << >> >> /\ b64Chars' = s /\ UNCHANGED b64Bytes
B64Next == \/ \E s \in SeqOf(B64Bytes, B64MaxBytes) : B64EncodeCall(s)
           \/ \E s \in SeqOf(B64Chars, B64MaxChars) : B64DecodeCall(s)
B64Spec == B64Init /\ [][B64Next]_b64Vars

-----------------------------------------------------------------------------
(***************************************************************************)
(* Decoding gives back what was encoded, whatever is left after the last   *)
(* three bytes, and the text has four characters for each three bytes.     *)
(***************************************************************************)
B64RoundTrip ==
  /\ Decode(Encode(b64Bytes)) = b64Bytes
  /\ Len(Encode(b64Bytes)) = 4 * ((Len(b64Bytes) + 2) \div 3)

(***************************************************************************)
(* Decoding any text: the bytes are as many as whole ones are there before *)
(* the first = or invalid character, and encoding them gives that text     *)
(* again, but for unused bits of its last character.                       *)
(***************************************************************************)
B64DecodesPrefix ==
  LET v == B64Valid(b64Chars)
      n == (6 * Len(v)) \div 8
  IN /\ Len(Decode(b64Chars)) = n
     /\ LET again == Encode(Decode(b64Chars)) IN
        \A i \in 1..(8 * n) \div 6 : again[i] = v[i]

(***************************************************************************)
(* Decoding undoes encoding, and of any other text it decodes what is      *)
(* valid.                                                                  *)
(***************************************************************************)
B64IsCode == B64RoundTrip /\ B64DecodesPrefix
=============================================================================
