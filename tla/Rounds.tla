------------------------------- MODULE Rounds -------------------------------
(***************************************************************************)
(* Compressing a block: md5_process (crypto_md5_op), SHA1Transform         *)
(* (crypto_sha1_op) and ProcessMessageBlock (crypto_sha256_op), a round a  *)
(* step.  What is modelled is where each round reads and writes.  The code *)
(* renames the registers of md5 and sha1 from a round to the next instead  *)
(* of moving them, expands the message of sha1 in place, in sixteen words, *)
(* and that of sha256 before the rounds, in 48 lines written out one by    *)
(* one, each with indices of its own.                                      *)
(*                                                                         *)
(* A register holds the number of the round that wrote it (the words the   *)
(* block began with count as rounds -1, -2, ...), and whether it has been  *)
(* rotated since.  A word of the message holds its number, or RdUnset.     *)
(***************************************************************************)
EXTENDS Integers, Sequences

VARIABLES
  rdKind,       \* "md5", "sha1" or "sha256"
  rdRound,      \* the rounds done
  rdRegs,       \* the registers, in the order of the source
  rdWords,      \* the words of the message, from 0
  rdExpanded,   \* the words there are: of sha256 16, then one more with each line
  rdRead        \* history: the registers and the words the last round read

rdVars == <<rdKind, rdRound, rdRegs, rdWords, rdExpanded, rdRead>>

Written(n) == [by |-> n, rotated |-> FALSE]
Rotated(r) == [r EXCEPT !.rotated = TRUE]

RdLength  == [md5 |-> 64, sha1 |-> 80, sha256 |-> 64]
RdNothing == [regs |-> << >>, words |-> << >>]

Md5Load    == [i \in 0..15 |-> i]          \* X
SHA1Load   == [i \in 0..15 |-> i]          \* block->l, copied
RdUnset    == -1

\* the first of the four bytes that W[0] to W[15] are made of
Sha256Bytes == <<0, 4, 8, 12, 16, 20, 24, 28, 32, 36, 40, 44, 48, 52, 56, 60>>
Sha256Load  == [i \in 0..63 |-> IF i < 16 THEN Sha256Bytes[i + 1] \div 4 ELSE RdUnset]

\* the order in which a register list of the source names n registers at round i
Listed(n, i) == [j \in 1..n |-> ((j - 1 - i) % n) + 1]

(***************************************************************************)
(* md5: the words each round of sixteen takes, as SET is called            *)
(***************************************************************************)
Md5Round1 == <<0, 1, 2, 3, 4, 5, 6, 7, 8, 9, 10, 11, 12, 13, 14, 15>>
Md5Round2 == <<1, 6, 11, 0, 5, 10, 15, 4, 9, 14, 3, 8, 13, 2, 7, 12>>
Md5Round3 == <<5, 8, 11, 14, 1, 4, 7, 10, 13, 0, 3, 6, 9, 12, 15, 2>>
Md5Round4 == <<0, 7, 14, 5, 12, 3, 10, 1, 8, 15, 6, 13, 4, 11, 2, 9>>

Md5Set ==        \* a = b + (a + F(b, c, d) + X[k] + Ti, rotated)
  LET a == Listed(4, rdRound)
      k == (Md5Round1 \o Md5Round2 \o Md5Round3 \o Md5Round4)[rdRound + 1]
  IN /\ rdKind = "md5" /\ rdRound < RdLength.md5
     /\ rdRead' = [regs |-> [j \in 1..4 |-> rdRegs[a[j]]], words |-> <<rdWords[k]>>]
     /\ rdRegs' = [rdRegs EXCEPT ![a[1]] = Written(rdRound)]
     /\ rdRound' = rdRound + 1
     /\ UNCHANGED <<rdKind, rdWords, rdExpanded>>

(***************************************************************************)
(* sha1: R0 takes a word of the block, R1 to R4 expand one in its place    *)
(***************************************************************************)
Ring(i)    == <<(i + 13) % 16, (i + 8) % 16, (i + 2) % 16, i % 16>>

SHA1R(v) ==      \* v, w, x, y, z are the registers as the call lists them
  LET i     == rdRound
      words == IF i < 16 THEN <<rdWords[i]>> ELSE [j \in 1..4 |-> rdWords[Ring(i)[j]]]
  IN /\ rdKind = "sha1" /\ i < RdLength.sha1
     /\ rdRead' = [regs |-> [j \in 1..5 |-> rdRegs[v[j]]], words |-> words]
     /\ rdRegs' = [rdRegs EXCEPT ![v[5]] = Written(i), ![v[2]] = Rotated(@)]
     /\ rdWords' = [rdWords EXCEPT ![i % 16] = i]
     /\ rdRound' = i + 1
     /\ UNCHANGED <<rdKind, rdExpanded>>

(***************************************************************************)
(* sha256: the words are all expanded first, the registers are moved.  The *)
(* line of W[t] adds sigma1 of a word, a word, sigma0 of a word, a word:   *)
(* the lines from t = 16 on, with the indices they name.                   *)
(***************************************************************************)
Sha256Lines == <<
  <<14, 9, 1, 0>>, <<15, 10, 2, 1>>, <<16, 11, 3, 2>>, <<17, 12, 4, 3>>,
  <<18, 13, 5, 4>>, <<19, 14, 6, 5>>, <<20, 15, 7, 6>>, <<21, 16, 8, 7>>,
  <<22, 17, 9, 8>>, <<23, 18, 10, 9>>, <<24, 19, 11, 10>>, <<25, 20, 12, 11>>,
  <<26, 21, 13, 12>>, <<27, 22, 14, 13>>, <<28, 23, 15, 14>>, <<29, 24, 16, 15>>,
  <<30, 25, 17, 16>>, <<31, 26, 18, 17>>, <<32, 27, 19, 18>>, <<33, 28, 20, 19>>,
  <<34, 29, 21, 20>>, <<35, 30, 22, 21>>, <<36, 31, 23, 22>>, <<37, 32, 24, 23>>,
  <<38, 33, 25, 24>>, <<39, 34, 26, 25>>, <<40, 35, 27, 26>>, <<41, 36, 28, 27>>,
  <<42, 37, 29, 28>>, <<43, 38, 30, 29>>, <<44, 39, 31, 30>>, <<45, 40, 32, 31>>,
  <<46, 41, 33, 32>>, <<47, 42, 34, 33>>, <<48, 43, 35, 34>>, <<49, 44, 36, 35>>,
  <<50, 45, 37, 36>>, <<51, 46, 38, 37>>, <<52, 47, 39, 38>>, <<53, 48, 40, 39>>,
  <<54, 49, 41, 40>>, <<55, 50, 42, 41>>, <<56, 51, 43, 42>>, <<57, 52, 44, 43>>,
  <<58, 53, 45, 44>>, <<59, 54, 46, 45>>, <<60, 55, 47, 46>>, <<61, 56, 48, 47>>>>

Sha256Slip(t) == IF t = 40 THEN <<38, 33, 24, 24>> ELSE <<t - 2, t - 7, t - 15, t - 16>>  \* deviation: one index
Sha256Line(t) == Sha256Lines[t - 15]

Sha256Expand ==
  LET t == rdExpanded IN
  /\ rdKind = "sha256" /\ t < 64
  /\ rdRead' = [regs |-> << >>, words |-> [j \in 1..4 |-> rdWords[Sha256Line(t)[j]]]]
  /\ rdWords' = [rdWords EXCEPT ![t] = t]
  /\ rdExpanded' = t + 1
  /\ UNCHANGED <<rdKind, rdRound, rdRegs>>

Sha256Moved(r, first, fifth) ==     \* H = G ... E = D + temp1 ... A = temp1 + temp2
  <<first, r[1], r[2], r[3], fifth, r[5], r[6], r[7]>>

Sha256Round ==
  LET i == rdRound IN
  /\ rdKind = "sha256" /\ rdExpanded = 64 /\ i < RdLength.sha256
  /\ rdRead' = [regs |-> rdRegs, words |-> <<rdWords[i]>>]
  /\ rdRegs' = Sha256Moved(rdRegs, Written(i), [by |-> i, rotated |-> TRUE])
  /\ rdRound' = i + 1
  /\ UNCHANGED <<rdKind, rdWords, rdExpanded>>

(***************************************************************************)
(* After the last round the registers are added to the hash, one by one    *)
(***************************************************************************)
RdInit ==
  /\ rdKind \in DOMAIN RdLength
  /\ rdRound = 0 /\ rdExpanded = 16 /\ rdRead = RdNothing
  /\ rdWords = CASE rdKind = "md5" -> Md5Load [] rdKind = "sha1" -> SHA1Load [] OTHER -> Sha256Load
  /\ rdRegs = CASE rdKind = "md5"  -> [j \in 1..4 |-> Written(<<-4, -1, -2, -3>>[j])]
                [] rdKind = "sha1" -> [j \in 1..5 |-> [by |-> -j, rotated |-> j > 2]]
                [] OTHER           -> [j \in 1..8 |-> [by |-> -(((j - 1) % 4) + 1), rotated |-> j > 4]]

RdNext == Md5Set \/ SHA1R(Listed(5, rdRound)) \/ Sha256Expand \/ Sha256Round
RdSpec == RdInit /\ [][RdNext]_rdVars

-----------------------------------------------------------------------------
(***************************************************************************)
(* Every round reads what the standard says: the words of RFC 1321, 3.4    *)
(* and of FIPS 180 6.1.2 (an expanded word of sha1 is made of the words 3, *)
(* 8, 14 and 16 before it) and 6.2.2 (of sha256: 2, 7, 15 and 16, none of  *)
(* them read before it is written), and the results of the rounds before   *)
(* it in the standard's order, where the registers are shifted every time. *)
(***************************************************************************)
RdReadsStandard ==
  LET t == rdRound - 1 IN
  rdRound > 0 => CASE rdKind = "md5" ->
         /\ rdRead.regs = [j \in 1..4 |-> Written(t - <<4, 1, 2, 3>>[j])]
         /\ rdRead.words = << <<t, 5 * t + 1, 3 * t + 5, 7 * t>>[(t \div 16) + 1] % 16 >>
    [] rdKind = "sha1" ->
         /\ rdRead.regs = [j \in 1..5 |-> [by |-> t - j, rotated |-> j > 2]]
         /\ rdRead.words = IF t < 16 THEN <<t>> ELSE <<t - 3, t - 8, t - 14, t - 16>>
    [] rdKind = "sha256" ->
         /\ rdRead.regs = [j \in 1..8 |-> [by |-> t - (((j - 1) % 4) + 1), rotated |-> j > 4]]
         /\ rdRead.words = <<t>>

Sha256ExpandsStandard ==
  LET t == rdExpanded - 1 IN
  rdRound = 0 /\ t > 15 => rdRead.words = <<t - 2, t - 7, t - 15, t - 16>>

(***************************************************************************)
(* When the registers are added to the hash, each is added to its own      *)
(* word: the renaming has come full circle.                                *)
(***************************************************************************)
RdBackInPlace ==
  rdRound = RdLength[rdKind] =>
    \A j \in DOMAIN rdRegs : rdRegs[j].by = rdRound +
      CASE rdKind = "md5"    -> <<-4, -1, -2, -3>>[j]
        [] rdKind = "sha1"   -> -j
        [] rdKind = "sha256" -> -(((j - 1) % 4) + 1)

(***************************************************************************)
(* Every line that expands a word, every round, and the addition after the *)
(* last one uses the right words.                                          *)
(***************************************************************************)
RdIsStandard == RdReadsStandard /\ Sha256ExpandsStandard /\ RdBackInPlace
=============================================================================
