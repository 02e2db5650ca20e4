------------------------------- MODULE Digest -------------------------------
(***************************************************************************)
(* The streaming hash contexts of src/include/chef_base: md5 (crypto_md5_  *)
(* op), sha1 (crypto_sha1_op) and sha256 (crypto_sha256_op).  What is      *)
(* hashed is cut into blocks, and the last block ends with the number of   *)
(* bits.  Bytes arrive in pieces of any length.                            *)
(*                                                                         *)
(* A byte is where it comes from, a message byte its number.  Compressing  *)
(* a block appends it: a context is what it has compressed, and a digest   *)
(* is that sequence.  DgBlock stands for 64 bytes, DgWord for the 2^32     *)
(* values of a counter; the length takes two of the bytes of a block, one  *)
(* for each word of the counter.  sha1 and sha256 take a length as an      *)
(* unsigned int, whatever the size_t of their callers says: of a longer    *)
(* piece they see the remainder.                                           *)
(***************************************************************************)
EXTENDS Integers, Sequences, SequencesExt

CONSTANTS
  DgBlock,      \* bytes in a block
  DgWord,       \* values of one word of the bit counter
  DgUInt,       \* values of an unsigned int
  DgPieces,     \* the bytes of one call
  DgMaxBytes    \* bound: the bytes of a message

ASSUME DgAssumption ==
  /\ DgBlock \in Nat /\ DgBlock > 2
  /\ DgWord \in Nat \ {0} /\ DgWord % (8 * DgBlock) = 0
  /\ DgUInt \in Nat /\ DgUInt > DgBlock /\ 8 * DgUInt < DgWord * DgWord
  /\ DgPieces \subseteq Nat /\ DgMaxBytes \in Nat

VARIABLES
  dgKind,       \* "md5", "sha1" or "sha256"
  dgCtx,        \* the context
  dgSaid,       \* history: the bytes the callers said there are
  dgFed,        \* history: the bytes fed
  dgBits,       \* history: whether final_bits() has been called
  dgDigest      \* the digest given out last, or << >>

dgVars == <<dgKind, dgCtx, dgSaid, dgFed, dgBits, dgDigest>>

DgPad     == <<"80">>             \* the byte 0x80
DgZero    == <<"00">>
DgNumber(n) == <<"number", n>>    \* one word of the length
DgMessage(from, to) == [i \in 1..to - from + 1 |-> <<"message", from + i - 1>>]
DgZeros(n) == [i \in 1..n |-> DgZero]
DgBlocks(s) == [i \in 1..Len(s) \div DgBlock |-> SubSeq(s, (i - 1) * DgBlock + 1, i * DgBlock)]
DgTail(s)   == SubSeq(s, Len(s) - (Len(s) % DgBlock) + 1, Len(s))
DgOverlay(buf, at, s) ==          \* memcpy() to buf + at
  [i \in 1..DgBlock |-> IF i - at \in DOMAIN s THEN s[i - at] ELSE buf[i]]

\* the fields of all three contexts: the two words of the counter, the block that is being
\* filled, message_block_index_, computed_ and corrupted_ (sha256), and what has been compressed
DgFresh == [low |-> 0, high |-> 0, buf |-> DgZeros(DgBlock), index |-> 0, computed |-> FALSE,
            corrupted |-> FALSE, done |-> << >>]

Md5Init    == DgFresh
SHA1Init   == DgFresh
Sha256Init == DgFresh

(***************************************************************************)
(* md5                                                                     *)
(***************************************************************************)
Md5Process(c, block) == [c EXCEPT !.done = Append(@, block)]

Md5Count(c, n) ==
  LET nbits == (8 * n) % DgWord
      low   == (c.low + nbits) % DgWord
      carry == IF low < nbits THEN 1 ELSE 0
  IN [c EXCEPT !.low = low, !.high = (@ + (8 * n) \div DgWord + carry) % DgWord]

Md5Append(c, s) ==
  LET offset == (c.low \div 8) % DgBlock
      copy   == IF offset = 0 THEN 0 ELSE IF offset + Len(s) > DgBlock THEN DgBlock - offset ELSE Len(s)
      filled == [Md5Count(c, Len(s)) EXCEPT !.buf = DgOverlay(@, offset, SubSeq(s, 1, copy))]
      left   == SubSeq(s, copy + 1, Len(s))
      first  == IF offset = 0 THEN filled ELSE Md5Process(filled, filled.buf)
  IN IF s = << >> THEN c
     ELSE IF offset > 0 /\ offset + copy < DgBlock THEN filled
     ELSE [first EXCEPT !.done = @ \o DgBlocks(left), !.buf = DgOverlay(@, 0, DgTail(left))]

Md5Finish(c) ==
  LET length == <<DgNumber(c.low), DgNumber(c.high)>>
      pad    == <<DgPad>> \o DgZeros((DgBlock - 3 - c.low \div 8) % DgBlock)
  IN [Md5Append(Md5Append(c, pad), length) EXCEPT !.computed = TRUE]

(***************************************************************************)
(* sha1                                                                    *)
(***************************************************************************)
SHA1Transform(c, block) == [c EXCEPT !.done = Append(@, block)]

SHA1Update(c, s) ==
  LET len     == Len(s)
      low     == (c.low + 8 * len) % DgWord
      carry   == IF low < c.low THEN 1 ELSE 0
      j       == (c.low \div 8) % DgBlock
      i       == DgBlock - j
      rest    == SubSeq(s, i + 1, len)
      counted == [c EXCEPT !.low = low, !.high = (@ + carry + (8 * len) \div DgWord) % DgWord]
      whole   == [counted EXCEPT !.buf = DgOverlay(@, j, SubSeq(s, 1, i))]
      first   == SHA1Transform(whole, whole.buf)
  IN IF j + len > DgBlock - 1
     THEN [first EXCEPT !.done = @ \o DgBlocks(rest), !.buf = DgOverlay(@, 0, DgTail(rest))]
     ELSE [counted EXCEPT !.buf = DgOverlay(@, j, s)]

SHA1Final(c) ==
  LET length == <<DgNumber(c.high), DgNumber(c.low)>>
      zeros  == CHOOSE n \in 0..DgBlock - 1 :      \* until there is just room for the length
                  ((c.low \div 8) + 1 + n) % DgBlock = DgBlock - 2
      padded == FoldLeft(LAMBDA d, byte : SHA1Update(d, <<byte>>), c, <<DgPad>> \o DgZeros(zeros))
  IN [SHA1Update(padded, length) EXCEPT !.computed = TRUE]

(***************************************************************************)
(* sha256: a byte at a time                                                *)
(***************************************************************************)
ProcessMessageBlock(c) == [c EXCEPT !.done = Append(@, c.buf), !.index = 0]

AddLength(c, bits) ==       \* corrupted_: both words have overflown
  LET low     == (c.low + bits) % DgWord
      carries == low < c.low
      high    == IF carries THEN (c.high + 1) % DgWord ELSE c.high
  IN [c EXCEPT !.low = low, !.high = high, !.corrupted = carries /\ high = 0]

Sha256Byte(c, byte) ==      \* the loop ends at a corrupted_ context
  LET put == AddLength([c EXCEPT !.buf = DgOverlay(@, c.index, <<byte>>), !.index = @ + 1], 8)
  IN IF c.corrupted THEN c
     ELSE IF ~put.corrupted /\ put.index = DgBlock THEN ProcessMessageBlock(put) ELSE put

Sha256Input(c, s) == IF c.computed \/ c.corrupted THEN c ELSE FoldLeft(Sha256Byte, c, s)

DgFilled(c, to, s) ==         \* the bytes s, then zeros, up to the index to
  [c EXCEPT !.buf = DgOverlay(@, c.index, s \o DgZeros(to - c.index - Len(s))), !.index = to]

FewerBlocks(c) == c.index >= DgBlock - 1    \* deviation: an off-by-one at the boundary
NeedsBlock(c)  == c.index >= DgBlock - 2

PadMessage(c, pad) ==
  LET length == <<DgNumber(c.high), DgNumber(c.low)>>
      room   == DgBlock - 2
      zeroed == IF NeedsBlock(c) THEN DgFilled(ProcessMessageBlock(DgFilled(c, DgBlock, <<pad>>)), room, << >>)
                ELSE DgFilled(c, room, <<pad>>)
  IN ProcessMessageBlock([zeroed EXCEPT !.buf = DgOverlay(@, room, length)])

Finalize(c, pad) ==
  [PadMessage(c, pad) EXCEPT !.buf = DgZeros(DgBlock), !.low = 0, !.high = 0, !.computed = TRUE]

Sha256FinalBits(c, n) ==    \* n bits, which share a byte with the mark; eight are too many
  IF c.computed \/ c.corrupted \/ n >= 8 THEN [c EXCEPT !.corrupted = TRUE]
  ELSE Finalize(AddLength(c, n), <<"bits", n>>)

Sha256Result(c) == IF c.computed \/ c.corrupted THEN c ELSE Finalize(c, DgPad)

(***************************************************************************)
(* A context of each kind, fed in pieces.  md5 and sha1 contexts are not   *)
(* used after they have given their digest; a sha256 context may be asked  *)
(* again, fed without effect, and reset.  A piece that would make j + len  *)
(* wrap at sha1:247 is left out: sum() feeds a fresh context, with j = 0.  *)
(***************************************************************************)
DgInit ==
  /\ dgKind \in {"md5", "sha1", "sha256"}
  /\ dgCtx = CASE dgKind = "md5" -> Md5Init [] dgKind = "sha1" -> SHA1Init [] OTHER -> Sha256Init
  /\ dgSaid = 0 /\ dgFed = 0 /\ dgBits = FALSE /\ dgDigest = << >>

DgLen(n) == IF dgKind = "md5" THEN n ELSE n % DgUInt       \* md5 takes a size_t

DgUpdate(n) ==
  LET s     == DgMessage(dgFed + 1, dgFed + DgLen(n))
      taken == ~dgCtx.computed /\ ~dgCtx.corrupted
  IN /\ dgSaid + n <= DgMaxBytes
     /\ dgCtx.computed => dgKind = "sha256"
     /\ dgKind = "sha1" => ((dgCtx.low \div 8) % DgBlock) + DgLen(n) < DgUInt
     /\ dgCtx' = CASE dgKind = "md5"    -> Md5Append(dgCtx, s)
                   [] dgKind = "sha1"   -> SHA1Update(dgCtx, s)
                   [] dgKind = "sha256" -> Sha256Input(dgCtx, s)
     /\ dgSaid' = IF taken THEN dgSaid + n ELSE dgSaid
     /\ dgFed' = IF taken THEN dgFed + DgLen(n) ELSE dgFed
     /\ UNCHANGED <<dgKind, dgBits, dgDigest>>

DgFinish ==            \* a corrupted_ context writes no digest
  /\ dgCtx.computed => dgKind = "sha256"
  /\ dgCtx' = CASE dgKind = "md5"    -> Md5Finish(dgCtx)
                [] dgKind = "sha1"   -> SHA1Final(dgCtx)
                [] dgKind = "sha256" -> Sha256Result(dgCtx)
  /\ dgDigest' = IF dgCtx.corrupted THEN dgDigest ELSE dgCtx'.done
  /\ UNCHANGED <<dgKind, dgSaid, dgFed, dgBits>>

DgFinalBits(n) ==
  /\ dgKind = "sha256"
  /\ dgCtx' = Sha256FinalBits(dgCtx, n)
  /\ dgBits' = (dgBits \/ ~dgCtx.computed)
  /\ UNCHANGED <<dgKind, dgSaid, dgFed, dgDigest>>

DgReset ==
  /\ dgKind = "sha256"
  /\ dgCtx' = Sha256Init
  /\ dgSaid' = 0 /\ dgFed' = 0 /\ dgBits' = FALSE /\ dgDigest' = << >>
  /\ UNCHANGED dgKind

DgNext == \/ \E n \in DgPieces : DgUpdate(n)
          \/ \E n \in {1, 7, 8} : DgFinalBits(n)
          \/ DgFinish \/ DgReset

DgSpec == DgInit /\ [][DgNext]_dgVars

-----------------------------------------------------------------------------
(***************************************************************************)
(* What the standards say: the message, 0x80, the least number of zeros    *)
(* that lets the length end a block, and the length in bits.               *)
(***************************************************************************)
Padded(s, bits, highFirst) ==
  LET zeros  == CHOOSE n \in 0..DgBlock - 1 : (Len(s) + n + 3) % DgBlock = 0
      low    == DgNumber(bits % DgWord)
      high   == DgNumber((bits \div DgWord) % DgWord)
  IN s \o <<DgPad>> \o DgZeros(zeros) \o (IF highFirst THEN <<high, low>> ELSE <<low, high>>)

(***************************************************************************)
(* The counter and the position in the block follow what has been fed.     *)
(***************************************************************************)
DgTypeOK ==
  /\ dgFed \in 0..dgSaid /\ dgSaid \in 0..DgMaxBytes
  /\ Len(dgCtx.buf) = DgBlock
  /\ dgCtx.index \in 0..DgBlock /\ (dgCtx.index = DgBlock => dgCtx.corrupted)
  /\ ~dgCtx.computed /\ ~dgCtx.corrupted =>
       /\ dgCtx.low + DgWord * dgCtx.high = (8 * dgFed) % (DgWord * DgWord)
       /\ Len(dgCtx.done) = dgFed \div DgBlock
       /\ dgKind = "sha256" => dgCtx.index = dgFed % DgBlock

(***************************************************************************)
(* A digest is that of the padded message, however it was cut into pieces, *)
(* at every length around the end of a block and of a word of the counter, *)
(* and for sha256 however often and after whatever late input it is asked  *)
(* for; provided that no piece was longer than an unsigned int says.       *)
(***************************************************************************)
DgOf(n) == DgBlocks(Padded(DgMessage(1, n), 8 * n, dgKind # "md5"))

DgIsPadded == dgDigest # << >> /\ ~dgBits /\ dgFed = dgSaid => dgDigest = DgOf(dgFed)
=============================================================================
