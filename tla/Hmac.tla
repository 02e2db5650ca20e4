-------------------------------- MODULE Hmac --------------------------------
(***************************************************************************)
(* chef::crypto_hmac_sha256 (src/include/chef_base/chef_crypto_hmac_       *)
(* sha256.hpp): a keyed digest made of two sha256 digests.  The contexts   *)
(* are those of Digest; a digest is HmHashSize bytes, each named by what   *)
(* was hashed, and the exclusive or of a byte and a pad is the pair.  The  *)
(* lengths of size_t are narrowed: that of the key to an int (:260), that  *)
(* of the text to an int (:268) and from there to sha256's unsigned int.   *)
(***************************************************************************)
EXTENDS Digest

CONSTANTS
  HmHashSize,      \* bytes of a digest
  HmKeyLengths,    \* the lengths of keys
  HmIntMax,        \* the greatest int
  HmPieces,        \* the bytes of one call of update()
  HmMaxText        \* bound: the bytes of a message

ASSUME HmAssumption ==
  /\ HmHashSize \in 1..DgBlock /\ HmMaxText \in Nat /\ HmPieces \subseteq Nat
  /\ HmIntMax \in DgBlock..DgUInt - 1
  /\ HmKeyLengths \subseteq Nat /\ HmKeyLengths # {}

VARIABLES
  hmOpad,       \* k_opad_
  hmHasher,     \* hasher_
  hmKey,        \* history: the length of the key
  hmSaid,       \* history: the bytes of the message, as its pieces say
  hmFed,        \* history: the bytes of the message
  hmAsked,      \* history: the answers given since the reset, or 2 after final_bits()
  hmDigest      \* the last answer

hmVars == <<hmOpad, hmHasher, hmKey, hmSaid, hmFed, hmAsked, hmDigest>>

HmKeyBytes(n) == [i \in 1..n |-> <<"key", i>>]
HmNamed(done) == [j \in 1..HmHashSize |-> <<"digest", done, j>>]
HmSum(s)      == HmNamed(Sha256Result(Sha256Input(Sha256Init, s)).done)

HmXor(pad, key) == [i \in 1..DgBlock |-> <<pad, IF i \in DOMAIN key THEN key[i] ELSE DgZero>>]

HmKeyLen(n) ==         \* as an int; of a negative one the loop over the key makes no turn
  LET m == n % DgUInt IN IF m > HmIntMax THEN 0 ELSE m

HmLong(n)   == n > DgBlock
HmOfKey(n)  == IF HmLong(n) THEN HmSum(HmKeyBytes(n)) ELSE HmKeyBytes(n)

HmReset(n) ==
  LET key == HmOfKey(HmKeyLen(n)) IN
  /\ hmOpad' = HmXor("5c", key)
  /\ hmHasher' = Sha256Input(Sha256Init, HmXor("36", key))
  /\ hmKey' = n /\ hmSaid' = 0 /\ hmFed' = 0 /\ hmAsked' = 0 /\ hmDigest' = << >>

HmInput(n) ==          \* without effect after an answer: the hasher is not reset
  LET taken == ~hmHasher.computed /\ ~hmHasher.corrupted IN
  /\ hmSaid + n <= HmMaxText
  /\ hmHasher' = Sha256Input(hmHasher, DgMessage(hmFed + 1, hmFed + (n % DgUInt)))
  /\ hmSaid' = IF taken THEN hmSaid + n ELSE hmSaid
  /\ hmFed' = IF taken THEN hmFed + (n % DgUInt) ELSE hmFed
  /\ UNCHANGED <<hmOpad, hmKey, hmAsked, hmDigest>>

HmFinalBits(n) ==
  /\ hmHasher' = Sha256FinalBits(hmHasher, n)
  /\ hmAsked' = 2
  /\ UNCHANGED <<hmOpad, hmKey, hmSaid, hmFed, hmDigest>>

HmJunk == [j \in 1..HmHashSize |-> <<"junk", j>>]     \* what the caller's buffer held

HmResult ==            \* a corrupted_ hasher writes nothing at :245, and is then reset
  LET inner == IF hmHasher.corrupted THEN HmJunk ELSE HmNamed(Sha256Result(hmHasher).done)
      outer == Sha256Result(Sha256Input(Sha256Input(Sha256Init, hmOpad), inner))
  IN /\ hmAsked < 3                 \* bound
     /\ hmHasher' = outer
     /\ hmDigest' = HmNamed(outer.done)
     /\ hmAsked' = hmAsked + 1
     /\ UNCHANGED <<hmOpad, hmKey, hmSaid, hmFed>>

HmInit ==              \* the constructor, with the first key
  /\ hmKey = CHOOSE n \in HmKeyLengths : TRUE
  /\ LET key == HmOfKey(HmKeyLen(hmKey)) IN
     hmOpad = HmXor("5c", key) /\ hmHasher = Sha256Input(Sha256Init, HmXor("36", key))
  /\ hmSaid = 0 /\ hmFed = 0 /\ hmAsked = 0 /\ hmDigest = << >>

HmNext == \/ \E n \in HmKeyLengths : HmReset(n)
          \/ \E n \in HmPieces : HmInput(n)
          \/ HmFinalBits(3) \/ HmResult

HmSpec == HmInit /\ [][HmNext]_hmVars

-----------------------------------------------------------------------------
HmHash(s)    == HmNamed(DgBlocks(Padded(s, 8 * Len(s), TRUE)))
HmKeyed(pad) ==
  HmXor(pad, IF hmKey > DgBlock THEN HmHash(HmKeyBytes(hmKey)) ELSE HmKeyBytes(hmKey))

(***************************************************************************)
(* The first answer is that of RFC 2104, with keys shorter than a block,   *)
(* as long, and longer, and a message in any pieces, also when the object  *)
(* has been used and reset; provided that the key is not longer than an    *)
(* int says, nor a piece of the message than an unsigned int.  A second    *)
(* answer is another value (the hasher is left as it is after the outer    *)
(* digest, line 249).                                                      *)
(***************************************************************************)
HmIsHmac ==
  hmAsked = 1 /\ hmKey <= HmIntMax /\ hmFed = hmSaid =>
    hmDigest = HmHash(HmKeyed("5c") \o HmHash(HmKeyed("36") \o DgMessage(1, hmFed)))

(***************************************************************************)
(* The digests are those of the standards, the keyed one too.              *)
(***************************************************************************)
HashIsStandard == DgIsPadded /\ HmIsHmac
=============================================================================
