-------------------------------- MODULE Zlib --------------------------------
(***************************************************************************)
(* chef::compress_zlib_op (src/include/chef_base/.invisible/.wrapper/      *)
(* compress_zlib_op.cc): compress() and decompress(), a loop over chunks   *)
(* of the input and, in it, a loop over chunks of the output.              *)
(*                                                                         *)
(* zlib is external.  Of it the model keeps how many bytes it holds back:  *)
(* any number may come out of what it is given.  What is to be inflated is *)
(* a whole stream of zNeeds bytes, which may be shorter than the input     *)
(* (bytes follow it), longer (it is cut short), or broken.  malloc() and   *)
(* realloc() may fail; the first malloc() of each (:34, :111) is not       *)
(* looked at.  Lengths are of type int: what does not fit wraps (by the    *)
(* standard an overflow is undefined; this is what the build does) and a   *)
(* negative one, taken as a size_t, is more than malloc() can give.        *)
(***************************************************************************)
EXTENDS Integers

CONSTANTS
  ZChunk,       \* CHUNK_LEN
  ZHalf,        \* 2^31: an int is in -ZHalf..ZHalf - 1
  ZMaxIn,       \* bound: the bytes of the input
  ZMaxGrow      \* bound: the bytes that come out of one chunk

ASSUME ZAssumption ==
  /\ ZHalf \in Nat /\ ZChunk \in 1..ZHalf - 1 /\ ZMaxIn \in 0..ZHalf - 1
  /\ ZMaxGrow \in Nat \ {0}

VARIABLES
  zPc,          \* "start", "outer", "inner", "test", "cleanup", "done", or "wild" after a
                \* copy outside out_data
  zOp,          \* "compress" or "decompress"
  zIn, zLeft,   \* in_len and left
  zNeeds,       \* the bytes of the stream to inflate
  zFinish,      \* flush == Z_FINISH
  zHeld,        \* what zlib has still to give out
  zGiven,       \* history: what zlib has given out
  zEnd,         \* ret == Z_STREAM_END
  zLen, zCap,   \* out_data_len and out_data_capacity
  zData,        \* out_data: "none", "null", "owned", "freed" or "given" to the caller
  zStream,      \* the z_stream: "none", "open" or "ended"
  zRet          \* what is returned

zIo  == <<zOp, zIn, zNeeds>>
zVars == <<zPc, zIo, zLeft, zFinish, zHeld, zGiven, zEnd, zLen, zCap, zData, zStream, zRet>>

ZLess(a, b) == IF a < b THEN a ELSE b
ZInt(x)     == ((x + ZHalf) % (2 * ZHalf)) - ZHalf        \* x in an int

ZInit ==
  /\ zPc = "start" /\ zOp \in {"compress", "decompress"}
  /\ zIn \in 0..ZMaxIn /\ zNeeds \in 1..ZMaxIn + 1 /\ (zOp = "compress" => zNeeds = 1)
  /\ zLeft = 0 /\ zFinish = FALSE /\ zHeld = 0 /\ zGiven = 0 /\ zEnd = FALSE
  /\ zLen = 0 /\ zCap = 0 /\ zData = "none" /\ zStream = "none" /\ zRet = 0

ZRefused ==      \* a bad argument, or deflateInit() or inflateInit() fails
  /\ zPc = "start"
  /\ zPc' = "done" /\ zRet' = -1
  /\ UNCHANGED <<zIo, zLeft, zFinish, zHeld, zGiven, zEnd, zLen, zCap, zData, zStream>>

ZBegin ==
  /\ zPc = "start" /\ zIn > 0
  /\ zPc' = "outer" /\ zLeft' = zIn
  /\ zStream' = "open"
  /\ zCap' = ZInt(IF zOp = "compress" THEN zIn ELSE 4 * zIn)
  /\ zData' \in {"owned", "null"} /\ (zCap' < 0 => zData' = "null")
  /\ UNCHANGED <<zIo, zFinish, zHeld, zGiven, zEnd, zLen, zRet>>

ZFeed ==         \* external: what the chunk turns into; a last deflate ends with at least a byte
  LET avail == ZLess(zLeft, ZChunk) IN
  /\ zPc = "outer" /\ (zOp = "decompress" => avail > 0)
  /\ zLeft' = zLeft - avail
  /\ zFinish' = (zLeft <= ZChunk)
  /\ \E n \in 0..ZMaxGrow : /\ zHeld' = zHeld + n
                            /\ zOp = "compress" /\ zFinish' => zHeld' > 0
                            /\ (zOp = "decompress" /\ zIn - zLeft >= zNeeds) => n = 0
  /\ zPc' = "inner"
  /\ UNCHANGED <<zIo, zGiven, zEnd, zLen, zCap, zData, zStream, zRet>>

ZRunsOut ==      \* decompress: no input is left
  /\ zPc = "outer" /\ zOp = "decompress" /\ zLeft = 0
  /\ zPc' = "test"
  /\ UNCHANGED <<zIo, zLeft, zFinish, zHeld, zGiven, zEnd, zLen, zCap, zData, zStream, zRet>>

ZGrows(have)  == ZInt(zLen + have) > zCap
ZGrown(have)  == IF ZGrows(have) THEN ZInt(2 * ZInt(zLen + have)) ELSE zCap
ZEnds(have)   ==
  zHeld = have /\ (IF zOp = "compress" THEN zFinish ELSE zIn - zLeft >= zNeeds)

ZCall ==         \* a deflate() or inflate(), and the copy of what it gave
  LET have == ZLess(zHeld, ZChunk)
      fits == have = 0 \/ (zData' = "owned" /\ zLen + have <= zCap')
  IN /\ zPc = "inner"
     /\ ZGrows(have) => ZGrown(have) >= 0
     /\ zHeld' = zHeld - have /\ zGiven' = zGiven + have
     /\ zEnd' = ZEnds(have)
     /\ zCap' = ZGrown(have) /\ zLen' = zLen + have
     /\ zData' = IF ZGrows(have) THEN "owned" ELSE zData
     /\ zPc' = IF ~fits THEN "wild" ELSE IF have = ZChunk THEN "inner"
               ELSE IF (IF zOp = "compress" THEN zFinish ELSE ZEnds(have)) THEN "test" ELSE "outer"
     /\ UNCHANGED <<zIo, zLeft, zFinish, zStream, zRet>>

ZCallFails ==    \* the stream is broken, or realloc() fails
  /\ zPc = "inner"
  /\ zPc' = "cleanup"
  /\ UNCHANGED <<zIo, zLeft, zFinish, zHeld, zGiven, zEnd, zLen, zCap, zData, zStream, zRet>>

ZAnyEnd == TRUE                           \* deviation: the last ret is not looked at
ZEnded  == zEnd

ZGive ==
  /\ zPc = "test" /\ ZEnded
  /\ zPc' = "done" /\ zData' = "given" /\ zStream' = "ended" /\ zRet' = 0
  /\ UNCHANGED <<zIo, zLeft, zFinish, zHeld, zGiven, zEnd, zLen, zCap>>

ZNotEnded ==
  /\ zPc = "test" /\ ~ZEnded
  /\ zPc' = "cleanup"
  /\ UNCHANGED <<zIo, zLeft, zFinish, zHeld, zGiven, zEnd, zLen, zCap, zData, zStream, zRet>>

ZFreed     == "freed"

ZCleanup ==
  /\ zPc = "cleanup"
  /\ zPc' = "done" /\ zStream' = "ended" /\ zRet' = -1
  /\ zData' = IF zData = "null" THEN "null" ELSE ZFreed
  /\ UNCHANGED <<zIo, zLeft, zFinish, zHeld, zGiven, zEnd, zLen, zCap>>

ZNext == \/ ZRefused \/ ZBegin \/ ZFeed \/ ZRunsOut \/ ZCall \/ ZCallFails
         \/ ZGive \/ ZNotEnded \/ ZCleanup
ZSpec == ZInit /\ [][ZNext]_zVars

-----------------------------------------------------------------------------
(***************************************************************************)
(* The copy fits: out_data holds what has been written to it, after any    *)
(* number of chunks of any length, and nothing is written outside it, but  *)
(* for two ways out of it: the first malloc() gave NULL (:34, :111, where  *)
(* compress_zlib_op.h:39 and :51 promise -1), or zlib has given out more   *)
(* bytes than an int counts.                                               *)
(***************************************************************************)
ZFits ==
  IF zPc = "wild" THEN zData = "null" \/ zGiven >= ZHalf
  ELSE zLen > 0 => zLen <= zCap /\ zData # "null"

(***************************************************************************)
(* Success means all of it: the output is everything zlib had to give, and *)
(* a stream that is cut short is an error.                                 *)
(***************************************************************************)
ZWhole ==
  zPc = "done" /\ zRet = 0 =>
    /\ zHeld = 0 /\ zLen = zGiven
    /\ IF zOp = "compress" THEN zLeft = 0 ELSE zIn >= zNeeds

(***************************************************************************)
(* On every way out the stream is closed, and the output is either given   *)
(* to the caller, with success, or freed.                                  *)
(***************************************************************************)
ZOwned ==
  zPc = "done" => /\ zStream # "open" /\ zData # "owned"
                  /\ zData = "given" <=> zRet = 0

(***************************************************************************)
(* On every way out: no overrun, no part given for the whole, nothing      *)
(* leaked or freed twice.                                                  *)
(***************************************************************************)
ZSound == ZFits /\ ZWhole /\ ZOwned
=============================================================================
