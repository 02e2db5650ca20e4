-------------------------- MODULE SequentialProofs --------------------------
(***************************************************************************)
(* Proofs about the components that one thread uses at a time, whatever    *)
(* the lengths, the capacities and the values are.                         *)
(***************************************************************************)
EXTENDS Zlib, Http, Filepath, Base64, Lru, ConsistentHash, ByteBuffer, WeightSelector, QueueLemmas, FiniteSetTheorems, WellFoundedInduction, TLAPS

-----------------------------------------------------------------------------
(***************************************************************************)
(* compress_zlib.  What the loops keep: the copy fits and is all that was  *)
(* given out; when the last chunk has been fed nothing is left; the outer  *)
(* loop goes on only before the end; an end that is seen is the whole.     *)
(***************************************************************************)
ZTypes ==
  /\ zPc \in {"start", "outer", "inner", "test", "cleanup", "done", "wild"}
  /\ zOp \in {"compress", "decompress"} /\ zIn \in Nat /\ zNeeds \in Nat
  /\ zLeft \in Nat /\ zHeld \in Nat /\ zGiven \in Nat /\ zLen \in Nat /\ zCap \in -ZHalf..ZHalf - 1
  /\ zFinish \in BOOLEAN /\ zEnd \in BOOLEAN /\ zRet \in {0, -1}
  /\ zData \in {"none", "null", "owned", "freed", "given"} /\ zStream \in {"none", "open", "ended"}

ZAll == zHeld = 0 /\ IF zOp = "compress" THEN zLeft = 0 ELSE zIn >= zNeeds

ZLoops ==
  /\ ZFits /\ zLen = zGiven
  /\ zPc = "outer" => ~zEnd
  /\ zPc = "inner" /\ zFinish => zLeft = 0
  /\ zPc = "test" /\ zEnd => ZAll

ZHolds ==
  /\ zPc = "start" => zStream = "none" /\ zData = "none" /\ ~zEnd /\ zLen = 0
  /\ zPc \in {"outer", "inner", "test", "cleanup"} => zStream = "open" /\ zData \in {"owned", "null"}
  /\ zPc = "done" => /\ zStream # "open" /\ zData # "owned"
                     /\ zData = "given" <=> zRet = 0
                     /\ zRet = 0 => ZAll

ZInv == ZTypes /\ ZLoops /\ ZHolds

(***************************************************************************)
(* A number in an int: itself, or short of 2^32 by that much.              *)
(***************************************************************************)
LEMMA ZIntIs ==
  ASSUME NEW x \in Nat
  PROVE  /\ ZInt(x) \in -ZHalf..ZHalf - 1
         /\ x < 2 * ZHalf => ZInt(x) = IF x < ZHalf THEN x ELSE x - 2 * ZHalf
<1>1. ZHalf \in Nat \ {0}  BY ZAssumption
<1>2. ZInt(x) \in -ZHalf..ZHalf - 1  BY <1>1 DEF ZInt
<1>3. x < 2 * ZHalf => ZInt(x) = IF x < ZHalf THEN x ELSE x - 2 * ZHalf  BY <1>1 DEF ZInt
<1> QED  BY <1>2, <1>3

(***************************************************************************)
(* Nothing has been read or given out.                                     *)
(***************************************************************************)
LEMMA ZInitInv == ZInit => ZInv
<1> SUFFICES ASSUME ZInit PROVE ZInv  OBVIOUS
<1>1. zIn \in Nat /\ zNeeds \in Nat  BY ZAssumption DEF ZInit
<1>2. ZHalf \in Nat \ {0}  BY ZAssumption
<1>3. zCap \in -ZHalf..ZHalf - 1  BY <1>2 DEF ZInit
<1>4. ZTypes  BY <1>1, <1>3 DEF ZInit, ZTypes
<1> QED  BY <1>4 DEF ZInit, ZInv, ZLoops, ZHolds, ZFits

(***************************************************************************)
(* Every step of the two loops keeps the invariant.                        *)
(***************************************************************************)
LEMMA ZStepInv == ZInv /\ [ZNext]_zVars => ZInv'
<1> SUFFICES ASSUME ZInv, [ZNext]_zVars PROVE ZInv'  OBVIOUS
<1> USE DEF ZInv, zIo
<1>0. ZHalf \in Nat \ {0} /\ ZChunk \in Nat \ {0} /\ ZChunk < ZHalf  BY ZAssumption
<1>1. CASE ZRefused  BY <1>1 DEF ZRefused, ZTypes, ZLoops, ZHolds, ZFits
<1>2. CASE ZBegin
  <2>1. /\ zPc = "start" /\ zPc' = "outer" /\ zLeft' = zIn /\ zStream' = "open" /\ zData' \in {"owned", "null"}
        /\ zCap' = ZInt(IF zOp = "compress" THEN zIn ELSE 4 * zIn)
        /\ UNCHANGED <<zOp, zIn, zNeeds, zFinish, zHeld, zGiven, zEnd, zLen, zRet>>
    BY <1>2 DEF ZBegin
  <2>2. (IF zOp = "compress" THEN zIn ELSE 4 * zIn) \in Nat  BY DEF ZTypes
  <2>3. zCap' \in -ZHalf..ZHalf - 1  BY <2>1, <2>2, ZIntIs
  <2>4. zLen = 0 /\ ~zEnd  BY <2>1 DEF ZHolds
  <2>5. ZTypes'  BY <2>1, <2>3 DEF ZTypes
  <2>6. ZLoops' /\ ZHolds'  BY <2>1, <2>4 DEF ZTypes, ZLoops, ZHolds, ZFits
  <2> QED  BY <2>5, <2>6
<1>3. CASE ZFeed
  <2> DEFINE avail == ZLess(zLeft, ZChunk)
  <2>1. /\ zPc = "outer" /\ zPc' = "inner" /\ zLeft' = zLeft - avail /\ zFinish' = (zLeft <= ZChunk)
        /\ UNCHANGED <<zOp, zIn, zNeeds, zGiven, zEnd, zLen, zCap, zData, zStream, zRet>>
    BY <1>3 DEF ZFeed
  <2>2. zHeld' \in Nat  BY <1>3 DEF ZFeed, ZTypes
  <2>3. zLeft' \in Nat /\ (zFinish' => zLeft' = 0)
    <3>1. zLeft \in Nat /\ ZChunk \in Nat  BY <1>0 DEF ZTypes
    <3>2. CASE zLeft < ZChunk
      <4>1. avail = zLeft  BY <3>2 DEF ZLess
      <4> QED  BY <2>1, <3>1, <4>1
    <3>3. CASE ~(zLeft < ZChunk)
      <4>1. avail = ZChunk /\ zLeft >= ZChunk  BY <3>1, <3>3 DEF ZLess
      <4>2. zFinish' => zLeft <= ZChunk  BY <2>1
      <4>3. zFinish' => zLeft = ZChunk  BY <3>1, <4>1, <4>2
      <4>4. zLeft' = zLeft - ZChunk  BY <2>1, <4>1
      <4> QED  BY <3>1, <4>1, <4>3, <4>4
    <3> QED  BY <3>2, <3>3
  <2>4. zFinish' \in BOOLEAN  BY <2>1
  <2> QED  BY <2>1, <2>2, <2>3, <2>4 DEF ZTypes, ZLoops, ZHolds, ZFits
<1>4. CASE ZRunsOut  BY <1>4 DEF ZRunsOut, ZTypes, ZLoops, ZHolds, ZFits
<1>5. CASE ZCall
  <2> DEFINE have == ZLess(zHeld, ZChunk)
             fits == have = 0 \/ (zData' = "owned" /\ zLen + have <= zCap')
             over == IF zOp = "compress" THEN zFinish ELSE zIn - zLeft >= zNeeds
             ends == zHeld = have /\ over
  <2>1. /\ zPc = "inner" /\ zHeld' = zHeld - have /\ zGiven' = zGiven + have /\ zEnd' = ends
        /\ zCap' = ZGrown(have) /\ zLen' = zLen + have
        /\ zData' = IF ZGrows(have) THEN "owned" ELSE zData
        /\ zPc' = IF ~fits THEN "wild" ELSE IF have = ZChunk THEN "inner"
                  ELSE IF (IF zOp = "compress" THEN zFinish ELSE ends) THEN "test" ELSE "outer"
        /\ ZGrows(have) => ZGrown(have) >= 0
        /\ UNCHANGED <<zOp, zIn, zNeeds, zLeft, zFinish, zStream, zRet>>
    BY <1>5 DEF ZCall, ZEnds
  <2>2. have \in Nat /\ zHeld - have \in Nat /\ have < ZHalf  BY <1>0 DEF ZLess, ZTypes
  <2> HIDE DEF have
  <2>3. zCap' \in -ZHalf..ZHalf - 1 /\ zData' \in {"owned", "null"} /\ ZFits'
    <3> DEFINE sum == zLen + have
    <3>1. /\ zLen \in Nat /\ zGiven = zLen /\ zCap \in -ZHalf..ZHalf - 1 /\ zData \in {"owned", "null"}
          /\ zLen > 0 => zLen <= zCap /\ zData # "null"
      BY <2>1 DEF ZTypes, ZLoops, ZHolds, ZFits
    <3>2. sum \in Nat /\ sum < 2 * ZHalf  BY <1>0, <2>2, <3>1
    <3>3. ZInt(sum) = IF sum < ZHalf THEN sum ELSE sum - 2 * ZHalf  BY <3>2, ZIntIs
    <3>4. zLen' = sum /\ zGiven' = sum  BY <2>1, <3>1
    <3> HIDE DEF sum
    <3>5. CASE ZGrows(have)
      <4>1. ZInt(sum) > zCap /\ zCap' = ZInt(2 * ZInt(sum)) /\ zCap' >= 0 /\ zData' = "owned"
        BY <2>1, <3>5 DEF ZGrows, ZGrown, sum
      <4>2. sum < ZHalf
        <5>1. SUFFICES ASSUME sum >= ZHalf PROVE FALSE  BY <1>0, <3>2
        <5>2. zLen > 0  BY <1>0, <2>2, <3>1, <5>1 DEF sum
        <5>3. zCap >= 0 /\ ZInt(sum) < 0  BY <1>0, <3>1, <3>2, <3>3, <5>1, <5>2
        <5> QED  BY <1>0, <3>1, <3>2, <3>3, <4>1, <5>1, <5>3
      <4>3. ZInt(sum) = sum  BY <3>3, <4>2
      <4>4. 2 * sum \in Nat /\ 2 * sum < 2 * ZHalf  BY <1>0, <3>2, <4>2
      <4>5. zCap' = IF 2 * sum < ZHalf THEN 2 * sum ELSE 2 * sum - 2 * ZHalf  BY <4>1, <4>3, <4>4, ZIntIs
      <4>6. zCap' = 2 * sum  BY <1>0, <4>1, <4>4, <4>5
      <4>7. zCap' \in -ZHalf..ZHalf - 1  BY <1>0, <3>2, <4>4, <4>5
      <4>8. zLen' <= zCap' /\ fits  BY <3>2, <3>4, <4>1, <4>6 DEF sum
      <4> QED  BY <2>1, <4>1, <4>7, <4>8 DEF ZFits
    <3>6. CASE ~ZGrows(have)
      <4>1. zCap' = zCap /\ zData' = zData /\ ~(ZInt(sum) > zCap)  BY <2>1, <3>6 DEF ZGrows, ZGrown, sum
      <4>2. CASE fits
        <5>1. zPc' # "wild"  BY <2>1, <4>2
        <5>2. CASE have = 0
          <6>1. sum = zLen  BY <3>1, <5>2 DEF sum
          <6> QED  BY <3>1, <3>4, <4>1, <5>1, <6>1 DEF ZFits
        <5>3. CASE zData' = "owned" /\ sum <= zCap'
          BY <3>1, <3>4, <4>1, <5>1, <5>3 DEF ZFits
        <5> QED  BY <4>2, <5>2, <5>3 DEF sum
      <4>3. CASE ~fits
        <5>1. zPc' = "wild" /\ have # 0  BY <2>1, <4>3
        <5>2. CASE zData' = "null"  BY <3>1, <4>1, <5>1, <5>2 DEF ZFits
        <5>3. CASE zData' = "owned"
          <6>1. ~(sum <= zCap)  BY <4>1, <4>3, <5>3 DEF sum
          <6>2. sum >= ZHalf
            BY <1>0, <3>1, <3>2, <3>3, <4>1, <6>1
          <6> QED  BY <3>1, <3>4, <4>1, <5>1, <6>2 DEF ZFits
        <5> QED  BY <3>1, <4>1, <5>2, <5>3
      <4> QED  BY <4>2, <4>3
    <3> QED  BY <3>5, <3>6
  <2>4. ends \in BOOLEAN  OBVIOUS
  <2>5. /\ zPc' \in {"outer", "inner", "test", "wild"} /\ zHeld' \in Nat /\ zGiven' \in Nat
        /\ zLen' \in Nat /\ zEnd' \in BOOLEAN
    BY <2>1, <2>2, <2>4 DEF ZTypes
  <2>6. ZTypes'  BY <2>1, <2>3, <2>5 DEF ZTypes
  <2>7. zPc' = "outer" => ~zEnd'  BY <2>1 DEF ZTypes
  <2>8. zEnd' => ZAll'
    <3> SUFFICES ASSUME zEnd' PROVE ZAll'  OBVIOUS
    <3>0. zHeld = have /\ over  BY <2>1
    <3>1. zHeld' = 0  BY <2>1, <2>2, <3>0
    <3>2. zOp = "compress" => zLeft = 0  BY <2>1, <3>0 DEF ZLoops
    <3>3. zOp = "decompress" => zIn >= zNeeds
      <4>1. zOp = "decompress" => zIn - zLeft >= zNeeds  BY <3>0
      <4>2. zIn \in Nat /\ zLeft \in Nat /\ zNeeds \in Nat  BY DEF ZTypes
      <4> QED  BY <4>1, <4>2
    <3> QED  BY <2>1, <3>1, <3>2, <3>3 DEF ZAll, ZTypes
  <2>9. ZLoops'  BY <2>1, <2>3, <2>7, <2>8 DEF ZLoops, ZTypes
  <2>10. ZHolds'  BY <2>1, <2>3, <2>5 DEF ZHolds
  <2> QED  BY <2>6, <2>9, <2>10
<1>6. CASE ZCallFails  BY <1>6 DEF ZCallFails, ZTypes, ZLoops, ZHolds, ZFits
<1>7. CASE ZGive  BY <1>7 DEF ZGive, ZEnded, ZTypes, ZLoops, ZHolds, ZFits, ZAll
<1>8. CASE ZNotEnded  BY <1>8 DEF ZNotEnded, ZTypes, ZLoops, ZHolds, ZFits
<1>9. CASE ZCleanup  BY <1>9 DEF ZCleanup, ZFreed, ZTypes, ZLoops, ZHolds, ZFits
<1>10. CASE UNCHANGED zVars  BY <1>10 DEF zVars, ZTypes, ZLoops, ZHolds, ZFits, ZAll
<1> QED  BY <1>1, <1>2, <1>3, <1>4, <1>5, <1>6, <1>7, <1>8, <1>9, <1>10 DEF ZNext

(***************************************************************************)
(* However long the input and the output, and whichever malloc() or        *)
(* realloc() fails: the copy fits, unless the first malloc() gave NULL or  *)
(* more than an int has come out (ZFits); success is reported for the      *)
(* whole stream only; and on every return the output is given or freed     *)
(* and the stream is closed.                                               *)
(***************************************************************************)
THEOREM ZIsSound == ZSpec => []ZSound
<1>1. ZInv => ZSound
  BY DEF ZInv, ZTypes, ZLoops, ZHolds, ZAll, ZSound, ZFits, ZWhole, ZOwned
<1> QED  BY <1>1, ZInitInv, ZStepInv, PTL DEF ZSpec

-----------------------------------------------------------------------------
(* One element of a sequence removed, by its position. *)
LEMMA RemoveAtProperties ==
  ASSUME NEW S, NEW s \in Seq(S), NEW i \in 1..Len(s)
  PROVE  /\ RemoveAt(s, i) \in Seq(S) /\ Len(RemoveAt(s, i)) = Len(s) - 1
         /\ \A j \in 1..(Len(s) - 1) : RemoveAt(s, i)[j] = IF j < i THEN s[j] ELSE s[j + 1]
<1> DEFINE a == SubSeq(s, 1, i - 1)
           b == SubSeq(s, i + 1, Len(s))
<1>1. Len(s) \in Nat /\ i \in Nat /\ 1 <= i /\ i <= Len(s) /\ \A j \in 1..Len(s) : s[j] \in S
  BY LenProperties, ElementOfSeq
<1>2. a \in Seq(S) /\ Len(a) = i - 1 /\ \A j \in 1..(i - 1) : a[j] = s[j]
  <2>1. /\ a \in Seq(S) /\ Len(a) = IF 1 <= i - 1 THEN i - 1 - 1 + 1 ELSE 0
        /\ \A j \in 1..(i - 1 - 1 + 1) : a[j] = s[1 + j - 1]
    BY <1>1, SubSeqProperties
  <2> QED  BY <2>1, <1>1
<1>3. b \in Seq(S) /\ Len(b) = Len(s) - i /\ \A j \in 1..(Len(s) - i) : b[j] = s[i + j]
  <2>1. /\ b \in Seq(S) /\ Len(b) = IF i + 1 <= Len(s) THEN Len(s) - (i + 1) + 1 ELSE 0
        /\ \A j \in 1..(Len(s) - (i + 1) + 1) : b[j] = s[i + 1 + j - 1]
    BY <1>1, SubSeqProperties
  <2> QED  BY <2>1, <1>1
<1> HIDE DEF a, b
<1>4. /\ a \o b \in Seq(S) /\ Len(a \o b) = Len(a) + Len(b)
      /\ \A j \in 1..(Len(a) + Len(b)) : (a \o b)[j] = IF j <= Len(a) THEN a[j] ELSE b[j - Len(a)]
  BY <1>2, <1>3, ConcatProperties
<1>5. Len(a) + Len(b) = Len(s) - 1  BY <1>1, <1>2, <1>3
<1>6. ASSUME NEW j \in 1..(Len(s) - 1) PROVE (a \o b)[j] = IF j < i THEN s[j] ELSE s[j + 1]
  <2>1. CASE j < i
    <3>1. j \in 1..(i - 1) /\ j <= Len(a) /\ j \in 1..(Len(a) + Len(b))  BY <2>1, <1>1, <1>2, <1>5
    <3> QED  BY <2>1, <3>1, <1>2, <1>4
  <2>2. CASE ~(j < i)
    <3>1. ~(j <= Len(a)) /\ j - Len(a) \in 1..(Len(s) - i) /\ j \in 1..(Len(a) + Len(b)) /\ i + (j - Len(a)) = j + 1
      BY <2>2, <1>1, <1>2, <1>5
    <3> QED  BY <2>2, <3>1, <1>3, <1>4
  <2> QED  BY <2>1, <2>2
<1> QED  BY <1>4, <1>5, <1>6 DEF RemoveAt, a, b

(* One element put in front of a sequence. *)
LEMMA ConsProperties ==
  ASSUME NEW S, NEW s \in Seq(S), NEW e \in S
  PROVE  /\ <<e>> \o s \in Seq(S) /\ Len(<<e>> \o s) = Len(s) + 1 /\ (<<e>> \o s)[1] = e
         /\ \A j \in 2..(Len(s) + 1) : (<<e>> \o s)[j] = s[j - 1]
<1> DEFINE c == <<e>>
<1>1. c \in Seq(S) /\ Len(c) = 1 /\ c[1] = e  OBVIOUS
<1>2. Len(s) \in Nat  BY LenProperties
<1> HIDE DEF c
<1>3. /\ c \o s \in Seq(S) /\ Len(c \o s) = 1 + Len(s)
      /\ \A j \in 1..(1 + Len(s)) : (c \o s)[j] = IF j <= 1 THEN c[j] ELSE s[j - 1]
  <2>1. /\ c \o s \in Seq(S) /\ Len(c \o s) = Len(c) + Len(s)
        /\ \A j \in 1..(Len(c) + Len(s)) : (c \o s)[j] = IF j <= Len(c) THEN c[j] ELSE s[j - Len(c)]
    BY <1>1, ConcatProperties
  <2> QED  BY <1>1, <2>1
<1>4. (c \o s)[1] = e  BY <1>1, <1>2, <1>3
<1>5. \A j \in 2..(Len(s) + 1) : (c \o s)[j] = s[j - 1]
  <2> TAKE j \in 2..(Len(s) + 1)
  <2>1. j \in 1..(1 + Len(s)) /\ ~(j <= 1)  BY <1>2
  <2> QED  BY <2>1, <1>3
<1>6. Len(c \o s) = Len(s) + 1  BY <1>2, <1>3
<1> QED  BY <1>3, <1>4, <1>5, <1>6 DEF c

(* The first m elements of a sequence. *)
LEMMA PrefixProperties ==
  ASSUME NEW S, NEW s \in Seq(S), NEW m \in 0..Len(s)
  PROVE  /\ SubSeq(s, 1, m) \in Seq(S) /\ Len(SubSeq(s, 1, m)) = m
         /\ \A j \in 1..m : SubSeq(s, 1, m)[j] = s[j]
<1>1. Len(s) \in Nat /\ m \in Nat /\ m <= Len(s) /\ \A j \in 1..Len(s) : s[j] \in S
  BY LenProperties, ElementOfSeq
<1>2. /\ SubSeq(s, 1, m) \in Seq(S) /\ Len(SubSeq(s, 1, m)) = IF 1 <= m THEN m - 1 + 1 ELSE 0
      /\ \A j \in 1..(m - 1 + 1) : SubSeq(s, 1, m)[j] = s[1 + j - 1]
  BY <1>1, SubSeqProperties
<1> QED  BY <1>1, <1>2
-----------------------------------------------------------------------------
(***************************************************************************)
(* lru.  What a list, the pairs in its nodes and a map have to do with     *)
(* each other, and the pairs in the order of the list.                     *)
(***************************************************************************)
LruGood(list, pair, map) ==
  /\ pair \in [LruNode -> LruKey \X LruValue]
  /\ list \in Seq(LruNode) /\ IsInjective(list)
  /\ DOMAIN map = {pair[n][1] : n \in Range(list)}
  /\ \A n \in Range(list) : map[pair[n][1]] = n

LruInv == /\ lruCapacity \in 0..LruMaxCapacity /\ Len(lruList) <= lruCapacity
          /\ LruGood(lruList, lruPair, lruMap)

LruItemsOf(list, pair) == [i \in DOMAIN list |-> pair[list[i]]]

(***************************************************************************)
(* The pairs of a list are as many as its nodes.                           *)
(***************************************************************************)
LEMMA LruItemsAre ==
  ASSUME NEW pair \in [LruNode -> LruKey \X LruValue], NEW list \in Seq(LruNode)
  PROVE  /\ LruItemsOf(list, pair) \in Seq(LruKey \X LruValue)
         /\ Len(LruItemsOf(list, pair)) = Len(list)
         /\ DOMAIN LruItemsOf(list, pair) = 1..Len(list)
         /\ \A i \in 1..Len(list) : LruItemsOf(list, pair)[i] = pair[list[i]]
<1>1. Len(list) \in Nat /\ DOMAIN list = 1..Len(list) /\ \A i \in 1..Len(list) : list[i] \in LruNode
  BY LenProperties, ElementOfSeq
<1>2. LruItemsOf(list, pair) = [i \in 1..Len(list) |-> pair[list[i]]]  BY <1>1 DEF LruItemsOf
<1>3. LruItemsOf(list, pair) \in [1..Len(list) -> LruKey \X LruValue]  BY <1>1, <1>2
<1> QED  BY <1>1, <1>2, <1>3, SeqDef, LenProperties

(***************************************************************************)
(* There is always a node for the next pair.                               *)
(***************************************************************************)
LEMMA LruFreeNode ==
  ASSUME NEW list \in Seq(LruNode), Len(list) <= LruMaxCapacity
  PROVE  LruFree(list) \in LruNode /\ LruFree(list) \notin Range(list)
<1>1. \E n \in LruNode : n \notin Range(list)
  <2> SUFFICES ASSUME LruNode \subseteq Range(list) PROVE FALSE  OBVIOUS
  <2>1. Len(list) \in Nat /\ Range(list) = LruNode /\ list \in [1..Len(list) -> LruNode]
    BY LenProperties, RangeOf
  <2>2. list \in Surjection(1..Len(list), LruNode)
    BY <2>1, RangeOf DEF Surjection
  <2>3. Cardinality(LruNode) <= Len(list)
    BY <2>1, <2>2, FS_SurjCardinalityBound DEF ExistsSurjection
  <2> QED  BY <2>1, <2>3, FS_CardinalityType, LruAssumption
<1> QED  BY <1>1 DEF LruFree

(***************************************************************************)
(* A pair put in front of a list that has no pair with its key.            *)
(***************************************************************************)
LEMMA LruFrontIs ==
  ASSUME LruInv, NEW list \in Seq(LruNode), IsInjective(list), Len(list) <= lruCapacity,
         NEW k \in LruKey, NEW v \in LruValue, NEW map,
         DOMAIN map \cup {k} = {lruPair[n][1] : n \in Range(list)} \cup {k},
         \A n \in Range(list) : lruPair[n][1] # k /\ map[lruPair[n][1]] = n
  PROVE  LET s == LruPushFront(list, k, v, map) IN
         /\ LruGood(s.list, s.pair, s.map) /\ Len(s.list) = Len(list) + 1
         /\ LruItemsOf(s.list, s.pair) = << <<k, v>> >> \o LruItemsOf(list, lruPair)
<1> DEFINE n0 == LruFree(list)
           nl == <<n0>> \o list
           np == [lruPair EXCEPT ![n0] = <<k, v>>]
           nm == LruAssign(map, k, n0)
           s  == LruPushFront(list, k, v, map)
<1>0. s.list = nl /\ s.pair = np /\ s.map = nm  BY DEF LruPushFront
<1>1. Len(list) \in Nat /\ Len(list) <= LruMaxCapacity
  BY LenProperties, LruAssumption DEF LruInv
<1>2. n0 \in LruNode /\ n0 \notin Range(list)  BY <1>1, LruFreeNode
<1> HIDE DEF n0, s
<1>3. /\ nl \in Seq(LruNode) /\ Len(nl) = Len(list) + 1 /\ nl[1] = n0
      /\ \A j \in 2..(Len(list) + 1) : nl[j] = list[j - 1]
  BY <1>2, ConsProperties
<1>4. Range(nl) = {n0} \cup Range(list) /\ IsInjective(nl)
  <2> DEFINE c == <<n0>>
  <2>1. c \in Seq(LruNode) /\ Range(c) = {n0} /\ IsInjective(c)
    BY <1>2 DEF Range, IsInjective
  <2>2. nl = c \o list  OBVIOUS
  <2> HIDE DEF c, nl
  <2>3. Range(c) \cap Range(list) = {}  BY <2>1, <1>2
  <2>4. /\ Range(c \o list) = Range(c) \cup Range(list)
        /\ IsInjective(c) /\ IsInjective(list) /\ Range(c) \cap Range(list) = {} => IsInjective(c \o list)
    BY <2>1, ConcatRange
  <2> QED  BY <2>1, <2>2, <2>3, <2>4
<1>5. /\ np \in [LruNode -> LruKey \X LruValue] /\ np[n0] = <<k, v>>
      /\ \A n \in Range(list) : np[n] = lruPair[n]
  <2>1. lruPair \in [LruNode -> LruKey \X LruValue] /\ Range(list) \subseteq LruNode
    BY RangeOf DEF LruInv, LruGood
  <2> QED  BY <1>2, <2>1
<1>6. /\ DOMAIN nm = {np[n][1] : n \in Range(nl)}
      /\ \A n \in Range(nl) : nm[np[n][1]] = n
  <2>1. DOMAIN nm = DOMAIN map \cup {k} /\ nm[k] = n0
        /\ \A j \in DOMAIN map \ {k} : nm[j] = map[j]
    BY DEF LruAssign
  <2>2. np[n0][1] = k  BY <1>5
  <2>3. {np[n][1] : n \in Range(nl)} = {lruPair[n][1] : n \in Range(list)} \cup {k}
    BY <2>2, <1>4, <1>5
  <2>4. ASSUME NEW n \in Range(list) PROVE nm[np[n][1]] = n
    <3>1. np[n][1] = lruPair[n][1] /\ lruPair[n][1] \in DOMAIN map \ {k}  BY <1>5
    <3> QED  BY <3>1, <2>1
  <2> QED  BY <2>1, <2>2, <2>3, <2>4, <1>4
<1> HIDE DEF nl, np, nm
<1>7. LruGood(nl, np, nm)  BY <1>3, <1>4, <1>5, <1>6 DEF LruGood
<1>8. LruItemsOf(nl, np) = << <<k, v>> >> \o LruItemsOf(list, lruPair)
  <2> DEFINE a == LruItemsOf(nl, np)
             b == LruItemsOf(list, lruPair)
             P == LruKey \X LruValue
  <2>1. a \in Seq(P) /\ Len(a) = Len(list) + 1 /\ \A i \in 1..(Len(list) + 1) : a[i] = np[nl[i]]
    BY <1>3, <1>5, LruItemsAre
  <2>2. b \in Seq(P) /\ Len(b) = Len(list) /\ \A i \in 1..Len(list) : b[i] = lruPair[list[i]]
    BY LruItemsAre DEF LruInv, LruGood
  <2>3. <<k, v>> \in P  OBVIOUS
  <2> HIDE DEF a, b, P
  <2>4. /\ << <<k, v>> >> \o b \in Seq(P) /\ Len(<< <<k, v>> >> \o b) = Len(list) + 1
        /\ (<< <<k, v>> >> \o b)[1] = <<k, v>>
        /\ \A j \in 2..(Len(list) + 1) : (<< <<k, v>> >> \o b)[j] = b[j - 1]
    BY <2>2, <2>3, ConsProperties
  <2>5. ASSUME NEW i \in 1..(Len(list) + 1) PROVE a[i] = (<< <<k, v>> >> \o b)[i]
    <3>1. CASE i = 1  BY <3>1, <2>1, <2>4, <1>3, <1>5
    <3>2. CASE i # 1
      <4>1. i \in 2..(Len(list) + 1) /\ i - 1 \in 1..Len(list)  BY <3>2, <1>1
      <4>2. list[i - 1] \in Range(list)  BY <4>1, ElementInRange
      <4>3. a[i] = np[nl[i]] /\ nl[i] = list[i - 1]  BY <4>1, <2>1, <1>3
      <4>4. np[list[i - 1]] = lruPair[list[i - 1]]  BY <4>2, <1>5
      <4>5. (<< <<k, v>> >> \o b)[i] = b[i - 1] /\ b[i - 1] = lruPair[list[i - 1]]  BY <4>1, <2>2, <2>4
      <4> QED  BY <4>3, <4>4, <4>5
    <3> QED  BY <3>1, <3>2
  <2> QED  BY <2>1, <2>4, <2>5, SeqEqual DEF a, b
<1> QED  BY <1>0, <1>3, <1>7, <1>8 DEF s

(***************************************************************************)
(* The pair at the back forgotten: the map loses its key only.             *)
(***************************************************************************)
LEMMA LruBackIs ==
  ASSUME NEW list, NEW pair, NEW map, LruGood(list, pair, map), Len(list) > 0,
         NEW s, s.list = list, s.pair = pair, s.map = map
  PROVE  /\ LruGood(Front(list), pair, LruForget(s)) /\ Len(Front(list)) = Len(list) - 1
         /\ LruItemsOf(Front(list), pair) = SubSeq(LruItemsOf(list, pair), 1, Len(list) - 1)
<1> DEFINE m == Len(list) - 1
           f == SubSeq(list, 1, m)
           last == list[Len(list)]
           g == LruForget(s)
           old == pair[last][1]
<1>1. /\ list \in Seq(LruNode) /\ Len(list) \in Nat /\ m \in 0..Len(list) /\ pair \in [LruNode -> LruKey \X LruValue]
      /\ \A i, j \in 1..Len(list) : list[i] = list[j] => i = j
  BY LenProperties, RangeOf DEF LruGood
<1>2. Front(list) = f /\ Last(list) = last  BY <1>1 DEF Front, Last
<1>3. f \in Seq(LruNode) /\ Len(f) = m /\ \A j \in 1..m : f[j] = list[j]
  BY <1>1, PrefixProperties
<1>4. Range(f) = {list[i] : i \in 1..m} /\ IsInjective(f)
  BY <1>1, SplitRange DEF LruGood
<1>5. Range(list) = {list[i] : i \in 1..Len(list)} /\ Range(list) \subseteq LruNode  BY <1>1, RangeOf
<1>6. Range(f) = Range(list) \ {last} /\ last \in Range(list)
  <2>1. \A i \in 1..Len(list) : i \in 1..m <=> i # Len(list)  BY <1>1
  <2>2. Len(list) \in 1..Len(list) /\ 1..m \subseteq 1..Len(list)  BY <1>1
  <2>3. last \in Range(list)  BY <2>2, <1>5
  <2>4. ASSUME NEW n \in Range(f) PROVE n \in Range(list) \ {last}
    <3>1. PICK i \in 1..m : n = list[i]  BY <1>4
    <3>2. i \in 1..Len(list) /\ i # Len(list)  BY <2>1, <2>2
    <3> QED  BY <3>1, <3>2, <2>2, <1>1, <1>5
  <2>5. ASSUME NEW n \in Range(list) \ {last} PROVE n \in Range(f)
    <3>1. PICK i \in 1..Len(list) : n = list[i]  BY <1>5
    <3>2. i # Len(list)  BY <3>1
    <3> QED  BY <3>1, <3>2, <2>1, <1>4
  <2> QED  BY <2>3, <2>4, <2>5
<1>7. g = [k \in DOMAIN map \ {old} |-> map[k]]  BY <1>2 DEF LruForget
<1> HIDE DEF f, last, g, m
<1>8. DOMAIN map = {pair[n][1] : n \in Range(list)} /\ \A n \in Range(list) : map[pair[n][1]] = n
  BY DEF LruGood
<1>9. \A n \in Range(f) : pair[n][1] # old
  BY <1>6, <1>8
<1>10. DOMAIN g = {pair[n][1] : n \in Range(f)}
  BY <1>6, <1>7, <1>8, <1>9
<1>11. \A n \in Range(f) : g[pair[n][1]] = n
  BY <1>6, <1>7, <1>8, <1>9
<1>12. LruGood(f, pair, g)  BY <1>1, <1>3, <1>4, <1>10, <1>11 DEF LruGood
<1>13. LruItemsOf(f, pair) = SubSeq(LruItemsOf(list, pair), 1, m)
  <2> DEFINE a == LruItemsOf(f, pair)
             b == LruItemsOf(list, pair)
             P == LruKey \X LruValue
  <2>1. a \in Seq(P) /\ Len(a) = m /\ \A i \in 1..m : a[i] = pair[f[i]]
    BY <1>1, <1>3, LruItemsAre
  <2>2. b \in Seq(P) /\ Len(b) = Len(list) /\ \A i \in 1..Len(list) : b[i] = pair[list[i]]
    BY <1>1, LruItemsAre
  <2> HIDE DEF a, b, P
  <2>3. /\ SubSeq(b, 1, m) \in Seq(P) /\ Len(SubSeq(b, 1, m)) = m
        /\ \A j \in 1..m : SubSeq(b, 1, m)[j] = b[j]
    BY <2>2, <1>1, PrefixProperties
  <2>4. ASSUME NEW i \in 1..m PROVE a[i] = SubSeq(b, 1, m)[i]
    <3>1. i \in 1..Len(list)  BY <1>1
    <3>2. a[i] = pair[f[i]] /\ f[i] = list[i]  BY <2>1, <1>3
    <3> QED  BY <3>1, <3>2, <2>2, <2>3
  <2>5. a = SubSeq(b, 1, m)  BY <2>1, <2>3, <2>4, SeqEqual
  <2> QED  BY <2>5 DEF a, b
<1> QED  BY <1>2, <1>3, <1>12, <1>13 DEF m, g

(***************************************************************************)
(* The node of a known key taken out: the map leads to the one pair with   *)
(* the key, and the others stay in order.                                  *)
(***************************************************************************)
LEMMA LruErasedIs ==
  ASSUME LruInv, NEW k \in DOMAIN lruMap
  PROVE  LET list == LruErase(lruList, lruMap[k])
             items == LruItemsOf(lruList, lruPair)
         IN /\ lruMap[k] \in Range(lruList) /\ lruPair[lruMap[k]][1] = k
            /\ list \in Seq(LruNode) /\ IsInjective(list) /\ Len(list) = Len(lruList) - 1
            /\ Range(list) = Range(lruList) \ {lruMap[k]}
            /\ \E i \in 1..Len(lruList) : /\ LruAbstract!RlAt(k) = {i} /\ items[i] = lruPair[lruMap[k]]
                                           /\ LruItemsOf(list, lruPair) = RemoveAt(items, i)
<1> DEFINE n == lruMap[k]
           items == LruItemsOf(lruList, lruPair)
           P == LruKey \X LruValue
<1>1. /\ lruPair \in [LruNode -> P] /\ lruList \in Seq(LruNode)
      /\ DOMAIN lruMap = {lruPair[x][1] : x \in Range(lruList)}
      /\ \A x \in Range(lruList) : lruMap[lruPair[x][1]] = x
      /\ \A i, j \in 1..Len(lruList) : lruList[i] = lruList[j] => i = j
      /\ Len(lruList) \in Nat /\ DOMAIN lruList = 1..Len(lruList)
  BY RangeOf, LenProperties DEF LruInv, LruGood
<1>2. n \in Range(lruList) /\ lruPair[n][1] = k  BY <1>1
<1>3. Range(lruList) = {lruList[i] : i \in 1..Len(lruList)}  BY <1>1, RangeOf
<1>4. PICK i \in 1..Len(lruList) : lruList[i] = n  BY <1>2, <1>3
<1>5. \A j \in 1..Len(lruList) : lruList[j] = n => j = i  BY <1>1, <1>4
<1> DEFINE list == RemoveAt(lruList, i)
<1>6. LruErase(lruList, n) = list
  <2>1. (CHOOSE j \in DOMAIN lruList : lruList[j] = n) = i  BY <1>1, <1>4, <1>5
  <2> QED  BY <2>1 DEF LruErase
<1>7. /\ list \in Seq(LruNode) /\ Len(list) = Len(lruList) - 1
      /\ \A j \in 1..(Len(lruList) - 1) : list[j] = IF j < i THEN lruList[j] ELSE lruList[j + 1]
  BY <1>1, <1>4, RemoveAtProperties
<1> HIDE DEF list, n, P
<1>8. IsInjective(list)
  <2> SUFFICES ASSUME NEW x \in 1..Len(list), NEW y \in 1..Len(list), list[x] = list[y]
               PROVE  x = y
    BY <1>7, RangeOf
  <2> DEFINE fx == IF x < i THEN x ELSE x + 1
             fy == IF y < i THEN y ELSE y + 1
  <2>1. x \in 1..(Len(lruList) - 1) /\ y \in 1..(Len(lruList) - 1)  BY <1>7
  <2>2. fx \in 1..Len(lruList) /\ fy \in 1..Len(lruList)  BY <2>1, <1>1
  <2>3. list[x] = lruList[fx] /\ list[y] = lruList[fy]  BY <2>1, <1>7
  <2>4. fx = fy  BY <2>2, <2>3, <1>1
  <2> QED  BY <2>1, <2>4, <1>1
<1>9. Range(list) = Range(lruList) \ {n}
  <2>1. Range(list) = {list[j] : j \in 1..Len(list)}  BY <1>7, RangeOf
  <2>2. ASSUME NEW j \in 1..Len(list) PROVE list[j] \in Range(lruList) \ {n}
    <3> DEFINE f == IF j < i THEN j ELSE j + 1
    <3>1. j \in 1..(Len(lruList) - 1)  BY <1>7
    <3>2. f \in 1..Len(lruList) /\ f # i  BY <3>1, <1>1
    <3>3. list[j] = lruList[f]  BY <3>1, <1>7
    <3> QED  BY <3>2, <3>3, <1>3, <1>5
  <2>3. ASSUME NEW x \in Range(lruList) \ {n} PROVE x \in Range(list)
    <3>1. PICK j \in 1..Len(lruList) : lruList[j] = x  BY <1>3
    <3>2. j # i  BY <3>1, <1>4
    <3>3. CASE j < i
      <4>1. j \in 1..(Len(lruList) - 1)  BY <3>3, <1>1
      <4>2. j \in 1..Len(list) /\ list[j] = x  BY <4>1, <3>1, <3>3, <1>7
      <4> QED  BY <4>2, <2>1
    <3>4. CASE j > i
      <4>1. j - 1 \in 1..(Len(lruList) - 1) /\ ~(j - 1 < i) /\ j - 1 + 1 = j  BY <3>4, <1>1
      <4>2. j - 1 \in 1..Len(list) /\ list[j - 1] = x  BY <4>1, <3>1, <1>7
      <4> QED  BY <4>2, <2>1
    <3> QED  BY <3>2, <3>3, <3>4, <1>1
  <2> QED  BY <2>1, <2>2, <2>3
<1>10. /\ items \in Seq(P) /\ Len(items) = Len(lruList) /\ DOMAIN items = 1..Len(lruList)
       /\ \A j \in 1..Len(lruList) : items[j] = lruPair[lruList[j]]
  BY <1>1, LruItemsAre DEF P
<1> HIDE DEF items
<1>11. LruAbstract!RlAt(k) = {i}
  <2>1. LruAbstract!RlAt(k) = {j \in DOMAIN items : items[j][1] = k}
    BY DEF LruAbstract!RlAt, LruItemsOf, items
  <2>2. \A j \in 1..Len(lruList) : items[j][1] = k <=> j = i
    <3> TAKE j \in 1..Len(lruList)
    <3>1. items[j] = lruPair[lruList[j]] /\ lruList[j] \in Range(lruList)  BY <1>3, <1>10
    <3>2. lruPair[lruList[j]][1] = k => lruList[j] = n  BY <3>1, <1>1 DEF n
    <3> QED  BY <3>1, <3>2, <1>2, <1>4, <1>5
  <2> QED  BY <2>1, <2>2, <1>10
<1>12. LruItemsOf(list, lruPair) = RemoveAt(items, i)
  <2> DEFINE a == LruItemsOf(list, lruPair)
             b == RemoveAt(items, i)
  <2>1. a \in Seq(P) /\ Len(a) = Len(lruList) - 1 /\ \A j \in 1..(Len(lruList) - 1) : a[j] = lruPair[list[j]]
    <3>1. a \in Seq(P) /\ Len(a) = Len(list) /\ \A j \in 1..Len(list) : a[j] = lruPair[list[j]]
      BY <1>1, <1>7, LruItemsAre DEF P
    <3> HIDE DEF a
    <3> QED  BY <3>1, <1>7
  <2>2. /\ b \in Seq(P) /\ Len(b) = Len(lruList) - 1
        /\ \A j \in 1..(Len(lruList) - 1) : b[j] = IF j < i THEN items[j] ELSE items[j + 1]
    <3>1. items \in Seq(P) /\ i \in 1..Len(items)  BY <1>4, <1>10
    <3>2. /\ b \in Seq(P) /\ Len(b) = Len(items) - 1
          /\ \A j \in 1..(Len(items) - 1) : b[j] = IF j < i THEN items[j] ELSE items[j + 1]
      BY <3>1, RemoveAtProperties
    <3> HIDE DEF b
    <3> QED  BY <3>2, <1>10
  <2> HIDE DEF a, b
  <2>3. ASSUME NEW j \in 1..(Len(lruList) - 1) PROVE a[j] = b[j]
    <3>1. j \in 1..Len(lruList) /\ j + 1 \in 1..Len(lruList)  BY <1>1
    <3>2. CASE j < i  BY <3>1, <3>2, <2>1, <2>2, <1>7, <1>10
    <3>3. CASE ~(j < i)  BY <3>1, <3>3, <2>1, <2>2, <1>7, <1>10
    <3> QED  BY <3>2, <3>3
  <2>4. a = b  BY <2>1, <2>2, <2>3, SeqEqual
  <2> QED  BY <2>4 DEF a, b
<1>13. items[i] = lruPair[n]  BY <1>4, <1>10
<1> QED  BY <1>2, <1>6, <1>7, <1>8, <1>9, <1>11, <1>12, <1>13 DEF n, items

(***************************************************************************)
(* What is put in front of the other pairs, and cut to the capacity, is    *)
(* what a use of the key makes of the recency list.                        *)
(***************************************************************************)
LEMMA LruCutIs ==
  ASSUME NEW P, NEW t \in Seq(P), NEW c \in Nat, Len(t) <= c + 1
  PROVE  SubSeq(t, 1, IF Len(t) > c THEN c ELSE Len(t)) = IF Len(t) > c THEN SubSeq(t, 1, Len(t) - 1) ELSE t
<1>1. Len(t) \in Nat  BY LenProperties
<1>2. CASE Len(t) > c
  <2>1. Len(t) - 1 = c  BY <1>1, <1>2
  <2> QED  BY <1>2, <2>1
<1>3. CASE ~(Len(t) > c)  BY <1>3, SubSeqFull
<1> QED  BY <1>2, <1>3

(***************************************************************************)
(* put() of a key, known or not, is a use of it.                           *)
(***************************************************************************)
LEMMA LruPutUses ==
  ASSUME LruInv, NEW k \in LruKey, NEW v \in LruValue, LruPut(k, v)
  PROVE  LruInv' /\ LruAbstract!RlUse(k, v)
<1> DEFINE known == k \in DOMAIN lruMap
           list  == IF known THEN LruErase(lruList, lruMap[k]) ELSE lruList
           map   == [j \in DOMAIN lruMap \ {k} |-> lruMap[j]]
           s     == LruPushFront(list, k, v, map)
           items == LruItemsOf(lruList, lruPair)
           P     == LruKey \X LruValue
           t     == LruItemsOf(s.list, s.pair)
<1>1. /\ lruPair \in [LruNode -> P] /\ lruList \in Seq(LruNode) /\ IsInjective(lruList)
      /\ DOMAIN lruMap = {lruPair[x][1] : x \in Range(lruList)}
      /\ \A x \in Range(lruList) : lruMap[lruPair[x][1]] = x
      /\ Len(lruList) \in Nat /\ lruCapacity \in Nat /\ Len(lruList) <= lruCapacity
  BY LenProperties, LruAssumption DEF LruInv, LruGood
<1>2. LruBecomes(LruEvict(s))  BY DEF LruPut
<1>3. /\ list \in Seq(LruNode) /\ IsInjective(list) /\ Len(list) <= Len(lruList)
      /\ Range(list) \subseteq Range(lruList) /\ \A x \in Range(list) : lruPair[x][1] # k
      /\ \A x \in Range(lruList) : lruPair[x][1] # k => x \in Range(list)
  <2>1. CASE known
    <3>1. /\ list \in Seq(LruNode) /\ IsInjective(list) /\ Len(list) = Len(lruList) - 1
          /\ Range(list) = Range(lruList) \ {lruMap[k]} /\ lruPair[lruMap[k]][1] = k
      BY <2>1, LruErasedIs
    <3> HIDE DEF list
    <3> QED  BY <3>1, <1>1
  <2>2. CASE ~known  BY <2>2, <1>1
  <2> QED  BY <2>1, <2>2
<1>4. LruItemsOf(list, lruPair) = LruAbstract!RlWithout(k)
  <2>1. LruAbstract!RlWithout(k) = IF LruAbstract!RlAt(k) = {} THEN items
                                   ELSE RemoveAt(items, CHOOSE i \in LruAbstract!RlAt(k) : TRUE)
    BY DEF LruAbstract!RlWithout, LruAbstract!RemoveAt, RemoveAt, items, LruItemsOf
  <2>2. CASE known
    <3>1. PICK i \in 1..Len(lruList) : /\ LruAbstract!RlAt(k) = {i}
                                       /\ LruItemsOf(list, lruPair) = RemoveAt(items, i)
      BY <2>2, LruErasedIs
    <3>2. (CHOOSE j \in {i} : TRUE) = i  OBVIOUS
    <3> HIDE DEF items, list
    <3> QED  BY <2>1, <3>1, <3>2
  <2>3. CASE ~known
    <3>1. \A i \in 1..Len(lruList) : items[i] = lruPair[lruList[i]]  BY <1>1, LruItemsAre
    <3>2. \A i \in 1..Len(lruList) : lruList[i] \in Range(lruList)  BY <1>1, ElementInRange
    <3>3. DOMAIN items = 1..Len(lruList)  BY <1>1, LruItemsAre
    <3>4. LruAbstract!RlAt(k) = {i \in DOMAIN items : items[i][1] = k}
      BY DEF LruAbstract!RlAt, LruItemsOf, items
    <3> HIDE DEF items
    <3>5. LruAbstract!RlAt(k) = {}  BY <2>3, <3>1, <3>2, <3>3, <3>4, <1>1
    <3>6. LruItemsOf(list, lruPair) = items  BY <2>3 DEF items
    <3> HIDE DEF list
    <3> QED  BY <2>1, <3>5, <3>6
  <2> QED  BY <2>2, <2>3
<1> HIDE DEF list
<1>5. /\ DOMAIN map \cup {k} = {lruPair[x][1] : x \in Range(list)} \cup {k}
      /\ \A x \in Range(list) : lruPair[x][1] # k /\ map[lruPair[x][1]] = x
  <2>1. DOMAIN map = DOMAIN lruMap \ {k}  OBVIOUS
  <2>2. \A j \in DOMAIN lruMap \ {k} : map[j] = lruMap[j]  OBVIOUS
  <2> HIDE DEF map
  <2>3. \A x \in Range(list) : lruPair[x][1] \in DOMAIN lruMap \ {k}  BY <1>1, <1>3
  <2>4. \A j \in DOMAIN lruMap \ {k} : \E x \in Range(list) : lruPair[x][1] = j  BY <1>1, <1>3
  <2>5. \A x \in Range(list) : map[lruPair[x][1]] = x  BY <2>2, <2>3, <1>1, <1>3
  <2> QED  BY <2>1, <2>3, <2>4, <2>5
<1>6. Len(list) <= lruCapacity /\ Len(list) \in Nat  BY <1>1, <1>3, LenProperties
<1>7. /\ LruGood(s.list, s.pair, s.map) /\ Len(s.list) = Len(list) + 1
      /\ t = << <<k, v>> >> \o LruItemsOf(list, lruPair)
  <2> HIDE DEF map
  <2> QED  BY <1>3, <1>5, <1>6, LruFrontIs
<1> HIDE DEF s
<1>8. t \in Seq(P) /\ Len(t) = Len(s.list) /\ Len(t) <= lruCapacity + 1 /\ Len(t) > 0
  <2>1. t \in Seq(P) /\ Len(t) = Len(s.list)  BY <1>7, LruItemsAre DEF LruGood
  <2> HIDE DEF t
  <2> QED  BY <2>1, <1>6, <1>7, <1>1
<1> DEFINE cut == LruEvict(s)
<1>9. /\ LruGood(cut.list, cut.pair, cut.map) /\ Len(cut.list) <= lruCapacity
      /\ LruItemsOf(cut.list, cut.pair) = IF Len(t) > lruCapacity THEN SubSeq(t, 1, Len(t) - 1) ELSE t
  <2>1. CASE Len(s.list) > lruCapacity
    <3>1. cut.list = Front(s.list) /\ cut.pair = s.pair /\ cut.map = LruForget(s)
      BY <2>1 DEF LruEvict, LruPushFront, s
    <3>2. /\ LruGood(Front(s.list), s.pair, LruForget(s)) /\ Len(Front(s.list)) = Len(s.list) - 1
          /\ LruItemsOf(Front(s.list), s.pair) = SubSeq(t, 1, Len(s.list) - 1)
      BY <1>7, <1>8, LruBackIs
    <3> HIDE DEF cut, t
    <3> QED  BY <2>1, <3>1, <3>2, <1>1, <1>8
  <2>2. CASE ~(Len(s.list) > lruCapacity)
    <3>1. cut = s  BY <2>2 DEF LruEvict
    <3> HIDE DEF cut
    <3> QED  BY <2>2, <3>1, <1>1, <1>6, <1>7, <1>8
  <2> QED  BY <2>1, <2>2
<1>10. lruList' = cut.list /\ lruPair' = cut.pair /\ lruMap' = cut.map /\ lruCapacity' = lruCapacity
  BY <1>2 DEF LruBecomes
<1> HIDE DEF cut, t
<1>11. LruInv'  BY <1>9, <1>10 DEF LruInv, LruGood
<1>12. LruItemsOf(lruList', lruPair') = LruAbstract!RlFits(t)
  <2>1. LruAbstract!RlFits(t) = SubSeq(t, 1, IF Len(t) > lruCapacity THEN lruCapacity ELSE Len(t))
    BY DEF LruAbstract!RlFits
  <2> QED  BY <2>1, <1>1, <1>8, <1>9, <1>10, LruCutIs
<1>13. t = << <<k, v>> >> \o LruAbstract!RlWithout(k)  BY <1>4, <1>7
<1> QED  BY <1>10, <1>11, <1>12, <1>13 DEF LruAbstract!RlUse, LruItemsOf

(***************************************************************************)
(* get() of a known key is a use of it with the value it has.              *)
(***************************************************************************)
LEMMA LruGetUses ==
  ASSUME LruInv, NEW k \in LruKey, LruGet(k)
  PROVE  LruInv' /\ LruAbstract!RlGet(k)
<1> DEFINE n     == lruMap[k]
           list  == LruErase(lruList, n)
           items == LruItemsOf(lruList, lruPair)
           P     == LruKey \X LruValue
<1>1. /\ lruPair \in [LruNode -> P] /\ lruList \in Seq(LruNode) /\ IsInjective(lruList)
      /\ DOMAIN lruMap = {lruPair[x][1] : x \in Range(lruList)}
      /\ \A x \in Range(lruList) : lruMap[lruPair[x][1]] = x
      /\ Len(lruList) \in Nat /\ lruCapacity \in Nat /\ Len(lruList) <= lruCapacity
  BY LenProperties, LruAssumption DEF LruInv, LruGood
<1>2. k \in DOMAIN lruMap /\ LruBecomes(LruPushFront(list, k, lruPair[n][2], lruMap))  BY DEF LruGet
<1>3. /\ n \in Range(lruList) /\ lruPair[n][1] = k
      /\ list \in Seq(LruNode) /\ IsInjective(list) /\ Len(list) = Len(lruList) - 1
      /\ Range(list) = Range(lruList) \ {n}
      /\ \E i \in 1..Len(lruList) : /\ LruAbstract!RlAt(k) = {i} /\ items[i] = lruPair[n]
                                     /\ LruItemsOf(list, lruPair) = RemoveAt(items, i)
  BY <1>2, LruErasedIs
<1>4. PICK i \in 1..Len(lruList) : /\ LruAbstract!RlAt(k) = {i} /\ items[i] = lruPair[n]
                                   /\ LruItemsOf(list, lruPair) = RemoveAt(items, i)
  BY <1>3
<1>5. n \in LruNode /\ lruPair[n] \in P /\ lruPair[n] = <<k, lruPair[n][2]>> /\ lruPair[n][2] \in LruValue
  <2>1. n \in LruNode  BY <1>1, <1>3, RangeOf
  <2>2. lruPair[n] \in P  BY <1>1, <2>1
  <2> HIDE DEF n
  <2>3. \A p \in P : p = <<p[1], p[2]>> /\ p[2] \in LruValue  OBVIOUS
  <2> QED  BY <2>1, <2>2, <2>3, <1>3
<1>5v. PICK v \in LruValue : v = lruPair[n][2]  BY <1>5
<1> DEFINE s == LruPushFront(list, k, v, lruMap)
           t == LruItemsOf(s.list, s.pair)
<1>5s. LruBecomes(s) /\ lruPair[n] = <<k, v>>  BY <1>5v, <1>2, <1>5
<1> HIDE DEF n, list
<1>6. LruItemsOf(list, lruPair) = LruAbstract!RlWithout(k)
  <2>1. LruAbstract!RlWithout(k) = IF LruAbstract!RlAt(k) = {} THEN items
                                   ELSE RemoveAt(items, CHOOSE j \in LruAbstract!RlAt(k) : TRUE)
    BY DEF LruAbstract!RlWithout, LruAbstract!RemoveAt, RemoveAt, items, LruItemsOf
  <2>2. (CHOOSE j \in {i} : TRUE) = i  OBVIOUS
  <2> HIDE DEF items
  <2> QED  BY <2>1, <2>2, <1>4
<1>7. /\ DOMAIN lruMap \cup {k} = {lruPair[x][1] : x \in Range(list)} \cup {k}
      /\ \A x \in Range(list) : lruPair[x][1] # k /\ lruMap[lruPair[x][1]] = x
  <2>1. \A x \in Range(list) : x \in Range(lruList) /\ lruPair[x][1] # k
    BY <1>1, <1>3
  <2>2. \A x \in Range(lruList) : lruPair[x][1] # k => x \in Range(list)
    BY <1>3
  <2> QED  BY <2>1, <2>2, <1>1
<1>8. Len(list) <= lruCapacity /\ Len(list) \in Nat  BY <1>1, <1>3, LenProperties
<1>9. /\ LruGood(s.list, s.pair, s.map) /\ Len(s.list) = Len(list) + 1
      /\ t = << <<k, v>> >> \o LruItemsOf(list, lruPair)
  <2> DEFINE map == lruMap
  <2>1. list \in Seq(LruNode) /\ IsInjective(list) /\ Len(list) <= lruCapacity  BY <1>3, <1>8
  <2>2. /\ DOMAIN map \cup {k} = {lruPair[x][1] : x \in Range(list)} \cup {k}
        /\ \A x \in Range(list) : lruPair[x][1] # k /\ map[lruPair[x][1]] = x
    BY <1>7
  <2> DEFINE f == LruPushFront(list, k, v, map)
  <2>3. s = f /\ t = LruItemsOf(f.list, f.pair)  OBVIOUS
  <2> HIDE DEF items, P, map, s, t
  <2>4. /\ LruGood(f.list, f.pair, f.map) /\ Len(f.list) = Len(list) + 1
        /\ LruItemsOf(f.list, f.pair) = << <<k, v>> >> \o LruItemsOf(list, lruPair)
    BY <2>1, <2>2, LruFrontIs
  <2> QED  BY <2>3, <2>4
<1> HIDE DEF s
<1>10. t \in Seq(P) /\ Len(t) = Len(lruList)
  <2>1. t \in Seq(P) /\ Len(t) = Len(s.list)  BY <1>9, LruItemsAre DEF LruGood
  <2> HIDE DEF t
  <2> QED  BY <2>1, <1>1, <1>3, <1>8, <1>9
<1>11. lruList' = s.list /\ lruPair' = s.pair /\ lruMap' = s.map /\ lruCapacity' = lruCapacity
  BY <1>5s DEF LruBecomes
<1>12. LruInv'
  <2>1. Len(lruList') <= lruCapacity'  BY <1>1, <1>3, <1>9, <1>11
  <2> QED  BY <2>1, <1>9, <1>11 DEF LruInv, LruGood
<1>13. LruItemsOf(lruList', lruPair') = t  BY <1>11
<1>14. LruAbstract!RlFits(t) = t
  <2> HIDE DEF t
  <2>1. LruAbstract!RlFits(t) = SubSeq(t, 1, IF Len(t) > lruCapacity THEN lruCapacity ELSE Len(t))
    BY DEF LruAbstract!RlFits
  <2>2. ~(Len(t) > lruCapacity)  BY <1>1, <1>10
  <2> QED  BY <2>1, <2>2, <1>10, SubSeqFull
<1>15. t = << <<k, v>> >> \o LruAbstract!RlWithout(k)  BY <1>6, <1>9
<1>16. LruAbstract!RlUse(k, v)
  <2> HIDE DEF t
  <2> QED  BY <1>11, <1>13, <1>14, <1>15 DEF LruAbstract!RlUse, LruItemsOf
<1>17. <<k, v>> \in LruAbstract!Range(items)
  <2>1. DOMAIN items = 1..Len(lruList)  BY <1>1, LruItemsAre
  <2> HIDE DEF items
  <2> QED  BY <2>1, <1>4, <1>5s DEF LruAbstract!Range
<1>18. items = [j \in DOMAIN lruList |-> lruPair[lruList[j]]]  BY DEF LruItemsOf
<1> HIDE DEF items, s, t, P
<1>19. LruAbstract!RlGet(k) <=> \E u \in LruValue : <<k, u>> \in LruAbstract!Range(items) /\ LruAbstract!RlUse(k, u)
  BY <1>18 DEF LruAbstract!RlGet
<1>20. LruAbstract!RlGet(k)
  <2>1. \E u \in LruValue : <<k, u>> \in LruAbstract!Range(items) /\ LruAbstract!RlUse(k, u)
    BY <1>16, <1>17
  <2> QED  BY <2>1, <1>19
<1> QED  BY <1>12, <1>20

(***************************************************************************)
(* However long it is used and whatever is used again: the list with its   *)
(* map of nodes is a list of pairs by recency, and the types are right.    *)
(***************************************************************************)
THEOREM LruImplements == LruSpec => LruIsRecencyList /\ []LruTypeOK
<1>1. LruInit => LruInv /\ LruAbstract!RlInit
  <2> SUFFICES ASSUME LruInit PROVE LruInv /\ LruAbstract!RlInit  OBVIOUS
  <2>1. lruCapacity \in Nat  BY LruAssumption DEF LruInit
  <2>2. LruItemsOf(lruList, lruPair) = << >>  BY DEF LruInit, LruItemsOf
  <2>3. lruPair \in [LruNode -> LruKey \X LruValue]
    <3>0. PICK k \in LruKey, v \in LruValue : TRUE  BY LruAssumption
    <3>1. <<k, v>> \in LruKey \X LruValue  BY <3>0
    <3> QED  BY <3>1 DEF LruInit
  <2>4. DOMAIN lruMap = {} /\ Range(lruList) = {} /\ IsInjective(lruList)
    BY EmptyQueue DEF LruInit
  <2>5. LruInv  BY <2>1, <2>3, <2>4 DEF LruInit, LruInv, LruGood
  <2> QED  BY <2>1, <2>2, <2>5 DEF LruAbstract!RlInit, LruItemsOf
<1>2. LruInv /\ [LruNext]_lruVars => LruInv' /\ [LruAbstract!RlNext]_(LruAbstract!rlVars)
  <2> SUFFICES ASSUME LruInv, [LruNext]_lruVars
               PROVE  LruInv' /\ [LruAbstract!RlNext]_(LruAbstract!rlVars)
    OBVIOUS
  <2>1. ASSUME NEW k \in LruKey, LruGet(k) PROVE LruInv' /\ LruAbstract!RlNext
    BY <2>1, LruGetUses DEF LruAbstract!RlNext
  <2>2. ASSUME NEW k \in LruKey, NEW v \in LruValue, LruPut(k, v) PROVE LruInv' /\ LruAbstract!RlNext
    BY <2>2, LruPutUses DEF LruAbstract!RlNext, LruAbstract!RlPut
  <2>3. CASE UNCHANGED lruVars
    BY <2>3 DEF lruVars, LruInv, LruGood, LruAbstract!rlVars
  <2> QED  BY <2>1, <2>2, <2>3 DEF LruNext
<1>3. LruInv => LruTypeOK  BY DEF LruInv, LruGood, LruTypeOK
<1> QED  BY <1>1, <1>2, <1>3, PTL DEF LruSpec, LruIsRecencyList, LruAbstract!RlSpec

-----------------------------------------------------------------------------
-----------------------------------------------------------------------------
(***************************************************************************)
(* consistent_hash.  ChTypeOK, and a position belongs to a node that has a *)
(* virtual node there: what a deletion takes away is never another node's  *)
(* unless two virtual nodes share the position.                            *)
(***************************************************************************)
ChInv ==
  /\ chHash \in ChHashes /\ chNodes \subseteq ChNode
  /\ \A p \in DOMAIN chRing : chRing[p] \in chNodes /\ p \in ChPlaces(chRing[p])
  /\ ChDistinct => \A node \in chNodes : \A p \in ChPlaces(node) : p \in DOMAIN chRing /\ chRing[p] = node

(***************************************************************************)
(* The places of a node are positions, and no other node has one of them   *)
(* when the hash keeps virtual nodes apart.                                *)
(***************************************************************************)
LEMMA ChPlacesAre ==
  ASSUME ChInv, NEW node \in ChNode
  PROVE  /\ ChPlaces(node) \subseteq ChPositions /\ ChPlaces(node) \subseteq Nat
         /\ ChDistinct => \A other \in ChNode : other # node => ChPlaces(other) \cap ChPlaces(node) = {}
<1>1. /\ chHash \in ChHashes /\ DOMAIN chHash = ChVirtual /\ chHash \in [ChVirtual -> Nat]
  BY ChAssumption DEF ChInv
<1>2. \A n \in ChNode, i \in 0..ChMultis - 1 : <<n, i>> \in ChVirtual  BY DEF ChVirtual
<1>3. ChPlaces(node) \subseteq Nat
  <2> SUFFICES ASSUME NEW i \in 0..ChMultis - 1 PROVE chHash[<<node, i>>] \in Nat  BY DEF ChPlaces
  <2>1. <<node, i>> \in ChVirtual  BY <1>2
  <2> QED  BY <2>1, <1>1
<1>4. ChPlaces(node) \subseteq ChPositions
  <2> SUFFICES ASSUME NEW i \in 0..ChMultis - 1 PROVE chHash[<<node, i>>] \in ChPositions  BY DEF ChPlaces
  <2>1. chHash[<<node, i>>] \in {chHash[x] : x \in ChVirtual}  BY <1>2
  <2> QED  BY <2>1, <1>1 DEF ChPositions
<1>5. ASSUME ChDistinct, NEW other \in ChNode, other # node, NEW p \in ChPlaces(other) \cap ChPlaces(node) PROVE FALSE
  <2>1. PICK i \in 0..ChMultis - 1 : p = chHash[<<node, i>>]  BY DEF ChPlaces
  <2>2. PICK j \in 0..ChMultis - 1 : p = chHash[<<other, j>>]  BY DEF ChPlaces
  <2>3. <<node, i>> = <<other, j>>  BY <2>1, <2>2, <1>1, <1>2, <1>5 DEF ChDistinct, IsInjective
  <2> QED  BY <2>3, <1>5
<1> QED  BY <1>3, <1>4, <1>5

(***************************************************************************)
(* Every operation keeps it.                                               *)
(***************************************************************************)
LEMMA ChStepInv == ChInv /\ [ChNext]_chVars => ChInv'
<1> SUFFICES ASSUME ChInv, [ChNext]_chVars PROVE ChInv'  OBVIOUS
<1> DEFINE P(n) == ChPlaces(n)
<1>1. chHash' = chHash
  BY DEF ChNext, ChClear, ChAddNode, ChDelNode, chVars
<1>2. (\A n : ChPlaces(n)' = ChPlaces(n)) /\ (ChDistinct' <=> ChDistinct)
  BY <1>1 DEF ChPlaces, ChDistinct
<1>3. CASE ChClear  BY <1>1, <1>3 DEF ChClear, ChInv
<1>4. ASSUME NEW node \in ChNode, ChAddNode(node) PROVE ChInv'
  <2>1. /\ node \notin chNodes /\ chNodes' = chNodes \cup {node}
        /\ DOMAIN chRing' = DOMAIN chRing \cup P(node)
        /\ \A p \in P(node) : chRing'[p] = node
        /\ \A p \in DOMAIN chRing \ P(node) : chRing'[p] = chRing[p]
    BY <1>4 DEF ChAddNode
  <2> HIDE DEF P
  <2>2. \A p \in DOMAIN chRing' : chRing'[p] \in chNodes' /\ p \in P(chRing'[p])
    BY <2>1 DEF ChInv, P
  <2>3. ASSUME ChDistinct, NEW n \in chNodes', NEW p \in P(n) PROVE p \in DOMAIN chRing' /\ chRing'[p] = n
    <3>1. CASE n = node  BY <3>1, <2>1, <2>3
    <3>2. CASE n # node
      <4>1. n \in chNodes /\ n \in ChNode  BY <3>2, <2>1, <2>3 DEF ChInv
      <4>2. p \notin P(node)  BY <3>2, <4>1, <2>3, <1>4, ChPlacesAre DEF P
      <4>3. p \in DOMAIN chRing /\ chRing[p] = n  BY <4>1, <2>3 DEF ChInv, P
      <4> QED  BY <4>2, <4>3, <2>1
    <3> QED  BY <3>1, <3>2
  <2>4. chNodes' \subseteq ChNode /\ chHash' \in ChHashes  BY <2>1, <1>1, <1>4 DEF ChInv
  <2> QED  BY <2>2, <2>3, <2>4, <1>2 DEF ChInv, P
<1>5. ASSUME NEW node \in ChNode, ChDelNode(node) PROVE ChInv'
  <2>1. /\ chNodes' = chNodes \ {node}
        /\ DOMAIN chRing' = DOMAIN chRing \ P(node)
        /\ \A p \in DOMAIN chRing' : chRing'[p] = chRing[p]
    BY <1>5 DEF ChDelNode, ChLeft
  <2> HIDE DEF P
  <2>2. \A p \in DOMAIN chRing' : chRing'[p] \in chNodes' /\ p \in P(chRing'[p])
    BY <2>1 DEF ChInv, P
  <2>3. ASSUME ChDistinct, NEW n \in chNodes', NEW p \in P(n) PROVE p \in DOMAIN chRing' /\ chRing'[p] = n
    <3>1. n \in chNodes /\ n \in ChNode /\ n # node  BY <2>1, <2>3 DEF ChInv
    <3>2. p \notin P(node)  BY <3>1, <2>3, <1>5, ChPlacesAre DEF P
    <3>3. p \in DOMAIN chRing /\ chRing[p] = n  BY <3>1, <2>3 DEF ChInv, P
    <3> QED  BY <3>2, <3>3, <2>1
  <2>4. chNodes' \subseteq ChNode /\ chHash' \in ChHashes  BY <2>1, <1>1 DEF ChInv
  <2> QED  BY <2>2, <2>3, <2>4, <1>2 DEF ChInv, P
<1>6. CASE UNCHANGED chVars
  <2>1. UNCHANGED <<chHash, chNodes, chRing>>  BY <1>6 DEF chVars
  <2> QED  BY <2>1, <1>2 DEF ChInv
<1> QED  BY <1>3, <1>4, <1>5, <1>6 DEF ChNext

(***************************************************************************)
(* The position a key is given to: the first behind it, or the first.      *)
(***************************************************************************)
ChPlaceOf(places, key) ==
  LET after == {q \in places : key < q} IN Min(IF after = {} THEN places ELSE after)

(***************************************************************************)
(* If the places of a key in two rings are in both, they are the same.     *)
(***************************************************************************)
LEMMA ChPlacesAgree ==
  ASSUME NEW A \in SUBSET Nat, NEW B \in SUBSET Nat, A # {}, B # {}, NEW key \in Nat,
         ChPlaceOf(A, key) \in B, ChPlaceOf(B, key) \in A
  PROVE  ChPlaceOf(A, key) = ChPlaceOf(B, key)
<1> DEFINE After(S) == {q \in S : key < q}
           a == ChPlaceOf(A, key)
           b == ChPlaceOf(B, key)
<1>1. ASSUME NEW S \in SUBSET Nat, S # {}
      PROVE  /\ ChPlaceOf(S, key) \in S
             /\ After(S) # {} => key < ChPlaceOf(S, key) /\ \A q \in S : key < q => ChPlaceOf(S, key) <= q
             /\ After(S) = {} => \A q \in S : ChPlaceOf(S, key) <= q
  <2>1. CASE After(S) = {}
    <3>1. ChPlaceOf(S, key) = Min(S)  BY <2>1 DEF ChPlaceOf
    <3> QED  BY <2>1, <3>1, <1>1, LeastIs
  <2>2. CASE After(S) # {}
    <3>1. ChPlaceOf(S, key) = Min(After(S))  BY <2>2 DEF ChPlaceOf
    <3>2. After(S) \in SUBSET Nat  BY <1>1
    <3>3. Min(After(S)) \in After(S) /\ \A y \in After(S) : Min(After(S)) <= y
      BY <2>2, <3>2, LeastIs
    <3> QED  BY <2>2, <3>1, <3>3
  <2> QED  BY <2>1, <2>2
<1>2. a \in A /\ b \in B /\ a \in B /\ b \in A /\ a \in Nat /\ b \in Nat  BY <1>1
<1>3. CASE key < a \/ key < b
  <2>1. After(A) # {} /\ After(B) # {}  BY <1>2, <1>3
  <2>2. key < a /\ key < b /\ a <= b /\ b <= a  BY <2>1, <1>1, <1>2
  <2> QED  BY <2>2, <1>2
<1>4. CASE ~(key < a) /\ ~(key < b)
  <2>1. After(A) = {} /\ After(B) = {}  BY <1>1, <1>4
  <2>2. a <= b /\ b <= a  BY <2>1, <1>1, <1>2
  <2> QED  BY <2>2, <1>2
<1> QED  BY <1>3, <1>4

(***************************************************************************)
(* The types; and for every hash function that keeps virtual nodes apart,  *)
(* whatever nodes come and go, a key moves only away from a node that is   *)
(* removed or to one that is added.                                        *)
(***************************************************************************)
THEOREM ChKeepsKeys == ChSpec => []ChTypeOK /\ ChKeysStay
<1>1. ChInit => ChInv  BY DEF ChInit, ChInv
<1>2. ChInv => ChTypeOK
  <2> SUFFICES ASSUME ChInv PROVE ChTypeOK  OBVIOUS
  <2>1. DOMAIN chRing \subseteq ChPositions  BY ChPlacesAre DEF ChInv
  <2> QED  BY <2>1 DEF ChInv, ChTypeOK
<1>3. ChInv /\ ChInv' /\ [ChNext]_chVars =>
        [ChDistinct /\ DOMAIN chRing # {} /\ DOMAIN chRing' # {} =>
           \A key \in ChPositions \cup {0} :
             LET from == ChChoice(chRing, key)
                 to   == ChChoice(chRing', key)
             IN from # to => from \notin chNodes' \/ to \notin chNodes]_chVars
  <2> SUFFICES ASSUME ChInv, ChInv', [ChNext]_chVars, ChDistinct, DOMAIN chRing # {}, DOMAIN chRing' # {},
                      NEW key \in ChPositions \cup {0},
                      ChChoice(chRing, key) \in chNodes', ChChoice(chRing', key) \in chNodes
               PROVE  ChChoice(chRing, key) = ChChoice(chRing', key)
    OBVIOUS
  <2> DEFINE A == DOMAIN chRing
             B == DOMAIN chRing'
             a == ChPlaceOf(A, key)
             b == ChPlaceOf(B, key)
  <2>1. ChChoice(chRing, key) = chRing[a] /\ ChChoice(chRing', key) = chRing'[b]
    BY DEF ChChoice, ChPlaceOf
  <2>2. chHash' = chHash
    BY DEF ChNext, ChClear, ChAddNode, ChDelNode, chVars
  <2>3. (\A n : ChPlaces(n)' = ChPlaces(n)) /\ ChDistinct'
    BY <2>2 DEF ChPlaces, ChDistinct
  <2>4. A \in SUBSET Nat /\ B \in SUBSET Nat /\ key \in Nat
    <3>1. A \subseteq Nat  BY ChPlacesAre DEF ChInv
    <3>2. B \subseteq Nat
      <4>1. \A p \in B : chRing'[p] \in ChNode /\ p \in ChPlaces(chRing'[p])  BY <2>3 DEF ChInv
      <4>2. \A n \in ChNode : ChPlaces(n) \subseteq Nat  BY ChPlacesAre
      <4> QED  BY <4>1, <4>2
    <3>3. key \in Nat  BY ChAssumption DEF ChPositions
    <3> QED  BY <3>1, <3>2, <3>3
  <2>5. a \in A /\ b \in B
    <3>1. ASSUME NEW S \in SUBSET Nat, S # {} PROVE ChPlaceOf(S, key) \in S
      <4>1. {q \in S : key < q} \in SUBSET Nat  BY <3>1
      <4> QED  BY <3>1, <4>1, LeastIs DEF ChPlaceOf
    <3> QED  BY <2>4, <3>1
  <2>6. b \in A /\ chRing[b] = chRing'[b]
    <3>1. b \in ChPlaces(chRing'[b]) /\ chRing'[b] \in chNodes  BY <2>1, <2>3, <2>5 DEF ChInv
    <3> QED  BY <3>1 DEF ChInv
  <2>7. a \in B /\ chRing'[a] = chRing[a]
    <3>1. a \in ChPlaces(chRing[a]) /\ chRing[a] \in chNodes'  BY <2>1, <2>5 DEF ChInv
    <3> QED  BY <3>1, <2>3 DEF ChInv
  <2>8. a = b  BY <2>4, <2>5, <2>6, <2>7, ChPlacesAgree
  <2> QED  BY <2>1, <2>6, <2>8
<1> QED  BY <1>1, <1>2, <1>3, ChStepInv, PTL DEF ChSpec, ChKeysStay

-----------------------------------------------------------------------------
(***************************************************************************)
(* http.  What a loop over the lines s has done when it has still to visit *)
(* left, and the map it has made of the others and of the old one.         *)
(***************************************************************************)
HUpTo(s, d, map, old) ==
  map = {s[i] : i \in {i \in 1..d : s[i] # Nameless /\
           \A j \in i + 1..d : s[j] # Nameless => s[j].name # s[i].name}}
        \cup {e \in old : \A i \in 1..d : s[i] # Nameless => s[i].name # e.name}

HVisiting(s, left) ==
  Len(left) <= Len(s) /\ \A i \in 1..Len(left) : left[i] = s[Len(s) - Len(left) + i]

HDone(s, left) == Len(s) - Len(left)

HTypes ==
  /\ hPc \in {"start", "perform", "cookies", "headers", "done"}
  /\ hRet \in {0, -1}
  /\ hHeaderBuf \in Seq(HHeaderLines) /\ hCookieList \in Seq(HCookieLines)
  /\ hPc = "cookies" => hLeft \in Seq(HCookieLines)
  /\ hPc = "headers" => hLeft \in Seq(HHeaderLines)

HHolds ==
  /\ hPc = "start" => hCurl = "none" /\ hList = "none" /\ hFreed
  /\ hPc = "perform" => hCurl = "open" /\ hFreed
  /\ hPc = "headers" => hFreed
  /\ hPc = "done" => hCurl # "open" /\ hList # "owned" /\ hFreed

HKeeps ==
  /\ hPc \in {"start", "perform"} => hHeaders = hOldHeaders /\ hCookies = hOldCookies
  /\ hPc = "cookies" => /\ hHeaders = hOldHeaders /\ HVisiting(hCookieList, hLeft)
                        /\ HUpTo(hCookieList, HDone(hCookieList, hLeft), hCookies, hOldCookies)
                        /\ \A i \in 1..HDone(hCookieList, hLeft) : hCookieList[i].seven
  /\ hPc = "headers" => /\ HVisiting(hHeaderBuf, hLeft)
                        /\ HUpTo(hHeaderBuf, HDone(hHeaderBuf, hLeft), hHeaders, hOldHeaders)
  /\ hPc = "headers" \/ (hPc = "done" /\ hRet = 0) =>
       /\ HLast(hCookieList, hCookies, hOldCookies) /\ \A i \in DOMAIN hCookieList : hCookieList[i].seven
  /\ hPc = "done" /\ hRet = 0 => HLast(hHeaderBuf, hHeaders, hOldHeaders)

HInv == HTypes /\ HHolds /\ HKeeps

(***************************************************************************)
(* The line that is visited is the next one, and one less is left.         *)
(***************************************************************************)
LEMMA HVisitsNext ==
  ASSUME NEW S, NEW s \in Seq(S), NEW left \in Seq(S), HVisiting(s, left), left # << >>
  PROVE  /\ Head(left) = s[HDone(s, left) + 1] /\ HDone(s, left) \in 0..Len(s) - 1
         /\ Tail(left) \in Seq(S) /\ HVisiting(s, Tail(left))
         /\ HDone(s, Tail(left)) = HDone(s, left) + 1
<1>1. /\ Len(s) \in Nat /\ Len(left) \in Nat /\ Len(left) > 0 /\ Len(left) <= Len(s)
      /\ \A i \in 1..Len(left) : left[i] = s[Len(s) - Len(left) + i]
  BY LenProperties, EmptySeq DEF HVisiting
<1>2. Head(left) = left[1]  OBVIOUS
<1>3. /\ Tail(left) \in Seq(S) /\ Len(Tail(left)) = Len(left) - 1
      /\ \A i \in 1..(Len(left) - 1) : Tail(left)[i] = left[i + 1]
  <2>1. /\ Tail(left) \in Seq(S) /\ Len(Tail(left)) = Len(left) - 1
        /\ \A i \in 1..Len(Tail(left)) : Tail(left)[i] = left[i + 1]
    BY HeadTailProperties
  <2> QED  BY <2>1
<1> DEFINE t == Tail(left)
<1> HIDE DEF t
<1>4. HVisiting(s, t)
  <2>1. ASSUME NEW i \in 1..(Len(left) - 1) PROVE t[i] = s[Len(s) - (Len(left) - 1) + i]
    <3>1. i + 1 \in 1..Len(left) /\ Len(s) - (Len(left) - 1) + i = Len(s) - Len(left) + (i + 1)  BY <1>1
    <3> QED  BY <3>1, <1>1, <1>3 DEF t
  <2> QED  BY <2>1, <1>1, <1>3 DEF HVisiting, t
<1>5. HDone(s, t) = HDone(s, left) + 1 /\ HDone(s, left) \in 0..Len(s) - 1
  BY <1>1, <1>3 DEF HDone, t
<1>6. Head(left) = s[HDone(s, left) + 1]  BY <1>1, <1>2 DEF HDone
<1> QED  BY <1>3, <1>4, <1>5, <1>6 DEF t

(***************************************************************************)
(* One more line: its entry takes the place of an earlier one of its name. *)
(***************************************************************************)
LEMMA HUpToNext ==
  ASSUME NEW s, NEW d \in Nat, NEW map, NEW old, HUpTo(s, d, map, old)
  PROVE  HUpTo(s, d + 1, IF s[d + 1] = Nameless THEN map ELSE HAssign(map, s[d + 1]), old)
<1> DEFINE e == s[d + 1]
           Latest(i, n) == s[i] # Nameless /\ \A j \in i + 1..n : s[j] # Nameless => s[j].name # s[i].name
           Unnamed(x, n) == x \in old /\ \A i \in 1..n : s[i] # Nameless => s[i].name # x.name
<1>1. map = {s[i] : i \in {i \in 1..d : Latest(i, d)}} \cup {x \in old : Unnamed(x, d)}  BY DEF HUpTo
<1>2. CASE e = Nameless
  <2>1. ASSUME NEW i \in 1..d PROVE Latest(i, d + 1) <=> Latest(i, d)
    <3>1. i + 1..d + 1 = (i + 1..d) \cup {d + 1}  OBVIOUS
    <3> QED  BY <3>1, <1>2
  <2>2. ~Latest(d + 1, d + 1)  BY <1>2
  <2>3. {i \in 1..d + 1 : Latest(i, d + 1)} = {i \in 1..d : Latest(i, d)}
    <3>1. 1..d + 1 = (1..d) \cup {d + 1}  OBVIOUS
    <3> HIDE DEF Latest
    <3> QED  BY <3>1, <2>1, <2>2
  <2>4. {x \in old : Unnamed(x, d + 1)} = {x \in old : Unnamed(x, d)}
    <3>1. 1..d + 1 = (1..d) \cup {d + 1}  OBVIOUS
    <3> QED  BY <3>1, <1>2
  <2> QED  BY <1>1, <1>2, <2>3, <2>4 DEF HUpTo
<1>3. CASE e # Nameless
  <2>1. ASSUME NEW i \in 1..d PROVE Latest(i, d + 1) <=> Latest(i, d) /\ e.name # s[i].name
    <3>1. i + 1..d + 1 = (i + 1..d) \cup {d + 1}  OBVIOUS
    <3> QED  BY <3>1, <1>3
  <2>2. Latest(d + 1, d + 1)
    <3>1. d + 1 + 1..d + 1 = {}  OBVIOUS
    <3> QED  BY <3>1, <1>3
  <2>3. 1..d + 1 = (1..d) \cup {d + 1}  OBVIOUS
  <2>6. ASSUME NEW x PROVE Unnamed(x, d + 1) <=> Unnamed(x, d) /\ x.name # e.name  BY <2>3, <1>3
  <2> DEFINE new == {s[i] : i \in {i \in 1..d + 1 : Latest(i, d + 1)}} \cup {x \in old : Unnamed(x, d + 1)}
  <2>4. new = HAssign(map, e)
    <3> HIDE DEF Latest, Unnamed
    <3>1. ASSUME NEW x \in new PROVE x \in HAssign(map, e)
      <4>1. CASE \E i \in 1..d + 1 : Latest(i, d + 1) /\ x = s[i]
        <5>1. PICK i \in 1..d + 1 : Latest(i, d + 1) /\ x = s[i]  BY <4>1
        <5>2. CASE i = d + 1  BY <5>1, <5>2 DEF HAssign
        <5>3. CASE i \in 1..d  BY <5>1, <5>3, <2>1, <1>1 DEF HAssign
        <5> QED  BY <5>1, <5>2, <5>3, <2>3
      <4>2. CASE x \in old /\ Unnamed(x, d + 1)  BY <4>2, <2>6, <1>1 DEF HAssign
      <4> QED  BY <4>1, <4>2
    <3>2. ASSUME NEW x \in HAssign(map, e) PROVE x \in new
      <4>1. CASE x = e
        <5>1. d + 1 \in 1..d + 1 /\ x = s[d + 1]  BY <4>1
        <5> QED  BY <5>1, <2>2
      <4>2. CASE x \in map /\ x.name # e.name
        <5>1. CASE \E i \in 1..d : Latest(i, d) /\ x = s[i]
          <6>1. PICK i \in 1..d : Latest(i, d) /\ x = s[i]  BY <5>1
          <6>2. Latest(i, d + 1) /\ i \in 1..d + 1  BY <6>1, <4>2, <2>1
          <6> QED  BY <6>1, <6>2
        <5>2. CASE x \in old /\ Unnamed(x, d)  BY <5>2, <4>2, <2>6
        <5> QED  BY <5>1, <5>2, <4>2, <1>1
      <4> QED  BY <4>1, <4>2 DEF HAssign
    <3> QED  BY <3>1, <3>2
  <2>5. HUpTo(s, d + 1, new, old)  BY DEF HUpTo
  <2> HIDE DEF new
  <2> QED  BY <2>4, <2>5, <1>3
<1> QED  BY <1>2, <1>3

(***************************************************************************)
(* At the end of the loop the map is what the response promises.           *)
(***************************************************************************)
LEMMA HUpToAll ==
  ASSUME NEW S, NEW s \in Seq(S), NEW map, NEW old, HUpTo(s, HDone(s, << >>), map, old)
  PROVE  HLast(s, map, old) /\ HDone(s, << >>) = Len(s) /\ DOMAIN s = 1..Len(s)
<1>1. Len(s) \in Nat /\ DOMAIN s = 1..Len(s) /\ HDone(s, << >>) = Len(s)
  BY LenProperties DEF HDone
<1> QED  BY <1>1 DEF HUpTo, HLast, HLastLines, HUnnamed

(***************************************************************************)
(* Before the loop nothing is visited.                                     *)
(***************************************************************************)
LEMMA HUpToNone ==
  ASSUME NEW S, NEW s \in Seq(S), NEW old
  PROVE  HVisiting(s, s) /\ HDone(s, s) = 0 /\ HUpTo(s, 0, old, old)
<1>1. Len(s) \in Nat  BY LenProperties
<1> QED  BY <1>1 DEF HVisiting, HDone, HUpTo

(***************************************************************************)
(* Every step of the call, and of libcurl in it, keeps the invariant.      *)
(***************************************************************************)
LEMMA HStepInv == HInv /\ [HNext]_hVars => HInv'
<1> SUFFICES ASSUME HInv, [HNext]_hVars PROVE HInv'  OBVIOUS
<1> USE DEF HInv, hRes, hOld
<1>1. CASE HNoHandle  BY <1>1 DEF HNoHandle, HTypes, HHolds, HKeeps
<1>2. CASE HBegin  BY <1>2 DEF HBegin, HTypes, HHolds, HKeeps
<1>3. CASE response_body_cb  BY <1>3 DEF response_body_cb, HTypes, HHolds, HKeeps
<1>4. ASSUME NEW line \in HHeaderLines, response_header_cb(line) PROVE HInv'
  <2>1. hHeaderBuf' \in Seq(HHeaderLines)  BY <1>4, AppendProperties DEF response_header_cb, HTypes
  <2> QED  BY <1>4, <2>1 DEF response_header_cb, HTypes, HHolds, HKeeps
<1>5. CASE HFails  BY <1>5 DEF HFails, HListFreed, HTypes, HHolds, HKeeps
<1>6. ASSUME NEW list \in SeqOf(HCookieLines, HMaxCookies), HAnswered(list) PROVE HInv'
  <2>1. list \in Seq(HCookieLines)  BY SeqDef, HttpAssumption DEF SeqOf
  <2>2. HVisiting(list, list) /\ HDone(list, list) = 0 /\ HUpTo(list, 0, hOldCookies, hOldCookies)  BY <2>1, HUpToNone
  <2>3. hPc = "perform" /\ hPc' = "cookies" /\ hCookieList' = list /\ hLeft' = list
        /\ UNCHANGED <<hCurl, hList, hOld, hBody, hHeaderBuf, hHeaders, hCookies, hRet>>
    BY <1>6 DEF HAnswered
  <2>4. hHeaders = hOldHeaders /\ hCookies = hOldCookies  BY <2>3 DEF HKeeps
  <2>5. HTypes' /\ HHolds'  BY <2>1, <2>3 DEF HTypes, HHolds
  <2>6. \A i \in 1..0 : list[i].seven  OBVIOUS
  <2>7. HKeeps'  BY <2>2, <2>3, <2>4, <2>6 DEF HKeeps
  <2> QED  BY <2>5, <2>7
<1>7. CASE HCookie
  <2>1. /\ hPc = "cookies" /\ hLeft # << >> /\ Head(hLeft).seven
        /\ hCookies' = HAssign(hCookies, Head(hLeft)) /\ hLeft' = Tail(hLeft)
        /\ UNCHANGED <<hPc, hRes, hBody, hHeaderBuf, hCookieList, hHeaders, hRet>>
    BY <1>7 DEF HCookie
  <2> DEFINE d == HDone(hCookieList, hLeft)
  <2>2. hCookieList \in Seq(HCookieLines) /\ hLeft \in Seq(HCookieLines)  BY <2>1 DEF HTypes
  <2>3. /\ HVisiting(hCookieList, hLeft) /\ HUpTo(hCookieList, d, hCookies, hOldCookies)
        /\ \A i \in 1..d : hCookieList[i].seven /\ hHeaders = hOldHeaders
    BY <2>1 DEF HKeeps
  <2>4. /\ Head(hLeft) = hCookieList[d + 1] /\ d \in 0..Len(hCookieList) - 1
        /\ hLeft' \in Seq(HCookieLines) /\ HVisiting(hCookieList, hLeft')
        /\ HDone(hCookieList, hLeft') = d + 1
    BY <2>1, <2>2, <2>3, HVisitsNext
  <2> HIDE DEF d
  <2>5. d \in Nat /\ d + 1 \in 1..Len(hCookieList)  BY <2>2, <2>4, LenProperties
  <2>6. hCookieList[d + 1] # Nameless  BY <2>2, <2>5, ElementOfSeq, HttpAssumption
  <2>7. HUpTo(hCookieList, d + 1, hCookies', hOldCookies')  BY <2>1, <2>3, <2>4, <2>5, <2>6, HUpToNext
  <2>8. \A i \in 1..d + 1 : hCookieList[i].seven  BY <2>1, <2>3, <2>4, <2>5
  <2>9. HTypes' /\ HHolds'  BY <2>1, <2>4 DEF HTypes, HHolds
  <2>10. HKeeps'
    <3>1. HVisiting(hCookieList, hLeft)' /\ HUpTo(hCookieList, HDone(hCookieList, hLeft), hCookies, hOldCookies)'
          /\ (\A i \in 1..HDone(hCookieList, hLeft) : hCookieList[i].seven)'
      BY <2>1, <2>4, <2>7, <2>8
    <3>2. (hHeaders = hOldHeaders)'  BY <2>1 DEF HKeeps
    <3> QED  BY <2>1, <3>1, <3>2 DEF HKeeps
  <2> QED  BY <2>9, <2>10
<1>8. CASE HCookiesDone
  <2>1. /\ hPc = "cookies" /\ hLeft = << >> /\ hPc' = "headers" /\ hFreed' /\ hLeft' = hHeaderBuf
        /\ UNCHANGED <<hCurl, hList, hOld, hBody, hHeaderBuf, hCookieList, hHeaders, hCookies, hRet>>
    BY <1>8 DEF HCookiesDone
  <2>2. hCookieList \in Seq(HCookieLines) /\ hHeaderBuf \in Seq(HHeaderLines)  BY DEF HTypes
  <2>3. /\ HUpTo(hCookieList, HDone(hCookieList, << >>), hCookies, hOldCookies)
        /\ \A i \in 1..HDone(hCookieList, << >>) : hCookieList[i].seven
    BY <2>1 DEF HKeeps
  <2>4. HLast(hCookieList, hCookies, hOldCookies) /\ \A i \in DOMAIN hCookieList : hCookieList[i].seven
    BY <2>2, <2>3, HUpToAll
  <2>5. HVisiting(hHeaderBuf, hHeaderBuf) /\ HDone(hHeaderBuf, hHeaderBuf) = 0 /\ HUpTo(hHeaderBuf, 0, hOldHeaders, hOldHeaders)
    BY <2>2, HUpToNone
  <2>6. hHeaders = hOldHeaders  BY <2>1 DEF HKeeps
  <2>7. HTypes' /\ HHolds'  BY <2>1, <2>2 DEF HTypes, HHolds
  <2>8. HKeeps'
    <3>1. HVisiting(hHeaderBuf, hLeft)' /\ HUpTo(hHeaderBuf, HDone(hHeaderBuf, hLeft), hHeaders, hOldHeaders)'
      BY <2>1, <2>5, <2>6
    <3>2. HLast(hCookieList, hCookies, hOldCookies)' /\ (\A i \in DOMAIN hCookieList : hCookieList[i].seven)'
      BY <2>1, <2>4
    <3> QED  BY <2>1, <3>1, <3>2 DEF HKeeps
  <2> QED  BY <2>7, <2>8
<1>9. CASE HHeader
  <2>1. /\ hPc = "headers" /\ hLeft # << >> /\ hLeft' = Tail(hLeft)
        /\ hHeaders' = IF Head(hLeft) = Nameless THEN hHeaders ELSE HAssign(hHeaders, Head(hLeft))
        /\ UNCHANGED <<hPc, hRes, hBody, hHeaderBuf, hCookieList, hCookies, hRet>>
    BY <1>9 DEF HHeader
  <2> DEFINE d == HDone(hHeaderBuf, hLeft)
  <2>2. hHeaderBuf \in Seq(HHeaderLines) /\ hLeft \in Seq(HHeaderLines)  BY <2>1 DEF HTypes
  <2>3. HVisiting(hHeaderBuf, hLeft) /\ HUpTo(hHeaderBuf, d, hHeaders, hOldHeaders)  BY <2>1 DEF HKeeps
  <2>4. /\ Head(hLeft) = hHeaderBuf[d + 1] /\ d \in 0..Len(hHeaderBuf) - 1
        /\ hLeft' \in Seq(HHeaderLines) /\ HVisiting(hHeaderBuf, hLeft')
        /\ HDone(hHeaderBuf, hLeft') = d + 1
    BY <2>1, <2>2, <2>3, HVisitsNext
  <2> HIDE DEF d
  <2>5. HUpTo(hHeaderBuf, d + 1, hHeaders', hOldHeaders')  BY <2>1, <2>3, <2>4, HUpToNext
  <2>6. HTypes' /\ HHolds'  BY <2>1, <2>4 DEF HTypes, HHolds
  <2>7. HKeeps'
    <3>1. HVisiting(hHeaderBuf, hLeft)' /\ HUpTo(hHeaderBuf, HDone(hHeaderBuf, hLeft), hHeaders, hOldHeaders)'
      BY <2>1, <2>4, <2>5
    <3>2. HLast(hCookieList, hCookies, hOldCookies)' /\ (\A i \in DOMAIN hCookieList : hCookieList[i].seven)'
      BY <2>1 DEF HKeeps
    <3> QED  BY <2>1, <3>1, <3>2 DEF HKeeps
  <2> QED  BY <2>6, <2>7
<1>10. CASE HReturns
  <2>1. /\ hPc = "headers" /\ hLeft = << >> /\ hPc' = "done" /\ hCurl' = "released" /\ hList' = HListFreed
        /\ hRet' = 0 /\ UNCHANGED <<hFreed, hOld, hBody, hHeaderBuf, hCookieList, hLeft, hHeaders, hCookies>>
    BY <1>10 DEF HReturns
  <2>2. HTypes' /\ HHolds'  BY <2>1 DEF HTypes, HHolds, HListFreed
  <2>3. HLast(hHeaderBuf, hHeaders, hOldHeaders)
    <3>1. hHeaderBuf \in Seq(HHeaderLines)  BY DEF HTypes
    <3>2. HUpTo(hHeaderBuf, HDone(hHeaderBuf, << >>), hHeaders, hOldHeaders)  BY <2>1 DEF HKeeps
    <3> QED  BY <3>1, <3>2, HUpToAll
  <2>4. HLast(hCookieList, hCookies, hOldCookies) /\ \A i \in DOMAIN hCookieList : hCookieList[i].seven
    BY <2>1 DEF HKeeps
  <2>5. HLast(hHeaderBuf, hHeaders, hOldHeaders)' /\ HLast(hCookieList, hCookies, hOldCookies)'
        /\ (\A i \in DOMAIN hCookieList : hCookieList[i].seven)'
    BY <2>1, <2>3, <2>4
  <2>6. HKeeps'  BY <2>1, <2>5 DEF HKeeps
  <2> QED  BY <2>2, <2>6
<1>11. CASE UNCHANGED hVars
  <2>1. UNCHANGED <<hPc, hCurl, hList, hFreed, hOld, hHeaderBuf, hCookieList, hLeft, hHeaders, hCookies, hRet>>
    BY <1>11 DEF hVars
  <2>2. HTypes' /\ HHolds'  BY <2>1 DEF HTypes, HHolds
  <2>3. HKeeps'  BY <2>1 DEF HKeeps
  <2> QED  BY <2>2, <2>3
<1> QED  BY <1>1, <1>2, <1>3, <1>4, <1>5, <1>6, <1>7, <1>8, <1>9, <1>10, <1>11 DEF HNext

(***************************************************************************)
(* Whatever lines come, in whatever order and number: the handle and both  *)
(* lists are freed on every way out, and a success reports the last line   *)
(* of each header and the last of each cookie, and of an earlier call only *)
(* what no line names.                                                     *)
(***************************************************************************)
THEOREM HttpIsSound == HSpec => []HttpSound
<1>1. HInit => HInv
  <2> SUFFICES ASSUME HInit PROVE HInv  OBVIOUS
  <2> QED  BY DEF HInit, HInv, HTypes, HHolds, HKeeps
<1>2. HInv => HttpSound  BY DEF HInv, HHolds, HKeeps, HttpSound, HttpReleased, HttpLastOfEach
<1> QED  BY <1>1, <1>2, HStepInv, PTL DEF HSpec

-----------------------------------------------------------------------------
(***************************************************************************)
(* buffer.  The powers of two up to n, which the doubling runs through.    *)
(***************************************************************************)
BufPowersTo(n) == {p \in [0..n -> Nat \ {0}] : p[0] = 1 /\ \A i \in 1..n : p[i] = 2 * p[i - 1]}

(* There are such values up to every n. *)
LEMMA BufPowersExist == \A n \in Nat : BufPowersTo(n) # {}
<1> DEFINE Bad == {n \in Nat : BufPowersTo(n) = {}}
<1> SUFFICES ASSUME Bad # {} PROVE FALSE  OBVIOUS
<1>1. PICK n \in Bad : \A m \in Bad : n <= m  BY LeastIs
<1>2. CASE n = 0
  <2>1. [i \in 0..0 |-> 1] \in BufPowersTo(0)  BY DEF BufPowersTo
  <2> QED  BY <1>2, <2>1
<1>3. CASE n # 0
  <2>1. n - 1 \in Nat /\ n - 1 \notin Bad /\ n \in Nat  BY <1>1, <1>3
  <2>2. PICK p : p \in BufPowersTo(n - 1)  BY <2>1
  <2> DEFINE q == [i \in 0..n |-> IF i = n THEN 2 * p[n - 1] ELSE p[i]]
  <2>3. p \in [0..n - 1 -> Nat \ {0}] /\ p[0] = 1 /\ \A i \in 1..n - 1 : p[i] = 2 * p[i - 1]  BY <2>2 DEF BufPowersTo
  <2>4. \A i \in 0..n - 1 : p[i] \in Nat \ {0}  BY <2>3
  <2>5. \A i \in 0..n - 1 : q[i] = p[i]  BY <2>1
  <2>6. n - 1 \in 0..n - 1 /\ q[n] = 2 * p[n - 1] /\ q[n] = 2 * q[n - 1]  BY <2>1, <2>5
  <2>7. q \in [0..n -> Nat \ {0}]
    <3>1. \A i \in 0..n : i = n \/ i \in 0..n - 1  BY <2>1
    <3>2. \A i \in 0..n : q[i] \in Nat \ {0}
      <4> HIDE DEF q
      <4> QED BY <2>4, <2>5, <2>6, <3>1
    <3> QED  BY <3>2
  <2> HIDE DEF q
  <2>8. \A i \in 1..n : i = n \/ (i \in 1..n - 1 /\ i \in 0..n - 1 /\ i - 1 \in 0..n - 1)  BY <2>1
  <2>9. \A i \in 1..n : q[i] = 2 * q[i - 1]  BY <2>3, <2>5, <2>6, <2>8
  <2>10. q[0] = 1
     <3>1. 0 \in 0..n - 1  BY <2>1
     <3> QED  BY <3>1, <2>5, <2>3
  <2>11. q \in BufPowersTo(n)  BY <2>7, <2>9, <2>10 DEF BufPowersTo
  <2> QED  BY <2>11, <1>1
<1> QED  BY <1>2, <1>3

(* Those up to n agree with those up to any other number. *)
LEMMA BufPowersAgree ==
  ASSUME NEW m \in Nat, NEW n \in Nat, m <= n, NEW p \in BufPowersTo(m), NEW q \in BufPowersTo(n)
  PROVE  \A i \in 0..m : p[i] = q[i]
<1> DEFINE Bad == {i \in 0..m : p[i] # q[i]}
<1> SUFFICES ASSUME Bad # {} PROVE FALSE  OBVIOUS
<1>0. Bad \in SUBSET Nat  OBVIOUS
<1>1. PICK i \in Bad : \A j \in Bad : i <= j  BY <1>0, LeastIs
<1>2. i \in 0..m /\ p[i] # q[i]  BY <1>1
<1>3. i # 0  BY <1>2 DEF BufPowersTo
<1>4. i \in 1..m /\ i \in 1..n /\ i - 1 \in 0..m /\ ~(i <= i - 1)  BY <1>2, <1>3
<1>5. p[i - 1] = q[i - 1]  BY <1>1, <1>4
<1> QED  BY <1>2, <1>4, <1>5 DEF BufPowersTo

(* So the recursive definition has the values it says. *)
LEMMA BufPowerIs ==
  /\ BufPower[0] = 1
  /\ \A k \in Nat : BufPower[k] \in Nat \ {0} /\ BufPower[k + 1] = 2 * BufPower[k]
<1> DEFINE g(n) == CHOOSE p : p \in BufPowersTo(n)
           F == [n \in Nat |-> g(n)[n]]
           Eq(f) == f = [k \in Nat |-> IF k = 0 THEN 1 ELSE 2 * f[k - 1]]
<1>1. \A n \in Nat : g(n) \in BufPowersTo(n)  BY BufPowersExist
<1> HIDE DEF g
<1>2. \A n \in Nat : g(n)[0] = 1 /\ g(n)[n] \in Nat \ {0} 
  <2> TAKE n \in Nat
  <2>1. g(n) \in [0..n -> Nat \ {0}] /\ g(n)[0] = 1  BY <1>1 DEF BufPowersTo
  <2> QED  BY <2>1
<1>3. \A n \in Nat : g(n + 1)[n + 1] = 2 * g(n)[n]
  <2> TAKE n \in Nat
  <2>1. g(n + 1) \in BufPowersTo(n + 1) /\ g(n) \in BufPowersTo(n)  BY <1>1
  <2>2. g(n)[n] = g(n + 1)[n]  BY <2>1, BufPowersAgree
  <2>3. g(n + 1)[n + 1] = 2 * g(n + 1)[n]
     <3>1. n + 1 \in 1..n + 1 /\ (n + 1) - 1 = n  OBVIOUS
     <3> QED BY <2>1, <3>1 DEF BufPowersTo
  <2> QED  BY <2>2, <2>3
<1>4. F[0] = 1 /\ \A n \in Nat : F[n] \in Nat \ {0} /\ F[n + 1] = 2 * F[n]  BY <1>2, <1>3
<1>5. Eq(F)
  <2>1. \A k \in Nat : F[k] = IF k = 0 THEN 1 ELSE 2 * F[k - 1]
    <3> TAKE k \in Nat
    <3>1. CASE k = 0  BY <3>1, <1>4
    <3>2. CASE k # 0
      <4>1. k - 1 \in Nat /\ (k - 1) + 1 = k  BY <3>2
      <4>2. F[(k - 1) + 1] = 2 * F[k - 1]  BY <4>1, <1>4
      <4> QED  BY <4>1, <4>2, <3>2
    <3> QED  BY <3>1, <3>2
  <2>2. F = [k \in Nat |-> F[k]]  OBVIOUS
  <2> HIDE DEF F
  <2> QED  BY <2>1, <2>2
<1> HIDE DEF F
<1>6. BufPower = CHOOSE f : Eq(f)  BY DEF BufPower
<1>7. Eq(BufPower)  
  <2> HIDE DEF Eq
  <2> QED BY <1>5, <1>6
<1>8. \A k \in Nat : BufPower[k] = IF k = 0 THEN 1 ELSE 2 * BufPower[k - 1]  BY <1>7
<1>9. BufPower[0] = 1  BY <1>8
<1>10. \A k \in Nat : BufPower[k + 1] = 2 * BufPower[k]
  <2> TAKE k \in Nat
  <2>1. k + 1 \in Nat /\ k + 1 # 0 /\ (k + 1) - 1 = k OBVIOUS
  <2> QED  BY <1>8, <2>1
<1>11. \A k \in Nat : BufPower[k] = F[k]
  <2> DEFINE Bad == {k \in Nat : BufPower[k] # F[k]}
  <2> SUFFICES ASSUME Bad # {} PROVE FALSE  OBVIOUS
  <2>1. PICK k \in Bad : \A m \in Bad : k <= m  BY LeastIs
  <2>2. k # 0 /\ k \in Nat  BY <2>1, <1>9, <1>4
  <2>3. k - 1 \in Nat /\ (k - 1) + 1 = k /\ ~(k <= k - 1)  BY <2>2
  <2>4. BufPower[k - 1] = F[k - 1]  BY <2>1, <2>3
  <2>5. BufPower[(k - 1) + 1] = F[(k - 1) + 1]  BY <2>3, <2>4, <1>4, <1>10
  <2> QED  BY <2>5, <2>3, <2>1
<1> QED  BY <1>9, <1>10, <1>11, <1>4

(* The powers outgrow their exponents: the loop ends. *)
LEMMA BufPowerExceeds == \A k \in Nat : BufPower[k] > k
<1> DEFINE Bad == {k \in Nat : ~(BufPower[k] > k)}
<1> SUFFICES ASSUME Bad # {} PROVE FALSE  OBVIOUS
<1>1. PICK k \in Bad : \A m \in Bad : k <= m  BY LeastIs
<1>2. k # 0 /\ k \in Nat  BY <1>1, BufPowerIs
<1>3. k - 1 \in Nat /\ (k - 1) + 1 = k /\ ~(k <= k - 1)  BY <1>2
<1>4. BufPower[k - 1] > k - 1  BY <1>1, <1>3
<1>5. BufPower[(k - 1) + 1] = 2 * BufPower[k - 1] /\ BufPower[k - 1] \in Nat  BY <1>3, BufPowerIs
<1>6. BufPower[k] > k  BY <1>3, <1>4, <1>5
<1> QED  BY <1>1, <1>6

(***************************************************************************)
(* The buffer.  Its indices are in order inside an array that has its      *)
(* capacity, and the readable bytes are a given queue.                     *)
(***************************************************************************)
BufCell == BufByte \cup {BufJunk}

BufGood(b) ==
  /\ b \in [cap : Nat \ {0}, read : Nat, write : Nat, data : {b.data}]
  /\ b.read <= b.write /\ b.write <= b.cap
  /\ b.data \in [0..b.cap - 1 -> BufCell]

BufHolds(b, q) ==
  /\ q \in Seq(BufByte) /\ Len(q) = BufSize(b)
  /\ \A i \in 1..Len(q) : b.data[b.read + i - 1] = q[i]

BufFits(b) == b.cap < 2 * BufMaxSize \/ b.cap = BufInit

BufInv ==
  /\ BufGood(buf) /\ BufHolds(buf, bufQueue)
  /\ BufFits(buf) /\ BufSize(buf) <= BufMaxSize

(* The loop ends with room enough, and with less than twice that. *)
LEMMA BufDoubledIs ==
  ASSUME NEW cap \in Nat \ {0}, NEW need \in Nat, cap < need
  PROVE  /\ BufDoubled(cap, need) \in Nat \ {0}
         /\ need <= BufDoubled(cap, need) /\ BufDoubled(cap, need) < 2 * need
<1> DEFINE S == {cap * BufPower[k] : k \in 0..need} \ 0..need - 1
           c == BufDoubled(cap, need)
<1>0. \A x, y \in Nat \ {0} : x * y \in Nat \ {0} /\ y <= x * y /\ x * (2 * y) = 2 * (x * y)  OBVIOUS
<1>1. \A k \in Nat : cap * BufPower[k] \in Nat \ {0} /\ BufPower[k] <= cap * BufPower[k]
                  /\ cap * BufPower[k + 1] = 2 * (cap * BufPower[k])
  <2> TAKE k \in Nat
  <2>1. BufPower[k] \in Nat \ {0} /\ BufPower[k + 1] = 2 * BufPower[k]  BY BufPowerIs
  <2> QED  BY <2>1, <1>0
<1>2. S \in SUBSET Nat  BY <1>1
<1>3. BufPower[need] > need  BY BufPowerExceeds
<1>4. cap * BufPower[need] \in S
  <2>1. cap * BufPower[need] >= need  BY <1>1, <1>3, BufPowerIs
  <2> QED  BY <2>1, <1>1
<1>5. c \in S /\ \A y \in S : c <= y
  <2>1. S # {}  BY <1>4
  <2> HIDE DEF S
  <2>2. Min(S) \in S /\ \A y \in S : Min(S) <= y  BY <2>1, <1>2, LeastIs
  <2> QED  BY <2>2 DEF BufDoubled, S
<1> HIDE DEF c
<1>6. c \in Nat \ {0} /\ need <= c  BY <1>5, <1>1, <1>2
<1>7. PICK k \in 0..need : c = cap * BufPower[k]  BY <1>5
<1>8. k # 0
  <2>1. cap * 1 = cap  OBVIOUS
  <2> QED  BY <1>6, <1>7, <2>1, BufPowerIs
<1>9. k - 1 \in Nat /\ k - 1 \in 0..need /\ (k - 1) + 1 = k  BY <1>8
<1>10. c = 2 * (cap * BufPower[k - 1]) /\ cap * BufPower[k - 1] \in Nat \ {0}  BY <1>1, <1>7, <1>9
<1>11. cap * BufPower[k - 1] \notin S  BY <1>5, <1>10
<1>12. cap * BufPower[k - 1] < need  BY <1>9, <1>10, <1>11
<1>13. c < 2 * need  BY <1>10, <1>12
<1> QED  BY <1>6, <1>13 DEF c

(* The readable bytes in a new array. *)
LEMMA BufMovedToIs ==
  ASSUME NEW b, BufGood(b), NEW n \in Nat \ {0}, BufSize(b) <= n, NEW q, BufHolds(b, q)
  PROVE  /\ BufGood(BufMovedTo(b, n)) /\ BufHolds(BufMovedTo(b, n), q)
         /\ BufMovedTo(b, n).cap = n /\ BufMovedTo(b, n).write = BufSize(b)
         /\ BufSize(BufMovedTo(b, n)) = BufSize(b)
<1> DEFINE c == BufMovedTo(b, n)
           size == BufSize(b)
           data == [i \in 0..n - 1 |-> IF i < size THEN b.data[b.read + i] ELSE BufJunk]
<1>1. size \in Nat /\ b.read + size = b.write  BY DEF BufSize, BufGood
<1>2. \A i \in 0..n - 1 : i < size => b.read + i \in 0..b.cap - 1 /\ b.data[b.read + i] \in BufCell
  BY <1>1 DEF BufGood
<1>3. data \in [0..n - 1 -> BufCell]
  <2>1. BufJunk \in BufCell  BY DEF BufCell
  <2> QED  BY <1>2, <2>1
<1>4. c = [cap |-> n, read |-> 0, write |-> size, data |-> data]  BY DEF BufMovedTo
<1>5. \A i \in 1..size : data[i - 1] = b.data[b.read + i - 1]  BY <1>1
<1> HIDE DEF c, size, data
<1>6. c.cap = n /\ c.read = 0 /\ c.write = size /\ c.data = data  BY <1>4
<1>7. BufGood(c)  BY <1>1, <1>3, <1>4 DEF BufGood, size
<1>8. BufSize(c) = size  BY <1>1, <1>6 DEF BufSize
<1>9. BufHolds(c, q)
  <2>1. Len(q) = size /\ q \in Seq(BufByte) /\ \A i \in 1..size : q[i] = b.data[b.read + i - 1]  BY DEF BufHolds, size
  <2>2. \A i \in 1..size : c.read + i - 1 = i - 1  BY <1>6, <1>1
  <2> QED  BY <1>5, <1>6, <1>8, <2>1, <2>2 DEF BufHolds
<1> QED  BY <1>6, <1>7, <1>8, <1>9 DEF c, size

(* The readable bytes at the start of the same array. *)
LEMMA BufPackedIs ==
  ASSUME NEW b, BufGood(b), NEW q, BufHolds(b, q)
  PROVE  /\ BufGood(BufPacked(b)) /\ BufHolds(BufPacked(b), q)
         /\ BufPacked(b).cap = b.cap /\ BufPacked(b).write = BufSize(b)
         /\ BufSize(BufPacked(b)) = BufSize(b)
<1> DEFINE c == BufPacked(b)
           size == BufSize(b)
           data == [i \in 0..b.cap - 1 |-> IF i < size THEN b.data[b.read + i] ELSE b.data[i]]
<1>1. size \in Nat /\ b.read + size = b.write  BY DEF BufSize, BufGood
<1>2. \A i \in 0..b.cap - 1 : (i < size => b.read + i \in 0..b.cap - 1 /\ b.data[b.read + i] \in BufCell) /\ b.data[i] \in BufCell
  BY <1>1 DEF BufGood
<1>3. data \in [0..b.cap - 1 -> BufCell]  BY <1>2
<1>4. c = [b EXCEPT !.read = 0, !.write = size, !.data = data]  BY DEF BufPacked
<1>5. \A i \in 1..size : data[i - 1] = b.data[b.read + i - 1]  BY <1>1 DEF BufGood
<1> HIDE DEF c, size, data
<1>6. c \in [cap : Nat \ {0}, read : Nat, write : Nat, data : {data}]
      /\ c.cap = b.cap /\ c.read = 0 /\ c.write = size /\ c.data = data  BY <1>1, <1>4 DEF BufGood
<1>7. BufGood(c)  BY <1>1, <1>3, <1>6 DEF BufGood, size
<1>8. BufSize(c) = size  BY <1>1, <1>6 DEF BufSize
<1>9. BufHolds(c, q)
  <2>1. Len(q) = size /\ q \in Seq(BufByte) /\ \A i \in 1..size : q[i] = b.data[b.read + i - 1]  BY DEF BufHolds, size
  <2>2. \A i \in 1..size : c.read + i - 1 = i - 1  BY <1>6, <1>1
  <2> QED  BY <1>5, <1>6, <1>8, <2>1, <2>2 DEF BufHolds
<1> QED  BY <1>6, <1>7, <1>8, <1>9 DEF c, size

(* Afterwards there is room for len bytes, and the readable ones are the same. *)
LEMMA BufReservedIs ==
  ASSUME NEW b, BufGood(b), NEW q, BufHolds(b, q), NEW len \in Nat,
         BufFits(b), BufSize(b) + len <= BufMaxSize
  PROVE  /\ BufGood(BufReserved(b, len)) /\ BufHolds(BufReserved(b, len), q)
         /\ BufReserved(b, len).cap - BufReserved(b, len).write >= len
         /\ BufSize(BufReserved(b, len)) = BufSize(b)
         /\ BufFits(BufReserved(b, len))
<1> USE BufAssumption
<1> DEFINE size == BufSize(b)
           need == size + len
<1>1. size \in Nat /\ b.read + size = b.write /\ b.cap \in Nat \ {0} /\ b.read \in Nat /\ b.write \in Nat
  BY DEF BufSize, BufGood
<1>2. CASE b.cap - b.write >= len  BY <1>2 DEF BufReserved
<1>3. CASE ~(b.cap - b.write >= len) /\ b.cap - b.write + b.read >= len
  <2>1. BufReserved(b, len) = BufPacked(b)  BY <1>3 DEF BufReserved
  <2>2. b.cap - size >= len  BY <1>1, <1>3
  <2>3. BufFits(BufPacked(b))  BY BufPackedIs DEF BufFits
  <2> QED  BY <2>1, <2>2, <2>3, BufPackedIs
<1>4. CASE ~(b.cap - b.write >= len) /\ ~(b.cap - b.write + b.read >= len)
  <2> DEFINE c == BufDoubled(b.cap, need)
  <2>1. BufReserved(b, len) = BufMovedTo(b, c)  BY <1>4 DEF BufReserved
  <2>2. b.cap < need /\ need \in Nat  BY <1>1, <1>4
  <2>3. c \in Nat \ {0} /\ need <= c /\ c < 2 * need  BY <2>2, <1>1, BufDoubledIs
  <2> HIDE DEF c
  <2>4. c < 2 * BufMaxSize /\ size <= c /\ c - size >= len  BY <2>3, <1>1
  <2> HIDE DEF size
  <2>5. /\ BufGood(BufMovedTo(b, c)) /\ BufHolds(BufMovedTo(b, c), q)
        /\ BufMovedTo(b, c).cap = c /\ BufMovedTo(b, c).write = size
        /\ BufSize(BufMovedTo(b, c)) = size
    BY <2>3, <2>4, BufMovedToIs DEF size
  <2> QED  BY <2>1, <2>4, <2>5 DEF BufFits, size
<1> QED  BY <1>2, <1>3, <1>4

(* A write behind the readable bytes, which are then a longer queue. *)
LEMMA BufWrittenIs ==
  ASSUME NEW b, BufGood(b), NEW q, BufHolds(b, q), NEW s \in Seq(BufByte),
         b.cap - b.write >= Len(s), BufFits(b)
  PROVE  /\ BufGood(BufWritten(b, s)) /\ BufHolds(BufWritten(b, s), q \o s)
         /\ BufFits(BufWritten(b, s)) /\ BufSize(BufWritten(b, s)) = BufSize(b) + Len(s)
<1> DEFINE c == BufWritten(b, s)
           n == Len(s)
           data == [i \in 0..b.cap - 1 |-> IF i \in b.write..b.write + n - 1
                                           THEN s[i - b.write + 1] ELSE b.data[i]]
           r == q \o s
<1>1. n \in Nat /\ \A i \in 1..n : s[i] \in BufCell  BY LenProperties, ElementOfSeq DEF BufCell
<1>2. /\ b.cap \in Nat \ {0} /\ b.read \in Nat /\ b.write \in Nat /\ b.read <= b.write
      /\ b.write + n <= b.cap
  BY <1>1 DEF BufGood
<1>3. data \in [0..b.cap - 1 -> BufCell]
  <2>1. \A i \in b.write..b.write + n - 1 : i - b.write + 1 \in 1..n  BY <1>1, <1>2
  <2>2. \A i \in 0..b.cap - 1 : b.data[i] \in BufCell  BY DEF BufGood
  <2> HIDE DEF n
  <2> QED  BY <1>1, <2>1, <2>2
<1>4. c = [b EXCEPT !.data = data, !.write = b.write + n]  BY DEF BufWritten, BufGood
<1>5. /\ \A i \in b.read..b.write - 1 : data[i] = b.data[i]
      /\ \A i \in 1..n : data[b.write + i - 1] = s[i]
  <2>1. \A i \in b.read..b.write - 1 : i \in 0..b.cap - 1 /\ i \notin b.write..b.write + n - 1
    BY <1>1, <1>2
  <2>2. \A i \in 1..n : /\ b.write + i - 1 \in 0..b.cap - 1 /\ b.write + i - 1 \in b.write..b.write + n - 1
                        /\ (b.write + i - 1) - b.write + 1 = i
    BY <1>1, <1>2
  <2> HIDE DEF n
  <2> QED  BY <2>1, <2>2
<1> HIDE DEF c, data, n
<1>6. /\ c \in [cap : Nat \ {0}, read : Nat, write : Nat, data : {data}]
      /\ c.cap = b.cap /\ c.read = b.read /\ c.write = b.write + n /\ c.data = data
  BY <1>1, <1>2, <1>4 DEF BufGood
<1>7. BufGood(c)  BY <1>1, <1>2, <1>3, <1>6 DEF BufGood
<1>8. BufSize(c) = BufSize(b) + n  BY <1>1, <1>2, <1>6 DEF BufSize
<1>9. BufHolds(c, r)
  <2>1. /\ q \in Seq(BufByte) /\ Len(q) = b.write - b.read
        /\ \A i \in 1..Len(q) : b.data[b.read + i - 1] = q[i]
    BY DEF BufHolds, BufSize
  <2>2. /\ r \in Seq(BufByte) /\ Len(r) = Len(q) + n
        /\ \A i \in 1..Len(q) + n : r[i] = IF i <= Len(q) THEN q[i] ELSE s[i - Len(q)]
    BY <2>1, ConcatProperties DEF n
  <2> HIDE DEF r
  <2>3. Len(q) \in Nat  BY <1>2, <2>1
  <2>4. ASSUME NEW i \in 1..Len(r) PROVE c.data[c.read + i - 1] = r[i]
    <3>1. CASE i <= Len(q)
      <4>1. b.read + i - 1 \in b.read..b.write - 1 /\ i \in 1..Len(q)  BY <3>1, <2>1, <1>2
      <4>2. data[b.read + i - 1] = b.data[b.read + i - 1]  BY <4>1, <1>5
      <4>3. r[i] = q[i]  BY <3>1, <2>2
      <4> QED  BY <4>1, <4>2, <4>3, <2>1, <1>6
    <3>2. CASE ~(i <= Len(q))
      <4> DEFINE k == Len(q)
      <4>4. /\ k \in Nat /\ n \in Nat /\ b.read \in Nat /\ b.write = b.read + k
            /\ i \in Nat /\ k < i /\ i <= k + n
        BY <3>2, <2>1, <2>2, <2>3, <1>1, <1>2
      <4> HIDE DEF k
      <4>5. PICK j \in 1..n : i = k + j
        <5>1. i - k \in 1..n /\ i = k + (i - k)  BY <4>4
        <5> QED  BY <5>1
      <4>6. i - k = j /\ b.read + i - 1 = b.write + j - 1  BY <4>4, <4>5
      <4>1. i - k \in 1..n /\ b.read + i - 1 = b.write + (i - k) - 1  BY <4>5, <4>6
      <4> USE DEF k
      <4>2. data[b.write + (i - Len(q)) - 1] = s[i - Len(q)]  BY <4>1, <1>5
      <4>3. r[i] = s[i - Len(q)]  BY <3>2, <2>2
      <4> QED  BY <4>1, <4>2, <4>3, <1>6
    <3> QED  BY <3>1, <3>2
  <2>5. Len(r) = BufSize(c)  BY <1>8, <2>1, <2>2 DEF BufSize
  <2> QED  BY <2>2, <2>4, <2>5 DEF BufHolds
<1> QED  BY <1>6, <1>7, <1>8, <1>9 DEF c, n, r, BufFits

(* An array that was too large is replaced, and the readable bytes are the same. *)
LEMMA BufShrunkIs ==
  ASSUME NEW b, BufGood(b), NEW q, BufHolds(b, q), BufFits(b)
  PROVE  /\ BufGood(BufShrunk(b)) /\ BufHolds(BufShrunk(b), q) /\ BufFits(BufShrunk(b))
         /\ BufSize(BufShrunk(b)) = BufSize(b)
<1>1. CASE BufSize(b) < BufInit /\ b.cap > BufShrink
  <2>1. BufInit \in Nat \ {0} /\ BufSize(b) <= BufInit  BY <1>1, BufAssumption DEF BufGood, BufSize
  <2>2. BufShrunk(b) = BufMovedTo(b, BufInit)  BY <1>1 DEF BufShrunk
  <2>3. /\ BufGood(BufMovedTo(b, BufInit)) /\ BufHolds(BufMovedTo(b, BufInit), q)
        /\ BufMovedTo(b, BufInit).cap = BufInit /\ BufSize(BufMovedTo(b, BufInit)) = BufSize(b)
    BY <2>1, BufMovedToIs
  <2> QED  BY <2>2, <2>3 DEF BufFits
<1>2. CASE ~(BufSize(b) < BufInit /\ b.cap > BufShrink)
  BY <1>2 DEF BufShrunk
<1> QED  BY <1>1, <1>2

(* The bytes from a later read index to an earlier write index are a part of the queue. *)
LEMMA BufCutIs ==
  ASSUME NEW b, BufGood(b), NEW q, BufHolds(b, q), BufFits(b),
         NEW lo \in Nat, NEW hi \in Nat, b.read <= lo, lo <= hi, hi <= b.write
  PROVE  LET c == [b EXCEPT !.read = lo, !.write = hi]
         IN  /\ BufGood(c) /\ BufHolds(c, SubSeq(q, lo - b.read + 1, hi - b.read))
             /\ BufFits(c) /\ BufSize(c) <= BufSize(b)
<1> DEFINE c == [b EXCEPT !.read = lo, !.write = hi]
           m == lo - b.read + 1
           n == hi - b.read
           r == SubSeq(q, m, n)
<1>1. /\ c \in [cap : Nat \ {0}, read : Nat, write : Nat, data : {b.data}]
      /\ c.cap = b.cap /\ c.read = lo /\ c.write = hi /\ c.data = b.data
  BY DEF BufGood
<1> HIDE DEF c
<1>2. b.read \in Nat /\ b.write \in Nat /\ b.write <= b.cap /\ b.cap \in Nat  BY DEF BufGood
<1>3. BufGood(c)  BY <1>1, <1>2 DEF BufGood
<1>4. BufSize(c) = hi - lo /\ BufSize(c) <= BufSize(b)  BY <1>1, <1>2 DEF BufSize
<1>5. /\ q \in Seq(BufByte) /\ Len(q) = b.write - b.read
      /\ \A i \in 1..Len(q) : b.data[b.read + i - 1] = q[i]
  BY DEF BufHolds, BufSize
<1>6. m \in Int /\ n \in Int /\ n - m + 1 = hi - lo /\ \A i \in m..n : i \in 1..Len(q)
  <2>1. m \in Int /\ n \in Int /\ 1 <= m /\ n <= b.write - b.read  BY <1>2
  <2>2. n - m + 1 = hi - lo  BY <1>2
  <2>3. \A i \in m..n : i \in 1..b.write - b.read  BY <1>2, <2>1
  <2> QED  BY <1>5, <2>1, <2>2, <2>3
<1>7. \A i \in 1..hi - lo : m + i - 1 \in 1..Len(q) /\ b.read + (m + i - 1) - 1 = lo + i - 1
  BY <1>2, <1>5
<1> HIDE DEF m, n
<1>8. \A i \in m..n : q[i] \in BufByte  BY <1>5, <1>6, ElementOfSeq
<1>9. /\ r \in Seq(BufByte) /\ Len(r) = IF m <= n THEN n - m + 1 ELSE 0
      /\ \A i \in 1..n - m + 1 : r[i] = q[m + i - 1]
  BY <1>6, <1>8, SubSeqProperties
<1> HIDE DEF r
<1>10. Len(r) = hi - lo  BY <1>6, <1>9
<1>11. \A i \in 1..Len(r) : c.data[c.read + i - 1] = r[i]
  <2> TAKE i \in 1..Len(r)
  <2>1. m + i - 1 \in 1..Len(q) /\ b.read + (m + i - 1) - 1 = lo + i - 1  BY <1>7, <1>10
  <2>2. b.data[b.read + (m + i - 1) - 1] = q[m + i - 1]  BY <2>1, <1>5
  <2>3. r[i] = q[m + i - 1]  BY <1>6, <1>9, <1>10
  <2> QED  BY <2>1, <2>2, <2>3, <1>1
<1>12. BufHolds(c, r)  BY <1>4, <1>9, <1>10, <1>11 DEF BufHolds
<1> QED  BY <1>1, <1>3, <1>4, <1>12 DEF c, r, m, n, BufFits

(* The bytes a call may bring are a queue of bytes. *)
LEMMA BufStringIs == \A s \in BufStrings : s \in Seq(BufByte) /\ Len(s) \in 0..BufMaxLen
<1> TAKE s \in BufStrings
<1>1. PICK n \in 0..BufMaxLen : s \in [1..n -> BufByte]  BY DEF BufStrings
<1>2. n \in Nat  BY <1>1, BufAssumption
<1>3. Len(s) = n /\ s \in Seq(BufByte)  BY <1>1, <1>2
<1> QED  BY <1>1, <1>3

(* trim_left() stops where the queue has its first byte that is no space. *)
LEMMA BufTrimLeftIs ==
  ASSUME BufInv
  PROVE  LET lo == Min(BufNotSpaces(buf.read, buf.write) \cup {buf.write})
             m  == Min({i \in DOMAIN bufQueue : bufQueue[i] \notin BufSpace} \cup {Len(bufQueue) + 1})
         IN  lo \in Nat /\ buf.read <= lo /\ lo <= buf.write /\ m = lo - buf.read + 1
<1> DEFINE S == BufNotSpaces(buf.read, buf.write) \cup {buf.write}
           Q == {i \in DOMAIN bufQueue : bufQueue[i] \notin BufSpace} \cup {Len(bufQueue) + 1}
           lo == Min(S)
           m == Min(Q)
<1>1. buf.read \in Nat /\ buf.write \in Nat /\ buf.read <= buf.write  BY DEF BufInv, BufGood
<1>2. /\ DOMAIN bufQueue = 1..Len(bufQueue) /\ Len(bufQueue) = buf.write - buf.read
      /\ \A i \in 1..Len(bufQueue) : buf.data[buf.read + i - 1] = bufQueue[i]
  BY DEF BufInv, BufHolds, BufSize
<1>3. S \in SUBSET Nat /\ Q \in SUBSET Nat /\ S # {} /\ Q # {}
      /\ \A x \in S : buf.read <= x /\ x <= buf.write
  BY <1>1, <1>2 DEF BufNotSpaces
<1>4. \A x \in S : x - buf.read + 1 \in Q
  <2> SUFFICES ASSUME NEW x \in S PROVE x - buf.read + 1 \in Q  OBVIOUS
  <2>1. CASE x = buf.write  BY <2>1, <1>1, <1>2
  <2>2. CASE x # buf.write
    <3>1. x \in buf.read..buf.write - 1 /\ buf.data[x] \notin BufSpace  BY <2>2 DEF BufNotSpaces
    <3>2. x - buf.read + 1 \in 1..Len(bufQueue) /\ buf.read + (x - buf.read + 1) - 1 = x
      <4>1. \A y \in buf.read..buf.write - 1 : /\ y - buf.read + 1 \in 1..buf.write - buf.read
                                              /\ buf.read + (y - buf.read + 1) - 1 = y
        BY <1>1
      <4> QED  BY <4>1, <3>1, <1>2
    <3>3. bufQueue[x - buf.read + 1] = buf.data[x]  BY <3>2, <1>2
    <3> QED  BY <3>1, <3>2, <3>3, <1>2
  <2> QED  BY <2>1, <2>2
<1>5. \A i \in Q : buf.read + i - 1 \in S
  <2> SUFFICES ASSUME NEW i \in Q PROVE buf.read + i - 1 \in S  OBVIOUS
  <2>1. CASE i = Len(bufQueue) + 1  BY <2>1, <1>1, <1>2
  <2>2. CASE i # Len(bufQueue) + 1
    <3>1. i \in 1..Len(bufQueue) /\ bufQueue[i] \notin BufSpace  BY <2>2, <1>2
    <3>2. buf.read + i - 1 \in buf.read..buf.write - 1  BY <3>1, <1>1, <1>2
    <3> QED  BY <3>1, <3>2, <1>2 DEF BufNotSpaces
  <2> QED  BY <2>1, <2>2
<1> HIDE DEF S, Q
<1>6. lo \in S /\ (\A y \in S : lo <= y) /\ m \in Q /\ (\A y \in Q : m <= y)  BY <1>3, LeastIs
<1> HIDE DEF lo, m
<1>7. lo <= buf.read + m - 1 /\ m <= lo - buf.read + 1 /\ lo \in Nat /\ m \in Nat  BY <1>3, <1>4, <1>5, <1>6
<1>8. m = lo - buf.read + 1  BY <1>7, <1>1
<1> QED  BY <1>3, <1>6, <1>7, <1>8 DEF lo, m, S, Q

(* The same from behind. *)
LEMMA BufTrimRightIs ==
  ASSUME BufInv
  PROVE  LET hi == 1 + Max(BufNotSpaces(buf.read, buf.write) \cup {buf.read - 1})
             n  == Max({i \in DOMAIN bufQueue : bufQueue[i] \notin BufSpace} \cup {0})
         IN  hi \in Nat /\ buf.read <= hi /\ hi <= buf.write /\ n = hi - buf.read
<1> DEFINE S == BufNotSpaces(buf.read, buf.write) \cup {buf.read - 1}
           Q == {i \in DOMAIN bufQueue : bufQueue[i] \notin BufSpace} \cup {0}
           last == Max(S)
           n == Max(Q)
<1>1. buf.read \in Nat /\ buf.write \in Nat /\ buf.read <= buf.write  BY DEF BufInv, BufGood
<1>2. /\ DOMAIN bufQueue = 1..Len(bufQueue) /\ Len(bufQueue) = buf.write - buf.read
      /\ \A i \in 1..Len(bufQueue) : buf.data[buf.read + i - 1] = bufQueue[i]
  BY DEF BufInv, BufHolds, BufSize
<1>3. /\ S \in SUBSET Int /\ Q \in SUBSET Int /\ S # {} /\ Q # {}
      /\ \A x \in S : buf.read - 1 <= x /\ x <= buf.write - 1
      /\ \A i \in Q : i <= Len(bufQueue)
  BY <1>1, <1>2 DEF BufNotSpaces
<1>4. \A x \in S : x - buf.read + 1 \in Q
  <2> SUFFICES ASSUME NEW x \in S PROVE x - buf.read + 1 \in Q  OBVIOUS
  <2>1. CASE x = buf.read - 1  BY <2>1, <1>1
  <2>2. CASE x # buf.read - 1
    <3>1. x \in buf.read..buf.write - 1 /\ buf.data[x] \notin BufSpace  BY <2>2 DEF BufNotSpaces
    <3>2. x - buf.read + 1 \in 1..Len(bufQueue) /\ buf.read + (x - buf.read + 1) - 1 = x
      <4>1. \A y \in buf.read..buf.write - 1 : /\ y - buf.read + 1 \in 1..buf.write - buf.read
                                              /\ buf.read + (y - buf.read + 1) - 1 = y
        BY <1>1
      <4> QED  BY <4>1, <3>1, <1>2
    <3>3. bufQueue[x - buf.read + 1] = buf.data[x]  BY <3>2, <1>2
    <3> QED  BY <3>1, <3>2, <3>3, <1>2
  <2> QED  BY <2>1, <2>2
<1>5. \A i \in Q : buf.read + i - 1 \in S
  <2> SUFFICES ASSUME NEW i \in Q PROVE buf.read + i - 1 \in S  OBVIOUS
  <2>1. CASE i = 0  BY <2>1, <1>1
  <2>2. CASE i # 0
    <3>1. i \in 1..Len(bufQueue) /\ bufQueue[i] \notin BufSpace  BY <2>2, <1>2
    <3>2. buf.read + i - 1 \in buf.read..buf.write - 1  BY <3>1, <1>1, <1>2
    <3> QED  BY <3>1, <3>2, <1>2 DEF BufNotSpaces
  <2> QED  BY <2>1, <2>2
<1> HIDE DEF S, Q
<1>6. last \in S /\ (\A y \in S : last >= y) /\ n \in Q /\ (\A y \in Q : n >= y)
  <2>1. buf.write - 1 \in Int /\ Len(bufQueue) \in Int  BY <1>1, <1>2
  <2> QED  BY <2>1, <1>3, GreatestIs
<1> HIDE DEF last, n
<1>7. last >= buf.read + n - 1 /\ n >= last - buf.read + 1 /\ last \in Int /\ n \in Int  BY <1>3, <1>4, <1>5, <1>6
<1>8. n = (1 + last) - buf.read
  <2>1. last >= buf.read + n - 1 /\ n >= last - buf.read + 1  BY <1>7
  <2>2. last \in Int /\ n \in Int BY <1>7
  <2>3. buf.read \in Int BY <1>1
  <2>4. n <= last - buf.read + 1 BY <2>1, <2>2, <2>3
  <2>5. n = last - buf.read + 1 BY <2>1, <2>2, <2>3, <2>4
  <2> QED  BY <2>5, <2>2, <2>3
<1>9. 1 + last \in Nat /\ buf.read <= 1 + last /\ 1 + last <= buf.write  BY <1>1, <1>3, <1>6
<1> QED  BY <1>8, <1>9 DEF last, n, S, Q

(* The bytes a reader sees are the queue. *)
LEMMA BufBytesAre == BufInv => BufBytes(buf) = bufQueue
<1> SUFFICES ASSUME BufInv PROVE BufBytes(buf) = bufQueue  OBVIOUS
<1>1. /\ bufQueue \in Seq(BufByte) /\ BufSize(buf) = Len(bufQueue)
      /\ \A i \in 1..Len(bufQueue) : buf.data[buf.read + i - 1] = bufQueue[i]
  BY DEF BufInv, BufHolds
<1>2. bufQueue = [i \in 1..Len(bufQueue) |-> bufQueue[i]]  BY <1>1, LenProperties
<1> QED  BY <1>1, <1>2 DEF BufBytes

(* A step that moves the indices inwards, and the rest to a new array perhaps. *)
BufCutTo(lo, hi) ==
  /\ lo \in Nat /\ hi \in Nat /\ buf.read <= lo /\ lo <= hi /\ hi <= buf.write
  /\ \/ buf' = [buf EXCEPT !.read = lo, !.write = hi]
     \/ buf' = BufShrunk([buf EXCEPT !.read = lo, !.write = hi])
  /\ bufQueue' = SubSeq(bufQueue, lo - buf.read + 1, hi - buf.read)

(* Such a step keeps a part of the queue. *)
LEMMA BufCutStep ==
  ASSUME BufInv, NEW lo, NEW hi, BufCutTo(lo, hi)
  PROVE  BufInv'
<1> USE BufAssumption
<1> DEFINE d == [buf EXCEPT !.read = lo, !.write = hi]
           r == SubSeq(bufQueue, lo - buf.read + 1, hi - buf.read)
<1>0. BufGood(buf) /\ BufHolds(buf, bufQueue) /\ BufFits(buf) /\ BufSize(buf) <= BufMaxSize  BY DEF BufInv
<1>1. BufGood(d) /\ BufHolds(d, r) /\ BufFits(d) /\ BufSize(d) <= BufSize(buf)  BY <1>0, BufCutIs DEF BufCutTo
<1>2. BufSize(d) <= BufMaxSize
  <2>1. \A b : BufGood(b) => BufSize(b) \in Int  BY DEF BufSize, BufGood
  <2>2. BufSize(d) \in Int /\ BufSize(buf) \in Int /\ BufMaxSize \in Int  BY <2>1, <1>0, <1>1
  <2> QED  BY <2>2, <1>1, <1>0
<1>3. (buf' = d \/ buf' = BufShrunk(d)) /\ bufQueue' = r  BY DEF BufCutTo
<1> HIDE DEF d, r
<1>4. /\ BufGood(BufShrunk(d)) /\ BufHolds(BufShrunk(d), r) /\ BufFits(BufShrunk(d))
      /\ BufSize(BufShrunk(d)) = BufSize(d)
  BY <1>1, BufShrunkIs
<1> QED  BY <1>1, <1>2, <1>3, <1>4 DEF BufInv

(* Every call keeps the invariant. *)
LEMMA BufStepInv == BufInv /\ [BufNext]_bufVars => BufInv'
<1> SUFFICES ASSUME BufInv, [BufNext]_bufVars PROVE BufInv'  OBVIOUS
<1> USE BufAssumption
<1>0. /\ BufGood(buf) /\ BufHolds(buf, bufQueue) /\ BufFits(buf) /\ BufSize(buf) <= BufMaxSize
      /\ buf.read \in Nat /\ buf.write \in Nat /\ buf.read <= buf.write /\ buf.write <= buf.cap
      /\ buf.cap \in Nat \ {0} /\ BufSize(buf) = buf.write - buf.read
      /\ bufQueue \in Seq(BufByte) /\ Len(bufQueue) = BufSize(buf)
      /\ buf = [buf EXCEPT !.read = buf.read, !.write = buf.write]
  <2>1. BufGood(buf) /\ BufHolds(buf, bufQueue)  BY DEF BufInv
  <2> QED  BY <2>1 DEF BufInv, BufGood, BufHolds, BufSize
<1>1. ASSUME NEW n \in Nat, NEW s \in Seq(BufByte), Len(s) <= n, Len(bufQueue) + n <= BufMaxSize,
             buf' = BufWritten(BufReserved(buf, n), s), bufQueue' = bufQueue \o s
      PROVE  BufInv'
  <2> DEFINE c == BufReserved(buf, n)
  <2>1. /\ BufGood(c) /\ BufHolds(c, bufQueue) /\ c.cap - c.write >= n
        /\ BufSize(c) = BufSize(buf) /\ BufFits(c)
    BY <1>0, <1>1, BufReservedIs
  <2> HIDE DEF c
  <2>2. Len(s) \in Nat /\ c.cap - c.write >= Len(s)  BY <1>1, <2>1, LenProperties DEF BufGood
  <2>3. /\ BufGood(BufWritten(c, s)) /\ BufHolds(BufWritten(c, s), bufQueue \o s)
        /\ BufFits(BufWritten(c, s)) /\ BufSize(BufWritten(c, s)) = BufSize(c) + Len(s)
    BY <2>1, <2>2, BufWrittenIs
  <2>4. BufSize(BufWritten(c, s)) <= BufMaxSize  BY <1>0, <1>1, <2>1, <2>2, <2>3
  <2> QED  BY <1>1, <2>3, <2>4 DEF BufInv, c
<1>3. ASSUME NEW n \in Nat, NEW b, b \in [cap : Nat \ {0}, read : Nat, write : Nat, data : {BufFresh(n)}],
             b.cap = n, b.read = 0, b.write = 0, b.data = BufFresh(n)
      PROVE  BufGood(b) /\ BufHolds(b, << >>) /\ BufSize(b) = 0
  <2>1. BufFresh(n) \in [0..n - 1 -> BufCell]  BY DEF BufFresh, BufCell
  <2>2. BufGood(b)  BY <1>3, <2>1 DEF BufGood
  <2>3. BufSize(b) = 0  BY <1>3 DEF BufSize
  <2> QED  BY <2>2, <2>3 DEF BufHolds
<1>4. ASSUME NEW s \in BufStrings, BufAppend(s) PROVE BufInv'
  BY <1>1, <1>4, BufStringIs DEF BufAppend
<1>5. ASSUME NEW s \in BufStrings, NEW n \in 0..BufMaxLen, BufReserveAndSeek(n, s) PROVE BufInv'
  BY <1>1, <1>5, BufStringIs DEF BufReserveAndSeek
<1>6. ASSUME NEW s \in BufStrings, BufAssign(s) PROVE BufInv'
  <2> DEFINE b == [buf EXCEPT !.read = 0, !.write = 0]
             c == BufReserved(b, Len(s))
  <2>1. s \in Seq(BufByte) /\ Len(s) \in Nat /\ Len(s) <= BufMaxSize  BY <1>6, BufStringIs DEF BufAssign
  <2>2. /\ b \in [cap : Nat \ {0}, read : Nat, write : Nat, data : {buf.data}]
        /\ b.cap = buf.cap /\ b.read = 0 /\ b.write = 0 /\ b.data = buf.data
    BY <1>0 DEF BufGood
  <2> HIDE DEF b
  <2>3. BufGood(b) /\ BufSize(b) = 0 /\ BufHolds(b, << >>) /\ BufFits(b)
    <3>1. BufGood(b)  BY <1>0, <2>2 DEF BufGood
    <3>2. BufSize(b) = 0  BY <2>2 DEF BufSize
    <3> QED  BY <1>0, <3>1, <3>2, <2>2 DEF BufHolds, BufFits
  <2>4. BufSize(b) + Len(s) <= BufMaxSize  BY <2>1, <2>3
  <2>5. /\ BufGood(c) /\ BufHolds(c, << >>) /\ c.cap - c.write >= Len(s)
        /\ BufSize(c) = 0 /\ BufFits(c)
    BY <2>1, <2>3, <2>4, BufReservedIs
  <2> HIDE DEF c
  <2>6. /\ BufGood(BufWritten(c, s)) /\ BufHolds(BufWritten(c, s), << >> \o s)
        /\ BufFits(BufWritten(c, s)) /\ BufSize(BufWritten(c, s)) = 0 + Len(s)
    BY <2>1, <2>5, BufWrittenIs
  <2>7. << >> \o s = s  BY <2>1, ConcatEmptySeq
  <2>8. buf' = BufWritten(c, s) /\ bufQueue' = s  BY <1>6 DEF BufAssign, b, c
  <2>9. BufSize(BufWritten(c, s)) <= BufMaxSize  BY <2>1, <2>6
  <2> QED  BY <2>6, <2>7, <2>8, <2>9 DEF BufInv
<1>7. ASSUME NEW n \in 0..BufMaxSize, BufErase(n) PROVE BufInv'
  <2>1. n \in Nat /\ buf.read + n \in Nat /\ buf.read <= buf.read + n /\ buf.read + n <= buf.write
        /\ (buf.read + n) - buf.read + 1 = n + 1 /\ buf.write - buf.read = Len(bufQueue)
    <3>1. /\ n \in Nat /\ n <= buf.write - buf.read /\ Len(bufQueue) = buf.write - buf.read
          /\ buf.read \in Nat /\ buf.write \in Nat
      BY <1>0, <1>7 DEF BufErase
    <3>2. \A x, y, z \in Nat : z <= y - x => x + z \in Nat /\ x <= x + z /\ x + z <= y /\ (x + z) - x + 1 = z + 1
      OBVIOUS
    <3> QED  BY <3>1, <3>2
  <2>2. [buf EXCEPT !.read = @ + n] = [buf EXCEPT !.read = buf.read + n, !.write = buf.write]
    BY <1>0 DEF BufGood
  <2>3. /\ buf' = BufShrunk([buf EXCEPT !.read = buf.read + n, !.write = buf.write])
        /\ bufQueue' = SubSeq(bufQueue, (buf.read + n) - buf.read + 1, buf.write - buf.read)
    BY <1>7, <2>1, <2>2 DEF BufErase
  <2>9. BufCutTo(buf.read + n, buf.write)  BY <1>0, <2>1, <2>3 DEF BufCutTo
  <2> QED  BY <2>9, BufCutStep
<1>8. ASSUME NEW n \in 0..BufMaxSize, BufRollback(n) PROVE BufInv'
  <2>1. n \in Nat /\ buf.write - n \in Nat /\ buf.read <= buf.write - n /\ buf.write - n <= buf.write
        /\ buf.read - buf.read + 1 = 1 /\ (buf.write - n) - buf.read = Len(bufQueue) - n
    <3>1. /\ n \in Nat /\ n <= buf.write - buf.read /\ Len(bufQueue) = buf.write - buf.read
          /\ buf.read \in Nat /\ buf.write \in Nat
      BY <1>0, <1>8 DEF BufRollback
    <3>2. \A x, y, z \in Nat : z <= y - x => /\ y - z \in Nat /\ x <= y - z /\ y - z <= y
                                            /\ x - x + 1 = 1 /\ (y - z) - x = (y - x) - z
      OBVIOUS
    <3> QED  BY <3>1, <3>2
  <2>2. /\ buf' = [buf EXCEPT !.read = buf.read, !.write = buf.write - n]
        /\ bufQueue' = SubSeq(bufQueue, buf.read - buf.read + 1, (buf.write - n) - buf.read)
    <3>1. [buf EXCEPT !.write = @ - n] = [buf EXCEPT !.read = buf.read, !.write = buf.write - n]
      BY <1>0 DEF BufGood
    <3> QED  BY <1>8, <2>1, <3>1 DEF BufRollback
  <2>9. BufCutTo(buf.read, buf.write - n)  BY <1>0, <2>1, <2>2 DEF BufCutTo
  <2> QED  BY <2>9, BufCutStep
<1>9. ASSUME BufClear PROVE BufInv'
  <2>1. CASE buf.cap > BufShrink
    <3>1. /\ BufNew \in [cap : Nat \ {0}, read : Nat, write : Nat, data : {BufFresh(BufInit)}]
          /\ BufNew.cap = BufInit /\ BufNew.read = 0 /\ BufNew.write = 0 /\ BufNew.data = BufFresh(BufInit)
      BY DEF BufNew
    <3>2. buf' = BufNew /\ bufQueue' = << >>  BY <1>9, <2>1 DEF BufClear
    <3> HIDE DEF BufNew
    <3>3. BufGood(BufNew) /\ BufHolds(BufNew, << >>) /\ BufSize(BufNew) = 0  BY <1>3, <3>1
    <3> QED  BY <3>1, <3>2, <3>3 DEF BufInv, BufFits
  <2>2. CASE ~(buf.cap > BufShrink)
    <3> DEFINE b == [buf EXCEPT !.read = 0, !.write = 0]
    <3>1. /\ b \in [cap : Nat \ {0}, read : Nat, write : Nat, data : {buf.data}]
          /\ b.cap = buf.cap /\ b.read = 0 /\ b.write = 0 /\ b.data = buf.data
      BY <1>0 DEF BufGood
    <3>2. buf' = b /\ bufQueue' = << >>  BY <1>9, <2>2 DEF BufClear
    <3> HIDE DEF b
    <3>3. BufGood(b)  BY <1>0, <3>1 DEF BufGood
    <3>4. BufSize(b) = 0  BY <3>1 DEF BufSize
    <3>5. BufHolds(b, << >>) /\ BufFits(b) /\ BufSize(b) <= BufMaxSize
      BY <1>0, <3>1, <3>4 DEF BufHolds, BufFits
    <3> QED  BY <3>2, <3>3, <3>5 DEF BufInv
  <2> QED  BY <2>1, <2>2
<1>10. ASSUME BufTrimLeft PROVE BufInv'
  <2> DEFINE lo == Min(BufNotSpaces(buf.read, buf.write) \cup {buf.write})
             m  == Min({i \in DOMAIN bufQueue : bufQueue[i] \notin BufSpace} \cup {Len(bufQueue) + 1})
  <2>1. lo \in Nat /\ buf.read <= lo /\ lo <= buf.write /\ m = lo - buf.read + 1  BY BufTrimLeftIs
  <2>2. buf' = [buf EXCEPT !.read = lo] /\ bufQueue' = SubSeq(bufQueue, m, Len(bufQueue))
    BY <1>0, <1>10 DEF BufTrimLeft, BufGood
  <2> HIDE DEF lo, m
  <2>3. /\ buf' = [buf EXCEPT !.read = lo, !.write = buf.write]
        /\ bufQueue' = SubSeq(bufQueue, lo - buf.read + 1, buf.write - buf.read)
    BY <1>0, <2>1, <2>2 DEF BufGood
  <2>9. BufCutTo(lo, buf.write)  BY <1>0, <2>1, <2>3 DEF BufCutTo
  <2> QED  BY <2>9, BufCutStep
<1>11. ASSUME BufTrimRight PROVE BufInv'
  <2> DEFINE hi == 1 + Max(BufNotSpaces(buf.read, buf.write) \cup {buf.read - 1})
             n  == Max({i \in DOMAIN bufQueue : bufQueue[i] \notin BufSpace} \cup {0})
  <2>1. hi \in Nat /\ buf.read <= hi /\ hi <= buf.write /\ n = hi - buf.read  BY BufTrimRightIs
  <2>2. buf' = [buf EXCEPT !.write = hi] /\ bufQueue' = SubSeq(bufQueue, 1, n)
    BY <1>0, <1>11 DEF BufTrimRight, BufGood
  <2> HIDE DEF hi, n
  <2>3. /\ buf' = [buf EXCEPT !.read = buf.read, !.write = hi]
        /\ bufQueue' = SubSeq(bufQueue, buf.read - buf.read + 1, hi - buf.read)
    <3>1. buf.read - buf.read + 1 = 1  BY <1>0
    <3> QED  BY <1>0, <2>1, <2>2, <3>1 DEF BufGood
  <2>9. BufCutTo(buf.read, hi)  BY <1>0, <2>1, <2>3 DEF BufCutTo
  <2> QED  BY <2>9, BufCutStep
<1>12. ASSUME BufCopy PROVE BufInv'
  <2> DEFINE b == [BufNew EXCEPT !.cap = buf.cap, !.data = BufFresh(buf.cap)]
  <2>1. BufBytes(buf) = bufQueue  BY BufBytesAre
  <2>2. /\ b \in [cap : Nat \ {0}, read : Nat, write : Nat, data : {BufFresh(buf.cap)}]
        /\ b.cap = buf.cap /\ b.read = 0 /\ b.write = 0 /\ b.data = BufFresh(buf.cap)
    <3>1. BufNew \in [cap : Nat \ {0}, read : Nat, write : Nat, data : {BufFresh(BufInit)}]
          /\ BufNew.read = 0 /\ BufNew.write = 0
      BY DEF BufNew
    <3> QED  BY <1>0, <3>1
  <2>3. buf' = BufWritten(b, bufQueue) /\ bufQueue' = bufQueue  BY <1>12, <2>1 DEF BufCopy
  <2> HIDE DEF b
  <2>8. BufGood(b) /\ BufHolds(b, << >>) /\ BufSize(b) = 0  BY <1>0, <1>3, <2>2
  <2>4. BufFits(b) /\ b.cap - b.write >= Len(bufQueue)  BY <1>0, <2>2 DEF BufFits
  <2>5. /\ BufGood(BufWritten(b, bufQueue)) /\ BufHolds(BufWritten(b, bufQueue), << >> \o bufQueue)
        /\ BufFits(BufWritten(b, bufQueue)) /\ BufSize(BufWritten(b, bufQueue)) = 0 + Len(bufQueue)
    BY <1>0, <2>4, <2>8, BufWrittenIs
  <2>6. << >> \o bufQueue = bufQueue  BY <1>0, ConcatEmptySeq
  <2>7. BufSize(BufWritten(b, bufQueue)) <= BufMaxSize  BY <1>0, <2>5
  <2> QED  BY <2>3, <2>5, <2>6, <2>7 DEF BufInv
<1>13. CASE UNCHANGED bufVars
  BY <1>13 DEF bufVars, BufInv, BufGood, BufHolds, BufFits, BufSize
<1> QED  BY <1>4, <1>5, <1>6, <1>7, <1>8, <1>9, <1>10, <1>11, <1>12, <1>13 DEF BufNext

(* A new buffer is empty. *)
LEMMA BufInitInv == BufBegin => BufInv
<1> SUFFICES ASSUME BufBegin PROVE BufInv  OBVIOUS
<1> USE BufAssumption
<1>1. buf = [cap |-> BufInit, read |-> 0, write |-> 0, data |-> BufFresh(BufInit)] /\ bufQueue = << >>
  BY DEF BufBegin, BufNew
<1>2. BufFresh(BufInit) \in [0..BufInit - 1 -> BufCell]  BY DEF BufFresh, BufCell
<1>3. BufGood(buf)  BY <1>1, <1>2 DEF BufGood
<1>4. BufSize(buf) = 0  BY <1>1 DEF BufSize
<1>5. BufHolds(buf, bufQueue) /\ BufFits(buf)  BY <1>1, <1>4 DEF BufHolds, BufFits
<1> QED  BY <1>3, <1>4, <1>5 DEF BufInv

(***************************************************************************)
(* Through every move, growth and shrinking the readable bytes are what    *)
(* was put in and not taken out, in order, and memory stays in proportion. *)
(***************************************************************************)
THEOREM BufIsSound == BufSpec => [](BufTypeOK /\ BufSound)
<1>1. BufInv => BufTypeOK /\ BufSound
  <2>1. BufInv => BufIsQueue  BY BufBytesAre DEF BufIsQueue
  <2>2. BufInv => BufBounded  BY DEF BufInv, BufFits, BufBounded
  <2>3. BufInv => BufTypeOK  BY DEF BufInv, BufGood, BufTypeOK, BufCell
  <2> QED  BY <2>1, <2>2, <2>3 DEF BufSound
<1> QED  BY <1>1, BufInitInv, BufStepInv, PTL DEF BufSpec

-----------------------------------------------------------------------------
(***************************************************************************)
(* weight_selector.  A sum over the items is a function on the sets of     *)
(* items that adds up: s[U] is the sum of the f[x] with x in U.            *)
(***************************************************************************)
WsAdds(s, f) ==
  /\ s \in [SUBSET WsItem -> Int] /\ f \in [WsItem -> Int]
  /\ s[{}] = 0
  /\ \A U \in SUBSET WsItem : \A x \in WsItem \ U : s[U \cup {x}] = s[U] + f[x]

WsNone == [x \in WsItem |-> 0]

(* There are finitely many items. *)
LEMMA WsItemsFinite ==
  /\ IsFiniteSet(WsItem) /\ Cardinality(WsItem) \in Nat
  /\ \A U \in SUBSET WsItem : /\ IsFiniteSet(U) /\ Cardinality(U) \in Nat
                              /\ Cardinality(U) <= Cardinality(WsItem)
<1>1. Len(WsItems) \in Nat /\ WsItems \in [1..Len(WsItems) -> WsItem]  BY WsAssumption, LenProperties
<1>2. WsItem = {WsItems[i] : i \in 1..Len(WsItems)}  BY WsAssumption, RangeOf DEF WsItem
<1>3. IsFiniteSet(1..Len(WsItems))  BY <1>1, FS_Interval
<1>4. WsItems \in Surjection(1..Len(WsItems), WsItem)  BY <1>1, <1>2 DEF Surjection
<1>5. IsFiniteSet(WsItem)  BY <1>3, <1>4, FS_Surjection
<1>6. \A U \in SUBSET WsItem : IsFiniteSet(U) /\ Cardinality(U) <= Cardinality(WsItem)  BY <1>5, FS_Subset
<1> QED  BY <1>5, <1>6, FS_CardinalityType

(***************************************************************************)
(* Of two sums the one of smaller numbers grows less, from a set A to a    *)
(* set B that has all of A.                                                *)
(***************************************************************************)
LEMMA WsSumsCompare ==
  ASSUME NEW s, NEW t, NEW f, NEW g, WsAdds(s, f), WsAdds(t, g),
         NEW A \in SUBSET WsItem, NEW B \in SUBSET WsItem, A \subseteq B,
         \A x \in B \ A : f[x] <= g[x]
  PROVE  s[B] - s[A] <= t[B] - t[A]
<1> DEFINE Wrong(U) == A \subseteq U /\ U \subseteq B /\ ~(s[U] - s[A] <= t[U] - t[A])
           Sizes == {Cardinality(U) : U \in {U \in SUBSET WsItem : Wrong(U)}}
<1>1. \A U \in SUBSET WsItem : s[U] \in Int /\ t[U] \in Int  BY DEF WsAdds
<1> SUFFICES ASSUME Wrong(B) PROVE FALSE  BY <1>1
<1>2. Sizes \in SUBSET Nat /\ Sizes # {}  BY WsItemsFinite
<1>3. PICK k \in Sizes : \A j \in Sizes : k <= j
  <2> HIDE DEF Sizes
  <2> QED  BY <1>2, LeastIs
<1>4. PICK U \in SUBSET WsItem : Wrong(U) /\ k = Cardinality(U)  OBVIOUS
<1>5. U # A  BY <1>1, <1>4
<1>6. PICK x \in U : x \notin A  BY <1>4, <1>5
<1> DEFINE V == U \ {x}
<1>7. V \in SUBSET WsItem /\ A \subseteq V /\ V \subseteq B /\ x \in WsItem \ V /\ V \cup {x} = U /\ x \in B \ A
  BY <1>4, <1>6
<1>8. Cardinality(V) = Cardinality(U) - 1 /\ Cardinality(U) \in Nat
  BY <1>6, WsItemsFinite, FS_RemoveElement
<1> HIDE DEF V
<1>9. ~Wrong(V)
  <2> SUFFICES ASSUME Wrong(V) PROVE FALSE  OBVIOUS
  <2>1. Cardinality(V) \in Sizes  BY <1>7
  <2>2. k <= Cardinality(V)  BY <1>3, <2>1
  <2> QED  BY <2>2, <1>4, <1>8
<1>10. s[V] - s[A] <= t[V] - t[A]  BY <1>7, <1>9
<1>11. s[V \cup {x}] = s[V] + f[x] /\ t[V \cup {x}] = t[V] + g[x]  BY <1>7 DEF WsAdds
<1>12. f[x] <= g[x] /\ f[x] \in Int /\ g[x] \in Int  BY <1>7 DEF WsAdds
<1>13. s[V] \in Int /\ t[V] \in Int /\ s[A] \in Int /\ t[A] \in Int  BY <1>1, <1>7
<1>14. s[U] = s[V] + f[x] /\ t[U] = t[V] + g[x]  BY <1>7, <1>11
<1>15. s[U] - s[A] <= t[U] - t[A]  BY <1>10, <1>12, <1>13, <1>14
<1> QED  BY <1>4, <1>15

(* Nothing adds up to nothing, the same number m to m for each item. *)
LEMMA WsConstantSums ==
  /\ WsAdds([U \in SUBSET WsItem |-> 0], WsNone)
  /\ \A m \in Int : WsAdds([U \in SUBSET WsItem |-> m * Cardinality(U)], [x \in WsItem |-> m])
<1>1. WsAdds([U \in SUBSET WsItem |-> 0], WsNone)  BY DEF WsAdds, WsNone
<1>2. ASSUME NEW m \in Int PROVE WsAdds([U \in SUBSET WsItem |-> m * Cardinality(U)], [x \in WsItem |-> m])
  <2> DEFINE s == [U \in SUBSET WsItem |-> m * Cardinality(U)]
             f == [x \in WsItem |-> m]
  <2>1. \A n \in Nat : m * n \in Int /\ m * (n + 1) = m * n + m /\ m * 0 = 0  OBVIOUS
  <2>2. s \in [SUBSET WsItem -> Int]  BY <2>1, WsItemsFinite
  <2>3. s[{}] = 0  BY <2>1, FS_EmptySet
  <2>4. ASSUME NEW U \in SUBSET WsItem, NEW x \in WsItem \ U PROVE s[U \cup {x}] = s[U] + f[x]
    <3>1. Cardinality(U \cup {x}) = Cardinality(U) + 1 /\ Cardinality(U) \in Nat
      BY WsItemsFinite, FS_AddElement
    <3>2. U \cup {x} \in SUBSET WsItem  OBVIOUS
    <3>3. s[U \cup {x}] = m * Cardinality(U \cup {x}) /\ s[U] = m * Cardinality(U)  BY <3>2
    <3> HIDE DEF s
    <3>4. s[U \cup {x}] = m * Cardinality(U) + m  BY <3>1, <3>3, <2>1
    <3> QED  BY <3>3, <3>4
  <2>5. f \in [WsItem -> Int]  OBVIOUS
  <2> HIDE DEF s, f
  <2>6. WsAdds(s, f)  BY <2>2, <2>3, <2>4, <2>5 DEF WsAdds
  <2> QED  BY <2>6 DEF s, f
<1> QED  BY <1>1, <1>2

(* A multiple of the numbers has that multiple of the sum. *)
LEMMA WsScaledSum ==
  ASSUME NEW s, NEW f, WsAdds(s, f), NEW a \in Int
  PROVE  WsAdds([U \in SUBSET WsItem |-> a * s[U]], [x \in WsItem |-> a * f[x]])
<1> DEFINE t == [U \in SUBSET WsItem |-> a * s[U]]
           g == [x \in WsItem |-> a * f[x]]
<1>1. \A x \in Int : a * x \in Int  OBVIOUS
<1>2. \A x, y \in Int : a * (x + y) = a * x + a * y  OBVIOUS
<1>3. \A U \in SUBSET WsItem : s[U] \in Int  BY DEF WsAdds
<1>4. \A x \in WsItem : f[x] \in Int  BY DEF WsAdds
<1>5. t \in [SUBSET WsItem -> Int] /\ g \in [WsItem -> Int]  BY <1>1, <1>3, <1>4
<1>6. t[{}] = 0
  <2>1. t[{}] = a * s[{}] /\ s[{}] = 0  BY DEF WsAdds
  <2> QED  BY <2>1
<1>7. ASSUME NEW U \in SUBSET WsItem, NEW x \in WsItem \ U PROVE t[U \cup {x}] = t[U] + g[x]
  <2>1. U \cup {x} \in SUBSET WsItem /\ s[U \cup {x}] = s[U] + f[x]  BY DEF WsAdds
  <2>2. t[U \cup {x}] = a * s[U \cup {x}] /\ t[U] = a * s[U] /\ g[x] = a * f[x]  BY <2>1
  <2> HIDE DEF t, g
  <2>3. a * (s[U] + f[x]) = a * s[U] + a * f[x]  BY <1>2, <1>3, <1>4
  <2> QED  BY <2>1, <2>2, <2>3
<1> HIDE DEF t, g
<1>8. WsAdds(t, g)  BY <1>5, <1>6, <1>7 DEF WsAdds
<1> QED  BY <1>8 DEF t, g

(***************************************************************************)
(* What a step does to a sum: every number grows by g, and the number of   *)
(* one item by d.                                                          *)
(***************************************************************************)
WsMoved(s, t, i, d) == [U \in SUBSET WsItem |-> s[U] + t[U] + (IF i \in U THEN d ELSE 0)]

LEMMA WsMovedSum ==
  ASSUME NEW s, NEW t, NEW f, NEW g, WsAdds(s, f), WsAdds(t, g), NEW i \in WsItem, NEW d \in Int,
         NEW h \in [WsItem -> Int], \A x \in WsItem : h[x] = f[x] + g[x] + (IF x = i THEN d ELSE 0)
  PROVE  WsAdds(WsMoved(s, t, i, d), h)
<1> DEFINE r == WsMoved(s, t, i, d)
<1>1. \A U \in SUBSET WsItem : s[U] \in Int /\ t[U] \in Int  BY DEF WsAdds
<1>2. \A x \in WsItem : f[x] \in Int /\ g[x] \in Int  BY DEF WsAdds
<1>3. \A U \in SUBSET WsItem : r[U] = s[U] + t[U] + (IF i \in U THEN d ELSE 0)  BY DEF WsMoved
<1>4. r \in [SUBSET WsItem -> Int]  BY <1>1 DEF WsMoved
<1> HIDE DEF r
<1>5. r[{}] = 0
  <2>1. s[{}] = 0 /\ t[{}] = 0  BY DEF WsAdds
  <2> QED  BY <1>3, <2>1
<1>6. ASSUME NEW U \in SUBSET WsItem, NEW x \in WsItem \ U PROVE r[U \cup {x}] = r[U] + h[x]
  <2>1. U \cup {x} \in SUBSET WsItem /\ s[U \cup {x}] = s[U] + f[x] /\ t[U \cup {x}] = t[U] + g[x]
    BY DEF WsAdds
  <2>2. r[U \cup {x}] = s[U] + f[x] + (t[U] + g[x]) + (IF i \in U \cup {x} THEN d ELSE 0)  BY <1>3, <2>1
  <2>3. r[U] = s[U] + t[U] + (IF i \in U THEN d ELSE 0)  BY <1>3
  <2>4. h[x] = f[x] + g[x] + (IF x = i THEN d ELSE 0)  OBVIOUS
  <2>5. s[U] \in Int /\ t[U] \in Int /\ f[x] \in Int /\ g[x] \in Int  BY <1>1, <1>2
  <2>6. CASE x = i  BY <2>2, <2>3, <2>4, <2>5, <2>6
  <2>7. CASE x # i  BY <2>2, <2>3, <2>4, <2>5, <2>7
  <2> QED  BY <2>6, <2>7
<1>7. WsAdds(r, h)  BY <1>4, <1>5, <1>6 DEF WsAdds
<1> QED  BY <1>7 DEF r
(***************************************************************************)
(* The weights are light: their sum never wraps, and no current weight     *)
(* comes near 0xFFFFFFF.  m is the largest of them; with ten items m may   *)
(* be a million.                                                           *)
(***************************************************************************)
WsMost(m) == Cardinality(WsItem) * m

WsBelow(m) ==
  /\ m \in Nat /\ \A w \in WsWeights : w <= m
  /\ WsMost(m) < WsWord
  /\ (2 * Cardinality(WsItem) - 1) * WsMost(m) < WsFloor

WsLight == \E m : WsBelow(m)

(***************************************************************************)
(* How far below 0 the current weights of u items together may come, in    *)
(* multiples of the total: a parabola, which is highest for all items.     *)
(***************************************************************************)
WsRoom(U, most) == (Cardinality(U) * (2 * Cardinality(WsItem) - Cardinality(U))) * most

LEMMA WsRoomIs ==
  ASSUME NEW most \in Nat, NEW U \in SUBSET WsItem
  PROVE  /\ WsRoom(U, most) \in Nat
         /\ Cardinality(U) = 1 => WsRoom(U, most) = (2 * Cardinality(WsItem) - 1) * most
         /\ \A x \in U : WsRoom(U \ {x}, most) \in Nat /\ WsRoom(U \ {x}, most) <= WsRoom(U, most)
         /\ \A x \in U, y \in WsItem \ U :
              /\ WsRoom(U \cup {y}, most) \in Nat
              /\ WsRoom(U \ {x}, most) + WsRoom(U \cup {y}, most) = 2 * WsRoom(U, most) - 2 * most
<1> DEFINE n == Cardinality(WsItem)
           u == Cardinality(U)
           q(k) == k * (2 * n - k)
<1>1. n \in Nat /\ u \in Nat /\ u <= n  BY WsItemsFinite
<1> HIDE DEF n, u
<1>2. \A k, j \in Int : k * (2 * j - k) \in Int  OBVIOUS
<1>3. \A k \in Nat : k <= n => q(k) \in Nat
  <2> TAKE k \in Nat
  <2> HAVE k <= n
  <2>1. 2 * n - k \in Nat  BY <1>1
  <2>2. \A a, b \in Nat : a * b \in Nat  OBVIOUS
  <2> QED  BY <2>1, <2>2
<1>4. q(u + 1) = q(u) + (2 * n - 2 * u - 1)  BY <1>1
<1>5. q(u - 1) = q(u) - (2 * n - 2 * u + 1)  BY <1>1
<1>6. q(1) = 2 * n - 1  BY <1>1
<1> HIDE DEF q
<1>7. \A W : WsRoom(W, most) = (Cardinality(W) * (2 * n - Cardinality(W))) * most  BY DEF WsRoom, n
<1>8. \A W : WsRoom(W, most) = q(Cardinality(W)) * most  BY <1>7 DEF q
<1>9. \A k \in Nat : k <= n => q(k) * most \in Nat
  <2>1. \A a, b \in Nat : a * b \in Nat  OBVIOUS
  <2> QED  BY <1>3, <2>1
<1>10. WsRoom(U, most) = q(u) * most /\ WsRoom(U, most) \in Nat  BY <1>1, <1>8, <1>9 DEF u
<1>11. \A x \in U : u - 1 \in Nat /\ WsRoom(U \ {x}, most) = q(u - 1) * most
  <2> TAKE x \in U
  <2>1. Cardinality(U \ {x}) = Cardinality(U) - 1 /\ Cardinality(U \ {x}) \in Nat  BY WsItemsFinite, FS_RemoveElement
  <2>2. Cardinality(U \ {x}) = u - 1  BY <2>1 DEF u
  <2> QED  BY <2>1, <2>2, <1>8
<1>12. \A y \in WsItem \ U : u + 1 <= n /\ WsRoom(U \cup {y}, most) = q(u + 1) * most
  <2> TAKE y \in WsItem \ U
  <2>1. U \cup {y} \in SUBSET WsItem /\ Cardinality(U \cup {y}) = Cardinality(U) + 1  BY WsItemsFinite, FS_AddElement
  <2>2. Cardinality(U \cup {y}) = u + 1  BY <2>1 DEF u
  <2>3. Cardinality(U \cup {y}) <= n  BY <2>1, WsItemsFinite DEF n
  <2> QED  BY <2>2, <2>3, <1>8
<1>13. \A a, b, c \in Int : (a + b) * c = a * c + b * c /\ (a - b) * c = a * c - b * c  OBVIOUS
<1>14. q(u) \in Nat /\ most \in Int  BY <1>1, <1>3
<1>15. q(u + 1) * most = q(u) * most + (2 * n - 2 * u - 1) * most
  <2>1. 2 * n - 2 * u - 1 \in Int  BY <1>1
  <2> QED  BY <2>1, <1>4, <1>13, <1>14
<1>16. q(u - 1) * most = q(u) * most - (2 * n - 2 * u + 1) * most
  <2>1. 2 * n - 2 * u + 1 \in Int  BY <1>1
  <2> QED  BY <2>1, <1>5, <1>13, <1>14
<1>17. (2 * n - 2 * u + 1) * most \in Nat /\ (2 * n - 2 * u - 1) * most \in Int
  <2>1. 2 * n - 2 * u + 1 \in Nat /\ 2 * n - 2 * u - 1 \in Int  BY <1>1
  <2>2. \A a, b \in Nat : a * b \in Nat  OBVIOUS
  <2>3. \A a, b \in Int : a * b \in Int  OBVIOUS
  <2> QED  BY <2>1, <2>2, <2>3
<1>18. (2 * n - 2 * u + 1) * most - (2 * n - 2 * u - 1) * most = 2 * most
  <2> DEFINE a == 2 * n - 2 * u + 1
             b == 2 * n - 2 * u - 1
  <2>1. a \in Int /\ b \in Int /\ a - b = 2  BY <1>1
  <2> HIDE DEF a, b
  <2>2. (a - b) * most = a * most - b * most  BY <2>1, <1>13, <1>14
  <2>3. a * most - b * most = 2 * most  BY <2>1, <2>2
  <2> QED  BY <2>3 DEF a, b
<1>19. u = 1 => WsRoom(U, most) = (2 * n - 1) * most  BY <1>10, <1>6
<1>20. q(u) * most \in Nat  BY <1>10
<1>21. \A x \in U : WsRoom(U \ {x}, most) \in Nat /\ WsRoom(U \ {x}, most) <= WsRoom(U, most)
  <2> TAKE x \in U
  <2>1. u - 1 \in Nat /\ u - 1 <= n /\ WsRoom(U \ {x}, most) = q(u - 1) * most  BY <1>1, <1>11
  <2>2. q(u - 1) * most \in Nat  BY <2>1, <1>9
  <2> QED  BY <2>1, <2>2, <1>10, <1>16, <1>17, <1>20
<1>22. \A x \in U, y \in WsItem \ U :
         /\ WsRoom(U \cup {y}, most) \in Nat
         /\ WsRoom(U \ {x}, most) + WsRoom(U \cup {y}, most) = 2 * WsRoom(U, most) - 2 * most
  <2> TAKE x \in U, y \in WsItem \ U
  <2>1. WsRoom(U \ {x}, most) = q(u) * most - (2 * n - 2 * u + 1) * most  BY <1>11, <1>16
  <2>2. u + 1 \in Nat /\ u + 1 <= n /\ WsRoom(U \cup {y}, most) = q(u + 1) * most  BY <1>1, <1>12
  <2>3. WsRoom(U \cup {y}, most) = q(u) * most + (2 * n - 2 * u - 1) * most  BY <2>2, <1>15
  <2>4. WsRoom(U \cup {y}, most) \in Nat  BY <2>2, <1>9
  <2> QED  BY <2>1, <2>3, <2>4, <1>10, <1>17, <1>18, <1>20
<1> QED  BY <1>10, <1>19, <1>21, <1>22 DEF n, u

(***************************************************************************)
(* What is kept.  The total is the sum of the weights.  The current        *)
(* weights of any items together are never below what WsRoom allows.  In a *)
(* round that began evenly each item has what its weight earned it less    *)
(* what its choices cost, and was not chosen more often than its weight.   *)
(***************************************************************************)
WsWeight  == [x \in WsItem |-> IF x \in DOMAIN wsInitial THEN wsInitial[x] ELSE 0]
WsBalance == [x \in WsItem |-> IF x \in DOMAIN wsInitial THEN wsCurrent[x] ELSE 0]
WsTimes   == [x \in WsItem |-> WsPicks(x)]

WsTypes ==
  /\ DOMAIN wsInitial \subseteq WsItem
  /\ wsInitial \in [DOMAIN wsInitial -> WsWeights] /\ wsCurrent \in [DOMAIN wsInitial -> Int]
  /\ wsTotal \in Nat /\ wsPicked \in Seq(WsItem) /\ Len(wsPicked) <= wsTotal

WsTotalIs == \E s : WsAdds(s, WsWeight) /\ s[WsItem] = wsTotal

WsLow(most) == \E s : WsAdds(s, WsBalance) /\ \A U \in SUBSET WsItem : s[U] + WsRoom(U, most) >= 0

WsCounted == \E s : WsAdds(s, WsTimes) /\ s[WsItem] = Len(wsPicked)

WsEarned ==
  wsEven => \A x \in WsItem :
    /\ WsTimes[x] <= WsWeight[x]
    /\ WsBalance[x] = (Len(wsPicked) + 1) * WsWeight[x] - wsTotal * WsTimes[x]

WsInv(m) == WsTypes /\ WsTotalIs /\ WsLow(WsMost(m)) /\ WsCounted /\ WsEarned

(* Weights up to m add up to no more than the most. *)
LEMMA WsWeightsAdd ==
  ASSUME NEW m, WsBelow(m), NEW s, NEW f, WsAdds(s, f), \A x \in WsItem : f[x] \in Nat /\ f[x] <= m
  PROVE  /\ s[WsItem] <= WsMost(m) /\ WsMost(m) \in Nat
         /\ \A U \in SUBSET WsItem : s[U] \in Nat /\ s[U] <= s[WsItem]
<1> DEFINE z == [U \in SUBSET WsItem |-> 0]
           t == [U \in SUBSET WsItem |-> m * Cardinality(U)]
           g == [x \in WsItem |-> m]
<1>1. m \in Nat /\ Cardinality(WsItem) \in Nat /\ {} \in SUBSET WsItem /\ WsItem \in SUBSET WsItem
  BY WsItemsFinite DEF WsBelow
<1>2. WsMost(m) \in Nat /\ m * Cardinality(WsItem) = WsMost(m) /\ m * Cardinality({}) = 0
  <2>1. \A a, b \in Nat : a * b \in Nat /\ a * b = b * a /\ a * 0 = 0  OBVIOUS
  <2> QED  BY <2>1, <1>1, FS_EmptySet DEF WsMost
<1>3. WsAdds(z, WsNone) /\ WsAdds(t, g)
  <2>1. \A n \in Int : WsAdds([U \in SUBSET WsItem |-> n * Cardinality(U)], [x \in WsItem |-> n])
    BY WsConstantSums
  <2>2. m \in Int  BY <1>1
  <2>3. WsAdds(t, g)  BY <2>1, <2>2
  <2> QED  BY <2>3, WsConstantSums
<1>4. t[WsItem] = WsMost(m) /\ t[{}] = 0  BY <1>1, <1>2
<1>5. \A U \in SUBSET WsItem : z[U] = 0  OBVIOUS
<1>6. \A x \in WsItem : f[x] <= g[x] /\ WsNone[x] = 0 /\ WsNone[x] <= f[x]  BY DEF WsNone
<1> HIDE DEF z, t, g
<1>7. \A U \in SUBSET WsItem : s[U] \in Int /\ s[{}] = 0  BY DEF WsAdds
<1>8. s[WsItem] - s[{}] <= t[WsItem] - t[{}]
  <2>1. \A x \in WsItem \ {} : f[x] <= g[x]  BY <1>6
  <2> QED  BY <1>1, <1>3, <2>1, WsSumsCompare
<1>9. ASSUME NEW U \in SUBSET WsItem PROVE s[U] \in Nat /\ s[U] <= s[WsItem]
  <2>1. z[U] - z[{}] <= s[U] - s[{}]
    <3>1. \A x \in U \ {} : WsNone[x] <= f[x]  BY <1>6
    <3> QED  BY <1>1, <1>3, <3>1, WsSumsCompare
  <2>2. z[WsItem] - z[U] <= s[WsItem] - s[U]
    <3>1. \A x \in WsItem \ U : WsNone[x] <= f[x]  BY <1>6
    <3> QED  BY <1>1, <1>3, <3>1, WsSumsCompare
  <2> QED  BY <2>1, <2>2, <1>1, <1>5, <1>7
<1> QED  BY <1>1, <1>2, <1>4, <1>7, <1>8, <1>9
(* Each weight is a number up to m, and so is the total up to the most. *)
LEMMA WsFacts ==
  ASSUME NEW m, WsBelow(m), WsInv(m)
  PROVE  /\ \A x \in WsItem : WsWeight[x] \in Nat /\ WsWeight[x] <= m /\ WsBalance[x] \in Int
         /\ wsTotal \in Nat /\ wsTotal <= WsMost(m) /\ WsMost(m) \in Nat
<1>1. \A w \in WsWeights : w \in Nat /\ w <= m  BY WsAssumption DEF WsBelow
<1>2. 0 \in Nat /\ 0 <= m  BY DEF WsBelow
<1>3. \A x \in WsItem : WsWeight[x] \in Nat /\ WsWeight[x] <= m  BY <1>1, <1>2 DEF WsInv, WsTypes, WsWeight
<1>4. \A x \in WsItem : WsBalance[x] \in Int  BY DEF WsInv, WsTypes, WsBalance
<1>5. PICK s : WsAdds(s, WsWeight) /\ s[WsItem] = wsTotal  BY DEF WsInv, WsTotalIs
<1>6. s[WsItem] <= WsMost(m) /\ WsMost(m) \in Nat
  <2> DEFINE f == WsWeight
  <2>1. WsAdds(s, f) /\ \A x \in WsItem : f[x] \in Nat /\ f[x] <= m  BY <1>3, <1>5
  <2> HIDE DEF f
  <2> QED  BY <2>1, WsWeightsAdd
<1> QED  BY <1>3, <1>4, <1>5, <1>6 DEF WsInv, WsTypes

(* Every item has a place of its own in the order of the map. *)
LEMMA WsPlaces ==
  /\ \A x \in WsItem : WsPlace(x) \in Nat
  /\ \A x, y \in WsItem : WsPlace(x) = WsPlace(y) => x = y
<1>1. Len(WsItems) \in Nat /\ DOMAIN WsItems = 1..Len(WsItems)  BY WsAssumption, LenProperties
<1>2. WsItem = {WsItems[i] : i \in 1..Len(WsItems)}  BY WsAssumption, RangeOf DEF WsItem
<1>3. \A x \in WsItem : \E n \in DOMAIN WsItems : WsItems[n] = x  BY <1>1, <1>2
<1>4. \A x \in WsItem : WsPlace(x) \in 1..Len(WsItems) /\ WsItems[WsPlace(x)] = x  BY <1>1, <1>3 DEF WsPlace
<1> QED  BY <1>4

(***************************************************************************)
(* The scan finds an item, if there is one it may choose, and none has a   *)
(* higher current weight.                                                  *)
(***************************************************************************)
WsBest(i, U) ==
  i \in U /\ \A j \in U \ {i} : \/ wsCurrent[j] < wsCurrent[i]
                                \/ wsCurrent[j] = wsCurrent[i] /\ WsPlace(i) < WsPlace(j)

LEMMA WsChosenIs ==
  ASSUME WsTypes, WsCandidates # {}
  PROVE  WsChosen \in WsCandidates /\ \A j \in WsCandidates : wsCurrent[j] <= wsCurrent[WsChosen]
<1> DEFINE Wrong(U) == U # {} /\ U \subseteq WsCandidates /\ ~(\E i : WsBest(i, U))
           Sizes == {Cardinality(U) : U \in {U \in SUBSET WsItem : Wrong(U)}}
<1>1. WsCandidates \subseteq WsItem /\ \A j \in WsCandidates : wsCurrent[j] \in Int  BY DEF WsCandidates, WsTypes
<1>2. \E i : WsBest(i, WsCandidates)
  <2> SUFFICES ASSUME Wrong(WsCandidates) PROVE FALSE  OBVIOUS
  <2>1. Sizes \in SUBSET Nat /\ Sizes # {}  BY <1>1, WsItemsFinite
  <2>2. PICK k \in Sizes : \A j \in Sizes : k <= j
    <3> HIDE DEF Sizes
    <3> QED  BY <2>1, LeastIs
  <2>3. PICK U \in SUBSET WsItem : Wrong(U) /\ k = Cardinality(U)  OBVIOUS
  <2>4. PICK x \in U : TRUE  BY <2>3
  <2> DEFINE V == U \ {x}
  <2>5. V \in SUBSET WsItem /\ V \subseteq WsCandidates /\ V \cup {x} = U /\ x \notin V  BY <2>3, <2>4
  <2>6. Cardinality(V) = Cardinality(U) - 1 /\ Cardinality(U) \in Nat  BY <2>4, WsItemsFinite, FS_RemoveElement
  <2> HIDE DEF V
  <2>7. ~Wrong(V)
    <3> SUFFICES ASSUME Wrong(V) PROVE FALSE  OBVIOUS
    <3>1. Cardinality(V) \in Sizes  BY <2>5
    <3>2. k <= Cardinality(V)  BY <2>2, <3>1
    <3> QED  BY <3>2, <2>3, <2>6
  <2>8. CASE V = {}
    <3>1. WsBest(x, U)  BY <2>5, <2>8 DEF WsBest
    <3> QED  BY <3>1, <2>3
  <2>9. CASE V # {}
    <3>1. PICK b : WsBest(b, V)  BY <2>5, <2>7, <2>9
    <3>2. b \in V /\ b \in WsItem /\ x \in WsItem /\ b # x  BY <3>1, <2>5 DEF WsBest
    <3>3. \A j \in U : wsCurrent[j] \in Int /\ WsPlace(j) \in Nat  BY <1>1, <2>3, WsPlaces
    <3>4. WsPlace(b) # WsPlace(x)  BY <3>2, WsPlaces
    <3> DEFINE c == wsCurrent
               Less(j, i) == c[j] < c[i] \/ (c[j] = c[i] /\ WsPlace(i) < WsPlace(j))
    <3>5. Less(x, b) \/ Less(b, x)  BY <3>2, <3>3, <3>4, <2>5
    <3>6. \A j \in U : Less(j, b) /\ Less(b, x) => Less(j, x)  BY <3>2, <3>3, <2>5
    <3>7. \A j \in V \ {b} : Less(j, b)  BY <3>1 DEF WsBest
    <3>8. \A i : WsBest(i, U) <=> i \in U /\ \A j \in U \ {i} : Less(j, i)  BY DEF WsBest
    <3> HIDE DEF Less
    <3>9. CASE Less(x, b)
      <4>1. WsBest(b, U)  BY <2>5, <3>2, <3>7, <3>8, <3>9
      <4> QED  BY <4>1, <2>3
    <3>10. CASE Less(b, x)
      <4>1. \A j \in U \ {x} : Less(j, x)  BY <2>5, <3>6, <3>7, <3>10
      <4>2. WsBest(x, U)  BY <4>1, <3>8
      <4> QED  BY <4>2, <2>3
    <3> QED  BY <3>5, <3>9, <3>10
  <2> QED  BY <2>8, <2>9
<1>3. WsChosen = CHOOSE i \in WsCandidates : WsBest(i, WsCandidates)
  <2>1. \A i \in WsCandidates : WsBest(i, WsCandidates) <=>
          \A j \in WsCandidates \ {i} : \/ wsCurrent[j] < wsCurrent[i]
                                        \/ wsCurrent[j] = wsCurrent[i] /\ WsPlace(i) < WsPlace(j)
    BY DEF WsBest
  <2> QED  BY <2>1 DEF WsChosen
<1>4. WsBest(WsChosen, WsCandidates)
  <2>1. \E i \in WsCandidates : WsBest(i, WsCandidates)  BY <1>2 DEF WsBest
  <2> QED  BY <2>1, <1>3
<1>5. ASSUME NEW j \in WsCandidates PROVE wsCurrent[j] <= wsCurrent[WsChosen]
  <2>1. WsChosen \in WsCandidates  BY <1>4 DEF WsBest
  <2>2. wsCurrent[j] \in Int /\ wsCurrent[WsChosen] \in Int  BY <1>1, <2>1
  <2>3. j = WsChosen \/ wsCurrent[j] < wsCurrent[WsChosen] \/ wsCurrent[j] = wsCurrent[WsChosen]
    BY <1>4 DEF WsBest
  <2> QED  BY <2>2, <2>3
<1> QED  BY <1>4, <1>5 DEF WsBest

(***************************************************************************)
(* No current weight falls to the floor, so every item with a weight is a  *)
(* candidate, and there is one when the total is not 0.                    *)
(***************************************************************************)
LEMMA WsCandidatesAre ==
  ASSUME NEW m, WsBelow(m), WsInv(m)
  PROVE  /\ WsCandidates = {x \in DOMAIN wsInitial : wsInitial[x] > 0}
         /\ wsTotal > 0 => WsCandidates # {}
<1>1. PICK s : WsAdds(s, WsBalance) /\ \A U \in SUBSET WsItem : s[U] + WsRoom(U, WsMost(m)) >= 0
  BY DEF WsInv, WsLow
<1>2. WsMost(m) \in Nat /\ wsTotal \in Nat  BY WsFacts
<1>3. ASSUME NEW x \in DOMAIN wsInitial PROVE wsCurrent[x] > -WsFloor
  <2>1. x \in WsItem /\ WsBalance[x] = wsCurrent[x] /\ wsCurrent[x] \in Int  BY DEF WsInv, WsTypes, WsBalance
  <2>2. s[{} \cup {x}] = s[{}] + WsBalance[x] /\ s[{}] = 0
    <3>1. {} \in SUBSET WsItem /\ x \in WsItem \ {}  BY <2>1
    <3> QED  BY <1>1, <3>1 DEF WsAdds
  <2>3. {} \cup {x} = {x} /\ {x} \in SUBSET WsItem  BY <2>1
  <2>4. s[{x}] = wsCurrent[x]  BY <2>1, <2>2, <2>3
  <2>5. Cardinality({x}) = 1  BY FS_Singleton
  <2>6. WsRoom({x}, WsMost(m)) = (2 * Cardinality(WsItem) - 1) * WsMost(m)
    BY <1>2, <2>3, <2>5, WsRoomIs
  <2>7. WsRoom({x}, WsMost(m)) \in Nat  BY <1>2, <2>3, WsRoomIs
  <2>8. WsRoom({x}, WsMost(m)) < WsFloor  BY <2>6 DEF WsBelow
  <2>9. s[{x}] + WsRoom({x}, WsMost(m)) >= 0  BY <1>1, <2>3
  <2> QED  BY <2>1, <2>4, <2>7, <2>8, <2>9, WsAssumption
<1>4. WsCandidates = {x \in DOMAIN wsInitial : wsInitial[x] > 0}  BY <1>3 DEF WsCandidates
<1>5. ASSUME WsCandidates = {} PROVE wsTotal = 0
  <2> DEFINE z == [U \in SUBSET WsItem |-> 0]
             f == WsWeight
  <2>1. PICK w : WsAdds(w, f) /\ w[WsItem] = wsTotal  BY DEF WsInv, WsTotalIs
  <2>2. WsAdds(z, WsNone)  BY WsConstantSums
  <2>3. \A x \in DOMAIN wsInitial : wsInitial[x] \in Nat  BY WsAssumption DEF WsInv, WsTypes
  <2>4. \A x \in WsItem : f[x] <= WsNone[x]
    <3>1. \A x \in DOMAIN wsInitial : wsInitial[x] = 0  BY <1>4, <1>5, <2>3
    <3> QED  BY <3>1 DEF WsWeight, WsNone
  <2>5. z[WsItem] = 0 /\ z[{}] = 0 /\ w[{}] = 0 /\ w[WsItem] \in Int  BY <1>2, <2>1 DEF WsAdds
  <2> HIDE DEF z, f
  <2>6. w[WsItem] - w[{}] <= z[WsItem] - z[{}]
    <3>1. \A x \in WsItem \ {} : f[x] <= WsNone[x]  BY <2>4
    <3>2. {} \in SUBSET WsItem /\ WsItem \in SUBSET WsItem  OBVIOUS
    <3> QED  BY <2>1, <2>2, <3>1, <3>2, WsSumsCompare
  <2> QED  BY <2>1, <2>5, <2>6, <1>2
<1> QED  BY <1>2, <1>4, <1>5

(* An item that is appended has been picked once more. *)
WsPicksIn(p, x) == Cardinality({n \in DOMAIN p : p[n] = x})

LEMMA WsPicksNext ==
  ASSUME NEW p \in Seq(WsItem), NEW i \in WsItem, NEW x
  PROVE  /\ WsPicksIn(p, x) \in Nat /\ WsPicksIn(<<i>>, x) = IF x = i THEN 1 ELSE 0
         /\ WsPicksIn(Append(p, i), x) = WsPicksIn(p, x) + IF x = i THEN 1 ELSE 0
<1> DEFINE at(q) == {n \in DOMAIN q : q[n] = x}
<1>1. Len(p) \in Nat /\ DOMAIN p = 1..Len(p)  BY LenProperties
<1>2. IsFiniteSet(1..Len(p)) /\ at(p) \in SUBSET (1..Len(p))  BY <1>1, FS_Interval
<1>3. IsFiniteSet(at(p)) /\ Cardinality(at(p)) \in Nat  BY <1>2, FS_Subset, FS_CardinalityType
<1>5. at(<<i>>) = IF x = i THEN {1} ELSE {}  OBVIOUS
<1>6. /\ DOMAIN Append(p, i) = (1..Len(p)) \cup {Len(p) + 1}
      /\ \A n \in 1..Len(p) : Append(p, i)[n] = p[n]
      /\ Append(p, i)[Len(p) + 1] = i
  BY <1>1
<1>7. at(Append(p, i)) = IF x = i THEN at(p) \cup {Len(p) + 1} ELSE at(p)
  <2>1. \A n \in 1..Len(p) : n # Len(p) + 1  BY <1>1
  <2> QED  BY <1>1, <1>6, <2>1
<1>8. Len(p) + 1 \notin at(p)  BY <1>1
<1> HIDE DEF at
<1>9. Cardinality(at(Append(p, i))) = Cardinality(at(p)) + IF x = i THEN 1 ELSE 0
  <2>1. CASE x = i
    <3>1. Cardinality(at(p) \cup {Len(p) + 1}) = Cardinality(at(p)) + 1  BY <1>3, <1>8, FS_AddElement
    <3> QED  BY <2>1, <3>1, <1>7
  <2>2. CASE x # i  BY <2>2, <1>7, <1>3
  <2> QED  BY <2>1, <2>2
<1>11. Cardinality(at(<<i>>)) = IF x = i THEN 1 ELSE 0  BY <1>5, FS_EmptySet, FS_Singleton
<1> QED  BY <1>3, <1>9, <1>11 DEF at, WsPicksIn
(* An empty selector: all sums are 0. *)
LEMMA WsInitInv == ASSUME NEW m, WsBelow(m), WsInit PROVE WsInv(m)
<1> DEFINE z == [U \in SUBSET WsItem |-> 0]
<1>1. DOMAIN wsInitial = {} /\ wsCurrent = wsInitial /\ wsTotal = 0 /\ wsPicked = << >>  BY DEF WsInit
<1>2. WsTypes
  <2>1. wsInitial \in [DOMAIN wsInitial -> WsWeights] /\ wsCurrent \in [DOMAIN wsInitial -> Int]  BY <1>1
  <2> QED  BY <1>1, <2>1 DEF WsTypes
<1>3. WsWeight = WsNone /\ WsBalance = WsNone  BY <1>1 DEF WsWeight, WsBalance, WsNone
<1>4. \A x \in WsItem : WsPicks(x) = 0
  <2>1. \A x : {n \in DOMAIN << >> : << >>[n] = x} = {}  OBVIOUS
  <2>2. \A x : WsPicks(x) = Cardinality({})  BY <1>1, <2>1 DEF WsPicks
  <2> QED  BY <2>2, FS_EmptySet
<1>5. WsTimes = WsNone  BY <1>4 DEF WsTimes, WsNone
<1>6. WsAdds(z, WsNone) /\ \A U \in SUBSET WsItem : z[U] = 0  BY WsConstantSums
<1> HIDE DEF z
<1>7. WsItem \in SUBSET WsItem /\ Len(wsPicked) = 0  BY <1>1
<1>8. WsTotalIs /\ WsCounted  BY <1>1, <1>3, <1>5, <1>6, <1>7 DEF WsTotalIs, WsCounted
<1>9. WsLow(WsMost(m))
  <2>1. WsMost(m) \in Nat
    <3>1. m \in Nat /\ Cardinality(WsItem) \in Nat  BY WsItemsFinite DEF WsBelow
    <3>2. \A a, b \in Nat : a * b \in Nat  OBVIOUS
    <3> QED  BY <3>1, <3>2 DEF WsMost
  <2>2. \A U \in SUBSET WsItem : WsRoom(U, WsMost(m)) \in Nat  BY <2>1, WsRoomIs
  <2> QED  BY <1>3, <1>6, <2>2 DEF WsLow
<1>10. WsEarned  BY <1>1, <1>3, <1>5, <1>7 DEF WsEarned, WsNone
<1> QED  BY <1>2, <1>8, <1>9, <1>10 DEF WsInv

(***************************************************************************)
(* add(): one weight changes, and with it the total; the current weight of *)
(* the item is not negative, and a round begins.                           *)
(***************************************************************************)
LEMMA WsAddInv ==
  ASSUME NEW m, WsBelow(m), WsInv(m), NEW i \in WsItem, NEW w \in WsWeights, WsAdd(i, w)
  PROVE  WsInv(m)'
<1>1. /\ wsTotal' = WsNewTotal(i, w) % WsWord /\ wsInitial' = WsSet(wsInitial, i, w)
      /\ wsCurrent' = WsSet(wsCurrent, i, w) /\ wsPicked' = << >> /\ wsEven' = (wsCurrent' = wsInitial')
  BY DEF WsAdd
<1>2. w \in Nat /\ w <= m  BY WsAssumption DEF WsBelow
<1>3. /\ \A x \in WsItem : WsWeight[x] \in Nat /\ WsWeight[x] <= m /\ WsBalance[x] \in Int
      /\ wsTotal \in Nat /\ WsMost(m) \in Nat
  BY WsFacts
<1>4. /\ DOMAIN wsInitial \subseteq WsItem /\ DOMAIN wsCurrent = DOMAIN wsInitial
      /\ wsInitial \in [DOMAIN wsInitial -> WsWeights] /\ wsCurrent \in [DOMAIN wsInitial -> Int]
  BY DEF WsInv, WsTypes
<1>5. /\ DOMAIN wsInitial' = DOMAIN wsInitial \cup {i} /\ DOMAIN wsCurrent' = DOMAIN wsInitial \cup {i}
      /\ \A x \in DOMAIN wsInitial \cup {i} :
           /\ wsInitial'[x] = IF x = i THEN w ELSE wsInitial[x]
           /\ wsCurrent'[x] = IF x = i THEN w ELSE wsCurrent[x]
  BY <1>1, <1>4 DEF WsSet
<1>6. wsInitial' \in [DOMAIN wsInitial' -> WsWeights] /\ wsCurrent' \in [DOMAIN wsInitial' -> Int]
  <2>1. wsInitial' = [x \in DOMAIN wsInitial \cup {i} |-> IF x = i THEN w ELSE wsInitial[x]]  BY <1>1 DEF WsSet
  <2>2. wsCurrent' = [x \in DOMAIN wsInitial \cup {i} |-> IF x = i THEN w ELSE wsCurrent[x]]  BY <1>1, <1>4 DEF WsSet
  <2> QED  BY <2>1, <2>2, <1>2, <1>4
<1>7. \A x \in WsItem : /\ WsWeight'[x] = IF x = i THEN w ELSE WsWeight[x]
                        /\ WsBalance'[x] = IF x = i THEN w ELSE WsBalance[x]
  BY <1>5 DEF WsWeight, WsBalance
<1> DEFINE z == [U \in SUBSET WsItem |-> 0]
<1>8. WsAdds(z, WsNone) /\ \A U \in SUBSET WsItem : z[U] = 0  BY WsConstantSums
<1> HIDE DEF z
<1>9. \A x \in WsItem : WsNone[x] = 0  BY DEF WsNone
<1>10. WsTotalIs' /\ wsTotal' \in Nat
  <2>1. PICK s : WsAdds(s, WsWeight) /\ s[WsItem] = wsTotal  BY DEF WsInv, WsTotalIs
  <2> DEFINE f == WsWeight
             h == WsWeight'
             d == w - f[i]
             t == WsMoved(s, z, i, d)
  <2>2. WsAdds(s, f) /\ d \in Int /\ h \in [WsItem -> Int]
    <3>1. h = [x \in WsItem |-> h[x]]  BY DEF WsWeight
    <3>2. \A x \in WsItem : h[x] \in Int  BY <1>2, <1>3, <1>7
    <3>3. h \in [WsItem -> Int]
      <4> HIDE DEF h
      <4> QED  BY <3>1, <3>2
    <3> QED  BY <2>1, <3>3, <1>2, <1>3
  <2>3. \A x \in WsItem : h[x] = f[x] + WsNone[x] + (IF x = i THEN d ELSE 0)  BY <1>2, <1>3, <1>7, <1>9
  <2>4. WsNewTotal(i, w) = wsTotal + d
    <3>1. CASE i \in DOMAIN wsInitial
      <4>1. f[i] = wsInitial[i] /\ f[i] \in Nat  BY <3>1, <1>3 DEF WsWeight
      <4> QED  BY <3>1, <4>1, <1>2, <1>3 DEF WsNewTotal
    <3>2. CASE i \notin DOMAIN wsInitial
      <4>1. f[i] = 0  BY <3>2 DEF WsWeight
      <4> QED  BY <3>2, <4>1, <1>2, <1>3 DEF WsNewTotal
    <3> QED  BY <3>1, <3>2
  <2>5. \A x \in WsItem : h[x] \in Nat /\ h[x] <= m  BY <1>2, <1>3, <1>7
  <2>6. s[WsItem] = wsTotal  BY <2>1
  <2> HIDE DEF f, h, d
  <2>7. WsAdds(t, h)  BY <2>2, <2>3, <1>8, WsMovedSum
  <2>8. t[WsItem] = wsTotal + d
    <3>1. t[WsItem] = s[WsItem] + z[WsItem] + (IF i \in WsItem THEN d ELSE 0)  BY DEF WsMoved
    <3> QED  BY <3>1, <2>2, <2>6, <1>3, <1>8
  <2> HIDE DEF t
  <2>9. t[WsItem] \in Nat /\ t[WsItem] <= WsMost(m)
    <3>1. WsItem \in SUBSET WsItem  OBVIOUS
    <3> QED  BY <2>5, <2>7, <3>1, WsWeightsAdd
  <2>10. wsTotal' = t[WsItem]
    <3> DEFINE a == t[WsItem]
    <3>1. a \in Nat /\ a < WsWord /\ WsWord \in Nat \ {0}  BY <2>9, <1>3, WsAssumption DEF WsBelow
    <3>2. wsTotal' = a % WsWord  BY <1>1, <2>4, <2>8
    <3> HIDE DEF a
    <3>3. a \in 0..WsWord - 1 /\ a = WsWord * 0 + a  BY <3>1
    <3>4. a % WsWord = a  BY <3>1, <3>3, ModIs
    <3> QED  BY <3>2, <3>4 DEF a
  <2>11. WsTotalIs'  BY <2>7, <2>10 DEF WsTotalIs, h
  <2> QED  BY <2>9, <2>10, <2>11
<1>11. WsLow(WsMost(m))'
  <2> DEFINE most == WsMost(m)
  <2>1. PICK s : WsAdds(s, WsBalance) /\ \A U \in SUBSET WsItem : s[U] + WsRoom(U, most) >= 0
    BY DEF WsInv, WsLow
  <2> DEFINE f == WsBalance
             h == WsBalance'
             d == w - f[i]
             t == WsMoved(s, z, i, d)
  <2>2. WsAdds(s, f) /\ d \in Int /\ h \in [WsItem -> Int] /\ f[i] \in Int
    <3>1. h = [x \in WsItem |-> h[x]]  BY DEF WsBalance
    <3>2. \A x \in WsItem : h[x] \in Int  BY <1>2, <1>3, <1>7
    <3>3. h \in [WsItem -> Int]
      <4> HIDE DEF h
      <4> QED  BY <3>1, <3>2
    <3> QED  BY <2>1, <3>3, <1>2, <1>3
  <2>3. \A x \in WsItem : h[x] = f[x] + WsNone[x] + (IF x = i THEN d ELSE 0)  BY <1>2, <1>3, <1>7, <1>9
  <2>4. w = f[i] + d /\ w \in Nat  BY <1>2, <2>2
  <2>5. most \in Nat  BY <1>3
  <2> HIDE DEF f, h, d, most
  <2>6. WsAdds(t, h)  BY <2>2, <2>3, <1>8, WsMovedSum
  <2>7. ASSUME NEW U \in SUBSET WsItem PROVE t[U] + WsRoom(U, most) >= 0
    <3>1. t[U] = s[U] + z[U] + (IF i \in U THEN d ELSE 0) /\ z[U] = 0  BY <1>8 DEF WsMoved
    <3>2. s[U] \in Int /\ WsRoom(U, most) \in Nat /\ s[U] + WsRoom(U, most) >= 0
      BY <2>1, <2>2, <2>5, WsRoomIs DEF WsAdds
    <3> HIDE DEF t
    <3>3. CASE i \notin U  BY <3>1, <3>2, <3>3
    <3>4. CASE i \in U
      <4> DEFINE V == U \ {i}
      <4>1. V \in SUBSET WsItem /\ i \in WsItem \ V /\ V \cup {i} = U  BY <3>4
      <4>2. WsRoom(V, most) \in Nat /\ WsRoom(V, most) <= WsRoom(U, most)  BY <2>5, <3>4, WsRoomIs
      <4> HIDE DEF V
      <4>3. s[U] = s[V] + f[i] /\ s[V] \in Int  BY <2>2, <4>1 DEF WsAdds
      <4>4. s[V] + WsRoom(V, most) >= 0  BY <2>1, <4>1
      <4>5. t[U] = s[U] + d  BY <3>1, <3>2, <3>4, <2>2
      <4>6. t[U] = s[V] + w  BY <4>3, <4>5, <2>2, <2>4
      <4> QED  BY <4>2, <4>3, <4>4, <4>6, <2>4, <3>2
    <3> QED  BY <3>3, <3>4
  <2>8. most' = most  BY DEF most, WsMost
  <2> QED  BY <2>6, <2>7 DEF WsLow, h, most, WsMost, WsRoom
<1>12. \A x \in WsItem : WsTimes'[x] = 0
  <2>1. \A x : {n \in DOMAIN << >> : << >>[n] = x} = {}  OBVIOUS
  <2>2. \A x : WsPicks(x)' = Cardinality({})  BY <1>1, <2>1 DEF WsPicks
  <2> QED  BY <2>2, FS_EmptySet DEF WsTimes
<1>13. WsCounted'
  <2>1. WsTimes' = WsNone  BY <1>12 DEF WsTimes, WsNone
  <2>2. z[WsItem] = 0 /\ Len(wsPicked') = 0  BY <1>1, <1>8
  <2> QED  BY <1>8, <2>1, <2>2 DEF WsCounted
<1>14. WsEarned'
  <2> SUFFICES ASSUME wsEven', NEW x \in WsItem
               PROVE  /\ WsTimes'[x] <= WsWeight'[x]
                      /\ WsBalance'[x] = (Len(wsPicked') + 1) * WsWeight'[x] - wsTotal' * WsTimes'[x]
    BY DEF WsEarned
  <2>1. WsWeight'[x] \in Nat  BY <1>2, <1>3, <1>7
  <2>2. WsBalance'[x] = WsWeight'[x]  BY <1>1 DEF WsBalance, WsWeight
  <2>3. Len(wsPicked') = 0 /\ WsTimes'[x] = 0  BY <1>1, <1>12
  <2> QED  BY <2>1, <2>2, <2>3, <1>10
<1>15. WsTypes'
  <2>1. wsPicked' \in Seq(WsItem) /\ Len(wsPicked') <= wsTotal'  BY <1>1, <1>10
  <2> QED  BY <2>1, <1>4, <1>5, <1>6, <1>10 DEF WsTypes
<1> QED  BY <1>10, <1>11, <1>13, <1>14, <1>15 DEF WsInv
(***************************************************************************)
(* In the middle of a round that began evenly some item has a positive     *)
(* current weight: otherwise all choices together would have cost no less  *)
(* than all weights together have earned, which is a total more.           *)
(***************************************************************************)
LEMMA WsSomePositive ==
  ASSUME NEW m, WsBelow(m), WsInv(m), wsEven, Len(wsPicked) < wsTotal
  PROVE  \E x \in WsCandidates : wsCurrent[x] > 0
<1> DEFINE k == Len(wsPicked)
           f == [x \in WsItem |-> (k + 1) * WsWeight[x]]
           g == [x \in WsItem |-> wsTotal * WsTimes[x]]
<1>1. k \in Nat /\ wsTotal \in Nat /\ k < wsTotal
  <2>1. wsPicked \in Seq(WsItem) /\ wsTotal \in Nat  BY DEF WsInv, WsTypes
  <2> QED  BY <2>1, LenProperties
<1>2. PICK s : WsAdds(s, WsWeight) /\ s[WsItem] = wsTotal  BY DEF WsInv, WsTotalIs
<1>3. PICK t : WsAdds(t, WsTimes) /\ t[WsItem] = k  BY DEF WsInv, WsCounted
<1>4. \A x \in WsItem : WsTimes[x] \in Int /\ WsWeight[x] \in Nat  BY <1>3, WsFacts DEF WsAdds
<1>5. \A x \in WsItem : WsBalance[x] = (k + 1) * WsWeight[x] - wsTotal * WsTimes[x]
  BY DEF WsInv, WsEarned
<1>6. \A a, b \in Int : a * b \in Int  OBVIOUS
<1> HIDE DEF k
<1>7. PICK x \in WsItem : f[x] > g[x]
  <2> SUFFICES ASSUME \A x \in WsItem : ~(f[x] > g[x]) PROVE FALSE  OBVIOUS
  <2> DEFINE sf == [U \in SUBSET WsItem |-> (k + 1) * s[U]]
             tg == [U \in SUBSET WsItem |-> wsTotal * t[U]]
  <2>1. WsAdds(sf, f) /\ WsAdds(tg, g)
    <3>1. k + 1 \in Int /\ wsTotal \in Int  BY <1>1
    <3>2. WsAdds(sf, f)
      <4> DEFINE h == WsWeight
      <4>1. WsAdds(s, h)  BY <1>2
      <4> HIDE DEF h
      <4>2. WsAdds(sf, [y \in WsItem |-> (k + 1) * h[y]])  BY <3>1, <4>1, WsScaledSum
      <4> QED  BY <4>2 DEF h
    <3>3. WsAdds(tg, g)
      <4> DEFINE h == WsTimes
      <4>1. WsAdds(t, h)  BY <1>3
      <4> HIDE DEF h
      <4>2. WsAdds(tg, [y \in WsItem |-> wsTotal * h[y]])  BY <3>1, <4>1, WsScaledSum
      <4> QED  BY <4>2 DEF h
    <3> QED  BY <3>2, <3>3
  <2>2. sf[WsItem] = (k + 1) * wsTotal /\ tg[WsItem] = wsTotal * k  BY <1>2, <1>3
  <2>3. sf[{}] = 0 /\ tg[{}] = 0  BY <2>1 DEF WsAdds
  <2>4. \A y \in WsItem \ {} : f[y] <= g[y]
    <3>1. \A y \in WsItem : f[y] \in Int /\ g[y] \in Int  BY <2>1 DEF WsAdds
    <3> QED  BY <3>1
  <2> HIDE DEF sf, tg, f, g
  <2>5. sf[WsItem] - sf[{}] <= tg[WsItem] - tg[{}]
    <3>1. {} \in SUBSET WsItem /\ WsItem \in SUBSET WsItem  OBVIOUS
    <3> QED  BY <2>1, <2>4, <3>1, WsSumsCompare
  <2>6. (k + 1) * wsTotal = wsTotal * k + wsTotal /\ wsTotal * k \in Int  BY <1>1
  <2> QED  BY <2>2, <2>3, <2>5, <2>6, <1>1
<1>8. WsBalance[x] > 0
  <2>1. f[x] = (k + 1) * WsWeight[x] /\ g[x] = wsTotal * WsTimes[x]  OBVIOUS
  <2>2. f[x] \in Int /\ g[x] \in Int  BY <2>1, <1>1, <1>4, <1>6
  <2> HIDE DEF f, g
  <2> QED  BY <2>1, <2>2, <1>5, <1>7
<1>9. WsWeight[x] > 0
  <2> SUFFICES ASSUME WsWeight[x] = 0 PROVE FALSE  BY <1>4
  <2>1. WsTimes[x] \in Nat
    <3>1. wsPicked \in Seq(WsItem)  BY DEF WsInv, WsTypes
    <3>2. WsPicksIn(wsPicked, x) \in Nat  BY <3>1, WsPicksNext
    <3> QED  BY <3>2 DEF WsTimes, WsPicks, WsPicksIn
  <2>2. (k + 1) * 0 = 0 /\ wsTotal * WsTimes[x] \in Nat
    <3>1. \A a, b \in Nat : a * b \in Nat /\ a * 0 = 0  OBVIOUS
    <3> QED  BY <2>1, <3>1, <1>1
  <2>3. WsBalance[x] = 0 - wsTotal * WsTimes[x]  BY <2>2, <1>5
  <2> QED  BY <2>2, <2>3, <1>8
<1>10. x \in DOMAIN wsInitial /\ wsInitial[x] > 0 /\ wsCurrent[x] > 0  BY <1>8, <1>9 DEF WsWeight, WsBalance
<1> QED  BY <1>10, WsCandidatesAre

(***************************************************************************)
(* choice_one(): some items together lose only when one of them is chosen, *)
(* and then either they have all the weight, and get back what they pay,   *)
(* or an item outside, which was not higher, shows that they had enough.   *)
(***************************************************************************)
LEMMA WsChoiceLow ==
  ASSUME NEW m, WsBelow(m), WsInv(m), WsChoice,
         \A x \in WsItem : WsBalance'[x] = WsBalance[x] + WsWeight[x] + (IF x = WsChosen THEN -wsTotal ELSE 0)
  PROVE  WsLow(WsMost(m))'
<1> DEFINE most == WsMost(m)
           f == WsBalance
           g == WsWeight
           h == WsBalance'
           i == WsChosen
           T == wsTotal
<1>1. PICK s : WsAdds(s, f) /\ \A U \in SUBSET WsItem : s[U] + WsRoom(U, most) >= 0  BY DEF WsInv, WsLow
<1>2. PICK t : WsAdds(t, g) /\ t[WsItem] = T  BY DEF WsInv, WsTotalIs
<1>3. /\ \A x \in WsItem : g[x] \in Nat /\ g[x] <= m /\ f[x] \in Int
      /\ T \in Nat /\ T <= most /\ most \in Nat
  BY WsFacts
<1>4. T # 0 /\ WsCandidates # {}  BY DEF WsChoice
<1>5. WsCandidates = {x \in DOMAIN wsInitial : wsInitial[x] > 0}  BY WsCandidatesAre
<1>6. DOMAIN wsInitial \subseteq WsItem /\ WsTypes  BY DEF WsInv, WsTypes
<1>7. i \in WsCandidates /\ \A j \in WsCandidates : wsCurrent[j] <= wsCurrent[i]  BY <1>4, <1>6, WsChosenIs
<1>8. i \in WsItem /\ \A j \in WsItem : g[j] # 0 => f[j] <= f[i]
  <2>1. i \in DOMAIN wsInitial /\ i \in WsItem  BY <1>5, <1>6, <1>7
  <2>2. ASSUME NEW j \in WsItem, g[j] # 0 PROVE f[j] <= f[i]
    <3>1. j \in DOMAIN wsInitial /\ g[j] = wsInitial[j]  BY <2>2 DEF WsWeight
    <3>2. j \in WsCandidates  BY <3>1, <2>2, <1>3, <1>5
    <3>3. wsCurrent[j] <= wsCurrent[i]  BY <3>2, <1>7
    <3>4. f[j] = wsCurrent[j] /\ f[i] = wsCurrent[i]  BY <2>1, <3>1 DEF WsBalance
    <3> QED  BY <3>3, <3>4
  <2> QED  BY <2>1, <2>2
<1>9. h \in [WsItem -> Int]
  <2>1. h = [x \in WsItem |-> h[x]]  BY DEF WsBalance
  <2>2. \A x \in WsItem : h[x] \in Int  BY <1>3
  <2> HIDE DEF h
  <2> QED  BY <2>1, <2>2
<1>10. \A x \in WsItem : h[x] = f[x] + g[x] + (IF x = i THEN -T ELSE 0)  OBVIOUS
<1>11. most' = most  BY DEF WsMost
<1> HIDE DEF most, f, g, h, i, T
<1> DEFINE r == WsMoved(s, t, i, -T)
<1>12. WsAdds(r, h)
  <2>1. -T \in Int  BY <1>3
  <2> QED  BY <2>1, <1>1, <1>2, <1>8, <1>9, <1>10, WsMovedSum
<1>13. \A U \in SUBSET WsItem : t[U] \in Nat  BY <1>2, <1>3, WsWeightsAdd
<1>14. ASSUME NEW U \in SUBSET WsItem PROVE r[U] + WsRoom(U, most) >= 0
  <2>1. r[U] = s[U] + t[U] + (IF i \in U THEN -T ELSE 0)  BY DEF WsMoved
  <2>2. s[U] \in Int /\ t[U] \in Nat /\ WsRoom(U, most) \in Nat /\ s[U] + WsRoom(U, most) >= 0
    BY <1>1, <1>3, <1>13, WsRoomIs DEF WsAdds
  <2> HIDE DEF r
  <2>3. CASE i \notin U  BY <2>1, <2>2, <2>3
  <2>4. CASE i \in U /\ \A j \in WsItem \ U : g[j] = 0
    <3> DEFINE z == [W \in SUBSET WsItem |-> 0]
    <3>1. WsAdds(z, WsNone) /\ z[U] = 0 /\ z[WsItem] = 0  BY WsConstantSums
    <3> HIDE DEF z
    <3>2. t[WsItem] - t[U] <= z[WsItem] - z[U]
      <4>1. WsItem \in SUBSET WsItem /\ \A x \in WsItem \ U : g[x] <= WsNone[x]  BY <2>4 DEF WsNone
      <4> QED  BY <4>1, <3>1, <1>2, WsSumsCompare
    <3>3. t[U] >= T  BY <3>1, <3>2, <1>2, <1>3, <2>2
    <3>4. r[U] = s[U] + t[U] + (-T)  BY <2>1, <2>4
    <3> QED  BY <3>3, <3>4, <2>2, <1>3
  <2>5. CASE i \in U /\ \E j \in WsItem \ U : g[j] # 0
    <3>1. PICK j \in WsItem \ U : g[j] # 0  BY <2>5
    <3> DEFINE V == U \ {i}
               W == U \cup {j}
    <3>2. V \in SUBSET WsItem /\ W \in SUBSET WsItem /\ i \in WsItem \ V /\ V \cup {i} = U  BY <2>5, <1>8
    <3>3. s[U] = s[V] + f[i] /\ s[W] = s[U] + f[j] /\ s[V] \in Int /\ s[W] \in Int  BY <3>2, <1>1 DEF WsAdds
    <3>4. /\ WsRoom(V, most) \in Nat /\ WsRoom(W, most) \in Nat
          /\ WsRoom(V, most) + WsRoom(W, most) = 2 * WsRoom(U, most) - 2 * most
      BY <2>5, <1>3, WsRoomIs
    <3>5. s[V] + WsRoom(V, most) >= 0 /\ s[W] + WsRoom(W, most) >= 0  BY <3>2, <1>1
    <3> HIDE DEF V, W
    <3>6. f[j] <= f[i] /\ f[i] \in Int /\ f[j] \in Int  BY <3>1, <1>3, <1>8
    <3>7. s[V] + s[W] <= 2 * s[U]  BY <3>3, <3>6, <2>2
    <3>8. 2 * s[U] + 2 * WsRoom(U, most) - 2 * most >= 0  BY <3>3, <3>4, <3>5, <3>7, <2>2, <1>3
    <3>9. r[U] = s[U] + t[U] + (-T)  BY <2>1, <2>5
    <3> QED  BY <3>8, <3>9, <2>2, <1>3
  <2> QED  BY <2>3, <2>4, <2>5
<1> HIDE DEF r
<1>15. \A U \in SUBSET WsItem : WsRoom(U, most)' = WsRoom(U, most)  BY <1>11 DEF WsRoom, most, WsMost
<1> QED  BY <1>12, <1>14, <1>15 DEF WsLow, h, most, WsMost, WsRoom
(***************************************************************************)
(* choice_one(): the chosen item pays the total, and every item earns its  *)
(* weight; one that is chosen in a round begun evenly was still owed a     *)
(* choice, because its current weight was positive.                        *)
(***************************************************************************)
LEMMA WsChoiceInv ==
  ASSUME NEW m, WsBelow(m), WsInv(m), WsChoice
  PROVE  WsInv(m)'
<1> DEFINE i == WsChosen
           k == Len(wsPicked)
<1>1. /\ wsTotal # 0 /\ WsCandidates # {}
      /\ wsCurrent' = [x \in DOMAIN wsCurrent |-> (IF x = i THEN WsPaid(i) ELSE wsCurrent[x]) + wsInitial[x]]
      /\ wsPicked' = IF k = wsTotal THEN <<i>> ELSE Append(wsPicked, i)
      /\ wsEven' = IF k = wsTotal THEN wsCurrent = wsInitial ELSE wsEven
      /\ wsTotal' = wsTotal /\ wsInitial' = wsInitial
  BY DEF WsChoice
<1>2. /\ WsTypes /\ DOMAIN wsInitial \subseteq WsItem /\ DOMAIN wsCurrent = DOMAIN wsInitial
      /\ wsInitial \in [DOMAIN wsInitial -> WsWeights] /\ wsCurrent \in [DOMAIN wsInitial -> Int]
      /\ wsTotal \in Nat /\ wsPicked \in Seq(WsItem) /\ k <= wsTotal
  BY DEF WsInv, WsTypes
<1>3. k \in Nat  BY <1>2, LenProperties
<1>4. i \in WsCandidates /\ \A j \in WsCandidates : wsCurrent[j] <= wsCurrent[i]  BY <1>1, <1>2, WsChosenIs
<1>5. i \in DOMAIN wsInitial /\ wsInitial[i] > 0  BY <1>4, WsCandidatesAre
<1>6. i \in WsItem  BY <1>2, <1>5
<1>7. \A x \in WsItem : WsWeight[x] \in Nat /\ WsBalance[x] \in Int  BY WsFacts
<1>8. \A x \in DOMAIN wsInitial : wsInitial[x] \in Nat /\ wsCurrent[x] \in Int  BY <1>2, WsAssumption
<1>9. WsWeight' = WsWeight  BY <1>1 DEF WsWeight
<1>10. ASSUME NEW x \in WsItem
       PROVE  WsBalance'[x] = WsBalance[x] + WsWeight[x] + (IF x = i THEN -wsTotal ELSE 0)
  <2>1. CASE x \notin DOMAIN wsInitial
    <3>1. WsBalance'[x] = 0 /\ WsBalance[x] = 0 /\ WsWeight[x] = 0 /\ x # i
      BY <2>1, <1>1, <1>5 DEF WsBalance, WsWeight
    <3> QED  BY <3>1
  <2>2. CASE x \in DOMAIN wsInitial
    <3>1. WsBalance'[x] = wsCurrent'[x] /\ WsBalance[x] = wsCurrent[x] /\ WsWeight[x] = wsInitial[x]
      BY <2>2, <1>1 DEF WsBalance, WsWeight
    <3>2. wsCurrent'[x] = (IF x = i THEN wsCurrent[i] - wsTotal ELSE wsCurrent[x]) + wsInitial[x]
      BY <2>2, <1>1, <1>2 DEF WsPaid
    <3> HIDE DEF i
    <3> QED  BY <3>1, <3>2, <2>2, <1>2, <1>8
  <2> QED  BY <2>1, <2>2
<1>11. WsTotalIs'  BY <1>1, <1>9 DEF WsInv, WsTotalIs
<1>12. WsLow(WsMost(m))'  BY <1>10, WsChoiceLow
<1> HIDE DEF i
<1>13. WsTypes'
  <2>1. wsCurrent' \in [DOMAIN wsInitial' -> Int]
    <3>1. wsCurrent' = [x \in DOMAIN wsInitial |-> wsCurrent'[x]]  BY <1>1, <1>2
    <3>2. \A x \in DOMAIN wsInitial : wsCurrent'[x] \in Int  BY <1>1, <1>2, <1>5, <1>8 DEF WsPaid
    <3> QED  BY <3>1, <3>2, <1>1
  <2>2. wsPicked' \in Seq(WsItem) /\ Len(wsPicked') <= wsTotal'
    <3>1. CASE k = wsTotal
      <4>1. wsPicked' = <<i>>  BY <3>1, <1>1
      <4> QED  BY <4>1, <1>1, <1>2, <1>6
    <3>2. CASE k # wsTotal
      <4>1. wsPicked' = Append(wsPicked, i)  BY <3>2, <1>1
      <4>2. Len(wsPicked') = k + 1 /\ wsPicked' \in Seq(WsItem)  BY <4>1, <1>2, <1>6
      <4> QED  BY <4>2, <3>2, <1>1, <1>2, <1>3
    <3> QED  BY <3>1, <3>2
  <2> QED  BY <2>1, <2>2, <1>1, <1>2 DEF WsTypes
<1>14. \A x \in WsItem : WsTimes[x] = WsPicks(x) /\ WsTimes[x] \in Nat
  <2> TAKE x \in WsItem
  <2>1. WsPicksIn(wsPicked, x) \in Nat  BY <1>2, <1>6, WsPicksNext
  <2> QED  BY <2>1 DEF WsTimes, WsPicks, WsPicksIn
<1>15. ASSUME NEW x \in WsItem
       PROVE  WsTimes'[x] = (IF k = wsTotal THEN 0 ELSE WsTimes[x]) + (IF x = i THEN 1 ELSE 0)
  <2>0. /\ WsPicksIn(<<i>>, x) = IF x = i THEN 1 ELSE 0
        /\ WsPicksIn(Append(wsPicked, i), x) = WsPicksIn(wsPicked, x) + IF x = i THEN 1 ELSE 0
    BY <1>2, <1>6, WsPicksNext
  <2>1. WsTimes'[x] = WsPicksIn(wsPicked', x) /\ WsTimes[x] = WsPicksIn(wsPicked, x)
    BY DEF WsTimes, WsPicks, WsPicksIn
  <2>2. CASE k = wsTotal
    <3>1. wsPicked' = <<i>>  BY <2>2, <1>1
    <3> QED  BY <3>1, <2>0, <2>1, <2>2
  <2>3. CASE k # wsTotal
    <3>1. wsPicked' = Append(wsPicked, i)  BY <2>3, <1>1
    <3> QED  BY <3>1, <2>0, <2>1, <2>3
  <2> QED  BY <2>2, <2>3
<1>16. WsCounted'
  <2> DEFINE f == IF k = wsTotal THEN WsNone ELSE WsTimes
             h == WsTimes'
             z == [U \in SUBSET WsItem |-> 0]
  <2>1. WsAdds(z, WsNone) /\ z[WsItem] = 0  BY WsConstantSums
  <2>2. PICK t : WsAdds(t, WsTimes) /\ t[WsItem] = k  BY DEF WsInv, WsCounted
  <2> DEFINE s == IF k = wsTotal THEN z ELSE t
             r == WsMoved(s, z, i, 1)
  <2>3. WsAdds(s, f) /\ s[WsItem] = IF k = wsTotal THEN 0 ELSE k
    <3> HIDE DEF z
    <3> QED  BY <2>1, <2>2
  <2>4. h \in [WsItem -> Int] /\ \A x \in WsItem : h[x] = f[x] + WsNone[x] + (IF x = i THEN 1 ELSE 0)
    <3>1. h = [x \in WsItem |-> h[x]]  BY DEF WsTimes
    <3>2. \A x \in WsItem : h[x] \in Int  BY <1>14, <1>15
    <3>3. \A x \in WsItem : f[x] = (IF k = wsTotal THEN 0 ELSE WsTimes[x]) /\ WsNone[x] = 0  BY DEF WsNone
    <3>4. h \in [WsItem -> Int]
      <4> HIDE DEF h
      <4> QED  BY <3>1, <3>2
    <3> QED  BY <3>3, <3>4, <1>14, <1>15
  <2> HIDE DEF f, h, s, z
  <2>5. WsAdds(r, h)  BY <2>1, <2>3, <2>4, <1>6, WsMovedSum
  <2>6. r[WsItem] = s[WsItem] + z[WsItem] + (IF i \in WsItem THEN 1 ELSE 0)  BY DEF WsMoved
  <2> HIDE DEF r
  <2>7. r[WsItem] = (IF k = wsTotal THEN 0 ELSE k) + 1  BY <2>1, <2>3, <2>6, <1>3, <1>6
  <2>8. Len(wsPicked') = (IF k = wsTotal THEN 0 ELSE k) + 1
    <3>1. CASE k = wsTotal  BY <3>1, <1>1
    <3>2. CASE k # wsTotal
      <4>1. wsPicked' = Append(wsPicked, i)  BY <3>2, <1>1
      <4>2. Len(wsPicked') = k + 1  BY <4>1, <1>2, <1>6
      <4> QED  BY <4>2, <3>2
    <3> QED  BY <3>1, <3>2
  <2> QED  BY <2>5, <2>7, <2>8 DEF WsCounted, h
<1>17. WsEarned'
  <2> SUFFICES ASSUME wsEven', NEW x \in WsItem
               PROVE  /\ WsTimes'[x] <= WsWeight[x]
                      /\ WsBalance'[x] = (Len(wsPicked') + 1) * WsWeight[x] - wsTotal * WsTimes'[x]
    BY <1>1, <1>9 DEF WsEarned
  <2> DEFINE one == IF x = i THEN 1 ELSE 0
             w == WsWeight[x]
             p == WsTimes[x]
             T == wsTotal
  <2>1. w \in Nat /\ p \in Nat /\ T \in Nat /\ (x = i => w > 0) /\ one \in {0, 1}
    <3>1. x = i => w = wsInitial[i]  BY <1>5, <1>6 DEF WsWeight
    <3> QED  BY <3>1, <1>2, <1>5, <1>7, <1>14
  <2>2. WsBalance'[x] = WsBalance[x] + w - T * one
    <3>1. CASE x = i  BY <3>1, <2>1, <1>7, <1>10
    <3>2. CASE x # i  BY <3>2, <2>1, <1>7, <1>10
    <3> QED  BY <3>1, <3>2
  <2>3. CASE k = wsTotal
    <3>1. wsCurrent = wsInitial /\ Len(wsPicked') = 1  BY <2>3, <1>1
    <3>2. WsBalance[x] = w  BY <3>1 DEF WsBalance, WsWeight
    <3>3. WsTimes'[x] = one  BY <2>3, <1>15
    <3>4. one <= w  BY <2>1
    <3> HIDE DEF one, w, T
    <3>5. (1 + 1) * w = w + w  BY <2>1
    <3> QED  BY <2>1, <2>2, <3>1, <3>2, <3>3, <3>4, <3>5 DEF w, T
  <2>4. CASE k # wsTotal
    <3>1. wsEven /\ k < wsTotal
      <4>1. wsEven' = wsEven  BY <2>4, <1>1
      <4>2. k < wsTotal  BY <2>4, <1>2, <1>3
      <4> QED  BY <4>1, <4>2
    <3>2. p <= w /\ WsBalance[x] = (k + 1) * w - T * p  BY <3>1 DEF WsInv, WsEarned
    <3>3. x = i => p < w
      <4> SUFFICES ASSUME x = i, p = w PROVE FALSE  BY <2>1, <3>2
      <4>1. PICK j \in WsCandidates : wsCurrent[j] > 0  BY <3>1, WsSomePositive
      <4>2. wsCurrent[j] <= wsCurrent[i] /\ j \in DOMAIN wsInitial  BY <4>1, <1>4 DEF WsCandidates
      <4>3. WsBalance[x] = wsCurrent[i]  BY <1>5, <1>6 DEF WsBalance
      <4>4. WsBalance[x] > 0  BY <4>1, <4>2, <4>3, <1>5, <1>8
      <4> HIDE DEF w, p, T, k
      <4>5. (k + 1) * w <= T * w
        <5>1. k + 1 <= T  BY <3>1, <1>3, <2>1 DEF T
        <5>2. \A a, b, c \in Nat : a <= b => a * c <= b * c  OBVIOUS
        <5> QED  BY <5>1, <5>2, <2>1, <1>3
      <4>6. (k + 1) * w \in Int /\ T * w \in Int
        <5>1. \A a, b \in Int : a * b \in Int  OBVIOUS
        <5> QED  BY <5>1, <2>1, <1>3
      <4>7. WsBalance[x] = (k + 1) * w - T * w  BY <3>2
      <4> QED  BY <4>4, <4>5, <4>6, <4>7
    <3>4. WsTimes'[x] = p + one  BY <2>4, <1>15
    <3>5. Len(wsPicked') = k + 1
      <4>1. wsPicked' = Append(wsPicked, i)  BY <2>4, <1>1
      <4> QED  BY <4>1, <1>2, <1>6
    <3>6. p + one <= w  BY <2>1, <3>2, <3>3
    <3> HIDE DEF one, w, p, T, k
    <3>7. (k + 1 + 1) * w = (k + 1) * w + w /\ T * (p + one) = T * p + T * one  BY <2>1, <1>3
    <3>8. (k + 1) * w \in Int /\ T * p \in Int /\ T * one \in Int
      <4>1. \A a, b \in Int : a * b \in Int  OBVIOUS
      <4> QED  BY <4>1, <2>1, <1>3
    <3>9. WsBalance'[x] = (k + 1 + 1) * w - T * (p + one)  BY <2>1, <2>2, <3>2, <3>7, <3>8
    <3> QED  BY <3>4, <3>5, <3>6, <3>9 DEF w, T
  <2> QED  BY <2>3, <2>4
<1> QED  BY <1>11, <1>12, <1>13, <1>16, <1>17 DEF WsInv

(* What is kept is enough. *)
LEMMA WsIsEnough == ASSUME NEW m, WsBelow(m), WsInv(m) PROVE WsChoosesFairly
<1>1. WsTypes /\ wsTotal \in Nat /\ DOMAIN wsInitial \subseteq WsItem  BY DEF WsInv, WsTypes
<1>2. WsFindsOne
  <2> SUFFICES ASSUME wsTotal > 0 PROVE WsCandidates # {} /\ wsInitial[WsChosen] > 0  BY DEF WsFindsOne
  <2>1. WsCandidates # {}  BY WsCandidatesAre
  <2>2. WsChosen \in WsCandidates  BY <2>1, <1>1, WsChosenIs
  <2> QED  BY <2>1, <2>2 DEF WsCandidates
<1>3. WsFair
  <2> SUFFICES ASSUME wsEven, Len(wsPicked) = wsTotal, wsTotal > 0
               PROVE  wsCurrent = wsInitial /\ \A x \in DOMAIN wsInitial : WsPicks(x) = wsInitial[x]
    BY DEF WsFair
  <2> DEFINE f == WsTimes
             g == WsWeight
  <2>1. PICK s : WsAdds(s, f) /\ s[WsItem] = wsTotal  BY DEF WsInv, WsCounted
  <2>2. PICK t : WsAdds(t, g) /\ t[WsItem] = wsTotal  BY DEF WsInv, WsTotalIs
  <2>3. \A x \in WsItem : f[x] <= g[x] /\ WsBalance[x] = (wsTotal + 1) * g[x] - wsTotal * f[x]
    BY DEF WsInv, WsEarned
  <2> HIDE DEF f, g
  <2>4. ASSUME NEW x \in WsItem PROVE f[x] = g[x]
    <3> DEFINE A == WsItem \ {x}
    <3>1. A \in SUBSET WsItem /\ x \in WsItem \ A /\ A \cup {x} = WsItem /\ WsItem \in SUBSET WsItem /\ {} \in SUBSET WsItem
      OBVIOUS
    <3>2. \A y \in A \ {} : f[y] <= g[y]  BY <2>3
    <3> HIDE DEF A
    <3>3. s[A \cup {x}] = s[A] + f[x] /\ t[A \cup {x}] = t[A] + g[x]  BY <3>1, <2>1, <2>2 DEF WsAdds
    <3>4. s[A] - s[{}] <= t[A] - t[{}]  BY <3>1, <3>2, <2>1, <2>2, WsSumsCompare
    <3>5. /\ s[A] \in Int /\ t[A] \in Int /\ s[{}] = 0 /\ t[{}] = 0
          /\ f[x] \in Int /\ g[x] \in Int
      BY <3>1, <2>1, <2>2 DEF WsAdds
    <3>6. s[A] + f[x] = t[A] + g[x]  BY <3>1, <3>3, <2>1, <2>2
    <3> QED  BY <3>4, <3>5, <3>6, <2>3
  <2>5. ASSUME NEW x \in DOMAIN wsInitial PROVE WsPicks(x) = wsInitial[x] /\ wsCurrent[x] = wsInitial[x]
    <3>1. x \in WsItem /\ f[x] = WsPicks(x) /\ g[x] = wsInitial[x] /\ WsBalance[x] = wsCurrent[x]
      BY <1>1 DEF f, g, WsTimes, WsWeight, WsBalance
    <3>2. f[x] = g[x]  BY <3>1, <2>4
    <3>3. wsCurrent[x] = (wsTotal + 1) * g[x] - wsTotal * g[x]  BY <3>1, <3>2, <2>3
    <3>4. g[x] \in Int  BY <2>2, <3>1 DEF WsAdds
    <3>5. (wsTotal + 1) * g[x] = wsTotal * g[x] + g[x] /\ wsTotal * g[x] \in Int  BY <3>4, <1>1
    <3>6. wsCurrent[x] = g[x]  BY <3>3, <3>4, <3>5
    <3> QED  BY <3>1, <3>2, <3>6
  <2>6. wsCurrent = wsInitial
    <3>1. wsInitial \in [DOMAIN wsInitial -> WsWeights] /\ wsCurrent \in [DOMAIN wsInitial -> Int]  BY <1>1 DEF WsTypes
    <3> QED  BY <3>1, <2>5
  <2> QED  BY <2>5, <2>6
<1> QED  BY <1>2, <1>3 DEF WsChoosesFairly

(***************************************************************************)
(* weight_selector: with light weights choice_one() always finds an item,  *)
(* as its assertion says, however items are added again or disabled        *)
(* between choices, and a round begun evenly chooses every item as often   *)
(* as its weight says.                                                     *)
(***************************************************************************)
THEOREM WsIsFair == WsLight /\ WsSpec => []WsChoosesFairly
<1> SUFFICES ASSUME WsLight PROVE WsSpec => []WsChoosesFairly  OBVIOUS
<1>1. PICK m : WsBelow(m)  BY DEF WsLight
<1>2. WsInit => WsInv(m)  BY <1>1, WsInitInv
<1>3. WsInv(m) /\ [WsNext]_wsVars => WsInv(m)'
  <2> SUFFICES ASSUME WsInv(m), [WsNext]_wsVars PROVE WsInv(m)'  OBVIOUS
  <2>1. CASE WsChoice  BY <2>1, <1>1, WsChoiceInv
  <2>2. ASSUME NEW i \in WsItem, NEW w \in WsWeights, WsAdd(i, w) PROVE WsInv(m)'
    BY <2>2, <1>1, WsAddInv
  <2>3. CASE UNCHANGED wsVars
    BY <2>3 DEF wsVars, WsInv, WsTypes, WsTotalIs, WsLow, WsCounted, WsEarned,
                WsWeight, WsBalance, WsTimes, WsPicks, WsMost, WsRoom
  <2> QED  BY <2>1, <2>2, <2>3 DEF WsNext
<1>4. WsInv(m) => WsChoosesFairly  BY <1>1, WsIsEnough
<1> QED  BY <1>2, <1>3, <1>4, PTL DEF WsSpec

-----------------------------------------------------------------------------
(***************************************************************************)
(* filepath_op.  What can be at a node.                                    *)
(***************************************************************************)
LEMMA FpEntries ==
  /\ FpNone \in FpEntry /\ FpDir \in FpEntry /\ FpLink \in FpEntry
  /\ FpNone # FpDir /\ FpNone # FpLink /\ FpDir # FpLink
  /\ ~FpIsFile(FpNone) /\ ~FpIsFile(FpDir) /\ ~FpIsFile(FpLink)
  /\ \A s \in Seq(FpByte) : FpFile(s) \in FpEntry /\ FpIsFile(FpFile(s)) /\ FpFile(s)[2] = s
  /\ \A x \in FpEntry : /\ FpIsFile(x) => x[2] \in Seq(FpByte) /\ x = FpFile(x[2])
                        /\ ~FpIsFile(x) => x \in {FpNone, FpDir, FpLink}
<1>1. \A s \in Seq(FpByte) : FpFile(s) \in {"file"} \X Seq(FpByte) /\ FpFile(s)[1] = "file" /\ FpFile(s)[2] = s
  BY DEF FpFile
<1>2. \A x \in {"file"} \X Seq(FpByte) : x[1] = "file" /\ x[2] \in Seq(FpByte) /\ x = FpFile(x[2])
  BY DEF FpFile
<1>3. FpNone[1] = "none" /\ FpDir[1] = "dir" /\ FpLink[1] = "link"  BY DEF FpNone, FpDir, FpLink
<1>4. FpNone # FpDir /\ FpNone # FpLink /\ FpDir # FpLink  BY <1>3
<1> QED  BY <1>1, <1>2, <1>3, <1>4 DEF FpEntry, FpIsFile

(***************************************************************************)
(* A node and its directory.                                               *)
(***************************************************************************)
LEMMA FpAppended ==
  ASSUME NEW S, NEW s \in Seq(S), NEW x \in S
  PROVE  /\ Append(s, x) \in Seq(S) /\ Len(Append(s, x)) = Len(s) + 1
         /\ Front(Append(s, x)) = s /\ Last(Append(s, x)) = x
<1> DEFINE a == Append(s, x)
<1>1. /\ a \in Seq(S) /\ Len(a) = Len(s) + 1 /\ Len(s) \in Nat
      /\ \A i \in 1..Len(s) : a[i] = s[i]
      /\ a[Len(s) + 1] = x
  BY AppendProperties, LenProperties
<1>2. Front(a) = SubSeq(a, 1, Len(s))  BY <1>1 DEF Front
<1> HIDE DEF a
<1>3. \A i \in 1..Len(s) : a[i] \in S  BY <1>1, ElementOfSeq
<1>4. /\ SubSeq(a, 1, Len(s)) \in Seq(S) /\ Len(SubSeq(a, 1, Len(s))) = Len(s)
      /\ \A i \in 1..Len(s) : SubSeq(a, 1, Len(s))[i] = a[i]
  <2>1. /\ SubSeq(a, 1, Len(s)) \in Seq(S)
        /\ Len(SubSeq(a, 1, Len(s))) = IF 1 <= Len(s) THEN Len(s) - 1 + 1 ELSE 0
        /\ \A i \in 1..Len(s) - 1 + 1 : SubSeq(a, 1, Len(s))[i] = a[1 + i - 1]
    BY <1>1, <1>3, SubSeqProperties
  <2> QED  BY <2>1, <1>1
<1>5. SubSeq(a, 1, Len(s)) = s  BY <1>1, <1>4, SeqEqual
<1>6. Last(a) = x  BY <1>1 DEF Last
<1> QED  BY <1>1, <1>2, <1>5, <1>6 DEF a

(* The first names of a way. *)
LEMMA FpFirst ==
  ASSUME NEW S, NEW s \in Seq(S), NEW k \in 0..Len(s)
  PROVE  /\ SubSeq(s, 1, k) \in Seq(S) /\ Len(SubSeq(s, 1, k)) = k
         /\ \A i \in 1..k : SubSeq(s, 1, k)[i] = s[i]
<1>1. Len(s) \in Nat /\ \A i \in 1..k : s[i] \in S  BY LenProperties, ElementOfSeq
<1>2. /\ SubSeq(s, 1, k) \in Seq(S)
      /\ Len(SubSeq(s, 1, k)) = IF 1 <= k THEN k - 1 + 1 ELSE 0
      /\ \A i \in 1..k - 1 + 1 : SubSeq(s, 1, k)[i] = s[1 + i - 1]
  BY <1>1, SubSeqProperties
<1> QED  BY <1>1, <1>2

LEMMA FpFront ==
  ASSUME NEW n \in FpNode
  PROVE  /\ n \in Seq(FpName) /\ Len(n) \in Nat \ {0}
         /\ Front(n) \in Seq(FpName) /\ Len(Front(n)) = Len(n) - 1
         /\ \A i \in 1..Len(n) - 1 : Front(n)[i] = n[i]
<1>1. n \in Seq(FpName) /\ n # << >>  BY FpAssumption
<1>2. Len(n) \in Nat \ {0}  BY <1>1, EmptySeq
<1>3. Len(n) - 1 \in 0..Len(n)  BY <1>2
<1> QED  BY <1>1, <1>2, <1>3, FpFirst DEF Front

(* What is below a node. *)
LEMMA FpUnder ==
  ASSUME NEW p \in FpNode
  PROVE  /\ p \in FpBelow(p) /\ FpBelow(p) \subseteq FpNode
         /\ \A n \in FpBelow(p) : Len(n) >= Len(p)
         /\ \A n \in FpNode : Front(n) \in FpBelow(p) => n \in FpBelow(p)
         /\ \A n \in FpBelow(p) : n # p => Len(n) # 1 /\ (Front(n) \in FpNode => Front(n) \in FpBelow(p))
<1>1. p \in Seq(FpName) /\ Len(p) \in Nat \ {0}  BY FpFront
<1>2. p \in FpBelow(p)  BY <1>1 DEF FpBelow, IsPrefix
<1>3. \A n \in FpBelow(p) : n \in FpNode /\ Len(n) >= Len(p) /\ Len(n) \in Nat \ {0}
  BY <1>1, FpFront DEF FpBelow, IsPrefix
<1>4. ASSUME NEW n \in FpNode, NEW k \in Nat, k <= Len(n)
      PROVE  Len(p) <= k => (SubSeq(p, 1, Len(p)) = SubSeq(n, 1, Len(p)) <=> \A i \in 1..Len(p) : p[i] = n[i])
  <2> SUFFICES ASSUME Len(p) <= k
               PROVE  SubSeq(p, 1, Len(p)) = SubSeq(n, 1, Len(p)) <=> \A i \in 1..Len(p) : p[i] = n[i]
    OBVIOUS
  <2>1. n \in Seq(FpName) /\ Len(n) \in Nat  BY FpFront
  <2>2. Len(p) \in 0..Len(n) /\ Len(p) \in 0..Len(p)  BY <1>1, <1>4, <2>1
  <2>3. /\ SubSeq(n, 1, Len(p)) \in Seq(FpName) /\ Len(SubSeq(n, 1, Len(p))) = Len(p)
        /\ \A i \in 1..Len(p) : SubSeq(n, 1, Len(p))[i] = n[i]
    BY <2>1, <2>2, FpFirst
  <2>4. SubSeq(p, 1, Len(p)) = p  BY <1>1, SubSeqFull
  <2>5. (\A i \in 1..Len(p) : p[i] = n[i]) => p = SubSeq(n, 1, Len(p))  BY <1>1, <2>3, SeqEqual
  <2> QED  BY <2>3, <2>4, <2>5
<1>5. ASSUME NEW n \in FpNode, Front(n) \in FpBelow(p) PROVE n \in FpBelow(p)
  <2>1. Front(n) \in FpNode /\ Len(p) <= Len(n) - 1 /\ Len(n) \in Nat /\ Len(Front(n)) = Len(n) - 1
    BY <1>1, <1>5, FpFront DEF FpBelow, IsPrefix
  <2>2. \A i \in 1..Len(p) : p[i] = Front(n)[i]  BY <1>1, <1>4, <1>5, <2>1 DEF FpBelow, IsPrefix
  <2>3. \A i \in 1..Len(p) : p[i] = n[i]
    <3>1. \A i \in 1..Len(p) : i \in 1..Len(n) - 1  BY <1>1, <2>1
    <3>2. \A i \in 1..Len(n) - 1 : Front(n)[i] = n[i]  BY FpFront
    <3> QED  BY <2>2, <3>1, <3>2
  <2> QED  BY <1>1, <1>4, <2>1, <2>3 DEF FpBelow, IsPrefix
<1>6. ASSUME NEW n \in FpBelow(p), n # p PROVE Len(n) # 1 /\ (Front(n) \in FpNode => Front(n) \in FpBelow(p))
  <2>1. n \in FpNode /\ n \in Seq(FpName) /\ Len(n) \in Nat /\ Len(n) >= Len(p)  BY <1>3, FpFront
  <2>2. \A i \in 1..Len(p) : p[i] = n[i]  BY <1>1, <1>4, <2>1 DEF FpBelow, IsPrefix
  <2>3. Len(n) # Len(p)  BY <1>1, <1>6, <2>1, <2>2, SeqEqual
  <2>4. Len(n) # 1 /\ Len(p) <= Len(n) - 1  BY <1>1, <2>1, <2>3
  <2>5. \A i \in 1..Len(p) : p[i] = Front(n)[i]  BY <1>1, <2>1, <2>2, <2>4, FpFront
  <2>6. Front(n) \in FpNode => Front(n) \in FpBelow(p)
    BY <1>1, <1>4, <2>1, <2>4, <2>5, FpFront DEF FpBelow, IsPrefix
  <2> QED  BY <2>4, <2>6
<1> QED  BY <1>2, <1>3, <1>5, <1>6

(* In a tree nothing is below a node that is not there. *)
LEMMA FpNothingBelow ==
  ASSUME NEW t, FpIsTree(t), NEW p \in FpNode, t[p] = FpNone
  PROVE  \A n \in FpBelow(p) : t[n] = FpNone
<1> DEFINE Bad == {n \in FpBelow(p) : t[n] # FpNone}
           lens == {Len(n) : n \in Bad}
<1> SUFFICES ASSUME Bad # {} PROVE FALSE  OBVIOUS
<1>1. \A n \in Bad : n \in FpNode /\ Len(n) \in Nat \ {0} /\ Len(Front(n)) = Len(n) - 1  BY FpUnder, FpFront
<1>2. lens \in SUBSET Nat /\ lens # {}  BY <1>1
<1>3. PICK n \in Bad : \A m \in Bad : Len(n) <= Len(m)
  <2>1. Min(lens) \in lens /\ \A l \in lens : Min(lens) <= l
    <3> HIDE DEF lens
    <3> QED  BY <1>2, LeastIs
  <2> QED  BY <2>1
<1>4. n # p  OBVIOUS
<1>5. Len(n) # 1 /\ (Front(n) \in FpNode => Front(n) \in FpBelow(p))  BY <1>4, FpUnder
<1>7. Front(n) \in FpNode /\ t[Front(n)] = FpDir
  <2>1. n \in FpNode /\ t[n] # FpNone  BY <1>1
  <2> QED  BY <1>5, <2>1 DEF FpIsTree
<1>8. Front(n) \in Bad  BY <1>5, <1>7, FpEntries
<1> QED  BY <1>1, <1>3, <1>8

(***************************************************************************)
(* Where the names of a path lead.                                         *)
(***************************************************************************)
LEMMA FpWayIs ==
  ASSUME NEW t, NEW p \in Seq(FpName)
  PROVE  /\ FpWay(t, p)[0] = << >>
         /\ \A i \in 1..Len(p) : FpWay(t, p)[i] = FpLeads(t, Append(FpWay(t, p)[i - 1], p[i]))
         /\ \A i \in 0..Len(p) : FpWay(t, p)[i] \in Seq(FpName)
<1> DEFINE m == Len(p)
           T == Seq(FpName)
           P(x, i) == FpLeads(t, Append(x, p[i]))
           Eq(f) == f = [i \in 0..m |-> IF i = 0 THEN << >> ELSE P(f[i - 1], i)]
           step == [i \in 1..m |-> [x \in T |-> P(x, i)]]
           w == FpWay(t, p)
<1>0. m \in Nat /\ \A i \in 1..m : p[i] \in FpName  BY LenProperties, ElementOfSeq
<1>1. \A i \in 1..m, x \in T : P(x, i) \in T
  <2>1. FpTarget \in T  BY FpAssumption
  <2>2. \A i \in 1..m, x \in T : Append(x, p[i]) \in T  BY <1>0, AppendProperties
  <2> QED  BY <2>1, <2>2 DEF FpLeads
<1>2. step \in [1..m -> [T -> T]]  BY <1>1
<1>3. \A i \in 1..m, x \in T : step[i][x] = P(x, i)  OBVIOUS
<1>4. w = CHOOSE f : Eq(f)  BY DEF FpWay
<1>5. << >> \in T  BY EmptySeq
<1> HIDE DEF P, step, T, m, w
<1>6. PICK f \in [0..m -> T] : f[0] = << >> /\ \A i \in 1..m : f[i] = step[i][f[i - 1]]
  <2>1. Loops(T, << >>, m, step) # {}  BY <1>0, <1>2, <1>5, LoopExists
  <2> QED  BY <2>1 DEF Loops
<1>7. \A i \in 0..m : i = 0 \/ (i \in 1..m /\ i # 0 /\ i - 1 \in 0..m)  BY <1>0
<1>8. \A i \in 0..m : f[i] = IF i = 0 THEN << >> ELSE P(f[i - 1], i)  BY <1>3, <1>6, <1>7
<1>9. Eq(f)  BY <1>8
<1> HIDE DEF Eq
<1>10. Eq(w)  BY <1>4, <1>9
<1>11. w = [i \in 0..m |-> IF i = 0 THEN << >> ELSE P(w[i - 1], i)]  BY <1>10 DEF Eq
<1>12. 0 \in 0..m /\ \A i \in 1..m : i \in 0..m /\ i # 0  BY <1>0
<1>13. w[0] = << >> /\ \A i \in 1..m : w[i] = P(w[i - 1], i)  BY <1>11, <1>12
<1>14. \A i \in 0..m : w[i] \in T
  <2> DEFINE S == {i \in 0..m : w[i] \in T}
  <2>1. 0 \in S  BY <1>5, <1>12, <1>13
  <2>2. \A i \in 1..m : i - 1 \in S => i \in S  BY <1>1, <1>12, <1>13
  <2> HIDE DEF S
  <2>3. 0..m \subseteq S  BY <1>0, <2>1, <2>2, TurnByTurn
  <2> QED  BY <2>3 DEF S
<1> QED  BY <1>13, <1>14 DEF P, w, m, T

(* One element more at the end of two parts. *)
LEMMA FpOneMore ==
  ASSUME NEW S, NEW s \in Seq(S), NEW t \in Seq(S), NEW x \in S
  PROVE  (s \o t) \o <<x>> = s \o (t \o <<x>>)
<1>1. <<x>> \in Seq(S)  OBVIOUS
<1>2. PICK u : u = <<x>>  OBVIOUS
<1>3. u \in Seq(S)  BY <1>1, <1>2
<1>4. (s \o t) \o u = s \o (t \o u)  BY <1>3, ConcatAssociative
<1> QED  BY <1>2, <1>4

(* One name more stays among the nodes. *)
LEMMA FpWaysOn ==
  ASSUME NEW p \in FpPaths, NEW i \in 1..Len(p), NEW d,
         IF i = 1 THEN d = << >> ELSE d \in FpWays(p, i - 1)
  PROVE  /\ Append(d, p[i]) \in FpWays(p, i) /\ FpTarget \in FpWays(p, i)
         /\ FpWays(p, i) \subseteq FpNode /\ d \in Seq(FpName) /\ p[i] \in FpName
<1>1. p \in Seq(FpName) /\ Len(p) \in Nat /\ i \in Nat /\ i - 1 \in 0..Len(p)  BY FpAssumption, LenProperties
<1>2. FpWays(p, i) \subseteq FpNode  BY FpAssumption
<1>3. p[i] \in FpName /\ FpTarget \in Seq(FpName)  BY <1>1, ElementOfSeq, FpAssumption
<1>4. FpTarget \in FpWays(p, i)
  <2>1. SubSeq(p, i + 1, i) = << >>  BY <1>1, SubSeqEmpty
  <2>2. FpTarget \o << >> = FpTarget  BY <1>3, ConcatEmptySeq
  <2>3. i \in 1..i  BY <1>1
  <2> QED  BY <2>1, <2>2, <2>3 DEF FpWays
<1>5. ASSUME d = SubSeq(p, 1, i - 1) PROVE Append(d, p[i]) \in FpWays(p, i) /\ d \in Seq(FpName)
  <2>1. 1 \in 1..Len(p) /\ i \in 1..Len(p)  BY <1>1
  <2>2. SubSeq(p, 1, i) = SubSeq(p, 1, i - 1) \o <<p[i]>>  BY <1>1, <2>1, SubSeqRecursiveSecond
  <2>3. d \in Seq(FpName)  BY <1>1, <1>5, FpFirst
  <2>4. Append(d, p[i]) = d \o <<p[i]>>  BY <1>3, <2>3, AppendIsConcat
  <2>5. Append(d, p[i]) = SubSeq(p, 1, i)  BY <1>5, <2>2, <2>4
  <2> QED  BY <2>3, <2>5 DEF FpWays
<1>6. ASSUME NEW j \in 1..i - 1, d = FpTarget \o SubSeq(p, j + 1, i - 1)
      PROVE  Append(d, p[i]) \in FpWays(p, i) /\ d \in Seq(FpName)
  <2>1. j + 1 \in 1..Len(p) /\ i \in j + 1..Len(p) /\ j \in 1..i  BY <1>1
  <2>2. SubSeq(p, j + 1, i) = SubSeq(p, j + 1, i - 1) \o <<p[i]>>  BY <1>1, <2>1, SubSeqRecursiveSecond
  <2>3. SubSeq(p, j + 1, i - 1) \in Seq(FpName)
    <3>1. \A k \in j + 1..i - 1 : p[k] \in FpName  BY <1>1, ElementOfSeq
    <3>2. j + 1 \in Int /\ i - 1 \in Int  BY <1>1
    <3> QED  BY <3>1, <3>2, SubSeqProperties
  <2>4. d \in Seq(FpName)  BY <1>3, <1>6, <2>3, ConcatProperties
  <2>5. PICK a, x : a = SubSeq(p, j + 1, i - 1) /\ x = p[i]  OBVIOUS
  <2>6. Append(d, p[i]) = d \o <<p[i]>>  BY <1>3, <2>4, AppendIsConcat
  <2>7. d \o <<x>> = FpTarget \o (a \o <<x>>)
    <3>1. a \in Seq(FpName) /\ x \in FpName /\ d = FpTarget \o a  BY <1>3, <1>6, <2>3, <2>5
    <3>2. (FpTarget \o a) \o <<x>> = FpTarget \o (a \o <<x>>)  BY <1>3, <3>1, FpOneMore
    <3> QED  BY <3>1, <3>2
  <2>8. Append(d, p[i]) = FpTarget \o SubSeq(p, j + 1, i)  BY <2>2, <2>5, <2>6, <2>7
  <2> QED  BY <2>1, <2>4, <2>8 DEF FpWays
<1>7. CASE i = 1
  <2>1. SubSeq(p, 1, i - 1) = << >>  BY <1>7, SubSeqEmpty
  <2> QED  BY <1>2, <1>3, <1>4, <1>5, <1>7, <2>1
<1>8. CASE i # 1
  <2>1. d = SubSeq(p, 1, i - 1) \/ \E j \in 1..i - 1 : d = FpTarget \o SubSeq(p, j + 1, i - 1)
    BY <1>8 DEF FpWays
  <2> QED  BY <1>2, <1>3, <1>4, <1>5, <1>6, <2>1
<1> QED  BY <1>7, <1>8

(* So every part of the way does. *)
LEMMA FpWayStays ==
  ASSUME NEW t, NEW p \in FpPaths
  PROVE  \A i \in 1..Len(p) : /\ FpWay(t, p)[i] \in FpWays(p, i) /\ FpWay(t, p)[i] \in FpNode
                              /\ Append(FpWay(t, p)[i - 1], p[i]) \in FpNode
<1> DEFINE w == FpWay(t, p)
           S == {i \in 0..Len(p) : i = 0 \/ w[i] \in FpWays(p, i)}
<1>1. p \in Seq(FpName) /\ Len(p) \in Nat  BY FpAssumption, LenProperties
<1>2. w[0] = << >> /\ \A i \in 1..Len(p) : w[i] = FpLeads(t, Append(w[i - 1], p[i]))  BY <1>1, FpWayIs
<1> HIDE DEF w
<1>3. 0 \in S  BY <1>1
<1>4. ASSUME NEW i \in 1..Len(p), i - 1 \in S
      PROVE  i \in S /\ w[i] \in FpNode /\ Append(w[i - 1], p[i]) \in FpNode
  <2>1. IF i = 1 THEN w[i - 1] = << >> ELSE w[i - 1] \in FpWays(p, i - 1)  BY <1>2, <1>4
  <2>2. Append(w[i - 1], p[i]) \in FpWays(p, i) /\ FpTarget \in FpWays(p, i) /\ FpWays(p, i) \subseteq FpNode
    BY <2>1, FpWaysOn
  <2>3. w[i] \in FpWays(p, i)  BY <1>2, <2>2 DEF FpLeads
  <2>4. i \in 0..Len(p)  BY <1>1
  <2> QED  BY <2>2, <2>3, <2>4
<1>5. 0..Len(p) \subseteq S
  <2>1. \A i \in 1..Len(p) : i - 1 \in S => i \in S  BY <1>4
  <2> HIDE DEF S
  <2> QED  BY <1>1, <1>3, <2>1, TurnByTurn
<1>6. ASSUME NEW i \in 1..Len(p) PROVE w[i] \in FpWays(p, i) /\ w[i] \in FpNode /\ Append(w[i - 1], p[i]) \in FpNode
  <2>1. i - 1 \in 0..Len(p) /\ i # 0 /\ i \in 0..Len(p)  BY <1>1
  <2>2. i - 1 \in S /\ i \in S  BY <1>5, <2>1
  <2> QED  BY <1>4, <2>1, <2>2
<1> QED  BY <1>6 DEF w

(* The way of the first names is the first part of the way. *)
LEMMA FpWayOfFirst ==
  ASSUME NEW t, NEW p \in Seq(FpName), NEW k \in 0..Len(p), NEW at \in 0..k
  PROVE  Len(SubSeq(p, 1, k)) = k /\ FpWay(t, SubSeq(p, 1, k))[at] = FpWay(t, p)[at]
<1> DEFINE q == SubSeq(p, 1, k)
           v == FpWay(t, q)
           w == FpWay(t, p)
           S == {i \in 0..k : v[i] = w[i]}
<1>1. Len(p) \in Nat /\ k \in Nat  BY LenProperties
<1>2. q \in Seq(FpName) /\ Len(q) = k /\ \A i \in 1..k : q[i] = p[i]  BY FpFirst
<1>3. v[0] = << >> /\ \A i \in 1..k : v[i] = FpLeads(t, Append(v[i - 1], q[i]))  BY <1>2, FpWayIs
<1>4. w[0] = << >> /\ \A i \in 1..Len(p) : w[i] = FpLeads(t, Append(w[i - 1], p[i]))  BY FpWayIs
<1> HIDE DEF v, w
<1>5. 0 \in S  BY <1>1, <1>3, <1>4
<1>6. \A i \in 1..k : i \in 1..Len(p) /\ i \in 0..k  BY <1>1
<1>7. \A i \in 1..k : i - 1 \in S => i \in S  BY <1>2, <1>3, <1>4, <1>6
<1> HIDE DEF q
<1>8. 0..k \subseteq S
  <2> HIDE DEF S
  <2> QED  BY <1>1, <1>5, <1>7, TurnByTurn
<1> QED  BY <1>2, <1>8 DEF v, w, q

(* Trees with the same links have the same ways. *)
LEMMA FpSameWay ==
  ASSUME NEW t, NEW u, NEW p \in FpPaths, \A n \in FpNode : t[n] = FpLink <=> u[n] = FpLink
  PROVE  \A i \in 0..Len(p) : FpWay(u, p)[i] = FpWay(t, p)[i]
<1> DEFINE v == FpWay(u, p)
           w == FpWay(t, p)
           S == {i \in 0..Len(p) : v[i] = w[i]}
<1>1. p \in Seq(FpName) /\ Len(p) \in Nat  BY FpAssumption, LenProperties
<1>2. v[0] = << >> /\ \A i \in 1..Len(p) : v[i] = FpLeads(u, Append(v[i - 1], p[i]))  BY <1>1, FpWayIs
<1>3. w[0] = << >> /\ \A i \in 1..Len(p) : w[i] = FpLeads(t, Append(w[i - 1], p[i]))  BY <1>1, FpWayIs
<1>4. \A i \in 1..Len(p) : Append(w[i - 1], p[i]) \in FpNode  BY FpWayStays
<1> HIDE DEF v, w
<1>5. 0 \in S  BY <1>1, <1>2, <1>3
<1>6. ASSUME NEW i \in 1..Len(p), i - 1 \in S PROVE i \in S
  <2>1. v[i] = FpLeads(u, Append(w[i - 1], p[i]))  BY <1>2, <1>6
  <2>2. FpLeads(u, Append(w[i - 1], p[i])) = FpLeads(t, Append(w[i - 1], p[i]))  BY <1>4 DEF FpLeads
  <2>3. i \in 0..Len(p)  BY <1>1
  <2> QED  BY <1>3, <2>1, <2>2, <2>3
<1>7. 0..Len(p) \subseteq S
  <2>1. \A i \in 1..Len(p) : i - 1 \in S => i \in S  BY <1>6
  <2> HIDE DEF S
  <2> QED  BY <1>1, <1>5, <2>1, TurnByTurn
<1> QED  BY <1>7 DEF v, w

(* The entry that a path names: the last name where the others lead. *)
LEMMA FpPlaceIs ==
  ASSUME NEW t, NEW p \in FpPaths, NEW n, n = Append(FpWay(t, Front(p))[Len(Front(p))], Last(p))
  PROVE  n = Append(FpWay(t, p)[Len(p) - 1], p[Len(p)]) /\ n \in FpNode
<1>1. p \in Seq(FpName) /\ p # << >> /\ Len(p) \in Nat \ {0}  BY FpAssumption, EmptySeq
<1>2. Len(p) - 1 \in 0..Len(p) /\ Len(p) \in 1..Len(p) /\ Len(p) - 1 \in 0..Len(p) - 1  BY <1>1
<1>3. Len(Front(p)) = Len(p) - 1 /\ FpWay(t, Front(p))[Len(p) - 1] = FpWay(t, p)[Len(p) - 1]
  <2> DEFINE k == Len(p) - 1
  <2>1. k \in 0..Len(p) /\ k \in 0..k  BY <1>2
  <2> HIDE DEF k
  <2>2. Len(SubSeq(p, 1, k)) = k /\ FpWay(t, SubSeq(p, 1, k))[k] = FpWay(t, p)[k]  BY <1>1, <2>1, FpWayOfFirst
  <2>3. Front(p) = SubSeq(p, 1, k)  BY DEF Front, k
  <2> QED  BY <2>2, <2>3 DEF k
<1> QED  BY <1>2, <1>3, FpWayStays DEF Last

-----------------------------------------------------------------------------
(***************************************************************************)
(* The invariant.  Types, and before the call.                             *)
(***************************************************************************)
FpFrame == [node : FpNode, dir : FpNode, left : SUBSET FpNode, ret : {0, -1}]

FpOps == {"none", "rmdir", "walk", "mkdir", "rm", "write", "append", "read"}

FpTypes ==
  /\ fpFs \in [FpNode -> FpEntry] /\ fpBefore \in [FpNode -> FpEntry] /\ FpIsTree(fpBefore)
  /\ fpCall \in [op : FpOps, path : Seq(FpName)]
  /\ fpPc \in {"idle", "visit", "mkdir", "unlink", "fwrite", "fclose", "fread", "done"}
  /\ fpFrames \in Seq(FpFrame)
  /\ fpWork \in [made : Nat, dir : Seq(FpName), size : Int]
  /\ fpOut \in [dirs : SUBSET FpNode, files : SUBSET FpNode, content : Seq(FpByte)]
  /\ fpRet \in {0, -1} /\ fpOthers \in Nat /\ fpFaults \in Nat

(* Nothing has been done before the call. *)
FpIdle ==
  fpPc = "idle" =>
    /\ fpFs = fpBefore /\ fpFrames = << >> /\ fpWork = FpNoWork
    /\ fpOut = [dirs |-> {}, files |-> {}, content |-> << >>] /\ fpRet = 0

(* The operation under way, and on what. *)
FpGoing ==
  /\ fpPc = "visit" => /\ fpCall.op \in {"rmdir", "walk"} /\ fpFrames # << >>
                       /\ fpFrames[1].node = fpCall.path /\ fpCall.path \in FpNode
  /\ fpPc = "mkdir" => fpCall.op = "mkdir" /\ fpCall.path \in FpPaths /\ fpWork.made < Len(fpCall.path)
  /\ fpPc = "unlink" => fpCall.op = "rm" /\ fpCall.path \in FpNode
  /\ fpPc \in {"fwrite", "fclose"} => fpCall.op \in {"write", "append"} /\ fpCall.path \in FpNode
  /\ fpPc = "fread" => fpCall.op = "read" /\ fpCall.path \in FpNode

(* Left alone in a tree without links: what is there and not yet visited, directory by directory. *)
FpNoLinks == \A n \in FpBelow(fpCall.path) : fpBefore[n] # FpLink

FpEmptied(p) ==
  /\ FpIsTree(fpFs)
  /\ \A n \in FpNode : fpFs[n] = fpBefore[n] \/ (n \in FpBelow(p) /\ fpFs[n] = FpNone)
  /\ \A i \in 1..Len(fpFrames) :
       LET f == fpFrames[i] IN
       /\ f.node \in FpBelow(p) /\ Len(f.node) = Len(p) + i - 1 /\ fpFs[f.node] = FpDir /\ f.ret = 0
       /\ FpNames(f.node) = f.left \cup (IF i = Len(fpFrames) THEN {} ELSE {fpFrames[i + 1].node})
       /\ i < Len(fpFrames) => fpFrames[i + 1].node \notin f.left

FpRemoving ==
  fpPc = "visit" /\ fpCall.op = "rmdir" /\ FpAlone /\ FpNoLinks => FpEmptied(fpCall.path)

(* The entries of the directory that have been visited. *)
FpWalking ==
  fpPc = "visit" /\ fpCall.op = "walk" =>
    /\ Len(fpFrames) = 1
    /\ fpOthers = 0 =>
         LET dir == FpFollow(fpCall.path)
             left == fpFrames[1].left
         IN  fpFs = fpBefore /\ left \subseteq FpNames(dir) /\ FpListed(FpNames(dir) \ left)

(* The parts of the way made so far. *)
FpMaking ==
  fpPc = "mkdir" =>
    /\ IF fpWork.made = 0 THEN fpWork.dir = << >> ELSE fpWork.dir \in FpWays(fpCall.path, fpWork.made)
    /\ fpOthers = 0 => /\ fpWork.dir = FpWay(fpFs, fpCall.path)[fpWork.made]
                       /\ \A n \in FpNode : fpBefore[n] # FpNone => fpFs[n] = fpBefore[n]

(* The file is open: it has what is kept, and what has been written. *)
FpWriting ==
  /\ fpPc = "fwrite" /\ fpOthers = 0 => fpFs = [fpBefore EXCEPT ![fpCall.path] = FpFile(FpOld)]
  /\ fpPc = "fclose" => /\ fpWork.size \in 0..Len(FpNew) /\ fpWork.made \in 0..fpWork.size
                        /\ fpWork.size < Len(FpNew) => fpFaults > 0
                        /\ fpOthers = 0 => FpHas(fpWork.made)

(* The size is known. *)
FpReading ==
  fpPc = "fread" =>
    /\ fpWork.size > 0 /\ fpOut.content = << >>
    /\ fpOthers = 0 => fpFs = fpBefore /\ fpWork.size = get_file_size(fpCall.path)

(* All of it. *)
FpInv ==
  /\ FpTypes /\ FpIdle /\ FpGoing /\ FpRemoving /\ FpWalking /\ FpMaking /\ FpWriting /\ FpReading
  /\ FpHonest

(* What the place of the call does not say anything about. *)
LEMMA FpElsewhere ==
  /\ fpPc' # "idle" => FpIdle'
  /\ fpPc' # "visit" => FpRemoving' /\ FpWalking'
  /\ fpPc' # "mkdir" => FpMaking'
  /\ fpPc' \notin {"fwrite", "fclose"} => FpWriting'
  /\ fpPc' # "fread" => FpReading'
  /\ fpPc' = "done" => FpGoing'
  /\ fpPc' # "done" => FpHonest'
  /\ fpCall'.op \notin {"rmdir", "rm"} => FpGoneOrUnseen'
  /\ fpCall'.op # "rmdir" => FpRemovesTree'
  /\ fpCall'.op # "mkdir" => FpMadeWay'
  /\ fpCall'.op \notin {"write", "append"} => FpWritten'
  /\ fpCall'.op # "read" => FpReadHonest'
  /\ fpCall'.op # "walk" => FpWalksAll'
<1>1. fpPc' # "idle" => FpIdle'  BY DEF FpIdle
<1>2. fpPc' # "visit" => FpRemoving' /\ FpWalking'  BY DEF FpRemoving, FpWalking
<1>3. fpPc' # "mkdir" => FpMaking'  BY DEF FpMaking
<1>4. fpPc' \notin {"fwrite", "fclose"} => FpWriting'  BY DEF FpWriting
<1>5. fpPc' # "fread" => FpReading'  BY DEF FpReading
<1>6. fpPc' = "done" => FpGoing'  BY DEF FpGoing
<1>7. /\ fpPc' # "done" \/ fpCall'.op \notin {"rmdir", "rm"} => FpGoneOrUnseen'
      /\ fpPc' # "done" \/ fpCall'.op # "rmdir" => FpRemovesTree'
  BY DEF FpGoneOrUnseen, FpRemovesTree, FpEnds
<1>8. fpPc' # "done" \/ fpCall'.op # "mkdir" => FpMadeWay'  BY DEF FpMadeWay, FpEnds
<1>9. fpPc' # "done" \/ fpCall'.op \notin {"write", "append"} => FpWritten'  BY DEF FpWritten, FpEnds
<1>10. fpPc' # "done" \/ fpCall'.op # "read" => FpReadHonest'  BY DEF FpReadHonest, FpEnds
<1>11. fpPc' # "done" \/ fpCall'.op # "walk" => FpWalksAll'  BY DEF FpWalksAll, FpEnds
<1> QED  BY <1>1, <1>2, <1>3, <1>4, <1>5, <1>6, <1>7, <1>8, <1>9, <1>10, <1>11 DEF FpHonest

(* The idle state has a tree. *)
LEMMA FpInitInv == FpInit => FpInv
<1> SUFFICES ASSUME FpInit PROVE FpInv  OBVIOUS
<1>1. fpFs \in FpTrees /\ fpBefore = fpFs /\ fpPc = "idle" /\ fpCall = [op |-> "none", path |-> << >>]  BY DEF FpInit
<1>2. fpFs \in [FpNode -> FpEntry] /\ FpIsTree(fpFs)  BY <1>1, FpAssumption
<1>3. FpTypes  BY <1>1, <1>2 DEF FpInit, FpTypes, FpNoWork, FpOps
<1>4. FpIdle  BY DEF FpInit, FpIdle
<1>5. FpGoing /\ FpRemoving /\ FpWalking /\ FpMaking /\ FpWriting /\ FpReading
  BY <1>1 DEF FpGoing, FpRemoving, FpWalking, FpMaking, FpWriting, FpReading
<1>6. FpHonest
  BY <1>1 DEF FpHonest, FpGoneOrUnseen, FpRemovesTree, FpMadeWay, FpWritten, FpReadHonest, FpWalksAll, FpEnds
<1> QED  BY <1>3, <1>4, <1>5, <1>6 DEF FpInv

(* Links lead to a node; a directory that is opened is one frame. *)
LEMMA FpOpens ==
  ASSUME FpTypes, NEW n \in FpNode
  PROVE  /\ FpFollow(n) \in FpNode /\ FpStat(n) \in FpEntry /\ FpOpened(n) \in FpFrame
         /\ fpFs[n] # FpLink => FpFollow(n) = n /\ FpStat(n) = fpFs[n]
<1>1. FpFollow(n) \in FpNode  BY FpAssumption DEF FpFollow, FpLeads
<1>2. FpStat(n) \in FpEntry  BY <1>1 DEF FpTypes, FpStat
<1>3. FpNames(FpFollow(n)) \in SUBSET FpNode  BY DEF FpNames
<1>4. FpOpened(n) \in FpFrame  BY <1>1, <1>3 DEF FpOpened, FpFrame
<1> QED  BY <1>1, <1>2, <1>4 DEF FpFollow, FpLeads, FpStat

(* rmdir_recursive() begins. *)
LEMMA FpRmdirBegins ==
  ASSUME FpInv, NEW n \in FpNode, rmdir_recursive(n)
  PROVE  FpInv'
<1>1. /\ fpPc = "idle" /\ fpCall' = [op |-> "rmdir", path |-> n] /\ fpFs' = fpFs /\ fpBefore' = fpBefore
      /\ fpOthers' = fpOthers /\ fpFaults' = fpFaults /\ fpWork' = fpWork /\ fpOut' = fpOut
  BY DEF rmdir_recursive, FpBegin, fpHist
<1>2. FpTypes /\ fpFs = fpBefore /\ fpFrames = << >> /\ fpRet = 0  BY <1>1 DEF FpInv, FpIdle
<1>3. n \in Seq(FpName) /\ Len(n) \in Nat  BY FpFront
<1>4. fpCall' \in [op : FpOps, path : Seq(FpName)]  BY <1>1, <1>3 DEF FpOps
<1>5. /\ FpFollow(n) \in FpNode /\ FpStat(n) \in FpEntry /\ FpOpened(n) \in FpFrame
      /\ fpFs[n] # FpLink => FpFollow(n) = n /\ FpStat(n) = fpFs[n]
  BY <1>2, FpOpens
<1>6. n \in FpBelow(n) /\ FpBelow(n) \subseteq FpNode  BY FpUnder
<1>7. FpNoLinks' => fpBefore[n] # FpLink  BY <1>1, <1>6 DEF FpNoLinks
<1>8. FpIsTree(fpFs)  BY <1>2 DEF FpTypes
<1>9. CASE FpStat(n) = FpNone
  <2>1. fpPc' = "done" /\ fpRet' = 0 /\ fpFrames' = fpFrames  BY <1>9, FpEntries DEF rmdir_recursive, FpDone
  <2>2. FpTypes'  BY <1>1, <1>2, <1>4, <2>1 DEF FpTypes
  <2>3. FpGoneOrUnseen'  BY <1>1, <1>9 DEF FpGoneOrUnseen, FpStat, FpFollow
  <2>4. FpRemovesTree'
    <3> SUFFICES ASSUME FpNoLinks' PROVE FpRemovesTree'  BY DEF FpRemovesTree, FpNoLinks
    <3>1. fpFs[n] = FpNone  BY <1>2, <1>5, <1>7, <1>9
    <3>2. \A m \in FpBelow(n) : fpFs[m] = FpNone  BY <1>8, <3>1, FpNothingBelow
    <3>3. ~FpIsFile(FpWas(n)')  BY <1>1, <1>2, <3>1, FpEntries DEF FpWas
    <3> QED  BY <1>1, <1>2, <2>1, <3>2, <3>3 DEF FpRemovesTree
  <2> QED  BY <1>1, <2>1, <2>2, <2>3, <2>4, FpElsewhere DEF FpInv, FpHonest
<1>10. CASE FpStat(n) = FpDir
  <2>1. fpPc' = "visit" /\ fpFrames' = <<FpOpened(n)>> /\ fpRet' = fpRet
    BY <1>10, FpEntries DEF rmdir_recursive, FpDone
  <2>2. fpFrames' \in Seq(FpFrame) /\ Len(fpFrames') = 1 /\ fpFrames'[1] = FpOpened(n)  BY <1>5, <2>1
  <2>3. FpTypes'  BY <1>1, <1>2, <1>4, <2>1, <2>2 DEF FpTypes
  <2>4. FpGoing'  BY <1>1, <2>1, <2>2 DEF FpGoing, FpOpened
  <2>5. FpRemoving'
    <3> SUFFICES ASSUME FpNoLinks' PROVE FpEmptied(n)'  BY <1>1 DEF FpRemoving
    <3>1. FpFollow(n) = n /\ fpFs[n] = FpDir  BY <1>2, <1>5, <1>7, <1>10
    <3>2. fpFrames'[1].node = n /\ fpFrames'[1].left = FpNames(n) /\ fpFrames'[1].ret = 0
      BY <2>2, <3>1 DEF FpOpened
    <3>3. FpNames(n)' = FpNames(n)  BY <1>1 DEF FpNames
    <3>4. Len(n) = Len(n) + 1 - 1  BY <1>3
    <3>5. \A i \in 1..Len(fpFrames') : i = 1  BY <2>2
    <3> QED  BY <1>1, <1>2, <1>6, <1>8, <2>2, <3>1, <3>2, <3>3, <3>4, <3>5 DEF FpEmptied
  <2>6. FpWalking'  BY <1>1 DEF FpWalking
  <2> QED  BY <1>1, <2>1, <2>3, <2>4, <2>5, <2>6, FpElsewhere DEF FpInv
<1>11. CASE FpStat(n) # FpNone /\ FpStat(n) # FpDir
  <2>1. fpPc' = "done" /\ fpRet' = -1 /\ fpFrames' = fpFrames  BY <1>11 DEF rmdir_recursive, FpDone
  <2>2. FpTypes'  BY <1>1, <1>2, <1>4, <2>1 DEF FpTypes
  <2>3. FpGoneOrUnseen'  BY <2>1 DEF FpGoneOrUnseen
  <2>4. FpRemovesTree'
    <3> SUFFICES ASSUME FpNoLinks' PROVE FpRemovesTree'  BY DEF FpRemovesTree, FpNoLinks
    <3>1. FpStat(n) = fpBefore[n] /\ fpBefore[n] # FpLink  BY <1>2, <1>5, <1>7
    <3>2. FpIsFile(fpBefore[n])  BY <1>5, <1>11, <3>1, FpEntries
    <3>3. FpIsFile(FpWas(n)')  BY <1>1, <3>1, <3>2 DEF FpWas
    <3> QED  BY <1>1, <1>2, <2>1, <3>3 DEF FpRemovesTree
  <2> QED  BY <1>1, <2>1, <2>2, <2>3, <2>4, FpElsewhere DEF FpInv, FpHonest
<1> QED  BY <1>9, <1>10, <1>11

(* walk_dir() begins. *)
LEMMA FpWalkBegins ==
  ASSUME FpInv, NEW n \in FpNode, walk_dir(n)
  PROVE  FpInv'
<1>1. /\ fpPc = "idle" /\ fpCall' = [op |-> "walk", path |-> n] /\ fpFs' = fpFs /\ fpBefore' = fpBefore
      /\ fpOthers' = fpOthers /\ fpFaults' = fpFaults /\ fpWork' = fpWork /\ fpOut' = fpOut
  BY DEF walk_dir, FpBegin, fpHist
<1>2. /\ FpTypes /\ fpFs = fpBefore /\ fpFrames = << >> /\ fpRet = 0
      /\ fpOut = [dirs |-> {}, files |-> {}, content |-> << >>]
  BY <1>1 DEF FpInv, FpIdle
<1>3. n \in Seq(FpName)  BY FpFront
<1>4. fpCall' \in [op : FpOps, path : Seq(FpName)]  BY <1>1, <1>3 DEF FpOps
<1>5. FpFollow(n) \in FpNode /\ FpOpened(n) \in FpFrame  BY <1>2, FpOpens
<1>6. CASE FpStat(n) = FpDir
  <2>1. fpPc' = "visit" /\ fpFrames' = <<FpOpened(n)>> /\ fpRet' = fpRet  BY <1>6 DEF walk_dir
  <2>2. fpFrames' \in Seq(FpFrame) /\ Len(fpFrames') = 1 /\ fpFrames'[1] = FpOpened(n)  BY <1>5, <2>1
  <2>3. FpTypes'  BY <1>1, <1>2, <1>4, <2>1, <2>2 DEF FpTypes
  <2>4. FpGoing'  BY <1>1, <2>1, <2>2 DEF FpGoing, FpOpened
  <2>5. FpRemoving'  BY <1>1 DEF FpRemoving
  <2>6. FpWalking'
    <3>1. FpFollow(n)' = FpFollow(n) /\ FpNames(FpFollow(n))' = FpNames(FpFollow(n))  BY <1>1 DEF FpFollow, FpNames
    <3>2. fpFrames'[1].left = FpNames(FpFollow(n))  BY <2>2 DEF FpOpened
    <3>3. fpOut'.dirs = {} /\ fpOut'.files = {}  BY <1>1, <1>2
    <3>4. FpListed(FpNames(FpFollow(n)) \ fpFrames[1].left)'  BY <3>1, <3>2, <3>3 DEF FpListed
    <3> QED  BY <1>1, <1>2, <2>2, <3>1, <3>2, <3>4 DEF FpWalking
  <2> QED  BY <1>1, <2>1, <2>3, <2>4, <2>5, <2>6, FpElsewhere DEF FpInv
<1>7. CASE FpStat(n) # FpDir
  <2>1. fpPc' = "done" /\ fpRet' = -1 /\ fpFrames' = fpFrames  BY <1>7 DEF walk_dir, FpDone
  <2>2. FpTypes'  BY <1>1, <1>2, <1>4, <2>1 DEF FpTypes
  <2>3. FpWalksAll'  BY <2>1 DEF FpWalksAll
  <2> QED  BY <1>1, <2>1, <2>2, <2>3, FpElsewhere DEF FpInv, FpHonest
<1> QED  BY <1>6, <1>7

(* mkdir_recursive() begins. *)
LEMMA FpMkdirBegins ==
  ASSUME FpInv, NEW p \in FpPaths, mkdir_recursive(p)
  PROVE  FpInv'
<1>1. /\ fpPc = "idle" /\ fpCall' = [op |-> "mkdir", path |-> p] /\ fpFs' = fpFs /\ fpBefore' = fpBefore
      /\ fpOthers' = fpOthers /\ fpFaults' = fpFaults /\ fpWork' = FpNoWork /\ fpOut' = fpOut
      /\ fpPc' = "mkdir" /\ fpRet' = fpRet /\ fpFrames' = fpFrames
  BY DEF mkdir_recursive, FpBegin, fpHist
<1>2. FpTypes /\ fpFs = fpBefore /\ fpWork = FpNoWork  BY <1>1 DEF FpInv, FpIdle
<1>3. p \in Seq(FpName) /\ Len(p) \in Nat \ {0}  BY FpAssumption, EmptySeq
<1>4. fpCall' \in [op : FpOps, path : Seq(FpName)]  BY <1>1, <1>3 DEF FpOps
<1>5. FpTypes'  BY <1>1, <1>2, <1>4 DEF FpTypes
<1>6. fpWork'.made = 0 /\ fpWork'.dir = << >>  BY <1>1 DEF FpNoWork
<1>7. FpGoing'  BY <1>1, <1>3, <1>6 DEF FpGoing
<1>8. FpWay(fpFs, p)[0] = << >>  BY <1>3, FpWayIs
<1>9. FpMaking'  BY <1>1, <1>2, <1>6, <1>8 DEF FpMaking
<1> QED  BY <1>1, <1>5, <1>7, <1>9, FpElsewhere DEF FpInv

(* rm_file() begins. *)
LEMMA FpRmBegins ==
  ASSUME FpInv, NEW n \in FpNode, rm_file(n)
  PROVE  FpInv'
<1>1. /\ fpPc = "idle" /\ fpCall' = [op |-> "rm", path |-> n] /\ fpFs' = fpFs /\ fpBefore' = fpBefore
      /\ fpOthers' = fpOthers /\ fpFaults' = fpFaults /\ fpWork' = fpWork /\ fpOut' = fpOut /\ fpFrames' = fpFrames
  BY DEF rm_file, FpBegin, fpHist
<1>2. FpTypes /\ fpRet = 0  BY <1>1 DEF FpInv, FpIdle
<1>3. n \in Seq(FpName)  BY FpFront
<1>4. fpCall' \in [op : FpOps, path : Seq(FpName)]  BY <1>1, <1>3 DEF FpOps
<1>5. fpRet' \in {0, -1} /\ fpPc' \in {"done", "unlink"}
  <2>1. CASE FpStat(n) = FpNone  BY <2>1, FpEntries DEF rm_file, FpDone
  <2>2. CASE FpStat(n) = FpDir  BY <2>2, FpEntries DEF rm_file, FpDone
  <2>3. CASE FpStat(n) # FpNone /\ FpStat(n) # FpDir  BY <1>2, <2>3 DEF rm_file, FpDone
  <2> QED  BY <2>1, <2>2, <2>3
<1>6. FpTypes'  BY <1>1, <1>2, <1>4, <1>5 DEF FpTypes
<1>7. FpGoing'  BY <1>1, <1>5 DEF FpGoing
<1>8. FpGoneOrUnseen'
  <2>1. fpPc' = "done" /\ fpRet' = 0 => FpStat(n) = FpNone  BY FpEntries DEF rm_file, FpDone
  <2>2. FpStat(n)' = FpStat(n)  BY <1>1 DEF FpStat, FpFollow
  <2> QED  BY <1>1, <2>1, <2>2 DEF FpGoneOrUnseen, FpEnds
<1> QED  BY <1>1, <1>5, <1>6, <1>7, <1>8, FpElsewhere DEF FpInv, FpHonest

(* write_file() opens the file. *)
LEMMA FpWriteBegins ==
  ASSUME FpInv, NEW p \in FpNode, NEW append \in BOOLEAN, write_file(p, append)
  PROVE  FpInv'
<1> DEFINE n == FpFollow(p)
           old == IF FpIsFile(fpFs[n]) THEN fpFs[n][2] ELSE << >>
<1>1. /\ fpPc = "idle" /\ fpCall' = [op |-> IF append THEN "append" ELSE "write", path |-> n] /\ fpBefore' = fpBefore
      /\ fpOthers' = fpOthers /\ fpFaults' \in {fpFaults, fpFaults + 1}
      /\ fpWork' = fpWork /\ fpOut' = fpOut /\ fpFrames' = fpFrames
      /\ \/ fpPc' = "fwrite" /\ fpRet' = fpRet /\ fpFs' = [fpFs EXCEPT ![n] = FpFile(FpKept(append, old))]
         \/ fpPc' = "done" /\ fpRet' = -1 /\ fpFs' = fpFs
  BY DEF write_file, fpHist, FpDone, FpFault
<1>2. FpTypes /\ fpFs = fpBefore /\ fpRet = 0  BY <1>1 DEF FpInv, FpIdle
<1>3. n \in FpNode /\ n \in Seq(FpName)  BY <1>2, FpOpens, FpFront
<1>4. old \in Seq(FpByte)  BY <1>2, <1>3, FpEntries DEF FpTypes
<1>5. FpFile(FpKept(append, old)) \in FpEntry
  <2> HIDE DEF old
  <2>1. FpKept(append, old) \in Seq(FpByte)  BY <1>4, EmptySeq DEF FpKept
  <2> QED  BY <2>1, FpEntries
<1> HIDE DEF n
<1>6. fpCall' \in [op : FpOps, path : Seq(FpName)]  BY <1>1, <1>3 DEF FpOps
<1>7. fpFs' \in [FpNode -> FpEntry]  BY <1>1, <1>2, <1>3, <1>5 DEF FpTypes
<1>8. fpRet' \in {0, -1} /\ fpPc' \in {"fwrite", "done"}  BY <1>1, <1>2
<1>9. FpTypes'
  <2>1. fpFaults' \in Nat  BY <1>1, <1>2 DEF FpTypes
  <2> QED  BY <1>1, <1>2, <1>6, <1>7, <1>8, <2>1 DEF FpTypes
<1>10. fpCall'.path = n /\ fpCall'.op \in {"write", "append"} /\ (fpCall'.op = "append" <=> append)  BY <1>1
<1>11. FpGoing'  BY <1>3, <1>8, <1>10 DEF FpGoing
<1>12. FpWriting'
  <2> SUFFICES ASSUME fpPc' = "fwrite" PROVE FpWriting'  BY <1>8 DEF FpWriting
  <2>1. fpFs' = [fpBefore EXCEPT ![n] = FpFile(FpKept(append, old))]  BY <1>1, <1>2
  <2>2. old = IF FpIsFile(fpBefore[n]) THEN fpBefore[n][2] ELSE << >>  BY <1>2
  <2>3. FpKept(fpCall'.op = "append", old) = FpKept(append, old)  BY <1>10 DEF FpKept
  <2> HIDE DEF old
  <2>4. FpOld' = FpKept(append, old)  BY <1>1, <1>10, <2>2, <2>3 DEF FpOld
  <2> QED  BY <1>1, <1>8, <1>10, <2>1, <2>4 DEF FpWriting
<1>13. FpWritten'
  <2> SUFFICES ASSUME fpPc' = "done" PROVE FpWritten'  BY DEF FpWritten, FpEnds
  <2>1. fpRet' = -1 /\ fpFs' = fpBefore'  BY <1>1, <1>2
  <2> QED  BY <2>1 DEF FpWritten
<1> QED  BY <1>8, <1>9, <1>10, <1>11, <1>12, <1>13, FpElsewhere DEF FpInv, FpHonest

(* read_file() asks for the size. *)
LEMMA FpReadBegins ==
  ASSUME FpInv, NEW n \in FpNode, read_file(n)
  PROVE  FpInv'
<1> DEFINE size == get_file_size(n)
<1>1. /\ fpPc = "idle" /\ fpCall' = [op |-> "read", path |-> n] /\ fpFs' = fpFs /\ fpBefore' = fpBefore
      /\ fpOthers' = fpOthers /\ fpFaults' = fpFaults /\ fpOut' = fpOut /\ fpFrames' = fpFrames
      /\ fpWork' = [fpWork EXCEPT !.size = size]
      /\ IF size > 0 THEN fpPc' = "fread" /\ fpRet' = fpRet ELSE fpPc' = "done" /\ fpRet' = 0
  BY DEF read_file, FpBegin, fpHist, FpDone
<1>2. FpTypes /\ fpFs = fpBefore /\ fpRet = 0 /\ fpOut.content = << >>  BY <1>1 DEF FpInv, FpIdle
<1>3. n \in Seq(FpName)  BY FpFront
<1>4. FpStat(n) \in FpEntry  BY <1>2, FpOpens
<1>5. size \in Int /\ (FpIsFile(FpStat(n)) => FpStat(n)[2] \in Seq(FpByte) /\ size = Len(FpStat(n)[2]))
  BY <1>4, FpEntries, LenProperties DEF get_file_size
<1>6. size' = size /\ FpStat(n)' = FpStat(n)  BY <1>1 DEF get_file_size, FpStat, FpFollow
<1>7. FpStat(n) = FpWas(n)  BY <1>2 DEF FpStat, FpFollow, FpLeads, FpWas
<1> HIDE DEF size
<1>8. fpCall' \in [op : FpOps, path : Seq(FpName)]  BY <1>1, <1>3 DEF FpOps
<1>9. fpWork' \in [made : Nat, dir : Seq(FpName), size : Int] /\ fpWork'.size = size  BY <1>1, <1>2, <1>5 DEF FpTypes
<1>10. fpRet' \in {0, -1} /\ fpPc' \in {"fread", "done"}  BY <1>1, <1>2
<1>11. FpTypes'  BY <1>1, <1>2, <1>8, <1>9, <1>10 DEF FpTypes
<1>12. FpGoing'  BY <1>1, <1>10 DEF FpGoing
<1>13. FpReading'
  <2>1. fpPc' = "fread" => size > 0  BY <1>1
  <2>2. get_file_size(n)' = size  BY <1>6 DEF size
  <2> QED  BY <1>1, <1>2, <1>9, <2>1, <2>2 DEF FpReading
<1>14. FpReadHonest'
  <2> SUFFICES ASSUME fpPc' = "done" PROVE FpReadHonest'  BY DEF FpReadHonest, FpEnds
  <2>1. fpOut'.content = << >> /\ ~(size > 0)  BY <1>1, <1>2
  <2>2. FpIsFile(FpWas(n)) => FpWas(n)[2] = << >>  BY <1>5, <1>7, <2>1, EmptySeq
  <2>3. FpWas(n)' = FpWas(n)  BY <1>1 DEF FpWas
  <2> QED  BY <1>1, <2>1, <2>2, <2>3 DEF FpReadHonest
<1> QED  BY <1>1, <1>10, <1>11, <1>12, <1>13, <1>14, FpElsewhere DEF FpInv, FpHonest

(* A call fails at once. *)
LEMMA FpBeginFailsInv ==
  ASSUME FpInv, NEW n \in FpNode, NEW op \in {"rmdir", "walk", "rm", "read"}, FpBeginFails(op, n)
  PROVE  FpInv'
<1>1. /\ fpPc = "idle" /\ fpPc' = "done" /\ fpCall' = [op |-> op, path |-> n] /\ fpFs' = fpFs /\ fpBefore' = fpBefore
      /\ fpOthers' = fpOthers /\ fpFaults' = fpFaults + 1 /\ fpWork' = fpWork /\ fpOut' = fpOut /\ fpFrames' = fpFrames
      /\ fpRet' \in FpGivesUp(op)
  BY DEF FpBeginFails, FpBegin, fpHist, FpDone, FpFault
<1>2. FpTypes /\ fpFs = fpBefore /\ fpOut.content = << >>  BY <1>1 DEF FpInv, FpIdle
<1>3. fpCall' \in [op : FpOps, path : Seq(FpName)]
  <2>1. n \in Seq(FpName)  BY FpFront
  <2> QED  BY <1>1, <2>1 DEF FpOps
<1>4. fpRet' \in {0, -1} /\ (op = "walk" => fpRet' = -1)  BY <1>1 DEF FpGivesUp
<1>5. fpFaults' \in Nat /\ fpFaults' > 0  BY <1>1, <1>2 DEF FpTypes
<1>6. FpTypes'  BY <1>1, <1>2, <1>3, <1>4, <1>5 DEF FpTypes
<1>7. FpGoneOrUnseen'  BY <1>1, <1>2, <1>5 DEF FpGoneOrUnseen
<1>8. FpRemovesTree'  BY <1>5 DEF FpRemovesTree, FpAlone
<1>9. FpWalksAll'  BY <1>1, <1>4 DEF FpWalksAll, FpEnds
<1>10. FpReadHonest'
  <2> DEFINE was == IF FpIsFile(FpWas(n)) THEN FpWas(n)[2] ELSE << >>
  <2>1. FpWas(n) \in FpEntry  BY <1>2, FpAssumption DEF FpTypes, FpWas
  <2>2. was \in Seq(FpByte)  BY <2>1, FpEntries, EmptySeq
  <2>3. FpWas(n)' = FpWas(n)  BY <1>1 DEF FpWas
  <2> HIDE DEF was
  <2>4. 0 \in 0..Len(was) /\ SubSeq(was, 1, 0) = << >>  BY <2>2, LenProperties, SubSeqEmpty
  <2>5. fpFaults' > 0 /\ \E k \in 0..Len(was) : fpOut'.content = SubSeq(was, 1, k)  BY <1>1, <1>2, <1>5, <2>4
  <2>6. fpCall'.path = n /\ fpOut'.content = << >>  BY <1>1, <1>2
  <2> QED  BY <2>3, <2>5, <2>6 DEF FpReadHonest, was
<1> QED  BY <1>1, <1>6, <1>7, <1>8, <1>9, <1>10, FpElsewhere DEF FpInv, FpHonest

(* Somebody else changes the tree. *)
LEMMA FpOtherInv ==
  ASSUME FpInv, NEW n \in FpNode, FpOther(n)
  PROVE  FpInv'
<1>1. /\ fpPc \notin {"idle", "done"} /\ fpPc' = fpPc /\ fpCall' = fpCall /\ fpFrames' = fpFrames /\ fpWork' = fpWork
      /\ fpOut' = fpOut /\ fpRet' = fpRet /\ fpBefore' = fpBefore /\ fpFaults' = fpFaults /\ fpOthers' = fpOthers + 1
  BY DEF FpOther
<1>2. FpTypes  BY DEF FpInv
<1>3. fpFs' \in [FpNode -> FpEntry]
  <2>1. CASE fpFs' = [fpFs EXCEPT ![n] = FpNone]  BY <1>2, <2>1, FpEntries DEF FpTypes
  <2>2. ASSUME NEW x \in FpByte,
               fpFs' = [fpFs EXCEPT ![n] = FpFile(IF FpIsFile(@) THEN Append(@[2], x) ELSE <<x>>)]
        PROVE  fpFs' \in [FpNode -> FpEntry]
    <3> DEFINE s == IF FpIsFile(fpFs[n]) THEN Append(fpFs[n][2], x) ELSE <<x>>
    <3>1. FpIsFile(fpFs[n]) => fpFs[n][2] \in Seq(FpByte)  BY <1>2, FpEntries DEF FpTypes
    <3>2. s \in Seq(FpByte)
      <4>1. <<x>> \in Seq(FpByte)  OBVIOUS
      <4> QED  BY <3>1, <4>1, AppendProperties
    <3>3. fpFs' = [fpFs EXCEPT ![n] = FpFile(s)]  BY <2>2
    <3> HIDE DEF s
    <3>4. FpFile(s) \in FpEntry  BY <3>2, FpEntries
    <3> QED  BY <1>2, <3>3, <3>4 DEF FpTypes
  <2> QED  BY <2>1, <2>2 DEF FpOther
<1>4. fpOthers' # 0 /\ fpOthers' \in Nat  BY <1>1, <1>2 DEF FpTypes
<1>5. FpTypes'  BY <1>1, <1>2, <1>3, <1>4 DEF FpTypes
<1>6. FpGoing'  BY <1>1 DEF FpInv, FpGoing
<1>7. FpRemoving'  BY <1>4 DEF FpRemoving, FpAlone
<1>8. FpWalking'  BY <1>1, <1>4 DEF FpInv, FpWalking
<1>9. FpMaking'  BY <1>1, <1>4 DEF FpInv, FpMaking
<1>10. FpWriting'  BY <1>1, <1>4 DEF FpInv, FpWriting
<1>11. FpReading'  BY <1>1, <1>4 DEF FpInv, FpReading
<1> QED  BY <1>1, <1>5, <1>6, <1>7, <1>8, <1>9, <1>10, <1>11, FpElsewhere DEF FpInv

(* unlink() of rm_file(). *)
LEMMA FpUnlinkInv == ASSUME FpInv, FpUnlink PROVE FpInv'
<1>1. /\ fpPc = "unlink" /\ fpPc' = "done" /\ fpCall' = fpCall /\ fpFrames' = fpFrames /\ fpWork' = fpWork
      /\ fpOut' = fpOut /\ fpRet' \in {0, -1} /\ fpBefore' = fpBefore /\ fpOthers' = fpOthers
      /\ fpFaults' \in {fpFaults, fpFaults + 1}
      /\ (fpRet' = -1 /\ fpFs' = fpFs) \/ (fpRet' = 0 /\ fpFs' = [fpFs EXCEPT ![fpCall.path] = FpNone])
  BY DEF FpUnlink, FpDone, fpHist, FpFault
<1>2. FpTypes /\ fpCall.op = "rm" /\ fpCall.path \in FpNode  BY <1>1 DEF FpInv, FpGoing
<1>3. fpFs' \in [FpNode -> FpEntry]  BY <1>1, <1>2, FpEntries DEF FpTypes
<1>6. fpFaults' \in Nat  BY <1>1, <1>2 DEF FpTypes
<1>4. FpTypes'  BY <1>1, <1>2, <1>3, <1>6 DEF FpTypes
<1>5. FpGoneOrUnseen'
  <2>1. fpRet' = 0 => fpFs'[fpCall.path] = FpNone  BY <1>1, <1>2 DEF FpTypes
  <2>2. fpRet' = 0 => FpStat(fpCall.path)' = FpNone  BY <1>1, <2>1, FpEntries DEF FpStat, FpFollow, FpLeads
  <2> QED  BY <1>1, <2>2 DEF FpGoneOrUnseen
<1> QED  BY <1>1, <1>2, <1>4, <1>5, FpElsewhere DEF FpInv, FpHonest

(* A part of a sequence put after the part before it. *)
LEMMA FpMore ==
  ASSUME NEW S, NEW old \in Seq(S), NEW u \in Seq(S), NEW b \in 0..Len(u), NEW a \in 0..b
  PROVE  /\ SubSeq(u, a + 1, b) \in Seq(S)
         /\ (old \o SubSeq(u, 1, a)) \o SubSeq(u, a + 1, b) = old \o SubSeq(u, 1, b)
<1>1. Len(u) \in Nat /\ a \in Nat /\ b \in Nat /\ a <= b /\ b <= Len(u)  BY LenProperties
<1>2. PICK x, y, z : x = SubSeq(u, 1, a) /\ y = SubSeq(u, a + 1, b) /\ z = SubSeq(u, 1, b)  OBVIOUS
<1>3. a \in 0..Len(u)  BY <1>1
<1>4. x \in Seq(S) /\ Len(x) = a /\ \A i \in 1..a : x[i] = u[i]  BY <1>2, <1>3, FpFirst
<1>5. z \in Seq(S) /\ Len(z) = b /\ \A i \in 1..b : z[i] = u[i]  BY <1>2, FpFirst
<1>6. y \in Seq(S) /\ Len(y) = b - a /\ \A i \in 1..b - a : y[i] = u[a + i]
  <2>1. \A i \in a + 1..b : u[i] \in S
    <3>1. \A i \in a + 1..b : i \in 1..Len(u)  BY <1>1
    <3> QED  BY <3>1, ElementOfSeq
  <2>2. /\ SubSeq(u, a + 1, b) \in Seq(S)
        /\ Len(SubSeq(u, a + 1, b)) = IF a + 1 <= b THEN b - (a + 1) + 1 ELSE 0
        /\ \A i \in 1..b - (a + 1) + 1 : SubSeq(u, a + 1, b)[i] = u[(a + 1) + i - 1]
    BY <1>1, <2>1, SubSeqProperties
  <2>3. b - (a + 1) + 1 = b - a /\ \A i \in 1..b - a : (a + 1) + i - 1 = a + i  BY <1>1
  <2> QED  BY <1>1, <1>2, <2>2, <2>3
<1>7. x \o y \in Seq(S) /\ Len(x \o y) = b /\ \A i \in 1..b : (x \o y)[i] = IF i <= a THEN x[i] ELSE y[i - a]
  <2>1. x \in Seq(S) /\ y \in Seq(S)  BY <1>4, <1>6
  <2>2. /\ x \o y \in Seq(S) /\ Len(x \o y) = Len(x) + Len(y)
        /\ \A i \in 1..Len(x) + Len(y) : (x \o y)[i] = IF i <= Len(x) THEN x[i] ELSE y[i - Len(x)]
    BY <2>1, ConcatProperties
  <2>3. Len(x) = a /\ Len(x) + Len(y) = b  BY <1>1, <1>4, <1>6
  <2> QED  BY <2>2, <2>3
<1>8. \A i \in 1..b : (x \o y)[i] = z[i]
  <2> SUFFICES ASSUME NEW i \in 1..b PROVE (x \o y)[i] = u[i]  BY <1>5
  <2>1. CASE i <= a
    <3>1. i \in 1..a  BY <1>1, <2>1
    <3> QED  BY <1>4, <1>7, <2>1, <3>1
  <2>2. CASE ~(i <= a)
    <3>1. i - a \in 1..b - a /\ a + (i - a) = i  BY <1>1, <2>2
    <3> QED  BY <1>6, <1>7, <2>2, <3>1
  <2> QED  BY <2>1, <2>2
<1>9. x \o y = z  BY <1>5, <1>7, <1>8, SeqEqual
<1>10. (old \o x) \o y = old \o (x \o y)
  <2>1. x \in Seq(S) /\ y \in Seq(S)  BY <1>4, <1>6
  <2> QED  BY <2>1, ConcatAssociative
<1> QED  BY <1>2, <1>6, <1>9, <1>10

(* What a file was told to keep. *)
LEMMA FpOldIs ==
  ASSUME FpTypes, fpCall.path \in FpNode
  PROVE  FpOld \in Seq(FpByte)
<1> DEFINE was == fpBefore[fpCall.path]
           old == IF FpIsFile(was) THEN was[2] ELSE << >>
<1>1. was \in FpEntry  BY DEF FpTypes
<1>2. old \in Seq(FpByte)  BY <1>1, FpEntries, EmptySeq
<1>3. FpOld = FpKept(fpCall.op = "append", old)  BY DEF FpOld
<1> HIDE DEF old
<1> QED  BY <1>2, <1>3, EmptySeq DEF FpKept

(* More is put into a file that has x. *)
LEMMA FpPutIs ==
  ASSUME FpTypes, NEW n \in FpNode, NEW s \in Seq(FpByte), FpPut(n, s)
  PROVE  /\ fpFs' \in [FpNode -> FpEntry]
         /\ \A x \in Seq(FpByte) : fpFs = [fpBefore EXCEPT ![n] = FpFile(x)] =>
                                      fpFs' = [fpBefore EXCEPT ![n] = FpFile(x \o s)]
<1>1. FpIsFile(fpFs[n]) => FpFile(fpFs[n][2] \o s) \in FpEntry
  <2>1. FpIsFile(fpFs[n]) => fpFs[n][2] \in Seq(FpByte)  BY FpEntries DEF FpTypes
  <2>2. FpIsFile(fpFs[n]) => fpFs[n][2] \o s \in Seq(FpByte)  BY <2>1, ConcatProperties
  <2> QED  BY <2>2, FpEntries
<1>2. fpFs' \in [FpNode -> FpEntry]  BY <1>1 DEF FpTypes, FpPut
<1>3. ASSUME NEW x \in Seq(FpByte), fpFs = [fpBefore EXCEPT ![n] = FpFile(x)]
      PROVE  fpFs' = [fpBefore EXCEPT ![n] = FpFile(x \o s)]
  <2>1. fpFs[n] = FpFile(x) /\ FpIsFile(FpFile(x)) /\ FpFile(x)[2] = x  BY <1>3, FpEntries DEF FpTypes
  <2>2. fpFs' = [fpFs EXCEPT ![n] = FpFile(x \o s)]  BY <2>1 DEF FpPut
  <2> QED  BY <1>3, <2>2 DEF FpTypes
<1> QED  BY <1>2, <1>3

(* fwrite() takes all or a part, and writes some of it. *)
LEMMA FpFwriteInv == ASSUME FpInv, FpFwrite PROVE FpInv'
<1> DEFINE n == fpCall.path
<1>1. /\ fpPc = "fwrite" /\ fpPc' = "fclose" /\ fpCall' = fpCall /\ fpFrames' = fpFrames
      /\ fpOut' = fpOut /\ fpRet' = fpRet /\ fpBefore' = fpBefore /\ fpOthers' = fpOthers
  BY DEF FpFwrite, fpHist
<1>2. /\ FpTypes /\ fpCall.op \in {"write", "append"} /\ n \in FpNode
      /\ fpOthers = 0 => fpFs = [fpBefore EXCEPT ![n] = FpFile(FpOld)]
  BY <1>1 DEF FpInv, FpGoing, FpWriting
<1>3. PICK taken \in 0..Len(FpNew), made \in 0..Len(FpNew) :
        /\ made <= taken
        /\ FpPut(n, SubSeq(FpNew, 1, made)) /\ fpWork' = [fpWork EXCEPT !.made = made, !.size = taken]
        /\ IF taken = Len(FpNew) THEN fpFaults' = fpFaults ELSE fpFaults' = fpFaults + 1
  BY DEF FpFwrite, FpFault
<1> HIDE DEF n
<1>5. FpNew \in Seq(FpByte) /\ Len(FpNew) \in Nat /\ made \in Nat /\ taken \in Nat /\ made \in 0..taken
  <2>1. FpNew \in Seq(FpByte) /\ Len(FpNew) \in Nat  BY FpAssumption, LenProperties
  <2> QED  BY <1>3, <2>1
<1>6. SubSeq(FpNew, 1, made) \in Seq(FpByte)  BY <1>5, FpFirst
<1>7. /\ fpFs' \in [FpNode -> FpEntry]
      /\ \A x \in Seq(FpByte) : fpFs = [fpBefore EXCEPT ![n] = FpFile(x)] =>
                                   fpFs' = [fpBefore EXCEPT ![n] = FpFile(x \o SubSeq(FpNew, 1, made))]
  BY <1>2, <1>3, <1>6, FpPutIs
<1>8. /\ fpWork' \in [made : Nat, dir : Seq(FpName), size : Int] /\ fpWork'.made = made /\ fpWork'.size = taken
  <2>1. fpWork \in [made : Nat, dir : Seq(FpName), size : Int] /\ taken \in Int  BY <1>2, <1>5 DEF FpTypes
  <2> QED  BY <1>3, <1>5, <2>1
<1>9. fpFaults' \in Nat /\ (taken < Len(FpNew) => fpFaults' > 0)  BY <1>2, <1>3, <1>5 DEF FpTypes
<1>10. FpTypes'  BY <1>1, <1>2, <1>7, <1>8, <1>9 DEF FpTypes
<1>11. FpGoing'  BY <1>1, <1>2 DEF FpGoing, n
<1>12. FpWriting'
  <2>1. FpOld \in Seq(FpByte) /\ FpOld' = FpOld  BY <1>1, <1>2, FpOldIs DEF FpOld, n
  <2>2. fpOthers' = 0 => FpHas(made)'  BY <1>1, <1>2, <1>7, <2>1 DEF FpHas, n
  <2>3. FpHas(fpWork.made)' <=> FpHas(made)'  BY <1>8 DEF FpHas
  <2> QED  BY <1>1, <1>5, <1>8, <1>9, <2>2, <2>3 DEF FpWriting
<1> QED  BY <1>1, <1>10, <1>11, <1>12, FpElsewhere DEF FpInv

(* fclose() writes the rest, or a part of it. *)
LEMMA FpFcloseInv == ASSUME FpInv, FpFclose PROVE FpInv'
<1> DEFINE n == fpCall.path
           a == fpWork.made
           size == fpWork.size
<1>1. /\ fpPc = "fclose" /\ fpPc' = "done" /\ fpCall' = fpCall /\ fpFrames' = fpFrames /\ fpWork' = fpWork
      /\ fpOut' = fpOut /\ fpRet' = FpTaken /\ fpBefore' = fpBefore /\ fpOthers' = fpOthers
  BY DEF FpFclose, FpDone, fpHist
<1>2. /\ FpTypes /\ fpCall.op \in {"write", "append"} /\ n \in FpNode
      /\ size \in 0..Len(FpNew) /\ a \in 0..size /\ (size < Len(FpNew) => fpFaults > 0)
      /\ fpOthers = 0 => FpHas(a)
  BY <1>1 DEF FpInv, FpGoing, FpWriting
<1>3. PICK b \in a..size : /\ FpPut(n, SubSeq(FpNew, a + 1, b))
                           /\ IF b = size THEN fpFaults' = fpFaults ELSE fpFaults' = fpFaults + 1
  BY DEF FpFclose, FpFault
<1>4. fpRet' = IF size = Len(FpNew) THEN 0 ELSE -1  BY <1>1 DEF FpTaken
<1>5. FpOld \in Seq(FpByte) /\ FpOld' = FpOld  BY <1>1, <1>2, FpOldIs DEF FpOld
<1>6. FpHas(a) <=> fpFs = [fpBefore EXCEPT ![n] = FpFile(FpOld \o SubSeq(FpNew, 1, a))]  BY DEF FpHas
<1> HIDE DEF n, a, size
<1>7. /\ FpNew \in Seq(FpByte) /\ Len(FpNew) \in Nat /\ a \in Nat /\ b \in 0..Len(FpNew) /\ a \in 0..b
      /\ size \in Nat /\ b <= size /\ size <= Len(FpNew) /\ a \in 0..Len(FpNew)
  <2>1. FpNew \in Seq(FpByte) /\ Len(FpNew) \in Nat  BY FpAssumption, LenProperties
  <2> QED  BY <1>2, <2>1
<1>8. /\ SubSeq(FpNew, a + 1, b) \in Seq(FpByte)
      /\ (FpOld \o SubSeq(FpNew, 1, a)) \o SubSeq(FpNew, a + 1, b) = FpOld \o SubSeq(FpNew, 1, b)
  <2>1. PICK old : old = FpOld  OBVIOUS
  <2>2. old \in Seq(FpByte)  BY <1>5, <2>1
  <2>3. /\ SubSeq(FpNew, a + 1, b) \in Seq(FpByte)
        /\ (old \o SubSeq(FpNew, 1, a)) \o SubSeq(FpNew, a + 1, b) = old \o SubSeq(FpNew, 1, b)
    BY <1>7, <2>2, FpMore
  <2> QED  BY <2>1, <2>3
<1>9. /\ fpFs' \in [FpNode -> FpEntry]
      /\ \A x \in Seq(FpByte) : fpFs = [fpBefore EXCEPT ![n] = FpFile(x)] =>
                                   fpFs' = [fpBefore EXCEPT ![n] = FpFile(x \o SubSeq(FpNew, a + 1, b))]
  BY <1>2, <1>3, <1>8, FpPutIs
<1>10. /\ fpRet' \in {0, -1} /\ fpFaults' \in Nat
       /\ (fpRet' = 0 /\ b = Len(FpNew)) \/ fpFaults' > 0
  BY <1>2, <1>3, <1>4, <1>7 DEF FpTypes
<1>11. FpTypes'  BY <1>1, <1>2, <1>9, <1>10 DEF FpTypes
<1>12. FpWritten'
  <2> SUFFICES ASSUME fpOthers = 0 PROVE FpWritten'  BY <1>1 DEF FpWritten
  <2>1. FpOld \o SubSeq(FpNew, 1, a) \in Seq(FpByte)
    <3>1. SubSeq(FpNew, 1, a) \in Seq(FpByte)  BY <1>7, FpFirst
    <3> QED  BY <1>5, <3>1, ConcatProperties
  <2>2. fpFs' = [fpBefore EXCEPT ![n] = FpFile(FpOld \o SubSeq(FpNew, 1, b))]
    BY <1>2, <1>6, <1>8, <1>9, <2>1
  <2>3. FpHas(b)'  BY <1>1, <1>5, <2>2 DEF FpHas, n
  <2>4. b = Len(FpNew) => FpHas(Len(FpNew))'  BY <2>3 DEF FpHas
  <2> QED  BY <1>7, <1>10, <2>3, <2>4 DEF FpWritten
<1> QED  BY <1>1, <1>2, <1>11, <1>12, FpElsewhere DEF FpInv, FpHonest

(* fread() of as much as the size said. *)
LEMMA FpFreadInv == ASSUME FpInv, FpFread PROVE FpInv'
<1> DEFINE n == fpCall.path
           x == FpStat(n)
           c == x[2]
           size == fpWork.size
           given == IF FpIsFile(x) THEN FpReadUpTo(c, size) ELSE << >>
<1>1. /\ fpPc = "fread" /\ fpPc' = "done" /\ fpCall' = fpCall /\ fpFrames' = fpFrames /\ fpWork' = fpWork /\ fpFs' = fpFs
      /\ fpRet' = 0 /\ fpBefore' = fpBefore /\ fpOthers' = fpOthers
      /\ \E l \in 0..Len(given) : /\ fpOut' = [fpOut EXCEPT !.content = SubSeq(given, 1, l)]
                                  /\ IF l = Len(given) THEN fpFaults' = fpFaults ELSE fpFaults' = fpFaults + 1
  BY DEF FpFread, FpDone, fpHist, FpFault
<1>2. /\ FpTypes /\ fpCall.op = "read" /\ n \in FpNode
      /\ size > 0 /\ (fpOthers = 0 => fpFs = fpBefore /\ size = get_file_size(n))
  BY <1>1 DEF FpInv, FpGoing, FpReading
<1>3. x \in FpEntry /\ size \in Int  BY <1>2, FpOpens DEF FpTypes
<1> DEFINE k == IF size < Len(c) THEN size ELSE Len(c)
<1>4. ASSUME FpIsFile(x)
      PROVE  /\ given = SubSeq(c, 1, k) /\ c \in Seq(FpByte) /\ k \in 0..Len(c) /\ k <= size /\ given \in Seq(FpByte)
             /\ Len(given) = k
  <2>1. c \in Seq(FpByte) /\ Len(c) \in Nat  BY <1>3, <1>4, FpEntries, LenProperties
  <2>2. k \in 0..Len(c) /\ k <= size  BY <1>2, <1>3, <2>1
  <2>3. given = SubSeq(c, 1, k)  BY <1>4 DEF FpReadUpTo
  <2> HIDE DEF k, c, given
  <2> QED  BY <2>1, <2>2, <2>3, FpFirst
<1>5. ~FpIsFile(x) => given = << >>  OBVIOUS
<1> HIDE DEF given, x, n
<1>6. given \in Seq(FpByte)  BY <1>4, <1>5, EmptySeq
<1>11. PICK l \in 0..Len(given) : /\ fpOut' = [fpOut EXCEPT !.content = SubSeq(given, 1, l)]
                                  /\ IF l = Len(given) THEN fpFaults' = fpFaults ELSE fpFaults' = fpFaults + 1
  BY <1>1
<1>12. PICK got : got = SubSeq(given, 1, l)  OBVIOUS
<1>13. /\ got \in Seq(FpByte) /\ Len(got) = l /\ Len(given) \in Nat /\ (l = Len(given) => got = given)
  BY <1>6, <1>12, FpFirst, LenProperties, SubSeqFull
<1>14. fpFaults' \in Nat /\ (l # Len(given) => fpFaults' > 0)  BY <1>2, <1>11 DEF FpTypes
<1>7. FpTypes' /\ fpOut'.content = got  BY <1>1, <1>2, <1>11, <1>12, <1>13, <1>14 DEF FpTypes
<1>8. Len(got) <= size \/ got = << >>
  <2>1. given = << >> => got = << >>
    <3>1. given = << >> => Len(got) = 0  BY <1>13, EmptySeq
    <3> QED  BY <1>13, <3>1, EmptySeq
  <2>2. CASE FpIsFile(x)
    <3>1. Len(given) <= size /\ size \in Int  BY <1>3, <1>4, <2>2
    <3> QED  BY <1>13, <3>1
  <2> QED  BY <1>5, <2>1, <2>2
<1>9. fpOthers = 0 => given = IF FpIsFile(FpWas(n)) THEN FpWas(n)[2] ELSE << >>
  <2> SUFFICES ASSUME fpOthers = 0 PROVE given = IF FpIsFile(FpWas(n)) THEN FpWas(n)[2] ELSE << >>
    OBVIOUS
  <2>1. x = FpWas(n)  BY <1>2 DEF FpStat, FpFollow, FpLeads, FpWas, x
  <2>2. FpIsFile(x) => size = Len(c)  BY <1>2 DEF get_file_size, x
  <2>3. FpIsFile(x) => given = c
    <3> SUFFICES ASSUME FpIsFile(x) PROVE given = c  OBVIOUS
    <3>1. k = Len(c)  BY <2>2, <1>4
    <3> QED  BY <1>4, <3>1, SubSeqFull
  <2> QED  BY <1>5, <2>1, <2>3
<1>10. FpReadHonest'
  <2>1. FpWas(n)' = FpWas(n)  BY <1>1 DEF FpWas, n
  <2>2. got = given \/ (fpFaults' > 0 /\ \E i \in 0..Len(given) : got = SubSeq(given, 1, i))
    BY <1>12, <1>13, <1>14
  <2> QED  BY <1>1, <1>7, <1>8, <1>9, <2>1, <2>2 DEF FpReadHonest, n
<1> QED  BY <1>1, <1>2, <1>7, <1>10, FpElsewhere DEF FpInv, FpHonest

(* mkdir() of one part of the way. *)
LEMMA FpMkdirInv == ASSUME FpInv, FpMkdir PROVE FpInv'
<1>0. PICK p, made, d : p = fpCall.path /\ made = fpWork.made /\ d = fpWork.dir  OBVIOUS
<1> DEFINE i == made + 1
           n == Append(d, p[i])
           grown == [fpFs EXCEPT ![n] = IF @ = FpNone THEN FpDir ELSE @]
           Kept(t) == \A m \in FpNode : fpBefore[m] # FpNone => t[m] = fpBefore[m]
<1>1. /\ fpPc = "mkdir" /\ fpCall' = fpCall /\ fpFrames' = fpFrames /\ fpOut' = fpOut
      /\ fpBefore' = fpBefore /\ fpOthers' = fpOthers
  BY DEF FpMkdir, fpHist
<1>2. /\ FpTypes /\ fpCall.op = "mkdir" /\ p \in FpPaths /\ made < Len(p)
      /\ IF made = 0 THEN d = << >> ELSE d \in FpWays(p, made)
      /\ fpOthers = 0 => d = FpWay(fpFs, p)[made] /\ Kept(fpFs)
  BY <1>0, <1>1 DEF FpInv, FpGoing, FpMaking
<1>3. p \in Seq(FpName) /\ Len(p) \in Nat /\ made \in Nat /\ i \in 1..Len(p) /\ i - 1 = made
  <2>1. p \in Seq(FpName) /\ Len(p) \in Nat  BY <1>2, FpAssumption, LenProperties
  <2>2. made \in Nat  BY <1>0, <1>2 DEF FpTypes
  <2> QED  BY <1>2, <2>1, <2>2
<1>4. \/ /\ FpIn(n) /\ fpFs' = grown /\ fpWork' = [fpWork EXCEPT !.made = i, !.dir = FpLeads(fpFs', n)]
         /\ IF i = Len(p) THEN fpPc' = "done" /\ fpRet' = 0 ELSE fpPc' = fpPc /\ fpRet' = fpRet
         /\ fpFaults' = fpFaults
      \/ ~FpIn(n) /\ fpPc' = "done" /\ fpRet' = -1 /\ fpFs' = fpFs /\ fpWork' = fpWork /\ fpFaults' = fpFaults
      \/ fpFaults' = fpFaults + 1 /\ fpPc' = "done" /\ fpRet' = -1 /\ fpFs' = fpFs /\ fpWork' = fpWork
  BY <1>0 DEF FpMkdir, FpDone, FpFault, FpMkdirEnds
<1>5. IF i = 1 THEN d = << >> ELSE d \in FpWays(p, i - 1)  BY <1>2, <1>3
<1>6. /\ n \in FpWays(p, i) /\ FpTarget \in FpWays(p, i) /\ FpWays(p, i) \subseteq FpNode
      /\ d \in Seq(FpName) /\ p[i] \in FpName
  BY <1>2, <1>3, <1>5, FpWaysOn
<1>7. n \in FpNode /\ Front(n) = d /\ Len(n) = Len(d) + 1  BY <1>6, FpAppended
<1> HIDE DEF n, i
<1>8. CASE /\ FpIn(n) /\ fpFs' = grown /\ fpWork' = [fpWork EXCEPT !.made = i, !.dir = FpLeads(fpFs', n)]
           /\ IF i = Len(p) THEN fpPc' = "done" /\ fpRet' = 0 ELSE fpPc' = fpPc /\ fpRet' = fpRet
           /\ fpFaults' = fpFaults
  <2>1. /\ fpFs' \in [FpNode -> FpEntry] /\ fpFs'[n] # FpNone
        /\ \A m \in FpNode : fpFs[m] # FpNone => fpFs'[m] = fpFs[m]
        /\ \A m \in FpNode : fpFs[m] = FpLink <=> fpFs'[m] = FpLink
    BY <1>2, <1>7, <1>8, FpEntries DEF FpTypes
  <2>2. FpLeads(fpFs', n) \in FpWays(p, i) /\ FpLeads(fpFs', n) \in Seq(FpName)
    BY <1>6, <1>7, FpFront DEF FpLeads
  <2>3. fpWork' \in [made : Nat, dir : Seq(FpName), size : Int] /\ fpWork'.made = i /\ fpWork'.dir = FpLeads(fpFs', n)
    <3>1. fpWork \in [made : Nat, dir : Seq(FpName), size : Int] /\ i \in Nat  BY <1>2, <1>3 DEF FpTypes
    <3> QED  BY <1>8, <2>2, <3>1
  <2>4. fpRet' \in {0, -1} /\ fpPc' \in {"mkdir", "done"}  BY <1>1, <1>2, <1>8 DEF FpTypes
  <2>5. FpTypes'  BY <1>1, <1>2, <1>8, <2>1, <2>3, <2>4 DEF FpTypes
  <2>6. fpOthers = 0 => Kept(fpFs')
    <3> SUFFICES ASSUME fpOthers = 0, NEW m \in FpNode, fpBefore[m] # FpNone PROVE fpFs'[m] = fpBefore[m]  OBVIOUS
    <3>1. fpFs[m] = fpBefore[m]  BY <1>2
    <3> QED  BY <2>1, <3>1
  <2>7. \A j \in 0..Len(p) : FpWay(fpFs', p)[j] = FpWay(fpFs, p)[j]  BY <1>2, <2>1, FpSameWay
  <2>8. fpOthers = 0 => Append(FpWay(fpFs', p)[i - 1], p[i]) = n
    <3>1. made \in 0..Len(p)  BY <1>3
    <3> QED  BY <1>2, <1>3, <2>7, <3>1 DEF n
  <2>9. fpOthers = 0 => FpWay(fpFs', p)[i] = FpLeads(fpFs', n)  BY <1>3, <2>8, FpWayIs
  <2>10. CASE i # Len(p)
    <3>1. fpPc' = "mkdir"  BY <1>1, <1>8, <2>10
    <3>2. i < Len(p) /\ i # 0  BY <1>3, <2>10
    <3>3. FpGoing'  BY <1>0, <1>1, <1>2, <2>3, <3>1, <3>2 DEF FpGoing
    <3>4. FpMaking'  BY <1>0, <1>1, <2>2, <2>3, <2>6, <2>9, <3>2 DEF FpMaking
    <3> QED  BY <2>5, <3>1, <3>3, <3>4, FpElsewhere DEF FpInv
  <2>11. CASE i = Len(p)
    <3>1. fpPc' = "done" /\ fpRet' = 0  BY <1>8, <2>11
    <3>2. FpMadeWay'
      <4> SUFFICES ASSUME fpOthers = 0 PROVE FpMadeWay'  BY <1>1 DEF FpMadeWay
      <4>1. FpPlace(p)' = n
        <5> DEFINE end == Append(FpWay(fpFs', Front(p))[Len(Front(p))], Last(p))
        <5>1. end = Append(FpWay(fpFs', p)[Len(p) - 1], p[Len(p)])  BY <1>2, FpPlaceIs
        <5>2. FpPlace(p)' = end  BY <1>0, <1>1 DEF FpPlace, FpResolve
        <5> QED  BY <2>8, <2>11, <5>1, <5>2
      <4>2. FpIn(n)'
        <5>1. CASE Len(n) = 1  BY <5>1 DEF FpIn
        <5>2. CASE Len(n) # 1
          <6>1. d \in FpNode /\ FpStat(d) = FpDir  BY <1>7, <1>8, <5>2 DEF FpIn
          <6>2. FpFollow(d) \in FpNode /\ fpFs[FpFollow(d)] = FpDir  BY <1>2, <6>1, FpOpens DEF FpStat
          <6>3. FpFollow(d)' = FpFollow(d)  BY <2>1, <6>1 DEF FpFollow, FpLeads
          <6> QED  BY <1>7, <2>1, <6>1, <6>2, <6>3, FpEntries DEF FpIn, FpStat
        <5> QED  BY <5>1, <5>2
      <4> QED  BY <1>0, <1>1, <2>1, <2>6, <3>1, <4>1, <4>2 DEF FpMadeWay
    <3> QED  BY <1>1, <1>2, <2>5, <3>1, <3>2, FpElsewhere DEF FpInv, FpHonest
  <2> QED  BY <2>10, <2>11
<1>9. ASSUME fpPc' = "done", fpRet' = -1, fpFs' = fpFs, fpWork' = fpWork, fpFaults' \in Nat,
             fpFaults' # 0 \/ ~FpIn(n)
      PROVE  FpInv'
  <2>1. FpTypes'  BY <1>1, <1>2, <1>9 DEF FpTypes
  <2>2. FpMadeWay'
    <3> SUFFICES ASSUME fpOthers = 0 PROVE FpMadeWay'  BY <1>1 DEF FpMadeWay
    <3>1. fpFaults' = 0 => \E j \in 1..Len(p) - 1 : fpFs'[FpWay(fpFs', SubSeq(p, 1, j))[Len(SubSeq(p, 1, j))]] # FpDir
      <4> SUFFICES ASSUME fpFaults' = 0 PROVE made \in 1..Len(p) - 1 /\ made \in 0..Len(p) /\ fpFs[d] # FpDir
        <5>1. ASSUME made \in 1..Len(p) - 1, made \in 0..Len(p), fpFs[d] # FpDir
              PROVE  fpFs[FpWay(fpFs, SubSeq(p, 1, made))[Len(SubSeq(p, 1, made))]] # FpDir
          <6>1. made \in 0..made  BY <1>3
          <6>2. Len(SubSeq(p, 1, made)) = made /\ FpWay(fpFs, SubSeq(p, 1, made))[made] = FpWay(fpFs, p)[made]
            BY <1>3, <5>1, <6>1, FpWayOfFirst
          <6> QED  BY <1>2, <5>1, <6>2
        <5> QED  BY <1>9, <5>1
      <4>1. ~FpIn(n)  BY <1>9
      <4>2. made # 0
        <5>1. made = 0 => Len(n) = 1  BY <1>2, <1>7, EmptySeq
        <5> QED  BY <4>1, <5>1 DEF FpIn
      <4>3. d \in FpNode
        <5>1. made \in 1..Len(p)  BY <1>3, <4>2
        <5> QED  BY <1>2, <4>2, <5>1, FpAssumption
      <4>4. fpFs[d] # FpDir
        <5>1. FpStat(d) # FpDir  BY <1>7, <4>1, <4>3 DEF FpIn
        <5> QED  BY <1>2, <4>3, <5>1, FpOpens, FpEntries
      <4> QED  BY <1>2, <1>3, <4>2, <4>4
    <3>2. Kept(fpFs')  BY <1>2, <1>9
    <3> QED  BY <1>0, <1>1, <1>9, <3>1, <3>2 DEF FpMadeWay, FpResolve
  <2> QED  BY <1>1, <1>2, <1>9, <2>1, <2>2, FpElsewhere DEF FpInv, FpHonest
<1>10. fpFaults \in Nat  BY <1>2 DEF FpTypes
<1>11. CASE ~FpIn(n) /\ fpPc' = "done" /\ fpRet' = -1 /\ fpFs' = fpFs /\ fpWork' = fpWork /\ fpFaults' = fpFaults
  BY <1>9, <1>10, <1>11
<1>12. CASE fpFaults' = fpFaults + 1 /\ fpPc' = "done" /\ fpRet' = -1 /\ fpFs' = fpFs /\ fpWork' = fpWork
  BY <1>9, <1>10, <1>12
<1> QED  BY <1>4, <1>8, <1>11, <1>12

(* In a tree only directories have names in them, and what has none can be removed. *)
LEMMA FpChildless ==
  ASSUME FpIsTree(fpFs), NEW c \in FpNode, fpFs[c] # FpDir
  PROVE  FpNames(c) = {}
<1> SUFFICES ASSUME NEW m \in FpNames(c) PROVE FALSE  OBVIOUS
<1>1. m \in FpNode /\ Len(m) = Len(c) + 1 /\ Front(m) = c /\ fpFs[m] # FpNone  BY DEF FpNames
<1>2. Len(m) # 1  BY <1>1, FpFront
<1> QED  BY <1>1, <1>2 DEF FpIsTree

LEMMA FpRemoved ==
  ASSUME fpFs \in [FpNode -> FpEntry], FpIsTree(fpFs), NEW c \in FpNode, FpNames(c) = {},
         fpFs' = [fpFs EXCEPT ![c] = FpNone]
  PROVE  /\ FpIsTree(fpFs')
         /\ \A x \in FpNode : FpNames(x)' = FpNames(x) \ {c}
<1>1. fpFs'[c] = FpNone /\ \A m \in FpNode : m # c => fpFs'[m] = fpFs[m]  OBVIOUS
<1>2. FpIsTree(fpFs')
  <2> SUFFICES ASSUME NEW m \in FpNode, fpFs'[m] # FpNone, Len(m) # 1
               PROVE  Front(m) \in FpNode /\ fpFs'[Front(m)] = FpDir
    BY DEF FpIsTree
  <2>1. fpFs[m] # FpNone  BY <1>1
  <2>2. Front(m) \in FpNode /\ fpFs[Front(m)] = FpDir  BY <2>1 DEF FpIsTree
  <2>3. Front(m) # c
    <3>1. Len(m) = Len(Front(m)) + 1  BY FpFront
    <3> QED  BY <2>1, <3>1 DEF FpNames
  <2> QED  BY <1>1, <2>2, <2>3
<1>3. ASSUME NEW x \in FpNode PROVE FpNames(x)' = FpNames(x) \ {c}  BY <1>1 DEF FpNames
<1> QED  BY <1>2, <1>3

(* One frame is changed. *)
LEMMA FpFrameSet ==
  ASSUME NEW frames \in Seq(FpFrame), NEW k \in 1..Len(frames), NEW f \in FpFrame,
         NEW g, g = [frames EXCEPT ![k] = f]
  PROVE  /\ g \in Seq(FpFrame) /\ Len(g) = Len(frames)
         /\ \A i \in 1..Len(frames) : g[i] = IF i = k THEN f ELSE frames[i]
<1> QED  BY ExceptSeq

(* closedir(), and rmdir() of the directory. *)
LEMMA FpLeaveInv == ASSUME FpInv, NEW gone \in BOOLEAN, FpLeave(gone) PROVE FpInv'
<1>1. /\ fpPc = "visit" /\ fpCall' = fpCall /\ fpWork' = fpWork /\ fpOut' = fpOut /\ fpBefore' = fpBefore
      /\ fpOthers' = fpOthers
  BY DEF FpLeave, fpHist
<1>2. /\ FpTypes /\ fpFrames # << >> /\ fpCall.op \in {"rmdir", "walk"} /\ fpFrames[1].node = fpCall.path
      /\ fpCall.path \in FpNode /\ FpRemoving /\ FpWalking
  BY <1>1 DEF FpInv, FpGoing
<1>3. PICK p, frames, k, top, node : /\ p = fpCall.path /\ frames = fpFrames /\ k = Len(fpFrames)
                                     /\ top = FpTop /\ node = top.node
  OBVIOUS
<1>4. /\ frames \in Seq(FpFrame) /\ k \in Nat \ {0} /\ Len(frames) = k /\ top = frames[k] /\ top \in FpFrame
      /\ node \in FpNode /\ top.left = {} /\ p \in FpNode /\ frames[1].node = p
  <2>1. frames \in Seq(FpFrame) /\ frames # << >>  BY <1>2, <1>3 DEF FpTypes
  <2>2. k \in Nat \ {0} /\ Len(frames) = k  BY <1>3, <2>1, EmptySeq
  <2>3. top = frames[k]  BY <1>3 DEF FpTop, Last
  <2>4. top \in FpFrame  BY <2>1, <2>2, <2>3, ElementOfSeq
  <2> QED  BY <1>2, <1>3, <2>1, <2>2, <2>3, <2>4 DEF FpLeave, FpFrame
<1> DEFINE can == fpCall.op = "rmdir" /\ fpFs[node] = FpDir /\ FpNames(node) = {}
<1>5. PICK ret : ret = IF fpCall.op = "walk" THEN 0 ELSE FpOfRmdir(gone)  OBVIOUS
<1>6. PICK up : up = Front(frames)  OBVIOUS
<1>7. /\ fpFs' = IF gone THEN [fpFs EXCEPT ![node] = FpNone] ELSE fpFs
      /\ fpFrames' = IF up # << >> /\ ret # 0 THEN [up EXCEPT ![Len(up)].ret = -1] ELSE up
      /\ IF up = << >> THEN fpPc' = "done" /\ fpRet' = ret ELSE fpPc' = fpPc /\ fpRet' = fpRet
      /\ gone => can
      /\ IF gone <=> can THEN fpFaults' = fpFaults ELSE fpFaults' = fpFaults + 1
  BY <1>3, <1>5, <1>6 DEF FpLeave, FpDone, FpFailed, FpFault
<1>8. /\ ret \in {0, -1}
      /\ fpCall.op = "walk" => ~gone /\ ~can /\ ret = 0
      /\ fpCall.op = "rmdir" => (ret = 0 <=> gone /\ top.ret = 0)
  <2>1. FpOfRmdir(gone) = IF gone /\ top.ret = 0 THEN 0 ELSE -1  BY <1>3 DEF FpOfRmdir
  <2> QED  BY <1>2, <1>5, <1>7, <2>1
<1> HIDE DEF can
<1>9. /\ up \in Seq(FpFrame) /\ Len(up) = k - 1 /\ \A i \in 1..k - 1 : up[i] = frames[i]
  <2>1. k - 1 \in 0..Len(frames)  BY <1>4
  <2> QED  BY <1>4, <1>6, <2>1, FpFirst DEF Front
<1>10. up = << >> <=> k = 1  BY <1>4, <1>9, EmptySeq
<1>11. fpFs' \in [FpNode -> FpEntry]  BY <1>2, <1>4, <1>7, FpEntries DEF FpTypes
<1>12. /\ fpFrames' \in Seq(FpFrame) /\ Len(fpFrames') = k - 1
       /\ \A i \in 1..k - 1 : fpFrames'[i].node = frames[i].node
  <2>1. CASE up = << >> \/ ret = 0  BY <1>7, <1>9, <2>1
  <2>2. CASE up # << >> /\ ret # 0
    <3> DEFINE f == [up[k - 1] EXCEPT !.ret = -1]
    <3>1. k - 1 \in 1..Len(up)  BY <1>4, <1>9, <1>10, <2>2
    <3>2. up[k - 1] \in FpFrame  BY <1>9, <3>1, ElementOfSeq
    <3>3. f \in FpFrame /\ f.node = up[k - 1].node  BY <3>2 DEF FpFrame
    <3>4. fpFrames' = [up EXCEPT ![k - 1] = f]  BY <1>7, <1>9, <2>2
    <3> HIDE DEF f
    <3>5. /\ fpFrames' \in Seq(FpFrame) /\ Len(fpFrames') = Len(up)
          /\ \A i \in 1..Len(up) : fpFrames'[i] = IF i = k - 1 THEN f ELSE up[i]
      BY <1>9, <3>1, <3>3, <3>4, FpFrameSet
    <3> QED  BY <1>9, <3>3, <3>5
  <2> QED  BY <2>1, <2>2
<1>13. fpPc' \in {"visit", "done"} /\ fpRet' \in {0, -1}  BY <1>1, <1>2, <1>7, <1>8 DEF FpTypes
<1>22. fpFaults \in Nat /\ fpFaults' \in Nat /\ (fpFaults' = 0 => fpFaults = 0 /\ (gone <=> can))
  BY <1>2, <1>7 DEF FpTypes
<1>14. FpTypes'  BY <1>1, <1>2, <1>11, <1>12, <1>13, <1>22 DEF FpTypes
<1>16. (FpAlone' => FpAlone /\ (gone <=> can)) /\ (FpNoLinks <=> FpNoLinks')
  BY <1>1, <1>22 DEF FpAlone, FpNoLinks
<1>15. ASSUME fpCall.op = "rmdir", FpAlone', FpNoLinks
       PROVE  /\ FpEmptied(p) /\ gone /\ ret = 0 /\ fpFs[node] = FpDir /\ fpFs' = [fpFs EXCEPT ![node] = FpNone]
              /\ FpIsTree(fpFs') /\ \A x \in FpNode : FpNames(x)' = FpNames(x) \ {node}
              /\ node \in FpBelow(p) /\ Len(node) = Len(p) + k - 1
  <2>1. FpEmptied(p)  BY <1>1, <1>2, <1>3, <1>15, <1>16 DEF FpRemoving
  <2>2. k \in 1..Len(fpFrames) /\ k = Len(fpFrames) /\ fpFrames[k] = top  BY <1>3, <1>4
  <2>3. /\ node \in FpBelow(p) /\ Len(node) = Len(p) + k - 1 /\ fpFs[node] = FpDir /\ top.ret = 0
        /\ FpNames(node) = {}
    BY <1>3, <1>4, <2>1, <2>2 DEF FpEmptied
  <2>4. gone /\ ret = 0
    <3>1. can  BY <1>15, <2>3 DEF can
    <3> QED  BY <1>8, <1>15, <1>16, <2>3, <3>1
  <2>5. fpFs' = [fpFs EXCEPT ![node] = FpNone]  BY <1>7, <2>4
  <2>6. fpFs \in [FpNode -> FpEntry] /\ FpIsTree(fpFs)  BY <1>2, <2>1 DEF FpTypes, FpEmptied
  <2>7. FpIsTree(fpFs') /\ \A x \in FpNode : FpNames(x)' = FpNames(x) \ {node}
    BY <1>4, <2>3, <2>5, <2>6, FpRemoved
  <2> QED  BY <2>1, <2>3, <2>4, <2>5, <2>7
<1>17. CASE k = 1
  <2>1. fpPc' = "done" /\ fpRet' = ret /\ node = p  BY <1>3, <1>4, <1>7, <1>10, <1>17
  <2>2. CASE fpCall.op = "walk"
    <3>1. fpFs' = fpFs /\ fpFaults' = fpFaults  BY <1>7, <1>8, <2>2
    <3>2. FpWalksAll'
      <4> SUFFICES ASSUME fpOthers = 0 PROVE FpWalksAll'  BY <1>1 DEF FpWalksAll
      <4>1. FpListed(FpNames(FpFollow(p)))
        <5>1. fpFrames[1].left = {}  BY <1>3, <1>4, <1>17
        <5>2. FpListed(FpNames(FpFollow(p)) \ {})  BY <1>1, <1>2, <1>3, <2>2, <5>1 DEF FpWalking
        <5>3. FpNames(FpFollow(p)) \ {} = FpNames(FpFollow(p))  OBVIOUS
        <5> QED  BY <5>2, <5>3
      <4>2. /\ FpFollow(p)' = FpFollow(p) /\ FpNames(FpFollow(p))' = FpNames(FpFollow(p))
            /\ \A n : FpStat(n)' = FpStat(n)
        BY <3>1 DEF FpFollow, FpLeads, FpNames, FpStat
      <4>3. FpListed(FpNames(FpFollow(p)))'  BY <1>1, <3>1, <4>1, <4>2 DEF FpListed, FpThere
      <4> QED  BY <1>1, <1>3, <4>3 DEF FpWalksAll
    <3> QED  BY <1>1, <1>14, <2>1, <2>2, <3>2, FpElsewhere DEF FpInv, FpHonest
  <2>3. CASE fpCall.op = "rmdir"
    <3>1. FpGoneOrUnseen'
      <4> SUFFICES ASSUME ret = 0 PROVE FpStat(p)' = FpNone  BY <1>1, <1>3, <2>1 DEF FpGoneOrUnseen
      <4>1. fpFs'[p] = FpNone  BY <1>2, <1>4, <1>7, <1>8, <2>1, <2>3 DEF FpTypes
      <4> QED  BY <4>1, FpEntries DEF FpStat, FpFollow, FpLeads
    <3>2. FpRemovesTree'
      <4> SUFFICES ASSUME FpAlone', FpNoLinks PROVE FpRemovesTree'
        <5>1. (\A n \in FpBelow(fpCall'.path) : fpBefore'[n] # FpLink) => FpNoLinks
          BY <1>1 DEF FpNoLinks
        <5> QED  BY <5>1 DEF FpRemovesTree
      <4>1. /\ FpEmptied(p) /\ ret = 0 /\ fpFs[p] = FpDir /\ fpFs' = [fpFs EXCEPT ![p] = FpNone] /\ FpIsTree(fpFs')
        BY <1>15, <2>1, <2>3
      <4>2. \A n \in FpNode : fpFs[n] = fpBefore[n] \/ (n \in FpBelow(p) /\ fpFs[n] = FpNone)
        BY <4>1 DEF FpEmptied
      <4>3. fpBefore[p] = FpDir  BY <1>4, <4>1, <4>2, FpEntries
      <4>4. ~FpIsFile(FpWas(p)')  BY <1>1, <4>3, FpEntries DEF FpWas
      <4>5. p \in FpBelow(p) /\ FpBelow(p) \subseteq FpNode  BY <1>4, FpUnder
      <4>6. fpFs'[p] = FpNone /\ \A n \in FpNode : n # p => fpFs'[n] = fpFs[n]
        BY <1>2, <1>4, <4>1 DEF FpTypes
      <4>7. \A n \in FpBelow(p) : fpFs'[n] = FpNone  
        <5>1. PICK t : t = fpFs'  OBVIOUS
        <5>2. FpIsTree(t) /\ t[p] = FpNone  BY <4>1, <4>6, <5>1
        <5>3. \A n \in FpBelow(p) : t[n] = FpNone  BY <1>4, <5>2, FpNothingBelow
        <5> QED  BY <5>1, <5>3
      <4>8. \A n \in FpNode : fpFs'[n] = IF n \in FpBelow(p) THEN FpNone ELSE fpBefore[n]
        BY <4>2, <4>5, <4>6, <4>7
      <4> QED  BY <1>1, <1>3, <2>1, <4>1, <4>4, <4>8 DEF FpRemovesTree
    <3> QED  BY <1>1, <1>14, <2>1, <2>3, <3>1, <3>2, FpElsewhere DEF FpInv, FpHonest
  <2> QED  BY <1>2, <2>2, <2>3
<1>18. CASE k # 1
  <2>1. fpPc' = "visit" /\ fpRet' = fpRet /\ k > 1  BY <1>1, <1>4, <1>7, <1>10, <1>18
  <2>2. fpCall.op = "rmdir"  BY <1>1, <1>2, <1>3, <2>1 DEF FpWalking
  <2>3. FpGoing'
    <3>1. 1 \in 1..k - 1  BY <1>4, <2>1
    <3>2. fpFrames' # << >>  BY <1>4, <1>12, <2>1, EmptySeq
    <3> QED  BY <1>1, <1>2, <1>3, <1>4, <1>12, <2>1, <2>2, <3>1, <3>2 DEF FpGoing
  <2>4. FpRemoving'
    <3> SUFFICES ASSUME FpAlone', FpNoLinks PROVE FpEmptied(p)'
      <4>1. fpCall'.path = p  BY <1>1, <1>3
      <4> QED  BY <1>16, <4>1 DEF FpRemoving
    <3>1. /\ FpEmptied(p) /\ ret = 0 /\ fpFs[node] = FpDir /\ fpFs' = [fpFs EXCEPT ![node] = FpNone]
          /\ FpIsTree(fpFs') /\ \A x \in FpNode : FpNames(x)' = FpNames(x) \ {node}
          /\ node \in FpBelow(p) /\ Len(node) = Len(p) + k - 1
      BY <1>15, <2>2
    <3>2. fpFrames' = up  BY <1>7, <3>1
    <3>3. Len(p) \in Nat  BY <1>4, FpFront
    <3>4. fpFs'[node] = FpNone /\ \A n \in FpNode : n # node => fpFs'[n] = fpFs[n]
      BY <1>2, <1>4, <3>1 DEF FpTypes
    <3>5. \A n \in FpNode : fpFs'[n] = fpBefore'[n] \/ (n \in FpBelow(p) /\ fpFs'[n] = FpNone)
      <4>1. \A n \in FpNode : fpFs[n] = fpBefore[n] \/ (n \in FpBelow(p) /\ fpFs[n] = FpNone)
        BY <3>1 DEF FpEmptied
      <4> QED  BY <1>1, <3>1, <3>4, <4>1
    <3>6. ASSUME NEW i \in 1..k - 1
          PROVE  /\ up[i].node \in FpBelow(p) /\ Len(up[i].node) = Len(p) + i - 1 /\ fpFs'[up[i].node] = FpDir
                 /\ up[i].ret = 0
                 /\ FpNames(up[i].node)' = up[i].left \cup (IF i = k - 1 THEN {} ELSE {up[i + 1].node})
                 /\ i < k - 1 => up[i + 1].node \notin up[i].left
      <4> DEFINE x == frames[i].node
                 left == frames[i].left
                 y == frames[i + 1].node
      <4>1. /\ x \in FpBelow(p) /\ Len(x) = Len(p) + i - 1 /\ fpFs[x] = FpDir /\ frames[i].ret = 0
            /\ FpNames(x) = left \cup {y} /\ y \notin left
        <5>1. i \in 1..Len(fpFrames) /\ i < Len(fpFrames)  BY <1>3, <1>4
        <5>2. frames = fpFrames /\ i # Len(fpFrames)  BY <1>3, <5>1
        <5> QED  BY <3>1, <5>1, <5>2 DEF FpEmptied
      <4>2. up[i] = frames[i] /\ (i < k - 1 => up[i + 1] = frames[i + 1])
        <5>1. i < k - 1 => i + 1 \in 1..k - 1  BY <1>4
        <5> QED  BY <1>9, <5>1
      <4>3. x \in FpNode /\ x # node
        <5>1. Len(x) # Len(node)  BY <1>4, <3>1, <3>3, <4>1
        <5> QED  BY <1>4, <4>1, <5>1, FpUnder
      <4>4. FpNames(x)' = (left \cup {y}) \ {node}  BY <3>1, <4>1, <4>3
      <4>5. node \in FpNames(x) => i = k - 1
        <5>1. node \in FpNames(x) => Len(node) = Len(x) + 1  BY DEF FpNames
        <5> QED  BY <1>4, <3>1, <3>3, <4>1, <5>1
      <4>6. i = k - 1 => y = node  BY <1>3, <1>4
      <4>7. FpNames(x)' = left \cup (IF i = k - 1 THEN {} ELSE {y})
        <5> HIDE DEF left, y, x
        <5> QED  BY <4>1, <4>4, <4>5, <4>6
      <4>8. fpFs'[x] = FpDir  BY <3>4, <4>1, <4>3
      <4>9. (IF i = k - 1 THEN {} ELSE {up[i + 1].node}) = (IF i = k - 1 THEN {} ELSE {y})
        <5>1. i # k - 1 => i < k - 1  BY <1>4
        <5> QED  BY <4>2, <5>1
      <4>10. FpNames(up[i].node)' = FpNames(x)'  BY <4>2
      <4>11. i < k - 1 => up[i + 1].node \notin up[i].left  BY <4>1, <4>2
      <4> QED  BY <4>1, <4>2, <4>7, <4>8, <4>9, <4>10, <4>11
    <3> QED  BY <1>9, <3>1, <3>2, <3>5, <3>6 DEF FpEmptied
  <2>5. FpWalking'  BY <1>1, <2>2 DEF FpWalking
  <2> QED  BY <1>14, <2>1, <2>3, <2>4, <2>5, FpElsewhere DEF FpInv
<1> QED  BY <1>17, <1>18

(* An entry is looked at: the innermost directory has it no more. *)
LEMMA FpVisitInv == ASSUME FpInv, NEW c \in FpNode, FpVisit(c) PROVE FpInv'
<1>1. /\ fpPc = "visit" /\ fpPc' = fpPc /\ fpCall' = fpCall /\ fpWork' = fpWork /\ fpRet' = fpRet
      /\ fpBefore' = fpBefore /\ fpOthers' = fpOthers /\ fpFaults' = fpFaults
  BY DEF FpVisit, fpHist
<1>2. /\ FpTypes /\ fpFrames # << >> /\ fpCall.op \in {"rmdir", "walk"} /\ fpFrames[1].node = fpCall.path
      /\ fpCall.path \in FpNode /\ FpRemoving /\ FpWalking
  BY <1>1 DEF FpInv, FpGoing
<1>3. PICK p, frames, k, top : p = fpCall.path /\ frames = fpFrames /\ k = Len(fpFrames) /\ top = FpTop
  OBVIOUS
<1>4. /\ frames \in Seq(FpFrame) /\ k \in 1..Len(frames) /\ k = Len(frames) /\ top = frames[k] /\ top \in FpFrame
      /\ p \in FpNode /\ frames[1].node = p /\ c \in top.left
  <2>1. frames \in Seq(FpFrame) /\ frames # << >>  BY <1>2, <1>3 DEF FpTypes
  <2>2. k \in 1..Len(frames) /\ Len(frames) = k  BY <1>3, <2>1, EmptySeq
  <2>3. top = frames[k]  BY <1>3 DEF FpTop, Last
  <2>4. top \in FpFrame  BY <2>1, <2>2, <2>3, ElementOfSeq
  <2>5. c \in top.left  BY <1>3 DEF FpVisit
  <2> QED  BY <1>2, <1>3, <2>1, <2>2, <2>3, <2>4, <2>5
<1>5. PICK less : less = [top EXCEPT !.left = @ \ {c}]  OBVIOUS
<1>6. /\ less \in FpFrame /\ less.node = top.node /\ less.left = top.left \ {c} /\ less.ret = top.ret
  BY <1>4, <1>5 DEF FpFrame
<1>7. PICK went : went = [frames EXCEPT ![k] = less]  OBVIOUS
<1>9. /\ went \in Seq(FpFrame) /\ Len(went) = k
      /\ \A i \in 1..k : went[i] = IF i = k THEN less ELSE frames[i]
  BY <1>4, <1>6, <1>7, FpFrameSet
<1>10. went = FpPassed(c)  BY <1>3, <1>4, <1>5, <1>7 DEF FpPassed
<1>11. \A i \in 1..k : went[i].node = frames[i].node  BY <1>6, <1>9, <1>4
<1>13. 1 \in 1..k  BY <1>4
<1>14. FpStat(c) \in FpEntry /\ FpOpened(c) \in FpFrame  BY <1>2, FpOpens
<1>15. ASSUME NEW g, fpFrames' = g, g \in Seq(FpFrame), g # << >>, g[1].node = p,
              fpFs' \in [FpNode -> FpEntry], fpOut' \in [dirs : SUBSET FpNode, files : SUBSET FpNode, content : Seq(FpByte)],
              fpFaults' \in Nat
       PROVE  FpTypes' /\ FpGoing'
  <2>1. FpTypes'  BY <1>1, <1>2, <1>15 DEF FpTypes
  <2>2. FpGoing'  BY <1>1, <1>2, <1>3, <1>15 DEF FpGoing
  <2> QED  BY <2>1, <2>2
<1>16. went # << >>  BY <1>4, <1>9, EmptySeq
<1>17. ASSUME FpTypes', FpGoing', FpRemoving', FpWalking' PROVE FpInv'
  BY <1>1, <1>17, FpElsewhere DEF FpInv
<1>18. CASE fpCall.op = "walk"
  <2>1. /\ fpOut' = IF ~FpThere(c) THEN fpOut
                    ELSE IF FpStat(c) = FpDir THEN [fpOut EXCEPT !.dirs = @ \cup {c}]
                    ELSE FpFileGiven(c)
        /\ fpFrames' = went /\ fpFs' = fpFs /\ fpFaults' = fpFaults
    BY <1>10, <1>18 DEF FpVisit
  <2>2. fpOut \in [dirs : SUBSET FpNode, files : SUBSET FpNode, content : Seq(FpByte)]  BY <1>2 DEF FpTypes
  <2>3. /\ fpOut' \in [dirs : SUBSET FpNode, files : SUBSET FpNode, content : Seq(FpByte)]
        /\ fpOut'.dirs = IF FpStat(c) = FpDir THEN fpOut.dirs \cup {c} ELSE fpOut.dirs
        /\ fpOut'.files = IF FpStat(c) # FpDir /\ FpStat(c) # FpNone THEN fpOut.files \cup {c} ELSE fpOut.files
    BY <2>1, <2>2, FpEntries DEF FpThere, FpFileGiven
  <2>4. FpTypes' /\ FpGoing'  BY <1>2, <1>4, <1>9, <1>11, <1>13, <1>15, <1>16, <2>1, <2>3 DEF FpTypes
  <2>5. FpWalking'
    <3>1. k = 1  BY <1>1, <1>2, <1>3, <1>18 DEF FpWalking
    <3>2. Len(fpFrames') = 1 /\ fpFrames'[1].left = frames[1].left \ {c} /\ c \in frames[1].left
      BY <1>4, <1>6, <1>9, <2>1, <3>1
    <3>3. fpOthers = 0 =>
            /\ fpFs = fpBefore /\ frames[1].left \subseteq FpNames(FpFollow(p))
            /\ FpListed(FpNames(FpFollow(p)) \ frames[1].left)
      BY <1>1, <1>2, <1>3, <1>18 DEF FpWalking
    <3>4. /\ FpFollow(p)' = FpFollow(p) /\ FpNames(FpFollow(p))' = FpNames(FpFollow(p))
          /\ \A n : FpStat(n)' = FpStat(n)
      BY <2>1 DEF FpFollow, FpLeads, FpNames, FpStat
    <3>5. fpOthers = 0 => FpListed(FpNames(FpFollow(p)) \ fpFrames[1].left)'
      <4>1. FpDir # FpNone  BY FpEntries
      <4>2. PICK names : names = FpNames(FpFollow(p))  OBVIOUS
      <4>3. (FpNames(FpFollow(p)) \ fpFrames[1].left)' = (names \ (frames[1].left \ {c}))
        BY <3>2, <3>4, <4>2
      <4> SUFFICES ASSUME fpOthers = 0 PROVE FpListed(names \ (frames[1].left \ {c}))'
        BY <4>3 DEF FpListed
      <4>4. FpListed(names \ frames[1].left) /\ c \in names  BY <3>2, <3>3, <4>2
      <4> QED  BY <1>1, <2>3, <3>2, <3>4, <4>1, <4>4 DEF FpListed, FpThere
    <3> QED  BY <1>1, <1>3, <2>1, <3>2, <3>3, <3>4, <3>5 DEF FpWalking
  <2>6. FpRemoving'  BY <1>1, <1>18 DEF FpRemoving
  <2> QED  BY <1>17, <2>4, <2>5, <2>6
<1>19. ASSUME fpCall.op = "rmdir", FpAlone, FpNoLinks
       PROVE  /\ FpEmptied(p) /\ c \in FpBelow(p) /\ Len(c) = Len(p) + k /\ Front(c) = top.node
              /\ fpFs[c] # FpNone /\ fpFs[c] # FpLink /\ FpFollow(c) = c /\ FpStat(c) = fpFs[c]
              /\ FpNames(top.node) = top.left /\ fpFs[top.node] = FpDir
  <2>1. FpEmptied(p)  BY <1>1, <1>2, <1>3, <1>19 DEF FpRemoving
  <2>2. k \in 1..Len(fpFrames) /\ k = Len(fpFrames) /\ fpFrames[k] = top  BY <1>3, <1>4
  <2>3. /\ top.node \in FpBelow(p) /\ Len(top.node) = Len(p) + k - 1 /\ fpFs[top.node] = FpDir
        /\ FpNames(top.node) = top.left
    BY <2>1, <2>2 DEF FpEmptied
  <2>4. Len(c) = Len(top.node) + 1 /\ Front(c) = top.node /\ fpFs[c] # FpNone  BY <1>4, <2>3 DEF FpNames
  <2>5. c \in FpBelow(p)  BY <1>4, <2>3, <2>4, FpUnder
  <2>6. Len(c) = Len(p) + k
    <3>1. Len(p) \in Nat /\ k \in Nat  BY <1>4, FpFront
    <3> QED  BY <2>3, <2>4, <3>1
  <2>7. fpFs[c] # FpLink
    <3>1. fpFs[c] = fpBefore[c]  BY <2>1, <2>4 DEF FpEmptied
    <3>2. fpBefore[c] # FpLink  BY <1>3, <1>19, <2>5 DEF FpNoLinks
    <3> QED  BY <3>1, <3>2
  <2>8. FpFollow(c) = c /\ FpStat(c) = fpFs[c]  BY <1>2, <2>7, FpOpens
  <2> QED  BY <2>1, <2>3, <2>4, <2>5, <2>6, <2>7, <2>8
<1>20. (FpAlone <=> fpOthers = 0 /\ fpFaults = 0) /\ (FpNoLinks <=> FpNoLinks') /\ fpCall'.path = p
  BY <1>1, <1>3 DEF FpAlone, FpNoLinks
<1>21. ASSUME FpEmptied(p), NEW i \in 1..k
       PROVE  LET f == frames[i] IN
              /\ f.node \in FpBelow(p) /\ Len(f.node) = Len(p) + i - 1 /\ fpFs[f.node] = FpDir /\ f.ret = 0
              /\ FpNames(f.node) = f.left \cup (IF i = k THEN {} ELSE {frames[i + 1].node})
              /\ i < k => frames[i + 1].node \notin f.left
  <2>1. i \in 1..Len(fpFrames) /\ k = Len(fpFrames) /\ frames = fpFrames  BY <1>3
  <2> QED  BY <1>21, <2>1 DEF FpEmptied
<1>22. CASE fpCall.op = "rmdir" /\ FpEnters(c)
  <2>1. fpFrames' = Append(went, FpOpened(c)) /\ fpFs' = fpFs /\ fpOut' = fpOut /\ fpFaults' = fpFaults
    BY <1>10, <1>22 DEF FpVisit
  <2>2. PICK sub : sub = FpOpened(c)  OBVIOUS
  <2>3. PICK g : g = Append(went, sub)  OBVIOUS
  <2>4. g \in Seq(FpFrame) /\ Len(g) = k + 1 /\ g[k + 1] = sub /\ \A i \in 1..k : g[i] = went[i]
    BY <1>9, <1>14, <2>2, <2>3, AppendProperties
  <2>5. fpFrames' = g  BY <2>1, <2>2, <2>3
  <2>6. g # << >> /\ g[1].node = p  BY <1>4, <1>11, <1>13, <2>4, EmptySeq
  <2>7. FpTypes' /\ FpGoing'  BY <1>2, <1>15, <2>1, <2>4, <2>5, <2>6 DEF FpTypes
  <2>8. FpRemoving'
    <3> SUFFICES ASSUME FpAlone, FpNoLinks PROVE FpEmptied(p)'
      BY <1>1, <1>20, <2>1 DEF FpRemoving, FpAlone
    <3>1. /\ FpEmptied(p) /\ c \in FpBelow(p) /\ Len(c) = Len(p) + k /\ Front(c) = top.node
          /\ fpFs[c] # FpNone /\ fpFs[c] # FpLink /\ FpFollow(c) = c /\ FpStat(c) = fpFs[c]
          /\ FpNames(top.node) = top.left /\ fpFs[top.node] = FpDir
      BY <1>19, <1>22
    <3>2. sub.node = c /\ sub.left = FpNames(c) /\ sub.ret = 0 /\ fpFs[c] = FpDir
      BY <1>22, <2>2, <3>1 DEF FpOpened, FpEnters
    <3>3. \A x : FpNames(x)' = FpNames(x)  BY <2>1 DEF FpNames
    <3>4. ASSUME NEW i \in 1..k + 1
          PROVE  /\ g[i].node \in FpBelow(p) /\ Len(g[i].node) = Len(p) + i - 1 /\ fpFs[g[i].node] = FpDir
                 /\ g[i].ret = 0
                 /\ FpNames(g[i].node) = g[i].left \cup (IF i = k + 1 THEN {} ELSE {g[i + 1].node})
                 /\ i < k + 1 => g[i + 1].node \notin g[i].left
      <4>1. CASE i < k
        <5>1. i \in 1..k /\ i + 1 \in 1..k /\ i # k /\ i # k + 1  BY <1>4, <4>1
        <5>2. g[i] = frames[i] /\ g[i + 1].node = frames[i + 1].node  BY <1>9, <1>11, <2>4, <5>1
        <5> QED  BY <1>21, <3>1, <4>1, <5>1, <5>2
      <4>2. CASE i = k
        <5>1. i \in 1..k /\ i # k + 1 /\ g[i] = less /\ g[i + 1] = sub  BY <1>4, <1>9, <2>4, <4>2
        <5>2. /\ top.node \in FpBelow(p) /\ Len(top.node) = Len(p) + i - 1 /\ fpFs[top.node] = FpDir /\ top.ret = 0
          BY <1>4, <1>21, <3>1, <4>2, <5>1
        <5>3. top.left = (top.left \ {c}) \cup {c} /\ c \notin top.left \ {c}  BY <1>4
        <5> QED  BY <1>6, <3>1, <3>2, <5>1, <5>2, <5>3
      <4>3. CASE i = k + 1
        <5>1. g[i] = sub /\ Len(p) + i - 1 = Len(p) + k /\ ~(i < k + 1)
          <6>1. Len(p) \in Nat /\ k \in Nat  BY <1>4, FpFront
          <6> QED  BY <2>4, <4>3, <6>1
        <5> QED  BY <3>1, <3>2, <4>3, <5>1
      <4> QED  BY <1>4, <4>1, <4>2, <4>3
    <3> QED  BY <1>1, <2>1, <2>4, <2>5, <3>1, <3>3, <3>4 DEF FpEmptied
  <2>9. FpWalking'  BY <1>1, <1>22 DEF FpWalking
  <2> QED  BY <1>17, <2>7, <2>8, <2>9
<1>23. CASE fpCall.op = "rmdir" /\ ~FpEnters(c)
  <2>1. /\ fpOut' = fpOut /\ fpFrames' = went
        /\ fpFs' = IF FpThere(c) THEN [fpFs EXCEPT ![c] = FpNone] ELSE fpFs
    BY <1>10, <1>23 DEF FpVisit
  <2>2. fpFs \in [FpNode -> FpEntry] /\ fpFaults' \in Nat
        /\ fpOut' \in [dirs : SUBSET FpNode, files : SUBSET FpNode, content : Seq(FpByte)]
    BY <1>1, <1>2, <2>1 DEF FpTypes
  <2>3. fpFs' \in [FpNode -> FpEntry]  BY <2>1, <2>2, FpEntries
  <2>5. went[1].node = p  BY <1>4, <1>11, <1>13
  <2>6. FpTypes' /\ FpGoing'  BY <1>9, <1>15, <1>16, <2>1, <2>2, <2>3, <2>5
  <2>7. FpRemoving'
    <3> SUFFICES ASSUME FpAlone', FpNoLinks' PROVE FpEmptied(p)'  BY <1>20 DEF FpRemoving
    <3>1. fpFaults' = 0 /\ fpOthers = 0 /\ FpNoLinks  BY <1>1, <1>20 DEF FpAlone
    <3>3. FpAlone  BY <1>1, <1>20, <3>1
    <3>4. /\ FpEmptied(p) /\ c \in FpBelow(p) /\ Len(c) = Len(p) + k /\ Front(c) = top.node
          /\ fpFs[c] # FpNone /\ fpFs[c] # FpLink /\ FpFollow(c) = c /\ FpStat(c) = fpFs[c]
          /\ FpNames(top.node) = top.left /\ fpFs[top.node] = FpDir
      BY <1>19, <1>23, <3>1, <3>3
    <3>5. fpFs[c] # FpDir /\ FpIsFile(fpFs[c])  BY <1>14, <1>23, <3>4, FpEntries DEF FpEnters
    <3>6. fpFs' = [fpFs EXCEPT ![c] = FpNone] /\ fpFrames' = went  BY <2>1, <3>4 DEF FpThere
    <3>7. FpIsTree(fpFs)  BY <3>4 DEF FpEmptied
    <3>8. FpNames(c) = {}  BY <3>5, <3>7, FpChildless
    <3>9. FpIsTree(fpFs') /\ \A x \in FpNode : FpNames(x)' = FpNames(x) \ {c}
      BY <2>2, <3>6, <3>7, <3>8, FpRemoved
    <3>10. fpFs'[c] = FpNone /\ \A n \in FpNode : n # c => fpFs'[n] = fpFs[n]  BY <2>2, <3>6
    <3>11. \A n \in FpNode : fpFs'[n] = fpBefore'[n] \/ (n \in FpBelow(p) /\ fpFs'[n] = FpNone)
      <4>1. \A n \in FpNode : fpFs[n] = fpBefore[n] \/ (n \in FpBelow(p) /\ fpFs[n] = FpNone)
        BY <3>4 DEF FpEmptied
      <4> QED  BY <1>1, <3>4, <3>10, <4>1
    <3>12. ASSUME NEW i \in 1..k
           PROVE  /\ went[i].node \in FpBelow(p) /\ Len(went[i].node) = Len(p) + i - 1
                  /\ fpFs'[went[i].node] = FpDir /\ went[i].ret = 0
                  /\ FpNames(went[i].node)' = went[i].left \cup (IF i = k THEN {} ELSE {went[i + 1].node})
                  /\ i < k => went[i + 1].node \notin went[i].left
      <4>1. PICK x, left : x = frames[i].node /\ left = frames[i].left  OBVIOUS
      <4>2. /\ x \in FpBelow(p) /\ Len(x) = Len(p) + i - 1 /\ fpFs[x] = FpDir /\ frames[i].ret = 0
            /\ FpNames(x) = left \cup (IF i = k THEN {} ELSE {frames[i + 1].node})
            /\ i < k => frames[i + 1].node \notin left
        BY <1>21, <3>4, <4>1
      <4>3. x \in FpNode /\ x # c  BY <1>4, <3>5, <4>2, FpUnder
      <4>4. fpFs'[x] = FpDir /\ FpNames(x)' = FpNames(x) \ {c}  BY <3>9, <3>10, <4>2, <4>3
      <4>5. CASE i = k
        <5>1. went[i] = less /\ x = top.node /\ left = top.left  BY <1>4, <1>9, <4>1, <4>5
        <5>2. FpNames(x)' = top.left \ {c}  BY <3>4, <4>4, <5>1
        <5>3. ~(i < k) /\ (IF i = k THEN {} ELSE {went[i + 1].node}) = {}  BY <1>4, <4>5
        <5>4. /\ went[i].node = x /\ went[i].left = top.left \ {c} /\ went[i].ret = frames[i].ret
          BY <1>4, <1>6, <4>5, <5>1
        <5>5. FpNames(went[i].node)' = went[i].left \cup {}
          <6>1. FpNames(went[i].node)' = FpNames(x)'  BY <5>4
          <6> QED  BY <5>2, <5>4, <6>1
        <5> QED  BY <4>2, <4>4, <5>3, <5>4, <5>5
      <4>6. CASE i # k
        <5>1. i < k /\ i + 1 \in 1..k  BY <1>4, <4>6
        <5>2. went[i] = frames[i] /\ went[i + 1].node = frames[i + 1].node  BY <1>9, <1>11, <4>6, <5>1
        <5>3. c \notin FpNames(x)
          <6>1. Len(p) \in Nat  BY <1>4, FpFront
          <6>2. Len(c) # Len(x) + 1  BY <1>4, <3>4, <4>2, <4>6, <6>1
          <6> QED  BY <6>2 DEF FpNames
        <5>4. FpNames(x)' = left \cup {frames[i + 1].node}  BY <4>2, <4>4, <4>6, <5>3
        <5> QED  BY <4>1, <4>2, <4>4, <4>6, <5>1, <5>2, <5>4
      <4> QED  BY <4>5, <4>6
    <3> QED  BY <1>9, <3>6, <3>9, <3>11, <3>12 DEF FpEmptied
  <2>8. FpWalking'  BY <1>1, <1>23 DEF FpWalking
  <2> QED  BY <1>17, <2>6, <2>7, <2>8
<1> QED  BY <1>2, <1>18, <1>22, <1>23

(* The innermost directory has fewer entries left, and may have failed. *)
LEMMA FpFewer ==
  ASSUME FpInv, fpPc = "visit", NEW s \in SUBSET FpTop.left, NEW went,
         went = [fpFrames EXCEPT ![Len(fpFrames)].left = s], NEW g \in {went, FpFailed(went)}
  PROVE  /\ g \in Seq(FpFrame) /\ g # << >> /\ Len(g) = Len(fpFrames) /\ g[1].node = fpCall.path
         /\ g[Len(fpFrames)].left = s
<1>1. FpTypes /\ fpFrames # << >> /\ fpFrames[1].node = fpCall.path  BY DEF FpInv, FpGoing
<1>2. PICK frames, k, top : frames = fpFrames /\ k = Len(fpFrames) /\ top = FpTop  OBVIOUS
<1>3. frames \in Seq(FpFrame) /\ k \in 1..Len(frames) /\ k = Len(frames) /\ top = frames[k] /\ top \in FpFrame
  <2>1. frames \in Seq(FpFrame) /\ frames # << >>  BY <1>1, <1>2 DEF FpTypes
  <2>2. k \in 1..Len(frames) /\ Len(frames) = k  BY <1>2, <2>1, EmptySeq
  <2>3. top = frames[k]  BY <1>2 DEF FpTop, Last
  <2> QED  BY <2>1, <2>2, <2>3, ElementOfSeq
<1>4. PICK less : less = [top EXCEPT !.left = s]  OBVIOUS
<1>5. less \in FpFrame /\ less.node = top.node /\ less.left = s
  <2>1. s \in SUBSET FpNode  BY <1>2, <1>3 DEF FpFrame
  <2> QED  BY <1>3, <1>4, <2>1 DEF FpFrame
<1>6. went = [frames EXCEPT ![k] = less]  BY <1>2, <1>3, <1>4
<1>7. /\ went \in Seq(FpFrame) /\ Len(went) = k
      /\ \A i \in 1..k : went[i] = IF i = k THEN less ELSE frames[i]
  <2>1. PICK w : w = went  OBVIOUS
  <2>2. w = [frames EXCEPT ![k] = less]  BY <1>6, <2>1
  <2>3. /\ w \in Seq(FpFrame) /\ Len(w) = Len(frames)
        /\ \A i \in 1..Len(frames) : w[i] = IF i = k THEN less ELSE frames[i]
    BY <1>3, <1>5, <2>2, FpFrameSet
  <2> QED  BY <1>3, <2>1, <2>3
<1>8. PICK f : f = [less EXCEPT !.ret = -1]  OBVIOUS
<1>9. f \in FpFrame /\ f.node = top.node /\ f.left = s  BY <1>5, <1>8 DEF FpFrame
<1>10. PICK failed : failed = FpFailed(went)  OBVIOUS
<1>11. /\ failed \in Seq(FpFrame) /\ Len(failed) = k
       /\ \A i \in 1..k : failed[i] = IF i = k THEN f ELSE went[i]
  <2>1. k \in 1..Len(went) /\ went[k] = less  BY <1>3, <1>7
  <2>2. failed = [went EXCEPT ![k] = f]  BY <1>7, <1>8, <1>10, <2>1 DEF FpFailed
  <2> QED  BY <1>7, <1>9, <2>1, <2>2, FpFrameSet
<1>12. 1 \in 1..k  BY <1>3
<1>13. \A i \in 1..k : /\ went[i].node = frames[i].node /\ failed[i].node = frames[i].node
                       /\ i = k => went[i].left = s /\ failed[i].left = s
  BY <1>3, <1>5, <1>7, <1>9, <1>11
<1>14. g \in Seq(FpFrame) /\ Len(g) = k  BY <1>7, <1>10, <1>11
<1>15. g[1].node = frames[1].node /\ g[k].left = s  BY <1>3, <1>10, <1>12, <1>13
<1>16. g # << >>  BY <1>3, <1>14, EmptySeq
<1> QED  BY <1>1, <1>2, <1>14, <1>15, <1>16

(* A call fails while a directory is gone through. *)
LEMMA FpPassedOver ==
  ASSUME FpInv, fpPc = "visit", NEW s \in SUBSET FpTop.left, NEW went,
         went = [fpFrames EXCEPT ![Len(fpFrames)].left = s],
         UNCHANGED <<fpFs, fpCall, fpPc, fpWork, fpRet, fpBefore, fpOthers>>, fpFaults' = fpFaults + 1,
         \/ fpFrames' = went /\ fpOut' = fpOut
         \/ fpCall.op = "rmdir" /\ fpFrames' = FpFailed(went) /\ fpOut' = fpOut
         \/ /\ fpCall.op = "walk" /\ fpFrames' = went
            /\ \E c \in FpTop.left \ s : c \in FpNode /\ FpThere(c) /\ fpOut' = FpFileGiven(c)
  PROVE  FpInv'
<1>1. /\ FpTypes /\ FpWalking /\ fpCall.op \in {"rmdir", "walk"} /\ fpCall.path \in FpNode
  BY DEF FpInv, FpGoing
<1>2. PICK frames : frames = fpFrames'  OBVIOUS
<1>3. frames \in {went, FpFailed(went)}  BY <1>2
<1>4. /\ frames \in Seq(FpFrame) /\ frames # << >> /\ Len(frames) = Len(fpFrames) /\ frames[1].node = fpCall.path
      /\ frames[Len(fpFrames)].left = s
  BY <1>3, FpFewer, Zenon
<1>5. fpFaults' \in Nat /\ fpFaults' > 0  BY <1>1 DEF FpTypes
<1>6. fpOut' \in [dirs : SUBSET FpNode, files : SUBSET FpNode, content : Seq(FpByte)]
  <2>1. fpOut \in [dirs : SUBSET FpNode, files : SUBSET FpNode, content : Seq(FpByte)]  BY <1>1 DEF FpTypes
  <2>2. \A c \in FpNode :
          FpFileGiven(c) \in [dirs : SUBSET FpNode, files : SUBSET FpNode, content : Seq(FpByte)]
    BY <2>1 DEF FpFileGiven
  <2> QED  BY <2>1, <2>2
<1>7. FpTypes'  BY <1>1, <1>2, <1>4, <1>5, <1>6 DEF FpTypes
<1>8. FpGoing'  BY <1>1, <1>2, <1>4 DEF FpGoing
<1>9. FpRemoving'  BY <1>5 DEF FpRemoving, FpAlone
<1>10. FpWalking'
  <2> SUFFICES ASSUME fpCall.op = "walk" PROVE FpWalking'  BY DEF FpWalking
  <2>1. Len(fpFrames) = 1 /\ Len(frames) = 1 /\ frames[1].left = s  BY <1>1, <1>4 DEF FpWalking
  <2> SUFFICES ASSUME fpOthers = 0 PROVE FpWalking'  BY <1>2, <2>1 DEF FpWalking
  <2>2. PICK p, names, left : p = fpCall.path /\ names = FpNames(FpFollow(p)) /\ left = fpFrames[1].left  OBVIOUS
  <2>3. fpFs = fpBefore /\ left \subseteq names /\ FpListed(names \ left)  BY <1>1, <2>2 DEF FpWalking
  <2>4. left = FpTop.left /\ s \subseteq left  BY <2>1, <2>2 DEF FpTop, Last
  <2>5. /\ FpFollow(p)' = FpFollow(p) /\ FpNames(FpFollow(p))' = names /\ \A n : FpStat(n)' = FpStat(n)
    BY <2>2 DEF FpFollow, FpLeads, FpNames, FpStat
  <2>6. FpListed(names \ s)'
    <3>1. \/ fpOut' = fpOut
          \/ \E c \in left \ s : FpThere(c) /\ fpOut'.dirs = fpOut.dirs /\ fpOut'.files = fpOut.files \cup {c}
      BY <1>1, <2>4 DEF FpFileGiven, FpTypes
    <3> QED  BY <1>5, <2>3, <2>4, <2>5, <3>1 DEF FpListed, FpThere
  <2>7. FpListed(FpNames(FpFollow(fpCall.path)) \ fpFrames[1].left)' <=> FpListed(names \ s)'
    BY <1>2, <2>1, <2>2, <2>5 DEF FpListed
  <2> QED  BY <1>2, <2>1, <2>2, <2>3, <2>4, <2>5, <2>6, <2>7 DEF FpWalking
<1> QED  BY <1>7, <1>8, <1>9, <1>10, FpElsewhere DEF FpInv

LEMMA FpVisitFailsInv == ASSUME FpInv, NEW c \in FpNode, FpVisitFails(c) PROVE FpInv'
<1> DEFINE s == FpTop.left \ {c}
<1>1. /\ fpPc = "visit" /\ c \in FpTop.left \ s /\ FpThere(c) /\ fpFaults' = fpFaults + 1
      /\ UNCHANGED <<fpFs, fpCall, fpPc, fpWork, fpRet, fpBefore, fpOthers>>
  BY DEF FpVisitFails, FpFault, fpHist
<1>2. FpPassed(c) = [fpFrames EXCEPT ![Len(fpFrames)].left = s]  BY DEF FpPassed, FpTop, Last
<1>3. \/ fpFrames' = FpPassed(c) /\ fpOut' = fpOut
      \/ fpCall.op = "walk" /\ fpFrames' = FpPassed(c) /\ fpOut' = FpFileGiven(c)
      \/ fpCall.op = "rmdir" /\ fpFrames' = FpFailed(FpPassed(c)) /\ fpOut' = fpOut
  BY DEF FpVisitFails
<1>4. s \in SUBSET FpTop.left  OBVIOUS
<1> HIDE DEF s
<1> QED  BY <1>1, <1>2, <1>3, <1>4, FpPassedOver

LEMMA FpReaddirFailsInv == ASSUME FpInv, FpReaddirFails PROVE FpInv'
<1>1. /\ fpPc = "visit" /\ fpFaults' = fpFaults + 1 /\ fpOut' = fpOut
      /\ UNCHANGED <<fpFs, fpCall, fpPc, fpWork, fpRet, fpBefore, fpOthers>>
      /\ fpFrames' = [fpFrames EXCEPT ![Len(fpFrames)].left = {}]
  BY DEF FpReaddirFails, FpFault, fpHist
<1>2. {} \in SUBSET FpTop.left  OBVIOUS
<1> QED  BY <1>1, <1>2, FpPassedOver

(* Every step, and no step. *)
LEMMA FpStep == ASSUME FpInv, [FpNext]_fpVars PROVE FpInv'
<1>1. ASSUME NEW p \in FpPaths, mkdir_recursive(p) PROVE FpInv'  BY <1>1, FpMkdirBegins
<1>2. ASSUME NEW p \in FpPaths, NEW n, n = FpPlace(p),
             \/ rmdir_recursive(n) \/ walk_dir(n) \/ rm_file(n) \/ read_file(n)
             \/ \E append \in BOOLEAN : write_file(n, append)
             \/ \E op \in {"rmdir", "walk", "rm", "read"} : FpBeginFails(op, n)
      PROVE  FpInv'
  <2>1. n = Append(FpWay(fpFs, Front(p))[Len(Front(p))], Last(p))  BY <1>2 DEF FpPlace, FpResolve
  <2>2. PICK t : t = fpFs  OBVIOUS
  <2>3. n = Append(FpWay(t, Front(p))[Len(Front(p))], Last(p))  BY <2>1, <2>2
  <2>4. n \in FpNode  BY <2>3, FpPlaceIs
  <2> QED  BY <1>2, <2>4, FpRmdirBegins, FpWalkBegins, FpRmBegins, FpReadBegins, FpWriteBegins,
       FpBeginFailsInv
<1>3. ASSUME NEW n \in FpNode, FpVisit(n) \/ FpVisitFails(n) \/ FpOther(n) PROVE FpInv'
  BY <1>3, FpVisitInv, FpVisitFailsInv, FpOtherInv
<1>4. ASSUME \/ \E gone \in BOOLEAN : FpLeave(gone)
             \/ FpReaddirFails \/ FpMkdir \/ FpUnlink \/ FpFwrite \/ FpFclose \/ FpFread
      PROVE  FpInv'
  BY <1>4, FpLeaveInv, FpReaddirFailsInv, FpMkdirInv, FpUnlinkInv, FpFwriteInv, FpFcloseInv, FpFreadInv
<1>5. CASE UNCHANGED fpVars
  <2>1. /\ fpFs' = fpFs /\ fpCall' = fpCall /\ fpPc' = fpPc /\ fpFrames' = fpFrames /\ fpWork' = fpWork
        /\ fpOut' = fpOut /\ fpRet' = fpRet /\ fpBefore' = fpBefore /\ fpOthers' = fpOthers /\ fpFaults' = fpFaults
    BY <1>5 DEF fpVars, fpHist
  <2> QED  BY <2>1 DEF FpInv, FpTypes, FpIdle, FpGoing, FpRemoving, FpAlone, FpNoLinks, FpEmptied, FpNames, FpStat,
               FpFollow, FpWalking, FpMaking, FpWriting, FpReading, get_file_size, FpHonest, FpGoneOrUnseen, FpEnds,
               FpRemovesTree, FpWas, FpMadeWay, FpPlace, FpResolve, FpIn, FpWritten, FpOld, FpHas,
               FpReadHonest, FpWalksAll, FpListed, FpThere
<1> QED  BY <1>1, <1>2, <1>3, <1>4, <1>5 DEF FpNext

(***************************************************************************)
(* Whatever a call of filepath_op reports is so.                           *)
(***************************************************************************)
THEOREM FpIsHonest == FpSpec => []FpHonest
<1>1. FpInit => FpInv  BY FpInitInv
<1>2. FpInv /\ [FpNext]_fpVars => FpInv'  BY FpStep
<1>3. FpInv => FpHonest  BY DEF FpInv
<1> QED  BY <1>1, <1>2, <1>3, PTL DEF FpSpec

(***************************************************************************)
(* base64.  Groups put one after the other.                                *)
(***************************************************************************)
B64FlatOf(S, n, m, ss, t) ==
  /\ t \in Seq(S) /\ Len(t) = n * m
  /\ \A g \in 1..m : \A j \in 1..n : t[n * (g - 1) + j] = ss[g][j]

(* The flat sequence is the groups in their order. *)
LEMMA B64FlatIs ==
  ASSUME NEW S, NEW n \in 3..4, NEW m \in Nat, NEW ss \in [1..m -> Seq(S)], \A g \in 1..m : Len(ss[g]) = n
  PROVE  B64FlatOf(S, n, m, ss, FlattenSeq(ss))
<1> DEFINE T == Seq(S)
           P(x, i) == x \o ss[i]
           Eq(h) == h = [i \in 1..m |-> IF i = 1 THEN ss[i] ELSE P(h[i - 1], i)]
           w == CHOOSE h : Eq(h)
           step == [i \in 1..m |-> [x \in T |-> P(x, i)]]
<1>1. ss \in Seq(T) /\ Len(ss) = m  OBVIOUS
<1>2. CASE m = 0
  <2>1. FlattenSeq(ss) = ss  BY <1>1, <1>2 DEF FlattenSeq
  <2>2. ss = << >>  BY <1>1, <1>2, EmptySeq
  <2>3. n * m = 0  BY <1>2
  <2> QED  BY <1>2, <2>1, <2>2, <2>3, EmptySeq DEF B64FlatOf
<1>3. CASE m # 0
  <2>1. FlattenSeq(ss) = w[m]  BY <1>1, <1>3 DEF FlattenSeq
  <2>2. \A i \in 1..m : ss[i] \in T  OBVIOUS
  <2>3. ASSUME NEW i \in 1..m, NEW x \in T PROVE P(x, i) \in T
    <3> HIDE DEF T
    <3>1. ss[i] \in T  BY <2>2
    <3> QED  BY <3>1, ConcatProperties DEF T
  <2>6. << >> \in T  BY EmptySeq
  <2>7. \A i \in 1..m : i = 1 => P(<< >>, i) = ss[i]
    <3> SUFFICES ASSUME NEW i \in 1..m PROVE P(<< >>, i) = ss[i]  OBVIOUS
    <3>1. ss[i] \in Seq(S)  BY <2>2
    <3> QED  BY <3>1, ConcatEmptySeq
  <2> HIDE DEF P
  <2>4. step \in [1..m -> [T -> T]]  BY <2>3
  <2>5. \A i \in 1..m : \A x \in T : step[i][x] = P(x, i)  OBVIOUS
  <2> HIDE DEF step, T
  <2>8. PICK f \in [0..m -> T] : f[0] = << >> /\ \A i \in 1..m : f[i] = step[i][f[i - 1]]
    <3>1. Loops(T, << >>, m, step) # {}  BY <2>4, <2>6, LoopExists
    <3> QED  BY <3>1 DEF Loops
  <2> DEFINE h0 == [i \in 1..m |-> f[i]]
  <2>9. Eq(h0)
    <3>1. \A i \in 1..m : i - 1 \in 0..m /\ (i = 1 \/ i - 1 \in 1..m)  BY <1>3
    <3>2. \A i \in 1..m : f[i] = P(f[i - 1], i)  BY <2>5, <2>8, <3>1
    <3>3. \A i \in 1..m : f[i] = IF i = 1 THEN ss[i] ELSE P(h0[i - 1], i)  BY <2>7, <2>8, <3>1, <3>2
    <3> QED  BY <3>3
  <2> HIDE DEF Eq, h0
  <2>10. Eq(w)  BY <2>9
  <2> HIDE DEF w
  <2>11. \A i \in 1..m : w[i] = IF i = 1 THEN ss[i] ELSE P(w[i - 1], i)  BY <2>10 DEF Eq
  <2> DEFINE Flat(i) == /\ w[i] \in Seq(S) /\ Len(w[i]) = n * i
                        /\ \A g \in 1..i : \A j \in 1..n : w[i][n * (g - 1) + j] = ss[g][j]
             R == {i \in 0..m : i = 0 \/ Flat(i)}
  <2>12. 0 \in R  OBVIOUS
  <2>13. ASSUME NEW i \in 1..m, i - 1 \in R PROVE i \in R
    <3>0. i \in 0..m /\ ss[i] \in Seq(S) /\ Len(ss[i]) = n  BY <2>2 DEF T
    <3>1. CASE i = 1
      <4>1. w[i] = ss[i]  BY <2>11, <3>1
      <4>2. \A g \in 1..i : g = i  BY <3>1
      <4>3. \A j \in 1..n : n * (i - 1) + j = j  BY <3>1
      <4>4. n * i = n  BY <3>1
      <4>5. Flat(i)  BY <3>0, <4>1, <4>2, <4>3, <4>4
      <4> QED  BY <3>0, <4>5
    <3>2. CASE i # 1
      <4>1. w[i] = P(w[i - 1], i) /\ i - 1 # 0  BY <2>11, <3>2
      <4>2. /\ w[i - 1] \in Seq(S) /\ Len(w[i - 1]) = n * (i - 1)
            /\ \A g \in 1..i - 1 : \A j \in 1..n : w[i - 1][n * (g - 1) + j] = ss[g][j]
        BY <2>13, <4>1
      <4> HIDE DEF R, Flat
      <4>3. /\ w[i] \in Seq(S) /\ Len(w[i]) = n * (i - 1) + n
            /\ \A k \in 1..n * (i - 1) + n : w[i][k] = IF k <= n * (i - 1) THEN w[i - 1][k] ELSE ss[i][k - n * (i - 1)]
        <5>1. PICK u, v : u = w[i - 1] /\ v = ss[i]  OBVIOUS
        <5>2. u \in Seq(S) /\ v \in Seq(S) /\ Len(u) = n * (i - 1) /\ Len(v) = n  BY <3>0, <4>2, <5>1
        <5>3. /\ u \o v \in Seq(S) /\ Len(u \o v) = Len(u) + Len(v)
              /\ \A k \in 1..Len(u) + Len(v) : (u \o v)[k] = IF k <= Len(u) THEN u[k] ELSE v[k - Len(u)]
          BY <5>2, ConcatProperties
        <5>4. w[i] = u \o v  BY <4>1, <5>1 DEF P
        <5> QED  BY <5>1, <5>2, <5>3, <5>4
      <4>4. n * i = n * (i - 1) + n
        <5>1. CASE n = 3  BY <5>1
        <5>2. CASE n = 4  BY <5>2
        <5> QED  BY <5>1, <5>2
      <4>5. ASSUME NEW g \in 1..i, NEW j \in 1..n PROVE w[i][n * (g - 1) + j] = ss[g][j]
        <5>1. CASE g = i
          <6>1. /\ n * (g - 1) + j \in 1..n * (i - 1) + n
                /\ ~(n * (g - 1) + j <= n * (i - 1)) /\ (n * (g - 1) + j) - n * (i - 1) = j
            <7>1. CASE n = 3  BY <7>1, <5>1
            <7>2. CASE n = 4  BY <7>2, <5>1
            <7> QED  BY <7>1, <7>2
          <6> QED  BY <4>3, <5>1, <6>1
        <5>2. CASE g # i
          <6>1. g \in 1..i - 1  BY <5>2
          <6>2. n * (g - 1) + j \in 1..n * (i - 1) + n /\ n * (g - 1) + j <= n * (i - 1)
            <7>1. CASE n = 3  BY <7>1, <6>1
            <7>2. CASE n = 4  BY <7>2, <6>1
            <7> QED  BY <7>1, <7>2
          <6> QED  BY <4>2, <4>3, <6>1, <6>2
        <5> QED  BY <5>1, <5>2
      <4>6. Flat(i)  BY <4>3, <4>4, <4>5 DEF Flat
      <4> QED  BY <3>0, <4>6 DEF R
    <3> QED  BY <3>1, <3>2
  <2>14. 0..m \subseteq R
    <3>1. \A i \in 1..m : i - 1 \in R => i \in R  BY <2>13
    <3> HIDE DEF R
    <3> QED  BY <2>12, <3>1, TurnByTurn
  <2>15. Flat(m)
    <3>1. m \in 0..m  OBVIOUS
    <3> QED  BY <1>3, <2>14, <3>1
  <2> QED  BY <2>1, <2>15 DEF B64FlatOf
<1> QED  BY <1>2, <1>3

(* The groups of n and what is left. *)
LEMMA B64Parts ==
  ASSUME NEW S, NEW s \in Seq(S), NEW n \in 3..4
  PROVE  /\ Len(s) \div n \in Nat /\ Len(s) % n \in 0..n - 1 /\ Len(s) = n * (Len(s) \div n) + (Len(s) % n)
         /\ \A g \in 1..Len(s) \div n :
              /\ B64Groups(s, n)[g] \in Seq(S) /\ Len(B64Groups(s, n)[g]) = n
              /\ \A j \in 1..n : B64Groups(s, n)[g][j] = s[n * (g - 1) + j]
         /\ B64Rest(s, n) \in Seq(S) /\ Len(B64Rest(s, n)) = Len(s) % n
         /\ \A j \in 1..Len(s) % n : B64Rest(s, n)[j] = s[n * (Len(s) \div n) + j]
<1>0. Len(s) \in Nat /\ n \in Nat \ {0}  BY LenProperties
<1>1. /\ Len(s) \div n \in Nat /\ Len(s) % n \in 0..n - 1 /\ Len(s) = n * (Len(s) \div n) + (Len(s) % n)
  BY <1>0, DivMod
<1>2. PICK l, q, r : l = Len(s) /\ q = Len(s) \div n /\ r = Len(s) % n  OBVIOUS
<1>3. l \in Nat /\ q \in Nat /\ r \in 0..n - 1 /\ l = n * q + r  BY <1>0, <1>1, <1>2
<1>4. ASSUME NEW g \in 1..q
      PROVE  /\ B64Groups(s, n)[g] \in Seq(S) /\ Len(B64Groups(s, n)[g]) = n
             /\ \A j \in 1..n : B64Groups(s, n)[g][j] = s[n * (g - 1) + j]
  <2>1. PICK a, b : a = (g - 1) * n + 1 /\ b = g * n  OBVIOUS
  <2>2. /\ a \in Int /\ b \in Int /\ a >= 1 /\ b <= l /\ b - a + 1 = n
        /\ \A j \in 1..n : (a + j) - 1 = n * (g - 1) + j
    <3>1. CASE n = 3  BY <1>3, <2>1, <3>1
    <3>2. CASE n = 4  BY <1>3, <2>1, <3>2
    <3> QED  BY <3>1, <3>2
  <2>3. \A i \in a..b : s[i] \in S
    <3>1. \A i \in a..b : i \in 1..Len(s)  BY <1>2, <1>3, <2>2
    <3> QED  BY <3>1, ElementOfSeq
  <2>4. B64Groups(s, n)[g] = SubSeq(s, a, b)  BY <1>2, <2>1 DEF B64Groups
  <2>5. /\ SubSeq(s, a, b) \in Seq(S) /\ Len(SubSeq(s, a, b)) = IF a <= b THEN b - a + 1 ELSE 0
        /\ \A j \in 1..b - a + 1 : SubSeq(s, a, b)[j] = s[(a + j) - 1]
    BY <2>2, <2>3, SubSeqProperties
  <2>6. a <= b  BY <1>0, <2>2
  <2> QED  BY <2>2, <2>4, <2>5, <2>6
<1>5. /\ B64Rest(s, n) \in Seq(S) /\ Len(B64Rest(s, n)) = r
      /\ \A j \in 1..r : B64Rest(s, n)[j] = s[n * q + j]
  <2>1. PICK a : a = l - r + 1  OBVIOUS
  <2>2. a \in Int /\ a >= 1 /\ l - a + 1 = r /\ \A j \in 1..r : (a + j) - 1 = n * q + j
    <3>1. CASE n = 3  BY <1>3, <2>1, <3>1
    <3>2. CASE n = 4  BY <1>3, <2>1, <3>2
    <3> QED  BY <3>1, <3>2
  <2>3. \A i \in a..l : s[i] \in S
    <3>1. \A i \in a..l : i \in 1..Len(s)  BY <1>2, <1>3, <2>2
    <3> QED  BY <3>1, ElementOfSeq
  <2>4. B64Rest(s, n) = SubSeq(s, a, l)  BY <1>2, <2>1 DEF B64Rest
  <2>5. /\ SubSeq(s, a, l) \in Seq(S) /\ Len(SubSeq(s, a, l)) = IF a <= l THEN l - a + 1 ELSE 0
        /\ \A j \in 1..l - a + 1 : SubSeq(s, a, l)[j] = s[(a + j) - 1]
    BY <1>3, <2>2, <2>3, SubSeqProperties
  <2>6. (IF a <= l THEN l - a + 1 ELSE 0) = r  BY <1>3, <2>2
  <2> QED  BY <2>2, <2>4, <2>5, <2>6
<1>6. \A g \in 1..Len(s) \div n :
        /\ B64Groups(s, n)[g] \in Seq(S) /\ Len(B64Groups(s, n)[g]) = n
        /\ \A j \in 1..n : B64Groups(s, n)[g][j] = s[n * (g - 1) + j]
  BY ONLY <1>2, <1>4
<1>7. /\ B64Rest(s, n) \in Seq(S) /\ Len(B64Rest(s, n)) = Len(s) % n
      /\ \A j \in 1..Len(s) % n : B64Rest(s, n)[j] = s[n * (Len(s) \div n) + j]
  BY ONLY <1>2, <1>5
<1> QED  BY ONLY <1>1, <1>6, <1>7

(***************************************************************************)
(* The characters of three bytes, and the bytes of four characters.        *)
(***************************************************************************)
B64Byte == 0..255
B64Char == 0..63

(* Every six bits are a character. *)
LEMMA B64Sextets ==
  ASSUME NEW x \in B64Byte, NEW y \in B64Byte, NEW z \in B64Byte
  PROVE  /\ x \div 4 \in B64Char /\ (x % 4) * 16 + y \div 16 \in B64Char
         /\ (y % 16) * 4 + z \div 64 \in B64Char /\ z % 64 \in B64Char
         /\ (x % 4) * 16 \in B64Char /\ (y % 16) * 4 \in B64Char
<1>1. x \in 0..255 /\ y \in 0..255 /\ z \in 0..255  BY DEF B64Byte
<1>2. x \div 4 \in 0..63  BY ONLY <1>1
<1>3. (x % 4) * 16 + y \div 16 \in 0..63  BY ONLY <1>1
<1>4. (y % 16) * 4 + z \div 64 \in 0..63  BY ONLY <1>1
<1>5. z % 64 \in 0..63  BY ONLY <1>1
<1>6. (x % 4) * 16 \in 0..63 /\ (y % 16) * 4 \in 0..63  BY ONLY <1>1
<1> QED  BY <1>2, <1>3, <1>4, <1>5, <1>6 DEF B64Char

(* Every eight bits are a byte. *)
LEMMA B64Octets ==
  ASSUME NEW x \in B64Byte, NEW y \in B64Byte, NEW z \in B64Byte, NEW w \in B64Byte
  PROVE  /\ (x * 4 + ((y \div 16) % 4)) % 256 \in B64Byte
         /\ ((y % 16) * 16 + ((z \div 4) % 16)) % 256 \in B64Byte
         /\ ((z % 4) * 64 + w) % 256 \in B64Byte
<1>1. x \in 0..255 /\ y \in 0..255 /\ z \in 0..255 /\ w \in 0..255  BY DEF B64Byte
<1>2. (x * 4 + ((y \div 16) % 4)) % 256 \in 0..255  BY ONLY <1>1
<1>3. ((y % 16) * 16 + ((z \div 4) % 16)) % 256 \in 0..255  BY ONLY <1>1
<1>4. ((z % 4) * 64 + w) % 256 \in 0..255  BY ONLY <1>1
<1> QED  BY <1>2, <1>3, <1>4 DEF B64Byte

(* The four characters of three bytes. *)
LEMMA B64From3Is ==
  ASSUME NEW a \in Seq(B64Byte), Len(a) = 3
  PROVE  /\ B64From3(a) \in Seq(B64Char) /\ Len(B64From3(a)) = 4
         /\ B64From3(a)[1] = a[1] \div 4 /\ B64From3(a)[2] = (a[1] % 4) * 16 + a[2] \div 16
         /\ B64From3(a)[3] = (a[2] % 16) * 4 + a[3] \div 64 /\ B64From3(a)[4] = a[3] % 64
<1>1. a[1] \in B64Byte /\ a[2] \in B64Byte /\ a[3] \in B64Byte
  <2>1. \A i \in 1..Len(a) : a[i] \in B64Byte  BY ElementOfSeq
  <2> QED  BY <2>1
<1>2. PICK k, l, m : k = a[1] /\ l = a[2] /\ m = a[3]  OBVIOUS
<1>3. PICK w, x, y, z : /\ w = k \div 4 /\ x = (k % 4) * 16 + l \div 16
                        /\ y = (l % 16) * 4 + m \div 64 /\ z = m % 64
  OBVIOUS
<1>4. w \in B64Char /\ x \in B64Char /\ y \in B64Char /\ z \in B64Char
  <2>1. k \in B64Byte /\ l \in B64Byte /\ m \in B64Byte  BY <1>1, <1>2
  <2> QED  BY ONLY <1>3, <2>1, B64Sextets
<1>5. B64From3(a) = <<w, x, y, z>>  BY <1>2, <1>3 DEF B64From3
<1>6. <<w, x, y, z>> \in Seq(B64Char) /\ Len(<<w, x, y, z>>) = 4  BY <1>4
<1>7. /\ <<w, x, y, z>>[1] = w /\ <<w, x, y, z>>[2] = x /\ <<w, x, y, z>>[3] = y /\ <<w, x, y, z>>[4] = z
  OBVIOUS
<1> QED  BY ONLY <1>2, <1>3, <1>5, <1>6, <1>7

(* The three bytes of four characters. *)
LEMMA B64From4Is ==
  ASSUME NEW a \in Seq(B64Byte), Len(a) = 4
  PROVE  /\ B64From4(a) \in Seq(B64Byte) /\ Len(B64From4(a)) = 3
         /\ B64From4(a)[1] = (a[1] * 4 + ((a[2] \div 16) % 4)) % 256
         /\ B64From4(a)[2] = ((a[2] % 16) * 16 + ((a[3] \div 4) % 16)) % 256
         /\ B64From4(a)[3] = ((a[3] % 4) * 64 + a[4]) % 256
<1>1. a[1] \in B64Byte /\ a[2] \in B64Byte /\ a[3] \in B64Byte /\ a[4] \in B64Byte
  <2>1. \A i \in 1..Len(a) : a[i] \in B64Byte  BY ElementOfSeq
  <2> QED  BY <2>1
<1>2. PICK k, l, m, n : k = a[1] /\ l = a[2] /\ m = a[3] /\ n = a[4]  OBVIOUS
<1>3. PICK x, y, z : /\ x = (k * 4 + ((l \div 16) % 4)) % 256
                     /\ y = ((l % 16) * 16 + ((m \div 4) % 16)) % 256
                     /\ z = ((m % 4) * 64 + n) % 256
  OBVIOUS
<1>4. x \in B64Byte /\ y \in B64Byte /\ z \in B64Byte
  <2>1. k \in B64Byte /\ l \in B64Byte /\ m \in B64Byte /\ n \in B64Byte  BY <1>1, <1>2
  <2> QED  BY ONLY <1>3, <2>1, B64Octets
<1>5. B64From4(a) = <<x, y, z>>  BY <1>2, <1>3 DEF B64From4
<1>6. <<x, y, z>> \in Seq(B64Byte) /\ Len(<<x, y, z>>) = 3  BY <1>4
<1>7. <<x, y, z>>[1] = x /\ <<x, y, z>>[2] = y /\ <<x, y, z>>[3] = z  OBVIOUS
<1> QED  BY ONLY <1>2, <1>3, <1>5, <1>6, <1>7

(* A group that is filled up. *)
B64FillOf(S, s, n, x, t) ==
  /\ t \in Seq(S) /\ Len(t) = n
  /\ \A j \in 1..n : j <= Len(s) => t[j] = s[j]
  /\ \A j \in 1..n : j > Len(s) => t[j] = x

(* The fill leaves what was there and is all that follows it. *)
LEMMA B64FillIs ==
  ASSUME NEW S, NEW s \in Seq(S), NEW n \in 3..4, NEW x \in S, Len(s) <= n
  PROVE  B64FillOf(S, s, n, x, B64Fill(s, n, x))
<1> DEFINE u == [i \in 1..n - Len(s) |-> x]
<1>1. Len(s) \in Nat /\ n - Len(s) \in Nat  BY LenProperties
<1>2. u \in Seq(S) /\ Len(u) = n - Len(s) /\ \A i \in 1..n - Len(s) : u[i] = x  BY <1>1
<1>3. B64Fill(s, n, x) = s \o u  BY DEF B64Fill
<1> HIDE DEF u
<1>4. /\ s \o u \in Seq(S) /\ Len(s \o u) = Len(s) + Len(u)
      /\ \A i \in 1..Len(s) + Len(u) : (s \o u)[i] = IF i <= Len(s) THEN s[i] ELSE u[i - Len(s)]
  BY <1>2, ConcatProperties
<1>5. ASSUME NEW j \in 1..n PROVE (s \o u)[j] = IF j <= Len(s) THEN s[j] ELSE x
  <2>1. ~(j <= Len(s)) => j - Len(s) \in 1..n - Len(s)  BY <1>1
  <2> QED  BY <1>1, <1>2, <1>4, <2>1
<1>6. Len(s) + Len(u) = n  BY <1>1, <1>2
<1> QED  BY <1>1, <1>3, <1>4, <1>5, <1>6 DEF B64FillOf

(***************************************************************************)
(* What the text e of the bytes s is, character by character.              *)
(***************************************************************************)
B64TextOf(s, e) ==
  LET q == Len(s) \div 3
      r == Len(s) % 3
  IN /\ e \in Seq(B64Char \cup {B64Pad}) /\ Len(e) = 4 * q + (IF r = 0 THEN 0 ELSE 4)
     /\ \A g \in 1..q :
          LET x == s[3 * (g - 1) + 1]  y == s[3 * (g - 1) + 2]  z == s[3 * (g - 1) + 3] IN
          /\ e[4 * (g - 1) + 1] = x \div 4 /\ e[4 * (g - 1) + 2] = (x % 4) * 16 + y \div 16
          /\ e[4 * (g - 1) + 3] = (y % 16) * 4 + z \div 64 /\ e[4 * (g - 1) + 4] = z % 64
     /\ r = 1 => /\ e[4 * q + 1] = s[3 * q + 1] \div 4 /\ e[4 * q + 2] = (s[3 * q + 1] % 4) * 16
                 /\ e[4 * q + 3] = B64Pad
     /\ r = 2 => /\ e[4 * q + 1] = s[3 * q + 1] \div 4
                 /\ e[4 * q + 2] = (s[3 * q + 1] % 4) * 16 + s[3 * q + 2] \div 16
                 /\ e[4 * q + 3] = (s[3 * q + 2] % 16) * 4 /\ e[4 * q + 4] = B64Pad

(* Encode() gives that text. *)
LEMMA B64EncodeIs ==
  ASSUME NEW s \in Seq(B64Byte)
  PROVE  B64TextOf(s, Encode(s))
<1> DEFINE C == B64Char \cup {B64Pad}
<1>0. PICK n, q, r : n = 3 /\ q = Len(s) \div n /\ r = Len(s) % n  OBVIOUS
<1>1. /\ q \in Nat /\ r \in 0..2 /\ Len(s) = (3 * q) + r
      /\ \A g \in 1..q : /\ B64Groups(s, 3)[g] \in Seq(B64Byte) /\ Len(B64Groups(s, 3)[g]) = 3
                         /\ \A j \in 1..3 : B64Groups(s, 3)[g][j] = s[3 * (g - 1) + j]
      /\ B64Rest(s, 3) \in Seq(B64Byte) /\ Len(B64Rest(s, 3)) = r
      /\ \A j \in 1..r : B64Rest(s, 3)[j] = s[3 * q + j]
  <2>1. n \in 3..4  BY <1>0
  <2>2. /\ Len(s) \div n \in Nat /\ Len(s) % n \in 0..n - 1 /\ Len(s) = n * (Len(s) \div n) + (Len(s) % n)
        /\ \A g \in 1..Len(s) \div n :
              /\ B64Groups(s, n)[g] \in Seq(B64Byte) /\ Len(B64Groups(s, n)[g]) = n
              /\ \A j \in 1..n : B64Groups(s, n)[g][j] = s[n * (g - 1) + j]
        /\ B64Rest(s, n) \in Seq(B64Byte) /\ Len(B64Rest(s, n)) = Len(s) % n
        /\ \A j \in 1..Len(s) % n : B64Rest(s, n)[j] = s[n * (Len(s) \div n) + j]
    BY ONLY <2>1, B64Parts
  <2>3. /\ q \in Nat /\ r \in 0..n - 1 /\ Len(s) = (n * q) + r
        /\ \A g \in 1..q :
              /\ B64Groups(s, n)[g] \in Seq(B64Byte) /\ Len(B64Groups(s, n)[g]) = n
              /\ \A j \in 1..n : B64Groups(s, n)[g][j] = s[n * (g - 1) + j]
        /\ B64Rest(s, n) \in Seq(B64Byte) /\ Len(B64Rest(s, n)) = r
        /\ \A j \in 1..r : B64Rest(s, n)[j] = s[n * q + j]
    BY ONLY <1>0, <2>2
  <2> QED  BY ONLY <1>0, <2>3
<1>2. PICK ss : ss = [g \in 1..Len(s) \div 3 |-> B64From3(B64Groups(s, 3)[g])]  OBVIOUS
<1>3. PICK rest : rest = B64Rest(s, 3)  OBVIOUS
<1>4. PICK t : t = IF r = 0 THEN << >> ELSE B64Fill(B64Tail(rest), 4, B64Pad)  OBVIOUS
<1>5. Encode(s) = FlattenSeq(ss) \o t  BY <1>0, <1>2, <1>3, <1>4 DEF Encode
<1>6. ASSUME NEW g \in 1..q
      PROVE  /\ ss[g] \in Seq(B64Char) /\ Len(ss[g]) = 4
             /\ LET x == s[3 * (g - 1) + 1]  y == s[3 * (g - 1) + 2]  z == s[3 * (g - 1) + 3] IN
                /\ ss[g][1] = x \div 4 /\ ss[g][2] = (x % 4) * 16 + y \div 16
                /\ ss[g][3] = (y % 16) * 4 + z \div 64 /\ ss[g][4] = z % 64
  <2>1. PICK a : a = B64Groups(s, 3)[g]  OBVIOUS
  <2>2. a \in Seq(B64Byte) /\ Len(a) = 3 /\ \A j \in 1..3 : a[j] = s[3 * (g - 1) + j]  BY <1>1, <2>1
  <2>3. ss[g] = B64From3(a)  BY <1>0, <1>2, <2>1
  <2>4. /\ B64From3(a) \in Seq(B64Char) /\ Len(B64From3(a)) = 4
        /\ B64From3(a)[1] = a[1] \div 4 /\ B64From3(a)[2] = (a[1] % 4) * 16 + a[2] \div 16
        /\ B64From3(a)[3] = (a[2] % 16) * 4 + a[3] \div 64 /\ B64From3(a)[4] = a[3] % 64
    BY <2>2, B64From3Is
  <2>5. a[1] = s[3 * (g - 1) + 1] /\ a[2] = s[3 * (g - 1) + 2] /\ a[3] = s[3 * (g - 1) + 3]  BY <2>2
  <2> QED  BY <2>3, <2>4, <2>5
<1>7. ss \in [1..q -> Seq(B64Char)] /\ \A g \in 1..q : Len(ss[g]) = 4
  <2>1. ss = [g \in 1..q |-> ss[g]]  BY <1>0, <1>2
  <2> QED  BY <1>6, <2>1
<1>8. PICK f : f = FlattenSeq(ss)  OBVIOUS
<1>9. f \in Seq(B64Char) /\ Len(f) = 4 * q /\ \A g \in 1..q : \A j \in 1..4 : f[4 * (g - 1) + j] = ss[g][j]
  <2>1. PICK k : k = 4  OBVIOUS
  <2>2. k \in 3..4 /\ q \in Nat /\ \A g \in 1..q : Len(ss[g]) = k  BY <1>1, <1>7, <2>1
  <2>3. B64FlatOf(B64Char, k, q, ss, f)  BY ONLY <1>7, <1>8, <2>2, B64FlatIs
  <2> QED  BY ONLY <2>1, <2>3 DEF B64FlatOf
<1>10. /\ t \in Seq(C) /\ Len(t) = IF r = 0 THEN 0 ELSE 4
       /\ r = 1 => t[1] = rest[1] \div 4 /\ t[2] = (rest[1] % 4) * 16 /\ t[3] = B64Pad
       /\ r = 2 => /\ t[1] = rest[1] \div 4 /\ t[2] = (rest[1] % 4) * 16 + rest[2] \div 16
                   /\ t[3] = (rest[2] % 16) * 4 /\ t[4] = B64Pad
  <2>1. CASE r = 0  BY <1>4, <2>1, EmptySeq
  <2>2. CASE r # 0
    <3>0. rest \in Seq(B64Byte) /\ Len(rest) = r /\ r \in 1..2  BY <1>1, <1>3, <2>2
    <3>1. PICK a : a = B64Fill(rest, 3, 0)  OBVIOUS
    <3>2. a \in Seq(B64Byte) /\ Len(a) = 3 /\ \A j \in 1..3 : a[j] = IF j <= r THEN rest[j] ELSE 0
      <4>1. PICK k, x : k = 3 /\ x = 0  OBVIOUS
      <4>2. k \in 3..4 /\ x \in B64Byte /\ Len(rest) <= k  BY <3>0, <4>1 DEF B64Byte
      <4>3. B64FillOf(B64Byte, rest, k, x, B64Fill(rest, k, x))
        <5>1. rest \in Seq(B64Byte) /\ k \in 3..4 /\ x \in B64Byte /\ Len(rest) <= k  BY <3>0, <4>2
        <5> QED  BY ONLY <5>1, B64FillIs
      <4> QED  BY ONLY <3>0, <3>1, <4>1, <4>3 DEF B64FillOf
    <3>3. PICK b : b = B64From3(a)  OBVIOUS
    <3>4. /\ b \in Seq(B64Char) /\ Len(b) = 4
          /\ b[1] = a[1] \div 4 /\ b[2] = (a[1] % 4) * 16 + a[2] \div 16
          /\ b[3] = (a[2] % 16) * 4 + a[3] \div 64 /\ b[4] = a[3] % 64
      BY <3>2, <3>3, B64From3Is
    <3>5. PICK c : c = SubSeq(b, 1, r + 1)  OBVIOUS
    <3>6. c \in Seq(B64Char) /\ Len(c) = r + 1 /\ \A i \in 1..r + 1 : c[i] = b[i]
      <4>1. PICK k : k = r + 1  OBVIOUS
      <4>2. b \in Seq(B64Char) /\ k \in 0..Len(b) /\ c = SubSeq(b, 1, k)  BY <3>0, <3>4, <3>5, <4>1
      <4>3. c \in Seq(B64Char) /\ Len(c) = k /\ \A i \in 1..k : c[i] = b[i]  BY ONLY <4>2, FpFirst
      <4> QED  BY ONLY <4>1, <4>3
    <3>7. c \in Seq(C)  BY <3>6, SeqMonotonic
    <3>8. t = B64Fill(c, 4, B64Pad)  BY <1>4, <2>2, <3>0, <3>1, <3>3, <3>5 DEF B64Tail
    <3>9. t \in Seq(C) /\ Len(t) = 4 /\ \A j \in 1..4 : t[j] = IF j <= r + 1 THEN c[j] ELSE B64Pad
      <4>1. PICK k, x : k = 4 /\ x = B64Pad  OBVIOUS
      <4>2. k \in 3..4 /\ x \in C /\ Len(c) <= k  BY <3>0, <3>6, <4>1
      <4> HIDE DEF C
      <4>3. B64FillOf(C, c, k, x, B64Fill(c, k, x))
        <5>1. c \in Seq(C) /\ k \in 3..4 /\ x \in C /\ Len(c) <= k  BY <3>7, <4>2
        <5> QED  BY ONLY <5>1, B64FillIs
      <4> QED  BY ONLY <3>6, <3>8, <4>1, <4>3 DEF B64FillOf
    <3>10. rest[1] \in B64Byte /\ (r = 2 => rest[2] \in B64Byte)
      <4>1. 1 \in 1..Len(rest) /\ (r = 2 => 2 \in 1..Len(rest))  BY <3>0
      <4> QED  BY <3>0, <4>1, ElementOfSeq
    <3>11. CASE r = 1
      <4>1. a[1] = rest[1] /\ a[2] = 0 /\ a[3] = 0  BY <3>2, <3>11
      <4>2. t[1] = b[1] /\ t[2] = b[2] /\ t[3] = B64Pad  BY <3>6, <3>9, <3>11
      <4>3. b[2] = (rest[1] % 4) * 16
        <5>1. PICK x, y : x = rest[1] /\ y = a[2]  OBVIOUS
        <5>2. x \in 0..255 /\ y = 0  BY <3>10, <4>1, <5>1 DEF B64Byte
        <5>3. (x % 4) * 16 + y \div 16 = (x % 4) * 16  BY ONLY <5>2
        <5> QED  BY ONLY <3>4, <4>1, <5>1, <5>3
      <4> QED  BY <3>4, <3>9, <3>11, <4>1, <4>2, <4>3
    <3>12. CASE r = 2
      <4>1. a[1] = rest[1] /\ a[2] = rest[2] /\ a[3] = 0  BY <3>2, <3>12
      <4>2. t[1] = b[1] /\ t[2] = b[2] /\ t[3] = b[3] /\ t[4] = B64Pad  BY <3>6, <3>9, <3>12
      <4>3. b[3] = (rest[2] % 16) * 4
        <5>1. PICK x, y : x = rest[2] /\ y = a[3]  OBVIOUS
        <5>2. x \in 0..255 /\ y = 0  BY <3>10, <3>12, <4>1, <5>1 DEF B64Byte
        <5>3. (x % 16) * 4 + y \div 64 = (x % 16) * 4  BY ONLY <5>2
        <5> QED  BY ONLY <3>4, <4>1, <5>1, <5>3
      <4> QED  BY <3>4, <3>9, <3>12, <4>1, <4>2, <4>3
    <3> QED  BY <3>0, <3>11, <3>12
  <2> QED  BY <2>1, <2>2
<1> HIDE DEF C
<1>11. PICK e : e = Encode(s)  OBVIOUS
<1>12. /\ e \in Seq(C) /\ Len(e) = Len(f) + Len(t)
       /\ \A i \in 1..Len(f) + Len(t) : e[i] = IF i <= Len(f) THEN f[i] ELSE t[i - Len(f)]
  <2>1. f \in Seq(C)  BY <1>9, SeqMonotonic DEF C
  <2>2. e = f \o t  BY <1>5, <1>8, <1>11
  <2> QED  BY <1>10, <2>1, <2>2, ConcatProperties
<1>13. Len(e) = 4 * q + (IF r = 0 THEN 0 ELSE 4)  BY <1>9, <1>10, <1>12
<1>14. ASSUME NEW g \in 1..q, NEW j \in 1..4 PROVE e[4 * (g - 1) + j] = ss[g][j]
  <2>1. 4 * (g - 1) + j \in 1..4 * q  BY <1>1
  <2>2. 4 * (g - 1) + j \in 1..Len(f) + Len(t) /\ 4 * (g - 1) + j <= Len(f)  BY <1>1, <1>9, <1>10, <2>1
  <2> QED  BY <1>9, <1>12, <2>2
<1>15. ASSUME r # 0, NEW j \in 1..4 PROVE e[4 * q + j] = t[j]
  <2>1. Len(t) = 4 /\ Len(f) = 4 * q  BY <1>9, <1>10, <1>15
  <2>2. 4 * q + j \in 1..Len(f) + Len(t) /\ ~(4 * q + j <= Len(f)) /\ (4 * q + j) - Len(f) = j  BY <1>1, <2>1
  <2> QED  BY <1>12, <2>2
<1>16. ASSUME NEW g \in 1..q
       PROVE  LET x == s[3 * (g - 1) + 1]  y == s[3 * (g - 1) + 2]  z == s[3 * (g - 1) + 3] IN
              /\ e[4 * (g - 1) + 1] = x \div 4 /\ e[4 * (g - 1) + 2] = (x % 4) * 16 + y \div 16
              /\ e[4 * (g - 1) + 3] = (y % 16) * 4 + z \div 64 /\ e[4 * (g - 1) + 4] = z % 64
  <2>1. /\ e[4 * (g - 1) + 1] = ss[g][1] /\ e[4 * (g - 1) + 2] = ss[g][2]
        /\ e[4 * (g - 1) + 3] = ss[g][3] /\ e[4 * (g - 1) + 4] = ss[g][4]
    BY <1>14
  <2> QED  BY <1>6, <2>1
<1>17. r = 1 => /\ e[4 * q + 1] = s[3 * q + 1] \div 4 /\ e[4 * q + 2] = (s[3 * q + 1] % 4) * 16
                /\ e[4 * q + 3] = B64Pad
  <2> SUFFICES ASSUME r = 1
               PROVE  /\ e[4 * q + 1] = s[3 * q + 1] \div 4 /\ e[4 * q + 2] = (s[3 * q + 1] % 4) * 16
                      /\ e[4 * q + 3] = B64Pad
    OBVIOUS
  <2>1. e[4 * q + 1] = t[1] /\ e[4 * q + 2] = t[2] /\ e[4 * q + 3] = t[3]  BY <1>15
  <2>2. rest[1] = s[3 * q + 1]  BY <1>1, <1>3
  <2> QED  BY <1>10, <2>1, <2>2
<1>18. r = 2 => /\ e[4 * q + 1] = s[3 * q + 1] \div 4
                /\ e[4 * q + 2] = (s[3 * q + 1] % 4) * 16 + s[3 * q + 2] \div 16
                /\ e[4 * q + 3] = (s[3 * q + 2] % 16) * 4 /\ e[4 * q + 4] = B64Pad
  <2> SUFFICES ASSUME r = 2
               PROVE  /\ e[4 * q + 1] = s[3 * q + 1] \div 4
                      /\ e[4 * q + 2] = (s[3 * q + 1] % 4) * 16 + s[3 * q + 2] \div 16
                      /\ e[4 * q + 3] = (s[3 * q + 2] % 16) * 4 /\ e[4 * q + 4] = B64Pad
    OBVIOUS
  <2>1. e[4 * q + 1] = t[1] /\ e[4 * q + 2] = t[2] /\ e[4 * q + 3] = t[3] /\ e[4 * q + 4] = t[4]  BY <1>15
  <2>2. rest[1] = s[3 * q + 1] /\ rest[2] = s[3 * q + 2]  BY <1>1, <1>3
  <2> QED  BY <1>10, <2>1, <2>2
<1>19. e \in Seq(B64Char \cup {B64Pad})  BY <1>12 DEF C
<1>20. B64TextOf(s, e)  BY <1>0, <1>13, <1>16, <1>17, <1>18, <1>19 DEF B64TextOf
<1> QED  BY <1>11, <1>20

(***************************************************************************)
(* The characters in front of the first that is not of the alphabet.       *)
(***************************************************************************)
B64Symbol == -2..63

(* What is decoded is as much of the text as is valid. *)
LEMMA B64ValidIs ==
  ASSUME NEW s \in Seq(B64Symbol)
  PROVE  /\ B64Valid(s) \in Seq(B64Char) /\ Len(B64Valid(s)) \in 0..Len(s)
         /\ \A i \in 1..Len(B64Valid(s)) : B64Valid(s)[i] = s[i]
         /\ Len(B64Valid(s)) # Len(s) => ~(s[Len(B64Valid(s)) + 1] \in B64Char)
<1> DEFINE stops == {i \in DOMAIN s : ~IsBase64(s[i])}
<1>1. Len(s) \in Nat /\ DOMAIN s = 1..Len(s) /\ \A i \in 1..Len(s) : s[i] \in B64Symbol
  BY LenProperties, ElementOfSeq
<1>2. \A i \in 1..Len(s) : s[i] \in B64Char <=> ~(i \in stops)
  <2> SUFFICES ASSUME NEW i \in 1..Len(s) PROVE s[i] \in B64Char <=> ~(i \in stops)  OBVIOUS
  <2>1. PICK x : x = s[i]  OBVIOUS
  <2>2. x \in -2..63 /\ i \in DOMAIN s  BY <1>1, <2>1 DEF B64Symbol
  <2>3. x \in 0..63 <=> x >= 0  BY ONLY <2>2
  <2>4. i \in stops <=> ~(x >= 0)  BY <2>1, <2>2 DEF IsBase64
  <2> QED  BY <2>1, <2>3, <2>4 DEF B64Char
<1>3. CASE stops = {}
  <2>1. B64Valid(s) = s  BY <1>3 DEF B64Valid
  <2>2. \A i \in 1..Len(s) : s[i] \in B64Char  BY <1>2, <1>3
  <2>3. s \in Seq(B64Char)  BY <1>1, <2>2, SeqDef
  <2> QED  BY <1>1, <2>1, <2>3
<1>4. CASE stops # {}
  <2>1. stops \in SUBSET Nat  BY <1>1
  <2>2. PICK m : m = Min(stops)  OBVIOUS
  <2> HIDE DEF stops
  <2>3. m \in stops /\ \A j \in stops : m <= j  BY <1>4, <2>1, <2>2, LeastIs
  <2>4. m \in 1..Len(s)  BY <1>1, <2>3 DEF stops
  <2>5. B64Valid(s) = SubSeq(s, 1, m - 1)  BY <1>4, <2>2 DEF B64Valid, Min, stops
  <2>6. PICK k, v : k = m - 1 /\ v = SubSeq(s, 1, k)  OBVIOUS
  <2>7. k \in 0..Len(s)  BY <1>1, <2>4, <2>6
  <2>8. v \in Seq(B64Symbol) /\ Len(v) = k /\ \A i \in 1..k : v[i] = s[i]  BY ONLY <2>6, <2>7, FpFirst
  <2>9. \A i \in 1..k : v[i] \in B64Char
    <3> SUFFICES ASSUME NEW i \in 1..k PROVE v[i] \in B64Char  OBVIOUS
    <3>1. i \in 1..Len(s) /\ ~(m <= i)  BY <1>1, <2>4, <2>6
    <3> QED  BY <1>2, <2>3, <2>8, <3>1
  <2>10. v \in Seq(B64Char)
    <3>1. v \in [1..k -> B64Char]
      <4>1. DOMAIN v = 1..k /\ v = [i \in 1..k |-> v[i]]  BY <2>7, <2>8, LenProperties
      <4> QED  BY <2>9, <4>1
    <3> QED  BY <2>7, <3>1, SeqDef
  <2>11. ~(s[k + 1] \in B64Char)
    <3>1. k + 1 = m  BY <2>4, <2>6
    <3> QED  BY <1>2, <2>3, <2>4, <3>1
  <2>12. B64Valid(s) = v  BY <2>5, <2>6
  <2> QED  BY <2>7, <2>8, <2>10, <2>11, <2>12
<1> QED  BY <1>3, <1>4

(***************************************************************************)
(* What the bytes d of the valid characters v are.                         *)
(***************************************************************************)
B64Octet1(k, l) == (k * 4 + ((l \div 16) % 4)) % 256
B64Octet2(k, l) == ((k % 16) * 16 + ((l \div 4) % 16)) % 256
B64Octet3(k, l) == ((k % 4) * 64 + l) % 256

B64BytesOf(v, d) ==
  LET q == Len(v) \div 4
      r == Len(v) % 4
  IN /\ d \in Seq(B64Byte) /\ Len(d) = 3 * q + (IF r = 0 THEN 0 ELSE r - 1)
     /\ \A g \in 1..q :
          /\ d[3 * (g - 1) + 1] = B64Octet1(v[4 * (g - 1) + 1], v[4 * (g - 1) + 2])
          /\ d[3 * (g - 1) + 2] = B64Octet2(v[4 * (g - 1) + 2], v[4 * (g - 1) + 3])
          /\ d[3 * (g - 1) + 3] = B64Octet3(v[4 * (g - 1) + 3], v[4 * (g - 1) + 4])
     /\ r >= 2 => d[3 * q + 1] = B64Octet1(v[4 * q + 1], v[4 * q + 2])
     /\ r = 3 => d[3 * q + 2] = B64Octet2(v[4 * q + 2], v[4 * q + 3])

(* Decode() gives those bytes. *)
LEMMA B64DecodeIs ==
  ASSUME NEW s \in Seq(B64Symbol)
  PROVE  B64BytesOf(B64Valid(s), Decode(s))
<1>v. PICK v : v = B64Valid(s)  OBVIOUS
<1>w. v \in Seq(B64Char) /\ v \in Seq(B64Byte)
  <2>1. v \in Seq(B64Char)  BY <1>v, B64ValidIs
  <2>2. B64Char \subseteq B64Byte  BY DEF B64Char, B64Byte
  <2> QED  BY <2>1, <2>2, SeqMonotonic
<1>0. PICK n, q, r : n = 4 /\ q = Len(v) \div n /\ r = Len(v) % n  OBVIOUS
<1>1. /\ q \in Nat /\ r \in 0..3 /\ Len(v) = (4 * q) + r
      /\ \A g \in 1..q : /\ B64Groups(v, 4)[g] \in Seq(B64Byte) /\ Len(B64Groups(v, 4)[g]) = 4
                         /\ \A j \in 1..4 : B64Groups(v, 4)[g][j] = v[4 * (g - 1) + j]
      /\ B64Rest(v, 4) \in Seq(B64Byte) /\ Len(B64Rest(v, 4)) = r
      /\ \A j \in 1..r : B64Rest(v, 4)[j] = v[4 * q + j]
  <2>1. n \in 3..4  BY <1>0
  <2>2. /\ Len(v) \div n \in Nat /\ Len(v) % n \in 0..n - 1 /\ Len(v) = n * (Len(v) \div n) + (Len(v) % n)
        /\ \A g \in 1..Len(v) \div n :
              /\ B64Groups(v, n)[g] \in Seq(B64Byte) /\ Len(B64Groups(v, n)[g]) = n
              /\ \A j \in 1..n : B64Groups(v, n)[g][j] = v[n * (g - 1) + j]
        /\ B64Rest(v, n) \in Seq(B64Byte) /\ Len(B64Rest(v, n)) = Len(v) % n
        /\ \A j \in 1..Len(v) % n : B64Rest(v, n)[j] = v[n * (Len(v) \div n) + j]
    BY ONLY <1>w, <2>1, B64Parts
  <2>3. /\ q \in Nat /\ r \in 0..n - 1 /\ Len(v) = (n * q) + r
        /\ \A g \in 1..q :
              /\ B64Groups(v, n)[g] \in Seq(B64Byte) /\ Len(B64Groups(v, n)[g]) = n
              /\ \A j \in 1..n : B64Groups(v, n)[g][j] = v[n * (g - 1) + j]
        /\ B64Rest(v, n) \in Seq(B64Byte) /\ Len(B64Rest(v, n)) = r
        /\ \A j \in 1..r : B64Rest(v, n)[j] = v[n * q + j]
    BY ONLY <1>0, <2>2
  <2> QED  BY ONLY <1>0, <2>3
<1>2. PICK ss : ss = [g \in 1..Len(v) \div 4 |-> B64From4(B64Groups(v, 4)[g])]  OBVIOUS
<1>3. PICK rest : rest = B64Rest(v, 4)  OBVIOUS
<1>4. PICK t : t = IF rest = << >> THEN << >> ELSE SubSeq(B64FilledTail(rest), 1, Len(rest) - 1)  OBVIOUS
<1>5. Decode(s) = FlattenSeq(ss) \o t  BY <1>v, <1>2, <1>3, <1>4 DEF Decode
<1>6. ASSUME NEW g \in 1..q
      PROVE  /\ ss[g] \in Seq(B64Byte) /\ Len(ss[g]) = 3
             /\ ss[g][1] = B64Octet1(v[4 * (g - 1) + 1], v[4 * (g - 1) + 2])
             /\ ss[g][2] = B64Octet2(v[4 * (g - 1) + 2], v[4 * (g - 1) + 3])
             /\ ss[g][3] = B64Octet3(v[4 * (g - 1) + 3], v[4 * (g - 1) + 4])
  <2>1. PICK a : a = B64Groups(v, 4)[g]  OBVIOUS
  <2>2. a \in Seq(B64Byte) /\ Len(a) = 4 /\ \A j \in 1..4 : a[j] = v[4 * (g - 1) + j]  BY <1>1, <2>1
  <2>3. ss[g] = B64From4(a)  BY <1>0, <1>2, <2>1
  <2>4. /\ B64From4(a) \in Seq(B64Byte) /\ Len(B64From4(a)) = 3
        /\ B64From4(a)[1] = B64Octet1(a[1], a[2]) /\ B64From4(a)[2] = B64Octet2(a[2], a[3])
        /\ B64From4(a)[3] = B64Octet3(a[3], a[4])
    BY <2>2, B64From4Is DEF B64Octet1, B64Octet2, B64Octet3
  <2>5. /\ a[1] = v[4 * (g - 1) + 1] /\ a[2] = v[4 * (g - 1) + 2]
        /\ a[3] = v[4 * (g - 1) + 3] /\ a[4] = v[4 * (g - 1) + 4]
    BY <2>2
  <2> QED  BY <2>3, <2>4, <2>5
<1>7. ss \in [1..q -> Seq(B64Byte)] /\ \A g \in 1..q : Len(ss[g]) = 3
  <2>1. ss = [g \in 1..q |-> ss[g]]  BY <1>0, <1>2
  <2> QED  BY <1>6, <2>1
<1>8. PICK f : f = FlattenSeq(ss)  OBVIOUS
<1>9. f \in Seq(B64Byte) /\ Len(f) = 3 * q /\ \A g \in 1..q : \A j \in 1..3 : f[3 * (g - 1) + j] = ss[g][j]
  <2>1. PICK k : k = 3  OBVIOUS
  <2>2. k \in 3..4 /\ q \in Nat /\ \A g \in 1..q : Len(ss[g]) = k  BY <1>1, <1>7, <2>1
  <2>3. B64FlatOf(B64Byte, k, q, ss, f)  BY ONLY <1>7, <1>8, <2>2, B64FlatIs
  <2> QED  BY ONLY <2>1, <2>3 DEF B64FlatOf
<1>10. /\ t \in Seq(B64Byte) /\ Len(t) = IF r = 0 THEN 0 ELSE r - 1
       /\ r >= 2 => t[1] = B64Octet1(rest[1], rest[2])
       /\ r = 3 => t[2] = B64Octet2(rest[2], rest[3])
  <2>0. rest \in Seq(B64Byte) /\ Len(rest) = r  BY <1>1, <1>3
  <2>1. CASE r = 0
    <3>1. rest = << >>  BY <2>0, <2>1, EmptySeq
    <3>2. t = << >>  BY <1>4, <3>1
    <3> QED  BY <2>1, <3>2, EmptySeq
  <2>2. CASE r # 0
    <3>0. r \in 1..3 /\ rest # << >>  BY <1>1, <2>0, <2>2, EmptySeq
    <3>1. PICK a : a = B64Fill(rest, 4, 255)  OBVIOUS
    <3>2. a \in Seq(B64Byte) /\ Len(a) = 4 /\ \A j \in 1..4 : j <= r => a[j] = rest[j]
      <4>1. PICK k, x : k = 4 /\ x = 255  OBVIOUS
      <4>2. k \in 3..4 /\ x \in B64Byte /\ Len(rest) <= k  BY <2>0, <3>0, <4>1 DEF B64Byte
      <4>3. B64FillOf(B64Byte, rest, k, x, B64Fill(rest, k, x))
        <5>1. rest \in Seq(B64Byte) /\ k \in 3..4 /\ x \in B64Byte /\ Len(rest) <= k  BY <2>0, <4>2
        <5> QED  BY ONLY <5>1, B64FillIs
      <4> QED  BY ONLY <2>0, <3>1, <4>1, <4>3 DEF B64FillOf
    <3>3. PICK b : b = B64From4(a)  OBVIOUS
    <3>4. /\ b \in Seq(B64Byte) /\ Len(b) = 3
          /\ b[1] = B64Octet1(a[1], a[2]) /\ b[2] = B64Octet2(a[2], a[3])
      BY <3>2, <3>3, B64From4Is DEF B64Octet1, B64Octet2
    <3>5. PICK k : k = r - 1  OBVIOUS
    <3>6. t = SubSeq(b, 1, k)  BY <1>4, <2>0, <3>0, <3>1, <3>3, <3>5 DEF B64FilledTail
    <3>7. k \in 0..Len(b)  BY <3>0, <3>4, <3>5
    <3>8. t \in Seq(B64Byte) /\ Len(t) = k /\ \A i \in 1..k : t[i] = b[i]
      <4>1. b \in Seq(B64Byte)  BY <3>4
      <4> QED  BY ONLY <3>6, <3>7, <4>1, FpFirst
    <3>9. r >= 2 => t[1] = b[1] /\ a[1] = rest[1] /\ a[2] = rest[2]  BY <3>0, <3>2, <3>5, <3>8
    <3>10. r = 3 => t[2] = b[2] /\ a[2] = rest[2] /\ a[3] = rest[3]  BY <3>2, <3>5, <3>8
    <3> QED  BY <2>2, <3>4, <3>5, <3>8, <3>9, <3>10
  <2> QED  BY <2>1, <2>2
<1>11. PICK d : d = Decode(s)  OBVIOUS
<1>12. /\ d \in Seq(B64Byte) /\ Len(d) = Len(f) + Len(t)
       /\ \A i \in 1..Len(f) + Len(t) : d[i] = IF i <= Len(f) THEN f[i] ELSE t[i - Len(f)]
  <2>1. d = f \o t  BY <1>5, <1>8, <1>11
  <2> QED  BY <1>9, <1>10, <2>1, ConcatProperties
<1>13. Len(d) = 3 * q + (IF r = 0 THEN 0 ELSE r - 1)  BY <1>9, <1>10, <1>12
<1>14. ASSUME NEW g \in 1..q, NEW j \in 1..3 PROVE d[3 * (g - 1) + j] = ss[g][j]
  <2>1. 3 * (g - 1) + j \in 1..3 * q  BY <1>1
  <2>2. 3 * (g - 1) + j \in 1..Len(f) + Len(t) /\ 3 * (g - 1) + j <= Len(f)  BY <1>1, <1>9, <1>10, <2>1
  <2> QED  BY <1>9, <1>12, <2>2
<1>15. ASSUME r # 0, NEW j \in 1..r - 1 PROVE d[3 * q + j] = t[j]
  <2>1. Len(t) = r - 1 /\ Len(f) = 3 * q  BY <1>9, <1>10, <1>15
  <2>2. 3 * q + j \in 1..Len(f) + Len(t) /\ ~(3 * q + j <= Len(f)) /\ (3 * q + j) - Len(f) = j  BY <1>1, <2>1
  <2> QED  BY <1>12, <2>2
<1>16. ASSUME NEW g \in 1..q
       PROVE  /\ d[3 * (g - 1) + 1] = B64Octet1(v[4 * (g - 1) + 1], v[4 * (g - 1) + 2])
              /\ d[3 * (g - 1) + 2] = B64Octet2(v[4 * (g - 1) + 2], v[4 * (g - 1) + 3])
              /\ d[3 * (g - 1) + 3] = B64Octet3(v[4 * (g - 1) + 3], v[4 * (g - 1) + 4])
  <2>1. /\ d[3 * (g - 1) + 1] = ss[g][1] /\ d[3 * (g - 1) + 2] = ss[g][2] /\ d[3 * (g - 1) + 3] = ss[g][3]
    BY <1>14
  <2> QED  BY <1>6, <2>1
<1>17. r >= 2 => d[3 * q + 1] = B64Octet1(v[4 * q + 1], v[4 * q + 2])
  <2> SUFFICES ASSUME r >= 2 PROVE d[3 * q + 1] = B64Octet1(v[4 * q + 1], v[4 * q + 2])  OBVIOUS
  <2>1. d[3 * q + 1] = t[1]
    <3>1. r # 0 /\ 1 \in 1..r - 1  BY <1>1
    <3> QED  BY <1>15, <3>1
  <2>2. rest[1] = v[4 * q + 1] /\ rest[2] = v[4 * q + 2]  BY <1>1, <1>3
  <2> QED  BY <1>10, <2>1, <2>2
<1>18. r = 3 => d[3 * q + 2] = B64Octet2(v[4 * q + 2], v[4 * q + 3])
  <2> SUFFICES ASSUME r = 3 PROVE d[3 * q + 2] = B64Octet2(v[4 * q + 2], v[4 * q + 3])  OBVIOUS
  <2>1. d[3 * q + 2] = t[2]
    <3>1. r # 0 /\ 2 \in 1..r - 1  OBVIOUS
    <3> QED  BY <1>15, <3>1
  <2>2. rest[2] = v[4 * q + 2] /\ rest[3] = v[4 * q + 3]  BY <1>1, <1>3
  <2> QED  BY <1>10, <2>1, <2>2
<1>19. B64BytesOf(v, d)  BY <1>0, <1>12, <1>13, <1>16, <1>17, <1>18 DEF B64BytesOf
<1> QED  BY <1>v, <1>11, <1>19

(***************************************************************************)
(* There and back again: three bytes, made characters and bytes, are the   *)
(* same.                                                                   *)
(***************************************************************************)
LEMMA B64BytesAgain ==
  ASSUME NEW x \in B64Byte, NEW y \in B64Byte, NEW z \in B64Byte
  PROVE  /\ B64Octet1(x \div 4, (x % 4) * 16 + y \div 16) = x
         /\ B64Octet2((x % 4) * 16 + y \div 16, (y % 16) * 4 + z \div 64) = y
         /\ B64Octet3((y % 16) * 4 + z \div 64, z % 64) = z
         /\ B64Octet1(x \div 4, (x % 4) * 16) = x
         /\ B64Octet2((x % 4) * 16 + y \div 16, (y % 16) * 4) = y
<1>0. x \in 0..255 /\ y \in 0..255 /\ z \in 0..255  BY DEF B64Byte
<1>1. PICK c1, c2, c3, c4 : c1 = x \div 4 /\ c2 = (x % 4) * 16 + y \div 16 /\ c3 = (y % 16) * 4 + z \div 64 /\ c4 = z % 64
  OBVIOUS
<1>2. B64Octet1(c1, c2) = x  BY ONLY <1>0, <1>1 DEF B64Octet1
<1>3. B64Octet2(c2, c3) = y  BY ONLY <1>0, <1>1 DEF B64Octet2
<1>4. B64Octet3(c3, c4) = z  BY ONLY <1>0, <1>1 DEF B64Octet3
<1>5. B64Octet1(c1, (x % 4) * 16) = x  BY ONLY <1>0, <1>1 DEF B64Octet1
<1>6. B64Octet2(c2, (y % 16) * 4) = y  BY ONLY <1>0, <1>1 DEF B64Octet2
<1> QED  BY ONLY <1>1, <1>2, <1>3, <1>4, <1>5, <1>6

(* Four characters, made bytes and characters again, are the same. *)
LEMMA B64CharsAgain ==
  ASSUME NEW k \in B64Char, NEW l \in B64Char, NEW m \in B64Char, NEW n \in B64Char
  PROVE  /\ B64Octet1(k, l) \div 4 = k
         /\ (B64Octet1(k, l) % 4) * 16 + B64Octet2(l, m) \div 16 = l
         /\ (B64Octet2(l, m) % 16) * 4 + B64Octet3(m, n) \div 64 = m
         /\ B64Octet3(m, n) % 64 = n
<1>0. k \in 0..63 /\ l \in 0..63 /\ m \in 0..63 /\ n \in 0..63  BY DEF B64Char
<1>1. PICK x, y, z : x = B64Octet1(k, l) /\ y = B64Octet2(l, m) /\ z = B64Octet3(m, n)  OBVIOUS
<1>2. x = k * 4 + l \div 16  BY ONLY <1>0, <1>1 DEF B64Octet1
<1>3. y = (l % 16) * 16 + m \div 4  BY ONLY <1>0, <1>1 DEF B64Octet2
<1>4. z = (m % 4) * 64 + n  BY ONLY <1>0, <1>1 DEF B64Octet3
<1>5. x \div 4 = k  BY ONLY <1>0, <1>2
<1>6. (x % 4) * 16 + y \div 16 = l
  <2>1. x % 4 = l \div 16  BY ONLY <1>0, <1>2
  <2>2. y \div 16 = l % 16  BY ONLY <1>0, <1>3
  <2> QED  BY ONLY <1>0, <2>1, <2>2
<1>7. (y % 16) * 4 + z \div 64 = m
  <2>1. y % 16 = m \div 4  BY ONLY <1>0, <1>3
  <2>2. z \div 64 = m % 4  BY ONLY <1>0, <1>4
  <2> QED  BY ONLY <1>0, <2>1, <2>2
<1>8. z % 64 = n  BY ONLY <1>0, <1>4
<1> QED  BY ONLY <1>1, <1>5, <1>6, <1>7, <1>8

(* A place in the groups of n is a place of one of them. *)
LEMMA B64Place ==
  ASSUME NEW n \in 3..4, NEW q \in Nat, NEW i \in 1..n * q
  PROVE  \E g \in 1..q : \E j \in 1..n : i = n * (g - 1) + j
<1>0. n \in Nat \ {0} /\ n * q \in Nat
  <2>1. CASE n = 3  BY <2>1
  <2>2. CASE n = 4  BY <2>2
  <2> QED  BY <2>1, <2>2
<1>1. PICK a : a = i - 1  OBVIOUS
<1>2. a \in Nat  BY <1>0, <1>1
<1>3. a \div n \in Nat /\ a % n \in 0..n - 1 /\ a = (n * (a \div n)) + (a % n)  BY ONLY <1>0, <1>2, DivMod
<1>4. PICK b, c : b = a \div n /\ c = a % n  OBVIOUS
<1>5. b \in Nat /\ c \in 0..n - 1 /\ a = n * b + c  BY <1>3, <1>4
<1>6. PICK g, j : g = b + 1 /\ j = c + 1  OBVIOUS
<1>7. g \in 1..q /\ j \in 1..n /\ i = n * (g - 1) + j
  <2>1. CASE n = 3  BY <1>0, <1>1, <1>5, <1>6, <2>1
  <2>2. CASE n = 4  BY <1>0, <1>1, <1>5, <1>6, <2>2
  <2> QED  BY <2>1, <2>2
<1> QED  BY <1>7

(***************************************************************************)
(* The characters in front of the fill are all that decoding takes.        *)
(***************************************************************************)
B64KeptOf(s, e, v) ==
  LET w == IF Len(s) % 3 = 0 THEN 0 ELSE (Len(s) % 3) + 1
      n == 4 * (Len(s) \div 3) + w
  IN Len(v) = n /\ \A i \in 1..n : v[i] = e[i]

(* Those of an encoded text are all but its padding. *)
LEMMA B64ValidText ==
  ASSUME NEW s \in Seq(B64Byte), NEW e, B64TextOf(s, e)
  PROVE  e \in Seq(B64Symbol) /\ B64KeptOf(s, e, B64Valid(e))
<1>0. PICK q, r : q = Len(s) \div 3 /\ r = Len(s) % 3  OBVIOUS
<1>1. /\ q \in Nat /\ r \in 0..2 /\ Len(s) = (3 * q) + r
      /\ \A i \in 1..(3 * q) + r : s[i] \in B64Byte
  <2>1. PICK n : n = 3  OBVIOUS
  <2>2. n \in Nat \ {0} /\ Len(s) \in Nat  BY <2>1, LenProperties
  <2>3. PICK a : a = Len(s)  OBVIOUS
  <2>4. a \div n \in Nat /\ a % n \in 0..n - 1 /\ a = (n * (a \div n)) + (a % n)  BY ONLY <2>2, <2>3, DivMod
  <2>5. q \in Nat /\ r \in 0..n - 1 /\ a = (n * q) + r  BY <1>0, <2>1, <2>3, <2>4
  <2>6. q \in Nat /\ r \in 0..2 /\ Len(s) = (3 * q) + r  BY <2>1, <2>3, <2>5
  <2>7. \A i \in 1..Len(s) : s[i] \in B64Byte  BY ElementOfSeq
  <2> QED  BY <2>6, <2>7
<1>2. e \in Seq(B64Char \cup {B64Pad}) /\ Len(e) = 4 * q + (IF r = 0 THEN 0 ELSE 4)  BY <1>0 DEF B64TextOf
<1>3. e \in Seq(B64Symbol)
  <2>1. B64Char \cup {B64Pad} \subseteq B64Symbol  BY DEF B64Char, B64Pad, B64Symbol
  <2> QED  BY <1>2, <2>1, SeqMonotonic
<1>4. PICK w : w = IF r = 0 THEN 0 ELSE r + 1  OBVIOUS
<1>5. /\ w \in 0..3 /\ 4 * q + w <= Len(e) /\ Len(e) \in Nat
      /\ r = 0 => w = 0 /\ 4 * q + w = Len(e)
      /\ r = 1 => 4 * q + w + 1 = 4 * q + 3
      /\ r = 2 => 4 * q + w + 1 = 4 * q + 4
  <2>1. w \in 0..3 /\ (r = 0 => w = 0) /\ (r # 0 => w = r + 1)  BY ONLY <1>1, <1>4
  <2>2. PICK l : l = Len(e)  OBVIOUS
  <2>3. l \in Nat /\ (r = 0 => l = 4 * q) /\ (r # 0 => l = 4 * q + 4)
    <3>1. CASE r = 0  BY ONLY <1>1, <1>2, <2>2, <3>1
    <3>2. CASE r # 0  BY ONLY <1>1, <1>2, <2>2, <3>2
    <3> QED  BY <3>1, <3>2
  <2>4. CASE r = 0  BY ONLY <1>1, <2>1, <2>2, <2>3, <2>4
  <2>5. CASE r = 1  BY ONLY <1>1, <2>1, <2>2, <2>3, <2>5
  <2>6. CASE r = 2  BY ONLY <1>1, <2>1, <2>2, <2>3, <2>6
  <2>7. r = 0 \/ r = 1 \/ r = 2  BY ONLY <1>1
  <2> QED  BY ONLY <2>4, <2>5, <2>6, <2>7
<1>6. ASSUME NEW i \in 1..4 * q PROVE e[i] \in B64Char
  <2>1. \E g \in 1..q : \E j \in 1..4 : i = 4 * (g - 1) + j
    <3>1. PICK n : n = 4  OBVIOUS
    <3>2. n \in 3..4 /\ i \in 1..n * q  BY <3>1
    <3>3. \E g \in 1..q : \E j \in 1..n : i = n * (g - 1) + j  BY ONLY <1>1, <3>2, B64Place
    <3> QED  BY <3>1, <3>3
  <2>2. PICK g \in 1..q, j \in 1..4 : i = 4 * (g - 1) + j  BY <2>1
  <2>3. PICK x, y, z : x = s[3 * (g - 1) + 1] /\ y = s[3 * (g - 1) + 2] /\ z = s[3 * (g - 1) + 3]  OBVIOUS
  <2>4. x \in B64Byte /\ y \in B64Byte /\ z \in B64Byte
    <3>1. 3 * (g - 1) + 1 \in 1..(3 * q) + r /\ 3 * (g - 1) + 2 \in 1..(3 * q) + r /\ 3 * (g - 1) + 3 \in 1..(3 * q) + r
      BY <1>1
    <3> QED  BY <1>1, <2>3, <3>1
  <2>5. /\ e[4 * (g - 1) + 1] = x \div 4 /\ e[4 * (g - 1) + 2] = (x % 4) * 16 + y \div 16
        /\ e[4 * (g - 1) + 3] = (y % 16) * 4 + z \div 64 /\ e[4 * (g - 1) + 4] = z % 64
    BY <1>0, <2>3 DEF B64TextOf
  <2>6. /\ e[4 * (g - 1) + 1] \in B64Char /\ e[4 * (g - 1) + 2] \in B64Char
        /\ e[4 * (g - 1) + 3] \in B64Char /\ e[4 * (g - 1) + 4] \in B64Char
    BY ONLY <2>4, <2>5, B64Sextets
  <2>7. j = 1 \/ j = 2 \/ j = 3 \/ j = 4  OBVIOUS
  <2> QED  BY <2>2, <2>6, <2>7
<1>7. ASSUME NEW i \in 1..w PROVE e[4 * q + i] \in B64Char
  <2>1. PICK x, y : x = s[3 * q + 1] /\ y = IF r = 2 THEN s[3 * q + 2] ELSE 0  OBVIOUS
  <2>2. r # 0 /\ (r = 1 \/ r = 2)  BY <1>1, <1>4
  <2>3. x \in B64Byte /\ y \in B64Byte
    <3>1. 3 * q + 1 \in 1..(3 * q) + r /\ (r = 2 => 3 * q + 2 \in 1..(3 * q) + r)  BY <1>1, <2>2
    <3>2. 0 \in B64Byte  BY DEF B64Byte
    <3> QED  BY <1>1, <2>1, <3>1, <3>2
  <2>4. /\ e[4 * q + 1] = x \div 4
        /\ r = 1 => e[4 * q + 2] = (x % 4) * 16
        /\ r = 2 => e[4 * q + 2] = (x % 4) * 16 + y \div 16 /\ e[4 * q + 3] = (y % 16) * 4
    BY <1>0, <2>1, <2>2 DEF B64TextOf
  <2>5. /\ x \div 4 \in B64Char /\ (x % 4) * 16 \in B64Char /\ (x % 4) * 16 + y \div 16 \in B64Char
        /\ (y % 16) * 4 \in B64Char
    BY ONLY <2>3, B64Sextets
  <2>6. i = 1 \/ i = 2 \/ (r = 2 /\ i = 3)  BY <1>4, <2>2
  <2> QED  BY ONLY <2>2, <2>4, <2>5, <2>6
<1>8. ASSUME NEW i \in 1..4 * q + w PROVE e[i] \in B64Char
  <2>1. CASE i <= 4 * q  BY <1>1, <1>6, <2>1
  <2>2. CASE ~(i <= 4 * q)
    <3>1. i - 4 * q \in 1..w /\ 4 * q + (i - 4 * q) = i  BY <1>1, <1>5, <2>2
    <3> QED  BY <1>7, <3>1
  <2> QED  BY <2>1, <2>2
<1>9. 4 * q + w # Len(e) => ~(e[4 * q + w + 1] \in B64Char)
  <2> SUFFICES ASSUME 4 * q + w # Len(e) PROVE ~(e[4 * q + w + 1] \in B64Char)  OBVIOUS
  <2>1. r = 1 \/ r = 2  BY <1>1, <1>5
  <2>2. e[4 * q + w + 1] = B64Pad
    <3>1. CASE r = 1
      <4>1. 4 * q + w + 1 = 4 * q + 3  BY <1>5, <3>1
      <4> QED  BY <1>0, <3>1, <4>1 DEF B64TextOf
    <3>2. CASE r = 2
      <4>1. 4 * q + w + 1 = 4 * q + 4  BY <1>5, <3>2
      <4> QED  BY <1>0, <3>2, <4>1 DEF B64TextOf
    <3> QED  BY <2>1, <3>1, <3>2
  <2> QED  BY <2>2 DEF B64Pad, B64Char
<1>10. PICK v : v = B64Valid(e)  OBVIOUS
<1>11. /\ Len(v) \in 0..Len(e) /\ \A i \in 1..Len(v) : v[i] = e[i] /\ v[i] \in B64Char
       /\ Len(v) # Len(e) => ~(e[Len(v) + 1] \in B64Char)
  <2>1. /\ v \in Seq(B64Char) /\ Len(v) \in 0..Len(e) /\ \A i \in 1..Len(v) : v[i] = e[i]
        /\ Len(v) # Len(e) => ~(e[Len(v) + 1] \in B64Char)
    BY <1>3, <1>10, B64ValidIs
  <2> QED  BY <2>1, ElementOfSeq
<1>12. Len(v) = 4 * q + w
  <2>1. ASSUME Len(v) < 4 * q + w PROVE FALSE
    <3>1. Len(v) + 1 \in 1..4 * q + w /\ Len(v) # Len(e)  BY <1>1, <1>5, <1>11, <2>1
    <3> QED  BY <1>8, <1>11, <3>1
  <2>2. ASSUME Len(v) > 4 * q + w PROVE FALSE
    <3>1. 4 * q + w + 1 \in 1..Len(v) /\ 4 * q + w # Len(e)  BY <1>1, <1>5, <1>11, <2>2
    <3> QED  BY <1>9, <1>11, <3>1
  <2> QED  BY <1>1, <1>5, <1>11, <2>1, <2>2
<1>13. \A i \in 1..4 * q + w : v[i] = e[i]  BY <1>11, <1>12
<1>14. B64KeptOf(s, e, v)  BY ONLY <1>0, <1>4, <1>12, <1>13 DEF B64KeptOf
<1> QED  BY <1>3, <1>10, <1>14

(***************************************************************************)
(* Decoding undoes encoding.                                               *)
(***************************************************************************)
LEMMA B64RoundTrips ==
  ASSUME NEW s \in Seq(B64Byte)
  PROVE  Decode(Encode(s)) = s /\ Len(Encode(s)) = 4 * ((Len(s) + 2) \div 3)
<1>1. PICK q, r, l : q = Len(s) \div 3 /\ r = Len(s) % 3 /\ l = Len(s)  OBVIOUS
<1>2. q \in Nat /\ r \in 0..2 /\ l = (3 * q) + r /\ \A i \in 1..l : s[i] \in B64Byte
  <2>1. PICK n : n = 3  OBVIOUS
  <2>2. n \in Nat \ {0} /\ l \in Nat  BY <1>1, <2>1, LenProperties
  <2>3. l \div n \in Nat /\ l % n \in 0..n - 1 /\ l = (n * (l \div n)) + (l % n)  BY ONLY <2>2, DivMod
  <2>4. q \in Nat /\ r \in 0..n - 1 /\ l = (n * q) + r  BY <1>1, <2>1, <2>3
  <2>5. q \in Nat /\ r \in 0..2 /\ l = (3 * q) + r  BY ONLY <2>1, <2>4
  <2> QED  BY <1>1, <2>5, ElementOfSeq
<1>3. PICK e : e = Encode(s)  OBVIOUS
<1>4. B64TextOf(s, e)  BY <1>3, B64EncodeIs
<1>5. PICK w : w = IF r = 0 THEN 0 ELSE r + 1  OBVIOUS
<1>6. w \in 0..3 /\ (r = 0 => w = 0) /\ (r # 0 => w = r + 1)  BY ONLY <1>2, <1>5
<1>7. PICK v : v = B64Valid(e)  OBVIOUS
<1>8. e \in Seq(B64Symbol) /\ Len(v) = 4 * q + w /\ \A i \in 1..4 * q + w : v[i] = e[i]
  <2>1. e \in Seq(B64Symbol) /\ B64KeptOf(s, e, v)  BY <1>4, <1>7, B64ValidText
  <2> QED  BY ONLY <1>1, <1>5, <2>1 DEF B64KeptOf
<1>9. PICK d : d = Decode(e)  OBVIOUS
<1>10. /\ d \in Seq(B64Byte) /\ Len(d) = 3 * q + (IF w = 0 THEN 0 ELSE w - 1)
       /\ \A g \in 1..q :
            /\ d[3 * (g - 1) + 1] = B64Octet1(v[4 * (g - 1) + 1], v[4 * (g - 1) + 2])
            /\ d[3 * (g - 1) + 2] = B64Octet2(v[4 * (g - 1) + 2], v[4 * (g - 1) + 3])
            /\ d[3 * (g - 1) + 3] = B64Octet3(v[4 * (g - 1) + 3], v[4 * (g - 1) + 4])
       /\ w >= 2 => d[3 * q + 1] = B64Octet1(v[4 * q + 1], v[4 * q + 2])
       /\ w = 3 => d[3 * q + 2] = B64Octet2(v[4 * q + 2], v[4 * q + 3])
  <2>1. B64BytesOf(v, d)  BY <1>7, <1>8, <1>9, B64DecodeIs
  <2>2. PICK a : a = Len(v)  OBVIOUS
  <2>3. a = 4 * q + w  BY <1>8, <2>2
  <2>4. a \div 4 = q /\ a % 4 = w  BY ONLY <1>2, <1>6, <2>3
  <2>5. q = Len(v) \div 4 /\ w = Len(v) % 4  BY <2>2, <2>4
  <2> QED  BY ONLY <2>1, <2>5 DEF B64BytesOf
<1>11. Len(d) = l
  <2>1. CASE r = 0  BY ONLY <1>2, <1>6, <1>10, <2>1
  <2>2. CASE r # 0  BY ONLY <1>2, <1>6, <1>10, <2>2
  <2> QED  BY <2>1, <2>2
<1>12. ASSUME NEW i \in 1..3 * q PROVE d[i] = s[i]
  <2>1. \E g \in 1..q : \E j \in 1..3 : i = 3 * (g - 1) + j
    <3>1. PICK n : n = 3  OBVIOUS
    <3>2. n \in 3..4 /\ i \in 1..n * q  BY <3>1
    <3>3. \E g \in 1..q : \E j \in 1..n : i = n * (g - 1) + j  BY ONLY <1>2, <3>2, B64Place
    <3> QED  BY <3>1, <3>3
  <2>2. PICK g \in 1..q, j \in 1..3 : i = 3 * (g - 1) + j  BY <2>1
  <2>3. PICK x, y, z : x = s[3 * (g - 1) + 1] /\ y = s[3 * (g - 1) + 2] /\ z = s[3 * (g - 1) + 3]  OBVIOUS
  <2>4. x \in B64Byte /\ y \in B64Byte /\ z \in B64Byte
    <3>1. 3 * (g - 1) + 1 \in 1..l /\ 3 * (g - 1) + 2 \in 1..l /\ 3 * (g - 1) + 3 \in 1..l  BY <1>2
    <3> QED  BY <1>2, <2>3, <3>1
  <2>5. /\ e[4 * (g - 1) + 1] = x \div 4 /\ e[4 * (g - 1) + 2] = (x % 4) * 16 + y \div 16
        /\ e[4 * (g - 1) + 3] = (y % 16) * 4 + z \div 64 /\ e[4 * (g - 1) + 4] = z % 64
    BY <1>1, <1>4, <2>3 DEF B64TextOf
  <2>6. /\ v[4 * (g - 1) + 1] = e[4 * (g - 1) + 1] /\ v[4 * (g - 1) + 2] = e[4 * (g - 1) + 2]
        /\ v[4 * (g - 1) + 3] = e[4 * (g - 1) + 3] /\ v[4 * (g - 1) + 4] = e[4 * (g - 1) + 4]
    <3>1. /\ 4 * (g - 1) + 1 \in 1..4 * q + w /\ 4 * (g - 1) + 2 \in 1..4 * q + w
          /\ 4 * (g - 1) + 3 \in 1..4 * q + w /\ 4 * (g - 1) + 4 \in 1..4 * q + w
      BY <1>2, <1>6
    <3> QED  BY <1>8, <3>1
  <2>7. d[3 * (g - 1) + 1] = x /\ d[3 * (g - 1) + 2] = y /\ d[3 * (g - 1) + 3] = z
    <3>1. /\ B64Octet1(x \div 4, (x % 4) * 16 + y \div 16) = x
          /\ B64Octet2((x % 4) * 16 + y \div 16, (y % 16) * 4 + z \div 64) = y
          /\ B64Octet3((y % 16) * 4 + z \div 64, z % 64) = z
      BY ONLY <2>4, B64BytesAgain
    <3> QED  BY ONLY <1>10, <2>5, <2>6, <3>1
  <2>8. j = 1 \/ j = 2 \/ j = 3  OBVIOUS
  <2> QED  BY ONLY <2>2, <2>3, <2>7, <2>8
<1>13. ASSUME NEW i \in 1..r PROVE d[3 * q + i] = s[3 * q + i]
  <2>1. PICK x, y : x = s[3 * q + 1] /\ y = IF r = 2 THEN s[3 * q + 2] ELSE 0  OBVIOUS
  <2>2. r = 1 \/ r = 2  BY <1>2
  <2>3. x \in B64Byte /\ y \in B64Byte
    <3>1. 3 * q + 1 \in 1..l /\ (r = 2 => 3 * q + 2 \in 1..l)  BY <1>2, <2>2
    <3>2. 0 \in B64Byte  BY DEF B64Byte
    <3> QED  BY <1>2, <2>1, <3>1, <3>2
  <2>4. /\ e[4 * q + 1] = x \div 4
        /\ r = 1 => e[4 * q + 2] = (x % 4) * 16
        /\ r = 2 => e[4 * q + 2] = (x % 4) * 16 + y \div 16 /\ e[4 * q + 3] = (y % 16) * 4
    BY <1>1, <1>4, <2>1, <2>2 DEF B64TextOf
  <2>5. v[4 * q + 1] = e[4 * q + 1] /\ v[4 * q + 2] = e[4 * q + 2] /\ (r = 2 => v[4 * q + 3] = e[4 * q + 3])
    <3>1. /\ 4 * q + 1 \in 1..4 * q + w /\ 4 * q + 2 \in 1..4 * q + w
          /\ r = 2 => 4 * q + 3 \in 1..4 * q + w
      BY <1>2, <1>6, <2>2
    <3> QED  BY <1>8, <3>1
  <2>6. w >= 2 /\ (r = 2 => w = 3)  BY <1>6, <2>2
  <2>7. /\ B64Octet1(x \div 4, (x % 4) * 16 + y \div 16) = x
        /\ B64Octet1(x \div 4, (x % 4) * 16) = x
        /\ B64Octet2((x % 4) * 16 + y \div 16, (y % 16) * 4) = y
    BY ONLY <2>3, B64BytesAgain
  <2>8. d[3 * q + 1] = x /\ (r = 2 => d[3 * q + 2] = y)  BY ONLY <1>10, <2>2, <2>4, <2>5, <2>6, <2>7
  <2>9. i = 1 \/ (r = 2 /\ i = 2)  BY <2>2
  <2> QED  BY ONLY <2>1, <2>8, <2>9
<1>14. ASSUME NEW i \in 1..l PROVE d[i] = s[i]
  <2>1. CASE i <= 3 * q  BY <1>2, <1>12, <2>1
  <2>2. CASE ~(i <= 3 * q)
    <3>1. i - 3 * q \in 1..r /\ 3 * q + (i - 3 * q) = i  BY <1>2, <2>2
    <3> QED  BY <1>13, <3>1
  <2> QED  BY <2>1, <2>2
<1>15. d = s  BY <1>1, <1>10, <1>11, <1>14, SeqEqual
<1>16. Len(e) = 4 * ((l + 2) \div 3)
  <2>1. Len(e) = 4 * q + (IF r = 0 THEN 0 ELSE 4)  BY <1>1, <1>4 DEF B64TextOf
  <2>2. PICK a : a = (l + 2) \div 3  OBVIOUS
  <2>3. a = q + (IF r = 0 THEN 0 ELSE 1)
    <3>1. CASE r = 0  BY ONLY <1>2, <2>2, <3>1
    <3>2. CASE r = 1  BY ONLY <1>2, <2>2, <3>2
    <3>3. CASE r = 2  BY ONLY <1>2, <2>2, <3>3
    <3>4. r = 0 \/ r = 1 \/ r = 2  BY ONLY <1>2
    <3> QED  BY <3>1, <3>2, <3>3, <3>4
  <2>4. CASE r = 0  BY ONLY <1>2, <2>1, <2>2, <2>3, <2>4
  <2>5. CASE r # 0  BY ONLY <1>2, <2>1, <2>2, <2>3, <2>5
  <2> QED  BY <2>4, <2>5
<1> QED  BY ONLY <1>1, <1>3, <1>9, <1>15, <1>16

(***************************************************************************)
(* Of any text the whole bytes are decoded, and encoding them gives their  *)
(* characters again.                                                       *)
(***************************************************************************)
B64WholeOf(s, v, n) ==
  /\ Len(Decode(s)) = n
  /\ \A i \in 1..(8 * n) \div 6 : Encode(Decode(s))[i] = v[i]

(* Encoding what was decoded gives those characters. *)
LEMMA B64Prefix ==
  ASSUME NEW s \in Seq(B64Symbol), NEW v, v = B64Valid(s), NEW n, n = (6 * Len(v)) \div 8
  PROVE  B64WholeOf(s, v, n)
<1>1. PICK q, w, l : q = Len(v) \div 4 /\ w = Len(v) % 4 /\ l = Len(v)  OBVIOUS
<1>2. q \in Nat /\ w \in 0..3 /\ l = (4 * q) + w /\ \A i \in 1..l : v[i] \in B64Char
  <2>1. PICK k : k = 4  OBVIOUS
  <2>0. v \in Seq(B64Char)  BY B64ValidIs
  <2>2. k \in Nat \ {0} /\ l \in Nat  BY <1>1, <2>0, <2>1, LenProperties
  <2>3. l \div k \in Nat /\ l % k \in 0..k - 1 /\ l = (k * (l \div k)) + (l % k)  BY ONLY <2>2, DivMod
  <2>4. q \in Nat /\ w \in 0..k - 1 /\ l = (k * q) + w  BY <1>1, <2>1, <2>3
  <2>5. q \in Nat /\ w \in 0..3 /\ l = (4 * q) + w  BY ONLY <2>1, <2>4
  <2> QED  BY <1>1, <2>0, <2>5, ElementOfSeq
<1>3. PICK r : r = IF w = 0 THEN 0 ELSE w - 1  OBVIOUS
<1>4. r \in 0..2 /\ (r = 1 => w = 2) /\ (r = 2 => w = 3)  BY ONLY <1>2, <1>3
<1>5. PICK d : d = Decode(s)  OBVIOUS
<1>6. /\ d \in Seq(B64Byte) /\ Len(d) = 3 * q + r
      /\ \A g \in 1..q :
           /\ d[3 * (g - 1) + 1] = B64Octet1(v[4 * (g - 1) + 1], v[4 * (g - 1) + 2])
           /\ d[3 * (g - 1) + 2] = B64Octet2(v[4 * (g - 1) + 2], v[4 * (g - 1) + 3])
           /\ d[3 * (g - 1) + 3] = B64Octet3(v[4 * (g - 1) + 3], v[4 * (g - 1) + 4])
      /\ w >= 2 => d[3 * q + 1] = B64Octet1(v[4 * q + 1], v[4 * q + 2])
      /\ w = 3 => d[3 * q + 2] = B64Octet2(v[4 * q + 2], v[4 * q + 3])
  <2>1. B64BytesOf(v, d)  BY <1>5, B64DecodeIs
  <2> QED  BY ONLY <1>1, <1>3, <2>1 DEF B64BytesOf
<1>7. n = 3 * q + r /\ (8 * n) \div 6 = 4 * q + r
  <2>1. n = (6 * l) \div 8  BY <1>1
  <2>2. w = 0 \/ w = 1 \/ w = 2 \/ w = 3  BY ONLY <1>2
  <2>3. CASE w = 0  BY ONLY <1>2, <1>3, <2>1, <2>3
  <2>4. CASE w = 1  BY ONLY <1>2, <1>3, <2>1, <2>4
  <2>5. CASE w = 2  BY ONLY <1>2, <1>3, <2>1, <2>5
  <2>6. CASE w = 3  BY ONLY <1>2, <1>3, <2>1, <2>6
  <2> QED  BY <2>2, <2>3, <2>4, <2>5, <2>6
<1>8. PICK e : e = Encode(d)  OBVIOUS
<1>9. /\ \A g \in 1..q :
           /\ e[4 * (g - 1) + 1] = d[3 * (g - 1) + 1] \div 4
           /\ e[4 * (g - 1) + 2] = (d[3 * (g - 1) + 1] % 4) * 16 + d[3 * (g - 1) + 2] \div 16
           /\ e[4 * (g - 1) + 3] = (d[3 * (g - 1) + 2] % 16) * 4 + d[3 * (g - 1) + 3] \div 64
           /\ e[4 * (g - 1) + 4] = d[3 * (g - 1) + 3] % 64
      /\ r = 1 => e[4 * q + 1] = d[3 * q + 1] \div 4
      /\ r = 2 => /\ e[4 * q + 1] = d[3 * q + 1] \div 4
                  /\ e[4 * q + 2] = (d[3 * q + 1] % 4) * 16 + d[3 * q + 2] \div 16
  <2>1. B64TextOf(d, e)  BY <1>6, <1>8, B64EncodeIs
  <2>2. PICK a : a = Len(d)  OBVIOUS
  <2>3. a = 3 * q + r  BY <1>6, <2>2
  <2>4. a \div 3 = q /\ a % 3 = r  BY ONLY <1>2, <1>4, <2>3
  <2>5. q = Len(d) \div 3 /\ r = Len(d) % 3  BY <2>2, <2>4
  <2> QED  BY ONLY <2>1, <2>5 DEF B64TextOf
<1>10. ASSUME NEW i \in 1..4 * q PROVE e[i] = v[i]
  <2>1. \E g \in 1..q : \E j \in 1..4 : i = 4 * (g - 1) + j
    <3>1. PICK k : k = 4  OBVIOUS
    <3>2. k \in 3..4 /\ i \in 1..k * q  BY <3>1
    <3>3. \E g \in 1..q : \E j \in 1..k : i = k * (g - 1) + j  BY ONLY <1>2, <3>2, B64Place
    <3> QED  BY <3>1, <3>3
  <2>2. PICK g \in 1..q, j \in 1..4 : i = 4 * (g - 1) + j  BY <2>1
  <2>3. PICK c1, c2, c3, c4 : /\ c1 = v[4 * (g - 1) + 1] /\ c2 = v[4 * (g - 1) + 2]
                              /\ c3 = v[4 * (g - 1) + 3] /\ c4 = v[4 * (g - 1) + 4]
    OBVIOUS
  <2>4. c1 \in B64Char /\ c2 \in B64Char /\ c3 \in B64Char /\ c4 \in B64Char
    <3>1. /\ 4 * (g - 1) + 1 \in 1..l /\ 4 * (g - 1) + 2 \in 1..l
          /\ 4 * (g - 1) + 3 \in 1..l /\ 4 * (g - 1) + 4 \in 1..l
      BY <1>2
    <3> QED  BY <1>2, <2>3, <3>1
  <2>5. /\ d[3 * (g - 1) + 1] = B64Octet1(c1, c2) /\ d[3 * (g - 1) + 2] = B64Octet2(c2, c3)
        /\ d[3 * (g - 1) + 3] = B64Octet3(c3, c4)
    BY ONLY <1>6, <2>3
  <2>6. /\ e[4 * (g - 1) + 1] = c1 /\ e[4 * (g - 1) + 2] = c2
        /\ e[4 * (g - 1) + 3] = c3 /\ e[4 * (g - 1) + 4] = c4
    <3>1. /\ B64Octet1(c1, c2) \div 4 = c1
          /\ (B64Octet1(c1, c2) % 4) * 16 + B64Octet2(c2, c3) \div 16 = c2
          /\ (B64Octet2(c2, c3) % 16) * 4 + B64Octet3(c3, c4) \div 64 = c3
          /\ B64Octet3(c3, c4) % 64 = c4
      BY ONLY <2>4, B64CharsAgain
    <3> QED  BY ONLY <1>9, <2>5, <3>1
  <2>7. j = 1 \/ j = 2 \/ j = 3 \/ j = 4  OBVIOUS
  <2> QED  BY ONLY <2>2, <2>3, <2>6, <2>7
<1>11. ASSUME NEW i \in 1..r PROVE e[4 * q + i] = v[4 * q + i]
  <2>1. PICK c1, c2, c3 : c1 = v[4 * q + 1] /\ c2 = v[4 * q + 2] /\ c3 = IF r = 2 THEN v[4 * q + 3] ELSE 0
    OBVIOUS
  <2>2. (r = 1 \/ r = 2) /\ w >= 2 /\ (r = 2 => w = 3)  BY <1>2, <1>4
  <2>3. c1 \in B64Char /\ c2 \in B64Char /\ c3 \in B64Char
    <3>1. 4 * q + 1 \in 1..l /\ 4 * q + 2 \in 1..l /\ (r = 2 => 4 * q + 3 \in 1..l)  BY <1>2, <2>2
    <3>2. 0 \in B64Char  BY DEF B64Char
    <3> QED  BY <1>2, <2>1, <3>1, <3>2
  <2>4. d[3 * q + 1] = B64Octet1(c1, c2) /\ (r = 2 => d[3 * q + 2] = B64Octet2(c2, c3))
    BY ONLY <1>6, <2>1, <2>2
  <2>5. /\ B64Octet1(c1, c2) \div 4 = c1
        /\ (B64Octet1(c1, c2) % 4) * 16 + B64Octet2(c2, c3) \div 16 = c2
    BY ONLY <2>3, B64CharsAgain
  <2>6. e[4 * q + 1] = c1 /\ (r = 2 => e[4 * q + 2] = c2)  BY ONLY <1>9, <2>2, <2>4, <2>5
  <2>7. i = 1 \/ (r = 2 /\ i = 2)  BY <2>2
  <2> QED  BY ONLY <2>1, <2>6, <2>7
<1>12. ASSUME NEW i \in 1..4 * q + r PROVE e[i] = v[i]
  <2>1. CASE i <= 4 * q  BY <1>2, <1>10, <2>1
  <2>2. CASE ~(i <= 4 * q)
    <3>1. i - 4 * q \in 1..r /\ 4 * q + (i - 4 * q) = i  BY <1>2, <1>4, <2>2
    <3> QED  BY <1>11, <3>1
  <2> QED  BY <2>1, <2>2
<1> QED  BY ONLY <1>5, <1>6, <1>7, <1>8, <1>12 DEF B64WholeOf

(***************************************************************************)
(* What is encoded are bytes, what is decoded are characters.              *)
(***************************************************************************)
B64Inv == b64Bytes \in Seq(B64Byte) /\ b64Chars \in Seq(B64Symbol)

(***************************************************************************)
(* Decoding gives back what was encoded, and of any text it decodes the    *)
(* whole bytes in front of the first character that is not valid.          *)
(***************************************************************************)
THEOREM B64IsRight == B64Spec => []B64IsCode
<1>1. B64Init => B64Inv  BY EmptySeq DEF B64Init, B64Inv
<1>2. B64Inv /\ [B64Next]_b64Vars => B64Inv'
  <2> SUFFICES ASSUME B64Inv, [B64Next]_b64Vars PROVE B64Inv'  OBVIOUS
  <2>1. B64Bytes \subseteq B64Byte /\ B64Chars \subseteq B64Symbol
    BY B64Assumption DEF B64Byte, B64Symbol, B64Pad, B64Invalid
  <2>2. ASSUME NEW s \in SeqOf(B64Bytes, B64MaxBytes), B64EncodeCall(s) PROVE B64Inv'
    <3>1. s \in Seq(B64Bytes)  BY B64Assumption, SeqDef DEF SeqOf
    <3>2. s \in Seq(B64Byte)  BY <2>1, <3>1, SeqMonotonic
    <3> QED  BY <2>2, <3>2 DEF B64EncodeCall, B64Inv
  <2>3. ASSUME NEW s \in SeqOf(B64Chars, B64MaxChars), B64DecodeCall(s) PROVE B64Inv'
    <3>1. s \in Seq(B64Chars)  BY B64Assumption, SeqDef DEF SeqOf
    <3>2. s \in Seq(B64Symbol)  BY <2>1, <3>1, SeqMonotonic
    <3> QED  BY <2>3, <3>2 DEF B64DecodeCall, B64Inv
  <2>4. CASE UNCHANGED b64Vars  BY <2>4 DEF b64Vars, B64Inv
  <2> QED  BY <2>2, <2>3, <2>4 DEF B64Next
<1>3. B64Inv => B64IsCode
  <2> SUFFICES ASSUME B64Inv PROVE B64IsCode  OBVIOUS
  <2>1. B64RoundTrip  BY B64RoundTrips DEF B64Inv, B64RoundTrip
  <2>2. B64DecodesPrefix
    <3>1. PICK c, v, n : c = b64Chars /\ v = B64Valid(c) /\ n = (6 * Len(v)) \div 8  OBVIOUS
    <3>2. c \in Seq(B64Symbol)  BY <3>1 DEF B64Inv
    <3>3. B64WholeOf(c, v, n)  BY ONLY <3>1, <3>2, B64Prefix
    <3> QED  BY ONLY <3>1, <3>3 DEF B64DecodesPrefix, B64WholeOf
  <2> QED  BY <2>1, <2>2 DEF B64IsCode
<1> QED  BY <1>1, <1>2, <1>3, PTL DEF B64Spec
=============================================================================
