----------------------------- MODULE HashProofs -----------------------------
(***************************************************************************)
(* Proofs about the hashes: for every size of a block and of a word of the *)
(* counter, every message, however it is cut into pieces, is padded as the *)
(* standards say.                                                          *)
(*                                                                         *)
(* The argument: a context holds its message when the whole blocks of it   *)
(* are compressed and the rest is at the front of the buffer (DgHolds);    *)
(* feeding, byte by byte or piece by piece, keeps that and the counter;    *)
(* and padding is feeding the mark, the zeros and the length.              *)
(***************************************************************************)
EXTENDS Hmac, QueueLemmas, TLAPS

-----------------------------------------------------------------------------
(***************************************************************************)
(* A fold over the bytes s goes through the contexts f[0] = c, f[1], f[2], *)
(* ...  It is made of a recursive function on the sets of positions, of    *)
(* which DgFold says what it is for two of the updates.                    *)
(***************************************************************************)
DgOneByte(c, byte) == SHA1Update(c, <<byte>>)

DgFold(g, n, c, s, sha256) ==
  g = [x \in SUBSET (1..n) |->
         IF x = {} THEN c
         ELSE IF sha256 THEN Sha256Byte(g[x \ {Max(x)}], s[Max(x)])
                        ELSE DgOneByte(g[x \ {Max(x)}], s[Max(x)])]

(* The greatest of the first numbers, and of a set that has the next one. *)
LEMMA MaxOfFirst ==
  ASSUME NEW n \in Nat, NEW x \in SUBSET (1..n + 1), n + 1 \in x
  PROVE  Max(x) = n + 1 /\ x \ {Max(x)} \in SUBSET (1..n)
<1>1. x \in SUBSET Int /\ \A y \in x : y <= n + 1  OBVIOUS
<1>2. Max(x) \in x /\ \A y \in x : Max(x) >= y  BY <1>1, GreatestIs
<1>3. Max(x) \in Int /\ Max(x) >= n + 1 /\ Max(x) <= n + 1  BY <1>1, <1>2
<1>4. Max(x) = n + 1  BY <1>3
<1>5. \A y \in x : y # n + 1 => y \in 1..n  OBVIOUS
<1> QED  BY <1>4, <1>5

(* There is such a function for every number of bytes. *)
LEMMA DgFoldsExist ==
  ASSUME NEW c, NEW s, NEW sha256 \in BOOLEAN
  PROVE  \A n \in Nat : \E g : DgFold(g, n, c, s, sha256)
<1> DEFINE op(d, byte) == IF sha256 THEN Sha256Byte(d, byte) ELSE DgOneByte(d, byte)
           Is(g, n) == g = [x \in SUBSET (1..n) |-> IF x = {} THEN c ELSE op(g[x \ {Max(x)}], s[Max(x)])]
           Bad == {n \in Nat : ~\E g : Is(g, n)}
<1>1. \A g, n : Is(g, n) => DgFold(g, n, c, s, sha256)  BY DEF DgFold
<1> HIDE DEF op, Is
<1> SUFFICES ASSUME Bad # {} PROVE FALSE
  <2>1. \A n \in Nat : n \notin Bad => \E g : Is(g, n)  OBVIOUS
  <2> QED  BY <1>1, <2>1
<1>2. PICK n \in Nat : n \in Bad /\ \A m \in Bad : n <= m  BY LeastIs
<1> USE DEF Is
<1>3. CASE n = 0
  <2> DEFINE g == [x \in SUBSET (1..n) |-> c]
  <2>1. \A x \in SUBSET (1..n) : x = {}  BY <1>3
  <2>2. Is(g, n)  BY <2>1
  <2> QED  BY <2>2, <1>2
<1>4. CASE n # 0
  <2>1. n - 1 \in Nat /\ ~(n <= n - 1)  BY <1>2, <1>4
  <2>2. PICK m \in Nat : n = m + 1 /\ m \notin Bad
    <3>1. n - 1 \notin Bad
      <4> HIDE DEF Bad
      <4> QED  BY <2>1, <1>2
    <3>2. n = (n - 1) + 1  OBVIOUS
    <3> QED  BY <2>1, <3>1, <3>2
  <2>3. PICK f : Is(f, m)  BY <2>2
  <2> DEFINE g == [x \in SUBSET (1..m + 1) |-> IF m + 1 \in x THEN op(f[x \ {m + 1}], s[m + 1]) ELSE f[x]]
  <2>4. ASSUME NEW x \in SUBSET (1..m + 1)
        PROVE  g[x] = IF x = {} THEN c ELSE op(g[x \ {Max(x)}], s[Max(x)])
    <3>1. CASE m + 1 \in x
      <4>1. Max(x) = m + 1 /\ x \ {Max(x)} \in SUBSET (1..m)  BY <3>1, <2>2, MaxOfFirst
      <4>2. g[x \ {m + 1}] = f[x \ {m + 1}]  BY <4>1
      <4> QED  BY <3>1, <4>1, <4>2
    <3>2. CASE m + 1 \notin x
      <4>1. x \in SUBSET (1..m)
        <5>1. \A i \in 1..m + 1 : i = m + 1 \/ i \in 1..m  BY <2>2
        <5> QED  BY <3>2, <5>1
      <4>2. x \ {Max(x)} \in SUBSET (1..m + 1) /\ m + 1 \notin x \ {Max(x)}  BY <3>2
      <4>3. g[x \ {Max(x)}] = f[x \ {Max(x)}] /\ g[x] = f[x]  BY <3>2, <4>2
      <4>4. f[x] = IF x = {} THEN c ELSE op(f[x \ {Max(x)}], s[Max(x)])  BY <2>3, <4>1
      <4> QED  BY <4>3, <4>4
    <3> QED  BY <3>1, <3>2
  <2> DEFINE h == [x \in SUBSET (1..m + 1) |-> IF x = {} THEN c ELSE op(g[x \ {Max(x)}], s[Max(x)])]
  <2>5. g = h
    <3> HIDE DEF op
    <3> QED  BY <2>4
  <2>6. Is(g, n)  BY <2>5, <2>2
  <2> QED  BY <2>6, <1>2
<1> QED  BY <1>3, <1>4

(***************************************************************************)
(* A fold over bytes ends where the contexts end that follow each other,   *)
(* each by one byte.                                                       *)
(***************************************************************************)
LEMMA DgFoldIs ==
  ASSUME NEW A, NEW s \in Seq(A), NEW c, NEW sha256 \in BOOLEAN
  PROVE  \E f : /\ f[0] = c
                /\ \A i \in 1..Len(s) : f[i] = IF sha256 THEN Sha256Byte(f[i - 1], s[i]) ELSE DgOneByte(f[i - 1], s[i])
                /\ f[Len(s)] = IF sha256 THEN FoldLeft(Sha256Byte, c, s)
                               ELSE FoldLeft(LAMBDA d, byte : SHA1Update(d, <<byte>>), c, s)
<1> DEFINE n == Len(s)
           op(d, byte) == IF sha256 THEN Sha256Byte(d, byte) ELSE DgOneByte(d, byte)
           Body(h) == [x \in SUBSET (1..n) |-> IF x = {} THEN c ELSE op(h[x \ {Max(x)}], s[Max(x)])]
           g == CHOOSE h : h = Body(h)
           f == [i \in 0..n |-> g[1..i]]
<1>1. n \in Nat /\ DOMAIN s = 1..n  BY LenProperties
<1>2. \E h : h = Body(h)
  <2>1. PICK h : DgFold(h, n, c, s, sha256)  BY <1>1, DgFoldsExist
  <2> QED  BY <2>1 DEF DgFold
<1>3. g = Body(g)
  <2> HIDE DEF Body
  <2> QED  BY <1>2
<1>4. g[1..n] = IF sha256 THEN FoldLeft(Sha256Byte, c, s)
                ELSE FoldLeft(LAMBDA d, byte : SHA1Update(d, <<byte>>), c, s)
  <2>1. CASE sha256
    <3>1. g = (CHOOSE h : h = [x \in SUBSET DOMAIN s |-> IF x = {} THEN c ELSE Sha256Byte(h[x \ {Max(x)}], s[Max(x)])])
      BY <2>1, <1>1
    <3> HIDE DEF g
    <3>2. FoldLeft(Sha256Byte, c, s) = g[DOMAIN s]  BY <3>1 DEF FoldLeft, MapThenFoldSet
    <3> QED  BY <2>1, <3>2, <1>1
  <2>2. CASE ~sha256
    <3>1. g = (CHOOSE h : h = [x \in SUBSET DOMAIN s |-> IF x = {} THEN c ELSE SHA1Update(h[x \ {Max(x)}], <<s[Max(x)]>>)])
      BY <2>2, <1>1 DEF DgOneByte
    <3> HIDE DEF g
    <3>2. FoldLeft(LAMBDA d, byte : SHA1Update(d, <<byte>>), c, s) = g[DOMAIN s]  BY <3>1 DEF FoldLeft, MapThenFoldSet
    <3> QED  BY <2>2, <3>2, <1>1
  <2> QED  BY <2>1, <2>2
<1> HIDE DEF g, n
<1>5. \A x \in SUBSET (1..n) : g[x] = IF x = {} THEN c ELSE op(g[x \ {Max(x)}], s[Max(x)])  BY <1>3
<1>6. f[0] = c
  <2>1. 1..0 = {} /\ 1..0 \in SUBSET (1..n) /\ 0 \in 0..n  BY <1>1
  <2> QED  BY <1>5, <2>1
<1>7. ASSUME NEW i \in 1..n PROVE f[i] = op(f[i - 1], s[i])
  <2>1. PICK m \in Nat : i = m + 1 /\ m = i - 1 /\ m \in 0..n /\ i \in 0..n
    <3>1. i - 1 \in Nat /\ i = (i - 1) + 1 /\ i - 1 \in 0..n /\ i \in 0..n  BY <1>1
    <3> QED  BY <3>1
  <2>2. m + 1 \in 1..m + 1 /\ 1..m + 1 \in SUBSET (1..m + 1)  BY <2>1
  <2>3. Max(1..m + 1) = m + 1  BY <2>1, <2>2, MaxOfFirst
  <2>4. (1..m + 1) \ {m + 1} = 1..m  BY <2>1
  <2>5. 1..m + 1 \in SUBSET (1..n) /\ 1..m + 1 # {}
    <3>1. i \in Nat /\ i <= n /\ i = m + 1  BY <2>1, <1>1
    <3>2. \A y \in 1..i : y \in 1..n  BY <3>1, <1>1
    <3>3. 1 \in 1..i  BY <3>1, <2>1
    <3> QED  BY <3>1, <3>2, <3>3
  <2>6. g[1..m + 1] = op(g[(1..m + 1) \ {Max(1..m + 1)}], s[Max(1..m + 1)])
    <3> HIDE DEF op
    <3> QED  BY <2>5, <1>5
  <2>7. g[1..m + 1] = op(g[1..m], s[m + 1])  BY <2>3, <2>4, <2>6
  <2> HIDE DEF op
  <2> QED  BY <2>1, <2>7
<1>8. f[n] = g[1..n]  BY <1>1
<1> HIDE DEF f
<1> QED  BY <1>4, <1>6, <1>7, <1>8 DEF n

-----------------------------------------------------------------------------
(* There is only one quotient. *)
LEMMA DivIs ==
  ASSUME NEW n \in Nat \ {0}, NEW a \in Nat, NEW q \in Nat, NEW m \in 0..n - 1, a = n * q + m
  PROVE  a \div n = q
<1> DEFINE p == a \div n
<1>1. p \in Nat /\ a = n * p + m
  <2>1. a \div n \in Nat /\ a = (n * (a \div n)) + (a % n)  BY DivMod
  <2>2. a % n = m  BY ModIs
  <2> QED  BY <2>1, <2>2
<1> HIDE DEF p
<1>2. n * (p - q) = n * p - n * q  BY <1>1
<1>3. n * (p - q) = 0  BY <1>1, <1>2
<1>4. p - q = 0
  <2> DEFINE d == p - q
  <2>1. d \in Int /\ n * d < n /\ -n < n * d  BY <1>1, <1>3
  <2> HIDE DEF d
  <2>2. d = 0  BY <2>1, SmallMultiple
  <2> QED  BY <2>2 DEF d
<1>5. p = q  BY <1>4, <1>1
<1> QED  BY <1>5 DEF p

(* The sizes are numbers, and a word counts the bits of whole blocks. *)
LEMMA DgSizes ==
  /\ DgBlock \in Nat \ {0} /\ DgBlock > 2 /\ DgWord \in Nat \ {0}
  /\ \E k \in Nat \ {0} : DgWord = 8 * (DgBlock * k)
<1>1. DgBlock \in Nat \ {0} /\ DgBlock > 2 /\ DgWord \in Nat \ {0} /\ DgWord % (8 * DgBlock) = 0
  BY DgAssumption
<1> DEFINE n == 8 * DgBlock
           k == DgWord \div n
<1>2. n \in Nat \ {0} /\ DgWord % n = 0  BY <1>1
<1> HIDE DEF n
<1>3. k \in Nat /\ DgWord = (n * k) + (DgWord % n)  BY <1>1, <1>2, DivMod
<1> HIDE DEF k
<1>4. DgWord = n * k  BY <1>2, <1>3
<1>5. n * k = 8 * (DgBlock * k)
  <2>1. \A b \in Nat : (8 * b) * k = 8 * (b * k)  BY <1>3
  <2> QED  BY <2>1, <1>1 DEF n
<1>6. k # 0  BY <1>1, <1>2, <1>4
<1> QED  BY <1>1, <1>3, <1>4, <1>5, <1>6

(* The bytes from a place on, as many as a block has. *)
LEMMA DgBlockIs ==
  ASSUME NEW A, NEW s \in Seq(A), NEW p \in Nat, p + DgBlock <= Len(s)
  PROVE  LET b == SubSeq(s, p + 1, p + DgBlock) IN
         b \in Seq(A) /\ Len(b) = DgBlock /\ \A i \in 1..DgBlock : b[i] = s[p + i]
<1> DEFINE b == SubSeq(s, p + 1, p + DgBlock)
<1>1. DgBlock \in Nat \ {0} /\ Len(s) \in Nat  BY DgSizes, LenProperties
<1>2. p + 1 \in Int /\ p + DgBlock \in Int /\ p + 1 <= p + DgBlock /\ (p + DgBlock) - (p + 1) + 1 = DgBlock  BY <1>1
<1>3. \A i \in p + 1..p + DgBlock : s[i] \in A
  <2>1. \A i \in p + 1..p + DgBlock : i \in 1..Len(s)  BY <1>1
  <2> QED  BY <2>1, ElementOfSeq
<1>4. /\ b \in Seq(A) /\ Len(b) = DgBlock
      /\ \A i \in 1..(p + DgBlock) - (p + 1) + 1 : b[i] = s[(p + 1) + i - 1]
  BY <1>2, <1>3, SubSeqProperties
<1> HIDE DEF b
<1>5. \A i \in 1..DgBlock : (p + 1) + i - 1 = p + i  BY <1>1
<1> QED  BY <1>2, <1>4, <1>5 DEF b

(* A message of n blocks and r bytes, and the blocks d that are cut from it. *)
DgSplit(s, n, r) == n \in Nat /\ r \in 0..DgBlock - 1 /\ Len(s) = DgBlock * n + r

DgCut(A, s, d, n) ==
  /\ d \in Seq(Seq(A)) /\ Len(d) = n
  /\ \A j \in 1..n :
       /\ d[j] \in Seq(A) /\ Len(d[j]) = DgBlock
       /\ \E p \in Nat : /\ p = DgBlock * (j - 1) /\ p + DgBlock <= Len(s)
                        /\ \A i \in 1..DgBlock : d[j][i] = s[p + i]

(* The blocks of a message, one by one. *)
LEMMA DgBlocksAre ==
  ASSUME NEW A, NEW s \in Seq(A), NEW n, NEW r, DgSplit(s, n, r)
  PROVE  DgCut(A, s, DgBlocks(s), n)
<1>0. n \in Nat /\ r \in 0..DgBlock - 1 /\ Len(s) = DgBlock * n + r  BY DEF DgSplit
<1>1. DgBlock \in Nat \ {0} /\ Len(s) \in Nat  BY DgSizes, LenProperties
<1>2. Len(s) \div DgBlock = n  BY <1>0, <1>1, DivIs
<1>3. ASSUME NEW j \in 1..n
      PROVE  /\ DgBlocks(s)[j] \in Seq(A) /\ Len(DgBlocks(s)[j]) = DgBlock
             /\ \E p \in Nat : /\ p = DgBlock * (j - 1) /\ p + DgBlock <= Len(s)
                              /\ \A i \in 1..DgBlock : DgBlocks(s)[j][i] = s[p + i]
  <2> DEFINE p == DgBlock * (j - 1)
  <2>1. p \in Nat /\ (j - 1) * DgBlock = p /\ j * DgBlock = p + DgBlock
    <3>1. j - 1 \in Nat  BY <1>0
    <3>2. \A x, y \in Nat : x * y \in Nat /\ x * y = y * x /\ (x + 1) * y = y * x + y  OBVIOUS
    <3>3. j = (j - 1) + 1 /\ j \in Nat  BY <1>0
    <3> QED  BY <3>1, <3>2, <3>3, <1>1
  <2>2. p + DgBlock <= DgBlock * n
    <3>1. n - j \in Nat  BY <1>0
    <3>2. \A x \in Nat : DgBlock * x \in Nat  BY <1>1
    <3>3. DgBlock * n = j * DgBlock + DgBlock * (n - j)  BY <1>0, <1>1
    <3> QED  BY <3>1, <3>2, <3>3, <2>1, <1>0, <1>1
  <2> HIDE DEF p
  <2>3. DgBlocks(s)[j] = SubSeq(s, p + 1, p + DgBlock)  BY <1>2, <2>1 DEF DgBlocks
  <2>4. DgBlock * n \in Nat /\ p + DgBlock <= Len(s)  BY <2>1, <2>2, <1>0, <1>1
  <2> DEFINE b == SubSeq(s, p + 1, p + DgBlock)
  <2>5. b \in Seq(A) /\ Len(b) = DgBlock /\ \A i \in 1..DgBlock : b[i] = s[p + i]  BY <2>1, <2>4, DgBlockIs
  <2>6. DgBlocks(s)[j] = b  BY <2>3
  <2> HIDE DEF b
  <2>7. p = DgBlock * (j - 1)  BY DEF p
  <2> QED  BY <2>1, <2>4, <2>5, <2>6, <2>7
<1>4. \A j \in 1..n : DgBlocks(s)[j] \in Seq(A)  BY <1>3
<1>5. DgBlocks(s) = [j \in 1..n |-> DgBlocks(s)[j]]  BY <1>2 DEF DgBlocks
<1>6. DgBlocks(s) \in Seq(Seq(A)) /\ Len(DgBlocks(s)) = n
  <2> DEFINE d == DgBlocks(s)
  <2>1. d = [j \in 1..n |-> d[j]] /\ \A j \in 1..n : d[j] \in Seq(A)  BY <1>4, <1>5
  <2> HIDE DEF d
  <2>2. d \in [1..n -> Seq(A)]  BY <2>1
  <2> QED  BY <2>2, <1>0 DEF d
<1> QED  BY <1>3, <1>6 DEF DgCut

DgWhole(s) == \E k \in Nat : Len(s) = DgBlock * k

(* After whole blocks the others begin anew. *)
LEMMA DgBlocksConcat ==
  ASSUME NEW A, NEW u \in Seq(A), NEW v \in Seq(A), DgWhole(u)
  PROVE  DgBlocks(u \o v) = DgBlocks(u) \o DgBlocks(v)
<1>0. PICK k \in Nat : Len(u) = DgBlock * k  BY DEF DgWhole
<1> DEFINE n == Len(v) \div DgBlock
           r == Len(v) % DgBlock
           d == DgBlocks(u \o v)
           e == DgBlocks(u)
           f == DgBlocks(v)
<1>1. DgBlock \in Nat \ {0} /\ Len(u) \in Nat /\ Len(v) \in Nat  BY DgSizes, LenProperties
<1>2. n \in Nat /\ r \in 0..DgBlock - 1 /\ Len(v) = DgBlock * n + r
  <2>1. Len(v) = (DgBlock * n) + r  BY <1>1, DivMod
  <2> QED  BY <1>1, <2>1, DivMod
<1> HIDE DEF n, r
<1>3. /\ u \o v \in Seq(A) /\ Len(u \o v) = Len(u) + Len(v)
      /\ \A i \in 1..Len(u) + Len(v) : (u \o v)[i] = IF i <= Len(u) THEN u[i] ELSE v[i - Len(u)]
  BY ConcatProperties
<1>4. k + n \in Nat /\ Len(u \o v) = DgBlock * (k + n) + r
  <2>1. DgBlock * (k + n) = DgBlock * k + DgBlock * n  BY <1>1, <1>2
  <2>2. DgBlock * k \in Nat /\ DgBlock * n \in Nat  BY <1>1, <1>2
  <2> QED  BY <1>0, <1>1, <1>2, <1>3, <2>1, <2>2
<1> DEFINE x == u \o v
<1> HIDE DEF x
<1>11. /\ x \in Seq(A) /\ Len(x) = Len(u) + Len(v) /\ Len(x) = DgBlock * (k + n) + r
      /\ \A i \in 1..Len(u) + Len(v) : x[i] = IF i <= Len(u) THEN u[i] ELSE v[i - Len(u)]
  BY <1>3, <1>4 DEF x
<1>12. d = DgBlocks(x) /\ e = DgBlocks(u) /\ f = DgBlocks(v)  BY DEF x
<1> HIDE DEF d, e, f
<1>5. /\ d \in Seq(Seq(A)) /\ Len(d) = k + n
      /\ \A j \in 1..k + n :
           /\ d[j] \in Seq(A) /\ Len(d[j]) = DgBlock
           /\ \E p \in Nat : /\ p = DgBlock * (j - 1) /\ p + DgBlock <= Len(x)
                            /\ \A i \in 1..DgBlock : d[j][i] = x[p + i]
  <2>1. DgSplit(x, k + n, r)  BY <1>2, <1>4, <1>11 DEF DgSplit
  <2>2. DgCut(A, x, d, k + n)  BY <2>1, <1>11, <1>12, DgBlocksAre
  <2> QED  BY <2>2 DEF DgCut
<1>6. /\ e \in Seq(Seq(A)) /\ Len(e) = k
      /\ \A j \in 1..k :
           /\ e[j] \in Seq(A) /\ Len(e[j]) = DgBlock
           /\ \E p \in Nat : /\ p = DgBlock * (j - 1) /\ p + DgBlock <= Len(u)
                            /\ \A i \in 1..DgBlock : e[j][i] = u[p + i]
  <2>1. DgSplit(u, k, 0)  BY <1>0, <1>1 DEF DgSplit
  <2>2. DgCut(A, u, e, k)  BY <2>1, <1>12, DgBlocksAre
  <2> QED  BY <2>2 DEF DgCut
<1>7. /\ f \in Seq(Seq(A)) /\ Len(f) = n
      /\ \A j \in 1..n :
           /\ f[j] \in Seq(A) /\ Len(f[j]) = DgBlock
           /\ \E p \in Nat : /\ p = DgBlock * (j - 1) /\ p + DgBlock <= Len(v)
                            /\ \A i \in 1..DgBlock : f[j][i] = v[p + i]
  <2>1. DgSplit(v, n, r)  BY <1>2 DEF DgSplit
  <2>2. DgCut(A, v, f, n)  BY <2>1, <1>12, DgBlocksAre
  <2> QED  BY <2>2 DEF DgCut
<1>8. /\ e \o f \in Seq(Seq(A)) /\ Len(e \o f) = k + n
      /\ \A j \in 1..k + n : (e \o f)[j] = IF j <= k THEN e[j] ELSE f[j - k]
  <2>1. k \in Nat /\ n \in Nat  BY <1>2
  <2>2. e \in Seq(Seq(A)) /\ f \in Seq(Seq(A)) /\ Len(e) = k /\ Len(f) = n  BY <1>6, <1>7
  <2> QED  BY <2>1, <2>2, ConcatProperties
<1>9. ASSUME NEW j \in 1..k + n PROVE d[j] = (e \o f)[j]
  <2>1. PICK p \in Nat : /\ p = DgBlock * (j - 1) /\ p + DgBlock <= Len(x)
                         /\ \A i \in 1..DgBlock : d[j][i] = x[p + i]
    BY <1>5
  <2>2. d[j] \in Seq(A) /\ Len(d[j]) = DgBlock  BY <1>5
  <2>3. CASE j <= k
    <3>1. j \in 1..k  BY <2>3, <1>2
    <3>2. PICK q \in Nat : /\ q = DgBlock * (j - 1) /\ q + DgBlock <= Len(u)
                           /\ \A i \in 1..DgBlock : e[j][i] = u[q + i]
      BY <3>1, <1>6
    <3>3. e[j] \in Seq(A) /\ Len(e[j]) = DgBlock  BY <3>1, <1>6
    <3>4. p = q  BY <2>1, <3>2
    <3>5. ASSUME NEW i \in 1..DgBlock PROVE d[j][i] = e[j][i]
      <4>1. p + i \in 1..Len(u) + Len(v) /\ p + i <= Len(u)
        <5> DEFINE lu == Len(u)
                   lv == Len(v)
        <5>1. lu \in Nat /\ lv \in Nat /\ p \in Nat /\ p + DgBlock <= lu  BY <3>2, <3>4, <1>1
        <5> HIDE DEF lu, lv
        <5>2. p + i \in 1..lu + lv /\ p + i <= lu  BY <5>1, <1>1
        <5> QED  BY <5>2 DEF lu, lv
      <4>2. x[p + i] = u[p + i]  BY <4>1, <1>11
      <4> QED  BY <4>2, <2>1, <3>2, <3>4
    <3>6. d[j] = e[j]  BY <2>2, <3>3, <3>5, SeqEqual
    <3> QED  BY <3>6, <2>3, <1>8
  <2>4. CASE ~(j <= k)
    <3>1. PICK m \in 1..n : j = k + m
      <4>1. j - k \in 1..n /\ j = k + (j - k)  BY <2>4, <1>2
      <4> QED  BY <4>1
    <3>2. PICK q \in Nat : /\ q = DgBlock * (m - 1) /\ q + DgBlock <= Len(v)
                           /\ \A i \in 1..DgBlock : f[m][i] = v[q + i]
      BY <1>7
    <3>3. f[m] \in Seq(A) /\ Len(f[m]) = DgBlock  BY <1>7
    <3>4. p = Len(u) + q
      <4>1. DgBlock * (k + (m - 1)) = DgBlock * k + DgBlock * (m - 1)  BY <1>1
      <4>2. j - 1 = k + (m - 1)  BY <3>1
      <4> QED  BY <1>0, <2>1, <3>2, <4>1, <4>2
    <3>5. ASSUME NEW i \in 1..DgBlock PROVE d[j][i] = f[m][i]
      <4>1. p + i \in 1..Len(u) + Len(v) /\ ~(p + i <= Len(u)) /\ (p + i) - Len(u) = q + i
        <5> DEFINE lu == Len(u)
                   lv == Len(v)
        <5>1. lu \in Nat /\ lv \in Nat /\ p = lu + q /\ q + DgBlock <= lv  BY <3>2, <3>4, <1>1
        <5> HIDE DEF lu, lv
        <5>2. p + i \in 1..lu + lv /\ ~(p + i <= lu) /\ (p + i) - lu = q + i  BY <5>1, <1>1
        <5> QED  BY <5>2 DEF lu, lv
      <4>2. x[p + i] = v[(p + i) - Len(u)]  BY <4>1, <1>11
      <4>3. x[p + i] = v[q + i]  BY <4>1, <4>2
      <4> QED  BY <4>3, <2>1, <3>2
    <3>6. d[j] = f[m]  BY <2>2, <3>3, <3>5, SeqEqual
    <3>7. j - k = m  BY <3>1
    <3> QED  BY <3>6, <3>7, <2>4, <1>8
  <2> QED  BY <2>3, <2>4
<1>10. d = e \o f  BY <1>5, <1>8, <1>9, SeqEqual
<1> QED  BY <1>10 DEF d, e, f

(* A block is its own only block, and less than a block is none. *)
LEMMA DgBlocksFew ==
  ASSUME NEW A, NEW s \in Seq(A)
  PROVE  /\ Len(s) = DgBlock => DgBlocks(s) = <<s>>
         /\ Len(s) < DgBlock => DgBlocks(s) = << >>
<1>1. DgBlock \in Nat \ {0} /\ Len(s) \in Nat  BY DgSizes, LenProperties
<1>2. CASE Len(s) = DgBlock
  <2>1. DgSplit(s, 1, 0)  BY <1>1, <1>2 DEF DgSplit
  <2>8. DgCut(A, s, DgBlocks(s), 1)  BY <2>1, DgBlocksAre
  <2>2. /\ DgBlocks(s) \in Seq(Seq(A)) /\ Len(DgBlocks(s)) = 1
        /\ \A j \in 1..1 :
              /\ DgBlocks(s)[j] \in Seq(A) /\ Len(DgBlocks(s)[j]) = DgBlock
              /\ \E p \in Nat : /\ p = DgBlock * (j - 1) /\ p + DgBlock <= Len(s)
                               /\ \A i \in 1..DgBlock : DgBlocks(s)[j][i] = s[p + i]
    BY <2>8 DEF DgCut
  <2> DEFINE b == DgBlocks(s)[1]
  <2>3. b \in Seq(A) /\ Len(b) = Len(s) /\ \A i \in 1..Len(b) : b[i] = s[i]
    <3>1. PICK p \in Nat : p = DgBlock * (1 - 1) /\ \A i \in 1..DgBlock : b[i] = s[p + i]  BY <2>2
    <3>2. p = 0  BY <3>1, <1>1
    <3>3. \A i \in 1..DgBlock : b[i] = s[i]  BY <3>1, <3>2
    <3> QED  BY <3>3, <2>2, <1>2
  <2> HIDE DEF b
  <2>7. b = s  BY <2>3, SeqEqual
  <2>4. DgBlocks(s)[1] = s  BY <2>7 DEF b
  <2>5. <<s>> \in Seq(Seq(A)) /\ Len(<<s>>) = 1 /\ <<s>>[1] = s  OBVIOUS
  <2>6. DgBlocks(s) = <<s>>
    <3>1. \A j \in 1..1 : j = 1  OBVIOUS
    <3> QED  BY <2>2, <2>4, <2>5, <3>1, SeqEqual
  <2> QED  BY <2>6, <1>1, <1>2
<1>3. CASE Len(s) < DgBlock
  <2>1. DgSplit(s, 0, Len(s))  BY <1>1, <1>3 DEF DgSplit
  <2>2. DgBlocks(s) \in Seq(Seq(A)) /\ Len(DgBlocks(s)) = 0  BY <2>1, DgBlocksAre DEF DgCut
  <2>3. DgBlocks(s) = << >>  BY <2>2, EmptySeq
  <2> QED  BY <2>3, <1>1, <1>3
<1> QED  BY <1>1, <1>2, <1>3

(* What has a value for each of the first numbers is a sequence. *)
LEMMA IsSequence ==
  ASSUME NEW A, NEW n \in Nat, NEW f \in [1..n -> A]
  PROVE  f \in Seq(A) /\ Len(f) = n
OBVIOUS

(***************************************************************************)
(* Putting sequences together.                                             *)
(***************************************************************************)
DgCat(A, s, w, v) == w \in Seq(A) /\ v \in Seq(A) /\ s = w \o v

(* The last two of three first, or the first two. *)
LEMMA DgCatRight ==
  ASSUME NEW A, NEW p, NEW q, NEW r, NEW a, NEW b, NEW c,
         DgCat(A, p, a, b), DgCat(A, r, p, c), DgCat(A, q, b, c)
  PROVE  DgCat(A, r, a, q)
<1>1. a \in Seq(A) /\ b \in Seq(A) /\ c \in Seq(A) /\ p = a \o b /\ r = p \o c /\ q = b \o c  BY DEF DgCat
<1>2. q \in Seq(A)  BY <1>1, ConcatProperties
<1>3. (a \o b) \o c = a \o (b \o c)  BY <1>1, ConcatAssociative
<1> QED  BY <1>1, <1>2, <1>3 DEF DgCat

(* The first two of three first. *)
LEMMA DgCatLeft ==
  ASSUME NEW A, NEW p, NEW q, NEW r, NEW a, NEW b, NEW c,
         DgCat(A, p, a, b), DgCat(A, r, a, q), DgCat(A, q, b, c)
  PROVE  DgCat(A, r, p, c)
<1>1. a \in Seq(A) /\ b \in Seq(A) /\ c \in Seq(A) /\ p = a \o b /\ r = a \o q /\ q = b \o c  BY DEF DgCat
<1>2. p \in Seq(A)  BY <1>1, ConcatProperties
<1>3. (a \o b) \o c = a \o (b \o c)  BY <1>1, ConcatAssociative
<1> QED  BY <1>1, <1>2, <1>3 DEF DgCat

(* What is put together is a sequence, as long as its parts. *)
LEMMA DgCatIs ==
  ASSUME NEW A, NEW p, NEW a, NEW b, DgCat(A, p, a, b)
  PROVE  /\ a \in Seq(A) /\ b \in Seq(A) /\ p \in Seq(A) /\ p = a \o b
         /\ Len(a) \in Nat /\ Len(b) \in Nat /\ Len(p) = Len(a) + Len(b)
<1>1. a \in Seq(A) /\ b \in Seq(A) /\ p = a \o b  BY DEF DgCat
<1> QED  BY <1>1, ConcatProperties, LenProperties

(* Any two can be put together. *)
LEMMA DgCats ==
  ASSUME NEW A, NEW a \in Seq(A), NEW b \in Seq(A)
  PROVE  DgCat(A, a \o b, a, b)
BY DEF DgCat

(* The second of four goes with the third. *)
LEMMA DgGlue ==
  ASSUME NEW A, NEW s, NEW t, NEW st, NEW w, NEW v, NEW x, NEW y, NEW b, NEW u,
         DgCat(A, s, w, v), DgCat(A, t, x, y), DgCat(A, st, s, t), DgCat(A, b, v, x), DgCat(A, u, w, b)
  PROVE  DgCat(A, st, u, y)
<1>1. v \in Seq(A) /\ t \in Seq(A)  BY DgCatIs
<1>2. PICK z : DgCat(A, z, v, t)  BY <1>1, DgCats
<1>3. DgCat(A, st, w, z)  BY <1>2, DgCatRight
<1>4. DgCat(A, z, b, y)  BY <1>2, DgCatLeft
<1> QED  BY <1>3, <1>4, DgCatLeft

(* Every message is whole blocks and less than one more. *)
LEMMA DgParts ==
  ASSUME NEW A, NEW s \in Seq(A)
  PROVE  \E w, v \in Seq(A) : /\ s = w \o v /\ DgWhole(w) /\ Len(v) < DgBlock
                              /\ v = DgTail(s) /\ Len(v) = Len(s) % DgBlock
<1> DEFINE n == Len(s)
           k == Len(s) \div DgBlock
           r == Len(s) % DgBlock
           m == n - r
           w == SubSeq(s, 1, m)
           v == SubSeq(s, m + 1, n)
<1>1. DgBlock \in Nat \ {0} /\ n \in Nat  BY DgSizes, LenProperties
<1>2. k \in Nat /\ r \in 0..DgBlock - 1 /\ n = DgBlock * k + r
  <2>1. Len(s) = (DgBlock * k) + r  BY <1>1, DivMod
  <2> QED  BY <1>1, <2>1, DivMod
<1>3. v = DgTail(s)  BY DEF DgTail
<1>4. r = Len(s) % DgBlock  OBVIOUS
<1>5. n = Len(s)  OBVIOUS
<1> HIDE DEF k, r, n
<1>6. DgBlock * k \in Nat  BY <1>1, <1>2
<1>7. m \in Nat /\ m = DgBlock * k /\ m <= n /\ n - m = r  BY <1>1, <1>2, <1>6
<1> HIDE DEF m
<1>8. \A i \in 1..n : s[i] \in A  BY <1>5, ElementOfSeq
<1>9. w \in Seq(A) /\ Len(w) = m
  <2>1. 1 \in Int /\ m \in Int /\ \A i \in 1..m : s[i] \in A  BY <1>1, <1>7, <1>8
  <2>2. w \in Seq(A) /\ Len(w) = IF 1 <= m THEN m - 1 + 1 ELSE 0  BY <2>1, SubSeqProperties
  <2> QED  BY <1>7, <2>2
<1>10. v \in Seq(A) /\ Len(v) = r
  <2>1. m + 1 \in Int /\ n \in Int /\ \A i \in m + 1..n : s[i] \in A  BY <1>1, <1>7, <1>8
  <2>2. v \in Seq(A) /\ Len(v) = IF m + 1 <= n THEN n - (m + 1) + 1 ELSE 0  BY <2>1, SubSeqProperties
  <2> QED  BY <1>1, <1>2, <1>7, <2>2
<1>11. s = w \o v
  <2>1. 1 \in 1..Len(s) + 1 /\ m \in 1 - 1..Len(s) /\ n \in m..Len(s)  BY <1>1, <1>5, <1>7
  <2>2. w \o v = SubSeq(s, 1, n)  BY <2>1, ConcatAdjacentSubSeq
  <2> QED  BY <2>2, <1>5, SubSeqFull
<1>12. r < DgBlock  BY <1>1, <1>2
<1>13. DgWhole(w)  BY <1>2, <1>7, <1>9 DEF DgWhole
<1> HIDE DEF w, v
<1> QED  BY <1>13, <1>3, <1>4, <1>7, <1>9, <1>10, <1>11, <1>12

(* Less than a block after whole blocks is what is left. *)
LEMMA DgPartsAre ==
  ASSUME NEW A, NEW w \in Seq(A), NEW v \in Seq(A), DgWhole(w), Len(v) < DgBlock
  PROVE  /\ w \o v \in Seq(A) /\ Len(w \o v) % DgBlock = Len(v)
         /\ DgBlocks(w \o v) = DgBlocks(w)
         /\ DgBlocks(w) \in Seq(Seq(A)) /\ Len(DgBlocks(w)) = Len(w \o v) \div DgBlock
<1>0. PICK k \in Nat : Len(w) = DgBlock * k  BY DEF DgWhole
<1>1. DgBlock \in Nat \ {0} /\ Len(v) \in Nat  BY DgSizes, LenProperties
<1>2. w \o v \in Seq(A) /\ Len(w \o v) = DgBlock * k + Len(v)  BY <1>0, ConcatProperties
<1>3. Len(v) \in 0..DgBlock - 1 /\ Len(w \o v) \in Nat  BY <1>1, <1>2, LenProperties
<1>4. Len(w \o v) % DgBlock = Len(v) /\ Len(w \o v) \div DgBlock = k  BY <1>1, <1>2, <1>3, ModIs, DivIs
<1>5. DgBlocks(w \o v) = DgBlocks(w) \o DgBlocks(v)  BY DgBlocksConcat
<1>6. DgBlocks(v) = << >>  BY DgBlocksFew
<1>7. DgBlocks(w) \in Seq(Seq(A)) /\ Len(DgBlocks(w)) = k
  <2>1. DgSplit(w, k, 0)  BY <1>0, <1>1 DEF DgSplit
  <2> QED  BY <2>1, DgBlocksAre DEF DgCut
<1>8. DgBlocks(w) \o << >> = DgBlocks(w)  BY <1>7, ConcatEmptySeq
<1> QED  BY <1>2, <1>4, <1>5, <1>6, <1>7, <1>8

(* Whole blocks after whole blocks. *)
LEMMA DgWholeConcat ==
  ASSUME NEW A, NEW u \in Seq(A), NEW v \in Seq(A), DgWhole(u), DgWhole(v)
  PROVE  u \o v \in Seq(A) /\ DgWhole(u \o v)
<1>1. PICK k \in Nat : Len(u) = DgBlock * k  BY DEF DgWhole
<1>2. PICK n \in Nat : Len(v) = DgBlock * n  BY DEF DgWhole
<1>3. DgBlock * (k + n) = DgBlock * k + DgBlock * n /\ k + n \in Nat  BY DgSizes
<1>4. u \o v \in Seq(A) /\ Len(u \o v) = Len(u) + Len(v)  BY ConcatProperties
<1>5. Len(u \o v) = DgBlock * (k + n)  BY <1>1, <1>2, <1>3, <1>4
<1> QED  BY <1>3, <1>4, <1>5 DEF DgWhole

(* What the buffer has in front. *)
DgFront(front, v) == \A i \in 1..Len(v) : front[i] = v[i]

(* memcpy() behind what the buffer has. *)
LEMMA DgOverlayIs ==
  ASSUME NEW A, NEW front \in [1..DgBlock -> A], NEW v, DgFront(front, v),
         NEW t, NEW vt, DgCat(A, vt, v, t), Len(v) + Len(t) <= DgBlock
  PROVE  /\ DgOverlay(front, Len(v), t) \in [1..DgBlock -> A]
         /\ DgFront(DgOverlay(front, Len(v), t), vt)
         /\ Len(v) + Len(t) = DgBlock => DgOverlay(front, Len(v), t) = vt
<1>0. v \in Seq(A) /\ t \in Seq(A) /\ vt = v \o t  BY DgCatIs
<1> DEFINE b == DgOverlay(front, Len(v), t)
           r == Len(v)
           n == Len(t)
<1>1. /\ DgBlock \in Nat \ {0} /\ r \in Nat /\ n \in Nat /\ DOMAIN t = 1..n /\ r + n <= DgBlock
      /\ \A i \in 1..n : t[i] \in A
  BY <1>0, DgSizes, LenProperties, ElementOfSeq
<1>2. b = [i \in 1..DgBlock |-> IF i - r \in 1..n THEN t[i - r] ELSE front[i]]  BY <1>1 DEF DgOverlay
<1>3. \A i \in 1..DgBlock : front[i] \in A  OBVIOUS
<1>4. /\ v \o t \in Seq(A) /\ Len(v \o t) = r + n
      /\ \A i \in 1..r + n : (v \o t)[i] = IF i <= r THEN v[i] ELSE t[i - r]
  BY <1>0, ConcatProperties
<1>5. \A i \in 1..r : front[i] = v[i]  BY DEF DgFront
<1> HIDE DEF b, r, n
<1>6. b \in [1..DgBlock -> A]  BY <1>1, <1>2, <1>3
<1>7. ASSUME NEW i \in 1..r + n PROVE b[i] = (v \o t)[i]
  <2>1. i \in 1..DgBlock  BY <1>1
  <2>2. CASE i <= r
    <3>1. i \in 1..r /\ i - r \notin 1..n  BY <2>2, <1>1
    <3> QED  BY <2>1, <2>2, <3>1, <1>2, <1>4, <1>5
  <2>3. CASE ~(i <= r)
    <3>1. i - r \in 1..n  BY <2>3, <1>1
    <3> QED  BY <2>1, <2>3, <3>1, <1>2, <1>4
  <2> QED  BY <2>2, <2>3
<1>8. ASSUME r + n = DgBlock PROVE b = v \o t
  <2>1. b \in Seq(A) /\ Len(b) = DgBlock  BY <1>1, <1>6, IsSequence
  <2> QED  BY <2>1, <1>4, <1>7, <1>8, SeqEqual
<1>9. DgFront(b, v \o t)  BY <1>4, <1>7 DEF DgFront
<1> QED  BY <1>0, <1>6, <1>8, <1>9 DEF b, r, n

(***************************************************************************)
(* What a context has of a message s: its whole blocks are compressed, and *)
(* the rest is at the front of the buffer.                                 *)
(***************************************************************************)
DgHolds(A, done, front, s) ==
  /\ front \in [1..DgBlock -> A]
  /\ \E w, v \in Seq(A) :
       /\ s = w \o v /\ DgWhole(w) /\ Len(v) < DgBlock
       /\ done = DgBlocks(w) /\ DgFront(front, v)

(* So all blocks there are have been compressed. *)
LEMMA DgHeld ==
  ASSUME NEW A, NEW done, NEW front, NEW s, DgHolds(A, done, front, s)
  PROVE  /\ s \in Seq(A) /\ front \in [1..DgBlock -> A] /\ front \in Seq(A) /\ Len(front) = DgBlock
         /\ done = DgBlocks(s) /\ Len(done) = Len(s) \div DgBlock
<1>1. PICK w \in Seq(A), v \in Seq(A) :
         s = w \o v /\ DgWhole(w) /\ Len(v) < DgBlock /\ done = DgBlocks(w)
  BY DEF DgHolds
<1>2. front \in [1..DgBlock -> A] /\ DgBlock \in Nat  BY DgSizes DEF DgHolds
<1>3. front \in Seq(A) /\ Len(front) = DgBlock  BY <1>2, IsSequence
<1> QED  BY <1>1, <1>2, <1>3, DgPartsAre

(* Bytes that do not fill the buffer. *)
LEMMA DgHoldsMore ==
  ASSUME NEW A, NEW done, NEW front, NEW s, DgHolds(A, done, front, s), NEW t \in Seq(A),
         NEW r, r = Len(s) % DgBlock, r + Len(t) < DgBlock
  PROVE  DgHolds(A, done, DgOverlay(front, r, t), s \o t)
<1>1. PICK w \in Seq(A), v \in Seq(A) :
         /\ s = w \o v /\ DgWhole(w) /\ Len(v) < DgBlock
         /\ done = DgBlocks(w) /\ DgFront(front, v)
  BY DEF DgHolds
<1>2. r = Len(v)  BY <1>1, DgPartsAre
<1>3. front \in [1..DgBlock -> A]  BY DEF DgHolds
<1>4. Len(v) \in Nat /\ Len(t) \in Nat /\ DgBlock \in Nat  BY LenProperties, DgSizes
<1>5. Len(v) + Len(t) <= DgBlock  BY <1>2, <1>4
<1> DEFINE b == DgOverlay(front, Len(v), t)
<1>6. b \in [1..DgBlock -> A] /\ DgFront(b, v \o t)  BY <1>1, <1>3, <1>5, DgCats, DgOverlayIs
<1> HIDE DEF b
<1>7. v \o t \in Seq(A) /\ Len(v \o t) < DgBlock  BY <1>2, ConcatProperties
<1>8. s \o t = w \o (v \o t)  BY <1>1, ConcatAssociative
<1>9. DgOverlay(front, r, t) = b  BY <1>2 DEF b
<1>10. DgHolds(A, done, b, s \o t)  BY <1>1, <1>6, <1>7, <1>8 DEF DgHolds
<1> QED  BY <1>9, <1>10

(* Bytes after whole blocks: whole ones are compressed where they are, the rest is copied. *)
LEMMA DgHoldsBlocks ==
  ASSUME NEW A, NEW u \in Seq(A), DgWhole(u), NEW t \in Seq(A),
         NEW front \in [1..DgBlock -> A]
  PROVE  DgHolds(A, DgBlocks(u) \o DgBlocks(t), DgOverlay(front, 0, DgTail(t)), u \o t)
<1>1. PICK w \in Seq(A), v \in Seq(A) :
         t = w \o v /\ DgWhole(w) /\ Len(v) < DgBlock /\ v = DgTail(t)
  BY DgParts
<1>2. DgBlock \in Nat /\ Len(v) \in Nat  BY DgSizes, LenProperties
<1>3. DgBlocks(t) = DgBlocks(w)  BY <1>1, DgPartsAre
<1>4. DgBlocks(u \o w) = DgBlocks(u) \o DgBlocks(w)  BY DgBlocksConcat
<1>5. u \o w \in Seq(A) /\ DgWhole(u \o w)  BY <1>1, DgWholeConcat
<1>6. u \o t = (u \o w) \o v
  <2>1. (u \o w) \o v = u \o (w \o v)  BY ConcatAssociative
  <2> QED  BY <1>1, <2>1
<1> DEFINE e == << >>
<1>7. e \in Seq(A) /\ Len(e) = 0 /\ DgFront(front, e) /\ e \o v = v
  BY EmptySeq, ConcatEmptySeq DEF DgFront
<1>8. Len(e) + Len(v) <= DgBlock  BY <1>1, <1>2, <1>7
<1> HIDE DEF e
<1> DEFINE b == DgOverlay(front, Len(e), v)
<1>9. b \in [1..DgBlock -> A] /\ DgFront(b, e \o v)  BY <1>7, <1>8, DgCats, DgOverlayIs
<1>10. b = DgOverlay(front, 0, DgTail(t))  BY <1>1, <1>7
<1> HIDE DEF b
<1>11. DgFront(b, v)  BY <1>7, <1>9
<1> DEFINE d == DgBlocks(u) \o DgBlocks(t)
<1>12. d = DgBlocks(u \o w)  BY <1>3, <1>4
<1> HIDE DEF d
<1>13. DgHolds(A, d, b, u \o t)  BY <1>1, <1>5, <1>6, <1>9, <1>11, <1>12 DEF DgHolds
<1> QED  BY <1>10, <1>13 DEF d

(* Bytes that fill the buffer, which is compressed, and the rest. *)
LEMMA DgHoldsFull ==
  ASSUME NEW A, NEW done, NEW front, NEW s, DgHolds(A, done, front, s), NEW t \in Seq(A),
         NEW r, r = Len(s) % DgBlock, r + Len(t) >= DgBlock
  PROVE  LET block == DgOverlay(front, r, SubSeq(t, 1, DgBlock - r))
             rest  == SubSeq(t, (DgBlock - r) + 1, Len(t))
         IN  DgHolds(A, Append(done, block) \o DgBlocks(rest), DgOverlay(block, 0, DgTail(rest)), s \o t)
<1> DEFINE n == DgBlock - r
           x == SubSeq(t, 1, n)
           y == SubSeq(t, n + 1, Len(t))
           block == DgOverlay(front, r, x)
<1>1. PICK w \in Seq(A), v \in Seq(A) :
         /\ s = w \o v /\ DgWhole(w) /\ Len(v) < DgBlock
         /\ done = DgBlocks(w) /\ DgFront(front, v)
  BY DEF DgHolds
<1>2. r = Len(v)  BY <1>1, DgPartsAre
<1>3. front \in [1..DgBlock -> A]  BY DEF DgHolds
<1>4. Len(v) \in Nat /\ Len(t) \in Nat /\ DgBlock \in Nat \ {0}  BY LenProperties, DgSizes
<1>5. n \in Nat \ {0} /\ n <= Len(t) /\ r + n = DgBlock  BY <1>1, <1>2, <1>4
<1> HIDE DEF n
<1>6. \A i \in 1..Len(t) : t[i] \in A  BY ElementOfSeq
<1>7. x \in Seq(A) /\ Len(x) = n
  <2>1. 1 \in Int /\ n \in Int /\ \A i \in 1..n : t[i] \in A  BY <1>4, <1>5, <1>6
  <2>2. x \in Seq(A) /\ Len(x) = IF 1 <= n THEN n - 1 + 1 ELSE 0  BY <2>1, SubSeqProperties
  <2> QED  BY <1>5, <2>2
<1>8. y \in Seq(A)
  <2>1. n + 1 \in Int /\ Len(t) \in Int /\ \A i \in n + 1..Len(t) : t[i] \in A  BY <1>4, <1>5, <1>6
  <2> QED  BY <2>1, SubSeqProperties
<1>9. t = x \o y
  <2>1. 1 \in 1..Len(t) + 1 /\ n \in 1 - 1..Len(t) /\ Len(t) \in n..Len(t)  BY <1>4, <1>5
  <2>2. x \o y = SubSeq(t, 1, Len(t))  BY <2>1, ConcatAdjacentSubSeq
  <2> QED  BY <2>2, SubSeqFull
<1> HIDE DEF x, y
<1>18. DgCat(A, t, x, y)  BY <1>7, <1>8, <1>9 DEF DgCat
<1>10. block \in [1..DgBlock -> A] /\ DgCat(A, block, v, x)
  <2>1. Len(v) + Len(x) = DgBlock  BY <1>2, <1>5, <1>7
  <2>2. Len(v) + Len(x) <= DgBlock  BY <2>1, <1>4
  <2>4. block = DgOverlay(front, Len(v), x)  BY <1>2
  <2>5. DgFront(front, v)  BY <1>1
  <2>6. PICK z : DgCat(A, z, v, x)  BY <1>7, DgCats
  <2> HIDE DEF block
  <2>7. block \in [1..DgBlock -> A] /\ block = z  BY <2>1, <2>2, <2>4, <2>5, <2>6, <1>3, DgOverlayIs
  <2> QED  BY <2>6, <2>7
<1> HIDE DEF block
<1>11. block \in Seq(A) /\ Len(block) = DgBlock  BY <1>4, <1>10, IsSequence
<1>12. DgWhole(block)
  <2>1. DgBlock = DgBlock * 1  BY <1>4
  <2> QED  BY <2>1, <1>11 DEF DgWhole
<1> DEFINE u == w \o block
<1>17. u \in Seq(A) /\ DgWhole(u) /\ DgCat(A, u, w, block)  BY <1>1, <1>11, <1>12, DgWholeConcat DEF DgCat
<1>13. DgBlocks(u) = Append(done, block)
  <2>1. DgBlocks(u) = DgBlocks(w) \o DgBlocks(block)  BY <1>1, <1>11, DgBlocksConcat
  <2>2. DgBlocks(block) = <<block>>  BY <1>11, DgBlocksFew
  <2>3. done \in Seq(Seq(A))  BY <1>1, DgPartsAre
  <2>4. Append(done, block) = done \o <<block>>  BY <2>3, <1>11, AppendIsConcat
  <2> QED  BY <1>1, <2>1, <2>2, <2>4
<1>14. s \o t = u \o y
  <2> HIDE DEF u
  <2>1. DgCat(A, s, w, v)  BY <1>1 DEF DgCat
  <2>2. DgCat(A, s \o t, s, t)
    <3>1. s \in Seq(A)  BY <2>1, DgCatIs
    <3> QED  BY <3>1, DgCats
  <2>3. DgCat(A, s \o t, u, y)  BY <2>1, <2>2, <1>10, <1>17, <1>18, DgGlue
  <2> QED  BY <2>3 DEF DgCat
<1> HIDE DEF u
<1>15. DgHolds(A, DgBlocks(u) \o DgBlocks(y), DgOverlay(block, 0, DgTail(y)), u \o y)
  BY <1>8, <1>10, <1>17, DgHoldsBlocks
<1>16. DgHolds(A, Append(done, block) \o DgBlocks(y), DgOverlay(block, 0, DgTail(y)), s \o t)
  BY <1>13, <1>14, <1>15
<1> QED  BY <1>16 DEF block, x, y, n

-----------------------------------------------------------------------------
(***************************************************************************)
(* The counter.                                                            *)
(***************************************************************************)
(* What is left of a sum is left of the sum with what is left of one part. *)
LEMMA ModAdd ==
  ASSUME NEW n \in Nat \ {0}, NEW a \in Nat, NEW b \in Nat
  PROVE  ((a % n) + b) % n = (a + b) % n
<1> DEFINE q == a \div n
           m == a % n
           p == (m + b) \div n
           l == (m + b) % n
<1>1. q \in Nat /\ m \in 0..n - 1 /\ a = (n * q) + m  BY DivMod
<1> HIDE DEF q, m
<1>2. m + b \in Nat  BY <1>1
<1>3. p \in Nat /\ l \in 0..n - 1 /\ m + b = (n * p) + l  BY <1>2, DivMod
<1> HIDE DEF p, l
<1>4. n * (q + p) = n * q + n * p  BY <1>1, <1>3
<1>5. n * q \in Nat /\ n * p \in Nat  BY <1>1, <1>3
<1>6. a + b = n * (q + p) + l /\ q + p \in Nat  BY <1>1, <1>3, <1>4, <1>5
<1>7. (a + b) % n = l
  <2>1. a + b \in Nat  OBVIOUS
  <2> HIDE DEF l
  <2> QED  BY <2>1, <1>3, <1>6, ModIs
<1> QED  BY <1>7 DEF l, m

(* A word that overflows gives a carry to the next. *)
LEMMA CarryIs ==
  ASSUME NEW n \in Nat \ {0}, NEW a \in Nat, NEW b \in Nat
  PROVE  LET low   == ((a % n) + (b % n)) % n
             carry == IF low < b % n THEN 1 ELSE 0
         IN  /\ low = (a + b) % n /\ low = ((a % n) + b) % n
             /\ low < b % n <=> low < a % n
             /\ (a + b) \div n = (a \div n) + (b \div n) + carry
<1> DEFINE q == a \div n
           m == a % n
           p == b \div n
           l == b % n
           low == (m + l) % n
           carry == IF low < l THEN 1 ELSE 0
<1>1. q \in Nat /\ m \in 0..n - 1 /\ a = (n * q) + m  BY DivMod
<1>2. p \in Nat /\ l \in 0..n - 1 /\ b = (n * p) + l  BY DivMod
<1>3. (m + b) % n = (a + b) % n  BY ModAdd
<1>4. (l + m) % n = (b + m) % n
  <2>1. m \in Nat  BY <1>1
  <2> QED  BY <2>1, ModAdd
<1> HIDE DEF q, m, p, l
<1>5. (m + l) % n = (a + b) % n
  <2>1. l + m = m + l /\ b + m = m + b  BY <1>1, <1>2
  <2> QED  BY <1>3, <1>4, <2>1
<1>6. /\ low = (IF m + l < n THEN m + l ELSE m + l - n)
      /\ (a + b) \div n = (q + p) + (IF m + l < n THEN 0 ELSE 1)
      /\ low \in 0..n - 1
  <2>1. n * (q + p) = n * q + n * p /\ n * (q + p + 1) = n * q + n * p + n  BY <1>1, <1>2
  <2>2. n * q \in Nat /\ n * p \in Nat /\ q + p \in Nat /\ q + p + 1 \in Nat  BY <1>1, <1>2
  <2>3. a + b \in Nat /\ m + l \in Nat  BY <1>1, <1>2
  <2>4. CASE m + l < n
    <3>1. m + l \in 0..n - 1 /\ a + b = n * (q + p) + (m + l)  BY <2>1, <2>2, <2>4, <1>1, <1>2
    <3>2. (a + b) \div n = q + p /\ (a + b) % n = m + l  BY <3>1, <2>2, <2>3, DivIs, ModIs
    <3> QED  BY <3>1, <3>2, <2>2, <2>4, <1>5
  <2>5. CASE ~(m + l < n)
    <3>1. m + l - n \in 0..n - 1 /\ a + b = n * (q + p + 1) + (m + l - n)  BY <2>1, <2>2, <2>5, <1>1, <1>2
    <3>2. (a + b) \div n = q + p + 1 /\ (a + b) % n = m + l - n  BY <3>1, <2>2, <2>3, DivIs, ModIs
    <3> QED  BY <3>1, <3>2, <2>2, <2>5, <1>5
  <2> QED  BY <2>4, <2>5
<1> HIDE DEF low
<1>7. (low < l <=> low < m) /\ carry = (IF m + l < n THEN 0 ELSE 1)  BY <1>1, <1>2, <1>6
<1>8. (a + b) \div n = q + p + carry  BY <1>6, <1>7
<1>9. low = (a + b) % n  BY <1>5 DEF low
<1> HIDE DEF carry
<1>10. low = (m + b) % n  BY <1>3, <1>9
<1> QED  BY <1>7, <1>8, <1>9, <1>10 DEF low, carry, q, m, p, l

(* The counter gives the place in the block. *)
LEMMA DgPlace ==
  ASSUME NEW n \in Nat
  PROVE  /\ ((8 * n) % DgWord) \div 8 \in Nat
         /\ (((8 * n) % DgWord) \div 8) % DgBlock = n % DgBlock
         /\ \E k \in Nat : n = (DgBlock * k) + (((8 * n) % DgWord) \div 8)
<1>1. DgBlock \in Nat \ {0} /\ DgWord \in Nat \ {0}  BY DgSizes
<1>2. PICK k \in Nat \ {0} : DgWord = 8 * (DgBlock * k)  BY DgSizes
<1> DEFINE a == 8 * n
           q == a \div DgWord
           m == a % DgWord
<1>3. q \in Nat /\ m \in 0..DgWord - 1 /\ a = (DgWord * q) + m
  <2>1. a \in Nat  OBVIOUS
  <2> HIDE DEF a
  <2> QED  BY <2>1, <1>1, DivMod
<1> HIDE DEF q, m
<1> DEFINE z == k * q
           y == DgBlock * z
<1>4. z \in Nat /\ y \in Nat /\ DgWord * q = 8 * y
  <2>1. z \in Nat  BY <1>2, <1>3
  <2>2. \A b, i, j \in Nat : (8 * (b * i)) * j = 8 * (b * (i * j))  OBVIOUS
  <2>3. DgWord * q = 8 * (DgBlock * (k * q))  BY <2>2, <1>1, <1>2, <1>3
  <2> HIDE DEF z
  <2>4. y \in Nat  BY <2>1, <1>1
  <2> QED  BY <2>1, <2>3, <2>4 DEF z
<1>5. y = DgBlock * z  OBVIOUS
<1> HIDE DEF y, z
<1> DEFINE x == n - y
<1>6. m = 8 * x /\ x \in Nat  BY <1>3, <1>4
<1> HIDE DEF x
<1>7. m \div 8 = x
  <2>1. m \in Nat /\ 0 \in 0..8 - 1 /\ m = 8 * x + 0  BY <1>3, <1>6
  <2> QED  BY <2>1, <1>6, DivIs
<1>8. n = y + x  BY <1>4, <1>6 DEF x
<1>9. x % DgBlock = n % DgBlock
  <2> DEFINE p == x \div DgBlock
             l == x % DgBlock
  <2>1. p \in Nat /\ l \in 0..DgBlock - 1 /\ x = (DgBlock * p) + l  BY <1>1, <1>6, DivMod
  <2> HIDE DEF p, l
  <2>2. DgBlock * (z + p) = DgBlock * z + DgBlock * p  BY <1>1, <1>4, <2>1
  <2>3. DgBlock * p \in Nat /\ z + p \in Nat  BY <1>1, <1>4, <2>1
  <2>4. n = DgBlock * (z + p) + l  BY <1>4, <1>5, <1>8, <2>1, <2>2, <2>3
  <2>5. n % DgBlock = l  BY <1>1, <2>1, <2>3, <2>4, ModIs
  <2> QED  BY <2>5 DEF l
<1>10. \E i \in Nat : n = (DgBlock * i) + x  BY <1>4, <1>5, <1>8
<1> QED  BY <1>6, <1>7, <1>9, <1>10 DEF m

(***************************************************************************)
(* A context of md5 or sha1 that has been fed the message s, of bytes of   *)
(* the alphabet A.                                                         *)
(***************************************************************************)
DgShape(c) ==
  DOMAIN c = {"low", "high", "buf", "index", "computed", "corrupted", "done"} /\ c.corrupted = FALSE

DgCounts(c, n) == c.low = (8 * n) % DgWord /\ c.high = ((8 * n) \div DgWord) % DgWord

DgFedBy(A, c, s) == DgShape(c) /\ DgCounts(c, Len(s)) /\ DgHolds(A, c.done, c.buf, s)

DgAlphabet(A) == DgPad \in A /\ DgZero \in A /\ \A n \in Nat : DgNumber(n) \in A

(* The counter of md5, and that of sha1, after m bytes more. *)
LEMMA DgCountIs ==
  ASSUME NEW n \in Nat, NEW m \in Nat,
         NEW low, low = (8 * n) % DgWord, NEW high, high = ((8 * n) \div DgWord) % DgWord,
         NEW nbits, nbits = (8 * m) % DgWord
  PROVE  LET md5  == (low + nbits) % DgWord
             sha1 == (low + 8 * m) % DgWord
         IN  /\ md5 = (8 * (n + m)) % DgWord /\ sha1 = (8 * (n + m)) % DgWord
             /\ (high + (8 * m) \div DgWord + (IF md5 < nbits THEN 1 ELSE 0)) % DgWord
                  = ((8 * (n + m)) \div DgWord) % DgWord
             /\ (high + (IF sha1 < low THEN 1 ELSE 0) + (8 * m) \div DgWord) % DgWord
                  = ((8 * (n + m)) \div DgWord) % DgWord
<1> DEFINE a == 8 * n
           b == 8 * m
           word == (a + b) % DgWord
           carry == IF word < nbits THEN 1 ELSE 0
           more == b \div DgWord
<1>1. DgWord \in Nat \ {0} /\ a \in Nat /\ b \in Nat /\ 8 * (n + m) = a + b  BY DgSizes
<1> HIDE DEF a, b
<1>2. low = a % DgWord /\ nbits = b % DgWord /\ high = (a \div DgWord) % DgWord  BY DEF a, b
<1>3. /\ (low + nbits) % DgWord = word /\ (low + b) % DgWord = word
      /\ word < nbits <=> word < low
      /\ (a + b) \div DgWord = (a \div DgWord) + more + carry
  <2> DEFINE u == a % DgWord
             v == b % DgWord
             x == (u + v) % DgWord
  <2>1. /\ x = (a + b) % DgWord /\ x = (u + b) % DgWord
        /\ x < v <=> x < u
        /\ (a + b) \div DgWord = (a \div DgWord) + (b \div DgWord) + (IF x < v THEN 1 ELSE 0)
    BY <1>1, CarryIs
  <2>2. u = low /\ v = nbits /\ x = (low + nbits) % DgWord  BY <1>2
  <2> HIDE DEF u, v, x
  <2>3. x = word /\ (low + b) % DgWord = word  BY <2>1, <2>2
  <2> QED  BY <2>1, <2>2, <2>3
<1>4. more \in Nat /\ carry \in Nat /\ a \div DgWord \in Nat /\ high \in Nat /\ low \in Nat
  <2>1. \A x \in Nat : x \div DgWord \in Nat /\ x % DgWord \in 0..DgWord - 1  BY <1>1, DivMod
  <2> QED  BY <2>1, <1>1, <1>2
<1> HIDE DEF word, more
<1> DEFINE q == a \div DgWord
           x == more + carry
<1> HIDE DEF carry
<1>5. q \in Nat /\ x \in Nat /\ high = q % DgWord  BY <1>2, <1>4
<1>6. (a + b) \div DgWord = q + x  BY <1>3, <1>4
<1>7. high + more + carry = high + x /\ high + carry + more = high + x  BY <1>4
<1> HIDE DEF q, x
<1>8. (high + x) % DgWord = ((a + b) \div DgWord) % DgWord
  <2>1. ((q % DgWord) + x) % DgWord = (q + x) % DgWord  BY <1>1, <1>5, ModAdd
  <2> QED  BY <2>1, <1>5, <1>6
<1>9. (high + more + carry) % DgWord = ((a + b) \div DgWord) % DgWord  BY <1>7, <1>8
<1>10. (high + carry + more) % DgWord = ((a + b) \div DgWord) % DgWord  BY <1>7, <1>8
<1>11. 8 * m = b  BY DEF b
<1>12. (high + (8 * m) \div DgWord + (IF (low + nbits) % DgWord < nbits THEN 1 ELSE 0)) % DgWord
         = ((8 * (n + m)) \div DgWord) % DgWord
  BY <1>1, <1>3, <1>9, <1>11 DEF carry, more
<1>13. (high + (IF (low + 8 * m) % DgWord < low THEN 1 ELSE 0) + (8 * m) \div DgWord) % DgWord
         = ((8 * (n + m)) \div DgWord) % DgWord
  <2>1. carry = IF word < low THEN 1 ELSE 0  BY <1>3 DEF carry
  <2> QED  BY <1>1, <1>3, <1>10, <1>11, <2>1 DEF more
<1>14. word = (8 * (n + m)) % DgWord  BY <1>1 DEF word
<1> QED  BY <1>3, <1>11, <1>12, <1>13, <1>14

(* So of the counters. *)
LEMMA DgCounted ==
  ASSUME NEW c, DgShape(c), NEW n \in Nat, DgCounts(c, n), NEW m \in Nat
  PROVE  LET d == Md5Count(c, m) IN
         DgShape(d) /\ DgCounts(d, n + m) /\ d.buf = c.buf /\ d.done = c.done
<1> DEFINE nbits == (8 * m) % DgWord
           low == (c.low + nbits) % DgWord
           high == (c.high + (8 * m) \div DgWord + (IF low < nbits THEN 1 ELSE 0)) % DgWord
<1>1. low = (8 * (n + m)) % DgWord /\ high = ((8 * (n + m)) \div DgWord) % DgWord
  <2> DEFINE x == c.low
             y == c.high
  <2>1. x = (8 * n) % DgWord /\ y = ((8 * n) \div DgWord) % DgWord  BY DEF DgCounts
  <2>2. low = (x + nbits) % DgWord /\ high = (y + (8 * m) \div DgWord + (IF low < nbits THEN 1 ELSE 0)) % DgWord
    OBVIOUS
  <2>3. nbits = (8 * m) % DgWord  OBVIOUS
  <2> HIDE DEF x, y, low, high, nbits
  <2> QED  BY <2>1, <2>2, <2>3, DgCountIs
<1>2. Md5Count(c, m) = [c EXCEPT !.low = low, !.high = high]  BY DEF Md5Count
<1> HIDE DEF low, high
<1> QED  BY <1>1, <1>2 DEF DgShape, DgCounts

-----------------------------------------------------------------------------
(***************************************************************************)
(* Any piece is taken in.                                                  *)
(***************************************************************************)
(* md5 takes any piece in. *)
LEMMA Md5AppendIs ==
  ASSUME NEW A, NEW c, NEW s, DgFedBy(A, c, s), NEW t \in Seq(A)
  PROVE  DgFedBy(A, Md5Append(c, t), s \o t)
<1> DEFINE n == Len(s)
           m == Len(t)
           r == (c.low \div 8) % DgBlock
           copy == IF r = 0 THEN 0 ELSE IF r + m > DgBlock THEN DgBlock - r ELSE m
           d == Md5Count(c, m)
           x == SubSeq(t, 1, copy)
           y == SubSeq(t, copy + 1, m)
           filled == [d EXCEPT !.buf = DgOverlay(@, r, x)]
           first == IF r = 0 THEN filled ELSE Md5Process(filled, filled.buf)
           last == [first EXCEPT !.done = @ \o DgBlocks(y), !.buf = DgOverlay(@, 0, DgTail(y))]
           st == s \o t
<1>1. DgBlock \in Nat \ {0} /\ n \in Nat /\ m \in Nat /\ s \in Seq(A) /\ st \in Seq(A) /\ Len(st) = n + m
  <2>1. s \in Seq(A)  BY DgHeld DEF DgFedBy
  <2> QED  BY <2>1, DgSizes, LenProperties, ConcatProperties
<1>2. r = n % DgBlock  BY <1>1, DgPlace DEF DgFedBy, DgCounts
<1>3. r \in 0..DgBlock - 1  BY <1>1, <1>2
<1>4. DgHolds(A, c.done, c.buf, s) /\ DgShape(c) /\ DgCounts(c, n)  BY DEF DgFedBy
<1>5. DgShape(d) /\ DgCounts(d, n + m) /\ d.buf = c.buf /\ d.done = c.done
  <2> HIDE DEF n, m
  <2> QED  BY <1>1, <1>4, DgCounted
<1>6. Md5Append(c, t) = IF t = << >> THEN c ELSE IF r > 0 /\ r + copy < DgBlock THEN filled ELSE last
  BY DEF Md5Append
<1>7. copy = IF r = 0 THEN 0 ELSE IF r + m > DgBlock THEN DgBlock - r ELSE m  OBVIOUS
<1>8. x = SubSeq(t, 1, copy) /\ y = SubSeq(t, copy + 1, m)  OBVIOUS
<1> HIDE DEF d, copy, x, y
<1>9. /\ DgShape(filled) /\ DgCounts(filled, n + m)
      /\ filled.buf = DgOverlay(c.buf, r, x) /\ filled.done = c.done
  BY <1>5 DEF DgShape, DgCounts
<1>10. first = IF r = 0 THEN filled ELSE [filled EXCEPT !.done = Append(@, filled.buf)]  BY DEF Md5Process
<1> HIDE DEF filled
<1>11. /\ DgShape(first) /\ DgCounts(first, n + m) /\ first.buf = filled.buf
       /\ first.done = IF r = 0 THEN filled.done ELSE Append(filled.done, filled.buf)
  BY <1>9, <1>10 DEF DgShape, DgCounts
<1> HIDE DEF first
<1>12. /\ DgShape(last) /\ DgCounts(last, n + m)
       /\ last.done = first.done \o DgBlocks(y) /\ last.buf = DgOverlay(first.buf, 0, DgTail(y))
  BY <1>11 DEF DgShape, DgCounts
<1> HIDE DEF last
<1>13. CASE t = << >>
  <2>1. st = s  BY <1>1, <1>13, ConcatEmptySeq
  <2> QED  BY <2>1, <1>6, <1>13
<1>14. CASE t # << >> /\ r > 0 /\ r + copy < DgBlock
  <2>1. r + m < DgBlock /\ copy = m  BY <1>1, <1>3, <1>7, <1>14
  <2>2. x = t  BY <1>8, <2>1, SubSeqFull
  <2>3. DgHolds(A, c.done, DgOverlay(c.buf, r, t), st)
    <3> HIDE DEF r
    <3> QED  BY <2>1, <1>2, <1>4, DgHoldsMore
  <2>4. DgHolds(A, filled.done, filled.buf, st)  BY <2>2, <2>3, <1>9
  <2> QED  BY <2>4, <1>1, <1>6, <1>9, <1>14 DEF DgFedBy
<1>15. CASE t # << >> /\ r > 0 /\ ~(r + copy < DgBlock)
  <2>1. r + m >= DgBlock /\ copy = DgBlock - r  BY <1>1, <1>3, <1>7, <1>15
  <2> DEFINE block == DgOverlay(c.buf, r, x)
  <2>2. DgHolds(A, Append(c.done, block) \o DgBlocks(y), DgOverlay(block, 0, DgTail(y)), st)
    <3>1. x = SubSeq(t, 1, DgBlock - r) /\ y = SubSeq(t, (DgBlock - r) + 1, Len(t))  BY <2>1, <1>8
    <3> HIDE DEF r
    <3> QED  BY <2>1, <3>1, <1>2, <1>4, DgHoldsFull
  <2>3. DgHolds(A, last.done, last.buf, st)  BY <2>2, <1>9, <1>11, <1>12, <1>15
  <2> QED  BY <2>3, <1>1, <1>6, <1>12, <1>15 DEF DgFedBy
<1>16. CASE t # << >> /\ r = 0
  <2>1. copy = 0  BY <1>7, <1>16
  <2>2. x = << >> /\ y = t
    <3>1. SubSeq(t, 1, 0) = << >>  BY SubSeqEmpty
    <3>2. SubSeq(t, 1, m) = t  BY SubSeqFull
    <3>3. 0 + 1 = 1  OBVIOUS
    <3> QED  BY <1>8, <2>1, <3>1, <3>2, <3>3
  <2>3. DgWhole(s) /\ c.done = DgBlocks(s) /\ c.buf \in [1..DgBlock -> A]
    <3>1. n = (DgBlock * (n \div DgBlock)) + (n % DgBlock) /\ n \div DgBlock \in Nat
      <4> HIDE DEF n
      <4> QED  BY <1>1, DivMod
    <3>2. n % DgBlock = 0  BY <1>2, <1>16
    <3> DEFINE k == n \div DgBlock
    <3>3. k \in Nat /\ Len(s) = DgBlock * k
      <4>1. DgBlock * k \in Nat  BY <1>1, <3>1
      <4> HIDE DEF k
      <4> QED  BY <3>1, <3>2, <4>1 DEF k
    <3> HIDE DEF k
    <3> QED  BY <3>3, <1>4, DgHeld DEF DgWhole
  <2>4. filled.buf = c.buf
    <3>1. \A i \in 1..DgBlock : i - 0 \notin DOMAIN << >>  OBVIOUS
    <3>2. c.buf = [i \in 1..DgBlock |-> c.buf[i]]  BY <2>3
    <3> QED  BY <3>1, <3>2, <2>2, <1>9, <1>16 DEF DgOverlay
  <2>5. DgHolds(A, DgBlocks(s) \o DgBlocks(t), DgOverlay(c.buf, 0, DgTail(t)), s \o t)
    BY <2>3, <1>1, DgHoldsBlocks
  <2>6. last.done = DgBlocks(s) \o DgBlocks(t) /\ last.buf = DgOverlay(c.buf, 0, DgTail(t))
    BY <2>2, <2>3, <2>4, <1>9, <1>11, <1>12, <1>16
  <2>7. DgHolds(A, last.done, last.buf, st)  BY <2>5, <2>6
  <2>8. ~(r > 0)
    <3> HIDE DEF r
    <3> QED  BY <1>16
  <2>9. Md5Append(c, t) = last  BY <2>8, <1>6, <1>16
  <2> QED  BY <2>7, <2>9, <1>1, <1>12 DEF DgFedBy
<1>17. r = 0 \/ r > 0  BY <1>3
<1> QED  BY <1>13, <1>14, <1>15, <1>16, <1>17

(* So does sha1. *)
LEMMA SHA1UpdateIs ==
  ASSUME NEW A, NEW c, NEW s, DgFedBy(A, c, s), NEW t \in Seq(A)
  PROVE  DgFedBy(A, SHA1Update(c, t), s \o t)
<1> DEFINE n == Len(s)
           m == Len(t)
           low == (c.low + 8 * m) % DgWord
           carry == IF low < c.low THEN 1 ELSE 0
           r == (c.low \div 8) % DgBlock
           k == DgBlock - r
           x == SubSeq(t, 1, k)
           y == SubSeq(t, k + 1, m)
           d == [c EXCEPT !.low = low, !.high = (@ + carry + (8 * m) \div DgWord) % DgWord]
           whole == [d EXCEPT !.buf = DgOverlay(@, r, x)]
           first == SHA1Transform(whole, whole.buf)
           last == [first EXCEPT !.done = @ \o DgBlocks(y), !.buf = DgOverlay(@, 0, DgTail(y))]
           few == [d EXCEPT !.buf = DgOverlay(@, r, t)]
           st == s \o t
<1>1. DgBlock \in Nat \ {0} /\ n \in Nat /\ m \in Nat /\ s \in Seq(A) /\ st \in Seq(A) /\ Len(st) = n + m
  <2>1. s \in Seq(A)  BY DgHeld DEF DgFedBy
  <2> QED  BY <2>1, DgSizes, LenProperties, ConcatProperties
<1>2. r = n % DgBlock  BY <1>1, DgPlace DEF DgFedBy, DgCounts
<1>3. r \in 0..DgBlock - 1  BY <1>1, <1>2
<1>4. DgHolds(A, c.done, c.buf, s) /\ DgShape(c) /\ DgCounts(c, n)  BY DEF DgFedBy
<1>5. DgShape(d) /\ DgCounts(d, n + m) /\ d.buf = c.buf /\ d.done = c.done
  <2> DEFINE u == c.low
             v == c.high
             high == (v + carry + (8 * m) \div DgWord) % DgWord
  <2>1. low = (8 * (n + m)) % DgWord /\ high = ((8 * (n + m)) \div DgWord) % DgWord
    <3>1. u = (8 * n) % DgWord /\ v = ((8 * n) \div DgWord) % DgWord  BY <1>4 DEF DgCounts
    <3>2. low = (u + 8 * m) % DgWord /\ high = (v + (IF low < u THEN 1 ELSE 0) + (8 * m) \div DgWord) % DgWord
      OBVIOUS
    <3> DEFINE nbits == (8 * m) % DgWord
    <3>3. nbits = (8 * m) % DgWord  OBVIOUS
    <3> HIDE DEF u, v, low, high, n, m, nbits
    <3> QED  BY <3>1, <3>2, <3>3, <1>1, DgCountIs
  <2>2. d = [c EXCEPT !.low = low, !.high = high]  OBVIOUS
  <2> HIDE DEF low, high, d
  <2> QED  BY <2>1, <2>2, <1>4 DEF DgShape, DgCounts
<1>6. SHA1Update(c, t) = IF r + m > DgBlock - 1 THEN last ELSE few
  BY DEF SHA1Update
<1>8. x = SubSeq(t, 1, k) /\ y = SubSeq(t, k + 1, m) /\ k = DgBlock - r  OBVIOUS
<1> HIDE DEF d, x, y, k
<1>7. /\ DgShape(few) /\ DgCounts(few, n + m)
      /\ few.buf = DgOverlay(c.buf, r, t) /\ few.done = c.done
  BY <1>5 DEF DgShape, DgCounts
<1> HIDE DEF few
<1>9. /\ DgShape(whole) /\ DgCounts(whole, n + m)
      /\ whole.buf = DgOverlay(c.buf, r, x) /\ whole.done = c.done
  BY <1>5 DEF DgShape, DgCounts
<1>10. first = [whole EXCEPT !.done = Append(@, whole.buf)]  BY DEF SHA1Transform
<1> HIDE DEF whole
<1>11. /\ DgShape(first) /\ DgCounts(first, n + m) /\ first.buf = whole.buf
       /\ first.done = Append(whole.done, whole.buf)
  BY <1>9, <1>10 DEF DgShape, DgCounts
<1> HIDE DEF first
<1>12. /\ DgShape(last) /\ DgCounts(last, n + m)
       /\ last.done = first.done \o DgBlocks(y) /\ last.buf = DgOverlay(first.buf, 0, DgTail(y))
  BY <1>11 DEF DgShape, DgCounts
<1> HIDE DEF last
<1>14. CASE r + m < DgBlock
  <2>1. ~(r + m > DgBlock - 1)
    <3> HIDE DEF r
    <3> QED  BY <1>1, <1>3, <1>14
  <2>2. SHA1Update(c, t) = few  BY <1>6, <2>1
  <2>3. DgHolds(A, c.done, DgOverlay(c.buf, r, t), st)
    <3> HIDE DEF r
    <3> QED  BY <1>2, <1>4, <1>14, DgHoldsMore
  <2> QED  BY <2>2, <2>3, <1>1, <1>7 DEF DgFedBy
<1>15. CASE ~(r + m < DgBlock)
  <2>1. r + m >= DgBlock /\ r + m > DgBlock - 1
    <3> HIDE DEF r
    <3> QED  BY <1>1, <1>3, <1>15
  <2>2. SHA1Update(c, t) = last  BY <1>6, <2>1
  <2> DEFINE block == DgOverlay(c.buf, r, x)
  <2>3. DgHolds(A, Append(c.done, block) \o DgBlocks(y), DgOverlay(block, 0, DgTail(y)), st)
    <3>1. x = SubSeq(t, 1, DgBlock - r) /\ y = SubSeq(t, (DgBlock - r) + 1, Len(t))  BY <1>8
    <3> HIDE DEF r
    <3> QED  BY <2>1, <3>1, <1>2, <1>4, DgHoldsFull
  <2>4. DgHolds(A, last.done, last.buf, st)  BY <2>3, <1>9, <1>11, <1>12
  <2> QED  BY <2>2, <2>4, <1>1, <1>12 DEF DgFedBy
<1> QED  BY <1>14, <1>15

-----------------------------------------------------------------------------
(***************************************************************************)
(* The end of the message.                                                 *)
(***************************************************************************)
(* The zeros that leave room for the length after l bytes and the mark. *)
DgRoom(l, n) == n \in 0..DgBlock - 1 /\ \E k \in Nat : (l + n) + 3 = DgBlock * k

DgLength(l, highFirst) ==
  LET low  == DgNumber((8 * l) % DgWord)
      high == DgNumber(((8 * l) \div DgWord) % DgWord)
  IN IF highFirst THEN <<high, low>> ELSE <<low, high>>

(* There is one number of zeros. *)
LEMMA DgZerosAre ==
  ASSUME NEW l \in Nat, NEW n, DgRoom(l, n)
  PROVE  (CHOOSE i \in 0..DgBlock - 1 : (l + i + 3) % DgBlock = 0) = n
<1>1. DgBlock \in Nat \ {0}  BY DgSizes
<1>2. PICK k \in Nat : (l + n) + 3 = DgBlock * k  BY DEF DgRoom
<1>3. n \in 0..DgBlock - 1  BY DEF DgRoom
<1>4. (l + n + 3) % DgBlock = 0
  <2> DEFINE a == (l + n) + 3
  <2>1. a \in Nat /\ a = DgBlock * k + 0 /\ 0 \in 0..DgBlock - 1  BY <1>1, <1>2, <1>3
  <2> HIDE DEF a
  <2>2. a % DgBlock = 0  BY <1>1, <2>1, ModIs
  <2> QED  BY <2>2 DEF a
<1>5. ASSUME NEW i \in 0..DgBlock - 1, (l + i + 3) % DgBlock = 0 PROVE i = n
  <2> DEFINE b == (l + i) + 3
             p == b \div DgBlock
  <2>1. b \in Nat /\ b % DgBlock = 0  BY <1>1, <1>5
  <2>2. p \in Nat /\ b = (DgBlock * p) + (b % DgBlock)
    <3> HIDE DEF b
    <3> QED  BY <1>1, <2>1, DivMod
  <2> HIDE DEF p
  <2>3. DgBlock * p \in Nat /\ DgBlock * k \in Nat  BY <1>1, <1>2, <2>2
  <2>4. b = DgBlock * p
    <3> HIDE DEF b
    <3> QED  BY <2>1, <2>2, <2>3
  <2>5. DgBlock * (p - k) = DgBlock * p - DgBlock * k  BY <1>1, <1>2, <2>2
  <2> DEFINE d == p - k
  <2>6. d \in Int /\ DgBlock * d = i - n  BY <1>2, <1>3, <2>2, <2>3, <2>4, <2>5
  <2> HIDE DEF d
  <2>7. DgBlock * d < DgBlock /\ -DgBlock < DgBlock * d  BY <1>1, <1>3, <2>6
  <2>8. d = 0  BY <1>1, <2>6, <2>7, SmallMultiple
  <2> QED  BY <1>1, <1>3, <2>6, <2>8
<1> QED  BY <1>3, <1>4, <1>5

(* Zeros are bytes, and zeros after zeros are zeros. *)
LEMMA DgZerosMore ==
  ASSUME NEW A, DgAlphabet(A), NEW n \in Nat, NEW m \in Nat
  PROVE  /\ DgZeros(n) \in Seq(A) /\ Len(DgZeros(n)) = n
         /\ DgZeros(n) \o DgZeros(m) = DgZeros(n + m)
<1>1. ASSUME NEW k \in Nat PROVE DgZeros(k) \in Seq(A) /\ Len(DgZeros(k)) = k
  <2>1. DgZeros(k) \in [1..k -> A]  BY DEF DgZeros, DgAlphabet
  <2> QED  BY <2>1, IsSequence
<1> DEFINE x == DgZeros(n)
           y == DgZeros(m)
           z == DgZeros(n + m)
<1>2. /\ x \in Seq(A) /\ Len(x) = n /\ y \in Seq(A) /\ Len(y) = m /\ z \in Seq(A) /\ Len(z) = n + m
  BY <1>1
<1>3. /\ \A i \in 1..n : x[i] = DgZero
      /\ \A i \in 1..m : y[i] = DgZero
      /\ \A i \in 1..n + m : z[i] = DgZero
  BY DEF DgZeros
<1> HIDE DEF x, y, z
<1>4. /\ x \o y \in Seq(A) /\ Len(x \o y) = n + m
      /\ \A i \in 1..n + m : (x \o y)[i] = IF i <= n THEN x[i] ELSE y[i - n]
  BY <1>2, ConcatProperties
<1> DEFINE v == x \o y
<1> HIDE DEF v
<1>5. \A i \in 1..n + m : v[i] = z[i]
  <2> TAKE i \in 1..n + m
  <2>1. CASE i <= n
    <3>1. i \in 1..n  BY <2>1
    <3> QED  BY <2>1, <3>1, <1>3, <1>4 DEF v
  <2>2. CASE ~(i <= n)
    <3>1. i - n \in 1..m  BY <2>2
    <3> QED  BY <2>2, <3>1, <1>3, <1>4 DEF v
  <2> QED  BY <2>1, <2>2
<1>6. v \in Seq(A) /\ Len(v) = n + m  BY <1>4 DEF v
<1>7. v = z  BY <1>2, <1>5, <1>6, SeqEqual
<1> QED  BY <1>1, <1>7 DEF v, x, y, z

(* The mark and zeros are n + 1 bytes; the length is two. *)
LEMMA DgEndIs ==
  ASSUME NEW A, DgAlphabet(A), NEW n \in Nat, NEW l \in Nat, NEW highFirst \in BOOLEAN
  PROVE  /\ <<DgPad>> \in Seq(A) /\ <<DgPad>> \o DgZeros(n) \in Seq(A) /\ Len(<<DgPad>> \o DgZeros(n)) = n + 1
         /\ DgLength(l, highFirst) \in Seq(A) /\ Len(DgLength(l, highFirst)) = 2
<1>1. <<DgPad>> \in Seq(A) /\ Len(<<DgPad>>) = 1  BY DEF DgAlphabet
<1>2. DgZeros(n) \in Seq(A) /\ Len(DgZeros(n)) = n  BY DgZerosMore
<1> DEFINE a == <<DgPad>>
           b == DgZeros(n)
           low == (8 * l) % DgWord
           high == ((8 * l) \div DgWord) % DgWord
<1>3. low \in Nat /\ high \in Nat
  <2>1. DgWord \in Nat \ {0} /\ 8 * l \in Nat  BY DgSizes
  <2>2. \A x \in Nat : x % DgWord \in Nat /\ x \div DgWord \in Nat
    <3>1. \A x \in Nat : x % DgWord \in 0..DgWord - 1 /\ x \div DgWord \in Nat  BY <2>1, DivMod
    <3> QED  BY <2>1, <3>1
  <2> QED  BY <2>1, <2>2
<1> DEFINE x == DgNumber(low)
           y == DgNumber(high)
<1>4. x \in A /\ y \in A
  <2> HIDE DEF low, high
  <2> QED  BY <1>3 DEF DgAlphabet
<1>5. DgLength(l, highFirst) = IF highFirst THEN <<y, x>> ELSE <<x, y>>  BY DEF DgLength
<1> HIDE DEF x, y, a, b
<1>6. DgLength(l, highFirst) \in Seq(A) /\ Len(DgLength(l, highFirst)) = 2  BY <1>4, <1>5
<1>7. a \o b \in Seq(A) /\ Len(a \o b) = n + 1
  <2>1. a \in Seq(A) /\ Len(a) = 1 /\ b \in Seq(A) /\ Len(b) = n  BY <1>1, <1>2 DEF a, b
  <2>2. a \o b \in Seq(A) /\ Len(a \o b) = Len(a) + Len(b)  BY <2>1, ConcatProperties
  <2> QED  BY <2>1, <2>2
<1> QED  BY <1>1, <1>6, <1>7 DEF a, b

(* The padded message. *)
LEMMA DgPaddedIs ==
  ASSUME NEW A, DgAlphabet(A), NEW s \in Seq(A), NEW n, DgRoom(Len(s), n), NEW highFirst \in BOOLEAN
  PROVE  Padded(s, 8 * Len(s), highFirst) = (s \o (<<DgPad>> \o DgZeros(n))) \o DgLength(Len(s), highFirst)
<1>1. Len(s) \in Nat /\ n \in Nat  BY LenProperties, DgSizes DEF DgRoom
<1> DEFINE z == CHOOSE i \in 0..DgBlock - 1 : (Len(s) + i + 3) % DgBlock = 0
<1>2. z = n  BY <1>1, DgZerosAre
<1> DEFINE low == DgNumber((8 * Len(s)) % DgWord)
           high == DgNumber(((8 * Len(s)) \div DgWord) % DgWord)
           length == IF highFirst THEN <<high, low>> ELSE <<low, high>>
<1>3. Padded(s, 8 * Len(s), highFirst) = s \o <<DgPad>> \o DgZeros(z) \o length  BY DEF Padded
<1>4. length = DgLength(Len(s), highFirst)  BY DEF DgLength
<1> HIDE DEF z, length
<1>5. <<DgPad>> \in Seq(A) /\ DgZeros(n) \in Seq(A)  BY <1>1, DgEndIs, DgZerosMore
<1>6. (s \o <<DgPad>>) \o DgZeros(n) = s \o (<<DgPad>> \o DgZeros(n))  BY <1>5, ConcatAssociative
<1>7. Padded(s, 8 * Len(s), highFirst) = ((s \o <<DgPad>>) \o DgZeros(n)) \o length  BY <1>2, <1>3
<1>8. Padded(s, 8 * Len(s), highFirst) = (s \o (<<DgPad>> \o DgZeros(n))) \o length  BY <1>6, <1>7
<1> QED  BY <1>4, <1>8

(* The zeros of md5 leave room. *)
LEMMA Md5ZerosAre ==
  ASSUME NEW l \in Nat, NEW x \in Nat, \E k \in Nat : l = DgBlock * k + x
  PROVE  /\ DgRoom(l, (DgBlock - 3 - x) % DgBlock)
         /\ \E j \in Nat : (x + ((DgBlock - 3 - x) % DgBlock)) + 3 = DgBlock * j + DgBlock
<1>1. PICK k \in Nat : l = DgBlock * k + x  OBVIOUS
<1>2. DgBlock \in Nat \ {0}  BY DgSizes
<1> DEFINE a == DgBlock - 3 - x
           p == a \div DgBlock
           z == a % DgBlock
<1>3. a \in Int  BY <1>2
<1>4. p \in Int /\ z \in 0..DgBlock - 1 /\ a = (DgBlock * p) + z
  <2> HIDE DEF a
  <2>1. z \in 0..DgBlock - 1  BY <1>2, <1>3
  <2>2. p \in Int  BY <1>2, <1>3
  <2>3. a = (DgBlock * p) + z  BY <1>2, <1>3
  <2> QED  BY <2>1, <2>2, <2>3
<1>5. a = DgBlock - 3 - x  OBVIOUS
<1> DEFINE q == 0 - p
<1> HIDE DEF a, z
<1>6. q \in Int /\ DgBlock * q = 0 - (DgBlock * p)  BY <1>2, <1>4
<1>7. p \in Int /\ DgBlock * p \in Int  BY <1>2, <1>4
<1>8. (x + z) + 3 = DgBlock * q + DgBlock
  <2> HIDE DEF p, q
  <2>1. DgBlock * q \in Int  BY <1>2, <1>6
  <2> QED  BY <1>2, <1>4, <1>5, <1>6, <1>7, <2>1
<1>9. q \in Nat
  <2>1. CASE q <= -1
    <3>1. DgBlock * q <= -DgBlock
      <4>1. DgBlock * q <= DgBlock * (-1)
        <5> HIDE DEF q
        <5> QED  BY <2>1, <1>2, <1>6
      <4> QED  BY <4>1, <1>2
    <3> HIDE DEF q, p
    <3>2. DgBlock * q \in Int /\ z \in Nat  BY <1>2, <1>4, <1>6
    <3> QED  BY <3>1, <3>2, <1>2, <1>8
  <2> HIDE DEF q
  <2> QED  BY <2>1, <1>6
<1> HIDE DEF p, q
<1>10. (l + z) + 3 = DgBlock * (k + q + 1)
  <2>1. DgBlock * (k + q + 1) = DgBlock * k + DgBlock * q + DgBlock  BY <1>2, <1>9
  <2>2. DgBlock * k \in Nat /\ DgBlock * q \in Nat /\ z \in Nat  BY <1>2, <1>4, <1>9
  <2> QED  BY <2>1, <2>2, <1>1, <1>2, <1>8
<1>11. k + q + 1 \in Nat  BY <1>9
<1>12. DgRoom(l, z)  BY <1>4, <1>10, <1>11 DEF DgRoom
<1> QED  BY <1>8, <1>9, <1>12 DEF z, a

(* The zeros of sha1 too. *)
LEMMA SHA1ZerosAre ==
  ASSUME NEW l \in Nat, NEW x \in Nat, \E k \in Nat : l = DgBlock * k + x
  PROVE  DgRoom(l, CHOOSE n \in 0..DgBlock - 1 : (x + 1 + n) % DgBlock = DgBlock - 2)
<1> DEFINE Fits(n) == (x + 1 + n) % DgBlock = DgBlock - 2
           z == CHOOSE n \in 0..DgBlock - 1 : Fits(n)
<1>1. PICK k \in Nat : l = DgBlock * k + x  OBVIOUS
<1>2. DgBlock \in Nat \ {0} /\ DgBlock > 2  BY DgSizes
<1>3. \E n \in 0..DgBlock - 1 : Fits(n)
  <2> DEFINE n == (DgBlock - 3 - x) % DgBlock
  <2>1. n \in 0..DgBlock - 1 /\ \E j \in Nat : (x + n) + 3 = DgBlock * j + DgBlock  BY Md5ZerosAre DEF DgRoom
  <2> HIDE DEF n
  <2>2. PICK j \in Nat : (x + n) + 3 = DgBlock * j + DgBlock  BY <2>1
  <2> DEFINE a == x + 1 + n
  <2>3. a \in Nat /\ DgBlock - 2 \in 0..DgBlock - 1  BY <2>1, <1>2
  <2>4. a = DgBlock * j + (DgBlock - 2)
    <3>1. DgBlock * j \in Nat  BY <1>2
    <3> QED  BY <3>1, <2>1, <2>2, <1>2
  <2> HIDE DEF a
  <2>5. a % DgBlock = DgBlock - 2  BY <2>3, <2>4, <1>2, ModIs
  <2> QED  BY <2>1, <2>5 DEF a
<1> HIDE DEF Fits
<1>4. z \in 0..DgBlock - 1 /\ Fits(z)  BY <1>3
<1> HIDE DEF z
<1> DEFINE b == x + 1 + z
           p == b \div DgBlock
<1>5. b \in Nat  BY <1>2, <1>4
<1>6. b % DgBlock = DgBlock - 2  BY <1>4 DEF Fits
<1>7. b = x + 1 + z  OBVIOUS
<1> HIDE DEF b
<1>8. p \in Nat /\ b = (DgBlock * p) + (b % DgBlock)  BY <1>2, <1>5, DivMod
<1> HIDE DEF p
<1>9. (l + z) + 3 = DgBlock * (k + p + 1)
  <2>1. DgBlock * (k + p + 1) = DgBlock * k + DgBlock * p + DgBlock  BY <1>2, <1>8
  <2>2. DgBlock * k \in Nat /\ DgBlock * p \in Nat /\ z \in Nat  BY <1>2, <1>4, <1>8
  <2> QED  BY <2>1, <2>2, <1>1, <1>2, <1>6, <1>7, <1>8
<1>10. k + p + 1 \in Nat  BY <1>8
<1>11. DgRoom(l, z)  BY <1>4, <1>9, <1>10 DEF DgRoom
<1> QED  BY <1>11 DEF z, Fits

(* A digest of md5 is that of the padded message. *)
LEMMA Md5FinishIs ==
  ASSUME NEW A, DgAlphabet(A), NEW c, NEW s, DgFedBy(A, c, s)
  PROVE  Md5Finish(c).computed = TRUE /\ Md5Finish(c).done = DgBlocks(Padded(s, 8 * Len(s), FALSE))
<1> DEFINE l == Len(s)
           x == c.low \div 8
           z == (DgBlock - 3 - x) % DgBlock
           pad == <<DgPad>> \o DgZeros(z)
           length == <<DgNumber(c.low), DgNumber(c.high)>>
           d == Md5Append(c, pad)
           e == Md5Append(d, length)
<1>1. s \in Seq(A) /\ l \in Nat
  <2>1. s \in Seq(A)  BY DgHeld DEF DgFedBy
  <2> QED  BY <2>1, LenProperties
<1>2. c.low = (8 * l) % DgWord /\ c.high = ((8 * l) \div DgWord) % DgWord  BY DEF DgFedBy, DgCounts
<1>3. x \in Nat /\ \E k \in Nat : l = DgBlock * k + x
  <2>1. x = ((8 * l) % DgWord) \div 8  BY <1>2
  <2> HIDE DEF l
  <2> QED  BY <2>1, <1>1, DgPlace
<1>4. DgRoom(l, z)
  <2> HIDE DEF l, x
  <2> QED  BY <1>1, <1>3, Md5ZerosAre
<1>5. length = DgLength(l, FALSE)  BY <1>2 DEF DgLength
<1>6. Md5Finish(c) = [e EXCEPT !.computed = TRUE]  BY DEF Md5Finish
<1>10. pad = <<DgPad>> \o DgZeros(z)  OBVIOUS
<1> HIDE DEF z, length, d, e, x, pad
<1>7. pad \in Seq(A) /\ length \in Seq(A)
  <2>1. z \in Nat  BY <1>4, DgSizes DEF DgRoom
  <2> QED  BY <2>1, <1>1, <1>5, <1>10, DgEndIs
<1>8. DgFedBy(A, d, s \o pad)  BY <1>7, Md5AppendIs DEF d
<1>9. DgFedBy(A, e, (s \o pad) \o length)
  <2> HIDE DEF pad
  <2> QED  BY <1>7, <1>8, Md5AppendIs DEF e
<1>11. Padded(s, 8 * Len(s), FALSE) = (s \o pad) \o length
  <2> USE DEF l
  <2> QED  BY <1>1, <1>4, <1>5, <1>10, DgPaddedIs
<1>12. e.done = DgBlocks((s \o pad) \o length)  BY <1>9, DgHeld DEF DgFedBy
<1>13. DgShape(e)  BY <1>9 DEF DgFedBy
<1> QED  BY <1>6, <1>11, <1>12, <1>13 DEF DgShape

(* The first bytes of a sequence, and one more. *)
LEMMA DgOneMore ==
  ASSUME NEW A, NEW p \in Seq(A), NEW i \in 1..Len(p)
  PROVE  /\ SubSeq(p, 1, i) = SubSeq(p, 1, i - 1) \o <<p[i]>>
         /\ SubSeq(p, 1, i) \in Seq(A) /\ SubSeq(p, 1, i - 1) \in Seq(A) /\ <<p[i]>> \in Seq(A)
<1> DEFINE x == SubSeq(p, 1, i - 1)
           y == SubSeq(p, i, i)
<1>1. Len(p) \in Nat /\ i \in Nat /\ i - 1 \in Nat  BY LenProperties
<1>2. \A j \in 1..Len(p) : p[j] \in A  BY ElementOfSeq
<1>3. x \o y = SubSeq(p, 1, i)
  <2>1. 1 \in 1..Len(p) + 1 /\ i - 1 \in 1 - 1..Len(p) /\ i \in i - 1..Len(p) /\ (i - 1) + 1 = i  BY <1>1
  <2> QED  BY <2>1, ConcatAdjacentSubSeq
<1>4. x \in Seq(A)
  <2>1. 1 \in Int /\ i - 1 \in Int /\ \A j \in 1..i - 1 : p[j] \in A  BY <1>1, <1>2
  <2> QED  BY <2>1, SubSeqProperties
<1>5. y \in Seq(A) /\ y = <<p[i]>>
  <2>1. i \in Int /\ \A j \in i..i : p[j] \in A  BY <1>1, <1>2
  <2>2. y \in Seq(A) /\ Len(y) = IF i <= i THEN i - i + 1 ELSE 0  BY <2>1, SubSeqProperties
  <2>3. Len(y) = 1  BY <2>2, <1>1
  <2>4. y[1] = p[i]
    <3>1. \A j \in 1..i - i + 1 : y[j] = p[i + j - 1]  BY <2>1, SubSeqProperties
    <3>2. 1 \in 1..i - i + 1 /\ i + 1 - 1 = i  BY <1>1
    <3> HIDE DEF y
    <3> QED  BY <3>1, <3>2
  <2>5. <<p[i]>> \in Seq(A) /\ Len(<<p[i]>>) = 1 /\ <<p[i]>>[1] = p[i]  BY <1>2
  <2> HIDE DEF y
  <2>6. \A j \in 1..1 : y[j] = <<p[i]>>[j]  BY <2>4, <2>5
  <2> QED  BY <2>2, <2>3, <2>5, <2>6, SeqEqual
<1>6. x \o <<p[i]>> \in Seq(A)
  <2>1. <<p[i]>> \in Seq(A)  BY <1>5
  <2> QED  BY <2>1, <1>4, ConcatProperties
<1> QED  BY <1>3, <1>4, <1>5, <1>6

(* The same behind another sequence. *)
LEMMA DgOneMoreBehind ==
  ASSUME NEW A, NEW s \in Seq(A), NEW p \in Seq(A), NEW i \in 1..Len(p)
  PROVE  s \o SubSeq(p, 1, i) = (s \o SubSeq(p, 1, i - 1)) \o <<p[i]>>
<1> DEFINE x == SubSeq(p, 1, i - 1)
           y == <<p[i]>>
<1>1. SubSeq(p, 1, i) = x \o y /\ x \in Seq(A) /\ y \in Seq(A)  BY DgOneMore
<1> HIDE DEF x, y
<1>2. DgCat(A, SubSeq(p, 1, i), x, y)  BY <1>1 DEF DgCat
<1>3. PICK r : DgCat(A, r, s, SubSeq(p, 1, i))  BY <1>2, DgCatIs, DgCats
<1>4. PICK q : DgCat(A, q, s, x)  BY <1>1, DgCats
<1>5. DgCat(A, r, q, y)  BY <1>2, <1>3, <1>4, DgCatLeft
<1>6. r = s \o SubSeq(p, 1, i) /\ q = s \o x /\ r = q \o y  BY <1>3, <1>4, <1>5 DEF DgCat
<1> QED  BY <1>6 DEF x, y

(* sha1 takes its padding in a byte at a time. *)
LEMMA SHA1BytesAre ==
  ASSUME NEW A, NEW c, NEW s, DgFedBy(A, c, s), NEW t \in Seq(A)
  PROVE  DgFedBy(A, FoldLeft(LAMBDA d, byte : SHA1Update(d, <<byte>>), c, t), s \o t)
<1> DEFINE n == Len(t)
           last == FoldLeft(LAMBDA d, byte : SHA1Update(d, <<byte>>), c, t)
           sofar(i) == s \o SubSeq(t, 1, i)
<1>1. PICK f : /\ f[0] = c
               /\ \A i \in 1..Len(t) : f[i] = DgOneByte(f[i - 1], t[i])
               /\ f[Len(t)] = last
  BY DgFoldIs
<1>2. n \in Nat /\ s \in Seq(A)  BY LenProperties, DgHeld DEF DgFedBy
<1> DEFINE Bad == {i \in 0..n : ~DgFedBy(A, f[i], sofar(i))}
<1>3. Bad = {}
  <2> SUFFICES ASSUME Bad # {} PROVE FALSE  OBVIOUS
  <2>1. Bad \in SUBSET Nat  BY <1>2
  <2>2. PICK i \in Bad : \A j \in Bad : i <= j  BY <2>1, LeastIs
  <2>3. i \in 0..n /\ ~DgFedBy(A, f[i], sofar(i))  BY <2>2
  <2>4. CASE i = 0
    <3>1. SubSeq(t, 1, 0) = << >>  BY SubSeqEmpty
    <3>2. sofar(i) = s  BY <2>4, <3>1, <1>2, ConcatEmptySeq
    <3> QED  BY <2>3, <2>4, <3>2, <1>1
  <2>5. CASE i # 0
    <3>1. i \in 1..n /\ i - 1 \in 0..n /\ ~(i <= i - 1)  BY <2>3, <2>5, <1>2
    <3>2. i - 1 \notin Bad
      <4> HIDE DEF Bad
      <4> QED  BY <2>2, <3>1
    <3>3. DgFedBy(A, f[i - 1], sofar(i - 1))  BY <3>1, <3>2
    <3>4. SubSeq(t, 1, i) = SubSeq(t, 1, i - 1) \o <<t[i]>> /\ SubSeq(t, 1, i - 1) \in Seq(A) /\ <<t[i]>> \in Seq(A)
      BY <3>1, DgOneMore
    <3>5. sofar(i) = sofar(i - 1) \o <<t[i]>>  BY <3>1, <1>2, DgOneMoreBehind
    <3> HIDE DEF sofar
    <3>6. DgFedBy(A, SHA1Update(f[i - 1], <<t[i]>>), sofar(i))  BY <3>3, <3>4, <3>5, SHA1UpdateIs
    <3>7. f[i] = SHA1Update(f[i - 1], <<t[i]>>)  BY <3>1, <1>1 DEF DgOneByte
    <3> QED  BY <2>3, <3>6, <3>7
  <2> QED  BY <2>4, <2>5
<1>4. DgFedBy(A, f[n], sofar(n))
  <2>1. n \in 0..n  BY <1>2
  <2> QED  BY <2>1, <1>3
<1>5. sofar(n) = s \o t  BY SubSeqFull
<1> HIDE DEF last
<1> QED  BY <1>1, <1>4, <1>5 DEF last

(* A digest of sha1 is that of the padded message. *)
LEMMA SHA1FinalIs ==
  ASSUME NEW A, DgAlphabet(A), NEW c, NEW s, DgFedBy(A, c, s)
  PROVE  SHA1Final(c).computed = TRUE /\ SHA1Final(c).done = DgBlocks(Padded(s, 8 * Len(s), TRUE))
<1> DEFINE l == Len(s)
           x == c.low \div 8
           z == CHOOSE n \in 0..DgBlock - 1 : (x + 1 + n) % DgBlock = DgBlock - 2
           pad == <<DgPad>> \o DgZeros(z)
           length == <<DgNumber(c.high), DgNumber(c.low)>>
           d == FoldLeft(LAMBDA i, byte : SHA1Update(i, <<byte>>), c, pad)
           e == SHA1Update(d, length)
<1>1. s \in Seq(A) /\ l \in Nat
  <2>1. s \in Seq(A)  BY DgHeld DEF DgFedBy
  <2> QED  BY <2>1, LenProperties
<1>2. c.low = (8 * l) % DgWord /\ c.high = ((8 * l) \div DgWord) % DgWord  BY DEF DgFedBy, DgCounts
<1>3. x \in Nat /\ \E k \in Nat : l = DgBlock * k + x
  <2>1. x = ((8 * l) % DgWord) \div 8  BY <1>2
  <2> HIDE DEF l
  <2> QED  BY <2>1, <1>1, DgPlace
<1>4. DgRoom(l, z)
  <2> HIDE DEF l, x
  <2> QED  BY <1>1, <1>3, SHA1ZerosAre
<1>5. length = DgLength(l, TRUE)  BY <1>2 DEF DgLength
<1>6. SHA1Final(c) = [e EXCEPT !.computed = TRUE]  BY DEF SHA1Final
<1>10. pad = <<DgPad>> \o DgZeros(z)  OBVIOUS
<1> HIDE DEF z, length, e, x, pad
<1>7. pad \in Seq(A) /\ length \in Seq(A)
  <2>1. z \in Nat  BY <1>4, DgSizes DEF DgRoom
  <2> QED  BY <2>1, <1>1, <1>5, <1>10, DgEndIs
<1>8. DgFedBy(A, d, s \o pad)  BY <1>7, SHA1BytesAre
<1>9. DgFedBy(A, e, (s \o pad) \o length)
  <2> HIDE DEF d
  <2> QED  BY <1>7, <1>8, SHA1UpdateIs DEF e
<1>11. Padded(s, 8 * Len(s), TRUE) = (s \o pad) \o length
  <2> USE DEF l
  <2> QED  BY <1>1, <1>4, <1>5, <1>10, DgPaddedIs
<1>12. e.done = DgBlocks((s \o pad) \o length)  BY <1>9, DgHeld DEF DgFedBy
<1>13. DgShape(e)  BY <1>9 DEF DgFedBy
<1> QED  BY <1>6, <1>11, <1>12, <1>13 DEF DgShape

-----------------------------------------------------------------------------
(***************************************************************************)
(* A context of sha256 that has been fed the message s: the two words hold *)
(* its length, so nothing is corrupted, and the index is kept.             *)
(***************************************************************************)
ShaFedBy(A, c, s) ==
  /\ DgShape(c) /\ c.computed = FALSE /\ c.index = Len(s) % DgBlock
  /\ c.low = (8 * Len(s)) % DgWord /\ c.high = (8 * Len(s)) \div DgWord
  /\ DgHolds(A, c.done, c.buf, s)

(* The index goes on, and begins anew with a block. *)
LEMMA DgIndexIs ==
  ASSUME NEW l \in Nat, NEW m \in Nat
  PROVE  /\ l % DgBlock \in 0..DgBlock - 1
         /\ (l % DgBlock) + m < DgBlock => (l + m) % DgBlock = (l % DgBlock) + m
         /\ (l % DgBlock) + m = DgBlock => (l + m) % DgBlock = 0
<1>1. DgBlock \in Nat \ {0}  BY DgSizes
<1> DEFINE r == l % DgBlock
<1>2. r \in 0..DgBlock - 1  BY <1>1, DivMod
<1>3. (r + m) % DgBlock = (l + m) % DgBlock  BY <1>1, ModAdd
<1> HIDE DEF r
<1>4. ASSUME r + m < DgBlock PROVE (r + m) % DgBlock = r + m
  <2> DEFINE a == r + m
  <2>1. a \in Nat /\ a \in 0..DgBlock - 1 /\ a = DgBlock * 0 + a  BY <1>1, <1>2, <1>4
  <2> HIDE DEF a
  <2>2. a % DgBlock = a  BY <1>1, <2>1, ModIs
  <2> QED  BY <2>2 DEF a
<1>5. ASSUME r + m = DgBlock PROVE (r + m) % DgBlock = 0
  <2>1. DgBlock \in Nat /\ DgBlock = DgBlock * 1 + 0 /\ 0 \in 0..DgBlock - 1  BY <1>1
  <2> QED  BY <1>1, <1>5, <2>1, ModIs
<1> QED  BY <1>2, <1>3, <1>4, <1>5 DEF r

(* Bytes that just fill the buffer. *)
LEMMA DgHoldsWhole ==
  ASSUME NEW A, NEW done, NEW front, NEW s, DgHolds(A, done, front, s), NEW t \in Seq(A),
         NEW r, r = Len(s) % DgBlock, r + Len(t) = DgBlock,
         NEW block, block = DgOverlay(front, r, t)
  PROVE  DgHolds(A, Append(done, block), block, s \o t)
<1> DEFINE k == DgBlock - r
           e == << >>
<1>1. DgBlock \in Nat \ {0} /\ s \in Seq(A) /\ Len(s) \in Nat /\ Len(t) \in Nat /\ r \in 0..DgBlock - 1
  <2>1. s \in Seq(A)  BY DgHeld
  <2>2. Len(s) \in Nat  BY <2>1, LenProperties
  <2> QED  BY <2>1, <2>2, DgSizes, LenProperties, DgIndexIs
<1>2. k = Len(t)  BY <1>1
<1>3. SubSeq(t, 1, k) = t /\ SubSeq(t, k + 1, Len(t)) = e
  <2>1. SubSeq(t, 1, Len(t)) = t  BY SubSeqFull
  <2>2. SubSeq(t, Len(t) + 1, Len(t)) = e
    <3>1. Len(t) + 1 \in Int /\ Len(t) \in Int /\ Len(t) < Len(t) + 1  BY <1>1
    <3> QED  BY <3>1, SubSeqEmpty
  <2> QED  BY <2>1, <2>2, <1>2
<1>4. e \in Seq(A) /\ Len(e) = 0 /\ Len(e) < DgBlock  BY <1>1, EmptySeq
<1>5. DgBlocks(e) = << >>
  <2> HIDE DEF e
  <2> QED  BY <1>4, DgBlocksFew
<1>6. DgTail(e) = << >>
  <2>1. 0 % DgBlock = 0
    <3>1. 0 = DgBlock * 0 + 0 /\ 0 \in 0..DgBlock - 1  BY <1>1
    <3> QED  BY <1>1, <3>1, ModIs
  <2>2. DgTail(e) = SubSeq(e, 1, 0)  BY <1>4, <2>1 DEF DgTail
  <2> QED  BY <2>2, SubSeqEmpty
<1>7. DgHolds(A, Append(done, block) \o DgBlocks(e), DgOverlay(block, 0, DgTail(e)), s \o t)
  <2>1. r + Len(t) >= DgBlock  BY <1>1
  <2>2. block = DgOverlay(front, r, SubSeq(t, 1, DgBlock - r)) /\ e = SubSeq(t, (DgBlock - r) + 1, Len(t))
    BY <1>3
  <2> HIDE DEF e
  <2> QED  BY <2>1, <2>2, DgHoldsFull
<1>8. block \in [1..DgBlock -> A] /\ DgOverlay(block, 0, << >>) = block
  <2>1. PICK w \in Seq(A), v \in Seq(A) :
           s = w \o v /\ DgWhole(w) /\ Len(v) < DgBlock /\ DgFront(front, v)
    BY DEF DgHolds
  <2>2. r = Len(v) /\ front \in [1..DgBlock -> A]  BY <2>1, DgPartsAre DEF DgHolds
  <2>3. Len(v) + Len(t) <= DgBlock /\ block = DgOverlay(front, Len(v), t)  BY <2>2, <1>1
  <2>4. PICK z : DgCat(A, z, v, t)  BY DgCats
  <2>5. block \in [1..DgBlock -> A]
    <3> DEFINE b == DgOverlay(front, Len(v), t)
    <3>1. DgFront(front, v) /\ front \in [1..DgBlock -> A] /\ Len(v) + Len(t) <= DgBlock  BY <2>1, <2>2, <2>3
    <3>2. b \in [1..DgBlock -> A]  BY <2>4, <3>1, DgOverlayIs
    <3>3. block = b  BY <2>3
    <3> HIDE DEF b
    <3> QED  BY <3>2, <3>3
  <2>6. \A i \in 1..DgBlock : i - 0 \notin DOMAIN << >>  OBVIOUS
  <2>7. block = [i \in 1..DgBlock |-> block[i]]  BY <2>5
  <2> QED  BY <2>5, <2>6, <2>7 DEF DgOverlay
<1>9. Append(done, block) \o << >> = Append(done, block)
  <2>1. done \in Seq(Seq(A))
    <3>1. PICK w \in Seq(A), v \in Seq(A) : DgWhole(w) /\ Len(v) < DgBlock /\ done = DgBlocks(w)
      BY DEF DgHolds
    <3> QED  BY <3>1, DgPartsAre
  <2>2. block \in Seq(A)  BY <1>1, <1>8, IsSequence
  <2>3. Append(done, block) \in Seq(Seq(A))  BY <2>1, <2>2, AppendProperties
  <2> QED  BY <2>3, ConcatEmptySeq
<1> QED  BY <1>5, <1>6, <1>7, <1>8, <1>9

(* The high word of a length that two words hold. *)
LEMMA DgHighIs ==
  ASSUME NEW a \in Nat, a < DgWord * DgWord
  PROVE  a \div DgWord \in 0..DgWord - 1 /\ (a \div DgWord) % DgWord = a \div DgWord
<1> DEFINE q == a \div DgWord
<1>1. DgWord \in Nat \ {0}  BY DgSizes
<1>2. q \in Nat /\ a % DgWord \in 0..DgWord - 1 /\ a = (DgWord * q) + (a % DgWord)  BY <1>1, DivMod
<1> HIDE DEF q
<1>3. q < DgWord
  <2> SUFFICES ASSUME q >= DgWord PROVE FALSE  BY <1>1, <1>2
  <2>1. DgWord * q >= DgWord * DgWord  BY <1>1, <1>2
  <2>2. DgWord * q \in Nat /\ DgWord * DgWord \in Nat  BY <1>1, <1>2
  <2> QED  BY <2>1, <2>2, <1>1, <1>2
<1>4. q % DgWord = q
  <2>1. q \in 0..DgWord - 1 /\ q = DgWord * 0 + q  BY <1>1, <1>2, <1>3
  <2> QED  BY <1>1, <1>2, <2>1, ModIs
<1> QED  BY <1>1, <1>2, <1>3, <1>4 DEF q

(* One byte. *)
LEMMA Sha256ByteIs ==
  ASSUME NEW A, NEW c, NEW s, ShaFedBy(A, c, s), NEW byte \in A, 8 * (Len(s) + 1) < DgWord * DgWord
  PROVE  ShaFedBy(A, Sha256Byte(c, byte), s \o <<byte>>)
<1> DEFINE l == Len(s)
           r == c.index
           t == <<byte>>
           st == s \o t
           front == DgOverlay(c.buf, r, t)
           d == [c EXCEPT !.buf = DgOverlay(@, r, t), !.index = @ + 1]
           low == (d.low + 8) % DgWord
           high == IF low < d.low THEN (d.high + 1) % DgWord ELSE d.high
           put == AddLength(d, 8)
           last == ProcessMessageBlock(put)
<1>1. DgBlock \in Nat \ {0} /\ DgWord \in Nat \ {0} /\ l \in Nat /\ s \in Seq(A)
  <2>1. s \in Seq(A)  BY DgHeld DEF ShaFedBy
  <2> QED  BY <2>1, DgSizes, LenProperties
<1>2. t \in Seq(A) /\ Len(t) = 1  OBVIOUS
<1>3. st \in Seq(A) /\ Len(st) = l + 1  BY <1>1, <1>2, ConcatProperties
<1>4. r = l % DgBlock /\ r \in 0..DgBlock - 1  BY <1>1, DgIndexIs DEF ShaFedBy
<1>5. /\ DgShape(d) /\ d.computed = FALSE /\ d.low = c.low /\ d.high = c.high
      /\ d.buf = front /\ d.index = r + 1 /\ d.done = c.done
  BY DEF ShaFedBy, DgShape
<1> HIDE DEF d, t
<1>7. low = (8 * (l + 1)) % DgWord /\ high = (8 * (l + 1)) \div DgWord /\ ~(low < d.low /\ high = 0)
  <2> DEFINE a == 8 * l
  <2>1. d.low = a % DgWord /\ d.high = a \div DgWord  BY <1>5 DEF ShaFedBy
  <2>2. a \in Nat /\ 8 * (l + 1) = a + 8  BY <1>1
  <2>3. 8 % DgWord = 8 /\ 8 \div DgWord = 0
    <3>1. DgWord > 8
      <4>1. PICK k \in Nat \ {0} : DgWord = 8 * (DgBlock * k)  BY DgSizes
      <4>2. DgBlock * k \in Nat /\ DgBlock * k >= 2
        <5>1. DgBlock > 2  BY DgSizes
        <5>2. DgBlock * k >= DgBlock * 1  BY <1>1
        <5> QED  BY <5>1, <5>2, <1>1
      <4> DEFINE b == DgBlock * k
      <4> HIDE DEF b
      <4>3. DgWord = 8 * b /\ b \in Nat /\ b >= 2  BY <4>1, <4>2 DEF b
      <4> QED  BY <4>3
    <3>2. 8 \in 0..DgWord - 1 /\ 8 = DgWord * 0 + 8  BY <3>1, <1>1
    <3> QED  BY <3>2, <1>1, ModIs, DivIs
  <2> HIDE DEF a
  <2> DEFINE u == a % DgWord
             v == 8 % DgWord
             x == (u + v) % DgWord
  <2>4. /\ x = (a + 8) % DgWord
        /\ x < v <=> x < u
        /\ (a + 8) \div DgWord = (a \div DgWord) + (8 \div DgWord) + (IF x < v THEN 1 ELSE 0)
    <3> DEFINE e == 8
    <3>1. e \in Nat /\ DgWord \in Nat \ {0} /\ v = e % DgWord  BY <1>1
    <3> HIDE DEF e, v
    <3>2. /\ x = (a + e) % DgWord
          /\ x < v <=> x < u
          /\ (a + e) \div DgWord = (a \div DgWord) + (e \div DgWord) + (IF x < v THEN 1 ELSE 0)
      BY <3>1, <2>2, CarryIs
    <3> QED  BY <3>2 DEF e
  <2>5. u = d.low /\ v = 8 /\ x = low  BY <2>1, <2>3
  <2> HIDE DEF u, v, x
  <2>6. a \div DgWord \in Nat  BY <1>1, <2>2, DivMod
  <2>7. high = (a + 8) \div DgWord /\ ~(low < d.low /\ high = 0)
    <3> DEFINE q == a \div DgWord
               b == (a + 8) \div DgWord
    <3>4. b % DgWord = b
      <4>1. a + 8 \in Nat /\ a + 8 < DgWord * DgWord  BY <2>2
      <4> QED  BY <4>1, DgHighIs
    <3> HIDE DEF low
    <3>1. x < v <=> low < d.low  BY <2>4, <2>5
    <3>2. high = IF x < v THEN (q + 1) % DgWord ELSE q  BY <2>1, <3>1
    <3>3. b = q + (IF x < v THEN 1 ELSE 0) /\ q \in Nat  BY <2>3, <2>4, <2>6
    <3> HIDE DEF high, q, b
    <3>5. CASE x < v
      <4>1. b = q + 1  BY <3>3, <3>5
      <4>2. high = b  BY <3>2, <3>4, <3>5, <4>1
      <4> QED  BY <3>3, <4>1, <4>2 DEF b
    <3>6. CASE ~(x < v)
      <4>1. b = q  BY <3>3, <3>6
      <4> QED  BY <3>1, <3>2, <3>6, <4>1 DEF b
    <3> QED  BY <3>5, <3>6
  <2> QED  BY <2>2, <2>4, <2>5, <2>7
<1>6. /\ DgShape(put) /\ put.computed = FALSE /\ put.low = low /\ put.high = high
      /\ put.buf = front /\ put.index = r + 1 /\ put.done = c.done
  <2>1. put = [d EXCEPT !.low = low, !.high = high, !.corrupted = (low < d.low /\ high = 0)]
    BY DEF AddLength
  <2>2. (low < d.low /\ high = 0) = FALSE  BY <1>7
  <2> HIDE DEF put, low, high, front
  <2> QED  BY <2>1, <2>2, <1>5 DEF DgShape
<1>8. Sha256Byte(c, byte) = IF put.index = DgBlock THEN last ELSE put
  <2>1. Sha256Byte(c, byte) = IF c.corrupted THEN c
                              ELSE IF ~put.corrupted /\ put.index = DgBlock THEN last ELSE put
    BY DEF Sha256Byte, d, t
  <2>2. c.corrupted = FALSE  BY DEF ShaFedBy, DgShape
  <2>3. put.corrupted = FALSE
    <3> HIDE DEF put
    <3> QED  BY <1>6 DEF DgShape
  <2> HIDE DEF put, last
  <2> QED  BY <2>1, <2>2, <2>3
<1>9. DgHolds(A, c.done, c.buf, s)  BY DEF ShaFedBy
<1> HIDE DEF put, low, high
<1>10. CASE r + 1 < DgBlock
  <2>1. DgHolds(A, c.done, front, st)  BY <1>2, <1>4, <1>9, <1>10, DgHoldsMore
  <2>2. (l + 1) % DgBlock = r + 1  BY <1>1, <1>4, <1>10, DgIndexIs
  <2>3. Sha256Byte(c, byte) = put  BY <1>1, <1>4, <1>6, <1>8, <1>10
  <2>4. ShaFedBy(A, put, st)  BY <2>1, <2>2, <1>3, <1>6, <1>7 DEF ShaFedBy
  <2> QED  BY <2>3, <2>4 DEF t
<1>11. CASE r + 1 = DgBlock
  <2>1. DgHolds(A, Append(c.done, front), front, st)
    <3>1. r + Len(t) = DgBlock  BY <1>2, <1>11
    <3>2. front = DgOverlay(c.buf, r, t)  OBVIOUS
    <3> HIDE DEF front, r
    <3> QED  BY <3>1, <3>2, <1>2, <1>4, <1>9, DgHoldsWhole
  <2>2. (l + 1) % DgBlock = 0  BY <1>1, <1>4, <1>11, DgIndexIs
  <2>3. Sha256Byte(c, byte) = last  BY <1>6, <1>8, <1>11
  <2>4. last = [put EXCEPT !.done = Append(@, put.buf), !.index = 0]  BY DEF ProcessMessageBlock
  <2>5. /\ DgShape(last) /\ last.computed = FALSE /\ last.low = put.low /\ last.high = put.high
        /\ last.buf = front /\ last.index = 0 /\ last.done = Append(c.done, front)
    <3> HIDE DEF front, last
    <3> QED  BY <2>4, <1>6 DEF DgShape
  <2> HIDE DEF last
  <2>6. ShaFedBy(A, last, st)  BY <2>1, <2>2, <2>5, <1>3, <1>6, <1>7 DEF ShaFedBy
  <2> QED  BY <2>3, <2>6 DEF t
<1>12. r + 1 < DgBlock \/ r + 1 = DgBlock
  <2> HIDE DEF r
  <2> QED  BY <1>1, <1>4
<1> QED  BY <1>10, <1>11, <1>12

(* Any piece is taken in by sha256. *)
LEMMA Sha256InputIs ==
  ASSUME NEW A, NEW c, NEW s, ShaFedBy(A, c, s), NEW t \in Seq(A),
         8 * (Len(s) + Len(t)) < DgWord * DgWord
  PROVE  ShaFedBy(A, Sha256Input(c, t), s \o t)
<1> DEFINE n == Len(t)
           last == FoldLeft(Sha256Byte, c, t)
           sofar(i) == s \o SubSeq(t, 1, i)
<1>1. PICK f : /\ f[0] = c
               /\ \A i \in 1..Len(t) : f[i] = Sha256Byte(f[i - 1], t[i])
               /\ f[Len(t)] = last
  BY DgFoldIs
<1>2. n \in Nat /\ s \in Seq(A)  BY LenProperties, DgHeld DEF ShaFedBy
<1> DEFINE Bad == {i \in 0..n : ~ShaFedBy(A, f[i], sofar(i))}
<1>3. Bad = {}
  <2> SUFFICES ASSUME Bad # {} PROVE FALSE  OBVIOUS
  <2>1. Bad \in SUBSET Nat  BY <1>2
  <2>2. PICK i \in Bad : \A j \in Bad : i <= j  BY <2>1, LeastIs
  <2>3. i \in 0..n /\ ~ShaFedBy(A, f[i], sofar(i))  BY <2>2
  <2>4. CASE i = 0
    <3>1. SubSeq(t, 1, 0) = << >>  BY SubSeqEmpty
    <3>2. sofar(i) = s  BY <2>4, <3>1, <1>2, ConcatEmptySeq
    <3> QED  BY <2>3, <2>4, <3>2, <1>1
  <2>5. CASE i # 0
    <3>1. i \in 1..n /\ i - 1 \in 0..n /\ ~(i <= i - 1)  BY <2>3, <2>5, <1>2
    <3>2. i - 1 \notin Bad
      <4> HIDE DEF Bad
      <4> QED  BY <2>2, <3>1
    <3>3. ShaFedBy(A, f[i - 1], sofar(i - 1))  BY <3>1, <3>2
    <3>4. SubSeq(t, 1, i) = SubSeq(t, 1, i - 1) \o <<t[i]>> /\ SubSeq(t, 1, i - 1) \in Seq(A) /\ <<t[i]>> \in Seq(A)
      BY <3>1, DgOneMore
    <3>5. sofar(i) = sofar(i - 1) \o <<t[i]>>  BY <3>1, <1>2, DgOneMoreBehind
    <3>6. t[i] \in A  BY <3>1, ElementOfSeq
    <3>9. 8 * (Len(sofar(i - 1)) + 1) < DgWord * DgWord
      <4>1. Len(SubSeq(t, 1, i - 1)) = i - 1
        <5>1. 1 \in Nat /\ i - 1 \in Nat /\ i - 1 <= n  BY <3>1, <1>2
        <5> QED  BY <5>1, <1>2, SubSeqProperties
      <4>2. Len(sofar(i - 1)) = Len(s) + (i - 1)  BY <3>4, <4>1, <1>2, ConcatProperties
      <4>3. DgWord * DgWord \in Nat /\ Len(s) \in Nat  BY <1>2, DgSizes, LenProperties
      <4> QED  BY <4>2, <4>3, <3>1, <1>2
    <3> HIDE DEF sofar
    <3>7. ShaFedBy(A, Sha256Byte(f[i - 1], t[i]), sofar(i))  BY <3>3, <3>5, <3>6, <3>9, Sha256ByteIs
    <3>8. f[i] = Sha256Byte(f[i - 1], t[i])  BY <3>1, <1>1
    <3> QED  BY <2>3, <3>7, <3>8
  <2> QED  BY <2>4, <2>5
<1>4. ShaFedBy(A, f[n], sofar(n))
  <2>1. n \in 0..n  BY <1>2
  <2> QED  BY <2>1, <1>3
<1>5. sofar(n) = s \o t  BY SubSeqFull
<1>6. c.computed = FALSE /\ c.corrupted = FALSE  BY DEF ShaFedBy, DgShape
<1> HIDE DEF last
<1> QED  BY <1>1, <1>4, <1>5, <1>6 DEF last, Sha256Input

DgFilling(d, c, to, s, z) == d = DgFilled(c, to, s) /\ z = s \o DgZeros(to - c.index - Len(s))

(* Bytes s and zeros are put behind the index. *)
LEMMA DgFilledIs ==
  ASSUME NEW c, DgShape(c), NEW to, NEW s, NEW d, NEW z, DgFilling(d, c, to, s, z)
  PROVE  /\ DgShape(d) /\ d.low = c.low /\ d.high = c.high /\ d.done = c.done /\ d.index = to
         /\ d.buf = DgOverlay(c.buf, c.index, z)
BY DEF DgFilling, DgFilled, DgShape

(* A block that is full is compressed. *)
LEMMA DgProcessedIs ==
  ASSUME NEW c, DgShape(c)
  PROVE  LET d == ProcessMessageBlock(c) IN
         /\ DgShape(d) /\ d.low = c.low /\ d.high = c.high /\ d.buf = c.buf /\ d.index = 0
         /\ d.done = Append(c.done, c.buf)
BY DEF ProcessMessageBlock, DgShape

(* The zeros of sha256 leave room: in this block, or in the next. *)
LEMMA Sha256ZerosAre ==
  ASSUME NEW l \in Nat, NEW r, r = l % DgBlock,
         NEW n, n = IF r >= DgBlock - 2 THEN (DgBlock - r - 1) + (DgBlock - 2) ELSE (DgBlock - 2) - r - 1
  PROVE  DgRoom(l, n) /\ (l + (n + 1)) % DgBlock = DgBlock - 2
<1> DEFINE q == l \div DgBlock
           j == IF r >= DgBlock - 2 THEN 1 ELSE 0
<1>1. DgBlock \in Nat \ {0} /\ DgBlock > 2  BY DgSizes
<1>2. q \in Nat /\ r \in 0..DgBlock - 1 /\ l = (DgBlock * q) + r  BY <1>1, DivMod
<1> HIDE DEF q
<1>3. n \in 0..DgBlock - 1  BY <1>1, <1>2
<1>4. j \in Nat /\ q + j \in Nat /\ q + j + 1 \in Nat  BY <1>2
<1>5. DgBlock * q \in Nat /\ DgBlock * (q + 1) = DgBlock * q + DgBlock /\ DgBlock * (q + 2) = DgBlock * q + DgBlock + DgBlock
  BY <1>1, <1>2
<1>6. (l + n) + 3 = DgBlock * (q + j + 1) /\ l + (n + 1) = DgBlock * (q + j) + (DgBlock - 2)
  <2>1. CASE r >= DgBlock - 2
    <3>1. q + j = q + 1 /\ q + j + 1 = q + 2  BY <2>1, <1>2
    <3>2. n = (DgBlock - r - 1) + (DgBlock - 2)  BY <2>1
    <3> HIDE DEF j
    <3>3. DgBlock * (q + j) = DgBlock * q + DgBlock /\ DgBlock * (q + j + 1) = DgBlock * q + DgBlock + DgBlock
      BY <3>1, <1>5
    <3> QED  BY <3>2, <3>3, <1>1, <1>2, <1>5
  <2>2. CASE ~(r >= DgBlock - 2)
    <3>1. q + j = q /\ q + j + 1 = q + 1  BY <2>2, <1>2
    <3>2. n = (DgBlock - 2) - r - 1  BY <2>2
    <3> HIDE DEF j
    <3>3. DgBlock * (q + j) = DgBlock * q /\ DgBlock * (q + j + 1) = DgBlock * q + DgBlock
      BY <3>1, <1>5
    <3> QED  BY <3>2, <3>3, <1>1, <1>2, <1>5
  <2> QED  BY <2>1, <2>2
<1> HIDE DEF j
<1>7. (l + (n + 1)) % DgBlock = DgBlock - 2
  <2> DEFINE a == l + (n + 1)
             p == q + j
  <2>1. a \in Nat /\ DgBlock - 2 \in 0..DgBlock - 1 /\ p \in Nat  BY <1>1, <1>3, <1>4
  <2>2. a = DgBlock * p + (DgBlock - 2)  BY <1>6
  <2> HIDE DEF a, p
  <2>3. a % DgBlock = DgBlock - 2  BY <2>1, <2>2, <1>1, ModIs
  <2> QED  BY <2>3 DEF a
<1> QED  BY <1>3, <1>4, <1>6, <1>7 DEF DgRoom

(* The counter of sha256 is the length when it fits into the two words. *)
LEMMA Sha256LengthIs ==
  ASSUME NEW l \in Nat, 8 * l < DgWord * DgWord
  PROVE  DgLength(l, TRUE) = <<DgNumber((8 * l) \div DgWord), DgNumber((8 * l) % DgWord)>>
<1>1. 8 * l \in Nat  OBVIOUS
<1> QED  BY <1>1, DgHighIs DEF DgLength

(* The mark and the zeros, when they end in the block that is being filled. *)
LEMMA Sha256PadsHere ==
  ASSUME NEW A, DgAlphabet(A), NEW c, NEW s, ShaFedBy(A, c, s), ~NeedsBlock(c)
  PROVE  LET n == (DgBlock - 2) - c.index - 1
             d == DgFilled(c, DgBlock - 2, <<DgPad>>)
         IN  /\ DgShape(d) /\ d.low = c.low /\ d.high = c.high /\ d.index = DgBlock - 2
             /\ DgHolds(A, d.done, d.buf, s \o (<<DgPad>> \o DgZeros(n)))
<1> DEFINE r == c.index
           n == (DgBlock - 2) - r - 1
           t == <<DgPad>> \o DgZeros(n)
           d == DgFilled(c, DgBlock - 2, <<DgPad>>)
<1>1. DgBlock \in Nat \ {0} /\ DgBlock > 2 /\ s \in Seq(A) /\ Len(s) \in Nat
  <2>1. s \in Seq(A)  BY DgHeld DEF ShaFedBy
  <2> QED  BY <2>1, DgSizes, LenProperties
<1>2. r = Len(s) % DgBlock /\ r \in 0..DgBlock - 1  BY <1>1, DgIndexIs DEF ShaFedBy
<1>3. ~(r >= DgBlock - 2)  BY DEF NeedsBlock
<1>10. r = c.index  OBVIOUS
<1> HIDE DEF r
<1>4. n \in Nat /\ r + (n + 1) < DgBlock  BY <1>1, <1>2, <1>3
<1>5. DgShape(c) /\ d = DgFilled(c, DgBlock - 2, <<DgPad>>)  BY DEF ShaFedBy
<1>6. t = <<DgPad>> \o DgZeros((DgBlock - 2) - c.index - Len(<<DgPad>>))
  <2>1. Len(<<DgPad>>) = 1  OBVIOUS
  <2> QED  BY <2>1, <1>10
<1> HIDE DEF d
<1>7. /\ DgShape(d) /\ d.low = c.low /\ d.high = c.high /\ d.done = c.done /\ d.index = DgBlock - 2
      /\ d.buf = DgOverlay(c.buf, r, t)
  <2> HIDE DEF t
  <2>1. DgFilling(d, c, DgBlock - 2, <<DgPad>>, t)  BY <1>5, <1>6 DEF DgFilling
  <2> QED  BY <2>1, <1>5, <1>10, DgFilledIs
<1>8. t \in Seq(A) /\ Len(t) = n + 1
  <2> HIDE DEF n
  <2> QED  BY <1>4, <1>1, DgEndIs
<1> HIDE DEF t
<1>9. DgHolds(A, c.done, DgOverlay(c.buf, r, t), s \o t)
  <2>1. DgHolds(A, c.done, c.buf, s)  BY DEF ShaFedBy
  <2>2. r + Len(t) < DgBlock  BY <1>4, <1>8
  <2> QED  BY <2>1, <2>2, <1>2, <1>8, DgHoldsMore
<1>11. DgHolds(A, d.done, d.buf, s \o t)  BY <1>7, <1>9
<1> QED  BY <1>7, <1>11 DEF d, t, r

(* And when another block is needed. *)
LEMMA Sha256PadsOn ==
  ASSUME NEW A, DgAlphabet(A), NEW c, NEW s, ShaFedBy(A, c, s), NeedsBlock(c)
  PROVE  LET n == (DgBlock - c.index - 1) + (DgBlock - 2)
             d == DgFilled(ProcessMessageBlock(DgFilled(c, DgBlock, <<DgPad>>)), DgBlock - 2, << >>)
         IN  /\ DgShape(d) /\ d.low = c.low /\ d.high = c.high /\ d.index = DgBlock - 2
             /\ DgHolds(A, d.done, d.buf, s \o (<<DgPad>> \o DgZeros(n)))
<1> DEFINE r == c.index
           k == DgBlock - r - 1
           room == DgBlock - 2
           t == <<DgPad>> \o DgZeros(k)
           u == DgZeros(room)
           x == DgFilled(c, DgBlock, <<DgPad>>)
           y == ProcessMessageBlock(x)
           d == DgFilled(y, room, << >>)
<1>1. DgBlock \in Nat \ {0} /\ DgBlock > 2 /\ s \in Seq(A) /\ Len(s) \in Nat
  <2>1. s \in Seq(A)  BY DgHeld DEF ShaFedBy
  <2> QED  BY <2>1, DgSizes, LenProperties
<1>2. r = Len(s) % DgBlock /\ r \in 0..DgBlock - 1  BY <1>1, DgIndexIs DEF ShaFedBy
<1>3. r = c.index /\ Len(<<DgPad>>) = 1 /\ Len(<< >>) = 0  OBVIOUS
<1> HIDE DEF r
<1>4. k \in Nat /\ room \in Nat /\ r + (k + 1) = DgBlock /\ room < DgBlock  BY <1>1, <1>2
<1>5. DgShape(c) /\ x = DgFilled(c, DgBlock, <<DgPad>>)  BY DEF ShaFedBy
<1>17. t = <<DgPad>> \o DgZeros(DgBlock - c.index - Len(<<DgPad>>))  BY <1>3
<1> HIDE DEF x
<1>6. /\ DgShape(x) /\ x.low = c.low /\ x.high = c.high /\ x.done = c.done
      /\ x.buf = DgOverlay(c.buf, r, t)
  <2> HIDE DEF t
  <2>1. DgFilling(x, c, DgBlock, <<DgPad>>, t)  BY <1>5, <1>17 DEF DgFilling
  <2> QED  BY <2>1, <1>3, <1>5, DgFilledIs
<1>7. /\ DgShape(y) /\ y.low = x.low /\ y.high = x.high /\ y.buf = x.buf /\ y.index = 0
      /\ y.done = Append(x.done, x.buf)
  BY <1>6, DgProcessedIs
<1> HIDE DEF y
<1>9. t \in Seq(A) /\ Len(t) = k + 1
  <2> HIDE DEF k
  <2> QED  BY <1>4, <1>1, DgEndIs
<1>10. u \in Seq(A) /\ Len(u) = room
  <2> HIDE DEF room
  <2> QED  BY <1>4, DgZerosMore
<1>8. u = << >> \o DgZeros(room - y.index - Len(<< >>))
  <2>1. room - y.index - Len(<< >>) = room  BY <1>3, <1>4, <1>7
  <2>2. << >> \o u = u
    <3> HIDE DEF u
    <3> QED  BY <1>10, ConcatEmptySeq
  <2> QED  BY <2>1, <2>2
<1>11. /\ DgShape(d) /\ d.low = y.low /\ d.high = y.high /\ d.done = y.done /\ d.index = room
       /\ d.buf = DgOverlay(y.buf, 0, u)
  <2>1. DgFilling(d, y, room, << >>, u)
    <3> HIDE DEF u, room
    <3> QED  BY <1>8 DEF DgFilling
  <2> HIDE DEF d, u, room
  <2> QED  BY <2>1, <1>7, DgFilledIs
<1> HIDE DEF d, t, u, k, room
<1>12. DgHolds(A, y.done, y.buf, s \o t)
  <2>1. DgHolds(A, c.done, c.buf, s)  BY DEF ShaFedBy
  <2>2. r + Len(t) = DgBlock  BY <1>4, <1>9
  <2>3. DgHolds(A, Append(c.done, x.buf), x.buf, s \o t)  BY <2>1, <2>2, <1>2, <1>6, <1>9, DgHoldsWhole
  <2> QED  BY <2>3, <1>6, <1>7
<1>13. DgHolds(A, y.done, DgOverlay(y.buf, 0, u), (s \o t) \o u)
  <2>1. Len(s \o t) = Len(s) + (k + 1)  BY <1>1, <1>9, ConcatProperties
  <2>2. (Len(s) + (k + 1)) % DgBlock = 0  BY <1>1, <1>2, <1>4, DgIndexIs
  <2>3. 0 = Len(s \o t) % DgBlock  BY <2>1, <2>2
  <2>4. 0 + Len(u) < DgBlock  BY <1>4, <1>10
  <2> QED  BY <2>3, <2>4, <1>10, <1>12, DgHoldsMore
<1>14. (s \o t) \o u = s \o (<<DgPad>> \o DgZeros(k + room))
  <2> DEFINE a == <<DgPad>>
             z == DgZeros(k)
             zu == DgZeros(k + room)
  <2>1. a \in Seq(A)  BY <1>1, DgEndIs
  <2>2. z \in Seq(A) /\ zu = z \o u /\ t = a \o z  BY <1>4, DgZerosMore DEF u, t
  <2> HIDE DEF a, z, zu
  <2>3. DgCat(A, t, a, z) /\ DgCat(A, zu, z, u)  BY <2>1, <2>2, <1>10 DEF DgCat
  <2>4. PICK tu : DgCat(A, tu, t, u)  BY <1>9, <1>10, DgCats
  <2>5. DgCat(A, tu, a, zu)  BY <2>3, <2>4, DgCatRight
  <2>6. (s \o t) \o u = s \o tu
    <3>1. tu = t \o u  BY <2>4, DgCatIs
    <3>2. s \in Seq(A) /\ t \in Seq(A) /\ u \in Seq(A)  BY <1>1, <1>9, <1>10
    <3>3. (s \o t) \o u = s \o (t \o u)  BY <3>2, ConcatAssociative
    <3> QED  BY <3>1, <3>3
  <2>7. tu = a \o zu  BY <2>5, DgCatIs
  <2> QED  BY <2>6, <2>7 DEF a, zu
<1>15. DgHolds(A, d.done, d.buf, s \o (<<DgPad>> \o DgZeros(k + room)))  BY <1>11, <1>13, <1>14
<1>16. DgShape(d) /\ d.low = c.low /\ d.high = c.high /\ d.index = room  BY <1>6, <1>7, <1>11
<1> QED  BY <1>15, <1>16 DEF d, y, x, k, room, r

(* A digest of sha256 is that of the padded message. *)
LEMMA Sha256ResultIs ==
  ASSUME NEW A, DgAlphabet(A), NEW c, NEW s, ShaFedBy(A, c, s), 8 * Len(s) < DgWord * DgWord
  PROVE  /\ {"computed", "done"} \subseteq DOMAIN Sha256Result(c)
         /\ Sha256Result(c).computed = TRUE
         /\ Sha256Result(c).done = DgBlocks(Padded(s, 8 * Len(s), TRUE))
<1> DEFINE l == Len(s)
           r == c.index
           n == IF NeedsBlock(c) THEN (DgBlock - r - 1) + (DgBlock - 2) ELSE (DgBlock - 2) - r - 1
           room == DgBlock - 2
           length == <<DgNumber(c.high), DgNumber(c.low)>>
           d == IF NeedsBlock(c) THEN DgFilled(ProcessMessageBlock(DgFilled(c, DgBlock, <<DgPad>>)), room, << >>)
                ELSE DgFilled(c, room, <<DgPad>>)
           e == [d EXCEPT !.buf = DgOverlay(@, room, length)]
           f == ProcessMessageBlock(e)
           last == [f EXCEPT !.buf = DgZeros(DgBlock), !.low = 0, !.high = 0, !.computed = TRUE]
           t == <<DgPad>> \o DgZeros(n)
<1>1. DgBlock \in Nat \ {0} /\ DgBlock > 2 /\ s \in Seq(A) /\ l \in Nat
  <2>1. s \in Seq(A)  BY DgHeld DEF ShaFedBy
  <2> QED  BY <2>1, DgSizes, LenProperties
<1>2. r = l % DgBlock /\ c.computed = FALSE /\ c.corrupted = FALSE  BY DEF ShaFedBy, DgShape
<1>3. length = DgLength(l, TRUE)
  <2>1. c.low = (8 * l) % DgWord /\ c.high = (8 * l) \div DgWord  BY DEF ShaFedBy
  <2> QED  BY <2>1, <1>1, Sha256LengthIs
<1>4. DgRoom(l, n) /\ (l + (n + 1)) % DgBlock = room
  <2>1. n = IF r >= DgBlock - 2 THEN (DgBlock - r - 1) + (DgBlock - 2) ELSE (DgBlock - 2) - r - 1
    BY DEF NeedsBlock
  <2> HIDE DEF n, r, l
  <2> QED  BY <2>1, <1>1, <1>2, Sha256ZerosAre
<1>5. DgShape(d) /\ DgHolds(A, d.done, d.buf, s \o t)
  <2>1. CASE NeedsBlock(c)
    <3> DEFINE v == DgFilled(ProcessMessageBlock(DgFilled(c, DgBlock, <<DgPad>>)), DgBlock - 2, << >>)
               w == <<DgPad>> \o DgZeros((DgBlock - c.index - 1) + (DgBlock - 2))
    <3>1. DgShape(v) /\ DgHolds(A, v.done, v.buf, s \o w)  BY <2>1, Sha256PadsOn
    <3>2. v = d /\ w = t  BY <2>1
    <3> HIDE DEF v, w, d, t
    <3> QED  BY <3>1, <3>2
  <2>2. CASE ~NeedsBlock(c)
    <3> DEFINE v == DgFilled(c, DgBlock - 2, <<DgPad>>)
               w == <<DgPad>> \o DgZeros((DgBlock - 2) - c.index - 1)
    <3>1. DgShape(v) /\ DgHolds(A, v.done, v.buf, s \o w)  BY <2>2, Sha256PadsHere
    <3>2. v = d /\ w = t  BY <2>2
    <3> HIDE DEF v, w, d, t
    <3> QED  BY <3>1, <3>2
  <2> QED  BY <2>1, <2>2
<1>6. Sha256Result(c) = last
  <2>1. Sha256Result(c) = Finalize(c, DgPad)  BY <1>2 DEF Sha256Result
  <2>2. PadMessage(c, DgPad) = f  BY DEF PadMessage
  <2> HIDE DEF f
  <2> QED  BY <2>1, <2>2 DEF Finalize
<1>7. t = <<DgPad>> \o DgZeros(n)  OBVIOUS
<1> HIDE DEF n, length, d, t
<1>8. n \in Nat  BY <1>1, <1>4 DEF DgRoom
<1>9. t \in Seq(A) /\ Len(t) = n + 1 /\ length \in Seq(A) /\ Len(length) = 2
  <2> HIDE DEF l
  <2> QED  BY <1>1, <1>3, <1>7, <1>8, DgEndIs
<1>10. s \o t \in Seq(A) /\ Len(s \o t) = l + (n + 1)
  <2>1. s \o t \in Seq(A) /\ Len(s \o t) = Len(s) + Len(t)  BY <1>1, <1>9, ConcatProperties
  <2> QED  BY <2>1, <1>9
<1> DEFINE st == s \o t
           block == DgOverlay(d.buf, room, length)
<1>11. DgHolds(A, Append(d.done, block), block, st \o length)
  <2>1. room = Len(st) % DgBlock /\ room + Len(length) = DgBlock  BY <1>1, <1>4, <1>9, <1>10
  <2>2. DgHolds(A, d.done, d.buf, st)  BY <1>5
  <2>3. block = DgOverlay(d.buf, room, length)  OBVIOUS
  <2> HIDE DEF block, st, room
  <2> QED  BY <2>1, <2>2, <2>3, <1>9, DgHoldsWhole
<1>12. Append(d.done, block) = DgBlocks(st \o length)
  <2> HIDE DEF block, st
  <2> QED  BY <1>11, DgHeld
<1> HIDE DEF block
<1>13. DgShape(e) /\ e.buf = block /\ e.done = d.done  BY <1>5 DEF DgShape, block
<1> HIDE DEF e
<1>14. DgShape(f) /\ f.done = Append(e.done, e.buf)  BY <1>13, DgProcessedIs
<1> HIDE DEF f
<1>15. last.computed = TRUE /\ last.done = f.done /\ {"computed", "done"} \subseteq DOMAIN last
  BY <1>14 DEF DgShape
<1>16. Padded(s, 8 * Len(s), TRUE) = st \o length
  <2>1. DgRoom(Len(s), n) /\ length = DgLength(Len(s), TRUE)  BY <1>3, <1>4
  <2> QED  BY <2>1, <1>1, <1>7, DgPaddedIs
<1> HIDE DEF last, st
<1> QED  BY <1>6, <1>12, <1>13, <1>14, <1>15, <1>16

-----------------------------------------------------------------------------
(***************************************************************************)
(* The bytes there are, and what a message is made of.                     *)
(***************************************************************************)
DgMessages(A) == DgAlphabet(A) /\ \A i \in Nat : <<"message", i>> \in A

DgBytes == {DgPad, DgZero} \cup {DgNumber(n) : n \in Nat} \cup {<<"message", i>> : i \in Nat}

(* A sha256 context counts a message in two words. *)
DgShort == 8 * DgMaxBytes < DgWord * DgWord

(* All of them are an alphabet. *)
LEMMA DgBytesAre == DgMessages(DgBytes)
BY DEF DgMessages, DgAlphabet, DgBytes

(* A message goes on where it was. *)
LEMMA DgMessageIs ==
  ASSUME NEW A, DgMessages(A), NEW a \in Nat, NEW n \in Nat
  PROVE  /\ DgMessage(1, a) \in Seq(A) /\ Len(DgMessage(1, a)) = a
         /\ DgMessage(a + 1, a + n) \in Seq(A) /\ Len(DgMessage(a + 1, a + n)) = n
         /\ DgMessage(1, a) \o DgMessage(a + 1, a + n) = DgMessage(1, a + n)
<1>1. ASSUME NEW i \in Nat, NEW m \in Nat
      PROVE  /\ DgMessage(i + 1, i + m) \in Seq(A) /\ Len(DgMessage(i + 1, i + m)) = m
             /\ \A j \in 1..m : DgMessage(i + 1, i + m)[j] = <<"message", i + j>>
  <2>1. (i + m) - (i + 1) + 1 = m /\ \A j \in 1..m : (i + 1) + j - 1 = i + j /\ i + j \in Nat  OBVIOUS
  <2>2. DgMessage(i + 1, i + m) = [j \in 1..m |-> <<"message", i + j>>]  BY <2>1 DEF DgMessage
  <2>3. \A j \in 1..m : <<"message", i + j>> \in A  BY <2>1 DEF DgMessages
  <2> DEFINE s == DgMessage(i + 1, i + m)
  <2>4. s \in [1..m -> A]  BY <2>2, <2>3
  <2>5. \A j \in 1..m : s[j] = <<"message", i + j>>  BY <2>2
  <2> HIDE DEF s
  <2>6. s \in Seq(A) /\ Len(s) = m  BY <2>4, IsSequence
  <2> QED  BY <2>5, <2>6 DEF s
<1> DEFINE x == DgMessage(1, a)
           y == DgMessage(a + 1, a + n)
           z == DgMessage(1, a + n)
<1>2. x \in Seq(A) /\ Len(x) = a /\ \A j \in 1..a : x[j] = <<"message", j>>
  <2>1. 0 + 1 = 1 /\ 0 + a = a /\ \A j \in 1..a : 0 + j = j  OBVIOUS
  <2>2. /\ DgMessage(0 + 1, 0 + a) \in Seq(A) /\ Len(DgMessage(0 + 1, 0 + a)) = a
        /\ \A j \in 1..a : DgMessage(0 + 1, 0 + a)[j] = <<"message", 0 + j>>
    BY <1>1
  <2> QED  BY <2>1, <2>2
<1>3. y \in Seq(A) /\ Len(y) = n /\ \A j \in 1..n : y[j] = <<"message", a + j>>  BY <1>1
<1>4. z \in Seq(A) /\ Len(z) = a + n /\ \A j \in 1..a + n : z[j] = <<"message", j>>
  <2> DEFINE m == a + n
  <2>1. 0 + 1 = 1 /\ 0 + m = m /\ m \in Nat /\ \A j \in 1..m : 0 + j = j  OBVIOUS
  <2> HIDE DEF m
  <2>2. /\ DgMessage(0 + 1, 0 + m) \in Seq(A) /\ Len(DgMessage(0 + 1, 0 + m)) = m
        /\ \A j \in 1..m : DgMessage(0 + 1, 0 + m)[j] = <<"message", 0 + j>>
    BY <2>1, <1>1
  <2> QED  BY <2>1, <2>2 DEF m
<1> HIDE DEF x, y, z
<1>5. /\ x \o y \in Seq(A) /\ Len(x \o y) = a + n
      /\ \A j \in 1..a + n : (x \o y)[j] = IF j <= a THEN x[j] ELSE y[j - a]
  BY <1>2, <1>3, ConcatProperties
<1> DEFINE v == x \o y
<1>6. \A j \in 1..a + n : v[j] = z[j]
  <2> TAKE j \in 1..a + n
  <2>0. v[j] = IF j <= a THEN x[j] ELSE y[j - a]  BY <1>5
  <2> HIDE DEF v
  <2>1. CASE j <= a
    <3>1. j \in 1..a  BY <2>1
    <3> QED  BY <2>0, <2>1, <3>1, <1>2, <1>4
  <2>2. CASE ~(j <= a)
    <3>1. j - a \in 1..n /\ a + (j - a) = j  BY <2>2
    <3> QED  BY <2>0, <2>2, <3>1, <1>3, <1>4
  <2> QED  BY <2>1, <2>2
<1> HIDE DEF v
<1>7. v \in Seq(A) /\ Len(v) = a + n  BY <1>5 DEF v
<1>8. v = z  BY <1>4, <1>6, <1>7, SeqEqual
<1> QED  BY <1>2, <1>3, <1>8 DEF v, x, y, z

(* A context that is new has been fed nothing. *)
LEMMA DgFreshIs ==
  ASSUME NEW A, DgMessages(A)
  PROVE  DgFedBy(A, DgFresh, << >>) /\ ShaFedBy(A, DgFresh, << >>) /\ DgMessage(1, 0) = << >>
<1> DEFINE e == << >>
<1>1. DgBlock \in Nat \ {0} /\ DgWord \in Nat \ {0}  BY DgSizes
<1>2. e \in Seq(A) /\ Len(e) = 0 /\ e \o e = e /\ Len(e) < DgBlock  BY <1>1, EmptySeq, ConcatEmptySeq
<1> HIDE DEF e
<1>3. DgBlocks(e) = << >>  BY <1>2, DgBlocksFew
<1>4. DgWhole(e)
  <2>1. 0 = DgBlock * 0  BY <1>1
  <2> QED  BY <2>1, <1>2 DEF DgWhole
<1>5. DgZeros(DgBlock) \in [1..DgBlock -> A]  BY DEF DgZeros, DgMessages, DgAlphabet
<1>6. DgFront(DgZeros(DgBlock), e)  BY <1>2 DEF DgFront
<1>7. DgHolds(A, DgBlocks(e), DgZeros(DgBlock), e)  BY <1>2, <1>4, <1>5, <1>6 DEF DgHolds
<1>8. /\ DgShape(DgFresh) /\ DgFresh.low = 0 /\ DgFresh.high = 0 /\ DgFresh.index = 0
      /\ DgFresh.computed = FALSE /\ DgFresh.done = << >> /\ DgFresh.buf = DgZeros(DgBlock)
  BY DEF DgFresh, DgShape
<1>9. DgHolds(A, DgFresh.done, DgFresh.buf, e)  BY <1>3, <1>7, <1>8
<1>10. /\ (8 * Len(e)) % DgWord = 0 /\ (8 * Len(e)) \div DgWord = 0 /\ 0 % DgWord = 0
       /\ Len(e) % DgBlock = 0
  <2>1. 0 = DgWord * 0 + 0 /\ 0 \in 0..DgWord - 1 /\ 8 * Len(e) = 0  BY <1>1, <1>2
  <2>2. 0 = DgBlock * 0 + 0 /\ 0 \in 0..DgBlock - 1  BY <1>1
  <2>3. 0 % DgWord = 0 /\ 0 \div DgWord = 0 /\ 0 % DgBlock = 0  BY <1>1, <2>1, <2>2, ModIs, DivIs
  <2> QED  BY <2>1, <2>3, <1>2
<1>11. DgFedBy(A, DgFresh, e)  BY <1>8, <1>9, <1>10 DEF DgFedBy, DgCounts
<1>12. ShaFedBy(A, DgFresh, e)  BY <1>8, <1>9, <1>10 DEF ShaFedBy
<1>13. DgMessage(1, 0) = e  BY DEF DgMessage, e
<1> QED  BY <1>11, <1>12, <1>13 DEF e

-----------------------------------------------------------------------------
(***************************************************************************)
(* What the contexts keep: until a digest is asked for, what has been fed; *)
(* then what has been compressed is the padded message.                    *)
(***************************************************************************)
DgPadded == DgOf(dgFed)

DgOpen ==
  /\ dgDigest = << >>
  /\ IF dgKind = "sha256" THEN ShaFedBy(DgBytes, dgCtx, DgMessage(1, dgFed))
                          ELSE DgFedBy(DgBytes, dgCtx, DgMessage(1, dgFed))

DgClosed ==
  /\ dgKind = "sha256" => dgCtx.done = DgPadded /\ {"computed", "done"} \subseteq DOMAIN dgCtx
  /\ dgDigest \in {<< >>, DgPadded}

DgInv ==
  /\ dgKind \in {"md5", "sha1", "sha256"}
  /\ dgFed \in Nat /\ dgSaid \in Nat /\ dgFed <= dgSaid /\ dgSaid <= DgMaxBytes
  /\ ~dgBits => IF dgCtx.computed THEN DgClosed ELSE DgOpen

(* A length that is narrowed is not longer. *)
LEMMA DgNarrower ==
  ASSUME NEW n \in Nat
  PROVE  n % DgUInt \in Nat /\ n % DgUInt <= n /\ (n < DgUInt => n % DgUInt = n)
<1> DEFINE q == n \div DgUInt
           m == n % DgUInt
<1>1. DgUInt \in Nat \ {0}  BY DgAssumption
<1>2. q \in Nat /\ m \in 0..DgUInt - 1 /\ n = (DgUInt * q) + m  BY <1>1, DivMod
<1>3. n < DgUInt => m = n
  <2> SUFFICES ASSUME n < DgUInt PROVE m = n  OBVIOUS
  <2>1. n \in 0..DgUInt - 1 /\ n = DgUInt * 0 + n  BY <1>1
  <2> QED  BY <2>1, <1>1, ModIs
<1> HIDE DEF q, m
<1>4. DgUInt * q \in Nat  BY <1>1, <1>2
<1>5. m \in Nat /\ m <= n  BY <1>1, <1>2, <1>4
<1> QED  BY <1>3, <1>5 DEF m

(* Any piece is fed. *)
LEMMA DgUpdateInv == ASSUME DgShort, DgInv, NEW k \in DgPieces, DgUpdate(k) PROVE DgInv'
<1> DEFINE A == DgBytes
           n == DgLen(k)
           old == DgMessage(1, dgFed)
           s == DgMessage(dgFed + 1, dgFed + n)
           new == DgMessage(1, dgFed + n)
           taken == ~dgCtx.computed /\ ~dgCtx.corrupted
<1>0. k \in Nat /\ n \in Nat /\ n <= k
  <2>1. k \in Nat  BY DgAssumption
  <2> QED  BY <2>1, DgNarrower DEF DgLen
<1>11. n = DgLen(k)  OBVIOUS
<1> HIDE DEF n
<1>1. /\ dgFed \in Nat /\ n \in Nat /\ DgMaxBytes \in Nat /\ dgFed + n <= DgMaxBytes
      /\ dgKind \in {"md5", "sha1", "sha256"} /\ dgKind' = dgKind /\ dgBits' = dgBits /\ dgDigest' = dgDigest
      /\ dgCtx.computed => dgKind = "sha256"
      /\ dgFed' = IF taken THEN dgFed + n ELSE dgFed
      /\ dgSaid' = IF taken THEN dgSaid + k ELSE dgSaid
      /\ dgSaid + k <= DgMaxBytes
  BY <1>0, <1>11, DgAssumption DEF DgInv, DgUpdate
<1>2. s \in Seq(A) /\ new = old \o s
  <2> HIDE DEF A
  <2>1. DgMessages(A)  BY DgBytesAre DEF A
  <2> QED  BY <2>1, <1>1, DgMessageIs
<1>3. dgFed' \in Nat /\ dgSaid' \in Nat /\ dgFed' <= dgSaid' /\ dgSaid' <= DgMaxBytes
  <2> HIDE DEF taken
  <2> QED  BY <1>0, <1>1 DEF DgInv
<1>4. dgCtx' = CASE dgKind = "md5" -> Md5Append(dgCtx, s)
                 [] dgKind = "sha1" -> SHA1Update(dgCtx, s)
                 [] dgKind = "sha256" -> Sha256Input(dgCtx, s)
  BY <1>11 DEF DgUpdate
<1>9. 8 * (Len(old) + Len(s)) < DgWord * DgWord
  <2> HIDE DEF A
  <2>1. DgMessages(A)  BY DgBytesAre DEF A
  <2>2. Len(old) = dgFed /\ Len(s) = n  BY <2>1, <1>1, DgMessageIs
  <2>3. DgWord * DgWord \in Nat  BY DgSizes
  <2> QED  BY <2>2, <2>3, <1>1 DEF DgShort
<1> HIDE DEF A, old, s, new
<1>5. ASSUME ~dgBits, ~dgCtx.computed PROVE DgOpen'
  <2>1. DgOpen  BY <1>5 DEF DgInv
  <2>5. dgCtx.corrupted = FALSE  BY <2>1 DEF DgOpen, ShaFedBy, DgFedBy, DgShape
  <2>2. dgFed' = dgFed + n  BY <1>1, <1>5, <2>5
  <2>3. CASE dgKind = "sha256"
    <3>1. ShaFedBy(A, dgCtx, old)  BY <2>1, <2>3 DEF DgOpen, A, old
    <3>2. ShaFedBy(A, Sha256Input(dgCtx, s), new)  BY <3>1, <1>2, <1>9, Sha256InputIs
    <3>3. dgCtx' = Sha256Input(dgCtx, s)  BY <2>3, <1>4
    <3>4. ShaFedBy(DgBytes, dgCtx', DgMessage(1, dgFed'))  BY <3>2, <3>3, <2>2 DEF A, new
    <3> QED  BY <3>4, <2>1, <2>3, <1>1 DEF DgOpen
  <2>4. CASE dgKind # "sha256"
    <3>1. DgFedBy(A, dgCtx, old)  BY <2>1, <2>4 DEF DgOpen, A, old
    <3>2. DgFedBy(A, Md5Append(dgCtx, s), new) /\ DgFedBy(A, SHA1Update(dgCtx, s), new)
      BY <3>1, <1>2, Md5AppendIs, SHA1UpdateIs
    <3>3. dgCtx' = Md5Append(dgCtx, s) \/ dgCtx' = SHA1Update(dgCtx, s)  BY <2>4, <1>1, <1>4
    <3>4. DgFedBy(DgBytes, dgCtx', DgMessage(1, dgFed'))  BY <3>2, <3>3, <2>2 DEF A, new
    <3> QED  BY <3>4, <2>1, <2>4, <1>1 DEF DgOpen
  <2> QED  BY <2>3, <2>4
<1>6. ASSUME ~dgBits, dgCtx.computed PROVE DgClosed' /\ dgCtx' = dgCtx
  <2>1. dgKind = "sha256" /\ DgClosed /\ dgFed' = dgFed  BY <1>1, <1>6 DEF DgInv
  <2>2. dgCtx' = Sha256Input(dgCtx, s)  BY <2>1, <1>4
  <2>3. dgCtx' = dgCtx  BY <2>2, <1>6 DEF Sha256Input
  <2> QED  BY <2>1, <2>3, <1>1 DEF DgClosed, DgPadded, DgOf
<1>7. DgOpen' => DgClosed' \/ ~dgCtx'.computed
  <2>1. DgOpen' => dgDigest' = << >>  BY DEF DgOpen
  <2>2. DgOpen' /\ dgKind' = "sha256" => dgCtx'.computed = FALSE  BY DEF DgOpen, ShaFedBy
  <2> QED  BY <2>1, <2>2 DEF DgClosed
<1> QED  BY <1>1, <1>3, <1>5, <1>6, <1>7 DEF DgInv

(* A digest is given out. *)
LEMMA DgFinishInv == ASSUME DgShort, DgInv, DgFinish PROVE DgInv'
<1> DEFINE A == DgBytes
           s == DgMessage(1, dgFed)
<1>1. /\ dgFed \in Nat /\ DgMaxBytes \in Nat /\ dgFed <= DgMaxBytes
      /\ dgKind \in {"md5", "sha1", "sha256"} /\ dgKind' = dgKind /\ dgBits' = dgBits /\ dgFed' = dgFed
      /\ dgCtx.computed => dgKind = "sha256"
      /\ dgSaid' = dgSaid /\ dgSaid \in Nat /\ dgFed <= dgSaid /\ dgSaid <= DgMaxBytes
      /\ dgDigest' \in {dgDigest, dgCtx'.done}
  BY DgAssumption DEF DgInv, DgFinish
<1>2. DgMessages(A) /\ DgAlphabet(A)  BY DgBytesAre DEF DgMessages
<1> HIDE DEF A
<1>3. Len(s) = dgFed
  <2>1. 0 \in Nat  OBVIOUS
  <2> QED  BY <2>1, <1>1, <1>2, DgMessageIs
<1>4. 8 * Len(s) < DgWord * DgWord
  <2>1. DgWord * DgWord \in Nat  BY DgSizes
  <2> QED  BY <2>1, <1>1, <1>3 DEF DgShort
<1>5. dgCtx' = CASE dgKind = "md5" -> Md5Finish(dgCtx)
                 [] dgKind = "sha1" -> SHA1Final(dgCtx)
                 [] dgKind = "sha256" -> Sha256Result(dgCtx)
  BY DEF DgFinish
<1>6. DgPadded = DgBlocks(Padded(s, 8 * Len(s), dgKind # "md5")) /\ DgPadded' = DgPadded
  BY <1>1, <1>3 DEF DgPadded, DgOf
<1>11. s = DgMessage(1, dgFed)  OBVIOUS
<1> HIDE DEF s
<1>7. ASSUME ~dgBits, ~dgCtx.computed 
      PROVE  /\ dgCtx'.computed = TRUE /\ dgCtx'.done = DgPadded /\ dgDigest = << >>
             /\ dgKind = "sha256" => {"computed", "done"} \subseteq DOMAIN dgCtx'
  <2>1. DgOpen  BY <1>7 DEF DgInv
  <2>5. dgDigest = << >>  BY <2>1 DEF DgOpen
  <2>2. CASE dgKind = "sha256"
    <3>1. ShaFedBy(A, dgCtx, s)  BY <2>1, <2>2, <1>11 DEF DgOpen, A
    <3>2. dgCtx' = Sha256Result(dgCtx) /\ (dgKind # "md5") = TRUE  BY <2>2, <1>5
    <3>3. DgPadded = DgBlocks(Padded(s, 8 * Len(s), TRUE))  BY <3>2, <1>6
    <3> QED  BY <2>5, <3>1, <3>2, <3>3, <1>2, <1>4, Sha256ResultIs
  <2>3. CASE dgKind = "sha1"
    <3>1. DgFedBy(A, dgCtx, s)  BY <2>1, <2>3, <1>11 DEF DgOpen, A
    <3>2. dgCtx' = SHA1Final(dgCtx) /\ (dgKind # "md5") = TRUE  BY <2>3, <1>5
    <3>3. DgPadded = DgBlocks(Padded(s, 8 * Len(s), TRUE))  BY <3>2, <1>6
    <3> QED  BY <2>3, <2>5, <3>1, <3>2, <3>3, <1>2, SHA1FinalIs
  <2>4. CASE dgKind = "md5"
    <3>1. DgFedBy(A, dgCtx, s)  BY <2>1, <2>4, <1>11 DEF DgOpen, A
    <3>2. dgCtx' = Md5Finish(dgCtx) /\ (dgKind # "md5") = FALSE  BY <2>4, <1>5
    <3>3. DgPadded = DgBlocks(Padded(s, 8 * Len(s), FALSE))  BY <3>2, <1>6
    <3> QED  BY <2>4, <2>5, <3>1, <3>2, <3>3, <1>2, Md5FinishIs
  <2> QED  BY <2>2, <2>3, <2>4, <1>1
<1>8. ASSUME ~dgBits, dgCtx.computed
      PROVE  /\ dgCtx' = dgCtx /\ dgCtx'.done = DgPadded /\ dgDigest \in {<< >>, DgPadded}
             /\ {"computed", "done"} \subseteq DOMAIN dgCtx'
  <2>1. dgKind = "sha256" /\ DgClosed  BY <1>1, <1>8 DEF DgInv
  <2>2. dgCtx' = Sha256Result(dgCtx)  BY <2>1, <1>5
  <2> QED  BY <2>1, <2>2, <1>8 DEF Sha256Result, DgClosed
<1>9. ~dgBits => dgCtx'.computed /\ DgClosed'
  <2>1. ~dgBits => /\ dgCtx'.computed /\ dgCtx'.done = DgPadded /\ dgDigest \in {<< >>, DgPadded}
                   /\ dgKind = "sha256" => {"computed", "done"} \subseteq DOMAIN dgCtx'
    BY <1>7, <1>8
  <2> QED  BY <2>1, <1>1, <1>6 DEF DgClosed
<1> QED  BY <1>1, <1>9 DEF DgInv

(* A new context, at the beginning or when it is reset. *)
LEMMA DgNewInv ==
  /\ DgInit => DgInv
  /\ DgInv /\ DgReset => DgInv'
<1>1. DgMessages(DgBytes) /\ DgMaxBytes \in Nat  BY DgBytesAre, DgAssumption
<1>2. DgFedBy(DgBytes, DgFresh, << >>) /\ ShaFedBy(DgBytes, DgFresh, << >>) /\ DgMessage(1, 0) = << >>
  BY <1>1, DgFreshIs
<1>3. DgFresh.computed = FALSE  BY DEF DgFresh
<1>4. ASSUME DgInit PROVE DgInv
  <2>1. dgCtx = DgFresh  BY <1>4 DEF DgInit, Md5Init, SHA1Init, Sha256Init
  <2>2. DgOpen  BY <2>1, <1>2, <1>4 DEF DgInit, DgOpen
  <2> QED  BY <2>1, <2>2, <1>1, <1>3, <1>4 DEF DgInit, DgInv
<1>5. ASSUME DgInv, DgReset PROVE DgInv'
  <2>1. dgCtx' = DgFresh /\ dgFed' = 0 /\ dgSaid' = 0 /\ dgKind' = dgKind /\ dgDigest' = << >>
    BY <1>5 DEF DgReset, Sha256Init
  <2>2. DgOpen'  BY <2>1, <1>2 DEF DgOpen
  <2> QED  BY <2>1, <2>2, <1>1, <1>3, <1>5 DEF DgInv
<1> QED  BY <1>4, <1>5

(* Every step of the hashes. *)
LEMMA DgStepInv == ASSUME DgShort, DgInv, [DgNext]_dgVars PROVE DgInv'
<1>1. ASSUME NEW n \in DgPieces, DgUpdate(n) PROVE DgInv'  BY <1>1, DgUpdateInv
<1>2. ASSUME NEW n, DgFinalBits(n) PROVE DgInv'
  <2>1. /\ dgBits' = (dgBits \/ ~dgCtx.computed) /\ UNCHANGED <<dgKind, dgSaid, dgFed, dgDigest>>
        /\ dgKind = "sha256" /\ dgCtx' = Sha256FinalBits(dgCtx, n)
    BY <1>2 DEF DgFinalBits
  <2>2. ASSUME ~dgBits' PROVE dgCtx'.computed /\ DgClosed'
    <3>1. ~dgBits /\ dgCtx.computed /\ DgClosed  BY <2>1, <2>2 DEF DgInv
    <3>2. dgCtx' = [dgCtx EXCEPT !.corrupted = TRUE]  BY <2>1, <3>1 DEF Sha256FinalBits
    <3>3. {"computed", "done"} \subseteq DOMAIN dgCtx  BY <2>1, <3>1 DEF DgClosed
    <3>4. /\ dgCtx'.computed = dgCtx.computed /\ dgCtx'.done = dgCtx.done
          /\ {"computed", "done"} \subseteq DOMAIN dgCtx'
      BY <3>2, <3>3
    <3> QED  BY <2>1, <3>1, <3>4 DEF DgClosed, DgPadded, DgOf
  <2> QED  BY <2>1, <2>2 DEF DgInv
<1>3. CASE DgFinish  BY <1>3, DgFinishInv
<1>4. CASE DgReset  BY <1>4, DgNewInv
<1>5. CASE UNCHANGED dgVars
  BY <1>5 DEF dgVars, DgInv, DgOpen, DgClosed, DgPadded, DgOf
<1> QED  BY <1>1, <1>2, <1>3, <1>4, <1>5 DEF DgNext

-----------------------------------------------------------------------------
(***************************************************************************)
(* The keyed digest.  What is hashed with the text are the bytes of a      *)
(* block, whatever they are.                                               *)
(***************************************************************************)
HmShort == 8 * (DgBlock + HmMaxText) < DgWord * DgWord

HmArray(f, n) == DOMAIN f = 1..n /\ f = [i \in 1..n |-> f[i]]

(* Any values for the first numbers are bytes of some alphabet. *)
LEMMA HmAlphabet ==
  ASSUME NEW n \in Nat, NEW f, HmArray(f, n), NEW m \in Nat, NEW g, HmArray(g, m)
  PROVE  \E A : DgMessages(A) /\ f \in Seq(A) /\ Len(f) = n /\ g \in Seq(A) /\ Len(g) = m
<1> DEFINE A == {f[i] : i \in 1..n} \cup {g[i] : i \in 1..m} \cup DgBytes
<1>1. DgMessages(A)
  <2>1. \A b \in DgBytes : b \in A  OBVIOUS
  <2> HIDE DEF A
  <2> QED  BY <2>1, DgBytesAre DEF DgMessages, DgAlphabet
<1>2. f \in [1..n -> A]
  <2>0. DOMAIN f = 1..n /\ f = [i \in 1..n |-> f[i]]  BY DEF HmArray
  <2>1. \A i \in 1..n : f[i] \in A  OBVIOUS
  <2> HIDE DEF A
  <2> QED  BY <2>0, <2>1
<1>3. g \in [1..m -> A]
  <2>0. DOMAIN g = 1..m /\ g = [i \in 1..m |-> g[i]]  BY DEF HmArray
  <2>1. \A i \in 1..m : g[i] \in A  OBVIOUS
  <2> HIDE DEF A
  <2> QED  BY <2>0, <2>1
<1> HIDE DEF A
<1>4. f \in Seq(A) /\ Len(f) = n  BY <1>2, IsSequence
<1>5. g \in Seq(A) /\ Len(g) = m  BY <1>3, IsSequence
<1> QED  BY <1>1, <1>4, <1>5

(* Two blocks are short. *)
LEMMA HmBlocksShort == 8 * (DgBlock + DgBlock) < DgWord * DgWord
<1>1. DgBlock \in Nat \ {0} /\ DgBlock > 2 /\ DgWord \in Nat \ {0}  BY DgSizes
<1>2. PICK k \in Nat \ {0} : DgWord = 8 * (DgBlock * k)  BY DgSizes
<1>3. DgBlock * k >= DgBlock
  <2>1. DgBlock * k >= DgBlock * 1  BY <1>1, <1>2
  <2> QED  BY <2>1, <1>1
<1> DEFINE b == DgBlock * k
<1>4. b \in Nat /\ DgWord = 8 * b /\ b >= DgBlock  BY <1>1, <1>2, <1>3
<1> HIDE DEF b
<1>5. DgWord >= 8 * DgBlock /\ DgWord >= 3  BY <1>1, <1>4
<1>6. DgWord * DgWord >= DgWord * 3  BY <1>1, <1>5
<1>7. DgWord * DgWord \in Nat  BY <1>1
<1> QED  BY <1>1, <1>5, <1>6, <1>7

(* The digest of a sequence that is fed to a new context. *)
LEMMA HmSumIs ==
  ASSUME NEW A, DgMessages(A), NEW s \in Seq(A), 8 * Len(s) < DgWord * DgWord
  PROVE  /\ ShaFedBy(A, Sha256Input(Sha256Init, s), s)
         /\ HmSum(s) = HmHash(s)
<1> DEFINE e == << >>
           c == Sha256Input(Sha256Init, s)
<1>1. ShaFedBy(A, Sha256Init, e)  BY DgFreshIs DEF Sha256Init
<1>2. e \o s = s /\ Len(e) = 0 /\ Len(s) \in Nat  BY ConcatEmptySeq, LenProperties
<1>7. Len(e) + Len(s) = Len(s)  BY <1>2
<1> HIDE DEF e
<1>3. ShaFedBy(A, c, e \o s)  BY <1>1, <1>7, Sha256InputIs
<1>4. ShaFedBy(A, c, s)  BY <1>2, <1>3
<1> HIDE DEF c
<1>5. DgAlphabet(A)  BY DEF DgMessages
<1>6. Sha256Result(c).done = DgBlocks(Padded(s, 8 * Len(s), TRUE))  BY <1>4, <1>5, Sha256ResultIs
<1> QED  BY <1>4, <1>6 DEF HmSum, HmHash, c

HmPad(pad, n) == HmXor(pad, IF n > DgBlock THEN HmHash(HmKeyBytes(n)) ELSE HmKeyBytes(n))

(* A digest, and a block with the key, are that many values. *)
LEMMA HmBytesAre ==
  ASSUME NEW done, NEW pad, NEW key, NEW n \in Nat
  PROVE  /\ HmHashSize \in Nat /\ HmHashSize <= DgBlock
         /\ HmArray(HmNamed(done), HmHashSize) /\ HmArray(HmKeyBytes(n), n)
         /\ HmArray(HmXor(pad, key), DgBlock) /\ HmArray(HmPad(pad, n), DgBlock)
<1>1. HmHashSize \in Nat /\ HmHashSize <= DgBlock  BY HmAssumption, DgSizes
<1> QED  BY <1>1 DEF HmArray, HmNamed, HmXor, HmKeyBytes, HmPad

(* The key is hashed when it is longer than a block. *)
LEMMA HmKeyIs ==
  ASSUME NEW l \in HmKeyLengths, NEW n, n = HmKeyLen(l)
  PROVE  LET key == HmOfKey(n) IN
         /\ n \in Nat /\ HmXor("5c", key) = HmPad("5c", n)
         /\ \E A : DgMessages(A) /\ ShaFedBy(A, Sha256Input(Sha256Init, HmXor("36", key)), HmPad("36", n))
<1> DEFINE s == HmKeyBytes(n)
           key == HmOfKey(n)
           x == HmPad("36", n)
<1>1. n \in Nat /\ DgBlock \in Nat /\ 8 * n < DgWord * DgWord
  <2>1. l \in Nat /\ l % DgUInt \in Nat  BY HmAssumption, DgNarrower
  <2>2. HmIntMax \in Nat /\ HmIntMax < DgUInt /\ DgUInt \in Nat /\ DgBlock \in Nat  BY HmAssumption, DgAssumption
  <2>3. n \in Nat /\ n <= HmIntMax  BY <2>1, <2>2 DEF HmKeyLen
  <2>4. DgWord * DgWord \in Nat /\ 8 * DgUInt < DgWord * DgWord  BY DgSizes, DgAssumption
  <2> QED  BY <2>2, <2>3, <2>4
<1>2. HmSum(s) = HmHash(s)
  <2>1. HmArray(s, n)  BY <1>1, HmBytesAre
  <2> HIDE DEF s
  <2>2. PICK A : DgMessages(A) /\ s \in Seq(A) /\ Len(s) = n  BY <2>1, <1>1, HmAlphabet
  <2> QED  BY <2>2, <1>1, HmSumIs
<1> HIDE DEF s
<1>3. key = IF n > DgBlock THEN HmHash(s) ELSE s  BY <1>2 DEF HmLong, HmOfKey, s
<1>4. HmXor("5c", key) = HmPad("5c", n) /\ HmXor("36", key) = x  BY <1>3 DEF HmPad, s
<1>5. HmArray(x, DgBlock)
  <2>1. HmArray(HmXor("36", key), DgBlock)  BY <1>1, HmBytesAre
  <2> HIDE DEF x
  <2> QED  BY <2>1, <1>4
<1> HIDE DEF x, key
<1>6. PICK A : DgMessages(A) /\ x \in Seq(A) /\ Len(x) = DgBlock  BY <1>1, <1>5, HmAlphabet
<1>7. 8 * Len(x) < DgWord * DgWord
  <2>1. DgWord * DgWord \in Nat  BY DgSizes
  <2> QED  BY <2>1, <1>1, <1>6, HmBlocksShort
<1>8. ShaFedBy(A, Sha256Input(Sha256Init, x), x)  BY <1>6, <1>7, HmSumIs
<1>9. ShaFedBy(A, Sha256Input(Sha256Init, HmXor("36", key)), x)  BY <1>4, <1>8
<1> QED  BY <1>1, <1>4, <1>6, <1>9 DEF s, key, x

(***************************************************************************)
(* What the object keeps: the outer pad has the key; until the first       *)
(* answer the hasher has been fed the inner pad and the text; the first    *)
(* answer is the keyed digest, and then nothing is fed.                    *)
(***************************************************************************)
HmOpen ==
  \E A : DgMessages(A) /\ ShaFedBy(A, hmHasher, HmPad("36", HmKeyLen(hmKey)) \o DgMessage(1, hmFed))

HmAnswer ==
  HmHash(HmPad("5c", HmKeyLen(hmKey)) \o HmHash(HmPad("36", HmKeyLen(hmKey)) \o DgMessage(1, hmFed)))

HmInv ==
  /\ hmKey \in HmKeyLengths /\ hmAsked \in Nat
  /\ hmFed \in Nat /\ hmSaid \in Nat /\ hmFed <= hmSaid /\ hmSaid <= HmMaxText
  /\ hmOpad = HmPad("5c", HmKeyLen(hmKey))
  /\ hmAsked = 0 => HmOpen
  /\ hmAsked = 1 => hmHasher.computed = TRUE /\ hmDigest = HmAnswer

(* Nothing has been fed after the inner pad. *)
LEMMA HmNothingFed ==
  ASSUME NEW n \in Nat
  PROVE  HmPad("36", n) \o DgMessage(1, 0) = HmPad("36", n)
<1> DEFINE x == HmPad("36", n)
<1>1. DgBlock \in Nat /\ n \in Nat  BY DgSizes
<1>2. HmArray(x, DgBlock)  BY <1>1, HmBytesAre
<1> HIDE DEF x
<1>3. PICK A : DgMessages(A) /\ x \in Seq(A)  BY <1>1, <1>2, HmAlphabet
<1>4. DgMessage(1, 0) = << >>  BY <1>3, DgFreshIs
<1>5. x \o << >> = x  BY <1>3, ConcatEmptySeq
<1> QED  BY <1>4, <1>5 DEF x

(* The object that is made, or reset with a key. *)
LEMMA HmNewInv ==
  /\ HmInit => HmInv
  /\ \A l \in HmKeyLengths : HmReset(l) => HmInv'
<1>1. HmMaxText \in Nat /\ 0 <= HmMaxText  BY HmAssumption
<1>2. ASSUME HmInit PROVE HmInv
  <2> DEFINE n == HmKeyLen(hmKey)
             key == HmOfKey(n)
  <2>1. hmKey \in HmKeyLengths  BY <1>2, HmAssumption DEF HmInit
  <2>2. /\ hmOpad = HmXor("5c", key) /\ hmHasher = Sha256Input(Sha256Init, HmXor("36", key))
        /\ hmFed = 0 /\ hmSaid = 0 /\ hmAsked = 0
    BY <1>2 DEF HmInit
  <2> HIDE DEF key
  <2>3. /\ n \in Nat /\ HmXor("5c", key) = HmPad("5c", n)
        /\ \E A : DgMessages(A) /\ ShaFedBy(A, Sha256Input(Sha256Init, HmXor("36", key)), HmPad("36", n))
    BY <2>1, HmKeyIs DEF key
  <2>4. HmOpen  BY <2>2, <2>3, HmNothingFed DEF HmOpen
  <2> QED  BY <2>1, <2>2, <2>3, <2>4, <1>1 DEF HmInv
<1>3. ASSUME NEW l \in HmKeyLengths, HmReset(l) PROVE HmInv'
  <2> DEFINE n == HmKeyLen(l)
             key == HmOfKey(n)
  <2>1. hmKey' = l /\ hmSaid' = 0 /\ hmFed' = 0 /\ hmAsked' = 0  BY <1>3 DEF HmReset
  <2>2. hmOpad' = HmXor("5c", key) /\ hmHasher' = Sha256Input(Sha256Init, HmXor("36", key))
    BY <1>3 DEF HmReset
  <2>5. n = HmKeyLen(hmKey')  BY <2>1
  <2> HIDE DEF key
  <2>3. /\ n \in Nat /\ HmXor("5c", key) = HmPad("5c", n)
        /\ \E A : DgMessages(A) /\ ShaFedBy(A, Sha256Input(Sha256Init, HmXor("36", key)), HmPad("36", n))
    BY HmKeyIs DEF key
  <2> HIDE DEF n
  <2>4. HmOpen'  BY <2>1, <2>2, <2>3, <2>5, HmNothingFed DEF HmOpen
  <2> QED  BY <2>1, <2>2, <2>3, <2>4, <2>5, <1>1 DEF HmInv
<1> QED  BY <1>2, <1>3

(* The text is fed. *)
LEMMA HmInputInv == ASSUME HmShort, HmInv, NEW k \in HmPieces, HmInput(k) PROVE HmInv'
<1> DEFINE kl == HmKeyLen(hmKey)
           n == k % DgUInt
           x == HmPad("36", kl)
           old == DgMessage(1, hmFed)
           s == DgMessage(hmFed + 1, hmFed + n)
           new == DgMessage(1, hmFed + n)
           taken == ~hmHasher.computed /\ ~hmHasher.corrupted
<1>0. k \in Nat /\ n \in Nat /\ n <= k /\ kl \in Nat
  <2>1. k \in Nat  BY HmAssumption
  <2>2. kl \in Nat  BY HmKeyIs DEF HmInv
  <2> QED  BY <2>1, <2>2, DgNarrower
<1>1. /\ hmFed \in Nat /\ n \in Nat /\ HmMaxText \in Nat /\ hmFed + n <= HmMaxText
      /\ hmKey \in HmKeyLengths /\ DgBlock \in Nat
      /\ hmOpad' = hmOpad /\ hmKey' = hmKey /\ hmAsked' = hmAsked /\ hmDigest' = hmDigest
      /\ hmFed' = IF taken THEN hmFed + n ELSE hmFed
      /\ hmSaid' = IF taken THEN hmSaid + k ELSE hmSaid
      /\ hmSaid \in Nat /\ hmFed <= hmSaid /\ hmSaid + k <= HmMaxText
      /\ hmHasher' = Sha256Input(hmHasher, s)
  <2>1. /\ hmFed \in Nat /\ hmSaid \in Nat /\ hmFed <= hmSaid /\ hmSaid + k <= HmMaxText /\ HmMaxText \in Nat
    BY HmAssumption DEF HmInv, HmInput
  <2>2. hmFed + n <= HmMaxText
    <3> HIDE DEF n
    <3> QED  BY <1>0, <2>1
  <2> QED  BY <1>0, <2>1, <2>2, DgSizes DEF HmInv, HmInput
<1> HIDE DEF n, kl
<1>2. hmFed' \in Nat /\ hmSaid' \in Nat /\ hmFed' <= hmSaid' /\ hmSaid' <= HmMaxText
  <2> HIDE DEF taken
  <2> QED  BY <1>0, <1>1
<1>3. ASSUME hmAsked = 0 PROVE HmOpen'
  <2>1. PICK A : DgMessages(A) /\ ShaFedBy(A, hmHasher, x \o old)  BY <1>3 DEF HmInv, HmOpen, kl
  <2>2. hmHasher.computed = FALSE /\ hmHasher.corrupted = FALSE  BY <2>1 DEF ShaFedBy, DgShape
  <2>3. s \in Seq(A) /\ old \in Seq(A) /\ new = old \o s  BY <2>1, <1>1, DgMessageIs
  <2>4. new = DgMessage(1, hmFed')  BY <2>2, <1>1
  <2>5. HmArray(x, DgBlock)  BY <1>0, HmBytesAre
  <2>6. x = HmPad("36", HmKeyLen(hmKey'))  BY <1>1 DEF kl
  <2>10. 8 * (Len(x \o old) + Len(s)) < DgWord * DgWord
    <3>1. PICK C : x \in Seq(C) /\ Len(x) = DgBlock /\ DgMessages(C)
      <4> HIDE DEF x
      <4> QED  BY <1>1, <2>5, HmAlphabet
    <3>2. old \in Seq(C) /\ Len(old) = hmFed /\ Len(s) = n  BY <3>1, <1>1, DgMessageIs
    <3> HIDE DEF x, old, s
    <3>3. Len(x \o old) = DgBlock + hmFed  BY <3>1, <3>2, ConcatProperties
    <3>4. DgWord * DgWord \in Nat  BY DgSizes
    <3> QED  BY <3>2, <3>3, <3>4, <1>1 DEF HmShort
  <2> HIDE DEF x, old, s, new
  <2>7. ShaFedBy(A, hmHasher', (x \o old) \o s)  BY <2>1, <2>3, <2>10, <1>1, Sha256InputIs
  <2>8. (x \o old) \o s = x \o new
    <3>1. PICK C : x \in Seq(C) /\ DgMessages(C)  BY <2>5, <1>1, HmAlphabet
    <3>2. s \in Seq(C) /\ old \in Seq(C)
      <4> USE DEF s, old
      <4> QED  BY <3>1, <1>1, DgMessageIs
    <3>3. (x \o old) \o s = x \o (old \o s)  BY <3>1, <3>2, ConcatAssociative
    <3> QED  BY <3>3, <2>3
  <2>9. ShaFedBy(A, hmHasher', x \o new)  BY <2>7, <2>8
  <2> QED  BY <2>1, <2>4, <2>6, <2>9 DEF HmOpen
<1>4. ASSUME hmAsked = 1 PROVE hmHasher' = hmHasher /\ hmFed' = hmFed
  <2>1. hmHasher.computed = TRUE  BY <1>4 DEF HmInv
  <2>2. hmFed' = hmFed  BY <2>1, <1>1
  <2> HIDE DEF s
  <2>3. Sha256Input(hmHasher, s) = hmHasher  BY <2>1 DEF Sha256Input
  <2> QED  BY <2>2, <2>3, <1>1
<1> QED  BY <1>1, <1>2, <1>3, <1>4 DEF HmInv, HmAnswer

(* An answer. *)
LEMMA HmResultInv == ASSUME HmShort, HmInv, HmResult PROVE HmInv'
<1> DEFINE kl == HmKeyLen(hmKey)
           x == HmPad("36", kl)
           o == HmPad("5c", kl)
           m == DgMessage(1, hmFed)
           inner == IF hmHasher.corrupted THEN HmJunk ELSE HmNamed(Sha256Result(hmHasher).done)
           outer == Sha256Result(Sha256Input(Sha256Input(Sha256Init, hmOpad), inner))
<1>0. kl \in Nat  BY HmKeyIs DEF HmInv
<1>1. /\ hmFed \in Nat /\ HmMaxText \in Nat /\ hmFed <= HmMaxText
      /\ hmKey \in HmKeyLengths /\ DgBlock \in Nat /\ hmAsked \in Nat
      /\ hmSaid' = hmSaid /\ hmSaid \in Nat /\ hmFed <= hmSaid /\ hmSaid <= HmMaxText
      /\ hmOpad = o /\ hmOpad' = hmOpad /\ hmKey' = hmKey /\ hmFed' = hmFed /\ hmAsked' = hmAsked + 1
      /\ hmHasher' = outer /\ hmDigest' = HmNamed(outer.done)
  BY HmAssumption, DgSizes DEF HmInv, HmResult
<1>13. kl = HmKeyLen(hmKey)  OBVIOUS
<1> HIDE DEF kl
<1>2. HmArray(x, DgBlock)  BY <1>0, HmBytesAre
<1>3. HmArray(o, DgBlock)  BY <1>0, HmBytesAre
<1>4. HmHashSize \in Nat /\ HmHashSize <= DgBlock  BY <1>0, HmBytesAre
<1>5. x = HmPad("36", kl) /\ m = DgMessage(1, hmFed)  OBVIOUS
<1>6. hmHasher.corrupted = FALSE => inner = HmNamed(Sha256Result(hmHasher).done)  OBVIOUS
<1>7. DgWord * DgWord \in Nat /\ 8 * (DgBlock + HmMaxText) < DgWord * DgWord  BY DgSizes DEF HmShort
<1> HIDE DEF x, o, m, inner
<1>8. ASSUME hmAsked = 0 PROVE outer.computed = TRUE /\ HmNamed(outer.done) = HmAnswer
  <2>1. PICK A : DgMessages(A) /\ ShaFedBy(A, hmHasher, x \o m)  BY <1>5, <1>8, <1>13 DEF HmInv, HmOpen
  <2>2. Len(x \o m) = DgBlock + hmFed
    <3>1. PICK C : x \in Seq(C) /\ Len(x) = DgBlock /\ DgMessages(C)  BY <1>1, <1>2, HmAlphabet
    <3>2. m \in Seq(C) /\ Len(m) = hmFed  BY <3>1, <1>1, DgMessageIs DEF m
    <3> QED  BY <3>1, <3>2, ConcatProperties
  <2>3. 8 * Len(x \o m) < DgWord * DgWord  BY <2>2, <1>1, <1>7
  <2>4. inner = HmHash(x \o m)
    <3>1. DgAlphabet(A)  BY <2>1 DEF DgMessages
    <3>2. Sha256Result(hmHasher).done = DgBlocks(Padded(x \o m, 8 * Len(x \o m), TRUE))
      BY <2>1, <2>3, <3>1, Sha256ResultIs
    <3>3. hmHasher.corrupted = FALSE  BY <2>1 DEF ShaFedBy, DgShape
    <3> QED  BY <3>2, <3>3, <1>6 DEF HmHash
  <2>14. HmArray(inner, HmHashSize)  BY <2>4, <1>0, HmBytesAre DEF HmHash
  <2>5. PICK D : DgMessages(D) /\ o \in Seq(D) /\ Len(o) = DgBlock /\ inner \in Seq(D) /\ Len(inner) = HmHashSize
    BY <1>1, <1>3, <1>4, <2>14, HmAlphabet
  <2> DEFINE c == Sha256Input(Sha256Init, o)
             d == Sha256Input(c, inner)
             s == o \o inner
  <2>6. ShaFedBy(D, c, o)
    <3>1. 8 * Len(o) < DgWord * DgWord  BY <2>5, <1>1, <1>7, HmBlocksShort
    <3> QED  BY <2>5, <3>1, HmSumIs
  <2> HIDE DEF c
  <2>8. 8 * Len(s) < DgWord * DgWord /\ Len(s) = Len(o) + Len(inner)
    <3>1. Len(s) = DgBlock + HmHashSize  BY <2>5, ConcatProperties
    <3> HIDE DEF s
    <3> QED  BY <2>5, <3>1, <1>1, <1>4, <1>7, HmBlocksShort
  <2>7. ShaFedBy(D, d, s)
    <3>1. 8 * (Len(o) + Len(inner)) < DgWord * DgWord
      <4> HIDE DEF s
      <4> QED  BY <2>8
    <3> QED  BY <2>5, <2>6, <3>1, Sha256InputIs
  <2>9. outer = Sha256Result(d)  BY <1>1 DEF c
  <2>10. DgAlphabet(D)  BY <2>5 DEF DgMessages
  <2> HIDE DEF d
  <2>11. outer.computed = TRUE /\ outer.done = DgBlocks(Padded(s, 8 * Len(s), TRUE))
    <3> HIDE DEF s, outer
    <3> QED  BY <2>7, <2>8, <2>9, <2>10, Sha256ResultIs
  <2> HIDE DEF outer
  <2>12. HmNamed(outer.done) = HmHash(s)  BY <2>11 DEF HmHash
  <2>13. HmHash(s) = HmAnswer  BY <2>4, <1>5, <1>13 DEF HmAnswer, o
  <2> QED  BY <2>11, <2>12, <2>13
<1> HIDE DEF outer
<1>9. HmAnswer' = HmAnswer  BY <1>1 DEF HmAnswer
<1>10. hmOpad' = HmPad("5c", HmKeyLen(hmKey'))  BY <1>1, <1>13 DEF o
<1>11. hmAsked' \in Nat /\ hmAsked' # 0 /\ (hmAsked' = 1 => hmAsked = 0)  BY <1>1
<1>12. /\ hmKey' \in HmKeyLengths /\ hmFed' \in Nat /\ hmSaid' \in Nat
       /\ hmFed' <= hmSaid' /\ hmSaid' <= HmMaxText
  BY <1>1
<1> QED  BY <1>1, <1>8, <1>9, <1>10, <1>11, <1>12 DEF HmInv

(* Every step of the keyed digest. *)
LEMMA HmStepInv == ASSUME HmShort, HmInv, [HmNext]_hmVars PROVE HmInv'
<1>1. ASSUME NEW n \in HmKeyLengths, HmReset(n) PROVE HmInv'  BY <1>1, HmNewInv
<1>2. ASSUME NEW n \in HmPieces, HmInput(n) PROVE HmInv'  BY <1>2, HmInputInv
<1>3. CASE HmFinalBits(3)
  <2>1. hmAsked' = 2 /\ UNCHANGED <<hmOpad, hmKey, hmSaid, hmFed>>  BY <1>3 DEF HmFinalBits
  <2> QED  BY <2>1 DEF HmInv
<1>4. CASE HmResult  BY <1>4, HmResultInv
<1>5. CASE UNCHANGED hmVars  BY <1>5 DEF hmVars, HmInv, HmOpen, HmAnswer
<1> QED  BY <1>1, <1>2, <1>3, <1>4, <1>5 DEF HmNext

(***************************************************************************)
(* md5, sha1, sha256 and the keyed digest: for every size of a block, of a *)
(* word and of an unsigned int, a digest is that of the padded message,    *)
(* however it was cut into pieces none of which is longer than an unsigned *)
(* int says (for md5, of any length), when the whole is short of the two   *)
(* words of the counter; the first keyed digest after every reset is that  *)
(* of RFC 2104, with every length of the key that an int says.             *)
(***************************************************************************)
THEOREM HashesAreStandard == DgShort /\ HmShort /\ DgSpec /\ HmSpec => []HashIsStandard
<1> SUFFICES ASSUME DgShort, HmShort PROVE DgSpec /\ HmSpec => []HashIsStandard  OBVIOUS
<1>1. DgInit => DgInv  BY DgNewInv
<1>2. DgInv /\ [DgNext]_dgVars => DgInv'  BY DgStepInv
<1>3. HmInit => HmInv  BY HmNewInv
<1>4. HmInv /\ [HmNext]_hmVars => HmInv'  BY HmStepInv
<1>5. DgInv => DgIsPadded
  <2> SUFFICES ASSUME DgInv, dgDigest # << >>, ~dgBits PROVE dgDigest = DgPadded
    BY DEF DgIsPadded, DgPadded
  <2> QED  BY DEF DgInv, DgOpen, DgClosed
<1>6. HmInv => HmIsHmac
  <2> SUFFICES ASSUME HmInv, hmAsked = 1, hmKey <= HmIntMax, hmFed = hmSaid
               PROVE  hmDigest = HmHash(HmKeyed("5c") \o HmHash(HmKeyed("36") \o DgMessage(1, hmFed)))
    BY DEF HmIsHmac
  <2>1. \A pad : HmKeyed(pad) = HmPad(pad, hmKey)  BY DEF HmKeyed, HmPad
  <2>2. hmKey \in Nat /\ HmIntMax \in Nat /\ HmIntMax < DgUInt /\ DgUInt \in Nat
    BY HmAssumption, DgAssumption DEF HmInv
  <2>3. hmKey % DgUInt = hmKey  BY <2>2, DgNarrower
  <2>4. HmKeyLen(hmKey) = hmKey  BY <2>2, <2>3 DEF HmKeyLen
  <2> QED  BY <2>1, <2>4 DEF HmInv, HmAnswer
<1>7. DgInv /\ HmInv => HashIsStandard  BY <1>5, <1>6 DEF HashIsStandard
<1> QED  BY <1>1, <1>2, <1>3, <1>4, <1>7, PTL DEF DgSpec, HmSpec
=============================================================================
