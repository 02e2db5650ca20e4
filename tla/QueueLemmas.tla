---------------------------- MODULE QueueLemmas ----------------------------
(***************************************************************************)
(* Sequences used as queues: what the operations of a queue (push at the   *)
(* back, insert, cut, pop at the front) do to the set of its elements, and *)
(* that they keep it free of repetition; quotients and remainders; the     *)
(* least and the greatest of a set of numbers; and loops, turn by turn.    *)
(***************************************************************************)
EXTENDS SequenceTheorems, FiniteSetsExt, FiniteSetTheorems, WellFoundedInduction, TLAPS

(* The elements of a queue, by position. *)
LEMMA RangeOf ==
  ASSUME NEW S, NEW s \in Seq(S)
  PROVE  /\ Range(s) = {s[i] : i \in 1..Len(s)}
         /\ Range(s) \subseteq S
         /\ s = << >> <=> Range(s) = {}
         /\ IsInjective(s) <=> \A i, j \in 1..Len(s) : s[i] = s[j] => i = j
  BY DEF Range, IsInjective

(* The element at a position of a queue is one of its elements. *)
LEMMA ElementInRange ==
  ASSUME NEW S, NEW s \in Seq(S), NEW i \in 1..Len(s)
  PROVE  s[i] \in Range(s) /\ s[i] \in S
<1>1. Range(s) = {s[n] : n \in 1..Len(s)} /\ Range(s) \subseteq S  BY RangeOf
<1> QED  BY <1>1

(* An empty queue has no elements and no repetition. *)
LEMMA EmptyQueue == Range(<< >>) = {} /\ IsInjective(<< >>)
  BY DEF Range, IsInjective

(* push_back of a task that is not in the queue. *)
LEMMA AppendRange ==
  ASSUME NEW S, NEW s \in Seq(S), NEW t \in S
  PROVE  /\ Append(s, t) \in Seq(S)
         /\ Range(Append(s, t)) = Range(s) \cup {t}
         /\ IsInjective(s) /\ t \notin Range(s) => IsInjective(Append(s, t))
<1> DEFINE r == Append(s, t)
<1>1. r \in Seq(S) /\ Len(r) = Len(s) + 1 /\ r[Len(s) + 1] = t
      /\ \A i \in 1..Len(s) : r[i] = s[i]
  BY AppendProperties
<1>2. Range(r) = {r[i] : i \in 1..Len(r)} /\ Range(s) = {s[i] : i \in 1..Len(s)}
  BY <1>1, RangeOf
<1> HIDE DEF r
<1>3. Range(r) = Range(s) \cup {t}
  BY <1>1, <1>2
<1>4. IsInjective(s) /\ t \notin Range(s) => IsInjective(r)
  BY <1>1, <1>2 DEF IsInjective
<1> QED  BY <1>1, <1>3, <1>4 DEF r

(* Two queues with nothing in common, one behind the other. *)
LEMMA ConcatRange ==
  ASSUME NEW S, NEW s \in Seq(S), NEW u \in Seq(S)
  PROVE  /\ s \o u \in Seq(S)
         /\ Range(s \o u) = Range(s) \cup Range(u)
         /\ IsInjective(s) /\ IsInjective(u) /\ Range(s) \cap Range(u) = {}
              => IsInjective(s \o u)
<1> DEFINE r == s \o u
<1>1. /\ r \in Seq(S) /\ Len(r) = Len(s) + Len(u)
      /\ \A i \in 1..Len(r) : r[i] = IF i <= Len(s) THEN s[i] ELSE u[i - Len(s)]
  BY ConcatProperties
<1>2. /\ Range(r) = {r[i] : i \in 1..Len(r)}
      /\ Range(s) = {s[i] : i \in 1..Len(s)}
      /\ Range(u) = {u[i] : i \in 1..Len(u)}
  BY <1>1, RangeOf
<1>3. Len(s) \in Nat /\ Len(u) \in Nat
  BY LenProperties
<1> HIDE DEF r
<1>4. Range(r) \subseteq Range(s) \cup Range(u)
  BY <1>1, <1>2, <1>3
<1>5. Range(s) \subseteq Range(r)
  BY <1>1, <1>2, <1>3
<1>6. ASSUME NEW i \in 1..Len(u) PROVE u[i] \in Range(r)
  <2>1. i + Len(s) \in 1..Len(r) /\ r[i + Len(s)] = u[i]
    BY <1>1, <1>3
  <2> QED  BY <2>1, <1>2
<1>7. ASSUME IsInjective(s), IsInjective(u), Range(s) \cap Range(u) = {}
      PROVE  IsInjective(r)
  <2> SUFFICES ASSUME NEW i \in 1..Len(r), NEW j \in 1..Len(r), r[i] = r[j]
               PROVE  i = j
    BY DEF IsInjective
  <2>1. CASE i <= Len(s) /\ j <= Len(s)
    BY <2>1, <1>1, <1>3, <1>7 DEF IsInjective
  <2>2. CASE i > Len(s) /\ j > Len(s)
    <3>1. /\ i - Len(s) \in 1..Len(u) /\ j - Len(s) \in 1..Len(u)
          /\ u[i - Len(s)] = u[j - Len(s)]
      BY <2>2, <1>1, <1>3
    <3>2. i - Len(s) = j - Len(s)
      BY <3>1, <1>7 DEF IsInjective
    <3> QED  BY <3>2, <1>3
  <2>3. CASE i <= Len(s) /\ j > Len(s)
    <3>1. i \in 1..Len(s) /\ j - Len(s) \in 1..Len(u) /\ s[i] = u[j - Len(s)]
      BY <2>3, <1>1, <1>3
    <3> QED  BY <3>1, <1>2, <1>7
  <2>4. CASE i > Len(s) /\ j <= Len(s)
    <3>1. j \in 1..Len(s) /\ i - Len(s) \in 1..Len(u) /\ s[j] = u[i - Len(s)]
      BY <2>4, <1>1, <1>3
    <3> QED  BY <3>1, <1>2, <1>7
  <2> QED  BY <2>1, <2>2, <2>3, <2>4, <1>3
<1> QED  BY <1>1, <1>2, <1>4, <1>5, <1>6, <1>7 DEF r

(* A queue cut in two behind its first k elements. *)
LEMMA SplitRange ==
  ASSUME NEW S, NEW s \in Seq(S), NEW k \in 0..Len(s)
  PROVE  LET a == SubSeq(s, 1, k)
             b == SubSeq(s, k + 1, Len(s))
         IN /\ a \in Seq(S) /\ b \in Seq(S)
            /\ Range(a) = {s[i] : i \in 1..k}
            /\ Range(a) \cup Range(b) = Range(s)
            /\ IsInjective(s) => /\ IsInjective(a) /\ IsInjective(b)
                              /\ Range(a) \cap Range(b) = {}
<1> DEFINE a == SubSeq(s, 1, k)
           b == SubSeq(s, k + 1, Len(s))
<1>0. Len(s) \in Nat /\ \A i \in 1..Len(s) : s[i] \in S
  BY LenProperties, ElementOfSeq
<1>1. a \in Seq(S) /\ Len(a) = k /\ \A i \in 1..k : a[i] = s[i]
  BY <1>0, SubSeqProperties
<1>2. /\ b \in Seq(S) /\ Len(b) = Len(s) - k
      /\ \A i \in 1..(Len(s) - k) : b[i] = s[k + i]
  BY <1>0, SubSeqProperties
<1> HIDE DEF a, b
<1>3. /\ Range(a) = {a[i] : i \in 1..Len(a)}
      /\ Range(b) = {b[i] : i \in 1..Len(b)}
      /\ Range(s) = {s[i] : i \in 1..Len(s)}
  BY <1>1, <1>2, RangeOf
<1>4. Range(a) = {s[i] : i \in 1..k}
  BY <1>1, <1>3
<1>5. Range(b) = {s[i] : i \in (k + 1)..Len(s)}
  <2>1. ASSUME NEW i \in 1..(Len(s) - k)
        PROVE  k + i \in (k + 1)..Len(s) /\ b[i] = s[k + i]
    BY <1>0, <1>2
  <2>2. ASSUME NEW i \in (k + 1)..Len(s)
        PROVE  i - k \in 1..(Len(s) - k) /\ b[i - k] = s[i]
    BY <1>0, <1>2
  <2>3. Range(b) = {b[i] : i \in 1..(Len(s) - k)}
    BY <1>2, <1>3
  <2> QED  BY <2>1, <2>2, <2>3
<1>6. Range(a) \cup Range(b) = Range(s)
  <2>1. k \in Nat /\ k <= Len(s)
    BY <1>0
  <2>2. 1..k \subseteq 1..Len(s) /\ (k + 1)..Len(s) \subseteq 1..Len(s)
    BY <2>1, <1>0
  <2>3. \A i \in 1..Len(s) : i \in 1..k \/ i \in (k + 1)..Len(s)
    BY <2>1, <1>0
  <2> QED  BY <2>2, <2>3, <1>3, <1>4, <1>5
<1>7. ASSUME IsInjective(s)
      PROVE  IsInjective(a) /\ IsInjective(b) /\ Range(a) \cap Range(b) = {}
  <2>1. IsInjective(a)
    BY <1>0, <1>1, <1>7, RangeOf
  <2>2. IsInjective(b)
    <3>1. ASSUME NEW i \in 1..Len(b), NEW j \in 1..Len(b), b[i] = b[j]
          PROVE  i = j
      <4>1. k + i \in 1..Len(s) /\ k + j \in 1..Len(s) /\ s[k + i] = s[k + j]
        <5>1. i \in 1..(Len(s) - k) /\ j \in 1..(Len(s) - k) /\ k \in Nat
          BY <1>0, <1>2
        <5>2. b[i] = s[k + i] /\ b[j] = s[k + j]
          BY <5>1, <1>2
        <5> QED  BY <5>1, <5>2, <3>1, <1>0
      <4>2. k + i = k + j
        BY <4>1, <1>7, RangeOf
      <4> QED
        <5>1. i \in Int /\ j \in Int /\ k \in Int
          BY <1>0, <1>2
        <5> QED  BY <4>2, <5>1
    <3> QED  BY <3>1, <1>2, RangeOf
  <2>3. Range(a) \cap Range(b) = {}
    BY <1>0, <1>4, <1>5, <1>7, RangeOf
  <2> QED  BY <2>1, <2>2, <2>3
<1> QED  BY <1>1, <1>2, <1>4, <1>6, <1>7 DEF a, b

(* The multimap insertion: one new element somewhere in the queue. *)
LEMMA InsertedRange ==
  ASSUME NEW S, NEW s \in Seq(S), NEW t \in S, NEW k \in 0..Len(s)
  PROVE  LET r == SubSeq(s, 1, k) \o <<t>> \o SubSeq(s, k + 1, Len(s))
         IN /\ r \in Seq(S)
            /\ Range(r) = Range(s) \cup {t}
            /\ IsInjective(s) /\ t \notin Range(s) => IsInjective(r)
<1> DEFINE a == SubSeq(s, 1, k)
           b == SubSeq(s, k + 1, Len(s))
           c == <<t>>
<1>1. /\ a \in Seq(S) /\ b \in Seq(S)
      /\ Range(a) \cup Range(b) = Range(s)
      /\ IsInjective(s) => /\ IsInjective(a) /\ IsInjective(b)
                        /\ Range(a) \cap Range(b) = {}
  BY SplitRange
<1>2. c \in Seq(S) /\ Range(c) = {t} /\ IsInjective(c)
  BY DEF Range, IsInjective
<1> HIDE DEF a, b, c
<1> DEFINE ac == a \o c
<1>3. /\ ac \in Seq(S)
      /\ Range(ac) = Range(a) \cup {t}
      /\ IsInjective(a) /\ t \notin Range(a) => IsInjective(ac)
  BY <1>1, <1>2, ConcatRange
<1> HIDE DEF ac
<1>4. /\ ac \o b \in Seq(S)
      /\ Range(ac \o b) = Range(ac) \cup Range(b)
      /\ IsInjective(ac) /\ IsInjective(b) /\ Range(ac) \cap Range(b) = {}
           => IsInjective(ac \o b)
  BY <1>1, <1>3, ConcatRange
<1> QED  BY <1>1, <1>3, <1>4 DEF a, b, c, ac

(* Where the elements are after an insertion behind the first k. *)
Inserted(s, t, k) == SubSeq(s, 1, k) \o <<t>> \o SubSeq(s, k + 1, Len(s))

LEMMA InsertIndex ==
  ASSUME NEW S, NEW s \in Seq(S), NEW t \in S, NEW k \in 0..Len(s)
  PROVE  /\ Inserted(s, t, k) \in Seq(S) /\ Len(Inserted(s, t, k)) = Len(s) + 1
         /\ \A i \in 1..k : Inserted(s, t, k)[i] = s[i]
         /\ Inserted(s, t, k)[k + 1] = t
         /\ \A i \in (k + 2)..(Len(s) + 1) : Inserted(s, t, k)[i] = s[i - 1]
<1> DEFINE a == SubSeq(s, 1, k)
           b == SubSeq(s, k + 1, Len(s))
           c == <<t>>
<1>1. Len(s) \in Nat /\ k \in Nat /\ k <= Len(s) /\ \A i \in 1..Len(s) : s[i] \in S
  BY LenProperties, ElementOfSeq
<1>2. a \in Seq(S) /\ Len(a) = k /\ \A i \in 1..k : a[i] = s[i]
  <2>1. /\ SubSeq(s, 1, k) \in Seq(S)
        /\ Len(SubSeq(s, 1, k)) = IF 1 <= k THEN k - 1 + 1 ELSE 0
        /\ \A i \in 1..(k - 1 + 1) : SubSeq(s, 1, k)[i] = s[1 + i - 1]
    BY <1>1, SubSeqProperties
  <2> QED  BY <2>1, <1>1
<1>3. /\ b \in Seq(S) /\ Len(b) = Len(s) - k
      /\ \A i \in 1..(Len(s) - k) : b[i] = s[k + i]
  <2>1. /\ SubSeq(s, k + 1, Len(s)) \in Seq(S)
        /\ Len(SubSeq(s, k + 1, Len(s))) = IF k + 1 <= Len(s) THEN Len(s) - (k + 1) + 1 ELSE 0
        /\ \A i \in 1..(Len(s) - (k + 1) + 1) :
             SubSeq(s, k + 1, Len(s))[i] = s[k + 1 + i - 1]
    BY <1>1, SubSeqProperties
  <2> QED  BY <2>1, <1>1
<1>4. c \in Seq(S) /\ Len(c) = 1 /\ c[1] = t
  OBVIOUS
<1> HIDE DEF a, b, c
<1> DEFINE ac == a \o c
<1>5. /\ ac \in Seq(S) /\ Len(ac) = k + 1
      /\ \A i \in 1..(k + 1) : ac[i] = IF i <= k THEN a[i] ELSE c[i - k]
  <2>1. /\ a \o c \in Seq(S) /\ Len(a \o c) = Len(a) + Len(c)
        /\ \A i \in 1..(Len(a) + Len(c)) :
             (a \o c)[i] = IF i <= Len(a) THEN a[i] ELSE c[i - Len(a)]
    BY <1>2, <1>4, ConcatProperties
  <2> QED  BY <2>1, <1>2, <1>4
<1>6. (\A i \in 1..k : ac[i] = s[i]) /\ ac[k + 1] = t
  BY <1>1, <1>2, <1>4, <1>5
<1> HIDE DEF ac
<1>7. /\ ac \o b \in Seq(S) /\ Len(ac \o b) = Len(s) + 1
      /\ \A i \in 1..(Len(s) + 1) :
           (ac \o b)[i] = IF i <= k + 1 THEN ac[i] ELSE b[i - (k + 1)]
  <2>1. /\ ac \o b \in Seq(S) /\ Len(ac \o b) = Len(ac) + Len(b)
        /\ \A i \in 1..(Len(ac) + Len(b)) :
             (ac \o b)[i] = IF i <= Len(ac) THEN ac[i] ELSE b[i - Len(ac)]
    BY <1>3, <1>5, ConcatProperties
  <2> QED  BY <2>1, <1>1, <1>3, <1>5
<1>8. /\ \A i \in 1..k : (ac \o b)[i] = s[i]
      /\ (ac \o b)[k + 1] = t
  BY <1>1, <1>6, <1>7
<1>9. \A i \in (k + 2)..(Len(s) + 1) : (ac \o b)[i] = s[i - 1]
  <2> TAKE i \in (k + 2)..(Len(s) + 1)
  <2>1. i - (k + 1) \in 1..(Len(s) - k) /\ i \in 1..(Len(s) + 1) /\ ~(i <= k + 1)
    BY <1>1
  <2>2. (ac \o b)[i] = b[i - (k + 1)] /\ b[i - (k + 1)] = s[k + (i - (k + 1))]
    BY <1>3, <1>7, <2>1
  <2> QED  BY <2>2, <1>1
<1> QED  BY <1>7, <1>8, <1>9 DEF Inserted, a, b, c, ac

(* pop_front. *)
LEMMA TailRange ==
  ASSUME NEW S, NEW s \in Seq(S), s # << >>
  PROVE  /\ Head(s) \in Range(s) /\ Head(s) = s[1]
         /\ Tail(s) \in Seq(S)
         /\ Range(Tail(s)) \cup {Head(s)} = Range(s)
         /\ IsInjective(s) => IsInjective(Tail(s)) /\ Head(s) \notin Range(Tail(s))
<1>1. /\ Len(s) \in Nat /\ Len(s) >= 1 /\ Head(s) = s[1]
      /\ Tail(s) \in Seq(S) /\ Len(Tail(s)) = Len(s) - 1
      /\ \A i \in 1..(Len(s) - 1) : Tail(s)[i] = s[i + 1]
  BY LenProperties, HeadTailProperties, EmptySeq
<1>2. /\ Range(Tail(s)) = {Tail(s)[i] : i \in 1..Len(Tail(s))}
      /\ Range(s) = {s[i] : i \in 1..Len(s)}
  BY <1>1, RangeOf
<1>3. Range(Tail(s)) = {s[i] : i \in 2..Len(s)}
  <2>1. ASSUME NEW i \in 2..Len(s)
        PROVE  i - 1 \in 1..(Len(s) - 1) /\ Tail(s)[i - 1] = s[i]
    BY <1>1
  <2>2. ASSUME NEW i \in 1..(Len(s) - 1)
        PROVE  i + 1 \in 2..Len(s) /\ Tail(s)[i] = s[i + 1]
    BY <1>1
  <2> QED  BY <2>1, <2>2, <1>2
<1>4. IsInjective(s) => IsInjective(Tail(s)) /\ Head(s) \notin Range(Tail(s))
  <2> SUFFICES ASSUME \A i, j \in 1..Len(s) : s[i] = s[j] => i = j
               PROVE  IsInjective(Tail(s)) /\ Head(s) \notin Range(Tail(s))
    BY RangeOf
  <2>1. ASSUME NEW i \in 1..Len(Tail(s)), NEW j \in 1..Len(Tail(s)),
               Tail(s)[i] = Tail(s)[j]
        PROVE  i = j
    <3>1. i + 1 \in 1..Len(s) /\ j + 1 \in 1..Len(s) /\ s[i + 1] = s[j + 1]
      BY <2>1, <1>1
    <3>2. i + 1 = j + 1
      BY <3>1
    <3> QED  BY <3>2, <1>1
  <2>2. IsInjective(Tail(s))
    BY <2>1, <1>1, RangeOf
  <2>3. \A i \in 2..Len(s) : s[i] # s[1]
    BY <1>1
  <2> QED  BY <2>2, <2>3, <1>1, <1>3
<1> QED  BY <1>1, <1>2, <1>3, <1>4

-----------------------------------------------------------------------------
(* Quotient and remainder. *)
LEMMA DivMod ==
  ASSUME NEW n \in Nat \ {0}, NEW a \in Nat
  PROVE a \div n \in Nat /\ a % n \in 0..n - 1 /\ a = (n * (a \div n)) + (a % n)
<1>1. a % n \in 0..n - 1  OBVIOUS
<1>2. a \div n \in Int  OBVIOUS
<1>3. a = (n * (a \div n)) + (a % n)  OBVIOUS
<1>4. a \div n >= 0
  <2>1. CASE a \div n <= -1
    <3>1. n * (a \div n) <= n * (-1)  BY <2>1, <1>2
    <3> QED  BY <3>1, <1>1, <1>3
  <2> QED  BY <2>1, <1>2
<1> QED  BY <1>1, <1>2, <1>3, <1>4

(* A multiple of n between -n and n is 0. *)
LEMMA SmallMultiple ==
  ASSUME NEW n \in Nat \ {0}, NEW d \in Int, n * d < n, -n < n * d
  PROVE d = 0
<1>1. CASE d >= 1
  <2>1. n * d >= n * 1  BY <1>1
  <2> QED  BY <2>1
<1>2. CASE d <= -1
  <2>1. n * d <= n * (-1)  BY <1>2
  <2> QED  BY <2>1
<1> QED  BY <1>1, <1>2

(* There is only one remainder. *)
LEMMA ModIs ==
  ASSUME NEW n \in Nat \ {0}, NEW a \in Nat, NEW q \in Nat, NEW m \in 0..n - 1, a = n * q + m
  PROVE  a % n = m
<1> DEFINE p == a \div n
           l == a % n
<1>1. p \in Int /\ l \in 0..n - 1 /\ a = n * p + l
  <2>1. a \div n \in Nat /\ a % n \in 0..n - 1 /\ a = (n * (a \div n)) + (a % n)  BY DivMod
  <2> QED  BY <2>1
<1> HIDE DEF p, l
<1>2. n * (p - q) = n * p - n * q  BY <1>1
<1>3. n * (p - q) = m - l  BY <1>1, <1>2
<1>4. n * (p - q) < n /\ -n < n * (p - q) /\ p - q \in Int  BY <1>1, <1>3
<1>5. p - q = 0
  <2> DEFINE d == p - q
  <2>1. d \in Int /\ n * d < n /\ -n < n * d  BY <1>4
  <2> HIDE DEF d
  <2>2. d = 0  BY <2>1, SmallMultiple
  <2> QED  BY <2>2 DEF d
<1>6. p = q  BY <1>5, <1>1
<1> QED  BY <1>1, <1>6 DEF l

(* A set of natural numbers that is not empty has a least one. *)
LEMMA LeastIs ==
  ASSUME NEW T \in SUBSET Nat, T # {}
  PROVE  Min(T) \in T /\ \A y \in T : Min(T) <= y
<1>1. \E x \in T : \A y \in T : ~(<<y, x>> \in OpToRel(<, Nat))
  BY NatLessThanWellFounded, WFMin
<1>2. PICK x \in T : \A y \in T : ~(<<y, x>> \in OpToRel(<, Nat))  BY <1>1
<1>3. \A y \in T : ~(y < x)  BY <1>2 DEF OpToRel
<1>4. \A y \in T : x <= y  BY <1>3
<1> QED  BY <1>4 DEF Min

(* A set of integers that is not empty and has an upper bound has a greatest one. *)
LEMMA GreatestIs ==
  ASSUME NEW T \in SUBSET Int, T # {}, NEW top \in Int, \A y \in T : y <= top
  PROVE  Max(T) \in T /\ \A y \in T : Max(T) >= y
<1> DEFINE D == {top - y : y \in T}
<1>1. D \in SUBSET Nat /\ D # {}
  <2>1. \A y \in T : y \in Int /\ top - y \in Nat  OBVIOUS
  <2> QED  BY <2>1
<1>2. PICK d \in D : \A e \in D : d <= e  BY <1>1, LeastIs
<1>3. PICK x \in T : d = top - x  BY <1>2
<1>4. \A y \in T : top - y \in D  OBVIOUS
<1> HIDE DEF D
<1>5. \A y \in T : x >= y
  <2> TAKE y \in T
  <2>1. top - x <= top - y  BY <1>2, <1>3, <1>4
  <2> QED  BY <2>1
<1> QED  BY <1>5 DEF Max
-----------------------------------------------------------------------------
(***************************************************************************)
(* Loops.  What holds before the first turn and after each turn if it held *)
(* before.                                                                 *)
(***************************************************************************)
LEMMA TurnByTurn ==
  ASSUME NEW m \in Nat, NEW S, 0 \in S, \A t \in 1..m : t - 1 \in S => t \in S
  PROVE  0..m \subseteq S
<1> DEFINE Bad == {t \in 0..m : t \notin S}
<1> SUFFICES ASSUME Bad # {} PROVE FALSE  OBVIOUS
<1>1. Bad \in SUBSET Nat  OBVIOUS
<1>2. PICK t \in Bad : \A u \in Bad : t <= u  BY <1>1, LeastIs
<1>3. t # 0 /\ t \in 1..m /\ t - 1 \in 0..m /\ ~(t <= t - 1)  BY <1>2
<1>4. t - 1 \in S  BY <1>2, <1>3
<1> QED  BY <1>2, <1>3, <1>4

(* A loop whose turns stay within a set has values for its variables. *)
Loops(T, a, m, step) == {f \in [0..m -> T] : f[0] = a /\ \A t \in 1..m : f[t] = step[t][f[t - 1]]}

(* Such values exist. *)
LEMMA LoopExists ==
  ASSUME NEW T, NEW a \in T, NEW m \in Nat, NEW step \in [1..m -> [T -> T]]
  PROVE  Loops(T, a, m, step) # {}
<1> SUFFICES \E f \in [0..m -> T] : f[0] = a /\ \A t \in 1..m : f[t] = step[t][f[t - 1]]
  BY DEF Loops
<1> DEFINE Is(f, n) == f[0] = a /\ \A t \in 1..n : f[t] = step[t][f[t - 1]]
           S == {n \in 0..m : \E f \in [0..n -> T] : Is(f, n)}
<1>1. 0 \in S
  <2> DEFINE f == [t \in 0..0 |-> a]
  <2>1. f \in [0..0 -> T] /\ Is(f, 0)  OBVIOUS
  <2>2. 0 \in 0..m  OBVIOUS
  <2> HIDE DEF f, Is
  <2> QED  BY <2>1, <2>2
<1>2. ASSUME NEW n \in 1..m, n - 1 \in S PROVE n \in S
  <2>1. PICK f \in [0..n - 1 -> T] : Is(f, n - 1)  BY <1>2
  <2> DEFINE g == [t \in 0..n |-> IF t = n THEN step[n][f[n - 1]] ELSE f[t]]
  <2>2. n - 1 \in 0..n - 1 /\ step[n][f[n - 1]] \in T  OBVIOUS
  <2>3. \A t \in 0..n : t = n \/ t \in 0..n - 1  OBVIOUS
  <2>4. g \in [0..n -> T]  BY <2>2, <2>3
  <2>5. \A t \in 0..n - 1 : g[t] = f[t]  OBVIOUS
  <2>6. g[n] = step[n][f[n - 1]]  OBVIOUS
  <2> HIDE DEF g
  <2>7. \A t \in 1..n : t = n \/ (t \in 1..n - 1 /\ t \in 0..n - 1 /\ t - 1 \in 0..n - 1)  OBVIOUS
  <2>8. \A t \in 1..n : g[t] = step[t][g[t - 1]]  BY <2>1, <2>2, <2>5, <2>6, <2>7
  <2>9. 0 \in 0..n - 1  OBVIOUS
  <2>10. g[0] = a  BY <2>1, <2>5, <2>9
  <2> QED  BY <2>4, <2>8, <2>10
<1>3. 0..m \subseteq S
  <2> HIDE DEF S
  <2> QED  BY <1>1, <1>2, TurnByTurn
<1>4. m \in S
  <2>1. m \in 0..m  OBVIOUS
  <2> QED  BY <2>1, <1>3
<1> QED  BY <1>4

=============================================================================
