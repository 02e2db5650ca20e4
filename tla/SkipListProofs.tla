--------------------------- MODULE SkipListProofs ---------------------------
(***************************************************************************)
(* Proofs about SkipList, for every number of keys and every height: after *)
(* every sequence of modifiers the links agree, searches find what is      *)
(* there, the height, the size and the tail are right, copies are complete *)
(* -- unless a caller gives a hint behind which the key belongs.           *)
(***************************************************************************)
EXTENDS SkipList, QueueLemmas, FiniteSetTheorems, TLAPS

USE SkipListAssumption

-----------------------------------------------------------------------------
(***************************************************************************)
(* One level: the nodes N are linked in both directions behind the header, *)
(* and no part of them is a ring.                                          *)
(***************************************************************************)
From == Key \cup {Header}

Chain(N, nx, pv) ==
  /\ \A n \in N \cup {Header} : nx[n] \in N \cup {Nil} /\ (nx[n] # Nil => pv[nx[n]] = n)
  /\ \A n \in N : pv[n] \in N \cup {Header} /\ nx[pv[n]] = n
  /\ \A S \in SUBSET N : (\A n \in S : nx[n] \in S) => S = {}

(* The header, the keys and the end are different. *)
LEMMA Names == /\ Key \subseteq Nat /\ Header \notin Key /\ Nil \notin Key /\ Nil # Header /\ Nil \in Nat
               /\ Unset \notin Key /\ Unset # Header /\ Unset # Nil /\ Header = 0
               /\ \A k \in Key : Header < k /\ k < Nil
  BY DEF Key, Header, Nil, Unset

(* The keys are finitely many. *)
LEMMA KeysFinite == IsFiniteSet(Key) /\ Cardinality(Key) = MaxKey
<1>1. IsFiniteSet(1..MaxKey) /\ Cardinality(1..MaxKey) = (IF 1 > MaxKey THEN 0 ELSE MaxKey - 1 + 1)
  BY FS_Interval
<1>2. (IF 1 > MaxKey THEN 0 ELSE MaxKey - 1 + 1) = MaxKey  OBVIOUS
<1> QED  BY <1>1, <1>2 DEF Key

(* A level with nodes begins behind the header. *)
LEMMA HeaderReaches ==
  ASSUME NEW N \in SUBSET Key, NEW nx, NEW pv, Chain(N, nx, pv), nx[Header] = Nil
  PROVE  N = {}
<1> DEFINE p == [n \in N |-> pv[n]]
<1>1. \A n \in N : pv[n] \in N /\ nx[pv[n]] = n
  BY Names DEF Chain
<1>2. p \in Injection(N, N)
  BY <1>1 DEF Injection, IsInjective
<1>3. IsFiniteSet(N)  BY KeysFinite, FS_Subset
<1>4. p \in Surjection(N, N)  BY <1>2, <1>3, FS_Injection
<1>5. \A n \in N : \E m \in N : pv[m] = n  BY <1>4 DEF Surjection
<1>6. \A n \in N : nx[n] \in N  BY <1>1, <1>5
<1> QED  BY <1>6 DEF Chain

(* A level has an end. *)
LEMMA SomeLast ==
  ASSUME NEW N \in SUBSET Key, NEW nx, NEW pv, Chain(N, nx, pv)
  PROVE  \E n \in N \cup {Header} : nx[n] = Nil
<1> SUFFICES ASSUME \A n \in N \cup {Header} : nx[n] # Nil PROVE FALSE  OBVIOUS
<1>1. \A n \in N \cup {Header} : nx[n] \in N  BY DEF Chain
<1>2. N = {}  BY <1>1 DEF Chain
<1> QED  BY <1>1, <1>2

(***************************************************************************)
(* Linking a node behind another, and unlinking one.                       *)
(***************************************************************************)
Spliced(N, nx, k, c, nx1, pv1) ==
  /\ nx1 \in [From -> Key \cup {Nil}] /\ pv1 \in [Key -> From \cup {Nil}]
  /\ nx1[k] = nx[c] /\ nx1[c] = k /\ \A n \in From \ {k, c} : nx1[n] = nx[n]
  /\ Chain(N \cup {k}, nx1, pv1)

(* Linking k behind c. *)
LEMMA ChainInsert ==
  ASSUME NEW N \in SUBSET Key, NEW nx \in [From -> Key \cup {Nil}], NEW pv \in [Key -> From \cup {Nil}],
         Chain(N, nx, pv), NEW k \in Key, k \notin N, NEW c \in N \cup {Header},
         NEW nx1, nx1 = [nx EXCEPT ![k] = nx[c], ![c] = k],
         NEW pv1, pv1 = [BackLink(pv, nx[c], k) EXCEPT ![k] = c]
  PROVE  Spliced(N, nx, k, c, nx1, pv1)
<1>1. c \in From /\ c # k /\ k \in From  BY Names DEF From
<1>2. nx[c] \in N \cup {Nil} /\ nx[c] # k  BY Names DEF Chain
<1>3. nx1[k] = nx[c] /\ nx1[c] = k /\ \A n \in From \ {k, c} : nx1[n] = nx[n]  BY <1>1
<1>4. nx1 \in [From -> Key \cup {Nil}]  BY <1>1
<1>5. /\ pv1 \in [Key -> From \cup {Nil}]
      /\ pv1[k] = c /\ (nx[c] # Nil => pv1[nx[c]] = k)
      /\ \A n \in Key \ {k, nx[c]} : pv1[n] = pv[n]
  <2>1. CASE nx[c] = Nil  BY <2>1, <1>1, Names DEF BackLink
  <2>2. CASE nx[c] # Nil  BY <2>2, <1>1, <1>2, Names DEF BackLink
  <2> QED  BY <2>1, <2>2
<1>6. ASSUME NEW n \in N \cup {k, Header}
      PROVE  nx1[n] \in N \cup {k, Nil} /\ (nx1[n] # Nil => pv1[nx1[n]] = n)
  <2>1. CASE n = k  BY <2>1, <1>2, <1>3, <1>5
  <2>2. CASE n = c  BY <2>2, <1>3, <1>5
  <2>3. CASE n \in (N \cup {Header}) \ {k, c}
    <3>1. nx1[n] = nx[n] /\ nx[n] \in N \cup {Nil} /\ (nx[n] # Nil => pv[nx[n]] = n)
      BY <2>3, <1>3 DEF Chain, From
    <3>2. CASE nx[n] = Nil  BY <3>1, <3>2
    <3>3. CASE nx[n] # Nil
      <4>1. nx[n] # nx[c]  BY <2>3, <3>1, <3>3 DEF Chain
      <4>2. nx[n] \in Key \ {k, nx[c]}  BY <3>1, <3>3, <4>1
      <4> QED  BY <3>1, <3>3, <4>2, <1>5
    <3> QED  BY <3>2, <3>3
  <2> QED  BY <2>1, <2>2, <2>3
<1>7. ASSUME NEW n \in N \cup {k}
      PROVE  pv1[n] \in N \cup {k, Header} /\ nx1[pv1[n]] = n
  <2>1. CASE n = k  BY <2>1, <1>3, <1>5
  <2>2. CASE n = nx[c] /\ n # k
    <3>1. n # Nil  BY <2>2, Names
    <3> QED  BY <3>1, <2>2, <1>3, <1>5
  <2>3. CASE n \in N \ {k, nx[c]}
    <3>1. pv1[n] = pv[n] /\ pv[n] \in N \cup {Header} /\ nx[pv[n]] = n  BY <2>3, <1>5 DEF Chain
    <3>2. pv[n] # c /\ pv[n] # k /\ pv[n] \in From  BY <2>3, <3>1, Names DEF From
    <3> QED  BY <3>1, <3>2, <1>3
  <2> QED  BY <2>1, <2>2, <2>3
<1>8. ASSUME NEW S \in SUBSET (N \cup {k}), \A n \in S : nx1[n] \in S
      PROVE  S = {}
  <2>0. \A n \in N : n \in From  BY DEF From
  <2>1. CASE k \notin S
    <3>1. c \notin S  BY <2>1, <1>8, <1>3
    <3>2. \A n \in S : nx[n] \in S  BY <2>0, <2>1, <3>1, <1>8, <1>3
    <3> QED  BY <2>1, <3>2 DEF Chain
  <2>2. CASE k \in S
    <3> DEFINE R == S \ {k}
    <3>1. nx[c] \in R  BY <2>2, <1>8, <1>3, <1>2
    <3>2. \A n \in R : nx[n] \in R
      <4> TAKE n \in R
      <4>1. CASE n = c  BY <4>1, <3>1
      <4>2. CASE n # c
        <5>1. nx[n] \in S  BY <4>2, <2>0, <1>8, <1>3
        <5>2. nx[n] \in N \cup {Nil}  BY DEF Chain
        <5> QED  BY <5>1, <5>2, Names
      <4> QED  BY <4>1, <4>2
    <3>3. R \in SUBSET N  OBVIOUS
    <3> HIDE DEF R
    <3>4. R = {}  BY <3>2, <3>3 DEF Chain
    <3> QED  BY <3>1, <3>4
  <2> QED  BY <2>1, <2>2
<1>9. Chain(N \cup {k}, nx1, pv1)
  <2>1. (N \cup {k}) \cup {Header} = N \cup {k, Header} /\ (N \cup {k}) \cup {Nil} = N \cup {k, Nil}  OBVIOUS
  <2> QED  BY <2>1, <1>6, <1>7, <1>8 DEF Chain
<1> QED  BY <1>3, <1>4, <1>5, <1>9 DEF Spliced

(* Unlinking a node. *)
Unspliced(N, nx, p, k, nx1, pv1) ==
  /\ nx1 \in [From -> Key \cup {Nil}] /\ pv1 \in [Key -> From \cup {Nil}]
  /\ p \in (N \cup {Header}) \ {k} /\ nx[k] # k /\ nx1[p] = nx[k]
  /\ \A n \in From \ {k, p} : nx1[n] = nx[n]
  /\ Chain(N \ {k}, nx1, pv1)

(* What unlinking k leaves. *)
LEMMA ChainErase ==
  ASSUME NEW N \in SUBSET Key, NEW nx \in [From -> Key \cup {Nil}], NEW pv \in [Key -> From \cup {Nil}],
         Chain(N, nx, pv), NEW k \in N,
         NEW nx1, nx1 = [nx EXCEPT ![pv[k]] = nx[k], ![k] = Nil],
         NEW pv1, pv1 = [BackLink(pv, nx[k], pv[k]) EXCEPT ![k] = Nil]
  PROVE  Unspliced(N, nx, pv[k], k, nx1, pv1)
<1> DEFINE p == pv[k]
<1>1. p \in N \cup {Header} /\ nx[p] = k /\ nx[k] \in N \cup {Nil} /\ (nx[k] # Nil => pv[nx[k]] = k)
  BY DEF Chain
<1>2. nx[k] # k
  <2> SUFFICES ASSUME nx[k] = k PROVE FALSE  OBVIOUS
  <2>1. {k} = {}  BY DEF Chain
  <2> QED  BY <2>1
<1>3. p # k /\ p \in From /\ k \in From /\ k \in Key  BY <1>1, <1>2 DEF From
<1>4. pv1 = [BackLink(pv, nx[k], p) EXCEPT ![k] = Nil] /\ nx1 = [nx EXCEPT ![p] = nx[k], ![k] = Nil]  OBVIOUS
<1> HIDE DEF p
<1>5. nx1[p] = nx[k] /\ nx1[k] = Nil /\ \A n \in From \ {k, p} : nx1[n] = nx[n]  BY <1>3, <1>4
<1>6. nx1 \in [From -> Key \cup {Nil}]  BY <1>1, <1>3, <1>4
<1>7. /\ pv1 \in [Key -> From \cup {Nil}]
      /\ (nx[k] # Nil => pv1[nx[k]] = p)
      /\ \A n \in Key \ {k, nx[k]} : pv1[n] = pv[n]
  <2>1. CASE nx[k] = Nil  BY <2>1, <1>3, <1>4, Names DEF BackLink
  <2>2. CASE nx[k] # Nil  BY <2>2, <1>1, <1>2, <1>3, <1>4, Names DEF BackLink
  <2> QED  BY <2>1, <2>2
<1>8. ASSUME NEW n \in (N \cup {Header}) \ {k}
      PROVE  nx1[n] \in (N \ {k}) \cup {Nil} /\ (nx1[n] # Nil => pv1[nx1[n]] = n)
  <2>1. CASE n = p  BY <2>1, <1>1, <1>2, <1>5, <1>7
  <2>2. CASE n # p
    <3>1. nx1[n] = nx[n] /\ nx[n] \in N \cup {Nil} /\ (nx[n] # Nil => pv[nx[n]] = n)
      BY <2>2, <1>5 DEF Chain, From
    <3>2. nx[n] # k
      <4>1. nx[n] = k => n = p  BY <3>1, Names DEF p
      <4> QED  BY <4>1, <2>2
    <3>3. CASE nx[n] = Nil  BY <3>1, <3>3
    <3>4. CASE nx[n] # Nil
      <4>1. nx[n] # nx[k]  BY <3>1, <3>4, <1>1
      <4>2. nx[n] \in Key \ {k, nx[k]}  BY <3>1, <3>2, <3>4, <4>1
      <4> QED  BY <3>1, <3>2, <3>4, <4>2, <1>7
    <3> QED  BY <3>3, <3>4
  <2> QED  BY <2>1, <2>2
<1>9. ASSUME NEW n \in N \ {k}
      PROVE  pv1[n] \in (N \cup {Header}) \ {k} /\ nx1[pv1[n]] = n
  <2>1. CASE n = nx[k]
    <3>1. n # Nil  BY <2>1, Names
    <3> QED  BY <3>1, <2>1, <1>1, <1>3, <1>5, <1>7
  <2>2. CASE n # nx[k]
    <3>1. pv1[n] = pv[n] /\ pv[n] \in N \cup {Header} /\ nx[pv[n]] = n  BY <2>2, <1>7 DEF Chain
    <3>2. pv[n] # p /\ pv[n] # k /\ pv[n] \in From  BY <2>2, <3>1, <1>1 DEF From
    <3> QED  BY <3>1, <3>2, <1>5
  <2> QED  BY <2>1, <2>2
<1>10. ASSUME NEW S \in SUBSET (N \ {k}), \A n \in S : nx1[n] \in S
       PROVE  S = {}
  <2>0. \A n \in N : n \in From  BY DEF From
  <2>1. CASE p \notin S
    <3>1. \A n \in S : nx[n] \in S  BY <2>0, <2>1, <1>10, <1>5
    <3> QED  BY <3>1 DEF Chain
  <2>2. CASE p \in S
    <3> DEFINE R == S \cup {k}
    <3>1. nx[k] \in S  BY <2>2, <1>10, <1>5
    <3>2. \A n \in R : nx[n] \in R
      <4> TAKE n \in R
      <4>1. CASE n = k  BY <4>1, <3>1
      <4>2. CASE n = p  BY <4>2, <1>1
      <4>3. CASE n \notin {k, p}
        <5>1. nx[n] = nx1[n]  BY <4>3, <2>0, <1>5
        <5> QED  BY <4>3, <5>1, <1>10
      <4> QED  BY <4>1, <4>2, <4>3
    <3>3. R \in SUBSET N  OBVIOUS
    <3>4. k \in R  OBVIOUS
    <3> HIDE DEF R
    <3>5. R = {}  BY <3>2, <3>3 DEF Chain
    <3> QED  BY <3>4, <3>5
  <2> QED  BY <2>1, <2>2
<1>11. Chain(N \ {k}, nx1, pv1)
  <2>1. (N \ {k}) \cup {Header} = (N \cup {Header}) \ {k}  BY Names
  <2> QED  BY <2>1, <1>8, <1>9, <1>10 DEF Chain
<1> QED  BY <1>1, <1>2, <1>3, <1>5, <1>6, <1>7, <1>11 DEF p, Unspliced

-----------------------------------------------------------------------------
(***************************************************************************)
(* A level on which the keys ascend, as they do on the lowest one: no node *)
(* is between a node and the next one.                                     *)
(***************************************************************************)
Ascending(N, nx) == \A n \in N \cup {Header} : n < nx[n]

(* The least skipped node would be skipped by its predecessor, or skip it. *)
LEMMA Consecutive ==
  ASSUME NEW N \in SUBSET Key, NEW nx, NEW pv, Chain(N, nx, pv), Ascending(N, nx),
         NEW n \in N \cup {Header}, NEW m \in N, n < m
  PROVE  nx[n] <= m
<1> DEFINE Skipped(x) == \E y \in N \cup {Header} : y < x /\ x < nx[y]
           Bad == {x \in N : Skipped(x)}
<1>0. /\ \A x \in N : x \in Nat /\ x # Header /\ Header < x
      /\ \A x \in N \cup {Header} : nx[x] \in Nat /\ x \in Nat
  <2>1. \A x \in N \cup {Header} : nx[x] \in N \cup {Nil}  BY DEF Chain
  <2>2. \A x \in N : x \in Nat /\ x # Header /\ Header < x  BY Names
  <2>3. Header \in Nat /\ Nil \in Nat  BY Names
  <2> QED  BY <2>1, <2>2, <2>3
<1>1. ASSUME Bad # {} PROVE FALSE
  <2>1. Bad \in SUBSET Nat  BY <1>0
  <2>2. PICK x \in Bad : \A y \in Bad : x <= y  BY <2>1, <1>1, LeastIs
  <2>3. PICK y \in N \cup {Header} : y < x /\ x < nx[y]  BY <2>2
  <2>4. x \in N /\ pv[x] \in N \cup {Header} /\ nx[pv[x]] = x  BY <2>2 DEF Chain
  <2>5. pv[x] < x  BY <2>4 DEF Ascending
  <2>6. pv[x] # y  BY <2>3, <2>4, <1>0
  <2>7. CASE y < pv[x]
    <3>1. pv[x] \in N  BY <2>7, <2>4, <1>0, Names
    <3>2. pv[x] < nx[y]  BY <2>3, <2>5, <1>0, <2>4
    <3>3. pv[x] \in Bad  BY <3>1, <3>2, <2>7
    <3> QED  BY <3>3, <2>2, <2>5, <2>4, <1>0
  <2>8. CASE pv[x] < y
    <3>1. y \in N
      <4>1. y # Header
        <5>1. pv[x] \in Nat /\ Header = 0  BY <2>4, <1>0, Names
        <5> QED  BY <5>1, <2>8
      <4> QED  BY <4>1
    <3>2. y < nx[pv[x]]  BY <2>3, <2>4
    <3>3. y \in Bad  BY <3>1, <3>2, <2>8, <2>4
    <3> QED  BY <3>3, <2>2, <2>3, <2>4, <1>0
  <2> QED  BY <2>6, <2>7, <2>8, <2>3, <2>4, <1>0
<1>2. ~(m < nx[n])  BY <1>1
<1> QED  BY <1>0, <1>2

(***************************************************************************)
(* find_() on one level: the walk stays on the level and it ends.          *)
(***************************************************************************)
ListRecord ==
  [next : [Level -> [From -> Key \cup {Nil}]], prev : [Level -> [Key -> From \cup {Nil}]],
   height : [Key -> 0..MaxHeight], cur : Level, num : Nat,
   tail : Key \cup {Nil}, tailHere : BOOLEAN]

At(L, i) == {n \in Key : L.height[n] >= i}

OnChain(L, i) == Chain(At(L, i), L.next[i], L.prev[i])

Passes(L, k, epos, i, d) == L.next[i][d] \notin {Nil, epos} /\ k > L.next[i][d]

(* The turns of the walk. *)
LEMMA WalkIs ==
  ASSUME NEW L \in ListRecord, NEW k \in Key, NEW epos, NEW i \in Level, NEW d \in From,
         NEW w, w = Walk(L, k, epos, i, d)
  PROVE  /\ w \in [0..MaxKey -> From] /\ w[0] = d
         /\ \A t \in 1..MaxKey : w[t] = Passed(L, k, epos, i, w[t - 1])
<1> DEFINE P(x) == Passed(L, k, epos, i, x)
           Eq(f) == f = [t \in 0..MaxKey |-> IF t = 0 THEN d ELSE P(f[t - 1])]
           step == [t \in 1..MaxKey |-> [x \in From |-> P(x)]]
<1>0. L.next[i] \in [From -> Key \cup {Nil}]  BY DEF ListRecord
<1>1. \A x \in From : P(x) \in From  BY <1>0 DEF Passed, From
<1>2. step \in [1..MaxKey -> [From -> From]]  BY <1>1
<1>3. \A t \in 1..MaxKey, x \in From : step[t][x] = P(x)  OBVIOUS
<1>4. w = CHOOSE f : Eq(f)  BY DEF Walk
<1> HIDE DEF P, step
<1>5. PICK f \in [0..MaxKey -> From] : f[0] = d /\ \A t \in 1..MaxKey : f[t] = step[t][f[t - 1]]
  <2>1. Loops(From, d, MaxKey, step) # {}  BY <1>2, LoopExists
  <2> QED  BY <2>1 DEF Loops
<1>6. \A t \in 0..MaxKey : t = 0 \/ (t \in 1..MaxKey /\ t # 0 /\ t - 1 \in 0..MaxKey)  OBVIOUS
<1>7. \A t \in 0..MaxKey : f[t] = IF t = 0 THEN d ELSE P(f[t - 1])  BY <1>3, <1>5, <1>6
<1>8. Eq(f)  BY <1>7
<1> HIDE DEF Eq
<1>9. Eq(w)  BY <1>4, <1>8
<1>10. w = [t \in 0..MaxKey |-> IF t = 0 THEN d ELSE P(w[t - 1])]  BY <1>9 DEF Eq
<1>11. 0 \in 0..MaxKey /\ \A t \in 1..MaxKey : t \in 0..MaxKey /\ t # 0  OBVIOUS
<1>12. w[0] = d /\ \A t \in 1..MaxKey : w[t] = P(w[t - 1])  BY <1>10, <1>11
<1>13. \A t \in 0..MaxKey : w[t] \in From
  <2> DEFINE S == {t \in 0..MaxKey : w[t] \in From}
  <2>1. 0 \in S  BY <1>11, <1>12
  <2>2. \A t \in 1..MaxKey : t - 1 \in S => t \in S  BY <1>1, <1>11, <1>12 DEF P
  <2> HIDE DEF S
  <2>3. 0..MaxKey \subseteq S  BY <2>1, <2>2, TurnByTurn
  <2> QED  BY <2>3 DEF S
<1>14. w \in [0..MaxKey -> From]  BY <1>10, <1>13
<1> QED  BY <1>12, <1>14 DEF P

(* Where the walk ends. *)
LEMMA WalkEnds ==
  ASSUME NEW L \in ListRecord, NEW k \in Key, NEW epos, NEW i \in Level, OnChain(L, i),
         NEW d \in At(L, i) \cup {Header}, NEW e, e = Walk(L, k, epos, i, d)[MaxKey]
  PROVE  /\ e \in At(L, i) \cup {Header}
         /\ ~Passes(L, k, epos, i, e)
         /\ d < k => e < k
<1> DEFINE w == Walk(L, k, epos, i, d)
           N == At(L, i)
           nx == L.next[i]
           Stays(x) == ~Passes(L, k, epos, i, x)
<1>0. d \in From /\ N \in SUBSET Key /\ \A x \in N : x \in From  BY DEF At, From
<1>1. /\ w \in [0..MaxKey -> From] /\ w[0] = d
      /\ \A t \in 1..MaxKey : w[t] = Passed(L, k, epos, i, w[t - 1])
  BY <1>0, WalkIs
<1>2. e = w[MaxKey]  OBVIOUS
<1> HIDE DEF w
<1>3. \A t \in 1..MaxKey : w[t] = IF Stays(w[t - 1]) THEN w[t - 1] ELSE nx[w[t - 1]]
  BY <1>1 DEF Passed, Passes
<1>4. \A x \in N \cup {Header} : nx[x] \in N \cup {Nil} /\ (~Stays(x) => nx[x] \in N /\ nx[x] < k)
  BY <1>0, Names DEF OnChain, Chain, Passes
<1>5. \A t \in 0..MaxKey : w[t] \in N \cup {Header} /\ (d < k => w[t] < k)
  <2> DEFINE S == {t \in 0..MaxKey : w[t] \in N \cup {Header} /\ (d < k => w[t] < k)}
  <2>1. 0 \in S  BY <1>1
  <2>2. \A t \in 1..MaxKey : t - 1 \in S => t \in S  BY <1>3, <1>4
  <2> HIDE DEF S
  <2>3. 0..MaxKey \subseteq S  BY <2>1, <2>2, TurnByTurn
  <2> QED  BY <2>3 DEF S
<1>6. MaxKey \in 0..MaxKey  OBVIOUS
<1>7. Stays(e)
  <2> SUFFICES ASSUME ~Stays(e) PROVE FALSE  OBVIOUS
  <2> HIDE DEF nx, N
  <2>1. \A t \in 0..MaxKey : ~Stays(w[t])
    <3> DEFINE S == {t \in 0..MaxKey : ~Stays(w[MaxKey - t])}
    <3> HIDE DEF Stays
    <3>1. 0 \in S  BY <1>2
    <3>2. ASSUME NEW t \in 1..MaxKey, t - 1 \in S PROVE t \in S
      <4>1. MaxKey - t + 1 \in 1..MaxKey /\ (MaxKey - t + 1) - 1 = MaxKey - t
            /\ MaxKey - (t - 1) = MaxKey - t + 1  OBVIOUS
      <4>2. ~Stays(w[MaxKey - t + 1])  BY <3>2, <4>1
      <4> DEFINE u == MaxKey - t
      <4>3. u + 1 \in 1..MaxKey /\ (u + 1) - 1 = u  BY <4>1
      <4>4. ~Stays(w[u + 1])  BY <4>2
      <4>5. u \in 0..MaxKey  OBVIOUS
      <4> HIDE DEF u
      <4>6. ~Stays(w[u])  BY <1>3, <4>3, <4>4
      <4> QED  BY <4>6 DEF u
    <3> HIDE DEF S
    <3>3. 0..MaxKey \subseteq S  BY <3>1, <3>2, TurnByTurn
    <3>4. ASSUME NEW t \in 0..MaxKey PROVE ~Stays(w[t])
      <4>1. MaxKey - t \in S  BY <3>3
      <4>2. MaxKey - (MaxKey - t) = t  OBVIOUS
      <4> QED  BY <4>1, <4>2 DEF S
    <3> QED  BY <3>4
  <2> DEFINE M == 1..MaxKey + 1
             g == [t \in M |-> nx[w[t - 1]]]
  <2>2. \A t \in M : t - 1 \in 0..MaxKey  OBVIOUS
  <2>3. \A t \in M : nx[w[t - 1]] \in N  BY <2>1, <2>2, <1>4, <1>5
  <2>4. g \in [M -> N]  BY <2>3
  <2>5. \A t \in 1..MaxKey : w[t] = nx[w[t - 1]]
    <3>1. \A t \in 1..MaxKey : t - 1 \in 0..MaxKey  OBVIOUS
    <3> QED  BY <3>1, <1>3, <2>1
  <2>6. \A t \in 1..MaxKey : g[t] = w[t] /\ g[t + 1] = nx[g[t]]
    <3> TAKE t \in 1..MaxKey
    <3>1. t \in M /\ t + 1 \in M /\ (t + 1) - 1 = t  OBVIOUS
    <3> QED  BY <3>1, <2>5
  <2>7. IsFiniteSet(M) /\ Cardinality(M) = MaxKey + 1
    <3>1. IsFiniteSet(1..MaxKey + 1)
          /\ Cardinality(1..MaxKey + 1) = (IF 1 > MaxKey + 1 THEN 0 ELSE (MaxKey + 1) - 1 + 1)
      BY FS_Interval
    <3>2. (IF 1 > MaxKey + 1 THEN 0 ELSE (MaxKey + 1) - 1 + 1) = MaxKey + 1  OBVIOUS
    <3> QED  BY <3>1, <3>2
  <2>8. IsFiniteSet(N) /\ Cardinality(N) <= MaxKey /\ Cardinality(N) \in Nat
    BY <1>0, KeysFinite, FS_Subset, FS_CardinalityType
  <2>9. Cardinality(N) < Cardinality(M)  BY <2>7, <2>8
  <2>10. \A t \in M : t \in Int  OBVIOUS
  <2> HIDE DEF g
  <2>11. PICK x \in M, y \in M : x # y /\ g[x] = g[y]
    <3> HIDE DEF M
    <3> QED  BY <2>4, <2>7, <2>8, <2>9, FS_PigeonHole
  <2>12. PICK a \in M, b \in M : a < b /\ g[a] = g[b]
    <3>1. x < y \/ y < x  BY <2>11, <2>10
    <3> QED  BY <3>1, <2>11
  <2> DEFINE C == {g[t] : t \in a..b - 1}
  <2>13. g[a] \in C  BY <2>12, <2>10
  <2>14. ASSUME NEW t \in a..b - 1 PROVE g[t] \in N /\ nx[g[t]] \in C
    <3>1. t \in 1..MaxKey /\ t \in M  BY <2>12
    <3>2. nx[g[t]] = g[t + 1]  BY <3>1, <2>6
    <3>3. g[t + 1] \in C
      <4>1. CASE t + 1 = b  BY <4>1, <2>12, <2>13
      <4>2. CASE t + 1 # b
        <5>1. t + 1 \in a..b - 1  BY <4>2, <3>1, <2>12
        <5> QED  BY <5>1
      <4> QED  BY <4>1, <4>2
    <3>4. g[t] \in N  BY <3>1, <2>4
    <3> HIDE DEF C
    <3> QED  BY <3>2, <3>3, <3>4
  <2>15. C \in SUBSET N /\ \A n \in C : nx[n] \in C  BY <2>14
  <2> HIDE DEF C
  <2>16. C = {}  BY <2>15 DEF OnChain, Chain, N, nx
  <2> QED  BY <2>13, <2>16
<1> QED  BY <1>2, <1>5, <1>6, <1>7

-----------------------------------------------------------------------------
(***************************************************************************)
(* find_() on all levels.  An entry of the cache that somebody wrote is a  *)
(* node of its level, or the header.                                       *)
(***************************************************************************)
CacheOK(L, cache) ==
  /\ cache \in [Level -> From \cup {Unset}]
  /\ \A i \in Level : cache[i] # Unset => cache[i] \in At(L, i) \cup {Header}

SearchState == [at : From, hit : Key \cup {Nil}, cache : [Level -> From \cup {Unset}]]

HitIs(L, k, s) == s.hit \in {Nil, k} /\ (s.hit = k => k \in Nodes(L))

Descents(L, k, epos, d, h, cache) ==
  {r \in [0..h -> SearchState] :
     /\ r[0] = [at |-> d, hit |-> Nil, cache |-> cache]
     /\ \A t \in 1..h : r[t] = OnLevel(L, k, epos, h - t + 1, r[t - 1])}

(* The turns of the search, level by level. *)
LEMMA DescendIs ==
  ASSUME NEW L \in ListRecord, NEW k \in Key, NEW epos, NEW d \in From, NEW h \in Level,
         NEW cache \in [Level -> From \cup {Unset}]
  PROVE  Descend(L, k, epos, d, h, cache) \in Descents(L, k, epos, d, h, cache)
<1> DEFINE a == [at |-> d, hit |-> Nil, cache |-> cache]
           P(t, x) == OnLevel(L, k, epos, h - t + 1, x)
           Eq(f) == f = [t \in 0..h |-> IF t = 0 THEN a ELSE P(t, f[t - 1])]
           step == [t \in 1..h |-> [x \in SearchState |-> P(t, x)]]
           r == Descend(L, k, epos, d, h, cache)
<1>1. \A t \in 1..h, x \in SearchState : P(t, x) \in SearchState
  <2> TAKE t \in 1..h, x \in SearchState
  <2> DEFINE i == h - t + 1
             e == Walk(L, k, epos, i, x.at)[MaxKey]
  <2>1. i \in Level  BY DEF Level
  <2>2. x.at \in From /\ x.cache \in [Level -> From \cup {Unset}]  BY DEF SearchState
  <2>3. MaxKey \in 0..MaxKey  OBVIOUS
  <2>4. e \in From
    <3> HIDE DEF i
    <3>1. Walk(L, k, epos, i, x.at) \in [0..MaxKey -> From]  BY <2>1, <2>2, WalkIs
    <3> QED  BY <3>1, <2>3
  <2>5. P(t, x) = IF x.hit # Nil THEN x
                  ELSE IF L.next[i][e] \notin {Nil, epos} /\ k = L.next[i][e] THEN [x EXCEPT !.hit = k]
                  ELSE [x EXCEPT !.at = e, !.cache[i] = e]
    BY DEF OnLevel
  <2> HIDE DEF e, i, P
  <2>6. [x EXCEPT !.hit = k] \in SearchState  BY DEF SearchState
  <2>7. [x EXCEPT !.at = e, !.cache[i] = e] \in SearchState  BY <2>1, <2>2, <2>4 DEF SearchState
  <2> QED  BY <2>5, <2>6, <2>7
<1>2. a \in SearchState  BY DEF SearchState
<1>3. step \in [1..h -> [SearchState -> SearchState]]  BY <1>1
<1>4. \A t \in 1..h, x \in SearchState : step[t][x] = P(t, x)  OBVIOUS
<1>5. r = CHOOSE f : Eq(f)  BY DEF Descend
<1>6. h \in Nat  BY DEF Level
<1> HIDE DEF P, step, a, r
<1>7. PICK f \in [0..h -> SearchState] : f[0] = a /\ \A t \in 1..h : f[t] = step[t][f[t - 1]]
  <2>1. Loops(SearchState, a, h, step) # {}  BY <1>2, <1>3, <1>6, LoopExists
  <2> QED  BY <2>1 DEF Loops
<1>8. \A t \in 0..h : t = 0 \/ (t \in 1..h /\ t # 0 /\ t - 1 \in 0..h)  BY <1>6
<1>9. \A t \in 0..h : f[t] = IF t = 0 THEN a ELSE P(t, f[t - 1])  BY <1>4, <1>7, <1>8
<1>10. Eq(f)  BY <1>9
<1> HIDE DEF Eq
<1>11. Eq(r)  BY <1>5, <1>10
<1>12. r = [t \in 0..h |-> IF t = 0 THEN a ELSE P(t, r[t - 1])]  BY <1>11 DEF Eq
<1>13. 0 \in 0..h /\ \A t \in 1..h : t \in 0..h /\ t # 0  BY <1>6
<1>14. r[0] = a /\ \A t \in 1..h : r[t] = P(t, r[t - 1])  BY <1>12, <1>13
<1>15. \A t \in 0..h : r[t] \in SearchState
  <2> DEFINE S == {t \in 0..h : r[t] \in SearchState}
  <2>1. 0 \in S  BY <1>2, <1>13, <1>14
  <2>2. \A t \in 1..h : t - 1 \in S => t \in S  BY <1>1, <1>13, <1>14 DEF P
  <2> HIDE DEF S
  <2>3. 0..h \subseteq S  BY <1>6, <2>1, <2>2, TurnByTurn
  <2> QED  BY <2>3 DEF S
<1>16. r \in [0..h -> SearchState]  BY <1>12, <1>15
<1> QED  BY <1>14, <1>16 DEF P, a, r, Descents

(* One level of the search. *)
LEMMA LevelSearched ==
  ASSUME NEW L \in ListRecord, NEW k \in Key, NEW epos, NEW i \in Level, OnChain(L, i),
         NEW s \in SearchState, s.at \in At(L, i) \cup {Header}, CacheOK(L, s.cache), HitIs(L, k, s),
         NEW r, r = OnLevel(L, k, epos, i, s)
  PROVE  /\ r.at \in At(L, i) \cup {Header}
         /\ CacheOK(L, r.cache) /\ HitIs(L, k, r)
         /\ \A j \in Level : s.cache[j] # Unset => r.cache[j] # Unset
         /\ r.hit = Nil => /\ s.hit = Nil /\ r.cache[i] = r.at /\ r.cache[i] # Unset
                           /\ L.next[i][r.at] \in {Nil, epos} \/ k < L.next[i][r.at]
                           /\ s.at < k => r.at < k
<1> DEFINE e == Walk(L, k, epos, i, s.at)[MaxKey]
           n == L.next[i][e]
<1>1. e \in At(L, i) \cup {Header} /\ ~Passes(L, k, epos, i, e) /\ (s.at < k => e < k)
  BY WalkEnds
<1>2. r = IF s.hit # Nil THEN s
          ELSE IF n \notin {Nil, epos} /\ k = n THEN [s EXCEPT !.hit = k]
          ELSE [s EXCEPT !.at = e, !.cache[i] = e]
  BY DEF OnLevel
<1> HIDE DEF e
<1>3. n \in At(L, i) \cup {Nil}  BY <1>1 DEF OnChain, Chain
<1>4. e \in From /\ e # Unset  BY <1>1, Names DEF At, From
<1>5. \A m \in At(L, i) : m \in Nodes(L)
  <2>1. i \in Nat /\ i >= 1  BY DEF Level
  <2>2. \A m \in Key : L.height[m] \in Nat  BY DEF ListRecord
  <2> QED  BY <2>1, <2>2 DEF At, Nodes
<1>6. s.cache \in [Level -> From \cup {Unset}]  BY DEF SearchState
<1>7. CASE s.hit # Nil  BY <1>2, <1>7
<1>8. CASE s.hit = Nil /\ n \notin {Nil, epos} /\ k = n
  <2>1. r = [s EXCEPT !.hit = k]  BY <1>2, <1>8
  <2>2. r.hit = k /\ r.at = s.at /\ r.cache = s.cache  BY <2>1 DEF SearchState
  <2>3. k \in Nodes(L) /\ k # Nil  BY <1>3, <1>5, <1>8
  <2> QED  BY <2>2, <2>3 DEF HitIs
<1>9. CASE s.hit = Nil /\ ~(n \notin {Nil, epos} /\ k = n)
  <2>1. r = [s EXCEPT !.at = e, !.cache[i] = e]  BY <1>2, <1>9
  <2>2. r.hit = Nil /\ r.at = e /\ r.cache = [s.cache EXCEPT ![i] = e]  BY <1>9, <2>1 DEF SearchState
  <2>3. CacheOK(L, r.cache)  BY <2>2, <1>1, <1>4, <1>6 DEF CacheOK
  <2>4. n \in {Nil, epos} \/ k < n
    <3>1. n \in Nat /\ k \in Nat  BY <1>3, Names DEF At
    <3> QED  BY <3>1, <1>1, <1>9 DEF Passes
  <2>5. k # Nil  BY Names
  <2>6. HitIs(L, k, r)  BY <2>2, <2>5 DEF HitIs
  <2>7. r.cache[i] = e /\ \A j \in Level : s.cache[j] # Unset => r.cache[j] # Unset  BY <2>2, <1>4, <1>6
  <2> QED  BY <2>2, <2>3, <2>4, <2>6, <2>7, <1>1, <1>4, <1>9
<1> QED  BY <1>7, <1>8, <1>9

(* All levels of the search from h down. *)
LEMMA Descent ==
  ASSUME NEW L \in ListRecord, \A i \in Level : OnChain(L, i), NEW k \in Key, NEW epos,
         NEW h \in Level, NEW d \in At(L, h) \cup {Header}, NEW cache, CacheOK(L, cache),
         NEW r, r = Descend(L, k, epos, d, h, cache)[h]
  PROVE  /\ CacheOK(L, r.cache) /\ HitIs(L, k, r)
         /\ \A j \in Level : cache[j] # Unset => r.cache[j] # Unset
         /\ r.hit = Nil => \A j \in 1..h : r.cache[j] # Unset
         /\ r.hit = Nil => L.next[1][r.cache[1]] \in {Nil, epos} \/ k < L.next[1][r.cache[1]]
         /\ r.hit = Nil /\ d < k => r.cache[1] < k
<1> DEFINE f == Descend(L, k, epos, d, h, cache)
           Good(t) ==
             /\ \A i \in 1..h : i <= h - t + 1 => f[t].at \in At(L, i) \cup {Header}
             /\ CacheOK(L, f[t].cache) /\ HitIs(L, k, f[t])
             /\ \A j \in Level : cache[j] # Unset => f[t].cache[j] # Unset
             /\ f[t].hit = Nil => /\ \A j \in 1..h : j > h - t => f[t].cache[j] # Unset
                                  /\ d < k => f[t].at < k
             /\ t >= 1 /\ f[t].hit = Nil =>
                  LET i == h - t + 1 IN
                  /\ f[t].cache[i] = f[t].at
                  /\ L.next[i][f[t].at] \in {Nil, epos} \/ k < L.next[i][f[t].at]
           S == {t \in 0..h : Good(t)}
<1>1. h \in Nat /\ h >= 1 /\ h <= MaxHeight  BY DEF Level
<1>2. d \in From /\ cache \in [Level -> From \cup {Unset}]  BY DEF At, From, CacheOK
<1>3. /\ f \in [0..h -> SearchState] /\ f[0] = [at |-> d, hit |-> Nil, cache |-> cache]
      /\ \A t \in 1..h : f[t] = OnLevel(L, k, epos, h - t + 1, f[t - 1])
  <2>1. f \in Descents(L, k, epos, d, h, cache)  BY <1>2, DescendIs
  <2> HIDE DEF f
  <2> QED  BY <2>1 DEF Descents
<1>4. r = f[h]  OBVIOUS
<1> HIDE DEF f
<1>5. \A n \in Key : L.height[n] \in Nat  BY DEF ListRecord
<1>6. 0 \in S
  <2>1. f[0].at = d /\ f[0].hit = Nil /\ f[0].cache = cache  BY <1>3
  <2>2. \A i \in 1..h : d \in At(L, i) \cup {Header}  BY <1>1, <1>5 DEF At
  <2>3. HitIs(L, k, f[0])  BY <2>1, Names DEF HitIs
  <2> QED  BY <2>1, <2>2, <2>3, <1>1
<1>7. ASSUME NEW t \in 1..h, t - 1 \in S PROVE t \in S
  <2> DEFINE i == h - t + 1
             s == f[t - 1]
  <2>1. i \in Level /\ i \in 1..h /\ i \in Nat  BY <1>1 DEF Level
  <2>2. s \in SearchState /\ f[t] = OnLevel(L, k, epos, i, s) /\ t - 1 \in 0..h
    BY <1>1, <1>3
  <2>3. Good(t - 1)  BY <1>7
  <2>4. h - (t - 1) + 1 = i + 1 /\ h - (t - 1) = i /\ h - t = i - 1  BY <1>1
  <2>5. s.at \in At(L, i) \cup {Header}  BY <2>1, <2>3, <2>4
  <2> HIDE DEF i, s
  <2>6. /\ f[t].at \in At(L, i) \cup {Header}
        /\ CacheOK(L, f[t].cache) /\ HitIs(L, k, f[t])
        /\ \A j \in Level : s.cache[j] # Unset => f[t].cache[j] # Unset
        /\ f[t].hit = Nil => /\ s.hit = Nil /\ f[t].cache[i] = f[t].at /\ f[t].cache[i] # Unset
                             /\ L.next[i][f[t].at] \in {Nil, epos} \/ k < L.next[i][f[t].at]
                             /\ s.at < k => f[t].at < k
    <3>1. CacheOK(L, s.cache) /\ HitIs(L, k, s)  BY <2>3 DEF s
    <3>2. OnChain(L, i)  BY <2>1
    <3> QED  BY <2>1, <2>2, <2>5, <3>1, <3>2, LevelSearched
  <2>7. \A j \in 1..h : j <= i => f[t].at \in At(L, j) \cup {Header}
    BY <1>1, <1>5, <2>1, <2>6 DEF At
  <2>8. \A j \in Level : cache[j] # Unset => f[t].cache[j] # Unset  BY <2>3, <2>6 DEF s
  <2>9. ASSUME f[t].hit = Nil
        PROVE  (\A j \in 1..h : j > i - 1 => f[t].cache[j] # Unset) /\ (d < k => f[t].at < k)
    <3>1. s.hit = Nil  BY <2>6, <2>9
    <3>2. (\A j \in 1..h : j > i => s.cache[j] # Unset) /\ (d < k => s.at < k)
      BY <2>3, <2>4, <3>1 DEF s
    <3>3. \A j \in 1..h : j > i - 1 => j = i \/ j > i  BY <2>1
    <3>4. \A j \in 1..h : j \in Level  BY <1>1 DEF Level
    <3> QED  BY <2>6, <2>9, <3>2, <3>3, <3>4
  <2>10. Good(t)
    <3>1. i = h - t + 1  BY DEF i
    <3> HIDE DEF i
    <3> QED  BY <2>4, <2>6, <2>7, <2>8, <2>9, <3>1
  <2>11. t \in 0..h  BY <1>1
  <2> HIDE DEF Good
  <2> QED  BY <2>10, <2>11
<1>8. h \in S
  <2> HIDE DEF S
  <2>1. 0..h \subseteq S  BY <1>1, <1>6, <1>7, TurnByTurn
  <2> QED  BY <2>1, <1>1
<1>9. Good(h)  BY <1>8
<1>10. h - h + 1 = 1 /\ h - h = 0 /\ \A j \in 1..h : j > 0  BY <1>1
<1> QED  BY <1>1, <1>4, <1>9, <1>10

-----------------------------------------------------------------------------
(***************************************************************************)
(* A list: every level is linked, the lowest one ascends, the current      *)
(* height is that of the highest node.                                     *)
(***************************************************************************)
ListOK(L) ==
  /\ L \in ListRecord
  /\ \A i \in Level : OnChain(L, i)
  /\ Ascending(At(L, 1), L.next[1])
  /\ \A n \in Key : L.height[n] <= L.cur
  /\ L.cur = 1 \/ \E n \in Key : L.height[n] = L.cur
  /\ L.num = Cardinality(At(L, 1))

(* The lowest level has all nodes, in order. *)
LEMMA Bottom ==
  ASSUME NEW L, ListOK(L)
  PROVE  /\ At(L, 1) = Nodes(L) /\ Nodes(L) \subseteq Key /\ 1 \in Level /\ L.cur \in Level
         /\ \A n \in Nodes(L) \cup {Header} :
              L.next[1][n] \in Nodes(L) \cup {Nil} /\ n < L.next[1][n] /\ n \in Nat /\ L.next[1][n] \in Nat
         /\ \A n \in Nodes(L) : /\ L.prev[1][n] \in Nodes(L) \cup {Header}
                                /\ L.next[1][L.prev[1][n]] = n /\ L.prev[1][n] < n
         /\ \A n \in Nodes(L) \cup {Header}, m \in Nodes(L) : n < m => L.next[1][n] <= m
         /\ \A n \in Nodes(L) \cup {Header} : L.next[1][n] # Nil => L.prev[1][L.next[1][n]] = n
<1>1. \A n \in Key : L.height[n] \in Nat  BY DEF ListOK, ListRecord
<1>2. At(L, 1) = Nodes(L) /\ Nodes(L) \subseteq Key  BY <1>1 DEF At, Nodes
<1>3. 1 \in Level /\ L.cur \in Level  BY DEF Level, ListOK, ListRecord
<1>4. Chain(Nodes(L), L.next[1], L.prev[1]) /\ Ascending(Nodes(L), L.next[1])
  BY <1>2, <1>3 DEF ListOK, OnChain
<1>5. \A n \in Nodes(L) \cup {Header} : L.next[1][n] \in Nodes(L) \cup {Nil} /\ n < L.next[1][n]
  BY <1>4 DEF Chain, Ascending
<1>6. \A n \in Nodes(L) : n \in Nat  BY <1>2, Names
<1>7. Header \in Nat /\ Nil \in Nat  BY Names
<1>8. \A n \in Nodes(L) \cup {Header} : n \in Nat /\ L.next[1][n] \in Nat  BY <1>5, <1>6, <1>7
<1>9. \A n \in Nodes(L) : L.prev[1][n] \in Nodes(L) \cup {Header} /\ L.next[1][L.prev[1][n]] = n
  BY <1>4 DEF Chain
<1>10. \A n \in Nodes(L) : L.prev[1][n] < n  BY <1>5, <1>9
<1>11. \A n \in Nodes(L) \cup {Header}, m \in Nodes(L) : n < m => L.next[1][n] <= m
  BY <1>2, <1>4, Consecutive
<1>12. \A n \in Nodes(L) \cup {Header} : L.next[1][n] # Nil => L.prev[1][L.next[1][n]] = n
  BY <1>4 DEF Chain
<1> QED  BY <1>2, <1>3, <1>5, <1>8, <1>9, <1>10, <1>11, <1>12

(* What find_() leaves behind. *)
Searched(L, k, bpos, epos, cache, r) ==
  /\ CacheOK(L, r.cache) /\ HitIs(L, k, r)
  /\ \A j \in Level : cache[j] # Unset => r.cache[j] # Unset
  /\ r.hit = Nil /\ bpos = Nil => \A j \in 1..L.cur : r.cache[j] # Unset
  /\ r.hit = Nil => /\ r.cache[1] \in Nodes(L) \cup {Header}
                    /\ L.next[1][r.cache[1]] \in {Nil, epos} \/ k < L.next[1][r.cache[1]]
  /\ r.hit = Nil /\ (bpos = Nil \/ bpos < k) => r.cache[1] < k

(* A search from the header, or from before the position bpos. *)
LEMMA Search ==
  ASSUME NEW L, ListOK(L), NEW k \in Key, NEW bpos \in Nodes(L) \cup {Nil}, NEW epos,
         NEW cache, CacheOK(L, cache), NEW r, r = FindIn(L, k, bpos, epos, cache)
  PROVE  Searched(L, k, bpos, epos, cache, r)
<1> DEFINE d == IF bpos = Nil THEN Header ELSE L.prev[1][bpos]
           h == IF bpos = Nil THEN L.cur ELSE HeightOf(L, d)
<1>1. L \in ListRecord /\ \A i \in Level : OnChain(L, i)  BY DEF ListOK
<1>2. /\ At(L, 1) = Nodes(L) /\ Nodes(L) \subseteq Key /\ 1 \in Level /\ L.cur \in Level
      /\ \A n \in Nodes(L) : L.prev[1][n] \in Nodes(L) \cup {Header} /\ L.prev[1][n] < n
  BY Bottom
<1>3. h \in Level /\ d \in At(L, h) \cup {Header}
  <2>1. CASE bpos = Nil  BY <2>1, <1>2
  <2>2. CASE bpos # Nil /\ d = Header
    <3>1. MaxHeight \in Level  BY DEF Level
    <3> QED  BY <2>2, <3>1 DEF HeightOf
  <2>3. CASE bpos # Nil /\ d # Header
    <3>1. d \in Nodes(L) /\ h = L.height[d]  BY <2>3, <1>2 DEF HeightOf
    <3> HIDE DEF d, h
    <3>2. L.height[d] \in 0..MaxHeight /\ L.height[d] # 0 /\ d \in Key  BY <3>1, <1>1 DEF ListRecord, Nodes
    <3>3. h \in Level /\ L.height[d] >= h  BY <3>1, <3>2 DEF Level
    <3> QED  BY <3>2, <3>3 DEF At
  <2> QED  BY <2>1, <2>2, <2>3
<1>4. bpos = Nil \/ bpos < k => d < k
  <2>1. CASE bpos = Nil  BY <2>1, Names
  <2>2. CASE bpos # Nil
    <3>1. d < bpos /\ bpos \in Nat /\ k \in Nat /\ d \in Nat
      <4>1. d = L.prev[1][bpos] /\ bpos \in Nodes(L)  BY <2>2
      <4> HIDE DEF d
      <4>2. bpos \in Nat /\ k \in Nat  BY <4>1, <1>2, Names
      <4>3. d \in Nodes(L) \cup {Header} /\ d < bpos  BY <4>1, <1>2
      <4>4. d \in Nat
        <5>1. \A n \in Nodes(L) : n \in Nat  BY <1>2, Names
        <5> QED  BY <4>3, <5>1, Names
      <4> QED  BY <4>2, <4>3, <4>4
    <3> QED  BY <3>1, <2>2
  <2> QED  BY <2>1, <2>2
<1>5. bpos = Nil => h = L.cur  OBVIOUS
<1>6. r = Descend(L, k, epos, d, h, cache)[h]  BY DEF FindIn
<1> HIDE DEF d, h
<1>7. /\ CacheOK(L, r.cache) /\ HitIs(L, k, r)
      /\ \A j \in Level : cache[j] # Unset => r.cache[j] # Unset
      /\ r.hit = Nil => \A j \in 1..h : r.cache[j] # Unset
      /\ r.hit = Nil => L.next[1][r.cache[1]] \in {Nil, epos} \/ k < L.next[1][r.cache[1]]
      /\ r.hit = Nil /\ d < k => r.cache[1] < k
  BY <1>1, <1>3, <1>6, Descent
<1>8. 1 \in 1..h  BY <1>3 DEF Level
<1>9. r.hit = Nil => r.cache[1] \in Nodes(L) \cup {Header}
  BY <1>2, <1>7, <1>8 DEF CacheOK
<1> QED  BY <1>4, <1>5, <1>7, <1>9 DEF Searched

(* A cache nobody wrote. *)
LEMMA NothingCached == ASSUME NEW L PROVE CacheOK(L, NoCache)
  BY DEF CacheOK, NoCache

(* What comes next after a place that a key is behind and before. *)
LEMMA NextIs ==
  ASSUME NEW S \in SUBSET Key, NEW n \in Key \cup {Nil},
         n # Nil => n \in S, \A m \in S : n <= m
  PROVE  NextOf(S) = n
<1>1. \A m \in Key : m \in Nat /\ m < Nil  BY Names
<1>2. CASE n = Nil
  <2>1. S = {}
    <3>1. \A m \in S : FALSE  BY <1>1, <1>2, Names
    <3> QED  BY <3>1
  <2> QED  BY <2>1, <1>2 DEF NextOf
<1>3. CASE n # Nil
  <2>1. n \in S /\ \A m \in S : (\A x \in S : m <= x) => m = n  BY <1>1, <1>3
  <2> QED  BY <2>1 DEF NextOf
<1> QED  BY <1>2, <1>3

(* A key between a node and the next is not there. *)
LEMMA NotThere ==
  ASSUME NEW L, ListOK(L), NEW k \in Key, NEW d \in Nodes(L) \cup {Header}, d < k, k < L.next[1][d]
  PROVE  /\ k \notin Nodes(L)
         /\ \A m \in Nodes(L) : m >= k => L.next[1][d] <= m
<1>1. /\ \A n \in Nodes(L) \cup {Header}, m \in Nodes(L) : n < m => L.next[1][n] <= m
      /\ Nodes(L) \subseteq Key /\ d \in Nat /\ L.next[1][d] \in Nat
  BY Bottom
<1>2. \A m \in Nodes(L) : m \in Nat  BY <1>1, Names
<1>3. k \in Nat  BY Names
<1>4. \A m \in Nodes(L) : m >= k => d < m  BY <1>1, <1>2, <1>3
<1> QED  BY <1>1, <1>2, <1>3, <1>4

(* A search from the header finds a key that is there, and its place otherwise. *)
LEMMA FindFinds ==
  ASSUME NEW L, ListOK(L), NEW k \in Key, NEW r, r = Find(L, k)
  PROVE  /\ CacheOK(L, r.cache)
         /\ r.hit = IF k \in Nodes(L) THEN k ELSE Nil
         /\ k \notin Nodes(L) => /\ r.cache[1] \in Nodes(L) \cup {Header}
                                 /\ r.cache[1] < k /\ k < L.next[1][r.cache[1]]
<1>1. CacheOK(L, NoCache) /\ r = FindIn(L, k, Nil, Nil, NoCache)  BY NothingCached DEF Find
<1>2. /\ CacheOK(L, r.cache) /\ HitIs(L, k, r)
      /\ r.hit = Nil => /\ r.cache[1] \in Nodes(L) \cup {Header} /\ r.cache[1] < k
                        /\ L.next[1][r.cache[1]] = Nil \/ k < L.next[1][r.cache[1]]
  <2>1. Searched(L, k, Nil, Nil, NoCache, r)  BY <1>1, Search
  <2> QED  BY <2>1 DEF Searched
<1>3. k < Nil /\ k # Nil  BY Names
<1>4. r.hit = Nil => k < L.next[1][r.cache[1]] /\ k \notin Nodes(L)
  <2> SUFFICES ASSUME r.hit = Nil PROVE k < L.next[1][r.cache[1]] /\ k \notin Nodes(L)  OBVIOUS
  <2>1. k < L.next[1][r.cache[1]]  BY <1>2, <1>3
  <2> QED  BY <2>1, <1>2, NotThere
<1> QED  BY <1>2, <1>3, <1>4 DEF HitIs

(* Lists are searched right. *)
LEMMA SearchesRight ==
  ASSUME NEW L, ListOK(L), NEW k \in Key
  PROVE  LET N == Nodes(L) IN
         /\ Find(L, k).hit = IF k \in N THEN k ELSE Nil
         /\ LowerBound(L, k) = NextOf({n \in N : n >= k})
         /\ UpperBound(L, k) = NextOf({n \in N : n > k})
<1> DEFINE N == Nodes(L)
           f == Find(L, k)
           c == f.cache[1]
<1>0. /\ N \subseteq Key /\ \A n \in N \cup {Header} : L.next[1][n] \in N \cup {Nil} /\ n < L.next[1][n]
      /\ \A n \in N \cup {Header}, m \in N : n < m => L.next[1][n] <= m
  BY Bottom
<1>1. \A n \in Key : n \in Nat  BY Names
<1>2. /\ f.hit = IF k \in N THEN k ELSE Nil
      /\ k \notin N => c \in N \cup {Header} /\ c < k /\ k < L.next[1][c]
  BY FindFinds
<1>3. LowerBound(L, k) = IF f.hit # Nil THEN f.hit ELSE L.next[1][c]  BY DEF LowerBound
<1>4. UpperBound(L, k) = IF f.hit # Nil THEN L.next[1][f.hit] ELSE L.next[1][c]  BY DEF UpperBound
<1>5. k # Nil  BY Names
<1> HIDE DEF f, N
<1>6. CASE k \in N
  <2>1. LowerBound(L, k) = k /\ UpperBound(L, k) = L.next[1][k]  BY <1>2, <1>3, <1>4, <1>5, <1>6
  <2>2. NextOf({n \in N : n >= k}) = k
    <3> DEFINE S == {n \in N : n >= k}
    <3>1. S \in SUBSET Key /\ k \in S /\ \A m \in S : k <= m  BY <1>0, <1>1, <1>6
    <3> HIDE DEF S
    <3>2. NextOf(S) = k  BY <3>1, NextIs
    <3> QED  BY <3>2 DEF S
  <2>3. NextOf({n \in N : n > k}) = L.next[1][k]
    <3> DEFINE S == {n \in N : n > k}
               x == L.next[1][k]
    <3>1. x \in N \cup {Nil} /\ k < x /\ \A m \in S : x <= m  BY <1>0, <1>1, <1>6
    <3>2. S \in SUBSET Key /\ x \in Key \cup {Nil} /\ (x # Nil => x \in S)
      <4>1. x # Nil => x \in N /\ x \in Nat /\ k \in Nat  BY <3>1, <1>0, <1>1
      <4> HIDE DEF x
      <4> QED  BY <3>1, <4>1, <1>0
    <3> HIDE DEF S, x
    <3>3. NextOf(S) = x  BY <3>1, <3>2, NextIs
    <3> QED  BY <3>3 DEF S, x
  <2> QED  BY <2>1, <2>2, <2>3, <1>2, <1>6 DEF f, N
<1>7. CASE k \notin N
  <2> DEFINE x == L.next[1][c]
             S == {n \in N : n >= k}
  <2>1. c \in N \cup {Header} /\ c < k /\ k < x  BY <1>2, <1>7
  <2>2. x \in N \cup {Nil}  BY <2>1, <1>0
  <2>3. \A m \in N : m >= k => x <= m  BY <2>1, NotThere DEF N
  <2>4. S \in SUBSET Key /\ x \in Key \cup {Nil} /\ (x # Nil => x \in S) /\ \A m \in S : x <= m
    <3>1. x # Nil => x \in N /\ x \in Nat /\ k \in Nat  BY <2>2, <1>0, <1>1
    <3>2. x # Nil => x >= k  BY <2>1, <3>1
    <3> HIDE DEF x
    <3> QED  BY <2>2, <2>3, <3>1, <3>2, <1>0
  <2>5. NextOf(S) = x
    <3> HIDE DEF S, x
    <3> QED  BY <2>4, NextIs
  <2>6. {n \in N : n > k} = S  BY <1>0, <1>1, <1>7
  <2>7. LowerBound(L, k) = x /\ UpperBound(L, k) = x  BY <1>2, <1>3, <1>4, <1>7
  <2> QED  BY <2>5, <2>6, <2>7, <1>2, <1>7 DEF f, N
<1> QED  BY <1>6, <1>7

-----------------------------------------------------------------------------
(***************************************************************************)
(* The last node is the tail, which swap() does not keep.                  *)
(***************************************************************************)
TailOK(L) == L.tailHere /\ (Nodes(L) # {} => L.tail \in Nodes(L) /\ L.next[1][L.tail] = Nil)

(***************************************************************************)
(* insert_() behind places found on every level.                           *)
(***************************************************************************)
LEMMA Linked ==
  ASSUME NEW L, ListOK(L), NEW k \in Key, k \notin Nodes(L), NEW h \in Level,
         NEW cache, CacheOK(L, cache), ~LinksWild(L, cache, h),
         NEW c, c = Filled(L, cache, h), cache[1] < k, k < L.next[1][cache[1]],
         NEW M, M = Link(L, k, cache, h)
  PROVE  /\ ListOK(M) /\ Nodes(M) = Nodes(L) \cup {k} /\ CacheOK(M, c)
         /\ TailOK(L) => TailOK(M)
         /\ (\A j \in 1..L.cur : cache[j] # Unset) => \A j \in 1..M.cur : c[j] # Unset
<1>1. /\ L \in ListRecord /\ \A i \in Level : OnChain(L, i)
      /\ Ascending(At(L, 1), L.next[1]) /\ \A n \in Key : L.height[n] <= L.cur
      /\ L.cur = 1 \/ \E n \in Key : L.height[n] = L.cur
      /\ L.num = Cardinality(At(L, 1))
  BY DEF ListOK
<1>2. /\ L.next \in [Level -> [From -> Key \cup {Nil}]] /\ L.prev \in [Level -> [Key -> From \cup {Nil}]]
      /\ L.height \in [Key -> 0..MaxHeight] /\ L.cur \in Level /\ L.num \in Nat
      /\ L.tail \in Key \cup {Nil} /\ L.tailHere \in BOOLEAN
  BY <1>1 DEF ListRecord
<1>3. At(L, 1) = Nodes(L) /\ 1 \in Level /\ Nodes(L) \subseteq Key  BY Bottom
<1>4. h \in Nat /\ h >= 1 /\ L.cur \in Nat /\ L.cur >= 1 /\ \A i \in Level : i \in Nat /\ i >= 1
  BY <1>2 DEF Level
<1>5. c = [i \in Level |-> IF L.cur < i /\ i <= h THEN Header ELSE cache[i]]  BY DEF Filled
<1>6. /\ cache \in [Level -> From \cup {Unset}]
      /\ \A i \in Level : cache[i] # Unset => cache[i] \in At(L, i) \cup {Header}
  BY DEF CacheOK
<1>7. c[1] = cache[1]  BY <1>3, <1>4, <1>5
<1>8. \A i \in Level : i <= h => c[i] \in At(L, i) \cup {Header}
  <2>1. \A i \in 1..h : c[i] # Unset  BY DEF LinksWild
  <2>2. \A i \in Level : i <= h => i \in 1..h  BY <1>4
  <2> QED  BY <2>1, <2>2, <1>5, <1>6
<1>9. L.height[k] = 0 /\ \A i \in Level : At(L, i) \in SUBSET Key /\ k \notin At(L, i)
  <2>1. L.height[k] = 0  BY DEF Nodes
  <2>2. \A i \in Level : ~(0 >= i)  BY <1>4
  <2>3. \A i \in Level : k \in At(L, i) => L.height[k] >= i  BY DEF At
  <2> QED  BY <2>1, <2>2, <2>3 DEF At
<1>10. /\ M.next = [i \in Level |-> IF i > h THEN L.next[i]
                     ELSE [L.next[i] EXCEPT ![k] = L.next[i][c[i]], ![c[i]] = k]]
       /\ M.prev = [i \in Level |-> IF i > h THEN L.prev[i]
                     ELSE [BackLink(L.prev[i], L.next[i][c[i]], k) EXCEPT ![k] = c[i]]]
       /\ M.height = [L.height EXCEPT ![k] = h]
       /\ M.cur = IF h > L.cur THEN h ELSE L.cur
       /\ M.num = L.num + 1
       /\ M.tail = TailAfter(L, c, k)
       /\ M.tailHere = (L.tailHere \/ L.next[1][c[1]] = Nil)
       /\ M = [next |-> M.next, prev |-> M.prev, height |-> M.height, cur |-> M.cur,
               num |-> M.num, tail |-> M.tail, tailHere |-> M.tailHere]
  BY DEF Link
<1> HIDE DEF Level
<1>11. M.height[k] = h /\ \A n \in Key \ {k} : M.height[n] = L.height[n]  BY <1>2, <1>10
<1>12. \A i \in Level : At(M, i) = IF i <= h THEN At(L, i) \cup {k} ELSE At(L, i)
  <2> TAKE i \in Level
  <2>1. \A n \in Key : n \in At(M, i) <=> (IF n = k THEN i <= h ELSE n \in At(L, i))
    BY <1>4, <1>11 DEF At
  <2>2. k \notin At(L, i) /\ At(L, i) \subseteq Key  BY <1>9
  <2>3. At(M, i) \subseteq Key  BY DEF At
  <2> QED  BY <2>1, <2>2, <2>3
<1>13. ASSUME NEW i \in Level, i <= h
       PROVE  /\ M.next[i] \in [From -> Key \cup {Nil}] /\ M.prev[i] \in [Key -> From \cup {Nil}]
              /\ M.next[i][k] = L.next[i][c[i]] /\ M.next[i][c[i]] = k
              /\ \A n \in From \ {k, c[i]} : M.next[i][n] = L.next[i][n]
              /\ OnChain(M, i)
  <2>1. /\ At(L, i) \in SUBSET Key /\ k \notin At(L, i) /\ c[i] \in At(L, i) \cup {Header}
        /\ Chain(At(L, i), L.next[i], L.prev[i])
        /\ L.next[i] \in [From -> Key \cup {Nil}] /\ L.prev[i] \in [Key -> From \cup {Nil}]
    BY <1>1, <1>2, <1>8, <1>9, <1>13 DEF OnChain
  <2>2. ~(i > h)  BY <1>4, <1>13
  <2>3. /\ M.next[i] = [L.next[i] EXCEPT ![k] = L.next[i][c[i]], ![c[i]] = k]
        /\ M.prev[i] = [BackLink(L.prev[i], L.next[i][c[i]], k) EXCEPT ![k] = c[i]]
    BY <1>10, <2>2
  <2>4. /\ M.next[i] \in [From -> Key \cup {Nil}] /\ M.prev[i] \in [Key -> From \cup {Nil}]
        /\ M.next[i][k] = L.next[i][c[i]] /\ M.next[i][c[i]] = k
        /\ \A n \in From \ {k, c[i]} : M.next[i][n] = L.next[i][n]
        /\ Chain(At(L, i) \cup {k}, M.next[i], M.prev[i])
    <3> DEFINE N == At(L, i)
               nx == L.next[i]
               pv == L.prev[i]
               nx1 == M.next[i]
               pv1 == M.prev[i]
               x == c[i]
    <3>1. /\ N \in SUBSET Key /\ k \notin N /\ x \in N \cup {Header} /\ Chain(N, nx, pv)
          /\ nx \in [From -> Key \cup {Nil}] /\ pv \in [Key -> From \cup {Nil}]
          /\ nx1 = [nx EXCEPT ![k] = nx[x], ![x] = k]
          /\ pv1 = [BackLink(pv, nx[x], k) EXCEPT ![k] = x]
      BY <2>1, <2>3
    <3> HIDE DEF N, nx, pv, nx1, pv1, x
    <3>2. Spliced(N, nx, k, x, nx1, pv1)  BY <3>1, ChainInsert
    <3> QED  BY <3>2 DEF N, nx, pv, nx1, pv1, x, Spliced
  <2> QED  BY <2>4, <1>12, <1>13 DEF OnChain
<1>14. ASSUME NEW i \in Level, ~(i <= h)
       PROVE  /\ M.next[i] \in [From -> Key \cup {Nil}] /\ M.prev[i] \in [Key -> From \cup {Nil}]
              /\ OnChain(M, i)
  <2>1. i > h  BY <1>4, <1>14
  <2>2. M.next[i] = L.next[i] /\ M.prev[i] = L.prev[i]  BY <1>10, <2>1
  <2> QED  BY <2>2, <1>1, <1>2, <1>12, <1>14 DEF OnChain
<1>15. M \in ListRecord
  <2>1. \A i \in Level : /\ M.next[i] \in [From -> Key \cup {Nil}]
                         /\ M.prev[i] \in [Key -> From \cup {Nil}]
    BY <1>13, <1>14
  <2>2. M.next \in [Level -> [From -> Key \cup {Nil}]]
    <3>1. M.next = [i \in Level |-> M.next[i]]  BY <1>10
    <3> QED  BY <2>1, <3>1
  <2>3. M.prev \in [Level -> [Key -> From \cup {Nil}]]
    <3>1. M.prev = [i \in Level |-> M.prev[i]]  BY <1>10
    <3> QED  BY <2>1, <3>1
  <2>4. h \in 0..MaxHeight  BY DEF Level
  <2>5. M.height \in [Key -> 0..MaxHeight]  BY <1>2, <1>10, <2>4
  <2>6. M.cur \in Level /\ M.num \in Nat /\ M.tail \in Key \cup {Nil} /\ M.tailHere \in BOOLEAN
    BY <1>2, <1>10 DEF TailAfter
  <2> QED  BY <1>10, <2>2, <2>3, <2>5, <2>6 DEF ListRecord
<1>16. Nodes(M) = Nodes(L) \cup {k} /\ At(M, 1) = Nodes(L) \cup {k}
  <2>1. 1 <= h  BY <1>4
  <2>2. At(M, 1) = Nodes(L) \cup {k}  BY <1>3, <1>12, <2>1
  <2>3. \A n \in Key : M.height[n] \in Nat  BY <1>15 DEF ListRecord
  <2>4. Nodes(M) = At(M, 1)  BY <2>3 DEF Nodes, At
  <2> QED  BY <2>2, <2>4
<1>17. /\ M.next[1][k] = L.next[1][c[1]] /\ M.next[1][c[1]] = k
       /\ \A n \in From \ {k, c[1]} : M.next[1][n] = L.next[1][n]
  BY <1>3, <1>4, <1>13
<1>18. c[1] \in Nodes(L) \cup {Header} /\ c[1] < k /\ k < L.next[1][c[1]]
  BY <1>3, <1>4, <1>7, <1>8
<1>19. Ascending(At(M, 1), M.next[1])
  <2> SUFFICES ASSUME NEW n \in (Nodes(L) \cup {k}) \cup {Header} PROVE n < M.next[1][n]
    BY <1>16 DEF Ascending
  <2>1. CASE n = k  BY <2>1, <1>17, <1>18
  <2>2. CASE n = c[1]  BY <2>2, <1>17, <1>18
  <2>3. CASE n \notin {k, c[1]}
    <3>1. n \in From \ {k, c[1]} /\ n \in Nodes(L) \cup {Header}  BY <2>3, <1>3 DEF From
    <3> QED  BY <3>1, <1>1, <1>3, <1>17 DEF Ascending
  <2> QED  BY <2>1, <2>2, <2>3
<1>20. \A n \in Key : M.height[n] <= M.cur
  <2> TAKE n \in Key
  <2>1. L.height[n] \in Nat /\ L.height[n] <= L.cur  BY <1>1, <1>2
  <2> QED  BY <2>1, <1>4, <1>10, <1>11
<1>21. M.cur = 1 \/ \E n \in Key : M.height[n] = M.cur
  <2>1. CASE h > L.cur  BY <2>1, <1>10, <1>11
  <2>2. CASE ~(h > L.cur) /\ L.cur = 1  BY <2>2, <1>10
  <2>3. CASE ~(h > L.cur) /\ L.cur # 1
    <3>1. PICK n \in Key : L.height[n] = L.cur  BY <2>3, <1>1
    <3>2. n # k  BY <3>1, <1>4, <1>9
    <3> QED  BY <3>1, <3>2, <2>3, <1>10, <1>11
  <2> QED  BY <2>1, <2>2, <2>3
<1>22. M.num = Cardinality(At(M, 1))
  <2>1. IsFiniteSet(Nodes(L))  BY <1>3, KeysFinite, FS_Subset
  <2>2. Cardinality(Nodes(L) \cup {k}) = Cardinality(Nodes(L)) + 1  BY <2>1, FS_AddElement
  <2> QED  BY <2>2, <1>1, <1>3, <1>10, <1>16
<1>23. ListOK(M)  BY <1>13, <1>14, <1>15, <1>19, <1>20, <1>21, <1>22 DEF ListOK
<1>24. CacheOK(M, c)
  <2>1. \A i \in Level : c[i] # Unset => c[i] \in At(L, i) \cup {Header}  BY <1>5, <1>6
  <2>2. \A i \in Level : At(L, i) \subseteq At(M, i)  BY <1>12
  <2>3. Header \in From /\ \A i \in Level : c[i] = Header \/ c[i] = cache[i]  BY <1>5 DEF From
  <2>4. c \in [Level -> From \cup {Unset}]
    <3>1. \A i \in Level : c[i] \in From \cup {Unset}  BY <2>3, <1>6
    <3> QED  BY <3>1, <1>5
  <2> QED  BY <2>1, <2>2, <2>4 DEF CacheOK
<1>25. ASSUME TailOK(L) PROVE TailOK(M)
  <2>1. CASE L.next[1][c[1]] = Nil  BY <2>1, <1>10, <1>16, <1>17 DEF TailOK, TailAfter
  <2>2. CASE L.next[1][c[1]] # Nil
    <3>1. L.next[1][c[1]] \in Nodes(L) \cup {Nil}  BY <1>18, Bottom
    <3>2. L.tail \in Nodes(L) /\ L.next[1][L.tail] = Nil /\ L.tailHere  BY <2>2, <3>1, <1>25 DEF TailOK
    <3>3. L.tail \in From \ {k, c[1]}  BY <2>2, <3>2, <1>3 DEF From
    <3>4. M.tail = L.tail /\ M.tailHere  BY <2>2, <3>2, <1>10 DEF TailAfter
    <3> QED  BY <3>2, <3>3, <3>4, <1>16, <1>17 DEF TailOK
  <2> QED  BY <2>1, <2>2
<1>26. ASSUME \A j \in 1..L.cur : cache[j] # Unset
       PROVE  \A j \in 1..M.cur : c[j] # Unset
  <2> TAKE j \in 1..M.cur
  <2>1. j \in Level  BY <1>15 DEF ListRecord, Level
  <2>2. CASE j <= L.cur
    <3>1. j \in 1..L.cur /\ ~(L.cur < j)  BY <2>2, <1>4
    <3> QED  BY <3>1, <2>1, <1>5, <1>26
  <2>3. CASE ~(j <= L.cur)
    <3>1. L.cur < j /\ j <= h  BY <2>3, <1>4, <1>10
    <3> QED  BY <3>1, <2>1, <1>5, Names
  <2> QED  BY <2>2, <2>3
<1> QED  BY <1>16, <1>23, <1>24, <1>25, <1>26

-----------------------------------------------------------------------------
(***************************************************************************)
(* erase_().  The height that is left is that of the highest node left.    *)
(***************************************************************************)
LEMMA HeightLowered ==
  ASSUME NEW next, NEW cur \in Level, NEW h \in Level, NEW c, c = LowerHeight(next, cur, h)
  PROVE  /\ c \in 1..cur
         /\ h # 1 /\ h = cur => c = 1 \/ next[c][Header] # Nil
         /\ h # 1 /\ h = cur => \A i \in c + 1..cur : next[i][Header] = Nil
         /\ ~(h # 1 /\ h = cur) => c = cur
<1>0. cur \in Nat /\ cur >= 1  BY DEF Level
<1>1. CASE h # 1 /\ h = cur
  <2> DEFINE T == {x \in 1..cur : x = 1 \/ next[x][Header] # Nil}
             Is(x) == (x = 1 \/ next[x][Header] # Nil) /\ \A i \in x + 1..cur : next[i][Header] = Nil
  <2>1. T \in SUBSET Int /\ 1 \in T /\ \A y \in T : y <= cur  BY <1>0
  <2>2. PICK m \in T : \A y \in T : m >= y
    <3> HIDE DEF T
    <3>0. cur \in Int /\ T # {}  BY <1>0, <2>1
    <3>1. Max(T) \in T /\ \A y \in T : Max(T) >= y  BY <3>0, <2>1, GreatestIs
    <3> QED  BY <3>1
  <2>3. ASSUME NEW i \in m + 1..cur PROVE next[i][Header] = Nil
    <3>1. i \in 1..cur /\ ~(m >= i)  BY <2>1, <2>2
    <3> QED  BY <2>2, <3>1
  <2>4. m \in 1..cur /\ Is(m)  BY <2>2, <2>3
  <2>5. c = CHOOSE x \in 1..cur : Is(x)  BY <1>1 DEF LowerHeight
  <2> HIDE DEF Is
  <2>6. c \in 1..cur /\ Is(c)  BY <2>4, <2>5
  <2> QED  BY <2>6, <1>1 DEF Is
<1>2. CASE ~(h # 1 /\ h = cur)
  <2>1. c = cur  BY <1>2 DEF LowerHeight
  <2> QED  BY <1>0, <1>2, <2>1
<1> QED  BY <1>1, <1>2

(* The list without the node k. *)
LEMMA Unlinked ==
  ASSUME NEW L, ListOK(L), NEW k \in Nodes(L), NEW M, M = Unlink(L, k)
  PROVE  /\ ListOK(M) /\ Nodes(M) = Nodes(L) \ {k}
         /\ L.next[1][k] \in Nodes(M) \cup {Nil}
         /\ TailOK(L) => TailOK(M)
<1> DEFINE h == L.height[k]
           q == L.prev[1][k]
<1>1. /\ L \in ListRecord /\ \A i \in Level : OnChain(L, i)
      /\ Ascending(At(L, 1), L.next[1]) /\ \A n \in Key : L.height[n] <= L.cur
      /\ L.cur = 1 \/ \E n \in Key : L.height[n] = L.cur
      /\ L.num = Cardinality(At(L, 1))
  BY DEF ListOK
<1>2. /\ L.next \in [Level -> [From -> Key \cup {Nil}]] /\ L.prev \in [Level -> [Key -> From \cup {Nil}]]
      /\ L.height \in [Key -> 0..MaxHeight] /\ L.cur \in Level /\ L.num \in Nat
      /\ L.tail \in Key \cup {Nil} /\ L.tailHere \in BOOLEAN
  BY <1>1 DEF ListRecord
<1>3. /\ At(L, 1) = Nodes(L) /\ 1 \in Level /\ Nodes(L) \subseteq Key
      /\ L.next[1][k] \in Nodes(L) \cup {Nil} /\ k < L.next[1][k]
      /\ q \in Nodes(L) \cup {Header} /\ L.next[1][q] = k /\ q < k
      /\ \A n \in Nodes(L) \cup {Header}, m \in Nodes(L) : n < m => L.next[1][n] <= m
  BY Bottom
<1>4. L.cur \in Nat /\ L.cur >= 1 /\ \A i \in Level : i \in Nat /\ i >= 1  BY <1>2 DEF Level
<1>5. h \in Level /\ h \in Nat /\ h >= 1 /\ k \in Key
  <2>1. h \in 0..MaxHeight /\ h # 0 /\ k \in Key  BY <1>2, <1>3 DEF Nodes
  <2> HIDE DEF h
  <2> QED  BY <2>1 DEF Level
<1>6. /\ M.next = [i \in Level |-> IF i \notin 1..h THEN L.next[i]
                     ELSE [L.next[i] EXCEPT ![L.prev[i][k]] = L.next[i][k], ![k] = Nil]]
      /\ M.prev = [i \in Level |-> IF i \notin 1..h THEN L.prev[i]
                     ELSE [BackLink(L.prev[i], L.next[i][k], L.prev[i][k]) EXCEPT ![k] = Nil]]
      /\ M.height = [L.height EXCEPT ![k] = 0]
      /\ M.cur = LowerHeight(M.next, L.cur, h)
      /\ M.num = L.num - 1
      /\ M.tailHere = L.tailHere
      /\ M = [next |-> M.next, prev |-> M.prev, height |-> M.height, cur |-> M.cur,
              num |-> M.num, tail |-> M.tail, tailHere |-> M.tailHere]
  BY DEF Unlink, LevelsOf
<1>7. M.tail = IF L.tailHere /\ L.tail = k THEN IF q = Header THEN Nil ELSE q ELSE L.tail
  <2> DEFINE last == L.tailHere /\ L.tail = k
  <2>1. M.tail = CASE last /\ q = Header -> Nil [] last /\ q # Header -> q [] ~last -> L.tail
    BY DEF Unlink
  <2>2. last \in BOOLEAN  BY <1>2
  <2> HIDE DEF last, q
  <2>3. CASE last /\ q = Header  BY <2>1, <2>3 DEF last
  <2>4. CASE last /\ q # Header  BY <2>1, <2>4 DEF last
  <2>5. CASE ~last  BY <2>1, <2>5 DEF last
  <2> QED  BY <2>3, <2>4, <2>5
<1> HIDE DEF h, q, Level
<1>8. M.height[k] = 0 /\ \A n \in Key \ {k} : M.height[n] = L.height[n]  BY <1>2, <1>5, <1>6
<1>9. \A i \in Level : /\ At(L, i) \in SUBSET Key /\ (k \in At(L, i) <=> i <= h)
                       /\ At(M, i) = At(L, i) \ {k}
  <2> TAKE i \in Level
  <2>1. At(L, i) \in SUBSET Key /\ (k \in At(L, i) <=> i <= h)  BY <1>4, <1>5 DEF At, h
  <2>2. \A n \in Key : n \in At(M, i) <=> (n # k /\ n \in At(L, i))
    <3>1. ~(0 >= i)  BY <1>4
    <3> QED  BY <1>8, <3>1 DEF At
  <2>3. At(M, i) \subseteq Key  BY DEF At
  <2> QED  BY <2>1, <2>2, <2>3
<1>10. ASSUME NEW i \in Level, i <= h
       PROVE  /\ M.next[i] \in [From -> Key \cup {Nil}] /\ M.prev[i] \in [Key -> From \cup {Nil}]
              /\ L.prev[i][k] # k /\ M.next[i][L.prev[i][k]] = L.next[i][k]
              /\ \A n \in From \ {k, L.prev[i][k]} : M.next[i][n] = L.next[i][n]
              /\ OnChain(M, i)
  <2>1. i \in 1..h  BY <1>4, <1>5, <1>10
  <2> DEFINE N == At(L, i)
             nx == L.next[i]
             pv == L.prev[i]
             nx1 == M.next[i]
             pv1 == M.prev[i]
  <2>2. /\ N \in SUBSET Key /\ k \in N /\ Chain(N, nx, pv)
        /\ nx \in [From -> Key \cup {Nil}] /\ pv \in [Key -> From \cup {Nil}]
        /\ nx1 = [nx EXCEPT ![pv[k]] = nx[k], ![k] = Nil]
        /\ pv1 = [BackLink(pv, nx[k], pv[k]) EXCEPT ![k] = Nil]
    BY <1>1, <1>2, <1>6, <1>9, <1>10, <2>1 DEF OnChain
  <2>3. At(M, i) = N \ {k}  BY <1>9
  <2> HIDE DEF N, nx, pv, nx1, pv1
  <2>4. Unspliced(N, nx, pv[k], k, nx1, pv1)  BY <2>2, ChainErase
  <2>5. /\ nx1 \in [From -> Key \cup {Nil}] /\ pv1 \in [Key -> From \cup {Nil}]
        /\ pv[k] # k /\ nx1[pv[k]] = nx[k]
        /\ \A n \in From \ {k, pv[k]} : nx1[n] = nx[n]
        /\ Chain(At(M, i), nx1, pv1)
    BY <2>3, <2>4 DEF Unspliced
  <2> QED  BY <2>5 DEF nx, pv, nx1, pv1, OnChain
<1>11. ASSUME NEW i \in Level, ~(i <= h)
       PROVE  /\ M.next[i] \in [From -> Key \cup {Nil}] /\ M.prev[i] \in [Key -> From \cup {Nil}]
              /\ OnChain(M, i)
  <2>1. i \notin 1..h  BY <1>4, <1>5, <1>11
  <2>2. M.next[i] = L.next[i] /\ M.prev[i] = L.prev[i]  BY <1>6, <2>1
  <2>3. At(M, i) = At(L, i)  BY <1>9, <1>11
  <2> QED  BY <2>2, <2>3, <1>1, <1>2 DEF OnChain
<1>12. At(M, 1) = Nodes(L) \ {k} /\ Nodes(M) = Nodes(L) \ {k}
  <2>1. At(M, 1) = Nodes(L) \ {k}  BY <1>3, <1>9
  <2>2. Nodes(M) = Nodes(L) \ {k}  BY <1>5, <1>8 DEF Nodes
  <2> QED  BY <2>1, <2>2
<1>13. /\ M.cur \in 1..L.cur
       /\ h # 1 /\ h = L.cur => M.cur = 1 \/ M.next[M.cur][Header] # Nil
       /\ h # 1 /\ h = L.cur => \A i \in M.cur + 1..L.cur : M.next[i][Header] = Nil
       /\ ~(h # 1 /\ h = L.cur) => M.cur = L.cur
  <2> DEFINE next == M.next
             cur == L.cur
             c == M.cur
  <2>1. cur \in Level /\ c = LowerHeight(next, cur, h)  BY <1>2, <1>6
  <2> HIDE DEF next, cur, c
  <2>2. /\ c \in 1..cur
        /\ h # 1 /\ h = cur => c = 1 \/ next[c][Header] # Nil
        /\ h # 1 /\ h = cur => \A i \in c + 1..cur : next[i][Header] = Nil
        /\ ~(h # 1 /\ h = cur) => c = cur
    BY <2>1, <1>5, HeightLowered
  <2> QED  BY <2>2 DEF next, cur, c
<1>14. \A i \in 1..L.cur : i \in Level  BY <1>2 DEF Level
<1>15. IsFiniteSet(Nodes(L)) /\ Cardinality(Nodes(L) \ {k}) = Cardinality(Nodes(L)) - 1
       /\ Cardinality(Nodes(L) \ {k}) \in Nat
  <2>1. IsFiniteSet(Nodes(L))  BY <1>3, KeysFinite, FS_Subset
  <2> QED  BY <2>1, FS_RemoveElement, FS_CardinalityType
<1>16. M \in ListRecord
  <2>1. \A i \in Level : /\ M.next[i] \in [From -> Key \cup {Nil}]
                         /\ M.prev[i] \in [Key -> From \cup {Nil}]
    BY <1>10, <1>11
  <2>2. M.next \in [Level -> [From -> Key \cup {Nil}]]
    <3>1. M.next = [i \in Level |-> M.next[i]]  BY <1>6
    <3> QED  BY <2>1, <3>1
  <2>3. M.prev \in [Level -> [Key -> From \cup {Nil}]]
    <3>1. M.prev = [i \in Level |-> M.prev[i]]  BY <1>6
    <3> QED  BY <2>1, <3>1
  <2>4. M.height \in [Key -> 0..MaxHeight]
    <3>1. 0 \in 0..MaxHeight  OBVIOUS
    <3> QED  BY <3>1, <1>2, <1>6
  <2>5. M.cur \in Level  BY <1>13, <1>14
  <2>6. M.num \in Nat  BY <1>1, <1>3, <1>6, <1>15
  <2>7. M.tail \in Key \cup {Nil} /\ M.tailHere \in BOOLEAN  BY <1>2, <1>3, <1>6, <1>7
  <2> QED  BY <1>6, <2>2, <2>3, <2>4, <2>5, <2>6, <2>7 DEF ListRecord
<1>17. M.next[1][q] = L.next[1][k] /\ \A n \in From \ {k, q} : M.next[1][n] = L.next[1][n]
  <2>1. 1 <= h  BY <1>5
  <2> QED  BY <1>3, <1>10, <2>1 DEF q
<1>18. Ascending(At(M, 1), M.next[1])
  <2> SUFFICES ASSUME NEW n \in (Nodes(L) \ {k}) \cup {Header} PROVE n < M.next[1][n]
    BY <1>12 DEF Ascending
  <2>0. n \in From \ {k} /\ n \in Nodes(L) \cup {Header}  BY <1>3, <1>5, Names DEF From
  <2>1. CASE n = q
    <3>1. q \in Nat /\ k \in Nat /\ L.next[1][k] \in Nat  BY <1>3, <1>5, <2>0, <2>1, Names, Bottom
    <3> QED  BY <2>1, <3>1, <1>3, <1>17
  <2>2. CASE n # q
    <3>1. M.next[1][n] = L.next[1][n]  BY <2>0, <2>2, <1>17
    <3> QED  BY <3>1, <2>0, <1>1, <1>3 DEF Ascending
  <2> QED  BY <2>1, <2>2
<1>19. \A n \in Key : M.height[n] <= M.cur
  <2> TAKE n \in Key
  <2>0. M.height[n] \in Nat /\ L.height[n] \in Nat /\ L.height[n] <= L.cur /\ M.cur \in Nat /\ M.cur >= 1
    BY <1>1, <1>2, <1>13, <1>16 DEF ListRecord
  <2>1. CASE n = k  BY <2>0, <2>1, <1>8
  <2>2. CASE n # k /\ ~(h # 1 /\ h = L.cur)  BY <2>0, <2>2, <1>8, <1>13
  <2>3. CASE n # k /\ h # 1 /\ h = L.cur
    <3> SUFFICES ASSUME M.height[n] > M.cur PROVE FALSE  BY <2>0
    <3> DEFINE i == M.height[n]
    <3>1. i = L.height[n] /\ i \in M.cur + 1..L.cur /\ i \in 1..L.cur  BY <2>0, <2>3, <1>8
    <3>2. i \in Level /\ n \in At(M, i)  BY <3>1, <1>14, <2>0 DEF At
    <3>3. M.next[i][Header] = Nil  BY <3>1, <2>3, <1>13
    <3>4. OnChain(M, i) /\ At(M, i) \in SUBSET Key  BY <3>2, <1>10, <1>11 DEF At
    <3> HIDE DEF i
    <3>5. At(M, i) = {}  BY <3>3, <3>4, HeaderReaches DEF OnChain
    <3> QED  BY <3>2, <3>5
  <2> QED  BY <2>1, <2>2, <2>3
<1>20. M.cur = 1 \/ \E n \in Key : M.height[n] = M.cur
  <2>1. CASE h # 1 /\ h = L.cur /\ M.cur # 1
    <3> DEFINE i == M.cur
               n == M.next[i][Header]
    <3>1. i \in Level /\ n # Nil  BY <2>1, <1>13, <1>16 DEF ListRecord
    <3>2. OnChain(M, i)  BY <3>1, <1>10, <1>11
    <3>3. n \in At(M, i)  BY <3>1, <3>2 DEF OnChain, Chain
    <3>4. n \in Key /\ M.height[n] >= i /\ M.height[n] <= i /\ M.height[n] \in Nat /\ i \in Nat
      <4>1. n \in Key /\ M.height[n] >= i  BY <3>3 DEF At
      <4> HIDE DEF n
      <4> QED  BY <4>1, <1>19, <1>16, <3>1, <1>4 DEF ListRecord
    <3> HIDE DEF n, i
    <3>5. M.height[n] = i  BY <3>4
    <3> QED  BY <3>4, <3>5 DEF i
  <2>2. CASE h = 1 /\ M.cur # 1
    <3>1. M.cur = L.cur  BY <2>2, <1>13
    <3>2. PICK n \in Key : L.height[n] = L.cur  BY <2>2, <3>1, <1>1
    <3>3. n # k  BY <2>2, <3>1, <3>2 DEF h
    <3> QED  BY <3>1, <3>2, <3>3, <1>8
  <2>3. CASE h # L.cur /\ M.cur # 1
    <3>1. M.cur = L.cur  BY <2>3, <1>13
    <3>2. PICK n \in Key : L.height[n] = L.cur  BY <2>3, <3>1, <1>1
    <3>3. n # k  BY <2>3, <3>2 DEF h
    <3> QED  BY <3>1, <3>2, <3>3, <1>8
  <2> QED  BY <2>1, <2>2, <2>3
<1>21. M.num = Cardinality(At(M, 1))  BY <1>1, <1>3, <1>6, <1>12, <1>15
<1>22. ListOK(M)  BY <1>10, <1>11, <1>16, <1>18, <1>19, <1>20, <1>21 DEF ListOK
<1>23. ASSUME TailOK(L) PROVE TailOK(M)
  <2>1. L.tailHere /\ L.tail \in Nodes(L) /\ L.next[1][L.tail] = Nil /\ M.tailHere  BY <1>6, <1>23 DEF TailOK
  <2>2. CASE L.tail = k /\ q = Header
    <3>1. ASSUME NEW n \in Nodes(L) \ {k} PROVE FALSE
      <4>1. n \in Nat /\ k \in Nat /\ n < Nil /\ Header < n  BY <1>3, <1>5, Names
      <4>2. L.next[1][Header] <= n  BY <4>1, <1>3
      <4>3. k < n  BY <4>1, <4>2, <2>2, <1>3
      <4>4. L.next[1][k] <= n  BY <4>3, <1>3
      <4>5. L.next[1][k] = Nil /\ Nil \in Nat  BY <2>1, <2>2, Names
      <4> QED  BY <4>1, <4>4, <4>5
    <3> QED  BY <3>1, <2>1, <1>12 DEF TailOK
  <2>3. CASE L.tail = k /\ q # Header
    <3>1. M.tail = q /\ q \in Nodes(L)  BY <2>1, <2>3, <1>3, <1>7
    <3>2. q # k  BY <3>1, <1>3, <1>5, Names
    <3> QED  BY <2>1, <2>3, <3>1, <3>2, <1>12, <1>17 DEF TailOK
  <2>4. CASE L.tail # k
    <3>1. M.tail = L.tail  BY <2>4, <1>7
    <3>2. L.tail # q  BY <2>1, <1>3, <1>5, Names
    <3>3. L.tail \in From \ {k, q}  BY <2>1, <2>4, <3>2, <1>3 DEF From
    <3> QED  BY <2>1, <2>4, <3>1, <3>3, <1>12, <1>17 DEF TailOK
  <2> QED  BY <2>2, <2>3, <2>4
<1>24. L.next[1][k] \in Nodes(M) \cup {Nil}
  <2>1. L.next[1][k] # k  BY <1>3, <1>5, Names
  <2> QED  BY <2>1, <1>3, <1>12
<1> QED  BY <1>12, <1>22, <1>23, <1>24

(***************************************************************************)
(* clear() and swap().                                                     *)
(***************************************************************************)
LEMMA ClearedOK ==
  ASSUME NEW L, ListOK(L), NEW M, M = Cleared(L)
  PROVE  ListOK(M) /\ Nodes(M) = {} /\ M.next[1][Header] = Nil /\ (TailOK(L) => TailOK(M))
<1>1. L.tail \in Key \cup {Nil} /\ L.tailHere \in BOOLEAN  BY DEF ListOK, ListRecord
<1>2. M = [next |-> [i \in Level |-> [n \in Key \cup {Header} |-> Nil]],
           prev |-> [i \in Level |-> [n \in Key |-> Nil]],
           height |-> [n \in Key |-> 0], cur |-> 1, num |-> 0,
           tail |-> L.tail, tailHere |-> L.tailHere]
  BY DEF Cleared, Empty
<1>3. 1 \in Level /\ \A i \in Level : i \in Nat /\ i >= 1  BY DEF Level
<1>4. M \in ListRecord  BY <1>1, <1>2, <1>3 DEF ListRecord, From
<1>5. Nodes(M) = {} /\ \A i \in Level : At(M, i) = {}
  <2>1. \A i \in Level : ~(0 >= i)  BY <1>3
  <2> QED  BY <1>2, <2>1 DEF Nodes, At
<1>6. \A i \in Level : M.next[i][Header] = Nil  BY <1>2
<1>7. \A i \in Level : OnChain(M, i)  BY <1>5, <1>6 DEF OnChain, Chain
<1>8. Ascending(At(M, 1), M.next[1])  BY <1>3, <1>5, <1>6, Names DEF Ascending
<1>9. M.num = Cardinality(At(M, 1))
  <2>0. M.num = 0  BY <1>2
  <2>1. At(M, 1) = {}  BY <1>3, <1>5
  <2>2. Cardinality({}) = 0  BY FS_EmptySet
  <2> QED  BY <2>0, <2>1, <2>2
<1>10. M.cur = 1 /\ \A n \in Key : M.height[n] <= M.cur  BY <1>2
<1>11. TailOK(L) => TailOK(M)
  <2>1. M.tailHere = L.tailHere  BY <1>2
  <2> QED  BY <2>1, <1>5 DEF TailOK
<1> QED  BY <1>3, <1>4, <1>5, <1>6, <1>7, <1>8, <1>9, <1>10, <1>11 DEF ListOK

(* A list that gets the tail of another. *)
LEMMA KeepsTailOK ==
  ASSUME NEW L, ListOK(L), NEW K, ListOK(K), NEW M, M = KeepsTail(K, L)
  PROVE  ListOK(M) /\ Nodes(M) = Nodes(L)
<1>1. K.tail \in Key \cup {Nil} /\ ((K.tail = Nil) \/ ~K.tailHere) \in BOOLEAN  BY DEF ListOK, ListRecord
<1>2. L \in ListRecord  BY DEF ListOK
<1>3. M = [L EXCEPT !.tail = K.tail, !.tailHere = (K.tail = Nil) \/ ~K.tailHere]  BY DEF KeepsTail
<1>4. /\ M \in ListRecord
      /\ M.next = L.next /\ M.prev = L.prev /\ M.height = L.height /\ M.cur = L.cur /\ M.num = L.num
  BY <1>1, <1>2, <1>3 DEF ListRecord
<1>5. Nodes(M) = Nodes(L) /\ \A i \in Level : At(M, i) = At(L, i)  BY <1>4 DEF Nodes, At
<1>6. 1 \in Level  BY DEF Level
<1> QED  BY <1>4, <1>5, <1>6 DEF ListOK, OnChain

-----------------------------------------------------------------------------
(***************************************************************************)
(* insert_range_effective_().  Before each turn the list has what it had   *)
(* and the keys so far; if it was empty, the cache is written up to the    *)
(* current height from the first key on.                                   *)
(***************************************************************************)
Written(L, cache) == \A j \in 1..L.cur : cache[j] # Unset

TurnState == [list : ListRecord, wild : BOOLEAN, pos : Key \cup {Nil},
              cache : [Level -> From \cup {Unset}], iter : Key \cup {Nil}]

Inserting(L, M, first, s) ==
  /\ ListOK(s.list) /\ CacheOK(s.list, s.cache)
  /\ s.iter \in Nodes(M) \cup {Nil} /\ first <= s.iter
  /\ Nodes(s.list) = Nodes(L) \cup {n \in Nodes(M) : first <= n /\ n < s.iter}
  /\ s.pos \in Nodes(s.list) \cup {Nil} /\ (s.pos # Nil => s.pos < s.iter)
  /\ TailOK(L) => TailOK(s.list)
  /\ Nodes(L) = {} => ~s.wild /\ (Written(s.list, s.cache) \/ (s.pos = Nil /\ Nodes(s.list) = {}))

(* What a turn does to the list and to the iterator. *)
Turned(L, M, first, s, r) ==
  /\ r \in TurnState /\ Inserting(L, M, first, r)
  /\ s.wild => r.wild
  /\ s.iter = Nil => r.iter = Nil
  /\ s.iter # Nil => r.wild \/ s.iter < r.iter

(* One turn: the key is found or linked, or the model ends. *)
LEMMA TurnDone ==
  ASSUME NEW L, NEW M, ListOK(M), NEW first \in Key \cup {Nil}, NEW hs \in [Key -> Level],
         NEW s \in TurnState, Inserting(L, M, first, s), NEW r, r = InsertTurn(M, hs, s)
  PROVE  Turned(L, M, first, s, r)
<1> USE DEF Turned
<1> DEFINE k == s.iter
           f == FindIn(s.list, k, s.pos, Nil, s.cache)
           c == Filled(s.list, f.cache, hs[k])
<1>1. /\ ListOK(s.list) /\ CacheOK(s.list, s.cache)
      /\ k \in Nodes(M) \cup {Nil} /\ first <= k
      /\ Nodes(s.list) = Nodes(L) \cup {n \in Nodes(M) : first <= n /\ n < k}
      /\ s.pos \in Nodes(s.list) \cup {Nil} /\ (s.pos # Nil => s.pos < k)
      /\ TailOK(L) => TailOK(s.list)
      /\ Nodes(L) = {} => ~s.wild /\ (Written(s.list, s.cache) \/ (s.pos = Nil /\ Nodes(s.list) = {}))
  BY DEF Inserting
<1>2. /\ s.list \in ListRecord /\ s.wild \in BOOLEAN /\ s.pos \in Key \cup {Nil}
      /\ s.cache \in [Level -> From \cup {Unset}] /\ k \in Key \cup {Nil}
  BY DEF TurnState
<1>3. r = IF s.wild \/ k = Nil THEN s
          ELSE IF f.hit # Nil
            THEN [s EXCEPT !.pos = f.hit, !.cache = f.cache, !.iter = M.next[1][k]]
          ELSE IF LinksWild(s.list, f.cache, hs[k]) THEN [s EXCEPT !.wild = TRUE]
          ELSE [list |-> Link(s.list, k, f.cache, hs[k]), wild |-> FALSE,
                pos |-> k, cache |-> c, iter |-> M.next[1][k]]
  BY DEF InsertTurn
<1>4. CASE s.wild \/ k = Nil
  <2>1. r = s  BY <1>3, <1>4
  <2>2. s.iter # Nil => r.wild  BY <2>1, <1>4
  <2> QED  BY <2>1, <2>2
<1>5. CASE ~s.wild /\ k # Nil
  <2> DEFINE x == M.next[1][k]
  <2>1. k \in Nodes(M) /\ k \in Key /\ k \in Nat  BY <1>1, <1>2, <1>5, Names
  <2>2. /\ x \in Nodes(M) \cup {Nil} /\ k < x /\ x \in Nat
        /\ \A m \in Nodes(M) : k < m => x <= m
        /\ Nodes(M) \subseteq Key
    BY <2>1, Bottom
  <2>3. /\ CacheOK(s.list, f.cache) /\ HitIs(s.list, k, f)
        /\ \A j \in Level : s.cache[j] # Unset => f.cache[j] # Unset
        /\ f.hit = Nil /\ s.pos = Nil => \A j \in 1..s.list.cur : f.cache[j] # Unset
        /\ f.hit = Nil => /\ f.cache[1] \in Nodes(s.list) \cup {Header}
                          /\ s.list.next[1][f.cache[1]] \in {Nil, Nil} \/ k < s.list.next[1][f.cache[1]]
        /\ f.hit = Nil /\ (s.pos = Nil \/ s.pos < k) => f.cache[1] < k
    <3>1. Searched(s.list, k, s.pos, Nil, s.cache, f)  BY <1>1, <2>1, Search
    <3> HIDE DEF f, k
    <3> QED  BY <3>1 DEF Searched
  <2>4. first \in Nat /\ first <= x /\ \A m \in Nodes(M) : m \in Nat
    <3>1. first \in Nat /\ \A m \in Nodes(M) : m \in Nat  BY <2>2, Names
    <3> QED  BY <3>1, <2>1, <2>2, <1>1
  <2>5. {n \in Nodes(M) : first <= n /\ n < x} = {n \in Nodes(M) : first <= n /\ n < k} \cup {k}
    <3>1. \A n \in Nodes(M) : n < x <=> n < k \/ n = k  BY <2>1, <2>2, <2>4
    <3> QED  BY <3>1, <2>1, <1>1
  <2>6. \A j \in 1..s.list.cur : j \in Level  BY <1>2 DEF ListRecord, Level
  <2>7. Written(s.list, s.cache) => Written(s.list, f.cache)  BY <2>3, <2>6 DEF Written
  <2> HIDE DEF x, f, c
  <2>8. CASE f.hit # Nil
    <3>1. r = [s EXCEPT !.pos = f.hit, !.cache = f.cache, !.iter = x]  BY <1>3, <1>5, <2>8 DEF x
    <3>2. f.hit = k /\ k \in Nodes(s.list)  BY <2>3, <2>8 DEF HitIs
    <3>3. /\ r.list = s.list /\ r.wild = s.wild /\ r.pos = k /\ r.cache = f.cache /\ r.iter = x
      BY <3>1, <3>2 DEF TurnState
    <3>4. r \in TurnState
      <4>1. f.cache \in [Level -> From \cup {Unset}] /\ x \in Key \cup {Nil} /\ f.hit \in Key \cup {Nil}
        BY <2>1, <2>2, <2>3, <3>2 DEF CacheOK
      <4> QED  BY <3>1, <4>1 DEF TurnState
    <3>5. Nodes(s.list) = Nodes(L) \cup {n \in Nodes(M) : first <= n /\ n < x}  BY <1>1, <2>5, <3>2
    <3>6. Nodes(L) = {} => ~r.wild /\ Written(r.list, r.cache)  BY <1>1, <2>7, <3>2, <3>3
    <3>7. Inserting(L, M, first, r)
      BY <1>1, <2>2, <2>3, <2>4, <3>2, <3>3, <3>5, <3>6 DEF Inserting
    <3> QED  BY <3>3, <3>4, <3>7, <2>2, <1>5
  <2>9. CASE f.hit = Nil /\ LinksWild(s.list, f.cache, hs[k])
    <3>1. r = [s EXCEPT !.wild = TRUE]  BY <1>3, <1>5, <2>9
    <3>2. r.list = s.list /\ r.wild = TRUE /\ r.pos = s.pos /\ r.cache = s.cache /\ r.iter = s.iter
      BY <3>1 DEF TurnState
    <3>3. r \in TurnState  BY <3>1 DEF TurnState
    <3>4. Nodes(L) # {}
      <4> SUFFICES ASSUME Nodes(L) = {} PROVE FALSE  OBVIOUS
      <4>1. Written(s.list, f.cache)  BY <1>1, <2>3, <2>7, <2>9 DEF Written
      <4>2. PICK i \in 1..hs[k] : Filled(s.list, f.cache, hs[k])[i] = Unset  BY <2>9 DEF LinksWild
      <4>3. hs[k] \in Level /\ i \in Level /\ i <= hs[k] /\ s.list.cur \in Nat
        BY <2>1, <1>2 DEF Level, ListRecord
      <4>4. CASE s.list.cur < i  BY <4>2, <4>3, <4>4, Names DEF Filled
      <4>5. CASE ~(s.list.cur < i)
        <5>1. i \in 1..s.list.cur  BY <4>3, <4>5 DEF Level
        <5>2. f.cache[i] = Unset  BY <4>2, <4>3, <4>5 DEF Filled
        <5> QED  BY <5>1, <5>2, <4>1 DEF Written
      <4> QED  BY <4>4, <4>5
    <3>5. Inserting(L, M, first, r)  BY <1>1, <3>2, <3>4 DEF Inserting
    <3> QED  BY <3>2, <3>3, <3>5, <1>5
  <2>10. CASE f.hit = Nil /\ ~LinksWild(s.list, f.cache, hs[k])
    <3> DEFINE N == Link(s.list, k, f.cache, hs[k])
    <3>1. r = [list |-> N, wild |-> FALSE, pos |-> k, cache |-> c, iter |-> x]
      BY <1>3, <1>5, <2>10 DEF x
    <3>2. hs[k] \in Level  BY <2>1
    <3>3. f.cache[1] \in Nodes(s.list) \cup {Header} /\ f.cache[1] < k
      BY <1>1, <2>3, <2>10
    <3>4. k < s.list.next[1][f.cache[1]]
      <4>1. k < Nil  BY <2>1, Names
      <4> QED  BY <4>1, <2>3, <2>10
    <3>5. k \notin Nodes(s.list)  BY <1>1, <2>1, <3>3, <3>4, NotThere
    <3>6. /\ ListOK(N) /\ Nodes(N) = Nodes(s.list) \cup {k} /\ CacheOK(N, c)
          /\ TailOK(s.list) => TailOK(N)
          /\ (\A j \in 1..s.list.cur : f.cache[j] # Unset) => \A j \in 1..N.cur : c[j] # Unset
      BY <1>1, <2>1, <2>3, <2>10, <3>2, <3>3, <3>4, <3>5, Linked DEF c
    <3> HIDE DEF N
    <3>7. r.list = N /\ r.wild = FALSE /\ r.pos = k /\ r.cache = c /\ r.iter = x  BY <3>1
    <3>8. r \in TurnState
      <4>1. N \in ListRecord /\ c \in [Level -> From \cup {Unset}]  BY <3>6 DEF ListOK, CacheOK
      <4>2. x \in Key \cup {Nil}  BY <2>2
      <4> QED  BY <3>1, <4>1, <4>2, <2>1 DEF TurnState
    <3>9. Nodes(N) = Nodes(L) \cup {n \in Nodes(M) : first <= n /\ n < x}  BY <1>1, <2>5, <3>6
    <3>10. Nodes(L) = {} => ~r.wild /\ Written(r.list, r.cache)
      <4>1. Nodes(L) = {} => \A j \in 1..s.list.cur : f.cache[j] # Unset
        BY <1>1, <2>3, <2>7, <2>10 DEF Written
      <4> QED  BY <4>1, <3>6, <3>7 DEF Written
    <3>11. Inserting(L, M, first, r)
      BY <1>1, <2>2, <2>4, <3>6, <3>7, <3>9, <3>10 DEF Inserting
    <3> QED  BY <3>7, <3>8, <3>11, <2>2, <1>5
  <2> QED  BY <2>8, <2>9, <2>10
<1> QED  BY <1>2, <1>4, <1>5

Insertions(L, M, first, hs, T) ==
  {r \in [0..MaxKey -> T] :
     /\ r[0] = [list |-> L, wild |-> FALSE, pos |-> Nil, cache |-> NoCache, iter |-> first]
     /\ \A t \in 1..MaxKey : r[t] = InsertTurn(M, hs, r[t - 1])}

(* The turns of the insertion of a range. *)
LEMMA InsertKeysIs ==
  ASSUME NEW L, ListOK(L), NEW M, ListOK(M), NEW first \in Nodes(M) \cup {Nil}, NEW hs \in [Key -> Level]
  PROVE  InsertKeys(L, M, first, hs) \in
           Insertions(L, M, first, hs, {s \in TurnState : Inserting(L, M, first, s)})
<1> DEFINE T == {s \in TurnState : Inserting(L, M, first, s)}
           a == [list |-> L, wild |-> FALSE, pos |-> Nil, cache |-> NoCache, iter |-> first]
           P(x) == InsertTurn(M, hs, x)
           Eq(f) == f = [t \in 0..MaxKey |-> IF t = 0 THEN a ELSE P(f[t - 1])]
           step == [t \in 1..MaxKey |-> [x \in T |-> P(x)]]
           r == InsertKeys(L, M, first, hs)
<1>0. first \in Key \cup {Nil} /\ Nodes(M) \subseteq Key  BY DEF Nodes
<1>1. \A x \in T : P(x) \in T
  <2>1. \A x \in T : Turned(L, M, first, x, P(x))  BY <1>0, TurnDone
  <2> QED  BY <2>1 DEF Turned
<1>2. a \in T
  <2>1. CacheOK(L, NoCache)  BY NothingCached
  <2>2. a \in TurnState  BY <1>0, <2>1 DEF TurnState, ListOK, CacheOK
  <2>3. first \in Nat /\ \A n \in Nodes(M) : n \in Nat  BY <1>0, Names
  <2>4. {n \in Nodes(M) : first <= n /\ n < first} = {}
    <3>1. \A n \in Nodes(M) : ~(first <= n /\ n < first)  BY <2>3
    <3> QED  BY <3>1
  <2>5. Nodes(L) = Nodes(L) \cup {n \in Nodes(M) : first <= n /\ n < first}  BY <2>4
  <2>6. Inserting(L, M, first, a)  BY <2>1, <2>3, <2>5 DEF Inserting
  <2> QED  BY <2>2, <2>6
<1>3. step \in [1..MaxKey -> [T -> T]]  BY <1>1
<1>4. \A t \in 1..MaxKey, x \in T : step[t][x] = P(x)  OBVIOUS
<1>5. r = CHOOSE f : Eq(f)  BY DEF InsertKeys
<1> HIDE DEF P, step, a, r, T
<1>6. PICK f \in [0..MaxKey -> T] : f[0] = a /\ \A t \in 1..MaxKey : f[t] = step[t][f[t - 1]]
  <2>1. Loops(T, a, MaxKey, step) # {}  BY <1>2, <1>3, LoopExists
  <2> QED  BY <2>1 DEF Loops
<1>7. \A t \in 0..MaxKey : t = 0 \/ (t \in 1..MaxKey /\ t # 0 /\ t - 1 \in 0..MaxKey)  OBVIOUS
<1>8. \A t \in 0..MaxKey : f[t] = IF t = 0 THEN a ELSE P(f[t - 1])  BY <1>4, <1>6, <1>7
<1>9. Eq(f)  BY <1>8
<1> HIDE DEF Eq
<1>10. Eq(r)  BY <1>5, <1>9
<1>11. r = [t \in 0..MaxKey |-> IF t = 0 THEN a ELSE P(r[t - 1])]  BY <1>10 DEF Eq
<1>12. 0 \in 0..MaxKey /\ \A t \in 1..MaxKey : t \in 0..MaxKey /\ t # 0  OBVIOUS
<1>13. r[0] = a /\ \A t \in 1..MaxKey : r[t] = P(r[t - 1])  BY <1>11, <1>12
<1>14. \A t \in 0..MaxKey : r[t] \in T
  <2> DEFINE S == {t \in 0..MaxKey : r[t] \in T}
  <2>1. 0 \in S  BY <1>2, <1>12, <1>13
  <2>2. \A t \in 1..MaxKey : t - 1 \in S => t \in S  BY <1>1, <1>12, <1>13
  <2> HIDE DEF S
  <2>3. 0..MaxKey \subseteq S  BY <2>1, <2>2, TurnByTurn
  <2> QED  BY <2>3 DEF S
<1>15. r \in [0..MaxKey -> T]  BY <1>11, <1>14
<1> QED  BY <1>13, <1>15 DEF P, a, r, T, Insertions

(* All keys of the range have been inserted, or the model has ended. *)
LEMMA KeysInserted ==
  ASSUME NEW L, ListOK(L), NEW M, ListOK(M), NEW first \in Nodes(M) \cup {Nil}, NEW hs \in [Key -> Level],
         NEW r, r = InsertKeys(L, M, first, hs)[MaxKey]
  PROVE  /\ ListOK(r.list) /\ r.wild \in BOOLEAN
         /\ TailOK(L) => TailOK(r.list)
         /\ Nodes(L) = {} => ~r.wild /\ Nodes(r.list) = {n \in Nodes(M) : first <= n}
<1> DEFINE f == InsertKeys(L, M, first, hs)
           T == {s \in TurnState : Inserting(L, M, first, s)}
<1>1. f \in Insertions(L, M, first, hs, T)  BY InsertKeysIs
<1>2. r = f[MaxKey]  OBVIOUS
<1>3. first \in Key \cup {Nil} /\ Nodes(M) \subseteq Key  BY DEF Nodes
<1>4. first \in Nat /\ first >= 1 /\ \A n \in Nodes(M) : n \in Nat /\ n < Nil
  <2>1. \A n \in Key : n \in Nat /\ n >= 1 /\ n < Nil  BY DEF Key, Nil
  <2> QED  BY <1>3, <2>1 DEF Nil
<1> HIDE DEF f, T
<1>5. f \in [0..MaxKey -> T] /\ f[0].iter = first /\ \A t \in 1..MaxKey : f[t] = InsertTurn(M, hs, f[t - 1])
  BY <1>1 DEF Insertions
<1>6. \A t \in 0..MaxKey : f[t] \in TurnState /\ Inserting(L, M, first, f[t])  BY <1>5 DEF T
<1>7. \A t \in 0..MaxKey : f[t].iter \in Nat /\ f[t].iter <= Nil
  <2>1. \A n \in Key : n \in Nat /\ n <= Nil  BY DEF Key, Nil
  <2>2. \A t \in 0..MaxKey : f[t].iter \in Key \cup {Nil}  BY <1>6 DEF TurnState
  <2> QED  BY <2>1, <2>2 DEF Nil
<1>8. 0..MaxKey \subseteq {t \in 0..MaxKey : f[t].wild \/ f[t].iter = Nil \/ f[t].iter >= t + 1}
  <2> DEFINE S == {t \in 0..MaxKey : f[t].wild \/ f[t].iter = Nil \/ f[t].iter >= t + 1}
  <2>1. 0 \in S  BY <1>4, <1>5
  <2>2. ASSUME NEW t \in 1..MaxKey, t - 1 \in S PROVE t \in S
    <3> DEFINE s == f[t - 1]
    <3>1. t - 1 \in 0..MaxKey /\ t \in 0..MaxKey  OBVIOUS
    <3>2. s \in TurnState /\ Inserting(L, M, first, s) /\ f[t] = InsertTurn(M, hs, s) /\ s.iter \in Nat /\ f[t].iter \in Nat
      BY <3>1, <1>5, <1>6, <1>7
    <3>3. s.wild \/ s.iter = Nil \/ s.iter >= t  BY <2>2
    <3> HIDE DEF s
    <3>4. /\ s.wild => f[t].wild
          /\ s.iter = Nil => f[t].iter = Nil
          /\ s.iter # Nil => f[t].wild \/ s.iter < f[t].iter
      <4>1. Turned(L, M, first, s, f[t])  BY <3>2, <1>3, TurnDone
      <4> QED  BY <4>1 DEF Turned
    <3> QED  BY <3>1, <3>2, <3>3, <3>4
  <2> HIDE DEF S
  <2>3. 0..MaxKey \subseteq S  BY <2>1, <2>2, TurnByTurn
  <2> QED  BY <2>3 DEF S
<1>9. MaxKey \in 0..MaxKey  OBVIOUS
<1>10. r \in TurnState /\ Inserting(L, M, first, r) /\ (r.wild \/ r.iter = Nil)
  <2>1. r.wild \/ r.iter = Nil \/ r.iter >= MaxKey + 1  BY <1>2, <1>8, <1>9
  <2>2. r.iter \in Nat /\ r.iter <= Nil  BY <1>2, <1>7, <1>9
  <2>3. r.iter >= MaxKey + 1 => r.iter = Nil  BY <2>2 DEF Nil
  <2> QED  BY <1>2, <1>6, <1>9, <2>1, <2>3
<1>11. ASSUME Nodes(L) = {} PROVE ~r.wild /\ Nodes(r.list) = {n \in Nodes(M) : first <= n}
  <2>1. ~r.wild /\ r.iter = Nil  BY <1>10, <1>11 DEF Inserting
  <2>2. Nodes(r.list) = {n \in Nodes(M) : first <= n /\ n < Nil}  BY <1>10, <1>11, <2>1 DEF Inserting
  <2> QED  BY <2>1, <2>2, <1>4
<1> QED  BY <1>10, <1>11 DEF Inserting, TurnState

(***************************************************************************)
(* erase(first, last).                                                     *)
(***************************************************************************)
Erasing(L) ==
  {s \in [list : ListRecord, iter : Key \cup {Nil}] :
     ListOK(s.list) /\ s.iter \in Nodes(s.list) \cup {Nil} /\ (TailOK(L) => TailOK(s.list))}

(* Erasing up to a position, or to the end. *)
LEMMA RangeUnlinked ==
  ASSUME NEW L, ListOK(L), NEW first \in Nodes(L), NEW last, NEW r, r = UnlinkUpTo(L, first, last)[MaxKey]
  PROVE  ListOK(r.list) /\ (TailOK(L) => TailOK(r.list))
<1> DEFINE T == Erasing(L)
           a == [list |-> L, iter |-> first]
           P(x) == EraseTurn(last, x)
           Eq(f) == f = [t \in 0..MaxKey |-> IF t = 0 THEN a ELSE P(f[t - 1])]
           step == [t \in 1..MaxKey |-> [x \in T |-> P(x)]]
           w == UnlinkUpTo(L, first, last)
<1>1. ASSUME NEW s \in T PROVE P(s) \in T
  <2>1. ListOK(s.list) /\ s.iter \in Nodes(s.list) \cup {Nil} /\ (TailOK(L) => TailOK(s.list))  BY DEF Erasing
  <2>2. CASE s.iter \in {last, Nil}  BY <2>2 DEF EraseTurn
  <2>3. CASE s.iter \notin {last, Nil}
    <3> DEFINE M == Unlink(s.list, s.iter)
               x == s.list.next[1][s.iter]
    <3>1. P(s) = [list |-> M, iter |-> x]  BY <2>3 DEF EraseTurn
    <3>2. s.iter \in Nodes(s.list)  BY <2>1, <2>3
    <3>3. ListOK(M) /\ x \in Nodes(M) \cup {Nil} /\ (TailOK(s.list) => TailOK(M))  BY <2>1, <3>2, Unlinked
    <3> HIDE DEF M, x, P
    <3>4. M \in ListRecord /\ x \in Key \cup {Nil}  BY <3>3 DEF ListOK, Nodes
    <3> QED  BY <2>1, <3>1, <3>3, <3>4 DEF Erasing
  <2> QED  BY <2>2, <2>3
<1>2. a \in T
  <2>1. L \in ListRecord /\ first \in Key  BY DEF ListOK, Nodes
  <2> QED  BY <2>1 DEF Erasing
<1>3. step \in [1..MaxKey -> [T -> T]]  BY <1>1
<1>4. \A t \in 1..MaxKey, x \in T : step[t][x] = P(x)  OBVIOUS
<1>5. w = CHOOSE f : Eq(f)  BY DEF UnlinkUpTo
<1>6. r = w[MaxKey]  OBVIOUS
<1> HIDE DEF P, step, a, w, T
<1>7. PICK f \in [0..MaxKey -> T] : f[0] = a /\ \A t \in 1..MaxKey : f[t] = step[t][f[t - 1]]
  <2>1. Loops(T, a, MaxKey, step) # {}  BY <1>2, <1>3, LoopExists
  <2> QED  BY <2>1 DEF Loops
<1>8. \A t \in 0..MaxKey : t = 0 \/ (t \in 1..MaxKey /\ t # 0 /\ t - 1 \in 0..MaxKey)  OBVIOUS
<1>9. \A t \in 0..MaxKey : f[t] = IF t = 0 THEN a ELSE P(f[t - 1])  BY <1>4, <1>7, <1>8
<1>10. Eq(f)  BY <1>9
<1> HIDE DEF Eq
<1>11. Eq(w)  BY <1>5, <1>10
<1>12. w = [t \in 0..MaxKey |-> IF t = 0 THEN a ELSE P(w[t - 1])]  BY <1>11 DEF Eq
<1>13. 0 \in 0..MaxKey /\ MaxKey \in 0..MaxKey /\ \A t \in 1..MaxKey : t \in 0..MaxKey /\ t # 0  OBVIOUS
<1>14. w[0] = a /\ \A t \in 1..MaxKey : w[t] = P(w[t - 1])  BY <1>12, <1>13
<1>15. \A t \in 0..MaxKey : w[t] \in T
  <2> DEFINE S == {t \in 0..MaxKey : w[t] \in T}
  <2>1. 0 \in S  BY <1>2, <1>13, <1>14
  <2>2. \A t \in 1..MaxKey : t - 1 \in S => t \in S  BY <1>1, <1>13, <1>14
  <2> HIDE DEF S
  <2>3. 0..MaxKey \subseteq S  BY <2>1, <2>2, TurnByTurn
  <2> QED  BY <2>3 DEF S
<1> QED  BY <1>6, <1>13, <1>15 DEF T, Erasing

-----------------------------------------------------------------------------
(***************************************************************************)
(* The inductive invariant: both lists are linked as they should be, their *)
(* tails are right as long as nobody swapped, copies are complete.         *)
(***************************************************************************)
ListsInv ==
  /\ wild \in BOOLEAN /\ swapped \in BOOLEAN /\ copied \in BOOLEAN
  /\ list \in [Lists -> ListRecord]
  /\ \A l \in Lists : ListOK(list[l])
  /\ \A l \in Lists : swapped \/ TailOK(list[l])
  /\ CopyIsExact

(* Two empty lists. *)
LEMMA ListsInit == Init => ListsInv
<1> SUFFICES ASSUME Init PROVE ListsInv  OBVIOUS
<1>1. list = [l \in Lists |-> Empty] /\ wild = FALSE /\ swapped = FALSE /\ copied = FALSE  BY DEF Init
<1>2. Empty = [next |-> [i \in Level |-> [n \in Key \cup {Header} |-> Nil]],
               prev |-> [i \in Level |-> [n \in Key |-> Nil]],
               height |-> [n \in Key |-> 0], cur |-> 1, num |-> 0, tail |-> Nil, tailHere |-> TRUE]
  BY DEF Empty
<1>3. 1 \in Level /\ \A i \in Level : i \in Nat /\ i >= 1  BY DEF Level
<1>4. Empty \in ListRecord  BY <1>2, <1>3 DEF ListRecord, From
<1>5. Nodes(Empty) = {} /\ \A i \in Level : At(Empty, i) = {}
  <2>1. \A i \in Level : ~(0 >= i)  BY <1>3
  <2> QED  BY <1>2, <2>1 DEF Nodes, At
<1>6. \A i \in Level : Empty.next[i][Header] = Nil  BY <1>2
<1>7. \A i \in Level : OnChain(Empty, i)  BY <1>5, <1>6 DEF OnChain, Chain
<1>8. Ascending(At(Empty, 1), Empty.next[1])  BY <1>3, <1>5, <1>6, Names DEF Ascending
<1>9. Empty.num = Cardinality(At(Empty, 1))
  <2>1. Empty.num = 0  BY <1>2
  <2>2. At(Empty, 1) = {}  BY <1>3, <1>5
  <2>3. Cardinality({}) = 0  BY FS_EmptySet
  <2> QED  BY <2>1, <2>2, <2>3
<1>10. Empty.cur = 1 /\ \A n \in Key : Empty.height[n] <= Empty.cur  BY <1>2
<1>11. ListOK(Empty)  BY <1>4, <1>7, <1>8, <1>9, <1>10 DEF ListOK
<1>12. TailOK(Empty)  BY <1>2, <1>5 DEF TailOK
<1>13. \A l \in Lists : list[l] = Empty  BY <1>1
<1>14. list \in [Lists -> ListRecord]  BY <1>1, <1>4
<1> QED  BY <1>1, <1>11, <1>12, <1>13, <1>14 DEF ListsInv, CopyIsExact

(* One list is replaced. *)
LEMMA Replaced ==
  ASSUME ListsInv, NEW l \in Lists, NEW L, ListOK(L), TailOK(list[l]) => TailOK(L),
         list' = [list EXCEPT ![l] = L], wild' \in BOOLEAN, copied' \in BOOLEAN, swapped' = swapped, CopyIsExact'
  PROVE  ListsInv'
<1>1. L \in ListRecord  BY DEF ListOK
<1>2. list \in [Lists -> ListRecord]  BY DEF ListsInv
<1>3. list' \in [Lists -> ListRecord] /\ list'[l] = L /\ \A m \in Lists \ {l} : list'[m] = list[m]
  BY <1>1, <1>2
<1>4. \A m \in Lists : ListOK(list'[m]) /\ (swapped \/ TailOK(list'[m]))
  <2> TAKE m \in Lists
  <2>1. ListOK(list[m]) /\ (swapped \/ TailOK(list[m])) /\ (swapped \/ TailOK(list[l]))  BY DEF ListsInv
  <2>2. CASE m = l  BY <1>3, <2>1, <2>2
  <2>3. CASE m # l  BY <1>3, <2>1, <2>3
  <2> QED  BY <2>2, <2>3
<1>5. swapped' \in BOOLEAN  BY DEF ListsInv
<1> QED  BY <1>3, <1>4, <1>5 DEF ListsInv

(* A change of one list that keeps it sound. *)
LEMMA ChangeInv ==
  ASSUME ListsInv, NEW l \in Lists, NEW L, ListOK(L), TailOK(list[l]) => TailOK(L), Change(l, L)
  PROVE  ListsInv'
<1>1. list' = [list EXCEPT ![l] = L] /\ copied' = FALSE /\ wild' = wild /\ swapped' = swapped  BY DEF Change
<1>2. wild' \in BOOLEAN  BY <1>1 DEF ListsInv
<1>3. CopyIsExact'  BY <1>1 DEF CopyIsExact
<1> QED  BY <1>1, <1>2, <1>3, Replaced

(* Linking a node of any height at the place of its key. *)
LEMMA InsertNodeInv ==
  ASSUME ListsInv, NEW l \in Lists, NEW k \in Key, NEW cache, CacheOK(list[l], cache),
         k \notin Nodes(list[l]), cache[1] < k, k < list[l].next[1][cache[1]], InsertNode(l, k, cache)
  PROVE  ListsInv'
<1>1. ListOK(list[l])  BY DEF ListsInv
<1>2. PICK h \in Level :
        IF LinksWild(list[l], cache, h)
          THEN wild' = TRUE /\ copied' = FALSE /\ UNCHANGED <<list, swapped>>
          ELSE Change(l, Link(list[l], k, cache, h))
  BY DEF InsertNode
<1>3. CASE LinksWild(list[l], cache, h)
  <2>1. wild' = TRUE /\ copied' = FALSE /\ list' = list /\ swapped' = swapped  BY <1>2, <1>3
  <2> QED  BY <2>1 DEF ListsInv, CopyIsExact
<1>4. CASE ~LinksWild(list[l], cache, h)
  <2> DEFINE M == Link(list[l], k, cache, h)
             c == Filled(list[l], cache, h)
  <2>1. Change(l, M)  BY <1>2, <1>4
  <2>2. ListOK(M) /\ (TailOK(list[l]) => TailOK(M))  BY <1>1, <1>4, Linked
  <2> HIDE DEF M
  <2> QED  BY <2>1, <2>2, ChangeInv
<1> QED  BY <1>3, <1>4

-----------------------------------------------------------------------------
(***************************************************************************)
(* The modifiers, one by one.                                              *)
(***************************************************************************)
LEMMA InsertInv ==
  ASSUME ListsInv, NEW l \in Lists, NEW k \in Key, Insert(l, k)
  PROVE  ListsInv'
<1> DEFINE L == list[l]
           f == Find(L, k)
<1>1. ListOK(L)  BY DEF ListsInv
<1>2. f.hit = Nil /\ InsertNode(l, k, f.cache)  BY DEF Insert
<1>3. /\ CacheOK(L, f.cache) /\ f.hit = (IF k \in Nodes(L) THEN k ELSE Nil)
      /\ k \notin Nodes(L) => f.cache[1] < k /\ k < L.next[1][f.cache[1]]
  BY <1>1, FindFinds
<1>4. k # Nil  BY Names
<1> HIDE DEF f
<1>5. k \notin Nodes(L)  BY <1>2, <1>3, <1>4
<1> QED  BY <1>2, <1>3, <1>5, InsertNodeInv

(* erase() of a key that is there. *)
LEMMA EraseInv ==
  ASSUME ListsInv, NEW l \in Lists, NEW k \in Key, Erase(l, k)
  PROVE  ListsInv'
<1> DEFINE L == list[l]
           M == Unlink(L, k)
<1>1. ListOK(L)  BY DEF ListsInv
<1>2. Find(L, k).hit # Nil /\ Change(l, M)  BY DEF Erase
<1>3. k \in Nodes(L)  BY <1>1, <1>2, FindFinds
<1>4. ListOK(M) /\ (TailOK(L) => TailOK(M))  BY <1>1, <1>3, Unlinked
<1> HIDE DEF M
<1> QED  BY <1>2, <1>4, ChangeInv

(* A hint behind the key stops the second search where the key belongs. *)
LEMMA InsertHintInv ==
  ASSUME ListsInv, ~AnyHint, NEW l \in Lists, NEW k \in Key, NEW pos \in Key \cup {Nil}, InsertHint(l, pos, k)
  PROVE  ListsInv'
<1> DEFINE L == list[l]
           f == FindIn(L, k, pos, Nil, NoCache)
           g == FindIn(L, k, Nil, pos, f.cache)
<1>1. ListOK(L)  BY DEF ListsInv
<1>2. /\ pos # Nil => L.height[pos] # 0 /\ k < pos
      /\ g.hit = Nil /\ InsertNode(l, k, g.cache)
  BY DEF InsertHint
<1>3. pos \in Nodes(L) \cup {Nil} /\ k < pos
  <2>1. k < Nil  BY Names
  <2> QED  BY <1>2, <2>1 DEF Nodes
<1>4. CacheOK(L, f.cache)
  <2>1. CacheOK(L, NoCache)  BY NothingCached
  <2>2. Searched(L, k, pos, Nil, NoCache, f)  BY <1>1, <1>3, <2>1, Search
  <2> QED  BY <2>2 DEF Searched
<1>5. Searched(L, k, Nil, pos, f.cache, g)  BY <1>1, <1>4, Search
<1> HIDE DEF f, g
<1>6. /\ CacheOK(L, g.cache) /\ g.cache[1] \in Nodes(L) \cup {Header} /\ g.cache[1] < k
      /\ k < L.next[1][g.cache[1]]
  <2>1. k < Nil  BY Names
  <2> QED  BY <1>2, <1>3, <1>5, <2>1 DEF Searched
<1>7. k \notin Nodes(L)  BY <1>1, <1>6, NotThere
<1> QED  BY <1>2, <1>6, <1>7, InsertNodeInv

(* erase(first, last). *)
LEMMA EraseRangeInv ==
  ASSUME ListsInv, NEW l \in Lists, NEW first \in Key, NEW last \in Key \cup {Nil}, EraseRange(l, first, last)
  PROVE  ListsInv'
<1> DEFINE L == list[l]
           r == UnlinkUpTo(L, first, last)[MaxKey]
<1>1. ListOK(L)  BY DEF ListsInv
<1>2. first \in Nodes(L) /\ Change(l, r.list)  BY DEF EraseRange, Nodes
<1>3. ListOK(r.list) /\ (TailOK(L) => TailOK(r.list))  BY <1>1, <1>2, RangeUnlinked
<1> HIDE DEF r
<1> QED  BY <1>2, <1>3, ChangeInv

(* insert(first, last), from any node of the other list. *)
LEMMA InsertRangeInv ==
  ASSUME ListsInv, NEW l \in Lists, NEW m \in Lists, NEW k \in Key, InsertRange(l, m, k)
  PROVE  ListsInv'
<1>1. ListOK(list[l]) /\ ListOK(list[m])  BY DEF ListsInv
<1>2. PICK hs \in [Key -> Level] :
        LET r == InsertKeys(list[l], list[m], k, hs)[MaxKey]
        IN  /\ list' = [list EXCEPT ![l] = r.list]
            /\ wild' = r.wild /\ copied' = FALSE /\ UNCHANGED swapped
  BY DEF InsertRange, Tossed
<1> DEFINE r == InsertKeys(list[l], list[m], k, hs)[MaxKey]
<1>3. list' = [list EXCEPT ![l] = r.list] /\ wild' = r.wild /\ copied' = FALSE /\ swapped' = swapped  BY <1>2
<1>4. k \in Nodes(list[m]) \cup {Nil}  BY DEF InsertRange, Nodes
<1>5. ListOK(r.list) /\ r.wild \in BOOLEAN /\ (TailOK(list[l]) => TailOK(r.list))
  <2> DEFINE L == list[l]
             M == list[m]
  <2>1. ListOK(L) /\ ListOK(M) /\ k \in Nodes(M) \cup {Nil} /\ r = InsertKeys(L, M, k, hs)[MaxKey]
    BY <1>1, <1>4
  <2> HIDE DEF L, M, r
  <2>2. ListOK(r.list) /\ r.wild \in BOOLEAN /\ (TailOK(L) => TailOK(r.list))  BY <2>1, KeysInserted
  <2> QED  BY <2>2 DEF L
<1> HIDE DEF r
<1>6. CopyIsExact'  BY <1>3 DEF CopyIsExact
<1> QED  BY <1>3, <1>5, <1>6, Replaced

(* clear(). *)
LEMMA ClearInv ==
  ASSUME ListsInv, NEW l \in Lists, Clear(l)
  PROVE  ListsInv'
<1>1. ListOK(list[l])  BY DEF ListsInv
<1>2. Change(l, Cleared(list[l]))  BY DEF Clear
<1>3. ListOK(Cleared(list[l])) /\ (TailOK(list[l]) => TailOK(Cleared(list[l])))  BY <1>1, ClearedOK
<1> QED  BY <1>2, <1>3, ChangeInv

(* A copy has all keys of the other list, and the model does not end. *)
LEMMA AssignInv ==
  ASSUME ListsInv, NEW l \in Lists, NEW m \in Lists, Assign(l, m)
  PROVE  ListsInv'
<1> DEFINE C == Cleared(list[l])
           source == IF l = m THEN C ELSE list[m]
           first == source.next[1][Header]
<1>1. ListOK(list[l]) /\ ListOK(list[m])  BY DEF ListsInv
<1>2. PICK hs \in [Key -> Level] :
        LET r == InsertKeys(C, source, first, hs)[MaxKey]
        IN  /\ list' = [list EXCEPT ![l] = r.list]
            /\ wild' = r.wild /\ copied' = (l # m) /\ UNCHANGED swapped
  BY DEF Assign, Tossed
<1> DEFINE r == InsertKeys(C, source, first, hs)[MaxKey]
<1>3. list' = [list EXCEPT ![l] = r.list] /\ wild' = r.wild /\ copied' = (l # m) /\ swapped' = swapped  BY <1>2
<1>4. ListOK(C) /\ Nodes(C) = {} /\ (TailOK(list[l]) => TailOK(C))  BY <1>1, ClearedOK
<1> HIDE DEF C
<1>5. ListOK(source)  BY <1>1, <1>4
<1> HIDE DEF source
<1>6. first \in Nodes(source) \cup {Nil} /\ \A n \in Nodes(source) : first <= n
  <2>1. /\ \A n \in Nodes(source) \cup {Header}, x \in Nodes(source) : n < x => source.next[1][n] <= x
        /\ first \in Nodes(source) \cup {Nil} /\ Nodes(source) \subseteq Key
    BY <1>5, Bottom
  <2>2. \A n \in Nodes(source) : Header < n  BY <2>1, Names
  <2> QED  BY <2>1, <2>2
<1> HIDE DEF first
<1>7. /\ ListOK(r.list) /\ r.wild \in BOOLEAN /\ (TailOK(C) => TailOK(r.list))
      /\ ~r.wild /\ Nodes(r.list) = {n \in Nodes(source) : first <= n}
  BY <1>4, <1>5, <1>6, KeysInserted
<1> HIDE DEF r
<1>8. Nodes(r.list) = Nodes(source)  BY <1>6, <1>7
<1>9. CopyIsExact'
  <2> SUFFICES ASSUME l # m PROVE ~wild' /\ \A a, b \in Lists : Nodes(list'[a]) = Nodes(list'[b])
    BY <1>3 DEF CopyIsExact, Nodes
  <2>1. list \in [Lists -> ListRecord]  BY DEF ListsInv
  <2>2. list'[l] = r.list /\ list'[m] = list[m]  BY <1>3, <2>1
  <2>3. Nodes(list'[l]) = Nodes(list'[m])  BY <1>8, <2>2 DEF source
  <2>4. \A a \in Lists : a = l \/ a = m  BY DEF Lists
  <2> QED  BY <1>3, <1>7, <2>3, <2>4
<1> QED  BY <1>3, <1>4, <1>7, <1>9, Replaced

(* swap() exchanges all but the tails. *)
LEMMA SwapInv ==
  ASSUME ListsInv, Swap
  PROVE  ListsInv'
<1> DEFINE o(l) == CHOOSE m \in Lists : m # l
<1>1. list' = [l \in Lists |-> KeepsTail(list[l], list[o(l)])] /\ swapped' = TRUE /\ copied' = FALSE /\ wild' = wild
  BY DEF Swap
<1>2. \A l \in Lists : o(l) \in Lists
  <2> TAKE l \in Lists
  <2>1. \E m \in Lists : m # l  BY DEF Lists
  <2> QED  BY <2>1
<1> HIDE DEF o
<1>3. \A l \in Lists : ListOK(KeepsTail(list[l], list[o(l)]))  BY <1>2, KeepsTailOK DEF ListsInv
<1>4. \A l \in Lists : ListOK(list'[l])  BY <1>1, <1>3
<1>5. list' \in [Lists -> ListRecord]  BY <1>1, <1>3 DEF ListOK
<1> QED  BY <1>1, <1>4, <1>5 DEF ListsInv, CopyIsExact

(* Every step keeps the invariant. *)
LEMMA ListsStep == ASSUME ~AnyHint PROVE ListsInv /\ [Next]_vars => ListsInv'
<1> SUFFICES ASSUME ListsInv, [Next]_vars PROVE ListsInv'  OBVIOUS
<1>1. ASSUME NEW l \in Lists, NEW k \in Key, Insert(l, k) PROVE ListsInv'  BY <1>1, InsertInv
<1>2. ASSUME NEW l \in Lists, NEW k \in Key, Erase(l, k) PROVE ListsInv'  BY <1>2, EraseInv
<1>3. ASSUME NEW l \in Lists, NEW k \in Key, NEW pos \in Key \cup {Nil}, InsertHint(l, pos, k) PROVE ListsInv'
  BY <1>3, InsertHintInv
<1>4. ASSUME NEW l \in Lists, NEW k \in Key, NEW pos \in Key \cup {Nil}, EraseRange(l, k, pos) PROVE ListsInv'
  BY <1>4, EraseRangeInv
<1>5. ASSUME NEW l \in Lists, NEW m \in Lists, NEW k \in Key, InsertRange(l, m, k) PROVE ListsInv'
  BY <1>5, InsertRangeInv
<1>6. ASSUME NEW l \in Lists, Clear(l) PROVE ListsInv'  BY <1>6, ClearInv
<1>7. ASSUME NEW l \in Lists, NEW m \in Lists, Assign(l, m) PROVE ListsInv'  BY <1>7, AssignInv
<1>8. CASE Swap  BY <1>8, SwapInv
<1>9. CASE UNCHANGED vars
  <2>1. list' = list /\ wild' = wild /\ swapped' = swapped /\ copied' = copied  BY <1>9 DEF vars
  <2> QED  BY <2>1 DEF ListsInv, CopyIsExact
<1> QED  BY <1>1, <1>2, <1>3, <1>4, <1>5, <1>6, <1>7, <1>8, <1>9 DEF Next

-----------------------------------------------------------------------------
(***************************************************************************)
(* What the invariant says of a caller's view.                             *)
(***************************************************************************)
LEMMA LevelsLinked ==
  ASSUME NEW L, ListOK(L), NEW i \in Level
  PROVE  LinkedOn(L, i)
<1> DEFINE at == {n \in Nodes(L) : L.height[n] >= i}
           N == At(L, i)
<1>1. at = N
  <2>1. i \in Nat /\ i >= 1  BY DEF Level
  <2>2. \A n \in Key : L.height[n] \in Nat  BY DEF ListOK, ListRecord
  <2> QED  BY <2>1, <2>2 DEF At, Nodes
<1>2. Chain(N, L.next[i], L.prev[i]) /\ N \in SUBSET Key  BY DEF ListOK, OnChain, At
<1> HIDE DEF N
<1>3. \E n \in N \cup {Header} : L.next[i][n] = Nil  BY <1>2, SomeLast
<1>4. {L.next[i][n] : n \in N \cup {Header}} = N \cup {Nil}
  <2>1. \A n \in N \cup {Header} : L.next[i][n] \in N \cup {Nil}  BY <1>2 DEF Chain
  <2>2. \A n \in N : L.prev[i][n] \in N \cup {Header} /\ L.next[i][L.prev[i][n]] = n  BY <1>2 DEF Chain
  <2> QED  BY <1>3, <2>1, <2>2
<1>5. /\ \A n \in N \cup {Header} : L.next[i][n] # Nil => L.prev[i][L.next[i][n]] = n
      /\ \A n \in N : L.prev[i][n] \in N \cup {Header} /\ L.next[i][L.prev[i][n]] = n
  BY <1>2 DEF Chain
<1> QED  BY <1>1, <1>4, <1>5 DEF LinkedOn

(***************************************************************************)
(* The links in the two directions agree on every level, every node is     *)
(* reached once, and size() counts them.                                   *)
(***************************************************************************)
LEMMA InvLinked == ListsInv => TypeOK
<1> SUFFICES ASSUME ListsInv PROVE TypeOK  OBVIOUS
<1>1. ASSUME NEW l \in Lists
      PROVE  /\ list[l].height \in [Key -> 0..MaxHeight]
             /\ list[l].tail \in Key \cup {Nil} /\ list[l].tailHere \in BOOLEAN
             /\ list[l].num = Cardinality(Nodes(list[l]))
             /\ \A i \in Level : LinkedOn(list[l], i)
  <2>1. ListOK(list[l])  BY DEF ListsInv
  <2>2. \A i \in Level : LinkedOn(list[l], i)  BY <2>1, LevelsLinked
  <2>3. Nodes(list[l]) = At(list[l], 1)  BY <2>1, Bottom
  <2>4. list[l] \in ListRecord /\ list[l].num = Cardinality(At(list[l], 1))  BY <2>1 DEF ListOK
  <2> QED  BY <2>2, <2>3, <2>4 DEF ListRecord
<1> QED  BY <1>1 DEF TypeOK, ListsInv

(* Searches find what is there; height, tail and copies are right. *)
LEMMA InvSound == ListsInv => ListsSound
<1> SUFFICES ASSUME ListsInv PROVE ListsSound  OBVIOUS
<1>0. \A l \in Lists : ListOK(list[l])  BY DEF ListsInv
<1>1. EveryKeyFound  BY <1>0, SearchesRight DEF EveryKeyFound
<1>2. HeightExact
  <2> SUFFICES ASSUME NEW l \in Lists
               PROVE  LET L == list[l]
                          H == {L.height[n] : n \in Nodes(L)} \cup {1}
                      IN  L.cur \in H /\ \A h \in H : h <= L.cur
    BY DEF HeightExact
  <2> DEFINE L == list[l]
             H == {L.height[n] : n \in Nodes(L)} \cup {1}
  <2>1. L.cur \in Nat /\ L.cur >= 1 /\ \A n \in Key : L.height[n] <= L.cur
    BY <1>0 DEF ListOK, ListRecord, Level
  <2>2. \A h \in H : h <= L.cur  BY <2>1 DEF Nodes
  <2>3. L.cur \in H
    <3>1. CASE L.cur = 1  BY <3>1
    <3>2. CASE L.cur # 1
      <4>1. PICK n \in Key : L.height[n] = L.cur  BY <1>0, <3>2 DEF ListOK
      <4>2. n \in Nodes(L)  BY <2>1, <4>1 DEF Nodes
      <4> QED  BY <4>1, <4>2
    <3> QED  BY <3>1, <3>2
  <2> QED  BY <2>2, <2>3
<1>3. TailIsLast
  <2> SUFFICES ASSUME ~swapped, NEW l \in Lists, list[l].num > 0
               PROVE  /\ list[l].tailHere /\ list[l].tail \in Nodes(list[l])
                      /\ \A n \in Nodes(list[l]) : n <= list[l].tail
    BY DEF TailIsLast
  <2> DEFINE L == list[l]
  <2>1. ListOK(L) /\ TailOK(L)  BY <1>0 DEF ListsInv
  <2>2. Nodes(L) # {}
    <3>1. L.num = Cardinality(Nodes(L))  BY <2>1, Bottom DEF ListOK
    <3>2. Cardinality({}) = 0  BY FS_EmptySet
    <3>3. L.num > 0  OBVIOUS
    <3> HIDE DEF L
    <3> QED  BY <3>1, <3>2, <3>3
  <2> HIDE DEF L
  <2>3. L.tailHere /\ L.tail \in Nodes(L) /\ L.next[1][L.tail] = Nil  BY <2>1, <2>2 DEF TailOK
  <2>4. \A n \in Nodes(L) : n <= L.tail
    <3> TAKE n \in Nodes(L)
    <3>1. Nodes(L) \subseteq Key /\ (L.tail < n => L.next[1][L.tail] <= n)  BY <2>1, <2>3, Bottom
    <3>2. n \in Nat /\ n < Nil /\ L.tail \in Nat /\ Nil \in Nat  BY <2>3, <3>1, Names
    <3> QED  BY <2>3, <3>1, <3>2
  <2> QED  BY <2>3, <2>4 DEF L
<1>4. CopyIsExact  BY DEF ListsInv
<1> QED  BY <1>1, <1>2, <1>3, <1>4 DEF ListsSound

(***************************************************************************)
(* Two skiplists after every sequence of insert, insert with a hint, range *)
(* insert, erase, range erase, clear, assignment and swap, for any number  *)
(* of keys and any heights: unless a hint lies behind the place of its key *)
(* a search finds exactly what is there, lower_bound() and upper_bound()   *)
(* the next, the current height is the highest node's, rbegin() is the     *)
(* last element of lists nobody swapped, and a copy is complete.           *)
(***************************************************************************)
THEOREM ListsAreSound == ~AnyHint /\ Spec => []ListsSound
<1> SUFFICES ASSUME ~AnyHint PROVE Spec => []ListsSound  OBVIOUS
<1>1. Init => ListsInv  BY ListsInit
<1>2. ListsInv /\ [Next]_vars => ListsInv'  BY ListsStep
<1>3. ListsInv => ListsSound  BY InvSound
<1> QED  BY <1>1, <1>2, <1>3, PTL DEF Spec

(***************************************************************************)
(* And on every level the links agree in the two directions, from the      *)
(* header through every node of at least that height to the end, and       *)
(* size() counts the nodes.                                                *)
(***************************************************************************)
THEOREM LinksAgree == ~AnyHint /\ Spec => []TypeOK
<1> SUFFICES ASSUME ~AnyHint PROVE Spec => []TypeOK  OBVIOUS
<1>1. Init => ListsInv  BY ListsInit
<1>2. ListsInv /\ [Next]_vars => ListsInv'  BY ListsStep
<1>3. ListsInv => TypeOK  BY InvLinked
<1> QED  BY <1>1, <1>2, <1>3, PTL DEF Spec
=============================================================================
