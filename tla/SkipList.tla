------------------------------ MODULE SkipList ------------------------------
(***************************************************************************)
(* chef::skiplist (src/include/chef_base/chef_skiplist.hpp): nodes linked  *)
(* in both directions on levels 1..MaxHeight, levels_[i - 1] in the code,  *)
(* a header, and fields for the current height, the size and the last      *)
(* node.  Two lists and every sequence of modifiers on them; a node is     *)
(* named by its key and keeps its name when swap() moves it.               *)
(*                                                                         *)
(* find_() leaves in a cache where it went down from each level, and       *)
(* insert_() links the new node behind the cached ones.  The cache is a    *)
(* vector with reserved memory and no elements, so an entry find_() did    *)
(* not write is garbage: insert_() through it is undefined, and the model  *)
(* ends there (wild).                                                      *)
(***************************************************************************)
EXTENDS Integers, Sequences, FiniteSets

CONSTANTS
  MaxKey,      \* bound: the keys are 1..MaxKey
  MaxHeight,   \* max_height_ (12 in the code)
  AnyHint      \* whether callers give hints behind which the key belongs

ASSUME SkipListAssumption ==
  MaxKey \in Nat /\ MaxHeight \in Nat \ {0} /\ AnyHint \in BOOLEAN

Key   == 1..MaxKey
Level == 1..MaxHeight
Header  == 0
Nil   == MaxKey + 1
Unset == -1
Lists == {"x", "y"}

VARIABLES
  list,      \* the two lists
  wild,      \* history: insert_() has followed an entry nobody wrote
  swapped,   \* history: swap() has been called
  copied     \* history: whether the last step was an assignment of the other list

vars == <<list, wild, swapped, copied>>

Empty ==
  [next |-> [i \in Level |-> [n \in Key \cup {Header} |-> Nil]],
   prev |-> [i \in Level |-> [n \in Key |-> Nil]],
   height |-> [n \in Key |-> 0],               \* 0: there is no such node
   cur |-> 1, num |-> 0,
   tail |-> Nil, tailHere |-> TRUE]            \* tailHere: tail_ is a node of this list

Init ==
  /\ list = [l \in Lists |-> Empty]
  /\ wild = FALSE /\ swapped = FALSE /\ copied = FALSE

NoCache    == [i \in Level |-> Unset]
HeightOf(L, n) == IF n = Header THEN MaxHeight ELSE L.height[n]

-----------------------------------------------------------------------------
(***************************************************************************)
(* A loop is a function: what its variables are after t turns.  One that   *)
(* has ended stays as it is, and MaxKey turns are enough for every loop    *)
(* along a level.                                                          *)
(*                                                                         *)
(* find_(): on each level from h down past the smaller keys, until the     *)
(* key is hit.                                                             *)
(***************************************************************************)
Passed(L, k, epos, i, d) ==
  LET n == L.next[i][d] IN IF n \notin {Nil, epos} /\ k > n THEN n ELSE d

Walk(L, k, epos, i, d) ==
  LET at[t \in 0..MaxKey] == IF t = 0 THEN d ELSE Passed(L, k, epos, i, at[t - 1])
  IN  at

OnLevel(L, k, epos, i, s) ==
  LET d == Walk(L, k, epos, i, s.at)[MaxKey] IN
  IF s.hit # Nil THEN s
  ELSE IF L.next[i][d] \notin {Nil, epos} /\ k = L.next[i][d] THEN [s EXCEPT !.hit = k]
  ELSE [s EXCEPT !.at = d, !.cache[i] = d]

Descend(L, k, epos, d, h, cache) ==
  LET down[t \in 0..h] == IF t = 0 THEN [at |-> d, hit |-> Nil, cache |-> cache]
                         ELSE OnLevel(L, k, epos, h - t + 1, down[t - 1])
  IN  down

FindIn(L, k, bpos, epos, cache) ==
  LET d == IF bpos = Nil THEN Header ELSE L.prev[1][bpos]
      h == IF bpos = Nil THEN L.cur ELSE HeightOf(L, d)
  IN  Descend(L, k, epos, d, h, cache)[h]

Find(L, k) == FindIn(L, k, Nil, Nil, NoCache)

LowerBound(L, k) ==
  LET f == Find(L, k) IN IF f.hit # Nil THEN f.hit ELSE L.next[1][f.cache[1]]

UpperBound(L, k) ==
  LET f == Find(L, k) IN IF f.hit # Nil THEN L.next[1][f.hit] ELSE L.next[1][f.cache[1]]

(***************************************************************************)
(* insert_() of a node with height h.                                      *)
(***************************************************************************)

Filled(L, cache, h) ==
  [i \in Level |-> IF L.cur < i /\ i <= h THEN Header ELSE cache[i]]

BackLinkForgotten(f, n, k) == f                      \* deviation: one of four links
BackLink(f, n, k) == IF n = Nil THEN f ELSE [f EXCEPT ![n] = k]

TailAfter(L, c, k)     == IF L.next[1][c[1]] = Nil THEN k ELSE L.tail

Link(L, k, cache, h) ==
  LET c == Filled(L, cache, h) IN
  [next |-> [i \in Level |-> IF i > h THEN L.next[i]
               ELSE [L.next[i] EXCEPT ![k] = L.next[i][c[i]], ![c[i]] = k]],
   prev |-> [i \in Level |-> IF i > h THEN L.prev[i]
               ELSE [BackLink(L.prev[i], L.next[i][c[i]], k) EXCEPT ![k] = c[i]]],
   height |-> [L.height EXCEPT ![k] = h],
   cur |-> IF h > L.cur THEN h ELSE L.cur,
   num |-> L.num + 1,
   tail |-> TailAfter(L, c, k),
   tailHere |-> L.tailHere \/ L.next[1][c[1]] = Nil]

LinksWild(L, cache, h) == \E i \in 1..h : Filled(L, cache, h)[i] = Unset

(***************************************************************************)
(* erase_(): unlink on every level of the node, lower the current height   *)
(* if the highest node went, step the tail back.                           *)
(***************************************************************************)
LowerHeight(next, cur, h) ==
  IF h # 1 /\ h = cur
    THEN CHOOSE c \in 1..cur : /\ c = 1 \/ next[c][Header] # Nil
                               /\ \A i \in c + 1..cur : next[i][Header] = Nil
    ELSE cur

AboveBottom(h) == 2..h                               \* deviation: level 0 is left
LevelsOf(h)    == 1..h

Unlink(L, n) ==
  LET h == L.height[n]
      p == L.prev
      next == [i \in Level |-> IF i \notin LevelsOf(h) THEN L.next[i]
                 ELSE [L.next[i] EXCEPT ![p[i][n]] = L.next[i][n], ![n] = Nil]]
      last == L.tailHere /\ L.tail = n
  IN  [next |-> next,
       prev |-> [i \in Level |-> IF i \notin LevelsOf(h) THEN p[i]
                   ELSE [BackLink(p[i], L.next[i][n], p[i][n]) EXCEPT ![n] = Nil]],
       height |-> [L.height EXCEPT ![n] = 0],
       cur |-> LowerHeight(next, L.cur, h),
       num |-> L.num - 1,
       tail |-> CASE last /\ p[1][n] = Header -> Nil
                  [] last /\ p[1][n] # Header -> p[1][n]
                  [] ~last -> L.tail,
       tailHere |-> L.tailHere]

(***************************************************************************)
(* insert_range_effective_(): the keys of the list M from iter on, each    *)
(* searched from the place of the one before, with one cache for all.      *)
(***************************************************************************)
InsertTurn(M, hs, s) ==
  LET k == s.iter
      f == FindIn(s.list, k, s.pos, Nil, s.cache)
      c == Filled(s.list, f.cache, hs[k])
  IN  IF s.wild \/ s.iter = Nil THEN s
      ELSE IF f.hit # Nil
        THEN [s EXCEPT !.pos = f.hit, !.cache = f.cache, !.iter = M.next[1][k]]
      ELSE IF LinksWild(s.list, f.cache, hs[k]) THEN [s EXCEPT !.wild = TRUE]
      ELSE [list |-> Link(s.list, k, f.cache, hs[k]), wild |-> FALSE,
            pos |-> k, cache |-> c, iter |-> M.next[1][k]]

InsertKeys(L, M, first, hs) ==
  LET turn[t \in 0..MaxKey] ==
        IF t = 0 THEN [list |-> L, wild |-> FALSE, pos |-> Nil, cache |-> NoCache, iter |-> first]
        ELSE InsertTurn(M, hs, turn[t - 1])
  IN  turn

-----------------------------------------------------------------------------
(***************************************************************************)
(* The modifiers.  Where the code tosses coins for the height of a new     *)
(* node, the model allows every height.                                    *)
(***************************************************************************)
Change(l, L) ==
  /\ ~wild
  /\ list' = [list EXCEPT ![l] = L]
  /\ copied' = FALSE
  /\ UNCHANGED <<wild, swapped>>

InsertNode(l, k, cache) ==
  /\ ~wild
  /\ \E h \in Level :
       IF LinksWild(list[l], cache, h)
         THEN wild' = TRUE /\ copied' = FALSE /\ UNCHANGED <<list, swapped>>
         ELSE Change(l, Link(list[l], k, cache, h))

(* insert(val), and operator[] for a key that is not there *)
Insert(l, k) ==
  /\ Find(list[l], k).hit = Nil
  /\ InsertNode(l, k, Find(list[l], k).cache)

(* insert(position, val): searches behind the hint, then before it *)
InsertHint(l, pos, k) ==
  LET L == list[l]
      f == FindIn(L, k, pos, Nil, NoCache)
      g == FindIn(L, k, Nil, pos, f.cache)
  IN  /\ pos # Nil => L.height[pos] # 0 /\ (AnyHint \/ k < pos)
      /\ f.hit = Nil /\ g.hit = Nil
      /\ InsertNode(l, k, g.cache)

(* The heights that are tossed: for the keys of M that are not in L, the others are not used. *)
Tossed(L, M) ==
  {hs \in [Key -> Level] : \A k \in Key : L.height[k] # 0 \/ M.height[k] = 0 => hs[k] = 1}

(* insert(first, last): all or the rear part of the other list *)
InsertRange(l, m, first) ==
  /\ ~wild
  /\ l # m /\ list[m].height[first] # 0
  /\ \E hs \in Tossed(list[l], list[m]) :
       LET r == InsertKeys(list[l], list[m], first, hs)[MaxKey]
       IN  /\ list' = [list EXCEPT ![l] = r.list]
           /\ wild' = r.wild /\ copied' = FALSE
           /\ UNCHANGED swapped

(* erase(k) and erase(position) *)
Erase(l, k) ==
  /\ Find(list[l], k).hit # Nil
  /\ Change(l, Unlink(list[l], k))

(* erase(first, last) *)
EraseTurn(last, s) ==
  IF s.iter \in {last, Nil} THEN s
  ELSE [list |-> Unlink(s.list, s.iter), iter |-> s.list.next[1][s.iter]]

UnlinkUpTo(L, first, last) ==
  LET turn[t \in 0..MaxKey] ==
        IF t = 0 THEN [list |-> L, iter |-> first] ELSE EraseTurn(last, turn[t - 1])
  IN  turn

EraseRange(l, first, last) ==
  /\ list[l].height[first] # 0
  /\ last # Nil => last > first /\ list[l].height[last] # 0
  /\ Change(l, UnlinkUpTo(list[l], first, last)[MaxKey].list)

(* clear() leaves tail_ as it is *)
Cleared(L) == [Empty EXCEPT !.tail = L.tail, !.tailHere = L.tailHere]

Clear(l) == Change(l, Cleared(list[l]))

(* operator=, also of a list to itself *)
Assign(l, m) ==
  LET source == IF l = m THEN Cleared(list[l]) ELSE list[m] IN
  /\ ~wild
  /\ \E hs \in Tossed(Cleared(list[l]), source) :
       LET r == InsertKeys(Cleared(list[l]), source, source.next[1][Header], hs)[MaxKey]
       IN  /\ list' = [list EXCEPT ![l] = r.list]
           /\ wild' = r.wild /\ copied' = (l # m)
           /\ UNCHANGED swapped

(* swap() exchanges everything but tail_ *)
KeepsTail(L, M) ==
  [M EXCEPT !.tail = L.tail, !.tailHere = (L.tail = Nil) \/ ~L.tailHere]

Swap ==
  /\ ~wild
  /\ list' = [l \in Lists |-> KeepsTail(list[l], list[CHOOSE m \in Lists : m # l])]
  /\ swapped' = TRUE /\ copied' = FALSE
  /\ UNCHANGED wild

Next ==
  \/ \E l \in Lists, k \in Key : Insert(l, k) \/ Erase(l, k)
  \/ \E l \in Lists, k \in Key, pos \in Key \cup {Nil} :
       InsertHint(l, pos, k) \/ EraseRange(l, k, pos)
  \/ \E l, m \in Lists, k \in Key : InsertRange(l, m, k)
  \/ \E l \in Lists : Clear(l)
  \/ \E l, m \in Lists : Assign(l, m)
  \/ Swap

Spec == Init /\ [][Next]_vars

-----------------------------------------------------------------------------
Nodes(L) == {n \in Key : L.height[n] # 0}

(***************************************************************************)
(* Types, and on every level the links in the two directions agree: the    *)
(* nodes of at least that height are each reached once, and size() counts  *)
(* them.                                                                   *)
(***************************************************************************)
LinkedOn(L, i) ==
  LET at == {n \in Nodes(L) : L.height[n] >= i}
      from == at \cup {Header}
  IN  /\ {L.next[i][n] : n \in from} = at \cup {Nil}
      /\ \A n \in from : L.next[i][n] # Nil => L.prev[i][L.next[i][n]] = n
      /\ \A n \in at : L.prev[i][n] \in from /\ L.next[i][L.prev[i][n]] = n

TypeOK ==
  /\ {wild, swapped, copied} \subseteq BOOLEAN
  /\ \A l \in Lists :
       /\ list[l].height \in [Key -> 0..MaxHeight]
       /\ list[l].tail \in Key \cup {Nil} /\ list[l].tailHere \in BOOLEAN
       /\ list[l].num = Cardinality(Nodes(list[l]))
       /\ \A i \in Level : LinkedOn(list[l], i)

(***************************************************************************)
(* After every sequence of modifiers a search finds exactly the keys that  *)
(* are there, and lower_bound() and upper_bound() the next ones: also when *)
(* insert(first, last) has linked a node on a high level out of order,     *)
(* through what its cache still held of an earlier search.                 *)
(***************************************************************************)
NextOf(S) == IF S = {} THEN Nil ELSE CHOOSE n \in S : \A m \in S : n <= m

EveryKeyFound ==
  \A l \in Lists, k \in Key :
    LET N == Nodes(list[l]) IN
    /\ Find(list[l], k).hit = IF k \in N THEN k ELSE Nil
    /\ LowerBound(list[l], k) = NextOf({n \in N : n >= k})
    /\ UpperBound(list[l], k) = NextOf({n \in N : n > k})

(***************************************************************************)
(* current_height_ is the height of the highest node, and 1 if there is    *)
(* none: insert_() takes the header as the predecessor above it, and a     *)
(* search that starts too low would miss nothing but time.                 *)
(***************************************************************************)
HeightExact ==
  \A l \in Lists :
    LET H == {list[l].height[n] : n \in Nodes(list[l])} \cup {1}
    IN  list[l].cur \in H /\ \A h \in H : h <= list[l].cur

(***************************************************************************)
(* rbegin() is the last element of a list with elements, as long as swap() *)
(* has not been called: clear() may leave the tail behind, the next        *)
(* insertion sets it.                                                      *)
(***************************************************************************)
TailIsLast ==
  swapped \/ \A l \in Lists :
    list[l].num > 0 => /\ list[l].tailHere
                       /\ list[l].tail \in Nodes(list[l])
                       /\ \A n \in Nodes(list[l]) : n <= list[l].tail

(***************************************************************************)
(* A copy of another list is complete and never links through an entry of  *)
(* the cache that nobody wrote, whatever heights the coins give: the first *)
(* two searches start at the header and fill it.                           *)
(***************************************************************************)
CopyIsExact ==
  copied => ~wild /\ \A l, m \in Lists : Nodes(list[l]) = Nodes(list[m])

(***************************************************************************)
(* A list after every sequence of modifiers: searches find what is there,  *)
(* the current height and the tail are right, copies are complete.         *)
(***************************************************************************)
ListsSound == EveryKeyFound /\ HeightExact /\ TailIsLast /\ CopyIsExact
=============================================================================
