-------------------------------- MODULE Lru --------------------------------
(***************************************************************************)
(* chef::lru (src/include/chef_base/chef_lru.hpp): a list of pairs and a   *)
(* map from keys to the nodes of the list.  A node that is erased may be   *)
(* used again by the next insertion.                                       *)
(***************************************************************************)
EXTENDS Integers, Sequences, SequencesExt

CONSTANTS
  LruKey, LruValue,
  LruNode,         \* the nodes: one more than the list ever has
  LruMaxCapacity   \* bound

ASSUME LruAssumption ==
  /\ LruKey # {} /\ LruValue # {} /\ LruMaxCapacity \in Nat
  /\ IsFiniteSet(LruNode) /\ Cardinality(LruNode) > LruMaxCapacity

VARIABLES
  lruCapacity,     \* capacity_
  lruList,         \* list_, as its nodes
  lruPair,         \* the pair in each node
  lruMap           \* map_: a function on the keys present

lruVars == <<lruCapacity, lruList, lruPair, lruMap>>

LruInit ==
  /\ lruCapacity \in 0..LruMaxCapacity
  /\ lruList = << >> /\ lruMap = << >>
  /\ lruPair = [n \in LruNode |-> CHOOSE p \in LruKey \X LruValue : TRUE]

LruErase(list, n) == RemoveAt(list, CHOOSE i \in DOMAIN list : list[i] = n)
LruFree(list)     == CHOOSE n \in LruNode : n \notin Range(list)

LruAssign(m, k, n) == [j \in DOMAIN m \cup {k} |-> IF j = k THEN n ELSE m[j]]      \* map_[k] = n

LruPushFront(list, k, v, map) ==
  LET n == LruFree(list) IN
  [list |-> <<n>> \o list, pair |-> [lruPair EXCEPT ![n] = <<k, v>>], map |-> LruAssign(map, k, n)]

LruForget(s) == LET old == s.pair[Last(s.list)][1] IN
                [k \in DOMAIN s.map \ {old} |-> s.map[k]]

LruEarly(s) ==       \* deviation: an off-by-one
  IF Len(s.list) >= lruCapacity
  THEN [s EXCEPT !.list = Front(s.list), !.map = LruForget(s)]
  ELSE s

LruEvict(s) ==
  IF Len(s.list) > lruCapacity
  THEN [s EXCEPT !.list = Front(s.list), !.map = LruForget(s)]
  ELSE s

LruBecomes(s) == lruList' = s.list /\ lruPair' = s.pair /\ lruMap' = s.map /\ UNCHANGED lruCapacity

LruPut(k, v) ==
  LET known == k \in DOMAIN lruMap
      list  == IF known THEN LruErase(lruList, lruMap[k]) ELSE lruList
      map   == [j \in DOMAIN lruMap \ {k} |-> lruMap[j]]
  IN LruBecomes(LruEvict(LruPushFront(list, k, v, map)))

LruGet(k) ==         \* a key that is not there changes nothing
  /\ k \in DOMAIN lruMap
  /\ LET node == lruMap[k] IN
     LruBecomes(LruPushFront(LruErase(lruList, node), k, lruPair[node][2], lruMap))

LruNext == \E k \in LruKey : LruGet(k) \/ \E v \in LruValue : LruPut(k, v)

LruSpec == LruInit /\ [][LruNext]_lruVars

-----------------------------------------------------------------------------
(***************************************************************************)
(* Types, and the map names for each key the one node that has it.         *)
(***************************************************************************)
LruTypeOK ==
  /\ lruPair \in [LruNode -> LruKey \X LruValue]
  /\ lruList \in Seq(LruNode) /\ IsInjective(lruList) /\ Len(lruList) <= lruCapacity
  /\ DOMAIN lruMap = {lruPair[n][1] : n \in Range(lruList)}
  /\ \A n \in Range(lruList) : lruMap[lruPair[n][1]] = n

(***************************************************************************)
(* The list is the recency list: put() and get() move a pair to the front, *)
(* and what was used longest ago is what is forgotten.                     *)
(***************************************************************************)
LruAbstract == INSTANCE RecencyList
  WITH RlKey <- LruKey, RlValue <- LruValue, rlCapacity <- lruCapacity,
       rlItems <- [i \in DOMAIN lruList |-> lruPair[lruList[i]]]

LruIsRecencyList == LruAbstract!RlSpec
=============================================================================
