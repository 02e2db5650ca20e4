---------------------------- MODULE RecencyList ----------------------------
(***************************************************************************)
(* What chef::lru (src/include/chef_base/chef_lru.hpp) promises to its     *)
(* user: at most rlCapacity pairs in the order of their last use, the      *)
(* latest first, with one pair for a key; a use of a key moves its pair to *)
(* the front and whatever does not fit is forgotten from the back.         *)
(***************************************************************************)
EXTENDS Integers, Sequences, SequencesExt

CONSTANTS RlKey, RlValue

VARIABLES
  rlCapacity,
  rlItems        \* the pairs, the latest first

rlVars == <<rlCapacity, rlItems>>

RlInit == rlCapacity \in Nat /\ rlItems = << >>

RlAt(k)      == {i \in DOMAIN rlItems : rlItems[i][1] = k}
RlWithout(k) == IF RlAt(k) = {} THEN rlItems ELSE RemoveAt(rlItems, CHOOSE i \in RlAt(k) : TRUE)
RlFits(s)    == SubSeq(s, 1, IF Len(s) > rlCapacity THEN rlCapacity ELSE Len(s))
RlUse(k, v)  == rlItems' = RlFits(<< <<k, v>> >> \o RlWithout(k)) /\ UNCHANGED rlCapacity

RlPut(k, v) == RlUse(k, v)
RlGet(k)    == \E v \in RlValue : <<k, v>> \in Range(rlItems) /\ RlUse(k, v)

RlNext == \E k \in RlKey : RlGet(k) \/ \E v \in RlValue : RlPut(k, v)

RlSpec == RlInit /\ [][RlNext]_rlVars
=============================================================================
