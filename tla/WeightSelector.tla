--------------------------- MODULE WeightSelector ---------------------------
(***************************************************************************)
(* chef::weight_selector (src/include/chef_base/chef_weight_selector.hpp): *)
(* smooth weighted round robin.  The item with the highest current weight  *)
(* is chosen and pays the total, then every item gets its own weight.      *)
(***************************************************************************)
EXTENDS Integers, Sequences, SequencesExt, FiniteSetsExt, Functions

CONSTANTS
  WsItems,      \* the items in the order of the map
  WsWeights,    \* the weights that are set
  WsFloor,      \* 0xFFFFFFF: a current weight has to be above its negative
  WsWord,       \* the number of values of total_weight_
  WsMaxAdds     \* bound: the calls of add() for items that are there

WsItem == Range(WsItems)

ASSUME WsAssumption ==      \* the keys of a map are distinct
  /\ WsItems \in Seq(WsItem) /\ IsInjective(WsItems)
  /\ WsWeights \subseteq Nat /\ WsFloor \in Nat /\ WsWord \in Nat \ {0}

VARIABLES
  wsTotal,      \* total_weight_
  wsInitial,    \* item2weight_initial_: a function on the items present
  wsCurrent,    \* item2weight_current_
  wsAdds,       \* how often an item was added again
  wsPicked,     \* history: the choices of this round
  wsEven        \* history: the round began with every current weight at its initial one

wsVars == <<wsTotal, wsInitial, wsCurrent, wsAdds, wsPicked, wsEven>>

WsInit ==
  /\ wsTotal = 0
  /\ wsInitial = [i \in {} |-> 0] /\ wsCurrent = wsInitial
  /\ wsAdds = 0 /\ wsPicked = << >> /\ wsEven = TRUE

WsSet(f, i, w) == [j \in DOMAIN f \cup {i} |-> IF j = i THEN w ELSE f[j]]

WsNewTotal(i, w) == IF i \in DOMAIN wsInitial THEN wsTotal - wsInitial[i] + w ELSE wsTotal + w

WsAdd(i, w) ==
  /\ i \in DOMAIN wsInitial => wsAdds < WsMaxAdds
  /\ wsAdds' = IF i \in DOMAIN wsInitial THEN wsAdds + 1 ELSE wsAdds
  /\ wsTotal' = WsNewTotal(i, w) % WsWord
  /\ wsInitial' = WsSet(wsInitial, i, w)
  /\ wsCurrent' = WsSet(wsCurrent, i, w)
  /\ wsPicked' = << >> /\ wsEven' = (wsCurrent' = wsInitial')

WsCandidates == {i \in DOMAIN wsInitial : wsCurrent[i] > -WsFloor /\ wsInitial[i] > 0}

WsPlace(i) == CHOOSE n \in DOMAIN WsItems : WsItems[n] = i

WsChosen ==          \* the first of those with the highest current weight
  CHOOSE i \in WsCandidates : \A j \in WsCandidates \ {i} :
    \/ wsCurrent[j] < wsCurrent[i]
    \/ wsCurrent[j] = wsCurrent[i] /\ WsPlace(i) < WsPlace(j)

WsHalf(i)  == wsCurrent[i] - wsTotal \div 2      \* deviation: the chosen item pays less
WsPaid(i)  == wsCurrent[i] - wsTotal

WsChoice ==          \* without a candidate the code goes on with an iterator nobody has set
  /\ wsTotal # 0 /\ WsCandidates # {}
  /\ wsCurrent' = [i \in DOMAIN wsCurrent |->
                     (IF i = WsChosen THEN WsPaid(i) ELSE wsCurrent[i]) + wsInitial[i]]
  /\ wsPicked' = IF Len(wsPicked) = wsTotal THEN <<WsChosen>> ELSE Append(wsPicked, WsChosen)
  /\ wsEven' = IF Len(wsPicked) = wsTotal THEN wsCurrent = wsInitial ELSE wsEven
  /\ UNCHANGED <<wsTotal, wsInitial, wsAdds>>

WsNext == WsChoice \/ \E i \in WsItem, w \in WsWeights : WsAdd(i, w)

WsSpec == WsInit /\ [][WsNext]_wsVars

-----------------------------------------------------------------------------
WsPicks(i) == Cardinality({n \in DOMAIN wsPicked : wsPicked[n] = i})

(***************************************************************************)
(* Types, and total_weight_ is the sum of the weights, as a uint32_t.      *)
(***************************************************************************)
WsTypeOK ==
  /\ DOMAIN wsInitial \subseteq WsItem /\ DOMAIN wsCurrent = DOMAIN wsInitial
  /\ \A i \in DOMAIN wsInitial : wsInitial[i] \in WsWeights /\ wsCurrent[i] \in Int
  /\ wsTotal = FoldFunction(+, 0, wsInitial) % WsWord

(***************************************************************************)
(* Weighted round robin: a round of as many choices as the total weight,   *)
(* begun evenly, chooses each item as often as its weight says, and ends   *)
(* evenly.                                                                 *)
(***************************************************************************)
WsFair ==
  wsEven /\ Len(wsPicked) = wsTotal /\ wsTotal > 0 =>
    wsCurrent = wsInitial /\ \A i \in DOMAIN wsInitial : WsPicks(i) = wsInitial[i]

(***************************************************************************)
(* The assertion at line 134: choice_one() finds an item.  It does as long *)
(* as the weights are not near 0xFFFFFFF, however often items are added    *)
(* again or set to 0 between two choices; and an item with the weight 0,   *)
(* which line 50 says is never returned, is not what it finds.             *)
(***************************************************************************)
WsFindsOne ==
  wsTotal > 0 => WsCandidates # {} /\ wsInitial[WsChosen] > 0

(***************************************************************************)
(* The choice is made, of an item that may be chosen, and fairly.          *)
(***************************************************************************)
WsChoosesFairly == WsFair /\ WsFindsOne
=============================================================================
