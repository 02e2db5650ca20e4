--------------------------- MODULE ConsistentHash ---------------------------
(***************************************************************************)
(* chef::consistent_hash (src/include/chef_base/chef_consistent_hash.hpp): *)
(* every node has several virtual nodes on a ring of hash values, and a    *)
(* key belongs to the first virtual node after its own hash value.         *)
(*                                                                         *)
(* std::hash is any of the functions ChHashes, with or without collisions; *)
(* a key is its hash value.                                                *)
(***************************************************************************)
EXTENDS Integers, FiniteSets, FiniteSetsExt, Functions

CONSTANTS
  ChNode,
  ChMultis,      \* VirtualMultis
  ChHashes       \* functions from virtual nodes to positions

ChVirtual   == ChNode \X (0..ChMultis - 1)
ChPositions == UNION {{h[x] : x \in ChVirtual} : h \in ChHashes}

ASSUME ChAssumption ==
  ChMultis \in Nat \ {0} /\ \A h \in ChHashes : DOMAIN h = ChVirtual /\ h \in [ChVirtual -> Nat]

VARIABLES
  chHash,        \* the hash function
  chNodes,       \* nodes_
  chRing         \* pos2node_: a function on the positions present

chVars == <<chHash, chNodes, chRing>>

ChInit == chHash \in ChHashes /\ chNodes = {} /\ chRing = [p \in {} |-> p]

ChPlaces(node) == {chHash[<<node, i>>] : i \in 0..ChMultis - 1}

ChAddNode(node) ==
  /\ node \notin chNodes
  /\ chNodes' = chNodes \cup {node}
  /\ chRing' = [p \in DOMAIN chRing \cup ChPlaces(node) |-> IF p \in ChPlaces(node) THEN node ELSE chRing[p]]
  /\ UNCHANGED chHash

ChLeft(node)      == DOMAIN chRing \ ChPlaces(node)

ChDelNode(node) ==   \* also a node that is not there
  /\ chNodes # {}
  /\ chNodes' = chNodes \ {node}
  /\ chRing' = [p \in ChLeft(node) |-> chRing[p]]
  /\ UNCHANGED chHash

ChClear ==
  /\ chNodes' = {} /\ chRing' = [p \in {} |-> p]
  /\ UNCHANGED chHash

ChNext == ChClear \/ \E node \in ChNode : ChAddNode(node) \/ ChDelNode(node)

ChSpec == ChInit /\ [][ChNext]_chVars

\* choice_one_node(); what begin() of an empty map gives is not defined
ChNearest(ring, p) ==            \* deviation: the position closest to the key, by number of nodes
  ring[CHOOSE q \in DOMAIN ring : Cardinality({r \in DOMAIN ring : r < q}) = p % Cardinality(DOMAIN ring)]
ChChoice(ring, p) ==
  LET after == {q \in DOMAIN ring : p < q} IN
  ring[Min(IF after = {} THEN DOMAIN ring ELSE after)]

-----------------------------------------------------------------------------
ChDistinct == IsInjective(chHash)

(***************************************************************************)
(* Types, and the ring names only nodes that are there, also after         *)
(* collisions; without them it has every virtual node of every node.       *)
(***************************************************************************)
ChTypeOK ==
  /\ chNodes \subseteq ChNode /\ DOMAIN chRing \subseteq ChPositions
  /\ \A p \in DOMAIN chRing : chRing[p] \in chNodes
  /\ ChDistinct => \A node \in chNodes : \A p \in ChPlaces(node) : p \in DOMAIN chRing /\ chRing[p] = node

(***************************************************************************)
(* What consistent hashing is for: when nodes_ changes, a key moves only   *)
(* away from a node that is removed or to a node that is added.  After a   *)
(* collision, deleting one node also takes the shared place from the other.*)
(***************************************************************************)
ChKeysStay ==
  [][ChDistinct /\ DOMAIN chRing # {} /\ DOMAIN chRing' # {} =>
       \A key \in ChPositions \cup {0} :
         LET from == ChChoice(chRing, key)
             to   == ChChoice(chRing', key)
         IN from # to => from \notin chNodes' \/ to \notin chNodes]_chVars
=============================================================================
