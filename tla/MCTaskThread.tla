---------------------------- MODULE MCTaskThread ----------------------------
(***************************************************************************)
(* Instances of TaskThread for TLC: i1, i2, i3 are immediate tasks, d1 and *)
(* d2 deferred ones.                                                       *)
(***************************************************************************)
EXTENDS TaskThread

CONSTANTS i1, i2, d1, d2

\* d1 and d2 can have the same deadline, or either one the earlier.
MCDelay == [t \in Task |-> CASE t = d1 -> 1 [] t = d2 -> 2 [] OTHER -> 0]

\* Every task has a thread of its own, or the body of i1 adds i2, or d2.
NoParent  == [t \in Task |-> NoTask]
ParentOfI == [t \in Task |-> IF t = i2 THEN i1 ELSE NoTask]
ParentOfD == [t \in Task |-> IF t = d2 THEN i1 ELSE NoTask]
=============================================================================
