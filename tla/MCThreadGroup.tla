--------------------------- MODULE MCThreadGroup ---------------------------
(* Instances of ThreadGroup for TLC. *)
EXTENDS ThreadGroup

CONSTANTS t1, t2, t3, t4, c1, c2

\* One thread adds four tasks; or two add t1 and t3, and the body of t1 adds t2.
AllByOne == [t \in Task |-> c1]
Mixed    == [t \in Task |-> CASE t = t1 -> c1 [] t = t2 -> t1 [] t = t3 -> c2 [] OTHER -> NoTask]

OneOrMixed == {AllByOne, Mixed}
OnlyMixed  == {Mixed}

\* t1 and t3 are of one kind, t2 and t4 of another.
Indexes == [t \in Task |-> IF t \in {t1, t3} THEN 0 ELSE 1]
============================================================================
