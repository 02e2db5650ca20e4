---------------------------- MODULE MCThreadPool ----------------------------
(* Instances of ThreadPool for TLC. *)
EXTENDS ThreadPool

CONSTANTS t1, t2, t3

NoParent == [t \in Task |-> NoTask]
OneChild == [t \in Task |-> IF t = t3 THEN t1 ELSE NoTask]

\* t1 ends only after t2 has ended.
NoneAwaited == [t \in Task |-> NoTask]
OneAwaited  == [t \in Task |-> IF t = t1 /\ t2 \in Task THEN t2 ELSE NoTask]
=============================================================================
