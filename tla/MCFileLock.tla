----------------------------- MODULE MCFileLock -----------------------------
(* Instances of FileLock for TLC: process A has two objects. *)
EXTENDS FileLock

CONSTANTS a1, a2, b1, c1

ProcessOf == [o \in FlObject |-> CASE o \in {a1, a2} -> "A" [] o = b1 -> "B" [] OTHER -> "C"]
=============================================================================
