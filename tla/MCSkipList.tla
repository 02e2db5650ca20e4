----------------------------- MODULE MCSkipList -----------------------------
(* Instances of SkipList for TLC: the cfg files give the bounds. *)
EXTENDS SkipList
=============================================================================
