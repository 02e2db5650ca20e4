------------------------ MODULE MCWaitEventCounter ------------------------
(* Instances of WaitEventCounter for TLC: the cfg files name the waiting   *)
(* threads, those with a timeout, and the calls of notify().               *)
EXTENDS WaitEventCounter

CONSTANTS w1, w2, w3, n1, n2, n3
===========================================================================
