------------------------------ MODULE TaskQueue ------------------------------
(***************************************************************************)
(* What chef::task_thread promises the threads that hand tasks to it       *)
(* (src/include/chef_base/chef_task_thread.hpp, the interface and its      *)
(* comments), without threads, locks, batches or clocks: a task is run at  *)
(* most once, one at a time, in the order in which the tasks became ready; *)
(* only a service that is closing runs a deferred task before it is ready, *)
(* or drops tasks.                                                         *)
(***************************************************************************)
EXTENDS Naturals, Sequences

CONSTANTS Task

VARIABLES
  ready,    \* the tasks to run next, oldest first
  later,    \* deferred tasks that are not ready
  ran,      \* the tasks begun, in order
  closing   \* the owner has asked for the end

qvars == <<ready, later, ran, closing>>

Known == {ready[i] : i \in DOMAIN ready} \cup later \cup {ran[i] : i \in DOMAIN ran}

QInit == ready = << >> /\ later = {} /\ ran = << >> /\ closing = FALSE

Submit(t) ==
  /\ t \notin Known
  /\ \/ ready' = Append(ready, t) /\ UNCHANGED later
     \/ later' = later \cup {t} /\ UNCHANGED ready
  /\ UNCHANGED <<ran, closing>>

(***************************************************************************)
(* Some deferred tasks become ready, behind everything that is.            *)
(***************************************************************************)
Mature ==
  \E S \in (SUBSET later) \ {{}} :
    /\ later' = later \ S
    /\ \E q \in [1..Len(ready') - Len(ready) -> S] :
         /\ ready' = ready \o q
         /\ \A s \in S : \E i \in DOMAIN q : q[i] = s
         /\ \A i, j \in DOMAIN q : q[i] = q[j] => i = j
    /\ UNCHANGED <<ran, closing>>

Serve ==
  /\ ready # << >>
  /\ ran' = Append(ran, Head(ready))
  /\ ready' = Tail(ready)
  /\ UNCHANGED <<later, closing>>

(***************************************************************************)
(* Closing: run deferred tasks at once, or drop the oldest ready ones.     *)
(***************************************************************************)
Expedite ==
  /\ closing
  /\ \E t \in later : later' = later \ {t} /\ ran' = Append(ran, t)
  /\ UNCHANGED <<ready, closing>>

Drop ==
  /\ closing
  /\ \E k \in 1..Len(ready) : ready' = SubSeq(ready, k + 1, Len(ready))
  /\ UNCHANGED <<later, ran, closing>>

Close == closing' = TRUE /\ UNCHANGED <<ready, later, ran>>

QNext == (\E t \in Task : Submit(t)) \/ Mature \/ Serve \/ Expedite \/ Drop \/ Close

QSpec == QInit /\ [][QNext]_qvars
==============================================================================
