-------------------------- MODULE WaitEventCounter --------------------------
(***************************************************************************)
(* chef::wait_event_counter (src/include/chef_base/                        *)
(* chef_wait_event_counter.hpp): threads wait until notify() has been      *)
(* called need_count_ times.                                               *)
(*                                                                         *)
(* A waiter calls wait() (or wait_for(0), which is the same), or, when it  *)
(* is in Timed, wait_for() with a timeout.  Each call is made once.  The   *)
(* sections under the mutex are single steps.                              *)
(***************************************************************************)
EXTENDS Integers, FiniteSets

CONSTANTS
  Waiter,      \* the calls of wait() and wait_for()
  Timed,       \* those of wait_for() with a timeout
  Notifier,    \* the calls of notify()
  NeedCount    \* need_count_

ASSUME CounterAssumption ==
  /\ IsFiniteSet(Notifier)
  /\ Timed \subseteq Waiter
  /\ NeedCount \in Nat

VARIABLES
  counted,     \* counted_
  pc,          \* where each waiter is
  called       \* the calls of notify() made so far

vars == <<counted, pc, called>>

Init ==
  /\ counted = 0
  /\ pc = [w \in Waiter |-> "idle"]
  /\ called = {}

Waiting == {w \in Waiter : pc[w] = "waiting"}

(***************************************************************************)
(* notify(): count, and wake one of the waiting threads.                   *)
(***************************************************************************)
Met == counted >= NeedCount

CountOne    == counted + 1

WakeNobody == {pc}                                    \* deviation: nobody is notified
WakeOne    == IF Waiting = {} THEN {pc}
              ELSE {[pc EXCEPT ![w] = "woken"] : w \in Waiting}

Notify(n) ==
  /\ n \notin called
  /\ called' = called \cup {n}
  /\ counted' = CountOne
  /\ pc' \in WakeOne

(***************************************************************************)
(* wait() and wait_for(): test, and wait if the count is not reached.      *)
(***************************************************************************)
TestEnds(w)    == Met

Test(w) ==
  /\ pc[w] \in {"idle", "woken"}
  /\ pc' = [pc EXCEPT ![w] = IF TestEnds(w) THEN "met" ELSE "waiting"]
  /\ UNCHANGED <<counted, called>>

Spurious(w) ==
  /\ pc[w] = "waiting"
  /\ pc' = [pc EXCEPT ![w] = "woken"]
  /\ UNCHANGED <<counted, called>>

(***************************************************************************)
(* The time is over: a waiting thread, or one that was woken and has not   *)
(* got the lock yet, evaluates check_() once more and returns its value.   *)
(***************************************************************************)
Verdict    == IF Met THEN "met" ELSE "expired"

Timeout(w) ==
  /\ w \in Timed /\ pc[w] \in {"waiting", "woken"}
  /\ pc' = [pc EXCEPT ![w] = Verdict]
  /\ UNCHANGED <<counted, called>>

Next == \/ \E n \in Notifier : Notify(n)
        \/ \E w \in Waiter : Test(w) \/ Spurious(w) \/ Timeout(w)

Spec == Init /\ [][Next]_vars

(***************************************************************************)
(* A thread that can run does, and the clock reaches every timeout.        *)
(* Nobody is obliged to call wait() or notify(), and no thread wakes       *)
(* without a reason.                                                       *)
(***************************************************************************)
FairSpec ==
  /\ Spec
  /\ \A w \in Waiter : WF_vars(pc[w] = "woken" /\ Test(w)) /\ WF_vars(Timeout(w))

-----------------------------------------------------------------------------
(***************************************************************************)
(* Types, and counted() tells how often notify() was called, also past     *)
(* need_count_.                                                            *)
(***************************************************************************)
TypeOK ==
  /\ pc \in [Waiter -> {"idle", "waiting", "woken", "met", "expired"}]
  /\ called \subseteq Notifier
  /\ counted = Cardinality(called)

(***************************************************************************)
(* wait() returns, and wait_for() returns true, only after need_count_     *)
(* calls of notify(), whatever wakes the thread in between.                *)
(***************************************************************************)
NoEarlyReturn ==
  \A w \in Waiter : pc[w] = "met" => Cardinality(called) >= NeedCount

(***************************************************************************)
(* wait_for() never reports a timeout when the count has been reached.     *)
(***************************************************************************)
NoFalseTimeout ==
  [][\A w \in Waiter : pc[w] # "expired" /\ pc'[w] = "expired"
       => Cardinality(called) < NeedCount]_vars

(***************************************************************************)
(* The comment on notify(): it counts whether it comes before wait() or    *)
(* while threads wait.  Once need_count_ notifications have been given,    *)
(* one of the threads that wait is let through, whatever woke the others.  *)
(***************************************************************************)
SomeWaiterReturns ==
  []<>(Cardinality(called) >= NeedCount /\ (\E w \in Waiter : pc[w] \in {"waiting", "woken"})
         => \E w \in Waiter : pc[w] = "met")

(***************************************************************************)
(* No call of wait_for() with a timeout blocks for ever.                   *)
(***************************************************************************)
TimedReturns ==
  \A w \in Timed : []<>(pc[w] \in {"idle", "met", "expired"})

(***************************************************************************)
(* The comment on wait(): it blocks until need_count_ calls of notify()    *)
(* have happened, and no longer, for every thread that waits.              *)
(***************************************************************************)
EveryWaiterReturns ==
  \A w \in Waiter :
    pc[w] # "idle" /\ Cardinality(called) >= NeedCount ~> pc[w] \in {"met", "expired"}
=============================================================================
