----------------------------- MODULE DebugMutex -----------------------------
(***************************************************************************)
(* chef::debug_mutex (src/include/chef_base/chef_debug_mutex.hpp): a       *)
(* recursive mutex whose lock() and unlock() keep two containers, the      *)
(* locks that are waited for and the locks that are held, each with the    *)
(* time of entry, and a thread that prints the entries that are too old.   *)
(*                                                                         *)
(* The functions of debug_mutex_manager run under mu_ and are one step     *)
(* each; core_.lock() and core_.unlock() are steps between them.  Instead  *)
(* of a time a wait has its age, in ticks, cut off when it is too old; the *)
(* report of long holds is computed like that of long waits and left out.  *)
(* The switches for logging are off, and an error message is its key.      *)
(***************************************************************************)
EXTENDS Integers, FiniteSets

CONSTANTS
  DmThread, DmMutex,
  DmNobody,       \* no thread
  DmMaxDepth,     \* bound: how often a thread takes a lock it has
  DmLimit         \* long_wait_acquire_duration

ASSUME DmAssumption ==
  /\ DmNobody \notin DmThread
  /\ DmMaxDepth \in Nat \ {0} /\ DmLimit \in Nat

DmKey == DmMutex \X DmThread        \* unique_key_ and the thread's number
Absent == -1                        \* not waited for
TooOld == DmLimit + 1

VARIABLES
  dmWait,      \* wait_acquire_container_: the age of each key, or Absent
  dmHold,      \* the keys in hold_container_
  dmPrinting,  \* print_thread_ is started
  dmReport,    \* the long waits the printing thread printed last
  dmOwner,     \* the core_ of each mutex: who has it
  dmDepth,     \*   and how often
  dmPc,        \* where each thread is: the step, and the mutex it is about
  dmErrors,    \* the keys an error was printed for
  dmNested     \* history: the keys of locks taken by their owner

dmVars == <<dmWait, dmHold, dmPrinting, dmReport, dmOwner, dmDepth, dmPc,
            dmErrors, dmNested>>

DmInit ==
  /\ dmWait = [k \in DmKey |-> Absent] /\ dmHold = {}
  /\ dmPrinting = FALSE
  /\ dmReport = {}
  /\ dmOwner = [m \in DmMutex |-> DmNobody]
  /\ dmDepth = [m \in DmMutex |-> 0]
  /\ dmPc = [t \in DmThread |-> [at |-> "idle", mutex |-> DmNobody]]
  /\ dmErrors = {} /\ dmNested = {}

DmAt(t, a, m) == dmPc[t] = [at |-> a, mutex |-> m]
DmTo(t, a, m) == dmPc' = [dmPc EXCEPT ![t] = [at |-> a, mutex |-> m]]
DmIdle(t)     == dmPc[t].at = "idle"
DmWaits(k)    == dmWait[k] # Absent

(***************************************************************************)
(* An error is printed when the containers are not what they should be.    *)
(* The test itself is left out of the state: only the key is kept.         *)
(***************************************************************************)
DmComplain(k, wrong) == dmErrors' = IF wrong THEN dmErrors \cup {k} ELSE dmErrors

(***************************************************************************)
(* lock().                                                                 *)
(***************************************************************************)
BeforeAcquire(t, m) ==
  LET k == <<m, t>> IN
  /\ DmIdle(t)
  /\ dmOwner[m] = t => dmDepth[m] < DmMaxDepth
  /\ DmComplain(k, DmWaits(k) \/ k \in dmHold)
  /\ dmWait' = [dmWait EXCEPT ![k] = 0]
  /\ dmPrinting' = TRUE
  /\ DmTo(t, "acquire", m)
  /\ dmNested' = IF dmOwner[m] = t THEN dmNested \cup {k} ELSE dmNested
  /\ UNCHANGED <<dmHold, dmReport, dmOwner, dmDepth>>

CoreLock(t, m) ==
  /\ DmAt(t, "acquire", m) /\ dmOwner[m] \in {DmNobody, t}
  /\ dmOwner' = [dmOwner EXCEPT ![m] = t]
  /\ dmDepth' = [dmDepth EXCEPT ![m] = @ + 1]
  /\ DmTo(t, "acquired", m)
  /\ UNCHANGED <<dmWait, dmHold, dmPrinting, dmReport, dmErrors, dmNested>>

WaitStays(k) == dmWait            \* deviation: the wait is not erased
WaitEnds(k)  == [dmWait EXCEPT ![k] = Absent]

AfterAcquire(t, m) ==
  LET k == <<m, t>> IN
  /\ DmAt(t, "acquired", m)
  /\ DmComplain(k, ~DmWaits(k) \/ k \in dmHold)
  /\ dmWait' = WaitEnds(k)
  /\ dmHold' = dmHold \cup {k}
  /\ DmTo(t, "idle", DmNobody)
  /\ UNCHANGED <<dmPrinting, dmReport, dmOwner, dmDepth, dmNested>>

(***************************************************************************)
(* unlock(), by the owner: core_ is free before the container knows it.    *)
(***************************************************************************)
DmLeft(t, m) == IF dmDepth[m] = 1 THEN DmNobody ELSE t

CoreUnlock(t, m) ==
  /\ DmIdle(t) /\ dmOwner[m] = t
  /\ dmDepth' = [dmDepth EXCEPT ![m] = @ - 1]
  /\ dmOwner' = [dmOwner EXCEPT ![m] = DmLeft(t, m)]
  /\ DmTo(t, "unlocked", m)
  /\ UNCHANGED <<dmWait, dmHold, dmPrinting, dmReport, dmErrors, dmNested>>

HoldEnds(k)    == dmHold \ {k}

AfterUnlock(t, m) ==
  LET k == <<m, t>> IN
  /\ DmAt(t, "unlocked", m)
  /\ DmComplain(k, k \notin dmHold \/ DmWaits(k))
  /\ dmHold' = HoldEnds(k)
  /\ DmTo(t, "idle", DmNobody)
  /\ UNCHANGED <<dmWait, dmPrinting, dmReport, dmOwner, dmDepth, dmNested>>

(***************************************************************************)
(* The clock, and one round of print_tmp_debug().                          *)
(***************************************************************************)
DmTick ==
  /\ \E k \in DmKey : dmWait[k] \in 0..DmLimit
  /\ dmWait' = [k \in DmKey |-> IF dmWait[k] \in 0..DmLimit THEN dmWait[k] + 1 ELSE dmWait[k]]
  /\ UNCHANGED <<dmHold, dmPrinting, dmReport, dmOwner, dmDepth, dmPc, dmErrors, dmNested>>

LongerThanAny == {k \in DmKey : dmWait[k] > TooOld}    \* deviation: compared with the next bound
LongWaits     == {k \in DmKey : dmWait[k] > DmLimit}

PrintReport ==
  /\ dmPrinting
  /\ dmReport' = LongWaits
  /\ UNCHANGED <<dmWait, dmHold, dmPrinting, dmOwner, dmDepth, dmPc, dmErrors, dmNested>>

DmThreadStep(t) ==
  \E m \in DmMutex : \/ BeforeAcquire(t, m) \/ CoreLock(t, m) \/ AfterAcquire(t, m)
                     \/ CoreUnlock(t, m) \/ AfterUnlock(t, m)

DmNext == DmTick \/ PrintReport \/ \E t \in DmThread : DmThreadStep(t)

DmSpec == DmInit /\ [][DmNext]_dmVars

(***************************************************************************)
(* Time passes, and the printing thread never stops; the threads need not  *)
(* take a step.                                                            *)
(***************************************************************************)
DmFairSpec == DmSpec /\ WF_dmVars(DmTick) /\ WF_dmVars(PrintReport)

-----------------------------------------------------------------------------
(***************************************************************************)
(* Types, and core_ has an owner exactly when its count is not 0.          *)
(***************************************************************************)
DmTypeOK ==
  /\ dmWait \in [DmKey -> Absent..TooOld] /\ dmHold \subseteq DmKey
  /\ dmPrinting \in BOOLEAN
  /\ dmReport \subseteq DmKey
  /\ dmOwner \in [DmMutex -> DmThread \cup {DmNobody}]
  /\ dmDepth \in [DmMutex -> 0..DmMaxDepth]
  /\ \A m \in DmMutex : dmOwner[m] = DmNobody <=> dmDepth[m] = 0
  /\ dmPc \in [DmThread -> [at : {"idle", "acquire", "acquired", "unlocked"},
                            mutex : DmMutex \cup {DmNobody}]]
  /\ dmErrors \subseteq DmKey /\ dmNested \subseteq DmKey

(***************************************************************************)
(* An error is printed only for a lock that its owner took again: threads  *)
(* that overtake each other between core_.unlock() and after_unlock()      *)
(* cause no false alarm.                                                   *)
(***************************************************************************)
DmNoFalseAlarm == dmErrors \subseteq dmNested

(***************************************************************************)
(* Between calls, and for locks their owner did not take again, the        *)
(* container says who holds what: the owner is in it, nobody else is.      *)
(***************************************************************************)
DmHoldersListed ==
  \A m \in DmMutex, t \in DmThread :
    DmIdle(t) /\ <<m, t>> \notin dmNested =>
      /\ <<m, t>> \in dmHold <=> dmOwner[m] = t
      /\ ~DmWaits(<<m, t>>)

(***************************************************************************)
(* What the class is for: two threads that wait for each other's lock are  *)
(* both found among the long waits of a report.                            *)
(***************************************************************************)
DmCrossed(s, t, m, n) ==
  /\ s # t
  /\ dmOwner[m] = s /\ DmAt(s, "acquire", n)
  /\ dmOwner[n] = t /\ DmAt(t, "acquire", m)

DmDeadlock(reported) ==
  \E s, t \in DmThread : \E m, n \in DmMutex :
    /\ DmCrossed(s, t, m, n)
    /\ reported => {<<n, s>>, <<m, t>>} \subseteq dmReport

DmDeadlockReported == []<>(DmDeadlock(FALSE) => DmDeadlock(TRUE))

(***************************************************************************)
(* What the class says of who holds what, and what it complains about, is  *)
(* true.                                                                   *)
(***************************************************************************)
DmTruthful == DmNoFalseAlarm /\ DmHoldersListed
=============================================================================
