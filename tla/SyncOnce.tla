------------------------------ MODULE SyncOnce ------------------------------
(***************************************************************************)
(* chef::sync_once (src/include/chef_base/chef_sync_once.hpp): run(f)      *)
(* executes f once, whatever the number of threads that call it.           *)
(*                                                                         *)
(* Each thread calls run() once, with the same object.  f may throw.       *)
(* done_ has no initialiser: an object with static storage begins with     *)
(* FALSE, one on the stack (as in chef_sync_once_test.cc:8) with whatever  *)
(* is there, which before C++20 is either value.                           *)
(***************************************************************************)
CONSTANTS
  OnceThread,    \* the callers
  OnceNobody     \* no thread

ASSUME OnceAssumption == OnceNobody \notin OnceThread

VARIABLES
  onceStatic,    \* whether the object has static storage
  onceDone,      \* done_
  onceHolder,    \* the thread that holds m_
  oncePc,        \* where each call is
  onceRuns       \* history: the calls whose f ran to its end

onceVars == <<onceStatic, onceDone, onceHolder, oncePc, onceRuns>>

OnceInit ==
  /\ onceStatic \in BOOLEAN
  /\ onceDone \in IF onceStatic THEN {FALSE} ELSE BOOLEAN
  /\ onceHolder = OnceNobody
  /\ oncePc = [t \in OnceThread |-> "idle"]
  /\ onceRuns = {}

OnceGo(t, from, to) == oncePc[t] = from /\ oncePc' = [oncePc EXCEPT ![t] = to]

OnceRead(t) ==       \* the test without the lock
  /\ OnceGo(t, "idle", IF onceDone THEN "returned" ELSE "lock")
  /\ UNCHANGED <<onceStatic, onceDone, onceHolder, onceRuns>>

OnceLock(t) ==
  /\ onceHolder = OnceNobody
  /\ OnceGo(t, "lock", "test")
  /\ onceHolder' = t
  /\ UNCHANGED <<onceStatic, onceDone, onceRuns>>

OnceRunsAnyway == TRUE          \* deviation: the second test is missing
OnceMustRun    == ~onceDone

OnceTest(t) ==
  /\ OnceGo(t, "test", IF OnceMustRun THEN "run" ELSE "unlock")
  /\ UNCHANGED <<onceStatic, onceDone, onceHolder, onceRuns>>

OnceThrow(t) ==      \* the exception leaves run() with m_ locked
  /\ OnceGo(t, "run", "threw")
  /\ UNCHANGED <<onceStatic, onceDone, onceHolder, onceRuns>>

OnceFinish(t) ==
  /\ OnceGo(t, "run", "store")
  /\ onceRuns' = onceRuns \cup {t}
  /\ UNCHANGED <<onceStatic, onceDone, onceHolder>>

OnceStore(t) ==
  /\ OnceGo(t, "store", "unlock")
  /\ onceDone' = TRUE
  /\ UNCHANGED <<onceStatic, onceHolder, onceRuns>>

OnceReleased(t) == OnceNobody

OnceUnlock(t) ==
  /\ OnceGo(t, "unlock", "returned")
  /\ onceHolder' = OnceReleased(t)
  /\ UNCHANGED <<onceStatic, onceDone, onceRuns>>

OnceStep(t) == \/ OnceLock(t) \/ OnceTest(t) \/ OnceStore(t) \/ OnceUnlock(t)
               \/ OnceThrow(t) \/ OnceFinish(t)

OnceNext == \E t \in OnceThread : OnceRead(t) \/ OnceStep(t)

OnceSpec == OnceInit /\ [][OnceNext]_onceVars

(***************************************************************************)
(* A thread inside run() goes on; a mutex that is free goes to one of the  *)
(* threads that want it.                                                   *)
(***************************************************************************)
OnceFairSpec == OnceSpec /\ \A t \in OnceThread : WF_onceVars(OnceStep(t))

-----------------------------------------------------------------------------
OnceInside == {"test", "run", "store", "unlock", "threw"}

(***************************************************************************)
(* Types, and m_ is held by the thread that is past its lock() and not yet *)
(* past its unlock().                                                      *)
(***************************************************************************)
OnceTypeOK ==
  /\ onceStatic \in BOOLEAN /\ onceDone \in BOOLEAN
  /\ onceHolder \in OnceThread \cup {OnceNobody}
  /\ oncePc \in [OnceThread -> OnceInside \cup {"idle", "lock", "returned"}]
  /\ onceRuns \subseteq OnceThread
  /\ \A t \in OnceThread : oncePc[t] \in OnceInside <=> onceHolder = t

(***************************************************************************)
(* The function runs to its end at most once (line 5 of the header), and   *)
(* with a static object nobody returns from run() before it has.           *)
(***************************************************************************)
OnceExactly ==
  /\ \A s, t \in onceRuns : s = t
  /\ onceStatic /\ (\E t \in OnceThread : oncePc[t] = "returned") => onceRuns # {}

(***************************************************************************)
(* Every call returns or throws, unless an exception of another call left  *)
(* m_ locked.                                                              *)
(***************************************************************************)
OnceReturns ==
  \A t \in OnceThread :
    []<>(oncePc[t] \in {"idle", "returned"} \/ \E s \in OnceThread : oncePc[s] = "threw")
=============================================================================
