------------------------------ MODULE FileLock ------------------------------
(***************************************************************************)
(* chef::filelock (src/include/chef_base/chef_filelock.hpp): a lock on a   *)
(* file for processes and, says the header, for the threads of one.        *)
(*                                                                         *)
(* All objects name the same file.  fcntl() gives a record lock to a       *)
(* process, not to a descriptor: a process that has it gets it again, and  *)
(* closing any of its descriptors of the file gives it up.                 *)
(***************************************************************************)
CONSTANTS
  FlProcess, FlObject,
  FlProcessOf,    \* the process of each object
  FlNobody        \* no process

ASSUME FlAssumption ==
  FlProcessOf \in [FlObject -> FlProcess] /\ FlNobody \notin FlProcess

VARIABLES
  flOpen,         \* the objects whose fd_ is open
  flOwner,        \* the process that has the record lock
  flWaiting,      \* the objects in a blocked lock()
  flHolding,      \* the objects whose lock or try_lock succeeded, not unlocked since
  flDead          \* the processes that are gone

flVars == <<flOpen, flOwner, flWaiting, flHolding, flDead>>

FlInit ==
  flOpen = {} /\ flOwner = FlNobody /\ flWaiting = {} /\ flHolding = {} /\ flDead = {}

FlRuns(o) == FlProcessOf[o] \notin flDead
FlFree(o) == o \in flOpen \ flWaiting /\ FlRuns(o)      \* may make a call
FlAnyone(o)  == TRUE                                     \* deviation: a lock that locks nobody out
FlGranted(o) == flOwner \in {FlNobody, FlProcessOf[o]}

FlAttach(o) ==
  /\ o \notin flOpen /\ FlRuns(o)
  /\ flOpen' = flOpen \cup {o}
  /\ UNCHANGED <<flOwner, flWaiting, flHolding, flDead>>

FlLock(o) ==                       \* F_SETLKW
  /\ FlFree(o)
  /\ flWaiting' = flWaiting \cup {o}
  /\ UNCHANGED <<flOpen, flOwner, flHolding, flDead>>

FlLockSucceeds(o) ==
  /\ o \in flWaiting /\ FlGranted(o)
  /\ flWaiting' = flWaiting \ {o}
  /\ flOwner' = FlProcessOf[o] /\ flHolding' = flHolding \cup {o}
  /\ UNCHANGED <<flOpen, flDead>>

FlLockFails(o) ==                  \* a signal
  /\ o \in flWaiting
  /\ flWaiting' = flWaiting \ {o}
  /\ UNCHANGED <<flOpen, flOwner, flHolding, flDead>>

FlTryLock(o) ==                    \* F_SETLK; a failure changes nothing
  /\ FlFree(o) /\ FlGranted(o)
  /\ flOwner' = FlProcessOf[o] /\ flHolding' = flHolding \cup {o}
  /\ UNCHANGED <<flOpen, flWaiting, flDead>>

FlGivenUp(p) == IF flOwner = p THEN FlNobody ELSE flOwner

FlUnlock(o) ==
  /\ FlFree(o)
  /\ flOwner' = FlGivenUp(FlProcessOf[o])
  /\ flHolding' = flHolding \ {o}
  /\ UNCHANGED <<flOpen, flWaiting, flDead>>

FlClosed(o)    == FlGivenUp(FlProcessOf[o])

FlDetach(o) ==
  /\ FlFree(o)
  /\ flOpen' = flOpen \ {o}
  /\ flOwner' = FlClosed(o)
  /\ flHolding' = flHolding \ {o}
  /\ UNCHANGED <<flWaiting, flDead>>

FlExited(p)    == FlGivenUp(p)

FlCrash(p) ==
  LET its == {o \in FlObject : FlProcessOf[o] = p} IN
  /\ p \notin flDead
  /\ flDead' = flDead \cup {p}
  /\ flOpen' = flOpen \ its /\ flWaiting' = flWaiting \ its /\ flHolding' = flHolding \ its
  /\ flOwner' = FlExited(p)

FlNext ==
  \/ \E o \in FlObject : \/ FlAttach(o) \/ FlLock(o) \/ FlLockSucceeds(o) \/ FlLockFails(o)
                         \/ FlTryLock(o) \/ FlUnlock(o) \/ FlDetach(o)
  \/ \E p \in FlProcess : FlCrash(p)

FlSpec == FlInit /\ [][FlNext]_flVars

(***************************************************************************)
(* The kernel gives a lock that stays free to one that waits for it.       *)
(***************************************************************************)
FlFairSpec == FlSpec /\ \A o \in FlObject : WF_flVars(FlLockSucceeds(o))

-----------------------------------------------------------------------------
(***************************************************************************)
(* Types, and the owner is a process that runs and has the file open.      *)
(***************************************************************************)
FlTypeOK ==
  /\ flOpen \subseteq FlObject /\ flDead \subseteq FlProcess
  /\ flWaiting \cup flHolding \subseteq flOpen
  /\ flOwner \in FlProcess \cup {FlNobody}
  /\ flOwner # FlNobody => \E o \in flOpen : FlProcessOf[o] = flOwner
  /\ \A o \in flOpen : FlRuns(o)

(***************************************************************************)
(* Line 13, a mutex between processes: of two objects, each the only one   *)
(* of its process, at most one holds the lock.                             *)
(***************************************************************************)
FlAlone(o) == \A a \in FlObject : FlProcessOf[a] = FlProcessOf[o] => a = o

FlExclusive ==
  \A o \in flHolding : FlAlone(o) =>
    /\ flOwner = FlProcessOf[o]
    /\ \A a \in flHolding : FlAlone(a) => a = o

(***************************************************************************)
(* Line 13, safe against crashes: whatever the other processes did before  *)
(* they were gone, a waiting lock() returns.                               *)
(***************************************************************************)
FlCrashSafe ==
  \A o \in FlObject : []<>(o \in flWaiting => \E p \in FlProcess \ flDead : p # FlProcessOf[o])

(***************************************************************************)
(* Line 16: several threads may use several objects for one file, as a     *)
(* lock.  Two objects of one process both get it.                          *)
(***************************************************************************)
FlExcludesThreads == \A a, b \in flHolding : a = b
=============================================================================
