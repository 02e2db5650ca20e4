------------------------------ MODULE MCShared ------------------------------
(***************************************************************************)
(* The components whose state threads or processes share, in one run: each *)
(* behaviour is one of the component "subject", the others stay as they    *)
(* are.  Nothing is composed; the properties are those of the modules.     *)
(***************************************************************************)
EXTENDS MCWaitEventCounter, MCFileLock, SyncOnce, DebugMutex, CountDump, Daemon

VARIABLE subject

Subjects   == {"wait_event_counter", "sync_once", "debug_mutex", "count_dump", "filelock", "daemon_op"}
mcVars     == <<subject, vars, onceVars, dmVars, cdVars, flVars, dnVars>>

Tags       == <<"a", "b">>
KindOf     == [c \in CdCall |-> CASE c = "k3" -> "set" [] c = "k4" -> "del" [] OTHER -> "count"]
TagOf      == [c \in CdCall |-> IF c \in {"k1", "k2"} THEN "a" ELSE "b"]    \* "a" is only counted
CallerOf   == [c \in CdCall |-> IF c \in {"k1", "k3", "k5"} THEN 1 ELSE 2]

MCInit ==
  /\ subject \in Subjects
  /\ Init /\ OnceInit /\ DmInit /\ CdInit /\ FlInit /\ DnInit
  /\ subject # "sync_once" => onceStatic
  /\ subject # "count_dump" => cdType = "mutex" /\ cdStyle = "append"

OnceOnly == UNCHANGED <<subject, vars, dmVars, cdVars, flVars, dnVars>>
DmOnly   == UNCHANGED <<subject, vars, onceVars, cdVars, flVars, dnVars>>
CdOnly   == UNCHANGED <<subject, vars, onceVars, dmVars, flVars, dnVars>>
FlOnly   == UNCHANGED <<subject, vars, onceVars, dmVars, cdVars, dnVars>>
WecOnly  == UNCHANGED <<subject, onceVars, dmVars, cdVars, flVars, dnVars>>
DnOnly   == UNCHANGED <<subject, vars, onceVars, dmVars, cdVars, flVars>>

MCNext ==
  \/ subject = "wait_event_counter" /\ Next /\ WecOnly
  \/ subject = "sync_once" /\ OnceNext /\ OnceOnly
  \/ subject = "debug_mutex" /\ DmNext /\ DmOnly
  \/ subject = "count_dump" /\ CdNext /\ CdOnly
  \/ subject = "filelock" /\ FlNext /\ FlOnly
  \/ subject = "daemon_op" /\ DnNext /\ DnOnly

(***************************************************************************)
(* The fairness of each module.                                            *)
(***************************************************************************)
MCFairSpec ==
  /\ MCInit /\ [][MCNext]_mcVars
  /\ \A w \in Waiter : /\ WF_mcVars(subject = "wait_event_counter" /\ pc[w] = "woken" /\ Test(w) /\ WecOnly)
                       /\ WF_mcVars(subject = "wait_event_counter" /\ Timeout(w) /\ WecOnly)
  /\ \A t \in OnceThread : WF_mcVars(subject = "sync_once" /\ OnceStep(t) /\ OnceOnly)
  /\ WF_mcVars(subject = "debug_mutex" /\ DmTick /\ DmOnly)
  /\ WF_mcVars(subject = "debug_mutex" /\ PrintReport /\ DmOnly)
  /\ WF_mcVars(subject = "count_dump" /\ CdDumperStep /\ CdOnly)
  /\ \A c \in CdCall : WF_mcVars(subject = "count_dump" /\ ~cdCrashed /\ CountWrites(c) /\ CdOnly)
  /\ \A o \in FlObject : WF_mcVars(subject = "filelock" /\ FlLockSucceeds(o) /\ FlOnly)

-----------------------------------------------------------------------------
(***************************************************************************)
(* Nobody who calls stays inside for ever: a notified waiter gets through, *)
(* a timeout ends a wait, a call_once and a destructor return, and a       *)
(* waiting lock() gets what a process that died had held.                  *)
(***************************************************************************)
CallsReturn == SomeWaiterReturns /\ TimedReturns /\ OnceReturns /\ CdDtorReturns /\ FlCrashSafe
=============================================================================
