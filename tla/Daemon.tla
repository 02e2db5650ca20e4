------------------------------- MODULE Daemon -------------------------------
(***************************************************************************)
(* chef::daemon_op (src/include/chef_base/chef_daemon_op.hpp): start() of  *)
(* several processes with one pid file.  exist() looks whether the process *)
(* named in the file is alive, write() puts its own id in under a lock     *)
(* that only covers the write.  The calls it makes may fail, and a daemon  *)
(* may end at any time.                                                    *)
(*                                                                         *)
(* A process and the child that daemon() makes of it are one.  No process  *)
(* gets the id of one that is gone.                                        *)
(***************************************************************************)
CONSTANTS
  DnProcess,
  DnNobody,    \* no process: the content of an empty file, a free lock
  DnFails      \* which system calls may fail: those of exist() on the file
               \* ("exist"), kill() of a live process ("kill"), write() ("write")

ASSUME DnAssumption == DnNobody \notin DnProcess /\ DnFails \subseteq {"exist", "kill", "write"}

VARIABLES
  dnFile,      \* the file: does not exist (<< >>), or <<the id in its first line>>
  dnLock,      \* who has locked it
  dnPc,        \* where each process is
  dnSaw,       \* the id that exist() has read
  dnOverlap,   \* history: a start() began while another was under way
  dnUnseen     \* history: a failing call hid the live process that the file names

dnVars == <<dnFile, dnLock, dnPc, dnSaw, dnOverlap, dnUnseen>>

DnInit ==
  /\ dnFile = << >> /\ dnLock = DnNobody
  /\ dnPc = [p \in DnProcess |-> "idle"]
  /\ dnSaw = [p \in DnProcess |-> DnNobody]
  /\ dnOverlap = FALSE /\ dnUnseen = FALSE

DnStarting == {p \in DnProcess : dnPc[p] \in {"test", "open", "lock", "write", "close", "short"}}
DnAlive    == {p \in DnProcess : dnPc[p] \notin {"idle", "gone"}}
DnGo(p, from, to) == dnPc[p] = from /\ dnPc' = [dnPc EXCEPT ![p] = to]
DnBegins == dnOverlap' = (dnOverlap \/ DnStarting # {})

DnRead(p) ==
  /\ DnGo(p, "idle", IF dnFile = << >> THEN "open" ELSE "test")
  /\ dnSaw' = [dnSaw EXCEPT ![p] = IF dnFile = << >> THEN DnNobody ELSE dnFile[1]]
  /\ DnBegins
  /\ UNCHANGED <<dnFile, dnLock, dnUnseen>>

DnReadFails(p) ==    \* -1 as if there were no file (after read(), fp stays open)
  /\ "exist" \in DnFails /\ dnFile # << >>
  /\ DnGo(p, "idle", "open")
  /\ DnBegins
  /\ dnUnseen' = (dnUnseen \/ dnFile[1] \in DnAlive)
  /\ UNCHANGED <<dnFile, dnLock, dnSaw>>

DnMissed(p) == FALSE             \* deviation: a live process is not seen
DnFound(p)  == dnSaw[p] \in DnAlive

DnTest(p) ==         \* kill(pid, 0) tells the living from the dead
  /\ DnGo(p, "test", IF DnFound(p) THEN "gone" ELSE "open")
  /\ UNCHANGED <<dnFile, dnLock, dnSaw, dnOverlap, dnUnseen>>

DnKillFails(p) ==    \* -1 for a live process too: it may belong to someone else
  /\ "kill" \in DnFails /\ dnSaw[p] \in DnAlive
  /\ DnGo(p, "test", "open")
  /\ dnUnseen' = TRUE
  /\ UNCHANGED <<dnFile, dnLock, dnSaw, dnOverlap>>

DnOpen(p) ==
  /\ DnGo(p, "open", "lock")
  /\ dnFile' = <<DnNobody>>     \* O_TRUNC
  /\ UNCHANGED <<dnLock, dnSaw, dnOverlap, dnUnseen>>

DnLocks(p) ==         \* F_TLOCK
  /\ DnGo(p, "lock", IF dnLock = DnNobody THEN "write" ELSE "gone")
  /\ dnLock' = IF dnLock = DnNobody THEN p ELSE dnLock
  /\ UNCHANGED <<dnFile, dnSaw, dnOverlap, dnUnseen>>

DnWrite(p) ==        \* at the start of the file
  /\ DnGo(p, "write", "close")
  /\ dnFile' = <<p>>
  /\ UNCHANGED <<dnLock, dnSaw, dnOverlap, dnUnseen>>

DnShort(p) ==        \* the first digits of an id are nothing, or some other id
  /\ "write" \in DnFails
  /\ DnGo(p, "write", "short")
  /\ \E q \in DnProcess \cup {DnNobody} : dnFile' = <<q>>
  /\ UNCHANGED <<dnLock, dnSaw, dnOverlap, dnUnseen>>

DnClosed(p) == IF dnLock = p THEN DnNobody ELSE dnLock

DnClose(p) ==        \* and after a short write start() ends the process
  /\ DnGo(p, "close", "running") \/ DnGo(p, "short", "gone")
  /\ dnLock' = DnClosed(p)
  /\ UNCHANGED <<dnFile, dnSaw, dnOverlap, dnUnseen>>

DnEnds(p) ==         \* killed, or daemon(), open() or lockf() of start() fails
  /\ p \in DnAlive
  /\ dnPc' = [dnPc EXCEPT ![p] = "gone"]
  /\ dnLock' = DnClosed(p)
  /\ UNCHANGED <<dnFile, dnSaw, dnOverlap, dnUnseen>>

DnNext == \E p \in DnProcess :
  \/ DnRead(p) \/ DnReadFails(p) \/ DnTest(p) \/ DnKillFails(p)
  \/ DnOpen(p) \/ DnLocks(p) \/ DnWrite(p) \/ DnShort(p) \/ DnClose(p)
  \/ DnEnds(p)

DnSpec == DnInit /\ [][DnNext]_dnVars

-----------------------------------------------------------------------------
(***************************************************************************)
(* Types, and the lock is held between the two steps that take and release *)
(* it, so by one process: no two write at a time.                          *)
(***************************************************************************)
DnTypeOK ==
  /\ dnFile \in {<< >>} \cup {<<p>> : p \in DnProcess \cup {DnNobody}}
  /\ dnPc \in [DnProcess -> {"idle", "test", "open", "lock", "write", "close", "short", "running", "gone"}]
  /\ dnSaw \in [DnProcess -> DnProcess \cup {DnNobody}]
  /\ dnOverlap \in BOOLEAN /\ dnUnseen \in BOOLEAN
  /\ \A p \in DnProcess : dnPc[p] \in {"write", "close", "short"} <=> dnLock = p

(***************************************************************************)
(* Line 24: start() ends the process if a daemon is there already. As long *)
(* as no two starts overlap, and no open(), read() or kill() of exist()    *)
(* fails over a live process, one daemon runs at most, and the file has    *)
(* its id, whatever became of the ones before. Both premises are needed,   *)
(* although lines 31 and 37 speak of none: a failing call is taken for "no *)
(* such process", and a start truncates the file before it asks for the    *)
(* lock.                                                                   *)
(***************************************************************************)
DnOneDaemon ==
  ~dnOverlap /\ ~dnUnseen => \A p \in DnProcess : dnPc[p] = "running" =>
    dnFile = <<p>> /\ \A q \in DnProcess : dnPc[q] = "running" => q = p
=============================================================================
