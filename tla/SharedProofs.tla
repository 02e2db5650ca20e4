---------------------------- MODULE SharedProofs ----------------------------
(***************************************************************************)
(* Proofs about the small components whose state threads or processes      *)
(* share: chef::wait_event_counter, chef::sync_once, chef::filelock,       *)
(* chef::debug_mutex, chef::daemon_op and the two classes of count_dump,   *)
(* for any number of threads, processes, objects, tags and calls.          *)
(***************************************************************************)
EXTENDS WaitEventCounter, SyncOnce, FileLock, DebugMutex, Daemon, CountDump,
        SequenceTheorems, FiniteSetTheorems, TLAPS

-----------------------------------------------------------------------------
(***************************************************************************)
(* sync_once.  The inductive invariant: who runs f found the flag lowered, *)
(* under the lock; a flag that is still lowered after f has run is about   *)
(* to be raised by the holder of the lock; and with a static object nobody *)
(* gets past the two tests unless f has run.                               *)
(***************************************************************************)
OncePast == {"store", "unlock", "returned"}

OnceInv ==
  /\ OnceTypeOK
  /\ \A s, t \in onceRuns : s = t
  /\ \A t \in OnceThread : oncePc[t] = "run" => ~onceDone /\ onceRuns = {}
  /\ ~onceDone /\ onceRuns # {} => \E t \in OnceThread : oncePc[t] = "store"
  /\ onceStatic /\ onceDone => onceRuns # {}
  /\ onceStatic => \A t \in OnceThread : oncePc[t] \in OncePast => onceRuns # {}

(***************************************************************************)
(* A new object has run nothing.                                           *)
(***************************************************************************)
LEMMA OnceInitInv == OnceInit => OnceInv
BY OnceAssumption DEF OnceInit, OnceInv, OnceTypeOK, OnceInside, OncePast

(***************************************************************************)
(* Every step of run() keeps the invariant.                                *)
(***************************************************************************)
LEMMA OnceStepInv == OnceInv /\ [OnceNext]_onceVars => OnceInv'
<1> SUFFICES ASSUME OnceInv, [OnceNext]_onceVars PROVE OnceInv'  OBVIOUS
<1> USE OnceAssumption DEF OnceInv, OnceTypeOK, OnceInside, OncePast, OnceGo
<1>1. ASSUME NEW t \in OnceThread, OnceRead(t) PROVE OnceInv'
  BY <1>1 DEF OnceRead
<1>2. ASSUME NEW t \in OnceThread, OnceLock(t) PROVE OnceInv'
  BY <1>2 DEF OnceLock
<1>3. ASSUME NEW t \in OnceThread, OnceTest(t) PROVE OnceInv'
  BY <1>3 DEF OnceTest, OnceMustRun
<1>4. ASSUME NEW t \in OnceThread, OnceThrow(t) PROVE OnceInv'
  BY <1>4 DEF OnceThrow
<1>5. ASSUME NEW t \in OnceThread, OnceFinish(t) PROVE OnceInv'
  BY <1>5 DEF OnceFinish
<1>6. ASSUME NEW t \in OnceThread, OnceStore(t) PROVE OnceInv'
  BY <1>6 DEF OnceStore
<1>7. ASSUME NEW t \in OnceThread, OnceUnlock(t) PROVE OnceInv'
  BY <1>7 DEF OnceUnlock, OnceReleased
<1>8. CASE UNCHANGED onceVars
  BY <1>8 DEF onceVars
<1> QED  BY <1>1, <1>2, <1>3, <1>4, <1>5, <1>6, <1>7, <1>8 DEF OnceNext, OnceStep

(***************************************************************************)
(* m_ is held by the thread between its lock() and its unlock().           *)
(***************************************************************************)
THEOREM OnceTypeCorrect == OnceSpec => []OnceTypeOK
<1>1. OnceInv => OnceTypeOK  BY DEF OnceInv
<1> QED  BY <1>1, OnceInitInv, OnceStepInv, PTL DEF OnceSpec

(***************************************************************************)
(* Whatever the number of threads that call run(), f runs to its end at    *)
(* most once; with a static object it has when a call returns.             *)
(***************************************************************************)
THEOREM OnceIsOnce == OnceSpec => []OnceExactly
<1>1. OnceInv => OnceExactly  BY DEF OnceInv, OnceExactly, OncePast
<1> QED  BY <1>1, OnceInitInv, OnceStepInv, PTL DEF OnceSpec

-----------------------------------------------------------------------------
(***************************************************************************)
(* filelock.  What is to be shown is inductive: an object that is alone in *)
(* its process holds the lock only while its process owns it.              *)
(***************************************************************************)
FlInv ==
  /\ FlTypeOK
  /\ \A o \in flHolding : FlAlone(o) => flOwner = FlProcessOf[o]

(***************************************************************************)
(* At first no object is attached to the file.                             *)
(***************************************************************************)
LEMMA FlInitInv == FlInit => FlInv
BY DEF FlInit, FlInv, FlTypeOK

(***************************************************************************)
(* Every call, every end of a wait and every crash keeps the invariant.    *)
(***************************************************************************)
LEMMA FlStepInv == FlInv /\ [FlNext]_flVars => FlInv'
<1> SUFFICES ASSUME FlInv, [FlNext]_flVars PROVE FlInv'  OBVIOUS
<1> USE FlAssumption DEF FlInv, FlTypeOK, FlRuns, FlFree, FlAlone
<1>1. ASSUME NEW o \in FlObject, FlAttach(o) PROVE FlInv'
  BY <1>1 DEF FlAttach
<1>2. ASSUME NEW o \in FlObject, FlLock(o) PROVE FlInv'
  BY <1>2 DEF FlLock
<1>3. ASSUME NEW o \in FlObject, FlLockSucceeds(o) PROVE FlInv'
  BY <1>3 DEF FlLockSucceeds, FlGranted
<1>4. ASSUME NEW o \in FlObject, FlLockFails(o) PROVE FlInv'
  BY <1>4 DEF FlLockFails
<1>5. ASSUME NEW o \in FlObject, FlTryLock(o) PROVE FlInv'
  BY <1>5 DEF FlTryLock, FlGranted
<1>6. ASSUME NEW o \in FlObject, FlUnlock(o) PROVE FlInv'
  BY <1>6 DEF FlUnlock, FlGivenUp
<1>7. ASSUME NEW o \in FlObject, FlDetach(o) PROVE FlInv'
  BY <1>7 DEF FlDetach, FlClosed, FlGivenUp
<1>8. ASSUME NEW p \in FlProcess, FlCrash(p) PROVE FlInv'
  BY <1>8 DEF FlCrash, FlExited, FlGivenUp
<1>9. CASE UNCHANGED flVars
  BY <1>9 DEF flVars
<1> QED  BY <1>1, <1>2, <1>3, <1>4, <1>5, <1>6, <1>7, <1>8, <1>9 DEF FlNext

(***************************************************************************)
(* The owner of the lock is a process that runs and has the file open: no  *)
(* crash and no close leaves a lock nobody can give up.                    *)
(***************************************************************************)
THEOREM FlTypeCorrect == FlSpec => []FlTypeOK
<1>1. FlInv => FlTypeOK  BY DEF FlInv
<1> QED  BY <1>1, FlInitInv, FlStepInv, PTL DEF FlSpec

(***************************************************************************)
(* Of processes with one object each, one at most holds the lock.          *)
(***************************************************************************)
THEOREM FlIsExclusive == FlSpec => []FlExclusive
<1>1. FlInv => FlExclusive
  BY DEF FlInv, FlTypeOK, FlExclusive, FlAlone
<1> QED  BY <1>1, FlInitInv, FlStepInv, PTL DEF FlSpec

-----------------------------------------------------------------------------
(***************************************************************************)
(* debug_mutex.  The inductive invariant: for a lock its owner never took  *)
(* again, the step a thread is at says what the two containers have about  *)
(* it and whether core_ is taken.                                          *)
(***************************************************************************)
DmKnown(m, t) ==
  CASE DmAt(t, "acquire", m)  -> DmWaits(<<m, t>>) /\ <<m, t>> \notin dmHold /\ dmOwner[m] # t
    [] DmAt(t, "acquired", m) -> DmWaits(<<m, t>>) /\ <<m, t>> \notin dmHold /\ dmOwner[m] = t
    [] DmAt(t, "unlocked", m) -> ~DmWaits(<<m, t>>) /\ <<m, t>> \in dmHold /\ dmOwner[m] # t
    [] OTHER -> ~DmWaits(<<m, t>>) /\ (<<m, t>> \in dmHold <=> dmOwner[m] = t)

DmInv ==
  /\ DmTypeOK
  /\ DmNoFalseAlarm
  /\ \A m \in DmMutex, t \in DmThread :
       /\ DmAt(t, "acquire", m) /\ dmOwner[m] = t => dmDepth[m] < DmMaxDepth
       /\ <<m, t>> \notin dmNested => /\ DmKnown(m, t)
                                      /\ dmOwner[m] = t => dmDepth[m] = 1

(***************************************************************************)
(* At first nothing is held and nothing wanted.                            *)
(***************************************************************************)
LEMMA DmInitInv == DmInit => DmInv
<1> SUFFICES ASSUME DmInit PROVE DmInv  OBVIOUS
<1> USE DmAssumption DEF DmInit, DmKey, Absent, TooOld
<1>1. DmTypeOK
  <2>1. dmWait \in [DmKey -> Absent..TooOld]  OBVIOUS
  <2>2. dmPc \in [DmThread -> [at : {"idle", "acquire", "acquired", "unlocked"},
                              mutex : DmMutex \cup {DmNobody}]]
    OBVIOUS
  <2>3. dmDepth \in [DmMutex -> 0..DmMaxDepth]  OBVIOUS
  <2> QED  BY <2>1, <2>2, <2>3 DEF DmTypeOK
<1>2. DmNoFalseAlarm  BY DEF DmNoFalseAlarm
<1>3. \A m \in DmMutex, t \in DmThread :
        dmWait[<<m, t>>] = -1 /\ dmOwner[m] # t /\ dmPc[t].at = "idle"
  OBVIOUS
<1>4. \A m \in DmMutex, t \in DmThread : DmKnown(m, t) /\ ~DmAt(t, "acquire", m)
  BY <1>3 DEF DmKnown, DmAt, DmWaits
<1> QED  BY <1>1, <1>2, <1>3, <1>4 DEF DmInv

(***************************************************************************)
(* Every step of a lock() or unlock(), the clock and the report keep the   *)
(* invariant.                                                              *)
(***************************************************************************)
LEMMA DmStepInv == DmInv /\ [DmNext]_dmVars => DmInv'
<1> SUFFICES ASSUME DmInv, [DmNext]_dmVars PROVE DmInv'  OBVIOUS
<1> USE DmAssumption DEF Absent, TooOld
<1> DEFINE Part(n, s) ==
             /\ DmAt(s, "acquire", n) /\ dmOwner[n] = s => dmDepth[n] < DmMaxDepth
             /\ <<n, s>> \notin dmNested => /\ DmKnown(n, s)
                                            /\ dmOwner[n] = s => dmDepth[n] = 1
<1>a. \A m, n \in DmMutex, t, s \in DmThread : /\ <<m, t>> \in DmKey
                                               /\ <<m, t>> = <<n, s>> => m = n /\ t = s
  BY DEF DmKey
<1>b. \A n \in DmMutex, s \in DmThread : Part(n, s)  BY DEF DmInv
<1>c. DmTypeOK /\ DmNoFalseAlarm  BY DEF DmInv
<1>q. ASSUME DmTypeOK', DmNoFalseAlarm', \A n \in DmMutex, s \in DmThread : Part(n, s)'
      PROVE DmInv'
  BY <1>q DEF DmInv
<1>1. ASSUME NEW t \in DmThread, NEW m \in DmMutex, BeforeAcquire(t, m) PROVE DmInv'
  <2> USE <1>1 DEF BeforeAcquire, DmComplain, DmTo, DmIdle
  <2>1. DmTypeOK'  BY <1>a, <1>c DEF DmTypeOK
  <2>2. DmNoFalseAlarm'
    <3>1. dmOwner[m] # t /\ <<m, t>> \notin dmNested => ~DmWaits(<<m, t>>) /\ <<m, t>> \notin dmHold
      <4>1. <<m, t>> \notin dmNested => DmKnown(m, t)  BY <1>b
      <4> QED  BY <4>1 DEF DmKnown, DmAt
    <3> QED  BY <3>1, <1>c DEF DmNoFalseAlarm
  <2>3. ASSUME NEW n \in DmMutex, NEW s \in DmThread PROVE Part(n, s)'
    <3>1. CASE n = m /\ s = t  BY <3>1, <1>a, <1>b, <1>c DEF DmKnown, DmAt, DmWaits, DmTypeOK
    <3>2. CASE ~(n = m /\ s = t)  BY <3>2, <1>a, <1>b, <1>c DEF DmKnown, DmAt, DmWaits, DmTypeOK
    <3> QED  BY <3>1, <3>2
  <2> HIDE DEF Part
  <2> QED  BY <1>q, <2>1, <2>2, <2>3
<1>2. ASSUME NEW t \in DmThread, NEW m \in DmMutex, CoreLock(t, m) PROVE DmInv'
  <2> USE <1>2 DEF CoreLock, DmTo
  <2>0. dmDepth[m] + 1 \in 0..DmMaxDepth
    <3>1. CASE dmOwner[m] = t
      <4>1. Part(m, t)  BY <1>b
      <4>2. dmDepth[m] < DmMaxDepth  BY <3>1, <4>1
      <4> QED  BY <4>2, <1>c DEF DmTypeOK
    <3>2. CASE dmOwner[m] = DmNobody  BY <3>2, <1>c DEF DmTypeOK
    <3> QED  BY <3>1, <3>2
  <2>1. DmTypeOK'  BY <2>0, <1>c DEF DmTypeOK, DmAt
  <2>2. DmNoFalseAlarm'  BY <1>c DEF DmNoFalseAlarm
  <2>3. ASSUME NEW n \in DmMutex, NEW s \in DmThread PROVE Part(n, s)'
    <3>1. CASE n = m /\ s = t  BY <3>1, <1>b, <1>c DEF DmKnown, DmAt, DmWaits, DmTypeOK
    <3>2. CASE ~(n = m /\ s = t)
      <4>1. CASE n = m  BY <4>1, <3>2, <1>b, <1>c DEF DmKnown, DmAt, DmWaits, DmTypeOK
      <4>2. CASE n # m  BY <4>2, <3>2, <1>b, <1>c DEF DmKnown, DmAt, DmWaits, DmTypeOK
      <4> QED  BY <4>1, <4>2
    <3> QED  BY <3>1, <3>2
  <2> HIDE DEF Part
  <2> QED  BY <1>q, <2>1, <2>2, <2>3
<1>3. ASSUME NEW t \in DmThread, NEW m \in DmMutex, AfterAcquire(t, m) PROVE DmInv'
  <2> USE <1>3 DEF AfterAcquire, DmComplain, WaitEnds, DmTo
  <2>1. DmTypeOK'  BY <1>a, <1>c DEF DmTypeOK
  <2>2. DmNoFalseAlarm'
    <3>1. <<m, t>> \notin dmNested => DmWaits(<<m, t>>) /\ <<m, t>> \notin dmHold
      <4>1. <<m, t>> \notin dmNested => DmKnown(m, t)  BY <1>b
      <4> QED  BY <4>1 DEF DmKnown, DmAt
    <3> QED  BY <3>1, <1>c DEF DmNoFalseAlarm
  <2>3. ASSUME NEW n \in DmMutex, NEW s \in DmThread PROVE Part(n, s)'
    <3>1. CASE n = m /\ s = t  BY <3>1, <1>a, <1>b, <1>c DEF DmKnown, DmAt, DmWaits, DmTypeOK
    <3>2. CASE ~(n = m /\ s = t)  BY <3>2, <1>a, <1>b, <1>c DEF DmKnown, DmAt, DmWaits, DmTypeOK
    <3> QED  BY <3>1, <3>2
  <2> HIDE DEF Part
  <2> QED  BY <1>q, <2>1, <2>2, <2>3
<1>4. ASSUME NEW t \in DmThread, NEW m \in DmMutex, CoreUnlock(t, m) PROVE DmInv'
  <2> USE <1>4 DEF CoreUnlock, DmLeft, DmTo, DmIdle
  <2>1. DmTypeOK'  BY <1>c DEF DmTypeOK
  <2>2. DmNoFalseAlarm'  BY <1>c DEF DmNoFalseAlarm
  <2>3. ASSUME NEW n \in DmMutex, NEW s \in DmThread PROVE Part(n, s)'
    <3>1. CASE n = m /\ s = t  BY <3>1, <1>b, <1>c DEF DmKnown, DmAt, DmWaits, DmTypeOK
    <3>2. CASE ~(n = m /\ s = t)
      <4>1. CASE n = m  BY <4>1, <3>2, <1>b, <1>c DEF DmKnown, DmAt, DmWaits, DmTypeOK
      <4>2. CASE n # m  BY <4>2, <3>2, <1>b, <1>c DEF DmKnown, DmAt, DmWaits, DmTypeOK
      <4> QED  BY <4>1, <4>2
    <3> QED  BY <3>1, <3>2
  <2> HIDE DEF Part
  <2> QED  BY <1>q, <2>1, <2>2, <2>3
<1>5. ASSUME NEW t \in DmThread, NEW m \in DmMutex, AfterUnlock(t, m) PROVE DmInv'
  <2> USE <1>5 DEF AfterUnlock, DmComplain, HoldEnds, DmTo
  <2>1. DmTypeOK'  BY <1>a, <1>c DEF DmTypeOK
  <2>2. DmNoFalseAlarm'
    <3>1. <<m, t>> \notin dmNested => ~DmWaits(<<m, t>>) /\ <<m, t>> \in dmHold
      <4>1. <<m, t>> \notin dmNested => DmKnown(m, t)  BY <1>b
      <4> QED  BY <4>1 DEF DmKnown, DmAt
    <3> QED  BY <3>1, <1>c DEF DmNoFalseAlarm
  <2>3. ASSUME NEW n \in DmMutex, NEW s \in DmThread PROVE Part(n, s)'
    <3>1. CASE n = m /\ s = t  BY <3>1, <1>a, <1>b, <1>c DEF DmKnown, DmAt, DmWaits, DmTypeOK
    <3>2. CASE ~(n = m /\ s = t)  BY <3>2, <1>a, <1>b, <1>c DEF DmKnown, DmAt, DmWaits, DmTypeOK
    <3> QED  BY <3>1, <3>2
  <2> HIDE DEF Part
  <2> QED  BY <1>q, <2>1, <2>2, <2>3
<1>6. CASE DmTick
  <2>1. DmTypeOK'  BY <1>6, <1>c DEF DmTick, DmTypeOK
  <2>2. \A k \in DmKey : DmWaits(k)' = DmWaits(k)  BY <1>6, <1>c DEF DmTick, DmTypeOK, DmWaits
  <2> QED  BY <1>6, <1>a, <1>b, <1>c, <2>1, <2>2 DEF DmTick, DmInv, DmNoFalseAlarm, DmKnown, DmAt
<1>7. CASE PrintReport
  BY <1>7, <1>b, <1>c DEF PrintReport, LongWaits, DmInv, DmTypeOK, DmNoFalseAlarm, DmKnown, DmAt, DmWaits
<1>8. CASE UNCHANGED dmVars
  BY <1>8, <1>b, <1>c DEF dmVars, DmInv, DmTypeOK, DmNoFalseAlarm, DmKnown, DmAt, DmWaits
<1> QED  BY <1>1, <1>2, <1>3, <1>4, <1>5, <1>6, <1>7, <1>8 DEF DmNext, DmThreadStep

(***************************************************************************)
(* core_ has an owner exactly when its count is not 0, and the containers  *)
(* name locks and threads.                                                 *)
(***************************************************************************)
THEOREM DmTypeCorrect == DmSpec => []DmTypeOK
<1>1. DmInv => DmTypeOK  BY DEF DmInv
<1> QED  BY <1>1, DmInitInv, DmStepInv, PTL DEF DmSpec

(***************************************************************************)
(* Threads that overtake each other between the containers and core_ cause *)
(* no false alarm, whatever their number.                                  *)
(***************************************************************************)
THEOREM DmAlarmsTrue == DmSpec => []DmNoFalseAlarm
<1>1. DmInv => DmNoFalseAlarm  BY DEF DmInv
<1> QED  BY <1>1, DmInitInv, DmStepInv, PTL DEF DmSpec

(***************************************************************************)
(* Between calls the container of held locks says who holds what, for      *)
(* locks that are not taken again by their owner.                          *)
(***************************************************************************)
THEOREM DmHoldersAreListed == DmSpec => []DmHoldersListed
<1>1. ASSUME DmInv, NEW m \in DmMutex, NEW t \in DmThread, DmIdle(t), <<m, t>> \notin dmNested
      PROVE  (<<m, t>> \in dmHold <=> dmOwner[m] = t) /\ ~DmWaits(<<m, t>>)
  <2>1. \A a \in {"acquire", "acquired", "unlocked"} : ~DmAt(t, a, m)
    BY <1>1 DEF DmAt, DmIdle
  <2>2. DmKnown(m, t)  BY <1>1 DEF DmInv
  <2> QED  BY <2>1, <2>2 DEF DmKnown
<1>2. DmInv => DmHoldersListed  BY <1>1 DEF DmHoldersListed
<1> QED  BY <1>2, DmInitInv, DmStepInv, PTL DEF DmSpec

(***************************************************************************)
(* Both together: what the class prints about locks is true.               *)
(***************************************************************************)
THEOREM DmTellsTruth == DmSpec => []DmTruthful
BY DmAlarmsTrue, DmHoldersAreListed, PTL DEF DmTruthful

-----------------------------------------------------------------------------
(***************************************************************************)
(* daemon_op.  The inductive invariant: when no two starts overlapped and  *)
(* no failing call hid a live process, a start that is under way beside a  *)
(* daemon has read that daemon's id and is about to find it alive; one     *)
(* that got further found none.                                            *)
(***************************************************************************)
DnRunning(p) == dnPc[p] = "running"

DnInv ==
  /\ DnTypeOK
  /\ ~dnOverlap /\ ~dnUnseen =>
       /\ \A p, q \in DnStarting : p = q
       /\ \A p, q \in DnProcess : DnRunning(p) /\ DnRunning(q) => p = q
       /\ \A p \in DnProcess : DnRunning(p) \/ dnPc[p] = "close" => dnFile = <<p>>
       /\ \A p \in DnProcess, q \in DnStarting :
            DnRunning(p) => dnPc[q] = "test" /\ dnSaw[q] = p

(***************************************************************************)
(* At first there is no file and no daemon.                                *)
(***************************************************************************)
LEMMA DnInitInv == DnInit => DnInv
BY DnAssumption DEF DnInit, DnInv, DnTypeOK, DnStarting, DnRunning

(***************************************************************************)
(* Every step of a start() and every end of a process keeps the invariant. *)
(***************************************************************************)
LEMMA DnStepInv == DnInv /\ [DnNext]_dnVars => DnInv'
<1> SUFFICES ASSUME DnInv, [DnNext]_dnVars PROVE DnInv'  OBVIOUS
<1> USE DnAssumption DEF DnInv, DnTypeOK, DnStarting, DnRunning, DnGo
<1>0. ASSUME NEW p \in DnProcess, DnBegins, ~dnOverlap', ~dnUnseen,
             dnPc' = [dnPc EXCEPT ![p] = dnPc'[p]], dnPc'[p] \in {"open", "test"}
      PROVE  ~dnOverlap /\ DnStarting = {} /\ DnStarting' = {p}
  <2>1. ~dnOverlap /\ DnStarting = {}  BY <1>0 DEF DnBegins
  <2>2. \A q \in DnProcess : q # p => dnPc'[q] = dnPc[q]  BY <1>0
  <2> QED  BY <1>0, <2>1, <2>2
<1>1. ASSUME NEW p \in DnProcess, DnRead(p) PROVE DnInv'
  <2> USE <1>1 DEF DnRead
  <2>1. DnTypeOK'  BY DEF DnBegins
  <2>2. \A q \in DnProcess : dnFile = <<q>> => dnFile # << >> /\ dnFile[1] = q  OBVIOUS
  <2>3. ASSUME ~dnOverlap', ~dnUnseen' PROVE ~dnOverlap /\ DnStarting = {} /\ DnStarting' = {p}
    <3>1. dnPc' = [dnPc EXCEPT ![p] = dnPc'[p]] /\ dnPc'[p] \in {"open", "test"}  OBVIOUS
    <3> QED  BY <1>0, <2>3, <3>1
  <2>4. ASSUME ~dnOverlap', ~dnUnseen', NEW r \in DnProcess, DnRunning(r)'
        PROVE  DnRunning(r) /\ dnFile = <<r>> /\ dnPc'[p] = "test" /\ dnSaw'[p] = r
    BY <2>2, <2>3, <2>4
  <2> QED  BY <2>1, <2>3, <2>4
<1>9. ASSUME NEW p \in DnProcess, DnReadFails(p) PROVE DnInv'
  <2> USE <1>9 DEF DnReadFails
  <2>1. DnTypeOK'  BY DEF DnBegins
  <2>2. \A q \in DnProcess : dnFile = <<q>> => dnFile # << >> /\ dnFile[1] = q  OBVIOUS
  <2>3. ASSUME ~dnOverlap', ~dnUnseen'
        PROVE  ~dnOverlap /\ ~dnUnseen /\ DnStarting = {} /\ DnStarting' = {p}
    <3>1. dnPc' = [dnPc EXCEPT ![p] = dnPc'[p]] /\ dnPc'[p] \in {"open", "test"} /\ ~dnUnseen  BY <2>3
    <3> QED  BY <1>0, <2>3, <3>1
  <2>4. ASSUME ~dnOverlap', ~dnUnseen', NEW r \in DnProcess PROVE ~DnRunning(r)'
    <3> SUFFICES ASSUME DnRunning(r)' PROVE FALSE  OBVIOUS
    <3>1. DnRunning(r) /\ dnFile = <<r>>  BY <2>3, <2>4
    <3>2. dnFile[1] \in DnAlive  BY <2>2, <3>1 DEF DnAlive
    <3> QED  BY <2>4, <3>2
  <2> QED  BY <2>1, <2>3, <2>4
<1>2. ASSUME NEW p \in DnProcess, DnTest(p) PROVE DnInv'
  BY <1>2 DEF DnTest, DnFound, DnAlive
<1>10. ASSUME NEW p \in DnProcess, DnKillFails(p) PROVE DnInv'
  BY <1>10 DEF DnKillFails
<1>3. ASSUME NEW p \in DnProcess, DnOpen(p) PROVE DnInv'
  BY <1>3 DEF DnOpen
<1>4. ASSUME NEW p \in DnProcess, DnLocks(p) PROVE DnInv'
  BY <1>4 DEF DnLocks
<1>5. ASSUME NEW p \in DnProcess, DnWrite(p) PROVE DnInv'
  BY <1>5 DEF DnWrite
<1>11. ASSUME NEW p \in DnProcess, DnShort(p) PROVE DnInv'
  BY <1>11 DEF DnShort
<1>6. ASSUME NEW p \in DnProcess, DnClose(p) PROVE DnInv'
  BY <1>6 DEF DnClose, DnClosed
<1>7. ASSUME NEW p \in DnProcess, DnEnds(p) PROVE DnInv'
  BY <1>7 DEF DnEnds, DnAlive, DnClosed
<1>8. CASE UNCHANGED dnVars
  BY <1>8 DEF dnVars
<1> QED  BY <1>1, <1>2, <1>3, <1>4, <1>5, <1>6, <1>7, <1>8, <1>9, <1>10, <1>11 DEF DnNext

(***************************************************************************)
(* One process at a time is between its lockf() and its close(), whatever  *)
(* starts overlap.                                                         *)
(***************************************************************************)
THEOREM DnTypeCorrect == DnSpec => []DnTypeOK
<1>1. DnInv => DnTypeOK  BY DEF DnInv
<1> QED  BY <1>1, DnInitInv, DnStepInv, PTL DEF DnSpec

(***************************************************************************)
(* Starts that do not overlap leave one daemon at most, with its id in the *)
(* file, whatever became of the ones before and whichever calls fail, as   *)
(* long as none of those of exist() fails while the process that the file  *)
(* names is alive.                                                         *)
(***************************************************************************)
THEOREM DnIsOneDaemon == DnSpec => []DnOneDaemon
<1>1. DnInv => DnOneDaemon  BY DEF DnInv, DnOneDaemon, DnRunning
<1> QED  BY <1>1, DnInitInv, DnStepInv, PTL DEF DnSpec

-----------------------------------------------------------------------------
(***************************************************************************)
(* wait_event_counter.  The inductive invariant: counted_ is the number of *)
(* calls, and a thread that was let through saw the count reached, which   *)
(* never falls.                                                            *)
(***************************************************************************)
CountInv == TypeOK /\ NoEarlyReturn

(***************************************************************************)
(* No call has been made and nobody has been let through.                  *)
(***************************************************************************)
LEMMA CounterInitInv == Init => CountInv
<1>1. Cardinality({}) = 0  BY FS_EmptySet
<1> QED  BY <1>1, CounterAssumption DEF Init, CountInv, TypeOK, NoEarlyReturn

(***************************************************************************)
(* The calls made are a finite set, so one more call counts one more.      *)
(***************************************************************************)
LEMMA OneMore ==
  ASSUME TypeOK, NEW n \in Notifier, n \notin called
  PROVE  /\ Cardinality(called) \in Nat
         /\ Cardinality(called \cup {n}) = Cardinality(called) + 1
<1>1. IsFiniteSet(called)  BY FS_Subset, CounterAssumption DEF TypeOK
<1> QED  BY <1>1, FS_CardinalityType, FS_AddElement

(***************************************************************************)
(* Every step keeps the invariant.                                         *)
(***************************************************************************)
LEMMA CounterStepInv == CountInv /\ [Next]_vars => CountInv'
<1> SUFFICES ASSUME CountInv, [Next]_vars PROVE CountInv'  OBVIOUS
<1> USE DEF CountInv
<1>1. counted \in Nat
  <2>1. IsFiniteSet(called)  BY FS_Subset, CounterAssumption DEF TypeOK
  <2> QED  BY <2>1, FS_CardinalityType DEF TypeOK
<1>2. ASSUME NEW n \in Notifier, Notify(n) PROVE CountInv'
  <2>1. counted' = counted + 1 /\ called' = called \cup {n} /\ n \notin called
    BY <1>2 DEF Notify, CountOne
  <2>2. Cardinality(called') = counted'
    BY <2>1, OneMore DEF TypeOK
  <2>3. pc' = pc \/ \E w \in Waiter : pc' = [pc EXCEPT ![w] = "woken"]
    BY <1>2 DEF Notify, WakeOne, Waiting
  <2>4. TypeOK'
    BY <2>1, <2>2, <2>3 DEF TypeOK
  <2>5. NoEarlyReturn'
    BY <1>1, <2>1, <2>2, <2>3, CounterAssumption DEF TypeOK, NoEarlyReturn
  <2> QED  BY <2>4, <2>5
<1>3. ASSUME NEW w \in Waiter, Test(w) PROVE CountInv'
  BY <1>3 DEF Test, TestEnds, Met, TypeOK, NoEarlyReturn
<1>4. ASSUME NEW w \in Waiter, Spurious(w) PROVE CountInv'
  BY <1>4 DEF Spurious, TypeOK, NoEarlyReturn
<1>5. ASSUME NEW w \in Waiter, Timeout(w) PROVE CountInv'
  BY <1>5 DEF Timeout, Verdict, Met, TypeOK, NoEarlyReturn
<1>6. CASE UNCHANGED vars
  BY <1>6 DEF vars, TypeOK, NoEarlyReturn
<1> QED  BY <1>2, <1>3, <1>4, <1>5, <1>6 DEF Next

(***************************************************************************)
(* The invariant holds in every reachable state.                           *)
(***************************************************************************)
THEOREM CounterInvariance == Spec => []CountInv
<1> QED  BY CounterInitInv, CounterStepInv, PTL DEF Spec

(***************************************************************************)
(* counted() is the number of calls of notify() in every reachable state.  *)
(***************************************************************************)
THEOREM CounterTypeCorrect == Spec => []TypeOK
<1>1. CountInv => TypeOK  BY DEF CountInv
<1> QED  BY <1>1, CounterInvariance, PTL

(***************************************************************************)
(* wait() returns, and wait_for() returns true, only after need_count_     *)
(* calls of notify().                                                      *)
(***************************************************************************)
THEOREM NoEarlyReturnAlways == Spec => []NoEarlyReturn
<1>1. CountInv => NoEarlyReturn  BY DEF CountInv
<1> QED  BY <1>1, CounterInvariance, PTL

(***************************************************************************)
(* wait_for() reports a timeout only while the count is not reached.       *)
(***************************************************************************)
THEOREM NoFalseTimeoutAlways == Spec => NoFalseTimeout
<1> DEFINE Late(w) == pc[w] # "expired" /\ pc'[w] = "expired"
<1>1. CountInv /\ [Next]_vars
        => [\A w \in Waiter : Late(w) => Cardinality(called) < NeedCount]_vars
  <2> SUFFICES ASSUME CountInv, Next, NEW w \in Waiter, Late(w)
               PROVE  Cardinality(called) < NeedCount
    OBVIOUS
  <2> USE DEF CountInv
  <2>1. ASSUME NEW n \in Notifier, Notify(n) PROVE FALSE
    BY <2>1 DEF Notify, WakeOne, Waiting, TypeOK
  <2>2. ASSUME NEW v \in Waiter, Test(v) \/ Spurious(v) PROVE FALSE
    BY <2>2 DEF Test, TestEnds, Spurious, TypeOK
  <2>3. ASSUME NEW v \in Waiter, Timeout(v) PROVE Cardinality(called) < NeedCount
    <3>1. IsFiniteSet(called)  BY FS_Subset, CounterAssumption DEF TypeOK
    <3>2. Cardinality(called) \in Nat  BY <3>1, FS_CardinalityType
    <3>3. ~Met  BY <2>3 DEF Timeout, Verdict, TypeOK
    <3> QED  BY <3>2, <3>3, CounterAssumption DEF Met, TypeOK
  <2> QED  BY <2>1, <2>2, <2>3 DEF Next
<1> QED  BY <1>1, CounterInvariance, PTL DEF Spec, NoFalseTimeout

-----------------------------------------------------------------------------
(***************************************************************************)
(* count_dump.  The values of the variables.                               *)
(***************************************************************************)
CdCounts == UNION {[D -> SUBSET CdCall] : D \in SUBSET CdTag}
CdDump   == [whole : BOOLEAN, counts : CdCounts]

CdValues ==
  /\ cdType \in {"atomic", "mutex"} /\ cdStyle \in {"overwrite", "append"}
  /\ cdCount \in CdCounts /\ cdSnap \in CdCounts
  /\ cdDone \in [CdTag -> SUBSET CdCall] /\ cdDoneAtExit \in [CdTag -> SUBSET CdCall]
  /\ cdRead \in [CdCall -> SUBSET CdCall]
  /\ cdLock \in CdCall \cup {"dumper", "nobody"}
  /\ cdPos \in 1..(Len(CdTags) + 1)
  /\ cdTmp \in Seq(CdDump) /\ cdFile \in Seq(CdDump)
  /\ cdExit \in BOOLEAN

(***************************************************************************)
(* mutex_ is held by the call between its two steps, and by the dumper     *)
(* exactly while it copies: what a call has read is still the count when   *)
(* it writes.                                                              *)
(***************************************************************************)
CdGuarded ==
  /\ cdType = "atomic" => cdLock = "nobody"
  /\ cdType = "mutex" => (cdLock = "dumper" <=> cdPc = "copy")
  /\ \A c \in CdCall : cdAt[c] = "read" => /\ cdType = "mutex" /\ cdLock = c /\ CdKind[c] = "count"
                                           /\ cdRead[c] = CdValue(CdTagOf[c])

(***************************************************************************)
(* The counters hold what was counted; a tag that is not there has not     *)
(* been counted since it was removed.                                      *)
(***************************************************************************)
CdExact == \A g \in CdTag : CdValue(g) = cdDone[g]

(***************************************************************************)
(* Under the mutex the copy made so far is the counters, restricted to the *)
(* tags that have been passed.                                             *)
(***************************************************************************)
CdPassed == {CdTags[i] : i \in 1..(cdPos - 1)}

CdCopied ==
  cdType = "mutex" /\ cdPc = "copy" =>
    cdSnap = [g \in DOMAIN cdCount \cap CdPassed |-> cdCount[g]]

(***************************************************************************)
(* The temporary file that is renamed has a whole dump, unless a write     *)
(* failed; what is filled has been opened.                                 *)
(***************************************************************************)
CdOnDisk ==
  /\ cdPc = "fill" => IF cdStyle = "append" THEN cdFile # << >> ELSE cdTmp # << >>
  /\ cdPc = "rename" /\ cdFaults = 0 => cdTmp # << >> /\ Last(cdTmp).whole
  /\ cdPc = "rename" => cdStyle = "overwrite"
  /\ cdStyle = "append" => cdTmp = << >>

(***************************************************************************)
(* Who dumps, and when.                                                    *)
(***************************************************************************)
CdOwners ==
  /\ cdBy = "owner" => cdExit /\ cdPc \in {"lock", "copy", "write", "fill", "rename", "ended"}
  /\ cdBy = "thread" => cdPc \notin {"none", "ended"}
  /\ cdBy = "nobody" => cdPc \in {"none", "ended"}

(***************************************************************************)
(* Counts are only added to a tag that is never set, added or removed, so  *)
(* the last dump, copied after the destructor was called, cannot miss one  *)
(* that was made before: not in the copy, the temporary file or the file.  *)
(***************************************************************************)
CdCovers(counts, tags) ==
  \A g \in tags : CdOnlyCounted(g) /\ cdDoneAtExit[g] # {} =>
    g \in DOMAIN counts /\ cdDoneAtExit[g] \subseteq counts[g]

CdNoneMissed ==
  /\ cdExit => \A g \in CdTag : CdOnlyCounted(g) => cdDoneAtExit[g] \subseteq cdDone[g]
  /\ cdBy = "owner" =>
       /\ cdPc = "copy" => CdCovers(cdSnap, CdPassed)
       /\ cdPc \in {"write", "fill"} => CdCovers(cdSnap, CdTag)
       /\ cdPc = "rename" /\ cdFaults = 0 => CdCovers(Last(cdTmp).counts, CdTag)
       /\ cdPc = "ended" /\ cdFaults = 0 => cdFile # << >> /\ CdCovers(Last(cdFile).counts, CdTag)

CdInv == CdTypeOK /\ CdValues /\ CdGuarded /\ CdExact /\ CdCopied /\ CdOnDisk /\ CdFileWhole
         /\ CdOwners /\ CdNoneMissed

(***************************************************************************)
(* A table of counts is a function on some of the tags.                    *)
(***************************************************************************)
LEMMA CdCountsAre ==
  ASSUME NEW f
  PROVE  f \in CdCounts <=> DOMAIN f \subseteq CdTag /\ f \in [DOMAIN f -> SUBSET CdCall]
<1>1. ASSUME f \in CdCounts PROVE DOMAIN f \subseteq CdTag /\ f \in [DOMAIN f -> SUBSET CdCall]
  BY <1>1 DEF CdCounts
<1>2. ASSUME DOMAIN f \subseteq CdTag, f \in [DOMAIN f -> SUBSET CdCall] PROVE f \in CdCounts
  BY <1>2 DEF CdCounts
<1> QED  BY <1>1, <1>2

(***************************************************************************)
(* The tags are those of the list.                                         *)
(***************************************************************************)
LEMMA CdTagsAre ==
  /\ Len(CdTags) \in Nat /\ CdTag = {CdTags[i] : i \in 1..Len(CdTags)}
  /\ \A i \in 1..Len(CdTags) : CdTags[i] \in CdTag
<1>1. CdTags \in Seq(CdTag)  BY CdAssumption
<1>2. Len(CdTags) \in Nat /\ DOMAIN CdTags = 1..Len(CdTags)  BY <1>1, LenProperties
<1>3. CdTag = {CdTags[i] : i \in DOMAIN CdTags}  BY DEF CdTag, Range
<1> QED  BY <1>2, <1>3

(***************************************************************************)
(* A tag that gets a value, and a tag that is removed.                     *)
(***************************************************************************)
LEMMA CdWithIs ==
  ASSUME cdCount \in CdCounts, NEW g \in CdTag, NEW S \in SUBSET CdCall
  PROVE  /\ CdWith(g, S) \in CdCounts /\ DOMAIN CdWith(g, S) = DOMAIN cdCount \cup {g}
         /\ CdWith(g, S)[g] = S
         /\ \A h \in DOMAIN cdCount : h # g => CdWith(g, S)[h] = cdCount[h]
<1>1. DOMAIN cdCount \subseteq CdTag /\ cdCount \in [DOMAIN cdCount -> SUBSET CdCall]  BY CdCountsAre
<1>2. DOMAIN CdWith(g, S) = DOMAIN cdCount \cup {g}  BY DEF CdWith
<1>3. CdWith(g, S)[g] = S /\ \A h \in DOMAIN cdCount : h # g => CdWith(g, S)[h] = cdCount[h]
  BY DEF CdWith
<1>4. CdWith(g, S) \in [DOMAIN cdCount \cup {g} -> SUBSET CdCall]  BY <1>1 DEF CdWith
<1>5. CdWith(g, S) \in CdCounts  BY <1>1, <1>2, <1>4, CdCountsAre
<1> QED  BY <1>2, <1>3, <1>5

LEMMA CdWithoutIs ==
  ASSUME cdCount \in CdCounts, NEW g \in CdTag
  PROVE  /\ CdWithout(g) \in CdCounts /\ DOMAIN CdWithout(g) = DOMAIN cdCount \ {g}
         /\ \A h \in DOMAIN cdCount \ {g} : CdWithout(g)[h] = cdCount[h]
<1>1. DOMAIN cdCount \subseteq CdTag /\ cdCount \in [DOMAIN cdCount -> SUBSET CdCall]  BY CdCountsAre
<1>2. DOMAIN CdWithout(g) = DOMAIN cdCount \ {g}  BY DEF CdWithout
<1>3. CdWithout(g) \in [DOMAIN cdCount \ {g} -> SUBSET CdCall]  BY <1>1 DEF CdWithout
<1>4. CdWithout(g) \in CdCounts  BY <1>1, <1>2, <1>3, CdCountsAre
<1> QED  BY <1>2, <1>4 DEF CdWithout

(***************************************************************************)
(* Nothing has been counted, and there is no file.                         *)
(***************************************************************************)
LEMMA CdInitInv == CdInit => CdInv
<1> SUFFICES ASSUME CdInit PROVE CdInv  OBVIOUS
<1>1. [g \in CdTag |-> {}] \in CdCounts /\ CdNone \in CdCounts
  <2> DEFINE f == [g \in CdTag |-> {}]
  <2>1. DOMAIN f = CdTag /\ f \in [CdTag -> SUBSET CdCall]  OBVIOUS
  <2> HIDE DEF f
  <2>2. f \in CdCounts  BY <2>1, CdCountsAre
  <2>3. DOMAIN CdNone = {} /\ CdNone \in [{} -> SUBSET CdCall]  BY DEF CdNone
  <2>4. CdNone \in CdCounts  BY <2>3, CdCountsAre
  <2> QED  BY <2>2, <2>4 DEF f
<1>2. << >> \in Seq(CdDump) /\ Len(<< >>) = 0  BY EmptySeq
<1>3. CdTypeOK  BY <1>2, CdAssumption DEF CdInit, CdTypeOK, CdNone
<1>4. CdValues
  <2>1. cdCount \in CdCounts /\ cdSnap \in CdCounts  BY <1>1 DEF CdInit
  <2>2. cdDone \in [CdTag -> SUBSET CdCall] /\ cdDoneAtExit \in [CdTag -> SUBSET CdCall]
    BY DEF CdInit
  <2>3. cdPos \in 1..(Len(CdTags) + 1)  BY CdTagsAre DEF CdInit
  <2> QED  BY <1>2, <2>1, <2>2, <2>3 DEF CdInit, CdValues
<1>5. CdGuarded /\ CdCopied /\ CdOnDisk /\ CdOwners /\ CdNoneMissed
  BY DEF CdInit, CdGuarded, CdCopied, CdOnDisk, CdOwners, CdNoneMissed
<1>6. CdExact  BY DEF CdInit, CdExact, CdValue, CdNone
<1>7. CdFileWhole  BY <1>2 DEF CdInit, CdFileWhole
<1> QED  BY <1>3, <1>4, <1>5, <1>6, <1>7 DEF CdInv

(***************************************************************************)
(* A step of a counter, whichever: it touches the tag of its call alone,   *)
(* not while the dumper copies under the mutex, and takes counts away only *)
(* from a tag that is set, added or removed.                               *)
(***************************************************************************)
CdCallStep(c) == AtomicCall(c) \/ CountReads(c) \/ CountWrites(c) \/ SetTag(c)

LEMMA CdCallMoves ==
  ASSUME CdInv, NEW c \in CdCall, CdCallStep(c)
  PROVE  /\ cdCount' \in CdCounts /\ cdDone' \in [CdTag -> SUBSET CdCall]
         /\ cdRead' \in [CdCall -> SUBSET CdCall]
         /\ \A g \in CdTag : CdValue(g)' = cdDone'[g]
         /\ \A g \in CdTag : CdOnlyCounted(g) => cdDone[g] \subseteq cdDone'[g]
         /\ cdType = "mutex" /\ cdPc = "copy" => cdCount' = cdCount
<1>1. cdCount \in CdCounts /\ cdDone \in [CdTag -> SUBSET CdCall] /\ cdRead \in [CdCall -> SUBSET CdCall]
  BY DEF CdInv, CdValues
<1>2. DOMAIN cdCount \subseteq CdTag /\ cdCount \in [DOMAIN cdCount -> SUBSET CdCall]  BY <1>1, CdCountsAre
<1> DEFINE g == CdTagOf[c]
<1>3. g \in CdTag /\ CdKind[c] \in {"count", "set", "add", "del"}  BY CdAssumption
<1>4. \A h \in CdTag : CdValue(h) = cdDone[h]  BY DEF CdInv, CdExact
<1>5. CdOnlyCounted(g) => CdKind[c] = "count"  BY DEF CdOnlyCounted
<1>6. CdValue(g) \in SUBSET CdCall  BY <1>2 DEF CdValue
<1>7. ASSUME NEW S \in SUBSET CdCall, cdCount' = CdWith(g, S), cdDone' = [cdDone EXCEPT ![g] = S],
             CdOnlyCounted(g) => cdDone[g] \subseteq S
      PROVE  /\ cdCount' \in CdCounts /\ cdDone' \in [CdTag -> SUBSET CdCall]
             /\ \A h \in CdTag : CdValue(h)' = cdDone'[h]
             /\ \A h \in CdTag : CdOnlyCounted(h) => cdDone[h] \subseteq cdDone'[h]
  <2>1. /\ cdCount' \in CdCounts /\ DOMAIN cdCount' = DOMAIN cdCount \cup {g} /\ cdCount'[g] = S
        /\ \A h \in DOMAIN cdCount : h # g => cdCount'[h] = cdCount[h]
    BY <1>1, <1>3, <1>7, CdWithIs
  <2>2. cdDone' \in [CdTag -> SUBSET CdCall] /\ cdDone'[g] = S
        /\ \A h \in CdTag : h # g => cdDone'[h] = cdDone[h]
    BY <1>1, <1>3, <1>7
  <2>3. \A h \in CdTag : CdValue(h)' = cdDone'[h]  BY <1>4, <2>1, <2>2 DEF CdValue
  <2> QED  BY <1>7, <2>1, <2>2, <2>3
<1>8. CASE AtomicCall(c)
  <2> DEFINE S == IF CdKind[c] = "set" THEN {c} ELSE cdCount[g] \cup {c}
  <2>1. /\ cdType = "atomic" /\ g \in DOMAIN cdCount /\ cdCount' = CdWith(g, S)
        /\ cdDone' = [cdDone EXCEPT ![g] = cdCount'[g]] /\ cdRead' = cdRead
        /\ CdKind[c] \in {"count", "set"}
    BY <1>8 DEF AtomicCall
  <2>2. S \in SUBSET CdCall /\ cdCount[g] = cdDone[g]
    BY <1>2, <1>3, <1>4, <2>1 DEF CdValue
  <2>3. cdCount'[g] = S  BY <1>1, <1>3, <2>1, <2>2, CdWithIs
  <2>4. CdOnlyCounted(g) => cdDone[g] \subseteq S  BY <1>5, <2>2
  <2> HIDE DEF S
  <2>5. cdDone' = [cdDone EXCEPT ![g] = S]  BY <2>1, <2>3
  <2> QED  BY <1>1, <1>7, <2>1, <2>2, <2>4, <2>5
<1>9. CASE CountReads(c)
  <2>1. UNCHANGED <<cdCount, cdDone>> /\ cdRead' = [cdRead EXCEPT ![c] = CdValue(g)]
    BY <1>9 DEF CountReads
  <2>2. \A h \in CdTag : CdValue(h)' = CdValue(h)  BY <2>1 DEF CdValue
  <2> QED  BY <1>1, <1>4, <1>6, <2>1, <2>2
<1>10. CASE CountWrites(c)
  <2> DEFINE S == cdRead[c] \cup {c}
  <2>1. /\ cdAt[c] = "read" /\ cdCount' = CdWith(g, S) /\ cdRead' = cdRead
        /\ cdDone' = [cdDone EXCEPT ![g] = cdDone[g] \cup {c}]
    BY <1>10, <1>1, <1>3 DEF CountWrites
  <2>2. cdType = "mutex" /\ cdLock = c /\ cdRead[c] = CdValue(g)  BY <2>1 DEF CdInv, CdGuarded
  <2>3. cdPc # "copy"  BY <2>2, CdAssumption DEF CdInv, CdGuarded
  <2>4. cdRead[c] = cdDone[g]  BY <1>3, <1>4, <2>2
  <2>5. S \in SUBSET CdCall /\ cdDone[g] \subseteq S /\ cdDone' = [cdDone EXCEPT ![g] = S]
    BY <1>1, <2>1, <2>4
  <2> HIDE DEF S
  <2> QED  BY <1>1, <1>7, <2>1, <2>3, <2>5
<1>11. CASE SetTag(c)
  <2> DEFINE S == IF CdKind[c] = "set" THEN {c} ELSE {}
  <2>1. /\ cdType = "mutex" /\ cdLock = "nobody" /\ CdKind[c] # "count" /\ cdRead' = cdRead
        /\ cdDone' = [cdDone EXCEPT ![g] = S]
        /\ cdCount' = IF CdKind[c] = "del" THEN CdWithout(g) ELSE CdWith(g, S)
    BY <1>11 DEF SetTag, CdLocks
  <2>2. cdPc # "copy"  BY <2>1 DEF CdInv, CdGuarded
  <2>3. ~CdOnlyCounted(g) /\ S \in SUBSET CdCall  BY <1>5, <2>1
  <2>4. CASE CdKind[c] # "del"
    <3> HIDE DEF S
    <3> QED  BY <1>1, <1>7, <2>1, <2>2, <2>3, <2>4
  <2>5. CASE CdKind[c] = "del"
    <3>1. cdCount' = CdWithout(g) /\ cdDone' = [cdDone EXCEPT ![g] = {}]  BY <2>1, <2>5
    <3>2. /\ cdCount' \in CdCounts /\ DOMAIN cdCount' = DOMAIN cdCount \ {g}
          /\ \A h \in DOMAIN cdCount \ {g} : cdCount'[h] = cdCount[h]
      BY <1>1, <1>3, <3>1, CdWithoutIs
    <3>3. /\ cdDone' \in [CdTag -> SUBSET CdCall] /\ cdDone'[g] = {}
          /\ \A h \in CdTag : h # g => cdDone'[h] = cdDone[h]
      BY <1>1, <1>3, <3>1
    <3>4. \A h \in CdTag : CdValue(h)' = cdDone'[h]  BY <1>4, <3>2, <3>3 DEF CdValue
    <3> QED  BY <1>1, <2>1, <2>2, <2>3, <3>2, <3>3, <3>4
  <2> QED  BY <2>4, <2>5
<1> QED  BY <1>8, <1>9, <1>10, <1>11 DEF CdCallStep

(***************************************************************************)
(* A call keeps the invariant.                                             *)
(***************************************************************************)
LEMMA CdCallInv ==
  ASSUME CdInv, NEW c \in CdCall, CdCallStep(c)
  PROVE  CdInv'
<1>1. /\ cdCount' \in CdCounts /\ cdDone' \in [CdTag -> SUBSET CdCall]
      /\ cdRead' \in [CdCall -> SUBSET CdCall]
      /\ \A g \in CdTag : CdValue(g)' = cdDone'[g]
      /\ \A g \in CdTag : CdOnlyCounted(g) => cdDone[g] \subseteq cdDone'[g]
      /\ cdType = "mutex" /\ cdPc = "copy" => cdCount' = cdCount
  BY CdCallMoves
<1>2. UNCHANGED <<cdType, cdStyle, cdPc, cdBy, cdSnap, cdPos, cdTmp, cdFile, cdFaults, cdDumps,
                  cdExit, cdCrashed, cdDoneAtExit>>
  BY DEF CdCallStep, AtomicCall, CountReads, CountWrites, SetTag, CdNothingElse, cdFixed, cdFiles
<1>3. cdAt \in [CdCall -> {"idle", "read", "done"}]  BY DEF CdInv, CdTypeOK
<1>4. cdLock = "nobody" => \A d \in CdCall : cdAt[d] # "read"
  BY CdAssumption DEF CdInv, CdGuarded
<1>5. CdTypeOK' /\ cdLock' \in CdCall \cup {"dumper", "nobody"} /\ CdGuarded'
  <2>1. DOMAIN cdCount' \subseteq CdTag /\ \A g \in DOMAIN cdCount' : cdCount'[g] \subseteq CdCall
    <3>1. cdCount' \in [DOMAIN cdCount' -> SUBSET CdCall] /\ DOMAIN cdCount' \subseteq CdTag
      BY <1>1, CdCountsAre
    <3> QED  BY <3>1
  <2>2. CASE AtomicCall(c)
    <3>1. cdType = "atomic" /\ cdAt' = [cdAt EXCEPT ![c] = "done"] /\ cdLock' = cdLock
      BY <2>2 DEF AtomicCall, CdGoes
    <3>2. \A d \in CdCall : cdAt'[d] # "read"  BY <1>3, <3>1 DEF CdInv, CdGuarded
    <3>3. cdLock = "nobody"  BY <3>1 DEF CdInv, CdGuarded
    <3>4. CdTypeOK'  BY <1>2, <1>3, <2>1, <3>1, <3>3, CdAssumption DEF CdInv, CdTypeOK
    <3> QED  BY <1>2, <3>1, <3>2, <3>3, <3>4 DEF CdGuarded
  <2>3. CASE CountReads(c)
    <3>1. /\ cdType = "mutex" /\ CdKind[c] = "count" /\ cdLock = "nobody" /\ cdLock' = c
          /\ cdRead' = [cdRead EXCEPT ![c] = CdValue(CdTagOf[c])]
          /\ cdAt' = [cdAt EXCEPT ![c] = "read"] /\ cdCount' = cdCount
      BY <2>3 DEF CountReads, CdGoes, CdTake, CdLocks
    <3>2. cdPc # "copy" /\ c # "dumper" /\ c # "nobody"  BY <3>1, CdAssumption DEF CdInv, CdGuarded
    <3>3. \A d \in CdCall : cdAt'[d] = "read" => d = c  BY <1>3, <1>4, <3>1
    <3>4. cdRead'[c] = CdValue(CdTagOf[c])  BY <3>1 DEF CdInv, CdValues
    <3>5. CdValue(CdTagOf[c])' = CdValue(CdTagOf[c])  BY <3>1 DEF CdValue
    <3>6. CdTypeOK'  BY <1>2, <1>3, <2>1, <3>1, <3>2 DEF CdInv, CdTypeOK
    <3>7. CdGuarded'  BY <1>2, <3>1, <3>2, <3>3, <3>4, <3>5 DEF CdGuarded
    <3> QED  BY <3>1, <3>6, <3>7
  <2>4. CASE CountWrites(c)
    <3>1. cdAt[c] = "read" /\ cdAt' = [cdAt EXCEPT ![c] = "done"]
          /\ cdLock' = IF cdType = "mutex" THEN "nobody" ELSE cdLock
      BY <2>4 DEF CountWrites, CdGive, CdGoes, CdLocks
    <3>2. cdType = "mutex" /\ cdLock = c /\ \A d \in CdCall : cdAt[d] = "read" => d = c
      BY <3>1 DEF CdInv, CdGuarded
    <3>3. \A d \in CdCall : cdAt'[d] # "read"  BY <1>3, <3>1, <3>2
    <3>4. cdPc # "copy"  BY <3>2, CdAssumption DEF CdInv, CdGuarded
    <3>5. CdTypeOK'  BY <1>2, <1>3, <2>1, <3>1, <3>2, CdAssumption DEF CdInv, CdTypeOK
    <3> QED  BY <1>2, <3>1, <3>2, <3>3, <3>4, <3>5 DEF CdGuarded
  <2>5. CASE SetTag(c)
    <3>1. cdType = "mutex" /\ cdLock = "nobody" /\ cdLock' = cdLock /\ cdAt' = [cdAt EXCEPT ![c] = "done"]
      BY <2>5 DEF SetTag, CdGoes, CdLocks
    <3>2. \A d \in CdCall : cdAt'[d] # "read"  BY <1>3, <1>4, <3>1
    <3>3. cdPc # "copy"  BY <3>1 DEF CdInv, CdGuarded
    <3>4. CdTypeOK'  BY <1>2, <1>3, <2>1, <3>1, CdAssumption DEF CdInv, CdTypeOK
    <3> QED  BY <1>2, <3>1, <3>2, <3>3, <3>4 DEF CdGuarded
  <2> QED  BY <2>2, <2>3, <2>4, <2>5 DEF CdCallStep
<1>6. CdValues'  BY <1>1, <1>2, <1>5 DEF CdInv, CdValues
<1>7. CdExact'  BY <1>1 DEF CdExact
<1>8. CdCopied'
  <2>1. CdPassed' = CdPassed  BY <1>2 DEF CdPassed
  <2> QED  BY <1>1, <1>2, <2>1 DEF CdInv, CdCopied
<1>9. CdOnDisk' /\ CdFileWhole' /\ CdOwners'
  BY <1>2 DEF CdInv, CdOnDisk, CdFileWhole, CdOwners
<1>10. CdNoneMissed'
  <2>1. CdPassed' = CdPassed  BY <1>2 DEF CdPassed
  <2>2. cdExit => \A g \in CdTag : CdOnlyCounted(g) => cdDoneAtExit'[g] \subseteq cdDone'[g]
    BY <1>1, <1>2 DEF CdInv, CdNoneMissed
  <2> QED  BY <1>2, <2>1, <2>2 DEF CdInv, CdNoneMissed, CdCovers
<1> QED  BY <1>5, <1>6, <1>7, <1>8, <1>9, <1>10 DEF CdInv

(***************************************************************************)
(* The copy, begun, continued and ended.                                   *)
(***************************************************************************)
LEMMA CdCopyInv ==
  ASSUME CdInv, CopyBegins \/ CopyOne \/ CopyEnds
  PROVE  CdInv'
<1>1. UNCHANGED <<cdType, cdStyle, cdCount, cdAt, cdRead, cdDone, cdBy, cdExit, cdDoneAtExit,
                  cdTmp, cdFile, cdFaults, cdDumps>>
  BY DEF CopyBegins, CopyOne, CopyEnds, CdSame, cdFixed, cdCounters, cdFiles
<1>2. CdExact' /\ (\A g \in CdTag : CdValue(g)' = CdValue(g))
  BY <1>1 DEF CdInv, CdExact, CdValue
<1>3. CdFileWhole'  BY <1>1 DEF CdInv, CdFileWhole
<1>4. cdType = "mutex" => (cdLock = "nobody" => \A d \in CdCall : cdAt[d] # "read")
  BY CdAssumption DEF CdInv, CdGuarded
<1>5. cdType \in {"mutex", "atomic"} /\ cdPos \in 1..(Len(CdTags) + 1) /\ Len(CdTags) \in Nat
  BY CdTagsAre DEF CdInv, CdValues
<1>6. CASE CopyBegins
  <2>1. /\ cdPc = "lock" /\ cdPc' = "copy" /\ cdSnap' = CdNone /\ cdPos' = 1
        /\ cdType = "mutex" => cdLock = "nobody" /\ cdLock' = "dumper"
        /\ cdType = "atomic" => cdLock' = cdLock
    BY <1>5, <1>6 DEF CopyBegins, CdDumping, CdTake, CdLocks
  <2>2. DOMAIN CdNone = {} /\ CdNone \in CdCounts
    <3>1. DOMAIN CdNone = {} /\ CdNone \in [{} -> SUBSET CdCall]  BY DEF CdNone
    <3> QED  BY <3>1, CdCountsAre
  <2>3. CdPassed' = {}  BY <2>1 DEF CdPassed
  <2>4. CdTypeOK'  BY <1>1, <1>5, <2>1, CdAssumption DEF CdInv, CdTypeOK, CdGuarded
  <2>5. CdValues'  BY <1>1, <1>5, <2>1, <2>2 DEF CdInv, CdValues
  <2>6. CdGuarded'  BY <1>1, <1>2, <1>4, <1>5, <2>1, CdAssumption DEF CdInv, CdGuarded
  <2>7. CdCopied'
    <3>1. [g \in DOMAIN cdCount \cap {} |-> cdCount[g]] = CdNone  BY DEF CdNone
    <3> QED  BY <1>1, <2>1, <2>3, <3>1 DEF CdCopied
  <2>8. CdOnDisk' /\ CdOwners'  BY <1>1, <2>1 DEF CdInv, CdOnDisk, CdOwners
  <2>9. CdNoneMissed'  BY <1>1, <2>1, <2>3 DEF CdInv, CdNoneMissed, CdCovers
  <2> QED  BY <1>2, <1>3, <2>4, <2>5, <2>6, <2>7, <2>8, <2>9 DEF CdInv
<1>7. CASE CopyOne
  <2> DEFINE g == CdTags[cdPos]
  <2>1. /\ cdPc = "copy" /\ cdPc' = "copy" /\ cdPos <= Len(CdTags) /\ cdPos' = cdPos + 1
        /\ cdLock' = cdLock
        /\ cdSnap' = IF g \in DOMAIN cdCount
                     THEN [h \in DOMAIN cdSnap \cup {g} |-> IF h = g THEN cdCount[g] ELSE cdSnap[h]]
                     ELSE cdSnap
    BY <1>7 DEF CopyOne, CdDumping
  <2>2. g \in CdTag /\ cdPos' \in 1..(Len(CdTags) + 1)  BY <1>5, <2>1, CdTagsAre
  <2>3. CdPassed' = CdPassed \cup {g}
    <3>1. 1..(cdPos' - 1) = 1..(cdPos - 1) \cup {cdPos}  BY <1>5, <2>1
    <3> QED  BY <3>1 DEF CdPassed
  <2> HIDE DEF g
  <2>4. /\ DOMAIN cdCount \subseteq CdTag /\ cdCount \in [DOMAIN cdCount -> SUBSET CdCall]
        /\ DOMAIN cdSnap \subseteq CdTag /\ cdSnap \in [DOMAIN cdSnap -> SUBSET CdCall]
    BY CdCountsAre DEF CdInv, CdValues
  <2>5. ASSUME g \in DOMAIN cdCount
         PROVE  cdSnap' \in CdCounts /\ CdCopied' /\ (cdBy = "owner" => CdCovers(cdSnap, CdPassed)')
    <3>1. cdSnap' = [h \in DOMAIN cdSnap \cup {g} |-> IF h = g THEN cdCount[g] ELSE cdSnap[h]]
      BY <2>1, <2>5
    <3>2. DOMAIN cdSnap' = DOMAIN cdSnap \cup {g} /\ cdSnap'[g] = cdCount[g]
          /\ \A h \in DOMAIN cdSnap : h # g => cdSnap'[h] = cdSnap[h]
      BY <3>1
    <3>3. cdSnap' \in CdCounts
      <4>1. cdSnap' \in [DOMAIN cdSnap \cup {g} -> SUBSET CdCall]  BY <2>4, <2>5, <3>1
      <4> QED  BY <2>2, <2>4, <3>2, <4>1, CdCountsAre
    <3>4. CdCopied'
      <4> SUFFICES ASSUME cdType = "mutex" PROVE cdSnap' = [h \in DOMAIN cdCount \cap CdPassed' |-> cdCount[h]]
        BY <1>1 DEF CdCopied
      <4>1. cdSnap = [h \in DOMAIN cdCount \cap CdPassed |-> cdCount[h]]  BY <2>1 DEF CdInv, CdCopied
      <4>2. DOMAIN cdSnap \cup {g} = DOMAIN cdCount \cap CdPassed'  BY <2>3, <2>5, <4>1
      <4>3. \A h \in DOMAIN cdCount \cap CdPassed' : (IF h = g THEN cdCount[g] ELSE cdSnap[h]) = cdCount[h]
        BY <2>3, <4>1
      <4> QED  BY <3>1, <4>2, <4>3
    <3>5. ASSUME cdBy = "owner" PROVE CdCovers(cdSnap, CdPassed)'
      <4>1. CdCovers(cdSnap, CdPassed)  BY <2>1, <3>5 DEF CdInv, CdNoneMissed
      <4>2. CdOnlyCounted(g) => cdDoneAtExit[g] \subseteq cdCount[g]
        <5>1. CdOnlyCounted(g) => cdDoneAtExit[g] \subseteq cdDone[g]
          BY <2>2, <3>5 DEF CdInv, CdOwners, CdNoneMissed
        <5>2. cdCount[g] = cdDone[g]  BY <2>2, <2>5 DEF CdInv, CdExact, CdValue
        <5> QED  BY <5>1, <5>2
      <4> QED  BY <1>1, <2>3, <3>2, <4>1, <4>2 DEF CdCovers
    <3> QED  BY <3>3, <3>4, <3>5
  <2>6. ASSUME g \notin DOMAIN cdCount
         PROVE  cdSnap' \in CdCounts /\ CdCopied' /\ (cdBy = "owner" => CdCovers(cdSnap, CdPassed)')
    <3>1. cdSnap' = cdSnap  BY <2>1, <2>6
    <3>2. DOMAIN cdCount \cap CdPassed' = DOMAIN cdCount \cap CdPassed  BY <2>3, <2>6
    <3>3. CdCopied'  BY <1>1, <2>1, <3>1, <3>2 DEF CdInv, CdCopied
    <3>4. ASSUME cdBy = "owner" PROVE CdCovers(cdSnap, CdPassed)'
      <4>1. CdCovers(cdSnap, CdPassed)  BY <2>1, <3>4 DEF CdInv, CdNoneMissed
      <4>2. CdOnlyCounted(g) => cdDoneAtExit[g] = {}
        <5>1. CdOnlyCounted(g) => cdDoneAtExit[g] \subseteq cdDone[g]
          BY <2>2, <3>4 DEF CdInv, CdOwners, CdNoneMissed
        <5>2. cdDone[g] = {}  BY <2>2, <2>6 DEF CdInv, CdExact, CdValue
        <5> QED  BY <5>1, <5>2
      <4> QED  BY <1>1, <2>3, <3>1, <4>1, <4>2 DEF CdCovers
    <3> QED  BY <3>1, <3>3, <3>4 DEF CdInv, CdValues
  <2>7. cdSnap' \in CdCounts /\ CdCopied' /\ (cdBy = "owner" => CdCovers(cdSnap, CdPassed)')
    BY <2>5, <2>6
  <2>8. CdTypeOK'  BY <1>1, <2>1 DEF CdInv, CdTypeOK
  <2>9. CdValues'  BY <1>1, <2>1, <2>2, <2>7 DEF CdInv, CdValues
  <2>10. CdGuarded'  BY <1>1, <1>2, <2>1, CdAssumption DEF CdInv, CdGuarded
  <2>11. CdOnDisk' /\ CdOwners'  BY <1>1, <2>1 DEF CdInv, CdOnDisk, CdOwners
  <2>12. CdNoneMissed'  BY <1>1, <2>1, <2>7 DEF CdInv, CdNoneMissed, CdCovers
  <2> QED  BY <1>2, <1>3, <2>7, <2>8, <2>9, <2>10, <2>11, <2>12 DEF CdInv
<1>8. CASE CopyEnds
  <2>1. /\ cdPc = "copy" /\ cdPc' = "write" /\ cdPos > Len(CdTags) /\ cdPos' = cdPos /\ cdSnap' = cdSnap
        /\ cdType = "mutex" => cdLock' = "nobody"
        /\ cdType = "atomic" => cdLock' = cdLock
    BY <1>5, <1>8 DEF CopyEnds, CdDumping, CdGive, CdLocks
  <2>2. CdPassed = CdTag
    <3>1. cdPos - 1 = Len(CdTags)  BY <1>5, <2>1
    <3> QED  BY <3>1, CdTagsAre DEF CdPassed
  <2>3. cdType = "mutex" => \A d \in CdCall : cdAt[d] # "read"
    BY <2>1, CdAssumption DEF CdInv, CdGuarded
  <2>4. CdTypeOK'  BY <1>1, <1>5, <2>1, CdAssumption DEF CdInv, CdTypeOK, CdGuarded
  <2>5. CdValues'  BY <1>1, <1>5, <2>1 DEF CdInv, CdValues
  <2>6. CdGuarded'  BY <1>1, <1>2, <2>1, <2>3 DEF CdInv, CdGuarded
  <2>7. CdCopied' /\ CdOnDisk' /\ CdOwners'  BY <1>1, <2>1 DEF CdInv, CdCopied, CdOnDisk, CdOwners
  <2>8. CdNoneMissed'  BY <1>1, <2>1, <2>2 DEF CdInv, CdNoneMissed, CdCovers
  <2> QED  BY <1>2, <1>3, <2>4, <2>5, <2>6, <2>7, <2>8 DEF CdInv
<1> QED  BY <1>6, <1>7, <1>8

(***************************************************************************)
(* A dump that fills the file it was opened in is whole, has the counts of *)
(* the copy, and is the last one there.                                    *)
(***************************************************************************)
LEMMA CdFilledIs ==
  ASSUME NEW f \in Seq(CdDump), f # << >>, cdSnap \in CdCounts
  PROVE  /\ CdFilled(f) \in Seq(CdDump) /\ Len(CdFilled(f)) = Len(f) /\ CdFilled(f) # << >>
         /\ Last(CdFilled(f)).whole /\ Last(CdFilled(f)).counts = cdSnap
         /\ \A i \in 1..(Len(f) - 1) : CdFilled(f)[i] = f[i]
<1> DEFINE a == SubSeq(f, 1, Len(f) - 1)
           d == [whole |-> TRUE, counts |-> cdSnap]
<1>1. Len(f) \in Nat /\ Len(f) >= 1  BY EmptySeq, LenProperties
<1>2. \A i \in 1..(Len(f) - 1) : f[i] \in CdDump  BY <1>1, ElementOfSeq
<1>3. /\ a \in Seq(CdDump) /\ Len(a) = Len(f) - 1
      /\ \A i \in 1..(Len(f) - 1) : a[i] = f[i]
  <2>1. PICK n \in Nat : n = Len(f) - 1  BY <1>1
  <2>2. \A i \in 1..n : f[i] \in CdDump  BY <1>2, <2>1
  <2>3. a = SubSeq(f, 1, n)  BY <2>1
  <2> HIDE DEF a
  <2>4. /\ a \in Seq(CdDump) /\ Len(a) = (IF 1 <= n THEN n - 1 + 1 ELSE 0)
        /\ \A i \in 1..(n - 1 + 1) : a[i] = f[1 + i - 1]
    BY <2>2, <2>3, SubSeqProperties
  <2>5. Len(a) = n  BY <2>4
  <2>6. n - 1 + 1 = n /\ \A i \in 1..n : 1 + i - 1 = i  OBVIOUS
  <2>7. \A i \in 1..n : a[i] = f[i]  BY <2>4, <2>6
  <2> QED  BY <2>1, <2>4, <2>5, <2>7
<1>4. d \in CdDump  BY DEF CdDump
<1>5. CdFilled(f) = Append(a, d)
  <2>1. CdFilled(f) = a \o <<d>>  BY DEF CdFilled
  <2> HIDE DEF a, d
  <2> QED  BY <1>3, <1>4, <2>1, AppendIsConcat
<1>6. d.whole /\ d.counts = cdSnap  OBVIOUS
<1> HIDE DEF a, d
<1>7. /\ Append(a, d) \in Seq(CdDump) /\ Append(a, d) # << >> /\ Len(Append(a, d)) = Len(a) + 1
      /\ \A i \in 1..Len(a) : Append(a, d)[i] = a[i]
      /\ Append(a, d)[Len(a) + 1] = d
  BY <1>3, <1>4, AppendProperties
<1>8. Len(CdFilled(f)) = Len(f) /\ CdFilled(f)[Len(f)] = d
  BY <1>1, <1>3, <1>5, <1>7
<1>9. Last(CdFilled(f)) = d  BY <1>8 DEF Last
<1> QED  BY <1>3, <1>5, <1>6, <1>7, <1>8, <1>9

(***************************************************************************)
(* The dump is written, in one of the two ways, or that fails.             *)
(***************************************************************************)
LEMMA CdWriteInv ==
  ASSUME CdInv, WriteOpens \/ WriteFills \/ WriteFails \/ CdRename
  PROVE  CdInv'
<1>1. UNCHANGED <<cdType, cdStyle, cdCount, cdAt, cdRead, cdDone, cdLock, cdBy, cdExit, cdDoneAtExit,
                  cdSnap, cdPos, cdDumps>>
  BY DEF WriteOpens, WriteFills, WriteFails, CdRename, CdSame, cdFixed, cdCounters
<1>2. CdExact' /\ (\A g \in CdTag : CdValue(g)' = CdValue(g))
  BY <1>1 DEF CdInv, CdExact, CdValue
<1>3. cdPc # "copy" /\ cdPc' \in {"fill", "rename", "sleep", "ended"}
  BY DEF WriteOpens, WriteFills, WriteFails, CdRename, CdDumping, CdAfterDump
<1>4. CdGuarded' /\ CdCopied'
  <2>1. \A c \in CdCall : CdTagOf[c] \in CdTag  BY CdAssumption
  <2> QED  BY <1>1, <1>2, <1>3, <2>1 DEF CdInv, CdGuarded, CdCopied
<1>5. /\ cdTmp \in Seq(CdDump) /\ cdFile \in Seq(CdDump) /\ Len(cdTmp) \in Nat /\ Len(cdFile) \in Nat
      /\ DOMAIN cdFile = 1..Len(cdFile) /\ cdStyle \in {"append", "overwrite"}
      /\ cdSnap \in CdCounts /\ cdFaults \in 0..CdMaxFaults
  BY LenProperties DEF CdInv, CdValues, CdTypeOK
<1>6. CdPartial \in CdDump
  <2>1. DOMAIN CdNone = {} /\ CdNone \in [{} -> SUBSET CdCall]  BY DEF CdNone
  <2>2. CdNone \in CdCounts  BY <2>1, CdCountsAre
  <2> QED  BY <2>2 DEF CdPartial, CdDump
<1>7. ASSUME /\ cdTmp' \in Seq(CdDump) /\ cdFile' \in Seq(CdDump) /\ Len(cdTmp') <= 1
             /\ cdStyle = "overwrite" => Len(cdFile') <= 1
             /\ cdFaults' \in 0..CdMaxFaults /\ CdOnDisk' /\ CdFileWhole' /\ CdOwners' /\ CdNoneMissed'
      PROVE  CdInv'
  <2>1. CdTypeOK'  BY <1>1, <1>3, <1>7 DEF CdInv, CdTypeOK
  <2>2. CdValues'  BY <1>1, <1>7 DEF CdInv, CdValues
  <2> QED  BY <1>2, <1>4, <1>7, <2>1, <2>2 DEF CdInv
<1>8. CASE WriteOpens
  <2>1. /\ cdPc = "write" /\ cdPc' = "fill" /\ cdFaults' = cdFaults
        /\ cdFile' = IF cdStyle = "append" THEN Append(cdFile, CdPartial) ELSE cdFile
        /\ cdTmp' = IF cdStyle = "append" THEN cdTmp ELSE <<CdPartial>>
    BY <1>8 DEF WriteOpens, CdDumping, CdOpened
  <2>2. <<CdPartial>> \in Seq(CdDump) /\ Len(<<CdPartial>>) = 1 /\ <<CdPartial>> # << >>
    BY <1>6
  <2>3. Append(cdFile, CdPartial) \in Seq(CdDump) /\ Append(cdFile, CdPartial) # << >>
    BY <1>5, <1>6, AppendProperties
  <2>4. cdTmp' \in Seq(CdDump) /\ cdFile' \in Seq(CdDump) /\ Len(cdTmp') <= 1
        /\ (cdStyle = "overwrite" => Len(cdFile') <= 1)
    BY <1>5, <2>1, <2>2, <2>3 DEF CdInv, CdTypeOK
  <2>5. CdOnDisk'  BY <1>1, <1>5, <2>1, <2>2, <2>3 DEF CdInv, CdOnDisk
  <2>6. CdFileWhole'  BY <1>1, <2>1 DEF CdInv, CdFileWhole
  <2>7. CdOwners'  BY <1>1, <2>1 DEF CdInv, CdOwners
  <2>8. CdNoneMissed'  BY <1>1, <2>1 DEF CdInv, CdNoneMissed, CdCovers
  <2> QED  BY <1>5, <1>7, <2>1, <2>4, <2>5, <2>6, <2>7, <2>8
<1>9. CASE WriteFills
  <2>1. /\ cdPc = "fill" /\ cdFaults' = cdFaults
        /\ cdPc' = IF cdStyle = "append" THEN IF cdBy = "owner" THEN "ended" ELSE "sleep" ELSE "rename"
        /\ cdFile' = IF cdStyle = "append" THEN CdFilled(cdFile) ELSE cdFile
        /\ cdTmp' = IF cdStyle = "append" THEN cdTmp ELSE CdFilled(cdTmp)
    BY <1>9 DEF WriteFills, CdDumping, CdAfterDump
  <2>2. cdBy \in {"thread", "owner"}  BY <2>1 DEF CdInv, CdOwners, CdTypeOK
  <2>3. cdBy = "owner" => CdCovers(cdSnap, CdTag)  BY <2>1 DEF CdInv, CdNoneMissed
  <2>4. CASE cdStyle = "append"
    <3>1. cdFile # << >>  BY <2>1, <2>4 DEF CdInv, CdOnDisk
    <3>2. /\ cdFile' \in Seq(CdDump) /\ cdFile' # << >> /\ Last(cdFile').counts = cdSnap
          /\ cdTmp' = cdTmp /\ cdPc' = IF cdBy = "owner" THEN "ended" ELSE "sleep"
      BY <1>5, <2>1, <2>4, <3>1, CdFilledIs
    <3>3. CdOnDisk' /\ CdFileWhole'
      BY <1>1, <2>4, <3>2 DEF CdInv, CdOnDisk, CdFileWhole
    <3>4. CdOwners'  BY <1>1, <2>2, <3>2 DEF CdInv, CdOwners
    <3>5. CdNoneMissed'  BY <1>1, <2>3, <3>2 DEF CdInv, CdNoneMissed, CdCovers
    <3> QED  BY <1>5, <1>7, <2>1, <2>4, <3>2, <3>3, <3>4, <3>5 DEF CdInv, CdTypeOK
  <2>5. CASE cdStyle = "overwrite"
    <3>1. cdTmp # << >>  BY <2>1, <2>5 DEF CdInv, CdOnDisk
    <3>2. /\ cdTmp' \in Seq(CdDump) /\ cdTmp' # << >> /\ Len(cdTmp') = Len(cdTmp)
          /\ Last(cdTmp').whole /\ Last(cdTmp').counts = cdSnap
          /\ cdFile' = cdFile /\ cdPc' = "rename"
      BY <1>5, <2>1, <2>5, <3>1, CdFilledIs
    <3>3. CdOnDisk' /\ CdFileWhole'
      BY <1>1, <2>1, <2>5, <3>2 DEF CdInv, CdOnDisk, CdFileWhole
    <3>4. CdOwners'  BY <1>1, <2>2, <3>2 DEF CdInv, CdOwners
    <3>5. CdNoneMissed'  BY <1>1, <2>3, <3>2 DEF CdInv, CdNoneMissed, CdCovers
    <3> QED  BY <1>5, <1>7, <2>1, <2>5, <3>2, <3>3, <3>4, <3>5 DEF CdInv, CdTypeOK
  <2> QED  BY <1>5, <2>4, <2>5
<1>10. CASE WriteFails
  <2>1. /\ cdPc \in {"write", "fill"} /\ cdFaults' = cdFaults + 1 /\ cdFaults < CdMaxFaults
        /\ cdPc' = IF cdStyle = "append" THEN IF cdBy = "owner" THEN "ended" ELSE "sleep" ELSE "rename"
        /\ UNCHANGED <<cdFile, cdTmp>>
    BY <1>10 DEF WriteFails, CdAfterDump
  <2>2. cdFaults' \in 0..CdMaxFaults /\ cdFaults' # 0  BY <1>5, <2>1, CdAssumption
  <2>3. cdBy \in {"thread", "owner"}  BY <2>1 DEF CdInv, CdOwners, CdTypeOK
  <2>4. CdOnDisk' /\ CdFileWhole'
    BY <1>1, <1>5, <2>1, <2>2 DEF CdInv, CdOnDisk, CdFileWhole
  <2>5. CdOwners'  BY <1>1, <2>1, <2>3 DEF CdInv, CdOwners
  <2>6. CdNoneMissed'  BY <1>1, <2>1, <2>2 DEF CdInv, CdNoneMissed, CdCovers
  <2> QED  BY <1>5, <1>7, <2>1, <2>2, <2>4, <2>5, <2>6 DEF CdInv, CdTypeOK
<1>11. CASE CdRename
  <2>1. /\ cdPc = "rename" /\ cdFaults' = cdFaults
        /\ cdPc' = IF cdBy = "owner" THEN "ended" ELSE "sleep"
        /\ cdFile' = (IF cdTmp = << >> THEN cdFile ELSE cdTmp) /\ cdTmp' = << >>
    BY <1>11 DEF CdRename, CdDumping, CdAfterDump
  <2>2. cdStyle = "overwrite" /\ Len(cdTmp) <= 1 /\ << >> \in Seq(CdDump) /\ Len(<< >>) = 0
    BY <2>1, EmptySeq DEF CdInv, CdOnDisk, CdTypeOK
  <2>3. cdBy \in {"thread", "owner"}  BY <2>1 DEF CdInv, CdOwners, CdTypeOK
  <2>4. cdFaults = 0 => cdTmp # << >> /\ Last(cdTmp).whole  BY <2>1 DEF CdInv, CdOnDisk
  <2>5. cdTmp # << >> => Len(cdTmp) = 1
    <3>1. cdTmp # << >> => Len(cdTmp) \in Nat \ {0}  BY <1>5, EmptySeq
    <3> QED  BY <2>2, <3>1
  <2>6. CdOnDisk'  BY <1>1, <2>1, <2>2, <2>3 DEF CdInv, CdOnDisk
  <2>7. CdFileWhole'
    <3> SUFFICES ASSUME cdFaults = 0, NEW i \in DOMAIN cdFile' PROVE cdFile'[i].whole
      BY <1>1, <2>1 DEF CdFileWhole
    <3>1. cdFile' = cdTmp /\ cdTmp # << >> /\ Last(cdTmp).whole  BY <2>1, <2>4
    <3>2. Len(cdTmp) = 1  BY <2>5, <3>1
    <3>3. DOMAIN cdTmp = 1..1  BY <1>5, <3>2, LenProperties
    <3>4. i = 1  BY <3>1, <3>3
    <3> QED  BY <3>1, <3>2, <3>4 DEF Last
  <2>8. CdOwners'  BY <1>1, <2>1, <2>3 DEF CdInv, CdOwners
  <2>9. CdNoneMissed'  BY <1>1, <2>1, <2>4 DEF CdInv, CdNoneMissed, CdCovers
  <2> QED  BY <1>5, <1>7, <2>1, <2>2, <2>6, <2>7, <2>8, <2>9 DEF CdInv, CdTypeOK
<1> QED  BY <1>8, <1>9, <1>10, <1>11

(***************************************************************************)
(* start(), the loop, the sleep, the destructor, a crash.                  *)
(***************************************************************************)
LEMMA CdControlInv ==
  ASSUME CdInv, CdStart \/ LoopTest \/ SleepOver \/ CdDestroy \/ CdJoin \/ CdCrash \/ UNCHANGED cdVars
  PROVE  CdInv'
<1>1. UNCHANGED <<cdType, cdStyle, cdCount, cdAt, cdRead, cdDone, cdLock, cdSnap, cdPos, cdTmp, cdFile, cdFaults>>
  BY DEF CdStart, LoopTest, SleepOver, CdDestroy, CdJoin, CdCrash, cdVars, CdSame, cdFixed, cdCounters, cdFiles
<1>2. CdExact' /\ (\A g \in CdTag : CdValue(g)' = CdValue(g)) /\ CdPassed' = CdPassed
  BY <1>1 DEF CdInv, CdExact, CdValue, CdPassed
<1>3. cdPc' = cdPc \/ (cdPc \notin {"copy", "write", "fill", "rename"} /\ cdPc' \in {"check", "lock", "joinable", "ended"})
  BY DEF CdStart, LoopTest, SleepOver, CdDestroy, CdJoin, CdCrash, cdVars, CdDumping, CdLastDump, CdLeaves
<1>4. CdGuarded' /\ CdCopied'
  <2>1. \A c \in CdCall : CdTagOf[c] \in CdTag  BY CdAssumption
  <2> QED  BY <1>1, <1>2, <1>3, <2>1 DEF CdInv, CdGuarded, CdCopied
<1>5. CdOnDisk' /\ CdFileWhole'  BY <1>1, <1>3 DEF CdInv, CdOnDisk, CdFileWhole
<1>6. CdOwners'
  BY <1>1 DEF CdInv, CdOwners, CdValues, CdStart, LoopTest, SleepOver, CdDestroy, CdJoin, CdCrash, cdVars,
              CdDumping, CdLastDump, CdLeaves, CdSame
<1>7. /\ cdDumps' \in 0..CdMaxDumps /\ cdBy' \in {"nobody", "thread", "owner"}
      /\ cdExit' \in BOOLEAN /\ cdDoneAtExit' \in [CdTag -> SUBSET CdCall]
  <2>1. /\ cdDumps \in 0..CdMaxDumps /\ cdBy \in {"nobody", "thread", "owner"} /\ cdExit \in BOOLEAN
        /\ cdDoneAtExit \in [CdTag -> SUBSET CdCall] /\ cdDone \in [CdTag -> SUBSET CdCall]
    BY DEF CdInv, CdTypeOK, CdValues
  <2>2. cdDumps' = cdDumps \/ (cdDumps < CdMaxDumps /\ cdDumps' = cdDumps + 1)
    BY DEF CdStart, LoopTest, SleepOver, CdDestroy, CdJoin, CdCrash, cdVars
  <2>3. cdDumps' \in 0..CdMaxDumps  BY <2>1, <2>2, CdAssumption
  <2>4. (cdBy' = cdBy \/ cdBy' \in {"thread", "owner"}) /\ (cdExit' = cdExit \/ cdExit' = TRUE)
        /\ (cdDoneAtExit' = cdDoneAtExit \/ cdDoneAtExit' = cdDone)
    BY DEF CdStart, LoopTest, SleepOver, CdDestroy, CdJoin, CdCrash, cdVars, CdSame
  <2> QED  BY <2>1, <2>3, <2>4
<1>8. CdTypeOK' /\ CdValues'  BY <1>1, <1>3, <1>7 DEF CdInv, CdTypeOK, CdValues
<1>9. CdNoneMissed'
  <2>1. CASE CdDestroy
    <3>1. cdBy' # "owner" /\ cdDoneAtExit' = cdDone /\ cdDone' = cdDone
      BY <1>1, <2>1 DEF CdDestroy, CdInv, CdOwners
    <3> QED  BY <3>1 DEF CdNoneMissed
  <2>2. CASE CdJoin
    <3>1. cdPc' = "lock" /\ UNCHANGED <<cdExit, cdDoneAtExit>>  BY <2>2 DEF CdJoin, CdDumping, CdLastDump, CdLeaves
    <3> QED  BY <1>1, <3>1 DEF CdInv, CdNoneMissed, CdOnlyCounted
  <2>3. CASE CdStart \/ LoopTest \/ SleepOver \/ CdCrash \/ UNCHANGED cdVars
    <3>1. UNCHANGED <<cdExit, cdDoneAtExit>> /\ cdBy' \in {cdBy, "thread"}
      BY <2>3 DEF CdStart, LoopTest, SleepOver, CdCrash, cdVars, CdSame
    <3>2. cdPc' = cdPc \/ cdPc' \in {"check", "lock", "joinable"}
      BY <2>3 DEF CdStart, LoopTest, SleepOver, CdCrash, cdVars, CdDumping
    <3> QED  BY <1>1, <1>2, <3>1, <3>2 DEF CdInv, CdNoneMissed, CdOnlyCounted, CdCovers
  <2> QED  BY <2>1, <2>2, <2>3
<1> QED  BY <1>2, <1>4, <1>5, <1>6, <1>8, <1>9 DEF CdInv

(***************************************************************************)
(* The invariant holds in every reachable state.                           *)
(***************************************************************************)
THEOREM CdInvariance == CdSpec => []CdInv
<1>1. CdInv /\ [CdNext]_cdVars => CdInv'
  <2> SUFFICES ASSUME CdInv, [CdNext]_cdVars PROVE CdInv'  OBVIOUS
  <2>1. ASSUME NEW c \in CdCall, AtomicCall(c) \/ CountReads(c) \/ CountWrites(c) \/ SetTag(c) PROVE CdInv'
    BY <2>1, CdCallInv DEF CdCallStep
  <2>2. CASE CopyBegins \/ CopyOne \/ CopyEnds  BY <2>2, CdCopyInv
  <2>3. CASE WriteOpens \/ WriteFills \/ WriteFails \/ CdRename  BY <2>3, CdWriteInv
  <2>4. CASE CdStart \/ LoopTest \/ SleepOver \/ CdDestroy \/ CdJoin \/ CdCrash \/ UNCHANGED cdVars
    BY <2>4, CdControlInv
  <2> QED  BY <2>1, <2>2, <2>3, <2>4 DEF CdNext, CdDumperStep, DumpStep
<1> QED  BY <1>1, CdInitInv, PTL DEF CdSpec

(***************************************************************************)
(* No count is lost or made twice, and with the mutex a dump is the        *)
(* counters of one moment, whoever counts while the dumper copies.         *)
(***************************************************************************)
THEOREM CdKeepsCounts == CdSpec => []CdCountsKept
<1>1. CdInv => CdCountsKept
  <2> SUFFICES ASSUME CdInv PROVE CdCountsKept  OBVIOUS
  <2>1. CdTypeOK  BY DEF CdInv
  <2>2. CdNoLostCount  BY DEF CdInv, CdExact, CdValue, CdNoLostCount
  <2>3. CdDumpIsCut
    <3> SUFFICES ASSUME cdType = "mutex", cdPc = "copy", cdPos > Len(CdTags) PROVE cdSnap = cdCount
      BY DEF CdDumpIsCut
    <3>1. cdPos - 1 = Len(CdTags)  BY CdTagsAre DEF CdInv, CdValues
    <3>2. CdPassed = CdTag  BY <3>1, CdTagsAre DEF CdPassed
    <3>3. DOMAIN cdCount \subseteq CdTag /\ cdCount \in [DOMAIN cdCount -> SUBSET CdCall]
      BY CdCountsAre DEF CdInv, CdValues
    <3>4. cdSnap = [g \in DOMAIN cdCount |-> cdCount[g]]
      BY <3>2, <3>3 DEF CdInv, CdCopied
    <3> QED  BY <3>3, <3>4
  <2> QED  BY <2>1, <2>2, <2>3 DEF CdCountsKept
<1> QED  BY <1>1, CdInvariance, PTL

(***************************************************************************)
(* A dump that is overwritten is whole also after a crash, and the         *)
(* destructor leaves one that misses nothing counted before it was called, *)
(* unless a write fails.                                                   *)
(***************************************************************************)
THEOREM CdKeepsDumps == CdSpec => []CdDumpsKept
<1>1. CdInv => CdDumpsKept
  <2> SUFFICES ASSUME CdInv PROVE CdDumpsKept  OBVIOUS
  <2>1. CdLastDumpComplete  BY DEF CdInv, CdNoneMissed, CdCovers, CdLastDumpComplete
  <2> QED  BY <2>1 DEF CdInv, CdDumpsKept
<1> QED  BY <1>1, CdInvariance, PTL
=============================================================================
