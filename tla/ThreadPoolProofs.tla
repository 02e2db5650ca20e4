-------------------------- MODULE ThreadPoolProofs --------------------------
(***************************************************************************)
(* Theorems about ThreadPool, for every number of workers, every finite    *)
(* set of tasks, and every way in which tasks add and await each other.    *)
(***************************************************************************)
EXTENDS ThreadPool, QueueLemmas, FiniteSetTheorems, TLAPS

USE PoolAssumption

Pending == {t \in Task : apc[t] # "idle"} \ finished

(* The initial states satisfy every part of the invariant. *)
LEMMA InitInv == Init => PoolInv
<1> SUFFICES ASSUME Init PROVE PoolInv
  OBVIOUS
<1>1. Range(<< >>) = {} /\ IsInjective(<< >>)
  BY EmptyQueue
<1>2. Added = {} /\ Pending = {}
  BY DEF Init, Added, Pending
<1>8. Taken = {}
  <2>1. \A w \in Worker : job[w] = NoTask
    BY DEF Init
  <2> QED  BY <2>1 DEF Taken
<1>3. Cardinality({}) = 0
  BY FS_EmptySet
<1>4. TypeOK
  <2>1. << >> \in Seq(Task) /\ 0 \in 0..Workers
    BY EmptySeq
  <2>2. pc \in [Worker -> {"none"}]
    BY DEF Init
  <2>3. job \in [Worker -> {NoTask}] /\ late \in [Worker -> {0}]
    BY DEF Init
  <2>4. apc \in [Task -> {"idle"}]
    BY DEF Init
  <2> QED  BY <2>1, <2>2, <2>3, <2>4 DEF Init, TypeOK, NoWorker
<1>5. EachTaskOnce
  BY <1>1, <1>2, <1>8 DEF Init, EachTaskOnce
<1>6. UndoneCount
  BY <1>2, <1>3 DEF Init, UndoneCount, Pending
<1>7. Busy /\ InTurn /\ LateOnce
  BY DEF Init, Busy, InTurn, LateOnce
<1> QED  BY <1>4, <1>5, <1>6, <1>7 DEF PoolInv

(***************************************************************************)
(* The steps that move no task: the owner's, and those in which a worker   *)
(* announces itself, tests, waits or wakes.                                *)
(***************************************************************************)
Idle(w) == \/ Announce(w) \/ Loop(w) \/ FindsNothing(w) \/ FallsAsleep(w)
           \/ TakesNothing(w) \/ Spurious(w)

(***************************************************************************)
(* The steps of a worker that move no task preserve the invariant.         *)
(***************************************************************************)
LEMMA IdleStep ==
  ASSUME NEW w \in Worker
  PROVE  PoolInv /\ Idle(w) => PoolInv'
<1> SUFFICES ASSUME PoolInv, Idle(w) PROVE PoolInv'
  OBVIOUS
<1> USE DEF PoolInv
<1>1. UNCHANGED <<tasks, exitFlag, undone, job, opc, spawned, apc, begun, finished, late>>
  BY DEF Idle, Announce, Loop, FindsNothing, FallsAsleep, TakesNothing, Spurious, history
<1>2. \E q \in {"loop", "ended", "take", "drowsy", "waiting", "woken"} :
        /\ pc' = [pc EXCEPT ![w] = q]
        /\ late[w] = 1 => q = "ended"
  BY DEF Idle, Announce, Loop, LoopNext, FindsNothing, FallsAsleep, TakesNothing,
         Spurious, LateOnce
<1>3. pc[w] \notin {"none", "taken", "running"}
  BY DEF Idle, Announce, Loop, FindsNothing, FallsAsleep, TakesNothing, Spurious
<1>4. lock' \in Worker \cup {NoWorker}
  BY DEF Idle, Announce, Loop, FindsNothing, FallsAsleep, TakesNothing, Spurious, TypeOK
<1>5. TypeOK'
  BY <1>1, <1>2, <1>4 DEF TypeOK
<1>6. EachTaskOnce' /\ UndoneCount'
  BY <1>1 DEF EachTaskOnce, UndoneCount, Added, Taken
<1>7. Busy' /\ InTurn'
  BY <1>1, <1>2, <1>3 DEF Busy, InTurn, TypeOK
<1>8. LateOnce'
  BY <1>1, <1>2 DEF LateOnce, TypeOK
<1> QED  BY <1>5, <1>6, <1>7, <1>8

(***************************************************************************)
(* The owner starts, raises the flag, wakes and joins; it moves no task.   *)
(***************************************************************************)
LEMMA OwnerStep == PoolInv /\ Owner => PoolInv'
<1> SUFFICES ASSUME PoolInv, Owner PROVE PoolInv'
  OBVIOUS
<1> USE DEF PoolInv
<1>1. UNCHANGED <<tasks, undone, lock, job, apc, begun, finished, late>>
  BY DEF Owner, Spawn, StartReturns, Destroy, NotifyAll, Join, history
<1>2. EachTaskOnce' /\ UndoneCount'
  BY <1>1 DEF EachTaskOnce, UndoneCount, Added, Taken
<1>3. CASE Spawn
  <2>1. /\ spawned' = spawned + 1 /\ spawned' \in Worker
        /\ pc' = [pc EXCEPT ![spawned'] = "born"] /\ pc[spawned'] = "none"
        /\ UNCHANGED <<exitFlag, opc>>
    BY <1>3 DEF Spawn, TypeOK, InTurn, Worker
  <2>2. TypeOK'
    BY <1>1, <2>1 DEF TypeOK, Worker
  <2>3. Busy'
    BY <1>1, <2>1 DEF Busy, TypeOK
  <2>4. InTurn'
    BY <2>1 DEF InTurn, TypeOK, Worker
  <2>5. LateOnce'
    BY <1>1, <2>1 DEF LateOnce, TypeOK
  <2> QED  BY <1>2, <2>2, <2>3, <2>4, <2>5
<1>4. CASE StartReturns \/ Destroy \/ Join
  BY <1>1, <1>2, <1>4 DEF StartReturns, Destroy, Join, TypeOK, Busy, InTurn, LateOnce
<1>5. CASE NotifyAll
  <2>1. /\ pc' = [w \in Worker |-> IF pc[w] = "waiting" THEN "woken" ELSE pc[w]]
        /\ UNCHANGED <<exitFlag, spawned>> /\ opc' = "joining"
    BY <1>5 DEF NotifyAll
  <2>2. TypeOK'
    BY <1>1, <2>1 DEF TypeOK
  <2>3. Busy' /\ InTurn' /\ LateOnce'
    BY <1>1, <2>1 DEF Busy, InTurn, LateOnce, TypeOK
  <2> QED  BY <1>2, <2>2, <2>3
<1> QED  BY <1>3, <1>4, <1>5 DEF Owner

(***************************************************************************)
(* add() raises the counter before the task is in the queue.               *)
(***************************************************************************)
LEMMA AddCountStep ==
  ASSUME NEW t \in Task
  PROVE  PoolInv /\ AddCount(t) => PoolInv'
<1> SUFFICES ASSUME PoolInv, AddCount(t) PROVE PoolInv'
  OBVIOUS
<1> USE DEF PoolInv
<1>1. /\ apc[t] = "idle" /\ apc' = [apc EXCEPT ![t] = "counted"]
      /\ undone' = undone + 1
      /\ UNCHANGED <<tasks, exitFlag, lock, pc, job, opc, spawned, begun, finished, late>>
  BY DEF AddCount, history
<1>2. Added' = Added /\ Taken' = Taken
  BY <1>1 DEF Added, Taken, TypeOK
<1>3. EachTaskOnce'
  BY <1>1, <1>2 DEF EachTaskOnce
<1>4. t \notin finished /\ t \notin Pending
  BY <1>1 DEF EachTaskOnce, Added, Pending
<1>5. Pending' = Pending \cup {t}
  BY <1>1, <1>4 DEF Pending, TypeOK
<1>6. IsFiniteSet(Pending)
  BY FS_Subset DEF Pending
<1>7. UndoneCount'
  BY <1>1, <1>4, <1>5, <1>6, FS_AddElement DEF UndoneCount, Pending
<1>8. TypeOK'
  BY <1>1 DEF TypeOK
<1>9. Busy' /\ InTurn' /\ LateOnce'
  BY <1>1 DEF Busy, InTurn, LateOnce
<1> QED  BY <1>3, <1>7, <1>8, <1>9

(***************************************************************************)
(* The push: the task was nowhere, and is in the queue now.                *)
(***************************************************************************)
LEMMA AddPushStep ==
  ASSUME NEW t \in Task
  PROVE  PoolInv /\ AddPush(t) => PoolInv'
<1> SUFFICES ASSUME PoolInv, AddPush(t) PROVE PoolInv'
  OBVIOUS
<1> USE DEF PoolInv
<1>1. /\ apc[t] = "counted" /\ apc' = [apc EXCEPT ![t] = "added"]
      /\ tasks' = Append(tasks, t)
      /\ UNCHANGED <<exitFlag, undone, lock, job, opc, spawned, begun, finished, late>>
  BY DEF AddPush, history
<1>2. \/ pc' = pc
      \/ \E w \in Worker : pc[w] = "waiting" /\ pc' = [pc EXCEPT ![w] = "woken"]
  BY DEF AddPush, NotifyOne, Waiters
<1>3. tasks \in Seq(Task)
  BY DEF TypeOK
<1>4. t \notin Added /\ Added' = Added \cup {t} /\ Taken' = Taken
  BY <1>1 DEF Added, Taken, TypeOK
<1>5. t \notin Range(tasks) /\ t \notin Taken \cup finished
  BY <1>4 DEF EachTaskOnce
<1>6. /\ tasks' \in Seq(Task) /\ Range(tasks') = Range(tasks) \cup {t}
      /\ IsInjective(tasks')
  BY <1>1, <1>3, <1>5, AppendRange DEF EachTaskOnce
<1>7. EachTaskOnce'
  <2>1. \A w, v \in Worker : job'[w] = job'[v] /\ job'[w] # NoTask => w = v
    BY <1>1 DEF EachTaskOnce
  <2>2. Range(tasks') \cup Taken' \cup finished' = Added'
    BY <1>1, <1>4, <1>6 DEF EachTaskOnce
  <2>3. /\ Range(tasks') \cap (Taken' \cup finished') = {}
        /\ Taken' \cap finished' = {}
    BY <1>1, <1>4, <1>5, <1>6 DEF EachTaskOnce
  <2> QED  BY <1>6, <2>1, <2>2, <2>3 DEF EachTaskOnce
<1>8. UndoneCount'
  <2>1. Pending' = Pending
    BY <1>1 DEF Pending, TypeOK
  <2> QED  BY <1>1, <2>1 DEF UndoneCount, Pending
<1>9. TypeOK'
  BY <1>1, <1>2, <1>6 DEF TypeOK
<1>10. Busy' /\ InTurn'
  BY <1>1, <1>2 DEF Busy, InTurn, TypeOK
<1>11. LateOnce'
  BY <1>1, <1>2 DEF LateOnce, TypeOK
<1> QED  BY <1>7, <1>8, <1>9, <1>10, <1>11

(***************************************************************************)
(* A worker takes the first task of the queue: it leaves the queue and is  *)
(* with that worker alone.                                                 *)
(***************************************************************************)
LEMMA TakesStep ==
  ASSUME NEW w \in Worker
  PROVE  PoolInv /\ Takes(w) => PoolInv'
<1> SUFFICES ASSUME PoolInv, Takes(w) PROVE PoolInv'
  OBVIOUS
<1> USE DEF PoolInv
<1> DEFINE h == Head(tasks)
<1>1. /\ pc[w] \in {"take", "woken"} /\ tasks # << >>
      /\ job' = [job EXCEPT ![w] = h] /\ tasks' = Tail(tasks)
      /\ pc' = [pc EXCEPT ![w] = "taken"]
      /\ UNCHANGED <<exitFlag, undone, lock, opc, spawned, apc, begun, finished, late>>
  BY DEF Takes, PopFront, history
<1>2. tasks \in Seq(Task)
  BY DEF TypeOK
<1>3. /\ h \in Range(tasks) /\ Tail(tasks) \in Seq(Task)
      /\ Range(Tail(tasks)) \cup {h} = Range(tasks)
      /\ IsInjective(Tail(tasks)) /\ h \notin Range(Tail(tasks))
  BY <1>1, <1>2, TailRange DEF EachTaskOnce
<1>4. Range(tasks) \subseteq Task
  BY <1>2, RangeOf
<1> HIDE DEF h
<1>5. job[w] = NoTask
  BY <1>1 DEF Busy
<1>6. job \in [Worker -> Task \cup {NoTask}]
  BY DEF TypeOK
<1>7. Taken' = Taken \cup {h}
  BY <1>1, <1>3, <1>4, <1>5, <1>6 DEF Taken
<1>8. h \notin Taken \cup finished
  BY <1>3 DEF EachTaskOnce
<1>9. EachTaskOnce'
  <2>1. \A v \in Worker : job[v] # h
    BY <1>3, <1>4, <1>8 DEF Taken
  <2>2. \A u, v \in Worker : job'[u] = job'[v] /\ job'[u] # NoTask => u = v
    BY <1>1, <1>6, <2>1 DEF EachTaskOnce
  <2>3. Range(tasks') \cup Taken' \cup finished' = Added'
    BY <1>1, <1>3, <1>7 DEF EachTaskOnce, Added
  <2>4. /\ Range(tasks') \cap (Taken' \cup finished') = {}
        /\ Taken' \cap finished' = {}
    BY <1>1, <1>3, <1>7, <1>8 DEF EachTaskOnce
  <2> QED  BY <1>1, <1>3, <2>2, <2>3, <2>4 DEF EachTaskOnce
<1>10. UndoneCount'
  BY <1>1 DEF UndoneCount
<1>11. TypeOK'
  BY <1>1, <1>3, <1>4 DEF TypeOK
<1>12. Busy' /\ InTurn'
  BY <1>1, <1>3, <1>4 DEF Busy, InTurn, TypeOK
<1>13. LateOnce'
  BY <1>1 DEF LateOnce, TypeOK
<1> QED  BY <1>9, <1>10, <1>11, <1>12, <1>13

(***************************************************************************)
(* The task begins: if that is late, the worker was not late before.       *)
(***************************************************************************)
LEMMA BeginTaskStep ==
  ASSUME NEW w \in Worker
  PROVE  PoolInv /\ BeginTask(w) => PoolInv'
<1> SUFFICES ASSUME PoolInv, BeginTask(w) PROVE PoolInv'
  OBVIOUS
<1> USE DEF PoolInv
<1>1. /\ pc[w] = "taken" /\ pc' = [pc EXCEPT ![w] = "running"]
      /\ begun' = begun \cup {job[w]}
      /\ late' = IF exitFlag THEN [late EXCEPT ![w] = @ + 1] ELSE late
      /\ UNCHANGED <<tasks, exitFlag, undone, lock, job, opc, spawned, apc, finished>>
  BY DEF BeginTask
<1>2. job[w] \in Task
  BY <1>1 DEF Busy, TypeOK
<1>3. late[w] = 0
  <2>1. late[w] \in Nat  BY DEF TypeOK
  <2>2. late[w] <= 1 /\ late[w] # 1  BY <1>1 DEF LateOnce
  <2> QED  BY <2>1, <2>2
<1>4. EachTaskOnce' /\ UndoneCount'
  BY <1>1 DEF EachTaskOnce, UndoneCount, Added, Taken
<1>5. TypeOK'
  BY <1>1, <1>2 DEF TypeOK
<1>6. Busy' /\ InTurn'
  BY <1>1 DEF Busy, InTurn, TypeOK
<1>7. LateOnce'
  BY <1>1, <1>3 DEF LateOnce, TypeOK
<1> QED  BY <1>4, <1>5, <1>6, <1>7

(***************************************************************************)
(* The task returns and leaves the counter.                                *)
(***************************************************************************)
LEMMA EndTaskStep ==
  ASSUME NEW w \in Worker
  PROVE  PoolInv /\ EndTask(w) => PoolInv'
<1> SUFFICES ASSUME PoolInv, EndTask(w) PROVE PoolInv'
  OBVIOUS
<1> USE DEF PoolInv
<1> DEFINE j == job[w]
<1>1. /\ pc[w] = "running" /\ pc' = [pc EXCEPT ![w] = "loop"]
      /\ finished' = finished \cup {j} /\ job' = [job EXCEPT ![w] = NoTask]
      /\ undone' = undone - 1
      /\ UNCHANGED <<tasks, exitFlag, lock, opc, spawned, apc, begun, late>>
  BY DEF EndTask
<1>2. j \in Task /\ j \in Taken /\ j \in begun
  BY <1>1 DEF Busy, TypeOK, Taken
<1>3. job \in [Worker -> Task \cup {NoTask}]
  BY DEF TypeOK
<1>4. Taken' = Taken \ {j}
  <2>1. \A v \in Worker : v # w => job[v] # j
    BY <1>2 DEF EachTaskOnce
  <2> QED  BY <1>1, <1>2, <1>3, <2>1 DEF Taken
<1> HIDE DEF j
<1>5. EachTaskOnce'
  <2>1. \A u, v \in Worker : job'[u] = job'[v] /\ job'[u] # NoTask => u = v
    BY <1>1, <1>3 DEF EachTaskOnce
  <2>2. Range(tasks') \cup Taken' \cup finished' = Added'
    BY <1>1, <1>2, <1>4 DEF EachTaskOnce, Added
  <2>3. /\ Range(tasks') \cap (Taken' \cup finished') = {}
        /\ Taken' \cap finished' = {}
    BY <1>1, <1>2, <1>4 DEF EachTaskOnce
  <2> QED  BY <1>1, <2>1, <2>2, <2>3 DEF EachTaskOnce
<1>6. j \in Pending
  BY <1>2 DEF EachTaskOnce, Added, Pending
<1>7. Pending' = Pending \ {j}
  BY <1>1 DEF Pending
<1>8. IsFiniteSet(Pending)
  BY FS_Subset DEF Pending
<1>9. Cardinality(Pending') = Cardinality(Pending) - 1
  BY <1>6, <1>7, <1>8, FS_RemoveElement
<1>10. UndoneCount' /\ undone' \in Nat
  <2>1. undone' = Cardinality(Pending')
    BY <1>1, <1>9 DEF UndoneCount, Pending
  <2>2. Cardinality(Pending') \in Nat
    BY <1>7, <1>8, FS_CardinalityType, FS_RemoveElement
  <2> QED  BY <2>1, <2>2 DEF UndoneCount, Pending
<1>11. TypeOK'
  BY <1>1, <1>2, <1>10 DEF TypeOK
<1>12. Busy' /\ InTurn'
  BY <1>1 DEF Busy, InTurn, TypeOK
<1>13. LateOnce'
  BY <1>1 DEF LateOnce, TypeOK
<1> QED  BY <1>5, <1>10, <1>11, <1>12, <1>13

(***************************************************************************)
(* Every step of the pool preserves the invariant.                         *)
(***************************************************************************)
LEMMA StepInv == PoolInv /\ [Next]_vars => PoolInv'
<1> SUFFICES ASSUME PoolInv, [Next]_vars PROVE PoolInv'
  OBVIOUS
<1>1. ASSUME NEW w \in Worker, WorkerStep(w) \/ Spurious(w) PROVE PoolInv'
  BY <1>1, IdleStep, TakesStep, BeginTaskStep, EndTaskStep DEF WorkerStep, Idle
<1>2. CASE Owner
  BY <1>2, OwnerStep
<1>3. CASE Adders
  BY <1>3, AddCountStep, AddPushStep DEF Adders
<1>4. CASE UNCHANGED vars
  BY <1>4 DEF vars, history, PoolInv, TypeOK, EachTaskOnce, UndoneCount, Added, Taken,
              Busy, InTurn, LateOnce
<1> QED  BY <1>1, <1>2, <1>3, <1>4 DEF Next

(***************************************************************************)
(* The invariant holds in every reachable state.                           *)
(***************************************************************************)
THEOREM Invariance == Spec => []PoolInv
<1> QED  BY InitInv, StepInv, PTL DEF Spec

(***************************************************************************)
(* The types of the state of the pool.                                     *)
(***************************************************************************)
THEOREM TypeCorrect == Spec => []TypeOK
<1>1. PoolInv => TypeOK  BY DEF PoolInv
<1> QED  BY <1>1, Invariance, PTL

(***************************************************************************)
(* However many workers take from the queue, every task is in one place:   *)
(* queued, with one worker, or finished.                                   *)
(***************************************************************************)
THEOREM TakenOnce == Spec => []EachTaskOnce
<1>1. PoolInv => EachTaskOnce  BY DEF PoolInv
<1> QED  BY <1>1, Invariance, PTL

(***************************************************************************)
(* num_of_undone_task() is exact in every reachable state.                 *)
(***************************************************************************)
THEOREM CountIsExact == Spec => []UndoneCount
<1>1. PoolInv => UndoneCount  BY DEF PoolInv
<1> QED  BY <1>1, Invariance, PTL

(***************************************************************************)
(* After the destructor has raised the flag, each worker begins at most    *)
(* one more task.                                                          *)
(***************************************************************************)
THEOREM LateAtMostOnce == Spec => []AtMostOneLate
<1>1. PoolInv => AtMostOneLate  BY DEF PoolInv, LateOnce, AtMostOneLate
<1> QED  BY <1>1, Invariance, PTL
=============================================================================
