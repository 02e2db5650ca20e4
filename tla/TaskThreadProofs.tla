-------------------------- MODULE TaskThreadProofs --------------------------
(***************************************************************************)
(* Theorems about TaskThread, for every finite set of tasks, every delay,  *)
(* every tree of tasks that add tasks, every release mode and every bound. *)
(***************************************************************************)
EXTENDS TaskThread, QueueLemmas, FiniteSetTheorems

USE TaskAssumption, DelayAssumption, ParentAssumption, ModeAssumption,
    BoundAssumption

Quiet == \/ Start \/ StartReturns \/ Stop \/ Join \/ Announce \/ LoopTest
         \/ Timeout \/ Wake \/ Check \/ ExecuteReturns \/ Relock

(* The initial states satisfy every part of the invariant. *)
LEMMA InitInv == Init => ThreadInv
<1> SUFFICES ASSUME Init PROVE ThreadInv
  OBVIOUS
<1>1. Range(<< >>) = {} /\ IsInjective(<< >>)
  BY EmptyQueue
<1>2. Added = {} /\ Begun = {} /\ Finished = {}
  BY <1>1 DEF Init, Added, Begun, Finished
<1>3. Cardinality({}) = 0
  BY FS_EmptySet
<1>4. TypeOK
  <2>1. QueueTypes
    BY DEF Init, QueueTypes
  <2>2. ControlTypes
    BY DEF Init, ControlTypes
  <2>3. LockOwner
    BY DEF Init, LockOwner
  <2> QED  BY <2>1, <2>2, <2>3 DEF TypeOK
<1>5. Placed
  BY <1>1, <1>2 DEF Init, Placed
<1>6. Punctual
  BY <1>1 DEF Init, Punctual
<1>7. UndoneCount
  BY <1>2, <1>3 DEF Init, UndoneCount
<1>8. Ordered
  BY <1>1, <1>2, <1>3 DEF Init, Ordered, ImmediateInOrder
<1>9. WorkerExists
  BY DEF Init, WorkerExists
<1> QED  BY <1>4, <1>5, <1>6, <1>7, <1>8, <1>9 DEF ThreadInv

(***************************************************************************)
(* The steps that touch no queue and no task.                              *)
(***************************************************************************)
LEMMA QuietStep == ThreadInv /\ Quiet => ThreadInv'
<1> SUFFICES ASSUME ThreadInv, Quiet PROVE ThreadInv'
  OBVIOUS
<1> USE DEF ThreadInv
<1>1. /\ UNCHANGED <<tasks, deferred, due, collect, cur, undone, apc, now,
                     executed, stamp, inTime>>
  BY DEF Quiet, Start, StartReturns, Stop, Join, Announce, LoopTest, Timeout,
         Wake, Check, ExecuteReturns, Relock, queues, owner
<1>2. TypeOK'
  <2>1. QueueTypes'
    BY <1>1 DEF QueueTypes, TypeOK
  <2> USE DEF TypeOK, ControlTypes, LockOwner, WorkerExists
  <2>2. CASE Start
    BY <2>1, <2>2 DEF Start, owner
  <2>3. CASE StartReturns
    BY <2>1, <2>3 DEF StartReturns
  <2>4. CASE Stop
    BY <2>1, <2>4 DEF Stop
  <2>5. CASE Join
    BY <2>1, <2>5 DEF Join
  <2>6. CASE Announce
    BY <2>1, <2>6 DEF Announce, owner
  <2>7. CASE LoopTest
    BY <2>1, <2>7 DEF LoopTest, owner
  <2>8. CASE Timeout
    BY <2>1, <2>8 DEF Timeout, owner
  <2>9. CASE Wake
    BY <2>1, <2>9 DEF Wake, owner
  <2>10. CASE Check
    BY <2>1, <2>10 DEF Check, owner
  <2>11. CASE ExecuteReturns
    BY <2>1, <2>11 DEF ExecuteReturns, owner
  <2>12. CASE Relock
    BY <2>1, <2>12 DEF Relock, owner
  <2> QED
    BY <2>2, <2>3, <2>4, <2>5, <2>6, <2>7, <2>8, <2>9, <2>10, <2>11, <2>12
       DEF Quiet
<1>3. UNCHANGED <<Added, Begun, Finished>>
  BY <1>1 DEF Added, Begun, Finished
<1>4. /\ pc' \in {"none", "born", "acquire", "waiting", "woken", "collect", "ended"}
           => collect = << >>
      /\ cur # NoTask => pc' = pc
  <2> USE DEF Placed, TypeOK, ControlTypes, WorkerExists
  <2>1. CASE Start \/ StartReturns \/ Stop \/ Join \/ Announce
    BY <2>1 DEF Start, StartReturns, Stop, Join, Announce
  <2>2. CASE LoopTest \/ Timeout \/ Wake \/ Relock
    BY <2>2 DEF LoopTest, Timeout, Wake, Relock
  <2>3. CASE Check
    BY <2>3 DEF Check
  <2>4. CASE ExecuteReturns
    BY <2>4 DEF ExecuteReturns
  <2> QED  BY <2>1, <2>2, <2>3, <2>4 DEF Quiet
<1>5. Placed'
  BY <1>1, <1>3, <1>4 DEF Placed
<1>6. Punctual'
  BY <1>1 DEF Punctual
<1>7. UndoneCount'
  BY <1>1, <1>3 DEF UndoneCount
<1>8. Ordered'
  BY <1>1, <1>3 DEF Ordered, ImmediateInOrder
<1>9. WorkerExists'
  BY DEF TypeOK, ControlTypes, WorkerExists, Quiet, Start, StartReturns, Stop,
         Join, Announce, LoopTest, Timeout, Wake, Check, ExecuteReturns, Relock,
         owner
<1> QED  BY <1>2, <1>5, <1>6, <1>7, <1>8, <1>9

(* Time passes: what was due stays due. *)
LEMMA TickStep == ThreadInv /\ Tick => ThreadInv'
<1> SUFFICES ASSUME ThreadInv, Tick PROVE ThreadInv'
  OBVIOUS
<1> USE DEF ThreadInv
<1>1. /\ UNCHANGED <<tasks, deferred, due, collect, cur, undone, apc, pc,
                     executed, stamp, inTime>>
      /\ now' = now + 1
  BY DEF Tick, queues, owner
<1>2. TypeOK'
  BY DEF TypeOK, QueueTypes, ControlTypes, LockOwner, Tick, queues, owner
<1>3. UNCHANGED <<Added, Begun, Finished>>
  BY <1>1 DEF Added, Begun, Finished
<1>4. Placed'
  BY <1>1, <1>3 DEF Placed
<1>5. Punctual'
  <2>1. \A t \in Range(collect) : t \in Task
    BY RangeOf DEF TypeOK, QueueTypes
  <2> QED  BY <1>1, <2>1 DEF Punctual, TypeOK, QueueTypes, ControlTypes
<1>6. UndoneCount'
  BY <1>1, <1>3 DEF UndoneCount
<1>7. Ordered'
  BY <1>1, <1>3 DEF Ordered, ImmediateInOrder
<1>8. WorkerExists'
  BY DEF WorkerExists, Tick, owner
<1> QED  BY <1>2, <1>4, <1>5, <1>6, <1>7, <1>8

(* The worker drops what it did not run: fewer tasks are in the batch. *)
LEMMA ReleaseReturnsStep == ThreadInv /\ ReleaseReturns => ThreadInv'
<1> SUFFICES ASSUME ThreadInv, ReleaseReturns PROVE ThreadInv'
  OBVIOUS
<1> USE DEF ThreadInv
<1>1. /\ UNCHANGED <<tasks, deferred, due, cur, undone, apc, now, executed,
                     stamp, inTime, opc>>
      /\ collect' = << >> /\ pc = "release" /\ pc' = "ended" /\ held' = FALSE
      /\ cur = NoTask
  BY DEF ReleaseReturns, queues, owner
<1>2. TypeOK'
  <2>1. QueueTypes'
    BY <1>1 DEF TypeOK, QueueTypes
  <2> QED  BY <1>1, <2>1 DEF TypeOK, ControlTypes, LockOwner, ReleaseReturns, owner
<1>3. UNCHANGED <<Added, Begun, Finished>>
  BY <1>1 DEF Added, Begun, Finished
<1>4. Range(<< >>) = {} /\ IsInjective(<< >>)
  BY EmptyQueue
<1>5. Placed'
  BY <1>1, <1>3, <1>4 DEF Placed
<1>6. Punctual'
  BY <1>1, <1>4 DEF Punctual
<1>7. UndoneCount'
  BY <1>1, <1>3 DEF UndoneCount
<1>8. Ordered'
  BY <1>1, <1>3, <1>4 DEF Ordered, ImmediateInOrder
<1>9. WorkerExists'
  BY <1>1 DEF WorkerExists
<1> QED  BY <1>2, <1>5, <1>6, <1>7, <1>8, <1>9

(* add() before the lock: one more unfinished task, in no queue yet. *)
LEMMA AddCountStep ==
  ASSUME NEW t \in Task
  PROVE  ThreadInv /\ AddCount(t) => ThreadInv'
<1> SUFFICES ASSUME ThreadInv, AddCount(t) PROVE ThreadInv'
  OBVIOUS
<1> USE DEF ThreadInv
<1>1. /\ UNCHANGED <<tasks, deferred, due, collect, cur, pc, now, executed,
                     stamp, inTime, opc>>
      /\ apc[t] = "idle" /\ apc' = [apc EXCEPT ![t] = "counted"]
      /\ undone' = undone + 1
  BY DEF AddCount, queues, owner
<1>2. TypeOK'
  <2>1. QueueTypes'
    BY <1>1 DEF TypeOK, QueueTypes
  <2> QED  BY <1>1, <2>1 DEF TypeOK, ControlTypes, LockOwner, AddCount, owner
<1>3. UNCHANGED <<Added, Begun, Finished>>
  BY <1>1 DEF Added, Begun, Finished, TypeOK, QueueTypes
<1>4. Placed'
  BY <1>1, <1>3 DEF Placed
<1>5. Punctual'
  BY <1>1 DEF Punctual
<1>6. UndoneCount'
  <2> DEFINE C == {u \in Task : apc[u] # "idle"} \ Finished
             D == {u \in Task : apc'[u] # "idle"} \ Finished
  <2>1. t \notin Finished
    BY <1>1 DEF Placed, Finished, Added
  <2>2. D = C \cup {t} /\ t \notin C
    BY <1>1, <2>1 DEF TypeOK, QueueTypes
  <2>3. IsFiniteSet(C)
    BY FS_Subset
  <2>4. Cardinality(D) = Cardinality(C) + 1
    BY <2>2, <2>3, FS_AddElement
  <2> QED  BY <2>4, <1>1, <1>3 DEF UndoneCount
<1>7. Ordered'
  BY <1>1, <1>3 DEF Ordered, ImmediateInOrder
<1>8. WorkerExists'
  BY <1>1 DEF WorkerExists
<1> QED  BY <1>2, <1>4, <1>5, <1>6, <1>7, <1>8

(* The task at the front begins: it stays at the front until it is done. *)
LEMMA BeginTaskStep == ThreadInv /\ BeginTask => ThreadInv'
<1> SUFFICES ASSUME ThreadInv, BeginTask PROVE ThreadInv'
  OBVIOUS
<1> USE DEF ThreadInv
<1>1. /\ UNCHANGED <<tasks, deferred, due, collect, undone, apc, pc, now, stamp,
                     inTime, opc, held>>
      /\ cur = NoTask /\ cur' = Head(Running) /\ Running # << >>
      /\ executed' = Append(executed, cur')
  BY DEF BeginTask, queues, owner
<1>2. tasks \in Seq(Task) /\ deferred \in Seq(Task) /\ collect \in Seq(Task)
      /\ executed \in Seq(Task)
  BY DEF TypeOK, QueueTypes
<1>3. /\ pc \in {"execute", "release"}
      /\ \/ collect # << >> /\ cur' = Head(collect)
         \/ /\ collect = << >> /\ deferred # << >> /\ cur' = Head(deferred)
            /\ pc = "release"
  <2>1. \/ pc \in {"execute", "release"} /\ Running = collect
        \/ pc = "release" /\ Running = collect \o deferred
    BY <1>1, ModeAssumption DEF Running, ReleaseQueue
  <2>2. CASE Running = collect /\ pc \in {"execute", "release"}
    BY <2>2, <1>1
  <2>3. CASE pc = "release" /\ Running = collect \o deferred /\ collect = << >>
    BY <2>3, <1>1, <1>2, ConcatEmptySeq
  <2>4. CASE pc = "release" /\ Running = collect \o deferred /\ collect # << >>
    <3>1. Head(collect \o deferred) = Head(collect)
      BY <2>4, <1>2
    <3> QED  BY <3>1, <2>4, <1>1
  <2> QED  BY <2>1, <2>2, <2>3, <2>4
<1>4. cur' \in Range(collect) \/ cur' \in Range(deferred)
  BY <1>2, <1>3, TailRange
<1>5. /\ cur' \in Task /\ cur' \in Added /\ cur' \notin Begun /\ cur' \notin Range(tasks)
      /\ NoTask \notin Begun
  BY <1>1, <1>2, <1>4, RangeOf DEF Placed, Added
<1>6. /\ executed' \in Seq(Task)
      /\ Begun' = Begun \cup {cur'}
      /\ UNCHANGED <<Added, Finished>>
  BY <1>1, <1>2, <1>5, AppendRange DEF Begun, Added, Finished
<1>7. TypeOK'
  <2>1. QueueTypes'
    BY <1>1, <1>5, <1>6 DEF TypeOK, QueueTypes
  <2> QED  BY <1>1, <2>1 DEF TypeOK, ControlTypes, LockOwner, BeginTask, owner
<1>8. Placed'
  BY <1>1, <1>3, <1>5, <1>6 DEF Placed
<1>9. Punctual'
  BY <1>1 DEF Punctual
<1>10. UndoneCount'
  BY <1>1, <1>6 DEF UndoneCount
<1>11. WorkerExists'
  BY <1>1 DEF WorkerExists
<1>12. Ordered'
  <2>1. ASSUME Delay[cur'] = 0
        PROVE  collect # << >> /\ cur' = Head(collect) /\ cur' \in Range(collect)
    <3>1. \A t \in Range(deferred) : Delay[t] # 0
      BY <1>2, RangeOf DEF Punctual
    <3> QED  BY <2>1, <3>1, <1>2, <1>3, TailRange
  <2>2. ASSUME NEW t \in Begun \cap Immediate, Delay[cur'] = 0
        PROVE  stamp[t] < stamp[cur']
    BY <2>1, <2>2, <1>1, <1>5 DEF Ordered, Immediate
  <2>3. ImmediateInOrder'
    <3> SUFFICES ASSUME NEW i \in DOMAIN executed', NEW j \in DOMAIN executed', i < j,
                        Delay[executed'[i]] = 0, Delay[executed'[j]] = 0
                 PROVE  stamp[executed'[i]] < stamp[executed'[j]]
      BY <1>1 DEF ImmediateInOrder
    <3>1. /\ Len(executed') = Len(executed) + 1 /\ DOMAIN executed' = 1..Len(executed')
          /\ executed'[Len(executed) + 1] = cur'
          /\ \A k \in 1..Len(executed) : executed'[k] = executed[k]
          /\ Len(executed) \in Nat /\ DOMAIN executed = 1..Len(executed)
      BY <1>1, <1>2, <1>5, <1>6, AppendProperties, LenProperties
    <3>2. CASE j <= Len(executed)
      BY <3>1, <3>2 DEF Ordered, ImmediateInOrder
    <3>3. CASE j > Len(executed)
      <4>1. j = Len(executed) + 1 /\ i \in 1..Len(executed)
        BY <3>1, <3>3
      <4>2. executed'[i] \in Begun /\ executed'[i] \in Task
        BY <4>1, <3>1, <1>2, RangeOf, ElementOfSeq DEF Begun
      <4> QED  BY <4>1, <4>2, <3>1, <2>2 DEF Immediate
    <3> QED  BY <3>1, <3>2, <3>3
  <2>4. \A t \in Begun' \cap Immediate : \A u \in Range(collect) \cap Immediate :
          u # cur' => stamp[t] < stamp[u]
    <3> SUFFICES ASSUME NEW t \in Begun' \cap Immediate,
                        NEW u \in Range(collect) \cap Immediate, u # cur'
                 PROVE  stamp[t] < stamp[u]
      OBVIOUS
    <3>1. CASE t \in Begun
      BY <3>1, <1>1, <1>2, RangeOf DEF Ordered
    <3>2. CASE t = cur'
      <4>1. collect # << >> /\ t = collect[1]
        BY <3>2, <2>1, <1>2, TailRange DEF Immediate
      <4>2. PICK j \in 1..Len(collect) : u = collect[j]
        BY <1>2, RangeOf
      <4>3. DOMAIN collect = 1..Len(collect) /\ Len(collect) \in Nat
        BY <1>2, LenProperties
      <4>4. 1 \in DOMAIN collect /\ j \in DOMAIN collect /\ 1 < j
        <5>1. j # 1
          BY <4>1, <4>2, <3>2
        <5> QED  BY <4>1, <4>2, <4>3, <5>1, <1>2, EmptySeq
      <4> QED  BY <4>1, <4>2, <4>4 DEF Ordered
    <3> QED  BY <3>1, <3>2, <1>6
  <2>5. \A t \in (Begun' \cup Range(collect)) \cap Immediate : \A u \in Range(tasks) :
          stamp[t] < stamp[u]
    BY <2>1, <1>6 DEF Ordered, Immediate
  <2> QED  BY <2>3, <2>4, <2>5, <1>1, <1>6 DEF Ordered
<1> QED  BY <1>7, <1>8, <1>9, <1>10, <1>11, <1>12

(* The task is done: it leaves the front of its queue and the count. *)
LEMMA EndTaskStep == ThreadInv /\ EndTask => ThreadInv'
<1> SUFFICES ASSUME ThreadInv, EndTask PROVE ThreadInv'
  OBVIOUS
<1> USE DEF ThreadInv
<1>1. /\ UNCHANGED <<tasks, due, apc, pc, now, stamp, inTime, opc, held, executed>>
      /\ cur # NoTask /\ cur' = NoTask /\ undone' = undone - 1
      /\ IF collect # << >>
           THEN collect' = Tail(collect) /\ deferred' = deferred
           ELSE deferred' = Tail(deferred) /\ collect' = collect
  BY DEF EndTask, queues, owner
<1>2. tasks \in Seq(Task) /\ deferred \in Seq(Task) /\ collect \in Seq(Task)
      /\ executed \in Seq(Task)
  BY DEF TypeOK, QueueTypes
<1>3. /\ cur \in Begun /\ cur \in Task /\ cur \in Added
      /\ pc \in {"execute", "release"}
      /\ \/ collect # << >> /\ cur = Head(collect)
         \/ collect = << >> /\ deferred # << >> /\ cur = Head(deferred)
  BY <1>1 DEF Placed, TypeOK, QueueTypes
<1>4. /\ collect' \in Seq(Task) /\ deferred' \in Seq(Task)
      /\ IsInjective(collect') /\ IsInjective(deferred')
      /\ Range(collect') \subseteq Range(collect)
      /\ Range(deferred') \subseteq Range(deferred)
      /\ cur \notin Range(collect') /\ cur \notin Range(deferred')
  <2>0. IsInjective(collect) /\ IsInjective(deferred)
        /\ Range(deferred) \cap Range(collect) = {}
    BY DEF Placed
  <2>1. CASE collect # << >>
    <3>1. /\ Tail(collect) \in Seq(Task) /\ cur \in Range(collect)
          /\ Range(Tail(collect)) \subseteq Range(collect)
          /\ IsInjective(Tail(collect)) /\ cur \notin Range(Tail(collect))
      BY <2>0, <2>1, <1>2, <1>3, TailRange
    <3>2. collect' = Tail(collect) /\ deferred' = deferred
      BY <2>1, <1>1
    <3> QED  BY <2>0, <3>1, <3>2, <1>2
  <2>2. CASE collect = << >>
    <3>1. Range(collect) = {}
      BY <2>2, EmptyQueue
    <3>2. /\ Tail(deferred) \in Seq(Task)
          /\ Range(Tail(deferred)) \subseteq Range(deferred)
          /\ IsInjective(Tail(deferred)) /\ cur \notin Range(Tail(deferred))
      BY <2>0, <2>2, <1>2, <1>3, TailRange
    <3>3. deferred' = Tail(deferred) /\ collect' = collect
      BY <2>2, <1>1
    <3> QED  BY <2>0, <3>1, <3>2, <3>3, <1>2
  <2> QED  BY <2>1, <2>2
<1>5. UNCHANGED <<Added, Begun>> /\ Finished' = Finished \cup {cur} /\ cur \notin Finished
  <2>1. NoTask \notin Begun
    BY <1>2, RangeOf DEF Begun
  <2> QED  BY <2>1, <1>1, <1>3 DEF Added, Begun, Finished
<1>6. UndoneCount'
  <2> DEFINE C == {u \in Task : apc[u] # "idle"} \ Finished
             D == {u \in Task : apc[u] # "idle"} \ Finished'
  <2>1. cur \in C /\ D = C \ {cur}
    BY <1>3, <1>5 DEF Added
  <2>2. IsFiniteSet(C)
    BY FS_Subset
  <2> HIDE DEF C, D
  <2>3. Cardinality(C \ {cur}) = IF cur \in C THEN Cardinality(C) - 1 ELSE Cardinality(C)
    BY <2>2, FS_RemoveElement
  <2>4. Cardinality(D) = Cardinality(C) - 1
    BY <2>1, <2>3
  <2> QED  BY <2>4, <1>1 DEF UndoneCount, C, D
<1>7. TypeOK'
  <2>1. QueueTypes'
    BY <1>1, <1>4 DEF TypeOK, QueueTypes
  <2>2. undone' \in Nat
    <3>1. IsFiniteSet({u \in Task : apc[u] # "idle"} \ Finished')
      BY FS_Subset
    <3> QED  BY <3>1, <1>1, <1>6, FS_CardinalityType DEF UndoneCount
  <2> QED  BY <1>1, <2>1, <2>2 DEF TypeOK, ControlTypes, LockOwner, EndTask, owner
<1>8. Placed'
  BY <1>1, <1>2, <1>3, <1>4, <1>5 DEF Placed
<1>9. Punctual'
  BY <1>1, <1>4 DEF Punctual
<1>10. WorkerExists'
  BY <1>1 DEF WorkerExists
<1>11. Ordered'
  <2>1. \A t \in Begun \cap Immediate : \A u \in Range(collect') \cap Immediate :
          stamp[t] < stamp[u]
    BY <1>4 DEF Ordered
  <2>2. \A i, j \in DOMAIN collect' :
          i < j /\ collect'[i] \in Immediate /\ collect'[j] \in Immediate
            => stamp[collect'[i]] < stamp[collect'[j]]
    <3>1. CASE collect # << >>
      <4> SUFFICES ASSUME NEW i \in DOMAIN collect', NEW j \in DOMAIN collect', i < j,
                          collect'[i] \in Immediate, collect'[j] \in Immediate
                   PROVE  stamp[collect'[i]] < stamp[collect'[j]]
        OBVIOUS
      <4>1. /\ Len(collect) \in Nat /\ DOMAIN collect = 1..Len(collect)
            /\ DOMAIN collect' = 1..(Len(collect) - 1)
            /\ \A k \in 1..(Len(collect) - 1) : collect'[k] = collect[k + 1]
        BY <3>1, <1>1, <1>2, <1>4, HeadTailProperties, LenProperties
      <4>2. /\ i + 1 \in DOMAIN collect /\ j + 1 \in DOMAIN collect /\ i + 1 < j + 1
            /\ collect'[i] = collect[i + 1] /\ collect'[j] = collect[j + 1]
        BY <4>1
      <4> QED  BY <4>2 DEF Ordered
    <3>2. CASE collect = << >>
      BY <3>2, <1>1 DEF Ordered
    <3> QED  BY <3>1, <3>2
  <2>3. \A t \in (Begun \cup Range(collect')) \cap Immediate : \A u \in Range(tasks) :
          stamp[t] < stamp[u]
    BY <1>4 DEF Ordered
  <2> QED  BY <2>1, <2>2, <2>3, <1>1, <1>5 DEF Ordered, ImmediateInOrder
<1> QED  BY <1>6, <1>7, <1>8, <1>9, <1>10, <1>11

(***************************************************************************)
(* The batch is made: all immediate tasks, then the deferred ones that are *)
(* due.                                                                    *)
(***************************************************************************)
LEMMA CollectStep == ThreadInv /\ Collect => ThreadInv'
<1> SUFFICES ASSUME ThreadInv, Collect PROVE ThreadInv'
  OBVIOUS
<1> USE DEF ThreadInv
<1>1. PICK k \in 0..Len(deferred) :
        /\ Expired(k)
        /\ collect' = tasks \o SubSeq(deferred, 1, k)
        /\ deferred' = SubSeq(deferred, k + 1, Len(deferred))
  BY DEF Collect
<1>2. /\ UNCHANGED <<due, cur, undone, apc, now, executed, stamp, inTime, opc, held>>
      /\ pc = "collect" /\ pc' = "check" /\ tasks' = << >>
      /\ collect = << >> /\ cur = NoTask
  BY DEF Collect, SwappedTasks, owner, Placed
<1>3. tasks \in Seq(Task) /\ deferred \in Seq(Task) /\ executed \in Seq(Task)
  BY DEF TypeOK, QueueTypes
<1> DEFINE ripe == SubSeq(deferred, 1, k)
<1>4. /\ ripe \in Seq(Task) /\ deferred' \in Seq(Task)
      /\ Range(ripe) = {deferred[i] : i \in 1..k}
      /\ Range(ripe) \cup Range(deferred') = Range(deferred)
      /\ IsInjective(ripe) /\ IsInjective(deferred')
      /\ Range(ripe) \cap Range(deferred') = {}
  BY <1>1, <1>3, SplitRange DEF Placed
<1>5. collect' = tasks \o ripe
  BY <1>1
<1> HIDE DEF ripe
<1>6. /\ collect' \in Seq(Task)
      /\ Range(collect') = Range(tasks) \cup Range(ripe)
      /\ IsInjective(collect')
  BY <1>3, <1>4, <1>5, ConcatRange DEF Placed
<1>7. Range(<< >>) = {} /\ IsInjective(<< >>)
  BY EmptyQueue
<1>8. UNCHANGED <<Added, Begun, Finished>>
  BY <1>2 DEF Added, Begun, Finished
<1>9. TypeOK'
  <2>1. QueueTypes'
    BY <1>2, <1>4, <1>6 DEF TypeOK, QueueTypes
  <2> QED  BY <1>2, <2>1 DEF TypeOK, ControlTypes, LockOwner, Collect, owner
<1>10. Placed'
  BY <1>2, <1>4, <1>6, <1>7, <1>8 DEF Placed
<1>11. Punctual'
  <2>1. \A t \in Range(ripe) : due[t] <= now
    BY <1>1, <1>4 DEF Expired
  <2> QED  BY <2>1, <1>2, <1>4, <1>6, <1>7 DEF Punctual
<1>12. UndoneCount'
  BY <1>2, <1>8 DEF UndoneCount
<1>13. WorkerExists'
  BY <1>2 DEF WorkerExists
<1>14. Ordered'
  <2>1. \A t \in Range(ripe) : t \notin Immediate
    <3>1. \A t \in Range(deferred) : Delay[t] > 0
      BY DEF Punctual
    <3>2. \A t \in Range(ripe) : Delay[t] > 0
      BY <3>1, <1>4
    <3>3. \A t \in Task : Delay[t] > 0 => Delay[t] # 0
      OBVIOUS
    <3>4. Range(ripe) \subseteq Task
      BY <1>4, RangeOf
    <3> QED  BY <3>2, <3>3, <3>4 DEF Immediate
  <2>2. \A i, j \in DOMAIN collect' :
          i < j /\ collect'[i] \in Immediate /\ collect'[j] \in Immediate
            => stamp[collect'[i]] < stamp[collect'[j]]
    <3> SUFFICES ASSUME NEW i \in DOMAIN collect', NEW j \in DOMAIN collect', i < j,
                        collect'[i] \in Immediate, collect'[j] \in Immediate
                 PROVE  stamp[collect'[i]] < stamp[collect'[j]]
      OBVIOUS
    <3>1. /\ Len(tasks) \in Nat /\ DOMAIN tasks = 1..Len(tasks)
          /\ Len(ripe) \in Nat
          /\ DOMAIN collect' = 1..(Len(tasks) + Len(ripe))
          /\ \A n \in DOMAIN collect' :
               collect'[n] = IF n <= Len(tasks) THEN tasks[n] ELSE ripe[n - Len(tasks)]
      BY <1>3, <1>4, <1>5, <1>6, ConcatProperties, LenProperties
    <3>2. ASSUME NEW n \in DOMAIN collect', n > Len(tasks)
          PROVE  collect'[n] \in Range(ripe)
      <4>1. n - Len(tasks) \in 1..Len(ripe) /\ collect'[n] = ripe[n - Len(tasks)]
        BY <3>1, <3>2
      <4>2. Range(ripe) = {ripe[m] : m \in 1..Len(ripe)}
        BY <1>4, RangeOf
      <4> QED  BY <4>1, <4>2
    <3>3. i <= Len(tasks) /\ j <= Len(tasks)
      BY <3>1, <3>2, <2>1
    <3> QED  BY <3>1, <3>3 DEF Ordered
  <2>3. \A t \in Begun \cap Immediate : \A u \in Range(collect') \cap Immediate :
          stamp[t] < stamp[u]
    BY <1>6, <2>1 DEF Ordered
  <2> QED  BY <2>2, <2>3, <1>2, <1>7, <1>8 DEF Ordered, ImmediateInOrder
<1> QED  BY <1>9, <1>10, <1>11, <1>12, <1>13, <1>14

(***************************************************************************)
(* add() under the lock: the new task is in no queue, and its stamp is     *)
(* above all others.                                                       *)
(***************************************************************************)
LEMMA AddInsertStep ==
  ASSUME NEW t \in Task
  PROVE  ThreadInv /\ AddInsert(t) => ThreadInv'
<1> SUFFICES ASSUME ThreadInv, AddInsert(t) PROVE ThreadInv'
  OBVIOUS
<1> USE DEF ThreadInv
<1>1. /\ UNCHANGED <<collect, cur, undone, now, executed, opc, held>>
      /\ apc[t] = "counted" /\ apc' = [apc EXCEPT ![t] = "added"]
      /\ stamp' = [stamp EXCEPT ![t] = Cardinality(Added) + 1]
      /\ \/ pc' \in {"waiting", "woken"} /\ pc \in {"waiting", "woken"}
         \/ pc' = pc
  BY DEF AddInsert, NotifyOne, owner
<1>2. tasks \in Seq(Task) /\ deferred \in Seq(Task) /\ collect \in Seq(Task)
      /\ executed \in Seq(Task)
      /\ apc \in [Task -> {"idle", "counted", "added"}] /\ stamp \in [Task -> Nat]
      /\ due \in [Task -> Nat] /\ now \in Nat
  BY DEF TypeOK, QueueTypes, ControlTypes
<1>3. /\ t \notin Range(tasks) /\ t \notin Range(deferred) /\ t \notin Range(collect)
      /\ t \notin Begun /\ t \notin Added
  BY <1>1 DEF Placed, Added
<1>4. Added' = Added \cup {t} /\ UNCHANGED <<Begun, Finished>>
  BY <1>1, <1>2 DEF Added, Begun, Finished
<1>5. /\ Cardinality(Added) \in Nat
      /\ Cardinality(Added') = Cardinality(Added) + 1
  <2>1. IsFiniteSet(Added)
    BY FS_Subset DEF Added
  <2> QED  BY <2>1, <1>3, <1>4, FS_AddElement, FS_CardinalityType
<1>6. \/ /\ Delay[t] = 0
         /\ tasks' \in Seq(Task) /\ IsInjective(tasks')
         /\ Range(tasks') = Range(tasks) \cup {t}
         /\ tasks' = Append(tasks, t) /\ deferred' = deferred /\ due' = due
      \/ /\ Delay[t] > 0
         /\ deferred' \in Seq(Task) /\ IsInjective(deferred')
         /\ Range(deferred') = Range(deferred) \cup {t}
         /\ tasks' = tasks /\ due' = [due EXCEPT ![t] = now + Delay[t]]
  <2>1. IsInjective(tasks) /\ IsInjective(deferred)
    BY DEF Placed
  <2>2. CASE Delay[t] = 0
    <3>1. tasks' = Append(tasks, t) /\ deferred' = deferred /\ due' = due
      BY <2>2 DEF AddInsert, PushBack
    <3>2. /\ Append(tasks, t) \in Seq(Task) /\ IsInjective(Append(tasks, t))
          /\ Range(Append(tasks, t)) = Range(tasks) \cup {t}
      BY <2>1, <1>2, <1>3, AppendRange
    <3> QED  BY <2>2, <3>1, <3>2
  <2>3. CASE Delay[t] # 0
    <3>1. /\ tasks' = tasks /\ due' = [due EXCEPT ![t] = now + Delay[t]]
          /\ \E k \in 0..Len(deferred) :
               deferred' = SubSeq(deferred, 1, k) \o <<t>>
                             \o SubSeq(deferred, k + 1, Len(deferred))
      BY <2>3 DEF AddInsert, InsertByDeadline
    <3>2. PICK k \in 0..Len(deferred) :
            deferred' = SubSeq(deferred, 1, k) \o <<t>>
                          \o SubSeq(deferred, k + 1, Len(deferred))
      BY <3>1
    <3> DEFINE d == SubSeq(deferred, 1, k) \o <<t>>
                      \o SubSeq(deferred, k + 1, Len(deferred))
    <3>3. /\ d \in Seq(Task) /\ IsInjective(d)
          /\ Range(d) = Range(deferred) \cup {t}
      BY <2>1, <1>2, <1>3, InsertedRange
    <3>4. deferred' = d
      BY <3>2
    <3> HIDE DEF d
    <3>5. Delay[t] > 0
      BY <2>3
    <3> QED  BY <3>1, <3>3, <3>4, <3>5
  <2> QED  BY <2>2, <2>3
<1>7. /\ tasks' \in Seq(Task) /\ deferred' \in Seq(Task)
      /\ due' \in [Task -> Nat] /\ stamp' \in [Task -> Nat]
      /\ \A u \in Task \ {t} : due'[u] = due[u] /\ stamp'[u] = stamp[u]
      /\ stamp'[t] = Cardinality(Added) + 1
  <2>1. due' \in [Task -> Nat] /\ \A u \in Task \ {t} : due'[u] = due[u]
    <3>1. due' = due \/ due' = [due EXCEPT ![t] = now + Delay[t]]
      BY <1>6
    <3>2. now + Delay[t] \in Nat
      BY <1>2
    <3> QED  BY <3>1, <3>2, <1>2
  <2>2. /\ stamp' \in [Task -> Nat]
        /\ \A u \in Task \ {t} : stamp'[u] = stamp[u]
        /\ stamp'[t] = Cardinality(Added) + 1
    BY <1>1, <1>2, <1>5
  <2>3. tasks' = tasks \/ tasks' \in Seq(Task)
    BY <1>6
  <2>4. deferred' = deferred \/ deferred' \in Seq(Task)
    BY <1>6
  <2>5. tasks' \in Seq(Task)
    BY <2>3, <1>2
  <2>6. deferred' \in Seq(Task)
    BY <2>4, <1>2
  <2> QED  BY <2>1, <2>2, <2>5, <2>6
<1>8. TypeOK'
  <2>1. inTime' \subseteq Task
    BY DEF AddInsert, TypeOK, QueueTypes
  <2>2. QueueTypes'
    BY <2>1, <1>1, <1>2, <1>7 DEF TypeOK, QueueTypes
  <2>3. ControlTypes' /\ LockOwner'
    BY <1>1 DEF TypeOK, ControlTypes, LockOwner, AddInsert, owner
  <2> QED  BY <2>2, <2>3 DEF TypeOK
<1>9. Placed'
  <2>1. /\ IsInjective(tasks') /\ IsInjective(deferred') /\ IsInjective(collect')
        /\ Range(tasks') \cap Range(deferred') = {}
        /\ Range(tasks') \cap Range(collect') = {}
        /\ Range(deferred') \cap Range(collect') = {}
        /\ Range(tasks') \cup Range(deferred') \subseteq
             Range(tasks) \cup Range(deferred) \cup {t}
    BY <1>1, <1>3, <1>6 DEF Placed
  <2>2. /\ Range(tasks') \cup Range(deferred') \cup Range(collect') \cup Begun'
             \subseteq Added'
        /\ Range(tasks') \cap Begun' = {}
        /\ (Range(deferred') \cup Range(collect')) \cap Begun' \subseteq {cur'}
    BY <2>1, <1>1, <1>3, <1>4, <1>6 DEF Placed
  <2>3. /\ pc' \in {"none", "born", "acquire", "waiting", "woken", "collect", "ended"}
             => collect' = << >>
        /\ cur' # NoTask =>
             /\ cur' \in Begun' /\ pc' \in {"execute", "release"} /\ pc' = pc
    BY <1>1, <1>4 DEF Placed
  <2>4. cur' # NoTask => collect # << >> /\ cur' = Head(collect)
    \* an add() that found the lock free did not interrupt the last pass
    <3>1. pc # "release"
      BY DEF AddInsert, TypeOK, LockOwner
    <3> QED  BY <3>1, <1>1 DEF Placed
  <2>5. cur' # NoTask => IF collect' # << >>
                           THEN cur' = Head(collect')
                           ELSE deferred' # << >> /\ cur' = Head(deferred') /\ pc' = "release"
    BY <2>4, <1>1
  <2>6. cur' # NoTask => cur' \in Begun' /\ pc' \in {"execute", "release"}
    BY <2>3
  <2>7. /\ IsInjective(tasks') /\ IsInjective(deferred') /\ IsInjective(collect')
        /\ Range(tasks') \cup Range(deferred') \cup Range(collect') \cup Begun' \subseteq Added'
        /\ Range(tasks') \cap Range(deferred') = {}
        /\ Range(tasks') \cap Range(collect') = {}
        /\ Range(deferred') \cap Range(collect') = {}
    BY <2>1, <2>2
  <2>8. /\ Range(tasks') \cap Begun' = {}
        /\ (Range(deferred') \cup Range(collect')) \cap Begun' \subseteq {cur'}
        /\ pc' \in {"none", "born", "acquire", "waiting", "woken", "collect", "ended"}
             => collect' = << >>
    BY <2>2, <2>3
  <2>9. cur' # NoTask =>
       /\ cur' \in Begun'
       /\ pc' \in {"execute", "release"}
       /\ IF collect' # << >>
            THEN cur' = Head(collect')
            ELSE deferred' # << >> /\ cur' = Head(deferred') /\ pc' = "release"
    BY <2>5, <2>6
  <2> QED  BY <2>7, <2>8, <2>9 DEF Placed
<1>10. Punctual'
  <2>1. \A u \in Range(collect) : Delay[u] > 0 => due'[u] <= now
    <3>1. \A u \in Range(collect) : u \in Task \ {t}
      BY <1>2, <1>3, RangeOf
    <3>2. \A u \in Range(collect) : due'[u] = due[u]
      BY <3>1, <1>7
    <3> QED  BY <3>2 DEF Punctual
  <2>2. \A u \in Range(tasks') : Delay[u] = 0
    BY <1>6 DEF Punctual
  <2>3. \A u \in Range(deferred') : Delay[u] > 0
    BY <1>6 DEF Punctual
  <2> QED  BY <2>1, <2>2, <2>3, <1>1 DEF Punctual
<1>11. UndoneCount'
  <2>1. \A u \in Task : apc'[u] # "idle" <=> apc[u] # "idle"
    BY <1>1, <1>2
  <2>2. {u \in Task : apc'[u] # "idle"} = {u \in Task : apc[u] # "idle"}
    BY <2>1
  <2> QED  BY <2>2, <1>1, <1>4 DEF UndoneCount
<1>12. WorkerExists'
  BY <1>1 DEF WorkerExists
<1>13. Ordered'
  <2>1. \A u \in Added : u \in Task \ {t} /\ stamp'[u] = stamp[u] /\ stamp'[u] < stamp'[t]
    <3> SUFFICES ASSUME NEW u \in Added
                 PROVE  u \in Task \ {t} /\ stamp'[u] = stamp[u] /\ stamp'[u] < stamp'[t]
      OBVIOUS
    <3>1. u \in Task \ {t}
      BY <1>3 DEF Added
    <3>2. stamp'[u] = stamp[u] /\ stamp[u] \in Nat
      BY <3>1, <1>2, <1>7
    <3>3. stamp[u] <= Cardinality(Added)
      BY DEF Ordered
    <3> QED  BY <3>1, <3>2, <3>3, <1>5, <1>7
  <2>2. /\ Range(tasks) \subseteq Added /\ Range(collect) \subseteq Added
        /\ Begun \subseteq Added
    BY DEF Placed
  <2>3. \A u \in Added' : stamp'[u] <= Cardinality(Added')
    BY <2>1, <1>4, <1>5, <1>7 DEF Ordered
  <2>4. \A i, j \in DOMAIN tasks' : i < j => stamp'[tasks'[i]] < stamp'[tasks'[j]]
    <3>1. DOMAIN tasks = 1..Len(tasks) /\ Len(tasks) \in Nat
      BY <1>2, LenProperties
    <3>2. \A i \in DOMAIN tasks : tasks[i] \in Added
      BY <2>2 DEF Range
    <3>3. CASE tasks' = tasks
      BY <3>2, <3>3, <2>1 DEF Ordered
    <3>4. CASE tasks' = Append(tasks, t)
      <4>1. /\ DOMAIN tasks' = 1..(Len(tasks) + 1)
            /\ tasks'[Len(tasks) + 1] = t
            /\ \A i \in 1..Len(tasks) : tasks'[i] = tasks[i]
        BY <3>4, <1>2, <1>7, AppendProperties, LenProperties
      <4> SUFFICES ASSUME NEW i \in DOMAIN tasks', NEW j \in DOMAIN tasks', i < j
                   PROVE  stamp'[tasks'[i]] < stamp'[tasks'[j]]
        OBVIOUS
      <4>2. i \in 1..Len(tasks) /\ tasks'[i] = tasks[i] /\ tasks[i] \in Added
        BY <4>1, <3>1, <3>2
      <4>3. CASE j \in 1..Len(tasks)
        <5>1. tasks'[j] = tasks[j] /\ tasks[j] \in Added
          BY <4>1, <4>3, <3>1, <3>2
        <5>2. stamp[tasks[i]] < stamp[tasks[j]]
          BY <4>2, <4>3, <3>1 DEF Ordered
        <5> QED  BY <4>2, <5>1, <5>2, <2>1
      <4>4. CASE j = Len(tasks) + 1
        BY <4>1, <4>2, <4>4, <2>1
      <4> QED  BY <4>1, <4>3, <4>4, <3>1
    <3> QED  BY <3>3, <3>4, <1>6
  <2>5. \A i, j \in DOMAIN collect :
          i < j /\ collect[i] \in Immediate /\ collect[j] \in Immediate
            => stamp'[collect[i]] < stamp'[collect[j]]
    <3>1. \A i \in DOMAIN collect : collect[i] \in Added
      BY <2>2 DEF Range
    <3> QED  BY <3>1, <2>1 DEF Ordered
  <2>6. \A u \in Begun \cap Immediate : \A w \in Range(collect) \cap Immediate :
          w # cur => stamp'[u] < stamp'[w]
    BY <2>1, <2>2 DEF Ordered
  <2>7. \A u \in (Begun \cup Range(collect)) \cap Immediate : \A w \in Range(tasks') :
          stamp'[u] < stamp'[w]
    <3> SUFFICES ASSUME NEW u \in (Begun \cup Range(collect)) \cap Immediate,
                        NEW w \in Range(tasks')
                 PROVE  stamp'[u] < stamp'[w]
      OBVIOUS
    <3>1. w \in Range(tasks) \/ w = t
      BY <1>6
    <3> QED  BY <3>1, <2>1, <2>2 DEF Ordered
  <2>8. ImmediateInOrder'
    <3>1. \A i \in DOMAIN executed : executed[i] \in Added
      BY <2>2 DEF Begun, Range
    <3> QED  BY <3>1, <2>1, <1>1 DEF Ordered, ImmediateInOrder
  <2> QED  BY <2>3, <2>4, <2>5, <2>6, <2>7, <2>8, <1>1, <1>4 DEF Ordered
<1> QED  BY <1>8, <1>9, <1>10, <1>11, <1>12, <1>13

-----------------------------------------------------------------------------
(***************************************************************************)
(* The invariant: every reachable state of the thread satisfies it.        *)
(***************************************************************************)
THEOREM Invariance == Spec => []ThreadInv
<1>1. Init => ThreadInv
  BY InitInv
<1>2. ThreadInv /\ [Next]_vars => ThreadInv'
  <2> SUFFICES ASSUME ThreadInv, [Next]_vars PROVE ThreadInv'
    OBVIOUS
  <2>1. CASE Quiet
    BY <2>1, QuietStep
  <2>2. CASE Tick
    BY <2>2, TickStep
  <2>3. CASE Collect
    BY <2>3, CollectStep
  <2>4. CASE ReleaseReturns
    BY <2>4, ReleaseReturnsStep
  <2>5. CASE BeginTask
    BY <2>5, BeginTaskStep
  <2>6. CASE EndTask
    BY <2>6, EndTaskStep
  <2>7. ASSUME NEW t \in Task, AddCount(t) PROVE ThreadInv'
    BY <2>7, AddCountStep
  <2>8. ASSUME NEW t \in Task, AddInsert(t) PROVE ThreadInv'
    BY <2>8, AddInsertStep
  <2>9. CASE UNCHANGED vars
    <3> USE <2>9 DEF vars
    <3>1. Added' = Added /\ Begun' = Begun /\ Finished' = Finished
      BY DEF Added, Begun, Finished
    <3>2. TypeOK' /\ LockOwner' /\ WorkerExists'
      BY DEF ThreadInv, TypeOK, QueueTypes, ControlTypes, LockOwner, WorkerExists
    <3>3. Placed' /\ UndoneCount'
      BY <3>1 DEF ThreadInv, Placed, UndoneCount
    <3>4. Punctual'
      BY <3>1 DEF ThreadInv, Punctual
    <3>5. Ordered'
      BY <3>1 DEF ThreadInv, Ordered, ImmediateInOrder
    <3> QED  BY <3>1, <3>2, <3>3, <3>4, <3>5 DEF ThreadInv
  <2> QED
    BY <2>1, <2>2, <2>3, <2>4, <2>5, <2>6, <2>7, <2>8, <2>9
       DEF Next, Worker, Owner, Adders, Quiet
<1> QED  BY <1>1, <1>2, PTL DEF Spec

(***************************************************************************)
(* The types of all variables; the counter never goes below zero, and the  *)
(* worker owns the mutex exactly in its critical sections.                 *)
(***************************************************************************)
THEOREM TypeCorrect == Spec => []TypeOK
<1>1. ThreadInv => TypeOK
  BY DEF ThreadInv
<1> QED  BY <1>1, Invariance, PTL

(***************************************************************************)
(* num_of_undone_task() counts the tasks whose add() has begun and whose   *)
(* run has not returned, at every moment.                                  *)
(***************************************************************************)
THEOREM CountIsExact == Spec => []UndoneCount
<1>1. ThreadInv => UndoneCount
  BY DEF ThreadInv
<1> QED  BY <1>1, Invariance, PTL

(***************************************************************************)
(* Immediate tasks run in the order in which they were added.              *)
(***************************************************************************)
THEOREM FirstInFirstOut == Spec => []ImmediateInOrder
<1>1. ThreadInv => ImmediateInOrder
  BY DEF ThreadInv, Ordered
<1> QED  BY <1>1, Invariance, PTL

(***************************************************************************)
(* A deferred task begins at its deadline or later, unless the thread is   *)
(* in the last pass of DO_ALL_DONE.                                        *)
(***************************************************************************)
THEOREM DeadlinesKept == Spec => NoEarlyRun
<1> DEFINE Begins == cur' # cur /\ cur' # NoTask /\ Delay[cur'] > 0
           Allowed == due[cur'] <= now \/ (Mode = "ALL" /\ pc = "release")
<1>1. ThreadInv /\ [Next]_vars => [Begins => Allowed]_vars
  <2> SUFFICES ASSUME ThreadInv, Next, Begins PROVE Allowed
    OBVIOUS
  <2>1. CASE BeginTask
    <3>1. collect \in Seq(Task)
      BY DEF ThreadInv, TypeOK, QueueTypes
    <3>2. CASE Running = collect
      <4>1. cur' \in Range(collect)
        BY <2>1, <3>1, <3>2, TailRange DEF BeginTask
      <4> QED  BY <4>1 DEF ThreadInv, Punctual
    <3>3. CASE Running # collect
      BY <2>1, <3>3, ModeAssumption DEF BeginTask, Running, ReleaseQueue
    <3> QED  BY <3>2, <3>3
  <2>2. CASE EndTask
    BY <2>2 DEF EndTask
  <2>3. CASE ~BeginTask /\ ~EndTask
    <3>1. cur' = cur
      BY <2>3 DEF Next, Worker, Owner, Adders, Start, StartReturns, Stop, Join,
         Announce, LoopTest, Timeout, Wake, Check, ExecuteReturns, Relock, Tick,
         Collect, ReleaseReturns, AddCount, AddInsert
    <3> QED  BY <3>1
  <2> QED  BY <2>1, <2>2, <2>3
<1> QED  BY <1>1, Invariance, PTL DEF Spec, NoEarlyRun

-----------------------------------------------------------------------------
(***************************************************************************)
(* The end of a task_thread and its deferred tasks: what the release modes *)
(* promise, the order of the deadlines, and that the thread implements the *)
(* queue that TaskQueue promises.  They stand on the invariant above.      *)
(***************************************************************************)

(***************************************************************************)
(* What moves from where to where, for the steps that move tasks.          *)
(***************************************************************************)
LEMMA CollectMoves ==
  ASSUME ThreadInv, Collect
  PROVE  /\ UNCHANGED <<due, cur, exitFlag, apc, now, executed, stamp, inTime, opc, starts>>
         /\ pc = "collect" /\ pc' = "check" /\ tasks' = << >> /\ collect = << >> /\ cur = NoTask
         /\ \E k \in 0..Len(deferred) :
              /\ collect' = tasks \o SubSeq(deferred, 1, k)
              /\ deferred' = SubSeq(deferred, k + 1, Len(deferred))
         /\ Range(collect') \cup Range(deferred') = Range(tasks) \cup Range(deferred)
<1> USE DEF ThreadInv
<1>1. PICK k \in 0..Len(deferred) :
        /\ collect' = tasks \o SubSeq(deferred, 1, k)
        /\ deferred' = SubSeq(deferred, k + 1, Len(deferred))
  BY DEF Collect
<1>2. /\ UNCHANGED <<due, cur, exitFlag, apc, now, executed, stamp, inTime, opc, starts>>
      /\ pc = "collect" /\ pc' = "check" /\ tasks' = << >> /\ collect = << >> /\ cur = NoTask
  BY DEF Collect, SwappedTasks, owner, Placed
<1>3. tasks \in Seq(Task) /\ deferred \in Seq(Task)  BY DEF TypeOK, QueueTypes
<1> DEFINE ripe == SubSeq(deferred, 1, k)
<1>4. ripe \in Seq(Task) /\ Range(ripe) \cup Range(deferred') = Range(deferred)
  BY <1>1, <1>3, SplitRange
<1>5. collect' = tasks \o ripe  BY <1>1
<1> HIDE DEF ripe
<1>6. Range(collect') = Range(tasks) \cup Range(ripe)  BY <1>3, <1>4, <1>5, ConcatRange
<1> QED  BY <1>1, <1>2, <1>4, <1>6

LEMMA BeginMoves ==
  ASSUME ThreadInv, BeginTask
  PROVE  /\ UNCHANGED <<tasks, deferred, due, collect, exitFlag, apc, now, stamp, inTime, opc, starts, pc>>
         /\ executed' = Append(executed, cur') /\ Begun' = Begun \cup {cur'}
         /\ Finished' = Finished /\ cur = NoTask /\ cur' \in Task /\ cur' \notin Begun
         /\ \/ collect # << >> /\ cur' = Head(collect) /\ cur' \in Range(collect)
            \/ collect = << >> /\ deferred # << >> /\ cur' = Head(deferred) /\ cur' \in Range(deferred)
         /\ pc = "execute" \/ Mode # "ALL" => cur' \in Range(collect)
         /\ pc \in {"execute", "release"} /\ ~(pc = "release" /\ Mode = "ASAP")
<1> USE DEF ThreadInv
<1>1. /\ UNCHANGED <<tasks, deferred, due, collect, exitFlag, apc, now, stamp, inTime, opc, starts, pc>>
      /\ cur = NoTask /\ cur' = Head(Running) /\ Running # << >>
      /\ executed' = Append(executed, cur')
  BY DEF BeginTask, queues, owner
<1>2. deferred \in Seq(Task) /\ collect \in Seq(Task) /\ executed \in Seq(Task)
  BY DEF TypeOK, QueueTypes
<1>3. \/ pc = "execute" /\ Running = collect
      \/ pc = "release" /\ Mode # "ASAP" /\ Running = collect
      \/ pc = "release" /\ Mode # "ASAP" /\ Running = collect \o deferred
  BY <1>1 DEF Running, ReleaseQueue
<1>4. \/ collect # << >> /\ cur' = Head(collect)
      \/ collect = << >> /\ deferred # << >> /\ cur' = Head(deferred) /\ pc = "release"
  <2>1. CASE Running = collect  BY <2>1, <1>1
  <2>2. CASE Running = collect \o deferred /\ collect = << >>  BY <2>2, <1>1, <1>2, <1>3, ConcatEmptySeq
  <2>3. CASE Running = collect \o deferred /\ collect # << >>
    <3>1. Head(collect \o deferred) = Head(collect)
      <4>1. Len(collect) \in Nat /\ Len(collect) >= 1  BY <2>3, <1>2, EmptySeq, LenProperties
      <4>2. (collect \o deferred)[1] = collect[1] /\ Len(collect \o deferred) >= 1
        BY <1>2, <4>1, ConcatProperties
      <4> QED  BY <4>1, <4>2, <1>2, ConcatProperties
    <3> QED  BY <2>3, <3>1, <1>1
  <2> QED  BY <1>3, <2>1, <2>2, <2>3
<1>5. \/ collect # << >> /\ cur' = Head(collect) /\ cur' \in Range(collect)
      \/ collect = << >> /\ deferred # << >> /\ cur' = Head(deferred) /\ cur' \in Range(deferred)
  BY <1>4, <1>2, TailRange
<1>6. cur' \in Task  BY <1>5, <1>2, RangeOf
<1>7. cur' \notin Begun  BY <1>1, <1>5, <1>6 DEF Placed
<1>8. Begun' = Begun \cup {cur'}  BY <1>1, <1>2, <1>6, AppendRange DEF Begun
<1>9. Finished' = Finished
  <2>1. NoTask \notin Begun  BY <1>2, RangeOf DEF Begun
  <2> QED  BY <1>1, <1>7, <1>8, <2>1 DEF Finished
<1>10. pc = "execute" \/ Mode # "ALL" => cur' \in Range(collect)
  <2>1. pc = "execute" \/ Mode # "ALL" => Running = collect
    BY <1>1 DEF Running, ReleaseQueue
  <2>2. Running = collect => cur' \in Range(collect)  BY <1>1, <1>2, TailRange
  <2> QED  BY <2>1, <2>2
<1>11. pc \in {"execute", "release"} /\ ~(pc = "release" /\ Mode = "ASAP")  BY <1>3
<1> HIDE DEF ThreadInv
<1> QED  BY <1>1, <1>5, <1>6, <1>7, <1>8, <1>9, <1>10, <1>11

LEMMA EndMoves ==
  ASSUME ThreadInv, EndTask
  PROVE  /\ UNCHANGED <<tasks, due, exitFlag, apc, pc, now, stamp, inTime, opc, starts, executed>>
         /\ cur # NoTask /\ cur \in Begun /\ cur' = NoTask /\ Finished' = Finished \cup {cur}
         /\ \/ collect # << >> /\ cur = Head(collect) /\ collect' = Tail(collect) /\ deferred' = deferred
            \/ /\ collect = << >> /\ collect' = collect
               /\ deferred # << >> /\ cur = Head(deferred) /\ deferred' = Tail(deferred)
         /\ Range(collect) \subseteq Range(collect') \cup {cur}
         /\ Range(deferred) \subseteq Range(deferred') \cup {cur}
         /\ Range(collect') \subseteq Range(collect) /\ Range(deferred') \subseteq Range(deferred)
         /\ cur \notin Range(collect') \cup Range(deferred')
<1> USE DEF ThreadInv
<1>1. /\ UNCHANGED <<tasks, due, exitFlag, apc, pc, now, stamp, inTime, opc, starts, executed>>
      /\ cur # NoTask /\ cur' = NoTask
      /\ IF collect # << >>
           THEN collect' = Tail(collect) /\ deferred' = deferred
           ELSE deferred' = Tail(deferred) /\ collect' = collect
  BY DEF EndTask, queues, owner
<1>2. deferred \in Seq(Task) /\ collect \in Seq(Task) /\ executed \in Seq(Task)
  BY DEF TypeOK, QueueTypes
<1>3. /\ cur \in Begun
      /\ \/ collect # << >> /\ cur = Head(collect)
         \/ collect = << >> /\ deferred # << >> /\ cur = Head(deferred)
  BY <1>1 DEF Placed
<1>4. NoTask \notin Begun  BY <1>2, RangeOf DEF Begun
<1>5. Finished' = Finished \cup {cur}  BY <1>1, <1>3, <1>4 DEF Finished, Begun
<1>6. CASE collect # << >>
  <2>1. Range(Tail(collect)) \cup {Head(collect)} = Range(collect)
    BY <1>6, <1>2, TailRange
  <2>2. collect' = Tail(collect) /\ deferred' = deferred /\ cur = Head(collect)  BY <1>6, <1>1, <1>3
  <2>3. Range(collect) \subseteq Range(collect') \cup {cur} /\ Range(collect') \subseteq Range(collect)
    BY <2>1, <2>2
  <2>4. cur \notin Range(collect') \cup Range(deferred')
    BY <1>6, <1>2, <2>1, <2>2, TailRange DEF Placed
  <2> QED  BY <1>6, <1>1, <1>3, <1>5, <2>2, <2>3, <2>4
<1>7. CASE collect = << >>
  <2>1. Range(Tail(deferred)) \cup {Head(deferred)} = Range(deferred)
    BY <1>7, <1>2, <1>3, TailRange
  <2>2. Range(collect) = {}  BY <1>7, EmptyQueue
  <2>3. cur \notin Range(Tail(deferred))  BY <1>7, <1>2, <1>3, TailRange DEF Placed
  <2> QED  BY <1>7, <1>1, <1>3, <1>5, <2>1, <2>2, <2>3
<1> QED  BY <1>6, <1>7

LEMMA InsertMoves ==
  ASSUME ThreadInv, NEW t \in Task, AddInsert(t)
  PROVE  /\ UNCHANGED <<collect, cur, exitFlag, now, executed, opc, starts>>
         /\ ~held /\ t \notin Added /\ Added' = Added \cup {t}
         /\ inTime' = IF exitFlag THEN inTime ELSE inTime \cup {t}
         /\ stamp' = [stamp EXCEPT ![t] = Cardinality(Added) + 1]
         /\ pc' = pc \/ (pc = "waiting" /\ pc' = "woken")
         /\ t \notin Range(tasks) \cup Range(deferred) \cup Range(collect) \cup Begun
         /\ \/ /\ Delay[t] = 0 /\ deferred' = deferred /\ due' = due
               /\ tasks' = Append(tasks, t) /\ Range(tasks') = Range(tasks) \cup {t}
            \/ /\ Delay[t] > 0 /\ tasks' = tasks /\ due' = [due EXCEPT ![t] = now + Delay[t]]
               /\ \E k \in 0..Len(deferred) :
                    /\ InsertAt(k, now + Delay[t])
                    /\ deferred' = SubSeq(deferred, 1, k) \o <<t>> \o SubSeq(deferred, k + 1, Len(deferred))
               /\ Range(deferred') = Range(deferred) \cup {t}
<1> USE DEF ThreadInv
<1>1. /\ UNCHANGED <<collect, cur, exitFlag, now, executed, opc, starts>>
      /\ ~held /\ apc[t] = "counted" /\ apc' = [apc EXCEPT ![t] = "added"]
      /\ inTime' = IF exitFlag THEN inTime ELSE inTime \cup {t}
      /\ stamp' = [stamp EXCEPT ![t] = Cardinality(Added) + 1]
      /\ pc' = pc \/ (pc = "waiting" /\ pc' = "woken")
  BY DEF AddInsert, NotifyOne, owner
<1>2. tasks \in Seq(Task) /\ deferred \in Seq(Task) /\ apc \in [Task -> {"idle", "counted", "added"}]
  BY DEF TypeOK, QueueTypes
<1>3. t \notin Added /\ Added' = Added \cup {t}  BY <1>1, <1>2 DEF Added
<1>4. t \notin Range(tasks) \cup Range(deferred) \cup Range(collect) \cup Begun
  BY <1>3 DEF Placed
<1>5. CASE Delay[t] = 0
  <2>1. tasks' = Append(tasks, t) /\ deferred' = deferred /\ due' = due
    BY <1>5 DEF AddInsert, PushBack
  <2>2. Range(Append(tasks, t)) = Range(tasks) \cup {t}  BY <1>2, AppendRange
  <2> QED  BY <1>1, <1>3, <1>4, <1>5, <2>1, <2>2
<1>6. CASE Delay[t] # 0
  <2>1. Delay[t] > 0 /\ tasks' = tasks /\ due' = [due EXCEPT ![t] = now + Delay[t]]
    BY <1>6 DEF AddInsert, InsertByDeadline
  <2>2. PICK k \in 0..Len(deferred) :
          /\ InsertAt(k, now + Delay[t])
          /\ deferred' = SubSeq(deferred, 1, k) \o <<t>> \o SubSeq(deferred, k + 1, Len(deferred))
    BY <1>6 DEF AddInsert, InsertByDeadline
  <2>3. Range(deferred') = Range(deferred) \cup {t}  BY <1>2, <2>2, InsertedRange
  <2> QED  BY <1>1, <1>3, <1>4, <2>1, <2>2, <2>3
<1> QED  BY <1>5, <1>6

-----------------------------------------------------------------------------
(***************************************************************************)
(* Whereabouts: a task that was in time and that the mode promises to run  *)
(* is not lost: it waits somewhere or has run.                             *)
(***************************************************************************)
Kept(t) == Mode = "ALL" \/ (Mode = "SHOULD" /\ Delay[t] = 0)

Whereabouts ==
  \A t \in inTime : Kept(t) =>
    t \in Range(tasks) \cup Range(deferred) \cup Range(collect) \cup Finished

(***************************************************************************)
(* NothingLate: the flag divides the tasks; past the loop, none of those   *)
(* that are in time is left in the queue that nobody will look at again,   *)
(* and a batch that is run was complete before the flag went up.           *)
(***************************************************************************)
NothingLate ==
  /\ inTime \subseteq Added
  /\ ~exitFlag => Added \subseteq inTime
  /\ pc = "check" => tasks = << >>
  /\ pc \in {"relock", "release"} => exitFlag /\ Range(tasks) \cap inTime = {}
  /\ pc = "execute" => Range(collect) \subseteq inTime
  /\ Mode = "ASAP" => Begun \subseteq inTime

(***************************************************************************)
(* Ended: a thread that has ended was stopped, and has kept the promise.   *)
(***************************************************************************)
Ended ==
  /\ starts = 0 => pc = "none"
  /\ pc = "ended" \/ (pc = "none" /\ starts > 0) =>
       exitFlag /\ \A t \in inTime : Kept(t) => t \in Finished

StopInv == Whereabouts /\ NothingLate /\ Ended

(***************************************************************************)
(* Nothing has been added and nothing started.                             *)
(***************************************************************************)
LEMMA StopInit == Init => StopInv
<1> SUFFICES ASSUME Init PROVE StopInv  OBVIOUS
<1>1. Added = {}  BY DEF Init, Added
<1>2. Begun = {}  BY EmptyQueue DEF Init, Begun
<1> QED  BY <1>1, <1>2 DEF Init, StopInv, Whereabouts, NothingLate, Ended

(***************************************************************************)
(* Every step keeps the three parts.                                       *)
(***************************************************************************)
LEMMA StopStep == ThreadInv /\ StopInv /\ [Next]_vars => StopInv'
<1> SUFFICES ASSUME ThreadInv, StopInv, [Next]_vars PROVE StopInv'  OBVIOUS
<1> USE DEF StopInv
<1>1. CASE Quiet
  <2>1. /\ UNCHANGED <<tasks, deferred, collect, cur, apc, executed, inTime>>
    BY <1>1 DEF Quiet, Start, StartReturns, Stop, Join, Announce, LoopTest, Timeout,
         Wake, Check, ExecuteReturns, Relock, queues, owner
  <2>2. UNCHANGED <<Added, Begun, Finished>>  BY <2>1 DEF Added, Begun, Finished
  <2>3. Whereabouts'  BY <2>1, <2>2 DEF Whereabouts
  <2>4. Range(collect) \subseteq Added  BY DEF ThreadInv, Placed
  <2>5. Range(<< >>) = {}  BY EmptyQueue
  <2>6. pc \in {"none", "born", "acquire", "waiting", "woken", "collect", "check", "execute",
                "relock", "release", "ended"} /\ starts \in Nat
    BY DEF ThreadInv, TypeOK, ControlTypes
  <2>7. CASE Start
    <3>1. pc' = "born" /\ starts' = starts + 1 /\ exitFlag' = exitFlag  BY <2>7 DEF Start
    <3> QED  BY <2>1, <2>2, <2>3, <2>6, <3>1 DEF NothingLate, Ended
  <2>8. CASE StartReturns
    BY <2>8, <2>1, <2>2, <2>3 DEF StartReturns, NothingLate, Ended
  <2>9. CASE Stop
    BY <2>9, <2>1, <2>2, <2>3 DEF Stop, NothingLate, Ended
  <2>10. CASE Join
    BY <2>10, <2>1, <2>2, <2>3 DEF Join, NothingLate, Ended
  <2>11. CASE Announce \/ Timeout
    BY <2>11, <2>1, <2>2, <2>3, <2>6 DEF Announce, Timeout, owner, NothingLate, Ended
  <2>12. CASE LoopTest \/ Wake
    BY <2>12, <2>1, <2>2, <2>3, <2>6 DEF LoopTest, Wake, owner, NothingLate, Ended
  <2>13. CASE Check
    BY <2>13, <2>1, <2>2, <2>3, <2>4, <2>5, <2>6 DEF Check, owner, NothingLate, Ended
  <2>14. CASE ExecuteReturns
    BY <2>14, <2>1, <2>2, <2>3, <2>6 DEF ExecuteReturns, owner, NothingLate, Ended
  <2>15. CASE Relock
    BY <2>15, <2>1, <2>2, <2>3, <2>6 DEF Relock, owner, NothingLate, Ended
  <2> QED  BY <1>1, <2>7, <2>8, <2>9, <2>10, <2>11, <2>12, <2>13, <2>14, <2>15 DEF Quiet
<1>2. CASE Tick \/ UNCHANGED vars
  <2>1. UNCHANGED <<tasks, deferred, collect, cur, exitFlag, apc, executed, inTime, pc, opc, starts>>
    BY <1>2 DEF Tick, vars, queues, owner
  <2>2. UNCHANGED <<Added, Begun, Finished>>  BY <2>1 DEF Added, Begun, Finished
  <2> QED  BY <2>1, <2>2 DEF Whereabouts, NothingLate, Ended
<1>3. CASE Collect
  <2>1. UNCHANGED <<Added, Begun, Finished>>  BY <1>3, CollectMoves DEF Added, Begun, Finished
  <2>2. Range(<< >>) = {}  BY EmptyQueue
  <2> QED  BY <1>3, CollectMoves, <2>1, <2>2 DEF Whereabouts, NothingLate, Ended
<1>4. CASE ReleaseReturns
  <2>1. /\ UNCHANGED <<tasks, deferred, cur, exitFlag, apc, executed, inTime, opc, starts>>
        /\ pc = "release" /\ pc' = "ended" /\ ReleaseQueue = << >> /\ collect' = << >>
    BY <1>4 DEF ReleaseReturns, queues, owner
  <2>2. UNCHANGED <<Added, Begun, Finished>>  BY <2>1 DEF Added, Begun, Finished
  <2>3. Range(<< >>) = {}  BY EmptyQueue
  <2>4. deferred \in Seq(Task) /\ collect \in Seq(Task)  BY DEF ThreadInv, TypeOK, QueueTypes
  <2>5. Mode # "ASAP" => Range(collect) = {}
    BY <2>1, <2>3, <2>4, ConcatRange DEF ReleaseQueue
  <2>6. Mode = "ALL" => Range(deferred) = {}
    BY <2>1, <2>3, <2>4, ConcatRange DEF ReleaseQueue
  <2>7. \A t \in Range(deferred) : Delay[t] > 0  BY DEF ThreadInv, Punctual
  <2>8. \A t \in inTime : Kept(t) => t \in Finished
    BY <2>1, <2>5, <2>6, <2>7 DEF Whereabouts, NothingLate, Kept
  <2> QED  BY <2>1, <2>2, <2>3, <2>8 DEF Whereabouts, NothingLate, Ended
<1>5. CASE BeginTask
  <2>1. Added' = Added  BY <1>5, BeginMoves DEF Added
  <2> QED  BY <1>5, <2>1, BeginMoves DEF Whereabouts, NothingLate, Ended
<1>6. CASE EndTask
  <2>1. Added' = Added /\ Begun' = Begun  BY <1>6, EndMoves DEF Added, Begun
  <2> QED  BY <1>6, <2>1, EndMoves DEF Whereabouts, NothingLate, Ended
<1>7. ASSUME NEW t \in Task, AddCount(t) PROVE StopInv'
  <2>1. /\ UNCHANGED <<tasks, deferred, collect, cur, exitFlag, executed, inTime, pc, opc, starts>>
        /\ apc[t] = "idle" /\ apc' = [apc EXCEPT ![t] = "counted"]
    BY <1>7 DEF AddCount, queues, owner
  <2>2. apc \in [Task -> {"idle", "counted", "added"}]  BY DEF ThreadInv, TypeOK, QueueTypes
  <2>3. UNCHANGED <<Added, Begun, Finished>>  BY <2>1, <2>2 DEF Added, Begun, Finished
  <2> QED  BY <2>1, <2>3 DEF Whereabouts, NothingLate, Ended
<1>8. ASSUME NEW t \in Task, AddInsert(t) PROVE StopInv'
  <2>1. UNCHANGED <<Begun, Finished>>  BY <1>8, InsertMoves DEF Begun, Finished
  <2>2. pc # "check"  BY <1>8, InsertMoves DEF ThreadInv, TypeOK, LockOwner
  <2>3. Range(tasks') \subseteq Range(tasks) \cup {t} /\ Range(tasks) \subseteq Range(tasks')
    BY <1>8, InsertMoves
  <2>4. Range(deferred) \subseteq Range(deferred') /\ t \in Range(tasks') \cup Range(deferred')
    BY <1>8, InsertMoves
  <2>5. /\ UNCHANGED <<collect, exitFlag, starts>> /\ Added' = Added \cup {t} /\ t \notin Added
        /\ inTime' = IF exitFlag THEN inTime ELSE inTime \cup {t}
        /\ pc' = pc \/ (pc = "waiting" /\ pc' = "woken")
    BY <1>8, InsertMoves
  <2>6. Whereabouts'
    <3>1. inTime' \subseteq inTime \cup {t}  BY <2>5
    <3>2. Range(collect') = Range(collect)  BY <2>5
    <3> QED  BY <2>1, <2>3, <2>4, <3>1, <3>2 DEF Whereabouts, Kept
  <2>7. NothingLate'
    <3>1. inTime' \subseteq Added' /\ (~exitFlag' => Added' \subseteq inTime')
      BY <2>5 DEF NothingLate
    <3>2. pc' # "check"  BY <2>2, <2>5
    <3>3. pc' \in {"relock", "release"} => exitFlag' /\ Range(tasks') \cap inTime' = {}
      BY <2>3, <2>5 DEF NothingLate
    <3>4. pc' = "execute" => Range(collect') \subseteq inTime'  BY <2>5 DEF NothingLate
    <3>5. Mode = "ASAP" => Begun' \subseteq inTime'  BY <2>1, <2>5 DEF NothingLate
    <3> QED  BY <3>1, <3>2, <3>3, <3>4, <3>5 DEF NothingLate
  <2>8. Ended'
    <3>1. pc' \in {"ended", "none"} => pc' = pc  BY <2>5
    <3>2. starts = 0 => pc' = "none"  BY <2>5 DEF Ended
    <3>3. pc' = "ended" \/ (pc' = "none" /\ starts > 0) => exitFlag /\ inTime' = inTime
      BY <3>1, <2>5 DEF Ended
    <3> QED  BY <2>1, <2>5, <3>1, <3>2, <3>3 DEF Ended
  <2> QED  BY <2>6, <2>7, <2>8
<1> QED
  BY <1>1, <1>2, <1>3, <1>4, <1>5, <1>6, <1>7, <1>8 DEF Next, Worker, Owner, Adders, Quiet

(***************************************************************************)
(* What the modes promise holds in every reachable state.                  *)
(***************************************************************************)
LEMMA StopInvariance == Spec => []StopInv
BY StopInit, StopStep, Invariance, PTL DEF Spec

(***************************************************************************)
(* When stop_and_join() returns, every task that was added before the stop *)
(* and that the mode says must run has run.                                *)
(***************************************************************************)
THEOREM PromiseKept == Spec => []StopKeepsPromise
<1>1. ThreadInv /\ StopInv => StopKeepsPromise
  BY DEF ThreadInv, WorkerExists, StopInv, Ended, Kept, StopKeepsPromise
<1> QED  BY <1>1, Invariance, StopInvariance, PTL

(***************************************************************************)
(* With ASAP no task that was added after the stop ever begins.            *)
(***************************************************************************)
THEOREM AsapIsPrompt == Spec => []AsapRunsNothingLate
<1>1. StopInv => AsapRunsNothingLate
  BY DEF StopInv, NothingLate, AsapRunsNothingLate
<1> QED  BY <1>1, StopInvariance, PTL

-----------------------------------------------------------------------------
(***************************************************************************)
(* The order of the deadlines: by deadline, and equal ones in add order.   *)
(***************************************************************************)
Def          == {t \in Task : Delay[t] > 0}
Before(t, u) == due[t] < due[u] \/ (due[t] = due[u] /\ stamp[t] < stamp[u])

(***************************************************************************)
(* SortedQueues: what is deferred is sorted, so is what is deferred in the *)
(* batch, and the batch comes before the rest.                             *)
(***************************************************************************)
SortedQueues ==
  /\ \A i, j \in 1..Len(deferred) : i < j => Before(deferred[i], deferred[j])
  /\ \A i, j \in 1..Len(collect) :
       i < j /\ collect[i] \in Def /\ collect[j] \in Def => Before(collect[i], collect[j])
  /\ \A t \in Range(collect) \cap Def : \A u \in Range(deferred) : Before(t, u)

(***************************************************************************)
(* BegunFirst: what has begun comes before what waits, except when a       *)
(* thread ran everything early on its way out; up to then all that has     *)
(* begun was due.                                                          *)
(***************************************************************************)
RanEarly(steps) == Mode = "ALL" /\ (starts > 1 \/ pc \in steps)

BegunFirst ==
  /\ ~RanEarly({"ended", "none"}) =>
       \A t \in Begun \cap Def : \A u \in (Range(collect) \cup Range(deferred)) \cap Def :
         u # cur => Before(t, u)
  /\ ~RanEarly({"release", "ended", "none"}) => \A t \in Begun \cap Def : due[t] <= now
  /\ starts = 0 => Begun = {}

DueInv == SortedQueues /\ BegunFirst /\ DeferredInOrder

(***************************************************************************)
(* Nothing is deferred and nothing has begun.                              *)
(***************************************************************************)
LEMMA DueInit == Init => DueInv
<1> SUFFICES ASSUME Init PROVE DueInv  OBVIOUS
<1>1. Begun = {} /\ Range(<< >>) = {}  BY EmptyQueue DEF Init, Begun
<1>2. Len(deferred) = 0 /\ Len(collect) = 0 /\ DOMAIN executed = {}  BY DEF Init
<1>3. SortedQueues  BY <1>1, <1>2 DEF Init, SortedQueues
<1>4. BegunFirst  BY <1>1 DEF BegunFirst
<1>5. DeferredInOrder  BY <1>2 DEF DeferredInOrder
<1> QED  BY <1>3, <1>4, <1>5 DEF DueInv

(***************************************************************************)
(* A step that moves nothing and starts no thread keeps the order.         *)
(***************************************************************************)
LEMMA DueUnmoved ==
  ASSUME ThreadInv, DueInv, starts' \in Nat, starts \in Nat,
         UNCHANGED <<deferred, due, stamp, collect, cur, executed>>,
         now' = now \/ now' = now + 1, starts <= starts',
         RanEarly({"ended", "none"}) => RanEarly({"ended", "none"})' \/ Begun = {},
         RanEarly({"release", "ended", "none"}) =>
           RanEarly({"release", "ended", "none"})' \/ Begun = {},
         starts' = 0 => starts = 0
  PROVE  DueInv'
<1>1. due \in [Task -> Nat] /\ now \in Nat /\ Begun' = Begun
  BY DEF ThreadInv, TypeOK, QueueTypes, ControlTypes, Begun
<1>2. SortedQueues'  BY DEF DueInv, SortedQueues, Before
<1>3. BegunFirst'
  <2>1. ~RanEarly({"ended", "none"})' =>
          \A t \in Begun \cap Def : \A u \in (Range(collect) \cup Range(deferred)) \cap Def :
            u # cur => Before(t, u)
    BY DEF DueInv, BegunFirst
  <2>2. ~RanEarly({"release", "ended", "none"})' => \A t \in Begun \cap Def : due[t] <= now
    BY DEF DueInv, BegunFirst
  <2>3. starts' = 0 => Begun = {}  BY DEF DueInv, BegunFirst
  <2>4. \A t \in Begun \cap Def : due[t] <= now => due[t] <= now'  BY <1>1 DEF Def
  <2> QED  BY <1>1, <2>1, <2>2, <2>3, <2>4 DEF BegunFirst, Before
<1>4. DeferredInOrder'  BY DEF DueInv, DeferredInOrder
<1> QED  BY <1>2, <1>3, <1>4 DEF DueInv

(***************************************************************************)
(* The batch takes the front of what is deferred.                          *)
(***************************************************************************)
LEMMA DueCollect == ThreadInv /\ DueInv /\ Collect => DueInv'
<1> SUFFICES ASSUME ThreadInv, DueInv, Collect PROVE DueInv'  OBVIOUS
<1>1. /\ UNCHANGED <<due, cur, now, executed, stamp, starts>>
      /\ pc = "collect" /\ pc' = "check" /\ cur = NoTask
      /\ Range(collect') \cup Range(deferred') = Range(tasks) \cup Range(deferred)
  BY CollectMoves
<1>2. PICK k \in 0..Len(deferred) :
        /\ collect' = tasks \o SubSeq(deferred, 1, k)
        /\ deferred' = SubSeq(deferred, k + 1, Len(deferred))
  BY CollectMoves
<1>3. tasks \in Seq(Task) /\ deferred \in Seq(Task)  BY DEF ThreadInv, TypeOK, QueueTypes
<1>4. Range(tasks) \cap Def = {}  BY <1>3, RangeOf DEF ThreadInv, Punctual, Def
<1>5. Len(tasks) \in Nat /\ Len(deferred) \in Nat  BY <1>3, LenProperties
<1> DEFINE ripe == SubSeq(deferred, 1, k)
<1>6. ripe \in Seq(Task) /\ Len(ripe) = k /\ \A i \in 1..k : ripe[i] = deferred[i]
  BY <1>3, <1>5, SubSeqProperties
<1>7. /\ deferred' \in Seq(Task) /\ Len(deferred') = Len(deferred) - k
      /\ \A i \in 1..(Len(deferred) - k) : deferred'[i] = deferred[k + i]
  BY <1>2, <1>3, <1>5, SubSeqProperties
<1>8. collect' = tasks \o ripe  BY <1>2
<1> HIDE DEF ripe
<1>9. /\ Len(collect') = Len(tasks) + k
      /\ \A i \in 1..Len(collect') :
           collect'[i] = IF i <= Len(tasks) THEN tasks[i] ELSE ripe[i - Len(tasks)]
  <2>1. /\ Len(tasks \o ripe) = Len(tasks) + Len(ripe)
        /\ \A i \in 1..(Len(tasks) + Len(ripe)) :
             (tasks \o ripe)[i] = IF i <= Len(tasks) THEN tasks[i] ELSE ripe[i - Len(tasks)]
    <3>1. ASSUME NEW s \in Seq(Task), NEW u \in Seq(Task)
          PROVE  /\ Len(s \o u) = Len(s) + Len(u)
                 /\ \A i \in 1..(Len(s) + Len(u)) :
                      (s \o u)[i] = IF i <= Len(s) THEN s[i] ELSE u[i - Len(s)]
      BY ConcatProperties
    <3> QED  BY <3>1, <1>3, <1>6
  <2> QED  BY <2>1, <1>6, <1>8
<1>10. \A i \in 1..Len(collect') : collect'[i] \in Def =>
         i - Len(tasks) \in 1..k /\ collect'[i] = deferred[i - Len(tasks)]
  <2> TAKE i \in 1..Len(collect')
  <2> HAVE collect'[i] \in Def
  <2>1. CASE i <= Len(tasks)
    <3>1. i \in 1..Len(tasks)  BY <2>1, <1>5
    <3>2. tasks[i] \in Range(tasks)  BY <1>3, <3>1, ElementInRange
    <3> QED  BY <2>1, <3>2, <1>4, <1>9
  <2>2. CASE i > Len(tasks)
    <3>1. i - Len(tasks) \in 1..k  BY <2>2, <1>5, <1>9
    <3> QED  BY <2>2, <3>1, <1>5, <1>6, <1>9
  <2> QED  BY <2>1, <2>2, <1>5
<1>11. collect' \in Seq(Task)  BY <1>3, <1>6, <1>8, ConcatProperties
<1>12. SortedQueues'
  <2>1. \A i, j \in 1..Len(deferred') : i < j => Before(deferred'[i], deferred'[j])
    <3> TAKE i, j \in 1..Len(deferred')
    <3> HAVE i < j
    <3>1. k + i \in 1..Len(deferred) /\ k + j \in 1..Len(deferred) /\ k + i < k + j
      BY <1>5, <1>7
    <3>2. deferred'[i] = deferred[k + i] /\ deferred'[j] = deferred[k + j]  BY <1>5, <1>7
    <3>3. Before(deferred[k + i], deferred[k + j])  BY <3>1 DEF DueInv, SortedQueues
    <3> QED  BY <3>2, <3>3
  <2>2. \A i, j \in 1..Len(collect') :
          i < j /\ collect'[i] \in Def /\ collect'[j] \in Def => Before(collect'[i], collect'[j])
    <3> TAKE i, j \in 1..Len(collect')
    <3> HAVE i < j /\ collect'[i] \in Def /\ collect'[j] \in Def
    <3> DEFINE a == i - Len(tasks)
               b == j - Len(tasks)
    <3>1. a \in 1..k /\ b \in 1..k /\ collect'[i] = deferred[a] /\ collect'[j] = deferred[b]
      BY <1>10
    <3>2. a < b /\ a \in 1..Len(deferred) /\ b \in 1..Len(deferred)  BY <3>1, <1>5
    <3> QED  BY <3>1, <3>2 DEF DueInv, SortedQueues
  <2>3. ASSUME NEW t \in Range(collect') \cap Def, NEW u \in Range(deferred')
        PROVE  Before(t, u)
    <3>1. PICK i \in 1..Len(collect') : collect'[i] = t
      <4>1. Range(collect') = {collect'[n] : n \in 1..Len(collect')}  BY <1>11, RangeOf
      <4> QED  BY <4>1, <2>3
    <3>2. i - Len(tasks) \in 1..k /\ t = deferred[i - Len(tasks)]  BY <1>10, <2>3, <3>1
    <3>3. PICK j \in 1..Len(deferred') : deferred'[j] = u
      <4>1. Range(deferred') = {deferred'[n] : n \in 1..Len(deferred')}  BY <1>7, RangeOf
      <4> QED  BY <4>1, <2>3
    <3>4. u = deferred[k + j] /\ k + j \in 1..Len(deferred)  BY <1>5, <1>7, <3>3
    <3>5. i - Len(tasks) \in 1..Len(deferred) /\ i - Len(tasks) < k + j  BY <1>5, <3>2, <3>3
    <3> QED  BY <3>2, <3>4, <3>5 DEF DueInv, SortedQueues
  <2> QED  BY <1>1, <2>1, <2>2, <2>3 DEF SortedQueues, Before
<1>13. BegunFirst'
  <2>1. (Range(collect') \cup Range(deferred')) \cap Def \subseteq Range(deferred)
    BY <1>1, <1>4
  <2>2. Begun' = Begun  BY <1>1 DEF Begun
  <2> QED  BY <1>1, <2>1, <2>2 DEF DueInv, BegunFirst, RanEarly, Before
<1>14. DeferredInOrder'  BY <1>1 DEF DueInv, DeferredInOrder
<1> QED  BY <1>12, <1>13, <1>14 DEF DueInv

(***************************************************************************)
(* The task that begins is the first of those that wait.                   *)
(***************************************************************************)
LEMMA DueBegin == ThreadInv /\ StopInv /\ DueInv /\ BeginTask => DueInv'
<1> SUFFICES ASSUME ThreadInv, StopInv, DueInv, BeginTask PROVE DueInv'  OBVIOUS
<1>1. /\ UNCHANGED <<deferred, due, collect, now, stamp, starts, pc>>
      /\ executed' = Append(executed, cur') /\ Begun' = Begun \cup {cur'}
      /\ cur = NoTask /\ cur' \in Task /\ cur' \notin Begun
      /\ \/ collect # << >> /\ cur' = Head(collect) /\ cur' \in Range(collect)
         \/ collect = << >> /\ deferred # << >> /\ cur' = Head(deferred) /\ cur' \in Range(deferred)
      /\ pc = "execute" \/ Mode # "ALL" => cur' \in Range(collect)
      /\ pc \in {"execute", "release"}
  BY BeginMoves
<1>2. /\ deferred \in Seq(Task) /\ collect \in Seq(Task) /\ executed \in Seq(Task)
      /\ due \in [Task -> Nat] /\ now \in Nat /\ starts \in Nat
  BY DEF ThreadInv, TypeOK, QueueTypes, ControlTypes
<1>3. SortedQueues'  BY <1>1 DEF DueInv, SortedQueues, Before
<1>4. ASSUME NEW u \in (Range(collect) \cup Range(deferred)) \cap Def, u # cur', cur' \in Def
      PROVE  Before(cur', u)
  <2>1. CASE collect # << >>
    <3>1. cur' = Head(collect) /\ cur' \in Range(collect)  BY <1>1, <2>1
    <3>2. cur' = collect[1] /\ Len(collect) \in Nat  BY <1>2, <2>1, <3>1, TailRange, LenProperties
    <3>3. CASE u \in Range(collect)
      <4>1. PICK j \in 1..Len(collect) : collect[j] = u
        <5>1. Range(collect) = {collect[n] : n \in 1..Len(collect)}  BY <1>2, RangeOf
        <5> QED  BY <5>1, <3>3
      <4>2. 1 < j /\ 1 \in 1..Len(collect)  BY <1>4, <3>2, <4>1
      <4> QED  BY <1>4, <3>2, <4>1, <4>2 DEF DueInv, SortedQueues
    <3>4. CASE u \in Range(deferred)  BY <1>4, <3>1, <3>4 DEF DueInv, SortedQueues
    <3> QED  BY <3>3, <3>4
  <2>2. CASE collect = << >>
    <3>1. u \in Range(deferred) /\ deferred # << >> /\ cur' = Head(deferred)  BY <1>1, <2>2, EmptyQueue
    <3>2. cur' = deferred[1] /\ Len(deferred) \in Nat  BY <1>2, <3>1, TailRange, LenProperties
    <3>3. PICK j \in 1..Len(deferred) : deferred[j] = u
      <4>1. Range(deferred) = {deferred[n] : n \in 1..Len(deferred)}  BY <1>2, RangeOf
      <4> QED  BY <4>1, <3>1
    <3>4. 1 < j /\ 1 \in 1..Len(deferred)  BY <1>4, <3>2, <3>3
    <3> QED  BY <3>2, <3>3, <3>4 DEF DueInv, SortedQueues
  <2> QED  BY <2>1, <2>2
<1>5. BegunFirst'
  <2>1. ~RanEarly({"ended", "none"}) =>
          \A t \in Begun' \cap Def : \A u \in (Range(collect) \cup Range(deferred)) \cap Def :
            u # cur' => Before(t, u)
    <3>1. NoTask \notin Range(collect) \cup Range(deferred)  BY <1>2, RangeOf
    <3> QED  BY <1>1, <1>4, <3>1 DEF DueInv, BegunFirst
  <2>2. ~RanEarly({"release", "ended", "none"}) => \A t \in Begun' \cap Def : due[t] <= now
    <3>1. ~RanEarly({"release", "ended", "none"}) => cur' \in Range(collect)
      BY <1>1 DEF RanEarly
    <3>2. cur' \in Range(collect) \cap Def => due[cur'] <= now  BY DEF ThreadInv, Punctual, Def
    <3> QED  BY <1>1, <3>1, <3>2 DEF DueInv, BegunFirst
  <2>3. starts # 0  BY <1>1 DEF StopInv, Ended
  <2> QED  BY <1>1, <2>1, <2>2, <2>3 DEF BegunFirst, RanEarly, Before
<1>6. DeferredInOrder'
  <2>1. /\ DOMAIN executed = 1..Len(executed) /\ DOMAIN executed' = 1..(Len(executed) + 1)
        /\ executed'[Len(executed) + 1] = cur' /\ Len(executed) \in Nat
        /\ \A i \in 1..Len(executed) : executed'[i] = executed[i]
    BY <1>1, <1>2, AppendProperties, LenProperties
  <2> SUFFICES ASSUME NEW i \in 1..(Len(executed) + 1), NEW j \in 1..(Len(executed) + 1), i < j,
                      executed'[i] \in Def, executed'[j] \in Def, ~(Mode = "ALL" /\ starts > 1),
                      Delay[executed'[i]] > 0, Delay[executed'[j]] > 0
               PROVE  Before(executed'[i], executed'[j])
    <3>1. executed' \in Seq(Task)  BY <1>1, <1>2, AppendProperties
    <3>2. \A i \in 1..(Len(executed) + 1) : executed'[i] \in Task
      BY <2>1, <3>1, ElementOfSeq, LenProperties
    <3> QED  BY <1>1, <2>1, <3>2 DEF DeferredInOrder, Before, Def
  <2>2. CASE j # Len(executed) + 1
    <3>1. i \in 1..Len(executed) /\ j \in 1..Len(executed)
      <4>1. Len(executed) \in Nat  BY <2>1
      <4> QED  BY ONLY <4>1, <2>2, i < j, i \in 1..(Len(executed) + 1), j \in 1..(Len(executed) + 1)
    <3> QED  BY <2>1, <3>1 DEF DueInv, DeferredInOrder, Before
  <2>3. CASE j = Len(executed) + 1
    <3>1. i \in 1..Len(executed)  BY <2>1, <2>3
    <3>2. executed[i] \in Begun
      <4>1. executed \in Seq(Task)  BY <1>2
      <4>2. executed[i] \in Range(executed)  BY <3>1, <4>1, ElementInRange
      <4> QED  BY <4>2 DEF Begun
    <3>3. cur' # cur /\ cur' \in Range(collect) \cup Range(deferred)  BY <1>1
    <3>4. ~RanEarly({"ended", "none"})  BY <1>1 DEF RanEarly
    <3> QED  BY <2>1, <2>3, <3>1, <3>2, <3>3, <3>4 DEF DueInv, BegunFirst
  <2> QED  BY <2>2, <2>3
<1> QED  BY <1>3, <1>5, <1>6 DEF DueInv

(***************************************************************************)
(* The task that ends leaves the front of the queue it was in.             *)
(***************************************************************************)
LEMMA DueEnd == ThreadInv /\ DueInv /\ EndTask => DueInv'
<1> SUFFICES ASSUME ThreadInv, DueInv, EndTask PROVE DueInv'  OBVIOUS
<1>1. /\ UNCHANGED <<due, pc, now, stamp, starts, executed>>
      /\ \/ collect # << >> /\ collect' = Tail(collect) /\ deferred' = deferred
         \/ collect' = collect /\ deferred # << >> /\ deferred' = Tail(deferred)
      /\ Range(collect') \subseteq Range(collect) /\ Range(deferred') \subseteq Range(deferred)
      /\ cur \notin Range(collect') \cup Range(deferred')
  BY EndMoves
<1>2. deferred \in Seq(Task) /\ collect \in Seq(Task)
  BY DEF ThreadInv, TypeOK, QueueTypes
<1>3. ASSUME NEW s \in Seq(Task), s # << >>
      PROVE  /\ Len(s) \in Nat /\ Len(Tail(s)) = Len(s) - 1
             /\ \A i \in 1..(Len(s) - 1) : Tail(s)[i] = s[i + 1]
  BY <1>3, LenProperties, HeadTailProperties, EmptySeq
<1>4. \A i, j \in 1..Len(deferred') : i < j => Before(deferred'[i], deferred'[j])
  <2>1. CASE deferred' = deferred  BY <2>1 DEF DueInv, SortedQueues
  <2>2. CASE deferred # << >> /\ deferred' = Tail(deferred)
    <3> TAKE i, j \in 1..Len(deferred')
    <3> HAVE i < j
    <3>1. /\ i + 1 \in 1..Len(deferred) /\ j + 1 \in 1..Len(deferred) /\ i + 1 < j + 1
          /\ deferred'[i] = deferred[i + 1] /\ deferred'[j] = deferred[j + 1]
      BY <1>2, <1>3, <2>2
    <3> QED  BY <3>1 DEF DueInv, SortedQueues
  <2> QED  BY <1>1, <2>1, <2>2
<1>5. \A i, j \in 1..Len(collect') :
        i < j /\ collect'[i] \in Def /\ collect'[j] \in Def => Before(collect'[i], collect'[j])
  <2>1. CASE collect' = collect  BY <2>1 DEF DueInv, SortedQueues
  <2>2. CASE collect # << >> /\ collect' = Tail(collect)
    <3> TAKE i, j \in 1..Len(collect')
    <3> HAVE i < j /\ collect'[i] \in Def /\ collect'[j] \in Def
    <3>1. /\ i + 1 \in 1..Len(collect) /\ j + 1 \in 1..Len(collect) /\ i + 1 < j + 1
          /\ collect'[i] = collect[i + 1] /\ collect'[j] = collect[j + 1]
      BY <1>2, <1>3, <2>2
    <3> QED  BY <3>1 DEF DueInv, SortedQueues
  <2> QED  BY <1>1, <2>1, <2>2
<1>6. \A t \in Range(collect') \cap Def : \A u \in Range(deferred') : Before(t, u)
  BY <1>1 DEF DueInv, SortedQueues
<1>7. SortedQueues'  BY <1>1, <1>4, <1>5, <1>6 DEF SortedQueues, Before
<1>8. BegunFirst'
  <2>1. Begun' = Begun  BY <1>1 DEF Begun
  <2>2. \A u \in Range(collect') \cup Range(deferred') :
          u # cur /\ u \in Range(collect) \cup Range(deferred)
    BY <1>1
  <2> QED  BY <1>1, <2>1, <2>2 DEF DueInv, BegunFirst, RanEarly, Before
<1>9. DeferredInOrder'  BY <1>1 DEF DueInv, DeferredInOrder
<1> QED  BY <1>7, <1>8, <1>9 DEF DueInv

(***************************************************************************)
(* A thread that ends has an empty batch.                                  *)
(***************************************************************************)
LEMMA DueReleaseReturns == ThreadInv /\ DueInv /\ ReleaseReturns => DueInv'
<1> SUFFICES ASSUME ThreadInv, DueInv, ReleaseReturns PROVE DueInv'  OBVIOUS
<1>1. /\ UNCHANGED <<deferred, due, cur, now, executed, stamp, starts>>
      /\ pc = "release" /\ pc' = "ended" /\ collect' = << >>
  BY DEF ReleaseReturns, queues, owner
<1>2. Range(<< >>) = {} /\ Len(<< >>) = 0  BY EmptyQueue
<1>3. SortedQueues'  BY <1>1, <1>2 DEF DueInv, SortedQueues, Before
<1>4. BegunFirst'
  <2>1. Begun' = Begun  BY <1>1 DEF Begun
  <2> QED  BY <1>1, <1>2, <2>1 DEF DueInv, BegunFirst, RanEarly, Before
<1>5. DeferredInOrder'  BY <1>1 DEF DueInv, DeferredInOrder
<1> QED  BY <1>3, <1>4, <1>5 DEF DueInv

(***************************************************************************)
(* A new task has the last number, and its deadline lies in the future: an *)
(* immediate one changes no order, a deferred one goes where it belongs.   *)
(***************************************************************************)
LEMMA DueInsert ==
  ASSUME ThreadInv, DueInv, NEW t \in Task, AddInsert(t)
  PROVE  DueInv'
<1>1. /\ UNCHANGED <<collect, cur, now, executed, starts>>
      /\ ~held
      /\ stamp' = [stamp EXCEPT ![t] = Cardinality(Added) + 1]
      /\ pc' = pc \/ (pc = "waiting" /\ pc' = "woken")
      /\ t \notin Range(tasks) \cup Range(deferred) \cup Range(collect) \cup Begun
      /\ due' = due \/ due' = [due EXCEPT ![t] = now + Delay[t]]
  BY InsertMoves
<1>2. /\ deferred \in Seq(Task) /\ collect \in Seq(Task) /\ executed \in Seq(Task)
      /\ due \in [Task -> Nat] /\ stamp \in [Task -> Nat] /\ now \in Nat /\ Delay[t] \in Nat
  BY DEF ThreadInv, TypeOK, QueueTypes, ControlTypes
<1> DEFINE Later(u, v) == due'[u] < due'[v] \/ (due'[u] = due'[v] /\ stamp'[u] < stamp'[v])
<1>3. \A u \in Task \ {t} : due'[u] = due[u] /\ stamp'[u] = stamp[u]
  BY <1>1, <1>2
<1>4. \A u, v \in Task \ {t} : Before(u, v) => Later(u, v)
  BY <1>3 DEF Before
<1>5. Begun' = Begun /\ pc # "release" /\ pc' # "release"
  BY <1>1 DEF Begun, ThreadInv, TypeOK, LockOwner
<1>6. /\ Begun \subseteq Task \ {t} /\ Range(collect) \subseteq Task \ {t}
      /\ Range(deferred) \subseteq Task \ {t}
  BY <1>1, <1>2, RangeOf DEF Begun
<1>7. DeferredInOrder'
  <2>1. \A i \in DOMAIN executed : executed[i] \in Task \ {t}
    <3>1. \A i \in DOMAIN executed : executed[i] \in Begun  BY DEF Begun, Range
    <3> QED  BY <1>6, <3>1
  <2>2. executed' = executed /\ starts' = starts  BY <1>1
  <2>3. ASSUME NEW i \in DOMAIN executed, NEW j \in DOMAIN executed, i < j,
               Delay[executed[i]] > 0, Delay[executed[j]] > 0, ~(Mode = "ALL" /\ starts > 1)
        PROVE  Later(executed[i], executed[j])
    <3>1. Before(executed[i], executed[j])  BY <2>3 DEF DueInv, DeferredInOrder, Before
    <3> QED  BY <1>4, <2>1, <2>3, <3>1
  <2> QED  BY <2>2, <2>3 DEF DeferredInOrder
<1>8. /\ RanEarly({"ended", "none"})' <=> RanEarly({"ended", "none"})
      /\ RanEarly({"release", "ended", "none"})' <=> RanEarly({"ended", "none"})
      /\ RanEarly({"release", "ended", "none"}) <=> RanEarly({"ended", "none"})
  BY <1>1, <1>5 DEF RanEarly
<1>9. \A i \in 1..Len(collect) : collect[i] \in Task \ {t}
  <2>1. Range(collect) = {collect[i] : i \in 1..Len(collect)}  BY <1>2, RangeOf
  <2> QED  BY <2>1, <1>6
<1>10. /\ \A i \in 1..Len(deferred) : deferred[i] \in Task \ {t}
       /\ \A i \in 1..Len(deferred) : deferred[i] \in Range(deferred)
  <2>1. Range(deferred) = {deferred[i] : i \in 1..Len(deferred)}  BY <1>2, RangeOf
  <2> QED  BY <2>1, <1>6
<1>11. /\ \A i, j \in 1..Len(collect) :
            i < j /\ collect[i] \in Def /\ collect[j] \in Def => Later(collect[i], collect[j])
       /\ \A i, j \in 1..Len(deferred) : i < j => Later(deferred[i], deferred[j])
       /\ \A u \in Range(collect) \cap Def : \A v \in Range(deferred) : Later(u, v)
  <2> HIDE DEF Later
  <2> QED  BY <1>4, <1>6, <1>9, <1>10 DEF DueInv, SortedQueues
<1>12. CASE deferred' = deferred
  <2>1. SortedQueues'  BY <1>1, <1>11, <1>12 DEF SortedQueues, Before
  <2>2. BegunFirst'
    <3>1. Range(collect) \cup Range(deferred) \subseteq Task \ {t}  BY <1>6
    <3>2. ~RanEarly({"ended", "none"}) =>
            \A v \in Begun \cap Def : \A u \in (Range(collect) \cup Range(deferred)) \cap Def :
              u # cur => Later(v, u)
      <4> HIDE DEF Later
      <4> QED  BY <1>4, <1>6, <3>1 DEF DueInv, BegunFirst
    <3>3. ~RanEarly({"ended", "none"}) => \A v \in Begun \cap Def : due'[v] <= now
      BY <1>3, <1>6, <1>8 DEF DueInv, BegunFirst
    <3>4. starts = 0 => Begun = {}  BY DEF DueInv, BegunFirst
    <3> QED  BY <1>1, <1>5, <1>8, <1>12, <3>2, <3>3, <3>4 DEF BegunFirst, Before
  <2> QED  BY <1>7, <2>1, <2>2 DEF DueInv
<1> HIDE DEF Later
<1>13. CASE Delay[t] > 0
  <2>0. \/ Delay[t] = 0
        \/ /\ due' = [due EXCEPT ![t] = now + Delay[t]]
           /\ \E k \in 0..Len(deferred) :
                /\ InsertAt(k, now + Delay[t])
                /\ deferred' = SubSeq(deferred, 1, k) \o <<t>>
                                 \o SubSeq(deferred, k + 1, Len(deferred))
           /\ Range(deferred') = Range(deferred) \cup {t}
    BY InsertMoves
  <2>1. /\ due' = [due EXCEPT ![t] = now + Delay[t]]
        /\ Range(deferred') = Range(deferred) \cup {t}
    <3>1. Delay[t] # 0  BY <1>2, <1>13
    <3> QED  BY <2>0, <3>1, Zenon
  <2>2. PICK k \in 0..Len(deferred) :
          /\ InsertAt(k, now + Delay[t])
          /\ deferred' = SubSeq(deferred, 1, k) \o <<t>> \o SubSeq(deferred, k + 1, Len(deferred))
    <3>1. Delay[t] # 0  BY <1>2, <1>13
    <3> QED  BY <2>0, <3>1, Zenon
  <2>3. /\ Len(deferred') = Len(deferred) + 1
        /\ \A i \in 1..k : deferred'[i] = deferred[i]
        /\ deferred'[k + 1] = t
        /\ \A i \in (k + 2)..(Len(deferred) + 1) : deferred'[i] = deferred[i - 1]
    <3>1. deferred \in Seq(Task) /\ k \in 0..Len(deferred)  BY <1>2
    <3>2. deferred' = Inserted(deferred, t, k)  BY <2>2 DEF Inserted
    <3>3. /\ Len(Inserted(deferred, t, k)) = Len(deferred) + 1
          /\ \A i \in 1..k : Inserted(deferred, t, k)[i] = deferred[i]
          /\ Inserted(deferred, t, k)[k + 1] = t
          /\ \A i \in (k + 2)..(Len(deferred) + 1) :
               Inserted(deferred, t, k)[i] = deferred[i - 1]
      BY <3>1, InsertIndex
    <3> QED  BY <3>2, <3>3, Zenon
  <2>4. Len(deferred) \in Nat /\ k \in Nat /\ k <= Len(deferred)  BY <1>2, LenProperties
  <2>5. due'[t] = now + Delay[t] /\ stamp'[t] = Cardinality(Added) + 1  BY <1>1, <1>2, <2>1
  <2>6. Cardinality(Added) \in Nat
    <3>1. IsFiniteSet(Added)  BY FS_Subset DEF Added
    <3> QED  BY <3>1, FS_CardinalityType
  <2>7. \A u \in Range(deferred) : stamp[u] <= Cardinality(Added)
    BY DEF ThreadInv, Ordered, Placed
  <2> DEFINE m == now + Delay[t]
  <2> m \in Nat  BY <1>2
  <2>8. ASSUME NEW i \in 1..k PROVE Later(deferred[i], t)
    <3>1. i \in 1..Len(deferred)  BY <2>4
    <3>2. due[deferred[i]] <= now + Delay[t]  BY <2>2, <2>4 DEF InsertAt
    <3>3. deferred[i] \in Task \ {t} /\ stamp[deferred[i]] <= Cardinality(Added)
      BY <1>10, <2>7, <3>1
    <3>4. /\ due'[deferred[i]] = due[deferred[i]] /\ stamp'[deferred[i]] = stamp[deferred[i]]
          /\ due[deferred[i]] \in Nat /\ stamp[deferred[i]] \in Nat
      BY <1>2, <1>3, <3>3
    <3> DEFINE d == due[deferred[i]]
               n == stamp[deferred[i]]
    <3>5. d \in Nat /\ n \in Nat /\ d <= m /\ n < Cardinality(Added) + 1
      BY <2>6, <3>2, <3>3, <3>4
    <3> HIDE DEF d, n, m
    <3>6. d < m \/ d = m  BY <3>5
    <3> QED  BY <2>5, <3>4, <3>5, <3>6 DEF d, n, m, Later
  <2>9. ASSUME NEW i \in (k + 1)..Len(deferred) PROVE Later(t, deferred[i])
    <3>1. i \in 1..Len(deferred)  BY <2>4
    <3>2. due[deferred[i]] > now + Delay[t]  BY <2>2, <2>4 DEF InsertAt
    <3>3. due'[deferred[i]] = due[deferred[i]] /\ due[deferred[i]] \in Nat
      BY <1>2, <1>3, <1>10, <3>1
    <3> QED  BY <1>2, <2>5, <3>2, <3>3 DEF Later
  <2>10. ASSUME NEW u \in (Range(collect) \cup Begun) \cap Def, due[u] <= now
         PROVE  Later(u, t)
    <3>1. u \in Task \ {t}  BY <1>6
    <3>2. due'[u] = due[u] /\ due[u] \in Nat  BY <1>2, <1>3, <3>1
    <3> QED  BY <1>2, <1>13, <2>5, <2>10, <3>2 DEF Later
  <2>11. \A i, j \in 1..Len(deferred') : i < j => Later(deferred'[i], deferred'[j])
    <3> TAKE i, j \in 1..Len(deferred')
    <3> HAVE i < j
    <3>1. i \in 1..(Len(deferred) + 1) /\ j \in 1..(Len(deferred) + 1)  BY <2>3
    <3>2. CASE j <= k
      <4>1. i \in 1..Len(deferred) /\ j \in 1..Len(deferred) /\ i \in 1..k /\ j \in 1..k
        BY <2>4, <3>1, <3>2
      <4> QED  BY <1>11, <2>3, <4>1
    <3>3. CASE j = k + 1
      <4>1. i \in 1..k  BY <2>4, <3>1, <3>3
      <4> QED  BY <2>3, <2>8, <3>3, <4>1
    <3>4. CASE j > k + 1
      <4>1. j \in (k + 2)..(Len(deferred) + 1) /\ j - 1 \in (k + 1)..Len(deferred)
            /\ j - 1 \in 1..Len(deferred)
        BY <2>4, <3>1, <3>4
      <4>2. deferred'[j] = deferred[j - 1]  BY <2>3, <4>1
      <4>3. CASE i <= k
        <5>1. i \in 1..k /\ i \in 1..Len(deferred) /\ i < j - 1  BY <2>4, <3>1, <3>4, <4>3
        <5> QED  BY <1>11, <2>3, <4>1, <4>2, <5>1
      <4>4. CASE i = k + 1  BY <2>3, <2>9, <4>1, <4>2, <4>4
      <4>5. CASE i > k + 1
        <5>1. i \in (k + 2)..(Len(deferred) + 1) /\ i - 1 \in 1..Len(deferred) /\ i - 1 < j - 1
          BY <2>4, <3>1, <4>5
        <5>2. deferred'[i] = deferred[i - 1]  BY <2>3, <5>1
        <5> QED  BY <1>11, <4>1, <4>2, <5>1, <5>2
      <4> QED  BY <2>4, <3>1, <4>3, <4>4, <4>5
    <3> QED  BY <2>4, <3>1, <3>2, <3>3, <3>4
  <2>12. \A u \in Range(collect) \cap Def : \A v \in Range(deferred') : Later(u, v)
    <3>1. \A u \in Range(collect) \cap Def : due[u] <= now  BY DEF ThreadInv, Punctual, Def
    <3> QED  BY <1>11, <2>1, <2>10, <3>1
  <2> HIDE DEF m
  <2>13. SortedQueues'
    <3>1. \A i, j \in 1..Len(collect') :
            i < j /\ collect'[i] \in Def /\ collect'[j] \in Def => Later(collect'[i], collect'[j])
      BY <1>1, <1>11
    <3>2. \A u \in Range(collect') \cap Def : \A v \in Range(deferred') : Later(u, v)
      BY <1>1, <2>12
    <3> QED  BY <2>11, <3>1, <3>2 DEF SortedQueues, Before, Later
  <2>14. BegunFirst'
    <3>1. ~RanEarly({"ended", "none"}) => \A v \in Begun \cap Def : due[v] <= now
      BY <1>8 DEF DueInv, BegunFirst
    <3>2. ~RanEarly({"ended", "none"}) =>
            \A v \in Begun \cap Def : \A u \in (Range(collect) \cup Range(deferred)) \cap Def :
              u # cur => Later(v, u)
      BY <1>4, <1>6 DEF DueInv, BegunFirst
    <3>3. ~RanEarly({"ended", "none"}) =>
            \A v \in Begun \cap Def : \A u \in (Range(collect) \cup Range(deferred')) \cap Def :
              u # cur => Later(v, u)
      BY <2>1, <2>10, <3>1, <3>2
    <3>4. ~RanEarly({"ended", "none"}) => \A v \in Begun \cap Def : due'[v] <= now
      BY <1>3, <1>6, <3>1
    <3>5. starts = 0 => Begun = {}  BY DEF DueInv, BegunFirst
    <3> QED  BY <1>1, <1>5, <1>8, <3>3, <3>4, <3>5 DEF BegunFirst, Before, Later
  <2> QED  BY <1>7, <2>13, <2>14 DEF DueInv
<1>14. deferred' = deferred \/ Delay[t] > 0  BY InsertMoves
<1> QED  BY <1>12, <1>13, <1>14

(***************************************************************************)
(* Every step keeps the order.                                             *)
(***************************************************************************)
LEMMA DueStep == ThreadInv /\ StopInv /\ DueInv /\ [Next]_vars => DueInv'
<1> SUFFICES ASSUME ThreadInv, StopInv, DueInv, [Next]_vars PROVE DueInv'  OBVIOUS
<1>1. now \in Nat /\ starts \in Nat  BY DEF ThreadInv, TypeOK, ControlTypes
<1>2. ASSUME UNCHANGED <<deferred, due, stamp, collect, cur, executed, starts, pc>>,
             now' = now \/ now' = now + 1
      PROVE  DueInv'
  BY <1>1, <1>2, DueUnmoved DEF RanEarly
<1>3. CASE Quiet
  <2>1. UNCHANGED <<deferred, due, stamp, collect, cur, executed, now>>
    BY <1>3 DEF Quiet, Start, StartReturns, Stop, Join, Announce, LoopTest, Timeout,
         Wake, Check, ExecuteReturns, Relock, queues, owner
  <2>2. starts = 0 => Begun = {}  BY DEF DueInv, BegunFirst
  <2>3. CASE Start
    <3>1. starts' = starts + 1 /\ pc = "none"
      BY <2>3 DEF Start, ThreadInv, WorkerExists
    <3>2. starts' \in Nat /\ starts <= starts' /\ (starts' > 1 \/ Begun = {}) /\ starts' # 0
      BY <1>1, <2>2, <3>1
    <3>3. RanEarly({"ended", "none"}) => RanEarly({"ended", "none"})' \/ Begun = {}
      BY <3>2 DEF RanEarly
    <3>4. RanEarly({"release", "ended", "none"}) =>
            RanEarly({"release", "ended", "none"})' \/ Begun = {}
      BY <3>2 DEF RanEarly
    <3> QED  BY <1>1, <2>1, <3>2, <3>3, <3>4, DueUnmoved
  <2>4. CASE StartReturns \/ Stop \/ Timeout
    <3>1. UNCHANGED starts /\ (pc' = pc \/ (pc = "waiting" /\ pc' = "woken"))
      BY <2>4 DEF StartReturns, Stop, Timeout, owner
    <3> QED  BY <1>1, <2>1, <3>1, DueUnmoved DEF RanEarly
  <2>5. CASE Join \/ Announce \/ LoopTest \/ Wake \/ Check \/ ExecuteReturns \/ Relock
    <3>1. /\ UNCHANGED starts /\ pc # "release"
          /\ pc \in {"ended", "none"} => pc' \in {"ended", "none"}
      BY <2>5 DEF Join, Announce, LoopTest, Wake, Check, ExecuteReturns, Relock, owner
    <3> QED  BY <1>1, <2>1, <3>1, DueUnmoved DEF RanEarly
  <2> QED  BY <1>3, <2>3, <2>4, <2>5 DEF Quiet
<1>4. CASE Tick  BY <1>2, <1>4 DEF Tick, queues, owner
<1>5. CASE UNCHANGED vars  BY <1>2, <1>5 DEF vars
<1>6. ASSUME NEW t \in Task, AddCount(t) PROVE DueInv'
  BY <1>2, <1>6 DEF AddCount, queues, owner
<1>7. ASSUME NEW t \in Task, AddInsert(t) PROVE DueInv'  BY <1>7, DueInsert
<1> QED
  BY <1>3, <1>4, <1>5, <1>6, <1>7, DueCollect, DueBegin, DueEnd, DueReleaseReturns
  DEF Next, Worker, Owner, Adders, Quiet

(***************************************************************************)
(* Deferred tasks begin by deadline, and equal deadlines in add order.     *)
(***************************************************************************)
THEOREM DeadlinesKeepOrder == Spec => []DeferredInOrder
<1>1. Spec => []DueInv
  BY DueInit, DueStep, Invariance, StopInvariance, PTL DEF Spec
<1>2. DueInv => DeferredInOrder  BY DEF DueInv
<1> QED  BY <1>1, <1>2, PTL

-----------------------------------------------------------------------------
(***************************************************************************)
(* The task_thread implements the queue that TaskQueue promises: every     *)
(* step of TaskThread is a step of the queue or none, for every set of     *)
(* tasks, delay, release mode and bound.                                   *)
(***************************************************************************)
Ready == Batch \o tasks
Later == Range(Waiting)

(***************************************************************************)
(* The queues have their types, and the thread knows what it has.          *)
(***************************************************************************)
LEMMA QueuesKnown ==
  ASSUME ThreadInv
  PROVE  /\ tasks \in Seq(Task) /\ deferred \in Seq(Task) /\ collect \in Seq(Task)
         /\ executed \in Seq(Task) /\ Batch \in Seq(Task) /\ Waiting \in Seq(Task)
         /\ Range(Batch) \subseteq Range(collect) /\ Range(Waiting) \subseteq Range(deferred)
         /\ Ready \in Seq(Task) /\ Range(Ready) = Range(Batch) \cup Range(tasks)
<1>1. /\ tasks \in Seq(Task) /\ deferred \in Seq(Task) /\ collect \in Seq(Task)
      /\ executed \in Seq(Task)
  BY DEF ThreadInv, TypeOK, QueueTypes
<1>2. Batch \in Seq(Task) /\ Range(Batch) \subseteq Range(collect)
  BY <1>1, TailRange DEF Batch
<1>3. cur # NoTask /\ collect = << >> => deferred # << >>  BY DEF ThreadInv, Placed
<1>4. Waiting \in Seq(Task) /\ Range(Waiting) \subseteq Range(deferred)
  BY <1>1, <1>3, TailRange DEF Waiting
<1>5. Ready \in Seq(Task) /\ Range(Ready) = Range(Batch) \cup Range(tasks)
  BY <1>1, <1>2, ConcatRange DEF Ready
<1> QED  BY <1>1, <1>2, <1>4, <1>5

(***************************************************************************)
(* Laws of queues that the steps of the thread amount to: what is appended *)
(* to the second of two queues is appended behind both.                    *)
(***************************************************************************)
LEMMA AppendBehind ==
  ASSUME NEW S, NEW s \in Seq(S), NEW u \in Seq(S), NEW t \in S
  PROVE  s \o Append(u, t) = Append(s \o u, t)
OBVIOUS

(* The head and the tail of two queues are those of the first. *)
LEMMA TailOfConcat ==
  ASSUME NEW S, NEW s \in Seq(S), NEW u \in Seq(S), s # << >>
  PROVE  /\ s \o u # << >> /\ Head(s \o u) = Head(s)
         /\ Tail(s \o u) = Tail(s) \o u
OBVIOUS

(* When the first of two queues is dropped the second is left. *)
LEMMA DropFront ==
  ASSUME NEW S, NEW s \in Seq(S), NEW u \in Seq(S), s # << >>
  PROVE  /\ Len(s) \in 1..Len(s \o u)
         /\ SubSeq(s \o u, Len(s) + 1, Len(s \o u)) = u
OBVIOUS

(* A queue that is empty adds nothing. *)
LEMMA EmptyFront ==
  ASSUME NEW S, NEW s \in Seq(S)
  PROVE  << >> \o s = s /\ s \o << >> = s
BY ConcatEmptySeq

(***************************************************************************)
(* A step that leaves the queues alone leaves those of TaskQueue alone.    *)
(***************************************************************************)
LEMMA NothingMoves ==
  ASSUME UNCHANGED <<tasks, deferred, collect, cur, executed>>
  PROVE  Ready' = Ready /\ Later' = Later
BY DEF Ready, Later, Batch, Waiting

(***************************************************************************)
(* An insertion hands a new task to the queue.                             *)
(***************************************************************************)
LEMMA InsertSubmits ==
  ASSUME ThreadInv, NEW t \in Task, AddInsert(t)
  PROVE  Promise!Submit(t)
<1>1. /\ UNCHANGED <<collect, cur, exitFlag, executed>> /\ ~held
      /\ t \notin Range(tasks) \cup Range(deferred) \cup Range(collect) \cup Begun
      /\ \/ deferred' = deferred /\ tasks' = Append(tasks, t)
         \/ tasks' = tasks /\ Range(deferred') = Range(deferred) \cup {t}
  BY InsertMoves
<1>2. cur = NoTask \/ collect # << >>
  BY <1>1 DEF ThreadInv, Placed, TypeOK, LockOwner
<1>3. Batch' = Batch /\ Waiting = deferred /\ Waiting' = deferred'
  BY <1>1, <1>2 DEF Batch, Waiting
<1>4. t \notin Promise!Known
  <2>1. t \notin Range(Ready) \cup Later \cup Range(executed)
    BY <1>1, QueuesKnown DEF Later, Begun
  <2> QED  BY <2>1 DEF Promise!Known, Ready, Later, Range
<1>5. \/ Ready' = Append(Ready, t) /\ Later' = Later
      \/ Later' = Later \cup {t} /\ Ready' = Ready
  <2>1. CASE deferred' = deferred /\ tasks' = Append(tasks, t)
    <3>1. Ready' = Batch \o Append(tasks, t)  BY <1>3, <2>1 DEF Ready
    <3>2. Batch \o Append(tasks, t) = Append(Batch \o tasks, t)
      <4> DEFINE b == Batch
                 q == tasks
      <4>1. b \in Seq(Task) /\ q \in Seq(Task)  BY QueuesKnown
      <4> HIDE DEF b, q
      <4>2. b \o Append(q, t) = Append(b \o q, t)  BY <4>1, AppendBehind
      <4> QED  BY <4>2 DEF b, q
    <3> QED  BY <1>3, <2>1, <3>1, <3>2 DEF Ready, Later
  <2>2. CASE tasks' = tasks /\ Range(deferred') = Range(deferred) \cup {t}
    BY <1>3, <2>2 DEF Ready, Later
  <2> QED  BY <1>1, <2>1, <2>2
<1> QED  BY <1>1, <1>4, <1>5 DEF Promise!Submit, Ready, Later

(***************************************************************************)
(* What the batch takes from the deferred tasks has become ready.          *)
(***************************************************************************)
LEMMA CollectMatures ==
  ASSUME ThreadInv, Collect
  PROVE  Promise!Mature \/ (Ready' = Ready /\ Later' = Later /\ UNCHANGED <<executed, exitFlag>>)
<1>1. /\ UNCHANGED <<cur, exitFlag, executed>> /\ tasks' = << >> /\ collect = << >> /\ cur = NoTask
  BY CollectMoves
<1>2. PICK k \in 0..Len(deferred) :
        /\ collect' = tasks \o SubSeq(deferred, 1, k)
        /\ deferred' = SubSeq(deferred, k + 1, Len(deferred))
  BY CollectMoves
<1>3. tasks \in Seq(Task) /\ deferred \in Seq(Task)  BY QueuesKnown
<1> DEFINE ripe == SubSeq(deferred, 1, k)
           rest == SubSeq(deferred, k + 1, Len(deferred))
<1>4. IsInjective(deferred)  BY DEF ThreadInv, Placed
<1>5. /\ ripe \in Seq(Task) /\ rest \in Seq(Task)
      /\ Range(ripe) \cup Range(rest) = Range(deferred)
      /\ Range(ripe) \cap Range(rest) = {} /\ IsInjective(ripe)
  BY <1>3, <1>4, SplitRange
<1>6. collect' = tasks \o ripe /\ deferred' = rest  BY <1>2
<1> HIDE DEF ripe, rest
<1>7. Ready = tasks /\ Later = Range(deferred)
  <2>1. << >> \o tasks = tasks  BY <1>3, EmptyFront
  <2> QED  BY <1>1, <2>1 DEF Ready, Later, Batch, Waiting
<1>8. Ready' = tasks \o ripe /\ Later' = Range(rest)
  <2>1. tasks \o ripe \in Seq(Task)  BY <1>3, <1>5, ConcatRange
  <2>2. (tasks \o ripe) \o << >> = tasks \o ripe  BY <2>1, EmptyFront
  <2> QED  BY <1>1, <1>6, <2>2 DEF Ready, Later, Batch, Waiting
<1>9. CASE ripe = << >>
  <2>1. tasks \o ripe = tasks  BY <1>3, <1>9, EmptyFront
  <2>2. Range(ripe) = {}  BY <1>9, EmptyQueue
  <2> QED  BY <1>1, <1>5, <1>7, <1>8, <2>1, <2>2
<1>10. CASE ripe # << >>
  <2>1. Range(ripe) \in (SUBSET Later) \ {{}}  BY <1>5, <1>7, <1>10, RangeOf
  <2>2. Later' = Later \ Range(ripe)  BY <1>5, <1>7, <1>8
  <2>3. Len(Ready') - Len(Ready) = Len(ripe)
    BY <1>3, <1>5, <1>7, <1>8, ConcatProperties, LenProperties
  <2>4. ripe \in [1..Len(ripe) -> Range(ripe)] /\ DOMAIN ripe = 1..Len(ripe)
    BY <1>5, RangeOf, LenProperties
  <2>5. /\ \A s \in Range(ripe) : \E i \in DOMAIN ripe : ripe[i] = s
        /\ \A i, j \in DOMAIN ripe : ripe[i] = ripe[j] => i = j
    BY <1>5 DEF Range, IsInjective
  <2> QED
    BY <1>1, <1>7, <1>8, <2>1, <2>2, <2>3, <2>4, <2>5 DEF Promise!Mature, Ready, Later
<1> QED  BY <1>9, <1>10

(***************************************************************************)
(* The task that begins is served, or expedited in the last pass.          *)
(***************************************************************************)
LEMMA BeginServes ==
  ASSUME ThreadInv, StopInv, BeginTask
  PROVE  Promise!Serve \/ Promise!Expedite
<1>1. /\ UNCHANGED <<tasks, deferred, collect, exitFlag>>
      /\ executed' = Append(executed, cur') /\ cur = NoTask /\ cur' \in Task
      /\ \/ collect # << >> /\ cur' = Head(collect)
         \/ collect = << >> /\ deferred # << >> /\ cur' = Head(deferred)
      /\ pc = "execute" \/ Mode # "ALL" => cur' \in Range(collect)
      /\ pc \in {"execute", "release"}
  BY BeginMoves
<1>2. /\ tasks \in Seq(Task) /\ deferred \in Seq(Task) /\ collect \in Seq(Task)
      /\ cur' # NoTask
  <2>1. tasks \in Seq(Task) /\ deferred \in Seq(Task) /\ collect \in Seq(Task)
    BY QueuesKnown
  <2>2. cur' # NoTask  BY <1>1, TaskAssumption
  <2> QED  BY <2>1, <2>2
<1>3. CASE collect # << >>
  <2>1. Batch = collect /\ Batch' = Tail(collect) /\ Waiting' = Waiting
    BY <1>1, <1>2, <1>3 DEF Batch, Waiting
  <2>2. /\ collect \o tasks # << >> /\ Head(collect \o tasks) = cur'
        /\ Tail(collect \o tasks) = Tail(collect) \o tasks
    BY <1>1, <1>2, <1>3, TailOfConcat
  <2> QED  BY <1>1, <2>1, <2>2 DEF Promise!Serve
<1>4. CASE collect = << >>
  <2>1. Batch = << >> /\ Batch' = << >> /\ Waiting = deferred /\ Waiting' = Tail(deferred)
    BY <1>1, <1>2, <1>4 DEF Batch, Waiting
  <2>2. Range(collect) = {}  BY <1>4, EmptyQueue
  <2>3. exitFlag  BY <1>1, <2>2 DEF StopInv, NothingLate
  <2>4. deferred # << >> /\ cur' = Head(deferred) /\ IsInjective(deferred)
    BY <1>1, <1>4 DEF ThreadInv, Placed
  <2>5. Range(Tail(deferred)) = Range(deferred) \ {cur'} /\ cur' \in Range(deferred)
    BY <1>2, <2>4, TailRange
  <2> QED  BY <1>1, <2>1, <2>3, <2>5 DEF Promise!Expedite
<1> QED  BY <1>3, <1>4

(***************************************************************************)
(* The task that ends had left both queues already.                        *)
(***************************************************************************)
LEMMA EndStutters ==
  ASSUME ThreadInv, EndTask
  PROVE  Ready' = Ready /\ Later' = Later /\ UNCHANGED <<executed, exitFlag>>
<1>1. /\ UNCHANGED <<tasks, executed, exitFlag>> /\ cur # NoTask /\ cur' = NoTask
      /\ \/ collect # << >> /\ collect' = Tail(collect) /\ deferred' = deferred
         \/ collect = << >> /\ collect' = collect /\ deferred' = Tail(deferred)
  BY EndMoves
<1>2. Batch' = Batch /\ Waiting' = Waiting  BY <1>1 DEF Batch, Waiting
<1> QED  BY <1>1, <1>2 DEF Ready, Later

(***************************************************************************)
(* A thread that ends drops its batch.                                     *)
(***************************************************************************)
LEMMA ReleaseDrops ==
  ASSUME ThreadInv, StopInv, ReleaseReturns
  PROVE  Promise!Drop \/ (Ready' = Ready /\ Later' = Later /\ UNCHANGED <<executed, exitFlag>>)
<1>1. /\ UNCHANGED <<tasks, deferred, cur, executed, exitFlag>>
      /\ cur = NoTask /\ pc = "release" /\ collect' = << >>
  BY DEF ReleaseReturns, queues, owner
<1>2. exitFlag  BY <1>1 DEF StopInv, NothingLate
<1>3. tasks \in Seq(Task) /\ collect \in Seq(Task)  BY QueuesKnown
<1>4. Batch = collect /\ Batch' = << >> /\ Later' = Later  BY <1>1 DEF Batch, Waiting, Later
<1>5. Ready = collect \o tasks /\ Ready' = tasks
  <2>1. << >> \o tasks = tasks  BY <1>3, EmptyFront
  <2> QED  BY <1>1, <1>4, <2>1 DEF Ready
<1>6. CASE collect = << >>
  <2>1. collect \o tasks = tasks  BY <1>3, <1>6, EmptyFront
  <2> QED  BY <1>1, <1>4, <1>5, <2>1
<1>7. CASE collect # << >>
  <2>1. /\ Len(collect) \in 1..Len(Ready)
        /\ SubSeq(Ready, Len(collect) + 1, Len(Ready)) = Ready'
    BY <1>3, <1>5, <1>7, DropFront
  <2> QED  BY <1>1, <1>2, <1>4, <2>1 DEF Promise!Drop, Ready, Later
<1> QED  BY <1>6, <1>7

(***************************************************************************)
(* Every step of the thread is a step of the queue or none.                *)
(***************************************************************************)
LEMMA StepImplements ==
  ThreadInv /\ StopInv /\ [Next]_vars => [Promise!QNext]_(Promise!qvars)
<1> SUFFICES ASSUME ThreadInv, StopInv, [Next]_vars PROVE [Promise!QNext]_(Promise!qvars)
  OBVIOUS
<1> DEFINE Stutters == Ready' = Ready /\ Later' = Later /\ UNCHANGED <<executed, exitFlag>>
<1>0. ASSUME Stutters PROVE UNCHANGED Promise!qvars  BY <1>0 DEF Promise!qvars, Ready, Later
<1>1. CASE Stop
  <2>1. UNCHANGED <<tasks, deferred, collect, cur, executed>> /\ exitFlag' = TRUE
    BY <1>1 DEF Stop, queues
  <2>2. Ready' = Ready /\ Later' = Later  BY <2>1, NothingMoves
  <2> QED  BY <2>1, <2>2 DEF Promise!QNext, Promise!Close, Ready, Later
<1>2. CASE Quiet /\ ~Stop
  <2>1. UNCHANGED <<tasks, deferred, collect, cur, executed, exitFlag>>
    BY <1>2 DEF Quiet, Start, StartReturns, Join, Announce, LoopTest, Timeout,
         Wake, Check, ExecuteReturns, Relock, queues, owner
  <2> QED  BY <2>1, <1>0, NothingMoves
<1>3. CASE Tick \/ UNCHANGED vars
  <2>1. UNCHANGED <<tasks, deferred, collect, cur, executed, exitFlag>>
    BY <1>3 DEF Tick, vars, queues
  <2> QED  BY <2>1, <1>0, NothingMoves
<1>4. ASSUME NEW t \in Task, AddCount(t) PROVE [Promise!QNext]_(Promise!qvars)
  <2>1. UNCHANGED <<tasks, deferred, collect, cur, executed, exitFlag>>
    BY <1>4 DEF AddCount, queues
  <2> QED  BY <2>1, <1>0, NothingMoves
<1>5. ASSUME NEW t \in Task, AddInsert(t) PROVE [Promise!QNext]_(Promise!qvars)
  BY <1>5, InsertSubmits DEF Promise!QNext
<1>6. CASE Collect  BY <1>0, <1>6, CollectMatures DEF Promise!QNext
<1>7. CASE BeginTask  BY <1>7, BeginServes DEF Promise!QNext
<1>8. CASE EndTask  BY <1>0, <1>8, EndStutters
<1>9. CASE ReleaseReturns  BY <1>0, <1>9, ReleaseDrops DEF Promise!QNext
<1> QED
  BY <1>1, <1>2, <1>3, <1>4, <1>5, <1>6, <1>7, <1>8, <1>9 DEF Next, Worker, Owner, Adders, Quiet

(***************************************************************************)
(* The thread is an implementation of the queue that it promises: nothing  *)
(* that batches, locks, clocks and release modes do shows.                 *)
(***************************************************************************)
THEOREM IsAQueue == Spec => ImplementsQueue
<1>1. Init => Promise!QInit
  <2> SUFFICES ASSUME Init PROVE Promise!QInit  OBVIOUS
  <2>1. Batch = << >> /\ Waiting = << >> /\ tasks = << >> /\ executed = << >> /\ exitFlag = FALSE
    BY DEF Init, Batch, Waiting
  <2>2. Range(<< >>) = {}  BY EmptyQueue
  <2> QED  BY <2>1, <2>2 DEF Promise!QInit
<1> QED
  BY <1>1, StepImplements, Invariance, StopInvariance, PTL
  DEF Spec, ImplementsQueue, Promise!QSpec
=============================================================================
