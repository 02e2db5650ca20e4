-------------------------- MODULE ThreadGroupProofs --------------------------
(***************************************************************************)
(* Theorems about ThreadGroup, for every number of threads, every finite   *)
(* set of tasks, every strategy and every way in which tasks add others.   *)
(***************************************************************************)
EXTENDS ThreadGroup, QueueLemmas, FiniteSetTheorems, TLAPS

(***************************************************************************)
(* The variables TypeOK says nothing of.                                   *)
(***************************************************************************)
MoreTypes ==
  /\ undone \in [Thread -> Int]
  /\ pos \in [Task -> 0..N] /\ least \in [Task -> Int]
  /\ loadBefore \in [Task -> [Thread -> Int]]
  /\ addedBefore \in [Task -> SUBSET Task]

(***************************************************************************)
(* A task whose add() has returned and that is not finished waits in the   *)
(* queue of its thread or is what the thread runs, and in one place only.  *)
(***************************************************************************)
Lives(t, k) == t \in Range(queue[k]) \/ running[k] = t

Placed ==
  /\ \A k \in Thread : IsInjective(queue[k]) /\ running[k] \notin Range(queue[k])
  /\ \A t \in Task, k \in Thread :
       Lives(t, k) <=> at[t] = "added" /\ ThreadOf(index[t]) = k

(***************************************************************************)
(* In a queue nothing stands before a task whose add() had returned when   *)
(* its own began; and add(t, index) goes to the thread of that index.      *)
(***************************************************************************)
PastChoice == {"chosen", "counted", "added", "finished"}

InOrder ==
  /\ \A t \in Task : \A s \in addedBefore[t] : at[s] \in {"added", "finished"}
  /\ \A k \in Thread : \A i, j \in 1..Len(queue[k]) :
       queue[k][i] \in addedBefore[queue[k][j]] => i < j
  /\ strategy = "index" => \A t \in Task : at[t] # "idle" => at[t] \in PastChoice /\ index[t] = Index[t]

(***************************************************************************)
(* With one caller one call is under way, so that counters only fall while *)
(* it scans them; the place it has found is the best of those it has seen. *)
(***************************************************************************)
Calling == {"read", "scan", "chosen", "counted"}

BestSoFar(t) ==
  /\ 1 <= pos[t] /\ index[t] < pos[t]
  /\ undone[index[t]] <= least[t]
  /\ \A j \in Thread : undone[j] <= loadBefore[t][j]
  /\ \A j \in Thread : j < pos[t] => IF j < index[t] THEN least[t] < loadBefore[t][j]
                                                     ELSE least[t] <= loadBefore[t][j]

OneAtATime ==
  OneCaller => /\ \A s, t \in Task : at[s] \in Calling /\ at[t] \in Calling => s = t
               /\ \A t \in Task : at[t] = "scan" => BestSoFar(t)

GroupInv == TypeOK /\ MoreTypes /\ Placed /\ InOrder /\ OneAtATime

(***************************************************************************)
(* An index, of whatever size, leads to a thread.                          *)
(***************************************************************************)
LEMMA ThreadOfIndex ==
  /\ \A i \in 0..Modulus - 1 : ThreadOf(i) \in Thread
  /\ \A i \in 0..Modulus - 1 : NextIndex(i) \in 0..Modulus - 1
  /\ 0 \in Thread /\ Thread \subseteq 0..Modulus - 1
BY GroupAssumption DEF ThreadOf, Thread, NextIndex

(***************************************************************************)
(* The tasks of a thread that are counted are a finite set, so one more    *)
(* counts one more and one less counts one less.                           *)
(***************************************************************************)
Load(k) == {t \in Task : at[t] \in {"counted", "added"} /\ ThreadOf(index[t]) = k}

LEMMA LoadFinite ==
  ASSUME NEW S, S \subseteq Task
  PROVE  /\ IsFiniteSet(S) /\ Cardinality(S) \in Nat
         /\ \A t \in Task : t \notin S => Cardinality(S \cup {t}) = Cardinality(S) + 1
         /\ \A t \in S : Cardinality(S \ {t}) = Cardinality(S) - 1
<1>1. IsFiniteSet(S)  BY FS_Subset, GroupAssumption
<1> QED  BY <1>1, FS_CardinalityType, FS_AddElement, FS_RemoveElement

(***************************************************************************)
(* A new group has no task.                                                *)
(***************************************************************************)
LEMMA InitInv == Init => GroupInv
<1> SUFFICES ASSUME Init PROVE GroupInv  OBVIOUS
<1> USE GroupAssumption DEF Init
<1>1. \A t \in Task : at[t] = "idle"  OBVIOUS
<1>2. TypeOK
  <2>1. \A k \in Thread : Load(k) = {}  BY <1>1 DEF Load
  <2>2. \A k \in Thread : undone[k] = Cardinality(Load(k))  BY <2>1, FS_EmptySet
  <2>3. << >> \in Seq(Task) /\ 0 \in 0..Modulus - 1 /\ 0 \in 0..N  OBVIOUS
  <2> QED  BY <2>2, <2>3 DEF TypeOK, Load
<1>3. MoreTypes  BY DEF MoreTypes
<1>4. Placed  BY <1>1, EmptyQueue DEF Placed, Lives
<1>5. InOrder  BY <1>1 DEF InOrder, PastChoice
<1>6. OneAtATime  BY <1>1 DEF OneAtATime, Calling
<1> QED  BY <1>2, <1>3, <1>4, <1>5, <1>6 DEF GroupInv

(***************************************************************************)
(* A call of add() that begins, whichever the strategy.                    *)
(***************************************************************************)
Beginning(t) == ReadIndex(t) \/ Random(t) \/ ByIndex(t) \/ ScanBegins(t)

LEMMA BeginStep ==
  ASSUME GroupInv, NEW t \in Task, Beginning(t)
  PROVE  GroupInv'
<1> USE GroupAssumption DEF GroupInv
<1>1. /\ at[t] = "idle" /\ UNCHANGED <<strategy, adder, started, queue, running, undone, roundRobin>>
      /\ \A s \in Task : adder[s] = adder[t] => at[s] \in {"idle", "added", "finished"}
      /\ addedBefore' = [addedBefore EXCEPT ![t] = {s \in Task : at[s] \in {"added", "finished"}}]
  BY DEF Beginning, Begins, ReadIndex, Random, ByIndex, ScanBegins, threads
<1>2. \E a \in {"read", "chosen", "scan"} : at' = [at EXCEPT ![t] = a]
  BY DEF Beginning, ReadIndex, Random, ByIndex, ScanBegins
<1>3. \E i \in 0..Modulus - 1 : index' = [index EXCEPT ![t] = i]
  BY DEF Beginning, ReadIndex, Random, ByIndex, ScanBegins, TypeOK
<1>4. TypeOK'
  <2>1. \A k \in Thread : Load(k)' = Load(k)  BY <1>1, <1>2, <1>3 DEF Load, TypeOK
  <2>2. \A k \in Thread : undone'[k] = Cardinality(Load(k)')  BY <1>1, <2>1 DEF TypeOK, Load
  <2>3. at' \in [Task -> {"idle", "read", "scan", "chosen", "counted", "added", "finished"}]
    BY <1>2 DEF TypeOK
  <2>4. index' \in [Task -> 0..Modulus - 1]  BY <1>3 DEF TypeOK
  <2> QED  BY <1>1, <2>2, <2>3, <2>4 DEF TypeOK, Load
<1>5. MoreTypes'
  <2>1. UNCHANGED <<pos, least, loadBefore>> \/ ScanBegins(t)
    BY DEF Beginning, ReadIndex, Random, ByIndex, ScanBegins
  <2>2. pos' \in [Task -> 0..N] /\ least' \in [Task -> Int] /\ loadBefore' \in [Task -> [Thread -> Int]]
    BY <2>1, ThreadOfIndex DEF ScanBegins, MoreTypes
  <2> QED  BY <1>1, <2>2 DEF MoreTypes
<1>6. Placed'
  <2>1. \A s \in Task, k \in Thread : Lives(s, k)' <=> Lives(s, k)  BY <1>1 DEF Lives
  <2> QED  BY <1>1, <1>2, <1>3, <2>1 DEF Placed, TypeOK
<1>7. InOrder'
  <2>1. \A s \in Task : at'[s] = at[s] \/ s = t  BY <1>2 DEF TypeOK
  <2>2. \A r \in Task : \A s \in addedBefore'[r] : at'[s] \in {"added", "finished"}
    BY <1>1, <2>1 DEF InOrder, MoreTypes
  <2>3. ASSUME NEW k \in Thread, NEW i \in 1..Len(queue[k]), NEW j \in 1..Len(queue[k]),
               queue[k][i] \in addedBefore'[queue[k][j]]
        PROVE  i < j
    <3>1. queue[k] \in Seq(Task)  BY DEF TypeOK
    <3>2. queue[k][j] \in Range(queue[k]) /\ queue[k][j] \in Task  BY <3>1, ElementInRange
    <3>3. queue[k][j] # t
      <4>1. ~Lives(t, k)  BY <1>1 DEF Placed
      <4> QED  BY <3>2, <4>1 DEF Lives
    <3> QED  BY <1>1, <2>3, <3>2, <3>3 DEF InOrder, MoreTypes
  <2>4. strategy' = "index" => \A s \in Task : at'[s] # "idle" => at'[s] \in PastChoice /\ index'[s] = Index[s]
    <3>1. strategy = "index" => ByIndex(t)
      BY DEF Beginning, ReadIndex, Random, ScanBegins
    <3> QED  BY <1>1, <3>1 DEF InOrder, PastChoice, ByIndex, TypeOK
  <2> QED  BY <1>1, <2>2, <2>3, <2>4 DEF InOrder
<1>8. OneAtATime'
  <2> SUFFICES ASSUME OneCaller PROVE (OneAtATime')  BY <1>1 DEF OneAtATime, OneCaller
  <2>1. \A s \in Task : at[s] \in {"idle", "added", "finished"}  BY <1>1 DEF OneCaller
  <2>2. \A s \in Task : s # t => at'[s] \notin Calling  BY <1>2, <2>1 DEF Calling, TypeOK
  <2>3. at'[t] = "scan" => BestSoFar(t)'
    <3> SUFFICES ASSUME at'[t] = "scan" PROVE BestSoFar(t)'  OBVIOUS
    <3>1. ScanBegins(t)  BY DEF Beginning, ReadIndex, Random, ByIndex, TypeOK
    <3>2. index'[t] = 0 /\ least'[t] = undone[0] /\ pos'[t] = 1 /\ loadBefore'[t] = undone
      BY <3>1 DEF ScanBegins, TypeOK, MoreTypes
    <3>3. \A j \in Thread : j < 1 => j = 0  BY DEF Thread
    <3>4. 0 \in Thread /\ \A j \in Thread : undone[j] \in Int  BY ThreadOfIndex DEF MoreTypes
    <3>5. UNCHANGED undone  BY <1>1
    <3>6. \A j \in Thread : undone[j] <= undone[j]  BY <3>4
    <3>7. \A j \in Thread : j < 1 => ~(j < 0) /\ undone[0] <= undone[j]  BY <3>3, <3>6
    <3> QED  BY <3>2, <3>4, <3>5, <3>6, <3>7 DEF BestSoFar
  <2> QED  BY <2>2, <2>3 DEF OneAtATime, Calling
<1> QED  BY <1>4, <1>5, <1>6, <1>7, <1>8

(***************************************************************************)
(* Steps of a call that count nothing and insert nothing.                  *)
(***************************************************************************)
LEMMA ChoiceStep ==
  ASSUME GroupInv, NEW t \in Task, WriteIndex(t) \/ ScanStep(t)
  PROVE  GroupInv'
<1> USE GroupAssumption DEF GroupInv
<1>1. UNCHANGED <<strategy, adder, started, queue, running, undone, loadBefore, addedBefore>>
  BY DEF WriteIndex, ScanStep, threads, calls
<1>2. /\ at[t] \in {"read", "scan"} /\ at'[t] \in {"chosen", "scan"}
      /\ at' = [at EXCEPT ![t] = at'[t]]
      /\ \E i \in 0..Modulus - 1 : index' = [index EXCEPT ![t] = i]
  <2>1. CASE WriteIndex(t)  BY <2>1 DEF WriteIndex, calls, TypeOK
  <2>2. CASE ScanStep(t)
    <3>1. pos[t] \in Thread  BY <2>2 DEF ScanStep, MoreTypes, Thread
    <3> QED  BY <2>2, <3>1, ThreadOfIndex DEF ScanStep, TypeOK
  <2> QED  BY <2>1, <2>2
<1>4. TypeOK'
  <2>1. \A k \in Thread : Load(k)' = Load(k)  BY <1>2 DEF Load, TypeOK
  <2>2. \A k \in Thread : undone'[k] = Cardinality(Load(k)')  BY <1>1, <2>1 DEF TypeOK, Load
  <2>3. roundRobin' \in 0..Modulus - 1
    BY ThreadOfIndex DEF WriteIndex, ScanStep, TypeOK
  <2>4. at' \in [Task -> {"idle", "read", "scan", "chosen", "counted", "added", "finished"}]
    BY <1>2 DEF TypeOK
  <2>5. index' \in [Task -> 0..Modulus - 1]  BY <1>2 DEF TypeOK
  <2> QED  BY <1>1, <2>2, <2>3, <2>4, <2>5 DEF TypeOK, Load
<1>5. MoreTypes'
  <2>1. CASE WriteIndex(t)  BY <2>1, <1>1 DEF WriteIndex, calls, MoreTypes
  <2>2. CASE ScanStep(t)
    <3>1. pos[t] \in Thread  BY <2>2 DEF ScanStep, MoreTypes, Thread
    <3>2. undone[pos[t]] \in Int /\ pos[t] + 1 \in 0..N  BY <3>1 DEF MoreTypes, Thread
    <3>3. LowerLeast(t, undone[pos[t]]) \in Int  BY <3>2 DEF LowerLeast, MoreTypes
    <3>4. pos' \in [Task -> 0..N] /\ least' \in [Task -> Int]
      BY <2>2, <3>2, <3>3 DEF ScanStep, MoreTypes
    <3> QED  BY <1>1, <3>4 DEF MoreTypes
  <2> QED  BY <2>1, <2>2
<1>6. Placed'
  <2>1. \A s \in Task, k \in Thread : Lives(s, k)' <=> Lives(s, k)  BY <1>1 DEF Lives
  <2> QED  BY <1>1, <1>2, <2>1 DEF Placed, TypeOK
<1>7. InOrder'
  <2>1. strategy # "index"  BY <1>2 DEF InOrder, PastChoice
  <2> QED  BY <1>1, <1>2, <2>1 DEF InOrder, TypeOK, MoreTypes
<1>8. OneAtATime'
  <2> SUFFICES ASSUME OneCaller PROVE (OneAtATime')  BY <1>1 DEF OneAtATime, OneCaller
  <2>1. \A s \in Task : s # t => at'[s] = at[s] /\ at[s] \notin Calling
    BY <1>2 DEF OneAtATime, Calling, TypeOK
  <2>2. at'[t] = "scan" => BestSoFar(t)'
    <3> SUFFICES ASSUME at'[t] = "scan" PROVE BestSoFar(t)'  OBVIOUS
    <3>1. ScanStep(t) /\ at[t] = "scan" /\ BestSoFar(t)
      BY DEF WriteIndex, ScanStep, TypeOK, OneAtATime
    <3> DEFINE p == pos[t]
    <3>2. p \in Thread /\ p + 1 \in 0..N /\ undone[p] \in Int /\ least[t] \in Int /\ index[t] \in Nat
      <4>1. p \in 0..N /\ p < N  BY <3>1 DEF ScanStep, MoreTypes
      <4>2. p \in Thread /\ p + 1 \in 0..N  BY <4>1 DEF Thread
      <4>3. undone[p] \in Int /\ least[t] \in Int  BY <4>2 DEF MoreTypes
      <4>4. index[t] \in Nat  BY DEF TypeOK
      <4> QED  BY <4>2, <4>3, <4>4
    <3>3. /\ index'[t] = IF undone[p] < least[t] THEN p ELSE index[t]
          /\ least'[t] = IF undone[p] < least[t] THEN undone[p] ELSE least[t]
          /\ pos'[t] = p + 1
      <4>1. /\ index' = [index EXCEPT ![t] = IF undone[p] < least[t] THEN p ELSE @]
            /\ least' = [least EXCEPT ![t] = IF undone[p] < least[t] THEN undone[p] ELSE @]
            /\ pos' = [pos EXCEPT ![t] = @ + 1]
        BY <3>1 DEF ScanStep, LowerLeast
      <4>2. t \in DOMAIN index /\ t \in DOMAIN least /\ t \in DOMAIN pos  BY DEF TypeOK, MoreTypes
      <4> QED  BY <4>1, <4>2
    <3>4. \A j \in Thread : undone[j] \in Int /\ loadBefore[t][j] \in Int  BY DEF MoreTypes
    <3>5. \A j \in Thread : j < p + 1 => j < p \/ j = p  BY <3>2 DEF Thread
    <3>6. index[t] \in Thread  BY <3>1, <3>2 DEF BestSoFar, Thread
    <3>7. \A j \in Thread : j \in Int  BY DEF Thread
    <3>8. CASE undone[p] < least[t]
      <4>1. index'[t] = p /\ least'[t] = undone[p] /\ pos'[t] = p + 1  BY <3>3, <3>8
      <4>2. \A j \in Thread : undone[j] <= loadBefore[t][j]  BY <3>1 DEF BestSoFar
      <4>3. ASSUME NEW j \in Thread, j < p + 1
            PROVE  IF j < p THEN undone[p] < loadBefore[t][j] ELSE undone[p] <= loadBefore[t][j]
        <5>1. CASE j = p  BY <5>1, <4>2, <3>2, <3>7
        <5>2. CASE j < p
          <6>1. least[t] <= loadBefore[t][j]  BY <5>2, <3>1, <3>2, <3>4 DEF BestSoFar
          <6> QED  BY <5>2, <6>1, <3>8, <3>2, <3>4
        <5> QED  BY <5>1, <5>2, <4>3, <3>5
      <4>4. 1 <= p + 1 /\ p < p + 1 /\ undone[p] <= undone[p]  BY <3>2 DEF Thread
      <4> QED  BY <1>1, <4>1, <4>2, <4>3, <4>4 DEF BestSoFar
    <3>9. CASE ~(undone[p] < least[t])
      <4>1. index'[t] = index[t] /\ least'[t] = least[t] /\ pos'[t] = p + 1  BY <3>3, <3>9
      <4>2. \A j \in Thread : undone[j] <= loadBefore[t][j]  BY <3>1 DEF BestSoFar
      <4>3. ASSUME NEW j \in Thread, j < p + 1
            PROVE  IF j < index[t] THEN least[t] < loadBefore[t][j] ELSE least[t] <= loadBefore[t][j]
        <5>1. CASE j = p
          <6>1. least[t] <= loadBefore[t][p]  BY <3>9, <4>2, <3>2, <3>4
          <6>2. ~(j < index[t])  BY <5>1, <3>1, <3>2, <3>7 DEF BestSoFar
          <6> QED  BY <5>1, <6>1, <6>2
        <5>2. CASE j < p  BY <5>2, <3>1 DEF BestSoFar
        <5> QED  BY <5>1, <5>2, <4>3, <3>5
      <4>4. 1 <= p + 1 /\ index[t] < p + 1 /\ undone[index[t]] <= least[t]
        BY <3>1, <3>2, <3>7 DEF BestSoFar, Thread
      <4> QED  BY <1>1, <4>1, <4>2, <4>3, <4>4 DEF BestSoFar
    <3> QED  BY <3>8, <3>9
  <2> QED  BY <2>1, <2>2 DEF OneAtATime, Calling
<1> QED  BY <1>4, <1>5, <1>6, <1>7, <1>8

(***************************************************************************)
(* The counter is raised; the task is nowhere yet.                         *)
(***************************************************************************)
LEMMA CountStep ==
  ASSUME GroupInv, NEW t \in Task, AddCount(t)
  PROVE  GroupInv'
<1> USE GroupAssumption DEF GroupInv
<1> DEFINE home == ThreadOf(index[t])
<1>1. /\ at[t] \in {"chosen", "scan"} /\ at' = [at EXCEPT ![t] = "counted"]
      /\ undone' = [undone EXCEPT ![home] = @ + 1]
      /\ UNCHANGED <<strategy, adder, started, queue, running, roundRobin, index, pos, least,
                     loadBefore, addedBefore>>
  BY DEF AddCount, Chosen, threads, calls
<1>2. home \in Thread  BY ThreadOfIndex DEF TypeOK
<1>3. \A s \in Task : s # t => at'[s] = at[s]  BY <1>1 DEF TypeOK
<1>4. at'[t] = "counted"  BY <1>1 DEF TypeOK
<1>5. TypeOK'
  <2>1. ASSUME NEW k \in Thread PROVE undone'[k] = Cardinality(Load(k)')
    <3>1. undone[k] = Cardinality(Load(k))  BY DEF TypeOK, Load
    <3>2. CASE k = home
      <4>1. Load(k)' = Load(k) \cup {t} /\ t \notin Load(k)  BY <1>1, <1>3, <1>4, <3>2 DEF Load
      <4>2. Cardinality(Load(k) \cup {t}) = Cardinality(Load(k)) + 1
        BY <4>1, LoadFinite DEF Load
      <4> QED  BY <1>1, <3>1, <3>2, <4>1, <4>2 DEF MoreTypes
    <3>3. CASE k # home
      <4>1. Load(k)' = Load(k)  BY <1>1, <1>3, <1>4, <3>3 DEF Load
      <4> QED  BY <1>1, <3>1, <3>3, <4>1 DEF MoreTypes
    <3> QED  BY <3>2, <3>3
  <2>2. at' \in [Task -> {"idle", "read", "scan", "chosen", "counted", "added", "finished"}]
    BY <1>1 DEF TypeOK
  <2> QED  BY <1>1, <2>1, <2>2 DEF TypeOK, Load
<1>6. MoreTypes'  BY <1>1, <1>2 DEF MoreTypes
<1>7. Placed'
  <2>1. \A s \in Task, k \in Thread : Lives(s, k)' <=> Lives(s, k)  BY <1>1 DEF Lives
  <2> QED  BY <1>1, <1>3, <1>4, <2>1 DEF Placed
<1>8. InOrder'
  <2>1. \A s \in Task : at'[s] \in {"added", "finished"} <=> at[s] \in {"added", "finished"}
    BY <1>1, <1>3, <1>4
  <2>2. strategy = "index" => \A s \in Task : at'[s] # "idle" => at'[s] \in PastChoice /\ index[s] = Index[s]
    BY <1>1, <1>3, <1>4 DEF InOrder, PastChoice
  <2> QED  BY <1>1, <2>1, <2>2 DEF InOrder, MoreTypes
<1>9. OneAtATime'
  <2> SUFFICES ASSUME OneCaller PROVE (OneAtATime')  BY <1>1 DEF OneAtATime, OneCaller
  <2>1. \A s \in Task : s # t => at'[s] = at[s] /\ at[s] \notin Calling
    BY <1>1, <1>3 DEF OneAtATime, Calling
  <2> QED  BY <2>1, <1>4 DEF OneAtATime, Calling
<1> QED  BY <1>5, <1>6, <1>7, <1>8, <1>9

(***************************************************************************)
(* The task goes to the back of the queue, behind all that was added.      *)
(***************************************************************************)
LEMMA InsertStep ==
  ASSUME GroupInv, NEW t \in Task, AddInsert(t)
  PROVE  GroupInv'
<1> USE GroupAssumption DEF GroupInv
<1> DEFINE home == ThreadOf(index[t])
           q == queue[home]
<1>1. /\ at[t] = "counted" /\ at' = [at EXCEPT ![t] = "added"]
      /\ queue' = [queue EXCEPT ![home] = Append(q, t)]
      /\ UNCHANGED <<strategy, adder, started, undone, running, roundRobin, index, pos, least,
                     loadBefore, addedBefore>>
  BY DEF AddInsert, calls, PushBack
<1>2. home \in Thread /\ q \in Seq(Task)  BY ThreadOfIndex DEF TypeOK
<1>3. \A s \in Task : s # t => at'[s] = at[s]  BY <1>1 DEF TypeOK
<1>4. at'[t] = "added"  BY <1>1 DEF TypeOK
<1>5. /\ queue'[home] = Append(q, t)
      /\ \A k \in Thread : k # home => queue'[k] = queue[k]
  BY <1>1, <1>2 DEF TypeOK
<1>6. ~Lives(t, home)  BY <1>1, <1>2 DEF Placed
<1>7. /\ Append(q, t) \in Seq(Task) /\ Range(Append(q, t)) = Range(q) \cup {t}
      /\ IsInjective(Append(q, t))
  BY <1>2, <1>6, AppendRange DEF Placed, Lives
<1>8. TypeOK'
  <2>1. \A k \in Thread : Load(k)' = Load(k)  BY <1>1, <1>3, <1>4 DEF Load
  <2>2. \A k \in Thread : undone'[k] = Cardinality(Load(k)')  BY <1>1, <2>1 DEF TypeOK, Load
  <2>3. queue' \in [Thread -> Seq(Task)]  BY <1>1, <1>7 DEF TypeOK
  <2>4. at' \in [Task -> {"idle", "read", "scan", "chosen", "counted", "added", "finished"}]
    BY <1>1 DEF TypeOK
  <2> QED  BY <1>1, <2>2, <2>3, <2>4 DEF TypeOK, Load
<1>9. MoreTypes'  BY <1>1 DEF MoreTypes
<1>10. Placed'
  <2>1. running'[home] # t  BY <1>1, <1>6 DEF Lives
  <2>2. \A k \in Thread : IsInjective(queue'[k]) /\ running'[k] \notin Range(queue'[k])
    BY <1>1, <1>2, <1>5, <1>7, <2>1 DEF Placed
  <2>3. \A s \in Task, k \in Thread : Lives(s, k)' <=> Lives(s, k) \/ (s = t /\ k = home)
    BY <1>1, <1>2, <1>5, <1>7 DEF Lives
  <2> QED  BY <1>1, <1>3, <1>4, <2>2, <2>3 DEF Placed
<1>11. InOrder'
  <2>1. \A r \in Task : \A s \in addedBefore'[r] : at'[s] \in {"added", "finished"}
    BY <1>1, <1>3, <1>4 DEF InOrder, MoreTypes
  <2>2. ASSUME NEW k \in Thread, NEW i \in 1..Len(queue'[k]), NEW j \in 1..Len(queue'[k]),
               queue'[k][i] \in addedBefore[queue'[k][j]]
        PROVE  i < j
    <3>1. CASE k # home  BY <2>2, <3>1, <1>5 DEF InOrder
    <3>2. CASE k = home
      <4>1. /\ Len(queue'[k]) = Len(q) + 1 /\ Len(q) \in Nat /\ queue'[k][Len(q) + 1] = t
            /\ \A m \in 1..Len(q) : queue'[k][m] = q[m]
        BY <3>2, <1>2, <1>5, AppendProperties
      <4>2. CASE i = Len(q) + 1
        <5>1. queue'[k][j] \in Task
          <6>1. queue'[k] \in Seq(Task)  BY <3>2, <1>5, <1>7
          <6> QED  BY <6>1, <2>2, ElementOfSeq
        <5>2. t \in addedBefore[queue'[k][j]]  BY <2>2, <4>1, <4>2
        <5>3. at[t] \in {"added", "finished"}  BY <5>1, <5>2 DEF InOrder
        <5> QED  BY <5>3, <1>1
      <4>3. CASE i # Len(q) + 1 /\ j = Len(q) + 1  BY <4>1, <4>3
      <4>4. CASE i # Len(q) + 1 /\ j # Len(q) + 1
        <5>1. i \in 1..Len(q) /\ j \in 1..Len(q)  BY <4>1, <4>4
        <5> QED  BY <2>2, <3>2, <4>1, <5>1, <1>2 DEF InOrder
      <4> QED  BY <4>2, <4>3, <4>4
    <3> QED  BY <3>1, <3>2
  <2>3. strategy = "index" => \A s \in Task : at'[s] # "idle" => at'[s] \in PastChoice /\ index[s] = Index[s]
    BY <1>1, <1>3, <1>4 DEF InOrder, PastChoice
  <2> QED  BY <1>1, <2>1, <2>2, <2>3 DEF InOrder
<1>12. OneAtATime'
  <2> SUFFICES ASSUME OneCaller PROVE (OneAtATime')  BY <1>1 DEF OneAtATime, OneCaller
  <2>1. \A s \in Task : s # t => at'[s] = at[s] /\ at[s] \notin Calling
    BY <1>1, <1>3 DEF OneAtATime, Calling
  <2> QED  BY <2>1, <1>4 DEF OneAtATime, Calling
<1> QED  BY <1>8, <1>9, <1>10, <1>11, <1>12

(***************************************************************************)
(* A thread takes the front of its queue.                                  *)
(***************************************************************************)
LEMMA TakeStep ==
  ASSUME GroupInv, NEW k \in Thread, BeginTask(k)
  PROVE  GroupInv'
<1> USE GroupAssumption DEF GroupInv
<1> DEFINE q == queue[k]
<1>1. /\ running[k] = NoTask /\ q # << >>
      /\ running' = [running EXCEPT ![k] = Head(q)] /\ queue' = [queue EXCEPT ![k] = Tail(q)]
      /\ UNCHANGED <<strategy, adder, started, undone, roundRobin, at, index, pos, least,
                     loadBefore, addedBefore>>
  BY DEF BeginTask, calls, PopFront
<1>2. q \in Seq(Task) /\ IsInjective(q)  BY DEF TypeOK, Placed
<1>3. /\ Head(q) \in Range(q) /\ Tail(q) \in Seq(Task) /\ Head(q) \in Task
      /\ Range(Tail(q)) \cup {Head(q)} = Range(q)
      /\ IsInjective(Tail(q)) /\ Head(q) \notin Range(Tail(q))
  BY <1>1, <1>2, TailRange, RangeOf
<1>4. /\ queue'[k] = Tail(q) /\ running'[k] = Head(q)
      /\ \A j \in Thread : j # k => queue'[j] = queue[j] /\ running'[j] = running[j]
  BY <1>1 DEF TypeOK
<1>5. TypeOK'
  <2>1. queue' \in [Thread -> Seq(Task)]  BY <1>1, <1>3 DEF TypeOK
  <2>2. running' \in [Thread -> Task \cup {NoTask}]  BY <1>1, <1>3 DEF TypeOK
  <2> QED  BY <1>1, <2>1, <2>2 DEF TypeOK
<1>6. MoreTypes'  BY <1>1 DEF MoreTypes
<1>7. Placed'
  <2>1. \A j \in Thread : IsInjective(queue'[j]) /\ running'[j] \notin Range(queue'[j])
    BY <1>3, <1>4 DEF Placed
  <2>2. \A s \in Task, j \in Thread : Lives(s, j)' <=> Lives(s, j)
    BY <1>1, <1>3, <1>4 DEF Lives
  <2> QED  BY <1>1, <2>1, <2>2 DEF Placed
<1>8. InOrder'
  <2>1. ASSUME NEW l \in Thread, NEW i \in 1..Len(queue'[l]), NEW j \in 1..Len(queue'[l]),
               queue'[l][i] \in addedBefore[queue'[l][j]]
        PROVE  i < j
    <3>1. CASE l # k  BY <2>1, <3>1, <1>4 DEF InOrder
    <3>2. CASE l = k
      <4>1. /\ Len(Tail(q)) = Len(q) - 1 /\ Len(q) \in Nat
            /\ \A m \in 1..(Len(q) - 1) : Tail(q)[m] = q[m + 1]
        BY <1>1, <1>2, HeadTailProperties
      <4>2. i \in 1..(Len(q) - 1) /\ j \in 1..(Len(q) - 1)  BY <3>2, <4>1, <1>4
      <4>3. i + 1 \in 1..Len(q) /\ j + 1 \in 1..Len(q)  BY <4>1, <4>2
      <4>4. q[i + 1] \in addedBefore[q[j + 1]]  BY <2>1, <3>2, <4>1, <4>2, <1>4
      <4>5. i + 1 < j + 1  BY <4>3, <4>4 DEF InOrder
      <4> QED  BY <4>2, <4>5
    <3> QED  BY <3>1, <3>2
  <2> QED  BY <1>1, <2>1 DEF InOrder
<1>9. OneAtATime'  BY <1>1 DEF OneAtATime, OneCaller, BestSoFar
<1> QED  BY <1>5, <1>6, <1>7, <1>8, <1>9

(***************************************************************************)
(* A task returns, then its counter is lowered.                            *)
(***************************************************************************)
LEMMA EndStep ==
  ASSUME GroupInv, NEW k \in Thread, EndTask(k)
  PROVE  GroupInv'
<1> USE GroupAssumption DEF GroupInv
<1> DEFINE t == running[k]
<1>1. /\ t # NoTask /\ running' = [running EXCEPT ![k] = NoTask]
      /\ undone' = [undone EXCEPT ![k] = @ - 1] /\ at' = [at EXCEPT ![t] = "finished"]
      /\ UNCHANGED <<strategy, adder, started, queue, roundRobin, index, pos, least,
                     loadBefore, addedBefore>>
  BY DEF EndTask, calls
<1>2. t \in Task  BY <1>1 DEF TypeOK
<1>3. at[t] = "added" /\ ThreadOf(index[t]) = k  BY <1>2 DEF Placed, Lives
<1>4. /\ at'[t] = "finished" /\ \A s \in Task : s # t => at'[s] = at[s]
      /\ running'[k] = NoTask /\ \A j \in Thread : j # k => running'[j] = running[j]
  BY <1>1, <1>2 DEF TypeOK
<1>5. TypeOK'
  <2>1. ASSUME NEW j \in Thread PROVE undone'[j] = Cardinality(Load(j)')
    <3>1. undone[j] = Cardinality(Load(j))  BY DEF TypeOK, Load
    <3>2. CASE j = k
      <4>1. Load(j)' = Load(j) \ {t} /\ t \in Load(j)  BY <1>1, <1>2, <1>3, <1>4, <3>2 DEF Load
      <4>2. Cardinality(Load(j) \ {t}) = Cardinality(Load(j)) - 1
        BY <4>1, LoadFinite DEF Load
      <4> QED  BY <1>1, <3>1, <3>2, <4>1, <4>2 DEF MoreTypes
    <3>3. CASE j # k
      <4>1. Load(j)' = Load(j)  BY <1>1, <1>2, <1>3, <1>4, <3>3 DEF Load
      <4> QED  BY <1>1, <3>1, <3>3, <4>1 DEF MoreTypes
    <3> QED  BY <3>2, <3>3
  <2>2. at' \in [Task -> {"idle", "read", "scan", "chosen", "counted", "added", "finished"}]
    BY <1>1 DEF TypeOK
  <2>3. running' \in [Thread -> Task \cup {NoTask}]  BY <1>1 DEF TypeOK
  <2> QED  BY <1>1, <2>1, <2>2, <2>3 DEF TypeOK, Load
<1>6. MoreTypes'  BY <1>1 DEF MoreTypes
<1>7. Placed'
  <2>1. \A j \in Thread : Range(queue[j]) \subseteq Task  BY RangeOf DEF TypeOK
  <2>2. \A j \in Thread : IsInjective(queue'[j]) /\ running'[j] \notin Range(queue'[j])
    BY <1>1, <1>4, <2>1 DEF Placed
  <2>3. t \notin Range(queue[k])  BY DEF Placed
  <2>4. \A s \in Task, j \in Thread : Lives(s, j)' <=> Lives(s, j) /\ ~(s = t /\ j = k)
    BY <1>1, <1>4, <2>3 DEF Lives
  <2> QED  BY <1>1, <1>3, <1>4, <2>2, <2>4 DEF Placed
<1>8. InOrder'
  <2>1. \A r \in Task : \A s \in addedBefore'[r] : at'[s] \in {"added", "finished"}
    BY <1>1, <1>4 DEF InOrder, MoreTypes
  <2>2. strategy = "index" => \A s \in Task : at'[s] # "idle" => at'[s] \in PastChoice /\ index[s] = Index[s]
    BY <1>3, <1>4 DEF InOrder, PastChoice
  <2> QED  BY <1>1, <2>1, <2>2 DEF InOrder
<1>9. OneAtATime'
  <2> SUFFICES ASSUME OneCaller PROVE (OneAtATime')  BY <1>1 DEF OneAtATime, OneCaller
  <2>1. \A s \in Task : at'[s] \in Calling => at[s] = at'[s] /\ s # t  BY <1>4 DEF Calling
  <2>2. \A j \in Thread : undone[j] \in Int /\ undone'[j] \in Int /\ undone'[j] <= undone[j]
    BY <1>1 DEF MoreTypes
  <2>3. ASSUME NEW s \in Task, at'[s] = "scan" PROVE BestSoFar(s)'
    <3>1. BestSoFar(s)  BY <2>1, <2>3 DEF OneAtATime, Calling
    <3>2. index[s] \in Thread
      BY <3>1 DEF BestSoFar, MoreTypes, Thread, TypeOK
    <3>3. \A j \in Thread : loadBefore[s][j] \in Int /\ least[s] \in Int  BY DEF MoreTypes
    <3>4. undone'[index[s]] <= least[s]  BY <2>2, <3>1, <3>2, <3>3 DEF BestSoFar
    <3>5. \A j \in Thread : undone'[j] <= loadBefore[s][j]  BY <2>2, <3>1, <3>3 DEF BestSoFar
    <3> QED  BY <1>1, <3>1, <3>4, <3>5 DEF BestSoFar
  <2> QED  BY <2>1, <2>3 DEF OneAtATime, Calling
<1> QED  BY <1>5, <1>6, <1>7, <1>8, <1>9

(***************************************************************************)
(* Every step keeps the invariant.                                         *)
(***************************************************************************)
LEMMA StepInv == GroupInv /\ [Next]_vars => GroupInv'
<1> SUFFICES ASSUME GroupInv, [Next]_vars PROVE GroupInv'  OBVIOUS
<1>1. ASSUME NEW t \in Task, Add(t) PROVE GroupInv'
  BY <1>1, BeginStep, ChoiceStep, CountStep, InsertStep DEF Add, Beginning
<1>2. ASSUME NEW k \in Thread, Serve(k) PROVE GroupInv'
  BY <1>2, TakeStep, EndStep DEF Serve
<1>3. CASE StartOne \/ SumBegins \/ SumStep \/ UNCHANGED vars
  <2>1. /\ UNCHANGED <<strategy, adder, roundRobin, undone, queue, running, at, index, pos, least,
                       loadBefore, addedBefore>>
        /\ started' \in 0..N \/ started' = started
    <3>1. CASE StartOne
      BY <3>1, GroupAssumption DEF StartOne, HowMany, calls, TypeOK, GroupInv
    <3>2. CASE SumBegins \/ SumStep
      BY <3>2 DEF SumBegins, SumStep, threads, calls
    <3>3. CASE UNCHANGED vars  BY <3>3 DEF vars
    <3> QED  BY <1>3, <3>1, <3>2, <3>3
  <2>2. TypeOK'  BY <2>1 DEF GroupInv, TypeOK
  <2>3. MoreTypes'  BY <2>1 DEF GroupInv, MoreTypes
  <2>4. Placed'  BY <2>1 DEF GroupInv, Placed, Lives
  <2>5. InOrder'  BY <2>1 DEF GroupInv, InOrder
  <2>6. OneAtATime'  BY <2>1 DEF GroupInv, OneAtATime, OneCaller, BestSoFar
  <2> QED  BY <2>2, <2>3, <2>4, <2>5, <2>6 DEF GroupInv
<1> QED  BY <1>1, <1>2, <1>3 DEF Next

(***************************************************************************)
(* The invariant holds in every reachable state.                           *)
(***************************************************************************)
LEMMA Invariance == Spec => []GroupInv
BY InitInv, StepInv, PTL DEF Spec

(***************************************************************************)
(* Each counter is exact: the tasks on their way into the queue of its     *)
(* thread, in the queue, and running.                                      *)
(***************************************************************************)
THEOREM TypeCorrect == Spec => []TypeOK
<1>1. GroupInv => TypeOK  BY DEF GroupInv
<1> QED  BY <1>1, Invariance, PTL

(***************************************************************************)
(* The idle strategy gives a task to a thread that has no more to do than  *)
(* any thread had when the scan began.                                     *)
(***************************************************************************)
IdleStep ==
  OneCaller => \A t \in Task : at[t] = "scan" /\ at'[t] = "counted" =>
    \A j \in Thread : IF j < index[t] THEN undone[index[t]] < loadBefore[t][j]
                                      ELSE undone[index[t]] <= loadBefore[t][j]

THEOREM IdleIsBest == Spec => IdleChoice
<1>1. GroupInv /\ [Next]_vars => [IdleStep]_vars
  <2> SUFFICES ASSUME GroupInv, Next, OneCaller, NEW t \in Task,
                      at[t] = "scan", at'[t] = "counted", NEW j \in Thread
               PROVE  IF j < index[t] THEN undone[index[t]] < loadBefore[t][j]
                                      ELSE undone[index[t]] <= loadBefore[t][j]
    BY DEF IdleStep
  <2> USE DEF GroupInv
  <2>1. AddCount(t)
    <3>1. \A s \in Task : Add(s) => AddCount(s) \/ s # t \/ at'[t] # "counted"
      BY DEF Add, ReadIndex, WriteIndex, Random, ByIndex, ScanBegins, ScanStep, AddInsert, TypeOK
    <3>2. \A s \in Task : Add(s) /\ s # t => at'[t] = at[t]
      BY DEF Add, ReadIndex, WriteIndex, Random, ByIndex, ScanBegins, ScanStep, AddCount, AddInsert, TypeOK
    <3>3. ASSUME NEW k \in Thread, Serve(k) PROVE at'[t] # "counted"
      BY <3>3 DEF Serve, BeginTask, EndTask, TypeOK
    <3> QED  BY <3>1, <3>2, <3>3 DEF Next, StartOne, SumBegins, SumStep
  <2>2. pos[t] = N /\ BestSoFar(t)  BY <2>1 DEF AddCount, Chosen, OneAtATime
  <2>3. j < pos[t] /\ j \in Int  BY <2>2, GroupAssumption DEF Thread
  <2>4. index[t] \in Thread  BY <2>2, GroupAssumption DEF BestSoFar, Thread, TypeOK
  <2>5. undone[index[t]] \in Int /\ least[t] \in Int /\ loadBefore[t][j] \in Int
    BY <2>4 DEF MoreTypes
  <2> QED  BY <2>2, <2>3, <2>5 DEF BestSoFar
<1> QED  BY <1>1, Invariance, PTL DEF Spec, IdleChoice, IdleStep

(***************************************************************************)
(* Tasks added with one index, or with two that lead to one thread, run    *)
(* one after the other in the order of the calls, whoever makes them.      *)
(***************************************************************************)
KindStep ==
  \A k \in Thread :
    strategy = "index" /\ running[k] = NoTask /\ running'[k] # NoTask =>
      LET t == running'[k] IN
      \A s \in addedBefore[t] :
        Index[s] % N = Index[t] % N => at[s] = "finished"

THEOREM KindsKeepOrder == Spec => KindInOrder
<1>1. GroupInv /\ [Next]_vars => [KindStep]_vars
  <2> SUFFICES ASSUME GroupInv, Next, NEW k \in Thread, strategy = "index",
                      running[k] = NoTask, running'[k] # NoTask,
                      NEW s \in addedBefore[running'[k]], Index[s] % N = Index[running'[k]] % N
               PROVE  at[s] = "finished"
    BY DEF KindStep
  <2> DEFINE t == running'[k]
             q == queue[k]
  <2> USE DEF GroupInv
  <2>1. BeginTask(k)
    <3>1. \A r \in Task : Add(r) => running' = running
      BY DEF Add, ReadIndex, WriteIndex, Random, ByIndex, ScanBegins, ScanStep, AddCount, AddInsert, threads
    <3>2. ASSUME NEW j \in Thread, Serve(j) PROVE BeginTask(k)
      BY <3>2, GroupAssumption DEF Serve, BeginTask, EndTask, TypeOK
    <3> QED  BY <3>1, <3>2 DEF Next, StartOne, SumBegins, SumStep, threads
  <2>2. q \in Seq(Task) /\ q # << >> /\ t = Head(q)  BY <2>1 DEF BeginTask, TypeOK
  <2>3. t \in Range(q) /\ t = q[1] /\ t \in Task /\ 1 \in 1..Len(q)
    <3>1. Len(q) \in Nat /\ Len(q) >= 1  BY <2>2, EmptySeq, LenProperties
    <3> QED  BY <2>2, <3>1, TailRange, RangeOf
  <2>4. at[t] = "added" /\ ThreadOf(index[t]) = k  BY <2>3 DEF Placed, Lives
  <2>5. s \in Task /\ at[s] \in {"added", "finished"}  BY <2>3 DEF InOrder, MoreTypes
  <2>6. ThreadOf(index[s]) = k
    <3>1. index[s] = Index[s] /\ index[t] = Index[t]  BY <2>3, <2>4, <2>5 DEF InOrder
    <3> QED  BY <2>4, <3>1 DEF ThreadOf
  <2>7. ASSUME at[s] = "added" PROVE FALSE
    <3>1. s \in Range(q)  BY <2>5, <2>6, <2>7, GroupAssumption DEF Placed, Lives
    <3>2. PICK i \in 1..Len(q) : q[i] = s  BY <2>2, <3>1, RangeOf
    <3>3. i < 1  BY <2>3, <3>2 DEF InOrder
    <3> QED  BY <3>2, <3>3
  <2> QED  BY <2>5, <2>7
<1> QED  BY <1>1, Invariance, PTL DEF Spec, KindInOrder, KindStep

-----------------------------------------------------------------------------
(* The remainder of the next number. *)
LEMMA ModNext ==
  ASSUME NEW n \in Nat \ {0}, NEW a \in Nat
  PROVE (a + 1) % n = IF a % n = n - 1 THEN 0 ELSE (a % n) + 1
<1> DEFINE q == a \div n
           m == a % n
<1>1. q \in Nat /\ m \in 0..n - 1 /\ a = n * q + m  BY DivMod
<1> HIDE DEF q, m
<1>2. CASE m = n - 1
  <2>1. a + 1 = n * (q + 1) + 0  BY <1>1, <1>2
  <2>2. 0 \in 0..n - 1 /\ q + 1 \in Nat /\ a + 1 \in Nat  BY <1>1
  <2>3. (a + 1) % n = 0  BY <2>1, <2>2, ModIs
  <2> QED  BY <2>3, <1>2 DEF m
<1>3. CASE m # n - 1
  <2>1. a + 1 = n * q + (m + 1) /\ m + 1 \in 0..n - 1 /\ a + 1 \in Nat  BY <1>1, <1>3
  <2>2. (a + 1) % n = m + 1  BY <2>1, <1>1, ModIs
  <2> QED  BY <2>2, <1>3 DEF m
<1> QED  BY <1>2, <1>3

(***************************************************************************)
(* A counter that wraps at a multiple of n goes on with the next           *)
(* remainder; wrapping anywhere else it would skip some.                   *)
(***************************************************************************)
LEMMA Wraps ==
  ASSUME NEW n \in Nat \ {0}, NEW w \in Nat, w % n = 0, NEW a \in 0..w - 1
  PROVE ((a + 1) % w) % n = IF a % n = n - 1 THEN 0 ELSE (a % n) + 1
<1>0. a \in Nat  OBVIOUS
<1>1. CASE a + 1 < w
  <2>1. a + 1 = w * 0 + (a + 1) /\ a + 1 \in 0..w - 1 /\ w \in Nat \ {0} /\ a + 1 \in Nat  BY <1>1
  <2>2. (a + 1) % w = a + 1  BY <2>1, ModIs
  <2>3. (a + 1) % n = IF a % n = n - 1 THEN 0 ELSE (a % n) + 1  BY <1>0, ModNext
  <2> QED  BY <2>2, <2>3
<1>2. CASE a + 1 = w
  <2>1. w = w * 1 + 0 /\ 0 \in 0..w - 1 /\ w \in Nat \ {0}  BY <1>2
  <2>2. w % w = 0  BY <2>1, ModIs
  <2>3. 0 = n * 0 + 0 /\ 0 \in 0..n - 1  OBVIOUS
  <2>4. 0 % n = 0  BY <2>3, ModIs
  <2>5. (a + 1) % n = IF a % n = n - 1 THEN 0 ELSE (a % n) + 1  BY <1>0, ModNext
  <2> QED  BY <1>2, <2>2, <2>4, <2>5
<1> QED  BY <1>1, <1>2

(***************************************************************************)
(* With one caller the index that was read is still the index when it is   *)
(* written back; those before it, in turn, have been given one task more.  *)
(***************************************************************************)
Turn(k) == IF k < roundRobin % N THEN 1 ELSE 0

InTurn ==
  OneCaller /\ strategy = "round_robin" =>
    /\ \A t \in Task : at[t] # "scan" /\ (at[t] = "read" => index[t] = roundRobin)
    /\ \E q \in Nat : \A k \in Thread : Cardinality(Given(k)) = q + Turn(k)

(* Nobody has been given a task. *)
LEMMA EvenInit == Init => InTurn
<1> SUFFICES ASSUME Init PROVE InTurn  OBVIOUS
<1>1. \A t \in Task : at[t] = "idle"  BY DEF Init
<1>2. \A k \in Thread : Given(k) = {}  BY <1>1 DEF Given
<1>3. \A k \in Thread : Cardinality(Given(k)) = 0  BY <1>2, FS_EmptySet
<1>4. roundRobin % N = 0
  <2>1. N \in Nat \ {0} /\ 0 \in Nat /\ 0 \in 0..N - 1 /\ 0 = N * 0 + 0  BY GroupAssumption
  <2>2. 0 % N = 0  BY <2>1, ModIs
  <2> QED  BY <2>2 DEF Init
<1>5. \A k \in Thread : Turn(k) = 0  BY <1>4, GroupAssumption DEF Turn, Thread
<1>6. \A k \in Thread : Cardinality(Given(k)) = 0 + Turn(k)  BY <1>3, <1>5
<1> QED  BY <1>1, <1>6 DEF InTurn

(* Writing the index back gives the task to the thread whose turn it is. *)
LEMMA EvenWrite ==
  ASSUME GroupInv, InTurn, Modulus % N = 0, OneCaller, strategy = "round_robin",
         NEW t \in Task, WriteIndex(t)
  PROVE  InTurn'
<1> USE GroupAssumption
<1> DEFINE m == roundRobin % N
<1>1. /\ at[t] = "read" /\ at' = [at EXCEPT ![t] = "chosen"] /\ at \in [Task -> {"idle", "read", "scan", "chosen", "counted", "added", "finished"}]
      /\ index' = index /\ index[t] = roundRobin /\ roundRobin' = NextIndex(roundRobin)
  BY DEF WriteIndex, calls, InTurn, GroupInv, TypeOK
<1>2. \A s \in Task : at'[s] # "scan" /\ at'[s] # "read"
  <2>1. \A s \in Task : at[s] = "read" => s = t  BY <1>1 DEF GroupInv, OneAtATime, Calling
  <2> QED  BY <1>1, <2>1 DEF InTurn
<1>3. roundRobin \in 0..Modulus - 1 /\ m \in Thread /\ m \in 0..N - 1
  BY ThreadOfIndex DEF GroupInv, TypeOK, ThreadOf, Thread
<1>4. roundRobin' % N = IF m = N - 1 THEN 0 ELSE m + 1
  <2>1. N \in Nat \ {0} /\ Modulus \in Nat  OBVIOUS
  <2>2. ((roundRobin + 1) % Modulus) % N = IF roundRobin % N = N - 1 THEN 0 ELSE (roundRobin % N) + 1
    BY <2>1, <1>3, Wraps
  <2> QED  BY <2>2, <1>1 DEF NextIndex
<1> DEFINE more(k) == IF k = m THEN 1 ELSE 0
<1>5. ASSUME NEW k \in Thread
      PROVE  Cardinality(Given(k)') = Cardinality(Given(k)) + more(k)
  <2>1. t \notin Given(k) /\ Given(k) \subseteq Task  BY <1>1 DEF Given
  <2>2. CASE k = m
    <3>1. Given(k)' = Given(k) \cup {t}  BY <1>1, <2>2 DEF Given, ThreadOf
    <3> QED  BY <2>1, <2>2, <3>1, LoadFinite
  <2>3. CASE k # m
    <3>1. Given(k)' = Given(k)  BY <1>1, <2>3 DEF Given, ThreadOf
    <3>2. Cardinality(Given(k)) \in Nat  BY <2>1, LoadFinite
    <3> QED  BY <2>3, <3>1, <3>2
  <2> QED  BY <2>2, <2>3
<1>6. PICK q \in Nat : \A k \in Thread : Cardinality(Given(k)) = q + (IF k < m THEN 1 ELSE 0)
  BY DEF InTurn, Turn
<1> HIDE DEF m
<1>7. \E p \in Nat : \A k \in Thread : Cardinality(Given(k)') = p + (IF k < roundRobin' % N THEN 1 ELSE 0)
  <2>1. \A k \in Thread : Cardinality(Given(k)') = q + (IF k < m THEN 1 ELSE 0) + more(k)  BY <1>5, <1>6
  <2>2. CASE m = N - 1
    <3>1. \A k \in Thread : (IF k < m THEN 1 ELSE 0) + more(k) = 1 /\ ~(k < 0)  BY <2>2 DEF Thread
    <3>2. \A k \in Thread : Cardinality(Given(k)') = (q + 1) + (IF k < 0 THEN 1 ELSE 0)  BY <1>6, <2>1, <3>1
    <3> QED  BY <1>4, <1>6, <2>2, <3>2
  <2>3. CASE m # N - 1
    <3>1. \A k \in Thread : (IF k < m THEN 1 ELSE 0) + more(k) = IF k < m + 1 THEN 1 ELSE 0
      BY <1>3, <2>3 DEF Thread
    <3>2. \A k \in Thread : Cardinality(Given(k)') = q + (IF k < m + 1 THEN 1 ELSE 0)  BY <1>6, <2>1, <3>1
    <3> QED  BY <1>4, <1>6, <2>3, <3>2
  <2> QED  BY <2>2, <2>3
<1> QED  BY <1>2, <1>7 DEF InTurn, Turn

(* No other step gives a task or moves the index. *)
LEMMA EvenStep == GroupInv /\ InTurn /\ Modulus % N = 0 /\ [Next]_vars => InTurn'
<1> SUFFICES ASSUME GroupInv, InTurn, Modulus % N = 0, [Next]_vars, OneCaller', strategy' = "round_robin"
             PROVE  InTurn'
  BY DEF InTurn
<1> USE GroupAssumption
<1>1. OneCaller /\ strategy = "round_robin"
  <2>1. adder' = adder /\ strategy' = strategy
    BY DEF Next, Add, ReadIndex, WriteIndex, Random, ByIndex, ScanBegins, ScanStep, AddCount, AddInsert,
           Serve, BeginTask, EndTask, StartOne, SumBegins, SumStep, threads, vars
  <2> QED  BY <2>1 DEF OneCaller
<1>2. /\ \A t \in Task : at[t] # "scan" /\ (at[t] = "read" => index[t] = roundRobin)
      /\ at \in [Task -> {"idle", "read", "scan", "chosen", "counted", "added", "finished"}]
      /\ index \in [Task -> 0..Modulus - 1]
  BY <1>1 DEF InTurn, GroupInv, TypeOK
<1>3. ASSUME roundRobin' = roundRobin,
             \A t \in Task : at'[t] # "scan" /\ (at'[t] = "read" => index'[t] = roundRobin),
             \A t \in Task : /\ at'[t] \in PastChoice <=> at[t] \in PastChoice
                             /\ at[t] \in PastChoice => index'[t] = index[t]
      PROVE  InTurn'
  <2>1. \A k \in Thread : Given(k)' = Given(k)  BY <1>3 DEF Given, PastChoice
  <2>2. PICK q \in Nat : \A k \in Thread : Cardinality(Given(k)) = q + Turn(k)  BY <1>1 DEF InTurn
  <2>3. \A k \in Thread : Cardinality(Given(k)') = q + Turn(k)'  BY <1>3, <2>1, <2>2 DEF Turn
  <2> QED  BY <1>3, <2>3 DEF InTurn
<1>4. ASSUME NEW t \in Task, ReadIndex(t) PROVE InTurn'
  BY <1>2, <1>3, <1>4 DEF ReadIndex, Begins, PastChoice
<1>5. ASSUME NEW t \in Task, WriteIndex(t) PROVE InTurn'
  BY <1>1, <1>5, EvenWrite
<1>6. ASSUME NEW t \in Task, AddCount(t) \/ AddInsert(t) PROVE InTurn'
  <2>1. /\ roundRobin' = roundRobin /\ index' = index /\ at[t] \in {"chosen", "counted"}
        /\ \E a \in {"counted", "added"} : at' = [at EXCEPT ![t] = a]
    BY <1>2, <1>6 DEF AddCount, AddInsert, Chosen, calls
  <2> QED  BY <1>2, <1>3, <2>1 DEF PastChoice
<1>7. ASSUME NEW k \in Thread, EndTask(k) PROVE InTurn'
  <2>1. running[k] \in Task /\ at[running[k]] = "added"
    <3>1. running[k] \in Task  BY <1>7 DEF EndTask, GroupInv, TypeOK
    <3>2. Lives(running[k], k)  BY DEF Lives
    <3> QED  BY <3>1, <3>2 DEF GroupInv, Placed
  <2>2. roundRobin' = roundRobin /\ index' = index /\ at' = [at EXCEPT ![running[k]] = "finished"]
    BY <1>7 DEF EndTask, calls
  <2> QED  BY <1>2, <1>3, <2>1, <2>2 DEF PastChoice
<1>8. ASSUME UNCHANGED <<roundRobin, at, index>> PROVE InTurn'
  BY <1>2, <1>3, <1>8
<1>9. ASSUME NEW t \in Task, Add(t) PROVE InTurn'
  <2>1. ~Random(t) /\ ~ByIndex(t) /\ ~ScanBegins(t) /\ ~ScanStep(t)
    BY <1>1, <1>2 DEF Random, ByIndex, ScanBegins, ScanStep
  <2> QED  BY <1>4, <1>5, <1>6, <1>9, <2>1 DEF Add
<1>10. ASSUME NEW k \in Thread, Serve(k) PROVE InTurn'
  <2>1. BeginTask(k) => UNCHANGED <<roundRobin, at, index>>  BY DEF BeginTask, calls
  <2> QED  BY <1>7, <1>8, <1>10, <2>1 DEF Serve
<1>11. StartOne \/ SumBegins \/ SumStep \/ UNCHANGED vars => UNCHANGED <<roundRobin, at, index>>
  BY DEF StartOne, SumBegins, SumStep, calls, vars
<1> QED  BY <1>8, <1>9, <1>10, <1>11 DEF Next

(***************************************************************************)
(* Round robin: with one caller, and a number of threads that divides the  *)
(* one at which the index wraps, the threads are given tasks in turn, so   *)
(* that none ever has two more than another, however often it wraps.       *)
(***************************************************************************)
THEOREM RoundRobinIsEven == Modulus % N = 0 /\ Spec => []RoundRobinEven
<1> DEFINE Inv == GroupInv /\ InTurn /\ Modulus % N = 0
<1>1. Modulus % N = 0 /\ Init => Inv  BY InitInv, EvenInit
<1>2. Inv /\ [Next]_vars => Inv'  BY StepInv, EvenStep
<1>3. Inv => RoundRobinEven
  <2> SUFFICES ASSUME Inv, strategy = "round_robin", OneCaller, NEW j \in Thread, NEW k \in Thread
               PROVE  Cardinality(Given(j)) <= Cardinality(Given(k)) + 1
    BY DEF RoundRobinEven
  <2>1. PICK q \in Nat : \A i \in Thread : Cardinality(Given(i)) = q + Turn(i)  BY DEF InTurn
  <2>2. Turn(j) \in {0, 1} /\ Turn(k) \in {0, 1}  BY DEF Turn
  <2> QED  BY <2>1, <2>2
<1> QED  BY <1>1, <1>2, <1>3, PTL DEF Spec

-----------------------------------------------------------------------------
(***************************************************************************)
(* num_of_undone_task() of the group.  The tasks it has seen are of those  *)
(* undone at the beginning and those counted since; of the threads it has  *)
(* passed, what is undone now was seen or counted since.                   *)
(***************************************************************************)
Undone == {t \in Task : at[t] \in {"counted", "added"}}

Sums(base, new, seen) ==
  /\ base \subseteq Task /\ new \subseteq Task /\ seen \subseteq base \cup new
  /\ Cardinality(base) = sumSeen.first /\ Cardinality(new) = sumSeen.counted
  /\ Cardinality(seen) = sum.ret
  /\ Undone \subseteq base \cup new
  /\ \A t \in base \cup new : at[t] \in {"counted", "added", "finished"}
  /\ \A t \in seen : ThreadOf(index[t]) < sum.pos
  /\ \A t \in Undone : ThreadOf(index[t]) < sum.pos => t \in seen \cup new

SumInv ==
  /\ sum \in [at : {"idle", "scan", "done"}, pos : 0..N, ret : Nat]
  /\ sumSeen \in [first : Nat, counted : Int]
  /\ sum.at = "scan" => \E base, new, seen : Sums(base, new, seen)

(* Steps that count no task and look at no counter keep what was summed. *)
LEMMA SumKept ==
  ASSUME SumInv, TypeOK, sum' = sum, sumSeen' = sumSeen,
         \A t \in Task : at[t] \in {"counted", "added", "finished"} =>
                           at'[t] \in {"counted", "added", "finished"} /\ index'[t] = index[t],
         Undone' \subseteq Undone
  PROVE  SumInv'
<1>1. ASSUME NEW base, NEW new, NEW seen, Sums(base, new, seen) PROVE Sums(base, new, seen)'
  <2>1. \A t \in base \cup new : t \in Task  BY <1>1 DEF Sums
  <2>2. \A t \in base \cup new : at'[t] \in {"counted", "added", "finished"} /\ index'[t] = index[t]
    BY <1>1, <2>1 DEF Sums
  <2>3. Undone' \subseteq base \cup new  BY <1>1 DEF Sums
  <2>4. \A t \in seen : ThreadOf(index'[t]) < sum'.pos  BY <1>1, <2>2 DEF Sums
  <2>5. \A t \in Undone' : ThreadOf(index'[t]) < sum'.pos => t \in seen \cup new
    BY <1>1, <2>2, <2>3 DEF Sums
  <2> QED  BY <1>1, <2>2, <2>3, <2>4, <2>5 DEF Sums
<1> QED  BY <1>1 DEF SumInv

(* A task that is counted is new. *)
LEMMA SumCounts ==
  ASSUME SumInv, GroupInv, NEW t \in Task, AddCount(t)
  PROVE  SumInv'
<1>1. /\ at[t] \in {"chosen", "scan"} /\ at' = [at EXCEPT ![t] = "counted"] /\ index' = index /\ sum' = sum
      /\ sumSeen' = [sumSeen EXCEPT !.counted = @ + 1] /\ DOMAIN at = Task
  BY DEF AddCount, Chosen, calls, GroupInv, TypeOK
<1>2. Undone' = Undone \cup {t}  BY <1>1 DEF Undone
<1>3. /\ sumSeen' \in [first : Nat, counted : Int] /\ sumSeen'.first = sumSeen.first
      /\ sumSeen'.counted = sumSeen.counted + 1
  BY <1>1 DEF SumInv
<1>4. ASSUME NEW base, NEW new, NEW seen, Sums(base, new, seen)
      PROVE  Sums(base, new \cup {t}, seen)'
  <2>1. t \notin base \cup new /\ base \subseteq Task /\ new \subseteq Task  BY <1>1, <1>4 DEF Sums
  <2>2. Cardinality(new \cup {t}) = sumSeen'.counted  BY <1>3, <1>4, <2>1, LoadFinite DEF Sums
  <2>3. \A s \in base \cup new : at'[s] = at[s]  BY <1>1, <2>1
  <2> QED  BY <1>1, <1>2, <1>3, <1>4, <2>1, <2>2, <2>3 DEF Sums
<1>5. sum'.at = "scan" => \E base, new, seen : Sums(base, new, seen)'
  BY <1>1, <1>4 DEF SumInv
<1> QED  BY <1>1, <1>3, <1>5 DEF SumInv

(* A step of the sum sees the tasks that are undone in one more thread. *)
LEMMA SumAdvances ==
  ASSUME SumInv, GroupInv, SumStep, NEW base, NEW new, NEW seen, Sums(base, new, seen)
  PROVE  \E all : Sums(base, new, all)' /\ sum'.ret \in Nat
<1> USE GroupAssumption
<1> DEFINE k == sum.pos
           load == Load(k)
<1>1. /\ k \in 0..N /\ k < N /\ sum.ret \in Nat
      /\ sum' = [sum EXCEPT !.pos = k + 1, !.ret = sum.ret + undone[k],
                            !.at = IF k = N - 1 THEN "done" ELSE "scan"]
      /\ at' = at /\ index' = index /\ sumSeen' = sumSeen /\ undone' = undone
  BY DEF SumStep, SumInv, calls
<1>2. sum'.pos = k + 1 /\ sum'.ret = sum.ret + undone[k]  BY <1>1 DEF SumInv
<1>3. k \in Thread /\ undone[k] = Cardinality(load)
  <2>1. k \in Thread  BY <1>1 DEF Thread
  <2> QED  BY <2>1 DEF GroupInv, TypeOK, Load
<1>4. \A t \in Task : ThreadOf(index[t]) \in Thread  BY ThreadOfIndex DEF GroupInv, TypeOK
<1>5. load \subseteq Undone /\ load \subseteq Task /\ \A t \in load : ThreadOf(index[t]) = k
  BY DEF Load, Undone
<1>6. seen \subseteq Task /\ seen \cap load = {}
  BY <1>1, <1>5 DEF Sums
<1>7. Cardinality(seen \cup load) = Cardinality(seen) + Cardinality(load)
  <2>1. IsFiniteSet(seen) /\ IsFiniteSet(load)  BY <1>5, <1>6, LoadFinite
  <2>2. Cardinality(seen) \in Nat /\ Cardinality(load) \in Nat  BY <1>5, <1>6, LoadFinite
  <2>3. Cardinality(seen \cap load) = 0  BY <1>6, FS_EmptySet
  <2>4. Cardinality(seen \cup load) = Cardinality(seen) + Cardinality(load) - Cardinality(seen \cap load)
    BY <2>1, FS_Union
  <2> QED  BY <2>2, <2>3, <2>4
<1>8. Undone' = Undone  BY <1>1 DEF Undone
<1> HIDE DEF k, load
<1>9. \A j \in Thread : j < k + 1 => j < k \/ j = k  BY <1>1 DEF Thread
<1>10. \A t \in seen \cup load : ThreadOf(index[t]) < k + 1
  <2>1. \A t \in seen : ThreadOf(index[t]) < k  BY DEF Sums, k
  <2>2. \A t \in seen : ThreadOf(index[t]) \in Int  BY <1>4, <1>6 DEF Thread
  <2> QED  BY <1>1, <1>5, <2>1, <2>2
<1>11. \A t \in Undone : ThreadOf(index[t]) < k + 1 => t \in seen \cup load \cup new
  <2>1. \A t \in Undone : ThreadOf(index[t]) < k => t \in seen \cup new  BY DEF Sums, k
  <2>2. \A t \in Undone : ThreadOf(index[t]) = k => t \in load  BY DEF Undone, load, Load, k
  <2>3. \A t \in Undone : ThreadOf(index[t]) \in Thread  BY <1>4 DEF Undone
  <2> QED  BY <1>9, <2>1, <2>2, <2>3
<1>12. Cardinality(seen \cup load) = sum'.ret  BY <1>2, <1>3, <1>7 DEF Sums
<1>13. sum'.ret \in Nat
  <2>1. Cardinality(load) \in Nat  BY <1>5, LoadFinite
  <2> QED  BY <1>1, <1>2, <1>3, <2>1
<1>14. PICK all : all = seen \cup load  OBVIOUS
<1>15. Sums(base, new, all)'
  <2>1. all \subseteq base \cup new  BY <1>5, <1>14 DEF Sums
  <2> QED  BY <1>1, <1>2, <1>8, <1>10, <1>11, <1>12, <1>14, <2>1 DEF Sums
<1> QED  BY <1>13, <1>15

(* Every step keeps the invariant. *)
LEMMA SumStepInv == GroupInv /\ SumInv /\ [Next]_vars => SumInv'
<1> SUFFICES ASSUME GroupInv, SumInv, [Next]_vars PROVE SumInv'  OBVIOUS
<1> USE GroupAssumption
<1>1. at \in [Task -> {"idle", "read", "scan", "chosen", "counted", "added", "finished"}] /\ TypeOK
  BY DEF GroupInv, TypeOK
<1>2. ASSUME NEW t \in Task, Beginning(t) \/ WriteIndex(t) \/ ScanStep(t) PROVE SumInv'
  <2>1. /\ at[t] \in {"idle", "read", "scan"} /\ sum' = sum /\ sumSeen' = sumSeen
        /\ \E a \in {"read", "scan", "chosen"} : at' = [at EXCEPT ![t] = a]
    BY <1>1, <1>2 DEF Beginning, Begins, ReadIndex, Random, ByIndex, ScanBegins, WriteIndex, ScanStep, sums
  <2>2. \A s \in Task : s # t => index'[s] = index[s]
    BY <1>1, <1>2 DEF Beginning, ReadIndex, Random, ByIndex, ScanBegins, WriteIndex, ScanStep, calls, TypeOK
  <2>3. Undone' = Undone  BY <1>1, <2>1 DEF Undone
  <2>4. \A s \in Task : at[s] \in {"counted", "added", "finished"} =>
                          at'[s] \in {"counted", "added", "finished"} /\ index'[s] = index[s]
    BY <1>1, <2>1, <2>2
  <2> QED  BY <1>1, <2>1, <2>3, <2>4, SumKept
<1>3. ASSUME NEW t \in Task, AddInsert(t) PROVE SumInv'
  <2>1. at[t] = "counted" /\ at' = [at EXCEPT ![t] = "added"] /\ index' = index /\ sum' = sum /\ sumSeen' = sumSeen
    BY <1>3 DEF AddInsert, calls, sums
  <2>2. Undone' = Undone  BY <1>1, <2>1 DEF Undone
  <2>3. \A s \in Task : at[s] \in {"counted", "added", "finished"} =>
                          at'[s] \in {"counted", "added", "finished"} /\ index'[s] = index[s]
    BY <1>1, <2>1
  <2> QED  BY <1>1, <2>1, <2>2, <2>3, SumKept
<1>4. ASSUME NEW k \in Thread, EndTask(k) PROVE SumInv'
  <2>1. at' = [at EXCEPT ![running[k]] = "finished"] /\ index' = index /\ sum' = sum /\ sumSeen' = sumSeen
    BY <1>4 DEF EndTask, calls, sums
  <2>2. Undone' \subseteq Undone  BY <1>1, <2>1 DEF Undone
  <2>3. \A s \in Task : at[s] \in {"counted", "added", "finished"} =>
                          at'[s] \in {"counted", "added", "finished"} /\ index'[s] = index[s]
    BY <1>1, <2>1
  <2> QED  BY <1>1, <2>1, <2>2, <2>3, SumKept
<1>5. ASSUME UNCHANGED <<at, index, sum, sumSeen>> PROVE SumInv'
  <2>1. Undone' = Undone  BY <1>5 DEF Undone
  <2>2. \A s \in Task : at[s] \in {"counted", "added", "finished"} =>
                          at'[s] \in {"counted", "added", "finished"} /\ index'[s] = index[s]
    BY <1>5
  <2> QED  BY <1>1, <1>5, <2>1, <2>2, SumKept
<1>6. ASSUME SumBegins PROVE SumInv'
  <2>1. /\ sum' = [at |-> "scan", pos |-> 0, ret |-> 0] /\ sumSeen' = [first |-> Total, counted |-> 0]
        /\ at' = at /\ index' = index
    BY <1>6 DEF SumBegins, FirstThread, calls
  <2>2. Undone \subseteq Task /\ Total = Cardinality(Undone)  BY DEF Undone, Total
  <2>3. Total \in Nat  BY <2>2, LoadFinite
  <2>4. \A t \in Task : ThreadOf(index[t]) \in Nat
    BY <1>1, ThreadOfIndex DEF TypeOK, Thread
  <2>5. Undone' = Undone /\ \A t \in Undone : at[t] \in {"counted", "added", "finished"}
    BY <2>1 DEF Undone
  <2>6. \A t \in Undone : ~(ThreadOf(index'[t]) < 0)
    <3>1. \A t \in Undone : ThreadOf(index[t]) \in Nat  BY <2>2, <2>4
    <3> QED  BY <2>1, <3>1
  <2>7. Sums(Undone, {}, {})'  BY <2>1, <2>2, <2>5, <2>6, FS_EmptySet DEF Sums
  <2> QED  BY <2>1, <2>3, <2>5, <2>7 DEF SumInv
<1>7. ASSUME SumStep PROVE SumInv'
  <2>1. PICK base, new, seen : Sums(base, new, seen)  BY <1>7 DEF SumStep, SumInv
  <2>2. \E all : Sums(base, new, all)' /\ sum'.ret \in Nat  BY <1>7, <2>1, SumAdvances
  <2>3. /\ sum' = [sum EXCEPT !.pos = sum.pos + 1, !.ret = sum.ret + undone[sum.pos],
                              !.at = IF sum.pos = N - 1 THEN "done" ELSE "scan"]
        /\ sum.pos \in 0..N /\ sum.pos < N /\ sumSeen' = sumSeen
    BY <1>7 DEF SumStep, SumInv
  <2>4. sum' \in [at : {"idle", "scan", "done"}, pos : 0..N, ret : Nat]
    <3>1. sum.pos + 1 \in 0..N  BY <2>3
    <3>2. sum'.ret = sum.ret + undone[sum.pos]  BY <2>3 DEF SumInv
    <3> QED  BY <2>2, <2>3, <3>1, <3>2 DEF SumInv
  <2> QED  BY <2>2, <2>3, <2>4 DEF SumInv
<1>8. ASSUME NEW t \in Task, Add(t) PROVE SumInv'
  BY <1>2, <1>3, <1>8, SumCounts DEF Add, Beginning
<1>9. ASSUME NEW k \in Thread, Serve(k) PROVE SumInv'
  <2>1. BeginTask(k) => UNCHANGED <<at, index, sum, sumSeen>>  BY DEF BeginTask, calls, sums
  <2> QED  BY <1>4, <1>5, <1>9, <2>1 DEF Serve
<1>10. StartOne \/ UNCHANGED vars => UNCHANGED <<at, index, sum, sumSeen>>
  BY DEF StartOne, calls, sums, vars
<1> QED  BY <1>5, <1>6, <1>7, <1>8, <1>9, <1>10 DEF Next

(***************************************************************************)
(* The sum of the counters, read one after the other while tasks come and  *)
(* go, is off by no more than the number of tasks counted meanwhile.       *)
(***************************************************************************)
SumEnds ==
  sum.at = "scan" /\ sum'.at = "done" =>
    /\ sum'.ret <= sumSeen.first + sumSeen.counted
    /\ Total <= sum'.ret + sumSeen.counted

THEOREM SumIsClose == Spec => SumWithin
<1>1. Init => SumInv
  <2>1. N \in Nat /\ 0 \in 0..N  BY GroupAssumption
  <2> QED  BY <2>1 DEF Init, SumInv
<1>2. GroupInv /\ SumInv /\ [Next]_vars => [SumEnds]_vars
  <2> SUFFICES ASSUME GroupInv, SumInv, Next, sum.at = "scan", sum'.at = "done"
               PROVE  /\ sum'.ret <= sumSeen.first + sumSeen.counted
                      /\ Total <= sum'.ret + sumSeen.counted
    BY DEF SumEnds
  <2>1. SumStep
    <3>1. \A t \in Task : Add(t) => sum' = sum
      BY DEF Add, ReadIndex, WriteIndex, Random, ByIndex, ScanBegins, ScanStep, AddCount, AddInsert, sums
    <3>2. \A k \in Thread : Serve(k) => sum' = sum  BY DEF Serve, BeginTask, EndTask, sums
    <3>3. StartOne => sum' = sum  BY DEF StartOne, sums
    <3>4. ~SumBegins  BY DEF SumBegins
    <3> QED  BY <3>1, <3>2, <3>3, <3>4 DEF Next
  <2>2. PICK base, new, seen : Sums(base, new, seen)  BY DEF SumInv
  <2>3. PICK all : Sums(base, new, all)' /\ sum'.ret \in Nat  BY <2>1, <2>2, SumAdvances
  <2>4. sumSeen' = sumSeen /\ sum'.pos = N /\ Undone' = Undone /\ at' = at /\ index' = index
    <3>1. /\ sum' = [sum EXCEPT !.pos = sum.pos + 1, !.ret = sum.ret + undone[sum.pos],
                               !.at = IF sum.pos = N - 1 THEN "done" ELSE "scan"]
          /\ sumSeen' = sumSeen /\ at' = at /\ index' = index /\ sum.pos \in 0..N
      BY <2>1 DEF SumStep, SumInv, calls
    <3>2. sum'.pos = sum.pos + 1 /\ sum.pos = N - 1  BY <3>1 DEF SumInv
    <3> QED  BY <3>1, <3>2, GroupAssumption DEF Undone
  <2>5. /\ all \subseteq base \cup new /\ base \subseteq Task /\ new \subseteq Task
        /\ Cardinality(all) = sum'.ret /\ Cardinality(base) = sumSeen.first /\ Cardinality(new) = sumSeen.counted
    BY <2>3, <2>4 DEF Sums
  <2>6. Undone \subseteq all \cup new
    <3>1. \A t \in Undone : ThreadOf(index[t]) < N
      BY ThreadOfIndex, GroupAssumption DEF GroupInv, TypeOK, Undone, Thread
    <3> QED  BY <2>3, <2>4, <3>1 DEF Sums
  <2>7. \A S, T \in SUBSET Task : /\ Cardinality(S \cup T) <= Cardinality(S) + Cardinality(T)
                                  /\ S \subseteq T => Cardinality(S) <= Cardinality(T)
    <3> TAKE S, T \in SUBSET Task
    <3>1. IsFiniteSet(S) /\ IsFiniteSet(T) /\ IsFiniteSet(S \cap T)  BY FS_Subset, GroupAssumption
    <3>2. Cardinality(S) \in Nat /\ Cardinality(T) \in Nat /\ Cardinality(S \cap T) \in Nat
      BY <3>1, FS_CardinalityType
    <3>3. Cardinality(S \cup T) = Cardinality(S) + Cardinality(T) - Cardinality(S \cap T)
      BY <3>1, FS_Union
    <3>4. S \subseteq T => Cardinality(S) <= Cardinality(T)  BY <3>1, FS_Subset
    <3> QED  BY <3>2, <3>3, <3>4
  <2>8. Cardinality(all) <= Cardinality(base \cup new) /\ Cardinality(base \cup new) <= Cardinality(base) + Cardinality(new)
    BY <2>5, <2>7
  <2>9. Cardinality(Undone) <= Cardinality(all \cup new) /\ Cardinality(all \cup new) <= Cardinality(all) + Cardinality(new)
    BY <2>5, <2>6, <2>7
  <2>10. /\ Cardinality(all) \in Nat /\ Cardinality(base) \in Nat /\ Cardinality(new) \in Nat
         /\ Cardinality(base \cup new) \in Nat /\ Cardinality(all \cup new) \in Nat /\ Cardinality(Undone) \in Nat
    <3>1. \A S \in SUBSET Task : Cardinality(S) \in Nat  BY LoadFinite
    <3>2. Undone \in SUBSET Task /\ all \in SUBSET Task /\ all \cup new \in SUBSET Task /\ base \cup new \in SUBSET Task
      BY <2>5 DEF Undone
    <3> QED  BY <2>5, <3>1, <3>2
  <2>11. Total = Cardinality(Undone)  BY DEF Total, Undone
  <2> QED  BY <2>5, <2>8, <2>9, <2>10, <2>11
<1> QED  BY <1>1, <1>2, Invariance, SumStepInv, PTL DEF Spec, SumWithin, SumEnds
=============================================================================
