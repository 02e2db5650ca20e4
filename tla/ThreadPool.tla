----------------------------- MODULE ThreadPool -----------------------------
(***************************************************************************)
(* chef::thread_pool (src/include/chef_base/chef_thread_pool.hpp): a fixed *)
(* set of worker threads that take tasks from one queue.                   *)
(*                                                                         *)
(* Every task is added once, by a thread of its own or, when Parent[t] is  *)
(* a task, by the body of that task on a worker.  A task may wait in its   *)
(* body for the end of another one, Awaits[t], the way the comment on the  *)
(* destructor recommends.  The owner starts the pool and destroys it;      *)
(* threads outside the pool do not call a pool that is being destroyed.    *)
(*                                                                         *)
(* Only a worker that has decided to wait and does not yet wait keeps the  *)
(* mutex from one step to the next: the destructor raises exit_flag_       *)
(* without the mutex, so it can do so in between.                          *)
(***************************************************************************)
EXTENDS Integers, Sequences, FiniteSets, Functions

CONSTANTS
  Workers,     \* num_of_thread_; the workers are 1..Workers, started in order
  Task,
  NoTask,
  Parent,      \* Parent[t]: the task whose body adds t, or NoTask
  Awaits       \* Awaits[t]: the task whose end the body of t waits for

ASSUME PoolAssumption ==
  /\ Workers \in Nat \ {0}
  /\ IsFiniteSet(Task) /\ NoTask \notin Task
  /\ Parent \in [Task -> Task \cup {NoTask}]
  /\ Awaits \in [Task -> Task \cup {NoTask}]

Worker   == 1..Workers
NoWorker == 0

VARIABLES
  tasks,      \* tasks_
  exitFlag,   \* exit_flag_
  undone,     \* num_of_undone_task_
  lock,       \* the worker that owns mutex_ on its way into the wait
  pc,         \* where each worker is
  job,        \* the task each worker has taken, or NoTask
  opc,        \* where the owner is
  spawned,    \* how many threads start() has made
  apc,        \* where the call add(t) is
  begun,      \* history: the tasks that have begun
  finished,   \* history: the tasks that have returned
  late        \* history: tasks begun by each worker after exit_flag_ was set

vars == <<tasks, exitFlag, undone, lock, pc, job, opc, spawned, apc, begun,
          finished, late>>

history == <<begun, finished, late>>

Init ==
  /\ tasks = << >> /\ exitFlag = FALSE /\ undone = 0 /\ lock = NoWorker
  /\ pc = [w \in Worker |-> "none"]
  /\ job = [w \in Worker |-> NoTask]
  /\ opc = "idle" /\ spawned = 0
  /\ apc = [t \in Task |-> "idle"]
  /\ begun = {} /\ finished = {}
  /\ late = [w \in Worker |-> 0]

-----------------------------------------------------------------------------
(***************************************************************************)
(* add(): count, then push and notify one waiting worker under the lock.   *)
(***************************************************************************)
Body(w, t) == pc[w] = "running" /\ job[w] = t

MayAdd(t) == IF Parent[t] = NoTask THEN ~exitFlag ELSE \E w \in Worker : Body(w, Parent[t])

AddCount(t) ==
  /\ apc[t] = "idle" /\ MayAdd(t)
  /\ apc' = [apc EXCEPT ![t] = "counted"]
  /\ undone' = undone + 1
  /\ UNCHANGED <<tasks, exitFlag, lock, pc, job, opc, spawned, history>>

Waiters == {w \in Worker : pc[w] = "waiting"}

NotifyFirst ==    \* deviation: only the push into an empty queue notifies
  IF tasks = << >> /\ Waiters # {}
    THEN \E w \in Waiters : pc' = [pc EXCEPT ![w] = "woken"]
    ELSE pc' = pc

NotifyOne ==
  IF Waiters # {} THEN \E w \in Waiters : pc' = [pc EXCEPT ![w] = "woken"]
                  ELSE pc' = pc

AddPush(t) ==
  /\ apc[t] = "counted" /\ lock = NoWorker
  /\ apc' = [apc EXCEPT ![t] = "added"]
  /\ tasks' = Append(tasks, t)
  /\ NotifyOne
  /\ UNCHANGED <<exitFlag, undone, lock, job, opc, spawned, history>>

-----------------------------------------------------------------------------
(***************************************************************************)
(* The owner: start() makes the threads one by one and waits for each to   *)
(* announce itself; the destructor raises the flag, notifies all that      *)
(* wait, and joins.                                                        *)
(***************************************************************************)
Spawn ==
  /\ opc = "idle" /\ spawned < Workers
  /\ spawned > 0 => pc[spawned] # "born"
  /\ spawned' = spawned + 1
  /\ pc' = [pc EXCEPT ![spawned + 1] = "born"]
  /\ UNCHANGED <<tasks, exitFlag, undone, lock, job, opc, apc, history>>

StartReturns ==
  /\ opc = "idle" /\ spawned = Workers /\ pc[Workers] # "born"
  /\ opc' = "running"
  /\ UNCHANGED <<tasks, exitFlag, undone, lock, pc, job, spawned, apc, history>>

Destroy ==
  /\ opc = "running"
  /\ \A t \in Task : Parent[t] = NoTask => apc[t] # "counted"
  /\ opc' = "flagged"
  /\ exitFlag' = TRUE
  /\ UNCHANGED <<tasks, undone, lock, pc, job, spawned, apc, history>>

NotifyAll ==
  /\ opc = "flagged"
  /\ opc' = "joining"
  /\ pc' = [w \in Worker |-> IF pc[w] = "waiting" THEN "woken" ELSE pc[w]]
  /\ UNCHANGED <<tasks, exitFlag, undone, lock, job, spawned, apc, history>>

Join ==
  /\ opc = "joining" /\ \A w \in Worker : pc[w] = "ended"
  /\ opc' = "gone"
  /\ UNCHANGED <<tasks, exitFlag, undone, lock, pc, job, spawned, apc, history>>

-----------------------------------------------------------------------------
(***************************************************************************)
(* A worker: run_in_thread_() and take_().                                 *)
(***************************************************************************)
Announce(w) ==
  /\ pc[w] = "born"
  /\ pc' = [pc EXCEPT ![w] = "loop"]
  /\ UNCHANGED <<tasks, exitFlag, undone, lock, job, opc, spawned, apc, history>>

LeaveWhenDrained(w) ==    \* deviation: a worker empties the queue first
  IF exitFlag /\ tasks = << >> THEN "ended" ELSE "take"

LoopNext(w) == IF exitFlag THEN "ended" ELSE "take"

Loop(w) ==
  /\ pc[w] = "loop"
  /\ pc' = [pc EXCEPT ![w] = LoopNext(w)]
  /\ UNCHANGED <<tasks, exitFlag, undone, lock, job, opc, spawned, apc, history>>

(***************************************************************************)
(* take_() tests the queue under the lock, on entry and after every wait.  *)
(***************************************************************************)
FindsNothing(w) ==
  /\ pc[w] \in {"take", "woken"} /\ lock = NoWorker
  /\ ~exitFlag /\ tasks = << >>
  /\ lock' = w
  /\ pc' = [pc EXCEPT ![w] = "drowsy"]
  /\ UNCHANGED <<tasks, exitFlag, undone, job, opc, spawned, apc, history>>

(* cond_.wait() gives the lock back and waits in one step. *)
FallsAsleep(w) ==
  /\ pc[w] = "drowsy"
  /\ lock' = NoWorker
  /\ pc' = [pc EXCEPT ![w] = "waiting"]
  /\ UNCHANGED <<tasks, exitFlag, undone, job, opc, spawned, apc, history>>

Spurious(w) ==
  /\ pc[w] = "waiting"
  /\ pc' = [pc EXCEPT ![w] = "woken"]
  /\ UNCHANGED <<tasks, exitFlag, undone, lock, job, opc, spawned, apc, history>>

PeekFront(q) == q    \* deviation: the task taken stays in the queue
PopFront(q)  == Tail(q)

Takes(w) ==
  /\ pc[w] \in {"take", "woken"} /\ lock = NoWorker
  /\ tasks # << >>
  /\ job' = [job EXCEPT ![w] = Head(tasks)]
  /\ tasks' = PopFront(tasks)
  /\ pc' = [pc EXCEPT ![w] = "taken"]
  /\ UNCHANGED <<exitFlag, undone, lock, opc, spawned, apc, history>>

TakesNothing(w) ==
  /\ pc[w] \in {"take", "woken"} /\ lock = NoWorker
  /\ exitFlag /\ tasks = << >>
  /\ pc' = [pc EXCEPT ![w] = "loop"]
  /\ UNCHANGED <<tasks, exitFlag, undone, lock, job, opc, spawned, apc, history>>

BeginTask(w) ==
  /\ pc[w] = "taken"
  /\ pc' = [pc EXCEPT ![w] = "running"]
  /\ begun' = begun \cup {job[w]}
  /\ late' = IF exitFlag THEN [late EXCEPT ![w] = @ + 1] ELSE late
  /\ UNCHANGED <<tasks, exitFlag, undone, lock, job, opc, spawned, apc, finished>>

(***************************************************************************)
(* The task returns once it has added what it adds and the task it waits   *)
(* for has ended.                                                          *)
(***************************************************************************)
EndTask(w) ==
  /\ pc[w] = "running"
  /\ \A t \in Task : Parent[t] = job[w] => apc[t] = "added"
  /\ Awaits[job[w]] \in finished \cup {NoTask}
  /\ pc' = [pc EXCEPT ![w] = "loop"]
  /\ finished' = finished \cup {job[w]}
  /\ job' = [job EXCEPT ![w] = NoTask]
  /\ undone' = undone - 1
  /\ UNCHANGED <<tasks, exitFlag, lock, opc, spawned, apc, begun, late>>

-----------------------------------------------------------------------------
WorkerStep(w) == \/ Announce(w) \/ Loop(w) \/ FindsNothing(w) \/ FallsAsleep(w)
                 \/ Takes(w) \/ TakesNothing(w) \/ BeginTask(w) \/ EndTask(w)
Owner  == Spawn \/ StartReturns \/ Destroy \/ NotifyAll \/ Join
Adders == \E t \in Task : AddCount(t) \/ AddPush(t)

Next == (\E w \in Worker : WorkerStep(w) \/ Spurious(w)) \/ Owner \/ Adders

Spec == Init /\ [][Next]_vars

(***************************************************************************)
(* Every thread that can run does; a thread that waits for the mutex gets  *)
(* it when it is free again and again.  Nothing makes the owner destroy    *)
(* the pool, a caller begin to add, or a waiting thread wake by itself.    *)
(***************************************************************************)
Fairness ==
  /\ \A w \in Worker : SF_vars(WorkerStep(w))
  /\ WF_vars(Spawn) /\ WF_vars(StartReturns) /\ WF_vars(NotifyAll) /\ WF_vars(Join)
  /\ \A t \in Task : /\ SF_vars(AddPush(t))
                     /\ WF_vars(Parent[t] # NoTask /\ AddCount(t))

FairSpec == Spec /\ Fairness

-----------------------------------------------------------------------------
TypeOK ==
  /\ tasks \in Seq(Task)
  /\ exitFlag \in BOOLEAN
  /\ undone \in Nat
  /\ lock \in Worker \cup {NoWorker}
  /\ pc \in [Worker -> {"none", "born", "loop", "take", "drowsy", "waiting",
                        "woken", "taken", "running", "ended"}]
  /\ job \in [Worker -> Task \cup {NoTask}]
  /\ opc \in {"idle", "running", "flagged", "joining", "gone"}
  /\ spawned \in 0..Workers
  /\ apc \in [Task -> {"idle", "counted", "added"}]
  /\ begun \subseteq Task /\ finished \subseteq begun
  /\ late \in [Worker -> Nat]

(***************************************************************************)
(* A task is in one place: in the queue, with one worker, or finished.  No *)
(* two workers take the same task, and none is lost between the queue and  *)
(* the worker (take_ copies the task out before it pops it).               *)
(***************************************************************************)
Added == {t \in Task : apc[t] = "added"}
Taken == {job[w] : w \in Worker} \ {NoTask}

EachTaskOnce ==
  /\ IsInjective(tasks)
  /\ \A w, v \in Worker : job[w] = job[v] /\ job[w] # NoTask => w = v
  /\ Range(tasks) \cup Taken \cup finished = Added
  /\ Range(tasks) \cap (Taken \cup finished) = {}
  /\ Taken \cap finished = {}

(***************************************************************************)
(* num_of_undone_task() is the number of tasks whose add() has begun and   *)
(* whose run has not returned.                                             *)
(***************************************************************************)
UndoneCount ==
  undone = Cardinality({t \in Task : apc[t] # "idle"} \ finished)

(***************************************************************************)
(* After the destructor has raised the flag, a worker begins at most one   *)
(* more task, the one it was about to take: the wait of the destructor     *)
(* does not grow with the queue.                                           *)
(***************************************************************************)
AtMostOneLate == \A w \in Worker : late[w] <= 1

(***************************************************************************)
(* Every task added runs, unless the pool is destroyed: no push is slept   *)
(* through, even when a task waits in its body for one that was pushed     *)
(* right behind it and only another worker can run that.                   *)
(***************************************************************************)
TasksRun ==
  \A t \in Task :
    /\ opc = "running" /\ apc[t] = "added"
    /\ Awaits[t] # NoTask => apc[Awaits[t]] = "added"
    ~> t \in finished \/ exitFlag

(***************************************************************************)
(* The comment on the destructor: it waits until all background threads    *)
(* have ended, so it may block for a while (and no longer).                *)
(***************************************************************************)
DestructorReturns == opc = "joining" ~> opc = "gone"
-----------------------------------------------------------------------------
(***************************************************************************)
(* Why the safety properties hold: facts that every step preserves,        *)
(* together with TypeOK, EachTaskOnce and UndoneCount.                     *)
(*                                                                         *)
(* Busy: a worker has a task exactly while it is between taking one and    *)
(* its end, and the task that runs has begun.                              *)
(* InTurn: start() makes the workers one after the other.                  *)
(* LateOnce: a worker that has begun a task late is past its only chance:  *)
(* it runs it, tests its loop, or has ended, and the flag is set.          *)
(***************************************************************************)
Busy ==
  \A w \in Worker : /\ job[w] # NoTask <=> pc[w] \in {"taken", "running"}
                    /\ pc[w] = "running" => job[w] \in begun

InTurn == \A w \in Worker : w > spawned => pc[w] = "none"

LateOnce ==
  \A w \in Worker :
    /\ late[w] <= 1
    /\ late[w] = 1 => exitFlag /\ pc[w] \in {"running", "loop", "ended"}

PoolInv == TypeOK /\ EachTaskOnce /\ UndoneCount /\ Busy /\ InTurn /\ LateOnce
=============================================================================
