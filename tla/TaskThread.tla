----------------------------- MODULE TaskThread -----------------------------
(***************************************************************************)
(* chef::task_thread (src/include/chef_base/chef_task_thread.hpp): one     *)
(* background thread that runs the tasks other threads hand to it.         *)
(*                                                                         *)
(* Every task t has a caller of its own: a thread that calls add(t) once,  *)
(* at any time (before start(), while the worker runs, during or after     *)
(* stop_and_join()), or, when Parent[t] is a task, the body of that task,  *)
(* which then runs on the worker itself.  The owner starts and stops the   *)
(* worker, at most MaxStarts times.                                        *)
(*                                                                         *)
(* A critical section of add() is one step, because nothing in it can be   *)
(* observed from outside the mutex.  The worker reads exit_flag_ and the   *)
(* clock several times inside its critical section, neither of which the   *)
(* mutex protects, so its section is several steps and `held' says that it *)
(* owns mutex_ between them.                                               *)
(*                                                                         *)
(* A definition marked "deviation" is not part of the thread: it is the    *)
(* next definition with a slip in it, for checking that a property below   *)
(* would notice.                                                           *)
(***************************************************************************)
EXTENDS Integers, Sequences, FiniteSets, Functions

CONSTANTS
  Task,       \* the tasks handed to the thread, each of them once
  NoTask,     \* "no task": the worker is between tasks, a task has no parent
  Delay,      \* Delay[t] is the defferred_time_ms of add(t), in clock ticks
  Parent,     \* Parent[t] is the task whose body calls add(t), or NoTask
  Mode,       \* release_mode_
  MaxTime,    \* bound: the clock stops here once nothing deferred waits for it
  MaxStarts   \* bound: how often the owner calls start()

ASSUME TaskAssumption  == IsFiniteSet(Task) /\ NoTask \notin Task
ASSUME DelayAssumption == Delay \in [Task -> Nat]
ASSUME ParentAssumption == Parent \in [Task -> Task \cup {NoTask}]
ASSUME ModeAssumption  == Mode \in {"ASAP", "SHOULD", "ALL"}
ASSUME BoundAssumption == MaxTime \in Nat /\ MaxStarts \in Nat

VARIABLES
  tasks,      \* tasks_: the immediate tasks, oldest first
  deferred,   \* defferred_tasks_: by deadline, equal deadlines in add order
  due,        \* the multimap key of each deferred task
  collect,    \* collect_tasks, the worker's local batch
  cur,        \* the task the worker is inside of, or NoTask
  exitFlag,   \* exit_flag_
  held,       \* the worker owns mutex_
  undone,     \* num_of_undone_task_
  runned,     \* runned_event_ has been notified
  pc,         \* where the worker is
  opc,        \* where the owner is
  apc,        \* where the call add(t) is
  starts,     \* how often start() has been called
  now,        \* now_()
  executed,   \* history: the tasks in the order in which they began
  stamp,      \* history: position of t in the order of the insertions
  inTime      \* history: the tasks inserted before exit_flag_ was set

vars == <<tasks, deferred, due, collect, cur, exitFlag, held, undone, runned,
          pc, opc, apc, starts, now, executed, stamp, inTime>>

queues == <<tasks, deferred, due, stamp, inTime>>
owner  == <<opc, starts>>

-----------------------------------------------------------------------------
Added    == {t \in Task : apc[t] = "added"}
Begun    == Range(executed)
Finished == Begun \ {cur}

(***************************************************************************)
(* Where a new deadline goes in the multimap: behind every deadline that   *)
(* is not later, in front of the first one that is.                        *)
(***************************************************************************)
InsertAtFront(k, d) == k = 0    \* deviation: deadlines not sorted

InsertAt(k, d) ==
  /\ \A i \in 1..k : due[deferred[i]] <= d
  /\ \A i \in (k + 1)..Len(deferred) : due[deferred[i]] > d

(***************************************************************************)
(* append_expired_tasks_ stops at the first deadline in the future: the    *)
(* first k deferred tasks are due, and the next one is not.                *)
(***************************************************************************)
ExpiredAll(k) == k = Len(deferred)    \* deviation: deadlines not compared

Expired(k) ==
  /\ \A i \in 1..k : due[deferred[i]] <= now
  /\ k < Len(deferred) => due[deferred[k + 1]] > now

(***************************************************************************)
(* What the worker still has to run in its last pass.                      *)
(***************************************************************************)
ReleaseFallsThrough ==    \* deviation: the first break is missing
  IF Mode = "ALL" THEN collect \o deferred ELSE collect

ReleaseForgets ==         \* deviation: the last batch is all it looks at
  IF Mode = "ALL" THEN collect ELSE << >>

ReleaseQueue ==
  CASE Mode = "ASAP"   -> << >>
    [] Mode = "SHOULD" -> collect
    [] Mode = "ALL"    -> collect \o deferred

-----------------------------------------------------------------------------
Init ==
  /\ tasks = << >> /\ deferred = << >> /\ collect = << >>
  /\ due = [t \in Task |-> 0]
  /\ cur = NoTask
  /\ exitFlag = FALSE
  /\ held = FALSE
  /\ undone = 0
  /\ runned = FALSE
  /\ pc = "none" /\ opc = "idle"
  /\ apc = [t \in Task |-> "idle"]
  /\ starts = 0
  /\ now = 0
  /\ executed = << >>
  /\ stamp = [t \in Task |-> 0]
  /\ inTime = {}

(***************************************************************************)
(* add(): the counter goes up before the lock is asked for.  The body of a *)
(* task that adds another one does it while it runs.                       *)
(***************************************************************************)
AddCount(t) ==
  /\ apc[t] = "idle"
  /\ Parent[t] = cur \/ Parent[t] = NoTask
  /\ apc' = [apc EXCEPT ![t] = "counted"]
  /\ undone' = undone + 1
  /\ UNCHANGED <<queues, collect, cur, exitFlag, held, runned, pc, owner, now,
                 executed>>

(***************************************************************************)
(* add(), under the lock: the task enters one of the two queues, a         *)
(* deferred one with its deadline, and the worker is notified if it waits. *)
(* A task that adds another one while the worker holds the lock (its last  *)
(* pass) waits for itself.                                                 *)
(***************************************************************************)
NotifyNobody == pc' = pc    \* deviation: no notify_one()

NotifyOne == pc' = IF pc = "waiting" THEN "woken" ELSE pc

PushFront(t) ==             \* deviation: the wrong end of the deque
  tasks' = <<t>> \o tasks /\ UNCHANGED <<deferred, due>>

PushBack(t) ==
  tasks' = Append(tasks, t) /\ UNCHANGED <<deferred, due>>

InsertByDeadline(t) ==
  /\ due' = [due EXCEPT ![t] = now + Delay[t]]
  /\ \E k \in 0..Len(deferred) :
       /\ InsertAt(k, now + Delay[t])
       /\ deferred' = SubSeq(deferred, 1, k) \o <<t>>
                        \o SubSeq(deferred, k + 1, Len(deferred))
  /\ UNCHANGED tasks

AddInsert(t) ==
  /\ apc[t] = "counted"
  /\ ~held
  /\ apc' = [apc EXCEPT ![t] = "added"]
  /\ IF Delay[t] = 0 THEN PushBack(t) ELSE InsertByDeadline(t)
  /\ stamp' = [stamp EXCEPT ![t] = Cardinality(Added) + 1]
  /\ inTime' = IF exitFlag THEN inTime ELSE inTime \cup {t}
  /\ NotifyOne
  /\ UNCHANGED <<collect, cur, exitFlag, held, undone, runned, owner, now,
                 executed>>

-----------------------------------------------------------------------------
(***************************************************************************)
(* The owner.  start() makes the thread and waits until it has announced   *)
(* itself; stop_and_join() raises the flag (nobody is notified) and joins  *)
(* the thread if there is one.                                             *)
(***************************************************************************)
Start ==
  /\ opc = "idle" /\ starts < MaxStarts
  /\ opc' = "starting" /\ pc' = "born"
  /\ starts' = starts + 1
  /\ UNCHANGED <<queues, collect, cur, exitFlag, held, undone, runned, apc, now,
                 executed>>

StartReturns ==
  /\ opc = "starting" /\ runned
  /\ opc' = "running"
  /\ UNCHANGED <<queues, collect, cur, exitFlag, held, undone, runned, pc, apc,
                 starts, now, executed>>

Stop ==
  /\ opc \in {"idle", "running"}
  /\ exitFlag' = TRUE
  /\ opc' = IF opc = "running" THEN "joining" ELSE "idle"
  /\ UNCHANGED <<queues, collect, cur, held, undone, runned, pc, apc, starts,
                 now, executed>>

Join ==
  /\ opc = "joining" /\ pc = "ended"
  /\ opc' = "idle" /\ pc' = "none"
  /\ UNCHANGED <<queues, collect, cur, exitFlag, held, undone, runned, apc,
                 starts, now, executed>>

-----------------------------------------------------------------------------
(***************************************************************************)
(* The worker: run_in_thread_().                                           *)
(***************************************************************************)
Announce ==
  /\ pc = "born"
  /\ runned' = TRUE
  /\ pc' = "acquire"
  /\ UNCHANGED <<queues, collect, cur, exitFlag, held, undone, owner, apc, now,
                 executed>>

(***************************************************************************)
(* Lock, and test the condition of the waiting loop.  wait_for() gives the *)
(* lock back, so a worker that waits does not hold it.                     *)
(***************************************************************************)
NothingQueued == tasks = << >>    \* deviation: the flag is not looked at

NothingToDo == ~exitFlag /\ tasks = << >>

LoopTest ==
  /\ pc = "acquire" /\ ~held
  /\ pc' = IF NothingToDo THEN "waiting" ELSE "collect"
  /\ held' = ~NothingToDo
  /\ UNCHANGED <<queues, collect, cur, exitFlag, undone, runned, owner, apc,
                 now, executed>>

(***************************************************************************)
(* The 100 ms of wait_for() are over, or the thread wakes for no reason.   *)
(***************************************************************************)
Timeout ==
  /\ pc = "waiting"
  /\ pc' = "woken"
  /\ UNCHANGED <<queues, collect, cur, exitFlag, held, undone, runned, owner,
                 apc, now, executed>>

(***************************************************************************)
(* wait_for() returns with the lock: leave the loop if anything is         *)
(* deferred, otherwise test its condition again.                           *)
(***************************************************************************)

WaitAgain == deferred = << >> /\ NothingToDo

Wake ==
  /\ pc = "woken" /\ ~held
  /\ pc' = IF WaitAgain THEN "waiting" ELSE "collect"
  /\ held' = ~WaitAgain
  /\ UNCHANGED <<queues, collect, cur, exitFlag, undone, runned, owner, apc,
                 now, executed>>

(***************************************************************************)
(* Swap the immediate tasks into the local batch, then move what is due.   *)
(***************************************************************************)
CopiedTasks  == tasks    \* deviation: the queue is copied, not swapped
SwappedTasks == collect

Collect ==
  /\ pc = "collect"
  /\ pc' = "check"
  /\ tasks' = SwappedTasks
  /\ \E k \in 0..Len(deferred) :
       /\ Expired(k)
       /\ collect' = tasks \o SubSeq(deferred, 1, k)
       /\ deferred' = SubSeq(deferred, k + 1, Len(deferred))
  /\ UNCHANGED <<due, stamp, inTime, cur, exitFlag, held, undone, runned, owner,
                 apc, now, executed>>

(***************************************************************************)
(* Leave the loop or run the batch; either way the lock is released.       *)
(***************************************************************************)
Check ==
  /\ pc = "check"
  /\ pc' = IF exitFlag THEN "relock" ELSE "execute"
  /\ held' = FALSE
  /\ UNCHANGED <<queues, collect, cur, exitFlag, undone, runned, owner, apc,
                 now, executed>>

ExecuteReturns ==
  /\ pc = "execute" /\ collect = << >>
  /\ pc' = "acquire"
  /\ UNCHANGED <<queues, collect, cur, exitFlag, held, undone, runned, owner,
                 apc, now, executed>>

(***************************************************************************)
(* The last pass locks again and keeps the lock to the end of the thread.  *)
(***************************************************************************)
Relock ==
  /\ pc = "relock" /\ ~held
  /\ pc' = "release"
  /\ held' = TRUE
  /\ UNCHANGED <<queues, collect, cur, exitFlag, undone, runned, owner, apc,
                 now, executed>>

ReleaseReturns ==
  /\ pc = "release" /\ cur = NoTask /\ ReleaseQueue = << >>
  /\ pc' = "ended"
  /\ held' = FALSE
  /\ collect' = << >>
  /\ UNCHANGED <<queues, cur, exitFlag, undone, runned, owner, apc, now,
                 executed>>

(***************************************************************************)
(* execute_tasks_: call the front task, count it as done when it returns,  *)
(* then drop it.  (The multimap overload drops all of its tasks at the     *)
(* end, which nobody can see: the worker holds the lock meanwhile.)        *)
(***************************************************************************)
Running == CASE pc = "execute" -> collect
             [] pc = "release" -> ReleaseQueue
             [] OTHER -> << >>

BeginTask ==
  /\ cur = NoTask
  /\ Running # << >>
  /\ cur' = Head(Running)
  /\ executed' = Append(executed, cur')
  /\ UNCHANGED <<queues, collect, exitFlag, held, undone, runned, pc, owner,
                 apc, now>>

EndTask ==
  /\ cur # NoTask
  /\ \A t \in Task : Parent[t] = cur => apc[t] = "added"
  /\ cur' = NoTask
  /\ undone' = undone - 1
  /\ IF collect # << >>
       THEN collect' = Tail(collect) /\ UNCHANGED deferred
       ELSE deferred' = Tail(deferred) /\ UNCHANGED collect
  /\ UNCHANGED <<tasks, due, stamp, inTime, exitFlag, held, runned, pc, owner,
                 apc, now, executed>>

(***************************************************************************)
(* Time.  The clock may run up to MaxTime, and further while a deferred    *)
(* task waits for it.                                                      *)
(***************************************************************************)
Tick ==
  /\ now < MaxTime \/ \E t \in Range(deferred) : due[t] > now
  /\ now' = now + 1
  /\ UNCHANGED <<queues, collect, cur, exitFlag, held, undone, runned, pc,
                 owner, apc, executed>>

-----------------------------------------------------------------------------
Worker == \/ Announce \/ LoopTest \/ Wake \/ Collect \/ Check
          \/ ExecuteReturns \/ Relock \/ ReleaseReturns \/ BeginTask \/ EndTask
Owner  == Start \/ StartReturns \/ Stop \/ Join
Adders == \E t \in Task : AddCount(t) \/ AddInsert(t)

Next == Worker \/ Timeout \/ Owner \/ Adders \/ Tick

Spec == Init /\ [][Next]_vars

(***************************************************************************)
(* The scheduler runs every thread that can run, a call that has begun     *)
(* goes on, and a task's body reaches its own calls of add().  Nothing     *)
(* makes the owner start or stop, or a caller add.  The 100 ms timer of the*)
(* waiting loop is apart: without it only notify_one() wakes the worker.   *)
(***************************************************************************)
ThreadFairness ==
  /\ WF_vars(Worker)
  /\ WF_vars(StartReturns) /\ WF_vars(Join)
  /\ \A t \in Task : /\ WF_vars(AddInsert(t))
                     /\ WF_vars(Parent[t] # NoTask /\ AddCount(t))

TimerFairness == WF_vars(Timeout) /\ WF_vars(Tick)

FairSpec == Spec /\ ThreadFairness
-----------------------------------------------------------------------------
(***************************************************************************)
(* Type invariant: the queues hold tasks, the counter of unfinished tasks  *)
(* (an unsigned atomic) never goes below zero, the worker owns the lock    *)
(* exactly in its critical sections.                                       *)
(***************************************************************************)
QueueTypes ==
  /\ tasks \in Seq(Task) /\ deferred \in Seq(Task) /\ collect \in Seq(Task)
  /\ executed \in Seq(Task)
  /\ due \in [Task -> Nat] /\ stamp \in [Task -> Nat]
  /\ apc \in [Task -> {"idle", "counted", "added"}]
  /\ cur \in Task \cup {NoTask}
  /\ inTime \subseteq Task

ControlTypes ==
  /\ exitFlag \in BOOLEAN /\ held \in BOOLEAN /\ runned \in BOOLEAN
  /\ undone \in Nat /\ starts \in Nat /\ now \in Nat
  /\ pc \in {"none", "born", "acquire", "waiting", "woken", "collect", "check",
             "execute", "relock", "release", "ended"}
  /\ opc \in {"idle", "starting", "running", "joining"}

LockOwner == held <=> pc \in {"collect", "check", "release"}

TypeOK == QueueTypes /\ ControlTypes /\ LockOwner

(***************************************************************************)
(* num_of_undone_task() counts exactly the tasks whose add() has begun and *)
(* whose run has not returned: a caller that polls it for zero cannot be   *)
(* told too early that everything it added is done, whatever the order of  *)
(* the increments (before the lock) and the decrements (outside it).       *)
(***************************************************************************)
UndoneCount ==
  undone = Cardinality({t \in Task : apc[t] # "idle"} \ Finished)

(***************************************************************************)
(* The promise of the first line of the file: immediate tasks run in the   *)
(* order in which they were added, across any number of batches, and       *)
(* across a stop and a second start.  (Strictly: none of them runs twice.) *)
(***************************************************************************)
ImmediateInOrder ==
  \A i, j \in DOMAIN executed :
    i < j /\ Delay[executed[i]] = 0 /\ Delay[executed[j]] = 0
      => stamp[executed[i]] < stamp[executed[j]]

(***************************************************************************)
(* Deferred tasks run by deadline, and those with equal deadlines in add   *)
(* order, although they are collected in batches and new ones arrive       *)
(* between the batches.  A thread that stops with DO_ALL_DONE runs the     *)
(* rest early, so a second start may break the order there.                *)
(***************************************************************************)
DeferredInOrder ==
  \A i, j \in DOMAIN executed :
    LET t == executed[i]
        u == executed[j]
    IN i < j /\ Delay[t] > 0 /\ Delay[u] > 0
         => \/ due[t] < due[u]
            \/ due[t] = due[u] /\ stamp[t] < stamp[u]
            \/ Mode = "ALL" /\ starts > 1

(***************************************************************************)
(* No deferred task begins before its deadline, except in the last pass of *)
(* a thread that stops with DO_ALL_DONE.                                   *)
(***************************************************************************)
NoEarlyRun ==
  [][cur' # cur /\ cur' # NoTask /\ Delay[cur'] > 0
       => due[cur'] <= now \/ (Mode = "ALL" /\ pc = "release")]_vars

(***************************************************************************)
(* The release modes: when stop_and_join() returns, no task added before   *)
(* the stop is left behind that the mode says must run, wherever the       *)
(* worker was when the flag went up: DO_SHOULD_DONE runs the immediate     *)
(* ones, DO_ALL_DONE all of them.                                          *)
(***************************************************************************)
StopKeepsPromise ==
  opc = "idle" /\ starts > 0 =>
    \A t \in inTime :
      Mode = "ALL" \/ (Mode = "SHOULD" /\ Delay[t] = 0) => t \in Finished

(***************************************************************************)
(* With ASAP no task added after the stop ever runs, even one that the     *)
(* worker still moves into its batch on its way out.                       *)
(***************************************************************************)
AsapRunsNothingLate ==
  Mode = "ASAP" => \A t \in Begun : t \in inTime

(***************************************************************************)
(* The worker never sleeps through a notification: without the help of the *)
(* 100 ms timer, an immediate task of a started thread runs unless the     *)
(* owner stops the thread.                                                 *)
(***************************************************************************)
ImmediateRuns ==
  \A t \in Task :
    t \in Added /\ Delay[t] = 0 /\ opc = "running" ~> t \in Finished \/ exitFlag

(***************************************************************************)
(* With the timer, every deferred task runs unless the owner stops: only   *)
(* the timer finds out that a deadline has come.                           *)
(***************************************************************************)
DeferredRuns ==
  TimerFairness =>
    \A t \in Task :
      t \in Added /\ Delay[t] > 0 /\ opc = "running" ~> t \in Finished \/ exitFlag

(***************************************************************************)
(* So every task of a thread that nobody stops runs: the notifications and *)
(* the timer together miss none.                                           *)
(***************************************************************************)
TasksRun == ImmediateRuns /\ DeferredRuns

(***************************************************************************)
(* stop_and_join() returns ("the destructor waits until the tasks that     *)
(* should run have run, then returns"), although it notifies nobody.       *)
(***************************************************************************)
StopReturns == TimerFairness => (opc = "joining" ~> opc = "idle")

(***************************************************************************)
(* The thread implements the abstract queue: a batch and the queue behind  *)
(* it are one ready queue, and the task that runs has left it.             *)
(***************************************************************************)
Batch   == IF cur # NoTask /\ collect # << >> THEN Tail(collect) ELSE collect
Waiting == IF cur # NoTask /\ collect = << >> THEN Tail(deferred) ELSE deferred

Promise == INSTANCE TaskQueue WITH
  ready <- Batch \o tasks, later <- Range(Waiting), ran <- executed,
  closing <- exitFlag

ImplementsQueue == Promise!QSpec

-----------------------------------------------------------------------------
(***************************************************************************)
(* Why the safety properties hold: facts that every step preserves,        *)
(* together with TypeOK and UndoneCount.                                   *)
(*                                                                         *)
(* Placed: an added task is in one place only, and begins when it leaves   *)
(* the front of the batch (or, in the last pass, of the deferred tasks).   *)
(***************************************************************************)
Placed ==
  /\ IsInjective(tasks) /\ IsInjective(deferred) /\ IsInjective(collect)
  /\ Range(tasks) \cup Range(deferred) \cup Range(collect) \cup Begun \subseteq Added
  /\ Range(tasks) \cap Range(deferred) = {}
  /\ Range(tasks) \cap Range(collect) = {}
  /\ Range(deferred) \cap Range(collect) = {}
  /\ Range(tasks) \cap Begun = {}
  /\ (Range(deferred) \cup Range(collect)) \cap Begun \subseteq {cur}
  /\ pc \in {"none", "born", "acquire", "waiting", "woken", "collect", "ended"}
       => collect = << >>
  /\ cur # NoTask =>
       /\ cur \in Begun
       /\ pc \in {"execute", "release"}
       /\ IF collect # << >>
            THEN cur = Head(collect)
            ELSE deferred # << >> /\ cur = Head(deferred) /\ pc = "release"

(***************************************************************************)
(* Punctual: only what is due reaches the batch.                           *)
(***************************************************************************)
Punctual ==
  /\ \A t \in Range(tasks) : Delay[t] = 0
  /\ \A t \in Range(deferred) : Delay[t] > 0
  /\ \A t \in Range(collect) : Delay[t] > 0 => due[t] <= now

(***************************************************************************)
(* Ordered: the immediate tasks that have begun, then those of the batch,  *)
(* then the queue are in the order of their insertions.                    *)
(***************************************************************************)
Immediate == {t \in Task : Delay[t] = 0}

Ordered ==
  /\ \A t \in Added : stamp[t] <= Cardinality(Added)
  /\ \A i, j \in DOMAIN tasks : i < j => stamp[tasks[i]] < stamp[tasks[j]]
  /\ \A i, j \in DOMAIN collect :
       i < j /\ collect[i] \in Immediate /\ collect[j] \in Immediate
         => stamp[collect[i]] < stamp[collect[j]]
  /\ \A t \in Begun \cap Immediate : \A u \in Range(collect) \cap Immediate :
       u # cur => stamp[t] < stamp[u]
  /\ \A t \in (Begun \cup Range(collect)) \cap Immediate : \A u \in Range(tasks) :
       stamp[t] < stamp[u]
  /\ ImmediateInOrder

(***************************************************************************)
(* The owner has a thread to join exactly while there is a worker.         *)
(***************************************************************************)
WorkerExists == opc = "idle" <=> pc = "none"

ThreadInv == TypeOK /\ WorkerExists /\ Placed /\ Punctual /\ UndoneCount /\ Ordered
=============================================================================
