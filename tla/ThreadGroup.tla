---------------------------- MODULE ThreadGroup ----------------------------
(***************************************************************************)
(* chef::thread_group (src/include/chef_base/chef_thread_group.hpp): N     *)
(* task_threads and a choice of the one that gets a task.                  *)
(*                                                                         *)
(* A task is added at most once, by the thread adder[t] outside the group  *)
(* or, when adder[t] is a task, by the body of that task.  A caller makes  *)
(* one call at a time.  Each task_thread is what module TaskThread shows it to *)
(* be for immediate tasks: a queue served in order by one thread, with a   *)
(* counter that is raised before the insertion and lowered after the run.  *)
(*                                                                         *)
(* round_robin_index_ is a plain integer: reading it and writing it back   *)
(* are two steps.  The loops of add() and num_of_undone_task() read one    *)
(* counter a step, without any lock.                                       *)
(***************************************************************************)
EXTENDS Integers, Sequences, FiniteSets, Functions

CONSTANTS
  N,           \* num_of_thread_
  Modulus,     \* 2^32 in the code: round_robin_index_ is a uint32_t
  Strategies,  \* "round_robin", "random", "idle"; "index": add(t, index) is called
  Caller,      \* threads outside the group
  Task,
  NoTask,
  Adders,      \* who may add what: the caller, or the task, that adds t; or NoTask
  Index,       \* Index[t]: the index of add(t, index), for "index"
  Summing      \* the adders beside which somebody calls num_of_undone_task(), once

ASSUME GroupAssumption ==
  /\ N \in Nat \ {0} /\ Modulus \in Nat /\ Modulus >= N
  /\ Strategies \subseteq {"round_robin", "random", "idle", "index"}
  /\ IsFiniteSet(Task) /\ NoTask \notin Task \cup Caller
  /\ Adders \subseteq [Task -> Caller \cup Task \cup {NoTask}]
  /\ Index \in [Task -> 0..Modulus - 1]
  /\ Summing \subseteq Adders

Thread == 0..N - 1

VARIABLES
  strategy,    \* strategy_, given to the constructor
  adder,       \* adder[t]: who adds t
  roundRobin,  \* round_robin_index_
  started,     \* how many threads start() has started
  undone,      \* num_of_undone_task_ of each thread
  queue,       \* the tasks waiting in each thread
  running,     \* the task each thread runs, or NoTask
  at,          \* where the call add(t) is
  index,       \* its index: min_index, the value read, or the caller's
  pos,         \* its i
  least,       \* its min_undone
  sum,         \* the call of num_of_undone_task(): where, i, ret
  loadBefore,  \* history: the counters when add(t) began its scan
  addedBefore, \* history: the tasks whose add() had returned when add(t) began
  sumSeen      \* history: the total before the sum, and the tasks counted since

vars == <<strategy, adder, roundRobin, started, undone, queue, running, at, index,
          pos, least, sum, loadBefore, addedBefore, sumSeen>>

threads == <<strategy, adder, started, queue, running>>
calls   == <<index, pos, least, loadBefore, addedBefore>>
sums    == <<sum, sumSeen>>

Init ==
  /\ strategy \in Strategies /\ adder \in Adders
  /\ roundRobin = 0 /\ started = 0
  /\ undone = [k \in Thread |-> 0]
  /\ queue = [k \in Thread |-> << >>]
  /\ running = [k \in Thread |-> NoTask]
  /\ at = [t \in Task |-> "idle"]
  /\ index = [t \in Task |-> 0]
  /\ pos = [t \in Task |-> 0]
  /\ least = [t \in Task |-> 0]
  /\ sum = [at |-> "idle", pos |-> 0, ret |-> 0]
  /\ loadBefore = [t \in Task |-> undone]
  /\ addedBefore = [t \in Task |-> {}]
  /\ sumSeen = [first |-> 0, counted |-> 0]

-----------------------------------------------------------------------------
(***************************************************************************)
(* Total: the tasks counted and not finished.  A task is finished once the *)
(* counter of its thread is lowered.                                       *)
(***************************************************************************)
Total == Cardinality({t \in Task : at[t] \in {"counted", "added"}})

Begins(t) ==
  /\ at[t] = "idle" /\ adder[t] # NoTask
  /\ adder[t] \in Task => \E k \in Thread : running[k] = adder[t]
  /\ \A s \in Task : adder[s] = adder[t] => at[s] \in {"idle", "added", "finished"}
  /\ addedBefore' = [addedBefore EXCEPT ![t] =
       {s \in Task : at[s] \in {"added", "finished"}}]

(***************************************************************************)
(* add(t): the choice, by each strategy.                                   *)
(***************************************************************************)
ReadIndex(t) ==
  /\ strategy = "round_robin" /\ Begins(t)
  /\ at' = [at EXCEPT ![t] = "read"]
  /\ index' = [index EXCEPT ![t] = roundRobin]
  /\ UNCHANGED <<roundRobin, undone, threads, pos, least, loadBefore, sums>>

SameIndex(i) == i    \* deviation: the index is not increased
NextIndex(i) == (i + 1) % Modulus

WriteIndex(t) ==
  /\ at[t] = "read"
  /\ at' = [at EXCEPT ![t] = "chosen"]
  /\ roundRobin' = NextIndex(index[t])
  /\ UNCHANGED <<undone, threads, calls, sums>>

Random(t) ==
  /\ strategy = "random" /\ Begins(t)
  /\ at' = [at EXCEPT ![t] = "chosen"]
  /\ \E i \in 0..Modulus - 1 : index' = [index EXCEPT ![t] = i]
  /\ UNCHANGED <<roundRobin, undone, threads, pos, least, loadBefore, sums>>

ByIndex(t) ==
  /\ strategy = "index" /\ Begins(t)
  /\ at' = [at EXCEPT ![t] = "chosen"]
  /\ index' = [index EXCEPT ![t] = Index[t]]
  /\ UNCHANGED <<roundRobin, undone, threads, pos, least, loadBefore, sums>>

ScanBegins(t) ==
  /\ strategy = "idle" /\ Begins(t)
  /\ at' = [at EXCEPT ![t] = "scan"]
  /\ index' = [index EXCEPT ![t] = 0]
  /\ least' = [least EXCEPT ![t] = undone[0]]
  /\ pos' = [pos EXCEPT ![t] = 1]
  /\ loadBefore' = [loadBefore EXCEPT ![t] = undone]
  /\ UNCHANGED <<roundRobin, undone, threads, sums>>

KeptLeast(t, n) == least[t]    \* deviation: only min_index is updated
LowerLeast(t, n) == IF n < least[t] THEN n ELSE least[t]

ScanStep(t) ==
  /\ at[t] = "scan" /\ pos[t] < N
  /\ index' = [index EXCEPT ![t] = IF undone[pos[t]] < least[t] THEN pos[t] ELSE @]
  /\ least' = [least EXCEPT ![t] = LowerLeast(t, undone[pos[t]])]
  /\ pos' = [pos EXCEPT ![t] = @ + 1]
  /\ UNCHANGED <<roundRobin, undone, threads, at, loadBefore, addedBefore, sums>>

(***************************************************************************)
(* add(t, index): count, then insert into the queue of the thread.         *)
(***************************************************************************)
Chosen(t) == at[t] = "chosen" \/ (at[t] = "scan" /\ pos[t] = N)

ThreadOf(i) == i % N

AddCount(t) ==
  /\ Chosen(t)
  /\ at' = [at EXCEPT ![t] = "counted"]
  /\ undone' = [undone EXCEPT ![ThreadOf(index[t])] = @ + 1]
  /\ sumSeen' = [sumSeen EXCEPT !.counted = @ + 1]
  /\ UNCHANGED <<roundRobin, threads, calls, sum>>

PushFront(q, t) == <<t>> \o q    \* deviation: the newest task runs first
PushBack(q, t)  == Append(q, t)

AddInsert(t) ==
  /\ at[t] = "counted"
  /\ at' = [at EXCEPT ![t] = "added"]
  /\ queue' = [queue EXCEPT ![ThreadOf(index[t])] = PushBack(@, t)]
  /\ UNCHANGED <<strategy, adder, roundRobin, started, undone, running, calls, sums>>

-----------------------------------------------------------------------------
(***************************************************************************)
(* start(), and what a started thread does.                                *)
(***************************************************************************)
AllButLast == N - 1    \* deviation: the loop ends one thread early
HowMany    == N

StartOne ==
  /\ started < HowMany
  /\ started' = started + 1
  /\ UNCHANGED <<strategy, adder, roundRobin, undone, queue, running, at, calls, sums>>

PopFront(q)  == Tail(q)

BeginTask(k) ==
  /\ k < started /\ running[k] = NoTask /\ queue[k] # << >>
  /\ running' = [running EXCEPT ![k] = Head(queue[k])]
  /\ queue' = [queue EXCEPT ![k] = PopFront(@)]
  /\ UNCHANGED <<strategy, adder, roundRobin, started, undone, at, calls, sums>>

(* A task returns once the calls of add() in its body have. *)
EndTask(k) ==
  /\ running[k] # NoTask
  /\ \A t \in Task : adder[t] = running[k] => at[t] \in {"added", "finished"}
  /\ running' = [running EXCEPT ![k] = NoTask]
  /\ undone' = [undone EXCEPT ![k] = @ - 1]
  /\ at' = [at EXCEPT ![running[k]] = "finished"]
  /\ UNCHANGED <<strategy, adder, roundRobin, started, queue, calls, sums>>

-----------------------------------------------------------------------------
(***************************************************************************)
(* num_of_undone_task().                                                   *)
(***************************************************************************)
SecondThread == 1    \* deviation: the loop begins like the one of add()
FirstThread  == 0

SumBegins ==
  /\ adder \in Summing /\ sum.at = "idle"
  /\ sum' = [at |-> "scan", pos |-> FirstThread, ret |-> 0]
  /\ sumSeen' = [first |-> Total, counted |-> 0]
  /\ UNCHANGED <<roundRobin, undone, threads, at, calls>>

SumStep ==
  /\ sum.at = "scan" /\ sum.pos < N
  /\ sum' = [sum EXCEPT !.pos = @ + 1, !.ret = @ + undone[sum.pos],
                        !.at = IF sum.pos = N - 1 THEN "done" ELSE "scan"]
  /\ UNCHANGED <<roundRobin, undone, threads, at, calls, sumSeen>>

-----------------------------------------------------------------------------
Add(t) == \/ ReadIndex(t) \/ WriteIndex(t) \/ Random(t) \/ ByIndex(t)
          \/ ScanBegins(t) \/ ScanStep(t) \/ AddCount(t) \/ AddInsert(t)

Serve(k) == BeginTask(k) \/ EndTask(k)

Next == \/ \E t \in Task : Add(t)
        \/ StartOne
        \/ \E k \in Thread : Serve(k)
        \/ SumBegins \/ SumStep

Spec == Init /\ [][Next]_vars

(***************************************************************************)
(* A call that was begun goes on, start() starts every thread, and a       *)
(* thread serves its queue (ImmediateRuns of module TaskThread).           *)
(***************************************************************************)
FairSpec ==
  /\ Spec
  /\ WF_vars(StartOne)
  /\ \A k \in Thread : WF_vars(Serve(k))
  /\ \A t \in Task : /\ WF_vars(at[t] # "idle" /\ Add(t))
                     /\ WF_vars(adder[t] \in Task /\ Add(t))

-----------------------------------------------------------------------------
(***************************************************************************)
(* Types, and each counter is the number of tasks that were given to its   *)
(* thread and have not finished: those on their way into the queue, those  *)
(* in it, and the one that runs.                                           *)
(***************************************************************************)
TypeOK ==
  /\ strategy \in Strategies /\ adder \in Adders
  /\ roundRobin \in 0..Modulus - 1
  /\ started \in 0..N
  /\ queue \in [Thread -> Seq(Task)]
  /\ running \in [Thread -> Task \cup {NoTask}]
  /\ at \in [Task -> {"idle", "read", "scan", "chosen", "counted", "added", "finished"}]
  /\ index \in [Task -> 0..Modulus - 1]
  /\ \A k \in Thread :
       undone[k] = Cardinality({t \in Task : /\ at[t] \in {"counted", "added"}
                                             /\ ThreadOf(index[t]) = k})

(***************************************************************************)
(* The comments on the strategies: round robin goes in turn, so the        *)
(* numbers of tasks two threads were given never differ by more than one,  *)
(* when one thread makes the calls and N divides Modulus.                  *)
(***************************************************************************)
Given(k) == {t \in Task : /\ at[t] \in {"chosen", "counted", "added", "finished"}
                          /\ ThreadOf(index[t]) = k}

OneCaller == \A s, t \in Task : adder[s] = adder[t]

RoundRobinEven ==
  strategy = "round_robin" /\ OneCaller =>
    \A j, k \in Thread : Cardinality(Given(j)) <= Cardinality(Given(k)) + 1

(***************************************************************************)
(* The idle strategy gives a task to a thread that, when the task is       *)
(* counted, has no more to do than any other thread had when the scan      *)
(* began, and less than those with a smaller number had; as long as one    *)
(* thread adds all tasks, the threads only get less to do meanwhile.       *)
(***************************************************************************)
IdleChoice ==
  [][OneCaller => \A t \in Task : at[t] = "scan" /\ at'[t] = "counted" =>
       \A j \in Thread : IF j < index[t] THEN undone[index[t]] < loadBefore[t][j]
                                         ELSE undone[index[t]] <= loadBefore[t][j]]_vars

(***************************************************************************)
(* Tasks added with one index, or with two that leave the same remainder,  *)
(* run one after the other, in the order of the calls: the use the header  *)
(* recommends to callers that want to do without locks.                    *)
(***************************************************************************)
KindInOrder ==
  [][\A k \in Thread :
       strategy = "index" /\ running[k] = NoTask /\ running'[k] # NoTask =>
         LET t == running'[k] IN
         \A s \in addedBefore[t] :
           Index[s] % N = Index[t] % N => at[s] = "finished"]_vars

(***************************************************************************)
(* num_of_undone_task() of the group adds counters that change meanwhile.  *)
(* Its result is off by no more than the number of tasks counted during    *)
(* the call: at most those more than were undone at the beginning, at most *)
(* those less than are undone at the end.                                  *)
(***************************************************************************)
SumWithin ==
  [][sum.at = "scan" /\ sum'.at = "done" =>
       /\ sum'.ret <= sumSeen.first + sumSeen.counted
       /\ Total <= sum'.ret + sumSeen.counted]_vars

(***************************************************************************)
(* Every task handed to a group that is started gets run, also one handed  *)
(* to it before, and one handed to it by another task: again and again     *)
(* there is no task that was handed over and has not finished.             *)
(***************************************************************************)
EveryTaskRuns == []<>(\A t \in Task : at[t] \in {"idle", "finished"})
=============================================================================
