----------------------------- MODULE ThreadPool -----------------------------
(***************************************************************************)
(* A ThreadPool: workers that take tasks from a queue, and one client that *)
(* starts and stops them, adds and removes tasks, bounds the number of     *)
(* active workers, waits for completion (running tasks itself or not) and  *)
(* destroys the pool.  A running task may add tasks, as the mark stack     *)
(* tasks of MarkSweep do.  A section under task_queue_lock_ is one step.   *)
(***************************************************************************)
EXTENDS Naturals, Sequences, FiniteSets, SequencesExt

CONSTANTS
  Workers,   \* threads_
  Tasks,     \* the tasks that may be added, each once
  Client     \* the thread that created the pool

PoolAssumption ==
  /\ IsFiniteSet(Workers) /\ Workers # {}
  /\ Client \notin Workers

VARIABLES
  tasks,                \* tasks_
  started,
  shutting_down,
  waiting_count,
  max_active_workers,
  creation_count,       \* creation_barier_
  pc,                   \* where each thread is
  task,                 \* the task each thread runs
  added, removed, done  \* history: tasks added, removed unrun, finished

pool == <<tasks, started, shutting_down, waiting_count, max_active_workers, creation_count>>
history == <<added, removed, done>>
vars == <<pool, pc, task, history>>

NoTask == "no task"
Everyone == Workers \cup {Client}
NumThreads == Cardinality(Workers)

Init ==
  /\ tasks = <<>> /\ started = FALSE /\ shutting_down = FALSE
  /\ waiting_count = 0 /\ max_active_workers = NumThreads
  /\ creation_count = NumThreads + 1
  /\ pc = [t \in Everyone |-> "create"]
  /\ task = [t \in Everyone |-> NoTask]
  /\ added = {} /\ removed = {} /\ done = {}

HasOutstandingTasks == started /\ tasks # <<>>

\* Every thread passes the creation barrier, the client included.
PassCreationBarrier(t) ==
  /\ pc[t] = "create"
  /\ creation_count' = creation_count - 1
  /\ pc' = [pc EXCEPT ![t] = "created"]
  /\ UNCHANGED <<tasks, started, shutting_down, waiting_count, max_active_workers, task, history>>

\* The barrier is down: workers look for tasks, the constructor returns.
LeaveCreationBarrier(t) ==
  /\ pc[t] = "created" /\ creation_count = 0
  /\ pc' = [pc EXCEPT ![t] = IF t = Client THEN "idle" ELSE "get"]
  /\ UNCHANGED <<pool, task, history>>

-----------------------------------------------------------------------------
(* Workers *)

\* The workers AddTask may signal: none unless the pool is started.
Signallable == {w \in Workers : pc[w] = "asleep" /\ started /\ waiting_count # 0}

\* AddTask, by the client or by a running task.
AddTask(t, k) ==
  /\ pc[t] = "run" \/ (t = Client /\ pc[t] = "idle")
  /\ k \notin added
  /\ tasks' = Append(tasks, k)
  /\ added' = added \cup {k}
  /\ IF Signallable = {}
     THEN UNCHANGED pc
     ELSE \E w \in Signallable : pc' = [pc EXCEPT ![w] = "signalled"]
  /\ UNCHANGED <<started, shutting_down, waiting_count, max_active_workers, creation_count, task,
                 removed, done>>

\* The waiting count when w has the lock: a woken worker counts itself out.
CountWithout(w) == IF pc[w] = "signalled" THEN waiting_count - 1 ELSE waiting_count

\* Variant: < for <=.
StrictlyFewer(w) == NumThreads - CountWithout(w) < max_active_workers

\* The bound on active workers allows w to take a task.
MayBeActive(w) == NumThreads - CountWithout(w) <= max_active_workers

\* GetTask returns a task.
GetTask(w) ==
  /\ w \in Workers /\ pc[w] \in {"get", "signalled"}
  /\ ~shutting_down /\ MayBeActive(w) /\ HasOutstandingTasks
  /\ waiting_count' = CountWithout(w)
  /\ task' = [task EXCEPT ![w] = Head(tasks)]
  /\ tasks' = Tail(tasks)
  /\ pc' = [pc EXCEPT ![w] = "run"]
  /\ UNCHANGED <<started, shutting_down, max_active_workers, creation_count, history>>

\* Variant: the count is tested before the worker is counted.
TestedTooEarly(w) == CountWithout(w) = NumThreads /\ ~HasOutstandingTasks

\* The worker that falls asleep last announces completion.
MayBeDone(w) == CountWithout(w) + 1 = NumThreads /\ ~HasOutstandingTasks

\* completion_condition_.Broadcast: a client asleep in Wait looks again.
CompletionBroadcast(places) ==
  IF places[Client] = "asleep" THEN [places EXCEPT ![Client] = "await"] ELSE places

\* GetTask finds nothing to do and waits.
WaitForTask(w) ==
  /\ w \in Workers /\ pc[w] \in {"get", "signalled"}
  /\ ~shutting_down /\ ~(MayBeActive(w) /\ HasOutstandingTasks)
  /\ waiting_count' = CountWithout(w) + 1
  /\ LET places == [pc EXCEPT ![w] = "asleep"]
     IN  pc' = IF MayBeDone(w) THEN CompletionBroadcast(places) ELSE places
  /\ UNCHANGED <<tasks, started, shutting_down, max_active_workers, creation_count, task, history>>

\* GetTask returns null: the worker ends.
StopWorker(w) ==
  /\ w \in Workers /\ pc[w] \in {"get", "signalled"} /\ shutting_down
  /\ waiting_count' = CountWithout(w)
  /\ pc' = [pc EXCEPT ![w] = "exit"]
  /\ UNCHANGED <<tasks, started, shutting_down, max_active_workers, creation_count, task, history>>

\* The task a thread runs has finished.
FinishTask(t) ==
  /\ pc[t] = "run"
  /\ done' = done \cup {task[t]}
  /\ task' = [task EXCEPT ![t] = NoTask]
  /\ pc' = [pc EXCEPT ![t] = IF t = Client THEN "work" ELSE "get"]
  /\ UNCHANGED <<pool, added, removed>>

\* A wait on a condition variable returns without a signal.
SpuriousWakeup(t) ==
  /\ pc[t] = "asleep"
  /\ pc' = [pc EXCEPT ![t] = IF t = Client THEN "await" ELSE "signalled"]
  /\ UNCHANGED <<pool, task, history>>

-----------------------------------------------------------------------------
(* The client *)

Idle == pc[Client] = "idle"

\* task_queue_condition_.Broadcast.
AllSignalled == [t \in Everyone |-> IF t # Client /\ pc[t] = "asleep" THEN "signalled" ELSE pc[t]]

\* The workers StartWorkers wakes: all of them.
Awakened == AllSignalled

StartWorkers ==
  /\ Idle
  /\ started' = TRUE
  /\ pc' = Awakened
  /\ UNCHANGED <<tasks, shutting_down, waiting_count, max_active_workers, creation_count, task,
                 history>>

StopWorkers ==
  /\ Idle
  /\ started' = FALSE
  /\ UNCHANGED <<tasks, shutting_down, waiting_count, max_active_workers, creation_count, pc, task,
                 history>>

RemoveAllTasks ==
  /\ Idle
  /\ removed' = removed \cup ToSet(tasks)
  /\ tasks' = <<>>
  /\ UNCHANGED <<started, shutting_down, waiting_count, max_active_workers, creation_count, pc,
                 task, added, done>>

\* The callers leave at least one worker active.
SetMaxActiveWorkers(n) ==
  /\ Idle
  /\ max_active_workers' = n
  /\ UNCHANGED <<tasks, started, shutting_down, waiting_count, creation_count, pc, task, history>>

\* Wait is called.
BeginWait(do_work) ==
  /\ Idle
  /\ pc' = [pc EXCEPT ![Client] = IF do_work THEN "work" ELSE "await"]
  /\ UNCHANGED <<pool, task, history>>

\* Wait with do_work takes a task, whatever the bound on active workers.
TryGetTask ==
  /\ pc[Client] = "work" /\ HasOutstandingTasks
  /\ task' = [task EXCEPT ![Client] = Head(tasks)]
  /\ tasks' = Tail(tasks)
  /\ pc' = [pc EXCEPT ![Client] = "run"]
  /\ UNCHANGED <<started, shutting_down, waiting_count, max_active_workers, creation_count, history>>

NoMoreWork ==
  /\ pc[Client] = "work" /\ ~HasOutstandingTasks
  /\ pc' = [pc EXCEPT ![Client] = "await"]
  /\ UNCHANGED <<pool, task, history>>

\* Variant: an empty queue is enough.
QueueEmpty == ~HasOutstandingTasks

\* Every worker waits and nothing is left on the queue.
AllWaiting == waiting_count = NumThreads /\ ~HasOutstandingTasks

\* Wait returns, or sleeps on completion_condition_.
AwaitCompletion ==
  /\ pc[Client] = "await"
  /\ pc' = [pc EXCEPT ![Client] = IF shutting_down \/ AllWaiting THEN "idle" ELSE "asleep"]
  /\ UNCHANGED <<pool, task, history>>

\* The destructor tells the workers to shut down, and joins them.
Destroy ==
  /\ Idle
  /\ shutting_down' = TRUE
  /\ pc' = [Awakened EXCEPT ![Client] = "join"]
  /\ UNCHANGED <<tasks, started, waiting_count, max_active_workers, creation_count, task, history>>

Joined ==
  /\ pc[Client] = "join" /\ \A w \in Workers : pc[w] = "exit"
  /\ pc' = [pc EXCEPT ![Client] = "gone"]
  /\ UNCHANGED <<pool, task, history>>

-----------------------------------------------------------------------------
WorkerStep(w) ==
  PassCreationBarrier(w) \/ LeaveCreationBarrier(w) \/ GetTask(w) \/ WaitForTask(w)
    \/ StopWorker(w) \/ FinishTask(w)

WaitStep ==
  PassCreationBarrier(Client) \/ LeaveCreationBarrier(Client) \/ TryGetTask \/ NoMoreWork
    \/ FinishTask(Client) \/ AwaitCompletion \/ Joined

Next ==
  \/ \E w \in Workers : WorkerStep(w)
  \/ WaitStep
  \/ \E t \in Everyone : SpuriousWakeup(t) \/ \E k \in Tasks : AddTask(t, k)
  \/ StartWorkers \/ StopWorkers \/ RemoveAllTasks \/ Destroy
  \/ \E n \in 1 .. NumThreads : SetMaxActiveWorkers(n)
  \/ \E b \in BOOLEAN : BeginWait(b)
  \/ pc[Client] = "gone" /\ UNCHANGED vars

Spec == Init /\ [][Next]_vars

\* Threads are scheduled, and tasks finish.
FairSpec == Spec /\ WF_vars(WaitStep) /\ \A w \in Workers : WF_vars(WorkerStep(w))

-----------------------------------------------------------------------------
(* Properties *)

\* Wait keeps its promise: when it returns, every task that was added, those
\* added by running tasks included, has finished, was removed, or is still on
\* the queue of a pool that has been stopped.
WaitMeansDone ==
  [][pc[Client] = "await" /\ pc'[Client] = "idle" =>
       added = done \cup removed \cup (IF started THEN {} ELSE ToSet(tasks))]_vars

InCall == pc[Client] \in {"await", "work", "asleep", "join"}
Returned == pc[Client] \in {"idle", "gone"}

\* Wait returns, and the destructor ends, as long as tasks finish.
CallsReturn == InCall ~> Returned
=============================================================================
