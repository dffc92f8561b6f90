---------------------------- MODULE MCBackground ----------------------------
(* The work that the runtime does in the background: the JIT compiler and its code
   cache, the daemon of the heap tasks, or a ThreadPool, one of the three at a time:
   chosen says which, and only that one steps. *)
EXTENDS JitCodeCache

CONSTANTS
  Requesters, TaskIds, Kinds, kWait, MaxTime,   \* of HeapTasks
  Client, Workers, Tasks                        \* of ThreadPool

VARIABLES
  chosen,
  tasks, target, kind, is_running, now, daemon, current, deadline, pending,
  collector_type, desired, wanted, heap_pc, added, asked,
  pool_tasks, started, shutting_down, waiting_count, max_active_workers,
  creation_count, pool_pc, pool_task, pool_added, removed, done

heapVars == <<tasks, target, kind, is_running, now, daemon, current, deadline, pending,
              collector_type, desired, wanted, heap_pc, added, asked>>
poolVars == <<pool_tasks, started, shutting_down, waiting_count, max_active_workers,
              creation_count, pool_pc, pool_task, pool_added, removed, done>>

Heap == INSTANCE HeapTasks WITH pc <- heap_pc

Pool == INSTANCE ThreadPool WITH
  tasks <- pool_tasks, pc <- pool_pc, task <- pool_task, added <- pool_added

ASSUME JitAssumption /\ Heap!HeapTaskAssumption /\ Pool!PoolAssumption

MCInit ==
  /\ chosen \in {"code cache", "heap tasks", "thread pool"}
  /\ Init /\ Heap!Init /\ Pool!Init

MCNext ==
  \/ chosen = "code cache" /\ Next /\ UNCHANGED <<chosen, heapVars, poolVars>>
  \/ chosen = "heap tasks" /\ Heap!Next /\ UNCHANGED <<chosen, vars, poolVars>>
  \/ chosen = "thread pool" /\ Pool!Next /\ UNCHANGED <<chosen, vars, heapVars>>

\* The fairness of each component, while it is the one chosen.
MCSpec ==
  /\ MCInit /\ [][MCNext]_<<chosen, vars, heapVars, poolVars>>
  /\ \A t \in Threads : WF_vars(chosen = "code cache" /\ Runs(t) /\ GoOn(t))
  /\ \A t \in Mutators :
       /\ WF_vars(chosen = "code cache" /\ Runs(t) /\ CHACheckpoint(t))
       /\ WF_vars(chosen = "code cache" /\ Runs(t) /\ MarkCode(t))
  /\ WF_heapVars(chosen = "heap tasks" /\ Heap!DaemonStep)
  /\ WF_heapVars(chosen = "heap tasks" /\ Heap!Tick)
  /\ \A r \in Requesters : WF_heapVars(chosen = "heap tasks" /\ Heap!RequestStep(r))
  /\ WF_poolVars(chosen = "thread pool" /\ Pool!WaitStep)
  /\ \A w \in Workers : WF_poolVars(chosen = "thread pool" /\ Pool!WorkerStep(w))

-----------------------------------------------------------------------------
(* The properties of the tasks and of the pool, and the liveness of all three *)

\* The daemon sleeps only while the processor runs, and not beyond the target time
\* of any task.
NoOversleep == Heap!NoOversleep

\* What the Heap points to, the queue holds and the daemon runs is not deleted, and
\* there is never more than one transition, trim or concurrent collection.
PendingIsAlive == Heap!PendingIsAlive

\* When ThreadPool::Wait returns, every task that was added, those added by running
\* tasks included, has finished, was removed, or is still on the queue of a pool
\* that has been stopped.
WaitMeansDone == Pool!WaitMeansDone

\* Background work gets done: a compilation or collection of the code cache ends
\* (CompilationsReturn), a heap task that is on the queue while the processor runs
\* leaves it to be run even if the processor is stopped meanwhile (TaskIsRun), and
\* ThreadPool::Wait returns and ~ThreadPool ends as long as tasks finish (CallsReturn).
\* (The compiler threads and the heap tasks are the same model values, so that one
\* quantifier ranges over both.)
WorkIsDone ==
  \A t \in Compilers :
    \/ chosen = "code cache" /\ pc[t] # "idle"
    \/ chosen = "heap tasks" /\ Heap!Queued(t)
    \/ chosen = "thread pool" /\ Pool!InCall
    ~> CASE chosen = "code cache" -> pc[t] = "idle"
         [] chosen = "heap tasks" -> Heap!Taken(t)
         [] OTHER -> Pool!Returned
=============================================================================
