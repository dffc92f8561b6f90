------------------------------ MODULE HeapTasks ------------------------------
(***************************************************************************)
(* The TaskProcessor, its daemon thread, and the tasks the Heap gives it:  *)
(* collector transitions, heap trims and concurrent collections.  A task   *)
(* has a target time, is deleted by the daemon when it has run, and may be *)
(* pointed to by the Heap in the meantime.                                 *)
(*                                                                         *)
(* A section under the processor's lock_ is one step, and so is one under  *)
(* pending_task_lock_, which encloses the former.  The runtime has started *)
(* and is not shutting down (CanAddHeapTask).                              *)
(***************************************************************************)
EXTENDS Naturals, Sequences, FiniteSets, SequencesExt

CONSTANTS
  Requesters,   \* threads that ask the Heap for work
  TaskIds,      \* addresses of HeapTasks, reused when one is deleted
  Kinds,        \* the kinds of work asked for
  kWait,        \* the delay of a trim and of a transition to the background
  MaxTime       \* bound: the last moment of the clock

HeapTaskAssumption ==
  /\ Kinds \subseteq {"transition", "trim", "gc"}
  /\ kWait \in Nat /\ MaxTime \in Nat

VARIABLES
  tasks,           \* tasks_, in order
  target,          \* target_run_time_ of each task
  kind,            \* what each task is, "free" for one that does not exist
  is_running,
  now,             \* NanoTime()
  daemon,          \* where the daemon thread is
  current,         \* the task it runs
  deadline,        \* until when it sleeps
  pending,         \* pending_collector_transition_, pending_heap_trim_; for "gc" the task
                   \* that concurrent_gc_pending_ stands for
  collector_type,
  desired,         \* desired_collector_type_
  wanted,          \* the desired type DoPendingCollectorTransition has read
  pc, added,       \* where each requester is, and the task it has created
  asked            \* the delta_time of a transition, then its target_time

queue == <<tasks, target>>
processor == <<daemon, current, deadline>>
collector == <<collector_type, desired, wanted>>
requester == <<pc, added, asked>>
vars == <<queue, kind, is_running, now, processor, pending, collector, requester>>

None == "none"
Never == MaxTime + kWait + 1
Types == {"foreground", "background"}

Init ==
  /\ tasks = <<>> /\ target = [k \in TaskIds |-> 0] /\ kind = [k \in TaskIds |-> "free"]
  /\ is_running = FALSE /\ now = 0
  /\ daemon = "off" /\ current = None /\ deadline = 0
  /\ pending = [k \in Kinds |-> None]
  /\ collector_type = "foreground" /\ desired = "foreground" /\ wanted = "foreground"
  /\ pc = [r \in Requesters |-> "idle"] /\ added = [r \in Requesters |-> None]
  /\ asked = [r \in Requesters |-> 0]

-----------------------------------------------------------------------------
(* The queue *)

\* The queue q with k inserted by its target time, after those of the same time.
Inserted(q, k, times) ==
  SelectSeq(q, LAMBDA j : times[j] <= times[k]) \o <<k>>
    \o SelectSeq(q, LAMBDA j : times[j] > times[k])

\* cond_.Signal: a sleeping daemon looks at the queue again.
Signal ==
  IF daemon = "asleep" THEN daemon' = "get" /\ deadline' = 0 ELSE UNCHANGED <<daemon, deadline>>

\* Variant: the task stays where it was.
InPlace(k, times) == tasks

\* The queue when the target time of k is changed: erased and inserted again.
Reinserted(k, times) == Inserted(Remove(tasks, k), k, times)

\* UpdateTargetRunTime: if the task is on the queue and its time changes, move
\* it, and signal if it is now the first.
UpdateTargetRunTime(k, time) ==
  IF Contains(tasks, k) /\ target[k] # time
  THEN /\ target' = [target EXCEPT ![k] = time]
       /\ tasks' = Reinserted(k, target')
       /\ IF Head(tasks') = k THEN Signal ELSE UNCHANGED <<daemon, deadline>>
  ELSE UNCHANGED <<queue, daemon, deadline>>

\* AddTask by a requester that has created its task.
AddTask(r) ==
  /\ pc[r] = "add"
  /\ tasks' = Inserted(tasks, added[r], target)
  /\ Signal
  /\ pc' = [pc EXCEPT ![r] = "idle"] /\ added' = [added EXCEPT ![r] = None]
  /\ UNCHANGED <<target, kind, is_running, now, current, pending, collector, asked>>

-----------------------------------------------------------------------------
(* Requests of the Heap *)

\* A new task of the kind what is created, and the Heap points to it.
Create(r, what, time) ==
  \E k \in TaskIds :
    /\ kind[k] = "free"
    /\ kind' = [kind EXCEPT ![k] = what]
    /\ target' = [target EXCEPT ![k] = time]
    /\ pending' = [pending EXCEPT ![what] = k]
    /\ added' = [added EXCEPT ![r] = k]
    /\ pc' = [pc EXCEPT ![r] = "add"]

\* UpdateProcessState asks for the other collector, for the foreground one right
\* away: RequestCollectorTransition stores the desired type.
RequestCollectorTransition(r, type) ==
  /\ "transition" \in Kinds /\ pc[r] = "idle" /\ type # desired
  /\ now + kWait <= MaxTime
  /\ desired' = type
  /\ asked' = [asked EXCEPT ![r] = IF type = "foreground" THEN 0 ELSE kWait]
  /\ pc' = [pc EXCEPT ![r] = "compare"]
  /\ UNCHANGED <<queue, kind, is_running, now, processor, pending, collector_type, wanted, added>>

\* The target time of a transition asked for with the delay asked[r].
TargetTime(r) == now + asked[r]

\* Nothing to do if the collector has the desired type already.
CompareCollectorType(r) ==
  /\ pc[r] = "compare"
  /\ IF desired = collector_type
     THEN pc' = [pc EXCEPT ![r] = "idle"] /\ asked' = [asked EXCEPT ![r] = 0]
     ELSE /\ now + asked[r] <= MaxTime
          /\ pc' = [pc EXCEPT ![r] = "pend"] /\ asked' = [asked EXCEPT ![r] = TargetTime(r)]
  /\ UNCHANGED <<queue, kind, is_running, now, processor, pending, collector, added>>

\* An existing transition gets the new target time, otherwise one is created.
PendTransition(r) ==
  /\ pc[r] = "pend"
  /\ IF pending["transition"] # None
     THEN /\ UpdateTargetRunTime(pending["transition"], asked[r])
          /\ pc' = [pc EXCEPT ![r] = "idle"]
          /\ UNCHANGED <<kind, pending, added>>
     ELSE Create(r, "transition", asked[r]) /\ UNCHANGED <<tasks, daemon, deadline>>
  /\ asked' = [asked EXCEPT ![r] = 0]
  /\ UNCHANGED <<is_running, now, current, collector>>

\* Variant: every request creates a task.
AlwaysCreates(what) == TRUE

\* The Heap has no such task pending.
NonePending(what) == pending[what] = None

\* A trim waits, a concurrent collection starts straight away.
Delay(what) == IF what = "trim" THEN kWait ELSE 0

\* RequestTrim and RequestConcurrentGC: ignored if one is pending.
Request(r, what) ==
  /\ what \in Kinds \ {"transition"} /\ pc[r] = "idle"
  /\ now + Delay(what) <= MaxTime
  /\ NonePending(what)
  /\ Create(r, what, now + Delay(what))
  /\ UNCHANGED <<tasks, is_running, now, processor, collector, asked>>

-----------------------------------------------------------------------------
(* The daemon *)

\* Start, then RunAllTasks.
Start ==
  /\ daemon = "off"
  /\ is_running' = TRUE /\ daemon' = "get"
  /\ UNCHANGED <<queue, kind, now, current, deadline, pending, collector, requester>>

\* Stop, by any thread: the daemon is to finish the remaining tasks.
Stop ==
  /\ is_running
  /\ is_running' = FALSE
  /\ Signal
  /\ UNCHANGED <<queue, kind, now, current, pending, collector, requester>>

\* The first task is due, or the processor is stopping.
MayRun == ~is_running \/ target[Head(tasks)] <= now

\* GetTask returns the first task.
GetTask ==
  /\ daemon = "get" /\ tasks # <<>> /\ MayRun
  /\ current' = Head(tasks) /\ tasks' = Tail(tasks)
  /\ daemon' = "run"
  /\ UNCHANGED <<target, kind, is_running, now, deadline, pending, collector, requester>>

\* GetTask waits: for a signal, or for the target time of the first task.
WaitForTask ==
  /\ daemon = "get" /\ is_running
  /\ tasks # <<>> => ~MayRun
  /\ daemon' = "asleep"
  /\ deadline' = IF tasks = <<>> THEN Never ELSE target[Head(tasks)]
  /\ UNCHANGED <<queue, kind, is_running, now, current, pending, collector, requester>>

\* Variant: nothing to do once stopped.
Stopped == ~is_running

\* Nothing is left to do.
Finished == ~is_running /\ tasks = <<>>

\* GetTask returns null.
GetNothing ==
  /\ daemon = "get" /\ Finished
  /\ daemon' = "check"
  /\ UNCHANGED <<queue, kind, is_running, now, current, deadline, pending, collector, requester>>

\* RunAllTasks returns unless the processor is running again.
CheckRunning ==
  /\ daemon = "check"
  /\ daemon' = IF is_running THEN "get" ELSE "off"
  /\ UNCHANGED <<queue, kind, is_running, now, current, deadline, pending, collector, requester>>

\* The wait ends at its deadline.
TimeOut ==
  /\ daemon = "asleep" /\ now >= deadline
  /\ daemon' = "get" /\ deadline' = 0
  /\ UNCHANGED <<queue, kind, is_running, now, current, pending, collector, requester>>

\* HeapTask::Run: a transition reads the desired type first.
RunTask ==
  /\ daemon = "run"
  /\ IF kind[current] = "transition"
     THEN daemon' = "change" /\ wanted' = desired
     ELSE daemon' = "clear" /\ UNCHANGED wanted
  /\ UNCHANGED <<queue, kind, is_running, now, current, deadline, pending, collector_type, desired,
                 requester>>

\* TransitionCollector.
TransitionCollector ==
  /\ daemon = "change"
  /\ collector_type' = wanted
  /\ daemon' = "clear"
  /\ UNCHANGED <<queue, kind, is_running, now, current, deadline, pending, desired, wanted,
                 requester>>

\* The Heap no longer points to the current task.
Cleared == [pending EXCEPT ![kind[current]] = None]

ClearPending ==
  /\ daemon = "clear"
  /\ pending' = Cleared
  /\ daemon' = "delete"
  /\ UNCHANGED <<queue, kind, is_running, now, current, deadline, collector, requester>>

\* Finalize deletes the task.
DeleteTask ==
  /\ daemon = "delete"
  /\ kind' = [kind EXCEPT ![current] = "free"]
  /\ target' = [target EXCEPT ![current] = 0]
  /\ current' = None /\ daemon' = "get"
  /\ UNCHANGED <<tasks, is_running, now, deadline, pending, collector, requester>>

Tick ==
  /\ now < MaxTime
  /\ now' = now + 1
  /\ UNCHANGED <<queue, kind, is_running, processor, pending, collector, requester>>

-----------------------------------------------------------------------------
DaemonStep ==
  GetTask \/ WaitForTask \/ GetNothing \/ CheckRunning \/ TimeOut \/ RunTask
    \/ TransitionCollector \/ ClearPending \/ DeleteTask

RequestStep(r) == CompareCollectorType(r) \/ PendTransition(r) \/ AddTask(r)

Next ==
  \/ DaemonStep \/ Start \/ Stop \/ Tick
  \/ \E r \in Requesters :
       \/ RequestStep(r)
       \/ \E type \in Types : RequestCollectorTransition(r, type)
       \/ \E what \in Kinds : Request(r, what)

Spec == Init /\ [][Next]_vars

\* Threads are scheduled, time passes.
FairSpec ==
  Spec /\ WF_vars(DaemonStep) /\ WF_vars(Tick) /\ \A r \in Requesters : WF_vars(RequestStep(r))

-----------------------------------------------------------------------------
(* Properties *)

\* The daemon does not oversleep: it sleeps only while the processor runs, and
\* not beyond the target time of any task, whatever was added or moved
\* meanwhile.
NoOversleep ==
  daemon = "asleep" => is_running /\ \A k \in ToSet(tasks) : deadline <= target[k]

\* What the Heap points to, the queue holds and the daemon runs is not deleted,
\* and there is never more than one transition, trim or concurrent collection.
PendingIsAlive ==
  /\ \A what \in Kinds : pending[what] # None => kind[pending[what]] = what
  /\ \A k \in ToSet(tasks) : pending[kind[k]] = k
  /\ \A k, l \in TaskIds : kind[k] = kind[l] /\ kind[k] # "free" /\ k # l => current \in {k, l}

\* The requested collector is in use once no transition is under way.
TransitionIsHonoured ==
  ((\A r \in Requesters : pc[r] = "idle") /\ (\A k \in TaskIds : kind[k] # "transition"))
    => collector_type = desired

Queued(k) == Contains(tasks, k) /\ is_running
Taken(k) == ~Contains(tasks, k)

\* A task that is on the queue while the processor runs leaves it to be run,
\* even if the processor is stopped meanwhile (RunAllTasks returns only when the
\* tasks that were on the queue at Stop have run).
TaskIsRun == \A k \in TaskIds : Queued(k) ~> Taken(k)
=============================================================================
