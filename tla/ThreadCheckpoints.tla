-------------------------- MODULE ThreadCheckpoints --------------------------
(***************************************************************************)
(* Checkpoints: a function that every thread runs at its next suspend      *)
(* point, or that the requester runs on its behalf while it is suspended.  *)
(* ThreadList::RunCheckpoint with the Barrier its callers wait on, and     *)
(* Thread::RequestSynchronousCheckpoint, on top of ThreadSuspension.       *)
(*                                                                         *)
(* A requester has one request in progress, so its identity stands for the *)
(* closure it has queued.                                                  *)
(***************************************************************************)
EXTENDS ThreadSuspension, SequencesExt

CONSTANTS
  Checkpointers,   \* threads that call RunCheckpoint
  Agents           \* threads that call RequestSynchronousCheckpoint

CheckpointAssumption == Checkpointers \cup Agents \subseteq Threads

VARIABLES
  checkpoints,    \* checkpoint_function, then checkpoint_overflow_
  step,           \* how far a request has got
  count,          \* Barrier::count_ of each requester
  wanted,         \* the result of RunCheckpoint: the number of threads asked
  modified,       \* suspended_count_modified_threads
  asked,          \* history: the threads of the list when the request began
  ran             \* history: the threads the function has run on

checkpointVars == <<checkpoints, step, count, wanted, modified, asked, ran>>
allVars == <<vars, checkpointVars>>

\* The closure of s has run on t: it passes the barrier of s.
Runs(s, t) ==
  /\ ran' = [ran EXCEPT ![s] = @ \cup {t}]
  /\ count' = [count EXCEPT ![s] = @ - 1]

\* Variant: a checkpoint is queued on a thread that is not Runnable.
RequestInAnyState(s, t) ==
  /\ flags' = [flags EXCEPT ![t] = @ \cup {"Checkpoint"}]
  /\ checkpoints' = [checkpoints EXCEPT ![t] = Append(@, s)]

\* RequestCheckpoint by s, for a Runnable thread t.
RequestCheckpoint(s, t) ==
  /\ state[t] = "Runnable"
  /\ flags' = [flags EXCEPT ![t] = @ \cup {"Checkpoint"}]
  /\ checkpoints' = [checkpoints EXCEPT ![t] = Append(@, s)]

\* Variant: the overflow list is lost.
DropOverflow(t) == <<>>

\* The closures left when the first is taken: the overflow list.
Overflow(t) == Tail(checkpoints[t])

\* RunCheckpointFunction: take the first closure under the lock, the last one
\* clears the flag; then run it.
RunCheckpointFunction(t) ==
  /\ pc[t] \in {"run", "leave"}
  /\ "Checkpoint" \in flags[t]
  /\ CountLockFree
  /\ checkpoints' = [checkpoints EXCEPT ![t] = Overflow(t)]
  /\ flags' = [flags EXCEPT ![t] = IF Overflow(t) = <<>> THEN @ \ {"Checkpoint"} ELSE @]
  /\ Runs(Head(checkpoints[t]), t)
  /\ UNCHANGED <<state, suspend_count, barriers, flip_function, threadList, locks, passage,
                 call, pending, pc, raised, step, wanted, modified, asked>>

-----------------------------------------------------------------------------
(* RunCheckpoint *)

\* Variant: the caller is left out of the number of passes.
OthersOnly(s) == Cardinality(list \ {s})

\* RunCheckpoint's result, the number of threads that pass the barrier.
NumThreads(s) == Cardinality(list)

\* RunCheckpoint takes both locks and looks at every thread but the caller.
RunCheckpoint(s) ==
  /\ pc[s] = "susp" /\ phase[s] = "none" /\ s \in list
  /\ LocksFree
  /\ count_lock' = s /\ list_lock' = s
  /\ todo' = [todo EXCEPT ![s] = list \ {s}]
  /\ wanted' = [wanted EXCEPT ![s] = NumThreads(s)]
  /\ count' = [count EXCEPT ![s] = 0]
  /\ asked' = [asked EXCEPT ![s] = list]
  /\ ran' = [ran EXCEPT ![s] = {}]
  /\ pc' = [pc EXCEPT ![s] = "busy"]
  /\ step' = [step EXCEPT ![s] = "request"]
  /\ UNCHANGED <<word, threadList, mutator_lock, passage, target, phase, pending, raised,
                 checkpoints, modified>>

\* A Runnable thread will run the function itself.
RequestRunnable(s, t) ==
  /\ step[s] = "request"
  /\ t \in todo[s]
  /\ RequestCheckpoint(s, t)
  /\ todo' = [todo EXCEPT ![s] = @ \ {t}]
  /\ UNCHANGED <<state, suspend_count, barriers, flip_function, threadList, locks, passage,
                 target, phase, pending, pc, raised, step, count, wanted, modified, asked, ran>>

\* A thread seen in a suspended state is made to stay there; it may have
\* become Runnable again before its suspend count is raised.
SeeSuspended(s, t) ==
  /\ step[s] = "request"
  /\ t \in todo[s]
  /\ state[t] = "Suspended"
  /\ target' = [target EXCEPT ![s] = t]
  /\ step' = [step EXCEPT ![s] = "raise"]
  /\ UNCHANGED <<word, threadList, locks, passage, todo, phase, pending, pc, raised,
                 checkpoints, count, wanted, modified, asked, ran>>

RaiseSuspended(s) ==
  /\ step[s] = "raise"
  /\ CanRaise(target[s], FALSE)
  /\ Raise(s, target[s], FALSE)
  /\ modified' = [modified EXCEPT ![s] = @ \cup {target[s]}]
  /\ todo' = [todo EXCEPT ![s] = @ \ {target[s]}]
  /\ target' = [target EXCEPT ![s] = NoThread]
  /\ step' = [step EXCEPT ![s] = "request"]
  /\ UNCHANGED <<state, flip_function, threadList, locks, passage, phase, pending, pc,
                 checkpoints, count, wanted, asked, ran>>

\* All threads have been asked: release the locks and run the function here.
RunOnSelf(s) ==
  /\ step[s] = "request"
  /\ todo[s] = {}
  /\ count_lock' = NoThread /\ list_lock' = NoThread
  /\ Runs(s, s)
  /\ step' = [step EXCEPT ![s] = "others"]
  /\ UNCHANGED <<word, threadList, mutator_lock, passage, call, pending, pc, raised,
                 checkpoints, wanted, modified, asked>>

\* Spin until a raised thread is suspended, run the function on its behalf...
RunOnSuspended(s, t) ==
  /\ step[s] = "others"
  /\ t \in modified[s]
  /\ IsSuspended(t)
  /\ Runs(s, t)
  /\ target' = [target EXCEPT ![s] = t]
  /\ step' = [step EXCEPT ![s] = "lower"]
  /\ UNCHANGED <<word, threadList, locks, passage, todo, phase, pending, pc, raised,
                 checkpoints, wanted, modified, asked>>

\* ...and lower its count.
LowerSuspended(s) ==
  /\ step[s] = "lower"
  /\ CountLockFree
  /\ Lower(s, {target[s]})
  /\ modified' = [modified EXCEPT ![s] = @ \ {target[s]}]
  /\ target' = [target EXCEPT ![s] = NoThread]
  /\ step' = [step EXCEPT ![s] = "others"]
  /\ UNCHANGED <<state, barriers, flip_function, threadList, locks, passage, todo, phase,
                 pending, pc, checkpoints, count, wanted, asked, ran>>

\* Wake the threads that met the raised counts.
BroadcastResumeCond(s) ==
  /\ step[s] = "others"
  /\ modified[s] = {}
  /\ CountLockFree
  /\ BroadcastResume(s, "busy")
  /\ step' = [step EXCEPT ![s] = "increment"]
  /\ UNCHANGED <<word, threadList, locks, passage, call, pending, raised,
                 checkpoints, count, wanted, modified, asked, ran>>

\* Barrier::Increment: add the number of passes to expect, which may have
\* happened already, and wait for zero.
Increment(s) ==
  /\ step[s] = "increment"
  /\ count' = [count EXCEPT ![s] = @ + wanted[s]]
  /\ step' = [step EXCEPT ![s] = "wait"]
  /\ UNCHANGED <<vars, checkpoints, wanted, modified, asked, ran>>

LeaveBarrier(s) ==
  /\ step[s] = "wait"
  /\ count[s] = 0
  /\ step' = [step EXCEPT ![s] = "none"]
  /\ pc' = [pc EXCEPT ![s] = "susp"]
  /\ asked' = [asked EXCEPT ![s] = {}]
  /\ ran' = [ran EXCEPT ![s] = {}]
  /\ wanted' = [wanted EXCEPT ![s] = 0]
  /\ target' = [target EXCEPT ![s] = NoThread]
  /\ UNCHANGED <<word, threadList, locks, passage, todo, phase, pending, raised,
                 checkpoints, count, modified>>

-----------------------------------------------------------------------------
(* RequestSynchronousCheckpoint *)

\* Called by an agent in native code about another thread, one that does not
\* detach meanwhile.
RequestSynchronousCheckpoint(s, t) ==
  /\ pc[s] = "susp" /\ phase[s] = "none" /\ s \in list
  /\ t # s /\ t \in list \ Detachers
  /\ target' = [target EXCEPT ![s] = t]
  /\ wanted' = [wanted EXCEPT ![s] = 1]
  /\ count' = [count EXCEPT ![s] = 0]
  /\ asked' = [asked EXCEPT ![s] = {t}]
  /\ ran' = [ran EXCEPT ![s] = {}]
  /\ pc' = [pc EXCEPT ![s] = "busy"]
  /\ step' = [step EXCEPT ![s] = "sync"]
  /\ UNCHANGED <<word, threadList, locks, passage, todo, phase, pending, raised,
                 checkpoints, modified>>

\* The target is Runnable: queue the closure and wait for its barrier.
SyncInstall(s) ==
  /\ step[s] = "sync"
  /\ CountLockFree
  /\ RequestCheckpoint(s, target[s])
  /\ step' = [step EXCEPT ![s] = "increment"]
  /\ UNCHANGED <<state, suspend_count, barriers, flip_function, threadList, locks, passage,
                 call, pending, pc, raised, count, wanted, modified, asked, ran>>

\* The target is not: raise its count, under both locks...
SyncSeeSuspended(s) ==
  /\ step[s] = "sync"
  /\ state[target[s]] = "Suspended"
  /\ step' = [step EXCEPT ![s] = "syncraise"]
  /\ UNCHANGED <<vars, checkpoints, count, wanted, modified, asked, ran>>

SyncRaise(s) ==
  /\ step[s] = "syncraise"
  /\ LocksFree
  /\ CanRaise(target[s], FALSE)
  /\ Raise(s, target[s], FALSE)
  /\ step' = [step EXCEPT ![s] = "syncspin"]
  /\ UNCHANGED <<state, flip_function, threadList, locks, passage, call, pending, pc,
                 checkpoints, count, wanted, modified, asked, ran>>

\* ...spin while it is Runnable, run the function on its behalf...
SyncRun(s) ==
  /\ step[s] = "syncspin"
  /\ state[target[s]] = "Suspended"
  /\ ran' = [ran EXCEPT ![s] = @ \cup {target[s]}]
  /\ step' = [step EXCEPT ![s] = "synclower"]
  /\ UNCHANGED <<vars, checkpoints, count, wanted, modified, asked>>

\* ...and lower the count again, without a broadcast.
SyncLower(s) ==
  /\ step[s] = "synclower"
  /\ LocksFree
  /\ Lower(s, {target[s]})
  /\ target' = [target EXCEPT ![s] = NoThread]
  /\ wanted' = [wanted EXCEPT ![s] = 0]
  /\ asked' = [asked EXCEPT ![s] = {}]
  /\ ran' = [ran EXCEPT ![s] = {}]
  /\ step' = [step EXCEPT ![s] = "none"]
  /\ pc' = [pc EXCEPT ![s] = "susp"]
  /\ UNCHANGED <<state, barriers, flip_function, threadList, locks, passage, todo, phase,
                 pending, checkpoints, count, modified>>

-----------------------------------------------------------------------------
CheckpointInit ==
  /\ Init
  /\ checkpoints = [t \in Threads |-> <<>>]
  /\ step = [t \in Threads |-> "none"]
  /\ count = [t \in Threads |-> 0]
  /\ wanted = [t \in Threads |-> 0]
  /\ modified = [t \in Threads |-> {}]
  /\ asked = [t \in Threads |-> {}]
  /\ ran = [t \in Threads |-> {}]

\* A step of a request after its first.
Request(s) ==
  \/ \E t \in Threads : RequestRunnable(s, t) \/ SeeSuspended(s, t) \/ RunOnSuspended(s, t)
  \/ RaiseSuspended(s)
  \/ RunOnSelf(s)
  \/ LowerSuspended(s)
  \/ BroadcastResumeCond(s)
  \/ Increment(s)
  \/ LeaveBarrier(s)

SyncRequest(s) ==
  \/ SyncInstall(s)
  \/ SyncSeeSuspended(s)
  \/ SyncRaise(s)
  \/ SyncRun(s)
  \/ SyncLower(s)

CheckpointNext ==
  \/ Next /\ UNCHANGED checkpointVars
  \/ \E t \in Threads : RunCheckpointFunction(t)
  \/ \E s \in Checkpointers : RunCheckpoint(s)
  \/ \E s \in Checkpointers \cup Agents : Request(s)
  \/ \E s \in Agents : SyncRequest(s) \/ \E t \in Threads : RequestSynchronousCheckpoint(s, t)

CheckpointSpec == CheckpointInit /\ [][CheckpointNext]_allVars

\* A thread that has begun a transition or a SuspendAll goes on with it and
\* resumes whom it has stopped; one asked to run a checkpoint or to stop reaches
\* a suspend point, and one that has begun a request goes on with it; neither is
\* starved by a lock that is released, or a state word that is free to swap,
\* again and again.
CheckpointFairness ==
  \A t \in Threads :
    /\ WF_allVars((Transition(t) \/ Stop(t) \/ ReleaseMutatorLock(t) \/ ResumeAll(t))
                    /\ UNCHANGED checkpointVars)
    /\ SF_allVars(SuspendPoint(t) /\ UNCHANGED checkpointVars)
    /\ SF_allVars(RunCheckpointFunction(t) \/ Request(t) \/ SyncRequest(t))

CheckpointFairSpec == CheckpointSpec /\ CheckpointFairness

-----------------------------------------------------------------------------
(* Properties *)

\* No pass of the barrier is lost: while the requester waits, the threads that were
\* attached when it began and have not run the function are still attached, with the
\* closure queued, and count_ is their number; so it leaves the barrier when the
\* function has run on exactly the threads that were attached.
CheckpointReachesAll ==
  \A s \in Threads : step[s] = "wait" =>
    /\ count[s] = Cardinality(asked[s] \ ran[s]) /\ ran[s] \subseteq asked[s]
    /\ \A t \in asked[s] \ ran[s] : t \in list /\ Contains(checkpoints[t], s)

\* A thread never leaves Runnable, and is never deleted, with a checkpoint
\* pending (the "Impossible" branch of TransitionFromSuspendedToRunnable), and
\* its checkpoint flag is set exactly while a closure is queued.
PendingCheckpointKeepsRunnable ==
  \A t \in Threads :
    /\ "Checkpoint" \in flags[t] => state[t] = "Runnable" /\ t \in list
    /\ "Checkpoint" \in flags[t] <=> checkpoints[t] # <<>>

\* Threads may be waiting on resume_cond_ because a request raised their
\* suspend count, so whoever lowers it must broadcast: a sleeping thread that
\* is no longer asked to stop has a broadcast on the way.
LoweredCountIsBroadcast ==
  \A t \in Threads : pc[t] = "sleep" =>
    \/ "Suspend" \in flags[t]
    \/ \E s \in Threads : pc[s] = "notify" \/ step[s] \in {"others", "lower"}

\* Every checkpoint request completes.
CheckpointCompletes ==
  \A s \in Threads : step[s] # "none" ~> step[s] = "none"
=============================================================================
