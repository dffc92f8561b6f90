-------------------------- MODULE ThreadSuspension --------------------------
(***************************************************************************)
(* Cooperative suspension of threads: Thread's state word, suspend count   *)
(* and suspend barriers (thread-inl.h, thread.cc), and the ThreadList      *)
(* operations that stop and resume other threads (thread_list.cc).         *)
(*                                                                         *)
(* A thread's state is Runnable or Suspended (every other ThreadState).    *)
(* The state word changes by compare-and-swap without a lock, so a         *)
(* transition interleaves with the steps of a thread that holds            *)
(* thread_suspend_count_lock_.  A critical section of the code is one      *)
(* action, unless a transition of another thread inside it can change its  *)
(* outcome (SuspendAllInternal) or it releases the lock part way           *)
(* (ModifySuspendCount's retry loop); then count_lock and list_lock name   *)
(* the holder between the steps.                                           *)
(***************************************************************************)
EXTENDS Integers, FiniteSets

CONSTANTS
  Threads,              \* every Thread object
  NoThread,             \* nullptr
  Initial,              \* the threads attached at the start
  Suspenders,           \* threads that call SuspendAll and ResumeAll
  Requesters,           \* threads that call SuspendThreadByThreadId and Resume
  Detachers,            \* threads that detach and attach
  kMaxSuspendBarriers   \* length of Thread::active_suspend_barriers

ASSUME ThreadsAssumption ==
  /\ IsFiniteSet(Threads)
  /\ NoThread \notin Threads
  /\ Initial \subseteq Threads
  /\ Suspenders \cup Requesters \cup Detachers \subseteq Threads
  /\ kMaxSuspendBarriers \in Nat \ {0}

VARIABLES
  state,              \* tls32_.state_and_flags.state
  flags,              \* tls32_.state_and_flags.flags
  suspend_count,      \* tls32_.suspend_count
  barriers,           \* active_suspend_barriers, as the owners of the counters
  flip_function,      \* the threads with a flip function installed
  list,               \* ThreadList::list_
  suspend_all_count,  \* ThreadList::suspend_all_count_
  count_lock,         \* holder of thread_suspend_count_lock_ between steps
  list_lock,          \* holder of thread_list_lock_ between steps
  mutator_lock,       \* exclusive holder of mutator_lock_
  pending,            \* pending_threads, a local of each SuspendAllInternal
  pc,                 \* where each thread is
  passing,            \* pass_barriers, the local of PassActiveSuspendBarriers
  ret,                \* where PassActiveSuspendBarriers returns to
  todo,               \* threads the SuspendAllInternal loop has yet to visit
  target,             \* the thread a call is about
  phase,              \* how far SuspendThreadByThreadId has got
  raised              \* history: whose suspend counts this thread has raised

word == <<state, flags, suspend_count, barriers, flip_function>>
threadList == <<list, suspend_all_count>>
locks == <<count_lock, list_lock, mutator_lock>>
passage == <<passing, ret>>
call == <<todo, target, phase>>
vars == <<word, threadList, locks, passage, call, pending, pc, raised>>

\* "busy" is a call that a module extending this one describes.
Label ==
  {"run", "leave", "pass", "claim", "drop", "susp", "back", "wait", "sleep", "wake",
   "flip", "modify", "check", "retry", "await", "acquire", "exclusive", "resume",
   "locked", "relock", "notify", "detached", "busy"}
Flag == {"Suspend", "Checkpoint", "EmptyCheckpoint", "Barrier"}

-----------------------------------------------------------------------------
(* The state word *)

\* Variant: any thread that is asked to stop counts as suspended.
IsAskedToSuspend(t) == "Suspend" \in flags[t]

\* A thread counts as suspended when it is not Runnable and is asked to stop.
IsSuspended(t) == state[t] = "Suspended" /\ "Suspend" \in flags[t]

CountLockFree == count_lock = NoThread
LocksFree == count_lock = NoThread /\ list_lock = NoThread

\* ModifySuspendCountInternal refuses to raise the count of a thread in the
\* middle of a thread flip, or to install a barrier where no slot is free.
CanRaise(t, withBarrier) ==
  /\ t \notin flip_function
  /\ withBarrier => Cardinality(barriers[t]) < kMaxSuspendBarriers

\* Variant: the flags are set but the count stays.
RaiseFlagsOnly(s, t, withBarrier) ==
  /\ flags' = [flags EXCEPT ![t] = @ \cup {"Suspend"} \cup IF withBarrier THEN {"Barrier"} ELSE {}]
  /\ barriers' = [barriers EXCEPT ![t] = @ \cup IF withBarrier THEN {s} ELSE {}]
  /\ raised' = [raised EXCEPT ![s] = @ \cup {t}]
  /\ UNCHANGED suspend_count

\* ModifySuspendCountInternal with delta +1 by s.
Raise(s, t, withBarrier) ==
  /\ suspend_count' = [suspend_count EXCEPT ![t] = @ + 1]
  /\ flags' = [flags EXCEPT ![t] = @ \cup {"Suspend"} \cup IF withBarrier THEN {"Barrier"} ELSE {}]
  /\ barriers' = [barriers EXCEPT ![t] = @ \cup IF withBarrier THEN {s} ELSE {}]
  /\ raised' = [raised EXCEPT ![s] = @ \cup {t}]

\* Variant: the flag is cleared although other suspensions remain.
LowerAndClear(s, T) ==
  /\ suspend_count' = [t \in Threads |-> suspend_count[t] - IF t \in T THEN 1 ELSE 0]
  /\ flags' = [t \in Threads |-> IF t \in T THEN flags[t] \ {"Suspend"} ELSE flags[t]]
  /\ raised' = [raised EXCEPT ![s] = @ \ T]

\* ModifySuspendCountInternal with delta -1 by s, on each thread of T.
Lower(s, T) ==
  /\ suspend_count' = [t \in Threads |-> suspend_count[t] - IF t \in T THEN 1 ELSE 0]
  /\ flags' = [t \in Threads |-> IF t \in T /\ suspend_count[t] = 1
                                 THEN flags[t] \ {"Suspend"} ELSE flags[t]]
  /\ raised' = [raised EXCEPT ![s] = @ \ T]

\* Where a thread in a suspended state continues: SuspendThreadByThreadId
\* becomes Runnable again for its next iteration, any other code stays put.
Resting(t) == IF phase[t] \in {"request", "recheck"} THEN "back" ELSE "susp"

\* TransitionToSuspendedAndRunCheckpoints: the state word is swapped once no
\* checkpoint is pending; the other flags are kept.
TransitionToSuspended(t) ==
  /\ pc[t] \in {"run", "leave"}
  /\ flags[t] \cap {"Checkpoint", "EmptyCheckpoint"} = {}
  /\ state' = [state EXCEPT ![t] = "Suspended"]
  /\ pc' = [pc EXCEPT ![t] = "pass"]
  /\ UNCHANGED <<flags, suspend_count, barriers, flip_function, threadList, locks,
                 passage, call, pending, raised>>

\* Variant: a thread suspends without passing its barriers.
SkipBarriers(t) ==
  /\ pc[t] = "pass"
  /\ pc' = [pc EXCEPT ![t] = Resting(t)]
  /\ UNCHANGED <<word, threadList, locks, passage, call, pending, raised>>

\* The loop of PassActiveSuspendBarriers() that ends TransitionFromRunnableToSuspended.
CheckBarrierFlag(t) ==
  /\ pc[t] = "pass"
  /\ pc' = [pc EXCEPT ![t] = IF "Barrier" \in flags[t] THEN "claim" ELSE Resting(t)]
  /\ ret' = [ret EXCEPT ![t] = "pass"]
  /\ UNCHANGED <<word, threadList, locks, passing, call, pending, raised>>

\* Variant: the barriers taken are left installed.
TakeAndLeaveBarriers(t) ==
  /\ passing' = [passing EXCEPT ![t] = barriers[t]]
  /\ flags' = [flags EXCEPT ![t] = @ \ {"Barrier"}]
  /\ UNCHANGED barriers

\* Copy active_suspend_barriers and clear it with its flag.
TakeBarriers(t) ==
  /\ passing' = [passing EXCEPT ![t] = barriers[t]]
  /\ barriers' = [barriers EXCEPT ![t] = {}]
  /\ flags' = [flags EXCEPT ![t] = @ \ {"Barrier"}]

\* PassActiveSuspendBarriers(self), first half: take the barriers and clear
\* the flag under thread_suspend_count_lock_.
ClaimBarriers(t) ==
  /\ pc[t] = "claim"
  /\ CountLockFree
  /\ IF "Barrier" \in flags[t]
       THEN TakeBarriers(t)
       ELSE UNCHANGED <<passing, barriers, flags>>
  /\ pc' = [pc EXCEPT ![t] = IF "Barrier" \in flags[t] THEN "drop" ELSE ret[t]]
  /\ UNCHANGED <<state, suspend_count, flip_function, threadList, locks, ret, call,
                 pending, raised>>

\* PassActiveSuspendBarriers(self), second half: decrement each counter
\* outside the lock; the last decrement wakes the suspender.
DropBarrier(t, s) ==
  /\ pc[t] = "drop"
  /\ s \in passing[t]
  /\ pending' = [pending EXCEPT ![s] = @ - 1]
  /\ passing' = [passing EXCEPT ![t] = @ \ {s}]
  /\ pc' = [pc EXCEPT ![t] = IF passing[t] = {s} THEN ret[t] ELSE "drop"]
  /\ UNCHANGED <<word, threadList, locks, ret, call, raised>>

\* A thread in native code returns to the runtime.
Return(t) ==
  /\ pc[t] = "susp"
  /\ pc' = [pc EXCEPT ![t] = "back"]
  /\ UNCHANGED <<word, threadList, locks, passage, call, pending, raised>>

\* TransitionFromSuspendedToRunnable, flags == 0: swap the state word.
TransitionToRunnable(t) ==
  /\ pc[t] = "back"
  /\ flags[t] = {}
  /\ state' = [state EXCEPT ![t] = "Runnable"]
  /\ pc' = [pc EXCEPT ![t] = "flip"]
  /\ UNCHANGED <<flags, suspend_count, barriers, flip_function, threadList, locks,
                 passage, call, pending, raised>>

\* TransitionFromSuspendedToRunnable, kActiveSuspendBarrier set.
BackToBarriers(t) ==
  /\ pc[t] = "back"
  /\ "Barrier" \in flags[t]
  /\ pc' = [pc EXCEPT ![t] = "claim"]
  /\ ret' = [ret EXCEPT ![t] = "back"]
  /\ UNCHANGED <<word, threadList, locks, passing, call, pending, raised>>

\* TransitionFromSuspendedToRunnable, kSuspendRequest set: under the lock,
\* wait on resume_cond_ for as long as the flag is set.
BackToWait(t) ==
  /\ pc[t] = "back"
  /\ "Suspend" \in flags[t] /\ "Barrier" \notin flags[t]
  /\ pc' = [pc EXCEPT ![t] = "wait"]
  /\ UNCHANGED <<word, threadList, locks, passage, call, pending, raised>>

WaitForResume(t) ==
  /\ pc[t] \in {"wait", "wake"}
  /\ CountLockFree
  /\ pc' = [pc EXCEPT ![t] = IF "Suspend" \in flags[t] THEN "sleep" ELSE "back"]
  /\ UNCHANGED <<word, threadList, locks, passage, call, pending, raised>>

\* The end of TransitionFromSuspendedToRunnable: run the flip function, if set.
RunFlipFunction(t) ==
  /\ pc[t] = "flip"
  /\ flip_function' = flip_function \ {t}
  /\ pc' = [pc EXCEPT ![t] = IF phase[t] \in {"request", "recheck"} THEN "locked" ELSE "run"]
  /\ UNCHANGED <<state, flags, suspend_count, barriers, threadList, locks, passage, call,
                 pending, raised>>

\* Variant: nobody is woken.
WakeNobody(s, label) == pc' = [pc EXCEPT ![s] = label]

\* resume_cond_->Broadcast, with the pc of the caller s.
BroadcastResume(s, label) ==
  pc' = [t \in Threads |-> CASE t = s -> label
                             [] t # s /\ pc[t] = "sleep" -> "wake"
                             [] OTHER -> pc[t]]

-----------------------------------------------------------------------------
(* SuspendAll and ResumeAll *)

\* SuspendAllInternal: take both locks, announce the request to attaching
\* threads, and set the counter to the number of threads to wait for.
SuspendAllInternal(s) ==
  /\ pc[s] = "susp" /\ phase[s] = "none" /\ s \in list
  /\ LocksFree
  /\ suspend_all_count' = suspend_all_count + 1
  /\ pending' = [pending EXCEPT ![s] = Cardinality(list \ {s})]
  /\ todo' = [todo EXCEPT ![s] = list \ {s}]
  /\ IF list = {s}
       THEN /\ pc' = [pc EXCEPT ![s] = "await"]
            /\ UNCHANGED <<count_lock, list_lock>>
       ELSE /\ pc' = [pc EXCEPT ![s] = "modify"]
            /\ count_lock' = s
            /\ list_lock' = s
  /\ UNCHANGED <<word, list, mutator_lock, passage, target, phase, raised>>

\* One iteration of its loop: raise the count of t and install the barrier...
InstallBarrier(s, t) ==
  /\ pc[s] = "modify"
  /\ t \in todo[s]
  /\ CanRaise(t, TRUE)
  /\ Raise(s, t, TRUE)
  /\ target' = [target EXCEPT ![s] = t]
  /\ pc' = [pc EXCEPT ![s] = "check"]
  /\ UNCHANGED <<state, flip_function, threadList, locks, passage, todo, phase, pending>>

\* ...and, if t is already suspended, clear the barrier again on its behalf.
\* The last iteration releases both locks.
CheckSuspended(s) ==
  /\ pc[s] = "check"
  /\ LET t == target[s] IN
       /\ IF IsSuspended(t)
            THEN /\ barriers' = [barriers EXCEPT ![t] = @ \ {s}]
                 /\ flags' = [flags EXCEPT ![t] = IF barriers[t] \subseteq {s}
                                                  THEN @ \ {"Barrier"} ELSE @]
                 /\ pending' = [pending EXCEPT ![s] = @ - 1]
            ELSE UNCHANGED <<barriers, flags, pending>>
       /\ todo' = [todo EXCEPT ![s] = @ \ {t}]
       /\ IF todo[s] = {t}
            THEN /\ pc' = [pc EXCEPT ![s] = "await"]
                 /\ count_lock' = NoThread
                 /\ list_lock' = NoThread
            ELSE /\ pc' = [pc EXCEPT ![s] = "modify"]
                 /\ UNCHANGED <<count_lock, list_lock>>
  /\ target' = [target EXCEPT ![s] = NoThread]
  /\ UNCHANGED <<state, suspend_count, flip_function, threadList, mutator_lock, passage,
                 phase, raised>>

\* ModifySuspendCount: while the count cannot be raised, release
\* thread_suspend_count_lock_, sleep, and take it again.
ReleaseToRetry(s, t) ==
  /\ pc[s] = "modify"
  /\ t \in todo[s]
  /\ ~CanRaise(t, TRUE)
  /\ count_lock' = NoThread
  /\ pc' = [pc EXCEPT ![s] = "retry"]
  /\ UNCHANGED <<word, threadList, list_lock, mutator_lock, passage, call, pending, raised>>

RetakeCountLock(s) ==
  /\ pc[s] = "retry"
  /\ CountLockFree
  /\ count_lock' = s
  /\ pc' = [pc EXCEPT ![s] = "modify"]
  /\ UNCHANGED <<word, threadList, list_lock, mutator_lock, passage, call, pending, raised>>

\* The futex wait of SuspendAllInternal ends when the counter is zero.
AwaitSuspension(s) ==
  /\ pc[s] = "await"
  /\ pending[s] = 0
  /\ pc' = [pc EXCEPT ![s] = "acquire"]
  /\ UNCHANGED <<word, threadList, locks, passage, call, pending, raised>>

\* SuspendAll then takes mutator_lock_ exclusively.
AcquireMutatorLock(s) ==
  /\ pc[s] = "acquire"
  /\ mutator_lock = NoThread
  /\ mutator_lock' = s
  /\ pc' = [pc EXCEPT ![s] = "exclusive"]
  /\ UNCHANGED <<word, threadList, count_lock, list_lock, passage, call, pending, raised>>

\* ResumeAll gives mutator_lock_ back first...
ReleaseMutatorLock(s) ==
  /\ pc[s] = "exclusive"
  /\ mutator_lock' = NoThread
  /\ pc' = [pc EXCEPT ![s] = "resume"]
  /\ UNCHANGED <<word, threadList, count_lock, list_lock, passage, call, pending, raised>>

\* ...then lowers every other count and wakes the sleepers under both locks.
ResumeAll(s) ==
  /\ pc[s] = "resume"
  /\ LocksFree
  /\ suspend_all_count' = suspend_all_count - 1
  /\ Lower(s, list \ {s})
  /\ BroadcastResume(s, "susp")
  /\ UNCHANGED <<state, barriers, flip_function, list, locks, passage, call, pending>>

-----------------------------------------------------------------------------
(* SuspendThreadByThreadId and Resume *)

\* SuspendThreadByThreadId: each iteration begins by becoming Runnable.
SuspendThreadByThreadId(s, t) ==
  /\ pc[s] = "susp" /\ phase[s] = "none" /\ s \in list
  /\ s # t
  /\ target' = [target EXCEPT ![s] = t]
  /\ phase' = [phase EXCEPT ![s] = "request"]
  /\ pc' = [pc EXCEPT ![s] = "back"]
  /\ UNCHANGED <<word, threadList, locks, passage, todo, pending, raised>>

\* The call ends without a suspended thread.
GiveUp(s) ==
  /\ target' = [target EXCEPT ![s] = NoThread]
  /\ phase' = [phase EXCEPT ![s] = "none"]

\* No thread has the id: return null.
NoSuchThread(s) ==
  /\ pc[s] = "locked"
  /\ list_lock = NoThread
  /\ target[s] \notin list
  /\ GiveUp(s)
  /\ pc' = [pc EXCEPT ![s] = "leave"]
  /\ UNCHANGED <<word, threadList, locks, passage, todo, pending, raised>>

\* Variant: the caller does not look whether it is being suspended itself.
IgnoreSuspenders(s) == FALSE

\* self->GetSuspendCount() > 0: another thread is trying to suspend the caller.
BeingSuspended(s) == suspend_count[s] > 0

\* Another thread is suspending the caller: start over, to let it.
YieldToSuspender(s) ==
  /\ pc[s] = "locked" /\ phase[s] = "request"
  /\ LocksFree
  /\ target[s] \in list
  /\ BeingSuspended(s)
  /\ pc' = [pc EXCEPT ![s] = "leave"]
  /\ UNCHANGED <<word, threadList, locks, passage, call, pending, raised>>

\* Raise the count of the target.  The thread is then suspended already, or
\* the caller comes out of Runnable and looks again later.
RequestSuspension(s) ==
  /\ \/ pc[s] = "locked" /\ phase[s] = "request" /\ LocksFree
        /\ ~BeingSuspended(s)
     \/ pc[s] = "relock" /\ CountLockFree
  /\ target[s] \in list
  /\ CanRaise(target[s], FALSE)
  /\ Raise(s, target[s], FALSE)
  /\ phase' = [phase EXCEPT ![s] = IF state[target[s]] = "Suspended" THEN "held" ELSE "recheck"]
  /\ pc' = [pc EXCEPT ![s] = "leave"]
  /\ list_lock' = NoThread
  /\ UNCHANGED <<state, flip_function, threadList, count_lock, mutator_lock,
                 passage, todo, target, pending>>

\* ModifySuspendCount cannot raise it: retry, keeping thread_list_lock_.  Without
\* a barrier that takes a flip function, so it is a step of ThreadFlip's.
RetryRequest(s) ==
  /\ pc[s] = "locked" /\ phase[s] = "request"
  /\ LocksFree
  /\ target[s] \in list
  /\ ~BeingSuspended(s)
  /\ ~CanRaise(target[s], FALSE)
  /\ list_lock' = s
  /\ pc' = [pc EXCEPT ![s] = "relock"]
  /\ UNCHANGED <<word, threadList, count_lock, mutator_lock, passage, call, pending, raised>>

\* A later iteration: the target has suspended itself, or not yet.
Recheck(s) ==
  /\ pc[s] = "locked" /\ phase[s] = "recheck"
  /\ LocksFree
  /\ target[s] \in list
  /\ phase' = [phase EXCEPT ![s] = IF IsSuspended(target[s]) THEN "held" ELSE "recheck"]
  /\ pc' = [pc EXCEPT ![s] = "leave"]
  /\ UNCHANGED <<word, threadList, locks, passage, todo, target, pending, raised>>

\* An iteration after thread_suspend_timeout_ns_ withdraws the request; in the
\* first iteration that undoes the raise in the same critical section.
TimeOut(s) ==
  /\ pc[s] = "locked"
  /\ LocksFree
  /\ target[s] \in list
  /\ \/ /\ phase[s] = "request"
        /\ ~BeingSuspended(s) /\ CanRaise(target[s], FALSE)
        /\ state[target[s]] = "Runnable"
        /\ UNCHANGED <<suspend_count, flags, raised>>
     \/ /\ phase[s] = "recheck"
        /\ ~IsSuspended(target[s])
        /\ Lower(s, {target[s]})
  /\ GiveUp(s)
  /\ pc' = [pc EXCEPT ![s] = "leave"]
  /\ UNCHANGED <<state, barriers, flip_function, threadList, locks, passage, todo, pending>>

\* Resume: lower the count in one critical section, broadcast in another.
Resume(s) ==
  /\ pc[s] \in {"susp", "run"} /\ phase[s] = "held"
  /\ LocksFree
  /\ target[s] \in list
  /\ Lower(s, {target[s]})
  /\ GiveUp(s)
  /\ pc' = [pc EXCEPT ![s] = "notify"]
  /\ UNCHANGED <<state, barriers, flip_function, threadList, locks, passage, todo, pending>>

NotifyResumed(s) ==
  /\ pc[s] = "notify"
  /\ CountLockFree
  /\ BroadcastResume(s, IF state[s] = "Runnable" THEN "run" ELSE "susp")
  /\ UNCHANGED <<word, threadList, locks, passage, call, pending, raised>>

-----------------------------------------------------------------------------
(* Attaching and detaching *)

\* The steps of SuspendAll and ResumeAll during which suspend_all_count_ is raised.
InSuspendAll == {"modify", "check", "retry", "await", "acquire", "exclusive", "resume"}

\* Variant: a new thread ignores the SuspendAll calls in progress.
RegisterUncounted(t) ==
  /\ pc[t] = "detached"
  /\ LocksFree
  /\ list' = list \cup {t}
  /\ pc' = [pc EXCEPT ![t] = "susp"]
  /\ UNCHANGED <<word, suspend_all_count, locks, passage, call, pending, raised>>

\* Register: the new thread starts with one suspension for each SuspendAll in
\* progress, and in a suspended state (kNative).
Register(t) ==
  /\ pc[t] = "detached"
  /\ LocksFree
  /\ list' = list \cup {t}
  /\ suspend_count' = [suspend_count EXCEPT ![t] = suspend_all_count]
  /\ flags' = [flags EXCEPT ![t] = IF suspend_all_count > 0 THEN {"Suspend"} ELSE {}]
  /\ raised' = [s \in Threads |-> IF pc[s] \in InSuspendAll THEN raised[s] \cup {t}
                                                            ELSE raised[s]]
  /\ pc' = [pc EXCEPT ![t] = "susp"]
  /\ UNCHANGED <<state, barriers, flip_function, suspend_all_count, locks, passage, call, pending>>

\* Unregister: the loop leaves the list only while no one is suspending it.
Unregister(t) ==
  /\ pc[t] = "susp" /\ phase[t] = "none"
  /\ LocksFree
  /\ ~IsSuspended(t)
  /\ list' = list \ {t}
  /\ pc' = [pc EXCEPT ![t] = "detached"]
  /\ UNCHANGED <<word, suspend_all_count, locks, passage, call, pending, raised>>

\* resume_cond_ may wake a waiter for no reason.
SpuriousWakeup(t) ==
  /\ pc[t] = "sleep"
  /\ pc' = [pc EXCEPT ![t] = "wake"]
  /\ UNCHANGED <<word, threadList, locks, passage, call, pending, raised>>

-----------------------------------------------------------------------------
Init ==
  /\ state = [t \in Threads |-> "Suspended"]
  /\ flags = [t \in Threads |-> {}]
  /\ suspend_count = [t \in Threads |-> 0]
  /\ barriers = [t \in Threads |-> {}]
  /\ flip_function = {}
  /\ list = Initial
  /\ suspend_all_count = 0
  /\ count_lock = NoThread /\ list_lock = NoThread /\ mutator_lock = NoThread
  /\ pending = [t \in Threads |-> 0]
  /\ pc = [t \in Threads |-> IF t \in Initial THEN "susp" ELSE "detached"]
  /\ passing = [t \in Threads |-> {}]
  /\ ret = [t \in Threads |-> "pass"]
  /\ todo = [t \in Threads |-> {}]
  /\ target = [t \in Threads |-> NoThread]
  /\ phase = [t \in Threads |-> "none"]
  /\ raised = [t \in Threads |-> {}]

\* A thread on its way between Runnable and a suspended state.
Transition(t) ==
  \/ CheckBarrierFlag(t)
  \/ ClaimBarriers(t)
  \/ \E s \in Threads : DropBarrier(t, s)
  \/ TransitionToRunnable(t)
  \/ BackToBarriers(t)
  \/ BackToWait(t)
  \/ WaitForResume(t)
  \/ RunFlipFunction(t)

\* SuspendAllInternal from its first step to its last.
Stop(s) ==
  \/ \E t \in Threads : InstallBarrier(s, t) \/ ReleaseToRetry(s, t)
  \/ CheckSuspended(s)
  \/ RetakeCountLock(s)
  \/ AwaitSuspension(s)
  \/ AcquireMutatorLock(s)

\* An iteration of SuspendThreadByThreadId when no flip is in its way, and the
\* second half of Resume.
Iterate(s) ==
  \/ NoSuchThread(s)
  \/ YieldToSuspender(s)
  \/ RequestSuspension(s)
  \/ Recheck(s)
  \/ TimeOut(s)
  \/ NotifyResumed(s)

Next ==
  \/ \E t \in Threads : Transition(t) \/ TransitionToSuspended(t) \/ Return(t) \/ SpuriousWakeup(t)
  \/ \E s \in Suspenders : SuspendAllInternal(s) \/ Stop(s) \/ ReleaseMutatorLock(s) \/ ResumeAll(s)
  \/ \E s \in Requesters :
       Iterate(s) \/ Resume(s) \/ \E t \in Threads : SuspendThreadByThreadId(s, t)
  \/ \E t \in Detachers : Register(t) \/ Unregister(t)

Spec == Init /\ [][Next]_vars

\* A Runnable thread reaches a suspend point when asked to stop, and the end
\* of SuspendThreadByThreadId's critical section in any case.
SuspendPoint(t) ==
  /\ pc[t] = "leave" \/ "Suspend" \in flags[t]
  /\ TransitionToSuspended(t)

\* A thread that has begun a transition, a SuspendAll or an iteration of
\* SuspendThreadByThreadId keeps running; a thread blocked on
\* thread_suspend_count_lock_ or thread_list_lock_ gets it if it is released
\* again and again (every holder releases it, ModifySuspendCount for 100us).
Fairness ==
  \A t \in Threads :
    /\ WF_vars(Transition(t) \/ SuspendPoint(t) \/ Stop(t))
    /\ SF_vars(ClaimBarriers(t) \/ RetakeCountLock(t) \/ Iterate(t))

FairSpec == Spec /\ Fairness

-----------------------------------------------------------------------------
(* Properties *)

\* Every variable keeps its type; the counters never become negative.
TypeOK ==
  /\ state \in [Threads -> {"Runnable", "Suspended"}]
  /\ flags \in [Threads -> SUBSET Flag]
  /\ suspend_count \in [Threads -> Nat]
  /\ barriers \in [Threads -> SUBSET Threads]
  /\ flip_function \subseteq Threads
  /\ list \subseteq Threads
  /\ suspend_all_count \in Nat
  /\ {count_lock, list_lock, mutator_lock} \subseteq Threads \cup {NoThread}
  /\ pending \in [Threads -> Nat]
  /\ pc \in [Threads -> Label]
  /\ passing \in [Threads -> SUBSET Threads]
  /\ ret \in [Threads -> {"pass", "back"}]
  /\ todo \in [Threads -> SUBSET Threads]
  /\ target \in [Threads -> Threads \cup {NoThread}]
  /\ phase \in [Threads -> {"none", "request", "recheck", "held"}]
  /\ raised \in [Threads -> SUBSET Threads]

\* While SuspendAll's caller holds mutator_lock_ exclusively, every other
\* attached thread is suspended, those that attached meanwhile included
\* (what AssertThreadsAreSuspended checks in debug builds).
ExclusiveMeansSuspended ==
  \A s \in Threads : pc[s] = "exclusive" =>
    \A t \in list \ {s} : IsSuspended(t)

\* A thread SuspendThreadByThreadId has returned stays suspended and attached
\* until Resume; a thread it is still waiting for stays attached (the CHECKs
\* "no longer in thread list" and CHECK_GT(suspend_count, 0)).
RequestedThreadIsKept ==
  \A s \in Threads :
    /\ phase[s] \in {"recheck", "held"} => target[s] \in list /\ suspend_count[target[s]] > 0
    /\ phase[s] = "held" => IsSuspended(target[s])

\* The threads that SuspendAllInternal of s has yet to ask, or to see pass.
Unvisited(s) == IF pc[s] = "check" THEN todo[s] \ {target[s]} ELSE todo[s]
Holders(s) == {t \in Threads : s \in barriers[t]}
Passers(s) == {t \in Threads : s \in passing[t]}
Owing(s) == Holders(s) \cup Passers(s) \cup Unvisited(s)

\* pending_threads counts exactly the threads that still have to decrement
\* it, each of them once, and no thread is left with a pointer to the counter
\* once SuspendAllInternal has returned and its stack frame is gone.
BarrierCountExact ==
  \A s \in Threads :
    /\ pc[s] \in {"modify", "check", "retry", "await"} => pending[s] = Cardinality(Owing(s))
    /\ pc[s] \notin {"modify", "check", "retry", "await"} => Owing(s) = {}
    /\ Holders(s) \cap Passers(s) = {}
    /\ Unvisited(s) \cap (Holders(s) \cup Passers(s)) = {}

\* A thread asleep on resume_cond_ is still asked to stop, or some thread is
\* about to broadcast: no resume is lost between lowering a count and the
\* broadcast (Resume does the two in separate critical sections).
NoLostResume ==
  \A t \in Threads : pc[t] = "sleep" =>
    "Suspend" \in flags[t] \/ \E s \in Threads : pc[s] = "notify"

\* The threads that have raised the suspend count of t and not lowered it.
SuspendersOf(t) == {s \in Threads : t \in raised[s]}

\* The suspend count of a thread is the number of threads that have stopped
\* it, and ResumeAll lowers exactly the counts its SuspendAll raised, however
\* many threads have attached or detached in between.
CountsBalanced ==
  /\ \A t \in list : suspend_count[t] = Cardinality(SuspendersOf(t))
  /\ \A s \in Threads : pc[s] \in {"await", "acquire", "exclusive", "resume"} =>
       raised[s] = list \ {s}

\* Who is suspending whom through SuspendThreadByThreadId.
Suspending(s, t) == phase[s] \in {"recheck", "held"} /\ target[s] = t

\* No two threads suspend each other through SuspendThreadByThreadId, nor
\* does a longer cycle arise: the caller gives way while it is itself being
\* suspended.
NoSuspensionCycle ==
  ~\E C \in (SUBSET Threads) \ {{}} : \A s \in C : \E t \in C : Suspending(s, t)

\* A SuspendAll that has begun stops every thread.
SuspendAllCompletes ==
  \A s \in Suspenders : pc[s] \in {"modify", "check", "retry", "await"} ~> pc[s] = "acquire"

-----------------------------------------------------------------------------
(* The inductive invariant *)

\* Where a thread is determines its state and what it may be in the middle of.
Place(t) ==
  /\ pc[t] \in {"run", "leave", "flip", "locked", "relock"} => state[t] = "Runnable"
  /\ pc[t] \notin {"run", "leave", "flip", "locked", "relock", "notify"} => state[t] = "Suspended"
  /\ pc[t] \in InSuspendAll \cup {"notify", "detached"} => phase[t] = "none"
  /\ pc[t] = "locked" => phase[t] \in {"request", "recheck"}
  /\ pc[t] = "relock" => phase[t] = "request"
  /\ pc[t] = "detached" <=> t \notin list
  /\ pc[t] # "drop" => passing[t] = {}
PlaceInv == \A t \in Threads : Place(t)

\* The steps between which a lock is held.
LockInv ==
  \A s \in Threads :
    /\ pc[s] \in {"modify", "check"} => count_lock = s
    /\ pc[s] \in {"modify", "check", "retry", "relock"} => list_lock = s

\* What each call has raised so far.
Account(s) ==
  /\ raised[s] \subseteq list
  /\ pc[s] \in InSuspendAll => raised[s] = (list \ {s}) \ Unvisited(s)
  /\ pc[s] \notin InSuspendAll /\ phase[s] \in {"none", "request"} => raised[s] = {}
  /\ phase[s] \in {"recheck", "held"} => raised[s] = {target[s]}
  /\ phase[s] # "none" => target[s] \in Threads \ {s}
  /\ pc[s] \in {"modify", "retry"} => todo[s] # {}
  /\ pc[s] = "check" => target[s] \in todo[s] /\ s \in barriers[target[s]]
  /\ pc[s] \in {"modify", "check", "retry"} => todo[s] \subseteq list \ {s}
  /\ pc[s] \notin {"modify", "check", "retry"} => todo[s] = {}
CallInv == \A s \in Threads : Account(s)

\* The counts agree with who has raised them, and the flag with the count.
MatchInv ==
  \A t \in Threads :
    /\ suspend_count[t] = Cardinality(SuspendersOf(t))
    /\ "Suspend" \in flags[t] <=> SuspendersOf(t) # {}
CountInv ==
  /\ MatchInv
  /\ suspend_all_count = Cardinality({s \in Threads : pc[s] \in InSuspendAll})

\* A thread stopped by a SuspendAll is suspended or still has its barrier, and
\* one stopped by SuspendThreadByThreadId is suspended once that returns it.
StoppedInv ==
  \A s \in Threads :
    /\ pc[s] \in InSuspendAll =>
         \A t \in raised[s] : state[t] = "Suspended" \/ s \in barriers[t]
    /\ phase[s] = "held" => state[target[s]] = "Suspended"

\* A thread whose retry loop holds thread_list_lock_ is not being suspended.
RelockInv == \A s \in Threads : pc[s] = "relock" => SuspendersOf(s) = {}

IInv ==
  /\ TypeOK /\ PlaceInv /\ LockInv /\ CallInv /\ CountInv /\ BarrierCountExact
  /\ StoppedInv /\ RelockInv /\ NoLostResume /\ NoSuspensionCycle
=============================================================================
