----------------------------- MODULE ThreadFlip -----------------------------
(***************************************************************************)
(* The thread flip of the concurrent copying collector                     *)
(* (ThreadList::FlipThreadRoots) and the JNI critical sections that hold   *)
(* it off (the thread flip functions of Heap), on top of ThreadSuspension. *)
(*                                                                         *)
(* A flip stops all threads, runs the collector's callback, gives each     *)
(* thread a flip function to run on its own roots, and resumes early the   *)
(* threads that will run it themselves on becoming Runnable.               *)
(***************************************************************************)
EXTENDS ThreadSuspension

CONSTANTS
  Collectors,   \* threads that call FlipThreadRoots
  Natives,      \* threads that enter JNI critical sections
  MaxNesting    \* bound on nested critical sections of a thread

ASSUME FlipAssumption ==
  /\ Collectors \cup Natives \subseteq Threads
  /\ MaxNesting \in Nat \ {0}

VARIABLES
  step,                        \* how far a flip or a critical entry has got
  thread_flip_running,         \* Heap::thread_flip_running_
  disable_thread_flip_count,   \* Heap::disable_thread_flip_count_
  nesting,                     \* Thread's disable_thread_flip_count
  unflipped                    \* other_threads yet to be flipped by the collector

flipVars == <<step, thread_flip_running, disable_thread_flip_count, nesting, unflipped>>
allVars == <<vars, flipVars>>

\* Variant: a collector that waits is not woken.
WakeEntering(t, next) ==
  step' = [u \in Threads |-> CASE u = t -> next
                               [] u # t /\ step[u] = "enterwait" -> "enter"
                               [] OTHER -> step[u]]

\* thread_flip_cond_->Broadcast, with the step of the caller t.
WakeFlipWaiters(t, next) ==
  step' = [u \in Threads |-> CASE u = t -> next
                               [] u # t /\ step[u] = "enterwait" -> "enter"
                               [] u # t /\ step[u] = "flipwait" -> "flipbegin"
                               [] OTHER -> step[u]]

-----------------------------------------------------------------------------
(* JNI critical sections *)

\* IncrementDisableThreadFlip: a nested entry returns at once, the outermost
\* changes to kWaitingForGcThreadFlip...
IncrementDisableThreadFlip(t) ==
  /\ pc[t] = "run" /\ step[t] = "none"
  /\ nesting[t] < MaxNesting
  /\ nesting' = [nesting EXCEPT ![t] = @ + 1]
  /\ IF nesting[t] > 0
       THEN UNCHANGED <<pc, step>>
       ELSE /\ pc' = [pc EXCEPT ![t] = "leave"]
            /\ step' = [step EXCEPT ![t] = "enter"]
  /\ UNCHANGED <<word, threadList, locks, passage, call, pending, raised,
                 thread_flip_running, disable_thread_flip_count, unflipped>>

\* ...and waits there while a flip is running, then counts itself and becomes
\* Runnable again.
EnterCritical(t) ==
  /\ pc[t] = "susp" /\ step[t] = "enter"
  /\ IF thread_flip_running
       THEN /\ step' = [step EXCEPT ![t] = "enterwait"]
            /\ UNCHANGED <<disable_thread_flip_count, pc>>
       ELSE /\ step' = [step EXCEPT ![t] = "none"]
            /\ disable_thread_flip_count' = disable_thread_flip_count + 1
            /\ pc' = [pc EXCEPT ![t] = "back"]
  /\ UNCHANGED <<word, threadList, locks, passage, call, pending, raised,
                 thread_flip_running, nesting, unflipped>>

\* Variant: every exit counts as the outermost.
AlwaysOutermost(t) == TRUE

\* The critical section t is leaving is not nested in another.
Outermost(t) == nesting[t] = 1

\* DecrementDisableThreadFlip: the last exit wakes a waiting collector.
DecrementDisableThreadFlip(t) ==
  /\ pc[t] = "run" /\ step[t] = "none"
  /\ nesting[t] > 0
  /\ nesting' = [nesting EXCEPT ![t] = @ - 1]
  /\ disable_thread_flip_count' = disable_thread_flip_count - IF Outermost(t) THEN 1 ELSE 0
  /\ IF disable_thread_flip_count' = 0 THEN WakeFlipWaiters(t, "none") ELSE UNCHANGED step
  /\ UNCHANGED <<vars, thread_flip_running, unflipped>>

-----------------------------------------------------------------------------
(* FlipThreadRoots *)

\* ThreadFlipBegin: announce the flip first, so that no new critical section
\* begins, then wait for the ones in progress to end.
ThreadFlipBegin(s) ==
  /\ pc[s] = "susp" /\ step[s] = "none" /\ phase[s] = "none" /\ s \in list
  /\ nesting[s] = 0
  /\ \A t \in Threads : step[t] \in {"none", "enter", "enterwait"}
  /\ thread_flip_running' = TRUE
  /\ step' = [step EXCEPT ![s] = "flipbegin"]
  /\ pc' = [pc EXCEPT ![s] = "busy"]
  /\ UNCHANGED <<word, threadList, locks, passage, call, pending, raised,
                 disable_thread_flip_count, nesting, unflipped>>

\* No thread is in a critical section.
CriticalsEnded == disable_thread_flip_count = 0

WaitForCriticals(s) ==
  /\ step[s] = "flipbegin"
  /\ IF CriticalsEnded
       THEN /\ step' = [step EXCEPT ![s] = "flip"]
            /\ pc' = [pc EXCEPT ![s] = "susp"]
       ELSE /\ step' = [step EXCEPT ![s] = "flipwait"]
            /\ UNCHANGED pc
  /\ UNCHANGED <<word, threadList, locks, passage, call, pending, raised,
                 thread_flip_running, disable_thread_flip_count, nesting, unflipped>>

\* Variant: threads anywhere in native code are resumed early too.
ResumeAnyEarly(s) == {t \in list \ {s} : suspend_count[t] = 1}

\* The threads FlipThreadRoots resumes early: stopped only for this flip, and
\* in TransitionFromSuspendedToRunnable or kWaitingForGcThreadFlip, so that
\* they run the flip function themselves before anything else.
ResumedEarly(s) ==
  {t \in list \ {s} :
     /\ suspend_count[t] = 1
     /\ pc[t] \in {"sleep", "wake"} \/ (step[t] \in {"enter", "enterwait"} /\ state[t] = "Suspended")}

\* After SuspendAllInternal, the callback and the release of mutator_lock_:
\* install the flip functions and resume the first group of threads.
FlipAndResume(s) ==
  /\ pc[s] = "resume" /\ step[s] = "flip"
  /\ LocksFree
  /\ suspend_all_count' = suspend_all_count - 1
  /\ flip_function' = flip_function \cup list
  /\ Lower(s, ResumedEarly(s))
  /\ todo' = [todo EXCEPT ![s] = (list \ {s}) \ ResumedEarly(s)]
  /\ BroadcastResume(s, "busy")
  /\ step' = [step EXCEPT ![s] = "flipend"]
  /\ UNCHANGED <<state, barriers, list, locks, passage, target, phase, pending,
                 thread_flip_running, disable_thread_flip_count, nesting, unflipped>>

\* ThreadFlipEnd lets critical sections begin again.
ThreadFlipEnd(s) ==
  /\ step[s] = "flipend"
  /\ thread_flip_running' = FALSE
  /\ WakeFlipWaiters(s, "flipshare")
  /\ UNCHANGED <<vars, disable_thread_flip_count, nesting, unflipped>>

\* Take a share of mutator_lock_ to run the other threads' flip functions.
ShareMutatorLock(s) ==
  /\ step[s] = "flipshare"
  /\ mutator_lock = NoThread
  /\ unflipped' = todo[s]
  /\ step' = [step EXCEPT ![s] = "flipothers"]
  /\ UNCHANGED <<vars, thread_flip_running, disable_thread_flip_count, nesting>>

\* GetFlipFunction takes the function of a thread away, so it runs once.
FlipOther(s, t) ==
  /\ step[s] = "flipothers"
  /\ t \in unflipped
  /\ flip_function' = flip_function \ {t}
  /\ unflipped' = unflipped \ {t}
  /\ UNCHANGED <<state, flags, suspend_count, barriers, threadList, locks, passage, call,
                 pending, pc, raised, step, thread_flip_running,
                 disable_thread_flip_count, nesting>>

\* The collector's own function comes last; then the share is released.
FlipSelf(s) ==
  /\ step[s] = "flipothers"
  /\ unflipped = {}
  /\ flip_function' = flip_function \ {s}
  /\ step' = [step EXCEPT ![s] = "flipresume"]
  /\ UNCHANGED <<state, flags, suspend_count, barriers, threadList, locks, passage, call,
                 pending, pc, raised, thread_flip_running, disable_thread_flip_count,
                 nesting, unflipped>>

\* Resume the second group.
ResumeOthers(s) ==
  /\ step[s] = "flipresume"
  /\ CountLockFree
  /\ Lower(s, todo[s])
  /\ todo' = [todo EXCEPT ![s] = {}]
  /\ BroadcastResume(s, "busy")
  /\ step' = [step EXCEPT ![s] = "flipbarrier"]
  /\ UNCHANGED <<state, barriers, flip_function, threadList, locks, passage, target, phase,
                 pending, thread_flip_running, disable_thread_flip_count, nesting, unflipped>>

\* Every flip function has been taken and run.
AllFlipped == flip_function = {}

\* Each flip function passes gc_barrier_; the collector waits there until all
\* have run, also those the threads resumed early have to run themselves.
AwaitFlips(s) ==
  /\ step[s] = "flipbarrier"
  /\ AllFlipped
  /\ step' = [step EXCEPT ![s] = "none"]
  /\ pc' = [pc EXCEPT ![s] = "susp"]
  /\ UNCHANGED <<word, threadList, locks, passage, call, pending, raised,
                 thread_flip_running, disable_thread_flip_count, nesting, unflipped>>

-----------------------------------------------------------------------------
FlipInit ==
  /\ Init
  /\ step = [t \in Threads |-> "none"]
  /\ thread_flip_running = FALSE
  /\ disable_thread_flip_count = 0
  /\ nesting = [t \in Threads |-> 0]
  /\ unflipped = {}

\* A thread between the two halves of a call of this module stays in it.
Free(t) == step[t] = "none"

\* The steps of ThreadSuspension, with the exclusion this module adds.
Suspension ==
  /\ \/ \E t \in Threads :
          Transition(t) \/ TransitionToSuspended(t) \/ SpuriousWakeup(t) \/ (Free(t) /\ Return(t))
     \/ \E s \in Suspenders \cup Collectors :
          \/ (step[s] = "flip" \/ (Free(s) /\ s \in Suspenders)) /\ SuspendAllInternal(s)
          \/ \E t \in Threads : InstallBarrier(s, t) \/ ReleaseToRetry(s, t)
          \/ CheckSuspended(s) \/ RetakeCountLock(s) \/ AwaitSuspension(s)
          \/ (\A t \in Threads : step[t] # "flipothers") /\ AcquireMutatorLock(s)
          \/ ReleaseMutatorLock(s)
          \/ Free(s) /\ ResumeAll(s)
     \/ \E s \in Requesters :
          \/ Iterate(s) \/ RetryRequest(s) \/ Resume(s)
          \/ Free(s) /\ \E t \in Threads : SuspendThreadByThreadId(s, t)
     \/ \E t \in Detachers : Register(t) \/ (Free(t) /\ nesting[t] = 0 /\ Unregister(t))
  /\ UNCHANGED flipVars

FlipStep(s) ==
  \/ WaitForCriticals(s)
  \/ FlipAndResume(s)
  \/ ThreadFlipEnd(s)
  \/ ShareMutatorLock(s)
  \/ \E t \in Threads : FlipOther(s, t)
  \/ FlipSelf(s)
  \/ ResumeOthers(s)
  \/ AwaitFlips(s)

FlipNext ==
  \/ Suspension
  \/ \E s \in Collectors : ThreadFlipBegin(s) \/ FlipStep(s)
  \/ \E t \in Natives :
       IncrementDisableThreadFlip(t) \/ EnterCritical(t) \/ DecrementDisableThreadFlip(t)

FlipSpec == FlipInit /\ [][FlipNext]_allVars

\* What a thread does of its own accord: it goes on with a transition, a
\* SuspendAll, a flip or a critical entry, stops when asked to, comes back to
\* its critical section, and ends a SuspendAll.
Progress(t) ==
  \/ FlipStep(t) \/ EnterCritical(t)
  \/ /\ \/ Transition(t) \/ SuspendPoint(t) \/ Stop(t) \/ ReleaseMutatorLock(t) \/ ResumeAll(t)
        \/ nesting[t] > 0 /\ Free(t) /\ Return(t)
     /\ UNCHANGED flipVars

\* A thread is not starved by a lock that is released again and again, resumes
\* whom it has suspended, and native code leaves its critical sections,
\* the nested ones and the outermost one.
FlipFairness ==
  /\ \A t \in Threads :
       /\ WF_allVars(Progress(t))
       /\ SF_allVars(/\ \/ ClaimBarriers(t) \/ WaitForResume(t) \/ Iterate(t) \/ RetryRequest(t)
                        \/ Resume(t)
                        \/ step[t] = "flip" /\ SuspendAllInternal(t)
                     /\ UNCHANGED flipVars)
  /\ \A t \in Natives :
       /\ SF_allVars(DecrementDisableThreadFlip(t))
       /\ SF_allVars(Outermost(t) /\ DecrementDisableThreadFlip(t))

\* The other suspensions do not go on for ever: some call is the last one.
Compete ==
  \/ \E s \in Suspenders : Free(s) /\ SuspendAllInternal(s)
  \/ \E s \in Requesters, t \in Threads : SuspendThreadByThreadId(s, t)
CompetitionEnds == <>[][~Compete]_allVars

FlipFairSpec == FlipSpec /\ FlipFairness /\ CompetitionEnds

-----------------------------------------------------------------------------
(* Properties *)

\* A thread runs its flip function before any other code of its own, also if
\* it was resumed early, and none is deleted with its function still to run
\* (~Thread's CHECK on flip_function).
FlippedBeforeRunning ==
  /\ \A t \in flip_function : state[t] = "Runnable" => pc[t] = "flip"
  /\ flip_function \subseteq list

\* No thread is inside a JNI critical section while the collector's flip
\* callback runs with mutator_lock_ held.
NoFlipInCritical ==
  \A s \in Collectors : step[s] = "flip" /\ pc[s] = "exclusive" =>
    \A t \in Threads : nesting[t] > 0 => step[t] \in {"enter", "enterwait"}

\* A flip that has been announced ends: the collector, the critical sections
\* it waits for and the threads that wait for it never wait in a circle.
FlipCompletes ==
  \A s \in Collectors : step[s] = "flipbegin" ~> step[s] = "none"
=============================================================================
