------------------------------- MODULE Mutex -------------------------------
(***************************************************************************)
(* art::Mutex and one art::ConditionVariable guarded by it, in the futex   *)
(* build (runtime/base/mutex.cc, runtime/base/mutex-inl.h).                *)
(*                                                                         *)
(* One action per access to shared memory or futex system call.  What a    *)
(* thread does between two such accesses is invisible to the others and    *)
(* belongs to the step that precedes it.  The weak compare-and-exchanges   *)
(* may fail spuriously; the code then loops without a state change, so a   *)
(* failed attempt is a stuttering step.                                    *)
(***************************************************************************)
EXTENDS Integers, FiniteSets

CONSTANTS
  Threads,        \* the threads that use the mutex
  NoThread,       \* exclusive_owner_ when the mutex is free (tid 0)
  Recursive,      \* recursive_
  Responds,       \* should_respond_to_empty_checkpoint_request_
  MaxDepth,       \* bound on recursion_count_
  MaxSequence     \* bound on sequence_: how many signals and broadcasts happen

ASSUME ThreadsAssumption == IsFiniteSet(Threads) /\ NoThread \notin Threads
ASSUME FlagsAssumption == Recursive \in BOOLEAN /\ Responds \in BOOLEAN
ASSUME BoundsAssumption == MaxDepth \in Nat \ {0} /\ MaxSequence \in Nat

VARIABLES
  state,               \* Mutex::state_: 0 free, 1 held
  exclusive_owner,     \* Mutex::exclusive_owner_
  recursion_count,     \* Mutex::recursion_count_
  num_contenders,      \* Mutex::num_contenders_
  sequence,            \* ConditionVariable::sequence_
  num_waiters,         \* ConditionVariable::num_waiters_
  pc,                  \* where each thread is in Mutex or ConditionVariable code
  cur_sequence,        \* the local of WaitHoldingLocks/TimedWait
  old_recursion_count, \* the local of WaitHoldingLocks/TimedWait, 0 outside them
  stateQueue,          \* threads the kernel keeps asleep on &state_
  sequenceQueue,       \* threads the kernel keeps asleep on &sequence_
  requests,            \* threads whose kEmptyCheckpointRequest flag is set
  last_broadcast       \* history: sequence_ as of the last completed Broadcast

lockVars == <<state, exclusive_owner, recursion_count>>
condVars == <<sequence, num_waiters, cur_sequence, old_recursion_count, last_broadcast>>
queueVars == <<stateQueue, sequenceQueue>>
vars == <<state, exclusive_owner, recursion_count, num_contenders, sequence,
          num_waiters, pc, cur_sequence, old_recursion_count, stateQueue,
          sequenceQueue, requests, last_broadcast>>

(***************************************************************************)
(* Program counters.                                                       *)
(*   out          in neither class, not holding the mutex                  *)
(*   lock         in ExclusiveLock, about to load state_                   *)
(*   contend      saw state_ = 1, about to increment num_contenders_       *)
(*   check        about to poll the empty checkpoint request               *)
(*   futex_wait   about to call FUTEX_WAIT on state_                       *)
(*   asleep       inside FUTEX_WAIT on state_                              *)
(*   uncontend    returned from it, about to decrement num_contenders_     *)
(*   own          state_ is ours, about to set exclusive_owner_            *)
(*   in           holding the mutex, between calls                         *)
(*   unlock       in ExclusiveUnlock, about to clear exclusive_owner_      *)
(*   release      about to exchange state_ from 1 to 0                     *)
(*   wake         about to wake a contender                                *)
(*   cv_wait      mutex released, about to call FUTEX_WAIT on sequence_    *)
(*   cv_asleep    inside that FUTEX_WAIT                                   *)
(*   cv_finish    holding the mutex again, about to undo the wait's counts *)
(*   signal       sequence_ incremented, about to wake one waiter          *)
(*   broadcast    sequence_ incremented, about to requeue all the waiters  *)
(***************************************************************************)
Counted == {"check", "futex_wait", "asleep", "uncontend"}
Holding == {"own", "in", "unlock", "release", "cv_finish", "signal", "broadcast"}
Retrying == {"lock", "contend", "check", "futex_wait", "uncontend"}
Labels == {"out", "lock", "contend", "check", "futex_wait", "asleep", "uncontend",
           "own", "in", "unlock", "release", "wake", "cv_wait", "cv_asleep",
           "cv_finish", "signal", "broadcast"}

InWait(t) == old_recursion_count[t] # 0

Goto(t, from, to) ==
  /\ pc[t] = from
  /\ pc' = [pc EXCEPT ![t] = to]

Init ==
  /\ state = 0
  /\ exclusive_owner = NoThread
  /\ recursion_count = 0
  /\ num_contenders = 0
  /\ sequence = 0
  /\ num_waiters = 0
  /\ pc = [t \in Threads |-> "out"]
  /\ cur_sequence = [t \in Threads |-> 0]
  /\ old_recursion_count = [t \in Threads |-> 0]
  /\ stateQueue = {}
  /\ sequenceQueue = {}
  /\ requests = {}
  /\ last_broadcast = 0

(***************************************************************************)
(* Mutex::ExclusiveLock.                                                   *)
(***************************************************************************)
\* IsExclusiveHeld(self): a racy read, exact for the calling thread.
IsExclusiveHeld(t) == exclusive_owner = t

ExclusiveLock(t) ==
  /\ Goto(t, "out", "lock")
  /\ UNCHANGED <<lockVars, num_contenders, condVars, queueVars, requests>>

\* recursive_ and already held: only the count changes.
RelockRecursively(t) ==
  /\ Goto(t, "in", "in")
  /\ Recursive /\ IsExclusiveHeld(t)
  /\ recursion_count < MaxDepth
  /\ recursion_count' = recursion_count + 1
  /\ UNCHANGED <<state, exclusive_owner, num_contenders, condVars, queueVars, requests>>

\* A plain store instead of the compare-and-exchange: the value loaded may be stale.
BlindStore(t) ==
  /\ Goto(t, "lock", "own")
  /\ state' = 1
  /\ UNCHANGED <<exclusive_owner, recursion_count, num_contenders, condVars, queueVars, requests>>

\* state_.CompareExchangeWeakAcquire(0, 1)
LockFree(t) ==
  /\ Goto(t, "lock", "own")
  /\ state = 0
  /\ state' = 1
  /\ UNCHANGED <<exclusive_owner, recursion_count, num_contenders, condVars, queueVars, requests>>

LockBusy(t) ==
  /\ Goto(t, "lock", "contend")
  /\ state = 1
  /\ UNCHANGED <<lockVars, num_contenders, condVars, queueVars, requests>>

Contend(t) ==
  /\ Goto(t, "contend", "check")
  /\ num_contenders' = num_contenders + 1
  /\ UNCHANGED <<lockVars, condVars, queueVars, requests>>

\* CheckEmptyCheckpointFromMutex: clear the flag and pass the requester's barrier.
CheckEmptyCheckpointFromMutex(t) ==
  /\ Goto(t, "check", "futex_wait")
  /\ requests' = IF Responds THEN requests \ {t} ELSE requests
  /\ UNCHANGED <<lockVars, num_contenders, condVars, queueVars>>

\* A sleep that does not look at state_.
SleepUnconditionally(t) ==
  /\ Goto(t, "futex_wait", "asleep")
  /\ stateQueue' = stateQueue \union {t}
  /\ UNCHANGED <<lockVars, num_contenders, condVars, sequenceQueue, requests>>

\* FUTEX_WAIT compares state_ with 1 and sleeps, atomically; otherwise EAGAIN.
FutexWait(t) ==
  /\ pc[t] = "futex_wait"
  /\ IF state = 1
     THEN /\ pc' = [pc EXCEPT ![t] = "asleep"]
          /\ stateQueue' = stateQueue \union {t}
     ELSE /\ pc' = [pc EXCEPT ![t] = "uncontend"]
          /\ UNCHANGED stateQueue
  /\ UNCHANGED <<lockVars, num_contenders, condVars, sequenceQueue, requests>>

Uncontend(t) ==
  /\ Goto(t, "uncontend", "lock")
  /\ num_contenders' = num_contenders - 1
  /\ UNCHANGED <<lockVars, condVars, queueVars, requests>>

\* exclusive_owner_ = SafeGetTid(self); recursion_count_++.  The call returns to
\* the caller or, from a wait, to the end of WaitHoldingLocks.
TakeOwnership(t) ==
  /\ Goto(t, "own", IF InWait(t) THEN "cv_finish" ELSE "in")
  /\ exclusive_owner' = t
  /\ recursion_count' = recursion_count + 1
  /\ UNCHANGED <<state, num_contenders, condVars, queueVars, requests>>

\* ExclusiveTryLock: one attempt, no contention path; a failed one changes nothing.
ExclusiveTryLock(t) ==
  /\ Goto(t, "out", "own")
  /\ state = 0
  /\ state' = 1
  /\ UNCHANGED <<exclusive_owner, recursion_count, num_contenders, condVars, queueVars, requests>>

(***************************************************************************)
(* Mutex::ExclusiveUnlock.                                                 *)
(***************************************************************************)
ExclusiveUnlock(t) ==
  /\ Goto(t, "in", IF recursion_count = 1 THEN "unlock" ELSE "in")
  /\ recursion_count' = recursion_count - 1
  /\ UNCHANGED <<state, exclusive_owner, num_contenders, condVars, queueVars, requests>>

\* exclusive_owner_ = 0, before the exchange that lets another thread in.
ClearOwner(t) ==
  /\ Goto(t, "unlock", "release")
  /\ exclusive_owner' = NoThread
  /\ UNCHANGED <<state, recursion_count, num_contenders, condVars, queueVars, requests>>

\* state_.CompareExchangeWeakSequentiallyConsistent(1, 0)
Release(t) ==
  /\ Goto(t, "release", "wake")
  /\ state = 1
  /\ state' = 0
  /\ UNCHANGED <<exclusive_owner, recursion_count, num_contenders, condVars, queueVars, requests>>

\* The kernel ends the sleep of the threads in S: one asleep in ExclusiveLock
\* goes on to decrement num_contenders_, one asleep in a wait relocks the mutex.
Woken(S) ==
  [t \in Threads |-> IF t \notin S THEN pc[t]
                     ELSE IF pc[t] = "asleep" THEN "uncontend" ELSE "lock"]

\* if (num_contenders_ > 0) FUTEX_WAKE 1; the kernel picks any sleeper.
WakeContender(t) ==
  /\ pc[t] = "wake"
  /\ LET next == IF InWait(t) THEN "cv_wait" ELSE "out" IN
     IF num_contenders > 0 /\ stateQueue # {}
     THEN \E u \in stateQueue :
            /\ pc' = [Woken({u}) EXCEPT ![t] = next]
            /\ stateQueue' = stateQueue \ {u}
     ELSE /\ pc' = [pc EXCEPT ![t] = next]
          /\ UNCHANGED stateQueue
  /\ UNCHANGED <<lockVars, num_contenders, condVars, sequenceQueue, requests>>

(***************************************************************************)
(* ConditionVariable::WaitHoldingLocks and TimedWait.  They differ in the  *)
(* timeout only, which ends a sleep like EINTR does (see Interrupted).     *)
(***************************************************************************)
\* A wait that leaves the contender count of the guard alone.
WaitUncounted(t) ==
  /\ Goto(t, "in", "unlock")
  /\ num_waiters' = num_waiters + 1
  /\ old_recursion_count' = [old_recursion_count EXCEPT ![t] = recursion_count]
  /\ cur_sequence' = [cur_sequence EXCEPT ![t] = sequence]
  /\ recursion_count' = 0
  /\ UNCHANGED <<state, exclusive_owner, num_contenders, sequence, queueVars, requests,
                 last_broadcast>>

\* The wait's registration, then ExclusiveUnlock with recursion_count_ = 1.
Wait(t) ==
  /\ Goto(t, "in", "unlock")
  /\ num_waiters' = num_waiters + 1
  /\ num_contenders' = num_contenders + 1
  /\ old_recursion_count' = [old_recursion_count EXCEPT ![t] = recursion_count]
  /\ cur_sequence' = [cur_sequence EXCEPT ![t] = sequence]
  /\ recursion_count' = 0
  /\ UNCHANGED <<state, exclusive_owner, sequence, queueVars, requests, last_broadcast>>

\* Loading sequence_ after the mutex has been released.
LateSequence(t) ==
  /\ Goto(t, "cv_wait", "cv_asleep")
  /\ sequenceQueue' = sequenceQueue \union {t}
  /\ UNCHANGED <<lockVars, num_contenders, condVars, stateQueue, requests>>

FutexWaitSequence(t) ==
  /\ pc[t] = "cv_wait"
  /\ IF sequence = cur_sequence[t]
     THEN /\ pc' = [pc EXCEPT ![t] = "cv_asleep"]
          /\ sequenceQueue' = sequenceQueue \union {t}
     ELSE /\ pc' = [pc EXCEPT ![t] = "lock"]
          /\ UNCHANGED sequenceQueue
  /\ UNCHANGED <<lockVars, num_contenders, condVars, stateQueue, requests>>

\* A wait that comes back with the mutex locked once.
ForgetDepth(t) ==
  /\ Goto(t, "cv_finish", "in")
  /\ num_waiters' = num_waiters - 1
  /\ num_contenders' = num_contenders - 1
  /\ recursion_count' = 1
  /\ old_recursion_count' = [old_recursion_count EXCEPT ![t] = 0]
  /\ UNCHANGED <<state, exclusive_owner, sequence, cur_sequence, queueVars, requests, last_broadcast>>

\* The mutex is held again: undo the registration, restore the recursion count.
FinishWait(t) ==
  /\ Goto(t, "cv_finish", "in")
  /\ num_waiters' = num_waiters - 1
  /\ num_contenders' = num_contenders - 1
  /\ recursion_count' = old_recursion_count[t]
  /\ old_recursion_count' = [old_recursion_count EXCEPT ![t] = 0]
  /\ UNCHANGED <<state, exclusive_owner, sequence, cur_sequence, queueVars, requests, last_broadcast>>

(***************************************************************************)
(* ConditionVariable::Signal and Broadcast.  Without waiters they do       *)
(* nothing.                                                                *)
(***************************************************************************)
Signal(t) ==
  /\ Goto(t, "in", "signal")
  /\ num_waiters > 0 /\ sequence < MaxSequence
  /\ sequence' = sequence + 1
  /\ UNCHANGED <<lockVars, num_contenders, num_waiters, cur_sequence, old_recursion_count,
                 queueVars, requests, last_broadcast>>

\* FUTEX_WAKE 1 on sequence_; nobody is woken when the waiters have not slept yet.
SignalWake(t) ==
  /\ pc[t] = "signal"
  /\ IF sequenceQueue # {}
     THEN \E u \in sequenceQueue :
            /\ pc' = [Woken({u}) EXCEPT ![t] = "in"]
            /\ sequenceQueue' = sequenceQueue \ {u}
     ELSE /\ pc' = [pc EXCEPT ![t] = "in"]
          /\ UNCHANGED sequenceQueue
  /\ UNCHANGED <<lockVars, num_contenders, condVars, stateQueue, requests>>

Broadcast(t) ==
  /\ Goto(t, "in", "broadcast")
  /\ num_waiters > 0 /\ sequence < MaxSequence
  /\ sequence' = sequence + 1
  /\ UNCHANGED <<lockVars, num_contenders, num_waiters, cur_sequence, old_recursion_count,
                 queueVars, requests, last_broadcast>>

\* FUTEX_CMP_REQUEUE, waking 0: every sleeper moves to the mutex's futex.  Only
\* the holder of the guard increments sequence_, so the comparison succeeds.
BroadcastRequeue(t) ==
  /\ Goto(t, "broadcast", "in")
  /\ stateQueue' = stateQueue \union sequenceQueue
  /\ sequenceQueue' = {}
  /\ last_broadcast' = sequence
  /\ UNCHANGED <<lockVars, num_contenders, sequence, num_waiters, cur_sequence,
                 old_recursion_count, requests>>

(***************************************************************************)
(* The kernel and the requester of empty checkpoints.                      *)
(***************************************************************************)
\* FUTEX_WAIT returns EINTR, or ETIMEDOUT in TimedWait, on either futex.
Interrupted(t) ==
  /\ t \in stateQueue \union sequenceQueue
  /\ pc' = Woken({t})
  /\ stateQueue' = stateQueue \ {t}
  /\ sequenceQueue' = sequenceQueue \ {t}
  /\ UNCHANGED <<lockVars, num_contenders, condVars, requests>>

\* Thread::RequestEmptyCheckpoint on a thread that runs Mutex code.
RequestEmptyCheckpoint(t) ==
  /\ Responds
  /\ t \notin requests
  /\ requests' = requests \union {t}
  /\ UNCHANGED <<lockVars, num_contenders, condVars, queueVars, pc>>

\* A wake-up that needs a second contender.
WakeupSeveral ==
  /\ requests # {}
  /\ num_contenders > 1
  /\ pc' = Woken(stateQueue)
  /\ stateQueue' = {}
  /\ UNCHANGED <<lockVars, num_contenders, condVars, sequenceQueue, requests>>

\* FUTEX_WAKE of every sleeper.  RunEmptyCheckpoint repeats the call every
\* 100 ms for as long as some thread has not answered.
WakeupToRespondToEmptyCheckpoint ==
  /\ requests # {}
  /\ num_contenders > 0
  /\ pc' = Woken(stateQueue)
  /\ stateQueue' = {}
  /\ UNCHANGED <<lockVars, num_contenders, condVars, sequenceQueue, requests>>

\* The steps a thread takes inside a call, once it has made it.
Internal(t) ==
  \/ LockFree(t) \/ LockBusy(t) \/ Contend(t) \/ CheckEmptyCheckpointFromMutex(t)
  \/ FutexWait(t) \/ Uncontend(t) \/ TakeOwnership(t)
  \/ ClearOwner(t) \/ Release(t) \/ WakeContender(t)
  \/ FutexWaitSequence(t) \/ FinishWait(t) \/ SignalWake(t) \/ BroadcastRequeue(t)

Call(t) ==
  \/ ExclusiveLock(t) \/ RelockRecursively(t) \/ ExclusiveTryLock(t) \/ ExclusiveUnlock(t)
  \/ Wait(t) \/ Signal(t) \/ Broadcast(t)

Next ==
  \/ \E t \in Threads : Internal(t) \/ Call(t) \/ Interrupted(t) \/ RequestEmptyCheckpoint(t)
  \/ WakeupToRespondToEmptyCheckpoint

Spec == Init /\ [][Next]_vars

\* The scheduler keeps running a thread that is not blocked; a holder releases
\* the mutex in the end; the requester of a checkpoint repeats its wake-ups.
Fairness ==
  /\ \A t \in Threads : WF_vars(Internal(t)) /\ WF_vars(ExclusiveUnlock(t))
  /\ WF_vars(WakeupToRespondToEmptyCheckpoint)

FairSpec == Spec /\ Fairness

(***************************************************************************)
(* Properties.                                                             *)
(***************************************************************************)
\* The lock as its clients see it: held from the return of the call that
\* acquires it to the call that releases it.
Owner ==
  IF exclusive_owner # NoThread /\ pc[exclusive_owner] \in {"in", "signal", "broadcast"}
  THEN exclusive_owner ELSE NoThread

Abstract == INSTANCE AbstractLock
  WITH owner <- Owner,
       depth <- IF Owner = NoThread THEN 0 ELSE recursion_count,
       saved <- old_recursion_count

\* The futex mutex with its condition variable implements the abstract lock: one
\* owner at a time, only the owner releases, and a wait gives the lock up
\* entirely and comes back with the recursion depth it left with.
ImplementsAbstractLock == Abstract!Spec

\* The types of the fields; num_contenders_ and num_waiters_ never go negative.
TypeOK ==
  /\ state \in {0, 1}
  /\ exclusive_owner \in Threads \union {NoThread}
  /\ recursion_count \in 0..MaxDepth
  /\ num_contenders \in Nat
  /\ sequence \in 0..MaxSequence
  /\ num_waiters \in Nat
  /\ pc \in [Threads -> Labels]
  /\ cur_sequence \in [Threads -> 0..MaxSequence]
  /\ old_recursion_count \in [Threads -> 0..MaxDepth]
  /\ stateQueue \subseteq Threads
  /\ sequenceQueue \subseteq Threads
  /\ requests \subseteq Threads
  /\ last_broadcast \in 0..MaxSequence

\* Two threads are never both between the exchange that acquires state_ and the
\* one that releases it, whichever of lock, try-lock and wait brought them there.
MutualExclusion ==
  \A t, u \in Threads : pc[t] \in Holding /\ pc[u] \in Holding => t = u

\* The mutex is never free with threads asleep on its futex and nobody on the way
\* to wake them or to take it: ExclusiveUnlock's separate loads of state_ and
\* num_contenders_, and the requeueing of Broadcast, lose no wake-up.
NoStrandedSleeper ==
  state = 0 /\ stateQueue # {} =>
    \E t \in Threads : pc[t] = "wake" \/ pc[t] \in Retrying

\* A thread that started to wait before a Broadcast is not asleep on the condition
\* variable once the Broadcast has returned, even if it had released the mutex
\* but not gone to sleep yet when the Broadcast was made.
BroadcastReachesAll ==
  \A t \in sequenceQueue : cur_sequence[t] >= last_broadcast

(***************************************************************************)
(* The inductive strengthening of the safety invariants.                   *)
(***************************************************************************)
\* state_ is 1 exactly while a thread is between acquiring and releasing it, and
\* exclusive_owner_ and recursion_count_ say where it is in between.
HolderInv ==
  /\ MutualExclusion
  /\ state = 1 <=> \E t \in Threads : pc[t] \in Holding
  /\ \A t \in Threads : exclusive_owner = t <=> pc[t] \in Holding \ {"own", "release"}
  /\ \A t \in Threads :
       /\ pc[t] \in {"in", "signal", "broadcast"} => recursion_count # 0
       /\ pc[t] = "cv_finish" => recursion_count = 1
       /\ pc[t] \in {"own", "unlock", "release"} => recursion_count = 0
  /\ state = 0 => recursion_count = 0

\* The kernel's queues hold the threads whose call has not returned.
QueueInv ==
  /\ \A t \in stateQueue : pc[t] \in {"asleep", "cv_asleep"}
  /\ \A t \in sequenceQueue : pc[t] = "cv_asleep" /\ t \notin stateQueue
  /\ \A t \in Threads : pc[t] = "asleep" => t \in stateQueue
  /\ \A t \in Threads : pc[t] = "cv_asleep" => t \in stateQueue \union sequenceQueue

WaitInv ==
  \A t \in Threads :
    /\ pc[t] \in {"cv_wait", "cv_asleep", "cv_finish"} => InWait(t)
    /\ pc[t] \in {"out", "in", "signal", "broadcast"} => ~InWait(t)

Waiters == {t \in Threads : InWait(t)}
Contenders == {t \in Threads : pc[t] \in Counted}

\* num_waiters_ counts the threads in a wait, num_contenders_ those and the threads
\* in the contention path of ExclusiveLock; one in both is counted twice.
CountInv ==
  /\ num_waiters = Cardinality(Waiters)
  /\ num_contenders = Cardinality(Contenders) + Cardinality(Waiters)

SequenceInv ==
  /\ last_broadcast <= sequence
  /\ BroadcastReachesAll

IInv ==
  TypeOK /\ HolderInv /\ QueueInv /\ WaitInv /\ CountInv /\ NoStrandedSleeper /\ SequenceInv

(***************************************************************************)
(* Liveness.                                                               *)
(***************************************************************************)
\* A thread that sleeps or is about to sleep on the mutex is asked for an empty
\* checkpoint.
MustAnswer(t) == t \in requests /\ pc[t] \in Counted

\* It answers or gets out: the wake-ups, repeated, reach a thread preempted
\* between its poll and its FUTEX_WAIT.
EmptyCheckpointAnswered == \A t \in Threads : MustAnswer(t) ~> ~MustAnswer(t)

Locking == \E t \in Threads : pc[t] \in Retrying \union {"asleep"}
Acquired == \E t \in Threads : pc[t] = "in"

\* While some thread is in ExclusiveLock, some thread (not always that one:
\* the mutex may be barged) acquires the mutex and returns to its caller.
LockProgress == Locking ~> Acquired
=============================================================================
