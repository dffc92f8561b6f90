------------------------- MODULE ReaderWriterMutex -------------------------
(***************************************************************************)
(* art::ReaderWriterMutex in the futex build (runtime/base/mutex.cc,       *)
(* runtime/base/mutex-inl.h).  As in Mutex, one action per access to       *)
(* shared memory or futex call; a compare-and-exchange that fails loops    *)
(* without a state change and is a stuttering step.                        *)
(***************************************************************************)
EXTENDS Integers, FiniteSets

CONSTANTS
  Threads,     \* the threads that use the lock
  NoThread,    \* exclusive_owner_ when no writer holds it (tid 0)
  Asked        \* the threads asked for empty checkpoints while they use the lock,
               \* none unless should_respond_to_empty_checkpoint_request_

RWAssumption == IsFiniteSet(Threads) /\ NoThread \notin Threads /\ Asked \subseteq Threads

VARIABLES
  state,                 \* state_: -1 held by a writer, n held by n readers
  exclusive_owner,       \* exclusive_owner_
  num_pending_readers,   \* num_pending_readers_
  num_pending_writers,   \* num_pending_writers_
  pc,                    \* where each thread is in the lock's code
  kind,                  \* how it asked for the lock: "shared", "exclusive" or "timed"
  cur_state,             \* the local of the locking loops
  futexQueue,            \* threads the kernel keeps asleep on &state_
  requests               \* threads whose kEmptyCheckpointRequest flag is set

pending == <<num_pending_readers, num_pending_writers>>
rwVars == <<state, exclusive_owner, num_pending_readers, num_pending_writers, pc, kind,
            cur_state, futexQueue, requests>>

(***************************************************************************)
(* Program counters.                                                       *)
(*   out          not holding the lock and not in its code                 *)
(*   lock         in a locking loop, about to load state_                  *)
(*   pend         found it held, about to count itself as pending          *)
(*   check        about to poll the empty checkpoint request               *)
(*   futex_wait   about to call FUTEX_WAIT with the state it loaded        *)
(*   asleep       inside FUTEX_WAIT                                        *)
(*   unpend       returned from it, about to stop being pending            *)
(*   giveup       as unpend, after ETIMEDOUT                               *)
(*   own          state_ is -1 for us, about to set exclusive_owner_       *)
(*   in           holding the lock, between calls                          *)
(*   release      exclusive_owner_ cleared, about to exchange -1 for 0     *)
(*   look, look2  state_ is 0 because of us, about to load the first and   *)
(*                the second of the two pending counts                     *)
(*   wake         found a pending thread, about to wake all sleepers       *)
(***************************************************************************)
Pending == {"check", "futex_wait", "asleep", "unpend", "giveup"}
Retrying == {"lock", "pend", "check", "futex_wait", "unpend"}
Waking == {"look", "look2", "wake"}
Labels == {"out", "own", "in", "release"} \cup Pending \cup Retrying \cup Waking

Goto(t, from, to) ==
  /\ pc[t] = from
  /\ pc' = [pc EXCEPT ![t] = to]

Init ==
  /\ state = 0
  /\ exclusive_owner = NoThread
  /\ num_pending_readers = 0
  /\ num_pending_writers = 0
  /\ pc = [t \in Threads |-> "out"]
  /\ kind = [t \in Threads |-> "shared"]
  /\ cur_state = [t \in Threads |-> 0]
  /\ futexQueue = {}
  /\ requests = {}

\* A call that returns without the lock; kind and cur_state have no meaning then.
Return(t) ==
  /\ kind' = [kind EXCEPT ![t] = "shared"]
  /\ cur_state' = [cur_state EXCEPT ![t] = 0]

\* The count a pending thread is part of changes by d.
CountPending(t, d) ==
  IF kind[t] = "shared"
  THEN num_pending_readers' = num_pending_readers + d /\ UNCHANGED num_pending_writers
  ELSE num_pending_writers' = num_pending_writers + d /\ UNCHANGED num_pending_readers

(***************************************************************************)
(* SharedLock, ExclusiveLock and ExclusiveLockWithTimeout.                 *)
(***************************************************************************)
Lock(t, k) ==
  /\ Goto(t, "out", "lock")
  /\ kind' = [kind EXCEPT ![t] = k]
  /\ UNCHANGED <<state, exclusive_owner, pending, cur_state, futexQueue, requests>>

\* Variant: a reader joins whatever the state.
JoinWriter(t) ==
  /\ Goto(t, "lock", "in")
  /\ kind[t] = "shared"
  /\ state' = state + 1
  /\ UNCHANGED <<exclusive_owner, pending, kind, cur_state, futexQueue, requests>>

\* cur_state >= 0: one more reader.
LockShared(t) ==
  /\ Goto(t, "lock", "in")
  /\ kind[t] = "shared"
  /\ state >= 0
  /\ state' = state + 1
  /\ UNCHANGED <<exclusive_owner, pending, kind, cur_state, futexQueue, requests>>

\* state_.CompareExchangeWeakAcquire(0, -1)
LockExclusive(t) ==
  /\ Goto(t, "lock", "own")
  /\ kind[t] # "shared"
  /\ state = 0
  /\ state' = -1
  /\ UNCHANGED <<exclusive_owner, pending, kind, cur_state, futexQueue, requests>>

TakeOwnership(t) ==
  /\ Goto(t, "own", "in")
  /\ exclusive_owner' = t
  /\ UNCHANGED <<state, pending, kind, cur_state, futexQueue, requests>>

\* The lock is held in a way that keeps t out.
LockBusy(t) ==
  /\ Goto(t, "lock", "pend")
  /\ IF kind[t] = "shared" THEN state < 0 ELSE state # 0
  /\ cur_state' = [cur_state EXCEPT ![t] = state]
  /\ UNCHANGED <<state, exclusive_owner, pending, kind, futexQueue, requests>>

\* ExclusiveLockWithTimeout finds the time is up before it waits.
TimeIsUp(t) ==
  /\ Goto(t, "pend", "out")
  /\ kind[t] = "timed"
  /\ Return(t)
  /\ UNCHANGED <<state, exclusive_owner, pending, futexQueue, requests>>

Pend(t) ==
  /\ Goto(t, "pend", "check")
  /\ CountPending(t, 1)
  /\ UNCHANGED <<state, exclusive_owner, kind, cur_state, futexQueue, requests>>

CheckEmptyCheckpointFromMutex(t) ==
  /\ Goto(t, "check", "futex_wait")
  /\ requests' = requests \ {t}
  /\ UNCHANGED <<state, exclusive_owner, pending, kind, cur_state, futexQueue>>

\* FUTEX_WAIT sleeps if state_ still has the value that was loaded.
FutexWait(t) ==
  /\ pc[t] = "futex_wait"
  /\ IF state = cur_state[t]
     THEN /\ pc' = [pc EXCEPT ![t] = "asleep"]
          /\ futexQueue' = futexQueue \cup {t}
     ELSE /\ pc' = [pc EXCEPT ![t] = "unpend"]
          /\ UNCHANGED futexQueue
  /\ UNCHANGED <<state, exclusive_owner, pending, kind, cur_state, requests>>

Unpend(t) ==
  /\ Goto(t, "unpend", "lock")
  /\ CountPending(t, -1)
  /\ cur_state' = [cur_state EXCEPT ![t] = 0]
  /\ UNCHANGED <<state, exclusive_owner, kind, futexQueue, requests>>

GiveUp(t) ==
  /\ Goto(t, "giveup", "out")
  /\ CountPending(t, -1)
  /\ Return(t)
  /\ UNCHANGED <<state, exclusive_owner, futexQueue, requests>>

\* SharedTryLock: as SharedLock, but it returns false where that would wait.
SharedTryLock(t) ==
  /\ Goto(t, "out", "in")
  /\ state >= 0
  /\ state' = state + 1
  /\ kind' = [kind EXCEPT ![t] = "shared"]
  /\ UNCHANGED <<exclusive_owner, pending, cur_state, futexQueue, requests>>

(***************************************************************************)
(* SharedUnlock and ExclusiveUnlock.                                       *)
(***************************************************************************)
\* Reduce state_ by one; the last reader looks for pending threads.
SharedUnlock(t) ==
  /\ Goto(t, "in", IF state = 1 THEN "look" ELSE "out")
  /\ kind[t] = "shared"
  /\ state' = state - 1
  /\ UNCHANGED <<exclusive_owner, pending, kind, cur_state, futexQueue, requests>>

ExclusiveUnlock(t) ==
  /\ Goto(t, "in", "release")
  /\ kind[t] # "shared"
  /\ exclusive_owner' = NoThread
  /\ UNCHANGED <<state, pending, kind, cur_state, futexQueue, requests>>

Release(t) ==
  /\ Goto(t, "release", "look")
  /\ state' = 0
  /\ UNCHANGED <<exclusive_owner, pending, kind, cur_state, futexQueue, requests>>

\* Variant: only the pending writers count.
LookAtWriters(t) ==
  /\ Goto(t, "look", IF num_pending_writers > 0 THEN "wake" ELSE "out")
  /\ UNCHANGED <<state, exclusive_owner, pending, kind, cur_state, futexQueue, requests>>

\* A reader loads num_pending_writers_ first, a writer num_pending_readers_.
Look(t) ==
  /\ Goto(t, "look", IF (IF kind[t] = "shared" THEN num_pending_writers ELSE num_pending_readers) > 0
                     THEN "wake" ELSE "look2")
  /\ UNCHANGED <<state, exclusive_owner, pending, kind, cur_state, futexQueue, requests>>

LookAgain(t) ==
  /\ Goto(t, "look2", IF (IF kind[t] = "shared" THEN num_pending_readers ELSE num_pending_writers) > 0
                      THEN "wake" ELSE "out")
  /\ IF pc'[t] = "out" THEN Return(t) ELSE UNCHANGED <<kind, cur_state>>
  /\ UNCHANGED <<state, exclusive_owner, pending, futexQueue, requests>>

\* FUTEX_WAKE with a count of -1 ends every sleep.
Woken == [t \in Threads |-> IF t \in futexQueue THEN "unpend" ELSE pc[t]]

WakeAll(t) ==
  /\ pc[t] = "wake"
  /\ pc' = [Woken EXCEPT ![t] = "out"]
  /\ futexQueue' = {}
  /\ Return(t)
  /\ UNCHANGED <<state, exclusive_owner, pending, requests>>

(***************************************************************************)
(* The kernel and the requester of empty checkpoints.                      *)
(***************************************************************************)
\* FUTEX_WAIT returns EINTR, or ETIMEDOUT to a thread that gave a timeout.
Interrupted(t) ==
  /\ t \in futexQueue
  /\ \E next \in {"unpend"} \cup IF kind[t] = "timed" THEN {"giveup"} ELSE {} :
       pc' = [pc EXCEPT ![t] = next]
  /\ futexQueue' = futexQueue \ {t}
  /\ UNCHANGED <<state, exclusive_owner, pending, kind, cur_state, requests>>

\* RequestEmptyCheckpoint on a thread that runs this code.
RequestEmptyCheckpoint(t) ==
  /\ t \in Asked \ requests
  /\ requests' = requests \cup {t}
  /\ UNCHANGED <<state, exclusive_owner, pending, pc, kind, cur_state, futexQueue>>

\* Variant: only the pending readers count.
WakeupReaders ==
  /\ requests # {}
  /\ num_pending_readers > 0
  /\ pc' = Woken
  /\ futexQueue' = {}
  /\ UNCHANGED <<state, exclusive_owner, pending, kind, cur_state, requests>>

\* Repeated by RunEmptyCheckpoint while a thread has not answered.
WakeupToRespondToEmptyCheckpoint ==
  /\ requests # {}
  /\ num_pending_readers > 0 \/ num_pending_writers > 0
  /\ pc' = Woken
  /\ futexQueue' = {}
  /\ UNCHANGED <<state, exclusive_owner, pending, kind, cur_state, requests>>

Internal(t) ==
  \/ LockShared(t) \/ LockExclusive(t) \/ TakeOwnership(t) \/ LockBusy(t) \/ Pend(t)
  \/ CheckEmptyCheckpointFromMutex(t) \/ FutexWait(t) \/ Unpend(t) \/ GiveUp(t)
  \/ Release(t) \/ Look(t) \/ LookAgain(t) \/ WakeAll(t)

Unlock(t) == SharedUnlock(t) \/ ExclusiveUnlock(t)

Next ==
  \/ \E t \in Threads :
       \/ Internal(t) \/ Unlock(t) \/ SharedTryLock(t) \/ TimeIsUp(t)
       \/ Interrupted(t) \/ RequestEmptyCheckpoint(t)
       \/ \E k \in {"shared", "exclusive", "timed"} : Lock(t, k)
  \/ WakeupToRespondToEmptyCheckpoint

Spec == Init /\ [][Next]_rwVars

\* The scheduler runs a thread that is not blocked; a holder lets go in the end;
\* the requester of a checkpoint repeats its wake-ups.
Fairness ==
  /\ \A t \in Threads : WF_rwVars(Internal(t)) /\ WF_rwVars(Unlock(t))
  /\ WF_rwVars(WakeupToRespondToEmptyCheckpoint)

FairSpec == Spec /\ Fairness

(***************************************************************************)
(* Properties.                                                             *)
(***************************************************************************)
Holders(ks) == {t \in Threads : pc[t] = "in" /\ kind[t] \in ks}

Abstract == INSTANCE AbstractRWLock
  WITH readers <- Holders({"shared"}), writers <- Holders({"exclusive", "timed"})

\* The futex lock is a reader-writer lock: shared or exclusive at any time,
\* released by those who hold it, and a timed attempt that gives up leaves it alone.
ImplementsRWLock == Abstract!Spec

\* A sleeping thread that the state no longer keeps out has a wake-up on its way:
\* the three fields state_, num_pending_readers_ and num_pending_writers_ are read
\* one by one ("the ordering here is non-trivial as state is split across 3
\* fields"), and a sleeper is woken by a change of state_ to 0 only.
NoStrandedWaiter ==
  \A t \in futexQueue :
    (IF kind[t] = "shared" THEN state >= 0 ELSE state = 0) =>
      \E u \in Threads : pc[u] \in Waking

\* A thread that sleeps or is about to is asked for an empty checkpoint.
MustAnswer(t) == t \in requests /\ pc[t] \in Pending

\* It answers or gets out.
EmptyCheckpointAnswered == \A t \in Threads : MustAnswer(t) ~> ~MustAnswer(t)

Locking == \E t \in Threads : pc[t] \in Retrying \cup {"asleep"}
Acquired == \E t \in Threads : pc[t] = "in"

\* While a thread is trying to lock, some thread gets the lock or all give up (a
\* timed attempt) trying.
LockProgress == Locking ~> Acquired \/ ~Locking

(***************************************************************************)
(* The inductive invariant behind NoStrandedWaiter and ImplementsRWLock.   *)
(***************************************************************************)
TypeOK ==
  /\ state \in Int /\ num_pending_readers \in Int /\ num_pending_writers \in Int
  /\ pc \in [Threads -> Labels]
  /\ kind \in [Threads -> {"shared", "exclusive", "timed"}]
  /\ cur_state \in [Threads -> Int]
  /\ futexQueue = {t \in Threads : pc[t] = "asleep"}

Readers == {t \in Threads : pc[t] = "in" /\ kind[t] = "shared"}
Writers == {t \in Threads : pc[t] \in {"own", "in", "release"} /\ kind[t] # "shared"}

\* state_ is -1 exactly while there is a writer, and else the number of readers.
HolderInv ==
  /\ \A t \in Threads : pc[t] \in {"own", "release"} => kind[t] # "shared"
  /\ state = -1 => Readers = {} /\ \E t \in Threads : Writers = {t}
  /\ state # -1 => Writers = {} /\ state = Cardinality(Readers)

PendingReaders == {t \in Threads : pc[t] \in Pending /\ kind[t] = "shared"}
PendingWriters == {t \in Threads : pc[t] \in Pending /\ kind[t] # "shared"}

\* The two counts are exact.
CountInv ==
  /\ num_pending_readers = Cardinality(PendingReaders)
  /\ num_pending_writers = Cardinality(PendingWriters)

\* The state lets a thread of kind k in.
LetsIn(k, s) == IF k = "shared" THEN s >= 0 ELSE s = 0

\* A thread goes to sleep only on a state that keeps it out.
WaitInv ==
  \A t \in Threads :
    pc[t] \in {"pend", "check", "futex_wait"} => ~LetsIn(kind[t], cur_state[t])

\* u will wake s: it has not yet loaded the count that s is part of.
WillWake(u, s) ==
  \/ pc[u] \in {"look", "wake"}
  \/ pc[u] = "look2" /\ (kind[u] = "shared" <=> kind[s] = "shared")

WakeInv ==
  \A s \in Threads :
    pc[s] = "asleep" /\ LetsIn(kind[s], state) => \E u \in Threads : WillWake(u, s)

IInv == TypeOK /\ HolderInv /\ CountInv /\ WaitInv /\ WakeInv
=============================================================================
