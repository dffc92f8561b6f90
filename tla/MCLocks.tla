------------------------------ MODULE MCLocks ------------------------------
(* A Mutex with its condition variable or a ReaderWriterMutex, one of the two
   at a time: chosen says which, and only that one steps. *)
EXTENDS Mutex

CONSTANTS RWThreads, Asked

VARIABLES
  chosen,
  rw_state, rw_exclusive_owner, num_pending_readers, num_pending_writers,
  rw_pc, kind, rw_cur_state, rw_futexQueue, rw_requests

RW == INSTANCE ReaderWriterMutex WITH
  Threads <- RWThreads, state <- rw_state, exclusive_owner <- rw_exclusive_owner,
  pc <- rw_pc, cur_state <- rw_cur_state, futexQueue <- rw_futexQueue,
  requests <- rw_requests

ASSUME RW!RWAssumption

rwVars == <<rw_state, rw_exclusive_owner, num_pending_readers, num_pending_writers,
            rw_pc, kind, rw_cur_state, rw_futexQueue, rw_requests>>

MCInit ==
  /\ chosen \in {"mutex", "reader-writer mutex"}
  /\ Init /\ RW!Init

MCNext ==
  \/ chosen = "mutex" /\ Next /\ UNCHANGED <<chosen, rwVars>>
  \/ chosen = "reader-writer mutex" /\ RW!Next /\ UNCHANGED <<chosen, vars>>

\* The fairness of each component, while it is the one chosen.
MCSpec ==
  /\ MCInit /\ [][MCNext]_<<chosen, vars, rwVars>>
  /\ \A t \in Threads :
       /\ WF_vars(chosen = "mutex" /\ Internal(t))
       /\ WF_vars(chosen = "mutex" /\ ExclusiveUnlock(t))
  /\ WF_vars(chosen = "mutex" /\ WakeupToRespondToEmptyCheckpoint)
  /\ \A t \in RWThreads :
       /\ WF_rwVars(chosen = "reader-writer mutex" /\ RW!Internal(t))
       /\ WF_rwVars(chosen = "reader-writer mutex" /\ RW!Unlock(t))
  /\ WF_rwVars(chosen = "reader-writer mutex" /\ RW!WakeupToRespondToEmptyCheckpoint)

-----------------------------------------------------------------------------
(* The properties of the two, as they hold of the one that is chosen. *)

\* ReaderWriterMutex is a reader-writer lock.
ImplementsRWLock == RW!ImplementsRWLock

\* No reader or writer sleeps on a lock it could take with no wake-up on its way.
NoStrandedWaiter == RW!NoStrandedWaiter

\* A thread blocked on a Mutex or on a ReaderWriterMutex answers a request for an
\* empty checkpoint or gets out (CheckEmptyCheckpointFromMutex): the wake-ups,
\* repeated, reach a thread preempted between its poll and its FUTEX_WAIT.
EmptyCheckpointsAnswered ==
  \A t \in Threads \cup Asked :
    MustAnswer(t) \/ RW!MustAnswer(t) ~> ~MustAnswer(t) /\ ~RW!MustAnswer(t)

\* While threads are trying to lock, some thread gets the lock (not always the one
\* that sleeps: the locks may be barged), or all have given up a timed attempt.
LocksProgress ==
  Locking \/ RW!Locking
    ~> IF chosen = "mutex" THEN Acquired ELSE RW!Acquired \/ ~RW!Locking
=============================================================================
