---------------------- MODULE ReaderWriterMutexProofs ----------------------
(***************************************************************************)
(* Proofs that the futex reader-writer lock of ReaderWriterMutex.tla        *)
(* strands no sleeper and implements AbstractRWLock, for any finite set of *)
(* threads.                                                                *)
(***************************************************************************)
EXTENDS ReaderWriterMutex, FiniteSetTheorems, TLAPS

USE DEF Goto, pending

\* Adding a thread to, or taking it from, a set of threads changes its size by one.
LEMMA Count ==
  ASSUME RWAssumption, NEW S \in SUBSET Threads, NEW t \in Threads
  PROVE  /\ Cardinality(S) \in Nat
         /\ S = {} <=> Cardinality(S) = 0
         /\ t \notin S => Cardinality(S \cup {t}) = Cardinality(S) + 1
         /\ t \in S => Cardinality(S \ {t}) = Cardinality(S) - 1
<1>1. IsFiniteSet(S)
  BY FS_Subset, Zenon DEF RWAssumption
<1>2. Cardinality(S) \in Nat
  BY <1>1, FS_CardinalityType, Zenon
<1>3. S = {} <=> Cardinality(S) = 0
  BY <1>1, FS_EmptySet, Zenon
<1>4. t \notin S => Cardinality(S \cup {t}) = Cardinality(S) + 1
  BY <1>1, FS_AddElement, Zenon
<1>5. t \in S => Cardinality(S \ {t}) = Cardinality(S) - 1
  BY <1>1, FS_RemoveElement, Zenon
<1> QED
  BY <1>2, <1>3, <1>4, <1>5, Zenon

\* FUTEX_WAKE moves every sleeper on and nobody else.
LEMMA WokenShape ==
  ASSUME TypeOK
  PROVE  /\ Woken \in [Threads -> Labels]
         /\ \A v \in Threads : Woken[v] = IF pc[v] = "asleep" THEN "unpend" ELSE pc[v]
  BY Zenon DEF TypeOK, Woken, Labels, Pending

\* Every step keeps the types, and the kernel's queue holds exactly the sleepers.
LEMMA TypeStep ==
  ASSUME TypeOK, Next
  PROVE  TypeOK'
<1>1. ASSUME NEW t \in Threads, LockShared(t) PROVE TypeOK'
  BY <1>1 DEF LockShared, TypeOK, Labels, Pending, Retrying, Waking
<1>2. ASSUME NEW t \in Threads, LockExclusive(t) PROVE TypeOK'
  BY <1>2 DEF LockExclusive, TypeOK, Labels, Pending, Retrying, Waking
<1>3. ASSUME NEW t \in Threads, TakeOwnership(t) PROVE TypeOK'
  BY <1>3, Zenon DEF TakeOwnership, TypeOK, Labels, Pending, Retrying, Waking
<1>4. ASSUME NEW t \in Threads, LockBusy(t) PROVE TypeOK'
  BY <1>4, Zenon DEF LockBusy, TypeOK, Labels, Pending, Retrying, Waking
<1>5. ASSUME NEW t \in Threads, Pend(t) PROVE TypeOK'
  BY <1>5 DEF Pend, CountPending, TypeOK, Labels, Pending, Retrying, Waking
<1>6. ASSUME NEW t \in Threads, CheckEmptyCheckpointFromMutex(t) PROVE TypeOK'
  BY <1>6, Zenon DEF CheckEmptyCheckpointFromMutex, TypeOK, Labels, Pending, Retrying,
     Waking
<1>7. ASSUME NEW t \in Threads, FutexWait(t) PROVE TypeOK'
  BY <1>7 DEF FutexWait, TypeOK, Labels, Pending, Retrying, Waking
<1>8. ASSUME NEW t \in Threads, Unpend(t) PROVE TypeOK'
  BY <1>8 DEF Unpend, CountPending, TypeOK, Labels, Pending, Retrying, Waking
<1>9. ASSUME NEW t \in Threads, GiveUp(t) PROVE TypeOK'
  BY <1>9 DEF GiveUp, CountPending, Return, TypeOK, Labels, Pending, Retrying, Waking
<1>10. ASSUME NEW t \in Threads, Release(t) PROVE TypeOK'
  BY <1>10 DEF Release, TypeOK, Labels, Pending, Retrying, Waking
<1>11. ASSUME NEW t \in Threads, Look(t) PROVE TypeOK'
  BY <1>11, Zenon DEF Look, TypeOK, Labels, Pending, Retrying, Waking
<1>12. ASSUME NEW t \in Threads, LookAgain(t) PROVE TypeOK'
  BY <1>12 DEF LookAgain, Return, TypeOK, Labels, Pending, Retrying, Waking
<1>13. ASSUME NEW t \in Threads, WakeAll(t) PROVE TypeOK'
  BY <1>13, WokenShape DEF WakeAll, Return, TypeOK, Labels, Pending, Retrying, Waking
<1>14. ASSUME NEW t \in Threads, SharedUnlock(t) PROVE TypeOK'
  BY <1>14 DEF SharedUnlock, TypeOK, Labels, Pending, Retrying, Waking
<1>15. ASSUME NEW t \in Threads, ExclusiveUnlock(t) PROVE TypeOK'
  BY <1>15, Zenon DEF ExclusiveUnlock, TypeOK, Labels, Pending, Retrying, Waking
<1>16. ASSUME NEW t \in Threads, SharedTryLock(t) PROVE TypeOK'
  BY <1>16 DEF SharedTryLock, TypeOK, Labels, Pending, Retrying, Waking
<1>17. ASSUME NEW t \in Threads, TimeIsUp(t) PROVE TypeOK'
  BY <1>17 DEF TimeIsUp, Return, TypeOK, Labels, Pending, Retrying, Waking
<1>18. ASSUME NEW t \in Threads, Interrupted(t) PROVE TypeOK'
  BY <1>18 DEF Interrupted, TypeOK, Labels, Pending, Retrying, Waking
<1>19. ASSUME NEW t \in Threads, RequestEmptyCheckpoint(t) PROVE TypeOK'
  BY <1>19, Zenon DEF RequestEmptyCheckpoint, TypeOK, Labels, Pending, Retrying, Waking
<1>20. ASSUME NEW t \in Threads, NEW k \in {"shared", "exclusive", "timed"}, Lock(t, k)
       PROVE TypeOK'
  BY <1>20, Zenon DEF Lock, TypeOK, Labels, Pending, Retrying, Waking
<1>21. CASE WakeupToRespondToEmptyCheckpoint
  BY <1>21, WokenShape, Zenon DEF WakeupToRespondToEmptyCheckpoint, TypeOK, Labels,
     Pending, Retrying, Waking
<1> QED
  BY <1>1, <1>2, <1>3, <1>4, <1>5, <1>6, <1>7, <1>8, <1>9, <1>10, <1>11, <1>12, <1>13,
     <1>14, <1>15, <1>16, <1>17, <1>18, <1>19, <1>20, <1>21, Zenon DEF Next, Internal,
     Unlock

\* Every step keeps state_ true to the readers and the writer.
LEMMA HolderStep ==
  ASSUME RWAssumption, TypeOK, HolderInv, Next
  PROVE  HolderInv'
<1>0. Readers \in SUBSET Threads
  BY Zenon DEF Readers
<1>1. ASSUME NEW t \in Threads, LockShared(t) PROVE HolderInv'
  <2>1. Readers' = Readers \cup {t} /\ t \notin Readers /\ Writers' = Writers
    BY <1>1, Zenon DEF LockShared, Readers, Writers, TypeOK
  <2>2. state # -1 /\ state' = Cardinality(Readers')
    BY <1>1, <2>1, <1>0, Count DEF LockShared, TypeOK, HolderInv
  <2>3. state' # -1
    BY <1>1 DEF LockShared, TypeOK
  <2>4. \A v \in Threads : pc'[v] \in {"own", "release"} => kind'[v] # "shared"
    BY <1>1, Zenon DEF LockShared, TypeOK, HolderInv
  <2> QED
    BY <2>1, <2>2, <2>3, <2>4, Zenon DEF HolderInv
<1>2. ASSUME NEW t \in Threads, LockExclusive(t) PROVE HolderInv'
  <2>1. state # -1 /\ Cardinality(Readers) = 0 /\ Writers = {}
    BY <1>2 DEF LockExclusive, HolderInv
  <2>2. Readers = {}
    BY <2>1, <1>0, Count, Zenon
  <2>3. Readers' = {} /\ Writers' = {t}
    BY <1>2, <2>1, <2>2, Zenon DEF LockExclusive, Readers, Writers, TypeOK
  <2> QED
    BY <1>2, <2>3, Zenon DEF LockExclusive, HolderInv, TypeOK
<1>3. ASSUME NEW t \in Threads, TakeOwnership(t) PROVE HolderInv'
  <2>1. state' = state /\ Readers' = Readers /\ Writers' = Writers
    BY <1>3, Zenon DEF TakeOwnership, Readers, Writers, TypeOK, HolderInv
  <2>2. \A v \in Threads : pc'[v] \in {"own", "release"} => kind'[v] # "shared"
    BY <1>3, Zenon DEF TakeOwnership, TypeOK, HolderInv
  <2> QED
    BY <2>1, <2>2, Zenon DEF HolderInv
<1>4. ASSUME NEW t \in Threads, LockBusy(t) PROVE HolderInv'
  <2>1. state' = state /\ Readers' = Readers /\ Writers' = Writers
    BY <1>4, Zenon DEF LockBusy, Readers, Writers, TypeOK, HolderInv
  <2>2. \A v \in Threads : pc'[v] \in {"own", "release"} => kind'[v] # "shared"
    BY <1>4, Zenon DEF LockBusy, TypeOK, HolderInv
  <2> QED
    BY <2>1, <2>2, Zenon DEF HolderInv
<1>5. ASSUME NEW t \in Threads, Pend(t) PROVE HolderInv'
  <2>1. state' = state /\ Readers' = Readers /\ Writers' = Writers
    BY <1>5, Zenon DEF Pend, CountPending, Readers, Writers, TypeOK, HolderInv
  <2>2. \A v \in Threads : pc'[v] \in {"own", "release"} => kind'[v] # "shared"
    BY <1>5, Zenon DEF Pend, CountPending, TypeOK, HolderInv
  <2> QED
    BY <2>1, <2>2, Zenon DEF HolderInv
<1>6. ASSUME NEW t \in Threads, CheckEmptyCheckpointFromMutex(t) PROVE HolderInv'
  <2>1. state' = state /\ Readers' = Readers /\ Writers' = Writers
    BY <1>6, Zenon DEF CheckEmptyCheckpointFromMutex, Readers, Writers, TypeOK, HolderInv
  <2>2. \A v \in Threads : pc'[v] \in {"own", "release"} => kind'[v] # "shared"
    BY <1>6, Zenon DEF CheckEmptyCheckpointFromMutex, TypeOK, HolderInv
  <2> QED
    BY <2>1, <2>2, Zenon DEF HolderInv
<1>7. ASSUME NEW t \in Threads, FutexWait(t) PROVE HolderInv'
  <2>1. state' = state /\ Readers' = Readers /\ Writers' = Writers
    BY <1>7, Zenon DEF FutexWait, Readers, Writers, TypeOK, HolderInv
  <2>2. \A v \in Threads : pc'[v] \in {"own", "release"} => kind'[v] # "shared"
    BY <1>7, Zenon DEF FutexWait, TypeOK, HolderInv
  <2> QED
    BY <2>1, <2>2, Zenon DEF HolderInv
<1>8. ASSUME NEW t \in Threads, Unpend(t) PROVE HolderInv'
  <2>1. state' = state /\ Readers' = Readers /\ Writers' = Writers
    BY <1>8, Zenon DEF Unpend, CountPending, Readers, Writers, TypeOK, HolderInv
  <2>2. \A v \in Threads : pc'[v] \in {"own", "release"} => kind'[v] # "shared"
    BY <1>8, Zenon DEF Unpend, CountPending, TypeOK, HolderInv
  <2> QED
    BY <2>1, <2>2, Zenon DEF HolderInv
<1>9. ASSUME NEW t \in Threads, GiveUp(t) PROVE HolderInv'
  <2>1. state' = state /\ Readers' = Readers /\ Writers' = Writers
    BY <1>9, Zenon DEF GiveUp, CountPending, Return, Readers, Writers, TypeOK, HolderInv
  <2>2. \A v \in Threads : pc'[v] \in {"own", "release"} => kind'[v] # "shared"
    BY <1>9, Zenon DEF GiveUp, CountPending, Return, TypeOK, HolderInv
  <2> QED
    BY <2>1, <2>2, Zenon DEF HolderInv
<1>10. ASSUME NEW t \in Threads, Release(t) PROVE HolderInv'
  <2>1. t \in Writers
    BY <1>10, Zenon DEF Release, Writers, HolderInv
  <2>2. Readers = {} /\ Writers = {t}
    BY <2>1, Zenon DEF HolderInv
  <2>3. Readers' = {} /\ Writers' = {}
    BY <1>10, <2>2, Zenon DEF Release, Readers, Writers, TypeOK
  <2>4. Cardinality({}) = 0
    BY FS_EmptySet, Zenon
  <2> QED
    BY <1>10, <2>3, <2>4 DEF Release, HolderInv, TypeOK
<1>11. ASSUME NEW t \in Threads, Look(t) PROVE HolderInv'
  <2>1. state' = state /\ Readers' = Readers /\ Writers' = Writers
    BY <1>11, Zenon DEF Look, Readers, Writers, TypeOK, HolderInv
  <2>2. \A v \in Threads : pc'[v] \in {"own", "release"} => kind'[v] # "shared"
    BY <1>11, Zenon DEF Look, TypeOK, HolderInv
  <2> QED
    BY <2>1, <2>2, Zenon DEF HolderInv
<1>12. ASSUME NEW t \in Threads, LookAgain(t) PROVE HolderInv'
  <2>1. state' = state /\ Readers' = Readers /\ Writers' = Writers
    BY <1>12 DEF LookAgain, Return, Readers, Writers, TypeOK, HolderInv
  <2>2. \A v \in Threads : pc'[v] \in {"own", "release"} => kind'[v] # "shared"
    BY <1>12, Zenon DEF LookAgain, Return, TypeOK, HolderInv
  <2> QED
    BY <2>1, <2>2, Zenon DEF HolderInv
<1>13. ASSUME NEW t \in Threads, WakeAll(t) PROVE HolderInv'
  <2>1. state' = state /\ Readers' = Readers /\ Writers' = Writers
    BY <1>13, WokenShape DEF WakeAll, Return, Readers, Writers, TypeOK, HolderInv
  <2>2. \A v \in Threads : pc'[v] \in {"own", "release"} => kind'[v] # "shared"
    BY <1>13, WokenShape, Zenon DEF WakeAll, Return, TypeOK, HolderInv
  <2> QED
    BY <2>1, <2>2, Zenon DEF HolderInv
<1>14. ASSUME NEW t \in Threads, SharedUnlock(t) PROVE HolderInv'
  <2>1. Readers' = Readers \ {t} /\ t \in Readers /\ Writers' = Writers
    BY <1>14, Zenon DEF SharedUnlock, Readers, Writers, TypeOK
  <2>2. state # -1 /\ state = Cardinality(Readers) /\ Writers = {}
    BY <2>1, Zenon DEF HolderInv
  <2>3. state' = Cardinality(Readers') /\ state' # -1
    <3>1. Cardinality(Readers) \in Nat /\ Cardinality(Readers) # 0
      BY <2>1, <1>0, Count, Zenon
    <3>2. Cardinality(Readers \ {t}) = Cardinality(Readers) - 1
      BY <2>1, <1>0, Count, Zenon
    <3> QED
      BY <1>14, <2>1, <2>2, <3>1, <3>2 DEF SharedUnlock
  <2>4. \A v \in Threads : pc'[v] \in {"own", "release"} => kind'[v] # "shared"
    BY <1>14, Zenon DEF SharedUnlock, TypeOK, HolderInv
  <2> QED
    BY <2>1, <2>2, <2>3, <2>4, Zenon DEF HolderInv
<1>15. ASSUME NEW t \in Threads, ExclusiveUnlock(t) PROVE HolderInv'
  <2>1. state' = state /\ Readers' = Readers /\ Writers' = Writers
    BY <1>15, Zenon DEF ExclusiveUnlock, Readers, Writers, TypeOK, HolderInv
  <2>2. \A v \in Threads : pc'[v] \in {"own", "release"} => kind'[v] # "shared"
    BY <1>15, Zenon DEF ExclusiveUnlock, TypeOK, HolderInv
  <2> QED
    BY <2>1, <2>2, Zenon DEF HolderInv
<1>16. ASSUME NEW t \in Threads, SharedTryLock(t) PROVE HolderInv'
  <2>1. Readers' = Readers \cup {t} /\ t \notin Readers /\ Writers' = Writers
    BY <1>16, Zenon DEF SharedTryLock, Readers, Writers, TypeOK
  <2>2. state # -1 /\ state' = Cardinality(Readers')
    BY <1>16, <2>1, <1>0, Count DEF SharedTryLock, TypeOK, HolderInv
  <2>3. state' # -1
    BY <1>16 DEF SharedTryLock, TypeOK
  <2>4. \A v \in Threads : pc'[v] \in {"own", "release"} => kind'[v] # "shared"
    BY <1>16, Zenon DEF SharedTryLock, TypeOK, HolderInv
  <2> QED
    BY <2>1, <2>2, <2>3, <2>4, Zenon DEF HolderInv
<1>17. ASSUME NEW t \in Threads, TimeIsUp(t) PROVE HolderInv'
  <2>1. state' = state /\ Readers' = Readers /\ Writers' = Writers
    BY <1>17, Zenon DEF TimeIsUp, Return, Readers, Writers, TypeOK, HolderInv
  <2>2. \A v \in Threads : pc'[v] \in {"own", "release"} => kind'[v] # "shared"
    BY <1>17, Zenon DEF TimeIsUp, Return, TypeOK, HolderInv
  <2> QED
    BY <2>1, <2>2, Zenon DEF HolderInv
<1>18. ASSUME NEW t \in Threads, Interrupted(t) PROVE HolderInv'
  <2>1. state' = state /\ Readers' = Readers /\ Writers' = Writers
    BY <1>18, Zenon DEF Interrupted, Readers, Writers, TypeOK, HolderInv
  <2>2. \A v \in Threads : pc'[v] \in {"own", "release"} => kind'[v] # "shared"
    BY <1>18, Zenon DEF Interrupted, TypeOK, HolderInv
  <2> QED
    BY <2>1, <2>2, Zenon DEF HolderInv
<1>19. ASSUME NEW t \in Threads, RequestEmptyCheckpoint(t) PROVE HolderInv'
  <2>1. state' = state /\ Readers' = Readers /\ Writers' = Writers
    BY <1>19, Zenon DEF RequestEmptyCheckpoint, Readers, Writers, TypeOK, HolderInv
  <2>2. \A v \in Threads : pc'[v] \in {"own", "release"} => kind'[v] # "shared"
    BY <1>19, Zenon DEF RequestEmptyCheckpoint, TypeOK, HolderInv
  <2> QED
    BY <2>1, <2>2, Zenon DEF HolderInv
<1>20. ASSUME NEW t \in Threads, NEW k \in {"shared", "exclusive", "timed"}, Lock(t, k)
       PROVE HolderInv'
  <2>1. state' = state /\ Readers' = Readers /\ Writers' = Writers
    BY <1>20, Zenon DEF Lock, Readers, Writers, TypeOK, HolderInv
  <2>2. \A v \in Threads : pc'[v] \in {"own", "release"} => kind'[v] # "shared"
    BY <1>20, Zenon DEF Lock, TypeOK, HolderInv
  <2> QED
    BY <2>1, <2>2, Zenon DEF HolderInv
<1>21. CASE WakeupToRespondToEmptyCheckpoint
  <2>1. state' = state /\ Readers' = Readers /\ Writers' = Writers
    BY <1>21, WokenShape DEF WakeupToRespondToEmptyCheckpoint, Readers, Writers, TypeOK,
       HolderInv
  <2>2. \A v \in Threads : pc'[v] \in {"own", "release"} => kind'[v] # "shared"
    BY <1>21, WokenShape, Zenon DEF WakeupToRespondToEmptyCheckpoint, TypeOK, HolderInv
  <2> QED
    BY <2>1, <2>2, Zenon DEF HolderInv
<1> QED
  BY <1>1, <1>2, <1>3, <1>4, <1>5, <1>6, <1>7, <1>8, <1>9, <1>10, <1>11, <1>12, <1>13,
     <1>14, <1>15, <1>16, <1>17, <1>18, <1>19, <1>20, <1>21, Zenon DEF Next, Internal,
     Unlock

\* Every step keeps the two pending counts exact.
LEMMA CountStep ==
  ASSUME RWAssumption, TypeOK, CountInv, Next
  PROVE  CountInv'
<1>0. PendingReaders \in SUBSET Threads /\ PendingWriters \in SUBSET Threads
  BY Zenon DEF PendingReaders, PendingWriters
<1>1. ASSUME NEW t \in Threads, LockShared(t) PROVE CountInv'
  <2>1. PendingReaders' = PendingReaders /\ PendingWriters' = PendingWriters
    BY <1>1, Zenon DEF LockShared, PendingReaders, PendingWriters, Pending, TypeOK
  <2> QED
    BY <1>1, <2>1, Zenon DEF LockShared, CountInv
<1>2. ASSUME NEW t \in Threads, LockExclusive(t) PROVE CountInv'
  <2>1. PendingReaders' = PendingReaders /\ PendingWriters' = PendingWriters
    BY <1>2, Zenon DEF LockExclusive, PendingReaders, PendingWriters, Pending, TypeOK
  <2> QED
    BY <1>2, <2>1, Zenon DEF LockExclusive, CountInv
<1>3. ASSUME NEW t \in Threads, TakeOwnership(t) PROVE CountInv'
  <2>1. PendingReaders' = PendingReaders /\ PendingWriters' = PendingWriters
    BY <1>3, Zenon DEF TakeOwnership, PendingReaders, PendingWriters, Pending, TypeOK
  <2> QED
    BY <1>3, <2>1, Zenon DEF TakeOwnership, CountInv
<1>4. ASSUME NEW t \in Threads, LockBusy(t) PROVE CountInv'
  <2>1. PendingReaders' = PendingReaders /\ PendingWriters' = PendingWriters
    BY <1>4, Zenon DEF LockBusy, PendingReaders, PendingWriters, Pending, TypeOK
  <2> QED
    BY <1>4, <2>1, Zenon DEF LockBusy, CountInv
<1>5. ASSUME NEW t \in Threads, Pend(t) PROVE CountInv'
  <2>1. CASE kind[t] = "shared"
    <3>1. PendingReaders' = PendingReaders \cup {t} /\ t \notin PendingReaders
             /\ PendingWriters' = PendingWriters
      BY <1>5, <2>1, Zenon DEF Pend, PendingReaders, PendingWriters, Pending, TypeOK
    <3>2. Cardinality(PendingReaders') = Cardinality(PendingReaders) + 1
      BY <3>1, <1>0, Count, Zenon
    <3> QED
      BY <1>5, <2>1, <3>1, <3>2, Zenon DEF Pend, CountPending, CountInv
  <2>2. CASE kind[t] # "shared"
    <3>1. PendingWriters' = PendingWriters \cup {t} /\ t \notin PendingWriters
             /\ PendingReaders' = PendingReaders
      BY <1>5, <2>2, Zenon DEF Pend, PendingReaders, PendingWriters, Pending, TypeOK
    <3>2. Cardinality(PendingWriters') = Cardinality(PendingWriters) + 1
      BY <3>1, <1>0, Count, Zenon
    <3> QED
      BY <1>5, <2>2, <3>1, <3>2, Zenon DEF Pend, CountPending, CountInv
  <2> QED
    BY <2>1, <2>2, Zenon
<1>6. ASSUME NEW t \in Threads, CheckEmptyCheckpointFromMutex(t) PROVE CountInv'
  <2>1. PendingReaders' = PendingReaders /\ PendingWriters' = PendingWriters
    BY <1>6, Zenon DEF CheckEmptyCheckpointFromMutex, PendingReaders, PendingWriters,
       Pending, TypeOK
  <2> QED
    BY <1>6, <2>1, Zenon DEF CheckEmptyCheckpointFromMutex, CountInv
<1>7. ASSUME NEW t \in Threads, FutexWait(t) PROVE CountInv'
  <2>1. PendingReaders' = PendingReaders /\ PendingWriters' = PendingWriters
    BY <1>7, Zenon DEF FutexWait, PendingReaders, PendingWriters, Pending, TypeOK
  <2> QED
    BY <1>7, <2>1, Zenon DEF FutexWait, CountInv
<1>8. ASSUME NEW t \in Threads, Unpend(t) PROVE CountInv'
  <2>1. CASE kind[t] = "shared"
    <3>1. PendingReaders' = PendingReaders \ {t} /\ t \in PendingReaders
             /\ PendingWriters' = PendingWriters
      BY <1>8, <2>1, Zenon DEF Unpend, PendingReaders, PendingWriters, Pending, TypeOK
    <3>2. Cardinality(PendingReaders') = Cardinality(PendingReaders) - 1
      BY <3>1, <1>0, Count, Zenon
    <3> QED
      BY <1>8, <2>1, <3>1, <3>2, Zenon DEF Unpend, CountPending, CountInv
  <2>2. CASE kind[t] # "shared"
    <3>1. PendingWriters' = PendingWriters \ {t} /\ t \in PendingWriters
             /\ PendingReaders' = PendingReaders
      BY <1>8, <2>2, Zenon DEF Unpend, PendingReaders, PendingWriters, Pending, TypeOK
    <3>2. Cardinality(PendingWriters') = Cardinality(PendingWriters) - 1
      BY <3>1, <1>0, Count, Zenon
    <3> QED
      BY <1>8, <2>2, <3>1, <3>2, Zenon DEF Unpend, CountPending, CountInv
  <2> QED
    BY <2>1, <2>2, Zenon
<1>9. ASSUME NEW t \in Threads, GiveUp(t) PROVE CountInv'
  <2>1. CASE kind[t] = "shared"
    <3>1. PendingReaders' = PendingReaders \ {t} /\ t \in PendingReaders
             /\ PendingWriters' = PendingWriters
      BY <1>9, <2>1, Zenon DEF GiveUp, Return, PendingReaders, PendingWriters, Pending,
         TypeOK
    <3>2. Cardinality(PendingReaders') = Cardinality(PendingReaders) - 1
      BY <3>1, <1>0, Count, Zenon
    <3> QED
      BY <1>9, <2>1, <3>1, <3>2, Zenon DEF GiveUp, CountPending, CountInv
  <2>2. CASE kind[t] # "shared"
    <3>1. PendingWriters' = PendingWriters \ {t} /\ t \in PendingWriters
             /\ PendingReaders' = PendingReaders
      BY <1>9, <2>2, Zenon DEF GiveUp, Return, PendingReaders, PendingWriters, Pending,
         TypeOK
    <3>2. Cardinality(PendingWriters') = Cardinality(PendingWriters) - 1
      BY <3>1, <1>0, Count, Zenon
    <3> QED
      BY <1>9, <2>2, <3>1, <3>2, Zenon DEF GiveUp, CountPending, CountInv
  <2> QED
    BY <2>1, <2>2, Zenon
<1>10. ASSUME NEW t \in Threads, Release(t) PROVE CountInv'
  <2>1. PendingReaders' = PendingReaders /\ PendingWriters' = PendingWriters
    BY <1>10, Zenon DEF Release, PendingReaders, PendingWriters, Pending, TypeOK
  <2> QED
    BY <1>10, <2>1, Zenon DEF Release, CountInv
<1>11. ASSUME NEW t \in Threads, Look(t) PROVE CountInv'
  <2>1. PendingReaders' = PendingReaders /\ PendingWriters' = PendingWriters
    BY <1>11, Zenon DEF Look, PendingReaders, PendingWriters, Pending, TypeOK
  <2> QED
    BY <1>11, <2>1, Zenon DEF Look, CountInv
<1>12. ASSUME NEW t \in Threads, LookAgain(t) PROVE CountInv'
  <2>1. PendingReaders' = PendingReaders /\ PendingWriters' = PendingWriters
    BY <1>12 DEF LookAgain, Return, PendingReaders, PendingWriters, Pending, TypeOK
  <2> QED
    BY <1>12, <2>1, Zenon DEF LookAgain, Return, CountInv
<1>13. ASSUME NEW t \in Threads, WakeAll(t) PROVE CountInv'
  <2>1. PendingReaders' = PendingReaders /\ PendingWriters' = PendingWriters
    BY <1>13, WokenShape, Zenon DEF WakeAll, Return, PendingReaders, PendingWriters,
       Pending, TypeOK
  <2> QED
    BY <1>13, <2>1, Zenon DEF WakeAll, Return, CountInv
<1>14. ASSUME NEW t \in Threads, SharedUnlock(t) PROVE CountInv'
  <2>1. PendingReaders' = PendingReaders /\ PendingWriters' = PendingWriters
    BY <1>14, Zenon DEF SharedUnlock, PendingReaders, PendingWriters, Pending, TypeOK
  <2> QED
    BY <1>14, <2>1, Zenon DEF SharedUnlock, CountInv
<1>15. ASSUME NEW t \in Threads, ExclusiveUnlock(t) PROVE CountInv'
  <2>1. PendingReaders' = PendingReaders /\ PendingWriters' = PendingWriters
    BY <1>15, Zenon DEF ExclusiveUnlock, PendingReaders, PendingWriters, Pending, TypeOK
  <2> QED
    BY <1>15, <2>1, Zenon DEF ExclusiveUnlock, CountInv
<1>16. ASSUME NEW t \in Threads, SharedTryLock(t) PROVE CountInv'
  <2>1. PendingReaders' = PendingReaders /\ PendingWriters' = PendingWriters
    BY <1>16, Zenon DEF SharedTryLock, PendingReaders, PendingWriters, Pending, TypeOK
  <2> QED
    BY <1>16, <2>1, Zenon DEF SharedTryLock, CountInv
<1>17. ASSUME NEW t \in Threads, TimeIsUp(t) PROVE CountInv'
  <2>1. PendingReaders' = PendingReaders /\ PendingWriters' = PendingWriters
    BY <1>17, Zenon DEF TimeIsUp, Return, PendingReaders, PendingWriters, Pending, TypeOK
  <2> QED
    BY <1>17, <2>1, Zenon DEF TimeIsUp, Return, CountInv
<1>18. ASSUME NEW t \in Threads, Interrupted(t) PROVE CountInv'
  <2>1. PendingReaders' = PendingReaders /\ PendingWriters' = PendingWriters
    BY <1>18, Zenon DEF Interrupted, PendingReaders, PendingWriters, Pending, TypeOK
  <2> QED
    BY <1>18, <2>1, Zenon DEF Interrupted, CountInv
<1>19. ASSUME NEW t \in Threads, RequestEmptyCheckpoint(t) PROVE CountInv'
  <2>1. PendingReaders' = PendingReaders /\ PendingWriters' = PendingWriters
    BY <1>19, Zenon DEF RequestEmptyCheckpoint, PendingReaders, PendingWriters, Pending,
       TypeOK
  <2> QED
    BY <1>19, <2>1, Zenon DEF RequestEmptyCheckpoint, CountInv
<1>20. ASSUME NEW t \in Threads, NEW k \in {"shared", "exclusive", "timed"}, Lock(t, k)
       PROVE CountInv'
  <2>1. PendingReaders' = PendingReaders /\ PendingWriters' = PendingWriters
    BY <1>20, Zenon DEF Lock, PendingReaders, PendingWriters, Pending, TypeOK
  <2> QED
    BY <1>20, <2>1, Zenon DEF Lock, CountInv
<1>21. CASE WakeupToRespondToEmptyCheckpoint
  <2>1. PendingReaders' = PendingReaders /\ PendingWriters' = PendingWriters
    BY <1>21, WokenShape, Zenon DEF WakeupToRespondToEmptyCheckpoint, PendingReaders,
       PendingWriters, Pending, TypeOK
  <2> QED
    BY <1>21, <2>1, Zenon DEF WakeupToRespondToEmptyCheckpoint, CountInv
<1> QED
  BY <1>1, <1>2, <1>3, <1>4, <1>5, <1>6, <1>7, <1>8, <1>9, <1>10, <1>11, <1>12, <1>13,
     <1>14, <1>15, <1>16, <1>17, <1>18, <1>19, <1>20, <1>21, Zenon DEF Next, Internal,
     Unlock

\* A thread goes to sleep only on a state that keeps it out.
LEMMA WaitStep ==
  ASSUME TypeOK, WaitInv, Next
  PROVE  WaitInv'
<1>1. ASSUME NEW t \in Threads, LockShared(t) PROVE WaitInv'
  BY <1>1, Zenon DEF LockShared, WaitInv, LetsIn, TypeOK
<1>2. ASSUME NEW t \in Threads, LockExclusive(t) PROVE WaitInv'
  BY <1>2, Zenon DEF LockExclusive, WaitInv, LetsIn, TypeOK
<1>3. ASSUME NEW t \in Threads, TakeOwnership(t) PROVE WaitInv'
  BY <1>3, Zenon DEF TakeOwnership, WaitInv, LetsIn, TypeOK
<1>4. ASSUME NEW t \in Threads, LockBusy(t) PROVE WaitInv'
  BY <1>4 DEF LockBusy, WaitInv, LetsIn, TypeOK
<1>5. ASSUME NEW t \in Threads, Pend(t) PROVE WaitInv'
  BY <1>5, Zenon DEF Pend, CountPending, WaitInv, LetsIn, TypeOK
<1>6. ASSUME NEW t \in Threads, CheckEmptyCheckpointFromMutex(t) PROVE WaitInv'
  BY <1>6, Zenon DEF CheckEmptyCheckpointFromMutex, WaitInv, LetsIn, TypeOK
<1>7. ASSUME NEW t \in Threads, FutexWait(t) PROVE WaitInv'
  BY <1>7, Zenon DEF FutexWait, WaitInv, LetsIn, TypeOK
<1>8. ASSUME NEW t \in Threads, Unpend(t) PROVE WaitInv'
  BY <1>8, Zenon DEF Unpend, CountPending, WaitInv, LetsIn, TypeOK
<1>9. ASSUME NEW t \in Threads, GiveUp(t) PROVE WaitInv'
  BY <1>9, Zenon DEF GiveUp, CountPending, Return, WaitInv, LetsIn, TypeOK
<1>10. ASSUME NEW t \in Threads, Release(t) PROVE WaitInv'
  BY <1>10, Zenon DEF Release, WaitInv, LetsIn, TypeOK
<1>11. ASSUME NEW t \in Threads, Look(t) PROVE WaitInv'
  BY <1>11, Zenon DEF Look, WaitInv, LetsIn, TypeOK
<1>12. ASSUME NEW t \in Threads, LookAgain(t) PROVE WaitInv'
  BY <1>12 DEF LookAgain, Return, WaitInv, LetsIn, TypeOK
<1>13. ASSUME NEW t \in Threads, WakeAll(t) PROVE WaitInv'
  BY <1>13, WokenShape, Zenon DEF WakeAll, Return, WaitInv, LetsIn, TypeOK
<1>14. ASSUME NEW t \in Threads, SharedUnlock(t) PROVE WaitInv'
  BY <1>14, Zenon DEF SharedUnlock, WaitInv, LetsIn, TypeOK
<1>15. ASSUME NEW t \in Threads, ExclusiveUnlock(t) PROVE WaitInv'
  BY <1>15, Zenon DEF ExclusiveUnlock, WaitInv, LetsIn, TypeOK
<1>16. ASSUME NEW t \in Threads, SharedTryLock(t) PROVE WaitInv'
  BY <1>16, Zenon DEF SharedTryLock, WaitInv, LetsIn, TypeOK
<1>17. ASSUME NEW t \in Threads, TimeIsUp(t) PROVE WaitInv'
  BY <1>17, Zenon DEF TimeIsUp, Return, WaitInv, LetsIn, TypeOK
<1>18. ASSUME NEW t \in Threads, Interrupted(t) PROVE WaitInv'
  BY <1>18, Zenon DEF Interrupted, WaitInv, LetsIn, TypeOK
<1>19. ASSUME NEW t \in Threads, RequestEmptyCheckpoint(t) PROVE WaitInv'
  BY <1>19, Zenon DEF RequestEmptyCheckpoint, WaitInv, LetsIn, TypeOK
<1>20. ASSUME NEW t \in Threads, NEW k \in {"shared", "exclusive", "timed"}, Lock(t, k)
       PROVE WaitInv'
  BY <1>20, Zenon DEF Lock, WaitInv, LetsIn, TypeOK
<1>21. CASE WakeupToRespondToEmptyCheckpoint
  BY <1>21, WokenShape, Zenon DEF WakeupToRespondToEmptyCheckpoint, WaitInv, LetsIn, TypeOK
<1> QED
  BY <1>1, <1>2, <1>3, <1>4, <1>5, <1>6, <1>7, <1>8, <1>9, <1>10, <1>11, <1>12, <1>13,
     <1>14, <1>15, <1>16, <1>17, <1>18, <1>19, <1>20, <1>21, Zenon DEF Next, Internal,
     Unlock

\* A sleeper is counted, so an unlock that loads its count does wake.
LEMMA SleepersAreCounted ==
  ASSUME RWAssumption, TypeOK, CountInv, NEW s \in Threads, pc[s] = "asleep"
  PROVE  IF kind[s] = "shared" THEN num_pending_readers > 0 ELSE num_pending_writers > 0
<1>1. PendingReaders \in SUBSET Threads /\ PendingWriters \in SUBSET Threads
  BY Zenon DEF PendingReaders, PendingWriters
<1>2. s \in IF kind[s] = "shared" THEN PendingReaders ELSE PendingWriters
  BY Zenon DEF PendingReaders, PendingWriters, Pending
<1>3. /\ Cardinality(PendingReaders) \in Nat /\ Cardinality(PendingWriters) \in Nat
      /\ PendingReaders = {} <=> Cardinality(PendingReaders) = 0
      /\ PendingWriters = {} <=> Cardinality(PendingWriters) = 0
  BY <1>1, Count, Zenon
<1> QED
  BY <1>2, <1>3 DEF CountInv

\* A sleeper that the state lets in keeps a thread that is going to wake it.
LEMMA WakeStep ==
  ASSUME RWAssumption, TypeOK, HolderInv, CountInv, WaitInv, WakeInv, Next
  PROVE  WakeInv'
<1>1. ASSUME NEW t \in Threads, LockShared(t) PROVE WakeInv'
  BY <1>1 DEF LockShared, WakeInv, WillWake, LetsIn, TypeOK
<1>2. ASSUME NEW t \in Threads, LockExclusive(t) PROVE WakeInv'
  BY <1>2 DEF LockExclusive, WakeInv, WillWake, LetsIn, TypeOK
<1>3. ASSUME NEW t \in Threads, TakeOwnership(t) PROVE WakeInv'
  BY <1>3 DEF TakeOwnership, WakeInv, WillWake, LetsIn, TypeOK
<1>4. ASSUME NEW t \in Threads, LockBusy(t) PROVE WakeInv'
  BY <1>4, Zenon DEF LockBusy, WakeInv, WillWake, LetsIn, TypeOK
<1>5. ASSUME NEW t \in Threads, Pend(t) PROVE WakeInv'
  BY <1>5, Zenon DEF Pend, CountPending, WakeInv, WillWake, LetsIn, TypeOK
<1>6. ASSUME NEW t \in Threads, CheckEmptyCheckpointFromMutex(t) PROVE WakeInv'
  BY <1>6, Zenon DEF CheckEmptyCheckpointFromMutex, WakeInv, WillWake, LetsIn, TypeOK
<1>7. ASSUME NEW t \in Threads, FutexWait(t) PROVE WakeInv'
  BY <1>7 DEF FutexWait, WaitInv, WakeInv, WillWake, LetsIn, TypeOK
<1>8. ASSUME NEW t \in Threads, Unpend(t) PROVE WakeInv'
  BY <1>8, Zenon DEF Unpend, CountPending, WakeInv, WillWake, LetsIn, TypeOK
<1>9. ASSUME NEW t \in Threads, GiveUp(t) PROVE WakeInv'
  BY <1>9 DEF GiveUp, CountPending, Return, WakeInv, WillWake, LetsIn, TypeOK
<1>10. ASSUME NEW t \in Threads, Release(t) PROVE WakeInv'
  BY <1>10, Zenon DEF Release, WakeInv, WillWake, LetsIn, TypeOK
<1>11. ASSUME NEW t \in Threads, Look(t) PROVE WakeInv'
  <2> SUFFICES ASSUME NEW s \in Threads, pc'[s] = "asleep", LetsIn(kind'[s], state')
               PROVE  \E u \in Threads : WillWake(u, s)'
    BY Zenon DEF WakeInv
  <2>1. pc[s] = "asleep" /\ LetsIn(kind[s], state) /\ kind' = kind
    BY <1>11, Zenon DEF Look, LetsIn, TypeOK
  <2>2. PICK u \in Threads : WillWake(u, s)
    BY <2>1, Zenon DEF WakeInv
  <2>3. CASE u # t
    BY <1>11, <2>2, <2>3, Zenon DEF Look, WillWake, TypeOK
  <2>4. CASE u = t
    BY <1>11, <2>1, <2>4, SleepersAreCounted, Zenon DEF Look, WillWake, TypeOK
  <2> QED
    BY <2>3, <2>4, Zenon
<1>12. ASSUME NEW t \in Threads, LookAgain(t) PROVE WakeInv'
  <2> SUFFICES ASSUME NEW s \in Threads, pc'[s] = "asleep", LetsIn(kind'[s], state')
               PROVE  \E u \in Threads : WillWake(u, s)'
    BY Zenon DEF WakeInv
  <2>1. pc[s] = "asleep" /\ LetsIn(kind[s], state) /\ kind'[s] = kind[s]
    BY <1>12, Zenon DEF LookAgain, Return, LetsIn, TypeOK
  <2>2. PICK u \in Threads : WillWake(u, s)
    BY <2>1, Zenon DEF WakeInv
  <2>3. CASE u # t
    BY <1>12, <2>2, <2>3 DEF LookAgain, Return, WillWake, TypeOK
  <2>4. CASE u = t
    <3>1. kind[t] = "shared" <=> kind[s] = "shared"
      BY <1>12, <2>2, <2>4, Zenon DEF LookAgain, WillWake
    <3>2. IF kind[s] = "shared" THEN num_pending_readers > 0 ELSE num_pending_writers > 0
      BY <2>1, SleepersAreCounted, Zenon
    <3>3. pc'[t] = "wake"
      BY <1>12, <3>1, <3>2, Zenon DEF LookAgain, TypeOK
    <3> QED
      BY <3>3, Zenon DEF WillWake
  <2> QED
    BY <2>3, <2>4, Zenon
<1>13. ASSUME NEW t \in Threads, WakeAll(t) PROVE WakeInv'
  BY <1>13, WokenShape DEF WakeAll, Return, WakeInv, WillWake, LetsIn, TypeOK
<1>14. ASSUME NEW t \in Threads, SharedUnlock(t) PROVE WakeInv'
  BY <1>14 DEF SharedUnlock, WakeInv, WillWake, LetsIn, TypeOK
<1>15. ASSUME NEW t \in Threads, ExclusiveUnlock(t) PROVE WakeInv'
  BY <1>15, Zenon DEF ExclusiveUnlock, WakeInv, WillWake, LetsIn, TypeOK
<1>16. ASSUME NEW t \in Threads, SharedTryLock(t) PROVE WakeInv'
  BY <1>16 DEF SharedTryLock, WakeInv, WillWake, LetsIn, TypeOK
<1>17. ASSUME NEW t \in Threads, TimeIsUp(t) PROVE WakeInv'
  BY <1>17 DEF TimeIsUp, Return, WakeInv, WillWake, LetsIn, TypeOK
<1>18. ASSUME NEW t \in Threads, Interrupted(t) PROVE WakeInv'
  BY <1>18 DEF Interrupted, WakeInv, WillWake, LetsIn, TypeOK
<1>19. ASSUME NEW t \in Threads, RequestEmptyCheckpoint(t) PROVE WakeInv'
  BY <1>19, Zenon DEF RequestEmptyCheckpoint, WakeInv, WillWake, LetsIn, TypeOK
<1>20. ASSUME NEW t \in Threads, NEW k \in {"shared", "exclusive", "timed"}, Lock(t, k)
       PROVE WakeInv'
  BY <1>20 DEF Lock, WakeInv, WillWake, LetsIn, TypeOK
<1>21. CASE WakeupToRespondToEmptyCheckpoint
  BY <1>21, WokenShape DEF WakeupToRespondToEmptyCheckpoint, WakeInv, WillWake, LetsIn,
     TypeOK
<1> QED
  BY <1>1, <1>2, <1>3, <1>4, <1>5, <1>6, <1>7, <1>8, <1>9, <1>10, <1>11, <1>12, <1>13,
     <1>14, <1>15, <1>16, <1>17, <1>18, <1>19, <1>20, <1>21, Zenon DEF Next, Internal,
     Unlock

\* The invariant holds always.
THEOREM Invariance ==
  ASSUME RWAssumption
  PROVE  Spec => []IInv
<1>1. Init => IInv
  <2> SUFFICES ASSUME Init PROVE IInv
    BY Zenon
  <2>1. TypeOK
    BY DEF Init, TypeOK, Labels
  <2>2. Readers = {} /\ Writers = {} /\ PendingReaders = {} /\ PendingWriters = {}
    BY Zenon DEF Init, Readers, Writers, PendingReaders, PendingWriters, Pending
  <2>3. HolderInv /\ CountInv
    BY <2>2, FS_EmptySet DEF Init, HolderInv, CountInv
  <2>4. WaitInv /\ WakeInv
    BY Zenon DEF Init, WaitInv, WakeInv
  <2> QED
    BY <2>1, <2>3, <2>4, Zenon DEF IInv
<1>2. IInv /\ [Next]_rwVars => IInv'
  <2> SUFFICES ASSUME IInv, [Next]_rwVars PROVE IInv'
    BY Zenon
  <2>1. CASE Next
    BY <2>1, TypeStep, HolderStep, CountStep, WaitStep, WakeStep, Zenon DEF IInv
  <2>2. CASE UNCHANGED rwVars
    BY <2>2 DEF rwVars, IInv, TypeOK, HolderInv, Readers, Writers, CountInv, PendingReaders,
         PendingWriters, WaitInv, WakeInv, WillWake
  <2> QED
    BY <2>1, <2>2, Zenon
<1> QED
  BY <1>1, <1>2, PTL DEF Spec

\* Nobody sleeps on the lock in a state that lets it in unless a thread is on its way
\* to wake it: the unlock that made the state so has yet to load a count or to wake.
THEOREM ReaderWriterMutexStrandsNobody ==
  ASSUME RWAssumption
  PROVE  Spec => []NoStrandedWaiter
<1>1. IInv => NoStrandedWaiter
  BY Zenon DEF IInv, NoStrandedWaiter, TypeOK, WakeInv, WillWake, LetsIn, Waking
<1> QED
  BY <1>1, Invariance, PTL

\* Who holds the lock for a client, in terms of the invariant's sets.
LEMMA HolderSets ==
  ASSUME TypeOK
  PROVE  /\ Holders({"shared"}) = Readers
         /\ Holders({"exclusive", "timed"}) = {t \in Writers : pc[t] = "in"}
  BY Zenon DEF Holders, Readers, Writers, TypeOK

\* Every step is one of AbstractRWLock, or leaves its variables alone.
LEMMA RefinementStep ==
  ASSUME TypeOK, HolderInv, Next
  PROVE  [Abstract!Next]_(Abstract!holders)
<1>0. /\ Holders({"shared"}) = Readers
      /\ Holders({"exclusive", "timed"}) = {t \in Writers : pc[t] = "in"}
  BY HolderSets, Zenon
<1>1. ASSUME NEW t \in Threads, LockShared(t) PROVE [Abstract!Next]_(Abstract!holders)
  <2>1. Writers = {}
    BY <1>1 DEF LockShared, HolderInv
  <2>2. Abstract!AcquireShared(t)
    BY <1>1, <1>0, <2>1, Zenon DEF LockShared, Holders, Abstract!AcquireShared, TypeOK
  <2> QED
    BY <2>2, Zenon DEF Abstract!Next
<1>2. ASSUME NEW t \in Threads, LockExclusive(t) PROVE [Abstract!Next]_(Abstract!holders)
  <2>1. UNCHANGED Abstract!holders
    BY <1>2, Zenon DEF LockExclusive, Holders, Abstract!holders, TypeOK, HolderInv
  <2> QED
    BY <2>1, Zenon
<1>3. ASSUME NEW t \in Threads, TakeOwnership(t) PROVE [Abstract!Next]_(Abstract!holders)
  <2>1. t \in Writers
    BY <1>3, Zenon DEF TakeOwnership, Writers, HolderInv
  <2>2. Readers = {} /\ Writers = {t}
    BY <2>1, Zenon DEF HolderInv
  <2>3. Holders({"shared"}) = {} /\ Holders({"exclusive", "timed"}) = {}
    BY <1>3, <1>0, <2>2, Zenon DEF TakeOwnership
  <2>4. Abstract!AcquireExclusive(t)
    BY <1>3, <2>1, <2>3, Zenon DEF TakeOwnership, Holders, Writers,
       Abstract!AcquireExclusive, TypeOK
  <2> QED
    BY <2>4, Zenon DEF Abstract!Next
<1>4. ASSUME NEW t \in Threads, LockBusy(t) PROVE [Abstract!Next]_(Abstract!holders)
  <2>1. UNCHANGED Abstract!holders
    BY <1>4, Zenon DEF LockBusy, Holders, Abstract!holders, TypeOK, HolderInv
  <2> QED
    BY <2>1, Zenon
<1>5. ASSUME NEW t \in Threads, Pend(t) PROVE [Abstract!Next]_(Abstract!holders)
  <2>1. UNCHANGED Abstract!holders
    BY <1>5, Zenon DEF Pend, CountPending, Holders, Abstract!holders, TypeOK, HolderInv
  <2> QED
    BY <2>1, Zenon
<1>6. ASSUME NEW t \in Threads, CheckEmptyCheckpointFromMutex(t)
      PROVE [Abstract!Next]_(Abstract!holders)
  <2>1. UNCHANGED Abstract!holders
    BY <1>6, Zenon DEF CheckEmptyCheckpointFromMutex, Holders, Abstract!holders, TypeOK,
       HolderInv
  <2> QED
    BY <2>1, Zenon
<1>7. ASSUME NEW t \in Threads, FutexWait(t) PROVE [Abstract!Next]_(Abstract!holders)
  <2>1. UNCHANGED Abstract!holders
    BY <1>7, Zenon DEF FutexWait, Holders, Abstract!holders, TypeOK, HolderInv
  <2> QED
    BY <2>1, Zenon
<1>8. ASSUME NEW t \in Threads, Unpend(t) PROVE [Abstract!Next]_(Abstract!holders)
  <2>1. UNCHANGED Abstract!holders
    BY <1>8, Zenon DEF Unpend, CountPending, Holders, Abstract!holders, TypeOK, HolderInv
  <2> QED
    BY <2>1, Zenon
<1>9. ASSUME NEW t \in Threads, GiveUp(t) PROVE [Abstract!Next]_(Abstract!holders)
  <2>1. UNCHANGED Abstract!holders
    BY <1>9, Zenon DEF GiveUp, CountPending, Return, Holders, Abstract!holders, TypeOK,
       HolderInv
  <2> QED
    BY <2>1, Zenon
<1>10. ASSUME NEW t \in Threads, Release(t) PROVE [Abstract!Next]_(Abstract!holders)
  <2>1. UNCHANGED Abstract!holders
    BY <1>10, Zenon DEF Release, Holders, Abstract!holders, TypeOK, HolderInv
  <2> QED
    BY <2>1, Zenon
<1>11. ASSUME NEW t \in Threads, Look(t) PROVE [Abstract!Next]_(Abstract!holders)
  <2>1. UNCHANGED Abstract!holders
    BY <1>11, Zenon DEF Look, Holders, Abstract!holders, TypeOK, HolderInv
  <2> QED
    BY <2>1, Zenon
<1>12. ASSUME NEW t \in Threads, LookAgain(t) PROVE [Abstract!Next]_(Abstract!holders)
  <2>1. UNCHANGED Abstract!holders
    BY <1>12, Zenon DEF LookAgain, Return, Holders, Abstract!holders, TypeOK, HolderInv
  <2> QED
    BY <2>1, Zenon
<1>13. ASSUME NEW t \in Threads, WakeAll(t) PROVE [Abstract!Next]_(Abstract!holders)
  <2>1. UNCHANGED Abstract!holders
    BY <1>13, WokenShape, Zenon DEF WakeAll, Return, Holders, Abstract!holders, TypeOK,
       HolderInv
  <2> QED
    BY <2>1, Zenon
<1>14. ASSUME NEW t \in Threads, SharedUnlock(t) PROVE [Abstract!Next]_(Abstract!holders)
  <2>1. Abstract!ReleaseShared(t)
    BY <1>14, Zenon DEF SharedUnlock, Holders, Abstract!ReleaseShared, TypeOK
  <2> QED
    BY <2>1, Zenon DEF Abstract!Next
<1>15. ASSUME NEW t \in Threads, ExclusiveUnlock(t) PROVE [Abstract!Next]_(Abstract!holders)
  <2>1. t \in Writers
    BY <1>15, Zenon DEF ExclusiveUnlock, Writers
  <2>2. Readers = {} /\ Writers = {t}
    BY <2>1, Zenon DEF HolderInv
  <2>3. Holders({"shared"}) = {} /\ Holders({"exclusive", "timed"}) = {t}
    BY <1>15, <1>0, <2>2, Zenon DEF ExclusiveUnlock
  <2>4. Abstract!ReleaseExclusive(t)
    BY <1>15, <2>3, Zenon DEF ExclusiveUnlock, Holders, Abstract!ReleaseExclusive, TypeOK
  <2> QED
    BY <2>4, Zenon DEF Abstract!Next
<1>16. ASSUME NEW t \in Threads, SharedTryLock(t) PROVE [Abstract!Next]_(Abstract!holders)
  <2>1. Writers = {}
    BY <1>16 DEF SharedTryLock, HolderInv
  <2>2. Abstract!AcquireShared(t)
    BY <1>16, <1>0, <2>1, Zenon DEF SharedTryLock, Holders, Abstract!AcquireShared, TypeOK
  <2> QED
    BY <2>2, Zenon DEF Abstract!Next
<1>17. ASSUME NEW t \in Threads, TimeIsUp(t) PROVE [Abstract!Next]_(Abstract!holders)
  <2>1. UNCHANGED Abstract!holders
    BY <1>17, Zenon DEF TimeIsUp, Return, Holders, Abstract!holders, TypeOK, HolderInv
  <2> QED
    BY <2>1, Zenon
<1>18. ASSUME NEW t \in Threads, Interrupted(t) PROVE [Abstract!Next]_(Abstract!holders)
  <2>1. UNCHANGED Abstract!holders
    BY <1>18, Zenon DEF Interrupted, Holders, Abstract!holders, TypeOK, HolderInv
  <2> QED
    BY <2>1, Zenon
<1>19. ASSUME NEW t \in Threads, RequestEmptyCheckpoint(t)
       PROVE [Abstract!Next]_(Abstract!holders)
  <2>1. UNCHANGED Abstract!holders
    BY <1>19, Zenon DEF RequestEmptyCheckpoint, Holders, Abstract!holders, TypeOK, HolderInv
  <2> QED
    BY <2>1, Zenon
<1>20. ASSUME NEW t \in Threads, NEW k \in {"shared", "exclusive", "timed"}, Lock(t, k)
       PROVE [Abstract!Next]_(Abstract!holders)
  <2>1. UNCHANGED Abstract!holders
    BY <1>20, Zenon DEF Lock, Holders, Abstract!holders, TypeOK, HolderInv
  <2> QED
    BY <2>1, Zenon
<1>21. CASE WakeupToRespondToEmptyCheckpoint
  <2>1. UNCHANGED Abstract!holders
    BY <1>21, WokenShape, Zenon DEF WakeupToRespondToEmptyCheckpoint, Holders,
       Abstract!holders, TypeOK, HolderInv
  <2> QED
    BY <2>1, Zenon
<1> QED
  BY <1>1, <1>2, <1>3, <1>4, <1>5, <1>6, <1>7, <1>8, <1>9, <1>10, <1>11, <1>12, <1>13,
     <1>14, <1>15, <1>16, <1>17, <1>18, <1>19, <1>20, <1>21, Zenon DEF Next, Internal,
     Unlock

\* The futex lock implements the reader-writer lock its clients rely on: it changes
\* hands when state_ is incremented, when the writer takes ownership, and when either
\* begins to unlock.
THEOREM ReaderWriterMutexRefinement ==
  ASSUME RWAssumption
  PROVE  Spec => ImplementsRWLock
<1>1. Init => Abstract!Init
  BY Zenon DEF Init, Abstract!Init, Holders
<1>2. IInv /\ [Next]_rwVars => [Abstract!Next]_(Abstract!holders)
  <2> SUFFICES ASSUME IInv, [Next]_rwVars PROVE [Abstract!Next]_(Abstract!holders)
    BY Zenon
  <2>1. CASE Next
    BY <2>1, RefinementStep, Zenon DEF IInv
  <2>2. CASE UNCHANGED rwVars
    BY <2>2, Zenon DEF rwVars, Abstract!holders, Holders
  <2> QED
    BY <2>1, <2>2, Zenon
<1> QED
  BY <1>1, <1>2, Invariance, PTL DEF Spec, ImplementsRWLock, Abstract!Spec
=============================================================================
