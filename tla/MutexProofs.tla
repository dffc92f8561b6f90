---------------------------- MODULE MutexProofs ----------------------------
(***************************************************************************)
(* Proofs that the futex mutex and condition variable of Mutex.tla exclude *)
(* each other, strand no sleeper and lose no broadcast, for any finite set *)
(* of threads and any bounds.                                              *)
(***************************************************************************)
EXTENDS Mutex, FiniteSetTheorems, TLAPS

USE DEF Goto

\* Adding a thread to, or taking it from, a set of threads changes its size by one.
LEMMA Count ==
  ASSUME NEW S \in SUBSET Threads, NEW t \in Threads
  PROVE  /\ Cardinality(S) \in Nat
         /\ S # {} => Cardinality(S) > 0
         /\ t \notin S => Cardinality(S \union {t}) = Cardinality(S) + 1
         /\ t \in S => Cardinality(S \ {t}) = Cardinality(S) - 1
<1>1. IsFiniteSet(S)
  BY FS_Subset, ThreadsAssumption, Zenon
<1>2. Cardinality(S) \in Nat
  BY <1>1, FS_CardinalityType, Zenon
<1>3. S # {} => Cardinality(S) > 0
  BY <1>1, <1>2, FS_EmptySet
<1>4. t \notin S => Cardinality(S \union {t}) = Cardinality(S) + 1
  BY <1>1, FS_AddElement, Zenon
<1>5. t \in S => Cardinality(S \ {t}) = Cardinality(S) - 1
  BY <1>1, FS_RemoveElement, Zenon
<1> QED
  BY <1>2, <1>3, <1>4, <1>5, Zenon

Quiet(t) ==
  \/ ExclusiveLock(t) \/ RelockRecursively(t) \/ LockFree(t) \/ LockBusy(t)
  \/ CheckEmptyCheckpointFromMutex(t) \/ FutexWait(t) \/ TakeOwnership(t) \/ ExclusiveTryLock(t)
  \/ ExclusiveUnlock(t) \/ ClearOwner(t) \/ Release(t) \/ WakeContender(t)
  \/ FutexWaitSequence(t) \/ Signal(t) \/ SignalWake(t) \/ Broadcast(t) \/ BroadcastRequeue(t)
  \/ Interrupted(t) \/ RequestEmptyCheckpoint(t)

\* Every step keeps num_waiters_ and num_contenders_ equal to what they count.
LEMMA CountStep ==
  ASSUME TypeOK, HolderInv, QueueInv, WaitInv, CountInv, Next
  PROVE  CountInv'
<1>0. Waiters \in SUBSET Threads /\ Contenders \in SUBSET Threads
  BY Zenon DEF Waiters, Contenders
<1>1. ASSUME NEW t \in Threads, Contend(t) PROVE CountInv'
  <2>1. Waiters' = Waiters
    BY <1>1, Zenon DEF Contend, condVars, InWait, Waiters
  <2>2. Contenders' = Contenders \union {t} /\ t \notin Contenders
    BY <1>1, Zenon DEF Contend, condVars, InWait, Contenders, Counted, TypeOK
  <2>3. Cardinality(Contenders') = Cardinality(Contenders) + 1
    BY <2>2, <1>0, Count, Zenon
  <2>4. Cardinality(Waiters) \in Nat /\ Cardinality(Contenders) \in Nat
    BY <1>0, Count, Zenon
  <2> QED
    BY <1>1, <2>1, <2>2, <2>3, <2>4 DEF Contend, CountInv, TypeOK, condVars
<1>2. ASSUME NEW t \in Threads, Uncontend(t) PROVE CountInv'
  <2>1. Waiters' = Waiters
    BY <1>2, Zenon DEF Uncontend, condVars, InWait, Waiters
  <2>2. Contenders' = Contenders \ {t} /\ t \in Contenders
    BY <1>2, Zenon DEF Uncontend, condVars, InWait, Contenders, Counted, TypeOK
  <2>3. Cardinality(Contenders') = Cardinality(Contenders) - 1
    BY <2>2, <1>0, Count, Zenon
  <2>4. Cardinality(Waiters) \in Nat /\ Cardinality(Contenders) \in Nat
    BY <1>0, Count, Zenon
  <2> QED
    BY <1>2, <2>1, <2>2, <2>3, <2>4 DEF Uncontend, CountInv, TypeOK, condVars
<1>3. ASSUME NEW t \in Threads, Wait(t) PROVE CountInv'
  <2>1. Waiters' = Waiters \union {t} /\ t \notin Waiters
    BY <1>3 DEF Wait, condVars, InWait, Waiters, TypeOK, WaitInv, HolderInv
  <2>2. Contenders' = Contenders
    BY <1>3, Zenon DEF Wait, condVars, InWait, Contenders, Counted, TypeOK
  <2>3. Cardinality(Waiters') = Cardinality(Waiters) + 1
    BY <2>1, <1>0, Count, Zenon
  <2>4. Cardinality(Waiters) \in Nat /\ Cardinality(Contenders) \in Nat
    BY <1>0, Count, Zenon
  <2> QED
    BY <1>3, <2>1, <2>2, <2>3, <2>4 DEF Wait, CountInv, TypeOK, condVars
<1>4. ASSUME NEW t \in Threads, FinishWait(t) PROVE CountInv'
  <2>1. Waiters' = Waiters \ {t} /\ t \in Waiters
    BY <1>4, Zenon DEF FinishWait, condVars, InWait, Waiters, TypeOK, WaitInv
  <2>2. Contenders' = Contenders
    BY <1>4, Zenon DEF FinishWait, condVars, InWait, Contenders, Counted, TypeOK
  <2>3. Cardinality(Waiters') = Cardinality(Waiters) - 1
    BY <2>1, <1>0, Count, Zenon
  <2>4. Cardinality(Waiters) \in Nat /\ Cardinality(Contenders) \in Nat
    BY <1>0, Count, Zenon
  <2> QED
    BY <1>4, <2>1, <2>2, <2>3, <2>4 DEF FinishWait, CountInv, TypeOK, condVars
<1>5. ASSUME NEW t \in Threads, Quiet(t) PROVE CountInv'
  <2>1. UNCHANGED <<num_waiters, num_contenders, old_recursion_count>>
    BY <1>5, Zenon DEF Quiet, lockVars, condVars, queueVars, ExclusiveLock,
       RelockRecursively, LockFree, LockBusy,
         CheckEmptyCheckpointFromMutex, FutexWait, TakeOwnership, ExclusiveTryLock,
         ExclusiveUnlock, ClearOwner, Release, WakeContender, FutexWaitSequence, Signal,
         SignalWake, Broadcast, BroadcastRequeue, Interrupted, RequestEmptyCheckpoint
  <2>2. ASSUME WakeContender(t) PROVE Contenders' = Contenders
    BY <2>2, Zenon DEF queueVars, WakeContender, Contenders, Counted, TypeOK, QueueInv,
       Woken
  <2>3. ASSUME SignalWake(t) PROVE Contenders' = Contenders
    BY <2>3, Zenon DEF SignalWake, Contenders, Counted, TypeOK, QueueInv, Woken
  <2>4. ASSUME Interrupted(t) PROVE Contenders' = Contenders
    BY <2>4, Zenon DEF Interrupted, Contenders, Counted, TypeOK, QueueInv, Woken
  <2>5. ASSUME \/ ExclusiveLock(t) \/ RelockRecursively(t) \/ LockFree(t) \/ LockBusy(t)
               \/ CheckEmptyCheckpointFromMutex(t) \/ FutexWait(t) \/ TakeOwnership(t)
               \/ ExclusiveTryLock(t)
        PROVE  Contenders' = Contenders
    BY <2>5, Zenon DEF ExclusiveLock, RelockRecursively, LockFree, LockBusy,
         CheckEmptyCheckpointFromMutex, FutexWait, TakeOwnership, ExclusiveTryLock,
       Contenders,
         Counted, TypeOK
  <2>6. ASSUME \/ ExclusiveUnlock(t) \/ ClearOwner(t) \/ Release(t) \/ FutexWaitSequence(t)
               \/ Signal(t) \/ Broadcast(t) \/ BroadcastRequeue(t) \/ RequestEmptyCheckpoint(t)
        PROVE  Contenders' = Contenders
    BY <2>6, Zenon DEF ExclusiveUnlock, ClearOwner, Release, FutexWaitSequence, Signal,
       Broadcast,
         BroadcastRequeue, RequestEmptyCheckpoint, Contenders, Counted, TypeOK
  <2>7. Contenders' = Contenders
    BY <1>5, <2>2, <2>3, <2>4, <2>5, <2>6, Zenon DEF Quiet
  <2> QED
    BY <2>1, <2>7, Zenon DEF CountInv, Waiters, InWait
<1>6. CASE WakeupToRespondToEmptyCheckpoint
  <2>1. Contenders' = Contenders
    BY <1>6, Zenon DEF WakeupToRespondToEmptyCheckpoint, Contenders, Counted, TypeOK,
       QueueInv, Woken
  <2> QED
    BY <1>6, <2>1, Zenon DEF WakeupToRespondToEmptyCheckpoint, CountInv, Waiters, InWait,
       condVars
<1> QED
  BY <1>1, <1>2, <1>3, <1>4, <1>5, <1>6, Zenon DEF Next, Internal, Call, Quiet

\* A sleeper is counted in num_contenders_, so ExclusiveUnlock does wake.
LEMMA SleepersAreCounted ==
  ASSUME TypeOK, QueueInv, WaitInv, CountInv, stateQueue # {}
  PROVE  num_contenders > 0
<1>1. Waiters \in SUBSET Threads /\ Contenders \in SUBSET Threads
  BY Zenon DEF Waiters, Contenders
<1>2. PICK t \in Threads : t \in stateQueue
  BY Zenon DEF TypeOK
<1>3. Contenders # {} \/ Waiters # {}
  BY <1>2, Zenon DEF QueueInv, WaitInv, Contenders, Waiters, Counted
<1>4. Cardinality(Waiters) \in Nat /\ Cardinality(Contenders) \in Nat
  BY <1>1, <1>2, Count, Zenon
<1>5. Cardinality(Contenders) > 0 \/ Cardinality(Waiters) > 0
  BY <1>1, <1>2, <1>3, Count, Zenon
<1> QED
  BY <1>4, <1>5 DEF CountInv

\* What a step does to pc that wakes the threads in S and moves t to label l.
LEMMA WakeShape ==
  ASSUME TypeOK, NEW S \in SUBSET Threads, NEW t \in Threads, NEW l \in Labels,
         pc' = [Woken(S) EXCEPT ![t] = l]
  PROVE  /\ pc' \in [Threads -> Labels]
         /\ pc'[t] = l
         /\ \A v \in Threads \ {t} :
              pc'[v] = IF v \notin S THEN pc[v]
                       ELSE IF pc[v] = "asleep" THEN "uncontend" ELSE "lock"
  BY Zenon DEF TypeOK, Woken, Labels

\* FUTEX_WAKE in ExclusiveUnlock wakes a sleeper if there is one.
LEMMA WakeContenderShape ==
  ASSUME TypeOK, QueueInv, WaitInv, CountInv, NEW t \in Threads, WakeContender(t)
  PROVE  \E S \in SUBSET stateQueue, l \in {"cv_wait", "out"} :
           /\ l = "cv_wait" <=> InWait(t)
           /\ stateQueue # {} => S # {}
           /\ stateQueue' = stateQueue \ S
           /\ pc' = [Woken(S) EXCEPT ![t] = l]
<1> DEFINE next == IF InWait(t) THEN "cv_wait" ELSE "out"
<1>1. CASE stateQueue = {}
  <2>1. pc' = [pc EXCEPT ![t] = next] /\ stateQueue' = stateQueue
    BY <1>1, Zenon DEF WakeContender
  <2>2. Woken({}) = pc
    BY Zenon DEF Woken, TypeOK
  <2> QED
    BY <1>1, <2>1, <2>2, Zenon
<1>2. CASE stateQueue # {}
  <2>1. num_contenders > 0
    BY <1>2, SleepersAreCounted, Zenon
  <2>2. PICK u \in stateQueue : pc' = [Woken({u}) EXCEPT ![t] = next]
           /\ stateQueue' = stateQueue \ {u}
    BY <1>2, <2>1, Zenon DEF WakeContender
  <2> QED
    BY <2>2, Zenon
<1> QED
  BY <1>1, <1>2, Zenon

\* FUTEX_WAKE in Signal wakes a thread asleep on the condition variable if there is one.
LEMMA SignalWakeShape ==
  ASSUME TypeOK, NEW t \in Threads, SignalWake(t)
  PROVE  \E S \in SUBSET sequenceQueue :
           /\ sequenceQueue' = sequenceQueue \ S
           /\ pc' = [Woken(S) EXCEPT ![t] = "in"]
<1>1. CASE sequenceQueue = {}
  <2>1. Woken({}) = pc
    BY Zenon DEF Woken, TypeOK
  <2> QED
    BY <1>1, <2>1, Zenon DEF SignalWake
<1>2. CASE sequenceQueue # {}
  BY <1>2, Zenon DEF SignalWake
<1> QED
  BY <1>1, <1>2, Zenon

\* Only the holder changes who holds the mutex.
LEMMA HolderStep ==
  ASSUME TypeOK, HolderInv, QueueInv, WaitInv, CountInv, Next
  PROVE  HolderInv'
<1> USE DEF lockVars, condVars, queueVars, InWait
<1>1. ASSUME NEW t \in Threads, ExclusiveLock(t) PROVE HolderInv'
  BY <1>1 DEF ExclusiveLock, HolderInv, MutualExclusion, Holding, TypeOK, QueueInv
<1>2. ASSUME NEW t \in Threads, RelockRecursively(t) PROVE HolderInv'
  BY <1>2 DEF RelockRecursively, HolderInv, MutualExclusion, Holding, TypeOK, QueueInv,
     IsExclusiveHeld
<1>3. ASSUME NEW t \in Threads, LockFree(t) PROVE HolderInv'
  BY <1>3 DEF LockFree, HolderInv, MutualExclusion, Holding, TypeOK, QueueInv
<1>4. ASSUME NEW t \in Threads, LockBusy(t) PROVE HolderInv'
  BY <1>4 DEF LockBusy, HolderInv, MutualExclusion, Holding, TypeOK, QueueInv
<1>5. ASSUME NEW t \in Threads, Contend(t) PROVE HolderInv'
  BY <1>5 DEF Contend, HolderInv, MutualExclusion, Holding, TypeOK, QueueInv
<1>6. ASSUME NEW t \in Threads, CheckEmptyCheckpointFromMutex(t) PROVE HolderInv'
  BY <1>6 DEF CheckEmptyCheckpointFromMutex, HolderInv, MutualExclusion, Holding, TypeOK,
     QueueInv
<1>7. ASSUME NEW t \in Threads, FutexWait(t) PROVE HolderInv'
  BY <1>7 DEF FutexWait, HolderInv, MutualExclusion, Holding, TypeOK, QueueInv
<1>8. ASSUME NEW t \in Threads, Uncontend(t) PROVE HolderInv'
  BY <1>8 DEF Uncontend, HolderInv, MutualExclusion, Holding, TypeOK, QueueInv
<1>9. ASSUME NEW t \in Threads, TakeOwnership(t) PROVE HolderInv'
  BY <1>9 DEF TakeOwnership, HolderInv, MutualExclusion, Holding, TypeOK, QueueInv
<1>10. ASSUME NEW t \in Threads, ExclusiveTryLock(t) PROVE HolderInv'
  BY <1>10 DEF ExclusiveTryLock, HolderInv, MutualExclusion, Holding, TypeOK, QueueInv
<1>11. ASSUME NEW t \in Threads, ExclusiveUnlock(t) PROVE HolderInv'
  BY <1>11 DEF ExclusiveUnlock, HolderInv, MutualExclusion, Holding, TypeOK, QueueInv
<1>12. ASSUME NEW t \in Threads, ClearOwner(t) PROVE HolderInv'
  BY <1>12, ThreadsAssumption DEF ClearOwner, HolderInv, MutualExclusion, Holding, TypeOK,
     QueueInv
<1>13. ASSUME NEW t \in Threads, Release(t) PROVE HolderInv'
  BY <1>13 DEF Release, HolderInv, MutualExclusion, Holding, TypeOK, QueueInv
<1>14. ASSUME NEW t \in Threads, WakeContender(t) PROVE HolderInv'
  <2>1. PICK S \in SUBSET stateQueue, l \in {"cv_wait", "out"} :
              /\ l = "cv_wait" <=> InWait(t)
              /\ stateQueue # {} => S # {}
              /\ stateQueue' = stateQueue \ S
              /\ pc' = [Woken(S) EXCEPT ![t] = l]
    BY <1>14, WakeContenderShape, Zenon
  <2>2. /\ pc'[t] = l
        /\ \A v \in Threads \ {t} :
             pc'[v] = IF v \notin S THEN pc[v]
                      ELSE IF pc[v] = "asleep" THEN "uncontend" ELSE "lock"
    <3>1. S \in SUBSET Threads
      BY Zenon DEF TypeOK
    <3> QED
      BY <2>1, <3>1, WakeShape, Zenon DEF Labels
  <2> QED
    BY <1>14, <2>1, <2>2, SMTT(30), Zenon DEF WakeContender, HolderInv, MutualExclusion,
       Holding, TypeOK, QueueInv
<1>15. ASSUME NEW t \in Threads, Wait(t) PROVE HolderInv'
  BY <1>15 DEF Wait, HolderInv, MutualExclusion, Holding, TypeOK, QueueInv
<1>16. ASSUME NEW t \in Threads, FutexWaitSequence(t) PROVE HolderInv'
  BY <1>16 DEF FutexWaitSequence, HolderInv, MutualExclusion, Holding, TypeOK, QueueInv
<1>17. ASSUME NEW t \in Threads, FinishWait(t) PROVE HolderInv'
  BY <1>17 DEF FinishWait, WaitInv, HolderInv, MutualExclusion, Holding, TypeOK, QueueInv
<1>18. ASSUME NEW t \in Threads, Signal(t) PROVE HolderInv'
  BY <1>18 DEF Signal, HolderInv, MutualExclusion, Holding, TypeOK, QueueInv
<1>19. ASSUME NEW t \in Threads, SignalWake(t) PROVE HolderInv'
  <2>1. PICK S \in SUBSET sequenceQueue :
              /\ sequenceQueue' = sequenceQueue \ S
              /\ pc' = [Woken(S) EXCEPT ![t] = "in"]
    BY <1>19, SignalWakeShape, Zenon
  <2>2. /\ pc'[t] = "in"
        /\ \A v \in Threads \ {t} :
             pc'[v] = IF v \notin S THEN pc[v]
                      ELSE IF pc[v] = "asleep" THEN "uncontend" ELSE "lock"
    <3>1. S \in SUBSET Threads
      BY Zenon DEF TypeOK
    <3> QED
      BY <2>1, <3>1, WakeShape, Zenon DEF Labels
  <2> QED
    BY <1>19, <2>1, <2>2, SMTT(30), Zenon DEF SignalWake, HolderInv, MutualExclusion,
       Holding, TypeOK, QueueInv
<1>20. ASSUME NEW t \in Threads, Broadcast(t) PROVE HolderInv'
  BY <1>20 DEF Broadcast, HolderInv, MutualExclusion, Holding, TypeOK, QueueInv
<1>21. ASSUME NEW t \in Threads, BroadcastRequeue(t) PROVE HolderInv'
  BY <1>21 DEF BroadcastRequeue, HolderInv, MutualExclusion, Holding, TypeOK, QueueInv
<1>22. ASSUME NEW t \in Threads, Interrupted(t) PROVE HolderInv'
  BY <1>22 DEF Interrupted, HolderInv, MutualExclusion, Holding, TypeOK, QueueInv, Woken
<1>23. ASSUME NEW t \in Threads, RequestEmptyCheckpoint(t) PROVE HolderInv'
  BY <1>23, Zenon DEF RequestEmptyCheckpoint, HolderInv, MutualExclusion, Holding, TypeOK,
     QueueInv
<1>24. CASE WakeupToRespondToEmptyCheckpoint
  BY <1>24 DEF WakeupToRespondToEmptyCheckpoint, HolderInv, MutualExclusion, Holding,
     TypeOK, QueueInv, Woken
<1> QED
  BY <1>1, <1>2, <1>3, <1>4, <1>5, <1>6, <1>7, <1>8, <1>9, <1>10, <1>11, <1>12, <1>13,
     <1>14, <1>15, <1>16, <1>17, <1>18, <1>19, <1>20, <1>21, <1>22, <1>23, <1>24, Zenon
     DEF Next, Internal, Call

\* The kernel's queues follow the calls.
LEMMA QueueStep ==
  ASSUME TypeOK, QueueInv, WaitInv, CountInv, Next
  PROVE  QueueInv'
<1> USE DEF lockVars, condVars, queueVars, InWait
<1>1. ASSUME NEW t \in Threads, ExclusiveLock(t) PROVE QueueInv'
  BY <1>1, Zenon DEF ExclusiveLock, QueueInv, TypeOK
<1>2. ASSUME NEW t \in Threads, RelockRecursively(t) PROVE QueueInv'
  BY <1>2, Zenon DEF RelockRecursively, QueueInv, TypeOK, IsExclusiveHeld
<1>3. ASSUME NEW t \in Threads, LockFree(t) PROVE QueueInv'
  BY <1>3, Zenon DEF LockFree, QueueInv, TypeOK
<1>4. ASSUME NEW t \in Threads, LockBusy(t) PROVE QueueInv'
  BY <1>4, Zenon DEF LockBusy, QueueInv, TypeOK
<1>5. ASSUME NEW t \in Threads, Contend(t) PROVE QueueInv'
  BY <1>5, Zenon DEF Contend, QueueInv, TypeOK
<1>6. ASSUME NEW t \in Threads, CheckEmptyCheckpointFromMutex(t) PROVE QueueInv'
  BY <1>6, Zenon DEF CheckEmptyCheckpointFromMutex, QueueInv, TypeOK
<1>7. ASSUME NEW t \in Threads, FutexWait(t) PROVE QueueInv'
  BY <1>7 DEF FutexWait, QueueInv, TypeOK
<1>8. ASSUME NEW t \in Threads, Uncontend(t) PROVE QueueInv'
  BY <1>8, Zenon DEF Uncontend, QueueInv, TypeOK
<1>9. ASSUME NEW t \in Threads, TakeOwnership(t) PROVE QueueInv'
  BY <1>9, Zenon DEF TakeOwnership, QueueInv, TypeOK
<1>10. ASSUME NEW t \in Threads, ExclusiveTryLock(t) PROVE QueueInv'
  BY <1>10, Zenon DEF ExclusiveTryLock, QueueInv, TypeOK
<1>11. ASSUME NEW t \in Threads, ExclusiveUnlock(t) PROVE QueueInv'
  BY <1>11, Zenon DEF ExclusiveUnlock, QueueInv, TypeOK
<1>12. ASSUME NEW t \in Threads, ClearOwner(t) PROVE QueueInv'
  BY <1>12, Zenon DEF ClearOwner, QueueInv, TypeOK
<1>13. ASSUME NEW t \in Threads, Release(t) PROVE QueueInv'
  BY <1>13, Zenon DEF Release, QueueInv, TypeOK
<1>14. ASSUME NEW t \in Threads, WakeContender(t) PROVE QueueInv'
  <2>1. PICK S \in SUBSET stateQueue, l \in {"cv_wait", "out"} :
              /\ l = "cv_wait" <=> InWait(t)
              /\ stateQueue # {} => S # {}
              /\ stateQueue' = stateQueue \ S
              /\ pc' = [Woken(S) EXCEPT ![t] = l]
    BY <1>14, WakeContenderShape, Zenon
  <2>2. /\ pc'[t] = l
        /\ \A v \in Threads \ {t} :
             pc'[v] = IF v \notin S THEN pc[v]
                      ELSE IF pc[v] = "asleep" THEN "uncontend" ELSE "lock"
    <3>1. S \in SUBSET Threads
      BY Zenon DEF TypeOK
    <3> QED
      BY <2>1, <3>1, WakeShape, Zenon DEF Labels
  <2> QED
    BY <1>14, <2>1, <2>2 DEF WakeContender, QueueInv, TypeOK
<1>15. ASSUME NEW t \in Threads, Wait(t) PROVE QueueInv'
  BY <1>15, Zenon DEF Wait, QueueInv, TypeOK
<1>16. ASSUME NEW t \in Threads, FutexWaitSequence(t) PROVE QueueInv'
  BY <1>16 DEF FutexWaitSequence, QueueInv, TypeOK
<1>17. ASSUME NEW t \in Threads, FinishWait(t) PROVE QueueInv'
  BY <1>17, Zenon DEF FinishWait, QueueInv, TypeOK
<1>18. ASSUME NEW t \in Threads, Signal(t) PROVE QueueInv'
  BY <1>18, Zenon DEF Signal, QueueInv, TypeOK
<1>19. ASSUME NEW t \in Threads, SignalWake(t) PROVE QueueInv'
  <2>1. PICK S \in SUBSET sequenceQueue :
              /\ sequenceQueue' = sequenceQueue \ S
              /\ pc' = [Woken(S) EXCEPT ![t] = "in"]
    BY <1>19, SignalWakeShape, Zenon
  <2>2. /\ pc'[t] = "in"
        /\ \A v \in Threads \ {t} :
             pc'[v] = IF v \notin S THEN pc[v]
                      ELSE IF pc[v] = "asleep" THEN "uncontend" ELSE "lock"
    <3>1. S \in SUBSET Threads
      BY Zenon DEF TypeOK
    <3> QED
      BY <2>1, <3>1, WakeShape, Zenon DEF Labels
  <2> QED
    BY <1>19, <2>1, <2>2 DEF SignalWake, QueueInv, TypeOK
<1>20. ASSUME NEW t \in Threads, Broadcast(t) PROVE QueueInv'
  BY <1>20, Zenon DEF Broadcast, QueueInv, TypeOK
<1>21. ASSUME NEW t \in Threads, BroadcastRequeue(t) PROVE QueueInv'
  BY <1>21, Zenon DEF BroadcastRequeue, QueueInv, TypeOK
<1>22. ASSUME NEW t \in Threads, Interrupted(t) PROVE QueueInv'
  BY <1>22, Zenon DEF Interrupted, QueueInv, TypeOK, Woken
<1>23. ASSUME NEW t \in Threads, RequestEmptyCheckpoint(t) PROVE QueueInv'
  BY <1>23, Zenon DEF RequestEmptyCheckpoint, QueueInv, TypeOK
<1>24. CASE WakeupToRespondToEmptyCheckpoint
  BY <1>24, Zenon DEF WakeupToRespondToEmptyCheckpoint, QueueInv, TypeOK, Woken
<1> QED
  BY <1>1, <1>2, <1>3, <1>4, <1>5, <1>6, <1>7, <1>8, <1>9, <1>10, <1>11, <1>12, <1>13,
     <1>14, <1>15, <1>16, <1>17, <1>18, <1>19, <1>20, <1>21, <1>22, <1>23, <1>24, Zenon
     DEF Next, Internal, Call

\* A thread is registered as a waiter exactly during its wait.
LEMMA WaitStep ==
  ASSUME TypeOK, HolderInv, QueueInv, WaitInv, CountInv, Next
  PROVE  WaitInv'
<1> USE DEF lockVars, condVars, queueVars, InWait
<1>1. ASSUME NEW t \in Threads, ExclusiveLock(t) PROVE WaitInv'
  BY <1>1, Zenon DEF ExclusiveLock, WaitInv, TypeOK, HolderInv, QueueInv
<1>2. ASSUME NEW t \in Threads, RelockRecursively(t) PROVE WaitInv'
  BY <1>2, Zenon DEF RelockRecursively, WaitInv, TypeOK, HolderInv, QueueInv,
     IsExclusiveHeld
<1>3. ASSUME NEW t \in Threads, LockFree(t) PROVE WaitInv'
  BY <1>3, Zenon DEF LockFree, WaitInv, TypeOK, HolderInv, QueueInv
<1>4. ASSUME NEW t \in Threads, LockBusy(t) PROVE WaitInv'
  BY <1>4, Zenon DEF LockBusy, WaitInv, TypeOK, HolderInv, QueueInv
<1>5. ASSUME NEW t \in Threads, Contend(t) PROVE WaitInv'
  BY <1>5, Zenon DEF Contend, WaitInv, TypeOK, HolderInv, QueueInv
<1>6. ASSUME NEW t \in Threads, CheckEmptyCheckpointFromMutex(t) PROVE WaitInv'
  BY <1>6, Zenon DEF CheckEmptyCheckpointFromMutex, WaitInv, TypeOK, HolderInv, QueueInv
<1>7. ASSUME NEW t \in Threads, FutexWait(t) PROVE WaitInv'
  BY <1>7 DEF FutexWait, WaitInv, TypeOK, HolderInv, QueueInv
<1>8. ASSUME NEW t \in Threads, Uncontend(t) PROVE WaitInv'
  BY <1>8, Zenon DEF Uncontend, WaitInv, TypeOK, HolderInv, QueueInv
<1>9. ASSUME NEW t \in Threads, TakeOwnership(t) PROVE WaitInv'
  BY <1>9, Zenon DEF TakeOwnership, WaitInv, TypeOK, HolderInv, QueueInv
<1>10. ASSUME NEW t \in Threads, ExclusiveTryLock(t) PROVE WaitInv'
  BY <1>10, Zenon DEF ExclusiveTryLock, WaitInv, TypeOK, HolderInv, QueueInv
<1>11. ASSUME NEW t \in Threads, ExclusiveUnlock(t) PROVE WaitInv'
  BY <1>11, Zenon DEF ExclusiveUnlock, WaitInv, TypeOK, HolderInv, QueueInv
<1>12. ASSUME NEW t \in Threads, ClearOwner(t) PROVE WaitInv'
  BY <1>12, Zenon DEF ClearOwner, WaitInv, TypeOK, HolderInv, QueueInv
<1>13. ASSUME NEW t \in Threads, Release(t) PROVE WaitInv'
  BY <1>13, Zenon DEF Release, WaitInv, TypeOK, HolderInv, QueueInv
<1>14. ASSUME NEW t \in Threads, WakeContender(t) PROVE WaitInv'
  <2>1. PICK S \in SUBSET stateQueue, l \in {"cv_wait", "out"} :
              /\ l = "cv_wait" <=> InWait(t)
              /\ stateQueue # {} => S # {}
              /\ stateQueue' = stateQueue \ S
              /\ pc' = [Woken(S) EXCEPT ![t] = l]
    BY <1>14, WakeContenderShape, Zenon
  <2>2. /\ pc'[t] = l
        /\ \A v \in Threads \ {t} :
             pc'[v] = IF v \notin S THEN pc[v]
                      ELSE IF pc[v] = "asleep" THEN "uncontend" ELSE "lock"
    <3>1. S \in SUBSET Threads
      BY Zenon DEF TypeOK
    <3> QED
      BY <2>1, <3>1, WakeShape, Zenon DEF Labels
  <2>3. old_recursion_count' = old_recursion_count
    BY <1>14, Zenon DEF WakeContender
  <2>4. \A v \in Threads \ {t} : pc'[v] \in {pc[v], "uncontend", "lock"}
    BY <2>2, Zenon
  <2>5. (pc'[t] = "cv_wait" /\ InWait(t)) \/ (pc'[t] \in {"out", "in"} /\ ~InWait(t))
    BY <2>1, <2>2, Zenon
  <2> QED
    BY <2>3, <2>4, <2>5, Zenon DEF WaitInv
<1>15. ASSUME NEW t \in Threads, Wait(t) PROVE WaitInv'
  BY <1>15, Zenon DEF Wait, WaitInv, TypeOK, HolderInv, QueueInv
<1>16. ASSUME NEW t \in Threads, FutexWaitSequence(t) PROVE WaitInv'
  BY <1>16 DEF FutexWaitSequence, WaitInv, TypeOK, HolderInv, QueueInv
<1>17. ASSUME NEW t \in Threads, FinishWait(t) PROVE WaitInv'
  BY <1>17, Zenon DEF FinishWait, WaitInv, TypeOK, HolderInv, QueueInv
<1>18. ASSUME NEW t \in Threads, Signal(t) PROVE WaitInv'
  BY <1>18, Zenon DEF Signal, WaitInv, TypeOK, HolderInv, QueueInv
<1>19. ASSUME NEW t \in Threads, SignalWake(t) PROVE WaitInv'
  <2>1. PICK S \in SUBSET sequenceQueue :
              /\ sequenceQueue' = sequenceQueue \ S
              /\ pc' = [Woken(S) EXCEPT ![t] = "in"]
    BY <1>19, SignalWakeShape, Zenon
  <2>2. /\ pc'[t] = "in"
        /\ \A v \in Threads \ {t} :
             pc'[v] = IF v \notin S THEN pc[v]
                      ELSE IF pc[v] = "asleep" THEN "uncontend" ELSE "lock"
    <3>1. S \in SUBSET Threads
      BY Zenon DEF TypeOK
    <3> QED
      BY <2>1, <3>1, WakeShape, Zenon DEF Labels
  <2>3. old_recursion_count' = old_recursion_count
    BY <1>19, Zenon DEF SignalWake
  <2>4. \A v \in Threads \ {t} : pc'[v] \in {pc[v], "uncontend", "lock"}
    BY <2>2, Zenon
  <2>5. (pc'[t] = "cv_wait" /\ InWait(t)) \/ (pc'[t] \in {"out", "in"} /\ ~InWait(t))
    BY <1>19, <2>1, <2>2, Zenon DEF SignalWake, WaitInv
  <2> QED
    BY <2>3, <2>4, <2>5, Zenon DEF WaitInv
<1>20. ASSUME NEW t \in Threads, Broadcast(t) PROVE WaitInv'
  BY <1>20, Zenon DEF Broadcast, WaitInv, TypeOK, HolderInv, QueueInv
<1>21. ASSUME NEW t \in Threads, BroadcastRequeue(t) PROVE WaitInv'
  BY <1>21, Zenon DEF BroadcastRequeue, WaitInv, TypeOK, HolderInv, QueueInv
<1>22. ASSUME NEW t \in Threads, Interrupted(t) PROVE WaitInv'
  BY <1>22, Zenon DEF Interrupted, WaitInv, TypeOK, HolderInv, QueueInv, Woken
<1>23. ASSUME NEW t \in Threads, RequestEmptyCheckpoint(t) PROVE WaitInv'
  BY <1>23, Zenon DEF RequestEmptyCheckpoint, WaitInv, TypeOK, HolderInv, QueueInv
<1>24. CASE WakeupToRespondToEmptyCheckpoint
  BY <1>24, Zenon DEF WakeupToRespondToEmptyCheckpoint, WaitInv, TypeOK, HolderInv,
     QueueInv, Woken
<1> QED
  BY <1>1, <1>2, <1>3, <1>4, <1>5, <1>6, <1>7, <1>8, <1>9, <1>10, <1>11, <1>12, <1>13,
     <1>14, <1>15, <1>16, <1>17, <1>18, <1>19, <1>20, <1>21, <1>22, <1>23, <1>24, Zenon
     DEF Next, Internal, Call

\* Nobody is left behind.
LEMMA StrandStep ==
  ASSUME TypeOK, HolderInv, QueueInv, WaitInv, CountInv, NoStrandedSleeper, Next
  PROVE  NoStrandedSleeper'
<1> USE DEF lockVars, condVars, queueVars, InWait
<1>1. ASSUME NEW t \in Threads, ExclusiveLock(t) PROVE NoStrandedSleeper'
  BY <1>1 DEF ExclusiveLock, NoStrandedSleeper, Retrying, TypeOK, HolderInv, Holding,
     QueueInv
<1>2. ASSUME NEW t \in Threads, RelockRecursively(t) PROVE NoStrandedSleeper'
  BY <1>2, Zenon DEF RelockRecursively, NoStrandedSleeper, Retrying, TypeOK, HolderInv,
     Holding, QueueInv, IsExclusiveHeld
<1>3. ASSUME NEW t \in Threads, LockFree(t) PROVE NoStrandedSleeper'
  BY <1>3 DEF LockFree, NoStrandedSleeper, Retrying, TypeOK, HolderInv, Holding, QueueInv
<1>4. ASSUME NEW t \in Threads, LockBusy(t) PROVE NoStrandedSleeper'
  BY <1>4 DEF LockBusy, NoStrandedSleeper, Retrying, TypeOK, HolderInv, Holding, QueueInv
<1>5. ASSUME NEW t \in Threads, Contend(t) PROVE NoStrandedSleeper'
  BY <1>5 DEF Contend, NoStrandedSleeper, Retrying, TypeOK, HolderInv, Holding, QueueInv
<1>6. ASSUME NEW t \in Threads, CheckEmptyCheckpointFromMutex(t) PROVE NoStrandedSleeper'
  BY <1>6, Zenon DEF CheckEmptyCheckpointFromMutex, NoStrandedSleeper, Retrying, TypeOK,
     HolderInv, Holding, QueueInv
<1>7. ASSUME NEW t \in Threads, FutexWait(t) PROVE NoStrandedSleeper'
  BY <1>7 DEF FutexWait, NoStrandedSleeper, Retrying, TypeOK, HolderInv, Holding, QueueInv
<1>8. ASSUME NEW t \in Threads, Uncontend(t) PROVE NoStrandedSleeper'
  BY <1>8 DEF Uncontend, NoStrandedSleeper, Retrying, TypeOK, HolderInv, Holding, QueueInv
<1>9. ASSUME NEW t \in Threads, TakeOwnership(t) PROVE NoStrandedSleeper'
  BY <1>9 DEF TakeOwnership, NoStrandedSleeper, Retrying, TypeOK, HolderInv, Holding,
     QueueInv
<1>10. ASSUME NEW t \in Threads, ExclusiveTryLock(t) PROVE NoStrandedSleeper'
  BY <1>10 DEF ExclusiveTryLock, NoStrandedSleeper, Retrying, TypeOK, HolderInv, Holding,
     QueueInv
<1>11. ASSUME NEW t \in Threads, ExclusiveUnlock(t) PROVE NoStrandedSleeper'
  BY <1>11, Zenon DEF ExclusiveUnlock, NoStrandedSleeper, Retrying, TypeOK, HolderInv,
     Holding, QueueInv
<1>12. ASSUME NEW t \in Threads, ClearOwner(t) PROVE NoStrandedSleeper'
  BY <1>12 DEF ClearOwner, NoStrandedSleeper, Retrying, TypeOK, HolderInv, Holding, QueueInv
<1>13. ASSUME NEW t \in Threads, Release(t) PROVE NoStrandedSleeper'
  BY <1>13 DEF Release, NoStrandedSleeper, Retrying, TypeOK, HolderInv, Holding, QueueInv
<1>14. ASSUME NEW t \in Threads, WakeContender(t) PROVE NoStrandedSleeper'
  <2>1. PICK S \in SUBSET stateQueue, l \in {"cv_wait", "out"} :
              /\ l = "cv_wait" <=> InWait(t)
              /\ stateQueue # {} => S # {}
              /\ stateQueue' = stateQueue \ S
              /\ pc' = [Woken(S) EXCEPT ![t] = l]
    BY <1>14, WakeContenderShape, Zenon
  <2>2. /\ pc'[t] = l
        /\ \A v \in Threads \ {t} :
             pc'[v] = IF v \notin S THEN pc[v]
                      ELSE IF pc[v] = "asleep" THEN "uncontend" ELSE "lock"
    <3>1. S \in SUBSET Threads
      BY Zenon DEF TypeOK
    <3> QED
      BY <2>1, <3>1, WakeShape, Zenon DEF Labels
  <2> QED
    BY <1>14, <2>1, <2>2, SMTT(30), Zenon DEF WakeContender, NoStrandedSleeper, Retrying,
       TypeOK, HolderInv, Holding, QueueInv
<1>15. ASSUME NEW t \in Threads, Wait(t) PROVE NoStrandedSleeper'
  BY <1>15, Zenon DEF Wait, NoStrandedSleeper, Retrying, TypeOK, HolderInv, Holding,
     QueueInv
<1>16. ASSUME NEW t \in Threads, FutexWaitSequence(t) PROVE NoStrandedSleeper'
  BY <1>16 DEF FutexWaitSequence, NoStrandedSleeper, Retrying, TypeOK, HolderInv, Holding,
     QueueInv
<1>17. ASSUME NEW t \in Threads, FinishWait(t) PROVE NoStrandedSleeper'
  BY <1>17 DEF FinishWait, NoStrandedSleeper, Retrying, TypeOK, HolderInv, Holding, QueueInv
<1>18. ASSUME NEW t \in Threads, Signal(t) PROVE NoStrandedSleeper'
  BY <1>18, Zenon DEF Signal, NoStrandedSleeper, Retrying, TypeOK, HolderInv, Holding,
     QueueInv
<1>19. ASSUME NEW t \in Threads, SignalWake(t) PROVE NoStrandedSleeper'
  <2>1. PICK S \in SUBSET sequenceQueue :
              /\ sequenceQueue' = sequenceQueue \ S
              /\ pc' = [Woken(S) EXCEPT ![t] = "in"]
    BY <1>19, SignalWakeShape, Zenon
  <2>2. /\ pc'[t] = "in"
        /\ \A v \in Threads \ {t} :
             pc'[v] = IF v \notin S THEN pc[v]
                      ELSE IF pc[v] = "asleep" THEN "uncontend" ELSE "lock"
    <3>1. S \in SUBSET Threads
      BY Zenon DEF TypeOK
    <3> QED
      BY <2>1, <3>1, WakeShape, Zenon DEF Labels
  <2> QED
    BY <1>19, <2>1, <2>2, Zenon DEF SignalWake, NoStrandedSleeper, Retrying, TypeOK,
       HolderInv, Holding, QueueInv
<1>20. ASSUME NEW t \in Threads, Broadcast(t) PROVE NoStrandedSleeper'
  BY <1>20, Zenon DEF Broadcast, NoStrandedSleeper, Retrying, TypeOK, HolderInv, Holding,
     QueueInv
<1>21. ASSUME NEW t \in Threads, BroadcastRequeue(t) PROVE NoStrandedSleeper'
  BY <1>21, Zenon DEF BroadcastRequeue, NoStrandedSleeper, Retrying, TypeOK, HolderInv,
     Holding, QueueInv
<1>22. ASSUME NEW t \in Threads, Interrupted(t) PROVE NoStrandedSleeper'
  BY <1>22, Zenon DEF Interrupted, NoStrandedSleeper, Retrying, TypeOK, HolderInv, Holding,
     QueueInv, Woken
<1>23. ASSUME NEW t \in Threads, RequestEmptyCheckpoint(t) PROVE NoStrandedSleeper'
  BY <1>23, Zenon DEF RequestEmptyCheckpoint, NoStrandedSleeper, Retrying, TypeOK,
     HolderInv, Holding, QueueInv
<1>24. CASE WakeupToRespondToEmptyCheckpoint
  BY <1>24, Zenon DEF WakeupToRespondToEmptyCheckpoint, NoStrandedSleeper, Retrying,
     TypeOK, HolderInv, Holding, QueueInv, Woken
<1> QED
  BY <1>1, <1>2, <1>3, <1>4, <1>5, <1>6, <1>7, <1>8, <1>9, <1>10, <1>11, <1>12, <1>13,
     <1>14, <1>15, <1>16, <1>17, <1>18, <1>19, <1>20, <1>21, <1>22, <1>23, <1>24, Zenon
     DEF Next, Internal, Call

\* A broadcast reaches all.
LEMMA SequenceStep ==
  ASSUME TypeOK, QueueInv, SequenceInv, Next
  PROVE  SequenceInv'
<1> USE DEF lockVars, condVars, queueVars, InWait
<1>1. ASSUME NEW t \in Threads, ExclusiveLock(t) PROVE SequenceInv'
  BY <1>1, Zenon DEF ExclusiveLock, SequenceInv, BroadcastReachesAll, TypeOK, QueueInv
<1>2. ASSUME NEW t \in Threads, RelockRecursively(t) PROVE SequenceInv'
  BY <1>2, Zenon DEF RelockRecursively, SequenceInv, BroadcastReachesAll, TypeOK, QueueInv,
     IsExclusiveHeld
<1>3. ASSUME NEW t \in Threads, LockFree(t) PROVE SequenceInv'
  BY <1>3, Zenon DEF LockFree, SequenceInv, BroadcastReachesAll, TypeOK, QueueInv
<1>4. ASSUME NEW t \in Threads, LockBusy(t) PROVE SequenceInv'
  BY <1>4, Zenon DEF LockBusy, SequenceInv, BroadcastReachesAll, TypeOK, QueueInv
<1>5. ASSUME NEW t \in Threads, Contend(t) PROVE SequenceInv'
  BY <1>5, Zenon DEF Contend, SequenceInv, BroadcastReachesAll, TypeOK, QueueInv
<1>6. ASSUME NEW t \in Threads, CheckEmptyCheckpointFromMutex(t) PROVE SequenceInv'
  BY <1>6, Zenon DEF CheckEmptyCheckpointFromMutex, SequenceInv, BroadcastReachesAll,
     TypeOK, QueueInv
<1>7. ASSUME NEW t \in Threads, FutexWait(t) PROVE SequenceInv'
  BY <1>7, Zenon DEF FutexWait, SequenceInv, BroadcastReachesAll, TypeOK, QueueInv
<1>8. ASSUME NEW t \in Threads, Uncontend(t) PROVE SequenceInv'
  BY <1>8, Zenon DEF Uncontend, SequenceInv, BroadcastReachesAll, TypeOK, QueueInv
<1>9. ASSUME NEW t \in Threads, TakeOwnership(t) PROVE SequenceInv'
  BY <1>9, Zenon DEF TakeOwnership, SequenceInv, BroadcastReachesAll, TypeOK, QueueInv
<1>10. ASSUME NEW t \in Threads, ExclusiveTryLock(t) PROVE SequenceInv'
  BY <1>10, Zenon DEF ExclusiveTryLock, SequenceInv, BroadcastReachesAll, TypeOK, QueueInv
<1>11. ASSUME NEW t \in Threads, ExclusiveUnlock(t) PROVE SequenceInv'
  BY <1>11, Zenon DEF ExclusiveUnlock, SequenceInv, BroadcastReachesAll, TypeOK, QueueInv
<1>12. ASSUME NEW t \in Threads, ClearOwner(t) PROVE SequenceInv'
  BY <1>12, Zenon DEF ClearOwner, SequenceInv, BroadcastReachesAll, TypeOK, QueueInv
<1>13. ASSUME NEW t \in Threads, Release(t) PROVE SequenceInv'
  BY <1>13, Zenon DEF Release, SequenceInv, BroadcastReachesAll, TypeOK, QueueInv
<1>14. ASSUME NEW t \in Threads, WakeContender(t) PROVE SequenceInv'
  BY <1>14, Zenon DEF WakeContender, SequenceInv, BroadcastReachesAll, TypeOK, QueueInv,
     Woken
<1>15. ASSUME NEW t \in Threads, Wait(t) PROVE SequenceInv'
  BY <1>15, Zenon DEF Wait, SequenceInv, BroadcastReachesAll, TypeOK, QueueInv
<1>16. ASSUME NEW t \in Threads, FutexWaitSequence(t) PROVE SequenceInv'
  BY <1>16, Zenon DEF FutexWaitSequence, SequenceInv, BroadcastReachesAll, TypeOK, QueueInv
<1>17. ASSUME NEW t \in Threads, FinishWait(t) PROVE SequenceInv'
  BY <1>17, Zenon DEF FinishWait, SequenceInv, BroadcastReachesAll, TypeOK, QueueInv
<1>18. ASSUME NEW t \in Threads, Signal(t) PROVE SequenceInv'
  BY <1>18 DEF Signal, SequenceInv, BroadcastReachesAll, TypeOK, QueueInv
<1>19. ASSUME NEW t \in Threads, SignalWake(t) PROVE SequenceInv'
  BY <1>19, Zenon DEF SignalWake, SequenceInv, BroadcastReachesAll, TypeOK, QueueInv, Woken
<1>20. ASSUME NEW t \in Threads, Broadcast(t) PROVE SequenceInv'
  BY <1>20 DEF Broadcast, SequenceInv, BroadcastReachesAll, TypeOK, QueueInv
<1>21. ASSUME NEW t \in Threads, BroadcastRequeue(t) PROVE SequenceInv'
  BY <1>21 DEF BroadcastRequeue, SequenceInv, BroadcastReachesAll, TypeOK, QueueInv
<1>22. ASSUME NEW t \in Threads, Interrupted(t) PROVE SequenceInv'
  BY <1>22, Zenon DEF Interrupted, SequenceInv, BroadcastReachesAll, TypeOK, QueueInv, Woken
<1>23. ASSUME NEW t \in Threads, RequestEmptyCheckpoint(t) PROVE SequenceInv'
  BY <1>23, Zenon DEF RequestEmptyCheckpoint, SequenceInv, BroadcastReachesAll, TypeOK,
     QueueInv
<1>24. CASE WakeupToRespondToEmptyCheckpoint
  BY <1>24, Zenon DEF WakeupToRespondToEmptyCheckpoint, SequenceInv, BroadcastReachesAll,
     TypeOK, QueueInv, Woken
<1> QED
  BY <1>1, <1>2, <1>3, <1>4, <1>5, <1>6, <1>7, <1>8, <1>9, <1>10, <1>11, <1>12, <1>13,
     <1>14, <1>15, <1>16, <1>17, <1>18, <1>19, <1>20, <1>21, <1>22, <1>23, <1>24, Zenon
     DEF Next, Internal, Call

\* Every step preserves the types; the counters stay natural numbers because they count.
LEMMA TypeStep ==
  ASSUME TypeOK, HolderInv, QueueInv, WaitInv, CountInv, CountInv', Next
  PROVE  TypeOK'
<1> USE DEF lockVars, condVars, queueVars, InWait
<1>0. num_waiters' \in Nat /\ num_contenders' \in Nat
  <2>1. Waiters' \in SUBSET Threads /\ Contenders' \in SUBSET Threads
    BY Zenon DEF Waiters, Contenders
  <2>2. IsFiniteSet(Waiters') /\ IsFiniteSet(Contenders')
    BY <2>1, FS_Subset, ThreadsAssumption, Zenon
  <2>3. Cardinality(Waiters') \in Nat /\ Cardinality(Contenders') \in Nat
    BY <2>2, FS_CardinalityType, Zenon
  <2> QED
    BY <2>3 DEF CountInv
<1>1. ASSUME NEW t \in Threads, ExclusiveLock(t) PROVE TypeOK'
  BY <1>0, <1>1, Zenon DEF ExclusiveLock, TypeOK, Labels
<1>2. ASSUME NEW t \in Threads, RelockRecursively(t) PROVE TypeOK'
  BY <1>0, <1>2, BoundsAssumption DEF RelockRecursively, TypeOK, Labels
<1>3. ASSUME NEW t \in Threads, LockFree(t) PROVE TypeOK'
  BY <1>0, <1>3, Zenon DEF LockFree, TypeOK, Labels
<1>4. ASSUME NEW t \in Threads, LockBusy(t) PROVE TypeOK'
  BY <1>0, <1>4, Zenon DEF LockBusy, TypeOK, Labels
<1>5. ASSUME NEW t \in Threads, Contend(t) PROVE TypeOK'
  BY <1>0, <1>5, Zenon DEF Contend, TypeOK, Labels
<1>6. ASSUME NEW t \in Threads, CheckEmptyCheckpointFromMutex(t) PROVE TypeOK'
  BY <1>0, <1>6, Zenon DEF CheckEmptyCheckpointFromMutex, TypeOK, Labels
<1>7. ASSUME NEW t \in Threads, FutexWait(t) PROVE TypeOK'
  BY <1>0, <1>7, Zenon DEF FutexWait, TypeOK, Labels
<1>8. ASSUME NEW t \in Threads, Uncontend(t) PROVE TypeOK'
  BY <1>0, <1>8, Zenon DEF Uncontend, TypeOK, Labels
<1>9. ASSUME NEW t \in Threads, TakeOwnership(t) PROVE TypeOK'
  BY <1>0, <1>9, BoundsAssumption, SMTT(30), Zenon DEF TakeOwnership, TypeOK, Labels,
     HolderInv
<1>10. ASSUME NEW t \in Threads, ExclusiveTryLock(t) PROVE TypeOK'
  BY <1>0, <1>10, Zenon DEF ExclusiveTryLock, TypeOK, Labels
<1>11. ASSUME NEW t \in Threads, ExclusiveUnlock(t) PROVE TypeOK'
  BY <1>0, <1>11, BoundsAssumption DEF ExclusiveUnlock, TypeOK, Labels, HolderInv
<1>12. ASSUME NEW t \in Threads, ClearOwner(t) PROVE TypeOK'
  BY <1>0, <1>12, Zenon DEF ClearOwner, TypeOK, Labels
<1>13. ASSUME NEW t \in Threads, Release(t) PROVE TypeOK'
  BY <1>0, <1>13, Zenon DEF Release, TypeOK, Labels
<1>14. ASSUME NEW t \in Threads, WakeContender(t) PROVE TypeOK'
  BY <1>0, <1>14, Zenon DEF WakeContender, TypeOK, Labels, Woken
<1>15. ASSUME NEW t \in Threads, Wait(t) PROVE TypeOK'
  BY <1>0, <1>15, BoundsAssumption DEF Wait, TypeOK, Labels
<1>16. ASSUME NEW t \in Threads, FutexWaitSequence(t) PROVE TypeOK'
  BY <1>0, <1>16, Zenon DEF FutexWaitSequence, TypeOK, Labels
<1>17. ASSUME NEW t \in Threads, FinishWait(t) PROVE TypeOK'
  BY <1>0, <1>17, BoundsAssumption DEF FinishWait, TypeOK, Labels
<1>18. ASSUME NEW t \in Threads, Signal(t) PROVE TypeOK'
  BY <1>0, <1>18, BoundsAssumption DEF Signal, TypeOK, Labels
<1>19. ASSUME NEW t \in Threads, SignalWake(t) PROVE TypeOK'
  BY <1>0, <1>19, Zenon DEF SignalWake, TypeOK, Labels, Woken
<1>20. ASSUME NEW t \in Threads, Broadcast(t) PROVE TypeOK'
  BY <1>0, <1>20, BoundsAssumption DEF Broadcast, TypeOK, Labels
<1>21. ASSUME NEW t \in Threads, BroadcastRequeue(t) PROVE TypeOK'
  BY <1>0, <1>21, Zenon DEF BroadcastRequeue, TypeOK, Labels
<1>22. ASSUME NEW t \in Threads, Interrupted(t) PROVE TypeOK'
  BY <1>0, <1>22, Zenon DEF Interrupted, TypeOK, Labels, Woken
<1>23. ASSUME NEW t \in Threads, RequestEmptyCheckpoint(t) PROVE TypeOK'
  BY <1>0, <1>23, Zenon DEF RequestEmptyCheckpoint, TypeOK, Labels
<1>24. CASE WakeupToRespondToEmptyCheckpoint
  BY <1>0, <1>24, Zenon DEF WakeupToRespondToEmptyCheckpoint, TypeOK, Labels, Woken
<1> QED
  BY <1>1, <1>2, <1>3, <1>4, <1>5, <1>6, <1>7, <1>8, <1>9, <1>10, <1>11, <1>12, <1>13,
     <1>14, <1>15, <1>16, <1>17, <1>18, <1>19, <1>20, <1>21, <1>22, <1>23, <1>24, Zenon
     DEF Next, Internal, Call

\* The strengthened invariant holds in every reachable state of art::Mutex.
THEOREM Invariance == Spec => []IInv
<1>1. Init => IInv
  <2> SUFFICES ASSUME Init PROVE IInv
    BY Zenon
  <2>1. Waiters = {} /\ Contenders = {}
    BY Zenon DEF Init, Waiters, Contenders, Counted, InWait
  <2>2. CountInv
    BY <2>1, FS_EmptySet DEF Init, CountInv
  <2>3. TypeOK /\ HolderInv /\ QueueInv /\ WaitInv
    BY BoundsAssumption, ThreadsAssumption
       DEF Init, TypeOK, HolderInv, MutualExclusion, Holding, QueueInv, WaitInv, InWait,
       Labels
  <2> QED
    BY <2>2, <2>3 DEF Init, IInv, NoStrandedSleeper, SequenceInv, BroadcastReachesAll
<1>2. IInv /\ [Next]_vars => IInv'
  <2> SUFFICES ASSUME IInv, [Next]_vars PROVE IInv'
    BY Zenon
  <2> USE DEF IInv
  <2>1. CASE Next
    <3>1. CountInv'
      BY <2>1, CountStep, Zenon
    <3> QED
      BY <2>1, <3>1, TypeStep, HolderStep, QueueStep, WaitStep, StrandStep, SequenceStep,
         Zenon
  <2>2. CASE UNCHANGED vars
    <3>1. TypeOK'
      BY <2>2, Zenon DEF vars, TypeOK
    <3>2. HolderInv'
      BY <2>2, Zenon DEF vars, HolderInv, MutualExclusion
    <3>3. QueueInv' /\ WaitInv'
      BY <2>2, Zenon DEF vars, QueueInv, WaitInv, InWait
    <3>4. CountInv'
      BY <2>2, Zenon DEF vars, CountInv, Waiters, Contenders, InWait
    <3>5. NoStrandedSleeper' /\ SequenceInv'
      BY <2>2, Zenon DEF vars, NoStrandedSleeper, SequenceInv, BroadcastReachesAll
    <3> QED
      BY <3>1, <3>2, <3>3, <3>4, <3>5, Zenon
  <2> QED
    BY <2>1, <2>2, Zenon
<1> QED
  BY <1>1, <1>2, PTL DEF Spec

\* No reachable state has two threads inside the mutex.
THEOREM MutexExcludes == Spec => []MutualExclusion
<1>1. IInv => MutualExclusion
  BY Zenon DEF IInv, HolderInv
<1> QED
  BY <1>1, Invariance, PTL

\* No reachable state has a free mutex with a sleeper that nobody is about to wake.
THEOREM MutexStrandsNobody == Spec => []NoStrandedSleeper
<1>1. IInv => NoStrandedSleeper
  BY Zenon DEF IInv
<1> QED
  BY <1>1, Invariance, PTL

\* No reachable state has a thread asleep on the condition variable that an earlier
\* Broadcast should have released.
THEOREM BroadcastIsNotLost == Spec => []BroadcastReachesAll
<1>1. IInv => BroadcastReachesAll
  BY Zenon DEF IInv, SequenceInv
<1> QED
  BY <1>1, Invariance, PTL

\* Owner is the thread, if any, that holds the mutex between calls.
LEMMA OwnerFacts ==
  ASSUME TypeOK, HolderInv
  PROVE  /\ Owner \in Threads \union {NoThread}
         /\ \A v \in Threads : Owner = v <=> pc[v] \in {"in", "signal", "broadcast"}
  BY ThreadsAssumption, Zenon DEF Owner, TypeOK, HolderInv, Holding

\* A step that moves no thread into or out of the mutex as its clients see it.
LEMMA OwnerUnchanged ==
  ASSUME TypeOK, HolderInv, TypeOK', HolderInv',
         \A v \in Threads : pc'[v] \in {"in", "signal", "broadcast"}
             <=> pc[v] \in {"in", "signal", "broadcast"},
         UNCHANGED <<recursion_count, old_recursion_count>>
  PROVE  UNCHANGED Abstract!lockState
<1>1. /\ Owner \in Threads \union {NoThread}
      /\ \A v \in Threads : Owner = v <=> pc[v] \in {"in", "signal", "broadcast"}
  BY OwnerFacts, Zenon
<1>2. /\ Owner' \in Threads \union {NoThread}
      /\ \A v \in Threads : Owner' = v <=> pc'[v] \in {"in", "signal", "broadcast"}
  BY ThreadsAssumption DEF Owner, TypeOK, HolderInv, Holding
<1>3. Owner' = Owner
  BY <1>1, <1>2, ThreadsAssumption, Zenon
<1> QED
  BY <1>3, Zenon DEF Abstract!lockState

\* Every step is one of AbstractLock, or leaves its variables alone.
LEMMA RefinementStep ==
  ASSUME IInv, IInv', Next
  PROVE  [Abstract!Next]_(Abstract!lockState)
<1> USE DEF lockVars, condVars, queueVars, InWait
<1>1. /\ TypeOK /\ HolderInv /\ QueueInv /\ WaitInv /\ CountInv
      /\ TypeOK' /\ HolderInv'
  BY Zenon DEF IInv
<1>2. /\ Owner \in Threads \union {NoThread}
      /\ \A v \in Threads : Owner = v <=> pc[v] \in {"in", "signal", "broadcast"}
  BY <1>1, OwnerFacts, Zenon
<1>3. /\ Owner' \in Threads \union {NoThread}
      /\ \A v \in Threads : Owner' = v <=> pc'[v] \in {"in", "signal", "broadcast"}
  BY <1>1, ThreadsAssumption DEF Owner, TypeOK, HolderInv, Holding
<1>4. ASSUME NEW t \in Threads, TakeOwnership(t) PROVE [Abstract!Next]_(Abstract!lockState)
  <2>1. Owner = NoThread
    <3>1. \A v \in Threads : pc[v] \in Holding => pc[v] = pc[t]
      BY <1>1, <1>4 DEF TakeOwnership, HolderInv, MutualExclusion, Holding
    <3> QED
      BY <1>2, <1>4, <3>1, Zenon DEF TakeOwnership, Holding
  <2>2. recursion_count = 0
    BY <1>1, <1>4, Zenon DEF TakeOwnership, HolderInv
  <2>3. CASE InWait(t)
    <3>1. Owner' = NoThread
      BY <1>1, <1>2, <1>3, <1>4, <2>1, <2>3, Zenon DEF TakeOwnership, TypeOK
    <3> QED
      BY <1>4, <2>1, <3>1, Zenon DEF TakeOwnership, Abstract!lockState
  <2>4. CASE ~InWait(t)
    <3>1. Owner' = t
      BY <1>1, <1>3, <1>4, <2>4, Zenon DEF TakeOwnership, TypeOK
    <3>2. Abstract!Acquire(t)
      BY <1>4, <2>1, <2>2, <2>4, <3>1, ThreadsAssumption, SMTT(30), Zenon
         DEF TakeOwnership, Abstract!Acquire
    <3> QED
      BY <3>2, Zenon DEF Abstract!Next
  <2> QED
    BY <2>3, <2>4, Zenon
<1>5. ASSUME NEW t \in Threads, RelockRecursively(t)
      PROVE [Abstract!Next]_(Abstract!lockState)
  <2>1. Owner = t /\ Owner' = t
    BY <1>1, <1>2, <1>3, <1>5, Zenon DEF RelockRecursively, TypeOK
  <2>2. Abstract!Deepen(t)
    BY <1>5, <2>1, ThreadsAssumption, Zenon DEF RelockRecursively, Abstract!Deepen
  <2> QED
    BY <2>2, Zenon DEF Abstract!Next
<1>6. ASSUME NEW t \in Threads, ExclusiveUnlock(t)
      PROVE [Abstract!Next]_(Abstract!lockState)
  <2>1. Owner = t
    BY <1>2, <1>6, Zenon DEF ExclusiveUnlock
  <2>2. Owner' = IF recursion_count = 1 THEN NoThread ELSE t
    BY <1>1, <1>2, <1>3, <1>6, <2>1, Zenon DEF ExclusiveUnlock, TypeOK
  <2>3. Abstract!Release(t)
    BY <1>6, <2>1, <2>2, ThreadsAssumption DEF ExclusiveUnlock, Abstract!Release
  <2> QED
    BY <2>3, Zenon DEF Abstract!Next
<1>7. ASSUME NEW t \in Threads, Wait(t) PROVE [Abstract!Next]_(Abstract!lockState)
  <2>1. Owner = t
    BY <1>2, <1>7, Zenon DEF Wait
  <2>2. Owner' = NoThread
    BY <1>1, <1>2, <1>3, <1>7, <2>1, Zenon DEF Wait, TypeOK
  <2>3. (IF Owner = NoThread THEN 0 ELSE recursion_count) = recursion_count
    BY <2>1, ThreadsAssumption, Zenon
  <2>4. Abstract!StartWait(t)
    BY <1>7, <2>1, <2>2, <2>3, Zenon DEF Wait, Abstract!StartWait
  <2> QED
    BY <2>4, Zenon DEF Abstract!Next
<1>8. ASSUME NEW t \in Threads, FinishWait(t) PROVE [Abstract!Next]_(Abstract!lockState)
  <2>1. Owner = NoThread
    <3>1. \A v \in Threads : pc[v] \in Holding => pc[v] = pc[t]
      BY <1>1, <1>8, Zenon DEF FinishWait, HolderInv, MutualExclusion, Holding
    <3> QED
      BY <1>2, <1>8, <3>1, Zenon DEF FinishWait, Holding
  <2>2. Owner' = t /\ old_recursion_count[t] # 0
    BY <1>1, <1>3, <1>8, Zenon DEF FinishWait, TypeOK, WaitInv
  <2>3. Abstract!EndWait(t)
    BY <1>8, <2>1, <2>2, ThreadsAssumption, Zenon DEF FinishWait, Abstract!EndWait
  <2> QED
    BY <2>3, Zenon DEF Abstract!Next
<1>9. ASSUME NEW t \in Threads, ExclusiveLock(t) PROVE [Abstract!Next]_(Abstract!lockState)
  <2>1. \A v \in Threads : pc'[v] \in {"in", "signal", "broadcast"}
            <=> pc[v] \in {"in", "signal", "broadcast"}
    BY <1>1, <1>9, Zenon DEF ExclusiveLock, TypeOK
  <2> QED
    BY <1>1, <1>9, <2>1, OwnerUnchanged, Zenon DEF ExclusiveLock
<1>10. ASSUME NEW t \in Threads, LockFree(t) PROVE [Abstract!Next]_(Abstract!lockState)
  <2>1. \A v \in Threads : pc'[v] \in {"in", "signal", "broadcast"}
            <=> pc[v] \in {"in", "signal", "broadcast"}
    BY <1>1, <1>10, Zenon DEF LockFree, TypeOK
  <2> QED
    BY <1>1, <1>10, <2>1, OwnerUnchanged, Zenon DEF LockFree
<1>11. ASSUME NEW t \in Threads, LockBusy(t) PROVE [Abstract!Next]_(Abstract!lockState)
  <2>1. \A v \in Threads : pc'[v] \in {"in", "signal", "broadcast"}
            <=> pc[v] \in {"in", "signal", "broadcast"}
    BY <1>1, <1>11, Zenon DEF LockBusy, TypeOK
  <2> QED
    BY <1>1, <1>11, <2>1, OwnerUnchanged, Zenon DEF LockBusy
<1>12. ASSUME NEW t \in Threads, Contend(t) PROVE [Abstract!Next]_(Abstract!lockState)
  <2>1. \A v \in Threads : pc'[v] \in {"in", "signal", "broadcast"}
            <=> pc[v] \in {"in", "signal", "broadcast"}
    BY <1>1, <1>12, Zenon DEF Contend, TypeOK
  <2> QED
    BY <1>1, <1>12, <2>1, OwnerUnchanged, Zenon DEF Contend
<1>13. ASSUME NEW t \in Threads, CheckEmptyCheckpointFromMutex(t)
       PROVE [Abstract!Next]_(Abstract!lockState)
  <2>1. \A v \in Threads : pc'[v] \in {"in", "signal", "broadcast"}
            <=> pc[v] \in {"in", "signal", "broadcast"}
    BY <1>1, <1>13, Zenon DEF CheckEmptyCheckpointFromMutex, TypeOK
  <2> QED
    BY <1>1, <1>13, <2>1, OwnerUnchanged, Zenon DEF CheckEmptyCheckpointFromMutex
<1>14. ASSUME NEW t \in Threads, FutexWait(t) PROVE [Abstract!Next]_(Abstract!lockState)
  <2>1. \A v \in Threads : pc'[v] \in {"in", "signal", "broadcast"}
            <=> pc[v] \in {"in", "signal", "broadcast"}
    BY <1>1, <1>14, Zenon DEF FutexWait, TypeOK
  <2> QED
    BY <1>1, <1>14, <2>1, OwnerUnchanged, Zenon DEF FutexWait
<1>15. ASSUME NEW t \in Threads, Uncontend(t) PROVE [Abstract!Next]_(Abstract!lockState)
  <2>1. \A v \in Threads : pc'[v] \in {"in", "signal", "broadcast"}
            <=> pc[v] \in {"in", "signal", "broadcast"}
    BY <1>1, <1>15, Zenon DEF Uncontend, TypeOK
  <2> QED
    BY <1>1, <1>15, <2>1, OwnerUnchanged, Zenon DEF Uncontend
<1>16. ASSUME NEW t \in Threads, ExclusiveTryLock(t)
       PROVE [Abstract!Next]_(Abstract!lockState)
  <2>1. \A v \in Threads : pc'[v] \in {"in", "signal", "broadcast"}
            <=> pc[v] \in {"in", "signal", "broadcast"}
    BY <1>1, <1>16, Zenon DEF ExclusiveTryLock, TypeOK
  <2> QED
    BY <1>1, <1>16, <2>1, OwnerUnchanged, Zenon DEF ExclusiveTryLock
<1>17. ASSUME NEW t \in Threads, ClearOwner(t) PROVE [Abstract!Next]_(Abstract!lockState)
  <2>1. \A v \in Threads : pc'[v] \in {"in", "signal", "broadcast"}
            <=> pc[v] \in {"in", "signal", "broadcast"}
    BY <1>1, <1>17, Zenon DEF ClearOwner, TypeOK
  <2> QED
    BY <1>1, <1>17, <2>1, OwnerUnchanged, Zenon DEF ClearOwner
<1>18. ASSUME NEW t \in Threads, Release(t) PROVE [Abstract!Next]_(Abstract!lockState)
  <2>1. \A v \in Threads : pc'[v] \in {"in", "signal", "broadcast"}
            <=> pc[v] \in {"in", "signal", "broadcast"}
    BY <1>1, <1>18, Zenon DEF Release, TypeOK
  <2> QED
    BY <1>1, <1>18, <2>1, OwnerUnchanged, Zenon DEF Release
<1>19. ASSUME NEW t \in Threads, WakeContender(t) PROVE [Abstract!Next]_(Abstract!lockState)
  <2>1. PICK S \in SUBSET stateQueue, l \in {"cv_wait", "out"} : pc' = [Woken(S) EXCEPT ![t] = l]
    BY <1>1, <1>19, WakeContenderShape, Zenon
  <2>2. /\ pc'[t] = l
        /\ \A v \in Threads \ {t} :
             pc'[v] = IF v \notin S THEN pc[v]
                      ELSE IF pc[v] = "asleep" THEN "uncontend" ELSE "lock"
    <3>1. S \in SUBSET Threads
      BY <1>1, Zenon DEF TypeOK
    <3>2. TypeOK /\ l \in Labels
      BY <1>1, <2>1, Zenon DEF Labels
    <3> QED
      BY <2>1, <3>1, <3>2, WakeShape, Zenon
  <2>3. \A v \in Threads : pc'[v] \in {"in", "signal", "broadcast"}
            <=> pc[v] \in {"in", "signal", "broadcast"}
    BY <1>1, <1>19, <2>1, <2>2 DEF WakeContender, TypeOK, QueueInv
  <2> QED
    BY <1>1, <1>19, <2>3, OwnerUnchanged, Zenon DEF WakeContender
<1>20. ASSUME NEW t \in Threads, FutexWaitSequence(t)
       PROVE [Abstract!Next]_(Abstract!lockState)
  <2>1. \A v \in Threads : pc'[v] \in {"in", "signal", "broadcast"}
            <=> pc[v] \in {"in", "signal", "broadcast"}
    BY <1>1, <1>20, Zenon DEF FutexWaitSequence, TypeOK
  <2> QED
    BY <1>1, <1>20, <2>1, OwnerUnchanged, Zenon DEF FutexWaitSequence
<1>21. ASSUME NEW t \in Threads, Signal(t) PROVE [Abstract!Next]_(Abstract!lockState)
  <2>1. \A v \in Threads : pc'[v] \in {"in", "signal", "broadcast"}
            <=> pc[v] \in {"in", "signal", "broadcast"}
    BY <1>1, <1>21, Zenon DEF Signal, TypeOK
  <2> QED
    BY <1>1, <1>21, <2>1, OwnerUnchanged, Zenon DEF Signal
<1>22. ASSUME NEW t \in Threads, SignalWake(t) PROVE [Abstract!Next]_(Abstract!lockState)
  <2>1. PICK S \in SUBSET sequenceQueue : pc' = [Woken(S) EXCEPT ![t] = "in"]
    BY <1>1, <1>22, SignalWakeShape, Zenon
  <2>2. /\ pc'[t] = "in"
        /\ \A v \in Threads \ {t} :
             pc'[v] = IF v \notin S THEN pc[v]
                      ELSE IF pc[v] = "asleep" THEN "uncontend" ELSE "lock"
    <3>1. S \in SUBSET Threads
      BY <1>1, Zenon DEF TypeOK
    <3>2. TypeOK /\ "in" \in Labels
      BY <1>1, <2>1, Zenon DEF Labels
    <3> QED
      BY <2>1, <3>1, <3>2, WakeShape, Zenon
  <2>3. \A v \in Threads : pc'[v] \in {"in", "signal", "broadcast"}
            <=> pc[v] \in {"in", "signal", "broadcast"}
    BY <1>1, <1>22, <2>1, <2>2, Zenon DEF SignalWake, TypeOK, QueueInv
  <2> QED
    BY <1>1, <1>22, <2>3, OwnerUnchanged, Zenon DEF SignalWake
<1>23. ASSUME NEW t \in Threads, Broadcast(t) PROVE [Abstract!Next]_(Abstract!lockState)
  <2>1. \A v \in Threads : pc'[v] \in {"in", "signal", "broadcast"}
            <=> pc[v] \in {"in", "signal", "broadcast"}
    BY <1>1, <1>23, Zenon DEF Broadcast, TypeOK
  <2> QED
    BY <1>1, <1>23, <2>1, OwnerUnchanged, Zenon DEF Broadcast
<1>24. ASSUME NEW t \in Threads, BroadcastRequeue(t)
       PROVE [Abstract!Next]_(Abstract!lockState)
  <2>1. \A v \in Threads : pc'[v] \in {"in", "signal", "broadcast"}
            <=> pc[v] \in {"in", "signal", "broadcast"}
    BY <1>1, <1>24, Zenon DEF BroadcastRequeue, TypeOK
  <2> QED
    BY <1>1, <1>24, <2>1, OwnerUnchanged, Zenon DEF BroadcastRequeue
<1>25. ASSUME NEW t \in Threads, Interrupted(t) PROVE [Abstract!Next]_(Abstract!lockState)
  <2>1. \A v \in Threads : pc'[v] \in {"in", "signal", "broadcast"}
            <=> pc[v] \in {"in", "signal", "broadcast"}
    BY <1>1, <1>25, Zenon DEF Interrupted, TypeOK, Woken, QueueInv
  <2> QED
    BY <1>1, <1>25, <2>1, OwnerUnchanged, Zenon DEF Interrupted
<1>26. ASSUME NEW t \in Threads, RequestEmptyCheckpoint(t)
       PROVE [Abstract!Next]_(Abstract!lockState)
  <2>1. \A v \in Threads : pc'[v] \in {"in", "signal", "broadcast"}
            <=> pc[v] \in {"in", "signal", "broadcast"}
    BY <1>1, <1>26, Zenon DEF RequestEmptyCheckpoint, TypeOK
  <2> QED
    BY <1>1, <1>26, <2>1, OwnerUnchanged, Zenon DEF RequestEmptyCheckpoint
<1>27. CASE WakeupToRespondToEmptyCheckpoint
  <2>1. \A v \in Threads : pc'[v] \in {"in", "signal", "broadcast"}
            <=> pc[v] \in {"in", "signal", "broadcast"}
    BY <1>1, <1>27, Zenon DEF WakeupToRespondToEmptyCheckpoint, TypeOK, Woken, QueueInv
  <2> QED
    BY <1>1, <1>27, <2>1, OwnerUnchanged, Zenon DEF WakeupToRespondToEmptyCheckpoint
<1> QED
  BY <1>4, <1>5, <1>6, <1>7, <1>8, <1>9, <1>10, <1>11, <1>12, <1>13, <1>14, <1>15, <1>16,
     <1>17, <1>18, <1>19, <1>20, <1>21, <1>22, <1>23, <1>24, <1>25, <1>26, <1>27, Zenon
     DEF Next, Internal, Call

\* The futex mutex with its condition variable implements the lock its clients rely on,
\* for any set of threads: one owner, released by it only, a wait that gives the lock up
\* whatever its depth and returns with that depth.
THEOREM MutexRefinement == Spec => ImplementsAbstractLock
<1>1. Init => Abstract!Init
  BY Zenon DEF Init, Abstract!Init, Owner
<1>2. IInv /\ IInv' /\ [Next]_vars => [Abstract!Next]_(Abstract!lockState)
  <2> SUFFICES ASSUME IInv, IInv', [Next]_vars PROVE [Abstract!Next]_(Abstract!lockState)
    BY Zenon
  <2>1. CASE Next
    BY <2>1, RefinementStep, Zenon
  <2>2. CASE UNCHANGED vars
    BY <2>2, Zenon DEF vars, Abstract!lockState, Owner
  <2> QED
    BY <2>1, <2>2, Zenon
<1> QED
  BY <1>1, <1>2, Invariance, PTL DEF Spec, ImplementsAbstractLock, Abstract!Spec
=============================================================================
