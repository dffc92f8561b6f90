----------------------- MODULE ThreadSuspensionCounts -----------------------
(*****************************************************************************)
(* Lemmas about ThreadSuspension.tla: every step keeps the suspend counts   *)
(* equal to the number of suspenders.                                       *)
(*****************************************************************************)
EXTENDS ThreadSuspensionBasics

USE DEF word, threadList, locks, passage, call

\* Raising a count records one more suspender.
LEMMA RaiseCounts ==
  ASSUME TypeOK, MatchInv, NEW s \in Threads, NEW t \in Threads, NEW b \in BOOLEAN,
         t \notin raised[s], Raise(s, t, b)
  PROVE  MatchInv'
<1>1. \A u \in Threads : SuspendersOf(u) \in SUBSET Threads
  BY Zenon DEF SuspendersOf
<1>2. SuspendersOf(t)' = SuspendersOf(t) \cup {s} /\ s \notin SuspendersOf(t)
  BY DEF SuspendersOf, Raise, TypeOK
<1>3. \A u \in Threads \ {t} : SuspendersOf(u)' = SuspendersOf(u)
  BY Zenon DEF SuspendersOf, Raise, TypeOK
<1>4. Cardinality(SuspendersOf(t)') = Cardinality(SuspendersOf(t)) + 1
  BY <1>1, <1>2, Size
<1>5. suspend_count'[t] = suspend_count[t] + 1 /\ "Suspend" \in flags'[t]
  BY Zenon DEF Raise, TypeOK
<1>6. \A u \in Threads \ {t} : suspend_count'[u] = suspend_count[u] /\ flags'[u] = flags[u]
  BY Zenon DEF Raise, TypeOK
<1> QED
  BY Zenon, <1>2, <1>3, <1>4, <1>5, <1>6 DEF MatchInv

\* Lowering the counts of threads that s has stopped forgets s as a suspender.
LEMMA LowerCounts ==
  ASSUME TypeOK, MatchInv, NEW s \in Threads, NEW T \in SUBSET Threads,
         T \subseteq raised[s], Lower(s, T)
  PROVE  MatchInv'
<1>1. \A u \in Threads : SuspendersOf(u) \in SUBSET Threads
  BY Zenon DEF SuspendersOf
<1>2. SUFFICES ASSUME NEW t \in Threads
               PROVE  /\ suspend_count'[t] = Cardinality(SuspendersOf(t)')
                      /\ "Suspend" \in flags'[t] <=> SuspendersOf(t)' # {}
  BY Zenon DEF MatchInv
<1>3. CASE t \in T
  <2>1. SuspendersOf(t)' = SuspendersOf(t) \ {s} /\ s \in SuspendersOf(t)
    BY <1>3, Zenon DEF SuspendersOf, Lower, TypeOK
  <2>2. Cardinality(SuspendersOf(t)') = Cardinality(SuspendersOf(t)) - 1
    BY <1>1, <2>1, Size
  <2>3. SuspendersOf(t)' \in SUBSET Threads
    BY <1>1, <2>1, Zenon
  <2>4. Cardinality(SuspendersOf(t)') = 0 <=> SuspendersOf(t)' = {}
    BY Zenon, <2>3, Size
  <2>5. suspend_count[t] = Cardinality(SuspendersOf(t)) /\ "Suspend" \in flags[t]
           /\ suspend_count[t] \in Nat
    BY <2>1, Zenon DEF MatchInv, TypeOK
  <2>6. /\ suspend_count'[t] = suspend_count[t] - 1
        /\ flags'[t] = IF suspend_count[t] = 1 THEN flags[t] \ {"Suspend"} ELSE flags[t]
    BY <1>3, Zenon DEF Lower
  <2>7. suspend_count'[t] = Cardinality(SuspendersOf(t)')
    BY <2>2, <2>5, <2>6, Zenon
  <2>8. suspend_count[t] = 1 <=> SuspendersOf(t)' = {}
    BY <2>2, <2>4, <2>5
  <2> QED
    BY <2>5, <2>6, <2>7, <2>8, Zenon
<1>4. CASE t \notin T
  <2>1. SuspendersOf(t)' = SuspendersOf(t)
    BY <1>4, Zenon DEF SuspendersOf, Lower, TypeOK
  <2>2. suspend_count'[t] = suspend_count[t] /\ flags'[t] = flags[t]
    BY <1>4 DEF Lower, TypeOK
  <2> QED
    BY <2>1, <2>2, Zenon DEF MatchInv
<1> QED
  BY <1>3, <1>4, Zenon

\* Every step keeps the counts equal to the number of suspenders.
LEMMA MatchStep ==
  ASSUME IInv, NEW s \in Threads, Step(s)
  PROVE  MatchInv'
<1>0. TypeOK /\ MatchInv /\ CallInv
  BY Zenon DEF IInv, CountInv
<1>1. CASE Moves(s)
  BY <1>0, <1>1, Zenon DEF Moves, TransitionToSuspended, CheckBarrierFlag, Return,
     TransitionToRunnable,
       BackToBarriers, BackToWait, WaitForResume, RunFlipFunction, SpuriousWakeup,
       MatchInv, SuspendersOf
<1>2. CASE ClaimBarriers(s)
  <2>1. \A t \in Threads : "Suspend" \in flags'[t] <=> "Suspend" \in flags[t]
    BY <1>0, <1>2 DEF ClaimBarriers, TakeBarriers, TypeOK
  <2> QED
    BY <1>0, <1>2, <2>1, Zenon DEF ClaimBarriers, MatchInv, SuspendersOf
<1>3. ASSUME NEW t \in Threads, DropBarrier(s, t) PROVE MatchInv'
  BY <1>0, <1>3, Zenon DEF DropBarrier, MatchInv, SuspendersOf
<1>4. CASE SuspendAllInternal(s)
  BY <1>0, <1>4, Zenon DEF SuspendAllInternal, MatchInv, SuspendersOf
<1>5. ASSUME NEW t \in Threads, InstallBarrier(s, t) PROVE MatchInv'
  <2>1. t \notin raised[s]
    BY <1>0, <1>5 DEF CallInv, Account, InstallBarrier, InSuspendAll, Unvisited
  <2>2. Raise(s, t, TRUE)
    BY Zenon, <1>5 DEF InstallBarrier
  <2> QED
    BY Zenon, <1>0, <2>1, <2>2, RaiseCounts
<1>6. CASE CheckSuspended(s)
  <2>1. \A t \in Threads : "Suspend" \in flags'[t] <=> "Suspend" \in flags[t]
    BY <1>0, <1>6 DEF CheckSuspended, CallInv, Account, TypeOK
  <2> QED
    BY <1>0, <1>6, <2>1, Zenon DEF CheckSuspended, MatchInv, SuspendersOf
<1>7. ASSUME NEW t \in Threads, ReleaseToRetry(s, t) PROVE MatchInv'
  BY <1>0, <1>7, Zenon DEF ReleaseToRetry, MatchInv, SuspendersOf
<1>8. CASE RetakeCountLock(s) \/ AwaitSuspension(s) \/ AcquireMutatorLock(s)
           \/ ReleaseMutatorLock(s)
  BY <1>0, <1>8, Zenon DEF RetakeCountLock, AwaitSuspension, AcquireMutatorLock,
     ReleaseMutatorLock,
       MatchInv, SuspendersOf
<1>9. CASE ResumeAll(s)
  <2>1. list \ {s} \in SUBSET Threads /\ list \ {s} \subseteq raised[s]
    BY <1>0, <1>9 DEF CallInv, Account, ResumeAll, InSuspendAll, Unvisited, TypeOK
  <2>2. Lower(s, list \ {s})
    BY <1>9, Zenon DEF ResumeAll
  <2> QED
    BY <1>0, <2>1, <2>2, LowerCounts, Zenon
<1>10. ASSUME NEW t \in Threads, SuspendThreadByThreadId(s, t) PROVE MatchInv'
  BY <1>0, <1>10, Zenon DEF SuspendThreadByThreadId, MatchInv, SuspendersOf
<1>11. CASE NoSuchThread(s) \/ YieldToSuspender(s) \/ RetryRequest(s) \/ Recheck(s)
            \/ NotifyResumed(s)
  BY Zenon, <1>0, <1>11 DEF NoSuchThread, YieldToSuspender, RetryRequest, Recheck,
     NotifyResumed, MatchInv, SuspendersOf
<1>12. CASE RequestSuspension(s)
  <2>1. target[s] \in Threads /\ target[s] \notin raised[s]
    BY <1>12, Zenon DEF IInv, CallInv, Account, PlaceInv, Place, RequestSuspension,
       InSuspendAll, TypeOK
  <2>2. Raise(s, target[s], FALSE)
    BY Zenon, <1>12 DEF RequestSuspension
  <2> QED
    BY Zenon, <1>0, <2>1, <2>2, RaiseCounts
<1>13. ASSUME phase[s] \in {"recheck", "held"}, Lower(s, {target[s]}) PROVE MatchInv'
  <2>1. {target[s]} \in SUBSET Threads /\ {target[s]} \subseteq raised[s]
    BY <1>0, <1>13 DEF CallInv, Account
  <2> QED
    BY <1>0, <1>13, <2>1, LowerCounts, Zenon
<1>14. CASE TimeOut(s)
  <2>1. CASE phase[s] = "request"
    BY <1>0, <1>14, <2>1, Zenon DEF TimeOut, MatchInv, SuspendersOf
  <2>2. CASE phase[s] = "recheck"
    BY <1>13, <1>14, <2>2, Zenon DEF TimeOut
  <2> QED
    BY Zenon, <1>14, <2>1, <2>2 DEF TimeOut
<1>15. CASE Resume(s)
  BY <1>13, <1>15, Zenon DEF Resume
<1>16. CASE Register(s)
  <2>1. SuspendersOf(s) = {} /\ SuspendersOf(s)' = {u \in Threads : pc[u] \in InSuspendAll}
    BY <1>16 DEF IInv, CallInv, Account, PlaceInv, Place, Register, SuspendersOf, TypeOK
  <2>2. \A t \in Threads \ {s} : SuspendersOf(t)' = SuspendersOf(t)
    BY <1>0, <1>16, Zenon DEF Register, SuspendersOf
  <2>3. suspend_all_count = Cardinality(SuspendersOf(s)')
    BY <2>1, Zenon DEF IInv, CountInv
  <2>4. SuspendersOf(s)' \in SUBSET Threads
    BY <2>1, Zenon
  <2>5. suspend_all_count \in Nat /\ (suspend_all_count = 0 <=> SuspendersOf(s)' = {})
    BY Zenon, <2>3, <2>4, Size
  <2>6. /\ suspend_count'[s] = suspend_all_count
        /\ "Suspend" \in flags'[s] <=> suspend_all_count # 0
    BY <1>0, <1>16, <2>5 DEF Register, TypeOK
  <2>7. \A t \in Threads \ {s} : suspend_count'[t] = suspend_count[t]
           /\ flags'[t] = flags[t]
    BY <1>0, <1>16, Zenon DEF Register, TypeOK
  <2> QED
    BY <1>0, <2>2, <2>3, <2>5, <2>6, <2>7, Zenon DEF MatchInv
<1>17. CASE Unregister(s)
  BY <1>0, <1>17, Zenon DEF Unregister, MatchInv, SuspendersOf
<1> QED
  BY <1>1, <1>2, <1>3, <1>4, <1>5, <1>6, <1>7, <1>8, <1>9, <1>10, <1>11, <1>12, <1>14,
     <1>15,
     <1>16, <1>17, Zenon DEF Step

\* Every step keeps suspend_all_count_ equal to the number of SuspendAll calls in progress.
LEMMA CountStep ==
  ASSUME IInv, NEW s \in Threads, Step(s)
  PROVE  CountInv'
<1> DEFINE S == {t \in Threads : pc[t] \in InSuspendAll}
<1>0. TypeOK /\ suspend_all_count = Cardinality(S) /\ S \in SUBSET Threads
  BY Zenon DEF IInv, CountInv
<1>1. CASE SuspendAllInternal(s)
  <2>1. S' = S \cup {s} /\ s \notin S
    BY <1>0, <1>1 DEF SuspendAllInternal, TypeOK, InSuspendAll
  <2>2. Cardinality(S') = Cardinality(S) + 1
    BY <1>0, <2>1, Size
  <2>3. suspend_all_count' = suspend_all_count + 1
    BY <1>1, Zenon DEF SuspendAllInternal
  <2> QED
    BY <1>0, <2>2, <2>3, MatchStep, Zenon DEF CountInv
<1>2. CASE ResumeAll(s)
  <2>1. S' = S \ {s} /\ s \in S
    BY <1>0, <1>2 DEF ResumeAll, BroadcastResume, TypeOK, InSuspendAll
  <2>2. Cardinality(S') = Cardinality(S) - 1
    BY <1>0, <2>1, Size
  <2>3. suspend_all_count' = suspend_all_count - 1
    BY <1>2, Zenon DEF ResumeAll
  <2> QED
    BY <1>0, <2>2, <2>3, MatchStep, Zenon DEF CountInv
<1> DEFINE Same == /\ UNCHANGED suspend_all_count
                   /\ \A t \in Threads : pc'[t] \in InSuspendAll <=> pc[t] \in InSuspendAll
<1>3. ASSUME Same PROVE CountInv'
  <2>1. S' = S
    BY <1>3, Zenon
  <2> QED
    BY <1>0, <1>3, <2>1, MatchStep, Zenon DEF CountInv
<1> USE DEF InSuspendAll, TypeOK
<1>4. CASE Moves(s)
  <2>1. Same
    <3>1. Moved(s) /\ Alone(s)
      BY <1>0, <1>4, MovesShape, Zenon
    <3> QED
      BY <3>1, Zenon DEF Moved, Alone
  <2> QED
    BY <1>3, <2>1, Zenon
<1>5. CASE ClaimBarriers(s) \/ \E t \in Threads : DropBarrier(s, t)
  <2>1. Same
    BY <1>0, <1>5 DEF ClaimBarriers, DropBarrier
  <2> QED
    BY <1>3, <2>1, Zenon
<1>6. ASSUME NEW t \in Threads, InstallBarrier(s, t) \/ ReleaseToRetry(s, t) PROVE CountInv'
  <2>1. Same
    <3>1. CASE InstallBarrier(s, t)
      BY <1>0, <3>1, Zenon DEF InstallBarrier
    <3>2. CASE ReleaseToRetry(s, t)
      BY <1>0, <3>2, Zenon DEF ReleaseToRetry
    <3> QED
      BY <1>6, <3>1, <3>2, Zenon
  <2> QED
    BY <1>3, <2>1, Zenon
<1>7. CASE CheckSuspended(s)
  <2>1. Same
    BY <1>0, <1>7 DEF CheckSuspended
  <2> QED
    BY <1>3, <2>1, Zenon
<1>8. CASE RetakeCountLock(s) \/ AwaitSuspension(s) \/ AcquireMutatorLock(s)
           \/ ReleaseMutatorLock(s)
  <2>1. Same
    BY <1>0, <1>8 DEF RetakeCountLock, AwaitSuspension, AcquireMutatorLock,
       ReleaseMutatorLock
  <2> QED
    BY <1>3, <2>1, Zenon
<1>9. ASSUME NEW t \in Threads, SuspendThreadByThreadId(s, t) PROVE CountInv'
  <2>1. Same
    BY <1>0, <1>9, Zenon DEF SuspendThreadByThreadId
  <2> QED
    BY <1>3, <2>1, Zenon
<1>10. CASE NoSuchThread(s) \/ YieldToSuspender(s) \/ RetryRequest(s) \/ Recheck(s)
  <2>1. Same
    <3>1. CASE NoSuchThread(s) \/ Recheck(s)
      BY <1>0, <3>1 DEF NoSuchThread, Recheck
    <3>2. CASE YieldToSuspender(s)
      BY <1>0, <3>2, Zenon DEF YieldToSuspender
    <3>3. CASE RetryRequest(s)
      BY <1>0, <3>3, Zenon DEF RetryRequest
    <3> QED
      BY <1>10, <3>1, <3>2, <3>3, Zenon
  <2> QED
    BY <1>3, <2>1, Zenon
<1>11. CASE RequestSuspension(s)
  <2>1. Same
    BY <1>0, <1>11, Zenon DEF RequestSuspension
  <2> QED
    BY <1>3, <2>1, Zenon
<1>12. CASE TimeOut(s) \/ Resume(s)
  <2>1. Same
    <3>1. CASE TimeOut(s)
      BY <1>0, <3>1, Zenon DEF TimeOut
    <3>2. CASE Resume(s)
      BY <1>0, <3>2, Zenon DEF Resume
    <3> QED
      BY <1>12, <3>1, <3>2, Zenon
  <2> QED
    BY <1>3, <2>1, Zenon
<1>13. CASE NotifyResumed(s)
  <2>1. Same
    BY <1>0, <1>13, Zenon DEF NotifyResumed, BroadcastResume
  <2> QED
    BY <1>3, <2>1, Zenon
<1>14. CASE Register(s) \/ Unregister(s)
  <2>1. Same
    BY <1>0, <1>14 DEF Register, Unregister
  <2> QED
    BY <1>3, <2>1, Zenon
<1> QED
  BY <1>1, <1>2, <1>4, <1>5, <1>6, <1>7, <1>8, <1>9, <1>10, <1>11, <1>12, <1>13, <1>14,
     Zenon DEF Step

\* Nobody can suspend a thread that holds thread_list_lock_ while it retries.
LEMMA RelockStep ==
  ASSUME IInv, NEW s \in Threads, Step(s)
  PROVE  RelockInv'
<1> USE ThreadsAssumption DEF IInv, TypeOK, RelockInv, SuspendersOf, LockInv, LocksFree, CountLockFree
<1>1. CASE Moves(s)
  <2>1. Moved(s) /\ Alone(s)
    BY <1>1, MovesShape, Zenon
  <2> QED
    BY <2>1 DEF Moved, Alone
<1>2. CASE ClaimBarriers(s) \/ \E t \in Threads : DropBarrier(s, t)
  BY <1>2 DEF ClaimBarriers, DropBarrier
<1>3. CASE SuspendAllInternal(s)
  BY <1>3 DEF SuspendAllInternal
<1>4. ASSUME NEW t \in Threads, InstallBarrier(s, t) PROVE RelockInv'
  <2>1. \A u \in Threads : pc[u] # "relock"
    BY <1>4, Zenon DEF InstallBarrier
  <2> QED
    BY <1>4, <2>1, Zenon DEF InstallBarrier
<1>5. CASE \/ \E t \in Threads : ReleaseToRetry(s, t)
           \/ CheckSuspended(s) \/ RetakeCountLock(s) \/ AwaitSuspension(s)
           \/ AcquireMutatorLock(s) \/ ReleaseMutatorLock(s)
  <2>1. CASE \E t \in Threads : ReleaseToRetry(s, t)
    BY <2>1 DEF ReleaseToRetry
  <2>2. CASE CheckSuspended(s)
    BY <2>2 DEF CheckSuspended
  <2>3. CASE RetakeCountLock(s) \/ AwaitSuspension(s) \/ AcquireMutatorLock(s)
             \/ ReleaseMutatorLock(s)
    BY <2>3 DEF RetakeCountLock, AwaitSuspension, AcquireMutatorLock, ReleaseMutatorLock
  <2> QED
    BY <1>5, <2>1, <2>2, <2>3, Zenon
<1>6. CASE ResumeAll(s)
  BY <1>6, Zenon DEF ResumeAll, Lower, BroadcastResume
<1>7. CASE \/ \E t \in Threads : SuspendThreadByThreadId(s, t)
           \/ NoSuchThread(s) \/ YieldToSuspender(s) \/ Recheck(s)
  BY <1>7 DEF SuspendThreadByThreadId, NoSuchThread, YieldToSuspender, Recheck
<1>8. CASE RequestSuspension(s)
  <2>1. \A u \in Threads \ {s} : pc[u] # "relock"
    BY <1>8 DEF RequestSuspension
  <2> QED
    BY <1>8, <2>1 DEF RequestSuspension
<1>9. CASE RetryRequest(s)
  <2>1. suspend_count[s] = 0 /\ suspend_count[s] = Cardinality(SuspendersOf(s))
    BY <1>9 DEF RetryRequest, BeingSuspended, CountInv, MatchInv
  <2>2. SuspendersOf(s) = {}
    BY Zenon, <2>1, Size
  <2> QED
    BY <1>9, <2>2 DEF RetryRequest
<1>10. CASE TimeOut(s)
  BY <1>10 DEF TimeOut, Lower
<1>11. CASE Resume(s)
  BY <1>11, Zenon DEF Resume, Lower
<1>12. CASE NotifyResumed(s)
  BY <1>12, Zenon DEF NotifyResumed, BroadcastResume
<1>13. CASE Register(s)
  <2>1. \A u \in Threads : pc[u] # "relock"
    BY <1>13, Zenon DEF Register
  <2> QED
    BY <1>13, <2>1, Zenon DEF Register
<1>14. CASE Unregister(s)
  BY <1>14, Zenon DEF Unregister
<1> QED
  BY Zenon, <1>1, <1>2, <1>3, <1>4, <1>5, <1>6, <1>7, <1>8, <1>9, <1>10, <1>11, <1>12,
     <1>13, <1>14
  DEF Step
=============================================================================
