----------------------- MODULE ThreadSuspensionProofs -----------------------
(*****************************************************************************)
(* Proofs about ThreadSuspension.tla, for any finite set of threads and     *)
(* any number of barrier slots: a thread that holds mutator_lock_           *)
(* exclusively is alone, the counts balance, no barrier is passed twice     *)
(* and no resume is lost.                                                   *)
(*****************************************************************************)
EXTENDS ThreadSuspensionCounts

USE DEF word, threadList, locks, passage, call

\* What a step must keep for each SuspendAll to wait for the same threads.
Waiting == {"modify", "check", "retry", "await"}
SameWait ==
  /\ UNCHANGED <<barriers, passing, todo, pending>>
  /\ \A u \in Threads : /\ pc'[u] \in Waiting <=> pc[u] \in Waiting
                        /\ pc'[u] = "check" <=> pc[u] = "check"
                        /\ pc[u] = "check" => target'[u] = target[u]

\* A step that changes no barrier, no count of a wait and no label of a waiting call
\* keeps the barrier counts exact.
LEMMA SameWaitStep ==
  ASSUME BarrierCountExact, SameWait
  PROVE  BarrierCountExact'
<1> SUFFICES ASSUME NEW u \in Threads
             PROVE  /\ pc'[u] \in Waiting => pending'[u] = Cardinality(Owing(u)')
                    /\ pc'[u] \notin Waiting => Owing(u)' = {}
                    /\ Holders(u)' \cap Passers(u)' = {}
                    /\ Unvisited(u)' \cap (Holders(u)' \cup Passers(u)') = {}
  BY Zenon DEF BarrierCountExact, Waiting
<1>1. Holders(u)' = Holders(u) /\ Passers(u)' = Passers(u) /\ Unvisited(u)' = Unvisited(u)
  BY Zenon DEF SameWait, Holders, Passers, Unvisited
<1>2. Owing(u)' = Owing(u)
  BY <1>1, Zenon DEF Owing
<1> QED
  BY <1>1, <1>2, Zenon DEF BarrierCountExact, SameWait, Waiting

\* Every step keeps pending_threads equal to the number of threads that owe a decrement.
LEMMA BarrierStep ==
  ASSUME IInv, NEW s \in Threads, Step(s)
  PROVE  BarrierCountExact'
<1>0. TypeOK /\ BarrierCountExact
  BY Zenon DEF IInv
<1> SUFFICES ASSUME ~SameWait PROVE BarrierCountExact'
  BY <1>0, SameWaitStep, Zenon
<1> USE DEF TypeOK
<1>1. CASE Moves(s)
  <2>1. Moved(s) /\ Alone(s)
    BY <1>0, <1>1, MovesShape, Zenon
  <2> QED
    BY <2>1, Zenon DEF Moved, Alone, SameWait, Waiting
<1>2. CASE ClaimBarriers(s)
  <2>1. CASE "Barrier" \notin flags[s]
    BY <1>0, <1>2, <2>1, Zenon DEF ClaimBarriers, SameWait, Waiting
  <2>2. CASE "Barrier" \in flags[s]
    <3> SUFFICES ASSUME NEW u \in Threads
                 PROVE  /\ pc'[u] \in Waiting => pending'[u] = Cardinality(Owing(u)')
                        /\ pc'[u] \notin Waiting => Owing(u)' = {}
                        /\ Holders(u)' \cap Passers(u)' = {}
                        /\ Unvisited(u)' \cap (Holders(u)' \cup Passers(u)') = {}
      BY Zenon DEF BarrierCountExact, Waiting
    <3>1. passing[s] = {}
      BY <1>2, Zenon DEF ClaimBarriers, IInv, PlaceInv, Place
    <3>2. /\ barriers' = [barriers EXCEPT ![s] = {}]
          /\ passing' = [passing EXCEPT ![s] = barriers[s]]
      BY <1>2, <2>2, Zenon DEF ClaimBarriers, TakeBarriers
    <3>3. /\ Holders(u)' = Holders(u) \ {s}
          /\ Passers(u)' = IF s \in Holders(u) THEN Passers(u) \cup {s} ELSE Passers(u)
      BY <1>0, <3>1, <3>2 DEF Holders, Passers
    <3>4. Unvisited(u)' = Unvisited(u)
      BY <1>0, <1>2, Zenon DEF ClaimBarriers, Unvisited
    <3>5. Owing(u)' = Owing(u)
      BY <1>0, <3>1, <3>3, <3>4, Zenon DEF Owing, Holders, Passers
    <3>6. pending' = pending /\ (pc'[u] \in Waiting <=> pc[u] \in Waiting)
      BY <1>0, <1>2, Zenon DEF ClaimBarriers, Waiting
    <3>7. /\ Holders(u) \cap Passers(u) = {}
          /\ Unvisited(u) \cap (Holders(u) \cup Passers(u)) = {}
      BY <1>0, Zenon DEF BarrierCountExact
    <3>8. /\ Holders(u)' \cap Passers(u)' = {}
          /\ Unvisited(u)' \cap (Holders(u)' \cup Passers(u)') = {}
      BY <3>3, <3>4, <3>7, Zenon
    <3> QED
      BY <1>0, <3>5, <3>6, <3>8, Zenon DEF BarrierCountExact, Waiting
  <2> QED
    BY <2>1, <2>2, Zenon
<1>3. ASSUME NEW v \in Threads, DropBarrier(s, v) PROVE BarrierCountExact'
  <2> SUFFICES ASSUME NEW u \in Threads
               PROVE  /\ pc'[u] \in Waiting => pending'[u] = Cardinality(Owing(u)')
                      /\ pc'[u] \notin Waiting => Owing(u)' = {}
                      /\ Holders(u)' \cap Passers(u)' = {}
                      /\ Unvisited(u)' \cap (Holders(u)' \cup Passers(u)') = {}
    BY Zenon DEF BarrierCountExact, Waiting
  <2>1. Holders(u)' = Holders(u) /\ Unvisited(u)' = Unvisited(u)
    BY <1>0, <1>3, Zenon DEF DropBarrier, Holders, Unvisited
  <2>2. Passers(u)' = IF u = v THEN Passers(u) \ {s} ELSE Passers(u)
    BY <1>0, <1>3, Zenon DEF DropBarrier, Passers
  <2>3. pc'[u] \in Waiting <=> pc[u] \in Waiting
    BY <1>0, <1>3, Zenon DEF DropBarrier, Waiting
  <2>4. /\ Holders(u) \cap Passers(u) = {}
        /\ Unvisited(u) \cap (Holders(u) \cup Passers(u)) = {}
    BY <1>0, Zenon DEF BarrierCountExact
  <2>5. s \in Passers(v)
    BY <1>3, Zenon DEF DropBarrier, Passers
  <2>6. Owing(u)' = IF u = v THEN Owing(u) \ {s} ELSE Owing(u)
    BY <2>1, <2>2, <2>4, <2>5, Zenon DEF Owing
  <2>7. /\ Holders(u)' \cap Passers(u)' = {}
        /\ Unvisited(u)' \cap (Holders(u)' \cup Passers(u)') = {}
    BY <2>1, <2>2, <2>4, Zenon
  <2>8. CASE u = v
    <3>1. s \in Owing(u) /\ Owing(u) \in SUBSET Threads
      BY <1>0, <2>5, <2>8, Zenon DEF Owing, Holders, Passers, Unvisited
    <3>2. Cardinality(Owing(u) \ {s}) = Cardinality(Owing(u)) - 1
      BY <3>1, Size, Zenon
    <3>3. pc[u] \in Waiting /\ pending[u] = Cardinality(Owing(u))
      BY <1>0, <3>1, PendingPositive, Zenon DEF Waiting
    <3>4. pending'[u] = pending[u] - 1
      BY <1>0, <1>3, <2>8, Zenon DEF DropBarrier
    <3>5. Owing(u)' = Owing(u) \ {s}
      BY <2>6, <2>8, Zenon
    <3> QED
      BY <2>3, <2>7, <3>2, <3>3, <3>4, <3>5, Zenon
  <2>9. CASE u # v
    <3>1. pending'[u] = pending[u]
      BY <1>0, <1>3, <2>9, Zenon DEF DropBarrier
    <3> QED
      BY <1>0, <2>3, <2>6, <2>7, <2>9, <3>1, Zenon DEF BarrierCountExact, Waiting
  <2> QED
    BY <2>8, <2>9, Zenon
<1>4. CASE SuspendAllInternal(s)
  <2> SUFFICES ASSUME NEW u \in Threads
               PROVE  /\ pc'[u] \in Waiting => pending'[u] = Cardinality(Owing(u)')
                      /\ pc'[u] \notin Waiting => Owing(u)' = {}
                      /\ Holders(u)' \cap Passers(u)' = {}
                      /\ Unvisited(u)' \cap (Holders(u)' \cup Passers(u)') = {}
    BY Zenon DEF BarrierCountExact, Waiting
  <2>1. Holders(u)' = Holders(u) /\ Passers(u)' = Passers(u)
    BY <1>4, Zenon DEF SuspendAllInternal, Holders, Passers
  <2>2. CASE u = s
    <3>1. Owing(s) = {}
      BY <1>0, <1>4, Zenon DEF SuspendAllInternal, BarrierCountExact
    <3>2. Unvisited(s)' = list \ {s} /\ pending'[s] = Cardinality(list \ {s})
             /\ pc'[s] \in Waiting
      BY <1>0, <1>4 DEF SuspendAllInternal, Unvisited, Waiting
    <3>3. Holders(s) = {} /\ Passers(s) = {}
      BY <3>1, Zenon DEF Owing
    <3>4. Owing(s)' = list \ {s}
      BY <2>1, <2>2, <3>2, <3>3, Zenon DEF Owing
    <3> QED
      BY <2>1, <2>2, <3>2, <3>3, <3>4, Zenon
  <2>3. CASE u # s
    <3>1. Unvisited(u)' = Unvisited(u) /\ pending'[u] = pending[u] /\ pc'[u] = pc[u]
      BY <1>0, <1>4, <2>3 DEF SuspendAllInternal, Unvisited
    <3>2. Owing(u)' = Owing(u)
      BY <2>1, <3>1, Zenon DEF Owing
    <3> QED
      BY <1>0, <2>1, <3>1, <3>2, Zenon DEF BarrierCountExact, Waiting
  <2> QED
    BY <2>2, <2>3, Zenon
<1>5. ASSUME NEW t \in Threads, InstallBarrier(s, t) PROVE BarrierCountExact'
  <2> SUFFICES ASSUME NEW u \in Threads
               PROVE  /\ pc'[u] \in Waiting => pending'[u] = Cardinality(Owing(u)')
                      /\ pc'[u] \notin Waiting => Owing(u)' = {}
                      /\ Holders(u)' \cap Passers(u)' = {}
                      /\ Unvisited(u)' \cap (Holders(u)' \cup Passers(u)') = {}
    BY Zenon DEF BarrierCountExact, Waiting
  <2>1. /\ Passers(u)' = Passers(u) /\ pending'[u] = pending[u]
        /\ (pc'[u] \in Waiting <=> pc[u] \in Waiting)
    BY <1>0, <1>5, Zenon DEF InstallBarrier, Passers, Waiting
  <2>2. Holders(u)' = IF u = s THEN Holders(u) \cup {t} ELSE Holders(u)
    BY <1>0, <1>5 DEF InstallBarrier, Raise, Holders
  <2>3. Unvisited(u)' = IF u = s THEN Unvisited(u) \ {t} ELSE Unvisited(u)
    BY Zenon, <1>0, <1>5 DEF InstallBarrier, Unvisited
  <2>4. t \in Unvisited(s)
    BY <1>5, Zenon DEF InstallBarrier, Unvisited
  <2>5. Owing(u)' = Owing(u)
    BY <2>1, <2>2, <2>3, <2>4, Zenon DEF Owing
  <2>6. /\ Holders(u) \cap Passers(u) = {}
        /\ Unvisited(u) \cap (Holders(u) \cup Passers(u)) = {}
    BY <1>0, Zenon DEF BarrierCountExact
  <2>7. /\ Holders(u)' \cap Passers(u)' = {}
        /\ Unvisited(u)' \cap (Holders(u)' \cup Passers(u)') = {}
    BY <2>1, <2>2, <2>3, <2>4, <2>6, Zenon
  <2> QED
    BY <1>0, <2>1, <2>5, <2>7, Zenon DEF BarrierCountExact, Waiting
<1>6. CASE CheckSuspended(s)
  <2> DEFINE t == target[s]
  <2>0. t \in Threads /\ t \in Holders(s)
    BY <1>0, <1>6, Zenon DEF CheckSuspended, IInv, CallInv, Account, Holders
  <2> SUFFICES ASSUME NEW u \in Threads
               PROVE  /\ pc'[u] \in Waiting => pending'[u] = Cardinality(Owing(u)')
                      /\ pc'[u] \notin Waiting => Owing(u)' = {}
                      /\ Holders(u)' \cap Passers(u)' = {}
                      /\ Unvisited(u)' \cap (Holders(u)' \cup Passers(u)') = {}
    BY Zenon DEF BarrierCountExact, Waiting
  <2>1. Passers(u)' = Passers(u) /\ (pc'[u] \in Waiting <=> pc[u] \in Waiting)
    BY <1>0, <1>6 DEF CheckSuspended, Passers, Waiting
  <2>2. Holders(u)' = IF u = s /\ IsSuspended(t) THEN Holders(u) \ {t} ELSE Holders(u)
    BY <1>0, <1>6, <2>0 DEF CheckSuspended, Holders
  <2>3. Unvisited(u)' = Unvisited(u)
    <3>1. DOMAIN pc = Threads /\ DOMAIN todo = Threads /\ DOMAIN target = Threads
      BY <1>0, Zenon
    <3>2. /\ u # s => pc'[u] = pc[u] /\ todo'[u] = todo[u] /\ target'[u] = target[u]
          /\ pc[s] = "check" /\ pc'[s] # "check" /\ todo'[s] = todo[s] \ {target[s]}
      BY <1>6, <3>1 DEF CheckSuspended
    <3> QED
      BY <3>2, Zenon DEF Unvisited
  <2>4. /\ Holders(u) \cap Passers(u) = {}
        /\ Unvisited(u) \cap (Holders(u) \cup Passers(u)) = {}
    BY <1>0, Zenon DEF BarrierCountExact
  <2>5. /\ Holders(u)' \cap Passers(u)' = {}
        /\ Unvisited(u)' \cap (Holders(u)' \cup Passers(u)') = {}
    BY <2>1, <2>2, <2>3, <2>4, Zenon
  <2>6. CASE u = s /\ IsSuspended(t)
    <3>1. t \in Owing(u) /\ Owing(u) \in SUBSET Threads
      BY <1>0, <2>0, <2>6, Zenon DEF Owing, Holders, Passers, Unvisited
    <3>2. Cardinality(Owing(u) \ {t}) = Cardinality(Owing(u)) - 1
      BY <2>0, <3>1, Size, Zenon
    <3>3. pc[u] \in Waiting /\ pending[u] = Cardinality(Owing(u))
      BY <1>0, <3>1, PendingPositive, Zenon DEF Waiting
    <3>4. pending'[u] = pending[u] - 1
      BY <1>0, <1>6, <2>6, Zenon DEF CheckSuspended
    <3>5. Holders(u)' = Holders(u) \ {t} /\ t \in Holders(u)
      BY <2>0, <2>2, <2>6, Zenon
    <3>6. Owing(u)' = Owing(u) \ {t}
      BY <2>1, <2>3, <2>4, <3>5, Zenon DEF Owing
    <3> QED
      BY <2>1, <2>5, <3>2, <3>3, <3>4, <3>6, Zenon
  <2>7. CASE ~(u = s /\ IsSuspended(t))
    <3>1. pending'[u] = pending[u]
      BY <1>0, <1>6, <2>7, Zenon DEF CheckSuspended
    <3>2. Owing(u)' = Owing(u)
      BY <2>1, <2>2, <2>3, <2>7, Zenon DEF Owing
    <3> QED
      BY <1>0, <2>1, <2>5, <3>1, <3>2, Zenon DEF BarrierCountExact, Waiting
  <2> QED
    BY <2>6, <2>7, Zenon
<1>7. CASE (\E t \in Threads : ReleaseToRetry(s, t)) \/ RetakeCountLock(s)
  <2>1. CASE \E t \in Threads : ReleaseToRetry(s, t)
    BY <1>0, <2>1 DEF ReleaseToRetry, SameWait, Waiting
  <2>2. CASE RetakeCountLock(s)
    BY <1>0, <2>2, Zenon DEF RetakeCountLock, SameWait, Waiting
  <2> QED
    BY <1>7, <2>1, <2>2, Zenon
<1>8. CASE AwaitSuspension(s)
  <2>1. pending[s] = 0 /\ pending[s] = Cardinality(Owing(s)) /\ Owing(s) \in SUBSET Threads
    BY <1>0, <1>8, Zenon DEF AwaitSuspension, BarrierCountExact, Owing, Holders, Passers,
       Unvisited
  <2>2. Owing(s) = {}
    BY Zenon, <2>1, Size
  <2>3. \A u \in Threads : Holders(u)' = Holders(u) /\ Passers(u)' = Passers(u)
           /\ Unvisited(u)' = Unvisited(u)
    BY <1>0, <1>8, Zenon DEF AwaitSuspension, Holders, Passers, Unvisited
  <2>4. \A u \in Threads : Owing(u)' = Owing(u)
    BY <2>3, Zenon DEF Owing
  <2>5. /\ pending' = pending /\ pc'[s] \notin Waiting
        /\ \A u \in Threads \ {s} : pc'[u] = pc[u]
    BY <1>0, <1>8, Zenon DEF AwaitSuspension, Waiting
  <2> QED
    BY <1>0, <2>2, <2>3, <2>4, <2>5 DEF BarrierCountExact, Waiting
<1>9. CASE AcquireMutatorLock(s) \/ ReleaseMutatorLock(s)
  BY <1>0, <1>9 DEF AcquireMutatorLock, ReleaseMutatorLock, SameWait, Waiting
<1>10. CASE ResumeAll(s)
  BY <1>0, <1>10, Zenon DEF ResumeAll, BroadcastResume, SameWait, Waiting
<1>11. ASSUME NEW t \in Threads, SuspendThreadByThreadId(s, t) PROVE BarrierCountExact'
  BY <1>0, <1>11, Zenon DEF SuspendThreadByThreadId, SameWait, Waiting
<1>12. CASE NoSuchThread(s)
  BY <1>0, <1>12, Zenon DEF NoSuchThread, GiveUp, SameWait, Waiting
<1>13. CASE YieldToSuspender(s)
  BY <1>0, <1>13, Zenon DEF YieldToSuspender, SameWait, Waiting
<1>14. CASE RequestSuspension(s)
  <2>1. barriers' = barriers
    BY <1>0, <1>14, Zenon DEF RequestSuspension, Raise
  <2> QED
    BY <1>0, <1>14, <2>1, Zenon DEF RequestSuspension, SameWait, Waiting
<1>15. CASE RetryRequest(s) \/ Recheck(s)
  <2>1. CASE RetryRequest(s)
    BY <1>0, <2>1, Zenon DEF RetryRequest, SameWait, Waiting
  <2>2. CASE Recheck(s)
    BY <1>0, <2>2, Zenon DEF Recheck, SameWait, Waiting
  <2> QED
    BY <1>15, <2>1, <2>2, Zenon
<1>16. CASE TimeOut(s)
  BY <1>0, <1>16, Zenon DEF TimeOut, GiveUp, SameWait, Waiting
<1>17. CASE Resume(s)
  BY <1>0, <1>17, Zenon DEF Resume, GiveUp, SameWait, Waiting
<1>18. CASE NotifyResumed(s)
  BY <1>0, <1>18, Zenon DEF NotifyResumed, BroadcastResume, SameWait, Waiting
<1>19. CASE Register(s) \/ Unregister(s)
  BY <1>0, <1>19 DEF Register, Unregister, SameWait, Waiting
<1> QED
  BY <1>1, <1>2, <1>3, <1>4, <1>5, <1>6, <1>7, <1>8, <1>9, <1>10, <1>11, <1>12, <1>13,
     <1>14,
     <1>15, <1>16, <1>17, <1>18, <1>19, Zenon DEF Step

\* Every step keeps the threads that have been stopped suspended.
LEMMA StoppedStep ==
  ASSUME IInv, NEW s \in Threads, Step(s)
  PROVE  StoppedInv'
<1>0. TypeOK /\ PlaceInv /\ CallInv /\ StoppedInv
  BY Zenon DEF IInv
<1> USE DEF TypeOK, StoppedInv, InSuspendAll
<1>1. CASE Moves(s)
  <2>1. CASE TransitionToRunnable(s)
    <3>1. \A u \in Threads : s \notin raised[u]
      BY Zenon, <2>1 DEF TransitionToRunnable, IInv, CountInv, MatchInv, SuspendersOf
    <3>2. \A u \in Threads : phase[u] = "held" => target[u] # s
      BY <1>0, <3>1 DEF CallInv, Account
    <3> QED
      BY <1>0, <2>1, <3>1, <3>2 DEF TransitionToRunnable, CallInv, Account
  <2>2. CASE TransitionToSuspended(s)
    BY <1>0, <2>2 DEF TransitionToSuspended, CallInv, Account
  <2>3. CASE CheckBarrierFlag(s) \/ Return(s) \/ BackToBarriers(s) \/ BackToWait(s)
    BY <1>0, <2>3 DEF CheckBarrierFlag, Return, BackToBarriers, BackToWait, Resting
  <2>4. CASE WaitForResume(s) \/ RunFlipFunction(s) \/ SpuriousWakeup(s)
    BY <1>0, <2>4 DEF WaitForResume, RunFlipFunction, SpuriousWakeup
  <2> QED
    BY <1>1, <2>1, <2>2, <2>3, <2>4, Zenon DEF Moves
<1>2. CASE ClaimBarriers(s)
  <2>1. state[s] = "Suspended"
    BY <1>0, <1>2, Zenon DEF ClaimBarriers, PlaceInv, Place
  <2> QED
    BY <1>0, <1>2, <2>1 DEF ClaimBarriers, TakeBarriers
<1>3. ASSUME NEW t \in Threads, DropBarrier(s, t) PROVE StoppedInv'
  BY <1>0, <1>3 DEF DropBarrier
<1>4. CASE SuspendAllInternal(s)
  <2>1. raised[s] = {}
    BY <1>0, <1>4, Zenon DEF SuspendAllInternal, CallInv, Account
  <2> QED
    BY <1>0, <1>4, <2>1 DEF SuspendAllInternal
<1>5. ASSUME NEW t \in Threads, InstallBarrier(s, t) PROVE StoppedInv'
  BY <1>0, <1>5 DEF InstallBarrier, Raise, PlaceInv, Place
<1>6. CASE CheckSuspended(s)
  <2>1. phase[s] = "none"
    BY <1>0, <1>6, Zenon DEF CheckSuspended, PlaceInv, Place
  <2>2. \A u \in Threads, t \in Threads : u \in barriers[t]
           => u \in barriers'[t] \/ state[t] = "Suspended"
    BY <1>0, <1>6 DEF CheckSuspended, IsSuspended
  <2> QED
    BY <1>0, <1>6, <2>1, <2>2 DEF CheckSuspended
<1>7. CASE (\E t \in Threads : ReleaseToRetry(s, t)) \/ RetakeCountLock(s)
  <2>1. CASE \E t \in Threads : ReleaseToRetry(s, t)
    BY <1>0, <2>1 DEF ReleaseToRetry
  <2>2. CASE RetakeCountLock(s)
    BY <1>0, <2>2 DEF RetakeCountLock
  <2> QED
    BY <1>7, <2>1, <2>2, Zenon
<1>8. CASE AwaitSuspension(s) \/ AcquireMutatorLock(s) \/ ReleaseMutatorLock(s)
  BY <1>0, <1>8 DEF AwaitSuspension, AcquireMutatorLock, ReleaseMutatorLock
<1>9. CASE ResumeAll(s)
  BY <1>0, <1>9 DEF ResumeAll, BroadcastResume, Lower
<1>10. ASSUME NEW t \in Threads, SuspendThreadByThreadId(s, t) PROVE StoppedInv'
  BY <1>0, <1>10 DEF SuspendThreadByThreadId
<1>11. CASE NoSuchThread(s)
  BY <1>0, <1>11 DEF NoSuchThread, GiveUp
<1>12. CASE YieldToSuspender(s)
  BY <1>0, <1>12 DEF YieldToSuspender
<1>13. CASE RequestSuspension(s)
  BY <1>0, <1>13 DEF RequestSuspension, Raise
<1>14. CASE RetryRequest(s)
  BY <1>0, <1>14 DEF RetryRequest
<1>15. CASE Recheck(s)
  BY <1>0, <1>15 DEF Recheck, IsSuspended
<1>16. CASE TimeOut(s)
  <2>1. CASE phase[s] = "request"
    BY <1>0, <1>16, <2>1 DEF TimeOut, GiveUp
  <2>2. CASE phase[s] = "recheck"
    BY <1>0, <1>16, <2>2 DEF TimeOut, GiveUp, Lower
  <2> QED
    BY Zenon, <1>16, <2>1, <2>2 DEF TimeOut
<1>17. CASE Resume(s)
  BY <1>0, <1>17 DEF Resume, GiveUp, Lower
<1>18. CASE NotifyResumed(s)
  BY <1>0, <1>18, Zenon DEF NotifyResumed, BroadcastResume
<1>19. CASE Register(s)
  <2>1. state[s] = "Suspended"
    BY <1>0, <1>19, Zenon DEF Register, PlaceInv, Place
  <2>2. /\ \A u \in Threads : raised'[u] \subseteq raised[u] \cup {s}
        /\ \A u \in Threads : pc'[u] \in InSuspendAll => pc[u] \in InSuspendAll
        /\ UNCHANGED <<state, barriers, phase, target>>
    BY <1>0, <1>19 DEF Register
  <2>3. StoppedInv
    BY <1>0, Zenon
  <2> QED
    BY <2>1, <2>2, <2>3, Zenon
<1>20. CASE Unregister(s)
  BY <1>0, <1>20, Zenon DEF Unregister
<1> QED
  BY Zenon, <1>1, <1>2, <1>3, <1>4, <1>5, <1>6, <1>7, <1>8, <1>9, <1>10, <1>11, <1>12,
     <1>13, <1>14,
     <1>15, <1>16, <1>17, <1>18, <1>19, <1>20 DEF Step

\* Every step keeps a reason for each sleeper to sleep.
LEMMA ResumeStep ==
  ASSUME IInv, NEW s \in Threads, Step(s)
  PROVE  NoLostResume'
<1>0. TypeOK /\ PlaceInv /\ CallInv /\ NoLostResume
  BY Zenon DEF IInv
<1> USE DEF TypeOK, NoLostResume
<1>1. CASE Moves(s)
  <2>1. Moved(s) /\ Alone(s)
    BY <1>0, <1>1, MovesShape, Zenon
  <2>2. pc'[s] = "sleep" => "Suspend" \in flags[s]
    BY <2>1, Zenon DEF Moved
  <2>3. \A u \in Threads : pc[u] = "notify" => pc'[u] = "notify"
    BY <2>1, Zenon DEF Moved, Alone
  <2> QED
    BY <1>0, <2>1, <2>2, <2>3, Zenon DEF Alone
<1>2. CASE ClaimBarriers(s)
  <2>1. \A t \in Threads : "Suspend" \in flags'[t] <=> "Suspend" \in flags[t]
    BY <1>0, <1>2 DEF ClaimBarriers, TakeBarriers
  <2> QED
    BY <1>0, <1>2, <2>1 DEF ClaimBarriers
<1>3. ASSUME NEW t \in Threads, DropBarrier(s, t) PROVE NoLostResume'
  BY <1>0, <1>3 DEF DropBarrier
<1>4. CASE SuspendAllInternal(s)
  BY <1>0, <1>4 DEF SuspendAllInternal
<1>5. ASSUME NEW t \in Threads, InstallBarrier(s, t) PROVE NoLostResume'
  BY <1>0, <1>5 DEF InstallBarrier, Raise
<1>6. CASE CheckSuspended(s)
  <2>1. \A t \in Threads : "Suspend" \in flags'[t] <=> "Suspend" \in flags[t]
    BY <1>0, <1>6 DEF CheckSuspended, CallInv, Account
  <2> QED
    BY <1>0, <1>6, <2>1 DEF CheckSuspended
<1>7. CASE (\E t \in Threads : ReleaseToRetry(s, t)) \/ RetakeCountLock(s)
  <2>1. CASE \E t \in Threads : ReleaseToRetry(s, t)
    BY <1>0, <2>1 DEF ReleaseToRetry
  <2>2. CASE RetakeCountLock(s)
    BY <1>0, <2>2 DEF RetakeCountLock
  <2> QED
    BY <1>7, <2>1, <2>2, Zenon
<1>8. CASE AwaitSuspension(s) \/ AcquireMutatorLock(s) \/ ReleaseMutatorLock(s)
  BY <1>0, <1>8 DEF AwaitSuspension, AcquireMutatorLock, ReleaseMutatorLock
<1>9. CASE ResumeAll(s)
  BY <1>0, <1>9, Zenon DEF ResumeAll, BroadcastResume
<1>10. ASSUME NEW t \in Threads, SuspendThreadByThreadId(s, t) PROVE NoLostResume'
  BY <1>0, <1>10 DEF SuspendThreadByThreadId
<1>11. CASE NoSuchThread(s)
  BY <1>0, <1>11 DEF NoSuchThread
<1>12. CASE YieldToSuspender(s)
  BY <1>0, <1>12 DEF YieldToSuspender
<1>13. CASE RequestSuspension(s)
  BY <1>0, <1>13 DEF RequestSuspension, Raise
<1>14. CASE RetryRequest(s)
  BY <1>0, <1>14 DEF RetryRequest
<1>15. CASE Recheck(s)
  BY <1>0, <1>15 DEF Recheck
<1>16. CASE TimeOut(s)
  <2>1. CASE phase[s] = "request"
    BY <1>0, <1>16, <2>1 DEF TimeOut
  <2>2. CASE phase[s] = "recheck"
    <3>1. target[s] \in Threads /\ target[s] \in raised[s]
      BY <1>0, <2>2 DEF CallInv, Account
    <3>2. "Suspend" \in flags[target[s]]
      BY <3>1, CountPositive, Zenon DEF IInv
    <3>3. state[target[s]] # "Suspended"
      BY <1>16, <2>2, <3>2, Zenon DEF TimeOut, IsSuspended
    <3>4. pc[target[s]] # "sleep"
      BY <1>0, <3>1, <3>3, Zenon DEF PlaceInv, Place
    <3>5. \A t \in Threads \ {target[s]} : flags'[t] = flags[t]
      BY <1>0, <1>16, <2>2 DEF TimeOut, Lower
    <3>6. pc' = [pc EXCEPT ![s] = "leave"] /\ pc[s] # "notify"
      BY <1>16, Zenon DEF TimeOut
    <3> QED
      BY <1>0, <3>4, <3>5, <3>6
  <2> QED
    BY Zenon, <1>16, <2>1, <2>2 DEF TimeOut
<1>17. CASE Resume(s)
  BY <1>0, <1>17 DEF Resume
<1>18. CASE NotifyResumed(s)
  BY <1>0, <1>18, Zenon DEF NotifyResumed, BroadcastResume
<1>19. CASE Register(s)
  BY <1>0, <1>19 DEF Register
<1>20. CASE Unregister(s)
  BY <1>0, <1>20 DEF Unregister
<1> QED
  BY Zenon, <1>1, <1>2, <1>3, <1>4, <1>5, <1>6, <1>7, <1>8, <1>9, <1>10, <1>11, <1>12,
     <1>13, <1>14,
     <1>15, <1>16, <1>17, <1>18, <1>19, <1>20 DEF Step

\* A step that begins no new suspension closes no cycle.
LEMMA NoNewEdge ==
  ASSUME NoSuspensionCycle,
         \A u \in Threads, v \in Threads : Suspending(u, v)' => Suspending(u, v)
  PROVE  NoSuspensionCycle'
  BY Zenon DEF NoSuspensionCycle

\* Every step keeps the suspensions acyclic: a request is made only by a
\* thread that nobody is suspending, so a cycle through the new edge would
\* leave a cycle without the requester.
LEMMA CycleStep ==
  ASSUME IInv, NEW s \in Threads, Step(s)
  PROVE  NoSuspensionCycle'
<1>0. TypeOK /\ PlaceInv /\ CallInv /\ NoSuspensionCycle
  BY Zenon DEF IInv
<1>1. CASE RequestSuspension(s)
  <2>1. SuspendersOf(s) = {}
    <3>1. CASE pc[s] = "relock"
      BY <3>1, Zenon DEF IInv, RelockInv
    <3>2. CASE pc[s] # "relock"
      <4>1. suspend_count[s] = 0 /\ suspend_count[s] = Cardinality(SuspendersOf(s))
        BY <1>1, <3>2 DEF RequestSuspension, BeingSuspended, IInv, CountInv, MatchInv,
           TypeOK
      <4> QED
        BY Zenon, <4>1, Size DEF SuspendersOf
    <3> QED
      BY <3>1, <3>2, Zenon
  <2>2. \A u \in Threads : ~Suspending(u, s)
    BY <1>0, <2>1 DEF Suspending, CallInv, Account, SuspendersOf
  <2>3. \A u \in Threads \ {s}, v \in Threads : Suspending(u, v)' <=> Suspending(u, v)
    BY <1>0, <1>1, Zenon DEF RequestSuspension, Suspending, TypeOK
  <2>4. ~Suspending(s, s)'
    BY <1>0, <1>1, Zenon DEF RequestSuspension, Suspending, CallInv, Account, PlaceInv,
       Place, TypeOK
  <2>5. SUFFICES ASSUME NEW C \in (SUBSET Threads) \ {{}},
                        \A u \in C : \E v \in C : Suspending(u, v)'
                 PROVE  FALSE
    BY Zenon DEF NoSuspensionCycle
  <2>6. \A u \in C \ {s} : \E v \in C \ {s} : Suspending(u, v)
    BY <2>2, <2>3, <2>5, Zenon
  <2>7. C \ {s} # {}
    <3>1. CASE s \in C
      <4>1. PICK v \in C : Suspending(s, v)'
        BY <2>5, <3>1, Zenon
      <4> QED
        BY <2>4, <4>1
    <3>2. CASE s \notin C
      BY <2>5, <3>2, Zenon
    <3> QED
      BY <3>1, <3>2, Zenon
  <2> QED
    BY Zenon, <1>0, <2>6, <2>7 DEF NoSuspensionCycle
<1>2. ASSUME \A u \in Threads, v \in Threads : Suspending(u, v)' => Suspending(u, v)
      PROVE  NoSuspensionCycle'
  BY <1>0, <1>2, NoNewEdge, Zenon
<1> DEFINE Fewer == \A u \in Threads, v \in Threads : Suspending(u, v)' => Suspending(u, v)
<1> USE DEF Suspending, TypeOK
<1>3. CASE Moves(s)
  <2>1. Fewer
    BY <1>0, <1>3, Zenon DEF Moves, TransitionToSuspended, CheckBarrierFlag, Return,
       TransitionToRunnable,
       BackToBarriers, BackToWait, WaitForResume, RunFlipFunction, SpuriousWakeup
  <2> QED
    BY <1>2, <2>1, Zenon
<1>4. CASE \/ ClaimBarriers(s)
           \/ (\E t \in Threads : DropBarrier(s, t) \/ ReleaseToRetry(s, t))
           \/ SuspendAllInternal(s) \/ RetakeCountLock(s) \/ AwaitSuspension(s)
           \/ AcquireMutatorLock(s) \/ ReleaseMutatorLock(s) \/ ResumeAll(s)
           \/ YieldToSuspender(s) \/ RetryRequest(s) \/ NotifyResumed(s) \/ Register(s) \/ Unregister(s)
  <2>1. UNCHANGED <<phase, target>>
    BY Zenon, <1>4 DEF ClaimBarriers, DropBarrier, ReleaseToRetry, SuspendAllInternal,
       RetakeCountLock,
       AwaitSuspension, AcquireMutatorLock, ReleaseMutatorLock, ResumeAll, YieldToSuspender,
       RetryRequest, NotifyResumed, Register, Unregister
  <2>2. Fewer
    BY <2>1, Zenon
  <2> QED
    BY <1>2, <2>2, Zenon
<1>5. ASSUME NEW t \in Threads, InstallBarrier(s, t) PROVE NoSuspensionCycle'
  <2>1. Fewer
    BY <1>0, <1>5 DEF InstallBarrier, PlaceInv, Place, InSuspendAll
  <2> QED
    BY <1>2, <2>1, Zenon
<1>6. CASE CheckSuspended(s)
  <2>1. Fewer
    BY <1>0, <1>6 DEF CheckSuspended, PlaceInv, Place, InSuspendAll
  <2> QED
    BY <1>2, <2>1, Zenon
<1>7. ASSUME NEW t \in Threads, SuspendThreadByThreadId(s, t) PROVE NoSuspensionCycle'
  <2>1. Fewer
    BY <1>0, <1>7, Zenon DEF SuspendThreadByThreadId
  <2> QED
    BY <1>2, <2>1, Zenon
<1>8. CASE Recheck(s)
  <2>1. Fewer
    BY <1>0, <1>8, Zenon DEF Recheck
  <2> QED
    BY <1>2, <2>1, Zenon
<1>9. CASE NoSuchThread(s) \/ TimeOut(s) \/ Resume(s)
  <2>1. GiveUp(s)
    BY Zenon, <1>9 DEF NoSuchThread, TimeOut, Resume
  <2>2. Fewer
    BY <1>0, <2>1, Zenon DEF GiveUp
  <2> QED
    BY <1>2, <2>2, Zenon
<1> QED
  BY <1>1, <1>3, <1>4, <1>5, <1>6, <1>7, <1>8, <1>9, Zenon DEF Step

\* The inductive invariant holds in every state of every behaviour.
THEOREM Invariance == Spec => []IInv
<1>1. Init => IInv
  <2> SUFFICES ASSUME Init PROVE IInv
    BY Zenon
  <2>1. Cardinality({}) = 0
    BY FS_EmptySet, Zenon
  <2>2. TypeOK /\ PlaceInv /\ LockInv
    BY ThreadsAssumption, Zenon DEF Init, TypeOK, PlaceInv, Place, LockInv, Label, Flag,
       InSuspendAll
  <2>3. CallInv /\ StoppedInv /\ NoLostResume
    BY ThreadsAssumption, Zenon DEF Init, CallInv, Account, StoppedInv, NoLostResume,
       InSuspendAll, Unvisited
  <2>4. \A t \in Threads : SuspendersOf(t) = {}
    BY Zenon DEF Init, SuspendersOf
  <2>5. {s \in Threads : pc[s] \in InSuspendAll} = {}
    BY Zenon DEF Init, InSuspendAll
  <2>6. CountInv /\ RelockInv
    BY Zenon, <2>1, <2>4, <2>5 DEF Init, CountInv, MatchInv, RelockInv
  <2>7. \A s \in Threads : Holders(s) = {} /\ Passers(s) = {} /\ Unvisited(s) = {}
    BY Zenon DEF Init, Holders, Passers, Unvisited
  <2>8. \A s \in Threads : pc[s] \notin {"modify", "check", "retry", "await"}
    BY Zenon DEF Init
  <2>9. BarrierCountExact
    BY <2>7, <2>8, Zenon DEF BarrierCountExact, Owing
  <2>10. NoSuspensionCycle
    BY Zenon DEF Init, NoSuspensionCycle, Suspending
  <2> QED
    BY <2>2, <2>3, <2>6, <2>9, <2>10, Zenon DEF IInv
<1>2. IInv /\ [Next]_vars => IInv'
  <2> SUFFICES ASSUME IInv, [Next]_vars PROVE IInv'
    BY Zenon
  <2>1. CASE Next
    <3>1. PICK s \in Threads : Step(s)
      BY <2>1, NextIsStep, Zenon
    <3>2. TypeOK' /\ PlaceInv' /\ LockInv' /\ CallInv' /\ CountInv'
      BY <3>1, TypeStep, PlaceStep, LockStep, CallStep, CountStep, Zenon
    <3>3. BarrierCountExact' /\ StoppedInv' /\ RelockInv' /\ NoLostResume'
             /\ NoSuspensionCycle'
      BY <3>1, BarrierStep, StoppedStep, RelockStep, ResumeStep, CycleStep, Zenon
    <3> QED
      BY <3>2, <3>3, Zenon DEF IInv
  <2>2. CASE UNCHANGED vars
    <3>1. TypeOK' /\ PlaceInv' /\ LockInv' /\ CallInv'
      <4>1. TypeOK'
        BY <2>2, Zenon DEF vars, IInv, TypeOK
      <4>2. PlaceInv'
        BY <2>2, PlaceKept, Zenon DEF vars, IInv, PlaceInv
      <4>3. LockInv'
        BY <2>2, Zenon DEF vars, IInv, LockInv
      <4>4. CallInv'
        BY <2>2, AccountKept, Zenon DEF vars, IInv, CallInv
      <4> QED
        BY <4>1, <4>2, <4>3, <4>4, Zenon
    <3>2. CountInv' /\ RelockInv'
      BY Zenon, <2>2 DEF vars, IInv, CountInv, MatchInv, RelockInv, SuspendersOf
    <3>3. BarrierCountExact'
      <4>1. SameWait
        BY <2>2, Zenon DEF vars, SameWait
      <4> QED
        BY <4>1, SameWaitStep, Zenon DEF IInv
    <3>4. StoppedInv' /\ NoLostResume'
      BY <2>2, Zenon DEF vars, IInv, StoppedInv, NoLostResume
    <3>5. NoSuspensionCycle'
      BY <2>2, NoNewEdge, Zenon DEF vars, IInv, Suspending
    <3> QED
      BY <3>1, <3>2, <3>3, <3>4, <3>5, Zenon DEF IInv
  <2> QED
    BY <2>1, <2>2, Zenon
<1> QED
  BY <1>1, <1>2, PTL DEF Spec

\* While a thread holds mutator_lock_ exclusively, after SuspendAll, every
\* other attached thread is suspended.
THEOREM SuspendAllExcludes == Spec => []ExclusiveMeansSuspended
<1>1. IInv => ExclusiveMeansSuspended
  <2> SUFFICES ASSUME IInv, NEW s \in Threads, pc[s] = "exclusive", NEW t \in list \ {s}
               PROVE  IsSuspended(t)
    BY Zenon DEF ExclusiveMeansSuspended
  <2>1. t \in Threads /\ t \in raised[s]
    BY DEF IInv, TypeOK, CallInv, Account, InSuspendAll, Unvisited
  <2>2. "Suspend" \in flags[t]
    BY <2>1, CountPositive, Zenon DEF IInv
  <2>3. Owing(s) = {}
    BY Zenon DEF IInv, BarrierCountExact
  <2>4. s \notin barriers[t]
    BY <2>1, <2>3, Zenon DEF Owing, Holders
  <2>5. state[t] = "Suspended"
    BY <2>1, <2>4, Zenon DEF IInv, StoppedInv, InSuspendAll
  <2> QED
    BY <2>2, <2>5, Zenon DEF IsSuspended
<1> QED
  BY <1>1, Invariance, PTL

\* The counter a SuspendAll waits on is exactly the number of threads that
\* will still decrement it, and nobody keeps a pointer to it afterwards.
THEOREM BarriersAreExact == Spec => []BarrierCountExact
<1>1. IInv => BarrierCountExact
  BY Zenon DEF IInv
<1> QED
  BY <1>1, Invariance, PTL

\* Every suspend count is the number of suspenders, and ResumeAll lowers the
\* counts its SuspendAll has raised.
THEOREM CountsAreBalanced == Spec => []CountsBalanced
<1>1. IInv => CountsBalanced
  BY DEF IInv, CountsBalanced, CountInv, MatchInv, CallInv, Account, InSuspendAll,
     Unvisited, TypeOK
<1> QED
  BY <1>1, Invariance, PTL

\* A thread that SuspendThreadByThreadId has returned stays suspended.
THEOREM SuspendedThreadIsKept == Spec => []RequestedThreadIsKept
<1>1. IInv => RequestedThreadIsKept
  <2> SUFFICES ASSUME IInv, NEW s \in Threads, phase[s] \in {"recheck", "held"}
               PROVE  /\ target[s] \in list /\ suspend_count[target[s]] > 0
                      /\ phase[s] = "held" => IsSuspended(target[s])
    BY Zenon DEF RequestedThreadIsKept
  <2>1. target[s] \in raised[s] /\ target[s] \in list /\ target[s] \in Threads
    BY Zenon DEF IInv, CallInv, Account
  <2>2. suspend_count[target[s]] - 1 \in Nat /\ "Suspend" \in flags[target[s]]
    BY <2>1, CountPositive, Zenon DEF IInv
  <2>3. suspend_count[target[s]] \in Nat
    BY <2>1, Zenon DEF IInv, TypeOK
  <2> QED
    BY <2>1, <2>2, <2>3 DEF IInv, StoppedInv, IsSuspended
<1> QED
  BY <1>1, Invariance, PTL

\* A sleeper on resume_cond_ is still to be suspended, or about to be woken.
THEOREM ResumesAreNotLost == Spec => []NoLostResume
<1>1. IInv => NoLostResume
  BY Zenon DEF IInv
<1> QED
  BY <1>1, Invariance, PTL

\* No cycle of threads suspend one another through SuspendThreadByThreadId.
THEOREM SuspensionsAreAcyclic == Spec => []NoSuspensionCycle
<1>1. IInv => NoSuspensionCycle
  BY Zenon DEF IInv
<1> QED
  BY <1>1, Invariance, PTL
=============================================================================
