----------------------- MODULE ThreadSuspensionBasics -----------------------
(*****************************************************************************)
(* Lemmas about ThreadSuspension.tla: every step keeps the types, the places *)
(* of the threads, the lock holders and the accounts of the calls.          *)
(*****************************************************************************)
EXTENDS ThreadSuspension, FiniteSetTheorems, TLAPS

\* Adding a thread to, or taking it from, a set of threads changes its size by one.
LEMMA Size ==
  ASSUME NEW S \in SUBSET Threads, NEW t \in Threads
  PROVE  /\ Cardinality(S) \in Nat
         /\ Cardinality(S) = 0 <=> S = {}
         /\ t \notin S => Cardinality(S \cup {t}) = Cardinality(S) + 1
         /\ t \in S => Cardinality(S \ {t}) = Cardinality(S) - 1
<1>1. IsFiniteSet(S)
  BY FS_Subset, ThreadsAssumption, Zenon
<1>2. Cardinality(S) \in Nat
  BY <1>1, FS_CardinalityType, Zenon
<1>3. Cardinality(S) = 0 <=> S = {}
  BY <1>1, FS_EmptySet, Zenon
<1>4. t \notin S => Cardinality(S \cup {t}) = Cardinality(S) + 1
  BY <1>1, FS_AddElement, Zenon
<1>5. t \in S => Cardinality(S \ {t}) = Cardinality(S) - 1
  BY <1>1, FS_RemoveElement, Zenon
<1> QED
  BY <1>2, <1>3, <1>4, <1>5, Zenon

\* The steps of t that change no count, barrier, list or call.
Moves(t) ==
  \/ TransitionToSuspended(t) \/ CheckBarrierFlag(t) \/ Return(t) \/ TransitionToRunnable(t)
  \/ BackToBarriers(t) \/ BackToWait(t) \/ WaitForResume(t) \/ RunFlipFunction(t)
  \/ SpuriousWakeup(t)

\* Every step is one of these, of some thread.
Step(s) ==
  \/ Moves(s)
  \/ ClaimBarriers(s)
  \/ \E t \in Threads : DropBarrier(s, t)
  \/ SuspendAllInternal(s)
  \/ \E t \in Threads : InstallBarrier(s, t)
  \/ CheckSuspended(s)
  \/ \E t \in Threads : ReleaseToRetry(s, t)
  \/ RetakeCountLock(s)
  \/ AwaitSuspension(s)
  \/ AcquireMutatorLock(s)
  \/ ReleaseMutatorLock(s)
  \/ ResumeAll(s)
  \/ \E t \in Threads : SuspendThreadByThreadId(s, t)
  \/ NoSuchThread(s)
  \/ YieldToSuspender(s)
  \/ RequestSuspension(s)
  \/ RetryRequest(s)
  \/ Recheck(s)
  \/ TimeOut(s)
  \/ Resume(s)
  \/ NotifyResumed(s)
  \/ Register(s)
  \/ Unregister(s)

\* A step of Next is one of a thread, or none.
LEMMA NextIsStep ==
  ASSUME Next
  PROVE  \E s \in Threads : Step(s)
  BY ThreadsAssumption, Zenon DEF Next, Transition, Stop, Iterate, Step, Moves

\* A thread that still owes a decrement keeps the counter positive.
LEMMA PendingPositive ==
  ASSUME TypeOK, BarrierCountExact, NEW s \in Threads, Owing(s) # {}
  PROVE  /\ pc[s] \in {"modify", "check", "retry", "await"}
         /\ pending[s] = Cardinality(Owing(s))
         /\ pending[s] - 1 \in Nat
<1>1. Owing(s) \in SUBSET Threads
  BY Zenon DEF Owing, Holders, Passers, Unvisited, TypeOK
<1>2. Cardinality(Owing(s)) \in Nat /\ Cardinality(Owing(s)) # 0
  BY Zenon, <1>1, Size
<1>3. /\ pc[s] \in {"modify", "check", "retry", "await"}
      /\ pending[s] = Cardinality(Owing(s))
  BY Zenon DEF BarrierCountExact
<1> QED
  BY <1>2, <1>3

\* A thread that some other thread has stopped has a positive suspend count.
LEMMA CountPositive ==
  ASSUME TypeOK, CountInv, NEW s \in Threads, NEW t \in Threads, t \in raised[s]
  PROVE  suspend_count[t] - 1 \in Nat /\ "Suspend" \in flags[t]
<1>1. SuspendersOf(t) \in SUBSET Threads /\ SuspendersOf(t) # {}
  BY Zenon DEF SuspendersOf
<1>2. Cardinality(SuspendersOf(t)) \in Nat /\ Cardinality(SuspendersOf(t)) # 0
  BY Zenon, <1>1, Size
<1>3. suspend_count[t] = Cardinality(SuspendersOf(t)) /\ "Suspend" \in flags[t]
  BY <1>1, Zenon DEF CountInv, MatchInv
<1> QED
  BY <1>2, <1>3

\* A SuspendAll in progress is counted in suspend_all_count_.
LEMMA SuspendAllPositive ==
  ASSUME TypeOK, CountInv, NEW s \in Threads, pc[s] \in InSuspendAll
  PROVE  suspend_all_count - 1 \in Nat
<1> DEFINE S == {t \in Threads : pc[t] \in InSuspendAll}
<1>1. S \in SUBSET Threads /\ S # {}
  BY Zenon
<1>2. Cardinality(S) \in Nat /\ Cardinality(S) # 0
  BY Zenon, <1>1, Size
<1> QED
  BY <1>2 DEF CountInv

USE DEF word, threadList, locks, passage, call

\* Where a thread may go without changing a count, a barrier, the list or a call:
\* out of and into Runnable, and between the steps of a transition.
Moved(s) ==
  \/ pc[s] \in {"run", "leave"} /\ pc'[s] = "pass" /\ state'[s] = "Suspended"
  \/ pc[s] = "back" /\ flags[s] = {} /\ pc'[s] = "flip" /\ state'[s] = "Runnable"
  \/ /\ pc[s] = "flip" /\ state'[s] = state[s]
     /\ pc'[s] = IF phase[s] \in {"request", "recheck"} THEN "locked" ELSE "run"
  \/ /\ pc[s] \in {"pass", "susp", "back", "wait", "wake", "sleep"} /\ state'[s] = state[s]
     /\ pc'[s] \in {"claim", "susp", "back", "wait", "sleep", "wake"}
     /\ pc'[s] = "sleep" => "Suspend" \in flags[s]

\* What such a step leaves alone: the others' state words and places, and the rest.
Alone(s) ==
  /\ \A u \in Threads : u # s => pc'[u] = pc[u] /\ state'[u] = state[u]
  /\ UNCHANGED <<flags, suspend_count, barriers, list, suspend_all_count, count_lock,
                 list_lock, mutator_lock, passing, todo, target, phase, pending, raised>>

\* Every such step is of this kind and keeps the types.
LEMMA MovesShape ==
  ASSUME TypeOK, NEW s \in Threads, Moves(s)
  PROVE  Moved(s) /\ Alone(s) /\ TypeOK'
<1>0. /\ pc \in [Threads -> Label] /\ state \in [Threads -> {"Runnable", "Suspended"}]
      /\ ret \in [Threads -> {"pass", "back"}] /\ flip_function \subseteq Threads
  BY Zenon DEF TypeOK
<1>1. Alone(s)
  BY <1>0, Zenon DEF Alone, Moves, TransitionToSuspended, CheckBarrierFlag, Return,
       TransitionToRunnable, BackToBarriers, BackToWait, WaitForResume, RunFlipFunction,
       SpuriousWakeup
<1>2. Moved(s)
  <2>1. CASE TransitionToSuspended(s)
    BY <1>0, <2>1, Zenon DEF Moved, TransitionToSuspended
  <2>2. CASE CheckBarrierFlag(s)
    BY <1>0, <2>2, Zenon DEF Moved, CheckBarrierFlag, Resting
  <2>3. CASE Return(s)
    BY <1>0, <2>3, Zenon DEF Moved, Return
  <2>4. CASE TransitionToRunnable(s)
    BY <1>0, <2>4, Zenon DEF Moved, TransitionToRunnable
  <2>5. CASE BackToBarriers(s)
    BY <1>0, <2>5, Zenon DEF Moved, BackToBarriers
  <2>6. CASE BackToWait(s)
    BY <1>0, <2>6, Zenon DEF Moved, BackToWait
  <2>7. CASE WaitForResume(s)
    BY <1>0, <2>7, Zenon DEF Moved, WaitForResume
  <2>8. CASE RunFlipFunction(s)
    BY <1>0, <2>8, Zenon DEF Moved, RunFlipFunction
  <2>9. CASE SpuriousWakeup(s)
    BY <1>0, <2>9, Zenon DEF Moved, SpuriousWakeup
  <2> QED
    BY <2>1, <2>2, <2>3, <2>4, <2>5, <2>6, <2>7, <2>8, <2>9, Zenon DEF Moves
<1>3. state' \in [Threads -> {"Runnable", "Suspended"}]
  BY <1>0, Zenon DEF Moves, TransitionToSuspended, CheckBarrierFlag, Return,
       TransitionToRunnable, BackToBarriers, BackToWait, WaitForResume, RunFlipFunction,
       SpuriousWakeup
<1>4. ret' \in [Threads -> {"pass", "back"}] /\ flip_function' \subseteq Threads
  BY <1>0, Zenon DEF Moves, TransitionToSuspended, CheckBarrierFlag, Return,
       TransitionToRunnable, BackToBarriers, BackToWait, WaitForResume, RunFlipFunction,
       SpuriousWakeup
<1>5. pc' \in [Threads -> Label]
  <2>1. pc'[s] \in Label
    BY <1>2, Zenon DEF Moved, Label
  <2>2. pc' = [pc EXCEPT ![s] = pc'[s]]
    BY <1>0, Zenon DEF Moves, TransitionToSuspended, CheckBarrierFlag, Return,
         TransitionToRunnable, BackToBarriers, BackToWait, WaitForResume, RunFlipFunction,
         SpuriousWakeup
  <2> QED
    BY <1>0, <2>1, <2>2, Zenon
<1> QED
  BY <1>1, <1>2, <1>3, <1>4, <1>5, Zenon DEF Alone, TypeOK

\* A thread keeps its place, and a call its account, if nothing they rest on changes.
LEMMA PlaceKept ==
  ASSUME NEW u, Place(u), pc'[u] = pc[u], state'[u] = state[u], phase'[u] = phase[u],
         passing'[u] = passing[u], u \in list' <=> u \in list
  PROVE  Place(u)'
  BY Zenon DEF Place

\* What a call has raised and still has to visit is as before when another thread moves.
LEMMA AccountKept ==
  ASSUME NEW u, Account(u), pc'[u] = pc[u], raised'[u] = raised[u], todo'[u] = todo[u],
         target'[u] = target[u], phase'[u] = phase[u], UNCHANGED list,
         pc[u] = "check" /\ u \in barriers[target[u]] => u \in barriers'[target[u]]
  PROVE  Account(u)'
<1>1. Unvisited(u)' = Unvisited(u)
  BY Zenon DEF Unvisited
<1> QED
  BY <1>1, Zenon DEF Account

\* Every step keeps the types, and the counters natural numbers.
LEMMA TypeStep ==
  ASSUME IInv, NEW s \in Threads, Step(s)
  PROVE  TypeOK'
<1> USE DEF IInv
<1>1. CASE Moves(s)
  BY <1>1, MovesShape, Zenon
<1>2. CASE ClaimBarriers(s)
  <2>1. barriers' \in [Threads -> SUBSET Threads]
           /\ passing' \in [Threads -> SUBSET Threads]
    BY <1>2 DEF ClaimBarriers, TakeBarriers, TypeOK
  <2>2. flags' \in [Threads -> SUBSET Flag]
    BY <1>2 DEF ClaimBarriers, TakeBarriers, TypeOK
  <2>3. pc' \in [Threads -> Label]
    BY <1>2, Zenon DEF ClaimBarriers, TypeOK, Label
  <2> QED
    BY <1>2, <2>1, <2>2, <2>3, Zenon DEF ClaimBarriers, TypeOK
<1>3. ASSUME NEW t \in Threads, DropBarrier(s, t) PROVE TypeOK'
  <2>1. Owing(t) # {}
    BY <1>3, Zenon DEF DropBarrier, Owing, Passers
  <2>2. pending[t] - 1 \in Nat
    BY <2>1, PendingPositive, Zenon
  <2> QED
    BY <1>3, <2>2, Zenon DEF DropBarrier, TypeOK, Label
<1>4. CASE SuspendAllInternal(s)
  <2>1. Cardinality(list \ {s}) \in Nat
    BY Zenon, Size DEF TypeOK
  <2> QED
    BY <1>4, <2>1 DEF SuspendAllInternal, TypeOK, Label
<1>5. ASSUME NEW t \in Threads, InstallBarrier(s, t) PROVE TypeOK'
  BY <1>5 DEF InstallBarrier, Raise, TypeOK, Label, Flag
<1>6. CASE CheckSuspended(s)
  <2>1. target[s] \in Threads /\ Owing(s) # {}
    BY <1>6 DEF CheckSuspended, CallInv, Account, Owing, Holders, TypeOK
  <2>2. pending[s] - 1 \in Nat
    BY <2>1, PendingPositive, Zenon
  <2> QED
    <3>1. barriers' \in [Threads -> SUBSET Threads] /\ todo' \in [Threads -> SUBSET Threads]
      BY <1>6, <2>1 DEF CheckSuspended, TypeOK
    <3>2. flags' \in [Threads -> SUBSET Flag]
      BY <1>6, <2>1 DEF CheckSuspended, TypeOK
    <3>3. pending' \in [Threads -> Nat] /\ target' \in [Threads -> Threads \cup {NoThread}]
      BY <1>6, <2>2 DEF CheckSuspended, TypeOK
    <3>4. /\ pc' \in [Threads -> Label]
          /\ {count_lock', list_lock', mutator_lock'} \subseteq Threads \cup {NoThread}
      BY <1>6 DEF CheckSuspended, TypeOK, Label
    <3> QED
      BY <1>6, <3>1, <3>2, <3>3, <3>4, Zenon DEF CheckSuspended, TypeOK
<1>7. ASSUME NEW t \in Threads, ReleaseToRetry(s, t) PROVE TypeOK'
  BY <1>7 DEF ReleaseToRetry, TypeOK, Label
<1>8. CASE RetakeCountLock(s) \/ AwaitSuspension(s) \/ AcquireMutatorLock(s)
           \/ ReleaseMutatorLock(s)
  BY <1>8 DEF RetakeCountLock, AwaitSuspension, AcquireMutatorLock, ReleaseMutatorLock,
     TypeOK, Label
<1>9. CASE ResumeAll(s)
  <2>1. suspend_all_count - 1 \in Nat
    BY <1>9, SuspendAllPositive, Zenon DEF ResumeAll, InSuspendAll
  <2>2. raised[s] = list \ {s}
    BY <1>9, Zenon DEF ResumeAll, CallInv, Account, InSuspendAll, Unvisited
  <2>3. \A t \in list \ {s} : t \in Threads /\ suspend_count[t] - 1 \in Nat
    BY <2>2, CountPositive, Zenon DEF TypeOK
  <2> QED
    BY <1>9, <2>1, <2>3 DEF ResumeAll, Lower, BroadcastResume, TypeOK, Label, Flag
<1>10. ASSUME NEW t \in Threads, SuspendThreadByThreadId(s, t) PROVE TypeOK'
  BY <1>10, Zenon DEF SuspendThreadByThreadId, TypeOK, Label
<1>11. CASE NoSuchThread(s) \/ YieldToSuspender(s) \/ RetryRequest(s) \/ Recheck(s)
  <2>1. CASE NoSuchThread(s)
    BY <2>1, Zenon DEF NoSuchThread, GiveUp, TypeOK, Label
  <2>2. CASE YieldToSuspender(s)
    BY <2>2, Zenon DEF YieldToSuspender, TypeOK, Label
  <2>3. CASE RetryRequest(s)
    BY <2>3 DEF RetryRequest, TypeOK, Label
  <2>4. CASE Recheck(s)
    BY <2>4, Zenon DEF Recheck, TypeOK, Label
  <2> QED
    BY <1>11, <2>1, <2>2, <2>3, <2>4, Zenon
<1>12. CASE RequestSuspension(s)
  BY <1>12 DEF RequestSuspension, Raise, TypeOK, Label, Flag
<1>13. CASE TimeOut(s) \/ Resume(s)
  <2>1. phase[s] \in {"recheck", "held"} => suspend_count[target[s]] - 1 \in Nat
    BY CountPositive DEF CallInv, Account
  <2>2. CASE TimeOut(s) /\ phase[s] = "request"
    BY <2>2, Zenon DEF TimeOut, GiveUp, TypeOK, Label
  <2>3. CASE TimeOut(s) /\ phase[s] = "recheck"
    <3>1. suspend_count' \in [Threads -> Nat]
      BY <2>1, <2>3 DEF TimeOut, Lower, TypeOK
    <3>2. flags' \in [Threads -> SUBSET Flag] /\ raised' \in [Threads -> SUBSET Threads]
      BY <2>3 DEF TimeOut, Lower, TypeOK
    <3>3. /\ pc' \in [Threads -> Label] /\ target' \in [Threads -> Threads \cup {NoThread}]
          /\ phase' \in [Threads -> {"none", "request", "recheck", "held"}]
      BY <2>3, Zenon DEF TimeOut, GiveUp, TypeOK, Label
    <3> QED
      BY <2>3, <3>1, <3>2, <3>3, Zenon DEF TimeOut, TypeOK
  <2>4. CASE Resume(s)
    <3>1. suspend_count' \in [Threads -> Nat]
      BY <2>1, <2>4 DEF Resume, Lower, TypeOK
    <3>2. flags' \in [Threads -> SUBSET Flag] /\ raised' \in [Threads -> SUBSET Threads]
      BY <2>4 DEF Resume, Lower, TypeOK
    <3>3. /\ pc' \in [Threads -> Label] /\ target' \in [Threads -> Threads \cup {NoThread}]
          /\ phase' \in [Threads -> {"none", "request", "recheck", "held"}]
      BY <2>4, Zenon DEF Resume, GiveUp, TypeOK, Label
    <3> QED
      BY <2>4, <3>1, <3>2, <3>3, Zenon DEF Resume, TypeOK
  <2> QED
    BY Zenon, <1>13, <2>2, <2>3, <2>4 DEF TimeOut
<1>14. CASE NotifyResumed(s)
  BY <1>14, Zenon DEF NotifyResumed, BroadcastResume, TypeOK, Label
<1>15. CASE Register(s) \/ Unregister(s)
  BY <1>15 DEF Register, Unregister, TypeOK, Label, Flag
<1> QED
  BY <1>1, <1>2, <1>3, <1>4, <1>5, <1>6, <1>7, <1>8, <1>9, <1>10, <1>11, <1>12, <1>13,
     <1>14, <1>15, Zenon
  DEF Step

\* A thread's place keeps determining its state and the phase of its call.
LEMMA PlaceStep ==
  ASSUME IInv, NEW s \in Threads, Step(s)
  PROVE  PlaceInv'
<1>1. CASE Moves(s)
  <2>1. Moved(s) /\ Alone(s)
    BY <1>1, MovesShape, Zenon DEF IInv
  <2>2. \A u \in Threads : u # s => Place(u)'
    BY <2>1, PlaceKept, Zenon DEF Alone, IInv, PlaceInv
  <2>3. Place(s)'
    BY <2>1, Zenon DEF Moved, Alone, IInv, TypeOK, PlaceInv, Place, InSuspendAll
  <2> QED
    BY <2>2, <2>3, Zenon DEF PlaceInv
<1>2. CASE ClaimBarriers(s)
  BY <1>2 DEF ClaimBarriers, TakeBarriers, IInv, TypeOK, PlaceInv, Place, InSuspendAll
<1>3. ASSUME NEW t \in Threads, DropBarrier(s, t) PROVE PlaceInv'
  BY <1>3 DEF DropBarrier, IInv, TypeOK, PlaceInv, Place, InSuspendAll
<1>4. CASE SuspendAllInternal(s)
  BY <1>4 DEF SuspendAllInternal, IInv, TypeOK, PlaceInv, Place, InSuspendAll
<1>5. ASSUME NEW t \in Threads, InstallBarrier(s, t) PROVE PlaceInv'
  BY <1>5 DEF InstallBarrier, IInv, TypeOK, PlaceInv, Place, InSuspendAll
<1>6. CASE CheckSuspended(s)
  BY <1>6 DEF CheckSuspended, IInv, TypeOK, PlaceInv, Place, InSuspendAll
<1>7. ASSUME NEW t \in Threads, ReleaseToRetry(s, t) PROVE PlaceInv'
  BY <1>7 DEF ReleaseToRetry, IInv, TypeOK, PlaceInv, Place, InSuspendAll
<1>8. CASE RetakeCountLock(s) \/ AwaitSuspension(s) \/ AcquireMutatorLock(s)
           \/ ReleaseMutatorLock(s)
  BY <1>8 DEF RetakeCountLock, AwaitSuspension, AcquireMutatorLock, ReleaseMutatorLock,
     IInv, TypeOK, PlaceInv, Place, InSuspendAll
<1>9. CASE ResumeAll(s)
  BY <1>9 DEF ResumeAll, BroadcastResume, IInv, TypeOK, PlaceInv, Place, InSuspendAll
<1>10. ASSUME NEW t \in Threads, SuspendThreadByThreadId(s, t) PROVE PlaceInv'
  BY <1>10 DEF SuspendThreadByThreadId, IInv, TypeOK, PlaceInv, Place, InSuspendAll
<1>11. CASE NoSuchThread(s)
  BY <1>11 DEF NoSuchThread, GiveUp, IInv, TypeOK, PlaceInv, Place, InSuspendAll
<1>12. CASE YieldToSuspender(s)
  BY <1>12 DEF YieldToSuspender, IInv, TypeOK, PlaceInv, Place, InSuspendAll
<1>13. CASE RequestSuspension(s)
  BY <1>13 DEF RequestSuspension, IInv, TypeOK, PlaceInv, Place, InSuspendAll
<1>14. CASE RetryRequest(s)
  BY <1>14 DEF RetryRequest, IInv, TypeOK, PlaceInv, Place, InSuspendAll
<1>15. CASE Recheck(s)
  BY <1>15 DEF Recheck, IInv, TypeOK, PlaceInv, Place, InSuspendAll
<1>16. CASE TimeOut(s)
  BY <1>16 DEF TimeOut, GiveUp, IInv, TypeOK, PlaceInv, Place, InSuspendAll
<1>17. CASE Resume(s)
  BY <1>17 DEF Resume, GiveUp, IInv, TypeOK, PlaceInv, Place, InSuspendAll
<1>18. CASE NotifyResumed(s)
  BY <1>18 DEF NotifyResumed, BroadcastResume, IInv, TypeOK, PlaceInv, Place, InSuspendAll
<1>19. CASE Register(s)
  BY <1>19 DEF Register, IInv, TypeOK, PlaceInv, Place, InSuspendAll
<1>20. CASE Unregister(s)
  BY <1>20 DEF Unregister, IInv, TypeOK, PlaceInv, Place, InSuspendAll
<1> QED
  BY Zenon, <1>1, <1>2, <1>3, <1>4, <1>5, <1>6, <1>7, <1>8, <1>9, <1>10, <1>11, <1>12,
     <1>13, <1>14,
     <1>15, <1>16, <1>17, <1>18, <1>19, <1>20 DEF Step, IInv, TypeOK, PlaceInv, Place, InSuspendAll

\* A lock held across steps has one holder.
LEMMA LockStep ==
  ASSUME IInv, NEW s \in Threads, Step(s)
  PROVE  LockInv'
<1> USE ThreadsAssumption DEF IInv, TypeOK, LockInv, CountLockFree, LocksFree
<1>1. CASE Moves(s)
  <2>1. Moved(s) /\ Alone(s)
    BY <1>1, MovesShape, Zenon
  <2> QED
    BY <2>1, Zenon DEF Moved, Alone
<1>2. CASE ClaimBarriers(s)
  BY <1>2, Zenon DEF ClaimBarriers
<1>3. ASSUME NEW t \in Threads, DropBarrier(s, t) PROVE LockInv'
  BY <1>3 DEF DropBarrier
<1>4. CASE SuspendAllInternal(s)
  BY <1>4 DEF SuspendAllInternal
<1>5. ASSUME NEW t \in Threads, InstallBarrier(s, t) PROVE LockInv'
  BY <1>5 DEF InstallBarrier
<1>6. CASE CheckSuspended(s)
  BY <1>6 DEF CheckSuspended
<1>7. ASSUME NEW t \in Threads, ReleaseToRetry(s, t) PROVE LockInv'
  BY <1>7 DEF ReleaseToRetry
<1>8. CASE RetakeCountLock(s) \/ AwaitSuspension(s) \/ AcquireMutatorLock(s)
           \/ ReleaseMutatorLock(s)
  BY <1>8 DEF RetakeCountLock, AwaitSuspension, AcquireMutatorLock, ReleaseMutatorLock
<1>9. CASE ResumeAll(s)
  BY <1>9, Zenon DEF ResumeAll, BroadcastResume
<1>10. ASSUME NEW t \in Threads, SuspendThreadByThreadId(s, t) PROVE LockInv'
  BY <1>10, Zenon DEF SuspendThreadByThreadId
<1>11. CASE NoSuchThread(s) \/ YieldToSuspender(s) \/ Recheck(s) \/ TimeOut(s) \/ Resume(s)
  <2>1. CASE NoSuchThread(s) \/ YieldToSuspender(s) \/ Recheck(s)
    BY <2>1 DEF NoSuchThread, YieldToSuspender, Recheck
  <2>2. CASE TimeOut(s)
    BY <2>2, Zenon DEF TimeOut
  <2>3. CASE Resume(s)
    BY <2>3, Zenon DEF Resume
  <2> QED
    BY <1>11, <2>1, <2>2, <2>3, Zenon
<1>12. CASE RequestSuspension(s)
  BY <1>12, Zenon DEF RequestSuspension
<1>13. CASE RetryRequest(s)
  BY <1>13, Zenon DEF RetryRequest
<1>14. CASE NotifyResumed(s)
  BY <1>14, Zenon DEF NotifyResumed, BroadcastResume
<1>15. CASE Register(s) \/ Unregister(s)
  BY <1>15 DEF Register, Unregister
<1> QED
  BY Zenon, <1>1, <1>2, <1>3, <1>4, <1>5, <1>6, <1>7, <1>8, <1>9, <1>10, <1>11, <1>12,
     <1>13, <1>14,
     <1>15 DEF Step

\* A thread that detaches is being suspended by nobody.
LEMMA DetachingIsFree ==
  ASSUME IInv, NEW t \in Threads, Unregister(t)
  PROVE  \A s \in Threads : t \notin raised[s]
<1>1. state[t] = "Suspended"
  BY Zenon DEF IInv, PlaceInv, Place, Unregister
<1>2. "Suspend" \notin flags[t]
  BY <1>1, Zenon DEF Unregister, IsSuspended
<1> QED
  BY Zenon, <1>2 DEF IInv, CountInv, MatchInv, SuspendersOf

\* Each call keeps account of the threads it has stopped.
LEMMA CallStep ==
  ASSUME IInv, NEW s \in Threads, Step(s)
  PROVE  CallInv'
<1>1. CASE Moves(s)
  <2>1. Moved(s) /\ Alone(s)
    BY <1>1, MovesShape, Zenon DEF IInv
  <2>2. \A u \in Threads : u # s => Account(u)'
    BY <2>1, AccountKept, Zenon DEF Alone, IInv, CallInv
  <2>3. Account(s)'
    BY <2>1, Zenon DEF Moved, Alone, IInv, TypeOK, CallInv, Account, InSuspendAll, Unvisited
  <2> QED
    BY <2>2, <2>3, Zenon DEF CallInv
<1>2. CASE ClaimBarriers(s)
  <2>1. \A u \in Threads : pc[u] # "check"
    BY <1>2, ThreadsAssumption DEF ClaimBarriers, CountLockFree, LockInv, IInv, TypeOK,
       CallInv, Account, InSuspendAll, Unvisited
  <2> QED
    BY <1>2, <2>1 DEF ClaimBarriers, IInv, TypeOK, CallInv, Account, InSuspendAll, Unvisited
<1>3. ASSUME NEW t \in Threads, DropBarrier(s, t) PROVE CallInv'
  BY <1>3 DEF DropBarrier, IInv, TypeOK, CallInv, Account, InSuspendAll, Unvisited
<1>4. CASE SuspendAllInternal(s)
  BY <1>4 DEF SuspendAllInternal, IInv, TypeOK, CallInv, Account, InSuspendAll, Unvisited
<1>5. ASSUME NEW t \in Threads, InstallBarrier(s, t) PROVE CallInv'
  BY <1>5 DEF InstallBarrier, Raise, PlaceInv, Place, IInv, TypeOK, CallInv, Account,
     InSuspendAll, Unvisited
<1>6. CASE CheckSuspended(s)
  <2>1. \A u \in Threads \ {s} : pc[u] # "check"
    BY <1>6 DEF CheckSuspended, LockInv, IInv, TypeOK, CallInv, Account, InSuspendAll,
       Unvisited
  <2> QED
    <3>1. /\ \A u \in Threads : u # s => /\ pc'[u] = pc[u] /\ raised'[u] = raised[u]
                                        /\ todo'[u] = todo[u] /\ target'[u] = target[u]
          /\ phase' = phase /\ list' = list
      BY <1>6 DEF CheckSuspended, IInv, TypeOK
    <3>2. \A u \in Threads : u # s => Account(u)'
      BY <2>1, <3>1, AccountKept, Zenon DEF IInv, CallInv
    <3>3. Account(s)'
      BY <1>6 DEF CheckSuspended, PlaceInv, Place, IInv, TypeOK, CallInv, Account,
         InSuspendAll, Unvisited
    <3> QED
      BY <3>2, <3>3, Zenon DEF CallInv
<1>7. ASSUME NEW t \in Threads, ReleaseToRetry(s, t) PROVE CallInv'
  BY <1>7 DEF ReleaseToRetry, IInv, TypeOK, CallInv, Account, InSuspendAll, Unvisited
<1>8. CASE RetakeCountLock(s) \/ AwaitSuspension(s) \/ AcquireMutatorLock(s)
           \/ ReleaseMutatorLock(s)
  <2>0. pc \in [Threads -> Label]
    BY Zenon DEF IInv, TypeOK
  <2>1. /\ \A u \in Threads : u # s => pc'[u] = pc[u]
        /\ UNCHANGED <<barriers, raised, todo, target, phase, list>>
    BY <1>8, <2>0, Zenon DEF RetakeCountLock, AwaitSuspension, AcquireMutatorLock,
       ReleaseMutatorLock
  <2>2. \A u \in Threads : u # s => Account(u)'
    BY <2>1, AccountKept, Zenon DEF IInv, CallInv
  <2>3. \/ pc[s] = "retry" /\ pc'[s] = "modify"
        \/ pc[s] \in {"await", "acquire", "exclusive"}
             /\ pc'[s] \in {"acquire", "exclusive", "resume"}
    BY <1>8, <2>0, Zenon DEF RetakeCountLock, AwaitSuspension, AcquireMutatorLock,
       ReleaseMutatorLock
  <2>4. Account(s)'
    BY <2>1, <2>3, Zenon DEF IInv, TypeOK, CallInv, Account, InSuspendAll, Unvisited
  <2> QED
    BY <2>2, <2>4, Zenon DEF CallInv
<1>9. CASE ResumeAll(s)
  BY <1>9 DEF ResumeAll, BroadcastResume, Lower, PlaceInv, Place, IInv, TypeOK, CallInv,
     Account, InSuspendAll, Unvisited
<1>10. ASSUME NEW t \in Threads, SuspendThreadByThreadId(s, t) PROVE CallInv'
  BY <1>10 DEF SuspendThreadByThreadId, IInv, TypeOK, CallInv, Account, InSuspendAll,
     Unvisited
<1>11. CASE NoSuchThread(s)
  BY <1>11 DEF NoSuchThread, GiveUp, PlaceInv, Place, IInv, TypeOK, CallInv, Account,
     InSuspendAll, Unvisited
<1>12. CASE YieldToSuspender(s)
  BY <1>12 DEF YieldToSuspender, IInv, TypeOK, CallInv, Account, InSuspendAll, Unvisited
<1>13. CASE RequestSuspension(s)
  <2>1. /\ \A u \in Threads : u # s => /\ pc'[u] = pc[u] /\ raised'[u] = raised[u]
                                      /\ phase'[u] = phase[u]
        /\ UNCHANGED <<todo, target, list>>
             /\ \A u \in Threads : barriers[u] \subseteq barriers'[u]
    BY <1>13 DEF RequestSuspension, Raise, IInv, TypeOK
  <2>2. \A u \in Threads : u # s => Account(u)'
    <3>1. ASSUME NEW u \in Threads, u # s, pc[u] = "check", Account(u)
          PROVE  u \in barriers'[target[u]]
      BY <2>1, <3>1, Zenon DEF Account, IInv, TypeOK
    <3> QED
      BY <2>1, <3>1, AccountKept, Zenon DEF IInv, CallInv
  <2>3. Account(s)'
    BY <1>13 DEF RequestSuspension, Raise, PlaceInv, Place, IInv, TypeOK, CallInv, Account,
       InSuspendAll, Unvisited
  <2> QED
    BY <2>2, <2>3, Zenon DEF CallInv
<1>14. CASE RetryRequest(s)
  BY <1>14 DEF RetryRequest, IInv, TypeOK, CallInv, Account, InSuspendAll, Unvisited
<1>15. CASE Recheck(s)
  BY <1>15 DEF Recheck, IInv, TypeOK, CallInv, Account, InSuspendAll, Unvisited
<1>16. CASE TimeOut(s)
  <2>1. CASE phase[s] = "request"
    BY <1>16, <2>1 DEF TimeOut, GiveUp, IInv, TypeOK, CallInv, Account, InSuspendAll,
       Unvisited
  <2>2. CASE phase[s] = "recheck"
    BY <1>16, <2>2 DEF TimeOut, GiveUp, Lower, IInv, TypeOK, CallInv, Account,
       InSuspendAll, Unvisited
  <2> QED
    BY Zenon, <1>16, <2>1, <2>2 DEF TimeOut, IInv, TypeOK, CallInv, Account, InSuspendAll,
       Unvisited
<1>17. CASE Resume(s)
  BY <1>17 DEF Resume, GiveUp, Lower, IInv, TypeOK, CallInv, Account, InSuspendAll,
     Unvisited
<1>18. CASE NotifyResumed(s)
  BY <1>18 DEF NotifyResumed, BroadcastResume, IInv, TypeOK, CallInv, Account,
     InSuspendAll, Unvisited
<1>19. CASE Register(s)
  <2>1. \A u \in Threads : pc[u] \notin {"modify", "check", "retry"}
    BY <1>19, ThreadsAssumption DEF Register, LocksFree, LockInv, IInv, TypeOK, CallInv,
       Account, InSuspendAll, Unvisited
  <2> QED
    BY <1>19, <2>1 DEF Register, PlaceInv, Place, IInv, TypeOK, CallInv, Account,
       InSuspendAll, Unvisited
<1>20. CASE Unregister(s)
  <2>1. \A u \in Threads : pc[u] \notin {"modify", "check", "retry"}
    BY <1>20, ThreadsAssumption DEF Unregister, LocksFree, LockInv, IInv, TypeOK, CallInv,
       Account, InSuspendAll, Unvisited
  <2>2. \A u \in Threads : s \notin raised[u]
    BY <1>20, DetachingIsFree, Zenon DEF IInv, TypeOK, CallInv, Account, InSuspendAll,
       Unvisited
  <2> QED
    BY <1>20, <2>1, <2>2 DEF Unregister, PlaceInv, Place, IInv, TypeOK, CallInv, Account,
       InSuspendAll, Unvisited
<1> QED
  BY Zenon, <1>1, <1>2, <1>3, <1>4, <1>5, <1>6, <1>7, <1>8, <1>9, <1>10, <1>11, <1>12,
     <1>13, <1>14,
     <1>15, <1>16, <1>17, <1>18, <1>19, <1>20 DEF Step, IInv, TypeOK, CallInv, Account, InSuspendAll, Unvisited
=============================================================================
