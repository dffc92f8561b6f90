------------------------------- MODULE Monitor -------------------------------
(***************************************************************************)
(* The monitor of one object: its lock word (unlocked, thin lock, identity *)
(* hash code, or the id of an inflated Monitor), the Monitor behind it,    *)
(* and the threads that enter, exit, wait, notify, ask for the identity    *)
(* hash code and interrupt each other.                                     *)
(*                                                                         *)
(* A section under monitor_lock_ is one step; so is Monitor::Wait up to    *)
(* the wait on the condition variable, as wait_mutex_ is taken before      *)
(* monitor_lock_ is released.  Suspending the owner of a thin lock is the  *)
(* promise ThreadSuspension establishes: the suspender goes on once the    *)
(* owner is not Runnable, and the owner stays so until it is resumed.      *)
(***************************************************************************)
EXTENDS Naturals, Sequences, FiniteSets, SequencesExt

CONSTANTS
  Threads, NoThread,
  Monitors,            \* the ids the monitor pool hands out
  Hashes,              \* what GenerateIdentityHashCode may return
  kThinLockMaxCount,   \* the highest recursion count of a thin lock
  kUseReadBarrier,     \* whether the owner updates a thin lock with a CAS
  Ops,                 \* the operations the threads call
  MaxDepth             \* bound: how deep a thread nests

MonitorAssumption ==
  /\ NoThread \notin Threads
  /\ Hashes \subseteq Nat \ {0}
  /\ kThinLockMaxCount \in Nat /\ MaxDepth \in Nat
  /\ kUseReadBarrier \in BOOLEAN
  /\ Ops \subseteq {"enter", "trylock", "exit", "wait", "notify", "notifyAll", "hash",
                    "interrupt", "deflate"}

VARIABLES
  lock_word,      \* Object::monitor_
  monitor,        \* the Monitors: owner_, lock_count_, num_waiters_, wait_set_, hash_code_
  pc,             \* where each thread is
  op,             \* the operation it has called
  word,           \* the lock word it has read
  suspenders,     \* the threads that keep it suspended
  prev_count,     \* prev_lock_count of Monitor::Wait
  wait_monitor,   \* whether wait_monitor_ is set
  interrupted,    \* interrupted_
  was_interrupted,
  held,           \* history: the levels a thread has entered and not exited
  answered        \* history: the identity hash codes returned

thread == <<pc, op, word>>
waits == <<prev_count, wait_monitor, interrupted, was_interrupted>>
vars == <<lock_word, monitor, thread, suspenders, waits, held, answered>>

\* The forms of a lock word.
Unlocked == [state |-> "unlocked"]
Thin(t, n) == [state |-> "thin", owner |-> t, count |-> n]
HashCode(h) == [state |-> "hash", hash |-> h]
Fat(m) == [state |-> "fat", monitor |-> m]
\* A Monitor as its constructor leaves it; 0 is "no hash code".
NewMonitor(t, h) ==
  [owner |-> t, lock_count |-> 0, num_waiters |-> 0, wait_set |-> <<>>, hash |-> h]

RunnablePlaces == {"java", "load", "cas", "store", "create", "recheck", "release", "monitor",
                   "restore", "failed"}
WaitPlaces == {"waiting", "woken", "return"}
SuspendedPlaces == {"parked", "suspend", "suspending", "contend", "blocked", "unblock"}
                     \cup WaitPlaces

Init ==
  /\ lock_word = Unlocked
  /\ monitor = [m \in Monitors |-> NewMonitor(NoThread, 0)]
  /\ pc = [t \in Threads |-> "java"] /\ op = [t \in Threads |-> "none"]
  /\ word = [t \in Threads |-> Unlocked]
  /\ suspenders = [t \in Threads |-> {}]
  /\ prev_count = [t \in Threads |-> 0] /\ held = [t \in Threads |-> 0]
  /\ wait_monitor = [t \in Threads |-> FALSE]
  /\ interrupted = [t \in Threads |-> FALSE]
  /\ was_interrupted = [t \in Threads |-> FALSE]
  /\ answered = {}

Runnable(t) == pc[t] \in RunnablePlaces

\* A thread leaves its suspended state only when nobody keeps it suspended.
MayRun(t) == suspenders[t] = {}

\* t goes on at place; a lock word read before is forgotten when it starts again.
Goes(t, place) ==
  /\ pc' = [pc EXCEPT ![t] = place]
  /\ word' = IF place = "load" THEN [word EXCEPT ![t] = Unlocked] ELSE word
  /\ UNCHANGED op

\* The operation of t is over, at "java" or at "failed" when it throws.
Returns(t, place) ==
  /\ pc' = [pc EXCEPT ![t] = place]
  /\ op' = [op EXCEPT ![t] = "none"]
  /\ word' = [word EXCEPT ![t] = Unlocked]

Entered(t) == held' = [held EXCEPT ![t] = @ + 1]
Exited(t) == held' = [held EXCEPT ![t] = @ - 1]

-----------------------------------------------------------------------------
(* Java code and suspension *)

\* Java code calls an operation; the nesting is bounded.
Call(t, o) ==
  /\ pc[t] = "java"
  /\ o \in {"enter", "trylock"} => held[t] < MaxDepth
  /\ pc' = [pc EXCEPT ![t] = "load"]
  /\ op' = [op EXCEPT ![t] = o]
  /\ UNCHANGED <<lock_word, monitor, word, suspenders, waits, held, answered>>

\* The exception of a failed operation is delivered.
Throw(t) ==
  /\ pc[t] = "failed"
  /\ Goes(t, "java")
  /\ UNCHANGED <<lock_word, monitor, suspenders, waits, held, answered>>

\* A suspend point, or a call into native code.
Park(t) ==
  /\ pc[t] = "java"
  /\ Goes(t, "parked")
  /\ UNCHANGED <<lock_word, monitor, suspenders, waits, held, answered>>

Unpark(t) ==
  /\ pc[t] = "parked" /\ MayRun(t)
  /\ Goes(t, "java")
  /\ UNCHANGED <<lock_word, monitor, suspenders, waits, held, answered>>

-----------------------------------------------------------------------------
(* The lock word *)

\* t reads the lock word in one of the operations ops and goes on at place.
Load(t, ops, place) ==
  /\ pc[t] = "load" /\ op[t] \in ops
  /\ IF place \in {"java", "failed"}
     THEN Returns(t, place)
     ELSE /\ pc' = [pc EXCEPT ![t] = place]
          /\ word' = [word EXCEPT ![t] = lock_word]
          /\ UNCHANGED op
  /\ UNCHANGED <<lock_word, monitor, suspenders, waits, held, answered>>

OwnThin(t) == lock_word.state = "thin" /\ lock_word.owner = t
OthersThin(t) == lock_word.state = "thin" /\ lock_word.owner # t

\* The recursion count n of a thin lock can be raised.
ThinCountFits(n) == n + 1 <= kThinLockMaxCount

\* MonitorEnter reads the lock word.
MonitorEnter(t) ==
  \/ lock_word.state = "unlocked" /\ Load(t, {"enter", "trylock"}, "cas")
  \/ OwnThin(t) /\ ThinCountFits(lock_word.count) /\ Load(t, {"enter", "trylock"}, "store")
  \/ OwnThin(t) /\ ~ThinCountFits(lock_word.count) /\ Load(t, {"enter", "trylock"}, "create")
  \/ OthersThin(t) /\ Load(t, {"enter"}, "suspend")
  \/ OthersThin(t) /\ Load(t, {"trylock"}, "java")
  \/ lock_word.state = "fat" /\ Load(t, {"enter", "trylock"}, "monitor")
  \/ lock_word.state = "hash" /\ Load(t, {"enter", "trylock"}, "create")

\* MonitorExit reads the lock word.
MonitorExit(t) ==
  \/ lock_word.state \in {"unlocked", "hash"} /\ Load(t, {"exit"}, "failed")
  \/ OthersThin(t) /\ Load(t, {"exit"}, "failed")
  \/ OwnThin(t) /\ Load(t, {"exit"}, "store")
  \/ lock_word.state = "fat" /\ Load(t, {"exit"}, "monitor")

\* The static Wait reads the lock word.
StaticWait(t) ==
  \/ lock_word.state \in {"unlocked", "hash"} /\ Load(t, {"wait"}, "failed")
  \/ OthersThin(t) /\ Load(t, {"wait"}, "failed")
  \/ OwnThin(t) /\ Load(t, {"wait"}, "create")
  \/ lock_word.state = "fat" /\ Load(t, {"wait"}, "monitor")

\* DoNotify reads the lock word: a thin lock has no waiters.
DoNotify(t) ==
  \/ lock_word.state \in {"unlocked", "hash"} /\ Load(t, {"notify", "notifyAll"}, "failed")
  \/ OthersThin(t) /\ Load(t, {"notify", "notifyAll"}, "failed")
  \/ OwnThin(t) /\ Load(t, {"notify", "notifyAll"}, "java")
  \/ lock_word.state = "fat" /\ Load(t, {"notify", "notifyAll"}, "monitor")

\* IdentityHashCode reads the lock word.
IdentityHashCode(t) ==
  \/ lock_word.state = "unlocked" /\ Load(t, {"hash"}, "cas")
  \/ OwnThin(t) /\ Load(t, {"hash"}, "create")
  \/ OthersThin(t) /\ Load(t, {"hash"}, "suspend")
  \/ lock_word.state = "fat" /\ Load(t, {"hash"}, "monitor")
  \/ /\ pc[t] = "load" /\ op[t] = "hash" /\ lock_word.state = "hash"
     /\ answered' = answered \cup {lock_word.hash}
     /\ Returns(t, "java")
     /\ UNCHANGED <<lock_word, monitor, suspenders, waits, held>>

\* The CAS that takes an unlocked lock word.
CasThinLock(t) ==
  /\ pc[t] = "cas" /\ op[t] # "hash" /\ lock_word = word[t]
  /\ lock_word' = Thin(t, 0)
  /\ Entered(t) /\ Returns(t, "java")
  /\ UNCHANGED <<monitor, suspenders, waits, answered>>

\* The CAS that puts a hash code in an unlocked lock word.
CasHashCode(t, h) ==
  /\ pc[t] = "cas" /\ op[t] = "hash" /\ lock_word = word[t]
  /\ lock_word' = HashCode(h)
  /\ answered' = answered \cup {h}
  /\ Returns(t, "java")
  /\ UNCHANGED <<monitor, suspenders, waits, held>>

\* A CAS fails, spuriously or because the word has changed: start again.
CasFails(t) ==
  /\ pc[t] = "cas" \/ (pc[t] = "store" /\ kUseReadBarrier)
  /\ Goes(t, "load")
  /\ UNCHANGED <<lock_word, monitor, suspenders, waits, held, answered>>

\* What the owner of a thin lock makes of the word it has read.
UpdatedThin(t) ==
  IF op[t] = "exit"
  THEN IF word[t].count = 0 THEN Unlocked ELSE Thin(t, word[t].count - 1)
  ELSE Thin(t, word[t].count + 1)

\* The owner of a thin lock updates it: with a CAS when there is a read
\* barrier, with a plain store otherwise.
UpdateThinLock(t) ==
  /\ pc[t] = "store"
  /\ kUseReadBarrier => lock_word = word[t]
  /\ lock_word' = UpdatedThin(t)
  /\ IF op[t] = "exit" THEN Exited(t) ELSE Entered(t)
  /\ Returns(t, "java")
  /\ UNCHANGED <<monitor, suspenders, waits, answered>>

-----------------------------------------------------------------------------
(* Inflation *)

\* The owner a new Monitor is created with.
InflatedFor(t) == IF word[t].state = "thin" THEN word[t].owner ELSE NoThread

\* The hash codes it may be created with.
InflatedHash(t) ==
  IF word[t].state = "hash" THEN {word[t].hash} ELSE IF op[t] = "hash" THEN Hashes ELSE {0}

AfterInflate(t) == IF InflatedFor(t) \in {t, NoThread} THEN "load" ELSE "release"

\* Variant: the monitor starts at recursion count 0.
ForgetsCount(m, t, h) == NewMonitor(InflatedFor(t), h)

\* The Monitor as Install makes it: the recursion count of the thin lock.
Propagated(m, t, h) ==
  [NewMonitor(InflatedFor(t), h) EXCEPT
     !.lock_count = IF lock_word.state = "thin" THEN lock_word.count ELSE 0]

\* Inflate: create a Monitor and install it in the lock word.
Install(t, m, h) ==
  /\ pc[t] = "create" /\ h \in InflatedHash(t)
  /\ lock_word.state # "fat"
  /\ monitor' = [monitor EXCEPT ![m] = Propagated(m, t, h)]
  /\ lock_word' = Fat(m)
  /\ Goes(t, AfterInflate(t))
  /\ UNCHANGED <<suspenders, waits, held, answered>>

\* Another thread has installed a monitor, or the CAS fails spuriously.
InstallFails(t) ==
  /\ pc[t] = "create"
  /\ Goes(t, AfterInflate(t))
  /\ UNCHANGED <<lock_word, monitor, suspenders, waits, held, answered>>

\* InflateThinLocked on the lock of another thread: ask for its suspension,
\* unless the caller is being suspended itself.
SuspendOwner(t) ==
  /\ pc[t] = "suspend" /\ MayRun(t)
  /\ suspenders' = [suspenders EXCEPT ![word[t].owner] = @ \cup {t}]
  /\ Goes(t, "suspending")
  /\ UNCHANGED <<lock_word, monitor, waits, held, answered>>

OwnerStopped(t) == ~Runnable(word[t].owner)

\* The owner is suspended and the caller Runnable again.
OwnerSuspended(t) ==
  /\ pc[t] = "suspending" /\ OwnerStopped(t) /\ MayRun(t)
  /\ Goes(t, "recheck")
  /\ UNCHANGED <<lock_word, monitor, suspenders, waits, held, answered>>

\* The suspension times out and is withdrawn.
SuspendTimesOut(t) ==
  /\ pc[t] = "suspending" /\ ~OwnerStopped(t) /\ MayRun(t)
  /\ suspenders' = [suspenders EXCEPT ![word[t].owner] = @ \ {t}]
  /\ Goes(t, "load")
  /\ UNCHANGED <<lock_word, monitor, waits, held, answered>>

\* Variant: the lock word is not looked at again.
AnyWord(t) == TRUE

StillThin(t) == lock_word.state = "thin" /\ lock_word.owner = word[t].owner

\* Inflate only if the lock is still the thin lock of the suspended thread.
RecheckOwner(t) ==
  /\ pc[t] = "recheck"
  /\ Goes(t, IF StillThin(t) THEN "create" ELSE "release")
  /\ UNCHANGED <<lock_word, monitor, suspenders, waits, held, answered>>

ResumeOwner(t) ==
  /\ pc[t] = "release"
  /\ suspenders' = [suspenders EXCEPT ![word[t].owner] = @ \ {t}]
  /\ Goes(t, "load")
  /\ UNCHANGED <<lock_word, monitor, waits, held, answered>>

-----------------------------------------------------------------------------
(* The Monitor *)

MonitorOf(t) == word[t].monitor
Mine(t) == monitor[MonitorOf(t)]
SetMine(t, r) == monitor' = [monitor EXCEPT ![MonitorOf(t)] = r]

\* TryLockLocked would succeed, and what it makes of the monitor r.
CanLock(t) == Mine(t).owner \in {NoThread, t}
TryLockLocked(t, r) ==
  IF r.owner = NoThread THEN [r EXCEPT !.owner = t] ELSE [r EXCEPT !.lock_count = @ + 1]

\* The lock is t's: the end of an enter, or the last part of Wait.
Locked(t) ==
  IF op[t] = "relock"
  THEN Goes(t, "restore") /\ UNCHANGED held
  ELSE Returns(t, "java") /\ Entered(t)

\* A contender counts as a waiter, so that the monitor is not deflated.
CountWaiter(r) == [r EXCEPT !.num_waiters = @ + 1]

\* Lock (or TryLock) finds the monitor unowned or its own.
LockMonitor(t) ==
  /\ pc[t] = "monitor" /\ op[t] \in {"enter", "trylock", "relock"}
  /\ CanLock(t)
  /\ SetMine(t, TryLockLocked(t, Mine(t)))
  /\ Locked(t)
  /\ UNCHANGED <<lock_word, suspenders, waits, answered>>

\* TryLock finds it owned.
TryLockFails(t) ==
  /\ pc[t] = "monitor" /\ op[t] = "trylock"
  /\ ~CanLock(t)
  /\ Returns(t, "java")
  /\ UNCHANGED <<lock_word, monitor, suspenders, waits, held, answered>>

\* Lock finds it owned: count the contender, release monitor_lock_ and
\* change to blocked.
Contend(t) ==
  /\ pc[t] = "monitor" /\ op[t] \in {"enter", "relock"}
  /\ ~CanLock(t)
  /\ SetMine(t, CountWaiter(Mine(t)))
  /\ Goes(t, "contend")
  /\ UNCHANGED <<lock_word, suspenders, waits, held, answered>>

\* Still contended: wait on monitor_contenders_; otherwise try again.
Block(t) ==
  /\ pc[t] = "contend"
  /\ Goes(t, IF Mine(t).owner # NoThread THEN "blocked" ELSE "unblock")
  /\ UNCHANGED <<lock_word, monitor, suspenders, waits, held, answered>>

\* The wait on monitor_contenders_ returns without a signal.
ContenderWakes(t) ==
  /\ pc[t] = "blocked"
  /\ Goes(t, "unblock")
  /\ UNCHANGED <<lock_word, monitor, suspenders, waits, held, answered>>

\* Runnable again, the contender is counted out and tries once more.
Retry(t) ==
  /\ pc[t] = "unblock" /\ MayRun(t)
  /\ IF CanLock(t)
     THEN /\ SetMine(t, TryLockLocked(t, [Mine(t) EXCEPT !.num_waiters = @ - 1]))
          /\ Locked(t)
     ELSE Goes(t, "contend") /\ UNCHANGED <<monitor, held>>
  /\ UNCHANGED <<lock_word, suspenders, waits, answered>>

Blocked(m) == {u \in Threads : pc[u] = "blocked" /\ MonitorOf(u) = m}

\* Variant: no contender is woken.
NoSignal(m, places) == pc' = places

\* monitor_contenders_.Signal: one contender, if there is any, wakes.
SignalContender(m, places) ==
  IF Blocked(m) = {}
  THEN pc' = places
  ELSE \E u \in Blocked(m) : pc' = [places EXCEPT ![u] = "unblock"]

\* The thread does not own the Monitor: IllegalMonitorStateException.
NotOwner(t) ==
  /\ pc[t] = "monitor" /\ op[t] \in {"exit", "wait", "notify", "notifyAll"}
  /\ Mine(t).owner # t
  /\ Returns(t, "failed")
  /\ UNCHANGED <<lock_word, monitor, suspenders, waits, held, answered>>

\* Unlock by the owner.
Unlock(t) ==
  /\ pc[t] = "monitor" /\ op[t] = "exit" /\ Mine(t).owner = t
  /\ IF Mine(t).lock_count = 0
     THEN /\ SetMine(t, [Mine(t) EXCEPT !.owner = NoThread])
          /\ SignalContender(MonitorOf(t), [pc EXCEPT ![t] = "java"])
     ELSE /\ SetMine(t, [Mine(t) EXCEPT !.lock_count = @ - 1])
          /\ pc' = [pc EXCEPT ![t] = "java"]
  /\ op' = [op EXCEPT ![t] = "none"]
  /\ word' = [word EXCEPT ![t] = Unlocked]
  /\ Exited(t)
  /\ UNCHANGED <<lock_word, suspenders, waits, answered>>

-----------------------------------------------------------------------------
(* Waiting *)

\* A thread that is already interrupted does not wait.
WaitPlace(t) == IF interrupted[t] THEN "return" ELSE "waiting"

\* Monitor::Wait by the owner: join the wait set, give up the monitor, set
\* wait_monitor_, wake a contender, and wait on wait_cond_.
Wait(t) ==
  /\ pc[t] = "monitor" /\ op[t] = "wait" /\ Mine(t).owner = t
  /\ SetMine(t, [Mine(t) EXCEPT !.owner = NoThread, !.lock_count = 0,
                                !.num_waiters = @ + 1, !.wait_set = Append(@, t)])
  /\ prev_count' = [prev_count EXCEPT ![t] = Mine(t).lock_count]
  /\ wait_monitor' = [wait_monitor EXCEPT ![t] = TRUE]
  /\ was_interrupted' = [was_interrupted EXCEPT ![t] = interrupted[t]]
  /\ SignalContender(MonitorOf(t), [pc EXCEPT ![t] = WaitPlace(t)])
  /\ held' = [held EXCEPT ![t] = 0]
  /\ UNCHANGED <<lock_word, op, word, suspenders, interrupted, answered>>

\* The wait on wait_cond_ times out, or returns without a signal.
WaitTimesOut(t) ==
  /\ pc[t] = "waiting"
  /\ Goes(t, "woken")
  /\ UNCHANGED <<lock_word, monitor, suspenders, waits, held, answered>>

\* wait_mutex_ is held again: was the thread interrupted?
WaitEnds(t) ==
  /\ pc[t] = "woken"
  /\ was_interrupted' = [was_interrupted EXCEPT ![t] = interrupted[t]]
  /\ Goes(t, "return")
  /\ UNCHANGED <<lock_word, monitor, suspenders, prev_count, wait_monitor, interrupted, held,
                 answered>>

\* Runnable again: reset wait_monitor_; the interrupted status is cleared when
\* InterruptedException is thrown.
ReturnFromWait(t, interruptShouldThrow) ==
  /\ pc[t] = "return" /\ MayRun(t)
  /\ wait_monitor' = [wait_monitor EXCEPT ![t] = FALSE]
  /\ interrupted' = [interrupted EXCEPT ![t] =
                       @ /\ ~(was_interrupted[t] /\ interruptShouldThrow)]
  /\ was_interrupted' = [was_interrupted EXCEPT ![t] = FALSE]
  /\ pc' = [pc EXCEPT ![t] = "monitor"] /\ op' = [op EXCEPT ![t] = "relock"]
  /\ UNCHANGED <<lock_word, monitor, word, suspenders, prev_count, held, answered>>

\* The last part of Wait: the recursion count is restored.
Restore(t) ==
  /\ pc[t] = "restore"
  /\ SetMine(t, [Mine(t) EXCEPT !.owner = t, !.lock_count = prev_count[t],
                                !.num_waiters = @ - 1, !.wait_set = Remove(@, t)])
  /\ held' = [held EXCEPT ![t] = prev_count[t] + 1]
  /\ prev_count' = [prev_count EXCEPT ![t] = 0]
  /\ Returns(t, "java")
  /\ UNCHANGED <<lock_word, suspenders, wait_monitor, interrupted, was_interrupted, answered>>

\* wait_cond_.Signal of the threads ts: those that wait on it wake.
Woken(ts, places) ==
  [u \in Threads |-> IF u \in ts /\ pc[u] = "waiting" THEN "woken" ELSE places[u]]

\* The place in the wait set of the first thread with wait_monitor_ set, or 0.
FirstWaiter(t) == SelectInSeq(Mine(t).wait_set, LAMBDA u : wait_monitor[u])

\* Notify: threads are taken from the wait set up to the first whose
\* wait_monitor_ is set, and that one is signalled.
Notify(t) ==
  /\ pc[t] = "monitor" /\ op[t] = "notify" /\ Mine(t).owner = t
  /\ LET ws == Mine(t).wait_set
         n == IF FirstWaiter(t) = 0 THEN Len(ws) ELSE FirstWaiter(t)
     IN  /\ SetMine(t, [Mine(t) EXCEPT !.wait_set = SubSeq(ws, n + 1, Len(ws))])
         /\ pc' = Woken(IF FirstWaiter(t) = 0 THEN {} ELSE {ws[n]}, [pc EXCEPT ![t] = "java"])
  /\ op' = [op EXCEPT ![t] = "none"]
  /\ word' = [word EXCEPT ![t] = Unlocked]
  /\ UNCHANGED <<lock_word, suspenders, waits, held, answered>>

\* Variant: only the first thread is signalled.
SignalFirst(t) == {u \in Threads : Mine(t).wait_set # <<>> /\ u = Head(Mine(t).wait_set)}

\* Thread::Notify of every thread of the wait set.
SignalAll(t) == {u \in ToSet(Mine(t).wait_set) : wait_monitor[u]}

NotifyAll(t) ==
  /\ pc[t] = "monitor" /\ op[t] = "notifyAll" /\ Mine(t).owner = t
  /\ pc' = Woken(SignalAll(t), [pc EXCEPT ![t] = "java"])
  /\ SetMine(t, [Mine(t) EXCEPT !.wait_set = <<>>])
  /\ op' = [op EXCEPT ![t] = "none"]
  /\ word' = [word EXCEPT ![t] = Unlocked]
  /\ UNCHANGED <<lock_word, suspenders, waits, held, answered>>

\* Thread::Interrupt of u.
Interrupt(u) ==
  /\ ~interrupted[u]
  /\ interrupted' = [interrupted EXCEPT ![u] = TRUE]
  /\ pc' = IF wait_monitor[u] THEN Woken({u}, pc) ELSE pc
  /\ UNCHANGED <<lock_word, monitor, op, word, suspenders, prev_count, wait_monitor,
                 was_interrupted, held, answered>>

\* Thread::Interrupted, called by Java code.
Interrupted(t) ==
  /\ pc[t] = "java" /\ interrupted[t]
  /\ interrupted' = [interrupted EXCEPT ![t] = FALSE]
  /\ UNCHANGED <<lock_word, monitor, thread, suspenders, prev_count, wait_monitor,
                 was_interrupted, held, answered>>

-----------------------------------------------------------------------------
(* Hash code and deflation *)

\* Monitor::GetHashCode: the first caller chooses.
GetHashCode(t, h) ==
  /\ pc[t] = "monitor" /\ op[t] = "hash"
  /\ Mine(t).hash # 0 => h = Mine(t).hash
  /\ SetMine(t, [Mine(t) EXCEPT !.hash = h])
  /\ answered' = answered \cup {h}
  /\ Returns(t, "java")
  /\ UNCHANGED <<lock_word, suspenders, waits, held>>

\* Variant: waiters do not keep a monitor.
IgnoresWaiters(m) ==
  monitor[m].owner # NoThread =>
    monitor[m].hash = 0 /\ monitor[m].lock_count <= kThinLockMaxCount

\* Variant: a hash code does not keep an owned monitor.
IgnoresHash(m) ==
  /\ monitor[m].num_waiters = 0
  /\ monitor[m].owner # NoThread => monitor[m].lock_count <= kThinLockMaxCount

\* Deflate's early returns: waiters, or an owner with a hash code or a count
\* that does not fit a thin lock.
CanDeflate(m) ==
  /\ monitor[m].num_waiters = 0
  /\ monitor[m].owner # NoThread =>
       monitor[m].hash = 0 /\ monitor[m].lock_count <= kThinLockMaxCount

\* Variant: the owner is forgotten.
DeflatedFree(m) == IF monitor[m].hash # 0 THEN HashCode(monitor[m].hash) ELSE Unlocked

\* The lock word a deflated monitor leaves.
DeflatedWord(m) ==
  IF monitor[m].owner # NoThread THEN Thin(monitor[m].owner, monitor[m].lock_count)
  ELSE IF monitor[m].hash # 0 THEN HashCode(monitor[m].hash) ELSE Unlocked

\* DeflateMonitors, with all threads suspended; the monitor returns to the pool.
DeflateMonitors ==
  /\ \A t \in Threads : ~Runnable(t)
  /\ \E m \in Monitors :
       /\ lock_word = Fat(m) /\ CanDeflate(m)
       /\ lock_word' = DeflatedWord(m)
       /\ monitor' = [monitor EXCEPT ![m] = NewMonitor(NoThread, 0)]
  /\ UNCHANGED <<thread, suspenders, waits, held, answered>>

-----------------------------------------------------------------------------
(* The specification *)

\* The steps t takes inside an operation it has called.
OperationStep(t) ==
  \/ MonitorEnter(t) \/ MonitorExit(t) \/ StaticWait(t) \/ DoNotify(t) \/ IdentityHashCode(t)
  \/ CasThinLock(t) \/ UpdateThinLock(t) \/ InstallFails(t) \/ SuspendOwner(t)
  \/ OwnerSuspended(t) \/ RecheckOwner(t) \/ ResumeOwner(t) \/ LockMonitor(t)
  \/ TryLockFails(t) \/ Contend(t) \/ Block(t) \/ Retry(t) \/ NotOwner(t) \/ Unlock(t) \/ Wait(t)
  \/ WaitEnds(t) \/ Restore(t) \/ Notify(t) \/ NotifyAll(t) \/ Throw(t)
  \/ \E h \in Hashes : CasHashCode(t, h) \/ GetHashCode(t, h)
  \/ \E m \in Monitors, h \in Hashes \cup {0} : Install(t, m, h)
  \/ \E b \in BOOLEAN : ReturnFromWait(t, b)

Next ==
  \/ \E t \in Threads :
       \/ OperationStep(t)
       \/ \E o \in Ops \ {"interrupt", "deflate"} : Call(t, o)
       \/ Park(t) \/ Unpark(t) \/ CasFails(t) \/ SuspendTimesOut(t)
       \/ ContenderWakes(t) \/ WaitTimesOut(t)
       \/ "interrupt" \in Ops /\ (Interrupt(t) \/ Interrupted(t))
  \/ "deflate" \in Ops /\ DeflateMonitors

Spec == Init /\ [][Next]_vars

-----------------------------------------------------------------------------
(* Properties *)

\* The levels the lock word, or the Monitor behind it, records for t.
RecordedDepth(t) ==
  IF lock_word.state = "thin" /\ lock_word.owner = t THEN lock_word.count + 1
  ELSE IF lock_word.state = "fat" /\ monitor[lock_word.monitor].owner = t /\ pc[t] # "restore"
  THEN monitor[lock_word.monitor].lock_count + 1
  ELSE 0

\* A thread between the release of the monitor in Wait and the end of Wait.
InWait(t) == pc[t] \in WaitPlaces \cup {"restore"} \/ op[t] = "relock"

\* What a waiter gets back at the end of Wait.
Waiting(t) == IF InWait(t) THEN prev_count[t] + 1 ELSE 0

\* The Java monitor the threads see: the levels they have been told they hold.
J == INSTANCE JavaMonitor WITH
       depth <- held, waiting <- [t \in Threads |-> Waiting(t)], codes <- answered

\* The monitor, thin or inflated, is a Java monitor: the owner, the recursion
\* count and what a waiter gets back survive inflation by other threads,
\* deflation and the owner's unsynchronised updates of its thin lock, and the
\* identity hash code never changes, wherever the lock word, an inflation or a
\* deflation puts it.
ImplementsJavaMonitor == J!MonitorSpec

\* No update of the lock word is lost: what MonitorEnter and MonitorExit have
\* told the threads is what the lock word and the Monitor record, even when the
\* owner's plain store races with an inflation.
NoLostUpdate == \A t \in Threads : held[t] = RecordedDepth(t)

\* The CHECKs of Monitor::Install hold: the owner is the caller or suspended,
\* and the lock word is still the thin lock of that owner or the hash code the
\* monitor is created with, unless another thread has inflated it.
InstallNeverAborts ==
  \A t \in Threads : pc[t] = "create" =>
    /\ InflatedFor(t) \in {NoThread, t} \/ ~Runnable(InflatedFor(t))
    /\ \/ lock_word.state = "fat"
       \/ lock_word.state = "thin" /\ lock_word.owner = InflatedFor(t)
       \/ lock_word.state = "hash" /\ lock_word = word[t]

\* A Monitor that a thread uses, contends for or waits on is not deflated: it
\* stays the monitor of the object.
MonitorInUseIsKept ==
  \A t \in Threads :
    (pc[t] \in {"monitor", "contend", "blocked", "unblock"} \/ InWait(t)) => lock_word = word[t]

\* Nobody sleeps for ever.  A thread asleep in Wait can still be woken: it is in
\* the wait set of the object's monitor, with wait_monitor_ set, and nobody has
\* interrupted it.  A contender sleeps only while the monitor is owned, or another
\* contender has been woken that will take it and wake the next.
NobodyIsStranded ==
  \A t \in Threads :
    /\ pc[t] = "waiting" =>
         wait_monitor[t] /\ ~interrupted[t] /\ t \in ToSet(Mine(t).wait_set)
    /\ pc[t] = "blocked" =>
         Mine(t).owner # NoThread \/ \E u \in Threads : pc[u] = "unblock"

\* "Signal the first waiting thread in the wait set": a notify that takes
\* somebody from the wait set while a thread is asleep in Wait wakes one.
NotifyWakesASleeper ==
  [][\A t \in Threads :
       (/\ pc[t] = "monitor" /\ op[t] = "notify" /\ pc'[t] = "java"
        /\ \E u \in Threads : pc[u] = "waiting")
       => \E u \in Threads : pc[u] = "waiting" /\ pc'[u] = "woken"]_vars
=============================================================================
