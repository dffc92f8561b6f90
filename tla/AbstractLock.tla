---------------------------- MODULE AbstractLock ----------------------------
(***************************************************************************)
(* What art::Mutex with art::ConditionVariable promises its clients        *)
(* (runtime/base/mutex.h): a lock with one owner that can be held several  *)
(* times if it is recursive, and waits that release it whatever its depth  *)
(* and return with that depth restored.  A wait may return at any time.    *)
(***************************************************************************)
EXTENDS Integers

CONSTANTS Threads, NoThread, Recursive

VARIABLES
  owner,   \* the thread between acquiring and releasing calls, or NoThread
  depth,   \* how many times the owner holds the lock
  saved    \* saved[t] # 0: t is in a wait it entered holding the lock that often

lockState == <<owner, depth, saved>>

Init ==
  /\ owner = NoThread
  /\ depth = 0
  /\ saved = [t \in Threads |-> 0]

Acquire(t) ==
  /\ owner = NoThread /\ saved[t] = 0
  /\ owner' = t /\ depth' = 1
  /\ UNCHANGED saved

Deepen(t) ==
  /\ Recursive /\ owner = t
  /\ depth' = depth + 1
  /\ UNCHANGED <<owner, saved>>

Release(t) ==
  /\ owner = t
  /\ depth' = depth - 1
  /\ owner' = IF depth = 1 THEN NoThread ELSE t
  /\ UNCHANGED saved

StartWait(t) ==
  /\ owner = t
  /\ owner' = NoThread /\ depth' = 0
  /\ saved' = [saved EXCEPT ![t] = depth]

EndWait(t) ==
  /\ owner = NoThread /\ saved[t] # 0
  /\ owner' = t /\ depth' = saved[t]
  /\ saved' = [saved EXCEPT ![t] = 0]

Next ==
  \E t \in Threads : Acquire(t) \/ Deepen(t) \/ Release(t) \/ StartWait(t) \/ EndWait(t)

Spec == Init /\ [][Next]_lockState
=============================================================================
