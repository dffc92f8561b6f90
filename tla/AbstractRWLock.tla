--------------------------- MODULE AbstractRWLock ---------------------------
(***************************************************************************)
(* What art::ReaderWriterMutex promises its clients (the table above the   *)
(* class in runtime/base/mutex.h): any number of threads share it or one   *)
(* thread has it alone, and only a thread that has it gives it up.         *)
(***************************************************************************)
EXTENDS FiniteSets

CONSTANT Threads

VARIABLES
  readers,   \* the threads between acquiring and releasing the lock shared
  writers    \* the thread, if any, between acquiring and releasing it alone

holders == <<readers, writers>>

Init == readers = {} /\ writers = {}

AcquireShared(t) ==
  /\ writers = {} /\ t \notin readers
  /\ readers' = readers \cup {t}
  /\ UNCHANGED writers

AcquireExclusive(t) ==
  /\ writers = {} /\ readers = {}
  /\ writers' = {t}
  /\ UNCHANGED readers

ReleaseShared(t) ==
  /\ t \in readers
  /\ readers' = readers \ {t}
  /\ UNCHANGED writers

ReleaseExclusive(t) ==
  /\ t \in writers
  /\ writers' = {}
  /\ UNCHANGED readers

Next ==
  \E t \in Threads :
    AcquireShared(t) \/ AcquireExclusive(t) \/ ReleaseShared(t) \/ ReleaseExclusive(t)

Spec == Init /\ [][Next]_holders
=============================================================================
