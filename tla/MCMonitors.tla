----------------------------- MODULE MCMonitors -----------------------------
(* The monitor of one object, used by a pair of threads with thin locks, hash
   codes and every operation, or by a trio that contends for it inflated: chosen
   says which.  Both use the variables of Monitor. *)
EXTENDS Naturals, TLC

CONSTANTS
  a, b, c, d, e,             \* threads
  NoThread, Monitors

PairThreads == {a, b}
TrioThreads == {c, d, e}
AllThreads == PairThreads \cup TrioThreads
PairOps == {"enter", "trylock", "exit", "wait", "notify", "notifyAll", "hash",
            "interrupt", "deflate"}
Interchangeable ==
  Permutations(PairThreads) \cup Permutations(TrioThreads) \cup Permutations(Monitors)

VARIABLES
  chosen,
  lock_word, monitor, pc, op, word, suspenders, prev_count, wait_monitor,
  interrupted, was_interrupted, held, answered

Pair == INSTANCE Monitor WITH
  Threads <- PairThreads, Hashes <- {1, 2}, kThinLockMaxCount <- 1,
  kUseReadBarrier <- FALSE, MaxDepth <- 3, Ops <- PairOps

Trio == INSTANCE Monitor WITH
  Threads <- TrioThreads, Hashes <- {1}, kThinLockMaxCount <- 0,
  kUseReadBarrier <- TRUE, MaxDepth <- 2, Ops <- PairOps \ {"trylock", "hash"}

ASSUME Pair!MonitorAssumption /\ Trio!MonitorAssumption

vars == <<lock_word, monitor, pc, op, word, suspenders, prev_count, wait_monitor,
          interrupted, was_interrupted, held, answered>>

MCInit ==
  \/ chosen = "pair" /\ Pair!Init
  \/ chosen = "trio" /\ Trio!Init

MCNext ==
  \/ chosen = "pair" /\ Pair!Next /\ UNCHANGED chosen
  \/ chosen = "trio" /\ Trio!Next /\ UNCHANGED chosen

MCSpec == MCInit /\ [][MCNext]_<<chosen, vars>>

-----------------------------------------------------------------------------
(* The properties of Monitor, of the instance that is chosen. *)

IsPair == chosen = "pair"

\* No update of the lock word is lost when the owner's plain store races with an
\* inflation.
NoLostUpdate == IF IsPair THEN Pair!NoLostUpdate ELSE Trio!NoLostUpdate

\* The CHECKs of Monitor::Install hold.
InstallNeverAborts == IF IsPair THEN Pair!InstallNeverAborts ELSE Trio!InstallNeverAborts

\* A Monitor that a thread uses, contends for or waits on is not deflated.
MonitorInUseIsKept == IF IsPair THEN Pair!MonitorInUseIsKept ELSE Trio!MonitorInUseIsKept

\* A thread asleep in Wait can still be notified or interrupted, and a contender
\* sleeps only while the monitor is owned or about to be taken.
NobodyIsStranded == IF IsPair THEN Pair!NobodyIsStranded ELSE Trio!NobodyIsStranded

\* The Java monitor that the threads of the instance see; the others stay outside.
J == INSTANCE JavaMonitor WITH
  Threads <- AllThreads, Hashes <- {1, 2}, codes <- answered,
  depth <- [t \in AllThreads |-> IF t \in DOMAIN held THEN held[t] ELSE 0],
  waiting <- [t \in AllThreads |->
    IF t \notin DOMAIN held THEN 0 ELSE IF IsPair THEN Pair!Waiting(t) ELSE Trio!Waiting(t)]

\* The monitor, thin or inflated, is a Java monitor with a stable identity hash
\* code.
ImplementsJavaMonitor == J!MonitorSpec
=============================================================================
