----------------------------- MODULE JavaMonitor -----------------------------
(***************************************************************************)
(* What the monitor of a Java object promises: one thread at a time is     *)
(* inside it, as many levels deep as it entered and did not exit, and a    *)
(* thread that waits gives up all its levels and gets exactly those back.  *)
(* The identity hash code, kept in the same place, never changes.          *)
(***************************************************************************)
EXTENDS Naturals

CONSTANTS Threads, Hashes

VARIABLES
  depth,     \* how many levels deep each thread is inside
  waiting,   \* the levels a waiting thread gets back, 0 for the others
  codes      \* the identity hash codes that have been returned

monitorVars == <<depth, waiting, codes>>

Outside(ts) == \A t \in ts : depth[t] = 0

MonitorInit ==
  /\ depth = [t \in Threads |-> 0]
  /\ waiting = [t \in Threads |-> 0]
  /\ codes = {}

\* A thread enters when no other is inside.
EnterMonitor(t) ==
  /\ waiting[t] = 0
  /\ Outside(Threads \ {t})
  /\ depth' = [depth EXCEPT ![t] = @ + 1]
  /\ UNCHANGED <<waiting, codes>>

ExitMonitor(t) ==
  /\ depth[t] > 0
  /\ depth' = [depth EXCEPT ![t] = @ - 1]
  /\ UNCHANGED <<waiting, codes>>

BeginWait(t) ==
  /\ depth[t] > 0
  /\ waiting' = [waiting EXCEPT ![t] = depth[t]]
  /\ depth' = [depth EXCEPT ![t] = 0]
  /\ UNCHANGED codes

EndWait(t) ==
  /\ waiting[t] > 0
  /\ Outside(Threads)
  /\ depth' = [depth EXCEPT ![t] = waiting[t]]
  /\ waiting' = [waiting EXCEPT ![t] = 0]
  /\ UNCHANGED codes

IdentityHashCode ==
  /\ codes = {}
  /\ \E h \in Hashes : codes' = {h}
  /\ UNCHANGED <<depth, waiting>>

MonitorNext ==
  \/ \E t \in Threads : EnterMonitor(t) \/ ExitMonitor(t) \/ BeginWait(t) \/ EndWait(t)
  \/ IdentityHashCode

MonitorSpec == MonitorInit /\ [][MonitorNext]_monitorVars
=============================================================================
