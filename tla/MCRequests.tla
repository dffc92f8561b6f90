----------------------------- MODULE MCRequests -----------------------------
(* The two kinds of request that reach every thread: a flip of the thread roots,
   with JNI critical sections, or checkpoints.  chosen says which is made; both
   use the variables of ThreadSuspension. *)
EXTENDS ThreadFlip, Sequences

CONSTANTS Checkpointers, Agents

VARIABLES chosen, checkpoints, count, wanted, modified, asked, ran

CP == INSTANCE ThreadCheckpoints WITH Requesters <- {}

ASSUME CP!CheckpointAssumption

onlyFlipVars == <<thread_flip_running, disable_thread_flip_count, nesting, unflipped>>
onlyCheckpointVars == <<checkpoints, count, wanted, modified, asked, ran>>

MCInit ==
  /\ chosen \in {"flip", "checkpoints"}
  /\ FlipInit /\ CP!CheckpointInit

MCNext ==
  \/ chosen = "flip" /\ FlipNext /\ UNCHANGED <<chosen, onlyCheckpointVars>>
  \/ chosen = "checkpoints" /\ CP!CheckpointNext /\ UNCHANGED <<chosen, onlyFlipVars>>

requestVars == <<allVars, onlyCheckpointVars>>

\* Native code leaves its critical sections, and its outermost one: a condition on
\* each of the natives, and one that the other threads carry, so that every thread
\* has two strong fairness conditions whichever is chosen.
LeavesCritical(t) ==
  IF t \in Natives THEN DecrementDisableThreadFlip(t)
  ELSE \E u \in Natives : Outermost(u) /\ DecrementDisableThreadFlip(u)

\* FlipFairness and CompetitionEnds when the flip is chosen, CheckpointFairness when
\* the checkpoints are.
MCFairness ==
  /\ \A t \in Threads :
       /\ WF_requestVars(
            \/ /\ chosen = "flip"
               /\ Progress(t) /\ UNCHANGED onlyCheckpointVars
            \/ /\ chosen = "checkpoints"
               /\ Transition(t) \/ Stop(t) \/ ReleaseMutatorLock(t) \/ ResumeAll(t)
               /\ UNCHANGED <<flipVars, onlyCheckpointVars>>)
       /\ SF_requestVars(
            \/ /\ chosen = "flip"
               /\ \/ ClaimBarriers(t) \/ WaitForResume(t) \/ Iterate(t)
                  \/ RetryRequest(t) \/ Resume(t)
                  \/ step[t] = "flip" /\ SuspendAllInternal(t)
               /\ UNCHANGED <<flipVars, onlyCheckpointVars>>
            \/ /\ chosen = "checkpoints"
               /\ SuspendPoint(t)
               /\ UNCHANGED <<flipVars, onlyCheckpointVars>>)
       /\ SF_requestVars(
            \/ /\ chosen = "flip"
               /\ LeavesCritical(t) /\ UNCHANGED onlyCheckpointVars
            \/ /\ chosen = "checkpoints"
               /\ CP!RunCheckpointFunction(t) \/ CP!Request(t) \/ CP!SyncRequest(t)
               /\ UNCHANGED onlyFlipVars)
  /\ <>[][chosen = "flip" => ~Compete]_allVars

MCSpec == MCInit /\ [][MCNext]_<<chosen, requestVars>> /\ MCFairness

-----------------------------------------------------------------------------
(* Properties of the checkpoints, and the liveness of both *)

\* No pass of a checkpoint's barrier is lost, and the function runs on exactly the
\* threads that were attached when it was requested.
CheckpointReachesAll == CP!CheckpointReachesAll

\* A thread never leaves Runnable, and is never deleted, with a checkpoint pending.
PendingCheckpointKeepsRunnable == CP!PendingCheckpointKeepsRunnable

\* A flip that has been announced ends (FlipCompletes), and so does every checkpoint
\* request (CheckpointCompletes): those of the thread that is the collector when the
\* flip is chosen, against another one that makes requests and stops all threads too.
RequestsComplete == \A s \in Collectors : []<>(step[s] = "none")
=============================================================================
