------------------------- MODULE ConcurrentCopying -------------------------
(***************************************************************************)
(* One collection of the concurrent copying collector, from the thread     *)
(* flip to the release of the from-space, with the mutators that run       *)
(* during it: gc/collector/concurrent_copying.cc, the read barriers of     *)
(* read_barrier-inl.h, and the processing of java.lang.ref references in   *)
(* gc/reference_processor.cc and gc/reference_queue.cc.                    *)
(*                                                                         *)
(* A reference is <<o, b>>: b is TRUE for the address of the to-space copy *)
(* of o, FALSE for the address o had before the collection.  An object     *)
(* that is not evacuated keeps its only address <<o, FALSE>>.  field[o]    *)
(* and referent[o] are those of the copy of o that is in use: the          *)
(* from-space copy is immutable once the forwarding address is installed.  *)
(***************************************************************************)
EXTENDS Naturals, Sequences, FiniteSets, SequencesExt

CONSTANTS
  Threads,            \* the mutators; the thread that runs the GC is not one
  Objects,
  Null,
  Heaps,              \* the heaps the collection may start from
  MaxOps,             \* MaxOps[t] bounds the heap accesses of mutator t
  MarkStackCapacity   \* references a thread-local mark stack holds

VARIABLES
  heap,                           \* kind and region of the objects, its soft policy
  field, referent, weak_global,   \* contents of the heap, one JNI weak global
  forwarded, gray, bitmap,        \* lock words, read barrier states, region bitmap
  mark_stack_mode, gc_mark_stack, revoked_mark_stacks, thread_local_mark_stack,
  is_mark_stack_push_disallowed,
  weak_ref_access_enabled, is_gc_marking,   \* of the threads
  is_marking, weak_access,        \* is_marking_ and weak_ref_access_enabled_, for new threads
  checkpoint, empty_checkpoint,   \* threads that have not yet run the request
  queue, cleared_references, collector, preserving_references,
  gc,                             \* where the GC thread is, and its locals
  pc, reg, roots, ops             \* where the mutators are, and their locals

contents == <<field, referent, weak_global>>
marks == <<forwarded, gray, bitmap>>
markStacks == <<gc_mark_stack, revoked_mark_stacks, thread_local_mark_stack>>
modes == <<mark_stack_mode, is_mark_stack_push_disallowed>>
flags == <<weak_ref_access_enabled, is_gc_marking, is_marking, weak_access>>
requests == <<checkpoint, empty_checkpoint>>
references == <<queue, cleared_references, collector, preserving_references>>
mutators == <<pc, reg, roots, ops>>
vars == <<heap, contents, marks, markStacks, modes, flags, requests, references, gc, mutators>>

Kinds == {"soft", "weak", "finalizer", "phantom"}
IsReference(o) == heap.kind[o] \in Kinds

\* The local variables of a mutator outside of any access.
NoReg == [op |-> "none", obj |-> Null, ref |-> Null, gray |-> FALSE, mode |-> "none"]

-----------------------------------------------------------------------------
(* Addresses and marks.                                                    *)

ToSpace(r) == IF r = Null \/ r[1] \in heap.unevac THEN r ELSE <<r[1], TRUE>>

\* The address of a marked object, Null for one that is not marked.
IsMarked(r) ==
  CASE r[2] -> r
    [] ~r[2] /\ r[1] \in heap.unevac -> IF r[1] \in gray \union bitmap THEN r ELSE Null
    [] OTHER -> IF r[1] \in forwarded THEN ToSpace(r) ELSE Null

IsInToSpace(r) == IsMarked(r) = r
NewlyMarked(r) == r # Null /\ IsMarked(r) = Null

\* Mark the object of r: install the forwarding address or gray the lock word.
SetMarked(r) ==
  /\ forwarded' = forwarded \union ({r[1]} \ heap.unevac)
  /\ gray' = gray \union {r[1]}

\* Mark by the GC thread, which pushes on its own stack whatever the mode.
Mark(r) ==
  IF NewlyMarked(r)
  THEN SetMarked(r) /\ gc_mark_stack' = Append(gc_mark_stack, r[1])
  ELSE UNCHANGED <<forwarded, gray, gc_mark_stack>>

IsUnprocessed(o) ==
  /\ \A k \in Kinds : o \notin Range(queue[k])
  /\ o \notin cleared_references

\* Threads that wait for access to weak references run on when they are notified.
Broadcast(woken) ==
  pc' = [t \in Threads |-> IF pc[t] = "wait" /\ reg[t].op \in woken THEN "slow" ELSE pc[t]]

-----------------------------------------------------------------------------
Init ==
  \E h \in Heaps :
    /\ heap = [kind |-> h.kind, unevac |-> h.unevac, clear_soft |-> h.clear_soft,
               suspended |-> h.suspended]
    /\ field = h.field /\ referent = h.referent /\ weak_global = h.weak_global
    /\ roots = h.roots
    /\ forwarded = {} /\ gray = {} /\ bitmap = {}
    /\ mark_stack_mode = "local" /\ is_mark_stack_push_disallowed = FALSE
    /\ gc_mark_stack = <<>> /\ revoked_mark_stacks = <<>>
    /\ thread_local_mark_stack = [t \in Threads |-> <<>>]
    /\ weak_ref_access_enabled = [t \in Threads |-> TRUE]
    /\ is_gc_marking = [t \in Threads |-> FALSE]
    /\ is_marking = TRUE /\ weak_access = TRUE
    /\ checkpoint = {} /\ empty_checkpoint = {}
    /\ queue = [k \in Kinds |-> <<>>] /\ cleared_references = {}
    /\ collector = FALSE /\ preserving_references = FALSE
    /\ gc = [phase |-> "flip", step |-> "flip", todo |-> <<>>, obj |-> Null, ref |-> Null,
             empty |-> TRUE, empty_prev |-> FALSE]
    /\ pc = [t \in Threads |-> IF t \in h.unborn THEN "unborn" ELSE "unflipped"]
    /\ reg = [t \in Threads |-> NoReg]
    /\ ops = [t \in Threads |-> 0]

-----------------------------------------------------------------------------
(* The thread flip: ThreadFlipVisitor marks the roots of a thread before   *)
(* it runs again; the GC thread does it for a thread that is suspended.    *)

FlipThread(t) ==
  LET new == {r[1] : r \in {q \in roots[t] : NewlyMarked(q)}}
      pushed == SetToSeq(new)
      full == IF new = {} THEN 0   \* pushed on the stacks that filled up
              ELSE MarkStackCapacity * ((Len(pushed) - 1) \div MarkStackCapacity)
  IN /\ pc[t] = "unflipped"
     /\ roots' = [roots EXCEPT ![t] = {ToSpace(r) : r \in @}]
     /\ forwarded' = forwarded \union (new \ heap.unevac)
     /\ gray' = gray \union new
     /\ IF t \in heap.suspended
        THEN /\ gc_mark_stack' = gc_mark_stack \o pushed
             /\ UNCHANGED <<thread_local_mark_stack, revoked_mark_stacks>>
        ELSE /\ thread_local_mark_stack' =
                  [thread_local_mark_stack EXCEPT ![t] = SubSeq(pushed, full + 1, Len(pushed))]
             /\ revoked_mark_stacks' = revoked_mark_stacks \o SubSeq(pushed, 1, full)
             /\ UNCHANGED gc_mark_stack
     /\ is_gc_marking' = [is_gc_marking EXCEPT ![t] = TRUE]
     /\ pc' = [pc EXCEPT ![t] = "idle"]
     /\ UNCHANGED <<heap, contents, bitmap, modes, weak_ref_access_enabled, is_marking, weak_access,
                    requests, references, gc, reg, ops>>

-----------------------------------------------------------------------------
(* The mutators.  A thread is "idle" at its suspend points.                *)

\* The access of t is over: it holds r.
Return(t, r) ==
  /\ pc' = [pc EXCEPT ![t] = "idle"]
  /\ reg' = [reg EXCEPT ![t] = NoReg]
  /\ roots' = [roots EXCEPT ![t] = @ \union ({r} \ {Null})]

\* ThreadList::Register: a new thread starts with the collector's flags.
Register(t) ==
  /\ pc[t] = "unborn"
  /\ pc' = [pc EXCEPT ![t] = "idle"]
  /\ is_gc_marking' = [is_gc_marking EXCEPT ![t] = is_marking]
  /\ weak_ref_access_enabled' = [weak_ref_access_enabled EXCEPT ![t] = weak_access]
  /\ UNCHANGED <<heap, contents, marks, markStacks, modes, is_marking, weak_access, requests,
                 references, gc, reg, roots, ops>>

Starts(t) ==
  /\ pc[t] = "idle" /\ ops[t] < MaxOps[t]
  /\ ops' = [ops EXCEPT ![t] = @ + 1]

\* ReadBarrier::Barrier looks at the holder before it loads the reference.
Enter(t, label, op, o) ==
  /\ pc' = [pc EXCEPT ![t] = label]
  /\ reg' = [reg EXCEPT ![t] = [NoReg EXCEPT !.op = op, !.obj = o,
               !.gray = IF op = "weak_global" THEN is_gc_marking[t] ELSE o \in gray]]
  /\ UNCHANGED roots

\* The zombie of a finalizer reference is read by the finalizer daemon only,
\* once EnqueueClearedReferences has handed the reference over.
GetField(t, r) ==
  /\ Starts(t) /\ r \in roots[t]
  /\ IsReference(r[1]) => gc.phase = "done"
  /\ Enter(t, "load", "field", r[1])
  /\ UNCHANGED <<heap, contents, marks, markStacks, modes, flags, requests, references, gc>>

SetField(t, r, v) ==
  /\ Starts(t) /\ r \in roots[t] /\ v \in roots[t] \union {Null}
  /\ ~IsReference(r[1])
  /\ field' = [field EXCEPT ![r[1]] = v]
  /\ UNCHANGED <<heap, referent, weak_global, marks, markStacks, modes, flags, requests,
                 references, gc, pc, reg, roots>>

\* ReferenceProcessor::GetReferent, the fast path while weak access is enabled.
\* PhantomReference.get() does not call it.
GetReferent(t, r) ==
  /\ Starts(t) /\ r \in roots[t] /\ heap.kind[r[1]] \in Kinds \ {"phantom"}
  /\ Enter(t, IF weak_ref_access_enabled[t] THEN "load" ELSE "slow", "referent", r[1])
  /\ UNCHANGED <<heap, contents, marks, markStacks, modes, flags, requests, references, gc>>

DecodeWeakGlobal(t) ==
  /\ Starts(t)
  /\ Enter(t, IF weak_ref_access_enabled[t] THEN "load" ELSE "slow", "weak_global", Null)
  /\ UNCHANGED <<heap, contents, marks, markStacks, modes, flags, requests, references, gc>>

ClearReferent(t, r) ==
  /\ Starts(t) /\ r \in roots[t] /\ IsReference(r[1])
  /\ Enter(t, "slow", "clear", r[1])
  /\ UNCHANGED <<heap, contents, marks, markStacks, modes, flags, requests, references, gc>>

\* Thread::Destroy and ThreadList::Unregister: the mark stack is revoked.
Unregister(t) ==
  /\ Starts(t)
  /\ revoked_mark_stacks' = revoked_mark_stacks \o thread_local_mark_stack[t]
  /\ thread_local_mark_stack' = [thread_local_mark_stack EXCEPT ![t] = <<>>]
  /\ checkpoint' = checkpoint \ {t} /\ empty_checkpoint' = empty_checkpoint \ {t}
  /\ pc' = [pc EXCEPT ![t] = "gone"]
  /\ roots' = [roots EXCEPT ![t] = {}]
  /\ UNCHANGED <<heap, contents, marks, gc_mark_stack, modes, flags, references, gc, reg>>

Slot(t) ==
  CASE reg[t].op = "field" -> field[reg[t].obj]
    [] reg[t].op = "referent" -> referent[reg[t].obj]
    [] OTHER -> weak_global

\* Load the reference and test its mark.
Load(t) ==
  LET r == Slot(t)
      marked == r = Null \/ r[2] \/ r[1] \in forwarded \union bitmap
  IN /\ pc[t] = "load"
     /\ IF ~reg[t].gray THEN Return(t, r)
        ELSE IF marked THEN Return(t, ToSpace(r))
        ELSE /\ pc' = [pc EXCEPT ![t] = "mark"]
             /\ reg' = [reg EXCEPT ![t].ref = r]
             /\ UNCHANGED roots
     /\ UNCHANGED <<heap, contents, marks, markStacks, modes, flags, requests, references, gc, ops>>

\* Copy and install the forwarding address, or change the lock word to gray.
\* The thread that loses the race uses the winner's copy.
MarkByMutator(t) ==
  LET r == reg[t].ref
      lost == r[1] \in IF r[1] \in heap.unevac THEN gray ELSE forwarded
  IN /\ pc[t] = "mark"
     /\ IF lost
        THEN Return(t, ToSpace(r)) /\ UNCHANGED <<forwarded, gray>>
        ELSE /\ SetMarked(r)
             /\ pc' = [pc EXCEPT ![t] = "push"]
             /\ UNCHANGED <<reg, roots>>
     /\ UNCHANGED <<heap, contents, bitmap, markStacks, modes, flags, requests, references, gc, ops>>

LoadMode(t) ==
  /\ pc[t] = "push" /\ reg[t].mode = "none"
  /\ reg' = [reg EXCEPT ![t].mode = mark_stack_mode]
  /\ UNCHANGED <<heap, contents, marks, markStacks, modes, flags, requests, references, gc,
                 pc, roots, ops>>

PushOntoMarkStack(t) ==
  LET o == reg[t].ref[1]
      own == thread_local_mark_stack[t]
      full == Len(own) >= MarkStackCapacity
  IN /\ pc[t] = "push" /\ reg[t].mode \in {"local", "shared"}
     /\ IF reg[t].mode = "local"
        THEN /\ thread_local_mark_stack' =
                  [thread_local_mark_stack EXCEPT ![t] = IF full THEN <<o>> ELSE Append(@, o)]
             /\ revoked_mark_stacks' =
                  IF full THEN revoked_mark_stacks \o own ELSE revoked_mark_stacks
             /\ UNCHANGED gc_mark_stack
        ELSE /\ gc_mark_stack' = Append(gc_mark_stack, o)
             /\ UNCHANGED <<thread_local_mark_stack, revoked_mark_stacks>>
     /\ Return(t, ToSpace(reg[t].ref))
     /\ UNCHANGED <<heap, contents, marks, modes, flags, requests, references, gc, ops>>

\* One turn of the loops of GetReferent, DecodeWeakGlobalLocked and
\* WaitUntilDoneProcessingReferences, under the lock of their condition.
MayReturn(t) ==
  /\ collector /\ IsMarked(referent[reg[t].obj]) # Null
  /\ \/ ~preserving_references
     \/ heap.kind[reg[t].obj] # "finalizer" /\ IsUnprocessed(reg[t].obj)

Slow(t) ==
  /\ pc[t] = "slow"
  /\ IF weak_ref_access_enabled[t]
     THEN IF reg[t].op = "clear"
          THEN /\ referent' = [referent EXCEPT ![reg[t].obj] = Null]
               /\ Return(t, Null) /\ UNCHANGED empty_checkpoint
          ELSE Enter(t, "load", reg[t].op, reg[t].obj) /\ UNCHANGED <<referent, empty_checkpoint>>
     ELSE IF reg[t].op = "referent" /\ (referent[reg[t].obj] = Null \/ MayReturn(t))
     THEN /\ Return(t, IF referent[reg[t].obj] = Null THEN Null ELSE IsMarked(referent[reg[t].obj]))
          /\ UNCHANGED <<referent, empty_checkpoint>>
     ELSE /\ empty_checkpoint' = empty_checkpoint \ {t}
          /\ pc' = [pc EXCEPT ![t] = "wait"]
          /\ UNCHANGED <<referent, reg, roots>>
  /\ UNCHANGED <<heap, field, weak_global, marks, markStacks, modes, flags, checkpoint, references,
                 gc, ops>>

\* A wait on a futex may return for no reason.
SpuriousWakeup(t) ==
  /\ pc[t] = "wait"
  /\ pc' = [pc EXCEPT ![t] = "slow"]
  /\ UNCHANGED <<heap, contents, marks, markStacks, modes, flags, requests, references, gc, reg,
                 roots, ops>>

-----------------------------------------------------------------------------
(* Checkpoints.  A thread answers at a suspend point; the requester        *)
(* answers for a thread it finds suspended, which is at one.               *)

\* RevokeThreadLocalMarkStackCheckpoint and DisableMarkingCheckpoint.
RunCheckpoint(t) ==
  /\ t \in checkpoint /\ pc[t] = "idle"
  /\ checkpoint' = checkpoint \ {t}
  /\ IF gc.phase = "disable"
     THEN /\ is_gc_marking' = [is_gc_marking EXCEPT ![t] = FALSE]
          /\ UNCHANGED <<markStacks, weak_ref_access_enabled>>
     ELSE /\ revoked_mark_stacks' = revoked_mark_stacks \o thread_local_mark_stack[t]
          /\ thread_local_mark_stack' = [thread_local_mark_stack EXCEPT ![t] = <<>>]
          /\ weak_ref_access_enabled' =
               [weak_ref_access_enabled EXCEPT ![t] = @ /\ gc.phase # "switch"]
          /\ UNCHANGED <<gc_mark_stack, is_gc_marking>>
  /\ UNCHANGED <<heap, contents, marks, modes, is_marking, weak_access, empty_checkpoint, references,
                 gc, mutators>>

RunEmptyCheckpoint(t) ==
  /\ t \in empty_checkpoint /\ pc[t] = "idle"
  /\ empty_checkpoint' = empty_checkpoint \ {t}
  /\ UNCHANGED <<heap, contents, marks, markStacks, modes, flags, checkpoint, references, gc,
                 mutators>>

-----------------------------------------------------------------------------
(* The GC thread.  gc.phase is the part of MarkingPhase it is in:          *)
(*   local, switch, shared       the three modes of the mark stack         *)
(*   soft, clear1, final, clear2 ProcessReferences                         *)
(*   sweep, reenable, disable    the end of MarkingPhase                   *)
(*   reclaim, done               ReclaimPhase                              *)
(* and gc.step the place in the procedures these call.                     *)

Listed == {t \in Threads : pc[t] \notin {"unborn", "gone"}}
At(phases, step) == gc.phase \in phases /\ gc.step = step
Goto(phase, step) == gc' = [gc EXCEPT !.phase = phase, !.step = step, !.empty = TRUE,
                                      !.empty_prev = FALSE]
Step(step) == gc' = [gc EXCEPT !.step = step]

\* Variant without the empty checkpoint of b/32508093.
ProcessSharedAtOnce(mode) == IF mode = "local" THEN "revoke" ELSE "work"

\* ProcessMarkStackOnce: what has to be waited for depends on the mode.
ProcessMarkStackOnce(mode) ==
  CASE mode = "local" -> "revoke"
    [] mode = "shared" -> "empty"
    [] OTHER -> "work"

\* All threads are flipped: MarkingPhase starts.
StartMarking ==
  /\ At({"flip"}, "flip") /\ \A t \in Threads : pc[t] # "unflipped"
  /\ Goto("local", ProcessMarkStackOnce(mark_stack_mode))
  /\ UNCHANGED <<heap, contents, marks, markStacks, modes, flags, requests, references, mutators>>

\* ThreadList::RunCheckpoint, with the callback it runs under the thread list
\* lock: DisableWeakRefAccessCallback or DisableMarkingCallback.
IssueCheckpoint ==
  /\ gc.step = "revoke"
  /\ checkpoint' = Listed
  /\ weak_access' = (weak_access /\ gc.phase # "switch")
  /\ is_marking' = (is_marking /\ gc.phase # "disable")
  /\ Step("join")
  /\ UNCHANGED <<heap, contents, marks, markStacks, modes, weak_ref_access_enabled, is_gc_marking,
                 empty_checkpoint, references, mutators>>

RevokedMarkStacks ==
  /\ At({"local", "switch"}, "join") /\ checkpoint = {}
  /\ gc' = [gc EXCEPT !.step = "work", !.todo = revoked_mark_stacks]
  /\ revoked_mark_stacks' = <<>>
  /\ UNCHANGED <<heap, contents, marks, gc_mark_stack, thread_local_mark_stack, modes, flags,
                 requests, references, mutators>>

\* Variant that does not wake the threads that wait for weak access.
AskWithoutWaking ==
  /\ gc.step = "empty"
  /\ empty_checkpoint' = Listed
  /\ Step("answers")
  /\ UNCHANGED <<heap, contents, marks, markStacks, modes, flags, checkpoint, references, mutators>>

\* ThreadList::RunEmptyCheckpoint asks, wakes the threads that wait for weak
\* access, and waits until all have answered.
IssueEmptyCheckpoint ==
  /\ gc.step = "empty"
  /\ empty_checkpoint' = Listed
  /\ Broadcast({"referent", "clear", "weak_global"})
  /\ Step("answers")
  /\ UNCHANGED <<heap, contents, marks, markStacks, modes, flags, checkpoint, references, reg, roots,
                 ops>>

EmptyCheckpointDone ==
  /\ At({"shared"}, "answers") /\ empty_checkpoint = {}
  /\ Step("work")
  /\ UNCHANGED <<heap, contents, marks, markStacks, modes, flags, requests, references, mutators>>

\* The next reference of the stacks that were taken; in shared mode, when
\* these are exhausted, all that is on the GC mark stack by now.
TakeNext ==
  /\ gc.step = "work"
  /\ \/ /\ gc.todo # <<>>
        /\ gc' = [gc EXCEPT !.step = "scan", !.obj = Head(gc.todo), !.todo = Tail(gc.todo),
                            !.empty = FALSE]
        /\ UNCHANGED gc_mark_stack
     \/ /\ gc.todo = <<>> /\ gc.phase # "switch" /\ gc_mark_stack # <<>>
        /\ IF mark_stack_mode = "shared"
           THEN gc_mark_stack' = <<>> /\ gc' = [gc EXCEPT !.todo = gc_mark_stack]
           ELSE /\ gc_mark_stack' = Front(gc_mark_stack)
                /\ gc' = [gc EXCEPT !.step = "scan", !.obj = Last(gc_mark_stack), !.empty = FALSE]
  /\ UNCHANGED <<heap, contents, marks, revoked_mark_stacks, thread_local_mark_stack, modes, flags,
                 requests, references, mutators>>

\* ProcessMarkStackRef: Scan, with a Process for the field, then the color.
Scan ==
  LET o == gc.obj
      r == field[o]
  IN /\ gc.step = "scan"
     /\ IF o \in bitmap
        THEN Step("whiten") /\ UNCHANGED <<marks, gc_mark_stack>>
        ELSE /\ bitmap' = bitmap \union ({o} \intersect heap.unevac)
             /\ Mark(r)
             /\ gc' = [gc EXCEPT !.step = "update", !.ref = r]
     /\ UNCHANGED <<heap, contents, revoked_mark_stacks, thread_local_mark_stack, modes, flags,
                    requests, references, mutators>>

\* The field is updated unless a mutator wrote to it.
UpdateField ==
  /\ gc.step = "update"
  /\ field' = [field EXCEPT ![gc.obj] = IF @ = gc.ref THEN ToSpace(@) ELSE @]
  /\ gc' = [gc EXCEPT !.step = IF IsReference(gc.obj) THEN "delay" ELSE "whiten", !.ref = Null]
  /\ UNCHANGED <<heap, referent, weak_global, marks, markStacks, modes, flags, requests, references,
                 mutators>>

\* DelayReferenceReferent: IsNullOrMarkedHeapReference loads the referent ...
DelayReferenceReferent ==
  LET o == gc.obj
      r == referent[o]
  IN /\ gc.step = "delay"
     /\ IF NewlyMarked(r)
        THEN /\ queue' = IF IsUnprocessed(o) THEN [queue EXCEPT ![heap.kind[o]] = <<o>> \o @]
                         ELSE queue
             /\ Step("whiten")
        ELSE /\ gc' = [gc EXCEPT !.step = "update_referent", !.ref = r]
             /\ UNCHANGED queue
     /\ UNCHANGED <<heap, contents, marks, markStacks, modes, flags, requests, cleared_references,
                    collector, preserving_references, mutators>>

\* Variant: a plain store of the referent that was loaded.
StoreReferent ==
  /\ gc.step = "update_referent"
  /\ referent' = [referent EXCEPT ![gc.obj] = ToSpace(gc.ref)]
  /\ gc' = [gc EXCEPT !.step = "whiten", !.ref = Null]
  /\ UNCHANGED <<heap, field, weak_global, marks, markStacks, modes, flags, requests, references,
                 mutators>>

\* ... and replaces it by a compare-and-swap.
UpdateReferent ==
  /\ gc.step = "update_referent"
  /\ referent' = [referent EXCEPT ![gc.obj] = IF @ = gc.ref THEN ToSpace(@) ELSE @]
  /\ gc' = [gc EXCEPT !.step = "whiten", !.ref = Null]
  /\ UNCHANGED <<heap, field, weak_global, marks, markStacks, modes, flags, requests, references,
                 mutators>>

\* Variant that whitens every reference it has scanned.
WhitenAlways ==
  /\ gc.step = "whiten"
  /\ gray' = gray \ {gc.obj}
  /\ gc' = [gc EXCEPT !.step = "work", !.obj = Null]
  /\ UNCHANGED <<heap, contents, forwarded, bitmap, markStacks, modes, flags, requests,
                 references, mutators>>

\* A reference whose referent is not marked stays gray while it is queued.
Whiten ==
  LET r == referent[gc.obj]
      keep == IsReference(gc.obj) /\ r # Null /\ ~IsInToSpace(r)
  IN /\ gc.step = "whiten"
     /\ gray' = IF keep THEN gray ELSE gray \ {gc.obj}
     /\ gc' = [gc EXCEPT !.step = "work", !.obj = Null]
     /\ UNCHANGED <<heap, contents, forwarded, bitmap, markStacks, modes, flags, requests,
                    references, mutators>>

-----------------------------------------------------------------------------
(* The end of a ProcessMarkStackOnce, and what follows the second that     *)
(* finds the stack empty.                                                  *)

Exhausted == gc.step = "work" /\ gc.todo = <<>> /\ gc_mark_stack = <<>>
Converged == Exhausted /\ gc.empty /\ gc.empty_prev

ProcessAgain ==
  /\ Exhausted /\ gc.phase # "switch" /\ ~Converged
  /\ gc' = [gc EXCEPT !.step = ProcessMarkStackOnce(mark_stack_mode), !.empty = TRUE,
                      !.empty_prev = gc.empty]
  /\ UNCHANGED <<heap, contents, marks, markStacks, modes, flags, requests, references, mutators>>

SwitchToSharedMarkStackMode ==
  /\ gc.phase = "local" /\ Converged
  /\ mark_stack_mode' = "shared"
  /\ Goto("switch", "revoke")
  /\ UNCHANGED <<heap, contents, marks, markStacks, is_mark_stack_push_disallowed, flags, requests,
                 references, mutators>>

\* The last thread-local mark stacks are processed.
SharedMode ==
  /\ gc.phase = "switch" /\ gc.step = "work" /\ gc.todo = <<>>
  /\ Goto("shared", ProcessMarkStackOnce(mark_stack_mode))
  /\ UNCHANGED <<heap, contents, marks, markStacks, modes, flags, requests, references, mutators>>

\* SwitchToGcExclusiveMarkStackMode and the start of ProcessReferences.
SwitchToGcExclusiveMarkStackMode ==
  /\ gc.phase = "shared" /\ Converged
  /\ mark_stack_mode' = "exclusive"
  /\ collector' = TRUE
  /\ preserving_references' = ~heap.clear_soft
  /\ IF heap.clear_soft THEN Goto("clear1", "dequeue")
     ELSE gc' = [gc EXCEPT !.phase = "soft", !.step = "forward", !.empty_prev = FALSE,
                           !.todo = Reverse(queue["soft"])]
  /\ UNCHANGED <<heap, contents, marks, markStacks, is_mark_stack_push_disallowed, flags, requests,
                 queue, cleared_references, mutators>>

\* ReferenceQueue::ForwardSoftReferences keeps the referents of soft references.
ForwardSoftReferences ==
  /\ At({"soft"}, "forward")
  /\ IF gc.todo = <<>>
     THEN Step(ProcessMarkStackOnce(mark_stack_mode)) /\ UNCHANGED <<marks, gc_mark_stack, referent>>
     ELSE LET o == Head(gc.todo)
          IN /\ Mark(referent[o])
             /\ referent' = [referent EXCEPT ![o] = ToSpace(@)]
             /\ gc' = [gc EXCEPT !.todo = Tail(@)]
             /\ UNCHANGED bitmap
  /\ UNCHANGED <<heap, field, weak_global, revoked_mark_stacks, thread_local_mark_stack, modes,
                 flags, requests, references, mutators>>

StopPreservingReferences ==
  /\ gc.phase \in {"soft", "final"} /\ Converged
  /\ preserving_references' = FALSE
  /\ Broadcast({"referent", "clear"})
  /\ Goto(IF gc.phase = "soft" THEN "clear1" ELSE "clear2", "dequeue")
  /\ UNCHANGED <<heap, contents, marks, markStacks, modes, flags, requests, queue,
                 cleared_references, collector, reg, roots, ops>>

\* The queue that is emptied next, in the order of ProcessReferences.
Pending ==
  LET order == CASE gc.phase = "clear1" -> <<"soft", "weak">>
                 [] gc.phase = "final" -> <<"finalizer">>
                 [] OTHER -> <<"soft", "weak", "phantom">>
  IN SelectSeq(order, LAMBDA k : queue[k] # <<>>)

\* DequeuePendingReference and the load of IsNullOrMarkedHeapReference.
DequeuePendingReference ==
  /\ At({"clear1", "final", "clear2"}, "dequeue") /\ Pending # <<>>
  /\ LET k == Head(Pending)
         o == Head(queue[k])
     IN /\ queue' = [queue EXCEPT ![k] = Tail(@)]
        /\ gc' = [gc EXCEPT !.step = "settle", !.obj = o, !.ref = referent[o]]
  /\ UNCHANGED <<heap, contents, marks, markStacks, modes, flags, requests, cleared_references,
                 collector, preserving_references, mutators>>

\* ClearWhiteReferences and EnqueueFinalizerReferences: a marked referent is
\* updated, another is cleared; a finalizer reference keeps it as its zombie.
\* DisableReadBarrierForReference follows.
Settle ==
  LET o == gc.obj
      r == gc.ref
      dead == NewlyMarked(r)
      zombie == dead /\ gc.phase = "final"
  IN /\ gc.step = "settle"
     /\ referent' = [referent EXCEPT ![o] = IF dead THEN Null ELSE ToSpace(r)]
     /\ field' = IF zombie THEN [field EXCEPT ![o] = ToSpace(r)] ELSE field
     /\ forwarded' = IF zombie THEN forwarded \union ({r[1]} \ heap.unevac) ELSE forwarded
     /\ gray' = (IF zombie THEN gray \union {r[1]} ELSE gray) \ {o}
     /\ gc_mark_stack' = IF zombie THEN Append(gc_mark_stack, r[1]) ELSE gc_mark_stack
     /\ cleared_references' = IF dead THEN cleared_references \union {o} ELSE cleared_references
     /\ gc' = [gc EXCEPT !.step = "dequeue", !.obj = Null, !.ref = Null]
     /\ UNCHANGED <<heap, weak_global, bitmap, revoked_mark_stacks, thread_local_mark_stack, modes,
                    flags, requests, queue, collector, preserving_references, mutators>>

\* The first ClearWhiteReferences are done: StartPreservingReferences.
PreserveFinalizable ==
  /\ At({"clear1"}, "dequeue") /\ Pending = <<>>
  /\ preserving_references' = TRUE
  /\ Goto("final", "dequeue")
  /\ UNCHANGED <<heap, contents, marks, markStacks, modes, flags, requests, queue,
                 cleared_references, collector, mutators>>

FinalizersEnqueued ==
  /\ At({"final"}, "dequeue") /\ Pending = <<>>
  /\ Step(ProcessMarkStackOnce(mark_stack_mode))
  /\ UNCHANGED <<heap, contents, marks, markStacks, modes, flags, requests, references, mutators>>

\* The end of ProcessReferences.
ReferencesProcessed ==
  /\ At({"clear2"}, "dequeue") /\ Pending = <<>>
  /\ collector' = FALSE
  /\ Goto("sweep", "sweep")
  /\ UNCHANGED <<heap, contents, marks, markStacks, modes, flags, requests, queue,
                 cleared_references, preserving_references, mutators>>

-----------------------------------------------------------------------------
\* Variant that only clears the weak globals of dead objects.
ClearSystemWeaks ==
  /\ At({"sweep"}, "sweep")
  /\ weak_global' = IF weak_global = Null \/ NewlyMarked(weak_global) THEN Null ELSE weak_global
  /\ Step(ProcessMarkStackOnce(mark_stack_mode))
  /\ UNCHANGED <<heap, field, referent, marks, markStacks, modes, flags, requests, references,
                 mutators>>

\* SweepSystemWeaks, for the JNI weak globals.
SweepSystemWeaks ==
  /\ At({"sweep"}, "sweep")
  /\ weak_global' = IF weak_global = Null THEN Null ELSE IsMarked(weak_global)
  /\ Step(ProcessMarkStackOnce(mark_stack_mode))
  /\ UNCHANGED <<heap, field, referent, marks, markStacks, modes, flags, requests, references,
                 mutators>>

ReenableWeakRefAccess ==
  /\ gc.phase = "sweep" /\ Converged
  /\ weak_ref_access_enabled' = [t \in Threads |-> TRUE]
  /\ weak_access' = TRUE
  /\ Goto("reenable", "broadcast")
  /\ UNCHANGED <<heap, contents, marks, markStacks, modes, is_gc_marking, is_marking, requests,
                 references, mutators>>

UnblockWeakRefAccess ==
  /\ At({"reenable"}, "broadcast")
  /\ Broadcast({"referent", "clear", "weak_global"})
  /\ Goto("disable", "revoke")
  /\ UNCHANGED <<heap, contents, marks, markStacks, modes, flags, requests, references, reg, roots,
                 ops>>

DisableMarking ==
  /\ At({"disable"}, "join") /\ checkpoint = {}
  /\ is_mark_stack_push_disallowed' = TRUE
  /\ mark_stack_mode' = "off"
  /\ Goto("reclaim", "empty")
  /\ UNCHANGED <<heap, contents, marks, markStacks, flags, requests, references, mutators>>

\* ReclaimPhase: the from-space is released.
ClearFromSpace ==
  /\ At({"reclaim"}, "answers") /\ empty_checkpoint = {}
  /\ is_mark_stack_push_disallowed' = FALSE
  /\ Goto("done", "done")
  /\ UNCHANGED <<heap, contents, marks, markStacks, mark_stack_mode, flags, requests, references,
                 mutators>>

-----------------------------------------------------------------------------
Access(t) ==
  \/ \E r \in roots[t] :
       \/ GetField(t, r)
       \/ \E v \in roots[t] \union {Null} : SetField(t, r, v)
       \/ GetReferent(t, r)
       \/ ClearReferent(t, r)
  \/ DecodeWeakGlobal(t) \/ Unregister(t) \/ Register(t)

Continue(t) ==
  \/ Load(t) \/ MarkByMutator(t) \/ LoadMode(t) \/ PushOntoMarkStack(t) \/ Slow(t)
  \/ RunCheckpoint(t) \/ RunEmptyCheckpoint(t)

Collect ==
  \/ \E t \in Threads : FlipThread(t)
  \/ StartMarking \/ IssueCheckpoint \/ RevokedMarkStacks
  \/ IssueEmptyCheckpoint \/ EmptyCheckpointDone
  \/ TakeNext \/ Scan \/ UpdateField \/ DelayReferenceReferent \/ UpdateReferent \/ Whiten
  \/ ProcessAgain \/ SwitchToSharedMarkStackMode \/ SharedMode
  \/ SwitchToGcExclusiveMarkStackMode \/ ForwardSoftReferences \/ StopPreservingReferences
  \/ DequeuePendingReference \/ Settle \/ PreserveFinalizable \/ FinalizersEnqueued
  \/ ReferencesProcessed \/ SweepSystemWeaks \/ ReenableWeakRefAccess \/ UnblockWeakRefAccess
  \/ DisableMarking \/ ClearFromSpace

\* The collection is over and the bounded mutators have nothing left to do.
Finished ==
  /\ gc.phase = "done" /\ \A t \in Threads : pc[t] \in {"unborn", "idle", "gone"}
  /\ UNCHANGED vars

Next == (\E t \in Threads : Access(t) \/ Continue(t) \/ SpuriousWakeup(t)) \/ Collect \/ Finished

Spec == Init /\ [][Next]_vars

\* The GC thread and every mutator in the middle of an access are scheduled,
\* and a mutator reaches a suspend point after finitely many accesses (MaxOps).
Fairness == WF_vars(Collect) /\ \A t \in Threads : WF_vars(Continue(t))

FairSpec == Spec /\ Fairness

-----------------------------------------------------------------------------
(* Properties.                                                             *)

Held(t) == roots[t] \union ({ToSpace(reg[t].ref)} \ {Null})

\* The objects that can be reached from the references of S through the
\* strong fields, and through referents as well when weakly is TRUE.
Reach(S, weakly) ==
  LET targets(o) == {field[o]} \union (IF weakly THEN {referent[o]} ELSE {})
      step(R) == R \union {r[1] : r \in UNION {targets(o) : o \in R} \ {Null}}
      reach[n \in 0 .. Cardinality(Objects)] ==
        IF n = 0 THEN {r[1] : r \in S} ELSE step(reach[n - 1])
  IN reach[Cardinality(Objects)]

AllHeld == UNION {Held(t) : t \in Threads}

\* To-space invariant: from the flip on, a mutator holds no address that the
\* collection is about to free (AssertToSpaceInvariant): every reference that a
\* read barrier, GetReferent or a weak global gave it is that of a marked object.
ToSpaceInvariant ==
  \A t \in Threads : pc[t] # "unflipped" => \A r \in roots[t] : IsInToSpace(r)

\* When the from-space is released, whatever a mutator can still reach, through
\* fields, referents and the weak global, is marked and addressed in the to-space.
NoFromSpaceRefs ==
  gc.phase = "done" =>
    LET live == Reach(AllHeld \union ({weak_global} \ {Null}), TRUE)
    IN /\ weak_global # Null => IsInToSpace(weak_global)
       /\ \A o \in live :
            \A r \in {field[o], referent[o]} \ {Null} : IsInToSpace(r)

\* Marking converges: in the GC-exclusive mode, and once pushes are disallowed,
\* no mutator is between graying an object and pushing it, and the stacks that
\* CheckEmptyMarkStack looks at are empty where it is called.
MarkingConverges ==
  /\ mark_stack_mode \in {"exclusive", "off"} =>
       /\ \A t \in Threads : pc[t] # "push" /\ thread_local_mark_stack[t] = <<>>
       /\ revoked_mark_stacks = <<>>
  /\ gc.phase = "shared" /\ gc.step \notin {"empty", "answers"} =>
       revoked_mark_stacks = <<>>
  /\ gc.phase \in {"clear1", "clear2", "reenable", "disable", "reclaim"} => gc_mark_stack = <<>>

\* Reference.get() is stable: a referent that was cleared never comes back, and
\* the collector clears only referents no mutator can reach through strong fields.
ReferentDiscipline ==
  [][\A o \in Objects :
       /\ referent[o] = Null => referent'[o] = Null
       /\ gc.step = "settle" /\ gc.obj = o /\ referent[o] # Null /\ referent'[o] = Null
            => referent[o][1] \notin Reach(AllHeld, FALSE)]_vars

\* The collection completes although threads block, runnable, on weak access
\* while it asks them for checkpoints, and each such access returns.
Collected == gc.phase = "done" /\ \A t \in Threads : pc[t] \notin {"slow", "wait"}
CollectionCompletes == <>[]Collected
=============================================================================
