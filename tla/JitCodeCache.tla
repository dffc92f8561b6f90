---------------------------- MODULE JitCodeCache ----------------------------
(***************************************************************************)
(* The JIT code cache: compiled code is committed, entered, invalidated    *)
(* and garbage collected while Java threads keep running.                  *)
(*                                                                         *)
(* Code lives in slots, the allocations of the code mspace.  Compilers     *)
(* commit code and collect the cache; mutators call methods, profile,      *)
(* replace frames (OSR), deoptimize, and link a class that breaks the      *)
(* single-implementation assumption of class hierarchy analysis (CHA).     *)
(*                                                                         *)
(* A block that holds lock_ is a step.  Mutators read and write entry      *)
(* points and saved entry points without lock_, so MethodEntered and       *)
(* InvalidateCompiledCodeFor take a step per access.  Delays says whether  *)
(* another thread may run between those accesses.                          *)
(***************************************************************************)
EXTENDS Integers, Sequences, FiniteSets

CONSTANTS
  Mutators, Compilers, Methods, NoMethod,
  Loops,               \* the methods with a loop
  Callers,             \* the methods that call the virtual method of CHA
  NoCode,              \* the null code pointer
  Bridge,              \* GetQuickToInterpreterBridge()
  NoThread,
  InitialCapacity, ReservedCapacity, Megabyte, MaxCapacity,  \* in slots
  MaxCalls, MaxCompiles, MaxDepth,     \* bounds of the instance
  Delays

Threads == Mutators \cup Compilers
Slots == 1..MaxCapacity

JitAssumption ==
  /\ {InitialCapacity, ReservedCapacity, Megabyte, MaxCapacity} \subseteq Nat \ {0}
  /\ InitialCapacity <= MaxCapacity
  /\ {MaxCalls, MaxCompiles, MaxDepth} \subseteq Nat
  /\ Delays \in BOOLEAN
  /\ Mutators \cap Compilers = {} /\ NoThread \notin Threads
  /\ NoMethod \notin Methods
  /\ Bridge \notin Slots /\ NoCode \notin Slots /\ Bridge # NoCode

VARIABLES
  entry,               \* ArtMethod::entry_point_from_quick_compiled_code_
  info,                \* whether a method has its ProfilingInfo
  orphan,              \* whether profiling_infos_ has one that it lost
  saved,               \* ProfilingInfo::saved_entry_point_
  compiled,            \* ProfilingInfo::is_[osr_]method_being_compiled_
  method_code_map,     \* the method of the code in a slot, or NoMethod
  assumes,             \* the slots whose code assumes a single implementation
  osr_code_map,        \* the OSR code of a method, or NoCode
  allocated,           \* the slots in use in the code mspace
  live_bitmap,
  collection_in_progress,
  capacity,            \* current_capacity_
  increased,           \* last_collection_increased_code_cache_
  single,              \* HasSingleImplementation of the method assumed about
  dependents,          \* cha_dependency_map_: methods and their code
  cha_lock,
  linked,              \* the class that overrides the method is linked
  marking,             \* the threads still to run MarkCodeClosure
  flagging,            \* the threads still to run CHACheckpoint
  stack,               \* the Java frames of a thread, the innermost first
  pc, local,
  calls, compiles      \* what is left of the bounds

cache == <<method_code_map, assumes, osr_code_map, allocated, live_bitmap>>
collector == <<collection_in_progress, capacity, increased>>
profile == <<info, orphan, saved, compiled>>
cha == <<single, dependents, cha_lock, linked>>
checkpoints == <<marking, flagging>>
vars == <<entry, profile, cache, collector, cha, checkpoints, stack, pc,
          local, calls, compiles>>

NoLocal == [m |-> NoMethod, s |-> NoCode, todo |-> {},
            osr |-> FALSE, cha |-> FALSE, retry |-> FALSE, full |-> FALSE]

Init ==
  /\ entry = [m \in Methods |-> Bridge]
  /\ info = [m \in Methods |-> FALSE]
  /\ orphan = [m \in Methods |-> FALSE]
  /\ saved = [m \in Methods |-> NoCode]
  /\ compiled = [m \in Methods |-> {}]
  /\ method_code_map = [s \in Slots |-> NoMethod]
  /\ assumes = {}
  /\ osr_code_map = [m \in Methods |-> NoCode]
  /\ allocated = {}
  /\ live_bitmap = {}
  /\ collection_in_progress = FALSE
  /\ capacity = InitialCapacity
  /\ increased = FALSE
  /\ single = TRUE /\ dependents = {} /\ cha_lock = NoThread /\ linked = FALSE
  /\ marking = {} /\ flagging = {}
  /\ stack = [t \in Mutators |-> <<>>]
  /\ pc = [t \in Threads |-> IF t \in Mutators THEN "run" ELSE "idle"]
  /\ local = [t \in Threads |-> NoLocal]
  /\ calls = MaxCalls
  /\ compiles = MaxCompiles

ContainsPc(e) == e \in Slots

Goto(t, label) == pc' = [pc EXCEPT ![t] = label]
With(t, l) == local' = [local EXCEPT ![t] = l]

\* Without delays the steps of an access sequence run together.
InSequence == {"publish", "invalidate_entry"}
Runs(t) == Delays \/ \A u \in Threads \ {t} : pc[u] \notin InSequence

Compiled(m, s) == [code |-> s, m |-> m, deoptimize |-> FALSE]
Interpreted(m) == [code |-> NoCode, m |-> m, deoptimize |-> FALSE]

-----------------------------------------------------------------------------
(* Java threads *)

\* A call through the method's entry point.
Call(t, m) ==
  /\ pc[t] = "run" /\ Len(stack[t]) < MaxDepth /\ calls > 0
  /\ entry[m] # NoCode
  /\ calls' = calls - 1
  /\ IF ContainsPc(entry[m])
     THEN Goto(t, "enter") /\ With(t, [NoLocal EXCEPT !.m = m, !.s = entry[m]])
     ELSE Goto(t, "execute") /\ With(t, [NoLocal EXCEPT !.m = m])
  /\ UNCHANGED <<entry, profile, cache, collector, cha, checkpoints, stack, compiles>>

EnterCode(t) ==
  /\ pc[t] = "enter"
  /\ stack' = [stack EXCEPT ![t] = <<Compiled(local[t].m, local[t].s)>> \o @]
  /\ Goto(t, "run") /\ With(t, NoLocal)
  /\ UNCHANGED <<entry, profile, cache, collector, cha, checkpoints, calls, compiles>>

ReturnFrom(t) ==
  /\ pc[t] = "run" /\ stack[t] # <<>>
  /\ stack' = [stack EXCEPT ![t] = Tail(@)]
  /\ UNCHANGED <<entry, profile, cache, collector, cha, checkpoints, pc, local,
                 calls, compiles>>

\* A new ProfilingInfo for m, unless it has one.
AddProfilingInfo(m) ==
  /\ info' = [info EXCEPT ![m] = TRUE]
  /\ UNCHANGED <<orphan, saved, compiled>>

\* The interpreter enters the method: it finds a saved entry point, or takes
\* samples, upon which the method may become warm.
MethodEntered(t) ==
  LET m == local[t].m
  IN /\ pc[t] = "execute"
     /\ IF info[m] /\ saved[m] # NoCode
        THEN /\ Goto(t, "publish")
             /\ With(t, [local[t] EXCEPT !.s = saved[m]])
             /\ UNCHANGED profile
        ELSE /\ AddProfilingInfo(m) \/ UNCHANGED profile
             /\ Goto(t, "invoke")
             /\ UNCHANGED local
     /\ UNCHANGED <<entry, cache, collector, cha, checkpoints, stack, calls, compiles>>

\* UpdateMethodsCode with the saved entry point.  The field is not atomic: the
\* compiler may load it again or use what was tested.
UpdateMethodsCode(t) ==
  /\ pc[t] = "publish"
  /\ \E e \in {local[t].s, saved[local[t].m]} :
       entry' = [entry EXCEPT ![local[t].m] = e]
  /\ Goto(t, "invoke")
  /\ UNCHANGED <<profile, cache, collector, cha, checkpoints, stack, local,
                 calls, compiles>>

\* CanInvokeCompiledCode: call the compiled code or interpret.
InvokeOrInterpret(t) ==
  LET e == entry[local[t].m]
  IN /\ pc[t] = "invoke"
     /\ IF ContainsPc(e)
        THEN /\ Goto(t, "enter") /\ With(t, [local[t] EXCEPT !.s = e])
             /\ UNCHANGED stack
        ELSE /\ stack' = [stack EXCEPT ![t] = <<Interpreted(local[t].m)>> \o @]
             /\ Goto(t, "run") /\ With(t, NoLocal)
     /\ UNCHANGED <<entry, profile, cache, collector, cha, checkpoints, calls, compiles>>

\* At a back edge of an interpreted loop: look for OSR code and jump to it, with
\* no suspension in between.
MaybeDoOnStackReplacement(t) ==
  /\ pc[t] = "run" /\ stack[t] # <<>> /\ stack[t][1].code = NoCode
  /\ LET m == stack[t][1].m
     IN /\ ContainsPc(entry[m]) /\ osr_code_map[m] # NoCode
        /\ Len(stack[t]) <= MaxDepth
        /\ With(t, [NoLocal EXCEPT !.m = m, !.s = osr_code_map[m]])
  /\ Goto(t, "enter")
  /\ calls > 0 /\ calls' = calls - 1
  /\ UNCHANGED <<entry, profile, cache, collector, cha, checkpoints, stack, compiles>>

-----------------------------------------------------------------------------
(* Invalidation *)

\* Compiled code asks to be deoptimized: its frame's check fails, or the flag that
\* CHACheckpoint sets is found.
DeoptimizeSingleFrame(t) ==
  /\ pc[t] = "run" /\ stack[t] # <<>> /\ ContainsPc(stack[t][1].code)
  /\ With(t, [NoLocal EXCEPT !.todo = {<<stack[t][1].m, stack[t][1].code>>}])
  /\ Goto(t, "invalidate")
  /\ UNCHANGED <<entry, profile, cache, collector, cha, checkpoints, stack, calls, compiles>>

\* A class that overrides the method is linked: under cha_lock_, take back what
\* was compiled for a single implementation.
InvalidateSingleImplementationMethods(t) ==
  /\ pc[t] = "run" /\ single /\ cha_lock = NoThread
  /\ single' = FALSE
  /\ IF dependents = {}
     THEN linked' = TRUE /\ UNCHANGED <<cha_lock, pc, local>>
     ELSE /\ cha_lock' = t
          /\ With(t, [NoLocal EXCEPT !.todo = dependents, !.cha = TRUE])
          /\ Goto(t, "invalidate")
          /\ UNCHANGED linked
  /\ UNCHANGED <<entry, profile, cache, collector, dependents, checkpoints, stack,
                 calls, compiles>>

\* InvalidateCompiledCodeFor, first the saved entry point.
InvalidateSavedEntryPoint(t) ==
  /\ pc[t] = "invalidate"
  /\ \E d \in local[t].todo :
       /\ saved' = IF info[d[1]] /\ saved[d[1]] = d[2]
                   THEN [saved EXCEPT ![d[1]] = NoCode] ELSE saved
       /\ With(t, [local[t] EXCEPT !.m = d[1], !.s = d[2]])
  /\ Goto(t, "invalidate_entry")
  /\ UNCHANGED <<entry, info, orphan, compiled, cache, collector, cha,
                 checkpoints, stack, calls, compiles>>

\* Then the entry point, or else the OSR code; and after the last dependent
\* CHACheckpoint is run, or the deoptimized frame goes on in the interpreter.
InvalidateEntryPoint(t) ==
  LET m == local[t].m
      s == local[t].s
      rest == local[t].todo \ {<<m, s>>}
  IN /\ pc[t] = "invalidate_entry"
     /\ IF entry[m] = s
        THEN entry' = [entry EXCEPT ![m] = Bridge] /\ UNCHANGED osr_code_map
        ELSE /\ osr_code_map' = IF osr_code_map[m] = s
                                THEN [osr_code_map EXCEPT ![m] = NoCode]
                                ELSE osr_code_map
             /\ UNCHANGED entry
     /\ \/ /\ rest # {}
           /\ With(t, [local[t] EXCEPT !.todo = rest]) /\ Goto(t, "invalidate")
           /\ UNCHANGED <<stack, cha, flagging>>
        \/ /\ rest = {} /\ local[t].cha
           /\ flagging' = Mutators
           /\ dependents' = {} /\ cha_lock' = NoThread
           /\ Goto(t, "run_checkpoint")
           /\ UNCHANGED <<stack, local, single, linked>>
        \/ /\ rest = {} /\ ~local[t].cha
           /\ stack' = [stack EXCEPT ![t][1] = Interpreted(m)]
           /\ With(t, NoLocal) /\ Goto(t, "run")
           /\ UNCHANGED <<cha, flagging>>
     /\ UNCHANGED <<profile, method_code_map, assumes, allocated, live_bitmap,
                    collector, marking, calls, compiles>>

WaitForThreadsToRunThroughCheckpoint(t) ==
  /\ pc[t] = "run_checkpoint" /\ flagging = {}
  /\ linked' = TRUE
  /\ With(t, NoLocal) /\ Goto(t, "run")
  /\ UNCHANGED <<entry, profile, cache, collector, single, dependents, cha_lock,
                 checkpoints, stack, calls, compiles>>

-----------------------------------------------------------------------------
(* Checkpoints *)

\* A thread can run a checkpoint, or have it run, where it can be suspended.
AtSafepoint(t) == pc[t] \in {"run", "run_checkpoint"}

\* CHACheckpoint: frames of code that assumes a single implementation.
CHACheckpoint(t) ==
  /\ t \in flagging /\ AtSafepoint(t)
  /\ flagging' = flagging \ {t}
  /\ stack' = [stack EXCEPT ![t] =
       [k \in DOMAIN @ |-> IF @[k].code \in assumes
                           THEN [@[k] EXCEPT !.deoptimize = TRUE] ELSE @[k]]]
  /\ UNCHANGED <<entry, profile, cache, collector, cha, marking, pc, local,
                 calls, compiles>>

\* MarkCodeClosure: the compiled code of the thread's frames is live.
MarkCode(t) ==
  /\ t \in marking /\ AtSafepoint(t)
  /\ marking' = marking \ {t}
  /\ live_bitmap' = live_bitmap \cup
       {s \in Slots : \E k \in DOMAIN stack[t] : stack[t][k].code = s}
  /\ UNCHANGED <<entry, profile, method_code_map, assumes, osr_code_map, allocated,
                 collector, cha, flagging, stack, pc, local, calls, compiles>>

-----------------------------------------------------------------------------
(* Compilation *)

Kind(osr) == IF osr THEN "osr" ELSE "method"

\* Jit::CompileMethod, as far as the code cache admits the compilation.  The
\* compiler assumes a single implementation while there is one.
NotifyCompilationOf(t, m, osr) ==
  /\ pc[t] = "idle" /\ compiles > 0
  /\ osr \/ ~ContainsPc(entry[m])
  /\ osr => m \in Loops /\ osr_code_map[m] = NoCode
  /\ info[m] /\ Kind(osr) \notin compiled[m]
  /\ compiled' = [compiled EXCEPT ![m] = @ \cup {Kind(osr)}]
  /\ compiles' = compiles - 1
  /\ With(t, [NoLocal EXCEPT !.m = m, !.osr = osr, !.cha = (m \in Callers /\ single)])
  /\ Goto(t, "commit")
  /\ UNCHANGED <<entry, info, orphan, saved, cache, collector, cha,
                 checkpoints, stack, calls>>

\* CommitCode retries once, after a collection of the cache.
Retry(t) ==
  IF local[t].retry
  THEN Goto(t, "compiled") /\ UNCHANGED local
  ELSE Goto(t, "collect") /\ With(t, [local[t] EXCEPT !.retry = TRUE])

\* CommitCodeInternal, first block: wait for a collection, then allocate.
AllocateCode(t) ==
  LET free == (1..capacity) \ allocated
  IN /\ pc[t] = "commit"
     /\ \/ /\ collection_in_progress
           /\ Goto(t, "wait_to_commit")
           /\ UNCHANGED <<allocated, local>>
        \/ /\ ~collection_in_progress /\ free = {}
           /\ Retry(t)
           /\ UNCHANGED allocated
        \/ /\ ~collection_in_progress
           /\ \E s \in free :
                /\ \A q \in free : s <= q
                /\ allocated' = allocated \cup {s}
                /\ With(t, [local[t] EXCEPT !.s = s])
           /\ Goto(t, "allocated")
     /\ UNCHANGED <<entry, profile, method_code_map, assumes, osr_code_map,
                    live_bitmap, collector, cha, checkpoints, stack, calls, compiles>>

\* Variant: code committed during a collection is left to the collection.
NotMarked(s) == live_bitmap

\* The code of a compilation is seen live by a collection in progress.
SeenLive(s) == IF collection_in_progress THEN live_bitmap \cup {s} ELSE live_bitmap

\* Variant: the assumption is not checked again when the code is committed.
CheckedEarlier(t) == TRUE

AssumptionHolds(t) == local[t].cha => single

\* CommitCodeInternal, second block, under cha_lock_ and lock_: check the
\* assumption, register it, and make the code the method's.
CommitCode(t) ==
  LET m == local[t].m
      s == local[t].s
  IN /\ pc[t] = "allocated" /\ cha_lock = NoThread
     /\ AssumptionHolds(t)
     /\ dependents' = IF local[t].cha THEN dependents \cup {<<m, s>>} ELSE dependents
     /\ assumes' = IF local[t].cha THEN assumes \cup {s} ELSE assumes \ {s}
     /\ method_code_map' = [method_code_map EXCEPT ![s] = m]
     /\ IF local[t].osr
        THEN osr_code_map' = [osr_code_map EXCEPT ![m] = s] /\ UNCHANGED entry
        ELSE entry' = [entry EXCEPT ![m] = s] /\ UNCHANGED osr_code_map
     /\ live_bitmap' = SeenLive(s)
     /\ Goto(t, "compiled")
     /\ UNCHANGED <<profile, allocated, collector, single, cha_lock, linked,
                    checkpoints, stack, local, calls, compiles>>

\* The assumption no longer holds: the code is discarded, its memory is not freed.
DiscardCode(t) ==
  /\ pc[t] = "allocated" /\ cha_lock = NoThread
  /\ local[t].cha /\ ~single
  /\ Retry(t)
  /\ UNCHANGED <<entry, profile, cache, collector, cha, checkpoints, stack, calls, compiles>>

DoneCompiling(t) ==
  /\ pc[t] = "compiled"
  /\ compiled' = [compiled EXCEPT ![local[t].m] = @ \ {Kind(local[t].osr)}]
  /\ With(t, NoLocal) /\ Goto(t, "idle")
  /\ UNCHANGED <<entry, info, orphan, saved, cache, collector, cha,
                 checkpoints, stack, calls, compiles>>

-----------------------------------------------------------------------------
(* Collection *)

ShouldDoFullCollection(c, inc) ==
  \/ c = MaxCapacity
  \/ c >= ReservedCapacity /\ inc

IncreaseCodeCacheCapacity ==
  LET more == IF capacity < Megabyte THEN 2 * capacity ELSE capacity + Megabyte
  IN IF more > MaxCapacity THEN MaxCapacity ELSE more

\* Wait for a collection, and be content with it, or start one.
GarbageCollectCache(t) ==
  /\ pc[t] = "collect"
  /\ IF collection_in_progress
     THEN Goto(t, "wait_to_collect") /\ UNCHANGED <<cache, collection_in_progress, local>>
     ELSE /\ live_bitmap' = {}
          /\ collection_in_progress' = TRUE
          /\ With(t, [local[t] EXCEPT !.full = ShouldDoFullCollection(capacity, increased)])
          /\ Goto(t, "do_collection")
          /\ UNCHANGED <<method_code_map, assumes, osr_code_map, allocated>>
  /\ UNCHANGED <<entry, profile, capacity, increased, cha, checkpoints, stack,
                 calls, compiles>>

\* The wait for the collection ends; a spurious wakeup finds it in progress.
WaitForPotentialCollectionToComplete(t) ==
  /\ pc[t] = "collected"
  /\ Goto(t, IF collection_in_progress THEN "wait_to_collect" ELSE "commit")
  /\ UNCHANGED <<entry, profile, cache, collector, cha, checkpoints, stack, local,
                 calls, compiles>>

\* Variant: only the threads that wait to collect are woken.
CollectorsAwake(label) == IF label = "wait_to_collect" THEN "collected" ELSE label

Awake(label) ==
  CASE label = "wait_to_commit" -> "commit"
    [] label = "wait_to_collect" -> "collected"
    [] OTHER -> label

SpuriousWakeup(t) ==
  /\ pc[t] \in {"wait_to_commit", "wait_to_collect"}
  /\ Goto(t, Awake(pc[t]))
  /\ UNCHANGED <<entry, profile, cache, collector, cha, checkpoints, stack, local,
                 calls, compiles>>

\* Variant: OSR compilations are not seen.
CompilesMethod(m) == "method" \in compiled[m]

IsInUseByCompiler(m) == compiled[m] # {}

\* The methods whose profile a full collection takes away.
LosesProfile(m) == info[m] /\ ~ContainsPc(entry[m]) /\ ~IsInUseByCompiler(m)

\* DoCollection, under lock_: a full collection takes the profiles away from
\* methods that are not compiled and drops saved entry points; code that is an
\* entry point is live; the OSR map is emptied.
DoCollection(t) ==
  /\ pc[t] = "do_collection"
  /\ IF local[t].full
     THEN /\ info' = [m \in Methods |-> info[m] /\ ~LosesProfile(m)]
          /\ orphan' = [m \in Methods |-> LosesProfile(m)]
          /\ saved' = [m \in Methods |-> NoCode]
     ELSE UNCHANGED <<info, orphan, saved>>
  /\ live_bitmap' = live_bitmap \cup
       {s \in Slots : method_code_map[s] # NoMethod /\ entry[method_code_map[s]] = s}
  /\ osr_code_map' = [m \in Methods |-> NoCode]
  /\ marking' = Mutators
  /\ Goto(t, "mark")
  /\ UNCHANGED <<entry, compiled, method_code_map, assumes, allocated,
                 collector, cha, flagging, stack, local, calls, compiles>>

\* All threads have run MarkCodeClosure: forget the code that is not marked.
RemoveUnmarkedCode(t) ==
  /\ pc[t] = "mark" /\ marking = {}
  /\ LET unmarked == {s \in Slots \ live_bitmap : method_code_map[s] # NoMethod}
     IN /\ method_code_map' = [s \in Slots |->
                                 IF s \in unmarked THEN NoMethod ELSE method_code_map[s]]
        /\ With(t, [local[t] EXCEPT !.todo = unmarked])
  /\ Goto(t, "free")
  /\ UNCHANGED <<entry, profile, assumes, osr_code_map, allocated, live_bitmap,
                 collector, cha, checkpoints, stack, calls, compiles>>

\* FreeAllMethodHeaders: first the dependencies, under cha_lock_, then the code.
RemoveDependentsWithMethodHeaders(t) ==
  /\ pc[t] = "free" /\ cha_lock = NoThread
  /\ dependents' = {d \in dependents : d[2] \notin local[t].todo}
  /\ Goto(t, "free_code")
  /\ UNCHANGED <<entry, profile, cache, collector, single, cha_lock, linked,
                 checkpoints, stack, local, calls, compiles>>

FreeCode(t) ==
  /\ pc[t] = "free_code"
  /\ allocated' = allocated \ local[t].todo
  /\ assumes' = assumes \ local[t].todo
  /\ Goto(t, IF local[t].full THEN "free_profiles" ELSE "finish")
  /\ UNCHANGED <<entry, profile, method_code_map, osr_code_map, live_bitmap, collector,
                 cha, checkpoints, stack, local, calls, compiles>>

\* Give a revived method its profile back; free the profiles nobody has.
FreeProfilingInfos(t) ==
  /\ pc[t] = "free_profiles"
  /\ info' = [m \in Methods |-> info[m] \/ (orphan[m] /\ ContainsPc(entry[m]))]
  /\ orphan' = [m \in Methods |-> FALSE]
  /\ Goto(t, "finish")
  /\ UNCHANGED <<entry, saved, compiled, cache, collector, cha, checkpoints, stack,
                 local, calls, compiles>>

\* The end of the collection, under lock_: grow after a partial collection; if the
\* next one is full, save the entry points of compiled methods and send their
\* callers to the interpreter; wake the waiters.
NotifyCollectionDone(t) ==
  LET more == IF local[t].full THEN capacity ELSE IncreaseCodeCacheCapacity
      saves == IF ShouldDoFullCollection(more, ~local[t].full)
               THEN {m \in Methods : info[m] /\ ContainsPc(entry[m])} ELSE {}
  IN /\ pc[t] = "finish"
     /\ increased' = ~local[t].full
     /\ capacity' = more
     /\ saved' = [m \in Methods |-> IF m \in saves THEN entry[m] ELSE saved[m]]
     /\ entry' = [m \in Methods |-> IF m \in saves THEN Bridge ELSE entry[m]]
     /\ live_bitmap' = {}
     /\ collection_in_progress' = FALSE
     /\ pc' = [u \in Threads |-> IF u = t THEN "commit" ELSE Awake(pc[u])]
     /\ With(t, [local[t] EXCEPT !.todo = {}, !.full = FALSE])
     /\ UNCHANGED <<info, orphan, compiled, method_code_map, assumes,
                    osr_code_map, allocated, cha, checkpoints, stack, calls, compiles>>

-----------------------------------------------------------------------------
\* What a thread does of its own accord, and what it goes on to do.
Begin(t) ==
  \/ /\ t \in Mutators
     /\ \/ \E m \in Methods : Call(t, m)
        \/ MaybeDoOnStackReplacement(t)
        \/ DeoptimizeSingleFrame(t)
        \/ InvalidateSingleImplementationMethods(t)
  \/ /\ t \in Compilers
     /\ \/ \E m \in Methods, osr \in BOOLEAN : NotifyCompilationOf(t, m, osr)
        \/ SpuriousWakeup(t)

GoOn(t) ==
  \/ /\ t \in Mutators
     /\ \/ EnterCode(t) \/ ReturnFrom(t)
        \/ MethodEntered(t) \/ UpdateMethodsCode(t) \/ InvokeOrInterpret(t)
        \/ InvalidateSavedEntryPoint(t) \/ InvalidateEntryPoint(t)
        \/ WaitForThreadsToRunThroughCheckpoint(t)
  \/ /\ t \in Compilers
     /\ \/ AllocateCode(t) \/ CommitCode(t) \/ DiscardCode(t) \/ DoneCompiling(t)
        \/ GarbageCollectCache(t) \/ WaitForPotentialCollectionToComplete(t)
        \/ DoCollection(t) \/ RemoveUnmarkedCode(t)
        \/ RemoveDependentsWithMethodHeaders(t) \/ FreeCode(t)
        \/ FreeProfilingInfos(t) \/ NotifyCollectionDone(t)

RunCheckpoint(t) == t \in Mutators /\ (CHACheckpoint(t) \/ MarkCode(t))

\* All calls and compilations are used up.
Finished ==
  /\ calls = 0 /\ \A t \in Compilers : pc[t] = "idle"
  /\ UNCHANGED vars

Next ==
  \/ \E t \in Threads : Runs(t) /\ (Begin(t) \/ GoOn(t) \/ RunCheckpoint(t))
  \/ Finished

Spec == Init /\ [][Next]_vars

FairSpec ==
  /\ Spec
  /\ \A t \in Threads : WF_vars(Runs(t) /\ GoOn(t))
  /\ \A t \in Mutators : WF_vars(Runs(t) /\ CHACheckpoint(t)) /\ WF_vars(Runs(t) /\ MarkCode(t))

-----------------------------------------------------------------------------
(* Properties *)

Installed(m, s) == s \in allocated /\ method_code_map[s] = m

\* Code that a thread runs or is about to enter, and code that an entry point, a
\* saved entry point or the OSR map names, is in the cache and is its method's: a
\* collection frees nothing that can still be run (DoCollection: "we can safely
\* remove those entries").
CodeInUseIsKept ==
  /\ \A t \in Mutators : \A k \in DOMAIN stack[t] :
       ContainsPc(stack[t][k].code) => Installed(stack[t][k].m, stack[t][k].code)
  /\ \A t \in Mutators : pc[t] = "enter" => Installed(local[t].m, local[t].s)
  /\ \A m \in Methods :
       /\ entry[m] # Bridge => ContainsPc(entry[m]) /\ Installed(m, entry[m])
       /\ osr_code_map[m] # NoCode => Installed(m, osr_code_map[m])
       /\ saved[m] # NoCode => Installed(m, saved[m])

\* Once a class that overrides the method is linked, code compiled for a single
\* implementation is not entered: nothing leads to it any more, and its frames carry
\* the flag that deoptimizes them (InvalidateSingleImplementationMethods).
InvalidatedCodeIsNotUsed ==
  linked =>
    /\ \A t \in Mutators : \A k \in DOMAIN stack[t] :
         stack[t][k].code \in assumes => stack[t][k].deoptimize
    /\ \A t \in Mutators : pc[t] = "enter" => local[t].s \notin assumes
    /\ \A m \in Methods :
         /\ entry[m] \notin assumes /\ osr_code_map[m] \notin assumes
         /\ saved[m] \notin assumes

\* A compilation keeps the profile it began with until DoneCompiling, and a method
\* whose code is its entry point has a profile, except while a full collection has
\* taken it away (CheckLiveCompiledCodeHasProfilingInfo).
ProfileIsKept ==
  /\ \A t \in Compilers :
       pc[t] # "idle" => /\ info[local[t].m]
                         /\ Kind(local[t].osr) \in compiled[local[t].m]
  /\ (\A t \in Compilers : ~local[t].full) =>
       \A m \in Methods : ContainsPc(entry[m]) => info[m]

\* Every compilation ends: collections terminate, and a compiler that waits for
\* one is woken (NotifyCollectionDone).
CompilationsReturn == \A t \in Compilers : pc[t] # "idle" ~> pc[t] = "idle"

\* When the threads have run MarkCodeClosure, no entry point names code that is not
\* marked (DoCollection: entry points "cannot change to a code cache entry that is
\* not marked").
EntryPointsAreMarked ==
  \A t \in Compilers :
    pc[t] = "mark" /\ marking = {} =>
      \A m \in Methods : ContainsPc(entry[m]) => entry[m] \in live_bitmap

\* The memory of the code that is not installed belongs to a compilation or to the
\* collection about to free it: discarded code is freed.
DiscardedCodeIsFreed ==
  \A s \in allocated :
    \/ method_code_map[s] # NoMethod
    \/ \E t \in Compilers : pc[t] = "allocated" /\ local[t].s = s
    \/ \E t \in Compilers : s \in local[t].todo

=============================================================================
