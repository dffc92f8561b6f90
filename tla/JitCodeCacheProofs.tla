------------------------- MODULE JitCodeCacheProofs -------------------------
(***************************************************************************)
(* Proofs about JitCodeCache.tla, for any sets of threads and methods, any *)
(* capacities and any bounds: when no other thread runs between the two    *)
(* accesses of a sequence, code in use is kept and invalidated code is not *)
(* used; profiles in use are kept.                                         *)
(***************************************************************************)
EXTENDS JitCodeCacheMutators

USE DEF cache, collector, profile, cha, checkpoints, Threads

\* What a step of a compiler alone does not touch.
LEMMA NotMarking ==
  ASSUME NEW t \in Compilers, CompilerAlone(t), pc'[t] # "mark"
  PROVE  Marking' => Marking
  BY Zenon DEF CompilerAlone, Marking

\* what is marked stays so,
LEMMA MarksKept ==
  ASSUME IInv, NEW t \in Compilers, CompilerAlone(t), pc'[t] # "mark",
         UNCHANGED <<entry, osr_code_map, live_bitmap, marking, stack>>
  PROVE  MarkEntryInv' /\ MarkEnterInv' /\ MarkFramesInv'
<1>1. Marking' => Marking
  BY NotMarking, Zenon
<1>2. MarkEntryInv'
  BY <1>1, Zenon DEF IInv, MarkEntryInv
<1>3. MarkEnterInv'
  BY <1>1, Zenon DEF IInv, CompilerAlone, MarkEnterInv
<1>4. MarkFramesInv'
  BY <1>1, Zenon DEF IInv, MarkFramesInv
<1> QED
  BY <1>2, <1>3, <1>4, Zenon

\* the single-implementation assumption is as before,
LEMMA ChaKept ==
  ASSUME IInv, NEW t, CompilerAlone(t), UNCHANGED <<single, linked, cha_lock, flagging>>
  PROVE  ChaInv' /\ (TakenBack' <=> TakenBack)
         /\ \A u \in Mutators : Invalidating(u)' <=> Invalidating(u)
<1>1. ChaInv'
  BY Zenon DEF IInv, CompilerAlone, ChaInv, Invalidating
<1>2. \A u \in Mutators : Invalidating(u)' <=> Invalidating(u)
  BY Zenon DEF CompilerAlone, Invalidating
<1>3. TakenBack' <=> TakenBack
  BY <1>2, Zenon DEF TakenBack
<1> QED
  BY <1>1, <1>2, <1>3, Zenon

\* and so is all that the mutators rely on.
LEMMA MutatorsKept ==
  ASSUME IInv, NEW t, CompilerAlone(t), allocated \subseteq allocated',
         UNCHANGED <<entry, saved, osr_code_map, assumes, method_code_map, single, linked,
                     cha_lock, flagging, stack>>
  PROVE  /\ PlaceInv' /\ FramesInv' /\ EnterInv' /\ EntryInv' /\ ChaInv' /\ TakenBackInv'
         /\ UnreachableInv' /\ FlagEnterInv' /\ FlagFramesInv'
<1>1. PlaceInv'
  <2>1. ASSUME NEW u \in Mutators PROVE Place(u)'
    <3>1. pc'[u] = pc[u] /\ local'[u] = local[u] /\ stack'[u] = stack[u] /\ Place(u)
      BY Zenon DEF IInv, CompilerAlone, PlaceInv
    <3> QED
      BY <3>1, Zenon DEF Place
  <2> QED
    BY <2>1, Zenon DEF PlaceInv
<1>2. FramesInv' /\ EntryInv'
  <2>1. \A m, s : Installed(m, s) => Installed(m, s)'
    BY Zenon DEF Installed
  <2>2. FramesInv'
    BY <2>1, Zenon DEF IInv, FramesInv
  <2>3. EntryInv'
    BY <2>1, Zenon DEF IInv, EntryInv
  <2> QED
    BY <2>2, <2>3, Zenon
<1>3. EnterInv'
  BY Zenon DEF IInv, CompilerAlone, EnterInv, Installed
<1>4. ChaInv' /\ (TakenBack' <=> TakenBack)
  BY ChaKept, Zenon
<1>5. TakenBackInv'
  BY Zenon DEF IInv, CompilerAlone, TakenBackInv, Invalidating, Reachable
<1>6. UnreachableInv'
  BY <1>4, Zenon DEF IInv, UnreachableInv, Reachable
<1>7. FlagEnterInv' /\ FlagFramesInv'
  BY <1>4, Zenon DEF IInv, CompilerAlone, FlagEnterInv, FlagFramesInv
<1> QED
  BY <1>1, <1>2, <1>3, <1>4, <1>5, <1>6, <1>7, Zenon

\* A compiler that neither was nor is within a collection.
LEMMA Outside ==
  ASSUME IInv, NEW t \in Compilers, CompilerAlone(t), ~local'[t].full,
         pc[t] \notin Collecting, pc'[t] \notin Collecting,
         UNCHANGED <<collection_in_progress, capacity, increased, saved>>,
         \A m \in Methods : osr_code_map'[m] # NoCode =>
           osr_code_map'[m] # entry'[m] /\ osr_code_map'[m] # saved'[m]
  PROVE  CollectionInv'
  BY Zenon DEF IInv, CompilerAlone, CollectionInv, Collecting

\* In particular when it changes no entry point.
LEMMA NotCollecting ==
  ASSUME IInv, NEW t \in Compilers, CompilerAlone(t), ~local'[t].full,
         pc[t] \notin Collecting, pc'[t] \notin Collecting,
         UNCHANGED <<collection_in_progress, capacity, increased, saved, entry, osr_code_map>>
  PROVE  CollectionInv'
<1>1. \A m \in Methods : osr_code_map'[m] # NoCode =>
        osr_code_map'[m] # entry'[m] /\ osr_code_map'[m] # saved'[m]
  BY Zenon DEF IInv, CollectionInv
<1> QED
  BY <1>1, Outside, Zenon

\* A compiler that goes on with a collection.
LEMMA StillCollecting ==
  ASSUME IInv, NEW t \in Compilers, CompilerAlone(t), local'[t].full = local[t].full,
         pc[t] \in Collecting, pc'[t] \in Collecting \ {"do_collection"},
         UNCHANGED <<collection_in_progress, capacity, increased>>,
         \A m \in Methods : saved'[m] = NoCode,
         \A m \in Methods : osr_code_map'[m] # NoCode => osr_code_map'[m] # entry'[m]
  PROVE  CollectionInv'
<1>1. CollectionInv
  BY Zenon DEF IInv
<1>2. \A u \in Compilers : u # t => pc[u] \notin Collecting
  BY <1>1, Zenon DEF CollectionInv
<1>3. \A u \in Compilers : u # t => pc'[u] \notin Collecting /\ ~local'[u].full
  BY <1>1, <1>2, Zenon DEF CollectionInv, CompilerAlone
<1>4. collection_in_progress
  BY <1>1, Zenon DEF CollectionInv
<1>5. \A u, v \in Compilers : pc'[u] \in Collecting /\ pc'[v] \in Collecting => u = v
  BY <1>3, Zenon
<1>6. collection_in_progress' <=> \E u \in Compilers : pc'[u] \in Collecting
  BY <1>4, Zenon
<1>7. \A u \in Compilers :
        /\ local'[u].full => pc'[u] \in Collecting
        /\ pc'[u] # "do_collection"
  BY <1>3, Zenon DEF Collecting
<1>8. \A m \in Methods : osr_code_map'[m] # NoCode =>
        osr_code_map'[m] # entry'[m] /\ osr_code_map'[m] # saved'[m]
  BY Zenon
<1> QED
  BY <1>5, <1>6, <1>7, <1>8, Zenon DEF CollectionInv

\* In particular when it changes no entry point.
LEMMA GoesOn ==
  ASSUME IInv, NEW t \in Compilers, CompilerAlone(t), local'[t].full = local[t].full,
         pc[t] \in Collecting \ {"do_collection"}, pc'[t] \in Collecting \ {"do_collection"},
         UNCHANGED <<collection_in_progress, capacity, increased, saved, entry, osr_code_map>>
  PROVE  CollectionInv'
<1>1. /\ \A m \in Methods : saved'[m] = NoCode
      /\ \A m \in Methods : osr_code_map'[m] # NoCode => osr_code_map'[m] # entry'[m]
  BY Zenon DEF IInv, CollectionInv
<1> QED
  BY <1>1, StillCollecting, Zenon

\* The return from a failed commit or a first failed allocation to the next step of
\* the compilation.
LEMMA RetryMoves ==
  ASSUME JitAssumption, IInv, NEW t \in Compilers, Retry(t)
  PROVE  /\ ControlOK' /\ CompilerAlone(t) /\ pc'[t] \in {"compiled", "collect"}
         /\ local'[t].full = local[t].full
         /\ local'[t].m = local[t].m /\ local'[t].osr = local[t].osr
<1>1. CASE Goto(t, "compiled") /\ UNCHANGED local
  BY <1>1, CompilerMoves, Zenon DEF IInv, CompilerLabels
<1>2. CASE Goto(t, "collect") /\ With(t, [local[t] EXCEPT !.retry = TRUE])
  <2>1. local[t] \in Local(Slots)
    BY Zenon DEF IInv, ControlOK
  <2>2. [local[t] EXCEPT !.retry = TRUE] \in Local(Slots)
    BY <2>1, Zenon DEF Local
  <2>3. ControlOK' /\ CompilerAlone(t) /\ pc'[t] = "collect"
    BY <1>2, <2>2, CompilerMoves, Zenon DEF IInv, CompilerLabels
  <2>4. local'[t] = [local[t] EXCEPT !.retry = TRUE]
    BY <1>2, Given, Zenon DEF IInv
  <2> QED
    BY <2>1, <2>3, <2>4, Zenon DEF Local
<1> QED
  BY <1>1, <1>2, Zenon DEF Retry

\* Memory in hand is as before when the compiler that moves has none.
LEMMA NothingAllocated ==
  ASSUME IInv, NEW t \in Compilers, CompilerAlone(t), pc'[t] # "allocated",
         allocated \subseteq allocated', UNCHANGED method_code_map
  PROVE  MemoryInv'
<1>1. \A u \in Compilers : pc'[u] = "allocated" => pc[u] = "allocated"
         /\ local'[u] = local[u]
  BY Zenon DEF CompilerAlone
<1>2. MemoryInv
  BY Zenon DEF IInv
<1> QED
  BY <1>1, <1>2, Zenon DEF MemoryInv

\* A compiler goes on with its compilation.
LEMMA CompilationKept ==
  ASSUME IInv, NEW t \in Compilers, CompilerAlone(t), pc[t] # "idle",
         local'[t].m = local[t].m, local'[t].osr = local[t].osr,
         UNCHANGED compiled, \A m \in Methods : info[m] => info'[m]
  PROVE  CompilingInv'
<1>1. \A u \in Compilers :
        /\ pc'[u] # "idle" => pc[u] # "idle"
        /\ local'[u].m = local[u].m /\ local'[u].osr = local[u].osr
  BY Zenon DEF CompilerAlone
<1>2. CompilingInv
  BY Zenon DEF IInv
<1> QED
  BY <1>1, <1>2 DEF CompilingInv

-----------------------------------------------------------------------------
\* NotifyCompilationOf starts a compilation.
LEMMA NotifyCompilationOfKeeps ==
  ASSUME JitAssumption, ~Delays, IInv, NEW t \in Compilers, Runs(t),
         NEW m \in Methods, NEW osr \in BOOLEAN, NotifyCompilationOf(t, m, osr)
  PROVE  IInv'
<1>1. /\ pc[t] = "idle" /\ info[m]
      /\ UNCHANGED <<entry, info, orphan, saved, cache, collector, cha, checkpoints, stack>>
  BY Zenon DEF NotifyCompilationOf
<1>2. /\ ControlOK' /\ CompilerAlone(t) /\ pc'[t] = "commit"
      /\ local'[t].m = m /\ local'[t].osr = osr /\ ~local'[t].full
  <2>1. [NoLocal EXCEPT !.m = m, !.osr = osr, !.cha = (m \in Callers /\ single)] \in Local(Slots)
    BY Zenon DEF Local, NoLocal
  <2>2. Goto(t, "commit")
           /\ With(t, [NoLocal EXCEPT !.m = m, !.osr = osr, !.cha = (m \in Callers /\ single)])
    BY Zenon DEF NotifyCompilationOf
  <2>3. ControlOK' /\ CompilerAlone(t) /\ pc'[t] = "commit"
    BY <2>1, <2>2, CompilerMoves, Zenon DEF IInv, CompilerLabels, Collecting
  <2>4. local'[t] = [NoLocal EXCEPT !.m = m, !.osr = osr, !.cha = (m \in Callers /\ single)]
    BY <2>2, Given, Zenon DEF IInv
  <2> QED
    BY <2>3, <2>4, Zenon DEF NoLocal
<1>3. /\ compiled' \in [Methods -> SUBSET {"osr", "method"}]
      /\ Kind(osr) \notin compiled[m] /\ Kind(osr) \in compiled'[m]
      /\ \A n \in Methods : compiled[n] \subseteq compiled'[n]
  BY Zenon DEF NotifyCompilationOf, IInv, TypeOK, Kind
<1>4. TypeOK'
  BY <1>1, <1>3, Zenon DEF IInv, TypeOK
<1>5. /\ PlaceInv' /\ FramesInv' /\ EnterInv' /\ EntryInv' /\ ChaInv' /\ TakenBackInv'
      /\ UnreachableInv' /\ FlagEnterInv' /\ FlagFramesInv'
  BY <1>1, <1>2, MutatorsKept, Zenon
<1>6. MarkEntryInv' /\ MarkEnterInv' /\ MarkFramesInv'
  BY <1>1, <1>2, MarksKept, Zenon
<1>7. SequenceInv'
  BY <1>1, <1>2, Zenon DEF IInv, CompilerAlone, SequenceInv, InSequence, Runs
<1>8. CollectionInv'
  BY <1>1, <1>2, NotCollecting, Zenon DEF Collecting
<1>9. MemoryInv'
  BY <1>1, <1>2, NothingAllocated, Zenon
<1>10. MappedInv'
  BY <1>1, Zenon DEF IInv, MappedInv
<1>11. FreedInv'
  BY <1>1, <1>2 DEF IInv, CompilerAlone, FreedInv
<1>12. DependentsInv'
  BY <1>1, Zenon DEF IInv, DependentsInv
<1>13. CompilingInv'
  <2>1. \A u \in Compilers : pc'[u] # "idle" =>
          /\ local'[u].m \in Methods /\ info'[local'[u].m]
          /\ Kind(local'[u].osr) \in compiled'[local'[u].m]
    BY <1>1, <1>2, <1>3 DEF IInv, CompilerAlone, CompilingInv
  <2>2. \A u \in Compilers : pc[u] # "idle" /\ local[u].m = m => local[u].osr # osr
    BY <1>3, Zenon DEF IInv, CompilingInv
  <2>3. \A v, u \in Compilers :
          pc'[v] # "idle" /\ pc'[u] # "idle" /\ u # v /\ local'[u].m = local'[v].m =>
            local'[u].osr # local'[v].osr
    <3>1. \A u \in Compilers : u # t => pc'[u] = pc[u] /\ local'[u] = local[u]
      BY <1>2, Zenon DEF CompilerAlone
    <3>2. CompilingInv
      BY Zenon DEF IInv
    <3> QED
      BY <1>2, <2>2, <3>1, <3>2 DEF CompilingInv
  <2> QED
    BY <2>1, <2>3, Zenon DEF CompilingInv
<1>14. ProfileInv'
  BY <1>1, Zenon DEF IInv, ProfileInv
<1> QED
  BY <1>2, <1>4, <1>5, <1>6, <1>7, <1>8, <1>9, <1>10, <1>11, <1>12, <1>13, <1>14, Zenon
     DEF IInv

\* A wait for a collection that wakes up.
LEMMA SpuriousWakeupKeeps ==
  ASSUME JitAssumption, ~Delays, IInv, NEW t \in Compilers, Runs(t), SpuriousWakeup(t)
  PROVE  IInv'
<1>1. /\ pc[t] \in {"wait_to_commit", "wait_to_collect"}
      /\ UNCHANGED <<entry, profile, cache, collector, cha, checkpoints, stack, local>>
  BY Zenon DEF SpuriousWakeup
<1>2. ControlOK' /\ CompilerAlone(t) /\ pc'[t] \in {"commit", "collected"}
         /\ ~local'[t].full
  <2>1. PICK l \in {"commit", "collected"} : Goto(t, l)
    BY Zenon DEF SpuriousWakeup, Awake
  <2>2. ControlOK' /\ CompilerAlone(t) /\ pc'[t] \in {"commit", "collected"}
    BY <1>1, <2>1, CompilerMoves, Zenon DEF IInv, CompilerLabels
  <2>3. ~local[t].full
    BY <1>1, Zenon DEF IInv, CollectionInv, Collecting
  <2> QED
    BY <1>1, <2>2, <2>3, Zenon
<1>3. TypeOK'
  BY <1>1, Zenon DEF IInv, TypeOK
<1>4. /\ PlaceInv' /\ FramesInv' /\ EnterInv' /\ EntryInv' /\ ChaInv' /\ TakenBackInv'
      /\ UnreachableInv' /\ FlagEnterInv' /\ FlagFramesInv'
  BY <1>1, <1>2, MutatorsKept, Zenon
<1>5. MarkEntryInv' /\ MarkEnterInv' /\ MarkFramesInv'
  BY <1>1, <1>2, MarksKept, Zenon
<1>6. SequenceInv'
  BY <1>1, <1>2, Zenon DEF IInv, CompilerAlone, SequenceInv, InSequence, Runs
<1>7. CollectionInv'
  BY <1>1, <1>2, NotCollecting, Zenon DEF Collecting
<1>8. MemoryInv'
  BY <1>1, <1>2, NothingAllocated, Zenon
<1>9. MappedInv'
  BY <1>1, Zenon DEF IInv, MappedInv
<1>10. FreedInv'
  BY <1>1, <1>2, Zenon DEF IInv, CompilerAlone, FreedInv
<1>11. DependentsInv'
  BY <1>1, Zenon DEF IInv, DependentsInv
<1>12. CompilingInv'
  BY <1>1, <1>2, CompilationKept, Zenon
<1>13. ProfileInv'
  BY <1>1, Zenon DEF IInv, ProfileInv
<1> QED
  BY <1>2, <1>3, <1>4, <1>5, <1>6, <1>7, <1>8, <1>9, <1>10, <1>11, <1>12, <1>13, Zenon
     DEF IInv

\* CommitCodeInternal reserves memory, or fails.
LEMMA AllocateCodeKeeps ==
  ASSUME JitAssumption, ~Delays, IInv, NEW t \in Compilers, Runs(t), AllocateCode(t)
  PROVE  IInv'
<1>1. /\ pc[t] = "commit" /\ ~local[t].full
      /\ UNCHANGED <<entry, profile, method_code_map, assumes, osr_code_map, live_bitmap,
                     collector, cha, checkpoints, stack>>
  BY Zenon DEF AllocateCode, IInv, CollectionInv, Collecting
<1>2. local[t] \in Local(Slots)
  BY Zenon DEF IInv, ControlOK
<1>3. /\ ControlOK' /\ CompilerAlone(t) /\ ~local'[t].full
      /\ local'[t].m = local[t].m /\ local'[t].osr = local[t].osr
      /\ allocated \subseteq allocated' /\ allocated' \subseteq Slots
      /\ \/ pc'[t] \in {"wait_to_commit", "compiled", "collect"}
         \/ /\ pc'[t] = "allocated"
            /\ local'[t].s \in Slots \ allocated /\ local'[t].s \in allocated'
  <2>1. CASE Goto(t, "wait_to_commit") /\ UNCHANGED <<allocated, local>>
    <3>1. ControlOK' /\ CompilerAlone(t) /\ pc'[t] = "wait_to_commit"
      BY <2>1, CompilerMoves, Zenon DEF IInv, CompilerLabels
    <3> QED
      BY <1>1, <2>1, <3>1, Zenon DEF IInv, TypeOK
  <2>2. CASE Retry(t) /\ UNCHANGED allocated
    <3>1. /\ ControlOK' /\ CompilerAlone(t) /\ pc'[t] \in {"compiled", "collect"}
          /\ ~local'[t].full /\ local'[t].m = local[t].m /\ local'[t].osr = local[t].osr
      BY <1>1, <2>2, RetryMoves, Zenon
    <3> QED
      BY <2>2, <3>1, Zenon DEF IInv, TypeOK
  <2>3. ASSUME NEW s \in (1 .. capacity) \ allocated, allocated' = allocated \cup {s},
               With(t, [local[t] EXCEPT !.s = s]), Goto(t, "allocated")
        PROVE  /\ ControlOK' /\ CompilerAlone(t) /\ ~local'[t].full
               /\ local'[t].m = local[t].m /\ local'[t].osr = local[t].osr
               /\ allocated \subseteq allocated' /\ allocated' \subseteq Slots
               /\ pc'[t] = "allocated"
               /\ local'[t].s \in Slots \ allocated /\ local'[t].s \in allocated'
    <3>1. capacity \in 1 .. MaxCapacity /\ MaxCapacity \in Nat /\ allocated \subseteq Slots
      BY Zenon DEF IInv, TypeOK, JitAssumption
    <3>2. s \in Slots \ allocated
      BY <2>3, <3>1 DEF Slots
    <3>3. [local[t] EXCEPT !.s = s] \in Local(Slots)
      BY <1>2, <3>2, Zenon DEF Local
    <3>4. ControlOK' /\ CompilerAlone(t) /\ pc'[t] = "allocated"
      BY <2>3, <3>3, CompilerMoves, Zenon DEF IInv, CompilerLabels
    <3>5. local'[t] = [local[t] EXCEPT !.s = s]
      BY <2>3, Given, Zenon DEF IInv
    <3>6. /\ local'[t].s = s /\ local'[t].m = local[t].m /\ local'[t].osr = local[t].osr
          /\ local'[t].full = local[t].full
      BY <1>2, <3>5, Zenon DEF Local
    <3> QED
      BY <1>1, <2>3, <3>1, <3>2, <3>4, <3>6, Zenon
  <2> QED
    BY <2>1, <2>2, <2>3, Zenon DEF AllocateCode
<1>4. TypeOK'
  BY <1>1, <1>3, Zenon DEF IInv, TypeOK
<1>5. /\ PlaceInv' /\ FramesInv' /\ EnterInv' /\ EntryInv' /\ ChaInv' /\ TakenBackInv'
      /\ UnreachableInv' /\ FlagEnterInv' /\ FlagFramesInv'
  BY <1>1, <1>3, MutatorsKept, Zenon
<1>6. MarkEntryInv' /\ MarkEnterInv' /\ MarkFramesInv'
  BY <1>1, <1>3, MarksKept, Zenon
<1>7. SequenceInv'
  BY <1>1, <1>3, Zenon DEF IInv, CompilerAlone, SequenceInv, InSequence, Runs
<1>8. CollectionInv'
  BY <1>1, <1>3, NotCollecting, Zenon DEF Collecting
<1>9. MemoryInv'
  <2>1. \A u \in Compilers : u # t => pc'[u] = pc[u] /\ local'[u] = local[u]
    BY <1>3, Zenon DEF CompilerAlone
  <2>2. MemoryInv /\ MappedInv
    BY Zenon DEF IInv
  <2>3. pc'[t] = "allocated" => method_code_map[local'[t].s] = NoMethod
    BY <1>3, <2>2, Zenon DEF MappedInv
  <2>4. \A u \in Compilers : pc'[u] = "allocated" =>
          local'[u].s \in allocated' /\ method_code_map'[local'[u].s] = NoMethod
    BY <1>1, <1>3, <2>1, <2>2, <2>3 DEF MemoryInv
  <2>5. \A v, u \in Compilers :
          pc'[v] = "allocated" /\ pc'[u] = "allocated" /\ u # v => local'[u].s # local'[v].s
    <3>1. \A u \in Compilers : pc[u] = "allocated" => local[u].s \in allocated
      BY <2>2, Zenon DEF MemoryInv
    <3>2. \A v, u \in Compilers :
            pc[v] = "allocated" /\ pc[u] = "allocated" /\ u # v => local[u].s # local[v].s
      BY <2>2, Zenon DEF MemoryInv
    <3>3. pc'[t] = "allocated" => local'[t].s \notin allocated
      BY <1>3, Zenon
    <3> QED
      BY <2>1, <3>1, <3>2, <3>3
  <2> QED
    BY <2>4, <2>5, Zenon DEF MemoryInv
<1>10. MappedInv'
  BY <1>1, <1>3, Zenon DEF IInv, MappedInv
<1>11. FreedInv'
  BY <1>1, <1>3 DEF IInv, CompilerAlone, FreedInv
<1>12. DependentsInv'
  BY <1>1, Zenon DEF IInv, DependentsInv
<1>13. CompilingInv'
  BY <1>1, <1>3, CompilationKept, Zenon
<1>14. ProfileInv'
  BY <1>1, Zenon DEF IInv, ProfileInv
<1> QED
  BY <1>3, <1>4, <1>5, <1>6, <1>7, <1>8, <1>9, <1>10, <1>11, <1>12, <1>13, <1>14, Zenon
     DEF IInv

\* CommitCodeInternal publishes the code, unless the assumption it was compiled under
\* has been given up.
LEMMA CommitCodeKeeps ==
  ASSUME JitAssumption, ~Delays, IInv, NEW t \in Compilers, Runs(t), CommitCode(t)
  PROVE  IInv'
<1> DEFINE m == local[t].m
           s == local[t].s
<1>1. /\ pc[t] = "allocated" /\ ~local[t].full /\ cha_lock = NoThread
      /\ local[t].cha => single
      /\ UNCHANGED <<profile, allocated, collector, single, cha_lock, linked, checkpoints,
                     stack, local>>
  BY Zenon DEF CommitCode, AssumptionHolds, IInv, CollectionInv, Collecting
<1>2. ControlOK' /\ CompilerAlone(t) /\ pc'[t] = "compiled"
  <2>1. Goto(t, "compiled") /\ UNCHANGED local
    BY Zenon DEF CommitCode
  <2> QED
    BY <2>1, CompilerMoves, Zenon DEF IInv, CompilerLabels, Collecting
<1>3. /\ m \in Methods /\ s \in Slots /\ s \in allocated /\ method_code_map[s] = NoMethod
      /\ info[m]
  BY <1>1, Zenon DEF IInv, TypeOK, MemoryInv, CompilingInv
<1>4. /\ method_code_map' = [method_code_map EXCEPT ![s] = m]
      /\ dependents' = IF local[t].cha THEN dependents \cup {<<m, s>>} ELSE dependents
      /\ assumes' = IF local[t].cha THEN assumes \cup {s} ELSE assumes \ {s}
      /\ live_bitmap' = SeenLive(s)
      /\ \/ osr_code_map' = [osr_code_map EXCEPT ![m] = s] /\ UNCHANGED entry
         \/ entry' = [entry EXCEPT ![m] = s] /\ UNCHANGED osr_code_map
  BY Zenon DEF CommitCode
<1> HIDE DEF m, s
<1>5. \* The code becomes the method's, the code of the others stays theirs.
      /\ method_code_map' \in [Slots -> Methods \cup {NoMethod}]
      /\ method_code_map'[s] = m
      /\ \A r \in Slots : r # s => method_code_map'[r] = method_code_map[r]
  <2>1. method_code_map \in [Slots -> Methods \cup {NoMethod}]
    BY Zenon DEF IInv, TypeOK
  <2> QED
    BY <1>3, <1>4, <2>1
<1>6. /\ entry' \in [Methods -> Slots \cup {Bridge}]
      /\ osr_code_map' \in [Methods -> Slots \cup {NoCode}]
      /\ \A n \in Methods :
           /\ entry'[n] = entry[n] \/ (n = m /\ entry'[n] = s)
           /\ osr_code_map'[n] = osr_code_map[n] \/ (n = m /\ osr_code_map'[n] = s)
           /\ entry'[n] = entry[n] \/ osr_code_map'[n] = osr_code_map[n]
  <2>1. entry \in [Methods -> Slots \cup {Bridge}]
           /\ osr_code_map \in [Methods -> Slots \cup {NoCode}]
    BY Zenon DEF IInv, TypeOK
  <2> QED
    BY <1>3, <1>4, <2>1, Zenon
<1>7. live_bitmap \subseteq live_bitmap' /\ live_bitmap' \subseteq Slots
      /\ (collection_in_progress => s \in live_bitmap')
  BY <1>3, <1>4, Zenon DEF IInv, TypeOK, SeenLive
<1>8. /\ assumes' \subseteq Slots /\ dependents \subseteq dependents'
      /\ dependents' \subseteq Methods \X Slots
  BY <1>3, <1>4 DEF IInv, TypeOK
<1>9. TypeOK'
  BY <1>1, <1>5, <1>6, <1>7, <1>8, Zenon DEF IInv, TypeOK
<1>10. \* Nothing named the memory of the code.
       \A n \in Methods : entry[n] # s /\ osr_code_map[n] # s /\ saved[n] # s
  BY <1>3 DEF IInv, EntryInv, Installed, JitAssumption
<1>11. \A u \in Mutators : \A k \in DOMAIN stack[u] : stack[u][k].code # s
  <2> SUFFICES ASSUME NEW u \in Mutators, NEW k \in DOMAIN stack[u], stack[u][k].code = s
               PROVE  FALSE
    BY Zenon
  <2>1. stack[u][k] \in Frame
    BY FrameTypes, Zenon DEF IInv
  <2>2. method_code_map[s] = stack[u][k].m
    BY <1>3, Zenon DEF IInv, FramesInv, ContainsPc, Installed
  <2> QED
    BY <1>3, <2>1, <2>2, Zenon DEF Frame, JitAssumption
<1>12. \A u \in Mutators : pc[u] = "enter" => local[u].s # s
  <2> SUFFICES ASSUME NEW u \in Mutators, pc[u] = "enter", local[u].s = s
               PROVE  FALSE
    BY Zenon
  <2>1. local[u].m \in Methods /\ method_code_map[s] = local[u].m
    BY Zenon DEF IInv, EnterInv, PlaceInv, Place, Installed
  <2> QED
    BY <1>3, <2>1, Zenon DEF JitAssumption
<1>13. PlaceInv'
  BY <1>1, <1>2 DEF IInv, CompilerAlone, PlaceInv, Place
<1>14. SequenceInv'
  BY <1>1, <1>2, Zenon DEF IInv, CompilerAlone, SequenceInv, InSequence, Runs
<1>15. CollectionInv'
  <2>1. \A n \in Methods : osr_code_map'[n] # NoCode =>
          osr_code_map'[n] # entry'[n] /\ osr_code_map'[n] # saved'[n]
    <3>1. \A n \in Methods : osr_code_map[n] # NoCode =>
            osr_code_map[n] # entry[n] /\ osr_code_map[n] # saved[n]
      BY Zenon DEF IInv, CollectionInv
    <3> QED
      BY <1>1, <1>6, <1>10, <3>1, Zenon
  <2> QED
    BY <1>1, <1>2, <2>1, Outside, Zenon DEF Collecting
<1>16. \* The memory of the other compilations is not this one's.
       \A u \in Compilers : pc'[u] = "allocated" =>
         u # t /\ pc[u] = "allocated" /\ local'[u] = local[u] /\ local[u].s # s
  <2>1. \A u \in Compilers : u # t /\ pc[u] = "allocated" => local[u].s # s
    BY <1>1, Zenon DEF IInv, MemoryInv, s
  <2> QED
    BY <1>2, <2>1, Zenon DEF CompilerAlone
<1>17. MemoryInv'
  <2>1. MemoryInv
    BY Zenon DEF IInv
  <2>2. allocated \subseteq Slots
    BY Zenon DEF IInv, TypeOK
  <2> QED
    BY <1>1, <1>5, <1>16, <2>1, <2>2, Zenon DEF MemoryInv
<1>18. MappedInv'
  BY <1>1, <1>3, <1>5, Zenon DEF IInv, MappedInv
<1>19. FreedInv'
  <2>1. FreedInv /\ allocated \subseteq Slots
    BY Zenon DEF IInv, TypeOK
  <2>2. \A u \in Compilers : pc'[u] \in {"free", "free_code"} =>
          pc[u] \in {"free", "free_code"} /\ local'[u] = local[u] /\ s \notin local[u].todo
    BY <1>1, <1>2, <2>1, Zenon DEF CompilerAlone, FreedInv, s
  <2> QED
    BY <1>1, <1>5, <1>16, <2>1, <2>2 DEF FreedInv
<1>20. Marking' => Marking /\ s \in live_bitmap'
  <2>1. Marking' => Marking
    BY <1>2, NotMarking, Zenon
  <2>2. Marking => collection_in_progress
    BY Zenon DEF IInv, CollectionInv, Marking, Collecting
  <2> QED
    BY <1>7, <2>1, <2>2, Zenon
<1>21. MarkEntryInv'
  BY <1>6, <1>7, <1>20, Zenon DEF IInv, MarkEntryInv, ContainsPc
<1>22. MarkEnterInv'
  BY <1>1, <1>2, <1>7, <1>20, Zenon DEF IInv, CompilerAlone, MarkEnterInv
<1>23. MarkFramesInv'
  BY <1>1, <1>7, <1>20, Zenon DEF IInv, MarkFramesInv
<1>24. FramesInv'
  <2> SUFFICES ASSUME NEW u \in Mutators, NEW k \in DOMAIN stack[u], stack[u][k].code \in Slots
               PROVE  /\ stack[u][k].code \in allocated
                      /\ method_code_map'[stack[u][k].code] = stack[u][k].m
    BY <1>1, Zenon DEF FramesInv, Installed, ContainsPc
  <2> QED
    BY <1>5, <1>11, Zenon DEF IInv, FramesInv, Installed, ContainsPc
<1>25. EnterInv'
  BY <1>1, <1>2, <1>5, <1>12, Zenon DEF IInv, CompilerAlone, EnterInv, Installed
<1>26. EntryInv'
  <2> SUFFICES ASSUME NEW n \in Methods
               PROVE  /\ entry'[n] # Bridge => entry'[n] \in allocated
                            /\ method_code_map'[entry'[n]] = n
                      /\ osr_code_map'[n] # NoCode => osr_code_map'[n] \in allocated
                           /\ method_code_map'[osr_code_map'[n]] = n
                      /\ saved'[n] # NoCode => saved'[n] \in allocated
                           /\ method_code_map'[saved'[n]] = n
    BY <1>1, Zenon DEF EntryInv, Installed
  <2>1. allocated \subseteq Slots
    BY Zenon DEF IInv, TypeOK
  <2>2. \A r : r # s /\ Installed(n, r) => r \in allocated /\ method_code_map'[r] = n
    BY <1>5, <2>1, Zenon DEF Installed
  <2>3. n = m => s \in allocated /\ method_code_map'[s] = n
    BY <1>3, <1>5, Zenon
  <2>4. /\ entry[n] # Bridge => Installed(n, entry[n])
        /\ osr_code_map[n] # NoCode => Installed(n, osr_code_map[n])
        /\ saved[n] # NoCode => Installed(n, saved[n])
    BY Zenon DEF IInv, EntryInv
  <2> QED
    BY <1>1, <1>6, <1>10, <2>2, <2>3, <2>4
<1>27. ChaInv' /\ (TakenBack' <=> TakenBack)
  BY <1>1, <1>2, ChaKept, Zenon
<1>28. \A u \in Mutators : ~Invalidating(u)'
  <2>1. \A u \in Mutators : ~Invalidating(u)
    BY <1>1, Zenon DEF IInv, ChaInv, Threads, JitAssumption
  <2> QED
    BY <1>1, <1>2, <2>1, ChaKept, Zenon
<1>29. DependentsInv'
  <2> SUFFICES ASSUME single, NEW r \in assumes', method_code_map'[r] # NoMethod
               PROVE  <<method_code_map'[r], r>> \in dependents'
    BY <1>1, Zenon DEF DependentsInv
  <2>1. CASE r = s
    BY <1>4, <1>5, <2>1
  <2>2. CASE r # s
    BY <1>4, <1>5, <1>8, <2>2, Zenon DEF IInv, DependentsInv, TypeOK
  <2> QED
    BY <2>1, <2>2, Zenon
<1>30. TakenBackInv'
  BY <1>28, Zenon DEF TakenBackInv
<1>31. TakenBack' => TakenBack /\ assumes' = assumes \ {s}
  BY <1>1, <1>4, <1>27, Zenon DEF TakenBack
<1>32. UnreachableInv'
  <2>1. \A n \in Methods, r \in assumes : r # s /\ Reachable(n, r)' => Reachable(n, r)
    BY <1>1, <1>6, Zenon DEF Reachable
  <2> QED
    BY <1>31, <2>1, Zenon DEF IInv, UnreachableInv
<1>33. FlagEnterInv'
  BY <1>1, <1>2, <1>31, Zenon DEF IInv, CompilerAlone, FlagEnterInv
<1>34. FlagFramesInv'
  BY <1>1, <1>31, Zenon DEF IInv, FlagFramesInv
<1>35. CompilingInv'
  BY <1>1, <1>2, CompilationKept, Zenon
<1>36. ProfileInv'
  BY <1>1, <1>3, <1>6, Zenon DEF IInv, ProfileInv
<1> QED
  BY <1>2, <1>9, <1>13, <1>14, <1>15, <1>17, <1>18, <1>19, <1>21, <1>22, <1>23, <1>24,
     <1>25, <1>26, <1>27, <1>29, <1>30, <1>32, <1>33, <1>34, <1>35, <1>36, Zenon DEF IInv

\* CommitCodeInternal gives up when the assumption of the code no longer holds.
LEMMA DiscardCodeKeeps ==
  ASSUME JitAssumption, ~Delays, IInv, NEW t \in Compilers, Runs(t), DiscardCode(t)
  PROVE  IInv'
<1>1. /\ pc[t] = "allocated" /\ ~local[t].full
      /\ UNCHANGED <<entry, profile, cache, collector, cha, checkpoints, stack>>
  BY Zenon DEF DiscardCode, IInv, CollectionInv, Collecting
<1>2. /\ ControlOK' /\ CompilerAlone(t) /\ pc'[t] \in {"compiled", "collect"}
         /\ ~local'[t].full
      /\ local'[t].m = local[t].m /\ local'[t].osr = local[t].osr
  BY <1>1, RetryMoves, Zenon DEF DiscardCode
<1>3. TypeOK'
  BY <1>1, Zenon DEF IInv, TypeOK
<1>4. /\ PlaceInv' /\ FramesInv' /\ EnterInv' /\ EntryInv' /\ ChaInv' /\ TakenBackInv'
      /\ UnreachableInv' /\ FlagEnterInv' /\ FlagFramesInv'
  BY <1>1, <1>2, MutatorsKept, Zenon
<1>5. MarkEntryInv' /\ MarkEnterInv' /\ MarkFramesInv'
  BY <1>1, <1>2, MarksKept, Zenon
<1>6. SequenceInv'
  BY <1>1, <1>2, Zenon DEF IInv, CompilerAlone, SequenceInv, InSequence, Runs
<1>7. CollectionInv'
  BY <1>1, <1>2, NotCollecting, Zenon DEF Collecting
<1>8. MemoryInv'
  BY <1>1, <1>2, NothingAllocated, Zenon
<1>9. MappedInv'
  BY <1>1, Zenon DEF IInv, MappedInv
<1>10. FreedInv'
  BY <1>1, <1>2, Zenon DEF IInv, CompilerAlone, FreedInv
<1>11. DependentsInv'
  BY <1>1, Zenon DEF IInv, DependentsInv
<1>12. CompilingInv'
  BY <1>1, <1>2, CompilationKept, Zenon
<1>13. ProfileInv'
  BY <1>1, Zenon DEF IInv, ProfileInv
<1> QED
  BY <1>2, <1>3, <1>4, <1>5, <1>6, <1>7, <1>8, <1>9, <1>10, <1>11, <1>12, <1>13, Zenon
     DEF IInv

\* DoneCompiling ends the compilation.
LEMMA DoneCompilingKeeps ==
  ASSUME JitAssumption, ~Delays, IInv, NEW t \in Compilers, Runs(t), DoneCompiling(t)
  PROVE  IInv'
<1>1. /\ pc[t] = "compiled"
      /\ UNCHANGED <<entry, info, orphan, saved, cache, collector, cha, checkpoints, stack>>
  BY Zenon DEF DoneCompiling
<1>2. ControlOK' /\ CompilerAlone(t) /\ pc'[t] = "idle" /\ ~local'[t].full
  <2>1. NoLocal \in Local(Slots)
    BY Zenon DEF Local, NoLocal
  <2>2. Goto(t, "idle") /\ With(t, NoLocal)
    BY Zenon DEF DoneCompiling
  <2>3. ControlOK' /\ CompilerAlone(t) /\ pc'[t] = "idle"
    BY <2>1, <2>2, CompilerMoves, Zenon DEF IInv, CompilerLabels, Collecting
  <2>4. local'[t] = NoLocal
    BY <2>2, Given, Zenon DEF IInv
  <2> QED
    BY <2>3, <2>4 DEF NoLocal
<1>3. /\ compiled' \in [Methods -> SUBSET {"osr", "method"}]
      /\ \A n \in Methods : n # local[t].m => compiled'[n] = compiled[n]
      /\ \A n \in Methods, o \in BOOLEAN : o # local[t].osr /\ Kind(o) \in compiled[n]
           => Kind(o) \in compiled'[n]
  <2>1. compiled \in [Methods -> SUBSET {"osr", "method"}] /\ local[t].osr \in BOOLEAN
    BY Zenon DEF IInv, TypeOK, ControlOK, Local
  <2> QED
    BY <2>1, Zenon DEF DoneCompiling, Kind
<1>4. TypeOK'
  BY <1>1, <1>3, Zenon DEF IInv, TypeOK
<1>5. /\ PlaceInv' /\ FramesInv' /\ EnterInv' /\ EntryInv' /\ ChaInv' /\ TakenBackInv'
      /\ UnreachableInv' /\ FlagEnterInv' /\ FlagFramesInv'
  BY <1>1, <1>2, MutatorsKept, Zenon
<1>6. MarkEntryInv' /\ MarkEnterInv' /\ MarkFramesInv'
  BY <1>1, <1>2, MarksKept, Zenon
<1>7. SequenceInv'
  BY <1>1, <1>2, Zenon DEF IInv, CompilerAlone, SequenceInv, InSequence, Runs
<1>8. CollectionInv'
  BY <1>1, <1>2, NotCollecting, Zenon DEF Collecting
<1>9. MemoryInv'
  BY <1>1, <1>2, NothingAllocated, Zenon
<1>10. MappedInv'
  BY <1>1, Zenon DEF IInv, MappedInv
<1>11. FreedInv'
  BY <1>1, <1>2, Zenon DEF IInv, CompilerAlone, FreedInv
<1>12. DependentsInv'
  BY <1>1, Zenon DEF IInv, DependentsInv
<1>13. CompilingInv'
  <2>1. \A u \in Compilers : pc'[u] # "idle" =>
          /\ local'[u].m \in Methods /\ info'[local'[u].m]
          /\ Kind(local'[u].osr) \in compiled'[local'[u].m]
    <3> SUFFICES ASSUME NEW u \in Compilers, pc'[u] # "idle"
                 PROVE  /\ local'[u].m \in Methods /\ info'[local'[u].m]
                        /\ Kind(local'[u].osr) \in compiled'[local'[u].m]
      BY Zenon
    <3>1. local[u].osr \in BOOLEAN
      BY Zenon DEF IInv, ControlOK, Local
    <3>2. u # t /\ pc[u] # "idle" /\ local'[u] = local[u]
      BY <1>2, Zenon DEF CompilerAlone
    <3>3. /\ local[u].m \in Methods /\ info[local[u].m]
          /\ Kind(local[u].osr) \in compiled[local[u].m]
          /\ local[u].m = local[t].m => local[u].osr # local[t].osr
      BY <1>1, <3>2, Zenon DEF IInv, CompilingInv
    <3> QED
      BY <1>1, <1>3, <3>1, <3>2, <3>3, Zenon
  <2>2. \A v, u \in Compilers :
          pc'[v] # "idle" /\ pc'[u] # "idle" /\ u # v /\ local'[u].m = local'[v].m =>
            local'[u].osr # local'[v].osr
    <3>1. \A u \in Compilers : pc'[u] # "idle" => pc[u] # "idle" /\ local'[u] = local[u]
      BY <1>2, Zenon DEF CompilerAlone
    <3>2. CompilingInv
      BY Zenon DEF IInv
    <3> QED
      BY <3>1, <3>2 DEF CompilingInv
  <2> QED
    BY <2>1, <2>2, Zenon DEF CompilingInv
<1>14. ProfileInv'
  BY <1>1, Zenon DEF IInv, ProfileInv
<1> QED
  BY <1>2, <1>4, <1>5, <1>6, <1>7, <1>8, <1>9, <1>10, <1>11, <1>12, <1>13, <1>14, Zenon
     DEF IInv

\* GarbageCollectCache starts a collection unless one is under way.
LEMMA GarbageCollectCacheKeeps ==
  ASSUME JitAssumption, ~Delays, IInv, NEW t \in Compilers, Runs(t), GarbageCollectCache(t)
  PROVE  IInv'
<1>0. local[t] \in Local(Slots) /\ pc[t] = "collect" /\ ~local[t].full
  BY Zenon DEF GarbageCollectCache, IInv, ControlOK, CollectionInv, Collecting
<1>1. /\ pc[t] = "collect"
      /\ UNCHANGED <<entry, profile, method_code_map, assumes, osr_code_map, allocated,
                     capacity, increased, cha, checkpoints, stack>>
  BY Zenon DEF GarbageCollectCache
<1>2. /\ ControlOK' /\ CompilerAlone(t) /\ pc'[t] \in {"wait_to_collect", "do_collection"}
      /\ local'[t].m = local[t].m /\ local'[t].osr = local[t].osr
      /\ live_bitmap' \subseteq live_bitmap /\ collection_in_progress' \in BOOLEAN
      /\ \/ /\ pc'[t] = "wait_to_collect" /\ ~local'[t].full
            /\ UNCHANGED <<live_bitmap, collection_in_progress>>
         \/ /\ ~collection_in_progress /\ collection_in_progress' = TRUE
            /\ pc'[t] = "do_collection"
            /\ local'[t].full = ShouldDoFullCollection(capacity, increased)
  <2>1. CASE collection_in_progress
    <3>1. /\ Goto(t, "wait_to_collect")
          /\ UNCHANGED <<live_bitmap, collection_in_progress, local>>
      BY <2>1, Zenon DEF GarbageCollectCache
    <3>2. ControlOK' /\ CompilerAlone(t) /\ pc'[t] = "wait_to_collect"
      BY <3>1, CompilerMoves, Zenon DEF IInv, CompilerLabels
    <3> QED
      BY <1>0, <3>1, <3>2, Zenon DEF IInv, TypeOK
  <2>2. CASE ~collection_in_progress
    <3> DEFINE full == ShouldDoFullCollection(capacity, increased)
    <3>0. full \in BOOLEAN /\ live_bitmap' = {} /\ collection_in_progress' = TRUE
      BY <2>2, Zenon DEF GarbageCollectCache, ShouldDoFullCollection, IInv, TypeOK
    <3>5. Goto(t, "do_collection") /\ With(t, [local[t] EXCEPT !.full = full])
      BY <2>2, Zenon DEF GarbageCollectCache
    <3> HIDE DEF full
    <3>1. [local[t] EXCEPT !.full = full] \in Local(Slots)
      BY <1>0, <3>0, Zenon DEF Local
    <3>2. ControlOK' /\ CompilerAlone(t) /\ pc'[t] = "do_collection"
      BY <3>1, <3>5, CompilerMoves, Zenon DEF IInv, CompilerLabels, Collecting
    <3>3. local'[t] = [local[t] EXCEPT !.full = full]
      BY <3>5, Given, Zenon DEF IInv
    <3>4. /\ local'[t].m = local[t].m /\ local'[t].osr = local[t].osr
          /\ local'[t].full = full
      BY <1>0, <3>3, Zenon DEF Local
    <3> QED
      BY <2>2, <3>0, <3>2, <3>4, Zenon DEF full
  <2> QED
    BY <2>1, <2>2, Zenon
<1>3. TypeOK'
  BY <1>1, <1>2, Zenon DEF IInv, TypeOK
<1>4. /\ PlaceInv' /\ FramesInv' /\ EnterInv' /\ EntryInv' /\ ChaInv' /\ TakenBackInv'
      /\ UnreachableInv' /\ FlagEnterInv' /\ FlagFramesInv'
  BY <1>1, <1>2, MutatorsKept, Zenon
<1>5. MarkEntryInv' /\ MarkEnterInv' /\ MarkFramesInv'
  <2>1. CASE pc'[t] = "wait_to_collect"
    BY <1>1, <1>2, <2>1, MarksKept, Zenon
  <2>2. CASE ~collection_in_progress
    <3>1. \A u \in Compilers : pc[u] \notin Collecting
      BY <2>2, Zenon DEF IInv, CollectionInv
    <3>2. ~Marking'
      BY <1>2, <3>1, Zenon DEF CompilerAlone, Marking, Collecting
    <3> QED
      BY <3>2, Zenon DEF MarkEntryInv, MarkEnterInv, MarkFramesInv
  <2> QED
    BY <1>2, <2>1, <2>2, Zenon
<1>6. SequenceInv'
  BY <1>1, <1>2, Zenon DEF IInv, CompilerAlone, SequenceInv, InSequence, Runs
<1>7. CollectionInv'
  <2>1. CASE pc'[t] = "wait_to_collect"
    BY <1>1, <1>2, <2>1, NotCollecting, Zenon DEF Collecting
  <2>2. CASE ~collection_in_progress /\ pc'[t] # "wait_to_collect"
    <3>1. CollectionInv
      BY Zenon DEF IInv
    <3>2. \A u \in Compilers : pc[u] \notin Collecting /\ ~local[u].full
      BY <2>2, <3>1, Zenon DEF CollectionInv
    <3>3. \A u \in Compilers : u # t => pc'[u] \notin Collecting /\ ~local'[u].full
      BY <1>2, <3>2, Zenon DEF CompilerAlone
    <3>4. /\ collection_in_progress' = TRUE /\ pc'[t] = "do_collection"
          /\ local'[t].full = ShouldDoFullCollection(capacity, increased)
      BY <1>2, <2>2, Zenon
    <3> QED
      BY <1>1, <3>1, <3>3, <3>4, Zenon DEF CollectionInv, Collecting, ShouldDoFullCollection
  <2> QED
    BY <1>2, <2>1, <2>2, Zenon
<1>8. MemoryInv'
  BY <1>1, <1>2, NothingAllocated, Zenon
<1>9. MappedInv'
  BY <1>1, Zenon DEF IInv, MappedInv
<1>10. FreedInv'
  BY <1>1, <1>2, Zenon DEF IInv, CompilerAlone, FreedInv
<1>11. DependentsInv'
  BY <1>1, Zenon DEF IInv, DependentsInv
<1>12. CompilingInv'
  BY <1>1, <1>2, CompilationKept, Zenon
<1>13. ProfileInv'
  BY <1>1, Zenon DEF IInv, ProfileInv
<1> QED
  BY <1>2, <1>3, <1>4, <1>5, <1>6, <1>7, <1>8, <1>9, <1>10, <1>11, <1>12, <1>13, Zenon
     DEF IInv

\* The wait for the collection another thread has under way.
LEMMA WaitForPotentialCollectionToCompleteKeeps ==
  ASSUME JitAssumption, ~Delays, IInv, NEW t \in Compilers, Runs(t),
         WaitForPotentialCollectionToComplete(t)
  PROVE  IInv'
<1>1. /\ pc[t] = "collected"
      /\ UNCHANGED <<entry, profile, cache, collector, cha, checkpoints, stack, local>>
  BY Zenon DEF WaitForPotentialCollectionToComplete
<1>2. ControlOK' /\ CompilerAlone(t) /\ pc'[t] \in {"wait_to_collect", "commit"}
         /\ ~local'[t].full
  <2>1. PICK l \in {"wait_to_collect", "commit"} : Goto(t, l)
    BY Zenon DEF WaitForPotentialCollectionToComplete
  <2>2. ControlOK' /\ CompilerAlone(t) /\ pc'[t] \in {"wait_to_collect", "commit"}
    BY <1>1, <2>1, CompilerMoves, Zenon DEF IInv, CompilerLabels
  <2>3. ~local[t].full
    BY <1>1, Zenon DEF IInv, CollectionInv, Collecting
  <2> QED
    BY <1>1, <2>2, <2>3, Zenon
<1>3. TypeOK'
  BY <1>1, Zenon DEF IInv, TypeOK
<1>4. /\ PlaceInv' /\ FramesInv' /\ EnterInv' /\ EntryInv' /\ ChaInv' /\ TakenBackInv'
      /\ UnreachableInv' /\ FlagEnterInv' /\ FlagFramesInv'
  BY <1>1, <1>2, MutatorsKept, Zenon
<1>5. MarkEntryInv' /\ MarkEnterInv' /\ MarkFramesInv'
  BY <1>1, <1>2, MarksKept, Zenon
<1>6. SequenceInv'
  BY <1>1, <1>2, Zenon DEF IInv, CompilerAlone, SequenceInv, InSequence, Runs
<1>7. CollectionInv'
  BY <1>1, <1>2, NotCollecting, Zenon DEF Collecting
<1>8. MemoryInv'
  BY <1>1, <1>2, NothingAllocated, Zenon
<1>9. MappedInv'
  BY <1>1, Zenon DEF IInv, MappedInv
<1>10. FreedInv'
  BY <1>1, <1>2, Zenon DEF IInv, CompilerAlone, FreedInv
<1>11. DependentsInv'
  BY <1>1, Zenon DEF IInv, DependentsInv
<1>12. CompilingInv'
  BY <1>1, <1>2, CompilationKept, Zenon
<1>13. ProfileInv'
  BY <1>1, Zenon DEF IInv, ProfileInv
<1> QED
  BY <1>2, <1>3, <1>4, <1>5, <1>6, <1>7, <1>8, <1>9, <1>10, <1>11, <1>12, <1>13, Zenon
     DEF IInv

\* DoCollection looks at the entry points and starts to mark.
LEMMA DoCollectionKeeps ==
  ASSUME JitAssumption, ~Delays, IInv, NEW t \in Compilers, Runs(t), DoCollection(t)
  PROVE  IInv'
<1>1. /\ pc[t] = "do_collection"
      /\ UNCHANGED <<entry, compiled, method_code_map, assumes, allocated, collector, cha,
                     flagging, stack, local>>
      /\ osr_code_map' = [m \in Methods |-> NoCode] /\ marking' = Mutators
  BY Zenon DEF DoCollection
<1>2. ControlOK' /\ CompilerAlone(t) /\ pc'[t] = "mark"
  <2>1. Goto(t, "mark") /\ UNCHANGED local
    BY Zenon DEF DoCollection
  <2> QED
    BY <2>1, CompilerMoves, Zenon DEF IInv, CompilerLabels, Collecting
<1>3. /\ saved' \in [Methods -> Slots \cup {NoCode}]
      /\ \A m \in Methods : saved'[m] = NoCode
  <2>1. CASE local[t].full
    BY <2>1, Zenon DEF DoCollection
  <2>2. CASE ~local[t].full
    <3>1. \A m \in Methods : saved[m] = NoCode
      BY <1>1, <2>2, Zenon DEF IInv, CollectionInv
    <3>2. UNCHANGED saved
      BY <2>2, Zenon DEF DoCollection
    <3> QED
      BY <3>1, <3>2, Zenon DEF IInv, TypeOK
  <2> QED
    BY <2>1, <2>2, Zenon
<1>4. /\ info' \in [Methods -> BOOLEAN] /\ orphan' \in [Methods -> BOOLEAN]
      /\ \A m \in Methods :
           info[m] /\ (ContainsPc(entry[m]) \/ compiled[m] # {}) => info'[m]
  <2>1. CASE local[t].full
    <3>1. info \in [Methods -> BOOLEAN]
      BY Zenon DEF IInv, TypeOK
    <3>2. \A m \in Methods : /\ LosesProfile(m) \in BOOLEAN
                            /\ (ContainsPc(entry[m]) \/ compiled[m] # {})
                                 => ~LosesProfile(m)
      BY <3>1, Zenon DEF LosesProfile, IsInUseByCompiler
    <3>3. /\ info' = [m \in Methods |-> info[m] /\ ~LosesProfile(m)]
          /\ orphan' = [m \in Methods |-> LosesProfile(m)]
      BY <2>1, Zenon DEF DoCollection
    <3>4. /\ info' \in [Methods -> BOOLEAN] /\ orphan' \in [Methods -> BOOLEAN]
      BY <3>1, <3>3, Zenon DEF LosesProfile, IsInUseByCompiler, ContainsPc
    <3>5. \A m \in Methods : info'[m] = (info[m] /\ ~LosesProfile(m))
      BY <3>3, Zenon
    <3> QED
      BY <3>2, <3>4, <3>5, Zenon
  <2>2. CASE ~local[t].full
    BY <2>2, Zenon DEF DoCollection, IInv, TypeOK
  <2> QED
    BY <2>1, <2>2, Zenon
<1>5. /\ live_bitmap' \subseteq Slots
      /\ \A s \in Slots :
           method_code_map[s] # NoMethod /\ entry[method_code_map[s]] = s
                => s \in live_bitmap'
  BY Zenon DEF DoCollection, IInv, TypeOK
<1>6. TypeOK'
  BY <1>1, <1>3, <1>4, <1>5, Zenon DEF IInv, TypeOK
<1>7. \* No thread is within a sequence of accesses.
      \A u \in Mutators : pc[u] \notin InSequence
  BY Zenon DEF Runs, JitAssumption
<1>8. PlaceInv'
  BY <1>1, <1>2, <1>7 DEF IInv, CompilerAlone, PlaceInv, Place, InSequence
<1>9. SequenceInv'
  BY <1>1, <1>2, Zenon DEF IInv, CompilerAlone, SequenceInv, InSequence, Runs
<1>10. CollectionInv'
  BY <1>1, <1>2, <1>3, StillCollecting, Zenon DEF Collecting
<1>11. MemoryInv'
  BY <1>1, <1>2, NothingAllocated, Zenon
<1>12. MappedInv'
  BY <1>1, Zenon DEF IInv, MappedInv
<1>13. FreedInv'
  BY <1>1, <1>2, Zenon DEF IInv, CompilerAlone, FreedInv
<1>14. MarkEntryInv'
  <2>1. \A m \in Methods : ContainsPc(entry[m]) => entry[m] \in live_bitmap'
    <3> SUFFICES ASSUME NEW m \in Methods, entry[m] \in Slots
                 PROVE  entry[m] \in live_bitmap'
      BY Zenon DEF ContainsPc
    <3>1. method_code_map[entry[m]] = m
      BY Zenon DEF IInv, EntryInv, Installed, JitAssumption
    <3> QED
      BY <1>5, <3>1, Zenon DEF JitAssumption
  <2> QED
    BY <1>1, <2>1, Zenon DEF MarkEntryInv
<1>15. MarkEnterInv' /\ MarkFramesInv'
  BY <1>1, Zenon DEF MarkEnterInv, MarkFramesInv
<1>16. FramesInv'
  BY <1>1, Zenon DEF IInv, FramesInv, Installed
<1>17. EnterInv'
  BY <1>1, <1>2, Zenon DEF IInv, CompilerAlone, EnterInv, Installed
<1>18. EntryInv'
  BY <1>1, <1>3, Zenon DEF IInv, EntryInv, Installed
<1>19. ChaInv' /\ (TakenBack' <=> TakenBack)
  BY <1>1, <1>2, ChaKept, Zenon
<1>20. DependentsInv'
  BY <1>1, Zenon DEF IInv, DependentsInv
<1>21. \A m \in Methods, s \in assumes : Reachable(m, s)' => Reachable(m, s)
  <2>1. NoCode \notin assumes
    BY Zenon DEF IInv, TypeOK, JitAssumption
  <2> QED
    BY <1>1, <1>3, <2>1, Zenon DEF Reachable
<1>22. TakenBackInv'
  BY <1>1, <1>2, <1>21, Zenon DEF IInv, CompilerAlone, TakenBackInv, Invalidating
<1>23. UnreachableInv'
  BY <1>1, <1>19, <1>21, Zenon DEF IInv, UnreachableInv
<1>24. FlagEnterInv' /\ FlagFramesInv'
  BY <1>1, <1>2, <1>19, Zenon DEF IInv, CompilerAlone, FlagEnterInv, FlagFramesInv
<1>25. CompilingInv'
  <2>1. \A u \in Compilers : pc'[u] # "idle" => pc[u] # "idle"
    BY <1>1, <1>2, Zenon DEF CompilerAlone
  <2>2. CompilingInv
    BY Zenon DEF IInv
  <2>3. \A u \in Compilers : pc[u] # "idle" =>
          info[local[u].m] /\ local[u].m \in Methods /\ compiled[local[u].m] # {}
    BY <2>2, Zenon DEF CompilingInv
  <2>4. \A u \in Compilers : pc[u] # "idle" => info'[local[u].m]
    BY <1>4, <2>3, Zenon
  <2> QED
    BY <1>1, <2>1, <2>2, <2>4, Zenon DEF CompilingInv
<1>26. ProfileInv'
  BY <1>1, <1>3, <1>4, Zenon DEF IInv, ProfileInv
<1> QED
  BY <1>2, <1>6, <1>8, <1>9, <1>10, <1>11, <1>12, <1>13, <1>14, <1>15, <1>16, <1>17, <1>18,
     <1>19, <1>20, <1>22, <1>23, <1>24, <1>25, <1>26, Zenon DEF IInv

\* RemoveUnmarkedCode takes what is not marked out of the maps.
LEMMA RemoveUnmarkedCodeKeeps ==
  ASSUME JitAssumption, ~Delays, IInv, NEW t \in Compilers, Runs(t), RemoveUnmarkedCode(t)
  PROVE  IInv'
<1> DEFINE unmarked == {s \in Slots \ live_bitmap : method_code_map[s] # NoMethod}
<1>1. local[t] \in Local(Slots) /\ unmarked \subseteq Slots
  BY Zenon DEF IInv, ControlOK
<1>2. /\ pc[t] = "mark" /\ marking = {} /\ Marking
      /\ UNCHANGED <<entry, profile, assumes, osr_code_map, allocated, live_bitmap, collector,
                     cha, checkpoints, stack>>
  BY Zenon DEF RemoveUnmarkedCode, Marking
<1>3. /\ method_code_map' = [s \in Slots |->
                               IF s \in unmarked THEN NoMethod ELSE method_code_map[s]]
      /\ Goto(t, "free") /\ With(t, [local[t] EXCEPT !.todo = unmarked])
  BY Zenon DEF RemoveUnmarkedCode
<1>4. /\ method_code_map' \in [Slots -> Methods \cup {NoMethod}]
      /\ \A s \in live_bitmap : method_code_map'[s] = method_code_map[s]
      /\ \A s \in Slots : method_code_map'[s] = method_code_map[s] \/ method_code_map'[s] = NoMethod
      /\ \A s \in unmarked : method_code_map'[s] = NoMethod /\ method_code_map[s] # NoMethod
  BY <1>3, Zenon DEF IInv, TypeOK
<1> HIDE DEF unmarked
<1>5. /\ ControlOK' /\ CompilerAlone(t) /\ pc'[t] = "free"
      /\ local'[t].m = local[t].m /\ local'[t].osr = local[t].osr
      /\ local'[t].full = local[t].full /\ local'[t].todo = unmarked
  <2>1. [local[t] EXCEPT !.todo = unmarked] \in Local(Slots)
    BY <1>1, Zenon DEF Local
  <2>2. ControlOK' /\ CompilerAlone(t) /\ pc'[t] = "free"
    BY <1>3, <2>1, CompilerMoves, Zenon DEF IInv, CompilerLabels, Collecting
  <2>3. local'[t] = [local[t] EXCEPT !.todo = unmarked]
    BY <1>3, Given, Zenon DEF IInv
  <2> QED
    BY <1>1, <2>2, <2>3, Zenon DEF Local
<1>6. TypeOK'
  BY <1>2, <1>4, Zenon DEF IInv, TypeOK
<1>7. PlaceInv'
  BY <1>2, <1>5 DEF IInv, CompilerAlone, PlaceInv, Place
<1>8. SequenceInv'
  BY <1>2, <1>5, Zenon DEF IInv, CompilerAlone, SequenceInv, InSequence, Runs
<1>9. CollectionInv'
  BY <1>2, <1>5, GoesOn, Zenon DEF Collecting
<1>10. \* No other compiler collects.
      \A u \in Compilers : u # t => pc'[u] \notin Collecting
  <2>1. \A u \in Compilers : u # t => pc[u] \notin Collecting
    BY <1>2, Zenon DEF IInv, CollectionInv, Collecting
  <2> QED
    BY <1>5, <2>1, Zenon DEF CompilerAlone
<1>11. \A u \in Compilers : pc'[u] = "allocated" =>
         /\ pc[u] = "allocated" /\ local'[u] = local[u]
         /\ method_code_map[local[u].s] = NoMethod /\ local[u].s \in allocated
  BY <1>5, Zenon DEF CompilerAlone, IInv, MemoryInv
<1>12. MemoryInv'
  <2>1. allocated \subseteq Slots
    BY Zenon DEF IInv, TypeOK
  <2>2. MemoryInv
    BY Zenon DEF IInv
  <2>3. \A u \in Compilers : pc'[u] = "allocated" =>
          local'[u].s \in allocated' /\ method_code_map'[local'[u].s] = NoMethod
    BY <1>2, <1>4, <1>11, <2>1
  <2>4. \A u, v \in Compilers :
          pc'[u] = "allocated" /\ pc'[v] = "allocated" /\ v # u => local'[v].s # local'[u].s
    BY <1>11, <2>2 DEF MemoryInv
  <2> QED
    BY <2>3, <2>4, Zenon DEF MemoryInv
<1>13. MappedInv'
  BY <1>2, <1>4, Zenon DEF IInv, MappedInv
<1>14. FreedInv'
  <2>1. \A u \in Compilers : pc'[u] \in {"free", "free_code"} => local'[u].todo = unmarked
    BY <1>5, <1>10, Zenon DEF Collecting
  <2>2. \A s \in unmarked : s \in allocated' /\ method_code_map'[s] = NoMethod
    BY <1>1, <1>2, <1>4, Zenon DEF IInv, MappedInv
  <2>3. \A u \in Compilers : pc'[u] = "allocated" => local'[u].s \notin unmarked
    BY <1>4, <1>11
  <2> QED
    BY <2>1, <2>2, <2>3, Zenon DEF FreedInv
<1>15. ~Marking'
  BY <1>5, <1>10, Zenon DEF Marking, Collecting
<1>16. MarkEntryInv' /\ MarkEnterInv' /\ MarkFramesInv'
  BY <1>15, Zenon DEF MarkEntryInv, MarkEnterInv, MarkFramesInv
<1>17. FramesInv'
  <2> SUFFICES ASSUME NEW u \in Mutators, NEW k \in DOMAIN stack[u], stack[u][k].code \in Slots
               PROVE  /\ stack[u][k].code \in allocated
                      /\ method_code_map'[stack[u][k].code] = stack[u][k].m
    BY <1>2, Zenon DEF FramesInv, Installed, ContainsPc
  <2>1. stack[u][k].code \in live_bitmap
    BY <1>2, Zenon DEF IInv, MarkFramesInv, ContainsPc
  <2>2. /\ stack[u][k].code \in allocated
        /\ method_code_map[stack[u][k].code] = stack[u][k].m
    BY Zenon DEF IInv, FramesInv, Installed, ContainsPc
  <2> QED
    BY <1>4, <2>1, <2>2, Zenon
<1>18. EnterInv'
  <2>1. \A u \in Mutators : pc[u] = "enter" => local[u].s \in live_bitmap
    BY <1>2, Zenon DEF IInv, MarkEnterInv
  <2> QED
    BY <1>2, <1>5, <1>4, <2>1 DEF IInv, CompilerAlone, EnterInv, Installed
<1>19. EntryInv'
  <2> SUFFICES ASSUME NEW n \in Methods
               PROVE  /\ entry[n] # Bridge =>
                           entry[n] \in allocated /\ method_code_map'[entry[n]] = n
                      /\ osr_code_map[n] # NoCode =>
                           osr_code_map[n] \in allocated
                                /\ method_code_map'[osr_code_map[n]] = n
                      /\ saved[n] = NoCode
    BY <1>2, Zenon DEF EntryInv, Installed
  <2>1. saved[n] = NoCode
    BY <1>2, Zenon DEF IInv, CollectionInv, Collecting
  <2>2. /\ entry[n] # Bridge => entry[n] \in live_bitmap
        /\ osr_code_map[n] # NoCode => osr_code_map[n] \in live_bitmap
    BY <1>2, Zenon DEF IInv, MarkEntryInv, ContainsPc, TypeOK
  <2>3. /\ entry[n] # Bridge => entry[n] \in allocated /\ method_code_map[entry[n]] = n
        /\ osr_code_map[n] # NoCode =>
             osr_code_map[n] \in allocated /\ method_code_map[osr_code_map[n]] = n
    BY Zenon DEF IInv, EntryInv, Installed
  <2> QED
    BY <1>4, <2>1, <2>2, <2>3, Zenon
<1>20. ChaInv' /\ (TakenBack' <=> TakenBack)
  BY <1>2, <1>5, ChaKept, Zenon
<1>21. DependentsInv'
  BY <1>2, <1>4, Zenon DEF IInv, TypeOK, DependentsInv
<1>22. TakenBackInv'
  BY <1>2, <1>5, Zenon DEF IInv, CompilerAlone, TakenBackInv, Invalidating, Reachable
<1>23. UnreachableInv'
  BY <1>2, <1>20, Zenon DEF IInv, UnreachableInv, Reachable
<1>24. FlagEnterInv' /\ FlagFramesInv'
  BY <1>2, <1>5, <1>20 DEF IInv, CompilerAlone, FlagEnterInv, FlagFramesInv
<1>25. CompilingInv'
  BY <1>2, <1>5, CompilationKept, Zenon
<1>26. ProfileInv'
  BY <1>2, Zenon DEF IInv, ProfileInv
<1> QED
  BY <1>5, <1>6, <1>7, <1>8, <1>9, <1>12, <1>13, <1>14, <1>16, <1>17, <1>18, <1>19, <1>20,
     <1>21, <1>22, <1>23, <1>24, <1>25, <1>26, Zenon DEF IInv

\* FreeAllMethodHeaders removes the dependents of the code to be freed,
LEMMA RemoveDependentsWithMethodHeadersKeeps ==
  ASSUME JitAssumption, ~Delays, IInv, NEW t \in Compilers, Runs(t),
         RemoveDependentsWithMethodHeaders(t)
  PROVE  IInv'
<1>1. /\ pc[t] = "free"
      /\ UNCHANGED <<entry, profile, cache, collector, single, cha_lock, linked, checkpoints,
                     stack, local>>
      /\ dependents' = {d \in dependents : d[2] \notin local[t].todo}
  BY Zenon DEF RemoveDependentsWithMethodHeaders
<1>2. ControlOK' /\ CompilerAlone(t) /\ pc'[t] = "free_code"
  <2>1. Goto(t, "free_code") /\ UNCHANGED local
    BY Zenon DEF RemoveDependentsWithMethodHeaders
  <2> QED
    BY <2>1, CompilerMoves, Zenon DEF IInv, CompilerLabels, Collecting
<1>3. TypeOK'
  BY <1>1, Zenon DEF IInv, TypeOK
<1>4. /\ PlaceInv' /\ FramesInv' /\ EnterInv' /\ EntryInv' /\ ChaInv' /\ TakenBackInv'
      /\ UnreachableInv' /\ FlagEnterInv' /\ FlagFramesInv'
  BY <1>1, <1>2, MutatorsKept, Zenon
<1>5. MarkEntryInv' /\ MarkEnterInv' /\ MarkFramesInv'
  BY <1>1, <1>2, MarksKept, Zenon
<1>6. SequenceInv'
  BY <1>1, <1>2, Zenon DEF IInv, CompilerAlone, SequenceInv, InSequence, Runs
<1>7. CollectionInv'
  BY <1>1, <1>2, GoesOn, Zenon DEF Collecting
<1>8. MemoryInv'
  BY <1>1, <1>2, NothingAllocated, Zenon
<1>9. MappedInv'
  BY <1>1, Zenon DEF IInv, MappedInv
<1>10. FreedInv'
  BY <1>1, <1>2, Zenon DEF IInv, CompilerAlone, FreedInv
<1>11. DependentsInv'
  <2>1. \A s \in local[t].todo : method_code_map[s] = NoMethod
    BY <1>1, Zenon DEF IInv, FreedInv
  <2>2. \A m, s : <<m, s>> \in dependents /\ s \notin local[t].todo
           => <<m, s>> \in dependents'
    BY <1>1, Zenon
  <2> QED
    BY <1>1, <2>1, <2>2, Zenon DEF IInv, DependentsInv
<1>12. CompilingInv'
  BY <1>1, <1>2, CompilationKept, Zenon
<1>13. ProfileInv'
  BY <1>1, Zenon DEF IInv, ProfileInv
<1> QED
  BY <1>2, <1>3, <1>4, <1>5, <1>6, <1>7, <1>8, <1>9, <1>10, <1>11, <1>12, <1>13, Zenon
     DEF IInv

\* and frees its memory.
LEMMA FreeCodeKeeps ==
  ASSUME JitAssumption, ~Delays, IInv, NEW t \in Compilers, Runs(t), FreeCode(t)
  PROVE  IInv'
<1>1. /\ pc[t] = "free_code"
      /\ UNCHANGED <<entry, profile, method_code_map, osr_code_map, live_bitmap, collector,
                     cha, checkpoints, stack, local>>
      /\ allocated' = allocated \ local[t].todo /\ assumes' = assumes \ local[t].todo
  BY Zenon DEF FreeCode
<1>2. ControlOK' /\ CompilerAlone(t) /\ pc'[t] \in {"free_profiles", "finish"}
  <2>1. PICK l \in {"free_profiles", "finish"} : Goto(t, l)
    BY Zenon DEF FreeCode
  <2> QED
    BY <1>1, <2>1, CompilerMoves, Zenon DEF IInv, CompilerLabels, Collecting
<1>3. TypeOK'
  BY <1>1, Zenon DEF IInv, TypeOK
<1>4. \* What is freed is nobody's code.
      \A s \in Slots : s \in allocated /\ method_code_map[s] # NoMethod => s \in allocated'
  BY <1>1, Zenon DEF IInv, FreedInv
<1>5. assumes' \subseteq assumes
  BY <1>1, Zenon
<1>6. \A m \in Methods, s \in allocated : method_code_map[s] = m => s \in allocated'
  BY <1>4, Zenon DEF IInv, TypeOK, JitAssumption
<1>7. PlaceInv'
  BY <1>1, <1>2 DEF IInv, CompilerAlone, PlaceInv, Place
<1>8. SequenceInv'
  BY <1>1, <1>2, Zenon DEF IInv, CompilerAlone, SequenceInv, InSequence, Runs
<1>9. CollectionInv'
  BY <1>1, <1>2, GoesOn, Zenon DEF Collecting
<1>10. MemoryInv'
  <2>1. MemoryInv
    BY Zenon DEF IInv
  <2>2. \A u \in Compilers : pc[u] = "allocated" => local[u].s \notin local[t].todo
    BY <1>1, Zenon DEF IInv, FreedInv
  <2>3. \A u \in Compilers : pc'[u] = "allocated" => pc[u] = "allocated"
    BY <1>2, Zenon DEF CompilerAlone
  <2> QED
    BY <1>1, <2>1, <2>2, <2>3, Zenon DEF MemoryInv
<1>11. MappedInv'
  BY <1>1, <1>4, Zenon DEF IInv, MappedInv
<1>12. FreedInv'
  <2>1. \A u \in Compilers : u # t => pc[u] \notin {"free", "free_code"}
    BY <1>1, Zenon DEF IInv, CollectionInv, Collecting
  <2>2. \A u \in Compilers : pc'[u] \notin {"free", "free_code"}
    BY <1>2, <2>1, Zenon DEF CompilerAlone
  <2> QED
    BY <2>2, Zenon DEF FreedInv
<1>13. MarkEntryInv' /\ MarkEnterInv' /\ MarkFramesInv'
  BY <1>1, <1>2, MarksKept, Zenon
<1>14. FramesInv'
  <2> SUFFICES ASSUME NEW u \in Mutators, NEW k \in DOMAIN stack[u], stack[u][k].code \in Slots
               PROVE  /\ stack[u][k].code \in allocated'
                      /\ method_code_map[stack[u][k].code] = stack[u][k].m
    BY <1>1, Zenon DEF FramesInv, Installed, ContainsPc
  <2>1. stack[u][k] \in Frame
    BY FrameTypes, Zenon DEF IInv
  <2>2. /\ stack[u][k].code \in allocated
        /\ method_code_map[stack[u][k].code] = stack[u][k].m
    BY Zenon DEF IInv, FramesInv, Installed, ContainsPc
  <2> QED
    BY <1>4, <2>1, <2>2, Zenon DEF Frame, JitAssumption
<1>15. EnterInv'
  <2>1. \A u \in Mutators : pc[u] = "enter" => local[u].s \in allocated'
    BY <1>6, Zenon DEF IInv, EnterInv, PlaceInv, Place, Installed
  <2> QED
    BY <1>1, <1>2, <2>1, Zenon DEF IInv, CompilerAlone, EnterInv, Installed
<1>16. EntryInv'
  BY <1>1, <1>6, Zenon DEF IInv, EntryInv, Installed
<1>17. ChaInv' /\ (TakenBack' <=> TakenBack)
  BY <1>1, <1>2, ChaKept, Zenon
<1>18. DependentsInv'
  BY <1>1, <1>5, Zenon DEF IInv, DependentsInv
<1>19. TakenBackInv'
  BY <1>1, <1>2, <1>5, Zenon DEF IInv, CompilerAlone, TakenBackInv, Invalidating, Reachable
<1>20. UnreachableInv'
  BY <1>1, <1>5, <1>17, Zenon DEF IInv, UnreachableInv, Reachable
<1>21. FlagEnterInv'
  BY <1>1, <1>2, <1>5, <1>17, Zenon DEF IInv, CompilerAlone, FlagEnterInv
<1>22. FlagFramesInv'
  BY <1>1, <1>5, <1>17, Zenon DEF IInv, FlagFramesInv
<1>23. CompilingInv'
  BY <1>1, <1>2, CompilationKept, Zenon
<1>24. ProfileInv'
  BY <1>1, Zenon DEF IInv, ProfileInv
<1> QED
  BY <1>2, <1>3, <1>7, <1>8, <1>9, <1>10, <1>11, <1>12, <1>13, <1>14, <1>15, <1>16, <1>17,
     <1>18, <1>19, <1>20, <1>21, <1>22, <1>23, <1>24, Zenon DEF IInv

\* DoCollection frees the profiles nothing uses.
LEMMA FreeProfilingInfosKeeps ==
  ASSUME JitAssumption, ~Delays, IInv, NEW t \in Compilers, Runs(t), FreeProfilingInfos(t)
  PROVE  IInv'
<1>1. /\ pc[t] = "free_profiles"
      /\ UNCHANGED <<entry, saved, compiled, cache, collector, cha, checkpoints, stack, local>>
  BY Zenon DEF FreeProfilingInfos
<1>2. ControlOK' /\ CompilerAlone(t) /\ pc'[t] = "finish"
  <2>1. Goto(t, "finish") /\ UNCHANGED local
    BY Zenon DEF FreeProfilingInfos
  <2> QED
    BY <2>1, CompilerMoves, Zenon DEF IInv, CompilerLabels, Collecting
<1>3. /\ info' \in [Methods -> BOOLEAN] /\ orphan' \in [Methods -> BOOLEAN]
      /\ \A m \in Methods : info[m] => info'[m]
  BY Zenon DEF FreeProfilingInfos, IInv, TypeOK
<1>4. TypeOK'
  BY <1>1, <1>3, Zenon DEF IInv, TypeOK
<1>5. /\ PlaceInv' /\ FramesInv' /\ EnterInv' /\ EntryInv' /\ ChaInv' /\ TakenBackInv'
      /\ UnreachableInv' /\ FlagEnterInv' /\ FlagFramesInv'
  BY <1>1, <1>2, MutatorsKept, Zenon
<1>6. MarkEntryInv' /\ MarkEnterInv' /\ MarkFramesInv'
  BY <1>1, <1>2, MarksKept, Zenon
<1>7. SequenceInv'
  BY <1>1, <1>2, Zenon DEF IInv, CompilerAlone, SequenceInv, InSequence, Runs
<1>8. CollectionInv'
  BY <1>1, <1>2, GoesOn, Zenon DEF Collecting
<1>9. MemoryInv'
  BY <1>1, <1>2, NothingAllocated, Zenon
<1>10. MappedInv'
  BY <1>1, Zenon DEF IInv, MappedInv
<1>11. FreedInv'
  BY <1>1, <1>2, Zenon DEF IInv, CompilerAlone, FreedInv
<1>12. DependentsInv'
  BY <1>1, Zenon DEF IInv, DependentsInv
<1>13. CompilingInv'
  BY <1>1, <1>2, <1>3, CompilationKept, Zenon
<1>14. ProfileInv'
  BY <1>1, <1>3, Zenon DEF IInv, ProfileInv
<1> QED
  BY <1>2, <1>4, <1>5, <1>6, <1>7, <1>8, <1>9, <1>10, <1>11, <1>12, <1>13, <1>14, Zenon
     DEF IInv

\* GarbageCollectCache ends the collection, after it has grown the cache or set the
\* entry points aside.
LEMMA NotifyCollectionDoneKeeps ==
  ASSUME JitAssumption, ~Delays, IInv, NEW t \in Compilers, Runs(t), NotifyCollectionDone(t)
  PROVE  IInv'
<1> DEFINE more == IF local[t].full THEN capacity ELSE IncreaseCodeCacheCapacity
           full == ShouldDoFullCollection(more, ~local[t].full)
           saves == IF full THEN {m \in Methods : info[m] /\ ContainsPc(entry[m])} ELSE {}
<1>1. /\ pc[t] = "finish"
      /\ UNCHANGED <<info, orphan, compiled, method_code_map, assumes, osr_code_map,
                     allocated, cha, checkpoints, stack>>
      /\ increased' = ~local[t].full /\ capacity' = more
      /\ live_bitmap' = {} /\ collection_in_progress' = FALSE
  BY Zenon DEF NotifyCollectionDone
<1>2. /\ saved' = [m \in Methods |-> IF m \in saves THEN entry[m] ELSE saved[m]]
      /\ entry' = [m \in Methods |-> IF m \in saves THEN Bridge ELSE entry[m]]
      /\ pc' = [u \in Threads |-> IF u = t THEN "commit" ELSE Awake(pc[u])]
      /\ With(t, [local[t] EXCEPT !.todo = {}, !.full = FALSE])
  BY Zenon DEF NotifyCollectionDone
<1>3. local[t] \in Local(Slots) /\ local[t].full \in BOOLEAN
  BY Zenon DEF IInv, ControlOK, Local
<1>4. more \in 1 .. MaxCapacity
  BY DEF IncreaseCodeCacheCapacity, IInv, TypeOK, JitAssumption
<1>5. full = ShouldDoFullCollection(capacity, increased)'
  BY <1>1, Zenon DEF ShouldDoFullCollection
<1>6. \A m \in Methods : saved[m] = NoCode
  BY <1>1, Zenon DEF IInv, CollectionInv, Collecting
<1>7. \* The entry point of a method is kept or saved.
      /\ saved' \in [Methods -> Slots \cup {NoCode}]
           /\ entry' \in [Methods -> Slots \cup {Bridge}]
      /\ \A m \in Methods :
           \/ entry'[m] = entry[m] /\ saved'[m] = NoCode
           \/ full /\ entry'[m] = Bridge /\ saved'[m] = entry[m] /\ entry[m] \in Slots
                /\ info[m]
  <2>1. \A m \in Methods : m \in saves => full /\ entry[m] \in Slots /\ info[m]
    BY Zenon DEF ContainsPc
  <2> HIDE DEF saves, full
  <2> QED
    BY <1>2, <1>6, <2>1, Zenon DEF IInv, TypeOK
<1> HIDE DEF more, full, saves
<1>8. /\ local'[t] = [local[t] EXCEPT !.todo = {}, !.full = FALSE]
      /\ \A u \in Threads : u # t => local'[u] = local[u]
  BY <1>2, Given, Zenon DEF IInv
<1>9. /\ local'[t] \in Local(Slots) /\ ~local'[t].full
      /\ local'[t].m = local[t].m /\ local'[t].osr = local[t].osr
  BY <1>3, <1>8, Zenon DEF Local
<1>10. \A u \in Mutators : pc'[u] = pc[u] /\ local'[u] = local[u]
  <2>1. \A u \in Mutators : u # t /\ u \in Threads /\ pc[u] \in MutatorLabels
    BY Zenon DEF IInv, ControlOK, JitAssumption
  <2>2. \A l \in MutatorLabels : Awake(l) = l
    BY Zenon DEF MutatorLabels, Awake
  <2> QED
    BY <1>2, <1>8, <2>1, <2>2, Zenon
<1>11. /\ pc'[t] = "commit"
       /\ \A u \in Compilers : u # t =>
            /\ local'[u] = local[u]
            /\ \/ pc'[u] = pc[u]
               \/ pc[u] = "wait_to_commit" /\ pc'[u] = "commit"
               \/ pc[u] = "wait_to_collect" /\ pc'[u] = "collected"
  BY <1>2, <1>8, Zenon DEF Awake
<1>12. TypeOK'
  BY <1>1, <1>3, <1>4, <1>7, Zenon DEF IInv, TypeOK
<1>13. ControlOK'
  <2>1. ControlOK
    BY Zenon DEF IInv
  <2>2. \A u \in Compilers : pc'[u] \in CompilerLabels
    BY <1>11, <2>1, Zenon DEF ControlOK, CompilerLabels
  <2>3. \A u \in Mutators : pc'[u] \in MutatorLabels
    BY <1>10, <2>1, Zenon DEF ControlOK
  <2>4. pc' \in [Threads -> MutatorLabels \cup CompilerLabels]
    BY <1>2, <2>2, <2>3, Zenon
  <2>5. \A u \in Compilers : local'[u] \in Local(Slots)
    BY <1>9, <1>11, <2>1, Zenon DEF ControlOK
  <2>6. \A u \in Mutators : local'[u] \in Local(Methods \X Slots)
    BY <1>10, <2>1, Zenon DEF ControlOK
  <2>7. DOMAIN local' = Threads /\ local' = [u \in Threads |-> local'[u]]
    BY <1>2, <2>1, Zenon DEF ControlOK, With
  <2> QED
    BY <2>2, <2>3, <2>4, <2>5, <2>6, <2>7, Zenon DEF ControlOK
<1>14. \* No thread is within a sequence of accesses.
       \A u \in Mutators : pc[u] \notin InSequence
  BY Zenon DEF Runs, JitAssumption
<1>15. PlaceInv'
  BY <1>1, <1>10, <1>14, Zenon DEF IInv, PlaceInv, Place, InSequence
<1>16. SequenceInv'
  <2>1. \A u \in Compilers : pc'[u] \notin InSequence
    BY <1>13, Zenon DEF ControlOK, CompilerLabels, Collecting, InSequence
  <2>2. \A u \in Mutators : pc'[u] \notin InSequence
    BY <1>10, <1>14, Zenon
  <2> QED
    BY <2>1, <2>2, Zenon DEF SequenceInv
<1>17. \* Nobody collects.
       \A u \in Compilers : pc'[u] \notin Collecting /\ ~local'[u].full
  <2>1. \A u \in Compilers : u # t => pc[u] \notin Collecting /\ ~local[u].full
    BY <1>1, Zenon DEF IInv, CollectionInv, Collecting
  <2> QED
    BY <1>9, <1>11, <2>1, Zenon DEF Collecting
<1>18. CollectionInv'
  <2>1. \A m \in Methods : osr_code_map'[m] # NoCode =>
          osr_code_map'[m] # entry'[m] /\ osr_code_map'[m] # saved'[m]
    <3>1. \A m \in Methods : osr_code_map[m] # NoCode => osr_code_map[m] # entry[m]
      BY Zenon DEF IInv, CollectionInv
    <3>2. \A m \in Methods : osr_code_map[m] # Bridge
      BY Zenon DEF IInv, TypeOK, JitAssumption
    <3> QED
      BY <1>1, <1>7, <3>1, <3>2, Zenon
  <2>2. ~ShouldDoFullCollection(capacity, increased)'
           => \A m \in Methods : saved'[m] = NoCode
    BY <1>5, <1>7, Zenon
  <2>3. \A u \in Compilers : pc'[u] # "do_collection"
    BY <1>17, Zenon DEF Collecting
  <2> QED
    BY <1>1, <1>17, <2>1, <2>2, <2>3, Zenon DEF CollectionInv
<1>19. MemoryInv'
  <2>1. MemoryInv
    BY Zenon DEF IInv
  <2>2. \A u \in Compilers : pc'[u] = "allocated" => pc[u] = "allocated"
           /\ local'[u] = local[u]
    BY <1>11, Zenon
  <2> QED
    BY <1>1, <2>1, <2>2 DEF MemoryInv
<1>20. MappedInv'
  BY <1>1, Zenon DEF IInv, MappedInv
<1>21. FreedInv'
  BY <1>17, Zenon DEF FreedInv, Collecting
<1>22. MarkEntryInv' /\ MarkEnterInv' /\ MarkFramesInv'
  <2>1. ~Marking'
    BY <1>17, Zenon DEF Marking, Collecting
  <2> QED
    BY <2>1, Zenon DEF MarkEntryInv, MarkEnterInv, MarkFramesInv
<1>23. FramesInv'
  BY <1>1, Zenon DEF IInv, FramesInv, Installed
<1>24. EnterInv'
  BY <1>1, <1>10, Zenon DEF IInv, EnterInv, Installed
<1>25. EntryInv'
  <2>1. \A m \in Methods : entry[m] # Bridge => Installed(m, entry[m])
    BY Zenon DEF IInv, EntryInv
  <2>2. \A m \in Methods : osr_code_map[m] # NoCode => Installed(m, osr_code_map[m])
    BY Zenon DEF IInv, EntryInv
  <2>3. Bridge \notin Slots
    BY Zenon DEF JitAssumption
  <2> QED
    BY <1>1, <1>7, <2>1, <2>2, <2>3, Zenon DEF EntryInv, Installed
<1>26. ChaInv'
  BY <1>1, <1>10, Zenon DEF IInv, ChaInv, Invalidating
<1>27. TakenBack' <=> TakenBack
  BY <1>1, <1>10, Zenon DEF TakenBack, Invalidating
<1>28. DependentsInv'
  BY <1>1, Zenon DEF IInv, DependentsInv
<1>29. \A m \in Methods, s \in assumes : Reachable(m, s)' => Reachable(m, s)
  <2>1. assumes \subseteq Slots /\ NoCode \notin Slots /\ Bridge \notin Slots
    BY Zenon DEF IInv, TypeOK, JitAssumption
  <2> QED
    BY <1>1, <1>7, <2>1, Zenon DEF Reachable
<1>30. TakenBackInv'
  BY <1>1, <1>10, <1>29, Zenon DEF IInv, TakenBackInv, Invalidating
<1>31. UnreachableInv'
  BY <1>1, <1>27, <1>29, Zenon DEF IInv, UnreachableInv
<1>32. FlagEnterInv' /\ FlagFramesInv'
  BY <1>1, <1>10, <1>27, Zenon DEF IInv, FlagEnterInv, FlagFramesInv
<1>33. CompilingInv'
  <2>1. \A u \in Compilers :
          /\ pc'[u] # "idle" => pc[u] # "idle"
          /\ local'[u].m = local[u].m /\ local'[u].osr = local[u].osr
    BY <1>1, <1>9, <1>11, Zenon
  <2>2. CompilingInv
    BY Zenon DEF IInv
  <2> QED
    BY <1>1, <2>1, <2>2 DEF CompilingInv
<1>34. ProfileInv'
  <2>1. \A m \in Methods : ContainsPc(entry[m]) => info[m]
    BY Zenon DEF IInv, ProfileInv
  <2> QED
    BY <1>1, <1>7, <2>1, Zenon DEF ProfileInv, ContainsPc
<1> QED
  BY <1>12, <1>13, <1>15, <1>16, <1>18, <1>19, <1>20, <1>21, <1>22, <1>23, <1>24, <1>25,
     <1>26, <1>28, <1>30, <1>31, <1>32, <1>33, <1>34, Zenon DEF IInv

-----------------------------------------------------------------------------
\* A step of a mutator, and one of a compiler.
MutatorStep(t) ==
  \/ \E m \in Methods : Call(t, m)
  \/ EnterCode(t)
  \/ ReturnFrom(t)
  \/ MethodEntered(t)
  \/ UpdateMethodsCode(t)
  \/ InvokeOrInterpret(t)
  \/ MaybeDoOnStackReplacement(t)
  \/ DeoptimizeSingleFrame(t)
  \/ InvalidateSingleImplementationMethods(t)
  \/ InvalidateSavedEntryPoint(t)
  \/ InvalidateEntryPoint(t)
  \/ WaitForThreadsToRunThroughCheckpoint(t)
  \/ CHACheckpoint(t)
  \/ MarkCode(t)

CompilerStep(t) ==
  \/ \E m \in Methods, osr \in BOOLEAN : NotifyCompilationOf(t, m, osr)
  \/ SpuriousWakeup(t)
  \/ AllocateCode(t)
  \/ CommitCode(t)
  \/ DiscardCode(t)
  \/ DoneCompiling(t)
  \/ GarbageCollectCache(t)
  \/ WaitForPotentialCollectionToComplete(t)
  \/ DoCollection(t)
  \/ RemoveUnmarkedCode(t)
  \/ RemoveDependentsWithMethodHeaders(t)
  \/ FreeCode(t)
  \/ FreeProfilingInfos(t)
  \/ NotifyCollectionDone(t)

\* A step of Next is one of a mutator or of a compiler, or none.
LEMMA NextIsStep ==
  ASSUME Next
  PROVE  \/ \E t \in Mutators : Runs(t) /\ MutatorStep(t)
         \/ \E t \in Compilers : Runs(t) /\ CompilerStep(t)
         \/ UNCHANGED vars
  BY Zenon DEF Next, Begin, GoOn, RunCheckpoint, Finished, MutatorStep, CompilerStep

\* A step that changes nothing.
LEMMA StutterKeeps ==
  ASSUME IInv, UNCHANGED vars
  PROVE  IInv'
<1> USE DEF vars
<1>1. TypeOK'
  BY Zenon DEF IInv, TypeOK
<1>2. ControlOK'
  BY Zenon DEF IInv, ControlOK
<1>3. PlaceInv'
  BY Zenon DEF IInv, PlaceInv, Place
<1>4. SequenceInv'
  BY Zenon DEF IInv, SequenceInv, InSequence
<1>5. CollectionInv'
  BY Zenon DEF IInv, CollectionInv, Collecting, ShouldDoFullCollection
<1>6. MemoryInv'
  BY Zenon DEF IInv, MemoryInv
<1>7. MappedInv'
  BY Zenon DEF IInv, MappedInv
<1>8. FreedInv'
  BY Zenon DEF IInv, FreedInv
<1>9. MarkEntryInv'
  BY Zenon DEF IInv, MarkEntryInv, Marking
<1>10. MarkEnterInv'
  BY Zenon DEF IInv, MarkEnterInv, Marking
<1>11. MarkFramesInv'
  BY Zenon DEF IInv, MarkFramesInv, Marking
<1>12. FramesInv'
  BY Zenon DEF IInv, FramesInv, Installed
<1>13. EnterInv'
  BY Zenon DEF IInv, EnterInv, Installed
<1>14. EntryInv'
  BY Zenon DEF IInv, EntryInv, Installed
<1>15. ChaInv'
  BY Zenon DEF IInv, ChaInv, Invalidating
<1>16. DependentsInv'
  BY Zenon DEF IInv, DependentsInv
<1>17. TakenBackInv'
  BY Zenon DEF IInv, TakenBackInv, Invalidating, Reachable
<1>18. UnreachableInv'
  BY Zenon DEF IInv, UnreachableInv, TakenBack, Invalidating, Reachable
<1>19. FlagEnterInv'
  BY Zenon DEF IInv, FlagEnterInv, TakenBack, Invalidating
<1>20. FlagFramesInv'
  BY Zenon DEF IInv, FlagFramesInv, TakenBack, Invalidating
<1>21. CompilingInv'
  BY Zenon DEF IInv, CompilingInv
<1>22. ProfileInv'
  BY Zenon DEF IInv, ProfileInv
<1> QED
  BY <1>1, <1>2, <1>3, <1>4, <1>5, <1>6, <1>7, <1>8, <1>9, <1>10, <1>11, <1>12, <1>13,
     <1>14, <1>15, <1>16, <1>17, <1>18, <1>19, <1>20, <1>21, <1>22, Zenon DEF IInv

-----------------------------------------------------------------------------
\* The initial state has the invariant,
LEMMA InitInv ==
  ASSUME JitAssumption, Init
  PROVE  IInv
<1> USE DEF Init, NoLocal
<1>1. TypeOK
  <2>1. stack \in [Mutators -> Seq(Frame)] /\ capacity \in 1 .. MaxCapacity
    BY DEF JitAssumption
  <2>2. /\ entry \in [Methods -> Slots \cup {Bridge}]
        /\ info \in [Methods -> BOOLEAN] /\ orphan \in [Methods -> BOOLEAN]
        /\ saved \in [Methods -> Slots \cup {NoCode}]
        /\ compiled \in [Methods -> SUBSET {"osr", "method"}]
        /\ method_code_map \in [Slots -> Methods \cup {NoMethod}]
        /\ osr_code_map \in [Methods -> Slots \cup {NoCode}]
    BY Zenon
  <2> QED
    BY <2>1, <2>2, Zenon DEF TypeOK
<1>2. /\ \A t \in Mutators : pc[t] = "run"
      /\ \A t \in Compilers : pc[t] = "idle"
      /\ \A t \in Threads : local[t] = NoLocal
  BY Zenon DEF JitAssumption
<1>3. ControlOK
  <2>1. \A t \in Threads : local[t] \in Local(Slots) /\ local[t] \in Local(Methods \X Slots)
    BY Zenon DEF Local
  <2> QED
    BY <1>2, <2>1, Zenon DEF ControlOK, MutatorLabels, CompilerLabels
<1>4. PlaceInv /\ SequenceInv /\ EnterInv
  BY <1>2, Zenon DEF PlaceInv, Place, SequenceInv, InSequence, EnterInv
<1>5. CollectionInv
  BY <1>2, Zenon DEF CollectionInv, Collecting
<1>6. MemoryInv /\ MappedInv /\ FreedInv /\ CompilingInv
  BY <1>2, Zenon DEF MemoryInv, MappedInv, FreedInv, CompilingInv
<1>7. MarkEntryInv /\ MarkEnterInv /\ MarkFramesInv
  <2>1. ~Marking
    BY <1>2, Zenon DEF Marking
  <2> QED
    BY <2>1, Zenon DEF MarkEntryInv, MarkEnterInv, MarkFramesInv
<1>8. FramesInv /\ EntryInv
  BY DEF FramesInv, EntryInv
<1>9. \A t \in Mutators : ~local[t].cha /\ ~Invalidating(t)
  BY <1>2, Zenon DEF Invalidating
<1>10. ChaInv /\ DependentsInv /\ TakenBackInv
  BY <1>9, Zenon DEF ChaInv, DependentsInv, TakenBackInv
<1>11. ~TakenBack
  BY Zenon DEF TakenBack
<1>12. UnreachableInv /\ FlagEnterInv /\ FlagFramesInv
  BY <1>11, Zenon DEF UnreachableInv, FlagEnterInv, FlagFramesInv
<1>13. ProfileInv
  BY Zenon DEF ProfileInv, ContainsPc, JitAssumption
<1> QED
  BY <1>1, <1>3, <1>4, <1>5, <1>6, <1>7, <1>8, <1>10, <1>12, <1>13, Zenon DEF IInv

\* every step keeps it,
LEMMA StepKeeps ==
  ASSUME JitAssumption, ~Delays, IInv, [Next]_vars
  PROVE  IInv'
<1>1. CASE UNCHANGED vars
  BY <1>1, StutterKeeps, Zenon
<1>2. ASSUME NEW t \in Mutators, Runs(t), MutatorStep(t) PROVE IInv'
  BY <1>2, CallKeeps, EnterCodeKeeps, ReturnFromKeeps, MethodEnteredKeeps,
     UpdateMethodsCodeKeeps, InvokeOrInterpretKeeps, MaybeDoOnStackReplacementKeeps,
     DeoptimizeSingleFrameKeeps, InvalidateSingleImplementationMethodsKeeps,
     InvalidateSavedEntryPointKeeps, InvalidateEntryPointKeeps,
     WaitForThreadsToRunThroughCheckpointKeeps, CHACheckpointKeeps, MarkCodeKeeps, Zenon
     DEF MutatorStep
<1>3. ASSUME NEW t \in Compilers, Runs(t), CompilerStep(t) PROVE IInv'
  BY <1>3, NotifyCompilationOfKeeps, SpuriousWakeupKeeps, AllocateCodeKeeps,
     CommitCodeKeeps,
     DiscardCodeKeeps, DoneCompilingKeeps, GarbageCollectCacheKeeps,
     WaitForPotentialCollectionToCompleteKeeps, DoCollectionKeeps, RemoveUnmarkedCodeKeeps,
     RemoveDependentsWithMethodHeadersKeeps, FreeCodeKeeps, FreeProfilingInfosKeeps,
     NotifyCollectionDoneKeeps, Zenon
     DEF CompilerStep
<1> QED
  BY <1>1, <1>2, <1>3, NextIsStep, Zenon

\* so it holds throughout.
THEOREM JitInvariant ==
  ASSUME JitAssumption, ~Delays
  PROVE  Spec => []IInv
<1>1. Init => IInv
  BY InitInv, Zenon
<1>2. IInv /\ [Next]_vars => IInv'
  BY StepKeeps, Zenon
<1> QED
  BY <1>1, <1>2, PTL DEF Spec

\* A collection frees no code that a thread runs or is about to enter, or that an entry
\* point, a saved entry point or the OSR map names (CommitCodeInternal, DoCollection).
THEOREM CollectionKeepsCodeInUse ==
  ASSUME JitAssumption, ~Delays
  PROVE  Spec => []CodeInUseIsKept
<1>1. IInv => CodeInUseIsKept
  <2> SUFFICES ASSUME IInv PROVE CodeInUseIsKept
    BY Zenon
  <2>1. \A t \in Mutators : \A k \in DOMAIN stack[t] :
          ContainsPc(stack[t][k].code) => Installed(stack[t][k].m, stack[t][k].code)
    BY Zenon DEF IInv, FramesInv
  <2>2. \A t \in Mutators : pc[t] = "enter" => Installed(local[t].m, local[t].s)
    BY Zenon DEF IInv, EnterInv
  <2>3. \A m \in Methods :
          /\ entry[m] # Bridge => ContainsPc(entry[m]) /\ Installed(m, entry[m])
          /\ osr_code_map[m] # NoCode => Installed(m, osr_code_map[m])
          /\ saved[m] # NoCode => Installed(m, saved[m])
    BY Zenon DEF IInv, EntryInv, TypeOK, ContainsPc
  <2> QED
    BY <2>1, <2>2, <2>3, Zenon DEF CodeInUseIsKept
<1> QED
  BY <1>1, JitInvariant, PTL

\* Once the class that overrides the method is linked, nothing leads to code compiled for
\* a single implementation, and its frames carry the flag that deoptimizes them
\* (InvalidateSingleImplementationMethods, InvalidateCompiledCodeFor, CHACheckpoint).
THEOREM InvalidationIsComplete ==
  ASSUME JitAssumption, ~Delays
  PROVE  Spec => []InvalidatedCodeIsNotUsed
<1>1. IInv => InvalidatedCodeIsNotUsed
  <2> SUFFICES ASSUME IInv, linked PROVE InvalidatedCodeIsNotUsed
    BY Zenon DEF InvalidatedCodeIsNotUsed
  <2>1. TakenBack /\ flagging = {}
    BY Zenon DEF IInv, ChaInv, TakenBack, Invalidating
  <2>2. \A m \in Methods, s \in assumes : ~Reachable(m, s)
    BY <2>1, Zenon DEF IInv, UnreachableInv
  <2>3. \A m \in Methods :
          entry[m] \notin assumes /\ osr_code_map[m] \notin assumes
               /\ saved[m] \notin assumes
    BY <2>2, Zenon DEF Reachable
  <2>4. \A t \in Mutators : pc[t] = "enter" => local[t].s \notin assumes
    BY <2>1, Zenon DEF IInv, FlagEnterInv
  <2>5. \A t \in Mutators : \A k \in DOMAIN stack[t] :
          stack[t][k].code \in assumes => stack[t][k].deoptimize
    BY <2>1, Zenon DEF IInv, FlagFramesInv
  <2> QED
    BY <2>3, <2>4, <2>5, Zenon DEF InvalidatedCodeIsNotUsed
<1> QED
  BY <1>1, JitInvariant, PTL

\* A compilation keeps the profile it began with until DoneCompiling, and compiled code
\* that is an entry point has a profile (NotifyCompilationOf, DoCollection,
\* FreeProfilingInfos).
THEOREM CollectionKeepsProfiles ==
  ASSUME JitAssumption, ~Delays
  PROVE  Spec => []ProfileIsKept
<1>1. IInv => ProfileIsKept
  BY Zenon DEF IInv, CompilingInv, ProfileInv, ProfileIsKept
<1> QED
  BY <1>1, JitInvariant, PTL

=============================================================================
