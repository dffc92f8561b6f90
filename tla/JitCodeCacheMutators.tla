------------------------ MODULE JitCodeCacheMutators ------------------------
(***************************************************************************)
(* Every step of a mutator keeps the invariant of JitCodeCacheInvariant.   *)
(***************************************************************************)
EXTENDS JitCodeCacheInvariant, TLAPS

USE DEF cache, collector, profile, cha, checkpoints, Threads

\* A mutator moves, and no other thread; a compiler moves, and no other thread.
MutatorAlone(t) ==
  /\ \A u \in Mutators : u # t => pc'[u] = pc[u] /\ local'[u] = local[u]
  /\ \A u \in Compilers : pc'[u] = pc[u] /\ local'[u] = local[u]
CompilerAlone(t) ==
  /\ \A u \in Mutators : pc'[u] = pc[u] /\ local'[u] = local[u]
  /\ \A u \in Compilers : u # t => pc'[u] = pc[u] /\ local'[u] = local[u]

\* A thread that moves and takes new locals, and the others.
LEMMA Moved ==
  ASSUME ControlOK, NEW t \in Threads, NEW l, Goto(t, l)
  PROVE  pc'[t] = l /\ \A u \in Threads : u # t => pc'[u] = pc[u]
  BY Zenon DEF ControlOK, Goto

\* With gives one thread new locals and leaves the others theirs.
LEMMA Given ==
  ASSUME ControlOK, NEW t \in Threads, NEW r, With(t, r)
  PROVE  local'[t] = r /\ \A u \in Threads : u # t => local'[u] = local[u]
  BY Zenon DEF ControlOK, With

\* A mutator that goes to a label of its own keeps the types of the control state, and
\* the other threads stay where they are.
LEMMA MutatorMoves ==
  ASSUME JitAssumption, ControlOK, NEW t \in Mutators, NEW l \in MutatorLabels, Goto(t, l),
         \/ UNCHANGED local
         \/ \E r \in Local(Methods \X Slots) : With(t, r)
  PROVE  ControlOK' /\ pc'[t] = l /\ MutatorAlone(t)
<1>1. t \notin Compilers
  BY Zenon DEF JitAssumption
<1>2. /\ pc'[t] = l /\ \A u \in Threads : u # t => pc'[u] = pc[u] /\ local'[u] = local[u]
  BY Moved, Given
<1>3. pc' \in [Threads -> MutatorLabels \cup CompilerLabels]
  BY Zenon DEF ControlOK, Goto
<1>4. local' = [u \in Threads |-> local'[u]] /\ DOMAIN local' = Threads
  BY Zenon DEF ControlOK, With
<1>5. local'[t] \in Local(Methods \X Slots)
  BY Given, Zenon DEF ControlOK
<1> QED
  BY <1>1, <1>2, <1>3, <1>4, <1>5, Zenon DEF ControlOK, MutatorAlone

\* The same of a compiler.
LEMMA CompilerMoves ==
  ASSUME JitAssumption, ControlOK, NEW t \in Compilers, NEW l \in CompilerLabels,
         Goto(t, l),
         \/ UNCHANGED local
         \/ \E r \in Local(Slots) : With(t, r)
  PROVE  ControlOK' /\ pc'[t] = l /\ CompilerAlone(t)
<1>1. t \notin Mutators
  BY Zenon DEF JitAssumption
<1>2. /\ pc'[t] = l /\ \A u \in Threads : u # t => pc'[u] = pc[u] /\ local'[u] = local[u]
  BY Moved, Given
<1>3. pc' \in [Threads -> MutatorLabels \cup CompilerLabels]
  BY Zenon DEF ControlOK, Goto
<1>4. local' = [u \in Threads |-> local'[u]] /\ DOMAIN local' = Threads
  BY Zenon DEF ControlOK, With
<1>5. local'[t] \in Local(Slots)
  BY Given, Zenon DEF ControlOK
<1> QED
  BY <1>1, <1>2, <1>3, <1>4, <1>5, Zenon DEF ControlOK, CompilerAlone

\* Every frame of a stack is a frame of a method.
LEMMA FrameTypes ==
  ASSUME TypeOK, NEW t \in Mutators, NEW k \in DOMAIN stack[t]
  PROVE  stack[t][k] \in Frame /\ stack[t][k].m \in Methods
<1>1. stack[t] \in Seq(Frame)
  BY Zenon DEF TypeOK
<1>2. stack[t][k] \in Frame
  BY <1>1
<1> QED
  BY <1>2, Zenon DEF Frame

\* Frames pushed, popped, replaced and flagged.
\* The stack of t has a new frame, of method m and code s.
FramesPushed(t, m, s) ==
  /\ \A u \in Mutators : u # t => stack'[u] = stack[u]
  /\ \A k \in DOMAIN stack'[t] :
       \/ stack'[t][k].m = m /\ stack'[t][k].code = s
       \/ \E j \in DOMAIN stack[t] : stack'[t][k] = stack[t][j]
\* The stack of t has no new frame.
FramesKept(t) ==
  /\ \A u \in Mutators : u # t => stack'[u] = stack[u]
  /\ \A k \in DOMAIN stack'[t] : \E j \in DOMAIN stack[t] : stack'[t][k] = stack[t][j]

\* A sequence with f in front holds f and what it held.
LEMMA Pushed ==
  ASSUME NEW S, NEW q \in Seq(S), NEW f \in S
  PROVE  /\ <<f>> \o q \in Seq(S)
         /\ \A k \in DOMAIN (<<f>> \o q) :
              (<<f>> \o q)[k] = f \/ \E j \in DOMAIN q : (<<f>> \o q)[k] = q[j]
<1>1. <<f>> \o q \in Seq(S) /\ Len(<<f>> \o q) = Len(q) + 1 /\ Len(q) \in Nat
  OBVIOUS
<1>2. ASSUME NEW k \in 1 .. Len(q) + 1
      PROVE  (<<f>> \o q)[k] = f \/ \E j \in 1 .. Len(q) : (<<f>> \o q)[k] = q[j]
  <2>1. CASE k = 1
    BY <2>1
  <2>2. CASE k # 1
    <3>1. k - 1 \in 1 .. Len(q) /\ (<<f>> \o q)[k] = q[k - 1]
      BY <1>1, <1>2, <2>2
    <3> QED
      BY <3>1, Zenon
  <2> QED
    BY <2>1, <2>2, Zenon
<1> QED
  BY <1>1, <1>2

\* The tail of a sequence holds nothing new.
LEMMA Popped ==
  ASSUME NEW S, NEW q \in Seq(S), q # <<>>
  PROVE  /\ Tail(q) \in Seq(S)
         /\ \A k \in DOMAIN Tail(q) : \E j \in DOMAIN q : Tail(q)[k] = q[j]
<1>1. Tail(q) \in Seq(S) /\ Len(Tail(q)) = Len(q) - 1 /\ Len(q) \in Nat \ {0}
  OBVIOUS
<1>2. ASSUME NEW k \in 1 .. Len(q) - 1
      PROVE  k + 1 \in 1 .. Len(q) /\ Tail(q)[k] = q[k + 1]
  BY <1>1
<1> QED
  BY <1>1, <1>2

\* A sequence whose first element is replaced by f holds f and what it held.
LEMMA Replaced ==
  ASSUME NEW S, NEW q \in Seq(S), q # <<>>, NEW f \in S
  PROVE  /\ [q EXCEPT ![1] = f] \in Seq(S)
         /\ DOMAIN [q EXCEPT ![1] = f] = DOMAIN q
         /\ \A k \in DOMAIN q : [q EXCEPT ![1] = f][k] = f \/ [q EXCEPT ![1] = f][k] = q[k]
  OBVIOUS

\* What a step of a mutator alone does not touch.
LEMMA MarkingKept ==
  ASSUME NEW t, MutatorAlone(t)
  PROVE  Marking' <=> Marking
  BY Zenon DEF MutatorAlone, Marking

\* The memory of compilations and collections is as before while a mutator moves and
\* neither allocates nor maps code.
LEMMA MemoryKept ==
  ASSUME MemoryInv, MappedInv, FreedInv, NEW t, MutatorAlone(t),
         UNCHANGED <<allocated, method_code_map>>
  PROVE  MemoryInv' /\ MappedInv' /\ FreedInv'
<1>1. MemoryInv'
  <2>1. \A u \in Compilers : pc'[u] = pc[u] /\ local'[u] = local[u]
    BY Zenon DEF MutatorAlone
  <2>2. \A u \in Compilers : pc'[u] = "allocated" =>
          local'[u].s \in allocated' /\ method_code_map'[local'[u].s] = NoMethod
    BY <2>1, Zenon DEF MemoryInv
  <2>3. \A u, v \in Compilers :
          pc'[u] = "allocated" /\ pc'[v] = "allocated" /\ v # u => local'[v].s # local'[u].s
    BY <2>1 DEF MemoryInv
  <2> QED
    BY <2>2, <2>3, Zenon DEF MemoryInv
<1>2. FreedInv'
  BY Zenon DEF MutatorAlone, FreedInv
<1>3. MappedInv'
  BY Zenon DEF MappedInv
<1> QED
  BY <1>1, <1>2, <1>3, Zenon

\* Compilations are as before while a mutator moves and drops no profile.
LEMMA CompilingKept ==
  ASSUME CompilingInv, NEW t, MutatorAlone(t), UNCHANGED compiled,
         \A m \in Methods : info[m] => info'[m]
  PROVE  CompilingInv'
  BY DEF MutatorAlone, CompilingInv

\* A collection goes on while a mutator moves, saves no entry point and shares no OSR
\* code with the entry points.
LEMMA CollectionStays ==
  ASSUME CollectionInv, NEW t, MutatorAlone(t), UNCHANGED collector,
         \A m \in Methods : saved[m] = NoCode => saved'[m] = NoCode,
         \A m \in Methods : osr_code_map'[m] # NoCode =>
           osr_code_map'[m] # entry'[m] /\ osr_code_map'[m] # saved'[m]
  PROVE  CollectionInv'
<1>1. UNCHANGED <<collection_in_progress, capacity, increased>>
  BY Zenon
<1>2. \A u, v \in Compilers : pc'[u] \in Collecting /\ pc'[v] \in Collecting => u = v
  BY Zenon DEF MutatorAlone, CollectionInv
<1>3. collection_in_progress' <=> \E u \in Compilers : pc'[u] \in Collecting
  BY <1>1 DEF MutatorAlone, CollectionInv
<1>4. ASSUME NEW u \in Compilers
      PROVE  /\ local'[u].full => pc'[u] \in Collecting
             /\ pc'[u] = "do_collection" =>
                  local'[u].full = ShouldDoFullCollection(capacity', increased')
             /\ pc'[u] \in Collecting \ {"do_collection"} =>
                  \A m \in Methods : saved'[m] = NoCode
  BY <1>1, Zenon DEF MutatorAlone, CollectionInv
<1>5. ~ShouldDoFullCollection(capacity', increased')
         => \A m \in Methods : saved'[m] = NoCode
  BY <1>1, Zenon DEF CollectionInv
<1> QED
  BY <1>2, <1>3, <1>4, <1>5, Zenon DEF CollectionInv, Collecting, ShouldDoFullCollection

\* In particular when the mutator changes no entry point.
LEMMA CollectionKept ==
  ASSUME CollectionInv, NEW t, MutatorAlone(t),
         UNCHANGED <<collector, saved, entry, osr_code_map>>
  PROVE  CollectionInv'
<1>1. UNCHANGED collector /\ UNCHANGED <<saved, entry, osr_code_map>>
  BY Zenon
<1>2. \A m \in Methods : osr_code_map'[m] # NoCode =>
        osr_code_map'[m] # entry'[m] /\ osr_code_map'[m] # saved'[m]
  BY <1>1, Zenon DEF CollectionInv
<1> QED
  BY <1>1, <1>2, CollectionStays, Zenon

\* What the other mutators have in hand is as before when one mutator moves.
LEMMA PlaceKept ==
  ASSUME PlaceInv, NEW t, MutatorAlone(t), UNCHANGED saved,
         \A u \in Mutators : u # t => stack'[u] = stack[u], Place(t)'
  PROVE  PlaceInv'
<1>1. ASSUME NEW u \in Mutators, u # t PROVE Place(u)'
  <2>1. pc'[u] = pc[u] /\ local'[u] = local[u] /\ stack'[u] = stack[u] /\ Place(u)
    BY <1>1, Zenon DEF MutatorAlone, PlaceInv
  <2> QED
    BY <2>1, Zenon DEF Place
<1> QED
  BY <1>1, Zenon DEF PlaceInv

\* A frame pushed on the stack of t keeps what holds of every frame.
LEMMA FramesStayInstalled ==
  ASSUME FramesInv, NEW t \in Mutators, NEW m, NEW s, FramesPushed(t, m, s),
         UNCHANGED <<allocated, method_code_map>>, s \in Slots => Installed(m, s)
  PROVE  FramesInv'
<1> SUFFICES ASSUME NEW u \in Mutators, NEW k \in DOMAIN stack'[u],
                    ContainsPc(stack'[u][k].code)
             PROVE  Installed(stack'[u][k].m, stack'[u][k].code)
  BY Zenon DEF FramesInv, Installed
<1>1. CASE u # t
  BY <1>1, Zenon DEF FramesPushed, FramesInv
<1>2. CASE u = t /\ stack'[t][k].m = m /\ stack'[t][k].code = s
  BY <1>2, Zenon DEF ContainsPc
<1>3. ASSUME u = t, NEW j \in DOMAIN stack[t], stack'[t][k] = stack[t][j]
      PROVE  Installed(stack'[u][k].m, stack'[u][k].code)
  BY <1>3, Zenon DEF FramesInv
<1> QED
  BY <1>1, <1>2, <1>3, Zenon DEF FramesPushed

\* Frames stay marked when the frame pushed is of marked code or its thread still has
\* to be marked.
LEMMA FramesStayMarked ==
  ASSUME MarkFramesInv, NEW t \in Mutators, NEW m, NEW s, FramesPushed(t, m, s),
         Marking' => Marking, UNCHANGED <<live_bitmap, marking>>,
         Marking /\ t \notin marking /\ s \in Slots => s \in live_bitmap
  PROVE  MarkFramesInv'
<1> SUFFICES ASSUME Marking, NEW u \in Mutators \ marking, NEW k \in DOMAIN stack'[u],
                    ContainsPc(stack'[u][k].code)
             PROVE  stack'[u][k].code \in live_bitmap
  BY Zenon DEF MarkFramesInv
<1>1. CASE u # t
  BY <1>1, Zenon DEF FramesPushed, MarkFramesInv
<1>2. CASE u = t /\ stack'[t][k].m = m /\ stack'[t][k].code = s
  BY <1>2, Zenon DEF ContainsPc
<1>3. ASSUME u = t, NEW j \in DOMAIN stack[t], stack'[t][k] = stack[t][j]
      PROVE  stack'[u][k].code \in live_bitmap
  BY <1>3, Zenon DEF MarkFramesInv
<1> QED
  BY <1>1, <1>2, <1>3, Zenon DEF FramesPushed

\* Frames stay flagged when the frame pushed is of code that assumes nothing, or its
\* thread still has to run the checkpoint.
LEMMA FramesStayFlagged ==
  ASSUME FlagFramesInv, NEW t \in Mutators, NEW m, NEW s, FramesPushed(t, m, s),
         TakenBack' => TakenBack, UNCHANGED <<assumes, flagging>>,
         TakenBack /\ t \notin flagging => s \notin assumes
  PROVE  FlagFramesInv'
<1> SUFFICES ASSUME TakenBack, NEW u \in Mutators \ flagging, NEW k \in DOMAIN stack'[u],
                    stack'[u][k].code \in assumes
             PROVE  stack'[u][k].deoptimize
  BY Zenon DEF FlagFramesInv
<1>1. CASE u # t
  BY <1>1, Zenon DEF FramesPushed, FlagFramesInv
<1>2. CASE u = t /\ stack'[t][k].m = m /\ stack'[t][k].code = s
  BY <1>2, Zenon
<1>3. ASSUME u = t, NEW j \in DOMAIN stack[t], stack'[t][k] = stack[t][j]
      PROVE  stack'[u][k].deoptimize
  BY <1>3, Zenon DEF FlagFramesInv
<1> QED
  BY <1>1, <1>2, <1>3, Zenon DEF FramesPushed

\* Code about to be entered stays installed when the mutator that moves has installed
\* code in hand.
LEMMA EnterKept ==
  ASSUME EnterInv, NEW t, MutatorAlone(t), UNCHANGED <<allocated, method_code_map>>,
         pc'[t] = "enter" => local'[t].s \in Slots /\ Installed(local'[t].m, local'[t].s)
  PROVE  EnterInv'
  BY Zenon DEF MutatorAlone, EnterInv, Installed

-----------------------------------------------------------------------------
\* Invoke: a call reads the entry point of the method.
LEMMA CallKeeps ==
  ASSUME JitAssumption, ~Delays, IInv, NEW t \in Mutators, Runs(t), NEW m \in Methods,
         Call(t, m)
  PROVE  IInv'
<1>1. /\ pc[t] = "run"
      /\ UNCHANGED <<entry, profile, cache, collector, cha, checkpoints, stack>>
  BY Zenon DEF Call
<1>2. /\ ControlOK' /\ MutatorAlone(t)
      /\ local'[t].m = m /\ local'[t].todo = {} /\ ~local'[t].cha
      /\ \/ pc'[t] = "execute"
         \/ pc'[t] = "enter" /\ local'[t].s = entry[m] /\ entry[m] \in Slots
  <2>1. CASE ContainsPc(entry[m])
    <3>1. [NoLocal EXCEPT !.m = m, !.s = entry[m]] \in Local(Methods \X Slots)
      BY <2>1, Zenon DEF Local, NoLocal, ContainsPc
    <3>2. Goto(t, "enter") /\ With(t, [NoLocal EXCEPT !.m = m, !.s = entry[m]])
      BY <2>1, Zenon DEF Call
    <3>3. ControlOK' /\ MutatorAlone(t) /\ pc'[t] = "enter"
      BY <3>1, <3>2, MutatorMoves, Zenon DEF IInv, MutatorLabels
    <3>4. local'[t] = [NoLocal EXCEPT !.m = m, !.s = entry[m]]
      BY <3>2, Given, Zenon DEF IInv
    <3> QED
      BY <2>1, <3>3, <3>4, Zenon DEF NoLocal, ContainsPc
  <2>2. CASE ~ContainsPc(entry[m])
    <3>1. [NoLocal EXCEPT !.m = m] \in Local(Methods \X Slots)
      BY Zenon DEF Local, NoLocal
    <3>2. Goto(t, "execute") /\ With(t, [NoLocal EXCEPT !.m = m])
      BY <2>2, Zenon DEF Call
    <3>3. ControlOK' /\ MutatorAlone(t) /\ pc'[t] = "execute"
      BY <3>1, <3>2, MutatorMoves, Zenon DEF IInv, MutatorLabels
    <3>4. local'[t] = [NoLocal EXCEPT !.m = m]
      BY <3>2, Given, Zenon DEF IInv
    <3> QED
      BY <2>2, <3>3, <3>4, Zenon DEF NoLocal
  <2> QED
    BY <2>1, <2>2, Zenon
<1>3. TypeOK'
  BY <1>1, Zenon DEF IInv, TypeOK
<1>4. Marking' <=> Marking
  BY <1>2, MarkingKept, Zenon
<1>5. TakenBack' => TakenBack
  BY <1>1, <1>2, Zenon DEF IInv, PlaceInv, Place, MutatorAlone, TakenBack, Invalidating
<1>6. PlaceInv'
  <2>1. Place(t)'
    BY <1>1, <1>2, Zenon DEF IInv, PlaceInv, Place
  <2> QED
    BY <1>1, <1>2, <2>1, PlaceKept, Zenon DEF IInv
<1>7. SequenceInv'
  BY <1>1, <1>2, Zenon DEF IInv, MutatorAlone, SequenceInv, Runs, InSequence
<1>8. CollectionInv'
  BY <1>1, <1>2, CollectionKept, Zenon DEF IInv
<1>9. MemoryInv' /\ MappedInv' /\ FreedInv'
  BY <1>1, <1>2, MemoryKept, Zenon DEF IInv
<1>10. MarkEntryInv'
  BY <1>1, <1>2, <1>4, Zenon DEF IInv, MutatorAlone, MarkEntryInv
<1>11. MarkEnterInv'
  BY <1>1, <1>2, <1>4, Zenon DEF IInv, MutatorAlone, MarkEnterInv, MarkEntryInv, ContainsPc
<1>12. MarkFramesInv'
  BY <1>1, <1>2, <1>4, Zenon DEF IInv, MutatorAlone, MarkFramesInv
<1>13. FramesInv'
  BY <1>1, <1>2, Zenon DEF IInv, MutatorAlone, FramesInv, Installed
<1>14. EnterInv'
  <2>1. pc'[t] = "enter" => local'[t].s \in Slots /\ Installed(local'[t].m, local'[t].s)
    BY <1>2, Zenon DEF IInv, EntryInv, JitAssumption
  <2> QED
    BY <1>1, <1>2, <2>1, EnterKept, Zenon DEF IInv, Installed
<1>15. EntryInv'
  BY <1>1, <1>2, Zenon DEF IInv, MutatorAlone, EntryInv, Installed
<1>16. ChaInv'
  BY <1>1, <1>2, Zenon DEF IInv, MutatorAlone, ChaInv, Invalidating
<1>17. DependentsInv'
  BY <1>1, <1>2, Zenon DEF IInv, MutatorAlone, DependentsInv
<1>18. TakenBackInv'
  BY <1>1, <1>2, Zenon DEF IInv, MutatorAlone, TakenBackInv, Invalidating, Reachable
<1>19. UnreachableInv'
  BY <1>1, <1>2, <1>5, Zenon DEF IInv, MutatorAlone, UnreachableInv, Reachable
<1>20. FlagEnterInv'
  BY <1>1, <1>2, <1>5 DEF IInv, MutatorAlone, FlagEnterInv, UnreachableInv, Reachable
<1>21. FlagFramesInv'
  BY <1>1, <1>2, <1>5, Zenon DEF IInv, MutatorAlone, FlagFramesInv
<1>22. CompilingInv'
  BY <1>1, <1>2, CompilingKept, Zenon DEF IInv
<1>23. ProfileInv'
  BY <1>1, <1>2, Zenon DEF IInv, MutatorAlone, ProfileInv, ContainsPc
<1> QED
  BY <1>2, <1>3, <1>6, <1>7, <1>8, <1>9, <1>10, <1>11, <1>12, <1>13, <1>14, <1>15, <1>16,
     <1>17, <1>18, <1>19, <1>20, <1>21, <1>22, <1>23, Zenon DEF IInv

\* Entering the code whose entry point was read pushes its frame.
LEMMA EnterCodeKeeps ==
  ASSUME JitAssumption, ~Delays, IInv, NEW t \in Mutators, Runs(t), EnterCode(t)
  PROVE  IInv'
<1>1. /\ pc[t] = "enter"
      /\ UNCHANGED <<entry, profile, cache, collector, cha, checkpoints>>
      /\ stack' = [stack EXCEPT ![t] = <<Compiled(local[t].m, local[t].s)>> \o @]
  BY Zenon DEF EnterCode
<1>2. /\ ControlOK' /\ MutatorAlone(t) /\ pc'[t] = "run"
      /\ local'[t].todo = {} /\ ~local'[t].cha
  <2>1. NoLocal \in Local(Methods \X Slots)
    BY Zenon DEF Local, NoLocal
  <2>2. Goto(t, "run") /\ With(t, NoLocal)
    BY Zenon DEF EnterCode
  <2>3. ControlOK' /\ MutatorAlone(t) /\ pc'[t] = "run"
    BY <2>1, <2>2, MutatorMoves, Zenon DEF IInv, MutatorLabels
  <2>4. local'[t] = NoLocal
    BY <2>2, Given, Zenon DEF IInv
  <2> QED
    BY <2>3, <2>4 DEF NoLocal
<1>3. local[t].m \in Methods /\ local[t].s \in Slots
  BY <1>1, Zenon DEF IInv, PlaceInv, Place, EnterInv
<1>4. TypeOK' /\ FramesPushed(t, local[t].m, local[t].s)
  <2>1. Compiled(local[t].m, local[t].s) \in Frame
    BY <1>3, Zenon DEF Compiled, Frame
  <2>2. stack \in [Mutators -> Seq(Frame)]
    BY Zenon DEF IInv, TypeOK
  <2>3. stack'[t] = <<Compiled(local[t].m, local[t].s)>> \o stack[t]
    BY <1>1, <2>2, Zenon
  <2>4. stack'[t] \in Seq(Frame) /\ \A u \in Mutators : u # t => stack'[u] = stack[u]
    BY <1>1, <2>1, <2>2, <2>3, Pushed, Zenon
  <2>5. stack' \in [Mutators -> Seq(Frame)]
    BY <1>1, <2>1, <2>2, <2>3, Pushed, Zenon
  <2>6. \A k \in DOMAIN stack'[t] :
           \/ stack'[t][k] = Compiled(local[t].m, local[t].s)
           \/ \E j \in DOMAIN stack[t] : stack'[t][k] = stack[t][j]
    BY <2>1, <2>2, <2>3, Pushed
  <2>7. TypeOK'
    BY <1>1, <2>5, Zenon DEF IInv, TypeOK
  <2> QED
    BY <2>4, <2>6, <2>7 DEF FramesPushed, Compiled
<1>5. \A u \in Mutators : u # t => stack'[u] = stack[u]
  BY <1>4, Zenon DEF FramesPushed
<1>6. Marking' <=> Marking
  BY <1>2, MarkingKept, Zenon
<1>7. TakenBack' => TakenBack
  BY <1>1, <1>2, Zenon DEF IInv, PlaceInv, Place, MutatorAlone, TakenBack, Invalidating
<1>8. PlaceInv'
  BY <1>1, <1>2, <1>5 DEF IInv, MutatorAlone, PlaceInv, Place
<1>9. SequenceInv'
  BY <1>1, <1>2, Zenon DEF IInv, MutatorAlone, SequenceInv, Runs, InSequence
<1>10. CollectionInv'
  BY <1>1, <1>2, CollectionKept, Zenon DEF IInv
<1>11. MemoryInv' /\ MappedInv' /\ FreedInv'
  BY <1>1, <1>2, MemoryKept, Zenon DEF IInv
<1>12. MarkEntryInv'
  BY <1>1, <1>2, <1>6, Zenon DEF IInv, MutatorAlone, MarkEntryInv
<1>13. MarkEnterInv'
  BY <1>1, <1>2, <1>6, Zenon DEF IInv, MutatorAlone, MarkEnterInv
<1>14. MarkFramesInv'
  BY <1>1, <1>4, <1>6, FramesStayMarked, Zenon DEF IInv, MarkEnterInv
<1>15. FramesInv'
  BY <1>1, <1>4, FramesStayInstalled, Zenon DEF IInv, EnterInv
<1>16. EnterInv'
  BY <1>1, <1>2, Zenon DEF IInv, MutatorAlone, EnterInv, Installed
<1>17. EntryInv'
  BY <1>1, <1>2, Zenon DEF IInv, MutatorAlone, EntryInv, Installed
<1>18. ChaInv'
  BY <1>1, <1>2, Zenon DEF IInv, MutatorAlone, ChaInv, Invalidating
<1>19. DependentsInv'
  BY <1>1, <1>2, Zenon DEF IInv, MutatorAlone, DependentsInv
<1>20. TakenBackInv'
  BY <1>1, <1>2, Zenon DEF IInv, MutatorAlone, TakenBackInv, Invalidating, Reachable
<1>21. UnreachableInv'
  BY <1>1, <1>2, <1>7, Zenon DEF IInv, MutatorAlone, UnreachableInv, Reachable
<1>22. FlagEnterInv'
  BY <1>1, <1>2, <1>7, Zenon DEF IInv, MutatorAlone, FlagEnterInv
<1>23. FlagFramesInv'
  BY <1>1, <1>4, <1>7, FramesStayFlagged, Zenon DEF IInv, FlagEnterInv
<1>24. CompilingInv'
  BY <1>1, <1>2, CompilingKept, Zenon DEF IInv
<1>25. ProfileInv'
  BY <1>1, <1>2, Zenon DEF IInv, MutatorAlone, ProfileInv, ContainsPc
<1> QED
  BY <1>2, <1>4, <1>8, <1>9, <1>10, <1>11, <1>12, <1>13, <1>14, <1>15, <1>16, <1>17, <1>18,
     <1>19, <1>20, <1>21, <1>22, <1>23, <1>24, <1>25, Zenon DEF IInv

\* A return pops a frame.
LEMMA ReturnFromKeeps ==
  ASSUME JitAssumption, ~Delays, IInv, NEW t \in Mutators, Runs(t), ReturnFrom(t)
  PROVE  IInv'
<1>1. /\ pc[t] = "run"
      /\ UNCHANGED <<entry, profile, cache, collector, cha, checkpoints, pc, local>>
  BY Zenon DEF ReturnFrom
<1>2. TypeOK' /\ FramesKept(t)
  <2>1. stack \in [Mutators -> Seq(Frame)] /\ stack[t] # <<>>
        /\ stack' = [stack EXCEPT ![t] = Tail(@)]
    BY Zenon DEF IInv, TypeOK, ReturnFrom
  <2>2. stack' \in [Mutators -> Seq(Frame)]
    BY <2>1, Popped, Zenon
  <2>3. \A k \in DOMAIN stack'[t] : \E j \in DOMAIN stack[t] : stack'[t][k] = stack[t][j]
    BY <2>1, Popped
  <2> QED
    BY <1>1, <2>1, <2>2, <2>3, Zenon DEF IInv, TypeOK, FramesKept
<1>3. FramesPushed(t, NoMethod, NoCode) /\ NoCode \notin Slots /\ NoCode \notin assumes
  BY <1>2, Zenon DEF FramesKept, FramesPushed, IInv, TypeOK, JitAssumption
<1>4. ControlOK'
  BY <1>1, Zenon DEF IInv, ControlOK
<1>5. Marking' <=> Marking
  BY <1>1, Zenon DEF Marking
<1>6. TakenBack' => TakenBack
  BY <1>1, Zenon DEF IInv, PlaceInv, Place, TakenBack, Invalidating
<1>7. PlaceInv'
  BY <1>1, <1>2, Zenon DEF IInv, PlaceInv, Place, FramesKept
<1>8. SequenceInv'
  BY <1>1, Zenon DEF IInv, SequenceInv, Runs, InSequence
<1>9. CollectionInv'
  BY <1>1, Zenon DEF IInv, CollectionInv, Collecting
<1>10. MemoryInv' /\ MappedInv' /\ FreedInv'
  BY <1>1, Zenon DEF IInv, MemoryInv, MappedInv, FreedInv
<1>11. MarkEntryInv'
  BY <1>1, <1>5, Zenon DEF IInv, MarkEntryInv
<1>12. MarkEnterInv'
  BY <1>1, <1>5, Zenon DEF IInv, MarkEnterInv
<1>13. MarkFramesInv'
  BY <1>1, <1>5, <1>3, FramesStayMarked, Zenon DEF IInv
<1>14. FramesInv'
  BY <1>1, <1>3, FramesStayInstalled, Zenon DEF IInv
<1>15. EnterInv'
  BY <1>1, Zenon DEF IInv, EnterInv, Installed
<1>16. EntryInv'
  BY <1>1, Zenon DEF IInv, EntryInv, Installed
<1>17. ChaInv'
  BY <1>1, Zenon DEF IInv, ChaInv, Invalidating
<1>18. DependentsInv'
  BY <1>1, Zenon DEF IInv, DependentsInv
<1>19. TakenBackInv'
  BY <1>1, Zenon DEF IInv, TakenBackInv, Invalidating, Reachable
<1>20. UnreachableInv'
  BY <1>1, <1>6, Zenon DEF IInv, UnreachableInv, Reachable
<1>21. FlagEnterInv'
  BY <1>1, <1>6, Zenon DEF IInv, FlagEnterInv
<1>22. FlagFramesInv'
  BY <1>1, <1>6, <1>3, FramesStayFlagged, Zenon DEF IInv
<1>23. CompilingInv'
  BY <1>1, Zenon DEF IInv, CompilingInv
<1>24. ProfileInv'
  BY <1>1, Zenon DEF IInv, ProfileInv, ContainsPc
<1> QED
  BY <1>2, <1>4, <1>7, <1>8, <1>9, <1>10, <1>11, <1>12, <1>13, <1>14, <1>15, <1>16, <1>17,
     <1>18, <1>19, <1>20, <1>21, <1>22, <1>23, <1>24, Zenon DEF IInv

\* MethodEntered makes a profile and looks at the saved entry point.
LEMMA MethodEnteredKeeps ==
  ASSUME JitAssumption, ~Delays, IInv, NEW t \in Mutators, Runs(t), MethodEntered(t)
  PROVE  IInv'
<1>1. /\ pc[t] = "execute" /\ local[t].m \in Methods /\ ~local[t].cha
      /\ UNCHANGED <<entry, orphan, saved, compiled, cache, collector, cha, checkpoints, stack>>
  BY Zenon DEF MethodEntered, AddProfilingInfo, IInv, PlaceInv, Place
<1>2. /\ ControlOK' /\ MutatorAlone(t)
      /\ local'[t].m = local[t].m /\ local'[t].todo = local[t].todo /\ ~local'[t].cha
      /\ \/ pc'[t] = "invoke"
         \/ /\ pc'[t] = "publish"
            /\ local'[t].s = saved[local[t].m] /\ saved[local[t].m] # NoCode
  <2>1. CASE info[local[t].m] /\ saved[local[t].m] # NoCode
    <3>0. local[t] \in Local(Methods \X Slots) /\ saved[local[t].m] \in Slots \cup {NoCode}
      BY <1>1, Zenon DEF IInv, ControlOK, TypeOK
    <3>1. [local[t] EXCEPT !.s = saved[local[t].m]] \in Local(Methods \X Slots)
      BY <3>0, Zenon DEF Local
    <3>2. Goto(t, "publish") /\ With(t, [local[t] EXCEPT !.s = saved[local[t].m]])
      BY <2>1, Zenon DEF MethodEntered
    <3>3. ControlOK' /\ MutatorAlone(t) /\ pc'[t] = "publish"
      BY <3>1, <3>2, MutatorMoves, Zenon DEF IInv, MutatorLabels
    <3>4. local'[t] = [local[t] EXCEPT !.s = saved[local[t].m]]
      BY <3>2, Given, Zenon DEF IInv
    <3> QED
      BY <2>1, <3>3, <3>4, <1>1, <3>0, Zenon DEF Local
  <2>2. CASE ~(info[local[t].m] /\ saved[local[t].m] # NoCode)
    <3>1. Goto(t, "invoke") /\ UNCHANGED local
      BY <2>2, Zenon DEF MethodEntered
    <3> QED
      BY <1>1, <3>1, MutatorMoves, Zenon DEF IInv, MutatorLabels
  <2> QED
    BY <2>1, <2>2, Zenon
<1>3. info' \in [Methods -> BOOLEAN] /\ \A n \in Methods : info[n] => info'[n]
  BY Zenon DEF MethodEntered, AddProfilingInfo, IInv, TypeOK
<1>4. TypeOK'
  BY <1>1, <1>3, Zenon DEF IInv, TypeOK
<1>5. Marking' <=> Marking
  BY <1>2, MarkingKept, Zenon
<1>6. TakenBack' => TakenBack
  BY <1>1, <1>2, Zenon DEF IInv, PlaceInv, Place, MutatorAlone, TakenBack, Invalidating
<1>7. PlaceInv'
  BY <1>1, <1>2 DEF IInv, MutatorAlone, PlaceInv, Place
<1>8. SequenceInv'
  BY <1>1, <1>2, Zenon DEF IInv, MutatorAlone, SequenceInv, Runs, InSequence
<1>9. CollectionInv'
  BY <1>1, <1>2, CollectionKept, Zenon DEF IInv
<1>10. MemoryInv' /\ MappedInv' /\ FreedInv'
  BY <1>1, <1>2, MemoryKept, Zenon DEF IInv
<1>11. MarkEntryInv'
  BY <1>1, <1>2, <1>5, Zenon DEF IInv, MutatorAlone, MarkEntryInv
<1>12. MarkEnterInv'
  BY <1>1, <1>2, <1>5, Zenon DEF IInv, MutatorAlone, MarkEnterInv
<1>13. MarkFramesInv'
  BY <1>1, <1>2, <1>5, Zenon DEF IInv, MutatorAlone, MarkFramesInv
<1>14. FramesInv'
  BY <1>1, <1>2, Zenon DEF IInv, MutatorAlone, FramesInv, Installed
<1>15. EnterInv'
  BY <1>1, <1>2, Zenon DEF IInv, MutatorAlone, EnterInv, Installed
<1>16. EntryInv'
  BY <1>1, <1>2, Zenon DEF IInv, MutatorAlone, EntryInv, Installed
<1>17. ChaInv'
  BY <1>1, <1>2, Zenon DEF IInv, MutatorAlone, ChaInv, Invalidating
<1>18. DependentsInv'
  BY <1>1, <1>2, Zenon DEF IInv, MutatorAlone, DependentsInv
<1>19. TakenBackInv'
  BY <1>1, <1>2, Zenon DEF IInv, MutatorAlone, TakenBackInv, Invalidating, Reachable
<1>20. UnreachableInv'
  BY <1>1, <1>2, <1>6, Zenon DEF IInv, MutatorAlone, UnreachableInv, Reachable
<1>21. FlagEnterInv'
  BY <1>1, <1>2, <1>6, Zenon DEF IInv, MutatorAlone, FlagEnterInv
<1>22. FlagFramesInv'
  BY <1>1, <1>2, <1>6, Zenon DEF IInv, MutatorAlone, FlagFramesInv
<1>23. CompilingInv'
  BY <1>1, <1>2, <1>3, CompilingKept, Zenon DEF IInv
<1>24. ProfileInv'
  BY <1>1, <1>3, Zenon DEF IInv, ProfileInv
<1> QED
  BY <1>2, <1>4, <1>7, <1>8, <1>9, <1>10, <1>11, <1>12, <1>13, <1>14, <1>15, <1>16, <1>17,
     <1>18, <1>19, <1>20, <1>21, <1>22, <1>23, <1>24, Zenon DEF IInv

\* UpdateMethodsCode publishes the saved entry point.
LEMMA UpdateMethodsCodeKeeps ==
  ASSUME JitAssumption, ~Delays, IInv, NEW t \in Mutators, Runs(t), UpdateMethodsCode(t)
  PROVE  IInv'
<1>1. /\ pc[t] = "publish" /\ local[t].m \in Methods /\ ~local[t].cha
      /\ saved[local[t].m] # NoCode /\ local[t].s = saved[local[t].m]
      /\ UNCHANGED <<profile, cache, collector, cha, checkpoints, stack, local>>
  BY Zenon DEF UpdateMethodsCode, IInv, PlaceInv, Place
<1>2. ControlOK' /\ MutatorAlone(t) /\ pc'[t] = "invoke"
  <2>1. Goto(t, "invoke") /\ UNCHANGED local
    BY Zenon DEF UpdateMethodsCode
  <2> QED
    BY <2>1, MutatorMoves, Zenon DEF IInv, MutatorLabels
<1>3. PICK m \in Methods :
        saved[m] # NoCode /\ entry' = [entry EXCEPT ![m] = saved[m]]
  BY <1>1, Zenon DEF UpdateMethodsCode
<1>4. \A n \in Methods : entry'[n] = entry[n] \/ (entry'[n] = saved[n] /\ saved[n] # NoCode)
  <2>1. entry \in [Methods -> Slots \cup {Bridge}]
    BY Zenon DEF IInv, TypeOK
  <2>2. entry'[m] = saved[m] /\ \A n \in Methods : n # m => entry'[n] = entry[n]
    BY <1>3, <2>1, Zenon
  <2>3. m \in Methods /\ saved[m] # NoCode
    BY <1>3, Zenon
  <2> QED
    BY <2>2, <2>3, Zenon
<1>5. TypeOK'
  <2>1. entry' \in [Methods -> Slots \cup {Bridge}]
    BY <1>3, JitAssumption, Zenon DEF IInv, TypeOK, JitAssumption
  <2> QED
    BY <1>1, <2>1, Zenon DEF IInv, TypeOK
<1>6. Marking' <=> Marking
  BY <1>2, MarkingKept, Zenon
<1>7. TakenBack' => TakenBack
  BY <1>1, <1>2, Zenon DEF IInv, PlaceInv, Place, MutatorAlone, TakenBack, Invalidating
<1>8. PlaceInv'
  BY <1>1, <1>2 DEF IInv, MutatorAlone, PlaceInv, Place
<1>9. SequenceInv'
  BY <1>1, <1>2, Zenon DEF IInv, MutatorAlone, SequenceInv, Runs, InSequence
<1>10. CollectionInv'
  <2>1. \A n \in Methods : osr_code_map'[n] # NoCode =>
           osr_code_map'[n] # entry'[n] /\ osr_code_map'[n] # saved'[n]
    BY <1>1, <1>4, Zenon DEF IInv, CollectionInv
  <2> QED
    BY <1>1, <1>2, <2>1 DEF IInv, MutatorAlone, CollectionInv, Collecting
<1>11. MemoryInv' /\ MappedInv' /\ FreedInv'
  BY <1>1, <1>2, MemoryKept, Zenon DEF IInv
<1>12. MarkEntryInv'
  <2>1. ~Marking
    BY <1>1, Zenon DEF IInv, CollectionInv, Collecting, Marking, JitAssumption
  <2> QED
    BY <2>1, <1>6, Zenon DEF MarkEntryInv
<1>13. MarkEnterInv'
  BY <1>1, <1>2, <1>6, Zenon DEF IInv, MutatorAlone, MarkEnterInv
<1>14. MarkFramesInv'
  BY <1>1, <1>2, <1>6, Zenon DEF IInv, MutatorAlone, MarkFramesInv
<1>15. FramesInv'
  BY <1>1, <1>2, Zenon DEF IInv, MutatorAlone, FramesInv, Installed
<1>16. EnterInv'
  BY <1>1, <1>2, Zenon DEF IInv, MutatorAlone, EnterInv, Installed
<1>17. EntryInv'
  BY <1>1, <1>4 DEF IInv, EntryInv, Installed
<1>18. ChaInv'
  BY <1>1, <1>2, Zenon DEF IInv, MutatorAlone, ChaInv, Invalidating
<1>19. DependentsInv'
  BY <1>1, <1>2, Zenon DEF IInv, MutatorAlone, DependentsInv
<1>20. TakenBackInv'
  BY <1>1, <1>2, <1>4 DEF IInv, MutatorAlone, TakenBackInv, Invalidating, Reachable
<1>21. UnreachableInv'
  BY <1>1, <1>4, <1>7, Zenon DEF IInv, UnreachableInv, Reachable
<1>22. FlagEnterInv'
  BY <1>1, <1>2, <1>7, Zenon DEF IInv, MutatorAlone, FlagEnterInv
<1>23. FlagFramesInv'
  BY <1>1, <1>2, <1>7, Zenon DEF IInv, MutatorAlone, FlagFramesInv
<1>24. CompilingInv'
  BY <1>1, <1>2, CompilingKept, Zenon DEF IInv
<1>25. ProfileInv'
  BY <1>1, <1>4, Zenon DEF IInv, ProfileInv
<1> QED
  BY <1>2, <1>5, <1>8, <1>9, <1>10, <1>11, <1>12, <1>13, <1>14, <1>15, <1>16, <1>17, <1>18,
     <1>19, <1>20, <1>21, <1>22, <1>23, <1>24, <1>25, Zenon DEF IInv

\* The interpreter goes to compiled code or pushes a frame of its own.
LEMMA InvokeOrInterpretKeeps ==
  ASSUME JitAssumption, ~Delays, IInv, NEW t \in Mutators, Runs(t), InvokeOrInterpret(t)
  PROVE  IInv'
<1>1. /\ pc[t] = "invoke" /\ local[t].m \in Methods /\ ~local[t].cha
      /\ UNCHANGED <<entry, profile, cache, collector, cha, checkpoints>>
  BY Zenon DEF InvokeOrInterpret, IInv, PlaceInv, Place
<1>2. /\ ControlOK' /\ MutatorAlone(t) /\ ~local'[t].cha
      /\ \/ /\ pc'[t] = "enter" /\ local'[t].m = local[t].m
            /\ local'[t].s = entry[local[t].m] /\ entry[local[t].m] \in Slots
         \/ pc'[t] = "run"
  <2>1. CASE ContainsPc(entry[local[t].m])
    <3>0. local[t] \in Local(Methods \X Slots)
      BY Zenon DEF IInv, ControlOK
    <3>1. [local[t] EXCEPT !.s = entry[local[t].m]] \in Local(Methods \X Slots)
      BY <2>1, <3>0, Zenon DEF Local, ContainsPc
    <3>2. Goto(t, "enter") /\ With(t, [local[t] EXCEPT !.s = entry[local[t].m]])
      BY <2>1, Zenon DEF InvokeOrInterpret
    <3>3. ControlOK' /\ MutatorAlone(t) /\ pc'[t] = "enter"
      BY <3>1, <3>2, MutatorMoves, Zenon DEF IInv, MutatorLabels
    <3>4. local'[t] = [local[t] EXCEPT !.s = entry[local[t].m]]
      BY <3>2, Given, Zenon DEF IInv
    <3> QED
      BY <2>1, <3>3, <3>4, <1>1, <3>0, Zenon DEF Local, ContainsPc
  <2>2. CASE ~ContainsPc(entry[local[t].m])
    <3>1. NoLocal \in Local(Methods \X Slots)
      BY Zenon DEF Local, NoLocal
    <3>2. Goto(t, "run") /\ With(t, NoLocal)
      BY <2>2, Zenon DEF InvokeOrInterpret
    <3>3. ControlOK' /\ MutatorAlone(t) /\ pc'[t] = "run"
      BY <3>1, <3>2, MutatorMoves, Zenon DEF IInv, MutatorLabels
    <3>4. local'[t] = NoLocal
      BY <3>2, Given, Zenon DEF IInv
    <3> QED
      BY <2>2, <3>3, <3>4 DEF NoLocal
  <2> QED
    BY <2>1, <2>2, Zenon
<1>3. TypeOK' /\ FramesPushed(t, local[t].m, NoCode)
  <2>1. CASE UNCHANGED stack
    BY <1>1, <2>1, Zenon DEF IInv, TypeOK, FramesPushed
  <2>2. CASE stack' = [stack EXCEPT ![t] = <<Interpreted(local[t].m)>> \o @]
    <3>1. Interpreted(local[t].m) \in Frame
      BY <1>1, Zenon DEF Interpreted, Frame
    <3>2. stack \in [Mutators -> Seq(Frame)]
      BY Zenon DEF IInv, TypeOK
    <3>3. stack'[t] = <<Interpreted(local[t].m)>> \o stack[t]
      BY <2>2, <3>2, Zenon
    <3>4. stack' \in [Mutators -> Seq(Frame)] /\ \A u \in Mutators : u # t
             => stack'[u] = stack[u]
      BY <2>2, <3>1, <3>2, <3>3, Pushed, Zenon
    <3>5. \A k \in DOMAIN stack'[t] :
             \/ stack'[t][k] = Interpreted(local[t].m)
             \/ \E j \in DOMAIN stack[t] : stack'[t][k] = stack[t][j]
      BY <3>1, <3>2, <3>3, Pushed
    <3>6. TypeOK'
      BY <1>1, <3>4, Zenon DEF IInv, TypeOK
    <3> QED
      BY <3>4, <3>5, <3>6 DEF FramesPushed, Interpreted
  <2> QED
    BY <2>1, <2>2, Zenon DEF InvokeOrInterpret
<1>4. \A u \in Mutators : u # t => stack'[u] = stack[u]
  BY <1>3, Zenon DEF FramesPushed
<1>5. NoCode \notin Slots /\ NoCode \notin assumes
  BY Zenon DEF IInv, TypeOK, JitAssumption
<1>6. Marking' <=> Marking
  BY <1>2, MarkingKept, Zenon
<1>7. TakenBack' => TakenBack
  BY <1>1, <1>2, Zenon DEF IInv, PlaceInv, Place, MutatorAlone, TakenBack, Invalidating
<1>8. PlaceInv'
  <2>1. Place(t)'
    BY <1>1, <1>2, <1>4, Zenon DEF IInv, PlaceInv, Place
  <2> QED
    BY <1>1, <1>2, <1>4, <2>1, PlaceKept, Zenon DEF IInv
<1>9. SequenceInv'
  BY <1>1, <1>2, Zenon DEF IInv, MutatorAlone, SequenceInv, Runs, InSequence
<1>10. CollectionInv'
  BY <1>1, <1>2, CollectionKept, Zenon DEF IInv
<1>11. MemoryInv' /\ MappedInv' /\ FreedInv'
  BY <1>1, <1>2, MemoryKept, Zenon DEF IInv
<1>12. MarkEntryInv'
  BY <1>1, <1>2, <1>6, Zenon DEF IInv, MutatorAlone, MarkEntryInv
<1>13. MarkEnterInv'
  BY <1>1, <1>2, <1>6, Zenon DEF IInv, MutatorAlone, MarkEnterInv, MarkEntryInv, ContainsPc
<1>14. MarkFramesInv'
  BY <1>1, <1>3, <1>5, <1>6, FramesStayMarked, Zenon DEF IInv
<1>15. FramesInv'
  BY <1>1, <1>3, <1>5, FramesStayInstalled, Zenon DEF IInv
<1>16. EnterInv'
  <2>1. pc'[t] = "enter" => local'[t].s \in Slots /\ Installed(local'[t].m, local'[t].s)
    <3>1. \A m \in Methods : entry[m] \in Slots => Installed(m, entry[m])
      BY Zenon DEF IInv, EntryInv, JitAssumption
    <3>2. local[t].m \in Methods
      BY <1>1, Zenon DEF IInv, PlaceInv, Place
    <3> QED
      BY <1>2, <3>1, <3>2, Zenon
  <2> QED
    BY <1>1, <1>2, <2>1, EnterKept, Zenon DEF IInv, Installed
<1>17. EntryInv'
  BY <1>1, <1>2, Zenon DEF IInv, MutatorAlone, EntryInv, Installed
<1>18. ChaInv'
  BY <1>1, <1>2, Zenon DEF IInv, MutatorAlone, ChaInv, Invalidating
<1>19. DependentsInv'
  BY <1>1, <1>2, Zenon DEF IInv, MutatorAlone, DependentsInv
<1>20. TakenBackInv'
  BY <1>1, <1>2, Zenon DEF IInv, MutatorAlone, TakenBackInv, Invalidating, Reachable
<1>21. UnreachableInv'
  BY <1>1, <1>2, <1>7, Zenon DEF IInv, MutatorAlone, UnreachableInv, Reachable
<1>22. FlagEnterInv'
  BY <1>1, <1>2, <1>7, ZenonT(40) DEF IInv, MutatorAlone, FlagEnterInv, UnreachableInv,
     Reachable
<1>23. FlagFramesInv'
  BY <1>1, <1>3, <1>5, <1>7, FramesStayFlagged, Zenon DEF IInv
<1>24. CompilingInv'
  BY <1>1, <1>2, CompilingKept, Zenon DEF IInv
<1>25. ProfileInv'
  BY <1>1, <1>2, Zenon DEF IInv, MutatorAlone, ProfileInv, ContainsPc
<1> QED
  BY <1>2, <1>3, <1>8, <1>9, <1>10, <1>11, <1>12, <1>13, <1>14, <1>15, <1>16, <1>17, <1>18,
     <1>19, <1>20, <1>21, <1>22, <1>23, <1>24, <1>25, Zenon DEF IInv

\* MaybeDoOnStackReplacement replaces the frame by one of the OSR code.
LEMMA MaybeDoOnStackReplacementKeeps ==
  ASSUME JitAssumption, ~Delays, IInv, NEW t \in Mutators, Runs(t),
         MaybeDoOnStackReplacement(t)
  PROVE  IInv'
<1> DEFINE m == stack[t][1].m
<1>1. /\ pc[t] = "run"
      /\ UNCHANGED <<entry, profile, cache, collector, cha, checkpoints, stack>>
  BY Zenon DEF MaybeDoOnStackReplacement
<1>2. m \in Methods /\ osr_code_map[m] \in Slots
  <2>1. stack[t] \in Seq(Frame) /\ stack[t] # <<>> /\ osr_code_map[m] # NoCode
    BY Zenon DEF MaybeDoOnStackReplacement, IInv, TypeOK
  <2>2. stack[t][1] \in Frame
    BY <2>1
  <2>3. m \in Methods
    BY <2>2, Zenon DEF Frame
  <2> QED
    BY <2>1, <2>3, Zenon DEF IInv, TypeOK
<1> HIDE DEF m
<1>3. /\ ControlOK' /\ MutatorAlone(t) /\ pc'[t] = "enter"
      /\ local'[t].m = m /\ ~local'[t].cha /\ local'[t].s = osr_code_map[m]
  <2>1. [NoLocal EXCEPT !.m = m, !.s = osr_code_map[m]] \in Local(Methods \X Slots)
    BY <1>2, Zenon DEF Local, NoLocal
  <2>2. Goto(t, "enter") /\ With(t, [NoLocal EXCEPT !.m = m, !.s = osr_code_map[m]])
    BY Zenon DEF MaybeDoOnStackReplacement, m
  <2>3. ControlOK' /\ MutatorAlone(t) /\ pc'[t] = "enter"
    BY <2>1, <2>2, MutatorMoves, Zenon DEF IInv, MutatorLabels
  <2>4. local'[t] = [NoLocal EXCEPT !.m = m, !.s = osr_code_map[m]]
    BY <2>2, Given, Zenon DEF IInv
  <2> QED
    BY <2>3, <2>4, Zenon DEF NoLocal
<1>4. TypeOK'
  BY <1>1, Zenon DEF IInv, TypeOK
<1>5. osr_code_map[m] # NoCode
  BY <1>2, Zenon DEF JitAssumption
<1>6. Marking' <=> Marking
  BY <1>3, MarkingKept, Zenon
<1>7. TakenBack' => TakenBack
  BY <1>1, <1>2, <1>3, Zenon DEF IInv, PlaceInv, Place, MutatorAlone, TakenBack,
     Invalidating
<1>8. PlaceInv'
  <2>1. PlaceInv /\ UNCHANGED saved /\ UNCHANGED stack
    BY <1>1, Zenon DEF IInv
  <2>2. Place(t)'
    BY <1>2, <1>3, Zenon DEF Place
  <2> QED
    BY <1>3, <2>1, <2>2, PlaceKept, Zenon
<1>9. SequenceInv'
  BY <1>1, <1>2, <1>3, Zenon DEF IInv, MutatorAlone, SequenceInv, Runs, InSequence
<1>10. CollectionInv'
  BY <1>1, <1>2, <1>3, CollectionKept, Zenon DEF IInv
<1>11. MemoryInv' /\ MappedInv' /\ FreedInv'
  BY <1>1, <1>2, <1>3, MemoryKept, Zenon DEF IInv
<1>12. MarkEntryInv'
  BY <1>1, <1>2, <1>3, <1>6, Zenon DEF IInv, MutatorAlone, MarkEntryInv
<1>13. MarkEnterInv'
  BY <1>1, <1>2, <1>3, <1>5, <1>6, Zenon DEF IInv, MutatorAlone, MarkEnterInv, MarkEntryInv
<1>14. MarkFramesInv'
  BY <1>1, <1>2, <1>3, <1>6, Zenon DEF IInv, MutatorAlone, MarkFramesInv
<1>15. FramesInv'
  BY <1>1, <1>2, <1>3, Zenon DEF IInv, MutatorAlone, FramesInv, Installed
<1>16. EnterInv'
  BY <1>1, <1>2, <1>3, <1>5, EnterKept, Zenon DEF IInv, EntryInv, Installed
<1>17. EntryInv'
  BY <1>1, <1>2, <1>3, Zenon DEF IInv, MutatorAlone, EntryInv, Installed
<1>18. ChaInv'
  BY <1>1, <1>2, <1>3, Zenon DEF IInv, MutatorAlone, ChaInv, Invalidating
<1>19. DependentsInv'
  BY <1>1, <1>2, <1>3, Zenon DEF IInv, MutatorAlone, DependentsInv
<1>20. TakenBackInv'
  BY <1>1, <1>2, <1>3, Zenon DEF IInv, MutatorAlone, TakenBackInv, Invalidating, Reachable
<1>21. UnreachableInv'
  BY <1>1, <1>2, <1>3, <1>7, Zenon DEF IInv, MutatorAlone, UnreachableInv, Reachable
<1>22. FlagEnterInv'
  BY <1>1, <1>2, <1>3, <1>7, Zenon DEF IInv, MutatorAlone, FlagEnterInv, UnreachableInv,
     Reachable
<1>23. FlagFramesInv'
  BY <1>1, <1>2, <1>3, <1>7, Zenon DEF IInv, MutatorAlone, FlagFramesInv
<1>24. CompilingInv'
  BY <1>1, <1>2, <1>3, CompilingKept, Zenon DEF IInv
<1>25. ProfileInv'
  BY <1>1, <1>2, <1>3, Zenon DEF IInv, MutatorAlone, ProfileInv, ContainsPc
<1> QED
  BY <1>3, <1>4, <1>8, <1>9, <1>10, <1>11, <1>12, <1>13, <1>14, <1>15, <1>16, <1>17, <1>18,
     <1>19, <1>20, <1>21, <1>22, <1>23, <1>24, <1>25, Zenon DEF IInv

\* DeoptimizeSingleFrame replaces the frame and sets out to invalidate its code.
LEMMA DeoptimizeSingleFrameKeeps ==
  ASSUME JitAssumption, ~Delays, IInv, NEW t \in Mutators, Runs(t), DeoptimizeSingleFrame(t)
  PROVE  IInv'
<1> DEFINE d == <<stack[t][1].m, stack[t][1].code>>
<1>1. /\ pc[t] = "run" /\ stack[t] # <<>>
      /\ UNCHANGED <<entry, profile, cache, collector, cha, checkpoints, stack>>
  BY Zenon DEF DeoptimizeSingleFrame
<1>2. d \in Methods \X Slots
  <2>1. stack[t] \in Seq(Frame) /\ stack[t] # <<>> /\ stack[t][1].code \in Slots
    BY Zenon DEF DeoptimizeSingleFrame, IInv, TypeOK, ContainsPc
  <2>2. stack[t][1] \in Frame
    BY <2>1
  <2> QED
    BY <2>1, <2>2, Zenon DEF Frame
<1> HIDE DEF d
<1>3. /\ ControlOK' /\ MutatorAlone(t) /\ pc'[t] = "invalidate"
      /\ local'[t].todo = {d} /\ ~local'[t].cha
  <2>1. [NoLocal EXCEPT !.todo = {d}] \in Local(Methods \X Slots)
    BY <1>2, Zenon DEF Local, NoLocal
  <2>2. Goto(t, "invalidate") /\ With(t, [NoLocal EXCEPT !.todo = {d}])
    BY Zenon DEF DeoptimizeSingleFrame, d
  <2>3. ControlOK' /\ MutatorAlone(t) /\ pc'[t] = "invalidate"
    BY <2>1, <2>2, MutatorMoves, Zenon DEF IInv, MutatorLabels
  <2>4. local'[t] = [NoLocal EXCEPT !.todo = {d}]
    BY <2>2, Given, Zenon DEF IInv
  <2> QED
    BY <2>3, <2>4, Zenon DEF NoLocal
<1>4. TypeOK'
  BY <1>1, Zenon DEF IInv, TypeOK
<1>5. local'[t].todo # {}
  BY <1>3, Zenon
<1>6. Marking' <=> Marking
  BY <1>3, MarkingKept, Zenon
<1>7. TakenBack' => TakenBack
  BY <1>1, <1>3, <1>5, Zenon DEF IInv, PlaceInv, Place, MutatorAlone, TakenBack,
     Invalidating
<1>8. PlaceInv'
  <2>1. Place(t)'
    BY <1>1, <1>3, <1>5, Zenon DEF IInv, PlaceInv, Place
  <2> QED
    BY <1>1, <1>3, <1>5, <2>1, PlaceKept, Zenon DEF IInv
<1>9. SequenceInv'
  BY <1>1, <1>3, <1>5, Zenon DEF IInv, MutatorAlone, SequenceInv, Runs, InSequence
<1>10. CollectionInv'
  BY <1>1, <1>3, <1>5, CollectionKept, Zenon DEF IInv
<1>11. MemoryInv' /\ MappedInv' /\ FreedInv'
  BY <1>1, <1>3, <1>5, MemoryKept, Zenon DEF IInv
<1>12. MarkEntryInv'
  BY <1>1, <1>3, <1>5, <1>6, Zenon DEF IInv, MutatorAlone, MarkEntryInv
<1>13. MarkEnterInv'
  BY <1>1, <1>3, <1>5, <1>6, Zenon DEF IInv, MutatorAlone, MarkEnterInv
<1>14. MarkFramesInv'
  BY <1>1, <1>3, <1>5, <1>6, Zenon DEF IInv, MutatorAlone, MarkFramesInv
<1>15. FramesInv'
  BY <1>1, <1>3, <1>5, Zenon DEF IInv, MutatorAlone, FramesInv, Installed
<1>16. EnterInv'
  BY <1>1, <1>3, <1>5, Zenon DEF IInv, MutatorAlone, EnterInv, Installed
<1>17. EntryInv'
  BY <1>1, <1>3, <1>5, Zenon DEF IInv, MutatorAlone, EntryInv, Installed
<1>18. ChaInv'
  BY <1>1, <1>3, <1>5, Zenon DEF IInv, MutatorAlone, ChaInv, Invalidating
<1>19. DependentsInv'
  BY <1>1, <1>3, <1>5, Zenon DEF IInv, MutatorAlone, DependentsInv
<1>20. TakenBackInv'
  BY <1>1, <1>3, <1>5, Zenon DEF IInv, MutatorAlone, TakenBackInv, Invalidating, Reachable
<1>21. UnreachableInv'
  BY <1>1, <1>3, <1>5, <1>7, Zenon DEF IInv, MutatorAlone, UnreachableInv, Reachable
<1>22. FlagEnterInv'
  BY <1>1, <1>3, <1>5, <1>7, Zenon DEF IInv, MutatorAlone, FlagEnterInv
<1>23. FlagFramesInv'
  BY <1>1, <1>3, <1>5, <1>7, Zenon DEF IInv, MutatorAlone, FlagFramesInv
<1>24. CompilingInv'
  BY <1>1, <1>3, <1>5, CompilingKept, Zenon DEF IInv
<1>25. ProfileInv'
  BY <1>1, <1>3, <1>5, Zenon DEF IInv, MutatorAlone, ProfileInv, ContainsPc
<1> QED
  BY <1>3, <1>4, <1>8, <1>9, <1>10, <1>11, <1>12, <1>13, <1>14, <1>15, <1>16, <1>17, <1>18,
     <1>19, <1>20, <1>21, <1>22, <1>23, <1>24, <1>25, Zenon DEF IInv

\* InvalidateSingleImplementationMethods gives up the assumption and takes the
\* dependents away to invalidate them.
LEMMA InvalidateSingleImplementationMethodsKeeps ==
  ASSUME JitAssumption, ~Delays, IInv, NEW t \in Mutators, Runs(t),
         InvalidateSingleImplementationMethods(t)
  PROVE  IInv'
<1>1. /\ pc[t] = "run" /\ single /\ single' = FALSE
      /\ UNCHANGED <<entry, profile, cache, collector, dependents, checkpoints, stack>>
  BY Zenon DEF InvalidateSingleImplementationMethods
<1>2. \A m \in Methods, s \in assumes : Installed(m, s) => <<m, s>> \in dependents
  BY <1>1, Zenon DEF IInv, DependentsInv, Installed, JitAssumption
<1>3. \A m \in Methods, s \in assumes : Reachable(m, s) => <<m, s>> \in dependents
  <2>1. \A m \in Methods, s \in Slots : Reachable(m, s) => Installed(m, s)
    BY Zenon DEF IInv, EntryInv, Reachable, JitAssumption
  <2>2. assumes \subseteq Slots
    BY Zenon DEF IInv, TypeOK
  <2> QED
    BY <1>2, <2>1, <2>2, Zenon
<1>4. flagging = {} /\ ~linked /\ \A u \in Mutators : ~local[u].cha
  BY <1>1, Zenon DEF IInv, ChaInv
<1>5. CASE dependents = {}
  <2>1. linked' = TRUE /\ UNCHANGED <<cha_lock, pc, local>>
    BY <1>5, Zenon DEF InvalidateSingleImplementationMethods
  <2>2. TypeOK'
    BY <1>1, <2>1, Zenon DEF IInv, TypeOK
  <2>3. ControlOK'
    BY <2>1, Zenon DEF IInv, ControlOK
  <2>4. PlaceInv' /\ SequenceInv' /\ ProfileInv'
    BY <1>1, <2>1, Zenon DEF IInv, PlaceInv, Place, SequenceInv, ProfileInv
  <2>5. CollectionInv' /\ MemoryInv' /\ MappedInv' /\ FreedInv'
    BY <1>1, <2>1, Zenon DEF IInv, CollectionInv, MemoryInv, MappedInv, FreedInv
  <2>6. MarkEntryInv' /\ MarkEnterInv' /\ MarkFramesInv'
    BY <1>1, <2>1, Zenon DEF IInv, Marking, MarkEntryInv, MarkEnterInv, MarkFramesInv
  <2>7. FramesInv' /\ EnterInv' /\ EntryInv'
    BY <1>1, <2>1, Zenon DEF IInv, FramesInv, EnterInv, EntryInv, Installed
  <2>8. ChaInv' /\ DependentsInv' /\ TakenBackInv'
    BY <1>1, <1>4, <2>1, Zenon DEF ChaInv, DependentsInv, TakenBackInv, Invalidating
  <2>9. UnreachableInv'
    BY <1>1, <1>3, <1>5, Zenon DEF UnreachableInv, Reachable
  <2>10. FlagEnterInv'
    BY <1>1, <1>2, <1>5, <2>1, Zenon DEF IInv, EnterInv, PlaceInv, Place, FlagEnterInv
  <2>11. FlagFramesInv'
    <3>1. \A u \in Mutators : \A k \in DOMAIN stack[u] :
            stack[u][k].m \in Methods
                 /\ (stack[u][k].code \in assumes => ContainsPc(stack[u][k].code))
      BY FrameTypes, Zenon DEF IInv, TypeOK, ContainsPc
    <3>2. \A u \in Mutators : \A k \in DOMAIN stack[u] : stack[u][k].code \notin assumes
      BY <1>2, <1>5, <3>1, Zenon DEF IInv, FramesInv
    <3> QED
      BY <1>1, <3>2, Zenon DEF FlagFramesInv
  <2>12. CompilingInv'
    BY <1>1, <2>1, Zenon DEF IInv, CompilingInv
  <2> QED
    BY <2>2, <2>3, <2>4, <2>5, <2>6, <2>7, <2>8, <2>9, <2>10, <2>11, <2>12, Zenon DEF IInv
<1>6. CASE dependents # {}
  <2>1. cha_lock' = t /\ UNCHANGED linked
    BY <1>6, Zenon DEF InvalidateSingleImplementationMethods
  <2>2. /\ ControlOK' /\ MutatorAlone(t) /\ pc'[t] = "invalidate"
        /\ local'[t].todo = dependents /\ local'[t].cha
    <3>0. dependents \subseteq Methods \X Slots
      BY Zenon DEF IInv, TypeOK
    <3>1. [NoLocal EXCEPT !.todo = dependents, !.cha = TRUE] \in Local(Methods \X Slots)
      BY <3>0, Zenon DEF Local, NoLocal
    <3>2. Goto(t, "invalidate")
             /\ With(t, [NoLocal EXCEPT !.todo = dependents, !.cha = TRUE])
      BY <1>6, Zenon DEF InvalidateSingleImplementationMethods
    <3>3. ControlOK' /\ MutatorAlone(t) /\ pc'[t] = "invalidate"
      BY <3>1, <3>2, MutatorMoves, Zenon DEF IInv, MutatorLabels
    <3>4. local'[t] = [NoLocal EXCEPT !.todo = dependents, !.cha = TRUE]
      BY <3>2, Given, Zenon DEF IInv
    <3> QED
      BY <1>6, <3>3, <3>4, Zenon DEF NoLocal
  <2>3. TypeOK'
    BY <1>1, <2>1, Zenon DEF IInv, TypeOK
  <2>4. Marking' <=> Marking
    BY <2>2, MarkingKept, Zenon
  <2>5. Invalidating(t)' /\ ~TakenBack'
    BY <2>2, Zenon DEF Invalidating, TakenBack
  <2>6. PlaceInv'
    <3>1. PlaceInv /\ UNCHANGED saved /\ UNCHANGED stack
      BY <1>1, Zenon DEF IInv
    <3>2. Place(t)'
      BY <1>6, <2>2, Zenon DEF Place
    <3> QED
      BY <2>2, <3>1, <3>2, PlaceKept, Zenon
  <2>7. SequenceInv'
    BY <1>1, <2>2, Zenon DEF IInv, MutatorAlone, SequenceInv, InSequence
  <2>8. CollectionInv'
    BY <1>1, <2>2, CollectionKept, Zenon DEF IInv
  <2>9. MemoryInv' /\ MappedInv' /\ FreedInv'
    BY <1>1, <2>2, MemoryKept, Zenon DEF IInv
  <2>10. MarkEntryInv' /\ MarkEnterInv' /\ MarkFramesInv'
    BY <1>1, <2>2, <2>4, Zenon DEF IInv, MutatorAlone, MarkEntryInv, MarkEnterInv,
       MarkFramesInv
  <2>11. FramesInv' /\ EnterInv' /\ EntryInv'
    <3>1. FramesInv' /\ EntryInv'
      BY <1>1, Zenon DEF IInv, FramesInv, EntryInv, Installed
    <3>2. EnterInv'
      BY <1>1, <2>2, EnterKept, Zenon DEF IInv
    <3> QED
      BY <3>1, <3>2, Zenon
  <2>12. ChaInv'
    BY <1>1, <1>4, <2>1, <2>2, Zenon DEF MutatorAlone, ChaInv, Invalidating
  <2>13. DependentsInv'
    BY <1>1, Zenon DEF DependentsInv
  <2>14. TakenBackInv'
    BY <1>1, <1>3, <1>4, <2>2, Zenon DEF MutatorAlone, TakenBackInv, Invalidating, Reachable
  <2>15. UnreachableInv' /\ FlagEnterInv' /\ FlagFramesInv'
    BY <2>5, Zenon DEF UnreachableInv, FlagEnterInv, FlagFramesInv
  <2>16. ProfileInv'
    BY <1>1, <2>2, Zenon DEF IInv, MutatorAlone, ProfileInv
  <2>17. CompilingInv'
    BY <1>1, <2>2, CompilingKept, Zenon DEF IInv
  <2> QED
    BY <2>2, <2>3, <2>6, <2>7, <2>8, <2>9, <2>10, <2>11, <2>12, <2>13, <2>14,
       <2>15, <2>16, <2>17, Zenon DEF IInv
<1> QED
  BY <1>5, <1>6, Zenon

\* InvalidateCompiledCodeFor, the saved entry point.
LEMMA InvalidateSavedEntryPointKeeps ==
  ASSUME JitAssumption, ~Delays, IInv, NEW t \in Mutators, Runs(t),
         InvalidateSavedEntryPoint(t)
  PROVE  IInv'
<1>1. /\ pc[t] = "invalidate"
      /\ UNCHANGED <<entry, info, orphan, compiled, cache, collector, cha, checkpoints, stack>>
  BY Zenon DEF InvalidateSavedEntryPoint
<1>2. PICK d \in local[t].todo :
        /\ saved' = IF info[d[1]] /\ saved[d[1]] = d[2]
                    THEN [saved EXCEPT ![d[1]] = NoCode] ELSE saved
        /\ With(t, [local[t] EXCEPT !.m = d[1], !.s = d[2]])
  BY Zenon DEF InvalidateSavedEntryPoint
<1>3. local[t] \in Local(Methods \X Slots)
  BY Zenon DEF IInv, ControlOK
<1>4. /\ d[1] \in Methods /\ d[2] \in Slots /\ d = <<d[1], d[2]>>
  BY <1>2, <1>3 DEF Local
<1>5. /\ ControlOK' /\ MutatorAlone(t) /\ pc'[t] = "invalidate_entry"
      /\ local'[t].m = d[1] /\ local'[t].s = d[2]
      /\ local'[t].todo = local[t].todo /\ local'[t].cha = local[t].cha
  <2>1. [local[t] EXCEPT !.m = d[1], !.s = d[2]] \in Local(Methods \X Slots)
    BY <1>3, <1>4, Zenon DEF Local
  <2>2. ControlOK' /\ MutatorAlone(t) /\ pc'[t] = "invalidate_entry"
    BY <1>2, <2>1, MutatorMoves, Zenon DEF IInv, MutatorLabels, InvalidateSavedEntryPoint
  <2>3. local'[t] = [local[t] EXCEPT !.m = d[1], !.s = d[2]]
    BY <1>2, Given, Zenon DEF IInv
  <2> QED
    BY <1>3, <2>2, <2>3, Zenon DEF Local
<1>6. /\ saved' \in [Methods -> Slots \cup {NoCode}]
      /\ \A n \in Methods : saved'[n] = saved[n] \/ saved'[n] = NoCode
      /\ saved'[d[1]] # d[2]
  <2>1. saved \in [Methods -> Slots \cup {NoCode}]
    BY Zenon DEF IInv, TypeOK
  <2>2. d[2] # NoCode
    BY <1>4, Zenon DEF JitAssumption
  <2>3. saved[d[1]] # NoCode => info[d[1]]
    BY <1>4, Zenon DEF IInv, ProfileInv
  <2> QED
    BY <1>2, <1>4, <2>1, <2>2, <2>3
<1>7. TypeOK'
  BY <1>1, <1>6, Zenon DEF IInv, TypeOK
<1>8. NoCode \notin assumes
  BY Zenon DEF IInv, TypeOK, JitAssumption
<1>9. local'[t].m \in Methods /\ <<local'[t].m, local'[t].s>> \in local'[t].todo
      /\ saved'[local'[t].m] # local'[t].s
  BY <1>2, <1>4, <1>5, <1>6, Zenon
<1>10. \A u \in Mutators : u # t => pc[u] # "publish" /\ pc[u] # "invalidate_entry"
  BY Zenon DEF Runs, InSequence
<1>11. Marking' <=> Marking
  BY <1>5, MarkingKept, Zenon
<1>12. TakenBack' => TakenBack
  BY <1>1, <1>5, Zenon DEF IInv, PlaceInv, Place, MutatorAlone, TakenBack, Invalidating
<1>13. PlaceInv'
  <2>1. \A u \in Mutators : u # t =>
          pc'[u] = pc[u] /\ local'[u] = local[u] /\ pc[u] # "publish"
               /\ pc[u] # "invalidate_entry"
    BY <1>5, <1>10, Zenon DEF MutatorAlone
  <2>2. PlaceInv /\ UNCHANGED stack
    BY <1>1, Zenon DEF IInv
  <2>3. local'[t].todo # {} /\ (~local'[t].cha => stack[t] # <<>>)
    BY <1>1, <1>5, <2>2, Zenon DEF PlaceInv, Place
  <2> QED
    BY <1>5, <1>9, <2>1, <2>2, <2>3 DEF PlaceInv, Place
<1>14. SequenceInv'
  BY <1>1, <1>5, Zenon DEF IInv, MutatorAlone, SequenceInv, Runs, InSequence
<1>15. CollectionInv'
  <2>1. \A n \in Methods : osr_code_map'[n] # NoCode =>
           osr_code_map'[n] # entry'[n] /\ osr_code_map'[n] # saved'[n]
    BY <1>1, <1>6, Zenon DEF IInv, CollectionInv
  <2>2. \A n \in Methods : saved[n] = NoCode => saved'[n] = NoCode
    BY <1>6, Zenon
  <2> QED
    BY <1>1, <1>5, <2>1, <2>2, CollectionStays, Zenon DEF IInv
<1>16. MemoryInv' /\ MappedInv' /\ FreedInv'
  BY <1>1, <1>5, MemoryKept, Zenon DEF IInv
<1>17. MarkEntryInv'
  BY <1>1, <1>5, <1>11, Zenon DEF IInv, MutatorAlone, MarkEntryInv
<1>18. MarkEnterInv'
  BY <1>1, <1>5, <1>11, Zenon DEF IInv, MutatorAlone, MarkEnterInv
<1>19. MarkFramesInv'
  BY <1>1, <1>5, <1>11, Zenon DEF IInv, MutatorAlone, MarkFramesInv
<1>20. FramesInv'
  BY <1>1, <1>5, Zenon DEF IInv, MutatorAlone, FramesInv, Installed
<1>21. EnterInv'
  BY <1>1, <1>5, Zenon DEF IInv, MutatorAlone, EnterInv, Installed
<1>22. EntryInv'
  BY <1>1, <1>6, Zenon DEF IInv, EntryInv, Installed
<1>23. ChaInv'
  BY <1>1, <1>5, Zenon DEF IInv, MutatorAlone, ChaInv, Invalidating
<1>24. DependentsInv'
  BY <1>1, <1>5, Zenon DEF IInv, MutatorAlone, DependentsInv
<1>25. TakenBackInv'
  <2>1. \A n \in Methods, r \in assumes : (Reachable(n, r))' => Reachable(n, r)
    BY <1>1, <1>6, <1>8, Zenon DEF Reachable
  <2> QED
    BY <1>1, <1>5, <2>1, Zenon DEF IInv, MutatorAlone, TakenBackInv, Invalidating
<1>26. UnreachableInv'
  BY <1>1, <1>6, <1>8, <1>12, Zenon DEF IInv, UnreachableInv, Reachable
<1>27. FlagEnterInv'
  BY <1>1, <1>5, <1>12, Zenon DEF IInv, MutatorAlone, FlagEnterInv
<1>28. FlagFramesInv'
  BY <1>1, <1>5, <1>12, Zenon DEF IInv, MutatorAlone, FlagFramesInv
<1>29. CompilingInv'
  BY <1>1, <1>5, CompilingKept, Zenon DEF IInv
<1>30. ProfileInv'
  <2>1. \A n \in Methods : saved'[n] # NoCode => saved[n] # NoCode
    BY <1>6, Zenon
  <2> QED
    BY <1>1, <2>1, Zenon DEF IInv, ProfileInv
<1> QED
  BY <1>5, <1>7, <1>13, <1>14, <1>15, <1>16, <1>17, <1>18, <1>19, <1>20, <1>21, <1>22,
     <1>23, <1>24, <1>25, <1>26, <1>27, <1>28, <1>29, <1>30, Zenon DEF IInv

\* InvalidateCompiledCodeFor, the entry point and the OSR code.
LEMMA InvalidateEntryPointKeeps ==
  ASSUME JitAssumption, ~Delays, IInv, NEW t \in Mutators, Runs(t), InvalidateEntryPoint(t)
  PROVE  IInv'
<1> DEFINE m == local[t].m
           s == local[t].s
           rest == local[t].todo \ {<<m, s>>}
<1>1. /\ pc[t] = "invalidate_entry" /\ m \in Methods /\ saved[m] # s
      /\ UNCHANGED <<profile, method_code_map, assumes, allocated, live_bitmap, collector, marking>>
  BY Zenon DEF InvalidateEntryPoint, IInv, PlaceInv, Place
<1>2. local[t] \in Local(Methods \X Slots)
  BY Zenon DEF IInv, ControlOK
<1>3. local[t].todo \subseteq Methods \X Slots /\ <<m, s>> \in local[t].todo
  BY <1>1, <1>2, Zenon DEF Local, IInv, PlaceInv, Place
<1>4. s \in Slots
  BY <1>3, Zenon
<1>5. /\ entry' \in [Methods -> Slots \cup {Bridge}]
      /\ osr_code_map' \in [Methods -> Slots \cup {NoCode}]
      /\ entry'[m] # s /\ osr_code_map'[m] # s
      /\ \A n \in Methods : /\ entry'[n] = entry[n] \/ entry'[n] = Bridge
                            /\ osr_code_map'[n] = osr_code_map[n] \/ osr_code_map'[n] = NoCode
  <2>1. entry \in [Methods -> Slots \cup {Bridge}]
           /\ osr_code_map \in [Methods -> Slots \cup {NoCode}]
    BY Zenon DEF IInv, TypeOK
  <2>2. s # NoCode /\ s # Bridge
    BY <1>4, Zenon DEF JitAssumption
  <2>3. entry[m] = s => osr_code_map[m] # s
    BY <1>1, <2>2, Zenon DEF IInv, CollectionInv
  <2>4. /\ IF entry[m] = s
           THEN entry' = [entry EXCEPT ![m] = Bridge] /\ UNCHANGED osr_code_map
           ELSE /\ osr_code_map' = IF osr_code_map[m] = s
                                   THEN [osr_code_map EXCEPT ![m] = NoCode]
                                   ELSE osr_code_map
                /\ UNCHANGED entry
    BY Zenon DEF InvalidateEntryPoint
  <2>5. m \in Methods
    BY <1>1, Zenon
  <2> HIDE DEF m, s
  <2> QED
    BY <2>1, <2>2, <2>3, <2>4, <2>5, Zenon
<1>6. NoCode \notin assumes /\ Bridge \notin assumes /\ Bridge \notin Slots
         /\ NoCode \notin Slots
  BY Zenon DEF IInv, TypeOK, JitAssumption
<1>7. \A n \in Methods, r \in assumes :
        (Reachable(n, r))' => Reachable(n, r) /\ <<n, r>> # <<m, s>>
  BY <1>1, <1>5, <1>6, Zenon DEF Reachable
<1>8. /\ ControlOK' /\ MutatorAlone(t)
      /\ \/ /\ pc'[t] = "invalidate" /\ rest # {}
            /\ local'[t].todo = rest /\ local'[t].cha = local[t].cha
            /\ UNCHANGED <<stack, cha, flagging>>
         \/ /\ pc'[t] = "run_checkpoint" /\ rest = {} /\ local[t].cha
            /\ flagging' = Mutators /\ dependents' = {} /\ cha_lock' = NoThread
            /\ UNCHANGED <<stack, local, single, linked>>
         \/ /\ pc'[t] = "run" /\ rest = {} /\ ~local[t].cha /\ ~local'[t].cha
            /\ stack' = [stack EXCEPT ![t][1] = Interpreted(m)]
            /\ UNCHANGED <<cha, flagging>>
  <2>1. CASE rest # {}
    <3>0. Goto(t, "invalidate") /\ With(t, [local[t] EXCEPT !.todo = rest])
          /\ UNCHANGED <<stack, cha, flagging>>
      BY <2>1, Zenon DEF InvalidateEntryPoint
    <3>1. [local[t] EXCEPT !.todo = rest] \in Local(Methods \X Slots)
      BY <1>2, <1>3, Zenon DEF Local
    <3>2. ControlOK' /\ MutatorAlone(t) /\ pc'[t] = "invalidate"
      BY <3>0, <3>1, MutatorMoves, Zenon DEF IInv, MutatorLabels
    <3>3. local'[t] = [local[t] EXCEPT !.todo = rest]
      BY <3>0, Given, Zenon DEF IInv
    <3>4. local'[t].todo = rest /\ local'[t].cha = local[t].cha
      BY <1>2, <3>3, Zenon DEF Local
    <3> HIDE DEF rest
    <3> QED
      BY <2>1, <3>0, <3>2, <3>4, Zenon
  <2>2. CASE rest = {} /\ local[t].cha
    <3>1. /\ Goto(t, "run_checkpoint") /\ flagging' = Mutators
          /\ dependents' = {} /\ cha_lock' = NoThread
          /\ UNCHANGED <<stack, local, single, linked>>
      BY <2>2, Zenon DEF InvalidateEntryPoint
    <3>2. ControlOK' /\ MutatorAlone(t) /\ pc'[t] = "run_checkpoint"
      BY <3>1, MutatorMoves, Zenon DEF IInv, MutatorLabels
    <3> HIDE DEF rest
    <3> QED
      BY <2>2, <3>1, <3>2, Zenon
  <2>3. CASE rest = {} /\ ~local[t].cha
    <3>0. /\ Goto(t, "run") /\ With(t, NoLocal)
          /\ stack' = [stack EXCEPT ![t][1] = Interpreted(m)]
          /\ UNCHANGED <<cha, flagging>>
      BY <2>3, Zenon DEF InvalidateEntryPoint
    <3>1. NoLocal \in Local(Methods \X Slots) /\ ~NoLocal.cha
      BY Zenon DEF Local, NoLocal
    <3>2. ControlOK' /\ MutatorAlone(t) /\ pc'[t] = "run"
      BY <3>0, <3>1, MutatorMoves, Zenon DEF IInv, MutatorLabels
    <3>3. ~local'[t].cha
      BY <3>0, <3>1, Given, Zenon DEF IInv
    <3> HIDE DEF rest, m
    <3> QED
      BY <2>3, <3>0, <3>2, <3>3, Zenon
  <2> QED
    BY <2>1, <2>2, <2>3, Zenon
<1>9. stack' \in [Mutators -> Seq(Frame)] /\ FramesPushed(t, m, NoCode)
  <2>1. CASE UNCHANGED stack
    BY <2>1, Zenon DEF IInv, TypeOK, FramesPushed
  <2>2. CASE ~local[t].cha /\ stack' = [stack EXCEPT ![t][1] = Interpreted(m)]
    <3>1. Interpreted(m) \in Frame /\ Interpreted(m).m = m /\ Interpreted(m).code = NoCode
      BY <1>1, Zenon DEF Interpreted, Frame
    <3>2. stack \in [Mutators -> Seq(Frame)] /\ stack[t] # <<>>
      BY <1>1, <2>2, Zenon DEF IInv, TypeOK, PlaceInv, Place
    <3> HIDE DEF m
    <3>3. /\ stack'[t] = [stack[t] EXCEPT ![1] = Interpreted(m)]
          /\ \A u \in Mutators : u # t => stack'[u] = stack[u]
          /\ stack' = [stack EXCEPT ![t] = stack'[t]]
      BY <2>2, <3>2, Zenon
    <3>4. /\ stack'[t] \in Seq(Frame) /\ DOMAIN stack'[t] = DOMAIN stack[t]
          /\ \A k \in DOMAIN stack[t] : stack'[t][k] = Interpreted(m) \/ stack'[t][k] = stack[t][k]
      BY <3>1, <3>2, <3>3, Replaced
    <3>5. stack' \in [Mutators -> Seq(Frame)]
      BY <3>2, <3>3, <3>4, Zenon
    <3> QED
      BY <3>1, <3>3, <3>4, <3>5, Zenon DEF FramesPushed
  <2> QED
    BY <1>8, <2>1, <2>2, Zenon
<1> HIDE DEF m, s, rest
<1>10. TypeOK'
  <2>1. /\ single' \in BOOLEAN /\ linked' \in BOOLEAN
           /\ dependents' \subseteq Methods \X Slots
        /\ cha_lock' \in Mutators \cup {NoThread} /\ flagging' \subseteq Mutators
    BY <1>8, Zenon DEF IInv, TypeOK
  <2> QED
    BY <1>1, <1>5, <1>9, <2>1, Zenon DEF IInv, TypeOK
<1>11. \A u \in Mutators : u # t => stack'[u] = stack[u]
  BY <1>9, Zenon DEF FramesPushed
<1>12. Marking' <=> Marking
  BY <1>8, MarkingKept, Zenon
<1>13. PlaceInv'
  <2>1. \A u \in Mutators : u # t =>
          pc'[u] = pc[u] /\ local'[u] = local[u] /\ stack'[u] = stack[u]
    BY <1>8, <1>11, Zenon DEF MutatorAlone
  <2>2. PlaceInv /\ UNCHANGED saved
    BY <1>1, Zenon DEF IInv
  <2>3. CASE pc'[t] = "invalidate"
    <3>1. /\ local'[t].todo # {} /\ local'[t].cha = local[t].cha /\ stack'[t] = stack[t]
          /\ ~local[t].cha => stack[t] # <<>>
      BY <1>1, <1>8, <2>2, <2>3, Zenon DEF PlaceInv, Place
    <3> QED
      BY <2>1, <2>2, <2>3, <3>1 DEF PlaceInv, Place
  <2>4. CASE pc'[t] = "run_checkpoint"
    <3>1. local'[t].cha
      BY <1>8, <2>4, Zenon
    <3> QED
      BY <2>1, <2>2, <2>4, <3>1 DEF PlaceInv, Place
  <2>5. CASE pc'[t] = "run"
    <3>1. ~local'[t].cha
      BY <1>8, <2>5, Zenon
    <3> QED
      BY <2>1, <2>2, <2>5, <3>1 DEF PlaceInv, Place
  <2> QED
    BY <1>8, <2>3, <2>4, <2>5, Zenon
<1>14. SequenceInv'
  BY <1>8, Zenon DEF IInv, MutatorAlone, SequenceInv, InSequence
<1>15. CollectionInv'
  <2>1. \A n \in Methods : osr_code_map'[n] # NoCode =>
           osr_code_map'[n] # entry'[n] /\ osr_code_map'[n] # saved'[n]
    <3>1. \A n \in Methods : osr_code_map'[n] # NoCode =>
             osr_code_map'[n] \in Slots /\ osr_code_map'[n] = osr_code_map[n]
      BY <1>5, Zenon
    <3>2. \A n \in Methods : entry'[n] = entry[n] \/ entry'[n] = Bridge
      BY <1>5, Zenon
    <3>3. \A n \in Methods : osr_code_map[n] # NoCode =>
             osr_code_map[n] # entry[n] /\ osr_code_map[n] # saved[n]
      BY Zenon DEF IInv, CollectionInv
    <3> QED
      BY <1>1, <1>6, <3>1, <3>2, <3>3, Zenon
  <2>2. \A u \in Compilers : pc'[u] = pc[u] /\ local'[u] = local[u]
    BY <1>8, Zenon DEF MutatorAlone
  <2> QED
    BY <1>1, <2>1, <2>2 DEF IInv, CollectionInv
<1>16. MemoryInv' /\ MappedInv' /\ FreedInv'
  BY <1>1, <1>8, MemoryKept, Zenon DEF IInv
<1>17. MarkEntryInv'
  BY <1>1, <1>5, <1>6, <1>12, Zenon DEF IInv, MarkEntryInv, ContainsPc
<1>18. MarkEnterInv'
  BY <1>1, <1>8, <1>12, Zenon DEF IInv, MutatorAlone, MarkEnterInv
<1>19. FramesPushed(t, m, NoCode) /\ NoCode \notin Slots /\ NoCode \notin assumes
  BY <1>6, <1>9, Zenon
<1>20. UNCHANGED <<method_code_map, allocated, live_bitmap, marking>>
  BY <1>1, Zenon
<1>21. MarkFramesInv'
  BY <1>20, <1>12, <1>19, FramesStayMarked, Zenon DEF IInv
<1>22. FramesInv'
  BY <1>20, <1>19, FramesStayInstalled, Zenon DEF IInv
<1>23. EnterInv'
  BY <1>1, <1>8, Zenon DEF IInv, MutatorAlone, EnterInv, Installed
<1>24. EntryInv'
  BY <1>1, <1>5, Zenon DEF IInv, EntryInv, Installed
<1>25. ChaInv'
  <2>1. local[t].cha => ~single /\ ~linked /\ \A u \in Mutators : local[u].cha => u = t
    BY Zenon DEF IInv, ChaInv
  <2>2. \A u \in Mutators : local'[u].cha => local[u].cha
    BY <1>8, Zenon DEF MutatorAlone
  <2>3. UNCHANGED <<single, linked>>
    BY <1>8, Zenon
  <2>4. flagging' = flagging \/ local[t].cha
    BY <1>8, Zenon
  <2>5. ASSUME NEW u \in Mutators, Invalidating(u)' PROVE flagging' = {} /\ cha_lock' = u
    <3>1. Invalidating(u)
      BY <1>1, <1>8, <2>2, <2>5, Zenon DEF MutatorAlone, Invalidating
    <3>2. flagging' = flagging /\ cha_lock' = cha_lock
      BY <1>8, <2>1, <2>2, <2>5, <3>1, Zenon DEF Invalidating
    <3> QED
      BY <3>1, <3>2, Zenon DEF IInv, ChaInv
  <2> QED
    BY <2>1, <2>2, <2>3, <2>4, <2>5, Zenon DEF IInv, ChaInv
<1>26. DependentsInv'
  <2>1. single' => UNCHANGED <<single, dependents>>
    BY <1>8, Zenon DEF IInv, ChaInv
  <2> QED
    BY <1>1, <2>1, Zenon DEF IInv, DependentsInv
<1>27. TakenBackInv'
  <2> SUFFICES ASSUME NEW u \in Mutators, NEW n \in Methods, NEW r \in assumes,
                      Invalidating(u)', Reachable(n, r)'
               PROVE  <<n, r>> \in local'[u].todo
    BY <1>1, Zenon DEF TakenBackInv
  <2>1. Reachable(n, r) /\ <<n, r>> # <<m, s>>
    BY <1>7, Zenon
  <2>2. CASE u = t
    <3>1. Invalidating(t) /\ local'[t].todo = rest
      BY <1>1, <1>8, <2>2, Zenon DEF Invalidating
    <3>2. <<n, r>> \in local[t].todo
      BY <2>1, <3>1, Zenon DEF IInv, TakenBackInv
    <3> QED
      BY <2>1, <2>2, <3>1, <3>2, Zenon DEF rest
  <2>3. CASE u # t
    BY <1>8, <2>1, <2>3, Zenon DEF IInv, MutatorAlone, TakenBackInv, Invalidating
  <2> QED
    BY <2>2, <2>3, Zenon
<1>28. \/ TakenBack' => TakenBack /\ UNCHANGED flagging
       \/ Invalidating(t) /\ rest = {} /\ flagging' = Mutators
  BY <1>1, <1>8, Zenon DEF MutatorAlone, TakenBack, Invalidating
<1>29. UnreachableInv'
  <2> SUFFICES ASSUME TakenBack', NEW n \in Methods, NEW r \in assumes, Reachable(n, r)'
               PROVE  FALSE
    BY <1>1, Zenon DEF UnreachableInv
  <2>1. Reachable(n, r) /\ <<n, r>> # <<m, s>>
    BY <1>7, Zenon
  <2>2. CASE TakenBack
    BY <2>1, <2>2, Zenon DEF IInv, UnreachableInv
  <2>3. CASE Invalidating(t) /\ rest = {}
    <3>1. <<n, r>> \in local[t].todo
      BY <2>1, <2>3, Zenon DEF IInv, TakenBackInv
    <3> QED
      BY <2>1, <2>3, <3>1, Zenon DEF rest
  <2> QED
    BY <1>28, <2>2, <2>3, Zenon
<1>30. FlagEnterInv'
  BY <1>1, <1>8, <1>28, Zenon DEF IInv, MutatorAlone, FlagEnterInv
<1>31. FlagFramesInv'
  <2>1. CASE TakenBack' => TakenBack /\ UNCHANGED flagging
    <3>1. CASE TakenBack /\ UNCHANGED flagging
      BY <1>1, <1>19, <3>1, FramesStayFlagged, Zenon DEF IInv
    <3>2. CASE ~TakenBack'
      BY <3>2, Zenon DEF FlagFramesInv
    <3> QED
      BY <2>1, <3>1, <3>2, Zenon
  <2>2. CASE flagging' = Mutators
    BY <2>2, Zenon DEF FlagFramesInv
  <2> QED
    BY <1>28, <2>1, <2>2, Zenon
<1>32. ProfileInv'
  <2>1. \A n \in Methods : ContainsPc(entry'[n]) => ContainsPc(entry[n])
    BY <1>5, <1>6, Zenon DEF ContainsPc
  <2> QED
    BY <1>1, <2>1, Zenon DEF IInv, ProfileInv
<1>33. CompilingInv'
  BY <1>1, <1>8, CompilingKept, Zenon DEF IInv
<1> QED
  BY <1>33, <1>8, <1>10, <1>13, <1>14, <1>15, <1>16, <1>17, <1>18, <1>21, <1>22, <1>23,
     <1>24, <1>25, <1>26,
     <1>27, <1>29, <1>30, <1>31, <1>32, Zenon DEF IInv

\* The thread that ran the checkpoint goes on when every thread has passed it.
LEMMA WaitForThreadsToRunThroughCheckpointKeeps ==
  ASSUME JitAssumption, ~Delays, IInv, NEW t \in Mutators, Runs(t),
         WaitForThreadsToRunThroughCheckpoint(t)
  PROVE  IInv'
<1>1. /\ pc[t] = "run_checkpoint" /\ flagging = {} /\ linked' = TRUE
      /\ UNCHANGED <<entry, profile, cache, collector, single, dependents, cha_lock, checkpoints, stack>>
  BY Zenon DEF WaitForThreadsToRunThroughCheckpoint
<1>2. /\ ControlOK' /\ MutatorAlone(t) /\ pc'[t] = "run" /\ ~local'[t].cha
  <2>1. NoLocal \in Local(Methods \X Slots)
    BY Zenon DEF Local, NoLocal
  <2>2. Goto(t, "run") /\ With(t, NoLocal)
    BY Zenon DEF WaitForThreadsToRunThroughCheckpoint
  <2>3. ControlOK' /\ MutatorAlone(t) /\ pc'[t] = "run"
    BY <2>1, <2>2, MutatorMoves, Zenon DEF IInv, MutatorLabels
  <2>4. local'[t] = NoLocal
    BY <2>2, Given, Zenon DEF IInv
  <2> QED
    BY <2>3, <2>4 DEF NoLocal
<1>3. TypeOK'
  BY <1>1, Zenon DEF IInv, TypeOK
<1>4. local[t].cha /\ ~single /\ \A u \in Mutators : local[u].cha => u = t
  BY <1>1, Zenon DEF IInv, PlaceInv, Place, ChaInv
<1>5. Marking' <=> Marking
  BY <1>2, MarkingKept, Zenon
<1>6. TakenBack' => TakenBack
  BY <1>1, <1>2, Zenon DEF IInv, PlaceInv, Place, MutatorAlone, TakenBack, Invalidating
<1>7. PlaceInv'
  <2>1. Place(t)'
    BY <1>1, <1>2, Zenon DEF IInv, PlaceInv, Place
  <2> QED
    BY <1>1, <1>2, <2>1, PlaceKept, Zenon DEF IInv
<1>8. SequenceInv'
  BY <1>1, <1>2, Zenon DEF IInv, MutatorAlone, SequenceInv, Runs, InSequence
<1>9. CollectionInv'
  BY <1>1, <1>2, CollectionKept, Zenon DEF IInv
<1>10. MemoryInv' /\ MappedInv' /\ FreedInv'
  BY <1>1, <1>2, MemoryKept, Zenon DEF IInv
<1>11. MarkEntryInv'
  BY <1>1, <1>2, <1>5, Zenon DEF IInv, MutatorAlone, MarkEntryInv
<1>12. MarkEnterInv'
  BY <1>1, <1>2, <1>5, Zenon DEF IInv, MutatorAlone, MarkEnterInv
<1>13. MarkFramesInv'
  BY <1>1, <1>2, <1>5, Zenon DEF IInv, MutatorAlone, MarkFramesInv
<1>14. FramesInv'
  BY <1>1, <1>2, Zenon DEF IInv, MutatorAlone, FramesInv, Installed
<1>15. EnterInv'
  BY <1>1, <1>2, Zenon DEF IInv, MutatorAlone, EnterInv, Installed
<1>16. EntryInv'
  BY <1>1, <1>2, Zenon DEF IInv, MutatorAlone, EntryInv, Installed
<1>17. ChaInv'
  BY <1>1, <1>2, <1>4, Zenon DEF MutatorAlone, ChaInv, Invalidating
<1>18. DependentsInv'
  BY <1>1, <1>2, Zenon DEF IInv, MutatorAlone, DependentsInv
<1>19. TakenBackInv'
  BY <1>1, <1>2, Zenon DEF IInv, MutatorAlone, TakenBackInv, Invalidating, Reachable
<1>20. UnreachableInv'
  BY <1>1, <1>2, <1>6, Zenon DEF IInv, MutatorAlone, UnreachableInv, Reachable
<1>21. FlagEnterInv'
  BY <1>1, <1>2, <1>6, Zenon DEF IInv, MutatorAlone, FlagEnterInv
<1>22. FlagFramesInv'
  BY <1>1, <1>2, <1>6, Zenon DEF IInv, MutatorAlone, FlagFramesInv
<1>23. CompilingInv'
  BY <1>1, <1>2, CompilingKept, Zenon DEF IInv
<1>24. ProfileInv'
  BY <1>1, <1>2, Zenon DEF IInv, MutatorAlone, ProfileInv, ContainsPc
<1> QED
  BY <1>2, <1>3, <1>7, <1>8, <1>9, <1>10, <1>11, <1>12, <1>13, <1>14, <1>15, <1>16, <1>17,
     <1>18, <1>19, <1>20, <1>21, <1>22, <1>23, <1>24, Zenon DEF IInv

\* CHACheckpoint flags the frames of the code that was taken back.
LEMMA CHACheckpointKeeps ==
  ASSUME JitAssumption, ~Delays, IInv, NEW t \in Mutators, Runs(t), CHACheckpoint(t)
  PROVE  IInv'
<1>1. /\ t \in flagging /\ pc[t] \in {"run", "run_checkpoint"} /\ flagging' = flagging \ {t}
      /\ UNCHANGED <<entry, profile, cache, collector, cha, marking, pc, local>>
  BY Zenon DEF CHACheckpoint, AtSafepoint
<1>2. stack \in [Mutators -> Seq(Frame)]
  BY Zenon DEF IInv, TypeOK
<1>3. /\ \A u \in Mutators : u # t => stack'[u] = stack[u]
      /\ stack' = [stack EXCEPT ![t] = stack'[t]]
      /\ stack'[t] = [k \in DOMAIN stack[t] |->
                        IF stack[t][k].code \in assumes
                        THEN [stack[t][k] EXCEPT !.deoptimize = TRUE] ELSE stack[t][k]]
  BY <1>2, Zenon DEF CHACheckpoint
<1>4. /\ DOMAIN stack'[t] = DOMAIN stack[t] /\ stack'[t] \in Seq(Frame)
      /\ \A k \in DOMAIN stack[t] :
           /\ stack'[t][k].m = stack[t][k].m /\ stack'[t][k].code = stack[t][k].code
           /\ stack[t][k].code \in assumes => stack'[t][k].deoptimize
  <2>1. DOMAIN stack'[t] = DOMAIN stack[t]
    BY <1>3, Zenon
  <2>2. \A k \in DOMAIN stack[t] : stack[t][k] \in Frame
    BY <1>2
  <2>3. ASSUME NEW k \in DOMAIN stack[t]
        PROVE  /\ stack'[t][k] \in Frame
               /\ stack'[t][k].m = stack[t][k].m /\ stack'[t][k].code = stack[t][k].code
               /\ stack[t][k].code \in assumes => stack'[t][k].deoptimize
    <3>1. stack[t][k] \in Frame
      BY <2>2, Zenon
    <3>2. CASE stack[t][k].code \in assumes
      <4>1. stack'[t][k] = [stack[t][k] EXCEPT !.deoptimize = TRUE]
        BY <1>3, <3>2, Zenon
      <4> QED
        BY <3>1, <4>1, Zenon DEF Frame
    <3>3. CASE stack[t][k].code \notin assumes
      <4>1. stack'[t][k] = stack[t][k]
        BY <1>3, <3>3, Zenon
      <4> QED
        BY <3>1, <3>3, <4>1, Zenon
    <3> QED
      BY <3>2, <3>3, Zenon
  <2>4. stack'[t] \in [1 .. Len(stack[t]) -> Frame] /\ Len(stack[t]) \in Nat
    BY <1>2, <1>3, <2>3
  <2>5. stack'[t] \in Seq(Frame)
    BY <2>4
  <2> QED
    BY <2>1, <2>3, <2>5, Zenon
<1>5. TypeOK'
  <2>1. stack' \in [Mutators -> Seq(Frame)]
    BY <1>2, <1>3, <1>4, Zenon
  <2> QED
    BY <1>1, <2>1, Zenon DEF IInv, TypeOK
<1>6. ControlOK'
  BY <1>1, Zenon DEF IInv, ControlOK
<1>7. \A u \in Mutators : stack[u] # <<>> => stack'[u] # <<>>
  BY <1>2, <1>3, <1>4
<1>8. \A u \in Mutators : /\ DOMAIN stack'[u] = DOMAIN stack[u]
                          /\ \A k \in DOMAIN stack[u] : /\ stack'[u][k].m = stack[u][k].m
                                                        /\ stack'[u][k].code = stack[u][k].code
  BY <1>3, <1>4, Zenon
<1>9. Marking' <=> Marking
  BY <1>1, Zenon DEF Marking
<1>10. TakenBack' => TakenBack
  BY <1>1, Zenon DEF IInv, PlaceInv, Place, TakenBack, Invalidating
<1>11. PlaceInv'
  BY <1>1, <1>7, Zenon DEF IInv, PlaceInv, Place
<1>12. SequenceInv'
  BY <1>1, Zenon DEF IInv, SequenceInv, Runs, InSequence
<1>13. CollectionInv'
  BY <1>1, Zenon DEF IInv, CollectionInv, Collecting
<1>14. MemoryInv' /\ MappedInv' /\ FreedInv'
  BY <1>1, Zenon DEF IInv, MemoryInv, MappedInv, FreedInv
<1>15. MarkEntryInv'
  BY <1>1, <1>9, Zenon DEF IInv, MarkEntryInv
<1>16. MarkEnterInv'
  BY <1>1, <1>9, Zenon DEF IInv, MarkEnterInv
<1>17. MarkFramesInv'
  BY <1>1, <1>9, <1>8 DEF IInv, MarkFramesInv, ContainsPc
<1>18. FramesInv'
  <2>1. UNCHANGED <<allocated, method_code_map>>
    BY <1>1, Zenon
  <2> QED
    BY <1>8, <2>1 DEF IInv, FramesInv, Installed, ContainsPc
<1>19. EnterInv'
  BY <1>1, Zenon DEF IInv, EnterInv, Installed
<1>20. EntryInv'
  BY <1>1, Zenon DEF IInv, EntryInv, Installed
<1>21. ChaInv'
  BY <1>1, Zenon DEF IInv, ChaInv, Invalidating
<1>22. DependentsInv'
  BY <1>1, Zenon DEF IInv, DependentsInv
<1>23. TakenBackInv'
  BY <1>1, Zenon DEF IInv, TakenBackInv, Invalidating, Reachable
<1>24. UnreachableInv'
  BY <1>1, <1>10, Zenon DEF IInv, UnreachableInv, Reachable
<1>25. FlagEnterInv'
  BY <1>1, <1>10, Zenon DEF IInv, FlagEnterInv
<1>26. FlagFramesInv'
  <2>1. \A u \in Mutators : u # t => stack'[u] = stack[u]
    BY <1>3, Zenon
  <2> QED
    BY <1>1, <1>4, <1>10, <2>1 DEF IInv, FlagFramesInv
<1>27. CompilingInv'
  BY <1>1, Zenon DEF IInv, CompilingInv
<1>28. ProfileInv'
  BY <1>1, Zenon DEF IInv, ProfileInv, ContainsPc
<1> QED
  BY <1>5, <1>6, <1>11, <1>12, <1>13, <1>14, <1>15, <1>16, <1>17, <1>18, <1>19, <1>20,
     <1>21, <1>22, <1>23, <1>24, <1>25, <1>26, <1>27, <1>28, Zenon DEF IInv

\* MarkCodeClosure marks the code of the frames of a thread.
LEMMA MarkCodeKeeps ==
  ASSUME JitAssumption, ~Delays, IInv, NEW t \in Mutators, Runs(t), MarkCode(t)
  PROVE  IInv'
<1>1. /\ t \in marking /\ pc[t] \in {"run", "run_checkpoint"} /\ marking' = marking \ {t}
      /\ UNCHANGED <<entry, profile, method_code_map, assumes, osr_code_map, allocated,
                     collector, cha, flagging, stack, pc, local>>
  BY Zenon DEF MarkCode, AtSafepoint
<1>2. /\ live_bitmap' \subseteq Slots /\ \A s \in live_bitmap : s \in live_bitmap'
      /\ \A k \in DOMAIN stack[t] : ContainsPc(stack[t][k].code)
           => stack[t][k].code \in live_bitmap'
  BY Zenon DEF MarkCode, IInv, TypeOK, ContainsPc
<1>3. TypeOK'
  BY <1>1, <1>2, Zenon DEF IInv, TypeOK
<1>4. ControlOK'
  BY <1>1, Zenon DEF IInv, ControlOK
<1>5. Marking' <=> Marking
  BY <1>1, Zenon DEF Marking
<1>6. TakenBack' => TakenBack
  BY <1>1, Zenon DEF IInv, PlaceInv, Place, TakenBack, Invalidating
<1>7. PlaceInv'
  BY <1>1, Zenon DEF IInv, PlaceInv, Place
<1>8. SequenceInv'
  BY <1>1, Zenon DEF IInv, SequenceInv, Runs, InSequence
<1>9. CollectionInv'
  BY <1>1, Zenon DEF IInv, CollectionInv, Collecting
<1>10. MemoryInv' /\ MappedInv' /\ FreedInv'
  BY <1>1, Zenon DEF IInv, MemoryInv, MappedInv, FreedInv
<1>11. MarkEntryInv'
  BY <1>1, <1>2, <1>5, Zenon DEF IInv, MarkEntryInv
<1>12. MarkEnterInv'
  BY <1>1, <1>2, <1>5, Zenon DEF IInv, MarkEnterInv
<1>13. MarkFramesInv'
  BY <1>1, <1>2, <1>5, Zenon DEF IInv, MarkFramesInv
<1>14. FramesInv'
  BY <1>1, Zenon DEF IInv, FramesInv, Installed
<1>15. EnterInv'
  BY <1>1, Zenon DEF IInv, EnterInv, Installed
<1>16. EntryInv'
  BY <1>1, Zenon DEF IInv, EntryInv, Installed
<1>17. ChaInv'
  BY <1>1, Zenon DEF IInv, ChaInv, Invalidating
<1>18. DependentsInv'
  BY <1>1, Zenon DEF IInv, DependentsInv
<1>19. TakenBackInv'
  BY <1>1, Zenon DEF IInv, TakenBackInv, Invalidating, Reachable
<1>20. UnreachableInv'
  BY <1>1, <1>6, Zenon DEF IInv, UnreachableInv, Reachable
<1>21. FlagEnterInv'
  BY <1>1, <1>6, Zenon DEF IInv, FlagEnterInv
<1>22. FlagFramesInv'
  BY <1>1, <1>6, Zenon DEF IInv, FlagFramesInv
<1>23. CompilingInv'
  BY <1>1, Zenon DEF IInv, CompilingInv
<1>24. ProfileInv'
  BY <1>1, Zenon DEF IInv, ProfileInv, ContainsPc
<1> QED
  BY <1>3, <1>4, <1>7, <1>8, <1>9, <1>10, <1>11, <1>12, <1>13, <1>14, <1>15, <1>16, <1>17,
     <1>18, <1>19, <1>20, <1>21, <1>22, <1>23, <1>24, Zenon DEF IInv

=============================================================================
