----------------------- MODULE JitCodeCacheInvariant ------------------------
(***************************************************************************)
(* The inductive invariant of JitCodeCache.tla when no other thread runs   *)
(* between the two accesses of a sequence (Delays is FALSE).               *)
(***************************************************************************)
EXTENDS JitCodeCache

MutatorLabels ==
  {"run", "execute", "publish", "invoke", "enter", "invalidate", "invalidate_entry",
   "run_checkpoint"}
\* The labels of a compiler that carries out a collection.
Collecting == {"do_collection", "mark", "free", "free_code", "free_profiles", "finish"}
CompilerLabels ==
  {"idle", "commit", "wait_to_commit", "allocated", "compiled", "collect",
   "wait_to_collect", "collected"} \cup Collecting

Frame == [code : Slots \cup {NoCode}, m : Methods, deoptimize : BOOLEAN]
Local(todos) ==
  [m : Methods \cup {NoMethod}, s : Slots \cup {NoCode}, todo : SUBSET todos,
   osr : BOOLEAN, cha : BOOLEAN, retry : BOOLEAN, full : BOOLEAN]

\* The types of the variables.
TypeOK ==
  /\ entry \in [Methods -> Slots \cup {Bridge}]
  /\ info \in [Methods -> BOOLEAN] /\ orphan \in [Methods -> BOOLEAN]
  /\ saved \in [Methods -> Slots \cup {NoCode}]
  /\ compiled \in [Methods -> SUBSET {"osr", "method"}]
  /\ method_code_map \in [Slots -> Methods \cup {NoMethod}]
  /\ osr_code_map \in [Methods -> Slots \cup {NoCode}]
  /\ assumes \subseteq Slots /\ allocated \subseteq Slots /\ live_bitmap \subseteq Slots
  /\ collection_in_progress \in BOOLEAN /\ increased \in BOOLEAN
  /\ capacity \in 1 .. MaxCapacity
  /\ single \in BOOLEAN /\ linked \in BOOLEAN
  /\ dependents \subseteq Methods \X Slots
  /\ cha_lock \in Mutators \cup {NoThread}
  /\ marking \subseteq Mutators /\ flagging \subseteq Mutators
  /\ stack \in [Mutators -> Seq(Frame)]

\* The types of the labels and of the locals.
ControlOK ==
  /\ pc \in [Threads -> MutatorLabels \cup CompilerLabels]
  /\ \A t \in Mutators : pc[t] \in MutatorLabels
  /\ \A t \in Compilers : pc[t] \in CompilerLabels
  /\ DOMAIN local = Threads /\ local = [t \in Threads |-> local[t]]
  /\ \A t \in Mutators : local[t] \in Local(Methods \X Slots)
  /\ \A t \in Compilers : local[t] \in Local(Slots)

\* What a thread has in hand at each label.
Place(t) ==
  /\ pc[t] \in {"execute", "invoke", "publish", "enter", "invalidate_entry"} =>
       local[t].m \in Methods
  /\ pc[t] = "publish" =>
       saved[local[t].m] # NoCode /\ local[t].s = saved[local[t].m]
  /\ pc[t] \in {"invalidate", "invalidate_entry"} =>
       local[t].todo # {} /\ (~local[t].cha => stack[t] # <<>>)
  /\ pc[t] = "invalidate_entry" =>
       <<local[t].m, local[t].s>> \in local[t].todo /\ saved[local[t].m] # local[t].s
  /\ local[t].cha => pc[t] \in {"invalidate", "invalidate_entry", "run_checkpoint"}
  /\ pc[t] = "run_checkpoint" => local[t].cha
PlaceInv == \A t \in Mutators : Place(t)

\* While a thread is within a sequence of accesses, no other thread runs.
SequenceInv ==
  \A t, u \in Threads : pc[t] \in InSequence /\ pc[u] \in InSequence => t = u

\* One compiler at a time collects.  It does a full collection if there are saved
\* entry points, and there are none from when it looks at the entry points on.
CollectionInv ==
  /\ \A t, u \in Compilers : pc[t] \in Collecting /\ pc[u] \in Collecting => t = u
  /\ collection_in_progress <=> \E t \in Compilers : pc[t] \in Collecting
  /\ \A t \in Compilers :
       /\ local[t].full => pc[t] \in Collecting
       /\ pc[t] = "do_collection" => local[t].full = ShouldDoFullCollection(capacity, increased)
       /\ pc[t] \in Collecting \ {"do_collection"} => \A m \in Methods : saved[m] = NoCode
  /\ ~ShouldDoFullCollection(capacity, increased) => \A m \in Methods : saved[m] = NoCode
  /\ \A m \in Methods : osr_code_map[m] # NoCode =>
       osr_code_map[m] # entry[m] /\ osr_code_map[m] # saved[m]

\* The memory of a compilation that has not been committed is its own,
MemoryInv ==
  /\ \A t \in Compilers : pc[t] = "allocated" =>
       local[t].s \in allocated /\ method_code_map[local[t].s] = NoMethod
  /\ \A t, u \in Compilers :
       pc[t] = "allocated" /\ pc[u] = "allocated" /\ u # t => local[u].s # local[t].s

\* what is mapped is allocated,
MappedInv == \A s \in Slots : method_code_map[s] # NoMethod => s \in allocated

\* and what a collection is about to free is nobody's code.
FreedInv ==
  /\ \A t \in Compilers : pc[t] \in {"free", "free_code"} =>
       \A s \in local[t].todo : s \in allocated /\ method_code_map[s] = NoMethod
  /\ \A t, u \in Compilers :
       pc[t] = "allocated" /\ pc[u] \in {"free", "free_code"} => local[t].s \notin local[u].todo

\* While a collection marks, what can be reached without passing a thread that is
\* still to be marked is live.
Marking == \E t \in Compilers : pc[t] = "mark"
MarkEntryInv ==
  Marking => \A m \in Methods :
    /\ ContainsPc(entry[m]) => entry[m] \in live_bitmap
    /\ osr_code_map[m] # NoCode => osr_code_map[m] \in live_bitmap
MarkEnterInv ==
  Marking => \A t \in Mutators \ marking : pc[t] = "enter" => local[t].s \in live_bitmap
MarkFramesInv ==
  Marking => \A t \in Mutators \ marking : \A k \in DOMAIN stack[t] :
    ContainsPc(stack[t][k].code) => stack[t][k].code \in live_bitmap

\* The parts of CodeInUseIsKept, with code in hand where it is about to be entered.
FramesInv ==
  \A t \in Mutators : \A k \in DOMAIN stack[t] :
    ContainsPc(stack[t][k].code) => Installed(stack[t][k].m, stack[t][k].code)
EnterInv ==
  \A t \in Mutators :
    pc[t] = "enter" => local[t].s \in Slots /\ Installed(local[t].m, local[t].s)
EntryInv ==
  \A m \in Methods :
    /\ entry[m] # Bridge => Installed(m, entry[m])
    /\ osr_code_map[m] # NoCode => Installed(m, osr_code_map[m])
    /\ saved[m] # NoCode => Installed(m, saved[m])

\* The entry points, OSR code and saved entry points of the methods.
Reachable(m, s) == s = entry[m] \/ s = osr_code_map[m] \/ s = saved[m]

\* The thread that takes back what was compiled for a single implementation.
Invalidating(t) == local[t].cha /\ pc[t] \in {"invalidate", "invalidate_entry"}

\* The single-implementation assumption is given up once, by one thread.
ChaInv ==
  /\ \A t, u \in Mutators : local[t].cha /\ local[u].cha => t = u
  /\ single \/ linked => \A t \in Mutators : ~local[t].cha
  /\ single => ~linked
  /\ single \/ linked => flagging = {}
  /\ \A t \in Mutators : Invalidating(t) => flagging = {} /\ cha_lock = t

\* What was compiled under it is registered until then,
DependentsInv ==
  single => \A s \in assumes :
    method_code_map[s] # NoMethod => <<method_code_map[s], s>> \in dependents

\* taken back by that thread one by one,
TakenBackInv ==
  \A t \in Mutators, m \in Methods, s \in assumes :
    Invalidating(t) /\ Reachable(m, s) => <<m, s>> \in local[t].todo

\* and then, when nothing leads to it, flagged on each stack.
TakenBack == ~single /\ \A t \in Mutators : ~Invalidating(t)
UnreachableInv ==
  TakenBack => \A m \in Methods, s \in assumes : ~Reachable(m, s)
FlagEnterInv ==
  TakenBack => \A t \in Mutators \ flagging : pc[t] = "enter" => local[t].s \notin assumes
FlagFramesInv ==
  TakenBack => \A t \in Mutators \ flagging : \A k \in DOMAIN stack[t] :
    stack[t][k].code \in assumes => stack[t][k].deoptimize

\* Compilations of the same method are of different kinds, each marked in compiled,
\* and the method has a profile.
CompilingInv ==
  /\ \A t \in Compilers : pc[t] # "idle" =>
       /\ local[t].m \in Methods /\ info[local[t].m]
       /\ Kind(local[t].osr) \in compiled[local[t].m]
  /\ \A t, u \in Compilers :
       pc[t] # "idle" /\ pc[u] # "idle" /\ u # t /\ local[u].m = local[t].m =>
         local[u].osr # local[t].osr

\* So has a method whose code is its entry point or saved.
ProfileInv ==
  \A m \in Methods : ContainsPc(entry[m]) \/ saved[m] # NoCode => info[m]

IInv ==
  /\ TypeOK /\ ControlOK /\ PlaceInv /\ SequenceInv
  /\ CollectionInv /\ MemoryInv /\ MappedInv /\ FreedInv
  /\ MarkEntryInv /\ MarkEnterInv /\ MarkFramesInv
  /\ FramesInv /\ EnterInv /\ EntryInv
  /\ ChaInv /\ DependentsInv /\ TakenBackInv
  /\ UnreachableInv /\ FlagEnterInv /\ FlagFramesInv
  /\ CompilingInv /\ ProfileInv

=============================================================================
