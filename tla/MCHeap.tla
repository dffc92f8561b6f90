------------------------------- MODULE MCHeap -------------------------------
(***************************************************************************)
(* A concurrent copying collection, the loading of classes, or their       *)
(* initialization, one of the three at a time: chosen says which, and only *)
(* that one steps.  The two modules of the class linker share the          *)
(* variables they have in common.                                          *)
(***************************************************************************)
EXTENDS ConcurrentCopying, TLC

CONSTANTS
  t1, t2, w, fin, x, y,                            \* mutators and objects of a heap
  Users, t3, Classes, O, A, B, I, J,               \* threads and classes
  NoThread, NoClass, LoadPrograms, InitPrograms

VARIABLES
  chosen,
  program, status, clinit_thread_id, owner, stack, calls, aborted,
  table, result, found,                            \* of ClassLoading
  recursively_initialized, waiters, exception      \* of ClassInitialization

loadVars == <<table, result, found>>
initVars == <<recursively_initialized, waiters, exception>>
classVars == <<program, status, clinit_thread_id, owner, stack, calls, aborted,
               loadVars, initVars>>

CL == INSTANCE ClassLoading WITH
  Threads <- Users, Names <- Classes \ {O}, Programs <- LoadPrograms
CI == INSTANCE ClassInitialization WITH
  Threads <- Users, Programs <- InitPrograms
H == INSTANCE ClassHierarchies WITH Threads <- Users

-----------------------------------------------------------------------------
(* Heaps *)

Old(v) == <<v, FALSE>>
MCMaxOps == (t1 :> 2) @@ (t2 :> 1)

\* A heap in which x holds the only field; r1 and r2 are the roots of t1 and t2.
Heap(kw, kf, refw, reff, global, unevac, clear, r1, r2) ==
  [kind |-> [v \in Objects |-> CASE v = w -> kw [] v = fin -> kf [] OTHER -> "plain"],
   unevac |-> unevac, clear_soft |-> clear, suspended |-> {t2}, unborn |-> IF r2 = {} THEN {t2} ELSE {},
   field |-> [v \in Objects |-> IF v = x THEN Old(y) ELSE Null],
   referent |-> [v \in Objects |-> CASE v = w -> refw [] v = fin -> reff [] OTHER -> Null],
   weak_global |-> global,
   roots |-> [t \in Threads |-> {Old(v) : v \in IF t = t1 THEN r1 ELSE r2}]]

HA == Heap("weak", "plain", Old(x), Null, Null, {x}, TRUE, {w}, {w})
HB == Heap("soft", "plain", Old(x), Null, Null, {}, FALSE, {w}, {w})
HC == Heap("weak", "finalizer", Old(y), Old(x), Null, {}, TRUE, {w, fin}, {})
HD == Heap("weak", "plain", Old(y), Null, Old(y), {y}, TRUE, {w}, {x})
HE == Heap("phantom", "plain", Old(x), Null, Old(x), {y}, TRUE, {w}, {})
MCHeaps == {HA, HB, HC, HD, HE}

-----------------------------------------------------------------------------
(* Classes to load: all but O, the root of the hierarchy *)

\* B extends A and implements the interface I, A may fail at every stage.
Family ==
  [instantiable |-> {A, B},
   supertypes |-> (A :> <<>>) @@ (B :> <<A, I>>) @@ (I :> <<>>) @@ (J :> <<>>),
   fails |-> (A :> {"alloc", "load", "link"}) @@ (B :> {}) @@ (I :> {}) @@ (J :> {}),
   calls |-> (t1 :> <<B>>) @@ (t2 :> <<A, B>>) @@ (t3 :> <<B>>)]

\* Two interfaces that extend each other.
Circular ==
  [instantiable |-> {A, B},
   supertypes |-> (A :> <<I>>) @@ (B :> <<I>>) @@ (I :> <<J>>) @@ (J :> <<I>>),
   fails |-> [n \in Classes |-> {}],
   calls |-> (t1 :> <<A>>) @@ (t2 :> <<B>>) @@ (t3 :> <<I>>)]

MCLoadPrograms == {Family, Circular}
MCInitPrograms == H!Hierarchies

-----------------------------------------------------------------------------
(* One of the three *)

Idle == [t \in Users |-> <<>>]
NoLoading == table = Idle /\ result = Idle /\ found = Idle
NoInitialization == recursively_initialized = Idle /\ waiters = Idle /\ exception = Idle
AnyHeap == heap.unevac = {x}

MCInit ==
  /\ Init
  /\ \/ /\ chosen = "collection"
        /\ program = Idle /\ status = Idle /\ clinit_thread_id = Idle /\ owner = Idle
        /\ stack = Idle /\ calls = Idle /\ aborted = Idle
        /\ NoLoading /\ NoInitialization
     \/ chosen = "loading" /\ AnyHeap /\ CL!Init /\ NoInitialization
     \/ chosen = "initialization" /\ AnyHeap /\ CI!Init /\ NoLoading

MCNext ==
  \/ chosen = "collection" /\ Next /\ UNCHANGED <<chosen, classVars>>
  \/ chosen = "loading" /\ CL!Next /\ UNCHANGED <<chosen, vars, initVars>>
  \/ chosen = "initialization" /\ CI!Next /\ UNCHANGED <<chosen, vars, loadVars>>

\* The fairness of each component, while it is the one chosen.
MCSpec ==
  /\ MCInit /\ [][MCNext]_<<chosen, vars, classVars>>
  /\ WF_vars(chosen = "collection" /\ Collect)
  /\ \A t \in Threads : WF_vars(chosen = "collection" /\ Continue(t))
  /\ \A t \in Users :
       /\ WF_classVars(/\ chosen = "loading"
                       /\ CL!Proceed(t)
                       /\ UNCHANGED <<program, calls, initVars>>)
       /\ WF_classVars(/\ chosen = "initialization" /\ aborted = "no"
                       /\ CI!Proceed(t)
                       /\ UNCHANGED <<program, calls, loadVars>>)

-----------------------------------------------------------------------------
(* The properties of the class linker, and the liveness of all three *)

\* All FindClass calls of a name return the same class, however the threads race
\* to define it: the resolved one that is in the table, never the temporary class
\* it was linked from.
ClassIsUnique == chosen = "loading" => CL!ClassIsUnique

\* <clinit> of a class runs only when its superclass has been initialized, or is
\* being initialized by the same thread, whatever other threads do meanwhile.
SuperClassFirst == chosen = "initialization" => CI!SuperClassFirst

\* An InitializeClass that returns without an exception leaves the class
\* initialized, or in the hands of the thread it returns to.
InitializedWhenUsed == CI!InitializedWhenUsed

\* The CHECKs of Class::SetStatus, ClassTable::UpdateClass, WaitForInitializeClass
\* and of a failed superclass hold: a status never goes back and no class is made
\* erroneous twice.
ClassChecksHold ==
  /\ chosen = "loading" => CL!LoadingChecksHold
  /\ chosen = "initialization" => CI!ClassChecksHold

\* The collection completes although threads block, runnable, on weak access while
\* it asks them for checkpoints, and each such access returns (CollectionCompletes);
\* every FindClass returns (FindClassReturns), and every use of a class, unless a
\* CHECK fails (UsesReturn).  Accesses and uses are bounded, so in the end none is under
\* way.
WorkReturns ==
  <>[]CASE chosen = "collection" -> Collected
        [] chosen = "loading" -> stack = Idle
        [] OTHER -> stack = Idle \/ aborted # "no"
=============================================================================
