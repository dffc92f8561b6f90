---------------------------- MODULE ClassLoading ----------------------------
(***************************************************************************)
(* Finding and defining classes: ClassLinker's FindClass, DefineClass,     *)
(* LoadSuperAndInterfaces, LinkClass and EnsureResolved, for the names the *)
(* boot class loader finds in its dex files.                               *)
(*                                                                         *)
(* A thread that defines an instantiable class puts a temporary class of   *)
(* the name in the table and, once its size is known, a copy in its place; *)
(* it holds the temporary class's monitor throughout.  Other threads that  *)
(* find the temporary class wait for its retirement and look again.        *)
(***************************************************************************)
EXTENDS ClassStatus, Sequences

CONSTANTS
  Threads, Names,
  NoThread, NoClass,
  Programs             \* the dex files and callers to choose from

VARIABLES
  program,             \* what the dex files say, and who looks for what
  table,               \* the class table: a class per name
  status,              \* Class::status_
  clinit_thread_id,    \* Class::clinit_thread_id_
  owner,               \* the holder of a class's monitor
  stack,               \* the frames of a thread, the innermost first
  result,              \* what a thread's last FindClass returned
  calls,               \* the names a thread is still to look for
  found,               \* the classes that FindClass has returned, by name
  aborted              \* whether a CHECK has failed

vars == <<program, table, status, clinit_thread_id, owner, stack,
          result, calls, found, aborted>>

\* The class that thread t defines for the name n, and its resized copy.
First(n, t) == <<n, t, "first">>
Copy(n, t) == <<n, t, "copy">>
ClassObjects == Names \X Threads \X {"first", "copy"}

IsErroneous(k) == status[k] = kStatusErrorUnresolved
IsResolved(k) == status[k] >= kStatusResolved
IsRetired(k) == status[k] = kStatusRetired
IsTemp(k) == status[k] < kStatusResolving /\ k[1] \in program.instantiable

-----------------------------------------------------------------------------
(* Frames, monitors and the status word *)

Frame(m, n, k, pc) == [m |-> m, n |-> n, k |-> k, pc |-> pc, todo |-> <<>>]

At(t, m, pc) ==
  /\ ~aborted
  /\ stack[t] # <<>> /\ stack[t][1].m = m /\ stack[t][1].pc = pc
Name(t) == stack[t][1].n
Klass(t) == stack[t][1].k
Todo(t) == stack[t][1].todo

Goto(t, pc) == stack' = [stack EXCEPT ![t][1].pc = pc]
GotoWith(t, pc, todo) ==
  stack' = [stack EXCEPT ![t][1].pc = pc, ![t][1].todo = todo]
Become(t, frame) == stack' = [stack EXCEPT ![t] = <<frame>> \o Tail(@)]
Call(t, frame, pc) ==
  stack' = [stack EXCEPT ![t] = <<frame>> \o [@ EXCEPT ![1].pc = pc]]

\* FindClass returns k to its caller, or nullptr and an exception.
Return(t, k) ==
  /\ stack' = [stack EXCEPT ![t] = Tail(@)]
  /\ result' = [result EXCEPT ![t] = k]
  /\ found' = IF k = NoClass THEN found ELSE [found EXCEPT ![Name(t)] = @ \cup {k}]

\* Class::SetStatus: its CHECKs and the write.  (Its NotifyAll finds nobody, see
\* WaitForRetirement.)
IsLegalChange(k, new_status) ==
  \/ new_status > status[k]
  \/ new_status = kStatusRetired
  \/ new_status = kStatusErrorUnresolved /\ ~IsErroneous(k) /\ ~IsResolved(k)

SetStatus(k, new_status) ==
  /\ status' = [status EXCEPT ![k] = new_status]
  /\ aborted' = ~IsLegalChange(k, new_status)

Init ==
  /\ program \in Programs
  /\ table = [n \in Names |-> NoClass]
  /\ status = [k \in ClassObjects |-> 0]
  /\ clinit_thread_id = [k \in ClassObjects |-> NoThread]
  /\ owner = [k \in ClassObjects |-> NoThread]
  /\ stack = [t \in Threads |-> <<>>]
  /\ result = [t \in Threads |-> NoClass]
  /\ calls = program.calls
  /\ found = [n \in Names |-> {}]
  /\ aborted = FALSE

-----------------------------------------------------------------------------
(* FindClass and EnsureResolved *)

\* LookupClass: an existing class must be resolved, a missing one defined.
FindClass(t) ==
  LET n == Name(t) IN
  /\ At(t, "find", "lookup")
  /\ Become(t, IF table[n] # NoClass
                 THEN Frame("ensure", n, table[n], "start")
                 ELSE Frame("define", n, First(n, t), "insert"))
  /\ UNCHANGED <<table, status, clinit_thread_id, owner, result, found, aborted>>

EnsureResolved(t) ==
  LET k == Klass(t) IN
  /\ At(t, "ensure", "start")
  /\ CASE IsTemp(k) /\ IsErroneous(k) -> Return(t, NoClass)
       [] IsTemp(k) /\ ~IsErroneous(k) -> Goto(t, "lock") /\ UNCHANGED <<result, found>>
       [] OTHER -> Goto(t, "yield") /\ UNCHANGED <<result, found>>
  /\ UNCHANGED <<table, status, clinit_thread_id, owner, aborted>>

\* A temporary class, under its lock: wait until it is retired or erroneous,
\* and look for the class that replaced it.  The thread that defines the class
\* holds the lock until then, so that the wait is entered only if it gives the
\* class up unmarked; it is modelled as a test repeated under the lock.
WaitForRetirement(t) ==
  LET n == Name(t) k == Klass(t) IN
  /\ At(t, "ensure", "lock")
  /\ owner[k] = NoThread
  /\ CASE IsErroneous(k) -> Return(t, NoClass)
       [] IsRetired(k) ->
            /\ Become(t, Frame("ensure", n, table[n], "yield"))
            /\ UNCHANGED <<result, found>>
       [] OTHER -> UNCHANGED <<stack, result, found>>
  /\ UNCHANGED <<table, status, clinit_thread_id, owner, aborted>>

\* Any other class: yield until it is resolved or erroneous ...
YieldUntilResolved(t) ==
  LET k == Klass(t) IN
  /\ At(t, "ensure", "yield")
  /\ IsResolved(k) \/ IsErroneous(k)
  /\ Return(t, IF IsErroneous(k) THEN NoClass ELSE k)
  /\ UNCHANGED <<table, status, clinit_thread_id, owner, aborted>>

\* ... and see, when its lock can be had, whether this thread is defining it.
ClassCircularityError(t) ==
  LET k == Klass(t) IN
  /\ At(t, "ensure", "yield")
  /\ ~IsResolved(k) /\ ~IsErroneous(k)
  /\ owner[k] \in {NoThread, t}
  /\ clinit_thread_id[k] = t
  /\ SetStatus(k, kStatusErrorUnresolved)
  /\ Return(t, NoClass)
  /\ UNCHANGED <<table, clinit_thread_id, owner>>

\* sched_yield or usleep, and round again.
Yield(t) ==
  /\ At(t, "ensure", "yield")
  /\ ~IsResolved(Klass(t)) /\ ~IsErroneous(Klass(t))
  /\ UNCHANGED <<table, status, clinit_thread_id, owner, stack, result, found, aborted>>

-----------------------------------------------------------------------------
(* DefineClass *)

\* Variant: the table is not searched again before the insertion.
InsertUnseen(t, n, k) ==
  /\ table' = [table EXCEPT ![n] = k]
  /\ owner' = [owner EXCEPT ![k] = t]
  /\ status' = [status EXCEPT ![k] = kStatusIdx]
  /\ clinit_thread_id' = [clinit_thread_id EXCEPT ![k] = t]
  /\ Goto(t, "load")

\* InsertClass: the class, set up and locked, goes into the table unless
\* another thread has been faster, whose class it then is that must resolve.
InsertClass(t, n, k) ==
  IF table[n] = NoClass
    THEN /\ table' = [table EXCEPT ![n] = k]
         /\ owner' = [owner EXCEPT ![k] = t]
         /\ status' = [status EXCEPT ![k] = kStatusIdx]
         /\ clinit_thread_id' = [clinit_thread_id EXCEPT ![k] = t]
         /\ Goto(t, "load")
    ELSE /\ Become(t, Frame("ensure", n, table[n], "start"))
         /\ UNCHANGED <<table, owner, status, clinit_thread_id>>

DefineClass(t) ==
  LET n == Name(t) IN
  /\ At(t, "define", "insert")
  /\ InsertClass(t, n, First(n, t))
  /\ UNCHANGED <<result, found, aborted>>

\* AllocClass finds no memory: nothing has been inserted.
AllocClassFails(t) ==
  /\ At(t, "define", "insert")
  /\ "alloc" \in program.fails[Name(t)]
  /\ Return(t, NoClass)
  /\ UNCHANGED <<table, status, clinit_thread_id, owner, aborted>>

\* Variant: the class is given up without a word to those who wait for it.
GiveUp(t, n, k) ==
  /\ owner' = [owner EXCEPT ![k] = NoThread]
  /\ Return(t, NoClass)
  /\ UNCHANGED <<status, aborted>>

\* Variant: as if only this thread could have made the class erroneous.
MarkErroneous(t, n, k) ==
  /\ SetStatus(k, kStatusErrorUnresolved)
  /\ owner' = [owner EXCEPT ![k] = NoThread]
  /\ Return(t, NoClass)

\* DefineClass gives up: the class is made erroneous, unless it is already,
\* and its lock released.
DefinitionFails(t, n, k) ==
  /\ IF IsErroneous(k)
       THEN UNCHANGED <<status, aborted>>
       ELSE SetStatus(k, kStatusErrorUnresolved)
  /\ owner' = [owner EXCEPT ![k] = NoThread]
  /\ Return(t, NoClass)

LoadClass(t) ==
  LET n == Name(t) k == Klass(t) IN
  /\ At(t, "define", "load")
  /\ \/ /\ GotoWith(t, "super", program.supertypes[n])
        /\ UNCHANGED <<status, owner, result, found, aborted>>
     \/ /\ "load" \in program.fails[n]
        /\ DefinitionFails(t, n, k)
  /\ UNCHANGED <<table, clinit_thread_id>>

\* LoadSuperAndInterfaces: each supertype is found first, with the lock held.
LoadSuperAndInterfaces(t) ==
  LET n == Name(t) k == Klass(t) IN
  /\ \/ /\ At(t, "define", "super")
        /\ Todo(t) # <<>>
        /\ Call(t, Frame("find", Todo(t)[1], NoClass, "lookup"), "super?")
        /\ UNCHANGED <<status, owner, result, found, aborted>>
     \/ /\ At(t, "define", "super?")
        /\ IF result[t] = NoClass
             THEN DefinitionFails(t, n, k)
             ELSE /\ GotoWith(t, "super", Tail(Todo(t)))
                  /\ UNCHANGED <<status, owner, result, found, aborted>>
     \/ /\ At(t, "define", "super")
        /\ Todo(t) = <<>>
        /\ SetStatus(k, kStatusLoaded)
        /\ Goto(t, "link")
        /\ UNCHANGED <<owner, result, found>>
  /\ UNCHANGED <<table, clinit_thread_id>>

\* LinkClass: a class that has its size already is resolved; of a temporary
\* one a copy is made, whose lock is taken as well.
LinkClass(t) ==
  LET n == Name(t) k == Klass(t) IN
  /\ At(t, "define", "link")
  /\ \/ /\ "link" \in program.fails[n]
        /\ DefinitionFails(t, n, k)
        /\ UNCHANGED clinit_thread_id
     \/ /\ ~IsTemp(k)
        /\ SetStatus(k, kStatusResolved)
        /\ owner' = [owner EXCEPT ![k] = NoThread]
        /\ Return(t, k)
        /\ UNCHANGED clinit_thread_id
     \/ /\ IsTemp(k)
        /\ status' = [status EXCEPT ![Copy(n, t)] = kStatusResolving]
        /\ clinit_thread_id' = [clinit_thread_id EXCEPT ![Copy(n, t)] = clinit_thread_id[k]]
        /\ owner' = [owner EXCEPT ![Copy(n, t)] = t]
        /\ Goto(t, "update")
        /\ UNCHANGED <<result, found, aborted>>
  /\ UNCHANGED table

\* The copy takes the temporary class's place in the table, ...
UpdateClass(t) ==
  LET n == Name(t) IN
  /\ At(t, "define", "update")
  /\ table' = [table EXCEPT ![n] = Copy(n, t)]
  /\ aborted' = (table[n] # Klass(t))
  /\ Goto(t, "retire")
  /\ UNCHANGED <<status, clinit_thread_id, owner, result, found>>

\* ... which is retired ...
RetireClass(t) ==
  /\ At(t, "define", "retire")
  /\ SetStatus(Klass(t), kStatusRetired)
  /\ Goto(t, "resolve")
  /\ UNCHANGED <<table, clinit_thread_id, owner, result, found>>

\* ... and the copy is resolved and both locks are released.
ResolveCopy(t) ==
  LET n == Name(t) k == Copy(n, t) IN
  /\ At(t, "define", "resolve")
  /\ SetStatus(k, kStatusResolved)
  /\ owner' = [owner EXCEPT ![k] = NoThread, ![Klass(t)] = NoThread]
  /\ Return(t, k)
  /\ UNCHANGED <<table, clinit_thread_id>>

-----------------------------------------------------------------------------
(* The threads *)

Start(t) ==
  /\ ~aborted
  /\ stack[t] = <<>>
  /\ calls[t] # <<>>
  /\ stack' = [stack EXCEPT ![t] = <<Frame("find", calls[t][1], NoClass, "lookup")>>]
  /\ calls' = [calls EXCEPT ![t] = Tail(@)]
  /\ UNCHANGED <<table, status, clinit_thread_id, owner, result, found, aborted>>

Proceed(t) ==
  \/ FindClass(t)
  \/ EnsureResolved(t)
  \/ WaitForRetirement(t)
  \/ YieldUntilResolved(t)
  \/ ClassCircularityError(t)
  \/ Yield(t)
  \/ DefineClass(t)
  \/ AllocClassFails(t)
  \/ LoadClass(t)
  \/ LoadSuperAndInterfaces(t)
  \/ LinkClass(t)
  \/ UpdateClass(t)
  \/ RetireClass(t)
  \/ ResolveCopy(t)

Finished ==
  /\ aborted \/ \A t \in Threads : stack[t] = <<>> /\ calls[t] = <<>>
  /\ UNCHANGED vars

Next ==
  \/ \E t \in Threads : \/ Proceed(t) /\ UNCHANGED <<program, calls>>
                        \/ Start(t) /\ UNCHANGED program
  \/ Finished

Spec == Init /\ [][Next]_vars

\* Every thread is scheduled.
Fairness ==
  \A t \in Threads : WF_vars(Proceed(t) /\ UNCHANGED <<program, calls>>)

FairSpec == Spec /\ Fairness

-----------------------------------------------------------------------------
(* Properties *)

\* All FindClass calls of a name return the same class, however the threads
\* race to define it (InsertClass, EnsureResolved): the resolved one that is in
\* the table, never the temporary class it was linked from.
ClassIsUnique ==
  \A n \in Names : \A k \in found[n] : k = table[n] /\ IsResolved(k)

\* The CHECKs of Class::SetStatus and ClassTable::UpdateClass hold: a class
\* that a circular supertype made erroneous is not made erroneous again, and
\* the class that is replaced in the table is the one that was inserted.
LoadingChecksHold == ~aborted

\* Every FindClass returns: a class whose definition fails is marked for those
\* who wait for it, and threads that define classes never wait in a circle.
FindClassReturns == \A t \in Threads : stack[t] # <<>> ~> stack[t] = <<>>

=============================================================================
