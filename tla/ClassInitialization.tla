------------------------ MODULE ClassInitialization ------------------------
(***************************************************************************)
(* Verification and initialization of resolved classes by ClassLinker:     *)
(* EnsureInitialized, InitializeClass, WaitForInitializeClass, VerifyClass *)
(* and the supertypes they reach.  The methods call each other and, from   *)
(* <clinit>, themselves: every thread has a stack of frames.               *)
(*                                                                         *)
(* The monitor of a class is held over several steps in one place only,    *)
(* while InitializeClass verifies the class; every other critical section  *)
(* is one step that is taken when the monitor is free.  A failing CHECK    *)
(* ends the runtime and is recorded in aborted.                            *)
(***************************************************************************)
EXTENDS ClassStatus, Sequences

CONSTANTS
  Threads, Classes,
  NoThread, NoClass,
  Programs           \* the class hierarchies and callers to choose from

VARIABLES
  program,                  \* what the dex files say, and who calls what
  status,                   \* Class::status_
  clinit_thread_id,         \* Class::clinit_thread_id_
  recursively_initialized,  \* interfaces with kAccRecursivelyInitialized
  owner,                    \* the holder of a class's monitor
  waiters,                  \* the wait set of a class's monitor
  exception,                \* the threads with a pending exception
  stack,                    \* the frames of a thread, the innermost first
  calls,                    \* the classes a thread is still to use
  aborted                   \* the CHECK that failed, if any

vars == <<program, status, clinit_thread_id, recursively_initialized, owner,
          waiters, exception, stack, calls, aborted>>

IsErroneous(c) == status[c] = kStatusErrorResolved
IsVerified(c) == status[c] >= kStatusVerified
IsInitialized(c) == status[c] = kStatusInitialized
IsBeingVerified(c) == status[c] \in {kStatusVerifying, kStatusVerifyingAtRuntime}

HasSuperClass(c) == program.super[c] # NoClass
IsInterface(c) == c \in program.interfaces
HasDefaultMethods(c) == c \in program.defaults

-----------------------------------------------------------------------------
(* Frames, monitors and the status word *)

Frame(m, c, pc) == [m |-> m, c |-> c, pc |-> pc, todo |-> <<>>]

At(t, m, pc) == stack[t] # <<>> /\ stack[t][1].m = m /\ stack[t][1].pc = pc
Self(t) == stack[t][1].c
Todo(t) == stack[t][1].todo

Goto(t, pc) == stack' = [stack EXCEPT ![t][1].pc = pc]
GotoWith(t, pc, todo) ==
  stack' = [stack EXCEPT ![t][1].pc = pc, ![t][1].todo = todo]
Call(t, frame, pc) ==
  stack' = [stack EXCEPT ![t] = <<frame>> \o [@ EXCEPT ![1].pc = pc]]
Return(t) == stack' = [stack EXCEPT ![t] = Tail(@)]

Throw(t) == exception' = exception \cup {t}

\* ObjectLock on the class, taken and released within the step.
MayLock(t, c) == owner[c] \in {NoThread, t}

\* The caller of a VerifyClass holds the lock on the class as well.
CallerHolds(t) ==
  /\ Len(stack[t]) > 1
  /\ stack[t][2].m = "init" /\ stack[t][2].c = Self(t)

\* ObjectLock::WaitIgnoringInterrupts, up to the wait.
Wait(t, c) ==
  /\ waiters' = [waiters EXCEPT ![c] = @ \cup {t}]
  /\ owner' = [owner EXCEPT ![c] = NoThread]

Abort(check) ==
  /\ aborted' = check
  /\ UNCHANGED <<status, clinit_thread_id, recursively_initialized, owner,
                 waiters, exception, stack>>

\* Class::SetStatus: its CHECKs, the write, and the NotifyAll that any change
\* of a resolved class's status makes.
IsLegalChange(c, new_status) ==
  /\ new_status # kStatusErrorResolved => new_status > status[c]
  /\ new_status = kStatusErrorResolved => ~IsErroneous(c)

\* Variant: only a class that becomes verified tells those who wait for it.
SetStatusQuietly(c, new_status) ==
  /\ status' = [status EXCEPT ![c] = new_status]
  /\ waiters' = IF new_status = kStatusVerified
                   THEN [waiters EXCEPT ![c] = {}] ELSE waiters
  /\ aborted' = IF IsLegalChange(c, new_status) THEN aborted ELSE "status"

SetStatus(c, new_status) ==
  /\ status' = [status EXCEPT ![c] = new_status]
  /\ waiters' = [waiters EXCEPT ![c] = {}]
  /\ aborted' = IF IsLegalChange(c, new_status) THEN aborted ELSE "status"

Init ==
  /\ program \in Programs
  /\ status = program.start
  /\ clinit_thread_id = [c \in Classes |-> NoThread]
  /\ recursively_initialized = {}
  /\ owner = [c \in Classes |-> NoThread]
  /\ waiters = [c \in Classes |-> {}]
  /\ exception = {}
  /\ stack = [t \in Threads |-> <<>>]
  /\ calls = program.calls
  /\ aborted = "no"

-----------------------------------------------------------------------------
(* VerifyClass *)

\* With the lock held and nobody verifying: an erroneous or a verified class
\* is left as it is, any other starts being verified.
BeginVerification(t, c) ==
  IF IsErroneous(c) \/ IsVerified(c)
    THEN /\ exception' = IF IsErroneous(c) THEN exception \cup {t} ELSE exception
         /\ Return(t)
         /\ UNCHANGED <<status, waiters, aborted>>
    ELSE /\ SetStatus(c, IF status[c] = kStatusResolved
                           THEN kStatusVerifying
                           ELSE kStatusVerifyingAtRuntime)
         /\ Goto(t, "super")
         /\ UNCHANGED exception

VerifyClass(t) ==
  LET c == Self(t) IN
  /\ At(t, "verify", "lock")
  /\ MayLock(t, c)
  /\ IF IsBeingVerified(c)
       THEN /\ Wait(t, c)
            /\ Goto(t, "wait")
            /\ UNCHANGED <<status, exception, aborted>>
       ELSE /\ BeginVerification(t, c)
            /\ UNCHANGED owner
  /\ UNCHANGED <<clinit_thread_id, recursively_initialized>>

\* Woken: the CHECK that the status moved on, and the test again.
VerifyClassWoken(t) ==
  LET c == Self(t) IN
  /\ At(t, "verify", "wait")
  /\ t \notin waiters[c]
  /\ owner[c] = NoThread
  /\ IF IsBeingVerified(c)
       THEN Abort("verification wait")
       ELSE /\ BeginVerification(t, c)
            /\ owner' = [owner EXCEPT ![c] = IF CallerHolds(t) THEN t ELSE NoThread]
            /\ UNCHANGED <<clinit_thread_id, recursively_initialized>>

\* AttemptSupertypeVerification of one supertype s: verify it if need be, ...
AttemptSupertypeVerification(t, s, next) ==
  /\ IF IsVerified(s) \/ IsErroneous(s)
       THEN Goto(t, IF IsVerified(s) THEN next ELSE "reject")
       ELSE Call(t, Frame("verify", s, "lock"), next \o "?")
  /\ UNCHANGED exception

\* ... and reject the class when it still is not verified.
SupertypeAttempted(t, s, next) ==
  /\ Goto(t, IF IsVerified(s) THEN next ELSE "reject")
  /\ UNCHANGED exception

VerifySuperClass(t) ==
  LET c == Self(t) IN
  /\ \/ /\ At(t, "verify", "super")
        /\ IF HasSuperClass(c)
             THEN AttemptSupertypeVerification(t, program.super[c], "interfaces")
             ELSE Goto(t, "interfaces") /\ UNCHANGED exception
     \/ /\ At(t, "verify", "interfaces?")
        /\ SupertypeAttempted(t, program.super[c], "interfaces")
  /\ UNCHANGED <<status, clinit_thread_id, recursively_initialized, owner, waiters, aborted>>

\* The superinterfaces with default methods, unless the superclass has ceased
\* to be verified or the class is an interface itself.
VerifyInterfaces(t) ==
  LET c == Self(t)
      skip == IsInterface(c) \/ (HasSuperClass(c) /\ ~IsVerified(program.super[c]))
  IN
  /\ \/ /\ At(t, "verify", "interfaces")
        /\ GotoWith(t, "interface",
                    IF skip THEN <<>> ELSE SelectSeq(program.iftable[c], HasDefaultMethods))
        /\ UNCHANGED exception
     \/ /\ At(t, "verify", "interface")
        /\ IF Todo(t) = <<>>
             THEN Goto(t, "verifier") /\ UNCHANGED exception
             ELSE AttemptSupertypeVerification(t, Todo(t)[1], "next interface")
     \/ /\ At(t, "verify", "next interface?")
        /\ SupertypeAttempted(t, Todo(t)[1], "next interface")
     \/ /\ At(t, "verify", "next interface")
        /\ GotoWith(t, "interface", Tail(Todo(t)))
        /\ UNCHANGED exception
  /\ UNCHANGED <<status, clinit_thread_id, recursively_initialized, owner, waiters, aborted>>

\* AttemptSupertypeVerification's failure: the class itself is erroneous.
RejectClass(t) ==
  LET c == Self(t) IN
  /\ At(t, "verify", "reject")
  /\ MayLock(t, c)
  /\ Throw(t)
  /\ SetStatus(c, kStatusErrorResolved)
  /\ Return(t)
  /\ UNCHANGED <<clinit_thread_id, recursively_initialized, owner>>

\* The verifier has run without the lock; its verdict is recorded with it.
FinishVerification(t) ==
  LET c == Self(t) IN
  /\ At(t, "verify", "verifier")
  /\ MayLock(t, c)
  /\ \/ /\ "ok" \in program.verdicts[c]
        /\ ~HasSuperClass(c) \/ IsVerified(program.super[c])
        /\ SetStatus(c, kStatusVerified)
        /\ Return(t)
        /\ UNCHANGED exception
     \/ /\ "hard" \in program.verdicts[c]
        /\ Throw(t)
        /\ SetStatus(c, kStatusErrorResolved)
        /\ Return(t)
  /\ UNCHANGED <<clinit_thread_id, recursively_initialized, owner>>

\* No failure of its own, but the superclass is not verified: the code CHECKs
\* that this is the soft failure of a compile-time verification.
SuperClassNotVerified(t) ==
  LET c == Self(t) IN
  /\ At(t, "verify", "verifier")
  /\ MayLock(t, c)
  /\ "ok" \in program.verdicts[c]
  /\ HasSuperClass(c)
  /\ ~IsVerified(program.super[c])
  /\ Abort("supertype")

-----------------------------------------------------------------------------
(* InitializeClass *)

\* EnsureInitialized, and the first test of InitializeClass, without the lock.
EnsureInitialized(t) ==
  /\ At(t, "init", "start")
  /\ IF IsInitialized(Self(t)) THEN Return(t) ELSE Goto(t, "lock")
  /\ UNCHANGED <<status, clinit_thread_id, recursively_initialized, owner,
                 waiters, exception, aborted>>

\* Variant: a class that is being initialized is taken for an initialized one.
ReturnWithoutWaiting(t, c) ==
  /\ Return(t)
  /\ owner' = [owner EXCEPT ![c] = NoThread]
  /\ UNCHANGED <<status, waiters, clinit_thread_id, exception, aborted>>

\* WaitForInitializeClass, up to the wait.
WaitForInitializeClass(t, c) ==
  /\ Wait(t, c)
  /\ Goto(t, "wait")
  /\ UNCHANGED <<status, clinit_thread_id, exception, aborted>>

\* ValidateSuperClassDescriptors, and the class is this thread's to initialize.
StartInitialization(t, c) ==
  /\ owner' = [owner EXCEPT ![c] = NoThread]
  /\ IF c \in program.inconsistent
       THEN /\ Throw(t)
            /\ SetStatus(c, kStatusErrorResolved)
            /\ Return(t)
            /\ UNCHANGED clinit_thread_id
       ELSE /\ clinit_thread_id' = [clinit_thread_id EXCEPT ![c] = t]
            /\ SetStatus(c, kStatusInitializing)
            /\ Goto(t, "super")
            /\ UNCHANGED exception

\* A verified class, with the lock held: wait for the thread that initializes
\* it, go on if that is this thread, or start initializing it.
BeginInitialization(t, c) ==
  CASE IsInitialized(c) ->
         /\ Return(t)
         /\ owner' = [owner EXCEPT ![c] = NoThread]
         /\ UNCHANGED <<status, waiters, clinit_thread_id, exception, aborted>>
    [] status[c] = kStatusInitializing ->
         IF t \in exception \/ clinit_thread_id[c] = t
           THEN /\ Return(t)
                /\ owner' = [owner EXCEPT ![c] = NoThread]
                /\ UNCHANGED <<status, waiters, clinit_thread_id, exception, aborted>>
           ELSE WaitForInitializeClass(t, c)
    [] OTHER -> StartInitialization(t, c)

EarlierFailure(t, c) ==
  /\ Throw(t)
  /\ Return(t)
  /\ owner' = [owner EXCEPT ![c] = NoThread]
  /\ UNCHANGED <<status, waiters, clinit_thread_id, aborted>>

\* The tests again under the lock, which is kept while the class is verified.
InitializeClass(t) ==
  LET c == Self(t) IN
  /\ At(t, "init", "lock")
  /\ MayLock(t, c)
  /\ CASE IsErroneous(c) -> EarlierFailure(t, c)
       [] ~IsErroneous(c) /\ ~IsVerified(c) ->
            /\ owner' = [owner EXCEPT ![c] = t]
            /\ Call(t, Frame("verify", c, "lock"), "verified")
            /\ UNCHANGED <<status, waiters, clinit_thread_id, exception, aborted>>
       [] OTHER -> BeginInitialization(t, c)
  /\ UNCHANGED recursively_initialized

\* Variant: nobody else is thought to have moved the class past verification.
ClassVerifiedByUs(t) ==
  LET c == Self(t) IN
  /\ At(t, "init", "verified")
  /\ IF IsErroneous(c) THEN EarlierFailure(t, c) ELSE StartInitialization(t, c)
  /\ UNCHANGED recursively_initialized

\* The class is verified, or was found to be erroneous; another thread may
\* have moved it on meanwhile.
ClassVerified(t) ==
  LET c == Self(t) IN
  /\ At(t, "init", "verified")
  /\ IF IsErroneous(c) THEN EarlierFailure(t, c) ELSE BeginInitialization(t, c)
  /\ UNCHANGED recursively_initialized

\* WaitForInitializeClass, woken: wait again, or report what the thread that
\* initialized the class came to.
InitializeClassWoken(t) ==
  LET c == Self(t) IN
  /\ At(t, "init", "wait")
  /\ t \notin waiters[c]
  /\ owner[c] = NoThread
  /\ IF status[c] = kStatusInitializing
       THEN Wait(t, c) /\ UNCHANGED <<exception, stack>>
       ELSE /\ exception' = IF IsErroneous(c) THEN exception \cup {t} ELSE exception
            /\ Return(t)
            /\ UNCHANGED <<owner, waiters>>
  /\ aborted' = IF status[c] \in {kStatusInitializing, kStatusInitialized, kStatusErrorResolved}
                  THEN aborted ELSE "wait"
  /\ UNCHANGED <<status, clinit_thread_id, recursively_initialized>>

\* Variant: a superclass that another thread has begun to initialize is skipped.
InitializeStartedSuperClass(t) ==
  LET c == Self(t) s == program.super[c] IN
  /\ At(t, "init", "super")
  /\ IF ~IsInterface(c) /\ HasSuperClass(c) /\ status[s] < kStatusInitializing
       THEN Call(t, Frame("init", s, "start"), "super?")
       ELSE GotoWith(t, "interface", IF IsInterface(c) THEN <<>> ELSE program.direct_interfaces[c])
  /\ UNCHANGED <<status, clinit_thread_id, recursively_initialized, owner,
                 waiters, exception, aborted>>

\* The superclass first ...
InitializeSuperClass(t) ==
  LET c == Self(t) s == program.super[c] IN
  /\ At(t, "init", "super")
  /\ IF ~IsInterface(c) /\ HasSuperClass(c) /\ ~IsInitialized(s)
       THEN Call(t, Frame("init", s, "start"), "super?")
       ELSE GotoWith(t, "interface", IF IsInterface(c) THEN <<>> ELSE program.direct_interfaces[c])
  /\ UNCHANGED <<status, clinit_thread_id, recursively_initialized, owner,
                 waiters, exception, aborted>>

SuperClassInitialized(t) ==
  LET c == Self(t) IN
  /\ At(t, "init", "super?")
  /\ IF t \in exception
       THEN Goto(t, "fail")
       ELSE GotoWith(t, "interface", program.direct_interfaces[c])
  /\ aborted' = IF t \in exception /\ ~IsErroneous(program.super[c]) THEN "superclass" ELSE aborted
  /\ UNCHANGED <<status, clinit_thread_id, recursively_initialized, owner, waiters, exception>>

\* ... then the direct interfaces, unless marked as done, each by
\* InitializeDefaultInterfaceRecursive ...
InitializeInterfaces(t) ==
  /\ \/ /\ At(t, "init", "interface")
        /\ CASE Todo(t) = <<>> -> GotoWith(t, "clinit", program.uses[Self(t)])
             [] Todo(t) # <<>> /\ Todo(t)[1] \in recursively_initialized ->
                  GotoWith(t, "interface", Tail(Todo(t)))
             [] OTHER -> Call(t, Frame("interface", Todo(t)[1], "start"), "interface?")
     \/ /\ At(t, "init", "interface?")
        /\ IF t \in exception
             THEN Goto(t, "fail")
             ELSE GotoWith(t, "interface", Tail(Todo(t)))
  /\ UNCHANGED <<status, clinit_thread_id, recursively_initialized, owner,
                 waiters, exception, aborted>>

\* ... then <clinit>, which uses other classes and may complete abruptly.
RunClinit(t) ==
  LET c == Self(t) IN
  /\ \/ /\ At(t, "init", "clinit")
        /\ Todo(t) # <<>>
        /\ Call(t, Frame("init", Todo(t)[1], "start"), "clinit?")
        /\ UNCHANGED exception
     \/ /\ At(t, "init", "clinit?")
        /\ IF t \in exception
             THEN Goto(t, "fail")
             ELSE GotoWith(t, "clinit", Tail(Todo(t)))
        /\ UNCHANGED exception
     \/ /\ At(t, "init", "clinit")
        /\ Todo(t) = <<>>
        /\ c \in program.throws
        /\ Throw(t)
        /\ Goto(t, "fail")
  /\ UNCHANGED <<status, clinit_thread_id, recursively_initialized, owner, waiters, aborted>>

\* The outcome, under the lock.
InitializationFailed(t) ==
  LET c == Self(t) IN
  /\ At(t, "init", "fail")
  /\ MayLock(t, c)
  /\ SetStatus(c, kStatusErrorResolved)
  /\ Return(t)
  /\ UNCHANGED <<clinit_thread_id, recursively_initialized, owner, exception>>

InitializationDone(t) ==
  LET c == Self(t) IN
  /\ At(t, "init", "clinit")
  /\ Todo(t) = <<>>
  /\ MayLock(t, c)
  /\ SetStatus(c, kStatusInitialized)
  /\ Return(t)
  /\ UNCHANGED <<clinit_thread_id, recursively_initialized, owner, exception>>

-----------------------------------------------------------------------------
(* InitializeDefaultInterfaceRecursive *)

InitializeDefaultInterfaceRecursive(t) ==
  LET i == Self(t) IN
  /\ \/ /\ At(t, "interface", "start")
        /\ GotoWith(t, "super", program.direct_interfaces[i])
     \/ /\ At(t, "interface", "super")
        /\ CASE Todo(t) = <<>> ->
                  IF HasDefaultMethods(i)
                    THEN Call(t, Frame("init", i, "start"), "initialized?")
                    ELSE Goto(t, "mark")
             [] Todo(t) # <<>> /\ Todo(t)[1] \in recursively_initialized ->
                  GotoWith(t, "super", Tail(Todo(t)))
             [] OTHER -> Call(t, Frame("interface", Todo(t)[1], "start"), "super?")
     \/ /\ At(t, "interface", "super?")
        /\ IF t \in exception THEN Return(t) ELSE GotoWith(t, "super", Tail(Todo(t)))
     \/ /\ At(t, "interface", "initialized?")
        /\ IF t \in exception THEN Return(t) ELSE Goto(t, "mark")
  /\ UNCHANGED <<status, clinit_thread_id, recursively_initialized, owner,
                 waiters, exception, aborted>>

SetRecursivelyInitialized(t) ==
  LET i == Self(t) IN
  /\ At(t, "interface", "mark")
  /\ MayLock(t, i)
  /\ recursively_initialized' = recursively_initialized \cup {i}
  /\ Return(t)
  /\ UNCHANGED <<status, clinit_thread_id, owner, waiters, exception, aborted>>

-----------------------------------------------------------------------------
(* The threads *)

\* Compiled or interpreted code uses a class.
UseClass(t) ==
  /\ stack[t] = <<>>
  /\ calls[t] # <<>>
  /\ stack' = [stack EXCEPT ![t] = <<Frame("init", calls[t][1], "start")>>]
  /\ calls' = [calls EXCEPT ![t] = Tail(@)]
  /\ exception' = exception \ {t}
  /\ UNCHANGED <<status, clinit_thread_id, recursively_initialized, owner, waiters, aborted>>

Proceed(t) ==
  \/ VerifyClass(t)
  \/ VerifyClassWoken(t)
  \/ VerifySuperClass(t)
  \/ VerifyInterfaces(t)
  \/ RejectClass(t)
  \/ FinishVerification(t)
  \/ SuperClassNotVerified(t)
  \/ EnsureInitialized(t)
  \/ InitializeClass(t)
  \/ ClassVerified(t)
  \/ InitializeClassWoken(t)
  \/ InitializeSuperClass(t)
  \/ SuperClassInitialized(t)
  \/ InitializeInterfaces(t)
  \/ RunClinit(t)
  \/ InitializationFailed(t)
  \/ InitializationDone(t)
  \/ InitializeDefaultInterfaceRecursive(t)
  \/ SetRecursivelyInitialized(t)

\* A signal ends the futex wait beneath Monitor::Wait.
SpuriousWakeup(t, c) ==
  /\ t \in waiters[c]
  /\ waiters' = [waiters EXCEPT ![c] = @ \ {t}]
  /\ UNCHANGED <<status, clinit_thread_id, recursively_initialized, owner,
                 exception, stack, calls, aborted>>

\* All uses are done, or the runtime has aborted.
Finished ==
  /\ aborted # "no" \/ \A t \in Threads : stack[t] = <<>> /\ calls[t] = <<>>
  /\ UNCHANGED vars

Next ==
  \/ /\ aborted = "no"
     /\ UNCHANGED program
     /\ \E t \in Threads :
          \/ Proceed(t) /\ UNCHANGED calls
          \/ UseClass(t)
          \/ \E c \in Classes : SpuriousWakeup(t, c)
  \/ Finished

Spec == Init /\ [][Next]_vars

\* Every thread is scheduled; a signal never has to come.
Fairness ==
  \A t \in Threads :
    WF_vars(/\ aborted = "no"
            /\ Proceed(t)
            /\ UNCHANGED <<program, calls>>)

FairSpec == Spec /\ Fairness

-----------------------------------------------------------------------------
(* Properties *)

\* The class c is initialized, or the thread t is at it further up its stack.
ReadyFor(t, c) ==
  \/ IsInitialized(c)
  \/ status[c] = kStatusInitializing /\ clinit_thread_id[c] = t

RunsClinit(t, f) == f.m = "init" /\ f.pc \in {"clinit", "clinit?"}

\* <clinit> of a class runs only when its superclass has been initialized, or
\* is being initialized by the same thread (InitializeClass, step for super
\* classes), whatever other threads do to the superclass meanwhile.
SuperClassFirst ==
  \A t \in Threads : \A k \in 1..Len(stack[t]) :
    LET f == stack[t][k] IN
    RunsClinit(t, f) /\ ~IsInterface(f.c) /\ HasSuperClass(f.c)
      => ReadyFor(t, program.super[f.c])

\* The same for the interfaces with default methods, which the mark of
\* InitializeDefaultInterfaceRecursive, "purely a performance optimization",
\* must not change.
InterfacesFirst ==
  \A t \in Threads : \A k \in 1..Len(stack[t]) :
    LET f == stack[t][k] IN
    RunsClinit(t, f) /\ ~IsInterface(f.c)
      => \A n \in 1..Len(program.direct_interfaces[f.c]) :
           LET i == program.direct_interfaces[f.c][n] IN
           HasDefaultMethods(i) => ReadyFor(t, i)

\* An InitializeClass that returns without an exception leaves the class
\* initialized, or in the hands of the thread it returns to: nobody gets to use
\* a class that another thread is still initializing.
InitializedWhenUsed ==
  [][\A t \in Threads, c \in Classes :
       (/\ stack[t] # <<>> /\ stack[t][1].m = "init" /\ Self(t) = c
        /\ stack'[t] = Tail(stack[t])
        /\ t \notin exception' /\ aborted' = "no")
         => ReadyFor(t, c)']_vars

\* The CHECKs of Class::SetStatus, of WaitForInitializeClass and of the
\* superclass's outcome hold: a status never goes back, no class is made
\* erroneous twice, and a failed superclass is erroneous.
ClassChecksHold == aborted \notin {"status", "wait", "superclass"}

\* AttemptSupertypeVerification has verified the superclass, and VerifyClass
\* CHECKs when the verifier is through that it still is.
SuperClassStaysVerified == aborted # "supertype"

\* VerifyClass CHECKs after a wait that the status has moved on.
VerificationWaitMakesProgress == aborted # "verification wait"

\* Every use of a class returns, unless a CHECK fails: no wakeup is lost, and
\* the locks of subclass and superclass are never waited for in a circle.
UsesReturn ==
  \A t \in Threads : stack[t] # <<>> ~> stack[t] = <<>> \/ aborted # "no"

=============================================================================
