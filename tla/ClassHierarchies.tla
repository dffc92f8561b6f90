------------------------- MODULE ClassHierarchies -------------------------
(***************************************************************************)
(* Programs for ClassInitialization: O is the root of the hierarchy, A, B  *)
(* and J are below it as each program says, and I is an interface with a   *)
(* default method.                                                         *)
(***************************************************************************)
EXTENDS ClassStatus, TLC

CONSTANTS Threads, Classes, NoClass, t1, t2, t3, O, A, B, I, J

None == [c \in Classes |-> <<>>]
Flat == [c \in Classes |-> IF c = O THEN NoClass ELSE O]

\* Resolved classes without interfaces and with empty class initializers.
Plain ==
  [super |-> Flat, interfaces |-> {I}, defaults |-> {I}, iftable |-> None,
   direct_interfaces |-> None,
   start |-> [c \in Classes |-> IF c = O THEN kStatusInitialized ELSE kStatusResolved],
   verdicts |-> [c \in Classes |-> {"ok"}], inconsistent |-> {},
   uses |-> None, throws |-> {}, calls |-> [t \in Threads |-> <<>>]]

\* B extends A, whose initializer may throw; the threads meet on both.
Subclass ==
  [Plain EXCEPT !.super = [@ EXCEPT ![B] = A], !.throws = {A},
                !.calls = (t1 :> <<B>>) @@ (t2 :> <<A, B>>) @@ (t3 :> <<B>>)]

\* The same with an A that may be rejected by the verifier, B verified softly
\* when it was compiled.
Rejected ==
  [Plain EXCEPT !.super = [@ EXCEPT ![B] = A], !.verdicts = [@ EXCEPT ![A] = {"ok", "hard"}],
                !.start = [@ EXCEPT ![B] = kStatusRetryVerificationAtRuntime],
                !.calls = (t1 :> <<B>>) @@ (t2 :> <<A>>) @@ (t3 :> <<B>>)]

\* A implements J, which extends I; B implements I; I's initializer may throw,
\* A's uses B, which may be inconsistent with its superclass.
Interfaces ==
  [Plain EXCEPT !.interfaces = {I, J},
                !.direct_interfaces = (A :> <<J>>) @@ (B :> <<I>>) @@ (J :> <<I>>) @@ @,
                !.iftable = (A :> <<I, J>>) @@ (B :> <<I>>) @@ (J :> <<I>>) @@ @,
                !.uses = (A :> <<B>>) @@ @, !.throws = {I},
                !.calls = (t1 :> <<A, B>>) @@ (t2 :> <<B>>) @@ (t3 :> <<I>>)]

Inconsistent ==
  [Interfaces EXCEPT !.inconsistent = {B}, !.throws = {},
                     !.verdicts = [@ EXCEPT ![I] = {"ok", "hard"}],
                     !.calls = (t1 :> <<A>>) @@ (t2 :> <<B>>) @@ (t3 :> <<J>>)]

\* I's initializer uses A, which implements I; B implements I as well.
SelfReference ==
  [Plain EXCEPT !.direct_interfaces = (A :> <<I>>) @@ (B :> <<I>>) @@ @,
                !.iftable = (A :> <<I>>) @@ (B :> <<I>>) @@ @,
                !.uses = (I :> <<A>>) @@ @,
                !.calls = (t1 :> <<I>>) @@ (t2 :> <<B>>) @@ (t3 :> <<>>)]

Hierarchies == {Subclass, Rejected, Interfaces, Inconsistent, SelfReference}
=============================================================================
