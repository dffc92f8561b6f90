----------------------- MODULE MCClassInitialization -----------------------
(***************************************************************************)
(* ClassInitialization for the programs of ClassHierarchies.               *)
(***************************************************************************)
EXTENDS ClassInitialization

CONSTANTS t1, t2, t3, O, A, B, I, J

H == INSTANCE ClassHierarchies

MCPrograms == H!Hierarchies
=============================================================================
