---------------------------- MODULE ClassStatus ----------------------------
(***************************************************************************)
(* mirror::Class::Status: how far loading, verification and initialization *)
(* of a class have come.  Comparisons of the code rely on the order.       *)
(***************************************************************************)
EXTENDS Integers

kStatusRetired == -3
kStatusErrorResolved == -2
kStatusErrorUnresolved == -1
kStatusIdx == 1
kStatusLoaded == 2
kStatusResolving == 3
kStatusResolved == 4
kStatusVerifying == 5
kStatusRetryVerificationAtRuntime == 6
kStatusVerifyingAtRuntime == 7
kStatusVerified == 8
kStatusInitializing == 9
kStatusInitialized == 10
=============================================================================
