---------------------------- MODULE MCMutationLock ----------------------------
(***************************************************************************)
(* Three callers of one process share the lock with one of another.        *)
(***************************************************************************)
EXTENDS MutationLock, TLC

CONSTANTS p1, p2, a, b, c, d

MCProcOf == a :> p1 @@ b :> p1 @@ c :> p1 @@ d :> p2
=============================================================================
