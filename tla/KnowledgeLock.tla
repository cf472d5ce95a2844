----------------------------- MODULE KnowledgeLock -----------------------------
(***************************************************************************)
(* The lock a Knowledge Base needs: one caller at a time is inside, over   *)
(* all processes, and the callers of one process get in, or are turned     *)
(* away, in the order of their calls.  MutationLock.tla implements it with *)
(* a promise chain per process and one directory.                          *)
(***************************************************************************)
CONSTANTS Procs, Callers, ProcOf,
          None,    \* nobody is inside
          Left     \* whoever was inside is gone and has not let go

VARIABLES
    active,   \* the callers that have called and not returned
    ahead,    \* of each caller, the active callers of its process that called before it
    holder    \* the caller inside, None or Left

vars == <<active, ahead, holder>>

Init ==
    /\ active = {}
    /\ ahead = [c \in Callers |-> {}]
    /\ holder = None

Call(c) ==
    /\ c \notin active
    /\ active' = active \cup {c}
    /\ ahead' = [ahead EXCEPT ![c] = {d \in active : ProcOf[d] = ProcOf[c]}]
    /\ UNCHANGED holder

Enter(c) ==
    /\ c \in active /\ ahead[c] = {} /\ holder = None
    /\ holder' = c
    /\ UNCHANGED <<active, ahead>>

\* The caller lets go, or fails to.
Leave(c) ==
    /\ holder = c
    /\ holder' \in {None, Left}
    /\ UNCHANGED <<active, ahead>>

\* The call returns, whether or not it has been inside.
Return(c) ==
    /\ c \in active /\ ahead[c] = {} /\ holder # c
    /\ active' = active \ {c}
    /\ ahead' = [d \in Callers |-> ahead[d] \ {c}]
    /\ UNCHANGED holder

\* The process dies with all its callers.
Die(p) ==
    LET dead == {c \in active : ProcOf[c] = p} IN
    /\ active' = active \ dead
    /\ ahead' = [c \in Callers |-> ahead[c] \ dead]
    /\ holder' = IF holder \in dead THEN Left ELSE holder

\* Somebody outside the program removes what was left.
Clear ==
    /\ holder = Left
    /\ holder' = None
    /\ UNCHANGED <<active, ahead>>

Next ==
    \/ \E c \in Callers : Call(c) \/ Enter(c) \/ Leave(c) \/ Return(c)
    \/ \E p \in Procs : Die(p)
    \/ Clear

Spec == Init /\ [][Next]_vars
=============================================================================
