------------------------------ MODULE MutationLock ------------------------------
(***************************************************************************)
(* withKnowledgeBaseMutationLock (knowledge/storage/mutation-lock.ts), for *)
(* one Knowledge Base root.  Within a process each call appends a promise  *)
(* to the chain in `processLocks` and waits for the one before it; across  *)
(* processes the holder is whoever made the lock directory.  A process may *)
(* die at any await, and any file-system call may fail.                    *)
(***************************************************************************)
EXTENDS Naturals

CONSTANTS
    Procs, Callers, ProcOf,    \* callers run in operating-system processes
    MaxCrashes, MaxErrors,     \* bounds on what goes wrong
    None,                      \* no entry, no directory
    Left                       \* the directory of a call that is over

ASSUME LockAssumption ==
    /\ ProcOf \in [Callers -> Procs]
    /\ None \notin Callers /\ Left \notin Callers /\ None # Left
    /\ MaxCrashes \in Nat /\ MaxErrors \in Nat

VARIABLES
    pc,        \* where each call is
    tail,      \* processLocks: the last call in the chain of each process
    previous,  \* the call whose chain a call awaits; None once that is resolved
    dir,       \* the lock directory: None, the call that made it, or Left
    outcome,   \* how each caller's last call ended
    crashes, errors

vars == <<pc, tail, previous, dir, outcome, crashes, errors>>
faultCounts == <<crashes, errors>>

Goto(c, l) == pc' = [pc EXCEPT ![c] = l]
Ends(c, o) == outcome' = [outcome EXCEPT ![c] = o]
Fault == errors < MaxErrors /\ errors' = errors + 1

Init ==
    /\ pc = [c \in Callers |-> "idle"]
    /\ tail = [p \in Procs |-> None]
    /\ previous = [c \in Callers |-> None]
    /\ dir = None
    /\ outcome = [c \in Callers |-> "none"]
    /\ crashes = 0 /\ errors = 0

\* Up to `await previous`: no other code of this process runs in between.
Call(c) ==
    /\ pc[c] = "idle"
    /\ previous' = [previous EXCEPT ![c] = tail[ProcOf[c]]]
    /\ tail' = [tail EXCEPT ![ProcOf[c]] = c]
    /\ Goto(c, "await")
    /\ Ends(c, "none")
    /\ UNCHANGED <<dir, faultCounts>>

Resume(c) ==
    /\ pc[c] = "await" /\ previous[c] = None
    /\ Goto(c, "mkdir")
    /\ UNCHANGED <<tail, previous, dir, outcome, faultCounts>>

\* Mistake: a directory that is there already is taken for one's own.
MakeAnyDirectory(c) ==
    /\ pc[c] = "mkdir"
    /\ dir' = c
    /\ Goto(c, "owner")
    /\ UNCHANGED <<tail, previous, outcome, faultCounts>>

MakeDirectory(c) ==
    /\ pc[c] = "mkdir" /\ dir = None
    /\ dir' = c
    /\ Goto(c, "owner")
    /\ UNCHANGED <<tail, previous, outcome, faultCounts>>

\* EEXIST: a lock error with `conflict` set.
AlreadyHeld(c) ==
    /\ pc[c] = "mkdir" /\ dir # None
    /\ Goto(c, "settle")
    /\ Ends(c, "conflict")
    /\ UNCHANGED <<tail, previous, dir, faultCounts>>

MakeDirectoryFails(c) ==
    /\ pc[c] = "mkdir" /\ Fault
    /\ Goto(c, "settle")
    /\ Ends(c, "failed")
    /\ UNCHANGED <<tail, previous, dir, crashes>>

WriteOwner(c) ==
    /\ pc[c] = "owner"
    /\ Goto(c, "task")
    /\ UNCHANGED <<tail, previous, dir, outcome, faultCounts>>

\* The directory is removed again; an error of that removal is swallowed.
WriteOwnerFails(c) ==
    /\ pc[c] = "owner" /\ Fault
    /\ dir' \in {None, Left}
    /\ Goto(c, "settle")
    /\ Ends(c, "failed")
    /\ UNCHANGED <<tail, previous, crashes>>

\* The task resolves or rejects; either way the finally block follows.
Task(c) ==
    /\ pc[c] = "task"
    /\ Goto(c, "remove")
    /\ Ends(c, "done")
    /\ UNCHANGED <<tail, previous, dir, faultCounts>>

RemoveDirectory(c) ==
    /\ pc[c] = "remove"
    /\ dir' = None
    /\ Goto(c, "settle")
    /\ UNCHANGED <<tail, previous, outcome, faultCounts>>

\* Mistake: releaseProcess is not in a finally block of its own.
RemoveDirectoryThrows(c) ==
    /\ pc[c] = "remove" /\ Fault
    /\ dir' = Left
    /\ Goto(c, "idle")
    /\ Ends(c, "failed")
    /\ UNCHANGED <<tail, previous, crashes>>

RemoveDirectoryFails(c) ==
    /\ pc[c] = "remove" /\ Fault
    /\ dir' = Left
    /\ Goto(c, "settle")
    /\ Ends(c, "failed")
    /\ UNCHANGED <<tail, previous, crashes>>

Resolved(c) == previous' = [d \in Callers |-> IF previous[d] = c THEN None ELSE previous[d]]

\* Mistake: the chain is dropped although another call has joined it.
SettleAndDrop(c) ==
    /\ pc[c] = "settle"
    /\ Resolved(c)
    /\ tail' = [tail EXCEPT ![ProcOf[c]] = None]
    /\ Goto(c, "idle")
    /\ UNCHANGED <<dir, outcome, faultCounts>>

\* Mistake: the chain is never dropped.
SettleAndKeep(c) ==
    /\ pc[c] = "settle"
    /\ Resolved(c)
    /\ Goto(c, "idle")
    /\ UNCHANGED <<tail, dir, outcome, faultCounts>>

\* releaseProcess, and the chain is dropped unless another call has joined it.
Settle(c) ==
    /\ pc[c] = "settle"
    /\ Resolved(c)
    /\ tail' = [tail EXCEPT ![ProcOf[c]] = IF @ = c THEN None ELSE @]
    /\ Goto(c, "idle")
    /\ UNCHANGED <<dir, outcome, faultCounts>>

\* A process dies: its chain is gone, a directory it made stays.
Crash(p) ==
    LET dead == {c \in Callers : ProcOf[c] = p} IN
    /\ crashes < MaxCrashes
    /\ crashes' = crashes + 1
    /\ pc' = [c \in Callers |-> IF c \in dead THEN "idle" ELSE pc[c]]
    /\ previous' = [c \in Callers |-> IF c \in dead THEN None ELSE previous[c]]
    /\ outcome' = [c \in Callers |-> IF c \in dead THEN "none" ELSE outcome[c]]
    /\ tail' = [tail EXCEPT ![p] = None]
    /\ dir' = IF dir \in dead THEN Left ELSE dir
    /\ UNCHANGED errors

\* Somebody outside the program removes a directory that was left.
ClearLeftDirectory ==
    /\ dir = Left
    /\ dir' = None
    /\ UNCHANGED <<pc, tail, previous, outcome, faultCounts>>

Step(c) ==
    \/ Resume(c) \/ MakeDirectory(c) \/ AlreadyHeld(c) \/ WriteOwner(c)
    \/ Task(c) \/ RemoveDirectory(c) \/ Settle(c)

Next ==
    \/ \E c \in Callers :
        \/ Call(c) \/ Step(c)
        \/ MakeDirectoryFails(c) \/ WriteOwnerFails(c) \/ RemoveDirectoryFails(c)
    \/ \E p \in Procs : Crash(p)
    \/ ClearLeftDirectory

Spec == Init /\ [][Next]_vars

\* Every await of a call is answered, that of its task too.
FairSpec == Spec /\ \A c \in Callers : WF_vars(Step(c))

-----------------------------------------------------------------------------
Places == {"idle", "await", "mkdir", "owner", "task", "remove", "settle"}

TypeOK ==
    /\ pc \in [Callers -> Places]
    /\ tail \in [Procs -> Callers \cup {None}]
    /\ previous \in [Callers -> Callers \cup {None}]
    /\ dir \in Callers \cup {None, Left}
    /\ outcome \in [Callers -> {"none", "done", "conflict", "failed"}]
    /\ crashes \in 0..MaxCrashes /\ errors \in 0..MaxErrors

Inside == {"owner", "task", "remove"}

\* Two tasks never run at once, whatever processes they are in.
MutualExclusion == \A c, d \in Callers : pc[c] \in Inside /\ pc[d] \in Inside => c = d

\* A call is told "already held" only by a call of another process or by a directory whose maker
\* is gone: calls of one process wait for each other.
ConflictIsForeign ==
    \A c \in Callers : pc[c] = "mkdir" /\ dir \in Callers => ProcOf[dir] # ProcOf[c]

\* processLocks has an entry for a process exactly while a call of it is under way.
ChainIsDropped ==
    \A p \in Procs : tail[p] = None <=> \A c \in Callers : ProcOf[c] = p => pc[c] = "idle"

\* The calls a call waits for, directly or not.
Waited[c \in Callers] == IF previous[c] = None THEN {} ELSE {previous[c]} \cup Waited[previous[c]]

KL == INSTANCE KnowledgeLock WITH
        active <- {c \in Callers : pc[c] # "idle"},
        ahead <- Waited,
        holder <- dir

\* The promise chains and the directory are one lock that serves each process in call order.
ImplementsKnowledgeLock == KL!Spec

\* Every call returns: nobody waits for ever, even for a process that died.
EveryCallReturns == \A c \in Callers : pc[c] # "idle" ~> pc[c] = "idle"
=============================================================================
