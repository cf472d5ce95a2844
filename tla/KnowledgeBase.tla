----------------------------- MODULE KnowledgeBase -----------------------------
(***************************************************************************)
(* What the Knowledge Base promises to the callers of its Writer: it is a  *)
(* revisioned store that changes only by whole ChangeSets.  A ChangeSet is *)
(* committed at most once, a committing ChangeSet that carries operations  *)
(* advances the revision by exactly one, and a caller is told "committed"  *)
(* (or "already_committed") only for a ChangeSet that is in the store.     *)
(*                                                                         *)
(* KnowledgeRoot.tla is the directory tree, lock directory, journal and    *)
(* recovery that implement this promise (knowledge/storage and             *)
(* knowledge/writer); it is shown to refine this module.                   *)
(***************************************************************************)
EXTENDS Naturals

CONSTANTS
    ChangeSets,  \* validated ChangeSets (changeSetId)
    Runs,        \* workflowRunId values, the idempotency keys
    RunOf,       \* the run that produced a ChangeSet
    Changing,    \* the ChangeSets that carry operations; the rest are no_changes
    Objects,     \* canonical objects
    TargetOf,    \* the object a ChangeSet creates or updates
    Notes,       \* records kept beside the objects (reviews, raw bundles, run logs)
    None         \* "no such entry"

VARIABLES
    rev,    \* manifest.revision
    log,    \* the Writer log of each run: the receipt of its ChangeSet
    objs,   \* the ChangeSet that last wrote each object
    notes,  \* the records that have been kept
    acked   \* what callers have been told is committed

vars == <<rev, log, objs, notes, acked>>

\* The receipt of a committed ChangeSet: the revision it committed, and the version of its
\* target it was planned against.
LogEntry == [cs : ChangeSets, rev : Nat, before : ChangeSets \cup {None}]

Delta(cs) == IF cs \in Changing THEN 1 ELSE 0

Init ==
    /\ rev = 0
    /\ log = [r \in Runs |-> None]
    /\ objs = [o \in Objects |-> None]
    /\ notes = {}
    /\ acked = {}

\* The version of its target that a ChangeSet replaces.
Replaced(cs) == IF cs \in Changing THEN objs[TargetOf[cs]] ELSE None

\* The whole ChangeSet takes effect in one step, on the version it was planned against.
Commit(cs) ==
    /\ log[RunOf[cs]] = None
    /\ rev' = rev + Delta(cs)
    /\ log' = [log EXCEPT ![RunOf[cs]] = [cs |-> cs, rev |-> rev', before |-> Replaced(cs)]]
    /\ objs' = IF cs \in Changing THEN [objs EXCEPT ![TargetOf[cs]] = cs] ELSE objs
    /\ UNCHANGED <<notes, acked>>

\* A caller is told that its ChangeSet is committed.
Acknowledge(cs) ==
    /\ log[RunOf[cs]] # None
    /\ log[RunOf[cs]].cs = cs
    /\ acked' = acked \cup {log[RunOf[cs]]}
    /\ UNCHANGED <<rev, log, objs, notes>>

\* A record is kept beside the canonical objects.
Keep(n) ==
    /\ notes' = notes \cup {n}
    /\ UNCHANGED <<rev, log, objs, acked>>

Next ==
    \/ \E cs \in ChangeSets : Commit(cs) \/ Acknowledge(cs)
    \/ \E n \in Notes : Keep(n)

Spec == Init /\ [][Next]_vars
=============================================================================
