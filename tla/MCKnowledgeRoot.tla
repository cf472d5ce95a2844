--------------------------- MODULE MCKnowledgeRoot ---------------------------
(***************************************************************************)
(* Instances of KnowledgeRoot for TLC.  Two callers, in one process or in  *)
(* two; ChangeSets that touch one object, one of them without operations.  *)
(***************************************************************************)
EXTENDS KnowledgeRoot, TLC

CONSTANTS p1, p2, a, b, cs1, cs2, cs3, run1, run2, theme

MCOneProcess == a :> p1 @@ b :> p1
MCTwoProcesses == a :> p1 @@ b :> p2

\* Each ChangeSet comes from a run of its own, or two come from the same run.
MCOwnRuns == cs1 :> run1 @@ cs2 :> run2
MCSharedRun == cs1 :> run1 @@ cs2 :> run2 @@ cs3 :> run1

MCTargetOf == [cs \in ChangeSets |-> theme]

\* The two callers are interchangeable, each with its process.
MCSwap ==
    {f \in Permutations({a, b, p1, p2}) :
        \A c \in {a, b} : f[c] \in {a, b} /\ f[ProcOf[c]] = ProcOf[f[c]]}

\* The bounds on revisions follow from RunOf: each run commits at most one ChangeSet.
=============================================================================
