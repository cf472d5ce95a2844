--------------------------- MODULE RevisionGuardProofs ---------------------------
(***************************************************************************)
(* The revision guard of the Writers subsumes the before-hash of every     *)
(* target, as long as no validation fails while a root is being recovered. *)
(* (With such a failure it does not: a ChangeSet can be planned on a root  *)
(* that the recovery then takes back, and another one can be committed at  *)
(* the same revision.)                                                     *)
(*                                                                         *)
(* The argument: without that failure the tree a reader finds at rootPath  *)
(* (or would find again, where it is missing) never goes back.             *)
(***************************************************************************)
EXTENDS KnowledgeRootRefinement

Visible == IF root # None THEN root ELSE backup[marker.cs]

NeverBack ==
    \/ Visible'.rev = Visible.rev /\ Visible'.objs = Visible.objs
    \/ Visible'.rev > Visible.rev

VisibleTyped == Visible \in Tree

LEMMA VisibleIsTree == IInv => VisibleTyped
BY NoneAssumption DEF IInv, TypeOK, DiskOK, Whole, Visible, Journal, VisibleTyped

LEMMA VisibleIsTreeNext == IInv' => VisibleTyped'
BY VisibleIsTree, PTL

LEMMA SuccessorIsAhead ==
  ASSUME Visible \in Tree, NEW cs, Successor(Visible, Visible', cs)
  PROVE  NeverBack
BY DEF Successor, Delta, NeverBack, Tree

LEMMA SameIsNotBack == Visible' = Visible => NeverBack
BY DEF NeverBack

LEMMA UntouchedIsNotBack == UNCHANGED <<root, backup, marker>> => NeverBack
BY DEF Visible, NeverBack

LEMMA VisibleStep ==
  Hypothesis /\ "readError" \notin Faults /\ IInv /\ IInv' /\ Linked /\ [Next]_vars => NeverBack
<1> SUFFICES ASSUME Hypothesis, "readError" \notin Faults, IInv, IInv', Linked, [Next]_vars PROVE NeverBack
  OBVIOUS
<1> USE ConstantsAssumption, NoneAssumption
    DEF Goto, Result, ReturnLocked, ReturnUnlocked, disk, local, faultCounts, Outside
<1>0. Visible \in Tree /\ Visible' \in Tree
  BY VisibleIsTree, VisibleIsTreeNext DEF VisibleTyped
<1>1. ASSUME NEW c \in Callers, ReadLog(c) PROVE NeverBack
  BY <1>1, UntouchedIsNotBack DEF ReadLog
<1>2. ASSUME NEW c \in Callers, ReadManifest(c) PROVE NeverBack
  BY <1>2, UntouchedIsNotBack DEF ReadManifest
<1>3. ASSUME NEW c \in Callers, ReadIndex(c) PROVE NeverBack
  BY <1>3, UntouchedIsNotBack DEF ReadIndex
<1>4. ASSUME NEW c \in Callers, AlreadyHeld(c) PROVE NeverBack
  BY <1>4, UntouchedIsNotBack DEF AlreadyHeld
<1>5. ASSUME NEW c \in Callers, FailUnlocked(c) PROVE NeverBack
  BY <1>5, UntouchedIsNotBack DEF FailUnlocked
<1>6. ASSUME NEW c \in Callers, Mount(c) PROVE NeverBack
  BY <1>6, UntouchedIsNotBack DEF Mount
<1>7. ASSUME NEW c \in Callers, Submit(c) PROVE NeverBack
  BY <1>7, UntouchedIsNotBack DEF Submit
<1>8. ASSUME NEW c \in Callers, Acquire(c) PROVE NeverBack
  BY <1>8, UntouchedIsNotBack DEF Acquire
<1>9. ASSUME NEW c \in Callers, NEW cs \in ChangeSets, Plan(c, cs) PROVE NeverBack
  BY <1>9, UntouchedIsNotBack DEF Plan
<1>10. ASSUME NEW c \in Callers, NEW kind \in AllKinds, Start(c, kind) PROVE NeverBack
  BY <1>10, UntouchedIsNotBack DEF Start
<1>11. CASE UNCHANGED vars
  BY <1>11, UntouchedIsNotBack DEF vars
<1>12. CASE ClearStaleLock
  BY <1>12, UntouchedIsNotBack DEF ClearStaleLock
<1> USE DEF TypeOK, JournalOK, TreesOK, Preparing, Switching, Recovering, Inside, Writing, DiskOK, Whole, Request, Ready
<1>13. ASSUME NEW c \in Callers, Release(c) PROVE NeverBack
  <2>1. Inside(c)
    BY <1>13, HolderIs DEF Release
  <2>2. Visible' = Visible
    BY <1>13, <2>1 DEF Release, Visible
  <2> QED
    BY <2>2, SameIsNotBack
<1>14. ASSUME NEW c \in Callers, NothingToRecover(c) PROVE NeverBack
  <2>1. Inside(c)
    BY <1>14, HolderIs DEF NothingToRecover
  <2>2. Visible' = Visible
    BY <1>14, <2>1 DEF NothingToRecover, AfterRecovery, Visible
  <2> QED
    BY <2>2, SameIsNotBack
<1>15. ASSUME NEW c \in Callers, RecoverIllegible(c) PROVE NeverBack
  <2>1. Inside(c)
    BY <1>15, HolderIs DEF RecoverIllegible
  <2>2. Visible' = Visible
    BY <1>15, <2>1 DEF RecoverIllegible, Visible
  <2> QED
    BY <2>2, SameIsNotBack
<1>16. ASSUME NEW c \in Callers, RecoverForward(c) PROVE NeverBack
  <2>1. Inside(c) /\ JournalLink
    BY <1>16, HolderIs DEF RecoverForward, Pending, Linked
  <2>2. Visible = backup[marker.cs] /\ Visible' = staging[marker.cs]
    BY <1>16, <2>1 DEF RecoverForward, Pending, Visible
  <2>3. Successor(Visible, Visible', marker.cs)
    BY <1>16, <2>1, <2>2 DEF RecoverForward, Pending, JournalLink
  <2> QED
    BY <1>0, <2>3, SuccessorIsAhead
<1>17. ASSUME NEW c \in Callers, RecoverBackward(c) PROVE NeverBack
  <2>1. Inside(c)
    BY <1>17, HolderIs DEF RecoverBackward, Pending
  <2>2. Visible' = Visible
    BY <1>17, <2>1 DEF RecoverBackward, Pending, Visible
  <2> QED
    BY <2>2, SameIsNotBack
<1>18. ASSUME NEW c \in Callers, RecoverKeep(c) PROVE NeverBack
  <2>1. Inside(c)
    BY <1>18, HolderIs DEF RecoverKeep, Pending
  <2>2. Visible' = Visible
    BY <1>18, <2>1 DEF RecoverKeep, Pending, Visible
  <2> QED
    BY <2>2, SameIsNotBack
<1>19. ASSUME NEW c \in Callers, Validate(c) PROVE NeverBack
  <2>1. Inside(c)
    BY <1>19, HolderIs DEF Validate
  <2>2. Visible' = Visible
    BY <1>19, <2>1 DEF Validate, Visible
  <2> QED
    BY <2>2, SameIsNotBack
<1>20. ASSUME NEW c \in Callers, ValidateFails(c) PROVE NeverBack
  <2>1. Inside(c)
    BY <1>20, HolderIs DEF ValidateFails
  <2>2. Visible' = Visible
    BY <1>20, <2>1 DEF ValidateFails, Visible
  <2> QED
    BY <2>2, SameIsNotBack
<1>21. ASSUME NEW c \in Callers, Undo(c) PROVE NeverBack
  <2>1. Inside(c)
    BY <1>21, HolderIs DEF Undo
  <2>2. Visible' = Visible
    BY <1>21, <2>1 DEF Undo, Visible
  <2> QED
    BY <2>2, SameIsNotBack
<1>22. ASSUME NEW c \in Callers, Restore(c) PROVE NeverBack
  <2>1. Inside(c)
    BY <1>22, HolderIs DEF Restore
  <2>2. Visible' = Visible
    BY <1>22, <2>1 DEF Restore, Successful, Visible
  <2> QED
    BY <2>2, SameIsNotBack
<1>23. ASSUME NEW c \in Callers, Clean(c) PROVE NeverBack
  <2>1. Inside(c)
    BY <1>23, HolderIs DEF Clean
  <2>2. Visible' = Visible
    BY <1>23, <2>1 DEF Clean, Visible
  <2> QED
    BY <2>2, SameIsNotBack
<1>24. ASSUME NEW c \in Callers, Unmark(c) PROVE NeverBack
  <2>1. Inside(c)
    BY <1>24, HolderIs DEF Unmark
  <2>2. Visible' = Visible
    BY <1>24, <2>1 DEF Unmark, AfterRecovery, Visible
  <2> QED
    BY <2>2, SameIsNotBack
<1>25. ASSUME NEW c \in Callers, Archive(c) PROVE NeverBack
  <2>1. Inside(c)
    BY <1>25, HolderIs DEF Archive
  <2>2. root # None /\ root \in Tree
    BY <1>25, <2>1 DEF Archive
  <2>3. /\ [root EXCEPT !.notes = @ \cup {c}] \in Tree
        /\ [root EXCEPT !.notes = @ \cup {c}].rev = root.rev
        /\ [root EXCEPT !.notes = @ \cup {c}].objs = root.objs
    BY <2>2 DEF Tree
  <2> QED
    BY <1>25, <2>2, <2>3 DEF Archive, Visible, NeverBack
<1>26. ASSUME NEW c \in Callers, Append(c) PROVE NeverBack
  <2>1. Inside(c)
    BY <1>26, HolderIs DEF Append
  <2>2. root # None /\ root \in Tree
    BY <1>26, <2>1 DEF Append
  <2>3. /\ [root EXCEPT !.notes = @ \cup {c}] \in Tree
        /\ [root EXCEPT !.notes = @ \cup {c}].rev = root.rev
        /\ [root EXCEPT !.notes = @ \cup {c}].objs = root.objs
    BY <2>2 DEF Tree
  <2> QED
    BY <1>26, <2>2, <2>3 DEF Append, Visible, NeverBack
<1>27. ASSUME NEW c \in Callers, Decide(c) PROVE NeverBack
  <2>1. Inside(c)
    BY <1>27, HolderIs DEF Decide
  <2>2. Visible' = Visible
    BY <1>27, <2>1 DEF Decide, Visible
  <2> QED
    BY <2>2, SameIsNotBack
<1>28. ASSUME NEW c \in Callers, Stage(c) PROVE NeverBack
  <2>1. Inside(c)
    BY <1>28, HolderIs DEF Stage
  <2>2. Visible' = Visible
    BY <1>28, <2>1 DEF Stage, Visible
  <2> QED
    BY <2>2, SameIsNotBack
<1>29. ASSUME NEW c \in Callers, Prepare(c) PROVE NeverBack
  <2>1. Inside(c)
    BY <1>29, HolderIs DEF Prepare
  <2>2. Visible' = Visible
    BY <1>29, <2>1 DEF Prepare, Visible
  <2> QED
    BY <2>2, SameIsNotBack
<1>30. ASSUME NEW c \in Callers, Mark(c) PROVE NeverBack
  <2>1. Inside(c)
    BY <1>30, HolderIs DEF Mark, WriteMarker
  <2>2. Visible' = Visible
    BY <1>30, <2>1 DEF Mark, WriteMarker, JournalOf, Visible
  <2> QED
    BY <2>2, SameIsNotBack
<1>31. ASSUME NEW c \in Callers, MoveAside(c) PROVE NeverBack
  <2>1. Inside(c)
    BY <1>31, HolderIs DEF MoveAside
  <2>2. Visible' = Visible
    BY <1>31, <2>1 DEF MoveAside, Visible
  <2> QED
    BY <2>2, SameIsNotBack
<1>32. ASSUME NEW c \in Callers, MarkSwitching(c) PROVE NeverBack
  <2>1. Inside(c)
    BY <1>32, HolderIs DEF MarkSwitching, WriteMarker
  <2>2. Visible' = Visible
    BY <1>32, <2>1 DEF MarkSwitching, WriteMarker, JournalOf, Visible
  <2> QED
    BY <2>2, SameIsNotBack
<1>33. ASSUME NEW c \in Callers, MoveIn(c) PROVE NeverBack
  <2>1. Inside(c) /\ JournalLink
    BY <1>33, HolderIs DEF MoveIn, Linked
  <2>2. Visible = backup[marker.cs] /\ Visible' = staging[marker.cs]
    BY <1>33, <2>1 DEF MoveIn, Visible
  <2>3. Successor(Visible, Visible', marker.cs)
    BY <1>33, <2>1, <2>2 DEF MoveIn, JournalLink
  <2> QED
    BY <1>0, <2>3, SuccessorIsAhead
<1>34. ASSUME NEW c \in Callers, MarkCommitted(c) PROVE NeverBack
  <2>1. Inside(c)
    BY <1>34, HolderIs DEF MarkCommitted, WriteMarker
  <2>2. Visible' = Visible
    BY <1>34, <2>1 DEF MarkCommitted, WriteMarker, JournalOf, Visible
  <2> QED
    BY <2>2, SameIsNotBack
<1>35. ASSUME NEW c \in Callers, DropBackup(c) PROVE NeverBack
  <2>1. Inside(c)
    BY <1>35, HolderIs DEF DropBackup
  <2>2. Visible' = Visible
    BY <1>35, <2>1 DEF DropBackup, Visible
  <2> QED
    BY <2>2, SameIsNotBack
<1>36. ASSUME NEW c \in Callers, DropMarker(c) PROVE NeverBack
  <2>1. Inside(c)
    BY <1>36, HolderIs DEF DropMarker
  <2>2. Visible' = Visible
    BY <1>36, <2>1 DEF DropMarker, Visible
  <2> QED
    BY <2>2, SameIsNotBack
<1>37. ASSUME NEW c \in Callers, Refresh(c) PROVE NeverBack
  <2>1. Inside(c)
    BY <1>37, HolderIs DEF Refresh
  <2>2. Visible' = Visible
    BY <1>37, <2>1 DEF Refresh, Visible
  <2> QED
    BY <2>2, SameIsNotBack
<1>38. ASSUME NEW c \in Callers, FailRelease(c) PROVE NeverBack
  <2>1. Inside(c)
    BY <1>38, HolderIs DEF FailRelease
  <2>2. Visible' = Visible
    BY <1>38, <2>1 DEF FailRelease, Visible
  <2> QED
    BY <2>2, SameIsNotBack
<1>39. ASSUME NEW c \in Callers, FailBeforeJournal(c) PROVE NeverBack
  <2>1. Inside(c)
    BY <1>39, HolderIs DEF FailBeforeJournal, BeforeJournal
  <2>2. Visible' = Visible
    BY <1>39, <2>1 DEF FailBeforeJournal, BeforeJournal, Visible
  <2> QED
    BY <2>2, SameIsNotBack
<1>40. ASSUME NEW c \in Callers, FailInPlace(c) PROVE NeverBack
  <2>1. Inside(c)
    BY <1>40, HolderIs DEF FailInPlace, WithJournal, InRecovery, Elsewhere
  <2>2. Visible' = Visible
    BY <1>40, <2>1 DEF FailInPlace, WithJournal, InRecovery, Elsewhere, Visible
  <2> QED
    BY <2>2, SameIsNotBack
<1>41. ASSUME NEW c \in Callers, FailHalfway(c) PROVE NeverBack
  <2>1. Inside(c)
    BY <1>41, HolderIs DEF FailHalfway, Torn, HalfRemoved, MarkerWrites, Pending
  <2>2. Visible' = Visible
    BY <1>41, <2>1 DEF FailHalfway, Torn, HalfRemoved, MarkerWrites, Pending, JournalOf, Journal, Hypothesis, Visible
  <2> QED
    BY <2>2, SameIsNotBack
<1>42. ASSUME NEW p \in Procs, Crash(p) PROVE NeverBack
  <2>1. ASSUME NEW c \in Callers, Torn(c) \/ HalfRemoved(c) PROVE Visible' = Visible
    <3>1. Inside(c)
      BY <2>1, HolderIs DEF Torn, HalfRemoved, MarkerWrites, Pending
    <3> QED
      BY <2>1, <3>1 DEF Torn, HalfRemoved, MarkerWrites, Pending, JournalOf, Journal, Hypothesis, Visible
  <2>2. CASE UNCHANGED disk
    BY <2>2, UntouchedIsNotBack
  <2> QED
    BY <1>42, <2>1, <2>2, SameIsNotBack DEF Crash
<1> QED
  BY <1>1, <1>2, <1>3, <1>4, <1>5, <1>6, <1>7, <1>8, <1>9, <1>10, <1>11, <1>12, <1>13, <1>14, <1>15, <1>16, <1>17, <1>18, <1>19, <1>20, <1>21, <1>22, <1>23, <1>24, <1>25, <1>26, <1>27, <1>28, <1>29, <1>30, <1>31, <1>32, <1>33, <1>34, <1>35, <1>36, <1>37, <1>38, <1>39, <1>40, <1>41, <1>42 DEF Next, Progress, Errors
-----------------------------------------------------------------------------
\* What a caller has read is not ahead of the tree, and what it planned at the revision that is
\* still the tree's was planned against the version that is still there.
Planned(c) ==
    /\ handle[c] # None => handle[c] <= Visible.rev
    /\ req[c] # None =>
          /\ req[c].base <= Visible.rev
          /\ Visible.rev = req[c].base /\ req[c].cs \in Changing => Visible.objs[TargetOf[req[c].cs]] = req[c].before
    /\ outcome[c] # "target_changed"

\* A step keeps what a caller has read and planned, forgets it, or refreshes it from the root.
KeepsPlan(c) ==
    /\ handle'[c] \in {handle[c], None} \/ (root # None /\ root' = root /\ handle'[c] = root.rev)
    /\ \/ req'[c] \in {req[c], None}
       \/ /\ root # None /\ root' = root /\ handle[c] # None /\ req'[c] \in Request /\ req'[c].base = handle[c]
          /\ req'[c].cs \in Changing => req'[c].before = root.objs[TargetOf[req'[c].cs]]
    /\ outcome'[c] # "target_changed"

LEMMA PlannedKeeps ==
  ASSUME TypeOK, NEW c \in Callers, Planned(c), KeepsPlan(c), NeverBack, VisibleTyped, VisibleTyped'
  PROVE  Planned(c)'
<1>1. Visible.rev \in Nat /\ Visible'.rev \in Nat /\ Visible'.rev >= Visible.rev
  BY DEF VisibleTyped, Tree, NeverBack
<1>2. req[c] # None => req[c].base \in Nat
  BY DEF TypeOK, Request
<1>3. handle[c] # None => handle[c] \in Nat
  BY DEF TypeOK
<1>4. handle'[c] # None => handle'[c] <= Visible'.rev
  <2>1. CASE handle'[c] \in {handle[c], None}
    BY <1>1, <1>3, <2>1 DEF Planned
  <2>2. CASE root # None /\ root' = root /\ handle'[c] = root.rev
    BY <1>1, <2>2 DEF Visible
  <2> QED
    BY <2>1, <2>2 DEF KeepsPlan
<1>5. CASE req'[c] \in {req[c], None}
  <2>1. ASSUME req'[c] # None
        PROVE  /\ req'[c].base <= Visible'.rev
               /\ Visible'.rev = req'[c].base /\ req'[c].cs \in Changing => Visible'.objs[TargetOf[req'[c].cs]] = req'[c].before
    <3>1. req'[c] = req[c] /\ req[c] # None /\ req[c].base <= Visible.rev
      BY <1>5, <2>1 DEF Planned
    <3>2. CASE Visible'.rev > Visible.rev
      BY <1>1, <1>2, <3>1, <3>2
    <3>3. CASE Visible'.rev = Visible.rev /\ Visible'.objs = Visible.objs
      BY <3>1, <3>3 DEF Planned
    <3> QED
      BY <3>2, <3>3 DEF NeverBack
  <2> QED
    BY <1>4, <2>1 DEF Planned, KeepsPlan
<1>6. CASE /\ root # None /\ root' = root /\ handle[c] # None /\ req'[c] \in Request /\ req'[c].base = handle[c]
           /\ req'[c].cs \in Changing => req'[c].before = root.objs[TargetOf[req'[c].cs]]
  <2>1. Visible' = root /\ Visible = root /\ handle[c] <= root.rev
    BY <1>6 DEF Visible, Planned
  <2> QED
    BY <1>4, <1>6, <2>1 DEF Planned, KeepsPlan
<1> QED
  BY <1>5, <1>6 DEF KeepsPlan

LEMMA CallersKeepStep ==
  Hypothesis /\ IInv /\ (\A c \in Callers : Planned(c)) /\ [Next]_vars => \A c \in Callers : KeepsPlan(c)
<1> SUFFICES ASSUME Hypothesis, IInv, \A c \in Callers : Planned(c), [Next]_vars
             PROVE  \A d \in Callers : KeepsPlan(d)
  OBVIOUS
<1> USE DEF Goto, Result, ReturnLocked, ReturnUnlocked, disk, local, faultCounts
<1>0. TypeOK /\ \A d \in Callers : outcome[d] # "target_changed"
  BY DEF IInv, Planned
<1>1. ASSUME NEW c \in Callers, ReadLog(c) PROVE \A d \in Callers : KeepsPlan(d)
  BY <1>0, <1>1 DEF ReadLog, KeepsPlan, TypeOK
<1>2. ASSUME NEW c \in Callers, ReadManifest(c) PROVE \A d \in Callers : KeepsPlan(d)
  BY <1>0, <1>2 DEF ReadManifest, KeepsPlan, TypeOK
<1>3. ASSUME NEW c \in Callers, ReadIndex(c) PROVE \A d \in Callers : KeepsPlan(d)
  BY <1>0, <1>3 DEF ReadIndex, KeepsPlan, TypeOK
<1>4. ASSUME NEW c \in Callers, AlreadyHeld(c) PROVE \A d \in Callers : KeepsPlan(d)
  BY <1>0, <1>4 DEF AlreadyHeld, KeepsPlan, TypeOK
<1>5. ASSUME NEW c \in Callers, FailUnlocked(c) PROVE \A d \in Callers : KeepsPlan(d)
  BY <1>0, <1>5 DEF FailUnlocked, KeepsPlan, TypeOK
<1>6. ASSUME NEW c \in Callers, Submit(c) PROVE \A d \in Callers : KeepsPlan(d)
  BY <1>0, <1>6 DEF Submit, KeepsPlan, TypeOK
<1>7. ASSUME NEW c \in Callers, Acquire(c) PROVE \A d \in Callers : KeepsPlan(d)
  BY <1>0, <1>7 DEF Acquire, KeepsPlan, TypeOK
<1>8. ASSUME NEW c \in Callers, Release(c) PROVE \A d \in Callers : KeepsPlan(d)
  BY <1>0, <1>8 DEF Release, KeepsPlan, TypeOK
<1>9. ASSUME NEW c \in Callers, NothingToRecover(c) PROVE \A d \in Callers : KeepsPlan(d)
  BY <1>0, <1>9 DEF NothingToRecover, AfterRecovery, KeepsPlan, TypeOK
<1>10. ASSUME NEW c \in Callers, RecoverIllegible(c) PROVE \A d \in Callers : KeepsPlan(d)
  BY <1>0, <1>10 DEF RecoverIllegible, KeepsPlan, TypeOK
<1>11. ASSUME NEW c \in Callers, RecoverForward(c) PROVE \A d \in Callers : KeepsPlan(d)
  BY <1>0, <1>11 DEF RecoverForward, KeepsPlan, TypeOK
<1>12. ASSUME NEW c \in Callers, RecoverBackward(c) PROVE \A d \in Callers : KeepsPlan(d)
  BY <1>0, <1>12 DEF RecoverBackward, KeepsPlan, TypeOK
<1>13. ASSUME NEW c \in Callers, RecoverKeep(c) PROVE \A d \in Callers : KeepsPlan(d)
  BY <1>0, <1>13 DEF RecoverKeep, KeepsPlan, TypeOK
<1>14. ASSUME NEW c \in Callers, Validate(c) PROVE \A d \in Callers : KeepsPlan(d)
  BY <1>0, <1>14 DEF Validate, KeepsPlan, TypeOK
<1>15. ASSUME NEW c \in Callers, ValidateFails(c) PROVE \A d \in Callers : KeepsPlan(d)
  BY <1>0, <1>15 DEF ValidateFails, KeepsPlan, TypeOK
<1>16. ASSUME NEW c \in Callers, Undo(c) PROVE \A d \in Callers : KeepsPlan(d)
  BY <1>0, <1>16 DEF Undo, KeepsPlan, TypeOK
<1>17. ASSUME NEW c \in Callers, Restore(c) PROVE \A d \in Callers : KeepsPlan(d)
  BY <1>0, <1>17 DEF Restore, KeepsPlan, TypeOK
<1>18. ASSUME NEW c \in Callers, Clean(c) PROVE \A d \in Callers : KeepsPlan(d)
  BY <1>0, <1>18 DEF Clean, KeepsPlan, TypeOK
<1>19. ASSUME NEW c \in Callers, Unmark(c) PROVE \A d \in Callers : KeepsPlan(d)
  BY <1>0, <1>19 DEF Unmark, AfterRecovery, KeepsPlan, TypeOK
<1>20. ASSUME NEW c \in Callers, Archive(c) PROVE \A d \in Callers : KeepsPlan(d)
  BY <1>0, <1>20 DEF Archive, KeepsPlan, TypeOK
<1>21. ASSUME NEW c \in Callers, Append(c) PROVE \A d \in Callers : KeepsPlan(d)
  BY <1>0, <1>21 DEF Append, KeepsPlan, TypeOK
<1>22. ASSUME NEW c \in Callers, Stage(c) PROVE \A d \in Callers : KeepsPlan(d)
  BY <1>0, <1>22 DEF Stage, KeepsPlan, TypeOK
<1>23. ASSUME NEW c \in Callers, Prepare(c) PROVE \A d \in Callers : KeepsPlan(d)
  BY <1>0, <1>23 DEF Prepare, KeepsPlan, TypeOK
<1>24. ASSUME NEW c \in Callers, Mark(c) PROVE \A d \in Callers : KeepsPlan(d)
  BY <1>0, <1>24 DEF Mark, WriteMarker, KeepsPlan, TypeOK
<1>25. ASSUME NEW c \in Callers, MoveAside(c) PROVE \A d \in Callers : KeepsPlan(d)
  BY <1>0, <1>25 DEF MoveAside, KeepsPlan, TypeOK
<1>26. ASSUME NEW c \in Callers, MarkSwitching(c) PROVE \A d \in Callers : KeepsPlan(d)
  BY <1>0, <1>26 DEF MarkSwitching, WriteMarker, KeepsPlan, TypeOK
<1>27. ASSUME NEW c \in Callers, MoveIn(c) PROVE \A d \in Callers : KeepsPlan(d)
  BY <1>0, <1>27 DEF MoveIn, KeepsPlan, TypeOK
<1>28. ASSUME NEW c \in Callers, MarkCommitted(c) PROVE \A d \in Callers : KeepsPlan(d)
  BY <1>0, <1>28 DEF MarkCommitted, WriteMarker, KeepsPlan, TypeOK
<1>29. ASSUME NEW c \in Callers, DropBackup(c) PROVE \A d \in Callers : KeepsPlan(d)
  BY <1>0, <1>29 DEF DropBackup, KeepsPlan, TypeOK
<1>30. ASSUME NEW c \in Callers, DropMarker(c) PROVE \A d \in Callers : KeepsPlan(d)
  BY <1>0, <1>30 DEF DropMarker, KeepsPlan, TypeOK
<1>31. ASSUME NEW c \in Callers, FailRelease(c) PROVE \A d \in Callers : KeepsPlan(d)
  BY <1>0, <1>31 DEF FailRelease, KeepsPlan, TypeOK
<1>32. ASSUME NEW c \in Callers, FailBeforeJournal(c) PROVE \A d \in Callers : KeepsPlan(d)
  BY <1>0, <1>32 DEF FailBeforeJournal, KeepsPlan, TypeOK
<1>33. ASSUME NEW c \in Callers, FailInPlace(c) PROVE \A d \in Callers : KeepsPlan(d)
  BY <1>0, <1>33 DEF FailInPlace, KeepsPlan, TypeOK
<1>34. ASSUME NEW c \in Callers, FailHalfway(c) PROVE \A d \in Callers : KeepsPlan(d)
  BY <1>0, <1>34 DEF FailHalfway, KeepsPlan, TypeOK
<1>35. ASSUME NEW c \in Callers, NEW kind \in AllKinds, Start(c, kind) PROVE \A d \in Callers : KeepsPlan(d)
  BY <1>0, <1>35 DEF Start, KeepsPlan, TypeOK
<1>36. CASE UNCHANGED vars
  BY <1>0, <1>36 DEF vars, KeepsPlan
<1>37. CASE ClearStaleLock
  BY <1>0, <1>37 DEF ClearStaleLock, KeepsPlan
<1>38. ASSUME NEW c \in Callers, Mount(c) PROVE \A d \in Callers : KeepsPlan(d)
  BY <1>0, <1>38 DEF Mount, KeepsPlan, TypeOK, RootReadable
<1>39. ASSUME NEW c \in Callers, NEW cs \in ChangeSets, Plan(c, cs) PROVE \A d \in Callers : KeepsPlan(d)
  <2>1. root # None /\ root \in Tree /\ root' = root /\ handle[c] # None /\ handle[c] \in Nat
    BY <1>0, <1>39 DEF Plan, TypeOK, RootReadable
  <2>2. IF cs \in Changing THEN req'[c].before = root.objs[TargetOf[cs]] ELSE req'[c].before = None
    BY <1>0, <1>39 DEF Plan, TypeOK
  <2>3. req'[c].cs = cs /\ req'[c].base = handle[c] /\ req'[c] \in Request
    BY <1>0, <1>39, <2>1, ConstantsAssumption DEF Plan, TypeOK, Request, Tree
  <2>4. UNCHANGED <<handle, outcome>> /\ \A d \in Callers \ {c} : req'[d] = req[d]
    BY <1>0, <1>39 DEF Plan, TypeOK
  <2> QED
    BY <1>0, <2>1, <2>2, <2>3, <2>4 DEF KeepsPlan
<1>40. ASSUME NEW c \in Callers, Decide(c) PROVE \A d \in Callers : KeepsPlan(d)
  <2>1. Inside(c)
    BY <1>40, HolderIs DEF Decide, Outside
  <2>2. req[c] \in Request /\ root # None /\ req[c] # None
    BY <1>40, <2>1, NoneAssumption DEF Inside, TreesOK, DiskOK, Whole, Decide, Writing
  <2>3. Verdict(c) # "target_changed"
    BY <2>2 DEF Verdict, ReplayVerdict, Planned, Visible
  <2>4. UNCHANGED <<handle, req>> /\ \A d \in Callers : outcome'[d] # "target_changed"
    BY <1>0, <1>40, <2>3 DEF Decide, TypeOK
  <2> QED
    BY <2>4 DEF KeepsPlan
<1>41. ASSUME NEW c \in Callers, Refresh(c) PROVE \A d \in Callers : KeepsPlan(d)
  <2>1. Inside(c)
    BY <1>41, HolderIs DEF Refresh, Outside
  <2>2. root # None
    BY <1>41, <2>1 DEF Inside, TreesOK, DiskOK, Whole, Refresh
  <2> QED
    BY <1>0, <1>41, <2>2 DEF Refresh, KeepsPlan, TypeOK
<1>42. ASSUME NEW p \in Procs, Crash(p) PROVE \A d \in Callers : KeepsPlan(d)
  BY <1>0, <1>42 DEF Crash, KeepsPlan
<1> QED
  BY <1>1, <1>2, <1>3, <1>4, <1>5, <1>6, <1>7, <1>8, <1>9, <1>10, <1>11, <1>12, <1>13, <1>14, <1>15, <1>16, <1>17, <1>18, <1>19, <1>20, <1>21, <1>22, <1>23, <1>24, <1>25, <1>26, <1>27, <1>28, <1>29, <1>30, <1>31, <1>32, <1>33, <1>34, <1>35, <1>36, <1>37, <1>38, <1>39, <1>40, <1>41, <1>42 DEF Next, Progress, Errors

\* No Writer that found the expected revision ever finds that its target has changed
\* (writer-v03, writer-v04: the second guard of the pair never fires).
THEOREM RevisionIsEnough ==
  Hypothesis /\ OneChangeSetPerRun /\ "readError" \notin Faults => (Spec => []RevisionGuardsTargets)
<1> SUFFICES ASSUME Hypothesis, OneChangeSetPerRun, "readError" \notin Faults PROVE Spec => []RevisionGuardsTargets
  OBVIOUS
<1> DEFINE AllPlanned == \A c \in Callers : Planned(c)
<1>1. Init => Linked /\ AllPlanned
  BY LinkInit DEF Init, Planned
<1>2. IInv /\ Linked /\ [Next]_vars => Linked'
  BY LinkStep
<1>3. IInv /\ IInv' /\ Linked /\ AllPlanned /\ [Next]_vars => AllPlanned'
  BY VisibleStep, VisibleIsTree, VisibleIsTreeNext, CallersKeepStep, PlannedKeeps DEF IInv
<1>4. AllPlanned => RevisionGuardsTargets
  BY DEF Planned, RevisionGuardsTargets
<1>5. Spec => []IInv
  BY Invariance
<1> QED
  BY <1>1, <1>2, <1>3, <1>4, <1>5, PTL DEF Spec
=============================================================================
