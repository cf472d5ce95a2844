------------------------ MODULE KnowledgeRootRefinement ------------------------
(***************************************************************************)
(* The directory, its journal and its recovery implement the store that    *)
(* KnowledgeBase promises, for every number of processes, callers,         *)
(* ChangeSets, crashes and errors.                                         *)
(*                                                                         *)
(* What is missing for it in KnowledgeRootProofs is a link between the     *)
(* trees: the tree that is about to take the place of another one is that  *)
(* one with one ChangeSet applied, whoever finishes the switch.  Then a    *)
(* step either leaves the live tree alone or replaces it by its successor. *)
(***************************************************************************)
EXTENDS KnowledgeRootProofs

\* Schema 0.3 looks for a ChangeSet, not for its run, in the log of the run: there the ChangeSets
\* of a run must be one and the same.
OneChangeSetPerRun ==
    Schema = "0.4" \/ \A x, y \in ChangeSets : RunOf[x] = RunOf[y] => x = y

Replacing(t, cs) == IF cs \in Changing THEN t.objs[TargetOf[cs]] ELSE None

\* The tree new is the tree old with the ChangeSet cs applied.
Successor(old, new, cs) ==
    /\ cs \in ChangeSets
    /\ old.log[RunOf[cs]] = None
    /\ new.rev = old.rev + Delta(cs)
    /\ new.log = [old.log EXCEPT ![RunOf[cs]] =
                    [cs |-> cs, rev |-> old.rev + Delta(cs), before |-> Replacing(old, cs)]]
    /\ new.objs = IF cs \in Changing THEN [old.objs EXCEPT ![TargetOf[cs]] = cs] ELSE old.objs
    /\ new.notes = old.notes

\* A Writer log is in the place of the run it is about.
Keyed(t) == t # None => \A r \in Runs : t.log[r] # None => RunOf[t.log[r].cs] = r

Logs == Keyed(root) /\ \A cs \in ChangeSets : Keyed(staging[cs]) /\ Keyed(backup[cs])

Plans == \A c \in Callers : req[c] # None /\ req[c].cs \notin Changing => req[c].before = None

\* An interrupted switch can only be finished by what it was begun for.
JournalLink ==
    marker # None /\ root = None /\ staging[marker.cs] # None =>
        Successor(backup[marker.cs], staging[marker.cs], marker.cs)

Receipt(t, cs) == t.log[RunOf[cs]] # None /\ t.log[RunOf[cs]].cs = cs

HolderLink(c) ==
    /\ pc[c] \in {"stage", "prepare"} =>
         root.log[RunOf[req[c].cs]] = None /\ req[c].before = Replacing(root, req[c].cs)
    /\ pc[c] \in {"mark", "moveAside"} => Successor(root, staging[req[c].cs], req[c].cs)
    /\ pc[c] \in {"validate", "undo"} => Successor(backup[marker.cs], root, marker.cs)
    /\ pc[c] \in {"switched", "dropBackup", "dropMarker", "refresh"} => Receipt(root, req[c].cs)
    /\ pc[c] = "release" /\ outcome[c] \in Successful => Receipt(root, req[c].cs)

Linked == Logs /\ Plans /\ JournalLink /\ \A c \in Callers : lock = c => HolderLink(c)

-----------------------------------------------------------------------------
LEMMA AppliedSucceeds ==
  ASSUME NEW t \in Tree, NEW q \in Request, t.log[RunOf[q.cs]] = None,
         q.before = Replacing(t, q.cs), Keyed(t)
  PROVE  Successor(t, Applied(t, q), q.cs) /\ Keyed(Applied(t, q)) /\ Applied(t, q) \in Tree
<1> DEFINE u == Applied(t, q)
           entry == [cs |-> q.cs, rev |-> t.rev + Delta(q.cs), before |-> q.before]
<1>1. u \in Tree /\ q.cs \in ChangeSets /\ RunOf[q.cs] \in Runs /\ t.log \in [Runs -> LogEntry \cup {None}]
  BY AppliedIsTree, ConstantsAssumption DEF Request, Tree
<1>2. /\ u.rev = t.rev + Delta(q.cs) /\ u.notes = t.notes
      /\ u.log = [t.log EXCEPT ![RunOf[q.cs]] = entry]
      /\ u.objs = IF q.cs \in Changing THEN [t.objs EXCEPT ![TargetOf[q.cs]] = q.cs] ELSE t.objs
  BY DEF Applied, Tree
<1>3. entry.cs = q.cs
  OBVIOUS
<1> HIDE DEF u, entry
<1>4. \A r \in Runs : u.log[r] = IF r = RunOf[q.cs] THEN entry ELSE t.log[r]
  BY <1>1, <1>2
<1>5. Keyed(u)
  BY <1>3, <1>4, NoneAssumption DEF Keyed
<1>6. entry = [cs |-> q.cs, rev |-> t.rev + Delta(q.cs), before |-> Replacing(t, q.cs)]
  BY DEF entry
<1>7. Successor(t, u, q.cs)
  BY <1>1, <1>2, <1>6 DEF Successor
<1> QED
  BY <1>1, <1>5, <1>7 DEF u

LEMMA SuccessorHasReceipt ==
  ASSUME NEW old \in Tree, NEW new, NEW cs, Successor(old, new, cs)
  PROVE  Receipt(new, cs)
<1> DEFINE entry == [cs |-> cs, rev |-> old.rev + Delta(cs), before |-> Replacing(old, cs)]
<1>1. cs \in ChangeSets /\ RunOf[cs] \in Runs /\ old.log \in [Runs -> LogEntry \cup {None}]
      /\ old.rev \in Nat /\ old.objs \in [Objects -> ChangeSets \cup {None}] /\ Delta(cs) \in Nat
      /\ TargetOf[cs] \in Objects
  BY ConstantsAssumption DEF Successor, Tree, Delta
<1>2. entry \in LogEntry
  BY <1>1 DEF LogEntry, Replacing
<1>3. new.log[RunOf[cs]] = entry
  BY <1>1 DEF Successor
<1> QED
  BY <1>2, <1>3, NoneAssumption DEF Receipt

LEMMA FreshAndPartialAreKeyed == Keyed(Fresh) /\ Keyed(Partial) /\ Keyed(None)
BY DEF Keyed, Fresh, Partial

LEMMA LinkInit == Init => Linked
BY FreshAndPartialAreKeyed, ConstantsAssumption DEF Init, Linked, Logs, Plans, JournalLink

\* A step that leaves the directory alone, of a caller that does not hold the lock ...
LEMMA BystanderLinks ==
  ASSUME Linked, NEW c \in Callers, lock # c, UNCHANGED <<disk, lock>>, Plans',
         \A d \in Callers \ {c} : pc'[d] = pc[d] /\ req'[d] = req[d] /\ outcome'[d] = outcome[d]
  PROVE  Linked'
<1>1. Logs' /\ JournalLink'
  BY DEF Linked, Logs, JournalLink, disk
<1>2. ASSUME NEW d \in Callers, lock' = d PROVE HolderLink(d)'
  <2>1. d # c /\ HolderLink(d) /\ pc'[d] = pc[d] /\ req'[d] = req[d] /\ outcome'[d] = outcome[d]
        /\ UNCHANGED <<root, staging, backup, marker>>
    BY <1>2 DEF Linked, disk
  <2> QED
    BY <2>1 DEF HolderLink
<1> QED
  BY <1>1, <1>2 DEF Linked

\* ... or of the one that does.
LEMMA QuietHolderLinks ==
  ASSUME Linked, NEW c \in Callers, lock = c, UNCHANGED <<disk, lock, req>>, HolderLink(c)'
  PROVE  Linked'
BY DEF Linked, Logs, Plans, JournalLink, disk

LEMMA HolderLinks ==
  ASSUME Linked, NEW c \in Callers, lock = c, UNCHANGED <<lock, req>>,
         Logs', JournalLink', HolderLink(c)'
  PROVE  Linked'
BY DEF Linked, Plans

\* The Writer stages only a ChangeSet that its run has not committed, planned against the version
\* that is there, and reports a replay only of what it finds.
LEMMA DecideLinks ==
  ASSUME OneChangeSetPerRun, Plans, NEW c \in Callers, Decide(c), Inside(c), Keyed(root)
  PROVE  HolderLink(c)'
<1> DEFINE q == req[c]
<1>1. /\ q \in Request /\ q.cs \in ChangeSets /\ RunOf[q.cs] \in Runs /\ root \in Tree
      /\ root.log[RunOf[q.cs]] \in LogEntry \cup {None} /\ UNCHANGED <<root, req>>
      /\ q.cs \notin Changing => q.before = None
  BY ConstantsAssumption, NoneAssumption
  DEF Inside, TreesOK, DiskOK, Whole, Decide, Writing, Request, Tree, TypeOK, disk, local, Plans
<1>2. CASE Verdict(c) = "apply"
  <2>1. pc'[c] = "stage"
    BY <1>2 DEF Decide, Goto, Inside, TypeOK
  <2>2. ~HasPrior(q) /\ (q.cs \in Changing => root.objs[TargetOf[q.cs]] = q.before)
    BY <1>2 DEF Verdict, ReplayVerdict
  <2>3. root.log[RunOf[q.cs]] = None
    BY <1>1, <2>2, NoneAssumption DEF HasPrior, OneChangeSetPerRun, Keyed, LogEntry
  <2>4. q.before = Replacing(root, q.cs)
    BY <1>1, <2>2 DEF Replacing
  <2> QED
    BY <1>1, <2>1, <2>3, <2>4 DEF HolderLink
<1>3. CASE Verdict(c) # "apply"
  <2>1. pc'[c] = "release" /\ outcome'[c] = Verdict(c)
    BY <1>3 DEF Decide, ReturnLocked, Result, Goto, Inside, TypeOK
  <2>2. Verdict(c) \in Successful => Receipt(root, q.cs)
    BY <1>1 DEF Verdict, ReplayVerdict, HasPrior, Successful, Receipt
  <2> QED
    BY <1>1, <2>1, <2>2 DEF HolderLink
<1> QED
  BY <1>2, <1>3

LEMMA LinkStep ==
  Hypothesis /\ OneChangeSetPerRun /\ IInv /\ Linked /\ [Next]_vars => Linked'
<1> SUFFICES ASSUME Hypothesis, OneChangeSetPerRun, IInv, Linked, [Next]_vars PROVE Linked'
  OBVIOUS
<1> USE ConstantsAssumption, NoneAssumption
    DEF Goto, Result, ReturnLocked, ReturnUnlocked, disk, local, faultCounts, Outside
<1>0. TypeOK /\ Ownership /\ Plans
  BY DEF IInv, Linked
<1>1. ASSUME NEW c \in Callers, ReadLog(c) PROVE Linked'
  BY <1>0, <1>1, BystanderLinks DEF ReadLog, TypeOK, Ownership, Plans
<1>2. ASSUME NEW c \in Callers, ReadManifest(c) PROVE Linked'
  BY <1>0, <1>2, BystanderLinks DEF ReadManifest, TypeOK, Ownership, Plans
<1>3. ASSUME NEW c \in Callers, ReadIndex(c) PROVE Linked'
  BY <1>0, <1>3, BystanderLinks DEF ReadIndex, TypeOK, Ownership, Plans
<1>4. ASSUME NEW c \in Callers, AlreadyHeld(c) PROVE Linked'
  BY <1>0, <1>4, BystanderLinks DEF AlreadyHeld, TypeOK, Ownership, Plans
<1>5. ASSUME NEW c \in Callers, FailUnlocked(c) PROVE Linked'
  BY <1>0, <1>5, BystanderLinks DEF FailUnlocked, TypeOK, Ownership, Plans
<1>6. ASSUME NEW c \in Callers, Mount(c) PROVE Linked'
  BY <1>0, <1>6, BystanderLinks DEF Mount, TypeOK, Ownership, Plans
<1>7. ASSUME NEW c \in Callers, Submit(c) PROVE Linked'
  BY <1>0, <1>7, BystanderLinks DEF Submit, TypeOK, Ownership, Plans
<1>8. ASSUME NEW c \in Callers, NEW cs \in ChangeSets, Plan(c, cs) PROVE Linked'
  BY <1>0, <1>8, BystanderLinks DEF Plan, TypeOK, Ownership, Plans
<1>9. ASSUME NEW c \in Callers, NEW kind \in AllKinds, Start(c, kind) PROVE Linked'
  BY <1>0, <1>9, BystanderLinks DEF Start, TypeOK, Ownership, Plans
<1>10. CASE UNCHANGED vars
  BY <1>10 DEF vars, Linked, Logs, Plans, JournalLink, HolderLink
<1>11. CASE ClearStaleLock
  BY <1>11 DEF ClearStaleLock, Linked, Logs, Plans, JournalLink
<1>12. ASSUME NEW c \in Callers, Release(c) PROVE Linked'
  BY <1>0, <1>12 DEF Release, TypeOK, Linked, Logs, Plans, JournalLink
<1>13. ASSUME NEW c \in Callers, FailRelease(c) PROVE Linked'
  BY <1>0, <1>13 DEF FailRelease, TypeOK, Linked, Logs, Plans, JournalLink
<1>14. ASSUME NEW c \in Callers, Acquire(c) PROVE Linked'
  <2>1. HolderLink(c)'
    BY <1>0, <1>14 DEF Acquire, TypeOK, HolderLink
  <2> QED
    BY <1>0, <1>14, <2>1 DEF Acquire, Linked, Logs, Plans, JournalLink
<1> USE DEF TypeOK, JournalOK, TreesOK, Preparing, Switching, Recovering, Inside, Writing, DiskOK, Whole,
            Ready, NoBackup
<1>15. ASSUME NEW c \in Callers, NothingToRecover(c) PROVE Linked'
  <2>1. Inside(c) /\ HolderLink(c)
    BY <1>15, HolderIs DEF NothingToRecover, Linked
  <2>2. HolderLink(c)'
    BY <1>15, <2>1 DEF HolderLink, NothingToRecover, AfterRecovery
  <2> QED
    BY <1>15, <2>1, <2>2, QuietHolderLinks DEF NothingToRecover
<1>16. ASSUME NEW c \in Callers, RecoverIllegible(c) PROVE Linked'
  <2>1. Inside(c) /\ HolderLink(c)
    BY <1>16, HolderIs DEF RecoverIllegible, Linked
  <2>2. HolderLink(c)'
    BY <1>16, <2>1 DEF HolderLink, RecoverIllegible, Successful
  <2> QED
    BY <1>16, <2>1, <2>2, QuietHolderLinks DEF RecoverIllegible
<1>17. ASSUME NEW c \in Callers, Validate(c) PROVE Linked'
  <2>1. Inside(c) /\ HolderLink(c)
    BY <1>17, HolderIs DEF Validate, Linked
  <2>2. HolderLink(c)'
    BY <1>17, <2>1 DEF HolderLink, Validate
  <2> QED
    BY <1>17, <2>1, <2>2, QuietHolderLinks DEF Validate
<1>18. ASSUME NEW c \in Callers, ValidateFails(c) PROVE Linked'
  <2>1. Inside(c) /\ HolderLink(c)
    BY <1>18, HolderIs DEF ValidateFails, Linked
  <2>2. HolderLink(c)'
    BY <1>18, <2>1 DEF HolderLink, ValidateFails
  <2> QED
    BY <1>18, <2>1, <2>2, QuietHolderLinks DEF ValidateFails
<1>19. ASSUME NEW c \in Callers, FailInPlace(c) PROVE Linked'
  <2>1. Inside(c) /\ HolderLink(c)
    BY <1>19, HolderIs DEF FailInPlace, WithJournal, InRecovery, Elsewhere, Linked
  <2>2. HolderLink(c)'
    BY <1>19, <2>1 DEF HolderLink, FailInPlace, WithJournal, InRecovery, Elsewhere, Successful
  <2> QED
    BY <1>19, <2>1, <2>2, QuietHolderLinks DEF FailInPlace, WithJournal, InRecovery, Elsewhere
<1>20. ASSUME NEW c \in Callers, Refresh(c) PROVE Linked'
  <2>1. Inside(c) /\ HolderLink(c)
    BY <1>20, HolderIs DEF Refresh, Linked
  <2>2. HolderLink(c)'
    BY <1>20, <2>1 DEF HolderLink, Refresh, Successful
  <2> QED
    BY <1>20, <2>1, <2>2, QuietHolderLinks DEF Refresh
<1>21. ASSUME NEW c \in Callers, Decide(c) PROVE Linked'
  <2>1. Inside(c) /\ HolderLink(c) /\ Keyed(root)
    BY <1>21, HolderIs DEF Decide, Linked, Logs
  <2>4. HolderLink(c)'
    BY <1>0, <1>21, <2>1, DecideLinks
  <2> QED
    BY <1>21, <2>1, <2>4, QuietHolderLinks DEF Decide
<1>22. ASSUME NEW c \in Callers, RecoverForward(c) PROVE Linked'
  <2>1. Inside(c) /\ HolderLink(c) /\ Logs /\ JournalLink
    BY <1>22, HolderIs DEF RecoverForward, Pending, Linked
  <2>2. Logs' /\ JournalLink'
    BY <1>22, <2>1 DEF Logs, JournalLink, RecoverForward, Pending, Journal
  <2>4. Successor(backup[marker.cs], staging[marker.cs], marker.cs)
    BY <1>22, <2>1 DEF JournalLink, RecoverForward, Pending
  <2>3. HolderLink(c)'
    BY <1>22, <2>1, <2>4 DEF HolderLink, RecoverForward, Pending
  <2> QED
    BY <1>22, <2>1, <2>2, <2>3, HolderLinks DEF RecoverForward, Pending
<1>23. ASSUME NEW c \in Callers, RecoverBackward(c) PROVE Linked'
  <2>1. Inside(c) /\ HolderLink(c) /\ Logs /\ JournalLink
    BY <1>23, HolderIs DEF RecoverBackward, Pending, Linked
  <2>2. Logs' /\ JournalLink'
    BY <1>23, <2>1 DEF Logs, JournalLink, RecoverBackward, Pending, Journal
  <2>3. HolderLink(c)'
    BY <1>23, <2>1 DEF HolderLink, RecoverBackward, Pending, Journal
  <2> QED
    BY <1>23, <2>1, <2>2, <2>3, HolderLinks DEF RecoverBackward, Pending
<1>24. ASSUME NEW c \in Callers, RecoverKeep(c) PROVE Linked'
  <2>1. Inside(c) /\ HolderLink(c) /\ Logs /\ JournalLink
    BY <1>24, HolderIs DEF RecoverKeep, Pending, Linked
  <2>2. Logs' /\ JournalLink'
    BY <1>24, <2>1, FreshAndPartialAreKeyed DEF Logs, JournalLink, RecoverKeep, Pending, Journal
  <2>3. HolderLink(c)'
    BY <1>24, <2>1 DEF HolderLink, RecoverKeep, Pending, Journal
  <2> QED
    BY <1>24, <2>1, <2>2, <2>3, HolderLinks DEF RecoverKeep, Pending
<1>25. ASSUME NEW c \in Callers, Undo(c) PROVE Linked'
  <2>1. Inside(c) /\ HolderLink(c) /\ Logs /\ JournalLink
    BY <1>25, HolderIs DEF Undo, Linked
  <2>2. Logs' /\ JournalLink'
    BY <1>25, <2>1 DEF Logs, JournalLink, Undo
  <2>3. HolderLink(c)'
    BY <1>25, <2>1 DEF HolderLink, Undo
  <2> QED
    BY <1>25, <2>1, <2>2, <2>3, HolderLinks DEF Undo
<1>26. ASSUME NEW c \in Callers, Restore(c) PROVE Linked'
  <2>1. Inside(c) /\ HolderLink(c) /\ Logs /\ JournalLink
    BY <1>26, HolderIs DEF Restore, Linked
  <2>2. Logs' /\ JournalLink'
    BY <1>26, <2>1 DEF Logs, JournalLink, Restore, Journal, Successful
  <2>3. HolderLink(c)'
    BY <1>26, <2>1 DEF HolderLink, Restore, Journal, Successful
  <2> QED
    BY <1>26, <2>1, <2>2, <2>3, HolderLinks DEF Restore
<1>27. ASSUME NEW c \in Callers, Clean(c) PROVE Linked'
  <2>1. Inside(c) /\ HolderLink(c) /\ Logs /\ JournalLink
    BY <1>27, HolderIs DEF Clean, Linked
  <2>2. Logs' /\ JournalLink'
    BY <1>27, <2>1, FreshAndPartialAreKeyed DEF Logs, JournalLink, Clean, Journal
  <2>3. HolderLink(c)'
    BY <1>27, <2>1 DEF HolderLink, Clean, Journal
  <2> QED
    BY <1>27, <2>1, <2>2, <2>3, HolderLinks DEF Clean
<1>28. ASSUME NEW c \in Callers, Unmark(c) PROVE Linked'
  <2>1. Inside(c) /\ HolderLink(c) /\ Logs /\ JournalLink
    BY <1>28, HolderIs DEF Unmark, Linked
  <2>2. Logs' /\ JournalLink'
    BY <1>28, <2>1 DEF Logs, JournalLink, Unmark, AfterRecovery
  <2>3. HolderLink(c)'
    BY <1>28, <2>1 DEF HolderLink, Unmark, AfterRecovery
  <2> QED
    BY <1>28, <2>1, <2>2, <2>3, HolderLinks DEF Unmark
<1>29. ASSUME NEW c \in Callers, Archive(c) PROVE Linked'
  <2>1. Inside(c) /\ HolderLink(c) /\ Logs /\ JournalLink
    BY <1>29, HolderIs DEF Archive, Linked
  <2>5. root # None /\ root \in Tree /\ Keyed(root) /\ pc[c] = "archive"
    BY <1>29, <2>1 DEF Logs, Archive
  <2>6. [root EXCEPT !.notes = @ \cup {c}] \in Tree /\ [root EXCEPT !.notes = @ \cup {c}].log = root.log
    BY <2>5 DEF Tree
  <2>7. Keyed([root EXCEPT !.notes = @ \cup {c}])
    BY <2>5, <2>6 DEF Keyed
  <2>4. root' # None /\ Keyed(root')
    BY <1>29, <2>5, <2>6, <2>7 DEF Archive
  <2>2. Logs' /\ JournalLink'
    BY <1>29, <2>1, <2>4 DEF Logs, JournalLink, Archive
  <2>3. HolderLink(c)'
    BY <1>29, <2>1 DEF HolderLink, Archive, Successful
  <2> QED
    BY <1>29, <2>1, <2>2, <2>3, HolderLinks DEF Archive
<1>30. ASSUME NEW c \in Callers, Append(c) PROVE Linked'
  <2>1. Inside(c) /\ HolderLink(c) /\ Logs /\ JournalLink
    BY <1>30, HolderIs DEF Append, Linked
  <2>5. root # None /\ root \in Tree /\ Keyed(root) /\ pc[c] = "append"
    BY <1>30, <2>1 DEF Logs, Append
  <2>6. [root EXCEPT !.notes = @ \cup {c}] \in Tree /\ [root EXCEPT !.notes = @ \cup {c}].log = root.log
    BY <2>5 DEF Tree
  <2>7. Keyed([root EXCEPT !.notes = @ \cup {c}])
    BY <2>5, <2>6 DEF Keyed
  <2>4. root' # None /\ Keyed(root')
    BY <1>30, <2>5, <2>6, <2>7 DEF Append
  <2>2. Logs' /\ JournalLink'
    BY <1>30, <2>1, <2>4 DEF Logs, JournalLink, Append
  <2>3. HolderLink(c)'
    BY <1>30, <2>1 DEF HolderLink, Append, Successful
  <2> QED
    BY <1>30, <2>1, <2>2, <2>3, HolderLinks DEF Append
<1>31. ASSUME NEW c \in Callers, Stage(c) PROVE Linked'
  <2>1. Inside(c) /\ HolderLink(c) /\ Logs /\ JournalLink
    BY <1>31, HolderIs DEF Stage, Linked
  <2>2. Logs' /\ JournalLink'
    BY <1>31, <2>1, FreshAndPartialAreKeyed DEF Logs, JournalLink, Stage
  <2>3. HolderLink(c)'
    BY <1>31, <2>1, FreshAndPartialAreKeyed DEF HolderLink, Stage
  <2> QED
    BY <1>31, <2>1, <2>2, <2>3, HolderLinks DEF Stage
<1>32. ASSUME NEW c \in Callers, Prepare(c) PROVE Linked'
  <2>1. Inside(c) /\ HolderLink(c) /\ Logs /\ JournalLink
    BY <1>32, HolderIs DEF Prepare, Linked
  <2>4. LET t == Applied(root, req[c]) IN Successor(root, t, req[c].cs) /\ Keyed(t) /\ t \in Tree
    BY <1>32, <2>1, AppliedSucceeds DEF Prepare, HolderLink, Logs
  <2>2. Logs' /\ JournalLink'
    BY <1>32, <2>1, <2>4 DEF Logs, JournalLink, Prepare
  <2>3. HolderLink(c)'
    BY <1>32, <2>1, <2>4 DEF HolderLink, Prepare, Request
  <2> QED
    BY <1>32, <2>1, <2>2, <2>3, HolderLinks DEF Prepare
<1>33. ASSUME NEW c \in Callers, Mark(c) PROVE Linked'
  <2>1. Inside(c) /\ HolderLink(c) /\ Logs /\ JournalLink
    BY <1>33, HolderIs DEF Mark, WriteMarker, Linked
  <2>2. Logs' /\ JournalLink'
    BY <1>33, <2>1 DEF Logs, JournalLink, Mark, WriteMarker, JournalOf
  <2>3. HolderLink(c)'
    BY <1>33, <2>1 DEF HolderLink, Mark, WriteMarker, JournalOf
  <2> QED
    BY <1>33, <2>1, <2>2, <2>3, HolderLinks DEF Mark, WriteMarker
<1>34. ASSUME NEW c \in Callers, MoveAside(c) PROVE Linked'
  <2>1. Inside(c) /\ HolderLink(c) /\ Logs /\ JournalLink
    BY <1>34, HolderIs DEF MoveAside, Linked
  <2>4. Successor(root, staging[req[c].cs], req[c].cs) /\ marker.cs = req[c].cs /\ req[c].cs \in ChangeSets
    BY <1>34, <2>1 DEF HolderLink, MoveAside, Request
  <2>5. Logs'
    <3>1. /\ root' = None /\ staging' = staging
          /\ \A cs \in ChangeSets : backup'[cs] = backup[cs] \/ backup'[cs] = root
      BY <1>34, <2>1 DEF MoveAside
    <3> QED
      BY <2>1, <3>1 DEF Logs, Keyed
  <2>6. JournalLink'
    BY <1>34, <2>1, <2>4 DEF JournalLink, MoveAside
  <2>2. Logs' /\ JournalLink'
    BY <2>5, <2>6
  <2>3. HolderLink(c)'
    BY <1>34, <2>1 DEF HolderLink, MoveAside
  <2> QED
    BY <1>34, <2>1, <2>2, <2>3, HolderLinks DEF MoveAside
<1>35. ASSUME NEW c \in Callers, MarkSwitching(c) PROVE Linked'
  <2>1. Inside(c) /\ HolderLink(c) /\ Logs /\ JournalLink
    BY <1>35, HolderIs DEF MarkSwitching, WriteMarker, Linked
  <2>2. Logs' /\ JournalLink'
    BY <1>35, <2>1 DEF Logs, JournalLink, MarkSwitching, WriteMarker, JournalOf, JournalLink
  <2>3. HolderLink(c)'
    BY <1>35, <2>1 DEF HolderLink, MarkSwitching, WriteMarker, JournalOf, JournalLink
  <2> QED
    BY <1>35, <2>1, <2>2, <2>3, HolderLinks DEF MarkSwitching, WriteMarker
<1>36. ASSUME NEW c \in Callers, MoveIn(c) PROVE Linked'
  <2>1. Inside(c) /\ HolderLink(c) /\ Logs /\ JournalLink
    BY <1>36, HolderIs DEF MoveIn, Linked
  <2>4. /\ Successor(backup[marker.cs], staging[marker.cs], marker.cs) /\ backup[marker.cs] \in Tree
        /\ marker.cs = req[c].cs /\ req[c].cs \in ChangeSets /\ staging[marker.cs] # None
    BY <1>36, <2>1 DEF JournalLink, MoveIn, Request
  <2>5. Receipt(staging[req[c].cs], req[c].cs)
    BY <2>4, SuccessorHasReceipt
  <2>2. Logs' /\ JournalLink'
    BY <1>36, <2>1, <2>4, FreshAndPartialAreKeyed DEF Logs, JournalLink, MoveIn
  <2>3. HolderLink(c)'
    BY <1>36, <2>1, <2>4, <2>5 DEF HolderLink, MoveIn
  <2> QED
    BY <1>36, <2>1, <2>2, <2>3, HolderLinks DEF MoveIn
<1>37. ASSUME NEW c \in Callers, MarkCommitted(c) PROVE Linked'
  <2>1. Inside(c) /\ HolderLink(c) /\ Logs /\ JournalLink
    BY <1>37, HolderIs DEF MarkCommitted, WriteMarker, Linked
  <2>2. Logs' /\ JournalLink'
    BY <1>37, <2>1 DEF Logs, JournalLink, MarkCommitted, WriteMarker, JournalOf
  <2>3. HolderLink(c)'
    BY <1>37, <2>1 DEF HolderLink, MarkCommitted, WriteMarker, JournalOf
  <2> QED
    BY <1>37, <2>1, <2>2, <2>3, HolderLinks DEF MarkCommitted, WriteMarker
<1>38. ASSUME NEW c \in Callers, DropBackup(c) PROVE Linked'
  <2>1. Inside(c) /\ HolderLink(c) /\ Logs /\ JournalLink
    BY <1>38, HolderIs DEF DropBackup, Linked
  <2>2. Logs' /\ JournalLink'
    BY <1>38, <2>1, FreshAndPartialAreKeyed DEF Logs, JournalLink, DropBackup
  <2>3. HolderLink(c)'
    BY <1>38, <2>1, FreshAndPartialAreKeyed DEF HolderLink, DropBackup
  <2> QED
    BY <1>38, <2>1, <2>2, <2>3, HolderLinks DEF DropBackup
<1>39. ASSUME NEW c \in Callers, DropMarker(c) PROVE Linked'
  <2>1. Inside(c) /\ HolderLink(c) /\ Logs /\ JournalLink
    BY <1>39, HolderIs DEF DropMarker, Linked
  <2>2. Logs' /\ JournalLink'
    BY <1>39, <2>1 DEF Logs, JournalLink, DropMarker
  <2>3. HolderLink(c)'
    BY <1>39, <2>1 DEF HolderLink, DropMarker
  <2> QED
    BY <1>39, <2>1, <2>2, <2>3, HolderLinks DEF DropMarker
<1>40. ASSUME NEW c \in Callers, FailBeforeJournal(c) PROVE Linked'
  <2>1. Inside(c) /\ HolderLink(c) /\ Logs /\ JournalLink
    BY <1>40, HolderIs DEF FailBeforeJournal, BeforeJournal, Linked
  <2>2. Logs' /\ JournalLink'
    BY <1>40, <2>1, FreshAndPartialAreKeyed DEF Logs, JournalLink, FailBeforeJournal, BeforeJournal, Successful
  <2>3. HolderLink(c)'
    BY <1>40, <2>1, FreshAndPartialAreKeyed DEF HolderLink, FailBeforeJournal, BeforeJournal, Successful
  <2> QED
    BY <1>40, <2>1, <2>2, <2>3, HolderLinks DEF FailBeforeJournal, BeforeJournal
<1>41. ASSUME NEW c \in Callers, FailHalfway(c) PROVE Linked'
  <2>1. Inside(c) /\ HolderLink(c) /\ Logs /\ JournalLink
    BY <1>41, HolderIs DEF FailHalfway, Torn, HalfRemoved, MarkerWrites, Pending, Linked
  <2>2. Logs' /\ JournalLink'
    BY <1>41, <2>1, FreshAndPartialAreKeyed DEF Logs, JournalLink, FailHalfway, Torn, HalfRemoved, MarkerWrites, Pending, Successful, JournalOf, Journal, Hypothesis
  <2>3. HolderLink(c)'
    BY <1>41, <2>1, FreshAndPartialAreKeyed DEF HolderLink, FailHalfway, Torn, HalfRemoved, MarkerWrites, Pending, Successful, JournalOf, Journal, Hypothesis
  <2> QED
    BY <1>41, <2>1, <2>2, <2>3, HolderLinks DEF FailHalfway, Torn, HalfRemoved, MarkerWrites, Pending
<1>42. ASSUME NEW p \in Procs, Crash(p) PROVE Linked'
  <2>1. ASSUME NEW c \in Callers, lock = c, Torn(c) \/ HalfRemoved(c) PROVE Logs' /\ JournalLink'
    <3>1. Inside(c) /\ HolderLink(c) /\ Logs /\ JournalLink
      BY <2>1, HolderIs DEF Torn, HalfRemoved, MarkerWrites, Pending, Linked
    <3> QED
      BY <2>1, <3>1, FreshAndPartialAreKeyed
      DEF Logs, JournalLink, Torn, HalfRemoved, MarkerWrites, Pending, JournalOf, Journal, Hypothesis
  <2>3. Logs' /\ JournalLink'
    <3>1. CASE UNCHANGED disk
      BY <3>1 DEF Linked, Logs, JournalLink
    <3> QED
      BY <1>42, <2>1, <3>1 DEF Crash
  <2>4. Plans'
    BY <1>0, <1>42 DEF Crash, Plans
  <2>5. ASSUME NEW d \in Callers, lock' = d PROVE HolderLink(d)'
    <3>1. lock = d /\ ProcOf[d] # p /\ UNCHANGED <<disk, work>> /\ pc'[d] = pc[d] /\ req'[d] = req[d] /\ outcome'[d] = outcome[d]
      BY <1>0, <1>42, <2>5 DEF Crash
    <3>2. HolderLink(d)
      BY <3>1 DEF Linked
    <3> QED
      BY <3>1, <3>2 DEF HolderLink
  <2> QED
    BY <2>3, <2>4, <2>5 DEF Linked
<1> QED
  BY <1>1, <1>2, <1>3, <1>4, <1>5, <1>6, <1>7, <1>8, <1>9, <1>10, <1>11, <1>12, <1>13, <1>14, <1>15, <1>16, <1>17, <1>18, <1>19, <1>20, <1>21, <1>22, <1>23, <1>24, <1>25, <1>26, <1>27, <1>28, <1>29, <1>30, <1>31, <1>32, <1>33, <1>34, <1>35, <1>36, <1>37, <1>38, <1>39, <1>40, <1>41, <1>42 DEF Next, Progress, Errors
-----------------------------------------------------------------------------
Deciding == {"validate", "undo", "restore"}

\* Which tree is live, and that only the holder of the lock can be undecided about it.
LiveFacts ==
    /\ Live \in Tree
    /\ root = None \/ Undecided => Live = backup[marker.cs]
    /\ root # None /\ ~Undecided => Live = root
    /\ \A c \in Callers : lock = c => (Undecided <=> pc[c] \in Deciding)
    /\ \A c \in Callers : lock # c => pc[c] \notin Deciding

LEMMA LiveFactsHold == IInv => LiveFacts
<1> SUFFICES ASSUME IInv PROVE LiveFacts
  OBVIOUS
<1>1. \A c \in Callers : pc[c] \in Deciding => lock = c
  BY DEF IInv, Ownership, Outside, Deciding
<1>2. \A c \in Callers : lock = c => (Undecided <=> pc[c] \in Deciding)
  BY <1>1 DEF Undecided, Deciding
<1>3. root = None \/ Undecided => marker # None /\ marker.cs \in ChangeSets /\ Whole(backup[marker.cs])
  <2>1. CASE Undecided
    <3>1. PICK c \in Callers : pc[c] \in {"validate", "undo", "restore"}
      BY <2>1 DEF Undecided
    <3>2. Inside(c)
      BY <3>1, HolderIs DEF Outside
    <3> QED
      BY <3>1, <3>2 DEF Inside, TreesOK, Recovering, TypeOK, Journal
  <2>2. CASE root = None
    BY <2>2, NoneAssumption DEF IInv, DiskOK, Whole, TypeOK, Journal
  <2> QED
    BY <2>1, <2>2
<1>4. root = None \/ Undecided => Live = backup[marker.cs] /\ backup[marker.cs] \in Tree
  BY <1>3 DEF Live, Whole, IInv, TypeOK
<1>5. root # None /\ ~Undecided => Live = root /\ root \in Tree
  BY DEF Live, IInv, TypeOK
<1> QED
  BY <1>1, <1>2, <1>4, <1>5 DEF LiveFacts

LEMMA LiveFactsNext == IInv' => LiveFacts'
BY LiveFactsHold, PTL

Stutter == Live' = Live /\ acked' = acked

LEMMA StutterIsAllowed == Stutter => [KB!Next]_(KB!vars)
BY DEF Stutter, KB!vars

LEMMA SuccessorIsCommit ==
  ASSUME Live \in Tree, Live' \in Tree, NEW cs, Successor(Live, Live', cs), acked' = acked
  PROVE  [KB!Next]_(KB!vars)
<1>1. KB!Commit(cs)
  BY DEF Successor, Replacing, Delta, KB!Commit, KB!Replaced, KB!Delta
<1> QED
  BY <1>1 DEF Successor, KB!Next

LEMMA DiskStutters ==
  ASSUME UNCHANGED <<root, backup, marker, acked>>, Undecided' = Undecided
  PROVE  Stutter
BY DEF Live, Stutter

\* A caller outside the critical section leaves the live tree alone.
LEMMA BystanderStutters ==
  ASSUME UNCHANGED <<root, backup, marker, acked>>, NEW c \in Callers,
         \A d \in Callers \ {c} : pc'[d] = pc[d],
         pc[c] \notin Deciding, pc'[c] \notin Deciding
  PROVE  Stutter
<1>1. Undecided' = Undecided
  BY DEF Undecided, Deciding
<1> QED
  BY <1>1, DiskStutters

\* What an interrupted call leaves behind does not touch the live tree.
LEMMA HalfwayKeepsLive ==
  ASSUME Hypothesis, IInv, NEW c \in Callers, Torn(c) \/ HalfRemoved(c), LiveFacts, LiveFacts', ~Undecided'
  PROVE  Live' = Live
<1>1. Inside(c)
  BY HolderIs DEF Torn, HalfRemoved, MarkerWrites, Pending, Outside
<1> QED
  BY <1>1, NoneAssumption
  DEF Torn, HalfRemoved, MarkerWrites, Pending, JournalOf, Journal, Hypothesis, LiveFacts, Deciding, Inside,
      TypeOK, JournalOK, TreesOK, Preparing, Switching, Recovering, Writing, DiskOK, Whole, Request

LEMMA RefineStep ==
  Hypothesis /\ IInv /\ IInv' /\ Linked /\ [Next]_vars => [KB!Next]_(KB!vars)
<1> SUFFICES ASSUME Hypothesis, IInv, IInv', Linked, [Next]_vars PROVE [KB!Next]_(KB!vars)
  OBVIOUS
<1> USE ConstantsAssumption, NoneAssumption
    DEF Goto, Result, ReturnLocked, ReturnUnlocked, disk, local, faultCounts, Outside, Deciding
<1>0. TypeOK /\ LiveFacts /\ LiveFacts'
  BY LiveFactsHold, LiveFactsNext DEF IInv
<1>1. ASSUME NEW c \in Callers, ReadLog(c) PROVE Stutter
  BY <1>0, <1>1, BystanderStutters DEF ReadLog, TypeOK
<1>2. ASSUME NEW c \in Callers, ReadManifest(c) PROVE Stutter
  BY <1>0, <1>2, BystanderStutters DEF ReadManifest, TypeOK
<1>3. ASSUME NEW c \in Callers, ReadIndex(c) PROVE Stutter
  BY <1>0, <1>3, BystanderStutters DEF ReadIndex, TypeOK
<1>4. ASSUME NEW c \in Callers, AlreadyHeld(c) PROVE Stutter
  BY <1>0, <1>4, BystanderStutters DEF AlreadyHeld, TypeOK
<1>5. ASSUME NEW c \in Callers, FailUnlocked(c) PROVE Stutter
  BY <1>0, <1>5, BystanderStutters DEF FailUnlocked, TypeOK
<1>6. ASSUME NEW c \in Callers, Mount(c) PROVE Stutter
  BY <1>0, <1>6, BystanderStutters DEF Mount, TypeOK
<1>7. ASSUME NEW c \in Callers, Submit(c) PROVE Stutter
  BY <1>0, <1>7, BystanderStutters DEF Submit, TypeOK
<1>8. ASSUME NEW c \in Callers, Acquire(c) PROVE Stutter
  BY <1>0, <1>8, BystanderStutters DEF Acquire, TypeOK
<1>9. ASSUME NEW c \in Callers, NEW cs \in ChangeSets, Plan(c, cs) PROVE Stutter
  BY <1>0, <1>9, BystanderStutters DEF Plan, TypeOK
<1>10. ASSUME NEW c \in Callers, NEW kind \in AllKinds, Start(c, kind) PROVE Stutter
  BY <1>0, <1>10, BystanderStutters DEF Start, TypeOK
<1>11. CASE UNCHANGED vars
  <2>1. Undecided' = Undecided
    BY <1>11 DEF vars, Undecided
  <2> QED
    BY <1>11, <2>1, DiskStutters, StutterIsAllowed DEF vars
<1>12. CASE ClearStaleLock
  <2>1. Undecided' = Undecided
    BY <1>12 DEF ClearStaleLock, Undecided
  <2> QED
    BY <1>12, <2>1, DiskStutters, StutterIsAllowed DEF ClearStaleLock
<1> USE DEF TypeOK, JournalOK, TreesOK, Preparing, Switching, Recovering, Inside, Writing, DiskOK, Whole, Request
<1>13. ASSUME NEW c \in Callers, NothingToRecover(c) PROVE Stutter
  <2>1. Inside(c)
    BY <1>13, HolderIs DEF NothingToRecover
  <2> QED
    BY <1>0, <1>13, <2>1 DEF NothingToRecover, AfterRecovery, LiveFacts, Stutter
<1>14. ASSUME NEW c \in Callers, RecoverIllegible(c) PROVE Stutter
  <2>1. Inside(c)
    BY <1>14, HolderIs DEF RecoverIllegible
  <2> QED
    BY <1>0, <1>14, <2>1 DEF RecoverIllegible, LiveFacts, Stutter
<1>15. ASSUME NEW c \in Callers, RecoverForward(c) PROVE Stutter
  <2>1. Inside(c)
    BY <1>15, HolderIs DEF RecoverForward, Pending
  <2> QED
    BY <1>0, <1>15, <2>1 DEF RecoverForward, Pending, LiveFacts, Stutter
<1>16. ASSUME NEW c \in Callers, RecoverBackward(c) PROVE Stutter
  <2>1. Inside(c)
    BY <1>16, HolderIs DEF RecoverBackward, Pending
  <2> QED
    BY <1>0, <1>16, <2>1 DEF RecoverBackward, Pending, LiveFacts, Stutter
<1>17. ASSUME NEW c \in Callers, RecoverKeep(c) PROVE Stutter
  <2>1. Inside(c)
    BY <1>17, HolderIs DEF RecoverKeep, Pending
  <2> QED
    BY <1>0, <1>17, <2>1 DEF RecoverKeep, Pending, LiveFacts, Stutter
<1>18. ASSUME NEW c \in Callers, ValidateFails(c) PROVE Stutter
  <2>1. Inside(c)
    BY <1>18, HolderIs DEF ValidateFails
  <2> QED
    BY <1>0, <1>18, <2>1 DEF ValidateFails, LiveFacts, Stutter
<1>19. ASSUME NEW c \in Callers, Undo(c) PROVE Stutter
  <2>1. Inside(c)
    BY <1>19, HolderIs DEF Undo
  <2> QED
    BY <1>0, <1>19, <2>1 DEF Undo, LiveFacts, Stutter
<1>20. ASSUME NEW c \in Callers, Restore(c) PROVE Stutter
  <2>1. Inside(c)
    BY <1>20, HolderIs DEF Restore
  <2> QED
    BY <1>0, <1>20, <2>1 DEF Restore, LiveFacts, Stutter
<1>21. ASSUME NEW c \in Callers, Clean(c) PROVE Stutter
  <2>1. Inside(c)
    BY <1>21, HolderIs DEF Clean
  <2> QED
    BY <1>0, <1>21, <2>1 DEF Clean, LiveFacts, Stutter
<1>22. ASSUME NEW c \in Callers, Unmark(c) PROVE Stutter
  <2>1. Inside(c)
    BY <1>22, HolderIs DEF Unmark
  <2> QED
    BY <1>0, <1>22, <2>1 DEF Unmark, AfterRecovery, LiveFacts, Stutter
<1>23. ASSUME NEW c \in Callers, Decide(c) PROVE Stutter
  <2>1. Inside(c)
    BY <1>23, HolderIs DEF Decide
  <2> QED
    BY <1>0, <1>23, <2>1 DEF Decide, LiveFacts, Stutter
<1>24. ASSUME NEW c \in Callers, Stage(c) PROVE Stutter
  <2>1. Inside(c)
    BY <1>24, HolderIs DEF Stage
  <2> QED
    BY <1>0, <1>24, <2>1 DEF Stage, LiveFacts, Stutter
<1>25. ASSUME NEW c \in Callers, Prepare(c) PROVE Stutter
  <2>1. Inside(c)
    BY <1>25, HolderIs DEF Prepare
  <2> QED
    BY <1>0, <1>25, <2>1 DEF Prepare, LiveFacts, Stutter
<1>26. ASSUME NEW c \in Callers, Mark(c) PROVE Stutter
  <2>1. Inside(c)
    BY <1>26, HolderIs DEF Mark, WriteMarker
  <2> QED
    BY <1>0, <1>26, <2>1 DEF Mark, WriteMarker, JournalOf, LiveFacts, Stutter
<1>27. ASSUME NEW c \in Callers, MoveAside(c) PROVE Stutter
  <2>1. Inside(c)
    BY <1>27, HolderIs DEF MoveAside
  <2> QED
    BY <1>0, <1>27, <2>1 DEF MoveAside, LiveFacts, Stutter
<1>28. ASSUME NEW c \in Callers, MarkSwitching(c) PROVE Stutter
  <2>1. Inside(c)
    BY <1>28, HolderIs DEF MarkSwitching, WriteMarker
  <2> QED
    BY <1>0, <1>28, <2>1 DEF MarkSwitching, WriteMarker, JournalOf, LiveFacts, Stutter
<1>29. ASSUME NEW c \in Callers, MarkCommitted(c) PROVE Stutter
  <2>1. Inside(c)
    BY <1>29, HolderIs DEF MarkCommitted, WriteMarker
  <2> QED
    BY <1>0, <1>29, <2>1 DEF MarkCommitted, WriteMarker, JournalOf, LiveFacts, Stutter
<1>30. ASSUME NEW c \in Callers, DropBackup(c) PROVE Stutter
  <2>1. Inside(c)
    BY <1>30, HolderIs DEF DropBackup
  <2> QED
    BY <1>0, <1>30, <2>1 DEF DropBackup, LiveFacts, Stutter
<1>31. ASSUME NEW c \in Callers, DropMarker(c) PROVE Stutter
  <2>1. Inside(c)
    BY <1>31, HolderIs DEF DropMarker
  <2> QED
    BY <1>0, <1>31, <2>1 DEF DropMarker, LiveFacts, Stutter
<1>32. ASSUME NEW c \in Callers, Refresh(c) PROVE Stutter
  <2>1. Inside(c)
    BY <1>32, HolderIs DEF Refresh
  <2> QED
    BY <1>0, <1>32, <2>1 DEF Refresh, LiveFacts, Stutter
<1>33. ASSUME NEW c \in Callers, FailRelease(c) PROVE Stutter
  <2>1. Inside(c)
    BY <1>33, HolderIs DEF FailRelease
  <2>2. Undecided' = Undecided
    BY <1>33, <2>1 DEF FailRelease, Undecided
  <2> QED
    BY <1>33, <2>2, DiskStutters DEF FailRelease
<1>34. ASSUME NEW c \in Callers, FailBeforeJournal(c) PROVE Stutter
  <2>1. Inside(c)
    BY <1>34, HolderIs DEF FailBeforeJournal, BeforeJournal
  <2> QED
    BY <1>0, <1>34, <2>1 DEF FailBeforeJournal, BeforeJournal, LiveFacts, Stutter
<1>35. ASSUME NEW c \in Callers, FailHalfway(c) PROVE Stutter
  <2>1. Inside(c)
    BY <1>35, HolderIs DEF FailHalfway, Torn, HalfRemoved, MarkerWrites, Pending
  <2>2. ~Undecided'
    BY <1>0, <1>35, <2>1 DEF FailHalfway, LiveFacts
  <2> QED
    BY <1>0, <1>35, <2>2, HalfwayKeepsLive DEF FailHalfway, Stutter
<1>36. ASSUME NEW c \in Callers, MoveIn(c) PROVE [KB!Next]_(KB!vars)
  <2>1. Inside(c) /\ JournalLink
    BY <1>36, HolderIs DEF MoveIn, Linked
  <2>2. Live = backup[marker.cs] /\ Live' = staging[marker.cs]
    BY <1>0, <1>36, <2>1 DEF MoveIn, LiveFacts, Ready
  <2>3. Successor(Live, Live', marker.cs)
    BY <1>36, <2>1, <2>2 DEF MoveIn, JournalLink, Ready
  <2> QED
    BY <1>0, <1>36, <2>3, SuccessorIsCommit DEF MoveIn, LiveFacts
<1>37. ASSUME NEW c \in Callers, Validate(c) PROVE [KB!Next]_(KB!vars)
  <2>1. Inside(c) /\ HolderLink(c)
    BY <1>37, HolderIs DEF Validate, Linked
  <2>2. Live = backup[marker.cs] /\ Live' = root
    BY <1>0, <1>37, <2>1 DEF Validate, LiveFacts, Ready
  <2>3. Successor(Live, Live', marker.cs)
    BY <1>37, <2>1, <2>2 DEF Validate, HolderLink
  <2> QED
    BY <1>0, <1>37, <2>3, SuccessorIsCommit DEF Validate, LiveFacts
<1>38. ASSUME NEW c \in Callers, FailInPlace(c) PROVE [KB!Next]_(KB!vars)
  <2>1. Inside(c) /\ HolderLink(c)
    BY <1>38, HolderIs DEF FailInPlace, WithJournal, InRecovery, Elsewhere, Linked
  <2>2. CASE pc[c] = "undo"
    <3>1. Live = backup[marker.cs] /\ Live' = root
      BY <1>0, <1>38, <2>1, <2>2 DEF FailInPlace, LiveFacts
    <3>2. Successor(Live, Live', marker.cs)
      BY <2>1, <2>2, <3>1 DEF HolderLink
    <3> QED
      BY <1>0, <1>38, <3>2, SuccessorIsCommit DEF FailInPlace, LiveFacts
  <2>3. CASE pc[c] # "undo"
    <3>1. Stutter
      BY <1>0, <1>38, <2>1, <2>3 DEF FailInPlace, WithJournal, InRecovery, Elsewhere, LiveFacts, Stutter
    <3> QED
      BY <3>1, StutterIsAllowed
  <2> QED
    BY <2>2, <2>3
<1>39. ASSUME NEW c \in Callers, Archive(c) PROVE [KB!Next]_(KB!vars)
  <2>1. Inside(c)
    BY <1>39, HolderIs DEF Archive
  <2>5. root # None /\ root \in Tree /\ root' # None
    <3>1. root # None /\ root \in Tree
      BY <1>39, <2>1 DEF Archive
    <3>2. [root EXCEPT !.notes = @ \cup {c}] \in Tree
      BY <3>1 DEF Tree
    <3> QED
      BY <1>39, <3>1, <3>2 DEF Archive
  <2>2. root \in Tree /\ Live = root /\ Live' = root' /\ acked' = acked
    BY <1>0, <1>39, <2>1, <2>5 DEF Archive, LiveFacts
  <2>3. CASE RootReadable
    <3>1. root' = [root EXCEPT !.notes = @ \cup {c}]
      BY <1>39, <2>3 DEF Archive
    <3>2. /\ root'.notes = root.notes \cup {c} /\ root'.rev = root.rev
          /\ root'.log = root.log /\ root'.objs = root.objs
      BY <2>2, <3>1 DEF Tree
    <3>3. KB!Keep(c)
      BY <2>2, <3>2 DEF KB!Keep
    <3> QED
      BY <3>3 DEF KB!Next
  <2>4. CASE ~RootReadable
    BY <1>39, <2>2, <2>4, StutterIsAllowed DEF Archive, Stutter
  <2> QED
    BY <2>3, <2>4
<1>40. ASSUME NEW c \in Callers, Append(c) PROVE [KB!Next]_(KB!vars)
  <2>1. Inside(c)
    BY <1>40, HolderIs DEF Append
  <2>2. root # None /\ root \in Tree
    BY <1>40, <2>1 DEF Append
  <2>3. root' = [root EXCEPT !.notes = @ \cup {c}]
    BY <1>40, <2>2 DEF Append
  <2>4. /\ root' \in Tree /\ root'.notes = root.notes \cup {c} /\ root'.rev = root.rev
        /\ root'.log = root.log /\ root'.objs = root.objs
    BY <2>2, <2>3 DEF Tree
  <2>5. Live = root /\ Live' = root' /\ acked' = acked
    BY <1>0, <1>40, <2>1, <2>2, <2>4 DEF Append, LiveFacts
  <2>6. KB!Keep(c)
    BY <2>4, <2>5 DEF KB!Keep
  <2> QED
    BY <2>6 DEF KB!Next
<1>41. ASSUME NEW c \in Callers, Release(c) PROVE [KB!Next]_(KB!vars)
  <2>1. Inside(c) /\ HolderLink(c)
    BY <1>41, HolderIs DEF Release, Linked
  <2>2. Live' = Live
    BY <1>41, <2>1 DEF Release, Live, Undecided, IInv, Ownership
  <2>3. CASE outcome[c] \in Successful
    <3>1. root # None /\ req[c] # None /\ Receipt(root, req[c].cs)
      BY <1>41, <2>1, <2>3 DEF HolderLink, Release, IInv, Ownership
    <3>2. Live = root /\ acked' = acked \cup {root.log[RunOf[req[c].cs]]}
      BY <1>0, <1>41, <2>1, <2>3, <3>1 DEF Release, LiveFacts
    <3>3. KB!Acknowledge(req[c].cs) /\ req[c].cs \in ChangeSets
      BY <2>1, <2>2, <3>1, <3>2 DEF KB!Acknowledge, Receipt
    <3> QED
      BY <3>3 DEF KB!Next
  <2>4. CASE outcome[c] \notin Successful
    BY <1>41, <2>2, <2>4, StutterIsAllowed DEF Release, Stutter
  <2> QED
    BY <2>3, <2>4
<1>42. ASSUME NEW p \in Procs, Crash(p) PROVE [KB!Next]_(KB!vars)
  <2>1. \A d \in Callers : ProcOf[d] = p => pc'[d] = "ready"
    BY <1>42 DEF Crash
  <2>2. \A d \in Callers : ProcOf[d] # p => pc'[d] = pc[d]
    BY <1>42 DEF Crash
  <2>3. acked' = acked
    BY <1>42 DEF Crash
  <2>4. ASSUME NEW c \in Callers, lock = c, ProcOf[c] = p PROVE [KB!Next]_(KB!vars)
    <3>1. Inside(c) /\ HolderLink(c)
      BY <2>4, HolderIs DEF IInv, Ownership, Linked
    <3>2. ~Undecided'
      BY <1>0, <2>1, <2>2, <2>4 DEF Undecided, LiveFacts
    <3>3. CASE Torn(c) \/ HalfRemoved(c)
      BY <1>0, <2>3, <3>2, <3>3, HalfwayKeepsLive, StutterIsAllowed DEF Stutter
    <3>4. CASE UNCHANGED disk /\ pc[c] \in {"validate", "undo"}
      <4>1. Live = backup[marker.cs] /\ Live' = root
        BY <1>0, <2>4, <3>1, <3>2, <3>4 DEF LiveFacts, Ready
      <4>2. Successor(Live, Live', marker.cs)
        BY <3>1, <3>4, <4>1 DEF HolderLink
      <4> QED
        BY <1>0, <2>3, <4>2, SuccessorIsCommit DEF LiveFacts
    <3>5. CASE UNCHANGED disk /\ pc[c] \notin {"validate", "undo"}
      <4>1. Live' = Live
        BY <1>0, <2>4, <3>1, <3>2, <3>5 DEF LiveFacts
      <4> QED
        BY <2>3, <4>1, StutterIsAllowed DEF Stutter
    <3> QED
      BY <1>42, <2>4, <3>3, <3>4, <3>5 DEF Crash
  <2>5. CASE \A c \in Callers : ProcOf[c] = p => lock # c
    <3>1. UNCHANGED disk
      BY <1>42, <2>5 DEF Crash
    <3>2. Undecided' = Undecided
      BY <1>0, <2>1, <2>2, <2>5 DEF Undecided, LiveFacts
    <3> QED
      BY <2>3, <3>1, <3>2, StutterIsAllowed DEF Live, Stutter
  <2> QED
    BY <2>4, <2>5
<1> QED
  BY <1>1, <1>2, <1>3, <1>4, <1>5, <1>6, <1>7, <1>8, <1>9, <1>10, <1>11, <1>12, <1>13, <1>14, <1>15, <1>16, <1>17, <1>18, <1>19, <1>20, <1>21, <1>22, <1>23, <1>24, <1>25, <1>26, <1>27, <1>28, <1>29, <1>30, <1>31, <1>32, <1>33, <1>34, <1>35, <1>36, <1>37, <1>38, <1>39, <1>40, <1>41, <1>42, StutterIsAllowed DEF Next, Progress, Errors

LEMMA RefineInit == Init => KB!Init
<1> SUFFICES ASSUME Init PROVE KB!Init
  OBVIOUS
<1>1. Fresh # None /\ root = Fresh
  BY NoneAssumption, FreshAndPartialAreTrees DEF Init
<1>2. ~Undecided
  BY DEF Init, Undecided
<1>3. Live = Fresh
  BY <1>1, <1>2 DEF Live
<1> QED
  BY <1>3 DEF Init, KB!Init, Fresh

\* The directory, its journal and its recovery implement a store that changes by whole ChangeSets,
\* each at most once, and whose callers are told "committed" only of what is in it
\* (writeKnowledgeBase, runKnowledgeRootTransaction, recoverKnowledgeBaseRoot).
THEOREM ImplementsStore == Hypothesis /\ OneChangeSetPerRun => (Spec => ImplementsKnowledgeBase)
<1> SUFFICES ASSUME Hypothesis, OneChangeSetPerRun PROVE Spec => ImplementsKnowledgeBase
  OBVIOUS
<1>1. Init => Linked /\ KB!Init
  BY LinkInit, RefineInit
<1>2. IInv /\ Linked /\ [Next]_vars => Linked'
  BY LinkStep
<1>3. IInv /\ IInv' /\ Linked /\ [Next]_vars => [KB!Next]_(KB!vars)
  BY RefineStep
<1>4. Spec => []IInv
  BY Invariance
<1> QED
  BY <1>1, <1>2, <1>3, <1>4, PTL DEF Spec, ImplementsKnowledgeBase, KB!Spec

\* In the store, a receipt that was acknowledged stays where it is: the log of a run is written once.
AckedIsLive == \A e \in acked : Live.log[RunOf[e.cs]] = e

LEMMA AckedStep ==
  ASSUME TypeOK, Live \in Tree, AckedIsLive, [KB!Next]_(KB!vars)
  PROVE  AckedIsLive'
<1>1. acked \subseteq LogEntry /\ Live.log \in [Runs -> LogEntry \cup {None}]
  BY DEF TypeOK, Tree
<1>2. ASSUME NEW cs \in ChangeSets, KB!Commit(cs) PROVE AckedIsLive'
  <2>1. Live.log[RunOf[cs]] = None /\ acked' = acked
    BY <1>2 DEF KB!Commit
  <2>2. \A r \in Runs : r # RunOf[cs] => Live'.log[r] = Live.log[r]
    BY <1>1, <1>2 DEF KB!Commit
  <2>3. ASSUME NEW e \in acked PROVE Live'.log[RunOf[e.cs]] = e
    <3>1. e \in LogEntry /\ RunOf[e.cs] \in Runs /\ Live.log[RunOf[e.cs]] = e
      BY <1>1, ConstantsAssumption DEF AckedIsLive, LogEntry
    <3> QED
      BY <2>1, <2>2, <3>1, NoneAssumption
  <2> QED
    BY <2>1, <2>3 DEF AckedIsLive
<1>3. ASSUME NEW cs \in ChangeSets, KB!Acknowledge(cs) PROVE AckedIsLive'
  BY <1>3 DEF KB!Acknowledge, AckedIsLive
<1>4. ASSUME NEW c \in Callers, KB!Keep(c) PROVE AckedIsLive'
  BY <1>4 DEF KB!Keep, AckedIsLive
<1>5. CASE UNCHANGED KB!vars
  BY <1>5 DEF KB!vars, AckedIsLive
<1> QED
  BY <1>2, <1>3, <1>4, <1>5 DEF KB!Next

\* What a caller was told is committed is still in the Knowledge Base whenever no journal is
\* pending, whoever crashed or failed since (Release hands out what Refresh or a replay found).
THEOREM AcknowledgedStays == Hypothesis /\ OneChangeSetPerRun => (Spec => []AcknowledgedIsKept)
<1> SUFFICES ASSUME Hypothesis, OneChangeSetPerRun PROVE Spec => []AcknowledgedIsKept
  OBVIOUS
<1>1. Init => Linked /\ AckedIsLive
  BY LinkInit DEF Init, AckedIsLive
<1>2. IInv /\ Linked /\ [Next]_vars => Linked'
  BY LinkStep
<1>3. IInv /\ IInv' /\ Linked /\ AckedIsLive /\ [Next]_vars => AckedIsLive'
  BY RefineStep, LiveFactsHold, AckedStep DEF IInv, LiveFacts
<1>4. IInv /\ AckedIsLive => AcknowledgedIsKept
  <2> SUFFICES ASSUME IInv, AckedIsLive, marker = None PROVE \A e \in acked : RootReadable /\ root.log[RunOf[e.cs]] = e
    BY DEF AcknowledgedIsKept
  <2>1. Whole(root)
    BY DEF IInv, DiskOK
  <2>2. ~Undecided
    <3> SUFFICES ASSUME NEW c \in Callers, pc[c] \in {"validate", "undo", "restore"} PROVE FALSE
      BY DEF Undecided
    <3> QED
      BY HolderIs DEF Inside, TreesOK, Recovering, Outside
  <2> QED
    BY <2>1, <2>2, LiveFactsHold DEF Whole, RootReadable, LiveFacts, AckedIsLive
<1>5. Spec => []IInv
  BY Invariance
<1> QED
  BY <1>1, <1>2, <1>3, <1>4, <1>5, PTL DEF Spec

-----------------------------------------------------------------------------
(* Refusals.  Under the lock a ChangeSet is refused for its revision only  *)
(* when the log of its run has been searched in vain.                      *)

UnlockedReads == {"readLog", "readManifest", "readIndex"}

NoUnlockedReads == Schema = "0.3" => \A c \in Callers : pc[c] \notin UnlockedReads

\* Where the answer "stale_revision" comes from, and that Schema 0.3 reads nothing before the lock.
Answers ==
    \A d \in Callers :
        /\ outcome[d] # "stale_revision" /\ outcome'[d] = "stale_revision" => Decide(d) \/ ReadManifest(d)
        /\ pc'[d] \in UnlockedReads => pc[d] \in UnlockedReads \/ Schema = "0.4"

LEMMA AnswersStep == TypeOK /\ [Next]_vars => Answers
<1> SUFFICES ASSUME TypeOK, [Next]_vars PROVE Answers
  OBVIOUS
<1> USE DEF Goto, Result, ReturnLocked, ReturnUnlocked, disk, local, faultCounts, Answers, UnlockedReads
<1>1. ASSUME NEW c \in Callers, ReadLog(c) PROVE Answers
  BY <1>1 DEF ReadLog, TypeOK
<1>2. ASSUME NEW c \in Callers, ReadManifest(c) PROVE Answers
  BY <1>2 DEF ReadManifest, TypeOK, RootReadable
<1>3. ASSUME NEW c \in Callers, ReadIndex(c) PROVE Answers
  BY <1>3 DEF ReadIndex, TypeOK, RootReadable
<1>4. ASSUME NEW c \in Callers, Acquire(c) PROVE Answers
  BY <1>4 DEF Acquire, TypeOK
<1>5. ASSUME NEW c \in Callers, AlreadyHeld(c) PROVE Answers
  BY <1>5 DEF AlreadyHeld, TypeOK
<1>6. ASSUME NEW c \in Callers, Release(c) PROVE Answers
  BY <1>6 DEF Release, TypeOK
<1>7. ASSUME NEW c \in Callers, NothingToRecover(c) PROVE Answers
  BY <1>7 DEF NothingToRecover, TypeOK, AfterRecovery
<1>8. ASSUME NEW c \in Callers, RecoverIllegible(c) PROVE Answers
  BY <1>8 DEF RecoverIllegible, TypeOK
<1>9. ASSUME NEW c \in Callers, RecoverForward(c) PROVE Answers
  BY <1>9 DEF RecoverForward, TypeOK, Pending
<1>10. ASSUME NEW c \in Callers, RecoverBackward(c) PROVE Answers
  BY <1>10 DEF RecoverBackward, TypeOK, Pending
<1>11. ASSUME NEW c \in Callers, RecoverKeep(c) PROVE Answers
  BY <1>11 DEF RecoverKeep, TypeOK, Pending
<1>12. ASSUME NEW c \in Callers, Validate(c) PROVE Answers
  BY <1>12 DEF Validate, TypeOK
<1>13. ASSUME NEW c \in Callers, Undo(c) PROVE Answers
  BY <1>13 DEF Undo, TypeOK
<1>14. ASSUME NEW c \in Callers, Restore(c) PROVE Answers
  BY <1>14 DEF Restore, TypeOK
<1>15. ASSUME NEW c \in Callers, Clean(c) PROVE Answers
  BY <1>15 DEF Clean, TypeOK
<1>16. ASSUME NEW c \in Callers, Unmark(c) PROVE Answers
  BY <1>16 DEF Unmark, TypeOK, AfterRecovery
<1>17. ASSUME NEW c \in Callers, Archive(c) PROVE Answers
  BY <1>17 DEF Archive, TypeOK
<1>18. ASSUME NEW c \in Callers, Append(c) PROVE Answers
  BY <1>18 DEF Append, TypeOK
<1>19. ASSUME NEW c \in Callers, Decide(c) PROVE Answers
  BY <1>19 DEF Decide, TypeOK
<1>20. ASSUME NEW c \in Callers, Stage(c) PROVE Answers
  BY <1>20 DEF Stage, TypeOK
<1>21. ASSUME NEW c \in Callers, Prepare(c) PROVE Answers
  BY <1>21 DEF Prepare, TypeOK
<1>22. ASSUME NEW c \in Callers, Mark(c) PROVE Answers
  BY <1>22 DEF Mark, TypeOK, WriteMarker
<1>23. ASSUME NEW c \in Callers, MoveAside(c) PROVE Answers
  BY <1>23 DEF MoveAside, TypeOK
<1>24. ASSUME NEW c \in Callers, MarkSwitching(c) PROVE Answers
  BY <1>24 DEF MarkSwitching, TypeOK, WriteMarker
<1>25. ASSUME NEW c \in Callers, MoveIn(c) PROVE Answers
  BY <1>25 DEF MoveIn, TypeOK
<1>26. ASSUME NEW c \in Callers, MarkCommitted(c) PROVE Answers
  BY <1>26 DEF MarkCommitted, TypeOK, WriteMarker
<1>27. ASSUME NEW c \in Callers, DropBackup(c) PROVE Answers
  BY <1>27 DEF DropBackup, TypeOK
<1>28. ASSUME NEW c \in Callers, DropMarker(c) PROVE Answers
  BY <1>28 DEF DropMarker, TypeOK
<1>29. ASSUME NEW c \in Callers, Refresh(c) PROVE Answers
  BY <1>29 DEF Refresh, TypeOK
<1>30. ASSUME NEW c \in Callers, ValidateFails(c) PROVE Answers
  BY <1>30 DEF ValidateFails, TypeOK
<1>31. ASSUME NEW c \in Callers, FailBeforeJournal(c) PROVE Answers
  BY <1>31 DEF FailBeforeJournal, TypeOK, BeforeJournal
<1>32. ASSUME NEW c \in Callers, FailInPlace(c) PROVE Answers
  BY <1>32 DEF FailInPlace, TypeOK, WithJournal, InRecovery, Elsewhere
<1>33. ASSUME NEW c \in Callers, FailRelease(c) PROVE Answers
  BY <1>33 DEF FailRelease, TypeOK
<1>34. ASSUME NEW c \in Callers, FailUnlocked(c) PROVE Answers
  BY <1>34 DEF FailUnlocked, TypeOK
<1>35. ASSUME NEW c \in Callers, FailHalfway(c) PROVE Answers
  BY <1>35 DEF FailHalfway, TypeOK, Torn, HalfRemoved, MarkerWrites, Pending
<1>36. ASSUME NEW c \in Callers, Mount(c) PROVE Answers
  BY <1>36 DEF Mount, TypeOK
<1>37. ASSUME NEW c \in Callers, Submit(c) PROVE Answers
  BY <1>37 DEF Submit, TypeOK
<1>38. ASSUME NEW c \in Callers, NEW cs \in ChangeSets, Plan(c, cs) PROVE Answers
  BY <1>38 DEF Plan, TypeOK
<1>39. ASSUME NEW c \in Callers, NEW kind \in AllKinds, Start(c, kind) PROVE Answers
  BY <1>39 DEF Start, TypeOK
<1>40. ASSUME NEW p \in Procs, Crash(p) PROVE Answers
  BY <1>40 DEF Crash, TypeOK
<1>41. CASE ClearStaleLock
  BY <1>41 DEF ClearStaleLock, TypeOK
<1>42. CASE UNCHANGED vars
  BY <1>42 DEF vars
<1> QED
  BY <1>1, <1>2, <1>3, <1>4, <1>5, <1>6, <1>7, <1>8, <1>9, <1>10, <1>11, <1>12, <1>13, <1>14, <1>15, <1>16, <1>17, <1>18, <1>19, <1>20, <1>21, <1>22, <1>23, <1>24, <1>25, <1>26, <1>27, <1>28, <1>29, <1>30, <1>31, <1>32, <1>33, <1>34, <1>35, <1>36, <1>37, <1>38, <1>39, <1>40, <1>41, <1>42 DEF Next, Progress, Errors

\* The Writer log of the run does not hold the ChangeSet of c as it was planned.
NotCommittedAsPlanned(c) ==
    LET entry == Live.log[RunOf[req[c].cs]]
    IN  entry = None \/ entry.cs # req[c].cs \/ entry.before # req[c].before
        \/ entry.rev # req[c].base + Delta(req[c].cs)

LEMMA DecideRefuses ==
  ASSUME IInv, NEW c \in Callers, Decide(c), outcome[c] # "stale_revision", outcome'[c] = "stale_revision"
  PROVE  NotCommittedAsPlanned(c)
<1>1. Inside(c)
  BY HolderIs DEF Decide, Outside
<1>2. pc[c] = "decide" /\ marker = None /\ root # None
  BY <1>1 DEF Decide, Inside, TreesOK, DiskOK, Whole
<1>3. Live = root
  BY <1>1, <1>2, LiveFactsHold DEF LiveFacts, Inside, Deciding
<1>4. Verdict(c) = "stale_revision"
  BY DEF Decide, ReturnLocked, Result, IInv, TypeOK
<1>5. ~HasPrior(req[c])
  BY <1>4 DEF Verdict, ReplayVerdict
<1> QED
  BY <1>3, <1>5 DEF HasPrior, NotCommittedAsPlanned

RefusedUnderLock ==
    [][\A c \in Callers :
         lock = c /\ outcome[c] # "stale_revision" /\ outcome'[c] = "stale_revision"
         => NotCommittedAsPlanned(c)]_vars

\* Under the lock no Writer answers "stale_revision" for a ChangeSet that is committed as it was
\* planned: verifyPriorExecutionState comes first, in both schemas.
THEOREM LockedRefusalIsTrue == Hypothesis => (Spec => RefusedUnderLock)
<1> SUFFICES ASSUME Hypothesis PROVE Spec => RefusedUnderLock
  OBVIOUS
<1>1. IInv /\ [Next]_vars =>
        [\A c \in Callers :
           lock = c /\ outcome[c] # "stale_revision" /\ outcome'[c] = "stale_revision"
         => NotCommittedAsPlanned(c)]_vars
  <2> SUFFICES ASSUME IInv, [Next]_vars, NEW c \in Callers, lock = c,
                      outcome[c] # "stale_revision", outcome'[c] = "stale_revision"
               PROVE  NotCommittedAsPlanned(c)
    OBVIOUS
  <2>1. Decide(c) \/ ReadManifest(c)
    BY AnswersStep DEF IInv, Answers
  <2>2. ~ReadManifest(c)
    BY DEF ReadManifest, IInv, Ownership, Outside
  <2> QED
    BY <2>1, <2>2, DecideRefuses
<1>2. Spec => []IInv
  BY Invariance
<1> QED
  BY <1>1, <1>2, PTL DEF Spec, RefusedUnderLock

\* In Schema 0.3, where nothing is read before the lock, no submission of a committed ChangeSet is
\* ever answered "stale_revision".  (In Schema 0.4 ReadManifest, which compares revisions before
\* the lock is taken, can do that.)
THEOREM RefusalIsTrue == Hypothesis /\ Schema = "0.3" => (Spec => RefusedIsNotCommitted)
<1> SUFFICES ASSUME Hypothesis, Schema = "0.3" PROVE Spec => RefusedIsNotCommitted
  OBVIOUS
<1>1. Init => NoUnlockedReads
  BY DEF Init, NoUnlockedReads, UnlockedReads
<1>2. IInv /\ NoUnlockedReads /\ [Next]_vars => NoUnlockedReads'
  BY AnswersStep DEF IInv, Answers, NoUnlockedReads
<1>3. IInv /\ NoUnlockedReads /\ [Next]_vars =>
        [\A c \in Callers :
           pc[c] # "ready" /\ outcome[c] # "stale_revision" /\ outcome'[c] = "stale_revision"
           => LET entry == Live.log[RunOf[req[c].cs]]
              IN  entry = None \/ entry.cs # req[c].cs \/ entry.before # req[c].before
                  \/ entry.rev # req[c].base + Delta(req[c].cs)]_vars
  <2> SUFFICES ASSUME IInv, NoUnlockedReads, [Next]_vars, NEW c \in Callers,
                      outcome[c] # "stale_revision", outcome'[c] = "stale_revision"
               PROVE  NotCommittedAsPlanned(c)
    BY DEF NotCommittedAsPlanned
  <2>1. Decide(c) \/ ReadManifest(c)
    BY AnswersStep DEF IInv, Answers
  <2>2. ~ReadManifest(c)
    BY DEF ReadManifest, NoUnlockedReads, UnlockedReads
  <2> QED
    BY <2>1, <2>2, DecideRefuses
<1>4. Spec => []IInv
  BY Invariance
<1> QED
  BY <1>1, <1>2, <1>3, <1>4, PTL DEF Spec, RefusedIsNotCommitted

-----------------------------------------------------------------------------
(* What follows from being such a store for its history: the receipts of   *)
(* the live tree.                                                          *)

Entries(t) == {t.log[r] : r \in Runs} \ {None}
Updates(t) == {e \in Entries(t) : e.cs \in Changing}

\* Objects and receipts name only versions that are committed, and no receipt has replaced the version
\* an object has now.
Rooted(t) ==
    /\ \A o \in Objects : t.objs[o] # None => t.objs[o] \in ChangeSets /\ Receipt(t, t.objs[o])
    /\ \A e \in Entries(t) : e.before # None => Receipt(t, e.before)
    /\ \A e \in Updates(t) : e.before # t.objs[TargetOf[e.cs]]

ReplacedOnce(t) ==
    \A e, f \in Updates(t) : TargetOf[e.cs] = TargetOf[f.cs] /\ e.before = f.before => e = f

Numbered(t) ==
    /\ \A e \in Updates(t) : e.rev \in 1..t.rev
    /\ \A n \in 1..t.rev : \E e \in Updates(t) : e.rev = n
    /\ \A e, f \in Updates(t) : e.rev = f.rev => e = f

LEMMA SuccessorEntries ==
  ASSUME NEW t \in Tree, NEW cs, Rooted(t), NEW u, Successor(t, u, cs)
  PROVE  LET e == [cs |-> cs, rev |-> t.rev + Delta(cs), before |-> Replacing(t, cs)]
         IN  /\ e \in LogEntry
             /\ Entries(u) = Entries(t) \cup {e}
             /\ u.log[RunOf[cs]] = e
             /\ \A r \in Runs \ {RunOf[cs]} : u.log[r] = t.log[r]
<1> DEFINE e == [cs |-> cs, rev |-> t.rev + Delta(cs), before |-> Replacing(t, cs)]
           run == RunOf[cs]
<1>1. cs \in ChangeSets /\ run \in Runs /\ t.log[run] = None /\ t.log \in [Runs -> LogEntry \cup {None}]
  BY ConstantsAssumption DEF Successor, Tree
<1>2. Replacing(t, cs) \in ChangeSets \cup {None}
  BY <1>1, ConstantsAssumption DEF Replacing, Tree
<1>3. t.rev + Delta(cs) \in Nat
  BY DEF Delta, Tree
<1>4. e \in LogEntry /\ e # None
  BY <1>1, <1>2, <1>3, NoneAssumption DEF LogEntry
<1>5. u.log = [t.log EXCEPT ![run] = e]
  BY DEF Successor
<1> HIDE DEF e
<1>6. u.log[run] = e /\ \A r \in Runs \ {run} : u.log[r] = t.log[r]
  BY <1>1, <1>5
<1>7. Entries(u) = Entries(t) \cup {e}
  BY <1>1, <1>4, <1>6 DEF Entries
<1> QED
  BY <1>4, <1>6, <1>7 DEF e

LEMMA ReceiptsStay ==
  ASSUME NEW t \in Tree, NEW cs, Rooted(t), NEW u, Successor(t, u, cs)
  PROVE  /\ ~Receipt(t, cs) /\ Receipt(u, cs)
         /\ \A x \in ChangeSets : Receipt(t, x) => Receipt(u, x)
<1> DEFINE e == [cs |-> cs, rev |-> t.rev + Delta(cs), before |-> Replacing(t, cs)]
<1>0. /\ e \in LogEntry /\ u.log[RunOf[cs]] = e /\ e.cs = cs
      /\ \A r \in Runs \ {RunOf[cs]} : u.log[r] = t.log[r]
  BY SuccessorEntries
<1> HIDE DEF e
<1>1. /\ t.log[RunOf[cs]] = None /\ u.log[RunOf[cs]] \in LogEntry /\ u.log[RunOf[cs]].cs = cs
      /\ \A r \in Runs \ {RunOf[cs]} : u.log[r] = t.log[r]
  BY <1>0 DEF Successor
<1>2. ASSUME NEW x \in ChangeSets, Receipt(t, x) PROVE Receipt(u, x)
  <2>1. RunOf[x] \in Runs \ {RunOf[cs]}
    BY <1>1, <1>2, ConstantsAssumption DEF Receipt
  <2> QED
    BY <1>1, <1>2, <2>1 DEF Receipt
<1> QED
  BY <1>1, <1>2, NoneAssumption DEF Receipt

\* The history grows by a receipt that replaces what nobody has replaced, at the next revision.
LEMMA HistorySucceeds ==
  ASSUME NEW t \in Tree, NEW cs, Rooted(t), ReplacedOnce(t), Numbered(t), NEW u, Successor(t, u, cs)
  PROVE  Rooted(u) /\ ReplacedOnce(u) /\ Numbered(u)
<1> DEFINE e == [cs |-> cs, rev |-> t.rev + Delta(cs), before |-> Replacing(t, cs)]
<1>1. /\ e \in LogEntry /\ Entries(u) = Entries(t) \cup {e} /\ cs \in ChangeSets
      /\ u.objs = IF cs \in Changing THEN [t.objs EXCEPT ![TargetOf[cs]] = cs] ELSE t.objs
      /\ u.rev = t.rev + Delta(cs) /\ t.rev \in Nat
      /\ TargetOf[cs] \in Objects /\ t.objs \in [Objects -> ChangeSets \cup {None}]
  BY SuccessorEntries, ConstantsAssumption DEF Successor, Tree
<1>2. /\ ~Receipt(t, cs) /\ Receipt(u, cs) /\ cs # None
      /\ \A x \in ChangeSets : Receipt(t, x) => Receipt(u, x)
  BY <1>1, ReceiptsStay, NoneAssumption
<1>3. /\ e.cs = cs /\ e.rev = u.rev
      /\ e.before = Replacing(t, cs)
  BY <1>1
<1>4. Entries(t) \subseteq LogEntry
  BY DEF Entries, Tree
<1> HIDE DEF e
<1>5. Replacing(t, cs) # None => Replacing(t, cs) \in ChangeSets /\ Receipt(t, Replacing(t, cs))
  BY <1>1 DEF Replacing, Rooted
<1>6. \A o \in Objects : u.objs[o] # None => u.objs[o] \in ChangeSets /\ Receipt(u, u.objs[o])
  <2> SUFFICES ASSUME NEW o \in Objects, u.objs[o] # None
               PROVE  u.objs[o] \in ChangeSets /\ Receipt(u, u.objs[o])
    OBVIOUS
  <2>1. u.objs[o] = cs \/ u.objs[o] = t.objs[o]
    BY <1>1
  <2> QED
    BY <1>1, <1>2, <2>1 DEF Rooted
<1>7. \A f \in Entries(u) : f.before # None => Receipt(u, f.before)
  <2> SUFFICES ASSUME NEW f \in Entries(u), f.before # None PROVE Receipt(u, f.before)
    OBVIOUS
  <2>1. CASE f = e
    BY <1>2, <1>3, <1>5, <2>1
  <2>2. CASE f \in Entries(t)
    <3>1. Receipt(t, f.before) /\ f.before \in ChangeSets
      BY <1>4, <2>2 DEF Rooted, LogEntry
    <3> QED
      BY <1>2, <3>1
  <2> QED
    BY <1>1, <2>1, <2>2
<1>8. CASE cs \notin Changing
  <2>1. Updates(u) = Updates(t) /\ u.objs = t.objs /\ u.rev = t.rev
    BY <1>1, <1>3, <1>8 DEF Updates, Delta
  <2>2. \A f \in Updates(u) : f.before # u.objs[TargetOf[f.cs]]
    BY <2>1 DEF Rooted
  <2> QED
    BY <1>6, <1>7, <2>1, <2>2 DEF Rooted, ReplacedOnce, Numbered
<1>9. CASE cs \in Changing
  <2>1. /\ Updates(u) = Updates(t) \cup {e} /\ u.rev = t.rev + 1
        /\ e.before = t.objs[TargetOf[cs]]
        /\ u.objs[TargetOf[cs]] = cs
        /\ \A o \in Objects : o # TargetOf[cs] => u.objs[o] = t.objs[o]
    BY <1>1, <1>3, <1>9 DEF Updates, Delta, Replacing
  <2>2. \A f \in Updates(t) : f \in LogEntry /\ TargetOf[f.cs] \in Objects /\ f.before # cs
    <3> SUFFICES ASSUME NEW f \in Updates(t)
                 PROVE  f \in LogEntry /\ TargetOf[f.cs] \in Objects /\ f.before # cs
      OBVIOUS
    <3>1. f \in LogEntry /\ f \in Entries(t)
      BY <1>4 DEF Updates
    <3>2. TargetOf[f.cs] \in Objects
      BY <3>1, ConstantsAssumption DEF LogEntry
    <3>3. f.before # None => Receipt(t, f.before)
      BY <3>1 DEF Rooted
    <3> QED
      BY <1>2, <3>1, <3>2, <3>3
  <2>3. e.before # cs
    BY <1>2, <1>3, <1>5
  <2>4. \A f \in Updates(u) : f.before # u.objs[TargetOf[f.cs]]
    <3> SUFFICES ASSUME NEW f \in Updates(u) PROVE f.before # u.objs[TargetOf[f.cs]]
      OBVIOUS
    <3>1. CASE f = e
      BY <1>3, <2>1, <2>3, <3>1
    <3>2. CASE f \in Updates(t)
      BY <2>1, <2>2, <3>2 DEF Rooted
    <3> QED
      BY <2>1, <3>1, <3>2
  <2>5. ReplacedOnce(u)
    <3>1. \A f \in Updates(t) : TargetOf[f.cs] = TargetOf[cs] => f.before # e.before
      BY <2>1 DEF Rooted
    <3>2. \A f, g \in Updates(t) : TargetOf[f.cs] = TargetOf[g.cs] /\ f.before = g.before => f = g
      BY DEF ReplacedOnce
    <3> QED
      BY <1>3, <2>1, <3>1, <3>2 DEF ReplacedOnce
  <2>6. Numbered(u)
    <3>1. \A f \in Updates(t) : f.rev \in 1..t.rev
      BY DEF Numbered
    <3>2. \A f \in Updates(u) : f.rev \in 1..u.rev
      BY <1>1, <1>3, <2>1, <3>1
    <3>3. \A n \in 1..u.rev : \E f \in Updates(u) : f.rev = n
      <4> SUFFICES ASSUME NEW n \in 1..u.rev PROVE \E f \in Updates(u) : f.rev = n
        OBVIOUS
      <4>1. n \in 1..t.rev \/ n = u.rev
        BY <1>1, <2>1
      <4> QED
        BY <1>3, <2>1, <4>1 DEF Numbered
    <3>4. \A f, g \in Updates(u) : f.rev = g.rev => f = g
      <4>1. \A f \in Updates(t) : f.rev # e.rev
        BY <1>1, <1>3, <2>1, <3>1
      <4>2. \A f, g \in Updates(t) : f.rev = g.rev => f = g
        BY DEF Numbered
      <4> QED
        BY <2>1, <4>1, <4>2
    <3> QED
      BY <3>2, <3>3, <3>4 DEF Numbered
  <2> QED
    BY <1>6, <1>7, <2>4, <2>5, <2>6 DEF Rooted
<1> QED
  BY <1>8, <1>9

\* The history depends on the revision, the receipts and the objects only.
LEMMA SameHistory ==
  ASSUME NEW t, NEW u, u.log = t.log, u.objs = t.objs, u.rev = t.rev
  PROVE  /\ Rooted(t) => Rooted(u)
         /\ ReplacedOnce(t) => ReplacedOnce(u)
         /\ Numbered(t) => Numbered(u)
<1>1. Entries(u) = Entries(t) /\ Updates(u) = Updates(t)
  BY DEF Entries, Updates
<1>2. \A cs : Receipt(u, cs) <=> Receipt(t, cs)
  BY DEF Receipt
<1>3. Rooted(t) => Rooted(u)
  BY <1>1, <1>2 DEF Rooted
<1> QED
  BY <1>1, <1>3 DEF ReplacedOnce, Numbered

History == Rooted(Live) /\ ReplacedOnce(Live) /\ Numbered(Live)

LEMMA HistoryInit == KB!Init => History
<1> SUFFICES ASSUME NEW t, t.rev = 0, t.log = [r \in Runs |-> None], t.objs = [o \in Objects |-> None]
             PROVE  Rooted(t) /\ ReplacedOnce(t) /\ Numbered(t)
  BY DEF KB!Init, History
<1>1. Entries(t) = {} /\ Updates(t) = {}
  BY DEF Entries, Updates
<1> QED
  BY <1>1 DEF Rooted, ReplacedOnce, Numbered

LEMMA HistoryStep ==
  ASSUME Live \in Tree, History, [KB!Next]_(KB!vars) PROVE History'
<1> SUFFICES ASSUME NEW t, NEW u, t = Live, u = Live',
                    t \in Tree, Rooted(t), ReplacedOnce(t), Numbered(t)
             PROVE  Rooted(u) /\ ReplacedOnce(u) /\ Numbered(u)
  BY DEF History
<1>1. ASSUME NEW cs \in ChangeSets, KB!Commit(cs) PROVE Successor(t, u, cs)
  BY <1>1 DEF KB!Commit, KB!Replaced, KB!Delta, Successor, Replacing, Delta
<1>2. CASE \E cs \in ChangeSets : KB!Commit(cs)
  BY <1>1, <1>2, HistorySucceeds
<1>3. CASE ~\E cs \in ChangeSets : KB!Commit(cs)
  <2>1. u.log = t.log /\ u.objs = t.objs /\ u.rev = t.rev
    BY <1>3 DEF KB!Next, KB!Acknowledge, KB!Keep, KB!vars
  <2> QED
    BY <2>1, SameHistory
<1> QED
  BY <1>2, <1>3

LEMMA HistoryHolds == Hypothesis /\ OneChangeSetPerRun => (Spec => []History)
<1> SUFFICES ASSUME Hypothesis, OneChangeSetPerRun PROVE Spec => []History
  OBVIOUS
<1>1. Init => Linked /\ History
  BY LinkInit, RefineInit, HistoryInit
<1>2. IInv /\ Linked /\ [Next]_vars => Linked'
  BY LinkStep
<1>3. IInv /\ IInv' /\ Linked /\ History /\ [Next]_vars => History'
  BY RefineStep, LiveFactsHold, HistoryStep DEF LiveFacts
<1>4. Spec => []IInv
  BY Invariance
<1> QED
  BY <1>1, <1>2, <1>3, <1>4, PTL DEF Spec

NoUpdateIsLost == ReplacedOnce(Live)

\* No update is lost: no two committed ChangeSets have replaced the same version of an object, whatever
\* was submitted, repeated or recovered at the same time (writeKnowledgeBase, recoverKnowledgeBaseRoot).
THEOREM UpdatesAreKept == Hypothesis /\ OneChangeSetPerRun => (Spec => []NoUpdateIsLost)
<1>1. History => NoUpdateIsLost
  BY DEF History, NoUpdateIsLost
<1> QED
  BY <1>1, HistoryHolds, PTL

RevisionsAreUpdates == Numbered(Live)

\* The revision of the manifest counts the committed ChangeSets that carry operations: every number up
\* to it is the committedRevision of one of them and of no other.
THEOREM RevisionsCount == Hypothesis /\ OneChangeSetPerRun => (Spec => []RevisionsAreUpdates)
<1>1. History => RevisionsAreUpdates
  BY DEF History, RevisionsAreUpdates
<1> QED
  BY <1>1, HistoryHolds, PTL

ReceiptsAreFinal == [][/\ \A r \in Runs : Live.log[r] # None => Live'.log[r] = Live.log[r]
                       /\ Live'.rev >= Live.rev]_vars

LEMMA FinalStep ==
  ASSUME Live \in Tree, [KB!Next]_(KB!vars)
  PROVE  /\ \A r \in Runs : Live.log[r] # None => Live'.log[r] = Live.log[r]
         /\ Live'.rev >= Live.rev
<1> SUFFICES ASSUME NEW t, NEW u, t = Live, u = Live', t \in Tree
             PROVE  (\A r \in Runs : t.log[r] # None => u.log[r] = t.log[r]) /\ u.rev >= t.rev
  OBVIOUS
<1>0. t.rev \in Nat /\ t.log \in [Runs -> LogEntry \cup {None}]
  BY DEF Tree
<1>1. ASSUME NEW cs \in ChangeSets, KB!Commit(cs)
      PROVE  (\A r \in Runs : t.log[r] # None => u.log[r] = t.log[r]) /\ u.rev >= t.rev
  <2>1. /\ t.log[RunOf[cs]] = None /\ u.rev = t.rev + KB!Delta(cs)
        /\ \A r \in Runs \ {RunOf[cs]} : u.log[r] = t.log[r]
    BY <1>0, <1>1 DEF KB!Commit
  <2> QED
    BY <1>0, <2>1 DEF KB!Delta
<1>2. CASE ~\E cs \in ChangeSets : KB!Commit(cs)
  <2>1. u.log = t.log /\ u.rev = t.rev
    BY <1>2 DEF KB!Next, KB!Acknowledge, KB!Keep, KB!vars
  <2> QED
    BY <1>0, <2>1
<1> QED
  BY <1>1, <1>2

\* A receipt is never changed or dropped and the revision never goes back, at no step of a switch, a
\* recovery, an error or a crash.
THEOREM ReceiptsStayFinal == Hypothesis /\ OneChangeSetPerRun => (Spec => ReceiptsAreFinal)
<1> SUFFICES ASSUME Hypothesis, OneChangeSetPerRun PROVE Spec => ReceiptsAreFinal
  OBVIOUS
<1>1. Init => Linked
  BY LinkInit
<1>2. IInv /\ Linked /\ [Next]_vars => Linked'
  BY LinkStep
<1>3. IInv /\ IInv' /\ Linked /\ [Next]_vars =>
        [/\ \A r \in Runs : Live.log[r] # None => Live'.log[r] = Live.log[r]
         /\ Live'.rev >= Live.rev]_vars
  BY RefineStep, LiveFactsHold, FinalStep DEF LiveFacts
<1>4. Spec => []IInv
  BY Invariance
<1> QED
  BY <1>1, <1>2, <1>3, <1>4, PTL DEF Spec, ReceiptsAreFinal
=============================================================================
