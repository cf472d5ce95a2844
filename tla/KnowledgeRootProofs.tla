-------------------------- MODULE KnowledgeRootProofs --------------------------
(***************************************************************************)
(* The Knowledge Base directory stays recoverable, for every number of     *)
(* processes, callers, ChangeSets, crashes and errors.                     *)
(*                                                                         *)
(* Recoverable is not inductive: whether a step leaves the tree whole      *)
(* depends on which directories the lock holder has already dealt with.    *)
(* The invariant says so in three parts:                                   *)
(*   Ownership  a caller inside the critical section has made the lock     *)
(*              directory, and there is at most one such caller;           *)
(*   DiskOK     what the four kinds of directory entry hold between any    *)
(*              two steps, whoever runs next;                              *)
(*   HolderOK   what they hold, more precisely, at each point the holder   *)
(*              of the lock can be at.                                     *)
(***************************************************************************)
EXTENDS KnowledgeRoot, TLAPS

\* What the theorems exclude: records kept without recovery together with a fault that can leave a
\* journal behind (MCKnowledgeRoot_note03 shows why), and a failed validation together with a
\* removal that is cut short.
Hypothesis ==
    /\ "note" \in Kinds => "crash" \notin Faults /\ "ioError" \notin Faults
    /\ ~({"readError", "halfRemoval"} \subseteq Faults)

Outside == {"ready", "readLog", "readManifest", "readIndex", "acquire"}
Preparing == {"stage", "prepare", "mark"}
Switching == {"moveAside", "switching", "moveIn", "switched", "dropBackup", "dropMarker"}
Recovering == {"validate", "undo", "restore", "clean", "unmark"}
Writing == {"readLog", "readManifest", "readIndex", "decide", "refresh"} \cup Preparing \cup Switching

Whole(t) == t # None /\ t.whole
NoBackup == \A cs \in ChangeSets : backup[cs] = None
HasReceipt(t, cs) == t.log[RunOf[cs]] # None

\* A staged tree that the journal's validation accepts.
Ready(t, next) == Whole(t) /\ t.rev = next

Ownership ==
    /\ \A c \in Callers : pc[c] \in Outside <=> lock # c
    /\ \A c \in Callers : pc[c] \in Writing => work[c] = "write"
    /\ \A c \in Callers : pc[c] = "append" => work[c] = "note"
    /\ \A c \in Callers : work[c] = "note" => "note" \in Kinds
    /\ \A c \in Callers : pc[c] # "ready" /\ work[c] = "write" => req[c] # None

DiskOK ==
    \/ marker = None /\ Whole(root) /\ NoBackup
    \/ /\ marker # None
       /\ "note" \in Kinds => lock \in Callers
       /\ \A cs \in ChangeSets : cs # marker.cs => backup[cs] = None
       /\ \/ Whole(root)
          \/ /\ root = None
             /\ staging[marker.cs] # None => Ready(staging[marker.cs], marker.next)
             /\ Whole(backup[marker.cs])

\* In a transaction, the journal (once there is one) is that of the caller's request.
JournalOK(c) ==
    /\ pc[c] \in Preparing => marker = None /\ root.rev = req[c].base
    /\ pc[c] \in Switching => marker # None /\ marker.cs = req[c].cs
                              /\ marker.next = req[c].base + Delta(req[c].cs)

\* The trees of a transaction and of a recovery, point by point.
TreesOK(c) ==
    /\ "note" \in Kinds /\ marker # None => pc[c] \in Switching
    /\ pc[c] \in {"archive", "append", "decide", "refresh"} => marker = None
    /\ pc[c] \in {"mark", "moveAside", "switching", "moveIn"} =>
          /\ Ready(staging[req[c].cs], req[c].base + Delta(req[c].cs))
          /\ HasReceipt(staging[req[c].cs], req[c].cs)
    /\ pc[c] \in {"switching", "moveIn"} => root = None
    /\ pc[c] \in {"moveAside", "switched", "dropBackup", "dropMarker", "clean", "unmark"} => Whole(root)
    /\ pc[c] \in {"switched", "dropBackup", "dropMarker", "refresh"} => HasReceipt(root, req[c].cs)
    /\ pc[c] \in {"dropMarker", "unmark"} => NoBackup
    /\ pc[c] \in Recovering => marker # None
    /\ pc[c] \in {"validate", "undo", "restore"} => Whole(backup[marker.cs]) /\ staging[marker.cs] = None
    /\ pc[c] = "validate" => Ready(root, marker.next)
    /\ pc[c] = "undo" => Whole(root) /\ "readError" \in Faults
    /\ pc[c] = "restore" => root = None
    /\ pc[c] = "release" /\ outcome[c] \in Successful =>
          work[c] = "write" /\ root # None /\ HasReceipt(root, req[c].cs)

HolderOK == \A c \in Callers : lock = c => JournalOK(c) /\ TreesOK(c)

IInv == TypeOK /\ Ownership /\ DiskOK /\ HolderOK
-----------------------------------------------------------------------------
LEMMA AppliedIsTree ==
    ASSUME NEW t \in Tree, NEW q \in Request
    PROVE  /\ Applied(t, q) \in Tree
           /\ Applied(t, q).whole = t.whole
           /\ Applied(t, q).rev = t.rev + Delta(q.cs)
           /\ HasReceipt(Applied(t, q), q.cs)
<1> DEFINE entry == [cs |-> q.cs, rev |-> t.rev + Delta(q.cs), before |-> q.before]
<1>1. entry \in LogEntry /\ t.rev + Delta(q.cs) \in Nat
  BY DEF LogEntry, Request, Tree, Delta
<1>2. [t.log EXCEPT ![RunOf[q.cs]] = entry] \in [Runs -> LogEntry \cup {None}]
  BY <1>1 DEF Tree
<1>3. [t.objs EXCEPT ![TargetOf[q.cs]] = q.cs] \in [Objects -> ChangeSets \cup {None}]
  BY DEF Tree, Request
<1>4. RunOf[q.cs] \in Runs
  BY ConstantsAssumption DEF Request
<1>5. (Schema = "0.4") \in BOOLEAN
  OBVIOUS
<1> QED
  BY <1>1, <1>2, <1>3, <1>4, <1>5, NoneAssumption DEF Applied, HasReceipt, Tree

LEMMA FreshAndPartialAreTrees == Fresh \in Tree /\ Partial \in Tree
  BY NoneAssumption DEF Fresh, Partial, Tree

LEMMA VerdictIsOutcome == ASSUME NEW c \in Callers PROVE Verdict(c) \in Outcomes \cup {"apply"}
  BY DEF Verdict, ReplayVerdict, Outcomes

\* A caller inside the Writer has a request.
LEMMA WriterHasRequest ==
    ASSUME TypeOK, Ownership, NEW c \in Callers, pc[c] \in Writing
    PROVE  req[c] \in Request /\ req[c].cs \in ChangeSets /\ req[c].base \in Nat /\ work[c] = "write"
  BY DEF TypeOK, Ownership, Request, Writing, Preparing, Switching

LEMMA JournalIsTyped ==
    ASSUME TypeOK, Ownership, NEW c \in Callers, pc[c] \in Writing, NEW status \in {"staged", "switching", "committed", "torn"}
    PROVE  JournalOf(c, status) \in Journal
  BY WriterHasRequest DEF JournalOf, Journal, Delta

LEMMA TypeInit == Init => TypeOK
  BY ConstantsAssumption, FreshAndPartialAreTrees DEF Init, TypeOK, Locations, AllKinds, Outcomes

LEMMA TypeStep == IInv /\ [Next]_vars => TypeOK'
<1> SUFFICES ASSUME IInv, [Next]_vars PROVE TypeOK'
  OBVIOUS
<1> USE ConstantsAssumption DEF Goto, Result, ReturnLocked, ReturnUnlocked, disk, local, faultCounts, Locations, Outcomes, IInv
<1>1. ASSUME NEW c \in Callers, ReadLog(c) PROVE TypeOK'
  BY <1>1 DEF ReadLog, TypeOK
<1>2. ASSUME NEW c \in Callers, ReadManifest(c) PROVE TypeOK'
  BY <1>2 DEF ReadManifest, TypeOK
<1>3. ASSUME NEW c \in Callers, ReadIndex(c) PROVE TypeOK'
  BY <1>3 DEF ReadIndex, TypeOK
<1>4. ASSUME NEW c \in Callers, Acquire(c) PROVE TypeOK'
  BY <1>4 DEF Acquire, TypeOK
<1>5. ASSUME NEW c \in Callers, AlreadyHeld(c) PROVE TypeOK'
  BY <1>5 DEF AlreadyHeld, TypeOK
<1>6. ASSUME NEW c \in Callers, Release(c) PROVE TypeOK'
  BY <1>6, NoneAssumption DEF Release, TypeOK, Ownership, HolderOK, TreesOK, HasReceipt, Outside, Successful, Request, Tree
<1>7. ASSUME NEW c \in Callers, NothingToRecover(c) PROVE TypeOK'
  BY <1>7 DEF NothingToRecover, TypeOK, AfterRecovery
<1>8. ASSUME NEW c \in Callers, RecoverIllegible(c) PROVE TypeOK'
  BY <1>8 DEF RecoverIllegible, TypeOK
<1>9. ASSUME NEW c \in Callers, RecoverForward(c) PROVE TypeOK'
  BY <1>9 DEF RecoverForward, TypeOK, Pending, Journal
<1>10. ASSUME NEW c \in Callers, RecoverBackward(c) PROVE TypeOK'
  BY <1>10 DEF RecoverBackward, TypeOK, Pending, Journal
<1>11. ASSUME NEW c \in Callers, RecoverKeep(c) PROVE TypeOK'
  BY <1>11 DEF RecoverKeep, TypeOK, Pending, Journal
<1>12. ASSUME NEW c \in Callers, Validate(c) PROVE TypeOK'
  BY <1>12 DEF Validate, TypeOK
<1>13. ASSUME NEW c \in Callers, Undo(c) PROVE TypeOK'
  BY <1>13 DEF Undo, TypeOK
<1>14. ASSUME NEW c \in Callers, Restore(c) PROVE TypeOK'
  <2>1. c = lock
    BY <1>14 DEF Restore, Ownership, Outside
  <2>2. marker # None
    BY <1>14, <2>1 DEF Restore, HolderOK, TreesOK, Recovering
  <2>3. marker.cs \in ChangeSets
    BY <2>2 DEF TypeOK, Journal
  <2> QED
    BY <1>14, <2>3 DEF Restore, TypeOK
<1>15. ASSUME NEW c \in Callers, Clean(c) PROVE TypeOK'
  BY <1>15 DEF Clean, TypeOK
<1>16. ASSUME NEW c \in Callers, Unmark(c) PROVE TypeOK'
  BY <1>16 DEF Unmark, TypeOK, AfterRecovery
<1>17. ASSUME NEW c \in Callers, Archive(c) PROVE TypeOK'
  <2>1. root' \in Tree \cup {None}
    <3>1. root \in Tree \cup {None}
      BY DEF TypeOK
    <3>2. CASE RootReadable
      <4>1. root \in Tree /\ root' = [root EXCEPT !.notes = root.notes \cup {c}]
        BY <1>17, <3>1, <3>2 DEF Archive, RootReadable
      <4> QED
        BY <1>17, <4>1 DEF Tree
    <3>3. CASE ~RootReadable
      BY <1>17, <3>1, <3>3 DEF Archive
    <3> QED
      BY <3>2, <3>3
  <2>2. pc' \in [Callers -> Locations] /\ outcome' \in [Callers -> Outcomes]
    BY <1>17 DEF Archive, TypeOK
  <2> QED
    BY <1>17, <2>1, <2>2 DEF Archive, TypeOK
<1>18. ASSUME NEW c \in Callers, Append(c) PROVE TypeOK'
  BY <1>18, FreshAndPartialAreTrees DEF Append, TypeOK, Tree
<1>19. ASSUME NEW c \in Callers, Decide(c) PROVE TypeOK'
  BY <1>19, VerdictIsOutcome DEF Decide, TypeOK
<1>20. ASSUME NEW c \in Callers, Stage(c) PROVE TypeOK'
  BY <1>20, FreshAndPartialAreTrees DEF Stage, TypeOK
<1>21. ASSUME NEW c \in Callers, Prepare(c) PROVE TypeOK'
  <2> USE <1>21 DEF Prepare
  <2>1. req[c] \in Request
    BY WriterHasRequest DEF Writing, Preparing
  <2>2. root \in Tree
    BY DEF Ownership, Outside, HolderOK, JournalOK, Preparing, DiskOK, Whole, TypeOK
  <2>3. Applied(root, req[c]) \in Tree
    BY <2>1, <2>2, AppliedIsTree
  <2> QED
    BY <2>1, <2>3 DEF TypeOK
<1>22. ASSUME NEW c \in Callers, Mark(c) PROVE TypeOK'
  BY <1>22, JournalIsTyped DEF Mark, TypeOK, WriteMarker, Writing, Preparing, Switching
<1>23. ASSUME NEW c \in Callers, MoveAside(c) PROVE TypeOK'
  BY <1>23 DEF MoveAside, TypeOK
<1>24. ASSUME NEW c \in Callers, MarkSwitching(c) PROVE TypeOK'
  BY <1>24, JournalIsTyped DEF MarkSwitching, TypeOK, WriteMarker, Writing, Preparing, Switching
<1>25. ASSUME NEW c \in Callers, MoveIn(c) PROVE TypeOK'
  BY <1>25, WriterHasRequest DEF MoveIn, TypeOK, Writing, Preparing, Switching
<1>26. ASSUME NEW c \in Callers, MarkCommitted(c) PROVE TypeOK'
  BY <1>26, JournalIsTyped DEF MarkCommitted, TypeOK, WriteMarker, Writing, Preparing, Switching
<1>27. ASSUME NEW c \in Callers, DropBackup(c) PROVE TypeOK'
  BY <1>27 DEF DropBackup, TypeOK
<1>28. ASSUME NEW c \in Callers, DropMarker(c) PROVE TypeOK'
  BY <1>28 DEF DropMarker, TypeOK
<1>29. ASSUME NEW c \in Callers, Refresh(c) PROVE TypeOK'
  <2>1. root \in Tree
    BY <1>29 DEF Refresh, Ownership, Outside, HolderOK, TreesOK, DiskOK, Whole, TypeOK
  <2> QED
    BY <1>29, <2>1 DEF Refresh, TypeOK, Tree
<1>30. ASSUME NEW c \in Callers, ValidateFails(c) PROVE TypeOK'
  BY <1>30 DEF ValidateFails, TypeOK
<1>31. ASSUME NEW c \in Callers, FailBeforeJournal(c) PROVE TypeOK'
  BY <1>31, WriterHasRequest DEF FailBeforeJournal, TypeOK, IOError, BeforeJournal, Writing, Preparing, Switching
<1>32. ASSUME NEW c \in Callers, FailInPlace(c) PROVE TypeOK'
  BY <1>32 DEF FailInPlace, TypeOK, IOError
<1>33. ASSUME NEW c \in Callers, FailRelease(c) PROVE TypeOK'
  BY <1>33 DEF FailRelease, TypeOK, IOError
<1>34. ASSUME NEW c \in Callers, FailUnlocked(c) PROVE TypeOK'
  BY <1>34 DEF FailUnlocked, TypeOK, IOError
<1>35. ASSUME NEW c \in Callers, FailHalfway(c) PROVE TypeOK'
  BY <1>35, JournalIsTyped, FreshAndPartialAreTrees DEF FailHalfway, TypeOK, IOError, Torn, HalfRemoved, MarkerWrites, Pending, Journal, Writing, Preparing, Switching
<1>36. ASSUME NEW c \in Callers, Mount(c) PROVE TypeOK'
  BY <1>36 DEF Mount, TypeOK, RootReadable, Tree
<1>37. ASSUME NEW c \in Callers, Submit(c) PROVE TypeOK'
  BY <1>37 DEF Submit, TypeOK, AllKinds
<1>38. ASSUME NEW c \in Callers, NEW cs \in ChangeSets, Plan(c, cs) PROVE TypeOK'
  BY <1>38 DEF Plan, TypeOK, RootReadable, Tree, Request
<1>39. ASSUME NEW c \in Callers, NEW kind \in AllKinds, Start(c, kind) PROVE TypeOK'
  BY <1>39 DEF Start, TypeOK
<1>40. ASSUME NEW p \in Procs, Crash(p) PROVE TypeOK'
  <2> DEFINE dead == {c \in Callers : ProcOf[c] = p}
  <2> DEFINE DiskTyped ==
        /\ root' \in Tree \cup {None}
        /\ staging' \in [ChangeSets -> Tree \cup {None}]
        /\ backup' \in [ChangeSets -> Tree \cup {None}]
        /\ marker' \in Journal \cup {None}
  <2>1. DiskTyped
    <3>1. CASE UNCHANGED disk
      BY <3>1 DEF TypeOK
    <3>2. ASSUME NEW c \in dead, Torn(c) \/ HalfRemoved(c)
          PROVE  DiskTyped
      BY <3>2, JournalIsTyped, FreshAndPartialAreTrees
      DEF Torn, HalfRemoved, MarkerWrites, Pending, TypeOK, Journal, Writing, Preparing, Switching
    <3> QED
      BY <1>40, <3>1, <3>2 DEF Crash
  <2>2. pc' \in [Callers -> Locations] /\ handle' \in [Callers -> Nat \cup {None}]
        /\ req' \in [Callers -> Request \cup {None}] /\ prior' \in [Callers -> BOOLEAN]
        /\ outcome' \in [Callers -> Outcomes]
    BY <1>40 DEF Crash, TypeOK
  <2>3. UNCHANGED <<work, acked, errors>> /\ lock' \in {lock, Stale} /\ crashes' \in 0..MaxCrashes
    BY <1>40 DEF Crash, TypeOK
  <2> QED
    BY <2>1, <2>2, <2>3 DEF TypeOK
<1>41. CASE ClearStaleLock
  BY <1>41 DEF ClearStaleLock, TypeOK
<1>42. CASE UNCHANGED vars
  BY <1>42 DEF vars, TypeOK
<1> QED
  BY <1>1, <1>2, <1>3, <1>4, <1>5, <1>6, <1>7, <1>8, <1>9, <1>10, <1>11, <1>12, <1>13, <1>14, <1>15, <1>16, <1>17, <1>18, <1>19, <1>20, <1>21, <1>22, <1>23, <1>24, <1>25, <1>26, <1>27, <1>28, <1>29, <1>30, <1>31, <1>32, <1>33, <1>34, <1>35, <1>36, <1>37, <1>38, <1>39, <1>40, <1>41, <1>42 DEF Next, Progress, Errors

LEMMA OwnershipInit == Init => Ownership
  BY ConstantsAssumption DEF Init, Ownership, Outside, Writing, Preparing, Switching

LEMMA OwnershipStep == Hypothesis /\ IInv /\ [Next]_vars => Ownership'
<1> SUFFICES ASSUME Hypothesis, IInv, [Next]_vars PROVE Ownership'
  OBVIOUS
<1> USE ConstantsAssumption, NoneAssumption
    DEF Goto, Result, ReturnLocked, ReturnUnlocked, disk, local, faultCounts, Ownership,
        Outside, Writing, Preparing, Switching
<1>0. TypeOK /\ Ownership
  BY DEF IInv
<1>1. ASSUME NEW c \in Callers, ReadLog(c) PROVE Ownership'
  BY <1>0, <1>1 DEF ReadLog, TypeOK
<1>2. ASSUME NEW c \in Callers, ReadManifest(c) PROVE Ownership'
  BY <1>0, <1>2 DEF ReadManifest, TypeOK, RootReadable
<1>3. ASSUME NEW c \in Callers, ReadIndex(c) PROVE Ownership'
  BY <1>0, <1>3 DEF ReadIndex, TypeOK, RootReadable
<1>4. ASSUME NEW c \in Callers, Acquire(c) PROVE Ownership'
  BY <1>0, <1>4 DEF Acquire, TypeOK
<1>5. ASSUME NEW c \in Callers, AlreadyHeld(c) PROVE Ownership'
  BY <1>0, <1>5 DEF AlreadyHeld, TypeOK
<1>6. ASSUME NEW c \in Callers, Release(c) PROVE Ownership'
  BY <1>0, <1>6 DEF Release, TypeOK
<1>7. ASSUME NEW c \in Callers, NothingToRecover(c) PROVE Ownership'
  BY <1>0, <1>7 DEF NothingToRecover, TypeOK, AfterRecovery
<1>8. ASSUME NEW c \in Callers, RecoverIllegible(c) PROVE Ownership'
  BY <1>0, <1>8 DEF RecoverIllegible, TypeOK
<1>9. ASSUME NEW c \in Callers, RecoverForward(c) PROVE Ownership'
  BY <1>0, <1>9 DEF RecoverForward, TypeOK, Pending
<1>10. ASSUME NEW c \in Callers, RecoverBackward(c) PROVE Ownership'
  BY <1>0, <1>10 DEF RecoverBackward, TypeOK, Pending
<1>11. ASSUME NEW c \in Callers, RecoverKeep(c) PROVE Ownership'
  BY <1>0, <1>11 DEF RecoverKeep, TypeOK, Pending
<1>12. ASSUME NEW c \in Callers, Validate(c) PROVE Ownership'
  BY <1>0, <1>12 DEF Validate, TypeOK
<1>13. ASSUME NEW c \in Callers, Undo(c) PROVE Ownership'
  BY <1>0, <1>13 DEF Undo, TypeOK
<1>14. ASSUME NEW c \in Callers, Restore(c) PROVE Ownership'
  BY <1>0, <1>14 DEF Restore, TypeOK
<1>15. ASSUME NEW c \in Callers, Clean(c) PROVE Ownership'
  BY <1>0, <1>15 DEF Clean, TypeOK
<1>16. ASSUME NEW c \in Callers, Unmark(c) PROVE Ownership'
  BY <1>0, <1>16 DEF Unmark, TypeOK, AfterRecovery
<1>17. ASSUME NEW c \in Callers, Archive(c) PROVE Ownership'
  BY <1>0, <1>17 DEF Archive, TypeOK
<1>18. ASSUME NEW c \in Callers, Append(c) PROVE Ownership'
  BY <1>0, <1>18 DEF Append, TypeOK
<1>19. ASSUME NEW c \in Callers, Decide(c) PROVE Ownership'
  BY <1>0, <1>19 DEF Decide, TypeOK
<1>20. ASSUME NEW c \in Callers, Stage(c) PROVE Ownership'
  BY <1>0, <1>20 DEF Stage, TypeOK
<1>21. ASSUME NEW c \in Callers, Prepare(c) PROVE Ownership'
  BY <1>0, <1>21 DEF Prepare, TypeOK
<1>22. ASSUME NEW c \in Callers, Mark(c) PROVE Ownership'
  BY <1>0, <1>22 DEF Mark, TypeOK, WriteMarker
<1>23. ASSUME NEW c \in Callers, MoveAside(c) PROVE Ownership'
  BY <1>0, <1>23 DEF MoveAside, TypeOK
<1>24. ASSUME NEW c \in Callers, MarkSwitching(c) PROVE Ownership'
  BY <1>0, <1>24 DEF MarkSwitching, TypeOK, WriteMarker
<1>25. ASSUME NEW c \in Callers, MoveIn(c) PROVE Ownership'
  BY <1>0, <1>25 DEF MoveIn, TypeOK
<1>26. ASSUME NEW c \in Callers, MarkCommitted(c) PROVE Ownership'
  BY <1>0, <1>26 DEF MarkCommitted, TypeOK, WriteMarker
<1>27. ASSUME NEW c \in Callers, DropBackup(c) PROVE Ownership'
  BY <1>0, <1>27 DEF DropBackup, TypeOK
<1>28. ASSUME NEW c \in Callers, DropMarker(c) PROVE Ownership'
  BY <1>0, <1>28 DEF DropMarker, TypeOK
<1>29. ASSUME NEW c \in Callers, Refresh(c) PROVE Ownership'
  BY <1>0, <1>29 DEF Refresh, TypeOK
<1>30. ASSUME NEW c \in Callers, ValidateFails(c) PROVE Ownership'
  BY <1>0, <1>30 DEF ValidateFails, TypeOK
<1>31. ASSUME NEW c \in Callers, FailBeforeJournal(c) PROVE Ownership'
  BY <1>0, <1>31 DEF FailBeforeJournal, TypeOK, BeforeJournal
<1>32. ASSUME NEW c \in Callers, FailInPlace(c) PROVE Ownership'
  BY <1>0, <1>32 DEF FailInPlace, TypeOK, WithJournal, InRecovery, Elsewhere
<1>33. ASSUME NEW c \in Callers, FailRelease(c) PROVE Ownership'
  BY <1>0, <1>33 DEF FailRelease, TypeOK
<1>34. ASSUME NEW c \in Callers, FailUnlocked(c) PROVE Ownership'
  BY <1>0, <1>34 DEF FailUnlocked, TypeOK
<1>35. ASSUME NEW c \in Callers, FailHalfway(c) PROVE Ownership'
  BY <1>0, <1>35 DEF FailHalfway, TypeOK, Torn, HalfRemoved, MarkerWrites, Pending
<1>36. ASSUME NEW c \in Callers, Mount(c) PROVE Ownership'
  BY <1>0, <1>36 DEF Mount, TypeOK
<1>37. ASSUME NEW c \in Callers, Submit(c) PROVE Ownership'
  BY <1>0, <1>37 DEF Submit, TypeOK
<1>38. ASSUME NEW c \in Callers, NEW cs \in ChangeSets, Plan(c, cs) PROVE Ownership'
  BY <1>0, <1>38 DEF Plan, TypeOK
<1>39. ASSUME NEW c \in Callers, NEW kind \in AllKinds, Start(c, kind) PROVE Ownership'
  BY <1>0, <1>39 DEF Start, TypeOK, Hypothesis
<1>40. ASSUME NEW p \in Procs, Crash(p) PROVE Ownership'
  BY <1>0, <1>40 DEF Crash, TypeOK
<1>41. CASE ClearStaleLock
  BY <1>0, <1>41 DEF ClearStaleLock, TypeOK
<1>42. CASE UNCHANGED vars
  BY <1>0, <1>42 DEF vars
<1> QED
  BY <1>1, <1>2, <1>3, <1>4, <1>5, <1>6, <1>7, <1>8, <1>9, <1>10, <1>11, <1>12, <1>13, <1>14, <1>15, <1>16, <1>17, <1>18, <1>19, <1>20, <1>21, <1>22, <1>23, <1>24, <1>25, <1>26, <1>27, <1>28, <1>29, <1>30, <1>31, <1>32, <1>33, <1>34, <1>35, <1>36, <1>37, <1>38, <1>39, <1>40, <1>41, <1>42 DEF Next, Progress, Errors

LEMMA DiskInit == Init => DiskOK /\ HolderOK
<1>1. Fresh # None /\ Fresh.whole
  BY NoneAssumption, FreshAndPartialAreTrees DEF Fresh
<1> QED
  BY <1>1, ConstantsAssumption DEF Init, DiskOK, HolderOK, Whole, NoBackup

\* A caller outside the critical section disturbs neither the disk nor the holder.
LEMMA Bystander ==
    ASSUME IInv, NEW c \in Callers, lock # c, UNCHANGED <<disk, lock>>,
           \A d \in Callers \ {c} : /\ pc'[d] = pc[d] /\ work'[d] = work[d]
                                    /\ req'[d] = req[d] /\ outcome'[d] = outcome[d]
    PROVE  DiskOK' /\ HolderOK'
<1>1. DiskOK'
  BY DEF IInv, DiskOK, NoBackup, disk, Whole, Ready
<1>2. ASSUME NEW d \in Callers, lock' = d PROVE (JournalOK(d) /\ TreesOK(d))'
  <2>1. d # c /\ lock = d /\ JournalOK(d) /\ TreesOK(d)
    BY <1>2 DEF IInv, HolderOK
  <2> QED
    BY <2>1 DEF JournalOK, TreesOK, NoBackup, disk, Whole, Ready, HasReceipt
<1> QED
  BY <1>1, <1>2 DEF HolderOK

\* What the holder of the lock can rely on.
Inside(c) ==
    /\ lock = c /\ JournalOK(c) /\ TreesOK(c)
    /\ TypeOK /\ DiskOK
    /\ pc[c] \in Writing => req[c] \in Request /\ work[c] = "write"

LEMMA HolderIs == ASSUME IInv, NEW c \in Callers, pc[c] \notin Outside PROVE Inside(c)
  BY WriterHasRequest DEF IInv, Ownership, HolderOK, Inside

\* The holder's step only has to re-establish what holds at its own next point.
LEMMA HolderAlone ==
    ASSUME NEW c \in Callers, lock = c, lock' = lock, (JournalOK(c) /\ TreesOK(c))'
    PROVE  HolderOK'
  BY DEF HolderOK

LEMMA HolderEnters ==
    ASSUME NEW c \in Callers, lock' = c, (JournalOK(c) /\ TreesOK(c))'
    PROVE  HolderOK'
  BY DEF HolderOK

LEMMA DiskStep == Hypothesis /\ IInv /\ [Next]_vars => DiskOK' /\ HolderOK'
<1> SUFFICES ASSUME Hypothesis, IInv, [Next]_vars PROVE DiskOK' /\ HolderOK'
  OBVIOUS
<1> USE ConstantsAssumption, NoneAssumption
    DEF Goto, Result, ReturnLocked, ReturnUnlocked, disk, local, faultCounts, Outside
<1>0. TypeOK /\ Ownership /\ DiskOK /\ HolderOK
  BY DEF IInv
<1>1. ASSUME NEW c \in Callers, ReadLog(c) PROVE DiskOK' /\ HolderOK'
  BY <1>0, <1>1, Bystander DEF ReadLog, TypeOK, Ownership, RootReadable
<1>2. ASSUME NEW c \in Callers, ReadManifest(c) PROVE DiskOK' /\ HolderOK'
  BY <1>0, <1>2, Bystander DEF ReadManifest, TypeOK, Ownership, RootReadable
<1>3. ASSUME NEW c \in Callers, ReadIndex(c) PROVE DiskOK' /\ HolderOK'
  BY <1>0, <1>3, Bystander DEF ReadIndex, TypeOK, Ownership, RootReadable
<1>4. ASSUME NEW c \in Callers, AlreadyHeld(c) PROVE DiskOK' /\ HolderOK'
  BY <1>0, <1>4, Bystander DEF AlreadyHeld, TypeOK, Ownership, RootReadable
<1>5. ASSUME NEW c \in Callers, FailUnlocked(c) PROVE DiskOK' /\ HolderOK'
  BY <1>0, <1>5, Bystander DEF FailUnlocked, TypeOK, Ownership, RootReadable
<1>6. ASSUME NEW c \in Callers, Mount(c) PROVE DiskOK' /\ HolderOK'
  BY <1>0, <1>6, Bystander DEF Mount, TypeOK, Ownership
<1>7. ASSUME NEW c \in Callers, Submit(c) PROVE DiskOK' /\ HolderOK'
  BY <1>0, <1>7, Bystander DEF Submit, TypeOK, Ownership
<1>8. ASSUME NEW c \in Callers, NEW cs \in ChangeSets, Plan(c, cs) PROVE DiskOK' /\ HolderOK'
  BY <1>0, <1>8, Bystander DEF Plan, TypeOK, Ownership
<1>9. ASSUME NEW c \in Callers, NEW kind \in AllKinds, Start(c, kind) PROVE DiskOK' /\ HolderOK'
  BY <1>0, <1>9, Bystander DEF Start, TypeOK, Ownership
<1>10. CASE UNCHANGED vars
  <2>1. DiskOK'
    BY <1>0, <1>10 DEF vars, DiskOK, Whole, Ready, NoBackup
  <2>2. ASSUME NEW c \in Callers, lock' = c PROVE (JournalOK(c) /\ TreesOK(c))'
    <3>1. JournalOK(c) /\ TreesOK(c)
      BY <1>0, <1>10, <2>2 DEF vars, HolderOK
    <3> QED
      BY <1>10, <3>1 DEF vars, JournalOK, TreesOK, Whole, Ready, NoBackup, HasReceipt
  <2> QED
    BY <2>1, <2>2 DEF HolderOK
<1> USE DEF DiskOK, Whole, Ready, NoBackup
<1>11. ASSUME NEW c \in Callers, Release(c) PROVE DiskOK' /\ HolderOK'
  <2>1. "note" \in Kinds => marker = None
    BY <1>11, HolderIs DEF Release, Inside, TreesOK, Switching
  <2> QED
    BY <1>0, <1>11, <2>1 DEF Release, HolderOK
<1>12. ASSUME NEW c \in Callers, FailRelease(c) PROVE DiskOK' /\ HolderOK'
  <2>1. "note" \notin Kinds
    BY <1>12 DEF FailRelease, IOError, Hypothesis
  <2> QED
    BY <1>0, <1>12, <2>1 DEF FailRelease, HolderOK
<1>13. CASE ClearStaleLock
  BY <1>0, <1>13 DEF ClearStaleLock, HolderOK
<1> USE DEF TypeOK, JournalOK, TreesOK, Preparing, Switching, Recovering, HasReceipt, Inside, Writing,
            Journal, Tree, Request
<1>14. ASSUME NEW c \in Callers, Acquire(c) PROVE DiskOK' /\ HolderOK'
  <2>1. (JournalOK(c) /\ TreesOK(c))'
    BY <1>0, <1>14 DEF Acquire, Ownership
  <2>2. DiskOK'
    BY <1>0, <1>14 DEF Acquire
  <2>3. lock' = c
    BY <1>14 DEF Acquire
  <2> QED
    BY <2>1, <2>2, <2>3, HolderEnters
<1>15. ASSUME NEW c \in Callers, NothingToRecover(c) PROVE DiskOK' /\ HolderOK'
  <2>1. Inside(c)
    BY <1>15, HolderIs DEF NothingToRecover
  <2>2. DiskOK'
    BY <1>15, <2>1 DEF NothingToRecover, AfterRecovery
  <2>3. (JournalOK(c) /\ TreesOK(c))'
    BY <1>15, <2>1 DEF NothingToRecover, AfterRecovery
  <2> QED
    BY <1>15, <2>1, <2>2, <2>3, HolderAlone DEF NothingToRecover
<1>16. ASSUME NEW c \in Callers, RecoverIllegible(c) PROVE DiskOK' /\ HolderOK'
  <2>1. Inside(c)
    BY <1>16, HolderIs DEF RecoverIllegible
  <2>2. DiskOK'
    BY <1>16, <2>1 DEF RecoverIllegible, Successful
  <2>3. (JournalOK(c) /\ TreesOK(c))'
    BY <1>16, <2>1 DEF RecoverIllegible, Successful
  <2> QED
    BY <1>16, <2>1, <2>2, <2>3, HolderAlone DEF RecoverIllegible
<1>17. ASSUME NEW c \in Callers, RecoverForward(c) PROVE DiskOK' /\ HolderOK'
  <2>1. Inside(c)
    BY <1>17, HolderIs DEF RecoverForward, Pending
  <2>2. DiskOK'
    BY <1>17, <2>1 DEF RecoverForward, Pending
  <2>3. (JournalOK(c) /\ TreesOK(c))'
    BY <1>17, <2>1 DEF RecoverForward, Pending
  <2> QED
    BY <1>17, <2>1, <2>2, <2>3, HolderAlone DEF RecoverForward
<1>18. ASSUME NEW c \in Callers, RecoverBackward(c) PROVE DiskOK' /\ HolderOK'
  <2>1. Inside(c)
    BY <1>18, HolderIs DEF RecoverBackward, Pending
  <2>2. DiskOK'
    BY <1>18, <2>1 DEF RecoverBackward, Pending
  <2>3. (JournalOK(c) /\ TreesOK(c))'
    BY <1>18, <2>1 DEF RecoverBackward, Pending
  <2> QED
    BY <1>18, <2>1, <2>2, <2>3, HolderAlone DEF RecoverBackward
<1>19. ASSUME NEW c \in Callers, RecoverKeep(c) PROVE DiskOK' /\ HolderOK'
  <2>1. Inside(c)
    BY <1>19, HolderIs DEF RecoverKeep, Pending
  <2>2. DiskOK'
    BY <1>19, <2>1 DEF RecoverKeep, Pending
  <2>3. (JournalOK(c) /\ TreesOK(c))'
    BY <1>19, <2>1 DEF RecoverKeep, Pending
  <2> QED
    BY <1>19, <2>1, <2>2, <2>3, HolderAlone DEF RecoverKeep
<1>20. ASSUME NEW c \in Callers, Validate(c) PROVE DiskOK' /\ HolderOK'
  <2>1. Inside(c)
    BY <1>20, HolderIs DEF Validate
  <2>2. DiskOK'
    BY <1>20, <2>1 DEF Validate
  <2>3. (JournalOK(c) /\ TreesOK(c))'
    BY <1>20, <2>1 DEF Validate
  <2> QED
    BY <1>20, <2>1, <2>2, <2>3, HolderAlone DEF Validate
<1>21. ASSUME NEW c \in Callers, Undo(c) PROVE DiskOK' /\ HolderOK'
  <2>1. Inside(c)
    BY <1>21, HolderIs DEF Undo
  <2>2. DiskOK'
    BY <1>21, <2>1 DEF Undo
  <2>3. (JournalOK(c) /\ TreesOK(c))'
    BY <1>21, <2>1 DEF Undo
  <2> QED
    BY <1>21, <2>1, <2>2, <2>3, HolderAlone DEF Undo
<1>22. ASSUME NEW c \in Callers, Restore(c) PROVE DiskOK' /\ HolderOK'
  <2>1. Inside(c)
    BY <1>22, HolderIs DEF Restore
  <2>2. DiskOK'
    BY <1>22, <2>1 DEF Restore, Successful
  <2>3. (JournalOK(c) /\ TreesOK(c))'
    BY <1>22, <2>1 DEF Restore, Successful
  <2> QED
    BY <1>22, <2>1, <2>2, <2>3, HolderAlone DEF Restore
<1>23. ASSUME NEW c \in Callers, Clean(c) PROVE DiskOK' /\ HolderOK'
  <2>1. Inside(c)
    BY <1>23, HolderIs DEF Clean
  <2>2. DiskOK'
    BY <1>23, <2>1 DEF Clean
  <2>3. (JournalOK(c) /\ TreesOK(c))'
    BY <1>23, <2>1 DEF Clean
  <2> QED
    BY <1>23, <2>1, <2>2, <2>3, HolderAlone DEF Clean
<1>24. ASSUME NEW c \in Callers, Unmark(c) PROVE DiskOK' /\ HolderOK'
  <2>1. Inside(c)
    BY <1>24, HolderIs DEF Unmark
  <2>2. DiskOK'
    BY <1>24, <2>1 DEF Unmark, AfterRecovery
  <2>3. (JournalOK(c) /\ TreesOK(c))'
    BY <1>24, <2>1 DEF Unmark, AfterRecovery
  <2> QED
    BY <1>24, <2>1, <2>2, <2>3, HolderAlone DEF Unmark
<1>25. ASSUME NEW c \in Callers, Archive(c) PROVE DiskOK' /\ HolderOK'
  <2>1. Inside(c)
    BY <1>25, HolderIs DEF Archive
  <2>2. DiskOK'
    BY <1>25, <2>1 DEF Archive, RootReadable, Successful
  <2>3. (JournalOK(c) /\ TreesOK(c))'
    BY <1>25, <2>1 DEF Archive, RootReadable, Successful
  <2> QED
    BY <1>25, <2>1, <2>2, <2>3, HolderAlone DEF Archive
<1>26. ASSUME NEW c \in Callers, Append(c) PROVE DiskOK' /\ HolderOK'
  <2>1. Inside(c)
    BY <1>26, HolderIs DEF Append
  <2>2. DiskOK'
    BY <1>26, <2>1 DEF Append, Successful
  <2>3. (JournalOK(c) /\ TreesOK(c))'
    BY <1>26, <2>1 DEF Append, Successful
  <2> QED
    BY <1>26, <2>1, <2>2, <2>3, HolderAlone DEF Append
<1>27. ASSUME NEW c \in Callers, Decide(c) PROVE DiskOK' /\ HolderOK'
  <2>1. Inside(c)
    BY <1>27, HolderIs DEF Decide
  <2>2. DiskOK'
    BY <1>27, <2>1 DEF Decide, Verdict, ReplayVerdict, HasPrior, RootReadable, Successful
  <2>3. (JournalOK(c) /\ TreesOK(c))'
    <3>1. CASE Verdict(c) = "apply"
      <4>0. pc \in [Callers -> Locations]
        BY <1>0
      <4>1. pc'[c] = "stage" /\ UNCHANGED <<disk, req, work, outcome>>
        BY <1>27, <3>1, <4>0 DEF Decide
      <4>2. marker = None
        BY <1>27, <2>1 DEF Decide
      <4>3. root.rev = req[c].base
        BY <3>1 DEF Verdict, ReplayVerdict
      <4> QED
        BY <4>1, <4>2, <4>3
    <3>2. CASE Verdict(c) # "apply"
      <4>0. pc \in [Callers -> Locations] /\ outcome \in [Callers -> Outcomes]
        BY <1>0
      <4>1. pc'[c] = "release" /\ outcome'[c] = Verdict(c) /\ UNCHANGED <<disk, req, work>>
        BY <1>27, <3>2, <4>0 DEF Decide
      <4>2. Verdict(c) \in Successful => work[c] = "write" /\ root # None /\ HasReceipt(root, req[c].cs)
        BY <1>27, <2>1 DEF Decide, Verdict, ReplayVerdict, HasPrior, RootReadable, Successful
      <4>3. marker = None
        BY <1>27, <2>1 DEF Decide
      <4> QED
        BY <4>1, <4>2, <4>3
    <3> QED
      BY <3>1, <3>2
  <2> QED
    BY <1>27, <2>1, <2>2, <2>3, HolderAlone DEF Decide
<1>28. ASSUME NEW c \in Callers, Stage(c) PROVE DiskOK' /\ HolderOK'
  <2>1. Inside(c)
    BY <1>28, HolderIs DEF Stage
  <2>2. DiskOK'
    BY <1>28, <2>1 DEF Stage
  <2>3. (JournalOK(c) /\ TreesOK(c))'
    BY <1>28, <2>1 DEF Stage
  <2> QED
    BY <1>28, <2>1, <2>2, <2>3, HolderAlone DEF Stage
<1>29. ASSUME NEW c \in Callers, Prepare(c) PROVE DiskOK' /\ HolderOK'
  <2>1. Inside(c)
    BY <1>29, HolderIs DEF Prepare
  <2>0. /\ Applied(root, req[c]) \in Tree /\ Applied(root, req[c]).whole
        /\ Applied(root, req[c]).rev = req[c].base + Delta(req[c].cs)
        /\ HasReceipt(Applied(root, req[c]), req[c].cs)
    BY <1>29, <2>1, AppliedIsTree DEF Prepare
  <2>2. DiskOK'
    BY <1>29, <2>1, <2>0 DEF Prepare
  <2>3. (JournalOK(c) /\ TreesOK(c))'
    BY <1>29, <2>1, <2>0 DEF Prepare
  <2> QED
    BY <1>29, <2>1, <2>2, <2>3, HolderAlone DEF Prepare
<1>30. ASSUME NEW c \in Callers, Mark(c) PROVE DiskOK' /\ HolderOK'
  <2>1. Inside(c)
    BY <1>30, HolderIs DEF Mark, WriteMarker, MarkerWrites
  <2>2. DiskOK'
    BY <1>30, <2>1 DEF Mark, WriteMarker, JournalOf, MarkerWrites
  <2>3. (JournalOK(c) /\ TreesOK(c))'
    BY <1>30, <2>1 DEF Mark, WriteMarker, JournalOf, MarkerWrites
  <2> QED
    BY <1>30, <2>1, <2>2, <2>3, HolderAlone DEF Mark, WriteMarker
<1>31. ASSUME NEW c \in Callers, MoveAside(c) PROVE DiskOK' /\ HolderOK'
  <2>1. Inside(c)
    BY <1>31, HolderIs DEF MoveAside
  <2>2. DiskOK'
    BY <1>31, <2>1 DEF MoveAside
  <2>3. (JournalOK(c) /\ TreesOK(c))'
    BY <1>31, <2>1 DEF MoveAside
  <2> QED
    BY <1>31, <2>1, <2>2, <2>3, HolderAlone DEF MoveAside
<1>32. ASSUME NEW c \in Callers, MarkSwitching(c) PROVE DiskOK' /\ HolderOK'
  <2>1. Inside(c)
    BY <1>32, HolderIs DEF MarkSwitching, WriteMarker, MarkerWrites
  <2>2. DiskOK'
    BY <1>32, <2>1 DEF MarkSwitching, WriteMarker, JournalOf, MarkerWrites
  <2>3. (JournalOK(c) /\ TreesOK(c))'
    BY <1>32, <2>1 DEF MarkSwitching, WriteMarker, JournalOf, MarkerWrites
  <2> QED
    BY <1>32, <2>1, <2>2, <2>3, HolderAlone DEF MarkSwitching, WriteMarker
<1>33. ASSUME NEW c \in Callers, MoveIn(c) PROVE DiskOK' /\ HolderOK'
  <2>1. Inside(c)
    BY <1>33, HolderIs DEF MoveIn
  <2>2. DiskOK'
    BY <1>33, <2>1 DEF MoveIn
  <2>3. (JournalOK(c) /\ TreesOK(c))'
    BY <1>33, <2>1 DEF MoveIn
  <2> QED
    BY <1>33, <2>1, <2>2, <2>3, HolderAlone DEF MoveIn
<1>34. ASSUME NEW c \in Callers, MarkCommitted(c) PROVE DiskOK' /\ HolderOK'
  <2>1. Inside(c)
    BY <1>34, HolderIs DEF MarkCommitted, WriteMarker, MarkerWrites
  <2>2. DiskOK'
    BY <1>34, <2>1 DEF MarkCommitted, WriteMarker, JournalOf, MarkerWrites
  <2>3. (JournalOK(c) /\ TreesOK(c))'
    BY <1>34, <2>1 DEF MarkCommitted, WriteMarker, JournalOf, MarkerWrites
  <2> QED
    BY <1>34, <2>1, <2>2, <2>3, HolderAlone DEF MarkCommitted, WriteMarker
<1>35. ASSUME NEW c \in Callers, DropBackup(c) PROVE DiskOK' /\ HolderOK'
  <2>1. Inside(c)
    BY <1>35, HolderIs DEF DropBackup
  <2>2. DiskOK'
    BY <1>35, <2>1 DEF DropBackup
  <2>3. (JournalOK(c) /\ TreesOK(c))'
    BY <1>35, <2>1 DEF DropBackup
  <2> QED
    BY <1>35, <2>1, <2>2, <2>3, HolderAlone DEF DropBackup
<1>36. ASSUME NEW c \in Callers, DropMarker(c) PROVE DiskOK' /\ HolderOK'
  <2>1. Inside(c)
    BY <1>36, HolderIs DEF DropMarker
  <2>2. DiskOK'
    BY <1>36, <2>1 DEF DropMarker
  <2>3. (JournalOK(c) /\ TreesOK(c))'
    BY <1>36, <2>1 DEF DropMarker
  <2> QED
    BY <1>36, <2>1, <2>2, <2>3, HolderAlone DEF DropMarker
<1>37. ASSUME NEW c \in Callers, Refresh(c) PROVE DiskOK' /\ HolderOK'
  <2>1. Inside(c)
    BY <1>37, HolderIs DEF Refresh
  <2>2. DiskOK'
    BY <1>37, <2>1 DEF Refresh, Successful
  <2>3. (JournalOK(c) /\ TreesOK(c))'
    BY <1>37, <2>1 DEF Refresh, Successful
  <2> QED
    BY <1>37, <2>1, <2>2, <2>3, HolderAlone DEF Refresh
<1>38. ASSUME NEW c \in Callers, ValidateFails(c) PROVE DiskOK' /\ HolderOK'
  <2>1. Inside(c)
    BY <1>38, HolderIs DEF ValidateFails
  <2>2. DiskOK'
    BY <1>38, <2>1 DEF ValidateFails
  <2>3. (JournalOK(c) /\ TreesOK(c))'
    BY <1>38, <2>1 DEF ValidateFails
  <2> QED
    BY <1>38, <2>1, <2>2, <2>3, HolderAlone DEF ValidateFails
<1>39. ASSUME NEW c \in Callers, FailBeforeJournal(c) PROVE DiskOK' /\ HolderOK'
  <2>1. Inside(c)
    BY <1>39, HolderIs DEF FailBeforeJournal, BeforeJournal
  <2>2. DiskOK'
    BY <1>39, <2>1 DEF FailBeforeJournal, BeforeJournal, Successful
  <2>3. (JournalOK(c) /\ TreesOK(c))'
    BY <1>39, <2>1 DEF FailBeforeJournal, BeforeJournal, Successful
  <2> QED
    BY <1>39, <2>1, <2>2, <2>3, HolderAlone DEF FailBeforeJournal
<1>40. ASSUME NEW c \in Callers, FailInPlace(c) PROVE DiskOK' /\ HolderOK'
  <2>1. Inside(c)
    BY <1>40, HolderIs DEF FailInPlace, WithJournal, InRecovery, Elsewhere
  <2>0. "note" \notin Kinds
    BY <1>40 DEF FailInPlace, IOError, Hypothesis
  <2>2. DiskOK'
    BY <1>40, <2>1 DEF FailInPlace, WithJournal, InRecovery, Elsewhere, Successful
  <2>3. (JournalOK(c) /\ TreesOK(c))'
    BY <1>40, <2>0, <2>1 DEF FailInPlace, WithJournal, InRecovery, Elsewhere, Successful
  <2> QED
    BY <1>40, <2>1, <2>2, <2>3, HolderAlone DEF FailInPlace
<1>41. ASSUME NEW c \in Callers, FailHalfway(c) PROVE DiskOK' /\ HolderOK'
  <2>1. Inside(c)
    BY <1>41, HolderIs DEF FailHalfway, Torn, HalfRemoved, MarkerWrites, Pending
  <2>0. "note" \notin Kinds
    BY <1>41 DEF FailHalfway, IOError, Hypothesis
  <2>2. DiskOK'
    BY <1>41, <2>0, <2>1 DEF FailHalfway, Torn, HalfRemoved, JournalOf, MarkerWrites, Pending, Partial, Fresh, Hypothesis, Successful
  <2>3. (JournalOK(c) /\ TreesOK(c))'
    BY <1>41, <2>0, <2>1 DEF FailHalfway, Torn, HalfRemoved, JournalOf, MarkerWrites, Pending, Partial, Fresh, Hypothesis, Successful
  <2> QED
    BY <1>41, <2>1, <2>2, <2>3, HolderAlone DEF FailHalfway
<1>42. ASSUME NEW p \in Procs, Crash(p) PROVE DiskOK' /\ HolderOK'
  <2>0. "note" \notin Kinds
    BY <1>42 DEF Crash, Hypothesis
  <2>2. ASSUME NEW c \in Callers, ProcOf[c] = p, lock = c, Torn(c) \/ HalfRemoved(c)
        PROVE  DiskOK'
    <3>1. Inside(c)
      BY <2>2, HolderIs DEF Torn, HalfRemoved, MarkerWrites, Pending
    <3> QED
      BY <2>0, <2>2, <3>1 DEF Torn, HalfRemoved, JournalOf, MarkerWrites, Pending, Partial, Fresh, Hypothesis
  <2>3. DiskOK'
    BY <1>0, <1>42, <2>0, <2>2 DEF Crash
  <2>4. ASSUME NEW d \in Callers, lock' = d PROVE (JournalOK(d) /\ TreesOK(d))'
    <3>1. lock = d /\ ProcOf[d] # p /\ UNCHANGED <<disk, work>> /\ pc'[d] = pc[d] /\ req'[d] = req[d] /\ outcome'[d] = outcome[d]
      BY <1>0, <1>42, <2>4 DEF Crash
    <3>2. JournalOK(d) /\ TreesOK(d)
      BY <1>0, <3>1 DEF HolderOK
    <3> QED
      BY <3>1, <3>2
  <2> QED
    BY <2>3, <2>4 DEF HolderOK
<1> QED
  BY <1>1, <1>2, <1>3, <1>4, <1>5, <1>6, <1>7, <1>8, <1>9, <1>10, <1>11, <1>12, <1>13, <1>14, <1>15, <1>16, <1>17, <1>18, <1>19, <1>20, <1>21, <1>22, <1>23, <1>24, <1>25, <1>26, <1>27, <1>28, <1>29, <1>30, <1>31, <1>32, <1>33, <1>34, <1>35, <1>36, <1>37, <1>38, <1>39, <1>40, <1>41, <1>42 DEF Next, Progress, Errors

-----------------------------------------------------------------------------
LEMMA Invariance == Hypothesis => (Spec => []IInv)
<1> SUFFICES ASSUME Hypothesis PROVE Spec => []IInv
  OBVIOUS
<1>1. Init => IInv
  BY TypeInit, OwnershipInit, DiskInit DEF IInv
<1>2. IInv /\ [Next]_vars => IInv'
  BY TypeStep, OwnershipStep, DiskStep DEF IInv
<1> QED
  BY <1>1, <1>2, PTL DEF Spec

\* Every variable of the directory, its journal and its callers keeps its type; in particular
\* what a caller is told is committed is always a receipt that the Writer found or wrote.
THEOREM TypeCorrect == Hypothesis => (Spec => []TypeOK)
<1>1. IInv => TypeOK
  BY DEF IInv
<1> QED
  BY <1>1, Invariance, PTL

\* However many processes and callers there are, and wherever they die or fail, there is a whole
\* Knowledge Base where recovery looks (recoverKnowledgeBaseRoot, runKnowledgeRootTransaction).
THEOREM StaysRecoverable == Hypothesis => (Spec => []Recoverable)
<1>1. IInv => Recoverable
  <2> SUFFICES ASSUME IInv PROVE Recoverable
    OBVIOUS
  <2>1. CASE Undecided
    <3>1. PICK c \in Callers : pc[c] \in {"validate", "undo", "restore"}
      BY <2>1 DEF Undecided
    <3>2. Inside(c)
      BY <3>1, HolderIs DEF Outside
    <3> QED
      BY <3>1, <3>2 DEF Inside, TreesOK, DiskOK, Recovering, Whole, Recoverable
  <2>2. CASE ~Undecided
    BY <2>2 DEF IInv, DiskOK, Whole, Ready, Recoverable, RootReadable
  <2> QED
    BY <2>1, <2>2
<1> QED
  BY <1>1, Invariance, PTL
=============================================================================
