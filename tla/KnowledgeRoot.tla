----------------------------- MODULE KnowledgeRoot -----------------------------
(***************************************************************************)
(* One Knowledge Base directory, the callers that change it, and what can  *)
(* go wrong under them: an I/O error at any step, the death of a process   *)
(* at any step, a duplicate submission, a retry.                           *)
(*                                                                         *)
(*   knowledge/storage/root-transaction.ts   journal, switch, recovery     *)
(*   knowledge/storage/mutation-lock.ts      the lock directory            *)
(*   knowledge/writer/writer-v03.ts, writer-v04.ts   the two Writers       *)
(*   knowledge/raw/raw-archive.ts            archiveRaw (recovers first)   *)
(*   knowledge/review/store.ts, knowledge/storage/ingestion-log.ts,        *)
(*   .../review/review-telemetry.ts          records kept without recovery *)
(*                                                                         *)
(* One action is one awaited file-system call (or one run of calls on      *)
(* files nobody else touches meanwhile), so that every interleaving with   *)
(* the unlocked reads and every crash point is a state.  A tree is the     *)
(* contents of a root directory; a tree that is not `whole` has no         *)
(* readable manifest.                                                      *)
(***************************************************************************)
EXTENDS Naturals, FiniteSets

CONSTANTS
    Procs, Callers, ProcOf,                 \* callers run in operating-system processes
    ChangeSets, Runs, RunOf, Changing,      \* see KnowledgeBase
    Objects, TargetOf,
    Schema,                                 \* "0.3" or "0.4": which Writer serves this base
    Kinds,                                  \* the operations callers use
    Faults,                                 \* what may go wrong
    MaxCrashes, MaxErrors,                  \* bounds on how often it does
    None,                                   \* nothing here: no tree, no journal, no entry, lock free
    Stale                                   \* the lock directory of a process that died

AllKinds == {"write", "archive", "note"}
AllFaults == {"crash", "ioError", "readError", "tornMarker", "halfRemoval"}

ASSUME ConstantsAssumption ==
    /\ ProcOf \in [Callers -> Procs]
    /\ RunOf \in [ChangeSets -> Runs]
    /\ TargetOf \in [ChangeSets -> Objects]
    /\ Changing \subseteq ChangeSets
    /\ Schema \in {"0.3", "0.4"}
    /\ Kinds \subseteq AllKinds
    /\ Faults \subseteq AllFaults
    /\ MaxCrashes \in Nat /\ MaxErrors \in Nat
    /\ None # Stale /\ None \notin Callers /\ Stale \notin Callers

\* A Writer log: changeSetId and the planned before-hash (together the payload hash), and
\* committedRevision.
LogEntry == [cs : ChangeSets, rev : Nat, before : ChangeSets \cup {None}]

Tree == [whole : BOOLEAN,                            \* manifest and registry are readable
         rev   : Nat,                                \* manifest.revision
         log   : [Runs -> LogEntry \cup {None}],     \* logs/research or logs/ingestion
         objs  : [Objects -> ChangeSets \cup {None}],\* canonical objects, by last writer
         index : BOOLEAN,                            \* a theme-scope sidecar valid at rev
         notes : SUBSET Callers]                     \* reviews, raw bundles, blocked-run logs

Journal == [cs : ChangeSets, next : Nat, status : {"staged", "switching", "committed", "torn"}]

\* What a caller hands to the Writer: a ChangeSet, the revision of the handle it
\* was planned on, and the version of the target it was planned against.
Request == [cs : ChangeSets, base : Nat, before : ChangeSets \cup {None}]

ASSUME NoneAssumption ==
    /\ None \notin ChangeSets /\ None \notin LogEntry /\ None \notin Tree
    /\ None \notin Journal /\ None \notin Request

(* What createFreshKnowledgeBaseV04 leaves, and a directory that is only partly there. *)
Fresh == [whole |-> TRUE, rev |-> 0, log |-> [r \in Runs |-> None],
          objs |-> [o \in Objects |-> None], index |-> FALSE, notes |-> {}]
Partial == [Fresh EXCEPT !.whole = FALSE]

VARIABLES
    root,      \* the tree at rootPath, or None
    staging,   \* the tree at stagingPath of each transaction, or None
    backup,    \* the tree at backupPath of each transaction, or None
    marker,    \* the journal at rootPath.recovery.json, or None
    lock,      \* the lock directory: None, the caller that made it, or Stale
    pc,        \* where each caller is
    work,      \* the operation it is in: one of AllKinds
    handle,    \* the revision of the handle the caller mounted, or None
    req,       \* the request the caller has planned, or None
    prior,     \* priorBeforeLock of writer-v04
    outcome,   \* the result of the caller's last operation
    acked,     \* every log entry a caller has been told is committed
    crashes, errors

disk == <<root, staging, backup, marker>>
local == <<work, handle, req, prior>>
faultCounts == <<crashes, errors>>
vars == <<root, staging, backup, marker, lock, pc, work, handle, req, prior, outcome,
          acked, crashes, errors>>

\* Mistake: a ChangeSet without operations advances the revision too.
DeltaAlways(cs) == 1

Delta(cs) == IF cs \in Changing THEN 1 ELSE 0

\* The tree a transaction builds in its staging directory: next manifest, objects,
\* Writer log and, in Schema 0.4, the reverse-index sidecar.
Applied(t, q) ==
    LET cs == q.cs
        entry == [cs |-> cs, rev |-> t.rev + Delta(cs), before |-> q.before]
    IN  [t EXCEPT !.rev = t.rev + Delta(cs),
                  !.log = [t.log EXCEPT ![RunOf[cs]] = entry],
                  !.objs = IF cs \in Changing THEN [t.objs EXCEPT ![TargetOf[cs]] = cs] ELSE t.objs,
                  !.index = (Schema = "0.4")]

RootReadable == root # None /\ root.whole

Locations == {"ready", "readLog", "readManifest", "readIndex", "acquire", "release",
              "recover", "validate", "undo", "restore", "clean", "unmark", "archive", "append",
              "decide", "stage", "prepare", "mark", "moveAside", "switching", "moveIn",
              "switched", "dropBackup", "dropMarker", "refresh"}

Outcomes == {"none", "committed", "no_changes", "already_committed", "kept", "threw",
             "stale_revision", "stale_target", "target_changed", "idempotency_conflict",
             "index_unavailable", "commit_failed"}

Goto(c, l) == pc' = [pc EXCEPT ![c] = l]
Result(c, o) == outcome' = [outcome EXCEPT ![c] = o]

\* The operation ends without having taken the lock.
ReturnUnlocked(c, o) == Goto(c, "ready") /\ Result(c, o)
\* The operation ends; the lock is released next.
ReturnLocked(c, o) == Goto(c, "release") /\ Result(c, o)

Init ==
    /\ root = Fresh
    /\ staging = [cs \in ChangeSets |-> None]
    /\ backup = [cs \in ChangeSets |-> None]
    /\ marker = None
    /\ lock = None
    /\ pc = [c \in Callers |-> "ready"]
    /\ work = [c \in Callers |-> "write"]
    /\ handle = [c \in Callers |-> None]
    /\ req = [c \in Callers |-> None]
    /\ prior = [c \in Callers |-> FALSE]
    /\ outcome = [c \in Callers |-> "none"]
    /\ acked = {}
    /\ crashes = 0 /\ errors = 0

-----------------------------------------------------------------------------
(* A caller between operations. *)

\* KnowledgeBaseRegistry.mount or refresh: a handle carries the manifest's revision.
Mount(c) ==
    /\ pc[c] = "ready" /\ RootReadable /\ handle[c] # root.rev
    /\ handle' = [handle EXCEPT ![c] = root.rev]
    /\ req' = [req EXCEPT ![c] = None]
    /\ UNCHANGED <<disk, lock, pc, work, prior, outcome, acked, faultCounts>>

\* A ChangeSet is planned: expectedBaseRevision is the handle's revision, the expected
\* before-hash is that of the object as it is loaded now, perhaps at a later revision.
Plan(c, cs) ==
    /\ pc[c] = "ready" /\ "write" \in Kinds
    /\ handle[c] # None /\ req[c] = None /\ RootReadable
    /\ LET seen == IF cs \in Changing THEN root.objs[TargetOf[cs]] ELSE None
       IN  req' = [req EXCEPT ![c] = [cs |-> cs, base |-> handle[c], before |-> seen]]
    /\ UNCHANGED <<disk, lock, pc, work, handle, prior, outcome, acked, faultCounts>>

\* writeKnowledgeBase with the planned request, for the first time or again.
Submit(c) ==
    /\ pc[c] = "ready" /\ req[c] # None
    /\ Goto(c, IF Schema = "0.4" THEN "readLog" ELSE "acquire")
    /\ work' = [work EXCEPT ![c] = "write"]
    /\ prior' = [prior EXCEPT ![c] = FALSE]
    /\ Result(c, "none")
    /\ UNCHANGED <<disk, lock, handle, req, acked, faultCounts>>

\* archiveRaw, or one of the records that are kept under the lock without recovery.
Start(c, kind) ==
    /\ pc[c] = "ready" /\ kind \in Kinds \ {"write"} /\ handle[c] # None
    /\ Goto(c, "acquire")
    /\ work' = [work EXCEPT ![c] = kind]
    /\ Result(c, "none")
    /\ UNCHANGED <<disk, lock, handle, req, prior, acked, faultCounts>>

-----------------------------------------------------------------------------
(* writer-v04 before it takes the lock: three reads at three moments. *)

\* existingExecution: no log directory means no prior execution.
ReadLog(c) ==
    /\ pc[c] = "readLog"
    /\ prior' = [prior EXCEPT ![c] = root # None /\ root.log[RunOf[req[c].cs]] # None]
    /\ Goto(c, "readManifest")
    /\ UNCHANGED <<disk, lock, work, handle, req, outcome, acked, faultCounts>>

\* loadKnowledgeBaseManifest is outside the try block: a missing root rejects the promise.
ReadManifest(c) ==
    /\ pc[c] = "readManifest"
    /\ IF ~RootReadable THEN ReturnUnlocked(c, "threw")
       ELSE IF prior[c] THEN Goto(c, "acquire") /\ UNCHANGED outcome
       ELSE IF root.rev # req[c].base THEN ReturnUnlocked(c, "stale_revision")
       ELSE Goto(c, "readIndex") /\ UNCHANGED outcome
    /\ UNCHANGED <<disk, lock, local, acked, faultCounts>>

\* loadOrRebuildThemeScopeReverseIndexV04: the sidecar if it is valid; otherwise it is rebuilt
\* from the logs, which is refused while a journal or a lock directory exists.
ReadIndex(c) ==
    /\ pc[c] = "readIndex"
    /\ IF ~RootReadable THEN ReturnUnlocked(c, "threw")
       ELSE IF root.rev = req[c].base /\ (root.index \/ (marker = None /\ lock = None))
            THEN Goto(c, "acquire") /\ UNCHANGED outcome
            ELSE ReturnUnlocked(c, "index_unavailable")
    /\ UNCHANGED <<disk, lock, local, acked, faultCounts>>

-----------------------------------------------------------------------------
(* withKnowledgeBaseMutationLock.  A caller waits for callers of its own process and is
   refused when the lock directory was made by another one (see MutationLock.tla). *)

Acquire(c) ==
    /\ pc[c] = "acquire" /\ lock = None
    /\ lock' = c
    /\ Goto(c, IF work[c] = "note" THEN "append" ELSE "recover")
    /\ UNCHANGED <<disk, local, outcome, acked, faultCounts>>

AlreadyHeld(c) ==
    /\ pc[c] = "acquire" /\ lock # None
    /\ lock \in Callers => ProcOf[lock] # ProcOf[c]
    /\ ReturnUnlocked(c, "commit_failed")
    /\ UNCHANGED <<disk, lock, local, acked, faultCounts>>

\* Mistake: a stale request is reported as if it had been committed.
SuccessfulOrStale == {"committed", "no_changes", "already_committed", "stale_revision"}

Successful == {"committed", "no_changes", "already_committed"}

\* The result reaches the caller when the lock is released.
Release(c) ==
    /\ pc[c] = "release"
    /\ lock' = None
    /\ Goto(c, "ready")
    /\ acked' = IF outcome[c] \in Successful THEN acked \cup {root.log[RunOf[req[c].cs]]} ELSE acked
    /\ UNCHANGED <<disk, local, outcome, faultCounts>>

-----------------------------------------------------------------------------
(* recoverKnowledgeBaseRoot, the first thing the Writers and archiveRaw do under the lock.
   The status field of the journal is checked for being legible and otherwise ignored. *)

AfterRecovery(c) == Goto(c, IF work[c] = "write" THEN "decide" ELSE "archive")

NothingToRecover(c) ==
    /\ pc[c] = "recover" /\ marker = None
    /\ AfterRecovery(c)
    /\ UNCHANGED <<disk, lock, local, outcome, acked, faultCounts>>

\* Mistake: an illegible journal is thrown away.
IllegibleIsDropped(c) ==
    /\ pc[c] = "recover" /\ marker # None /\ marker.status = "torn"
    /\ marker' = None
    /\ AfterRecovery(c)
    /\ UNCHANGED <<root, staging, backup, lock, local, outcome, acked, faultCounts>>

\* JSON.parse throws on a journal whose write was cut short.
RecoverIllegible(c) ==
    /\ pc[c] = "recover" /\ marker # None /\ marker.status = "torn"
    /\ ReturnLocked(c, "commit_failed")
    /\ UNCHANGED <<disk, lock, local, acked, faultCounts>>

Pending(c) == pc[c] = "recover" /\ marker # None /\ marker.status # "torn"

\* The root was moved aside and the staged tree is complete: move it in.
RecoverForward(c) ==
    /\ Pending(c) /\ root = None /\ staging[marker.cs] # None
    /\ root' = staging[marker.cs]
    /\ staging' = [staging EXCEPT ![marker.cs] = None]
    /\ Goto(c, "validate")
    /\ UNCHANGED <<backup, marker, lock, local, outcome, acked, faultCounts>>

\* Mistake: no branch for the case that only the backup is there.
RecoverWithoutBackup(c) ==
    /\ Pending(c) /\ root = None /\ staging[marker.cs] = None
    /\ Goto(c, "clean")
    /\ UNCHANGED <<disk, lock, local, outcome, acked, faultCounts>>

\* Neither root nor staged tree: put the backup back (if there is one).
RecoverBackward(c) ==
    /\ Pending(c) /\ root = None /\ staging[marker.cs] = None
    /\ root' = backup[marker.cs]
    /\ backup' = [backup EXCEPT ![marker.cs] = None]
    /\ Goto(c, "clean")
    /\ UNCHANGED <<staging, marker, lock, local, outcome, acked, faultCounts>>

\* A root is there: it is kept, whatever it holds, and the staged tree is dropped.
RecoverKeep(c) ==
    /\ Pending(c) /\ root # None
    /\ staging' = [staging EXCEPT ![marker.cs] = None]
    /\ Goto(c, "clean")
    /\ UNCHANGED <<root, backup, marker, lock, local, outcome, acked, faultCounts>>

\* validateRecoveredRoot
Validate(c) ==
    /\ pc[c] = "validate" /\ root.whole /\ root.rev = marker.next
    /\ Goto(c, "clean")
    /\ UNCHANGED <<disk, lock, local, outcome, acked, faultCounts>>

\* It also fails when the manifest or the registry cannot be read at this moment.
ValidateFails(c) ==
    /\ pc[c] = "validate"
    /\ IF root.whole /\ root.rev = marker.next
       THEN /\ "readError" \in Faults /\ errors < MaxErrors
            /\ errors' = errors + 1
       ELSE UNCHANGED errors
    /\ Goto(c, "undo")
    /\ UNCHANGED <<disk, lock, local, outcome, acked, crashes>>

\* The catch block: remove the root that was moved in, ...
Undo(c) ==
    /\ pc[c] = "undo"
    /\ root' = None
    /\ Goto(c, "restore")
    /\ UNCHANGED <<staging, backup, marker, lock, local, outcome, acked, faultCounts>>

\* ... put the backup back, and rethrow with the journal still there.
Restore(c) ==
    /\ pc[c] = "restore"
    /\ root' = backup[marker.cs]
    /\ backup' = [backup EXCEPT ![marker.cs] = None]
    /\ ReturnLocked(c, "commit_failed")
    /\ UNCHANGED <<staging, marker, lock, local, acked, faultCounts>>

Clean(c) ==
    /\ pc[c] = "clean"
    /\ backup' = [backup EXCEPT ![marker.cs] = None]
    /\ staging' = [staging EXCEPT ![marker.cs] = None]
    /\ Goto(c, "unmark")
    /\ UNCHANGED <<root, marker, lock, local, outcome, acked, faultCounts>>

Unmark(c) ==
    /\ pc[c] = "unmark"
    /\ marker' = None
    /\ AfterRecovery(c)
    /\ UNCHANGED <<root, staging, backup, lock, local, outcome, acked, faultCounts>>

-----------------------------------------------------------------------------
(* Records kept under the lock. *)

\* archiveRawUnlocked needs a mounted, active Knowledge Base.
Archive(c) ==
    /\ pc[c] = "archive"
    /\ IF RootReadable
       THEN root' = [root EXCEPT !.notes = @ \cup {c}] /\ ReturnLocked(c, "kept")
       ELSE UNCHANGED root /\ ReturnLocked(c, "commit_failed")
    /\ UNCHANGED <<staging, backup, marker, lock, local, acked, faultCounts>>

\* persistReviewCases, writeBlocked, writeNoOpExecutionRecord: mkdir -p, then the file.
Append(c) ==
    /\ pc[c] = "append"
    /\ root' = [(IF root = None THEN Partial ELSE root) EXCEPT !.notes = @ \cup {c}]
    /\ ReturnLocked(c, "kept")
    /\ UNCHANGED <<staging, backup, marker, lock, local, acked, faultCounts>>

-----------------------------------------------------------------------------
(* The Writers under the lock. *)

\* verifyPriorExecutionState and its Schema 0.3 counterpart: a replay is accepted when it is the
\* same ChangeSet on the same base and, in 0.4, its object is still the one it wrote.
ReplayVerdict(q) ==
    LET entry == root.log[RunOf[q.cs]] IN
    IF entry.cs # q.cs \/ entry.before # q.before \/ entry.rev # q.base + Delta(q.cs)
    THEN "idempotency_conflict"
    ELSE IF Schema = "0.4" /\ q.cs \in Changing /\ root.objs[TargetOf[q.cs]] # q.cs THEN "stale_target"
    ELSE "already_committed"

HasPrior(q) ==
    LET entry == root.log[RunOf[q.cs]] IN entry # None /\ (Schema = "0.4" \/ entry.cs = q.cs)

\* Mistake: the revision is compared before the Writer log is searched.
VerdictRevisionFirst(c) ==
    LET q == req[c] IN
    IF ~RootReadable THEN "commit_failed"
    ELSE IF root.rev # q.base THEN "stale_revision"
    ELSE IF HasPrior(q) THEN ReplayVerdict(q)
    ELSE IF q.cs \in Changing /\ root.objs[TargetOf[q.cs]] # q.before THEN "target_changed"
    ELSE "apply"

\* Mistake: the revision is not compared.
VerdictWithoutRevision(c) ==
    LET q == req[c] IN
    IF ~RootReadable THEN "commit_failed"
    ELSE IF HasPrior(q) THEN ReplayVerdict(q)
    ELSE IF q.cs \in Changing /\ root.objs[TargetOf[q.cs]] # q.before THEN "target_changed"
    ELSE "apply"

Verdict(c) ==
    LET q == req[c] IN
    IF ~RootReadable THEN "commit_failed"
    ELSE IF HasPrior(q) THEN ReplayVerdict(q)
    ELSE IF root.rev # q.base THEN "stale_revision"
    ELSE IF prior[c] THEN "index_unavailable"
    ELSE IF q.cs \in Changing /\ root.objs[TargetOf[q.cs]] # q.before THEN "target_changed"
    ELSE "apply"

Decide(c) ==
    /\ pc[c] = "decide"
    /\ IF Verdict(c) = "apply" THEN Goto(c, "stage") /\ UNCHANGED outcome
       ELSE ReturnLocked(c, Verdict(c))
    /\ UNCHANGED <<disk, lock, local, acked, faultCounts>>

-----------------------------------------------------------------------------
(* runKnowledgeRootTransaction. *)

\* Old directories of this transaction are removed and the copy of the root begins.
Stage(c) ==
    /\ pc[c] = "stage"
    /\ staging' = [staging EXCEPT ![req[c].cs] = Partial]
    /\ backup' = [backup EXCEPT ![req[c].cs] = None]
    /\ Goto(c, "prepare")
    /\ UNCHANGED <<root, marker, lock, local, outcome, acked, faultCounts>>

\* The copy is complete, `prepare` has written the next state, `validate` has accepted it.
Prepare(c) ==
    /\ pc[c] = "prepare"
    /\ staging' = [staging EXCEPT ![req[c].cs] = Applied(root, req[c])]
    /\ Goto(c, "mark")
    /\ UNCHANGED <<root, backup, marker, lock, local, outcome, acked, faultCounts>>

JournalOf(c, status) ==
    [cs |-> req[c].cs, next |-> req[c].base + Delta(req[c].cs), status |-> status]

WriteMarker(c, at, status, next) ==
    /\ pc[c] = at
    /\ marker' = JournalOf(c, status)
    /\ Goto(c, next)
    /\ UNCHANGED <<root, staging, backup, lock, local, outcome, acked, faultCounts>>

\* Mistake: the journal is first written after the root has been moved aside.
MarkLater(c) ==
    /\ pc[c] = "mark"
    /\ Goto(c, "moveAside")
    /\ UNCHANGED <<disk, lock, local, outcome, acked, faultCounts>>

Mark(c) == WriteMarker(c, "mark", "staged", "moveAside")

MoveAside(c) ==
    /\ pc[c] = "moveAside"
    /\ backup' = [backup EXCEPT ![req[c].cs] = root]
    /\ root' = None
    /\ Goto(c, "switching")
    /\ UNCHANGED <<staging, marker, lock, local, outcome, acked, faultCounts>>

MarkSwitching(c) == WriteMarker(c, "switching", "switching", "moveIn")

MoveIn(c) ==
    /\ pc[c] = "moveIn"
    /\ root' = staging[req[c].cs]
    /\ staging' = [staging EXCEPT ![req[c].cs] = None]
    /\ Goto(c, "switched")
    /\ UNCHANGED <<backup, marker, lock, local, outcome, acked, faultCounts>>

MarkCommitted(c) == WriteMarker(c, "switched", "committed", "dropBackup")

DropBackup(c) ==
    /\ pc[c] = "dropBackup"
    /\ backup' = [backup EXCEPT ![req[c].cs] = None]
    /\ Goto(c, "dropMarker")
    /\ UNCHANGED <<root, staging, marker, lock, local, outcome, acked, faultCounts>>

DropMarker(c) ==
    /\ pc[c] = "dropMarker"
    /\ marker' = None
    /\ Goto(c, "refresh")
    /\ UNCHANGED <<root, staging, backup, lock, local, outcome, acked, faultCounts>>

\* registry.refresh replaces the handle; the Writer returns.
Refresh(c) ==
    /\ pc[c] = "refresh"
    /\ handle' = [handle EXCEPT ![c] = root.rev]
    /\ ReturnLocked(c, IF req[c].cs \in Changing THEN "committed" ELSE "no_changes")
    /\ UNCHANGED <<disk, lock, work, req, prior, acked, faultCounts>>

-----------------------------------------------------------------------------
(* What goes wrong. *)

MarkerWrites == {"mark", "switching", "switched"}
\* Mistake: the catch block cleans up whether or not a journal exists.
BeforeJournalAndAfter == {"stage", "prepare", "mark", "switching", "moveIn"}

BeforeJournal == {"stage", "prepare", "mark"}
WithJournal == {"moveAside", "switching", "moveIn", "switched", "dropBackup", "dropMarker"}
InRecovery == {"recover", "undo", "restore", "clean", "unmark"}
Elsewhere == {"decide", "refresh", "archive", "append"}

IOError == "ioError" \in Faults /\ errors < MaxErrors /\ errors' = errors + 1

\* The catch block of the transaction: without a journal the two directories are removed.
FailBeforeJournal(c) ==
    /\ pc[c] \in BeforeJournal /\ IOError
    /\ staging' = [staging EXCEPT ![req[c].cs] = None]
    /\ backup' = [backup EXCEPT ![req[c].cs] = None]
    /\ ReturnLocked(c, "commit_failed")
    /\ UNCHANGED <<root, marker, lock, local, acked, crashes>>

\* With a journal, in recovery, or in a read: everything is left as it is and the error is rethrown.
FailInPlace(c) ==
    /\ pc[c] \in WithJournal \cup InRecovery \cup Elsewhere /\ IOError
    /\ ReturnLocked(c, "commit_failed")
    /\ UNCHANGED <<disk, lock, local, acked, crashes>>

\* Before the lock: the promise is rejected by the reads, the lock error is caught.
FailUnlocked(c) ==
    /\ pc[c] \in {"readLog", "readManifest", "readIndex", "acquire"} /\ IOError
    /\ ReturnUnlocked(c, IF pc[c] = "acquire" THEN "commit_failed" ELSE "threw")
    /\ UNCHANGED <<disk, lock, local, acked, crashes>>

\* The lock directory cannot be removed: the error replaces the result, the directory stays.
FailRelease(c) ==
    /\ pc[c] = "release" /\ IOError
    /\ lock' = Stale
    /\ ReturnUnlocked(c, "commit_failed")
    /\ UNCHANGED <<disk, local, acked, crashes>>

\* writeFile truncates, then writes: a write cut short leaves an illegible journal.
Torn(c) ==
    /\ pc[c] \in MarkerWrites /\ "tornMarker" \in Faults
    /\ marker' = JournalOf(c, "torn")
    /\ UNCHANGED <<root, staging, backup>>

\* A recursive removal cut short leaves part of the tree.
HalfRemoved(c) ==
    /\ "halfRemoval" \in Faults
    /\ \/ /\ pc[c] = "undo"
          /\ root' = Partial
          /\ UNCHANGED <<staging, backup, marker>>
       \/ /\ pc[c] \in {"clean", "dropBackup"} /\ backup[marker.cs] # None
          /\ backup' = [backup EXCEPT ![marker.cs] = Partial]
          /\ UNCHANGED <<root, staging, marker>>
       \/ /\ Pending(c) /\ root # None /\ staging[marker.cs] # None
          /\ staging' = [staging EXCEPT ![marker.cs] = Partial]
          /\ UNCHANGED <<root, backup, marker>>

\* An error in the middle of a call that is not atomic.
FailHalfway(c) ==
    /\ (Torn(c) \/ HalfRemoved(c)) /\ IOError
    /\ ReturnLocked(c, "commit_failed")
    /\ UNCHANGED <<lock, local, acked, crashes>>

\* The process p dies, perhaps in the middle of a call.  The lock directory stays.
Crash(p) ==
    LET dead == {c \in Callers : ProcOf[c] = p}
        Wipe(f, v) == [c \in Callers |-> IF c \in dead THEN v ELSE f[c]]
    IN  /\ "crash" \in Faults /\ crashes < MaxCrashes
        /\ crashes' = crashes + 1
        /\ \/ UNCHANGED disk
           \/ \E c \in dead : lock = c /\ (Torn(c) \/ HalfRemoved(c))
        /\ lock' = IF lock \in dead THEN Stale ELSE lock
        /\ pc' = Wipe(pc, "ready")
        /\ handle' = Wipe(handle, None)
        /\ req' = Wipe(req, None)
        /\ prior' = Wipe(prior, FALSE)
        /\ outcome' = Wipe(outcome, "none")
        /\ UNCHANGED <<work, acked, errors>>

\* An operator removes the lock directory of a process that is gone.
ClearStaleLock ==
    /\ lock = Stale
    /\ lock' = None
    /\ UNCHANGED <<disk, pc, local, outcome, acked, faultCounts>>

-----------------------------------------------------------------------------
Progress(c) ==
    \/ ReadLog(c) \/ ReadManifest(c) \/ ReadIndex(c)
    \/ AlreadyHeld(c) \/ Release(c)
    \/ NothingToRecover(c) \/ RecoverIllegible(c) \/ RecoverForward(c) \/ RecoverBackward(c)
    \/ RecoverKeep(c) \/ Validate(c) \/ Undo(c) \/ Restore(c) \/ Clean(c) \/ Unmark(c)
    \/ Archive(c) \/ Append(c) \/ Decide(c)
    \/ Stage(c) \/ Prepare(c) \/ Mark(c) \/ MoveAside(c) \/ MarkSwitching(c) \/ MoveIn(c)
    \/ MarkCommitted(c) \/ DropBackup(c) \/ DropMarker(c) \/ Refresh(c)

Errors(c) ==
    \/ ValidateFails(c) \/ FailBeforeJournal(c) \/ FailInPlace(c) \/ FailRelease(c)
    \/ FailUnlocked(c) \/ FailHalfway(c)

Next ==
    \/ \E c \in Callers :
        \/ Mount(c) \/ Submit(c)
        \/ \E cs \in ChangeSets : Plan(c, cs)
        \/ \E kind \in AllKinds : Start(c, kind)
        \/ Acquire(c) \/ Progress(c) \/ Errors(c)
    \/ \E p \in Procs : Crash(p)
    \/ ClearStaleLock

Spec == Init /\ [][Next]_vars

-----------------------------------------------------------------------------
(* Properties. *)

TypeOK ==
    /\ root \in Tree \cup {None}
    /\ staging \in [ChangeSets -> Tree \cup {None}]
    /\ backup \in [ChangeSets -> Tree \cup {None}]
    /\ marker \in Journal \cup {None}
    /\ lock \in Callers \cup {None, Stale}
    /\ pc \in [Callers -> Locations]
    /\ work \in [Callers -> AllKinds]
    /\ handle \in [Callers -> Nat \cup {None}]
    /\ req \in [Callers -> Request \cup {None}]
    /\ prior \in [Callers -> BOOLEAN]
    /\ outcome \in [Callers -> Outcomes]
    /\ acked \subseteq LogEntry
    /\ crashes \in 0..MaxCrashes /\ errors \in 0..MaxErrors

\* The recovery a caller is in may still put the backup back.
Undecided == \E c \in Callers : pc[c] \in {"validate", "undo", "restore"}

\* The tree recovery will leave at rootPath if nothing else goes wrong: a root that is there
\* wins, except while the recovery that moved it in has not yet accepted it.
Live ==
    LET saved == IF marker = None THEN None ELSE backup[marker.cs]
        tree == IF root = None \/ Undecided THEN saved ELSE root
    IN  IF tree = None THEN Partial ELSE tree

KB == INSTANCE KnowledgeBase WITH
        rev <- Live.rev, log <- Live.log, objs <- Live.objs, notes <- Live.notes,
        acked <- acked, Notes <- Callers

\* The directory, its journal and its recovery implement a store that changes by whole
\* ChangeSets: each takes effect once, in one step, on the version it was planned against, and
\* callers are told "committed" only of what is there -- under duplicates, retries by the same
\* caller, I/O errors at any call and the death of processes at any call.
ImplementsKnowledgeBase == KB!Spec

\* At every moment the Knowledge Base is whole: at rootPath, or behind a journal in the staged
\* tree and in the backup, or in the backup alone.  No step of the switch, of a recovery or of
\* their error paths removes the last copy (runKnowledgeRootTransaction, recoverKnowledgeBaseRoot).
Recoverable ==
    \/ RootReadable /\ ~Undecided
    \/ /\ marker # None
       /\ backup[marker.cs] # None /\ backup[marker.cs].whole
       /\ root = None => staging[marker.cs] = None \/ staging[marker.cs].whole

\* Recovery can read the journal whenever it is needed: "root transaction can recover a switch
\* interrupted after the root is moved" (tests/knowledge/transaction.test.ts).
SwitchIsRecoverable == root = None => marker # None /\ marker.status # "torn"

\* What a caller was told is committed stays committed.
AcknowledgedIsKept ==
    \A e \in acked : marker = None => RootReadable /\ root.log[RunOf[e.cs]] = e

\* The revision guard subsumes the before-hash of every target: no Writer that found the
\* expected revision ever finds that a target has changed (the second guard never fires).
RevisionGuardsTargets == \A c \in Callers : outcome[c] # "target_changed"

\* A ChangeSet refused for a stale revision is not in the store: a duplicate of a committed
\* submission is answered with the outcome of the first one.
RefusedIsNotCommitted ==
    [][\A c \in Callers :
         pc[c] # "ready" /\ outcome[c] # "stale_revision" /\ outcome'[c] = "stale_revision"
         => LET entry == Live.log[RunOf[req[c].cs]]
            IN  entry = None \/ entry.cs # req[c].cs \/ entry.before # req[c].before
                \/ entry.rev # req[c].base + Delta(req[c].cs)]_vars
=============================================================================
