------------------------------- MODULE RawPreview -------------------------------
(***************************************************************************)
(* A raw document on its way into a Schema 0.4 Knowledge Base: the preview *)
(* workflow, the gateway call that archives the bytes and commits the      *)
(* Source, the store that keeps the preview, and the acceptance of one of  *)
(* its candidates.                                                         *)
(*                                                                         *)
(*   raw-document-knowledge-ingestion/v04-preview-workflow.ts              *)
(*   raw-document-knowledge-ingestion/v04-preview-store.ts                 *)
(*   raw-document-knowledge-ingestion/v04-candidate-acceptance.ts          *)
(*   knowledge/production/raw-document-gateway-v04.ts                      *)
(*   knowledge/storage/root-transaction.ts       copy, rename, rename      *)
(*                                                                         *)
(* There is one document.  A cancelled workflow stops waiting, the call it *)
(* was waiting for goes on by itself.  The preview store is the one writer *)
(* of the root that does not take the mutation lock: the window between a  *)
(* Writer's copy of the root and its switch is therefore in this model,    *)
(* the journal of the switch is in KnowledgeRoot.                          *)
(***************************************************************************)
EXTENDS Integers, FiniteSets, TLC

CONSTANTS
    Attempts,             \* executions of the preview workflow
    Inputs,               \* the run id each attempt may be started with
    Units,                \* extraction units; each proposes one Entity
    Acceptors,            \* acceptance calls
    Picked,               \* the units whose candidate a call may select
    None, Other,          \* Other: an Entity that somebody else has written
    MAX_PLAN_ATTEMPTS,
    MaxBusy               \* attempts and acceptance calls at a time

Runs == {input[2] : input \in Inputs}

ASSUME PreviewAssumption ==
    /\ Inputs \subseteq Attempts \X Runs /\ Picked \subseteq Units
    /\ MAX_PLAN_ATTEMPTS \in Nat \ {0} /\ MaxBusy \in Nat \ {0}
    /\ {None, Other} \cap (Attempts \cup Runs \cup Units \cup Acceptors) = {}
    /\ Attempts \cap Acceptors = {} /\ None # Other

Content == [units : SUBSET Units \ {{}}, at : Nat]   \* a preview: the units, sourceRevision
Selection == [run : Runs, content : Content, unit : Units]     \* what producerRunId hashes

ASSUME NoneAssumption ==
    None \notin Nat /\ None \notin Content /\ None \notin Selection /\ Other \notin Selection

VARIABLES
    root,       \* the Knowledge Base at its path
    staging,    \* the copy a Writer is about to rename in; the lock is held while there is one
    flow,       \* the attempts
    submit,     \* the gateway call of each attempt
    persist,    \* the preview store's call of each attempt
    accept,     \* the acceptance calls
    lost,       \* the runs whose preview a switch has dropped
    did         \* what the detached calls of each attempt have done

calls == <<submit, persist>>
vars == <<root, staging, flow, calls, accept, lost, did>>

Idle == [pc |-> "idle"]

Init ==
    /\ \E others \in SUBSET Picked :
         root = [revision |-> 0, raw |-> FALSE, source |-> FALSE, logs |-> [r \in Runs |-> None],
                 previews |-> [r \in Runs |-> None],
                 entities |-> [u \in Units |-> IF u \in others THEN Other ELSE None],
                 taken |-> {}]
    /\ staging = None
    /\ flow = [a \in Attempts |-> Idle]
    /\ submit = [a \in Attempts |-> Idle]
    /\ persist = [a \in Attempts |-> Idle]
    /\ accept = [x \in Acceptors |-> Idle]
    /\ lost = {}
    /\ did = [a \in Attempts |-> {}]

-----------------------------------------------------------------------------
(* The root and the Writers' transactions on it.                           *)

\* An attempt also counts as long as a call it no longer waits for goes on.
Busy == {a \in Attempts : \/ flow[a].pc \notin {"idle", "over"}
                          \/ submit[a].pc \notin {"idle", "settled"}
                          \/ persist[a].pc \notin {"idle", "settled"}}
        \cup {x \in Acceptors : accept[x].pc \notin {"idle", "over"}}
Room == Cardinality(Busy) < MaxBusy

\* Between the two renames there is nothing at the root's path.
Away == staging # None /\ staging.away
LockFree == staging = None

\* runKnowledgeRootTransaction: the root is copied and the change made in the copy.
Stage(owner, change) ==
    /\ LockFree
    /\ staging' = [by |-> owner, away |-> FALSE,
                   tree |-> [change EXCEPT !.revision = root.revision + 1]]

MoveAside ==
    /\ staging # None /\ ~staging.away
    /\ staging' = [staging EXCEPT !.away = TRUE]
    /\ UNCHANGED <<root, flow, calls, accept, lost, did>>

\* What was linked into the root after the copy was made goes with the backup.
MoveIn ==
    /\ Away
    /\ root' = staging.tree
    /\ lost' = lost \cup {r \in Runs : root.previews[r] # staging.tree.previews[r]}
    /\ staging' = None
    /\ submit' = [a \in Attempts |-> IF staging.by = a THEN [submit[a] EXCEPT !.pc = "confirm"]
                                                       ELSE submit[a]]
    /\ accept' = [x \in Acceptors |-> IF staging.by = x THEN [accept[x] EXCEPT !.pc = "committed"]
                                                        ELSE accept[x]]
    /\ did' = [a \in Attempts |-> IF staging.by = a THEN did[a] \cup {"source"} ELSE did[a]]
    /\ UNCHANGED <<flow, persist>>

-----------------------------------------------------------------------------
(* RawDocumentKnowledgeGatewayV04.submit, for the attempt it was called by. *)

Ran(a) == flow[a].run
Handle(a) == flow[a].handle

SubmitAt(a, pc) == submit' = [submit EXCEPT ![a].pc = pc]
Settle(a, outcome) ==
    submit' = [submit EXCEPT ![a] = [pc |-> "settled", outcome |-> outcome]]
Receipt(a, base, revision) ==
    submit' = [submit EXCEPT ![a] = [pc |-> "settled", outcome |-> "ok",
                                     base |-> base, at |-> revision]]

\* A handle that is stale is only good for a run the Writer has a log of.
Admit(a) ==
    /\ submit[a].pc = "admit"
    /\ CASE Away -> Settle(a, "failed")
         [] ~Away /\ root.revision # Handle(a) /\ root.logs[Ran(a)] = None -> Settle(a, "blocked")
         [] OTHER -> submit' = [submit EXCEPT ![a] = [pc |-> "archive", revision |-> root.revision]]
    /\ UNCHANGED <<root, staging, flow, persist, accept, lost, did>>

Archive(a) ==
    /\ submit[a].pc = "archive" /\ LockFree
    /\ root' = [root EXCEPT !.raw = TRUE]
    /\ SubmitAt(a, "plan")
    /\ UNCHANGED <<staging, flow, persist, accept, lost, did>>

\* The log and the assets once more: replay, a Source that is already there, or a ChangeSet.
Prepare(a) ==
    /\ submit[a].pc = "plan"
    /\ LET log == root.logs[Ran(a)] IN
       CASE Away -> Settle(a, "failed")
         [] ~Away /\ log # None ->
              IF Handle(a) < log /\ log # Handle(a) + 1 THEN Settle(a, "failed")
                                                        ELSE Receipt(a, log - 1, log)
         [] ~Away /\ log = None /\ root.source ->
              submit' = [submit EXCEPT ![a] = [pc |-> "settled", outcome |-> "same",
                             base |-> submit[a].revision, at |-> root.revision]]
         [] OTHER -> SubmitAt(a, "write")
    /\ UNCHANGED <<root, staging, flow, persist, accept, lost, did>>

\* Mistake: the revision is not checked again under the lock.
CommitAnyRevision(a) == TRUE

MayCommit(a) == root.revision = submit[a].revision

\* writeValidatedKnowledgeBaseV04, under the lock: a replay, a stale ChangeSet, or the commit.
WriteSource(a) ==
    /\ submit[a].pc = "write"
    /\ \/ /\ Away /\ Settle(a, "failed") /\ UNCHANGED staging
       \/ /\ LockFree /\ root.logs[Ran(a)] # None
          /\ SubmitAt(a, "confirm") /\ UNCHANGED staging
       \/ /\ LockFree /\ root.logs[Ran(a)] = None /\ ~MayCommit(a)
          /\ Settle(a, "blocked") /\ UNCHANGED staging
       \/ /\ root.logs[Ran(a)] = None /\ MayCommit(a)
          /\ Stage(a, [root EXCEPT !.source = TRUE, !.logs[Ran(a)] = root.revision + 1])
          /\ SubmitAt(a, "switching")
    /\ UNCHANGED <<root, flow, persist, accept, lost, did>>

\* verifyWriterSuccess: the manifest, the log, the Source and the Raw.
Confirm(a) ==
    /\ submit[a].pc = "confirm"
    /\ LET next == submit[a].revision + 1 IN
       IF ~Away /\ root.revision >= next /\ root.logs[Ran(a)] = next /\ root.source /\ root.raw
       THEN Receipt(a, submit[a].revision, next)
       ELSE Settle(a, "failed")
    /\ UNCHANGED <<root, staging, flow, persist, accept, lost, did>>

Submitting(a) == Admit(a) \/ Archive(a) \/ Prepare(a) \/ WriteSource(a) \/ Confirm(a)

-----------------------------------------------------------------------------
(* persistRawDocumentV04PreviewSnapshot.  assertCanonicalSourceAndRaw reads *)
(* the manifest, the Source, the Raw, and the manifest again.               *)

PersistAt(a, pc) == persist' = [persist EXCEPT ![a].pc = pc]
Persisted(a, outcome) == persist' = [persist EXCEPT ![a] = [pc |-> "settled", outcome |-> outcome]]

Canonical(seen) == ~Away /\ root.revision = seen /\ root.source /\ root.raw

BeginPersist(a) ==
    /\ persist[a].pc = "begin"
    /\ IF Away THEN Persisted(a, "failed")
               ELSE persist' = [persist EXCEPT ![a] = [pc |-> "look", seen |-> root.revision]]
    /\ UNCHANGED <<root, staging, flow, submit, accept, lost, did>>

Look(a) ==
    /\ persist[a].pc = "look"
    /\ IF ~Canonical(persist[a].seen) THEN Persisted(a, "failed")
       ELSE PersistAt(a, IF root.previews[Ran(a)] = None THEN "link" ELSE "read")
    /\ UNCHANGED <<root, staging, flow, submit, accept, lost, did>>

\* Mistake: the file is renamed into place, over what is there.
Overwrite(run) == TRUE

\* link(2) fails with EEXIST when there is a file.
MayLink(run) == root.previews[run] = None

\* persistBytes: straight into the root, without the lock.
Link(a) ==
    /\ persist[a].pc = "link"
    /\ IF ~Away /\ MayLink(Ran(a))
       THEN /\ root' = [root EXCEPT !.previews[Ran(a)] = flow[a].content]
            /\ did' = [did EXCEPT ![a] = @ \cup {"preview"}]
       ELSE UNCHANGED <<root, did>>
    /\ IF Away THEN Persisted(a, "failed") ELSE PersistAt(a, "read")
    /\ UNCHANGED <<staging, flow, submit, accept, lost>>

ReadStored(a) ==
    /\ persist[a].pc = "read"
    /\ IF Away \/ root.previews[Ran(a)] = None THEN Persisted(a, "failed")
       ELSE persist' = [persist EXCEPT ![a] = [pc |-> "final", seen |-> root.revision,
                                               found |-> root.previews[Ran(a)]]]
    /\ UNCHANGED <<root, staging, flow, submit, accept, lost, did>>

FinalCheck(a) ==
    /\ persist[a].pc = "final"
    /\ Persisted(a, IF Canonical(persist[a].seen) /\ persist[a].found = flow[a].content
                    THEN "ok" ELSE "failed")
    /\ UNCHANGED <<root, staging, flow, submit, accept, lost, did>>

Persisting(a) == BeginPersist(a) \/ Look(a) \/ Link(a) \/ ReadStored(a) \/ FinalCheck(a)

-----------------------------------------------------------------------------
(* runRawDocumentKnowledgePreviewV04: one await after the other.           *)

Running == {"acquire", "submit", "verify", "parse", "plan", "extract", "persist", "readback", "check"}
At(a, pc) == flow[a].pc = pc
Goto(a, pc) == flow' = [flow EXCEPT ![a].pc = pc]
Result(a, status, source, preview) ==
    flow' = [flow EXCEPT ![a] = [pc |-> "over", run |-> @.run, handle |-> @.handle,
        content |-> @.content, status |-> status, source |-> source, preview |-> preview]]
SourceOnly(a, preview) == Result(a, "source_only", "verified", preview)

\* The service mounts the Knowledge Base; without it there is no workflow.
Begin(a) ==
    /\ flow[a].pc = "idle" /\ ~Away /\ Room
    /\ \E r \in Runs :
         /\ <<a, r>> \in Inputs
         /\ flow' = [flow EXCEPT ![a] = [pc |-> "acquire", run |-> r, handle |-> root.revision,
                tries |-> 0, at |-> 0, content |-> None, seen |-> 0, found |-> None]]
    /\ UNCHANGED <<root, staging, calls, accept, lost, did>>

Acquire(a) ==
    /\ At(a, "acquire")
    /\ \/ Result(a, "blocked", "not_started", "not_attempted") /\ UNCHANGED submit
       \/ Goto(a, "submit") /\ SubmitAt(a, "admit")
    /\ UNCHANGED <<root, staging, persist, accept, lost, did>>

Receive(a) ==
    /\ At(a, "submit") /\ submit[a].pc = "settled"
    /\ IF submit[a].outcome \in {"ok", "same"} THEN Goto(a, "verify")
       ELSE Result(a, "blocked", submit[a].outcome, "not_attempted")
    /\ UNCHANGED <<root, staging, calls, accept, lost, did>>

\* verifySourceRawReceipt
Verify(a) ==
    /\ At(a, "verify")
    /\ LET r == submit[a]
           exact == r.at = IF r.outcome = "same" THEN r.base ELSE r.base + 1
       IN  IF exact /\ ~Away /\ root.revision >= r.at /\ root.source /\ root.raw
           THEN flow' = [flow EXCEPT ![a].pc = "parse", ![a].at = r.at]
           ELSE Result(a, "blocked", "failed", "not_attempted")
    /\ UNCHANGED <<root, staging, calls, accept, lost, did>>

Parse(a) ==
    /\ At(a, "parse")
    /\ Goto(a, "plan") \/ SourceOnly(a, "not_attempted")
    /\ UNCHANGED <<root, staging, calls, accept, lost, did>>

\* An invalid plan is repaired if it can be, as long as attempts are left.
Plan(a) ==
    /\ At(a, "plan")
    /\ \/ flow' = [flow EXCEPT ![a].pc = "extract", ![a].tries = 0]
       \/ flow[a].tries + 1 < MAX_PLAN_ATTEMPTS /\ flow' = [flow EXCEPT ![a].tries = @ + 1]
       \/ SourceOnly(a, "not_attempted")
    /\ UNCHANGED <<root, staging, calls, accept, lost, did>>

\* extractBounded: some units yield candidates, the others have failed.
Extract(a) ==
    /\ At(a, "extract")
    /\ \/ SourceOnly(a, "not_attempted") /\ UNCHANGED persist
       \/ \E done \in SUBSET Units \ {{}} :
            /\ flow' = [flow EXCEPT ![a].pc = "persist",
                                    ![a].content = [units |-> done, at |-> flow[a].at]]
            /\ PersistAt(a, "begin")
    /\ UNCHANGED <<root, staging, submit, accept, lost, did>>

Stored(a) ==
    /\ At(a, "persist") /\ persist[a].pc = "settled"
    /\ IF persist[a].outcome = "ok" THEN Goto(a, "readback") ELSE SourceOnly(a, "failed")
    /\ UNCHANGED <<root, staging, calls, accept, lost, did>>

\* readRawDocumentV04PreviewSnapshot
ReadBack(a) ==
    /\ At(a, "readback")
    /\ IF Away \/ root.previews[Ran(a)] = None THEN SourceOnly(a, "failed")
       ELSE flow' = [flow EXCEPT ![a].pc = "check", ![a].seen = root.revision,
                                 ![a].found = root.previews[Ran(a)]]
    /\ UNCHANGED <<root, staging, calls, accept, lost, did>>

Committable(a) ==
    /\ At(a, "check")
    /\ IF Canonical(flow[a].seen) /\ flow[a].found = flow[a].content
       THEN Result(a, IF flow[a].content.units = Units THEN "preview_ready" ELSE "preview_partial",
                   "verified", "committable")
       ELSE SourceOnly(a, "failed")
    /\ UNCHANGED <<root, staging, calls, accept, lost, did>>

\* Mistake: what has not been received has not happened.
NotReceived(pc) ==
    CASE pc \in {"acquire", "submit", "verify"} -> <<"not_started", "not_attempted">>
      [] pc \in {"parse", "plan", "extract"}    -> <<"verified", "not_attempted">>
      [] OTHER                                  -> <<"verified", "unknown">>

\* What is said of the Source and of the preview, by the await that was cancelled.
CancelledAt(pc) ==
    CASE pc = "acquire"                      -> <<"not_started", "not_attempted">>
      [] pc \in {"submit", "verify"}         -> <<"unknown", "not_attempted">>
      [] pc \in {"parse", "plan", "extract"} -> <<"verified", "not_attempted">>
      [] OTHER                               -> <<"verified", "unknown">>

\* The signal fires: awaitAbortable no longer waits for whatever is awaited.
Cancel(a) ==
    /\ flow[a].pc \in Running
    /\ LET said == CancelledAt(flow[a].pc) IN Result(a, "cancelled", said[1], said[2])
    /\ UNCHANGED <<root, staging, calls, accept, lost, did>>

Working(a) ==
    \/ Begin(a) \/ Acquire(a) \/ Receive(a) \/ Verify(a) \/ Parse(a) \/ Plan(a) \/ Extract(a)
    \/ Stored(a) \/ ReadBack(a) \/ Committable(a) \/ Cancel(a)

-----------------------------------------------------------------------------
(* acceptRawDocumentV04Candidates, for one candidate of one preview, and    *)
(* what KnowledgeProductionGateway.submit does for it.                      *)

AcceptAt(x, pc) == accept' = [accept EXCEPT ![x].pc = pc]
Reply(x, reply) ==
    accept' = [accept EXCEPT ![x] = [pc |-> "over", run |-> @.run, unit |-> @.unit,
                                     content |-> @.content, reply |-> reply]]

\* The service refreshes its handle and passes it on.
BeginAccept(x) ==
    /\ accept[x].pc = "idle" /\ ~Away /\ Room
    /\ \E r \in Runs, u \in Picked :
         accept' = [accept EXCEPT ![x] = [pc |-> "mount", run |-> r, unit |-> u,
             handle |-> root.revision, content |-> None, prior |-> FALSE]]
    /\ UNCHANGED <<root, staging, flow, calls, lost, did>>

\* The root is mounted, the preview is read: first the manifest and the file ...
ReadPreview(x) ==
    /\ accept[x].pc = "mount"
    /\ CASE Away -> Reply(x, "failed")
         [] ~Away /\ root.revision # accept[x].handle -> Reply(x, "stale")
         [] ~Away /\ root.revision = accept[x].handle /\ root.previews[accept[x].run] = None ->
              Reply(x, "blocked")
         [] OTHER -> accept' = [accept EXCEPT ![x].pc = "verify",
                                              ![x].content = root.previews[accept[x].run]]
    /\ UNCHANGED <<root, staging, flow, calls, lost, did>>

\* ... then the Source, the Raw and the manifest again; the candidate must be in it.
VerifyPreview(x) ==
    /\ accept[x].pc = "verify"
    /\ IF Canonical(accept[x].handle) /\ accept[x].unit \in accept[x].content.units
       THEN AcceptAt(x, "refresh") ELSE Reply(x, "blocked")
    /\ UNCHANGED <<root, staging, flow, calls, lost, did>>

Chosen(x) == [run |-> accept[x].run, content |-> accept[x].content, unit |-> accept[x].unit]

\* The handle's revision bounds the receipts that will count: `prior` notes whether the selection has one.
RefreshHandle(x) ==
    /\ accept[x].pc = "refresh"
    /\ CASE Away -> Reply(x, "failed")
         [] ~Away /\ root.revision # accept[x].handle -> Reply(x, "stale")
         [] OTHER -> accept' = [accept EXCEPT ![x].pc = "prior",
                                              ![x].prior = Chosen(x) \in root.taken]
    /\ UNCHANGED <<root, staging, flow, calls, lost, did>>

\* priorAcceptedEntityRefs: a log that cannot be read, or of a later revision than the handle's, is no
\* log.  A receipt up to that revision was there when the handle was refreshed, and stays.
ReadPrior(x) ==
    /\ accept[x].pc = "prior"
    /\ accept' = [accept EXCEPT ![x].pc = "resolve",
                                ![x].prior = @ /\ ~Away]
    /\ UNCHANGED <<root, staging, flow, calls, lost, did>>

\* Mistake: an Entity with the allocated identity is taken for the candidate's own.
ExactIdIsEnough(x) == TRUE

\* An Entity that is there is the candidate's own only if this very selection wrote it.
OwnEntity(x) == accept[x].prior

Resolve(x) ==
    /\ accept[x].pc = "resolve"
    /\ LET there == root.entities[accept[x].unit] # None IN
       CASE Away                           -> Reply(x, "failed")
         [] ~Away /\ ~there                -> AcceptAt(x, "write")
         [] ~Away /\ there /\ OwnEntity(x) -> AcceptAt(x, "recheck")
         [] OTHER                          -> Reply(x, "blocked")
    /\ UNCHANGED <<root, staging, flow, calls, lost, did>>

\* No changes: the revision must still be the one that was resolved against.
Recheck(x) ==
    /\ accept[x].pc = "recheck"
    /\ CASE Away -> Reply(x, "failed")
         [] ~Away /\ root.revision # accept[x].handle -> Reply(x, "stale")
         [] OTHER -> Reply(x, "accepted")
    /\ UNCHANGED <<root, staging, flow, calls, lost, did>>

\* The same Writer.
WriteEntity(x) ==
    /\ accept[x].pc = "write"
    /\ \/ /\ Away /\ Reply(x, "failed") /\ UNCHANGED staging
       \/ /\ LockFree /\ Chosen(x) \in root.taken
          /\ AcceptAt(x, "committed") /\ UNCHANGED staging
       \/ /\ LockFree /\ Chosen(x) \notin root.taken /\ root.revision # accept[x].handle
          /\ Reply(x, "failed") /\ UNCHANGED staging
       \/ /\ Chosen(x) \notin root.taken /\ root.revision = accept[x].handle
          /\ Stage(x, [root EXCEPT !.entities[accept[x].unit] = Chosen(x), !.taken = @ \cup {Chosen(x)}])
          /\ AcceptAt(x, "switching")
    /\ UNCHANGED <<root, flow, calls, lost, did>>

Committed(x) ==
    /\ accept[x].pc = "committed"
    /\ Reply(x, "accepted")
    /\ UNCHANGED <<root, staging, flow, calls, lost, did>>

Accepting(x) ==
    \/ BeginAccept(x) \/ ReadPreview(x) \/ VerifyPreview(x) \/ RefreshHandle(x) \/ ReadPrior(x)
    \/ Resolve(x) \/ Recheck(x) \/ WriteEntity(x) \/ Committed(x)

-----------------------------------------------------------------------------
Next ==
    \/ MoveAside \/ MoveIn
    \/ \E a \in Attempts : Submitting(a) \/ Persisting(a) \/ Working(a)
    \/ \E x \in Acceptors : Accepting(x)

Spec == Init /\ [][Next]_vars

-----------------------------------------------------------------------------
(* Properties.                                                             *)

Owner == {None, Other} \cup Selection
Tree == [revision : Nat, raw : BOOLEAN, source : BOOLEAN, logs : [Runs -> Nat \cup {None}],
         previews : [Runs -> Content \cup {None}], entities : [Units -> Owner],
         taken : SUBSET Selection]

(* Types; a commit never puts a Source in the root without the Raw it cites *)
(* and the log of the run it was made by, also in a copy that waits.        *)
TypeOK ==
    /\ root \in Tree
    /\ staging # None =>
         /\ staging.tree \in Tree /\ staging.away \in BOOLEAN
         /\ staging.by \in Attempts \cup Acceptors
         /\ staging.tree.revision = root.revision + 1
    /\ lost \subseteq Runs
    /\ did \in [Attempts -> SUBSET {"source", "preview"}]
    /\ root.source <=> (\E r \in Runs : root.logs[r] # None)
    /\ root.source => root.raw
    /\ Cardinality({r \in Runs : root.logs[r] # None}) <= 1

(* The workflow stops waiting at a cancellation, at a refused receipt, at a *)
(* failed store (v04-preview-workflow.ts:691-856), and the call goes on.    *)
(* What the result rules out must stay ruled out: an attempt that ended     *)
(* with its Source "not_started" or "blocked" never commits one later, one  *)
(* with its preview "not_attempted" never leaves a preview behind.          *)
DeniedIsTrue ==
    \A a \in Attempts :
        flow[a].pc = "over" =>
            /\ flow[a].source \in {"not_started", "blocked"} =>
                 "source" \notin did[a] /\ ~(staging # None /\ staging.by = a)
            /\ flow[a].preview = "not_attempted" => "preview" \notin did[a]

(* A preview that was reported committable is in the Knowledge Base with    *)
(* exactly that content, its Source and its Raw, for good and whatever      *)
(* other attempts store under the run id (v04-preview-store.ts:833-868);    *)
(* "ready" means that every unit was extracted.  A preview that a Writer's  *)
(* switch has dropped is excepted, see CommittableStays.                    *)
CommittableIsKept ==
    \A a \in Attempts :
        flow[a].pc = "over" /\ flow[a].preview = "committable" =>
            /\ root.source /\ root.raw
            /\ Ran(a) \notin lost => root.previews[Ran(a)] = flow[a].content
            /\ flow[a].status = "preview_ready" <=> flow[a].content.units = Units

(* A candidate that was reported accepted is the Entity in the Knowledge    *)
(* Base, written by that very selection of that very preview; an Entity     *)
(* somebody else has written under the same identity is never claimed, and  *)
(* nothing is written for a unit the preview does not hold                  *)
(* (v04-candidate-acceptance.ts:248-427).                                   *)
AcceptanceIsTrue ==
    /\ \A x \in Acceptors :
         accept[x].pc = "over" /\ accept[x].reply = "accepted" =>
            root.entities[accept[x].unit] = Chosen(x) /\ Chosen(x) \in root.taken
    /\ \A u \in Units : root.entities[u] \in Selection =>
            root.entities[u].unit = u /\ u \in root.entities[u].content.units
    /\ \A s \in root.taken : root.entities[s.unit] = s

(* "Atomically creates an immutable JSON sidecar" (v04-preview-store.ts:833): *)
(* a preview that was read back and reported committable stays in the        *)
(* Knowledge Base.                                                           *)
CommittableStays ==
    \A a \in Attempts :
        flow[a].pc = "over" /\ flow[a].preview = "committable" => root.previews[Ran(a)] # None
=============================================================================
