# ResearchHub: a TLA+ model of its Knowledge Base, its runs and its decisions

ResearchHub (`src/`) is a TypeScript application that runs research workflows
over model and data providers and keeps their accepted results in a Knowledge
Base, a directory of JSON files under one revision number.  This directory
holds TLA+ modules of the parts whose correctness depends on the order of
events: the Knowledge Base directory with its lock, journal, recovery and
Writers; the record of a Workflow run with its snapshots; the requests of a
conversation and who may execute them; the decision of a thesis review; the
preview of a raw document and the acceptance of its candidates.  TLC checks
them on small instances; TLAPS proves the main safety results of every one of them
for all instances.

Paths below are relative to `src/`.

## 1. Inventory

### 1.1 Components

| Component | Code | State | Operations | Status |
|---|---|---|---|---|
| Root transaction | `knowledge/storage/root-transaction.ts` | root, staging, backup directories; journal `<root>.recovery.json` | transaction, recovery | modelled |
| Writers | `knowledge/writer/writer-v03.ts`, `writer-v04.ts` | none of their own: the tree they write | `writeKnowledgeBaseV03/V04` | modelled |
| Mutation lock | `knowledge/storage/mutation-lock.ts` | `processLocks` (a promise per root), the lock directory | `withKnowledgeBaseMutationLock` | modelled |
| Workflow runs | `app/services/workflow-service.ts`, `app/runtime/workflow-observation-store.ts` | live views, AbortControllers, a chain of writes per run, persistence states; one snapshot file per run | register, start, report, mark terminal, cancel, flush, initialize | modelled |
| Conversation state and claims | `app/runtime/conversation-state-store.ts`, `session-runtime.ts` | accepted requests, their lifecycle, the title; one file per conversation | accept, claim, clarify, start, settle, rename, recover | partly |
| Review and thesis decisions | `knowledge/review/decision-store.ts`, `app/services/thesis-decision-service.ts` | an event file per review; the report beside it | decide, begin, commit, finalize, reconcile, report | partly |
| Production gateways | `knowledge/production/` | none | submit a ChangeSet and check its receipt | partly |
| Raw-document ingestion and preview | `workflows/raw-document-knowledge-ingestion/` | preview files in the root | preview, persist, accept; of the ingestion: plan, submit, log a blocked run | partly |
| Registry | `knowledge/registry/registry.ts` | handles: revision at mount or refresh | mount, register, refresh | partly |
| Records beside the objects | `knowledge/raw/raw-archive.ts`, `knowledge/review/store.ts`, `knowledge/storage/ingestion-log.ts`, `.../review/review-telemetry.ts` | raw bundles and registry, review cases, logs of blocked runs | archiveRaw, persistReviewCases, writeBlocked, ... | partly |
| Theme-scope ledger and index | `knowledge/governance/theme-scope-*.ts` | a sidecar derived from the logs | load, rebuild, advance | partly |
| Dispatch and production services | `app/services/research-dispatch-service.ts`, `production-service.ts`, `research-service.ts` | pending results | dispatch, start, persist the result | partly |
| HTTP server, client polling | `app/runtime/server.ts`, `client/src/app/workflow-polling.ts`, `client/src/app/chat/RequestExecution.tsx` | intervals in the client | routes; polling of a linked run | partly |
| Schema, validation, migration | `knowledge/schema/`, `knowledge/validation/`, `knowledge/migration/` | none | pure functions over documents | not modelled |
| Research workflows and skills | `workflows/`, `skills/` | none that outlives a call | pipelines over model answers | not modelled |
| Plugins, data layer | `plugins/`, `data/` | none that outlives a call | provider I/O, parsing | not modelled |
| Daily intelligence | `plugins/daily-intelligence/` | briefs and signals of its own | scheduler, stores | not modelled |
| Settings, credentials, logins, attachments | `app/runtime/*` | single files | read, write | not modelled |
| React client | `client/` | view state | presentation | not modelled (but polling) |

### 1.2 How they interact

    client --dispatch/confirm/prompt/steer--> server --claims--> conversation file
       |                                        |
       +--poll/cancel--> WorkflowService <------+----> agent prompts
                          |          ^
              snapshot chain         | reports
                          v          |
                 observation store  operation: research, preview, acceptance, decision
                                     |
             decision file ----------+---> gateway --> Writer (0.3 / 0.4), under the lock
                                     |                      |
          preview file (no lock) ----+                      v
      archiveRaw, review cases, run logs -- lock --> Knowledge Base directory
                                                     (root, staging, backup, journal)

* Callers of one process wait for each other on a chain of promises; callers of
  different processes exclude each other with `mkdir`, and the second one is
  refused.
* Under the lock the Writers and `archiveRaw` first recover; the other records
  are kept without recovery.
* Handles, ChangeSets, planned before-hashes, the Schema 0.4 Writer's first
  look at log, manifest and index, a gateway's admission, a decision's
  reconciliation and every check of a preview read without the lock.
* The preview store is the one writer of the root that does not take the lock.
* Calls of the conversation store wait for one another per conversation; HTTP
  requests interleave between them.
* What was cancelled goes on: a run's operation may still commit, a preview's
  gateway call may still write the Source.  The record has to say what happened.

### 1.3 What is hard here, and what would make it right

`PROJECT.json` lists each hazard with its line.  In short:

* **Crash points.** A transaction is about ten file-system calls, recovery up to
  seven.  Correct: the base is always whole at its place or beside it
  (`Recoverable`), and changes only by whole ChangeSets
  (`ImplementsKnowledgeBase`).
* **Errors with unknown outcome, retries, duplicates.** A ChangeSet whose Writer
  failed after the journal was written *will* be committed by the next recovery.
  Correct: it takes effect once, a replay is told so
  (`ImplementsKnowledgeBase`, `RefusedIsNotCommitted`).
* **Unlocked reads.** Correct: nothing read before the lock gets past the guards
  under the lock (`RevisionGuardsTargets`, `ImplementsKnowledgeBase`).
* **Locks of the dead.** Correct: nobody waits for ever, a caller is refused
  only for a foreign or a left directory (`EveryCallReturns`,
  `ConflictIsForeign`), inside a process calls are served in order
  (`ImplementsKnowledgeLock`), and the map of chains does not leak
  (`ChainIsDropped`).
* **Commit against cancellation.** Correct: an authoritative outcome is what the
  record shows (`OutcomeIsShown`) and stored for good (`StoredOutcomeIsFinal`);
  what is over shows nothing open (`NothingRunsWhenOver`).
* **Snapshots queued behind each other, failing, or lost in a crash.** Correct:
  `saved` means the file holds this very view (`SavedIsDurable`), an awaited
  flush means what it says (`ConfirmedIsDurable`), an operation begins at most
  once per run id (`RunsAtMostOnce`), and everybody who waits gets an answer
  (`EveryCallReturns`, `PollingStopsUnlessKilled`).
* **Retries of a request, and restarts in between.** Correct: executed at most
  once and never offered again (`KeepsLedger`), with the text that was accepted
  (`ExecutesWhatWasAccepted`); the record tells the truth (`VerdictsAreTrue`)
  and is settled (`RunsAreReconciled`, `ClaimsEnd`); a title gives way only to a
  stronger one (`TitleGivesWay`).
* **A decision in two files.** Correct: the thesis is written only under the one
  recorded intent (`WrittenUnderIntent`), ACCEPTED means written
  (`AcceptedIsWritten`), replies and report follow the file (`RepliesAreTrue`,
  `ReportFollows`), a caller that is alone never gives up what was written
  (`AloneIsExact`), and an acceptance that was begun is decided (`ApplyingEnds`).
* **Results of calls nobody waits for, and files linked without the lock.**
  Correct: what a preview's result denies stays denied (`DeniedIsTrue`), what it
  promises is there (`CommittableIsKept`), only a selection's own Entity is
  claimed (`AcceptanceIsTrue`).

## 2. Modules

| Module | Role |
|---|---|
| `KnowledgeBase` | abstract: a revisioned store that changes by whole ChangeSets |
| `KnowledgeRoot` | the directory, the journal, recovery, both Writers, archive and notes, faults; refines `KnowledgeBase` |
| `KnowledgeLock` | abstract: one caller inside, call order within a process |
| `MutationLock` | promise chains and the lock directory; refines `KnowledgeLock` |
| `WorkflowRun` | the live record, the snapshot chain and file, start, reports, outcomes, cancel, polling, restart |
| `RequestLedger` | abstract: a request is taken by one caller at a time, executed at most once, and stays over |
| `Conversation` | the conversation's file and its queue, the HTTP requests, the Workflows and prompts they start, restart; refines `RequestLedger` |
| `ThesisDecision` | the decision file, the calls that decide it, the gateway, the report, crashes |
| `RawPreview` | the preview workflow, gateway and preview store, acceptance, the Writer's copy and switch |
| `KnowledgeRootProofs`, `KnowledgeRootRefinement`, `RevisionGuardProofs`, `MutationLockProofs`, `WorkflowRunProofs`, `ConversationProofs`, `ThesisDecisionProofs`, `RawPreviewProofs` | theorems for all constants (section 4) |
| `MC...` | instances for TLC |

How they fit together: `KnowledgeRoot` uses of the lock only what
`KnowledgeLock` promises (`Acquire` when nobody is inside, refusal when the
holder is of another process or gone), and `MutationLock` shows that the code
provides that.  `ThesisDecision` uses of the Knowledge Base what `KnowledgeBase`
promises: a submission commits at most once per run, at the revision it was
planned for, in one step.  `RawPreview` needs one thing more, the moment
between the copy and the switch, and therefore has the copy and the two renames
itself.  `WorkflowRun` assumes one dispatch per run id and process; that is what
`RequestLedger` promises and `Conversation` provides.

### 2.1 KnowledgeRoot and the code

A *tree* (`root`, `staging`, `backup`) is the contents of a directory, kept as
far as the guards look at it: whether manifest and registry can be read, the
revision, the Writer log of each run, the version of each object (named by the
ChangeSet that wrote it last, in place of its hash), whether a valid index
sidecar is there, and the records kept beside the objects.  `marker` is the
journal.  `pc` says at which awaited call a caller is.

| Code | Actions |
|---|---|
| `registry.mount` / `refresh` | `Mount`, `Refresh` |
| ChangeSet planner | `Plan` (revision from the handle, before-hash from the object as it is now) |
| Writer before the lock | `Submit`, `ReadLog`, `ReadManifest`, `ReadIndex` |
| lock | `Acquire`, `AlreadyHeld`, `Release`, `FailRelease`, `ClearStaleLock` |
| `recoverKnowledgeBaseRoot` | `NothingToRecover`, `RecoverIllegible`, `RecoverForward`, `RecoverBackward`, `RecoverKeep`, `Validate`, `ValidateFails`, `Undo`, `Restore`, `Clean`, `Unmark` |
| Writer under the lock | `Decide` with `Verdict`, `HasPrior`, `ReplayVerdict` |
| `runKnowledgeRootTransaction` | `Stage`, `Prepare`, `Mark`, `MoveAside`, `MarkSwitching`, `MoveIn`, `MarkCommitted`, `DropBackup`, `DropMarker` |
| its `catch` | `FailBeforeJournal` (clean up), `FailInPlace` (leave everything) |
| `archiveRaw`; review cases, `writeBlocked`, no-op records | `Start`, then `Archive` (after recovery) or `Append` (without) |
| faults | `FailInPlace`, `FailUnlocked`, `FailHalfway` (a write or removal cut short), `Crash` |

Details that look odd are the code's: recovery ignores the journal's `status`;
a root that exists wins, whatever it holds; `loadKnowledgeBaseManifest` stands
outside the `try`, so a missing root rejects the promise (`threw`) where other
errors become `commit_failed`; an index rebuild is refused while a journal or a
lock directory exists.

The Schema 0.3 Writer names the log file by run and searches it by
`changeSetId`; a second ChangeSet of one run would replace the first one's log.
The validators give each run one ChangeSet, so the 0.3 runs use `MCOwnRuns` and
the proofs assume `OneChangeSetPerRun` for Schema 0.3; the 0.4 Writer is also
checked with two ChangeSets of one run (`MCSharedRun`).

### 2.2 MutationLock and the code

`tail` is `processLocks`, `previous` the promise a call awaits.  `Call` is the
code up to `await previous` (nothing else of the process runs in between);
then `mkdir`, the owner file, the task, the removal, and `Settle` (the `finally`
that releases the chain and drops its entry unless another call has joined).
The abstract `ahead` of a caller is the set of calls it waits for, directly or
not (`Waited`).

### 2.3 WorkflowRun and the code

One run id; other ids share no state with it.  `live` is `runs.get(runId)`,
`known` is `knownRunIds.has(runId)`, `queue` the views in the promise chain of
`persist`, `saved` the persistence state, `disk` the snapshot file.  `Publish`
is `runs.set` with `persist` for one or several views written in one turn.

| Code | Actions |
|---|---|
| `initialize` | `Initialize` (a directory that cannot be listed leaves `known` empty) |
| `register`, and `start` up to its first await | `Register`, `Start`; both and the pending result in one turn: `Dispatch` |
| a service that refuses a registered run | `Refuse` |
| `start` after its flush; the operation; the end | `Begin`, `OperationCommits` (authoritative), `OperationReturns`, `End` |
| `startStage` and the other reporter calls | `Report`, `Reported` |
| the store's write | `Save`, `SaveRefused`, `SaveFails` (before or after the rename) |
| cancel route | `Cancel`, `CancelReturns` |
| final execution result | `AttachResult` |
| history and client interval | `Poll` with `Shown`, `Synchronized` |
| death of the runtime | `Crash` |

Abstractions: stages, Skills, activities and providers are one flag `open`;
`completed_with_review` behaves as `completed`; the operation has one reporter
call under way at a time; one dispatch per run id and process.

### 2.4 Conversation and the code

`file` is the conversation's JSON file: per operation id the accepted request
(`Record`), and the title.  `tail` is the promise chain of `serialized`: a call
of the store reads the file when those before it have settled (`Read`), computes
its answer (one operator per store method, named as the method) and writes
(`Write`, `WriteFails`); what the HTTP request does with the answer, up to its
next call of the store, is in the same step, as in the code.

| Code | Operators and actions |
|---|---|
| `dispatchResearch` (both forms), `acceptConversationCommand` | `Arrive`, `Get`, `AcceptRequest`, `AfterAccept`, `Replay` |
| `claimSubmission`, `claimClarification`, `claimChatCommand` | operators of the same names |
| `startAsync`, `confirmAsync` of the dispatch service | `Dispatched`, `PreparationFails` |
| `recordDispatchEnvelope`, `recordWorkflowCandidate`, `markWorkflowStarted`, `linkToolWorkflow`, `markReadyForChat`, `markNotStarted`, `markDispatchFailed`, `completeWorkflowRequest` | operators of the same names |
| `reconcileWorkflowTerminal` | `Reconcile` after `RunEnds` |
| agent prompt and agent events | `AgentAccepts`, `AgentRefuses`, `AgentStarts`, `AgentEnds` |
| metadata route | `Rename` |
| start-up | `Crash`, `Recover` with `Interrupted` |
| `validateRequest` | `ValidRequest`; a write that breaks it is refused |

`executed`, `ended` and `questions` are history variables.  Left out: the limit
on kept requests, message ids, archiving, and the tool activities shown with a
request.

### 2.5 ThesisDecision and the code

One review of one draft.  `events` is the decision file, `base` and `logs` what
the Knowledge Base holds, `report` the review's state in the report, `call` the
calls of `decide`.  A submission's gateway run is named by the note it carries.

| Code | Actions |
|---|---|
| `decide` up to its first write; the store's `append` with its checks | `Decide` with `Verdict`, `Transition`, `IsReplay` |
| `reconcileApplying` | `Mount`, `ReadLog`, `Rebind`, `VerifyReconciled` |
| `executeGateway` | `Plan`, `Commit`, `SubmissionFails`, `VerifyWritten` |
| `finalize` / stale | `Store` |
| the report | `Sync`, `Report` with `MayReport` |
| another producer's commit; death of the runtime | `Foreign`, `Crash` |

### 2.6 RawPreview and the code

One document.  `flow` are the executions of the preview workflow, `submit` and
`persist` the gateway's and the preview store's call each of them makes, which
go on by themselves after `Cancel`; `accept` are the acceptances.  `staging` is
the copy that a Writer is about to switch in: there is one exactly while the
lock is held.  `lost` and `did` are history variables.

| Code | Actions |
|---|---|
| the Writer's copy and switch | `Stage`, `MoveAside`, `MoveIn` |
| `RawDocumentKnowledgeGatewayV04.submit` | `Admit`, `Archive`, `Prepare`, `WriteSource`, `Confirm` |
| `persistRawDocumentV04PreviewSnapshot` | `BeginPersist`, `Look`, `Link`, `ReadStored`, `FinalCheck` |
| `runRawDocumentKnowledgePreviewV04` | `Begin`, `Acquire`, `Receive`, `Verify`, `Parse`, `Plan`, `Extract`, `Stored`, `ReadBack`, `Committable`, `Cancel` with `CancelledAt` |
| `acceptRawDocumentV04Candidates` and its gateway submission | `BeginAccept`, `ReadPreview`, `VerifyPreview`, `RefreshHandle`, `ReadPrior`, `Resolve`, `Recheck`, `WriteEntity`, `Committed` |

A unit proposes one Entity; what it extracts is the set of units that yielded
candidates.  One candidate per acceptance.  The journal and its recovery are in
`KnowledgeRoot` and not repeated here; this module has no crashes.

## 3. Runs

A passing run takes from a few seconds to a few minutes.  The runs that do not
check for deadlock are those of systems that really stop: behind an illegible
journal, when a run is over and its id used up, when all requests have been
answered, a review is decided, or all attempts are over.

| Run | Instance | Shows |
|---|---|---|
| `writers04` | Schema 0.4, 2 callers in 2 processes, 3 ChangeSets over 2 runs (one without operations), every kind of record, no faults | every interleaving implements the store; the before-hash guard never fires |
| `crash03` | Schema 0.3, 2 processes, 1 crash, 1 I/O error, removals cut short | always whole, changes by whole ChangeSets, no stale answer for a committed ChangeSet (also after a failed call that is rolled forward later) |
| `faults04` | Schema 0.4, 2 callers of 1 process, 2 ChangeSets, 3 errors (I/O, read error in a recovery's validation, journal cut short) | the undo branch of recovery, its failure and its repetition; an illegible journal makes the base unusable but changes nothing |
| `lock` | 4 callers (3 in one process), 2 crashes, 2 errors, fairness | exclusion, call order, no leak in the map, every call returns |
| `run` | 2 crashes, 2 errors (a failing write, a directory that cannot be listed), 2 reports, cancel at any time, fairness | once only; outcomes are shown and final; what `saved` and a flush mean; `start`, cancel and polling end |
| `conversation` | one operation id, 3 HTTP requests (dispatch with either of two texts, answer to a question, prompt, steer), one fault (crash, failed write, refused prompt), a rename, fairness | implements `RequestLedger`; what was accepted is what is executed; verdicts are true; claims and runs are settled; titles |
| `thesis` | 2 callers with 2 notes and any decision, 3 events in the file, 1 foreign commit, 1 fault, fairness | one write under one intent; replies and report follow the file; an acceptance that was begun is decided |
| `preview` | 2 attempts on 1 or 2 run ids, 2 units, 2 acceptances of one unit, at most 2 busy at a time | what a result denies or promises, and who owns an Entity |

Runs that are expected to be violated, each one a statement of a document or a
comment that the code does not keep (`findings` in `PROJECT.json` quote both):

| Run | Property | What happens |
|---|---|---|
| `note03` | `AcknowledgedIsKept` | a record kept without recovery recreates the missing root; the next recovery drops the backup |
| `conversation_failed` | `DispatchFailureIsRecorded` | a request with a chosen workflow whose dispatch fails cannot be recorded as failed: its own validation refuses the record, and it stays claimed; no fault is allowed in this run |
| `thesis_stale` | `NeverGivesUpWritten` | of two overlapping acceptances the one that read the Writer log first records STALE for a decision that has just been written |
| `preview_lost` | `CommittableStays` | a preview linked between a Writer's copy and its switch is reported committable and goes away with the backup |

### 3.1 Disagreements without a run of their own

Four more were met.  Each can be reproduced by giving one of the configurations
the values named (and `CHECK_DEADLOCK FALSE`):

* **A journal cut short** (`knowledge/storage/root-transaction.ts:110`).  The
  journal is rewritten in place after the root has been moved aside; a crash in
  that write leaves a file no recovery can parse, and no root, although staged
  tree and backup are there.  `tests/knowledge/transaction.test.ts:24` says that
  such a switch is recovered.  `MCKnowledgeRoot`, `SwitchIsRecoverable` as
  INVARIANT: `Schema = "0.3"`, `MCOneProcess`, `Kinds = {"write"}`,
  `Faults = {"crash", "tornMarker"}`, `MaxCrashes = 1`, `MaxErrors = 0`.
* **A replay called stale** (`knowledge/writer/writer-v04.ts:190`).  Log and
  manifest are read one after the other before the lock; when the first
  submission of the same ChangeSet commits in between, the duplicate is told
  `stale_revision`, against the comment at line 185.  `MCKnowledgeRoot`,
  `RefusedIsNotCommitted` as PROPERTY: `Schema = "0.4"`, `MCOneProcess`,
  `Kinds = {"write"}`, `Faults = {}`, both bounds 0.  (It holds of the 0.3
  Writer, which decides under the lock only: run `crash03`.)
* **Polling for ever** (`client/src/app/chat/RequestExecution.tsx:71`).  After a
  crash between the terminal snapshot and the final result the history serves a
  terminal status with a result that stays pending, and the client keeps
  polling; `docs/engineering/specs/2026-10-12-rhl-ux-003-workflow-observation-contract.md:53`
  says that polling stops on a terminal state.  `MCWorkflowRun`, `PollingStops` as
  PROPERTY: `Faults = {"crash"}`, `MaxCrashes = 1`, the other bounds 0.
* **Two faults in one recovery** (`knowledge/storage/root-transaction.ts:83`).
  A recovery moves the staged tree in, cannot read it, starts to remove it
  again, and that removal is cut short; the next recovery finds a root and drops
  the backup.  `MCKnowledgeRoot`, `Recoverable` as INVARIANT: `Schema = "0.3"`,
  `Kinds = {"write"}`, `MCOneProcess`,
  `Faults = {"ioError", "readError", "halfRemoval"}`, `MaxCrashes = 0`,
  `MaxErrors = 3`; or `MCTwoProcesses` with `{"crash", "readError", "halfRemoval"}`,
  2 crashes and 1 error.  Each pair of faults less than that is harmless.

Two more limits of the claims:

* `RunsAtMostOnce` is claimed while no error has happened.  `start` goes on when
  its snapshot fails, and `register` accepts a stored id when the listing
  failed; in both cases a crash and a second registration run the operation
  again.
* `RevisionGuardsTargets` is claimed for runs without `readError`.  With a
  transient read error in a recovery's validation, a tree that was moved in is
  read by an unlocked `Plan`, undone, and the before-hash planned from it then
  differs at the revision that was planned for: there the second guard is not
  redundant and does its work.

### 3.2 Bounds, and why they are enough

* **KnowledgeRoot.** Two callers: a Writer and one other actor in each of the
  places the first can be at (the two are interchangeable, `MCSwap`).  The lock
  admits one at a time, so a third caller only repeats what a second can do to
  unlocked reads.  Two or three ChangeSets on one object: a committed, a stale
  and a duplicate one, one without operations.  Each run commits at most one
  ChangeSet, so revisions need no bound.  One crash and one error reach every
  point of a switch and of the recovery from it (the first fault leaves a
  journal, the second hits the recovery); three errors also reach a recovery of
  an undo that failed.  Once the journal is written, an error leaves on disk
  what a crash at the same call leaves, so `faults04` does without the crash;
  `crash03` has crashes before the journal too.  The proofs have no bound.
* **MutationLock.** Order counts here: three callers in one process (one inside,
  one waiting for it, one joining) and one in another.
* **WorkflowRun.** `MaxReports = 2`: a report opens something and another is
  under way when the cancellation comes.  Two crashes: one in the first life,
  one in the life of a second registration of the id.
* **Conversation.** Operation ids of one conversation share the queue, the title
  and the agent, and nothing else; one id with three HTTP requests has a claim,
  a retry that overtakes it and a third that comes after either or after the
  restart.  `MaxFaults = 1`; the outcomes of runs are one value, because no
  branch depends on which terminal outcome it is.
* **ThesisDecision.** `MAX_EVENTS = 3` stands for the code's 128: the limit is
  reached by two deferrals and an acceptance, and by what fits.  Two callers in
  every combination of two notes and three decisions, one commit by somebody
  else, one crash or failed submission.
* **RawPreview.** Two units, of which one is accepted, tell "partial" from
  "ready" and different extractions apart; two run ids, so that attempts share
  an id or do not; `MAX_PLAN_ATTEMPTS = 2` as in the code, which repairs an
  invalid plan once; `MaxBusy = 2`: pairs of concurrent calls, in any order and
  number over time.  The proofs have none of these bounds.

### 3.3 Fairness

* `KnowledgeRoot` and `RawPreview` are checked for safety only: under the lock a
  call runs straight through without loops, and what could keep it waiting is
  the lock.
* `MutationLock`: weak fairness of each call's steps, including that its task
  settles.
* `WorkflowRun`: weak fairness of initialisation, writes (which may fail), the
  steps of `start`, of the operation, of the cancel route and of the client's
  timer.  That an operation ends is an assumption about it, not a result.
* `Conversation`: weak fairness of the queue, of each HTTP request's own next
  step, of Workflows and prompts ending, and of the restart.  No client has to
  send or to retry anything.
* `ThesisDecision`: weak fairness of each call's next step; strong fairness of
  `AskAgain`: a review that stays in APPLYING is asked about again, because the
  code reconciles only when it is asked (there is no timer).
* Nowhere is fairness assumed of faults, of cancellations or of users' choices
  other than that.

## 4. Proofs

All theorems hold for any constants that satisfy the named assumptions
(`ConstantsAssumption`, `NoneAssumption`, `LockAssumption`, `RunAssumption`,
`DecisionAssumption`, `PreviewAssumption`): functions have their domains, and
placeholders such as `None` are not members of the data they stand beside.  TLC
evaluates them in every run.

**Mutual exclusion and its order** (`MutationLockProofs`).  `TypeCorrect`,
`AtMostOneInside`: a call between `mkdir` and the end of the removal has made
the directory that is there.  `ConflictsAreForeign`, `ChainsAreDropped`: the
callers of a process get a rank along the chain (an auxiliary function in the
invariant, stated by existence): the call that is past its wait has no active
caller of its process before it, so the directory it runs into is not its own
process's; the last in the chain is the one the map points to.
`LockImplementsKnowledgeLock`: the two together implement `KnowledgeLock`, which
serves the calls of a process in the order in which they came.  The mapping
(`Waited`, the calls ahead of a call) is a recursive function over the chain.  No
induction over it is needed: the invariant `Grounded` says that no set of calls
waits in a circle, so of the calls for which an equation about `Waited` might
fail one would await only calls for which it holds.

**The directory** (`KnowledgeRootProofs`).  Under `Hypothesis`, `TypeCorrect`
and `StaysRecoverable`.  `Hypothesis` excludes two combinations of faults:
records kept without recovery where there are also crashes or errors (`note03`
shows why; without either, as in `writers04`, they are allowed), and a failed
validation together with a removal cut short (3.1).  It does allow journals cut short: no recovery can use what is there, but
a whole base and, without a root, the backup stay on disk.  `Recoverable` alone
is not inductive: whether a removal is harmless depends on what its caller has
done before.  `IInv` therefore has `TypeOK`; `Ownership` (callers in the critical
section made the lock directory, so there is at most one, and which kind of
operation is at which point); `DiskOK` (what root, staging, backup and journal
hold between any two steps); and `HolderOK` with `JournalOK` and `TreesOK` (the
same, more precisely, at each point the holder can be at).  Steps of others are
one lemma (`Bystander`).

**The directory implements the store** (`KnowledgeRootRefinement`).
`ImplementsStore`: under `Hypothesis` and `OneChangeSetPerRun`, `Spec` implies
`KnowledgeBase`'s specification under the refinement mapping.  On top of `IInv`
the argument needs `Linked`: the tree that waits behind the journal is the
successor, by exactly one ChangeSet, of the tree it replaces (`Successor`);
`LiveFacts` says which tree is the live one at each point.  Then each action is
a stutter, a `Commit` (`MoveIn` of the switch or of the recovery), a `Keep` or an
`Acknowledge`.  `AcknowledgedStays` follows from the same facts.

**Refusals** (same module).  `LockedRefusalIsTrue`: an answer `stale_revision`
that a Writer gives under the lock is true: the ChangeSet is not committed as it
was planned.  `RefusalIsTrue` says so of every such answer in Schema 0.3; in
Schema 0.4 the comparison before the lock is the one exception (3.1).

**The history of the store** (same module).  The invariant `History` is about
the live tree, the state of the abstract store, and every step of the abstract
store keeps it.  From it, for the code:
`UpdatesAreKept` (no two committed ChangeSets have replaced the same version of
an object: no lost update), `RevisionsCount` (the revisions are numbered without
gap or repetition by the committed ChangeSets) and `ReceiptsStayFinal` (no step,
also of a recovery or an error, changes or drops a committed log entry).

**The revision is enough** (`RevisionGuardProofs`).  `RevisionIsEnough`: the tree
a caller can see never goes back (`NeverBack`), so a target planned from a tree
of some revision is the target of every tree of that revision.  It assumes
`"readError" \notin Faults`, which is what can make the tree go back (3.1).

**Workflow runs** (`WorkflowRunProofs`).  `TypeCorrect`, `SavedStaysDurable`,
`BeginsAtMostOnce`, `OutcomeStaysShown`, `NothingStaysOpen`,
`CallsWaitForTheFile`, `StoredOutcomesAreFinal` and `SnapshotsNeverGoBack` (the
file only moves on to a later process or a later record), for any number of
crashes, errors and reports.  The invariant follows a view on its way: the file, the
queue in increasing revisions, the live record.  The file is not newer than the
first of the queue, the queue's last is the live record, and what is authoritative
somewhere on the way is so in everything behind it.

**Conversations** (`ConversationProofs`).  `TypeCorrect`, `ExecutesAccepted`,
`VerdictsStayTrue`, `TitlesGiveWay` and `LedgerKept`, for any number of
operation ids, HTTP requests, faults and renames.  Only the first call of the
queue reads and replaces the file, so what it computes from is what it replaces
(`QueueOK`).  A request that is claimed and not executed has at most one HTTP
request that can still execute it or give it back (`Holds`, `OneHolder`);
whoever else has a call under way for it has seen it executed (`RouteAt`), and
the record agrees with what has been executed (`RecordOK`).  What the operators
of the store may do to a record is one of a few changes (`Change`), which leave
alone what everybody else relies on, so each operator is looked at once,
for its own caller.  `LedgerKept` maps the lifecycles to the four states of
`RequestLedger` (`Phase`): by `WhatChanges` a step replaces the file by one of
those changes, executes a held request, restarts, or is invisible.
`FailuresAreRecorded` is what remains true beside the finding of
`conversation_failed`: the failure of a dispatch is recorded unless the client
had chosen the Workflow with its text (or the write fails).

**Decisions** (`ThesisDecisionProofs`).  `TypeCorrect`, `OnlyUnderIntent`,
`AcceptedAreWritten`, `RepliesStayTrue`.  The file only grows, so a call that has
read a prefix can rely on it; there is at most one APPLYING in it, and its note
names the only run the gateway can commit.  `ReportsFollow`: a report is written
only with what the file has said.  `RecoveryIsExact` is what remains true beside
the finding of `thesis_stale`: as long as calls do not overlap and nobody else
commits (`Quiet`), a committed acceptance is not given up.  Its invariant follows
the one call under way: what it has read is still there (`Fresh`).

**Previews** (`RawPreviewProofs`).  `TypeCorrect`, `DeniedStaysTrue`,
`CommittableStaysStored`, `AcceptedIsWritten`, for any number of attempts, runs,
units and acceptances at a time.  Every step lets the root grow (`Grows`), but for
previews that the switch of an earlier copy drops, because only previews can come
into the root while a copy is made; what a caller relies on is not disturbed by growth
(`AttemptKeeps`, `AcceptKeeps`), so each action has to re-establish it for its
own caller only.  `OnlyASwitchDrops` is what remains true beside the finding of
`preview_lost`: committed objects, logs and Raws stay, and a preview goes only
with the switch of a copy made before it was linked (`CopyOK`: such a copy has
every log of the root, and no preview but the root's).

Model-checked only: liveness under fairness (`EveryCallReturns`,
`PollingStopsUnlessKilled`, `RunsAreReconciled`, `ClaimsEnd`, `ApplyingEnds`),
which is out of the prover's reach.  Every other property of a passing run is
stated by a theorem.  The properties of the runs that expect a violation are
false; the theorems named beside their findings say how far they hold.

## 5. Not modelled, and why

* **The bulk of the lines.**  The repository has about 90 000 lines of
  implementation; most are research workflows, skills, plugins and the client:
  `workflows/company-deep-research/`, `skills/company-research/`, `plugins/`,
  `client/`.  They are sequential pipelines that turn model and provider answers
  into documents: scoring, text comparison, numeric grounding, citation repair,
  layout.  They keep no state between calls, nothing runs concurrently in them,
  and what they compute depends on the text they are given.  A model of them
  would either restate the functions or abstract the text away and with it
  everything they decide.  What they do to shared state (start, report, finish,
  commit, be cancelled) is the operation of `WorkflowRun`.  The map is therefore
  small compared to the repository, and is meant to be.
* What documents contain, validators and migration: pure functions; their
  verdicts are preconditions of the Writer models.
* `review-service.ts`: review cases other than theses; they write one file under
  the lock (`KnowledgeRoot`'s `Append`).
* The theme commands of the gateways: they build a ChangeSet and submit it as
  the thesis gateway does.
* Capacity limits of the conversation store, archiving, attachments.
* The daily intelligence scheduler with its own stores, settings, credentials
  and logins: independent of the above, one file each.
* Disk loss below the file system (no `fsync` ordering): a completed call is
  taken to be durable, except for the writes and removals modelled as cut short.
* Two runtimes at once on one conversation or run id: the application starts
  one.  (On one Knowledge Base there may be several, and they are modelled.)

## 6. What could come next

1. `RawArchive`: the bundle and the registry of raw documents, written in place.
2. `ThemeScopeLedger`: the index that a Writer advances equals the rebuilt one.
3. `KnowledgeRoot` with a caller that starts after the crash (nothing recovers
   at start-up), and liveness of recovery.
4. The daily intelligence scheduler: one run at a time, missed slots, its stores.
