------------------------------ MODULE WorkflowRun ------------------------------
(***************************************************************************)
(* One Workflow run id: the live record in WorkflowService, the chain of   *)
(* snapshot writes behind it, the snapshot file that outlives the process, *)
(* the callers that start, report on and cancel the run, and the client    *)
(* that polls it.                                                          *)
(*                                                                         *)
(*   app/services/workflow-service.ts            the live record           *)
(*   app/runtime/workflow-observation-store.ts   the snapshot file         *)
(*   app/services/research-dispatch-service.ts   dispatch, final result    *)
(*   app/services/production-service.ts          authoritative outcomes    *)
(*   app/runtime/server.ts                       the cancel route          *)
(*   client/src/app/chat/RequestExecution.tsx    the client                *)
(*                                                                         *)
(* Runs with other ids share no state with this one.  An action is the     *)
(* code between two awaits; `completed_with_review` is treated by this     *)
(* code as `completed` is and is not told apart.  A run has one reporter   *)
(* at a time, and its id is dispatched at most once by a live process.     *)
(***************************************************************************)
EXTENDS Integers, Sequences

CONSTANTS
    None,         \* no record, no file, no execution result
    Faults,       \* what may go wrong
    MaxCrashes, MaxErrors, MaxReports    \* bounds

AllFaults == {"crash", "writeError", "listError"}

ASSUME RunAssumption ==
    /\ Faults \subseteq AllFaults
    /\ MaxCrashes \in Nat /\ MaxErrors \in Nat /\ MaxReports \in Nat

Terminal == {"completed", "blocked", "cancelled", "failed"}
Status == {"pending", "running"} \cup Terminal

\* executionResult: the status it was made for, and whether its bundle is still to come.
Result == [of : Status, pending : BOOLEAN]

View == [status : Status,
         rev    : Nat,                     \* observationRevision
         open   : BOOLEAN,                 \* a stage, Skill or activity is running
         result : Result \cup {None},
         life   : Nat]                     \* startedAt: which process registered the run

ASSUME NoneAssumption == None \notin View /\ None \notin Result /\ None \notin Status

VARIABLES
    up,          \* the service is initialised and serves requests
    live,        \* runs.get(runId)
    known,       \* knownRunIds.has(runId)
    aborted,     \* the run's AbortController has been aborted
    queue,       \* the views whose store.write is chained and not settled
    saved,       \* persistenceStates.get(runId)
    disk,        \* the snapshot file
    pc,          \* where the call of `start` is
    awaited,     \* the revision the call waits to see saved
    dispatched,  \* the run was started by ResearchDispatchService
    cancelling,  \* a cancel request is waiting for its flush
    polling,     \* a client polls the run
    starts,      \* how often the run's operation has begun, over all processes
    committed,   \* the outcome the operation has made authoritative, over all processes
    reports, crashes, errors

record == <<live, queue, saved>>
service == <<up, known>>
call == <<pc, awaited, dispatched>>
history == <<starts, committed>>
counts == <<reports, crashes, errors>>
vars == <<record, service, aborted, disk, call, cancelling, polling, history, counts>>

Unsaved == [status |-> "none", rev |-> -1]

Init ==
    /\ up = FALSE /\ known = FALSE
    /\ live = None /\ queue = <<>> /\ saved = Unsaved
    /\ aborted = FALSE
    /\ disk = None
    /\ pc = "idle" /\ awaited = -1 /\ dispatched = FALSE
    /\ cancelling = FALSE /\ polling = FALSE
    /\ starts = 0 /\ committed = None
    /\ reports = 0 /\ crashes = 0 /\ errors = 0

-----------------------------------------------------------------------------
(* The live record and its persistence. *)

\* runs.set and persist for each of the views vs, in one turn: the last is the live record.
Publish(vs) ==
    /\ live' = vs[Len(vs)]
    /\ queue' = queue \o vs
    /\ saved' = [saved EXCEPT !.status = "pending"]

Registered == [status |-> "pending", rev |-> 0, open |-> FALSE, result |-> None, life |-> crashes]
Started(v) == [v EXCEPT !.status = "running", !.rev = @ + 1]

\* A terminal record closes whatever is still running.
Closed(v, status) == [v EXCEPT !.status = status, !.rev = @ + 1, !.open = FALSE]

\* setExecutionResult projects the status the record has now.
WithResult(v, pending) ==
    [v EXCEPT !.result = [of |-> v.status, pending |-> pending], !.rev = @ + 1]

\* markTerminal, markFailure: a terminal record stays as it is.
MarkTerminal(status) ==
    IF live.status \in Terminal THEN UNCHANGED record ELSE Publish(<<Closed(live, status)>>)

\* Mistake: an authoritative outcome does not replace a cancellation.
MarkUnlessTerminal(status) == MarkTerminal(status)

\* markAuthoritativeTerminal: it replaces a cancellation, but not with a failure.
MarkAuthoritativeTerminal(status) ==
    IF live.status \in Terminal \ {"cancelled"} \/ (live.status = "cancelled" /\ status = "failed")
    THEN UNCHANGED record
    ELSE Publish(<<Closed(live, status)>>)

\* Mistake: a run that is over can be cancelled.
CancelAnything == aborted' = TRUE /\ Publish(<<Closed(live, "cancelled")>>)

\* cancelWorkflow: only a running run can be cancelled.
CancelWorkflow ==
    IF live.status = "running"
    THEN aborted' = TRUE /\ Publish(<<Closed(live, "cancelled")>>)
    ELSE UNCHANGED <<aborted, record>>

-----------------------------------------------------------------------------
(* The write at the head of the chain. *)

Larger(m, n) == IF m > n THEN m ELSE n

\* WorkflowObservationStore.write accepts a newer revision, or the same view again.
Accepted(v) == disk # None => v.rev > disk.rev \/ v = disk

\* Mistake: a write that succeeds settles the state although a newer view waits.
SavedAtOnce(v) == [status |-> "saved", rev |-> Larger(v.rev, saved.rev)]

SavedAfter(v) ==
    [status |-> IF live.rev > v.rev THEN "pending" ELSE "saved", rev |-> Larger(v.rev, saved.rev)]

FailedAfter(v) ==
    [saved EXCEPT !.status = IF live.rev > v.rev THEN "pending" ELSE "failed"]

Save ==
    /\ queue # <<>> /\ Accepted(Head(queue))
    /\ disk' = Head(queue)
    /\ saved' = SavedAfter(Head(queue))
    /\ queue' = Tail(queue)
    /\ UNCHANGED <<live, service, aborted, call, cancelling, polling, history, counts>>

\* Mistake: a write the store refuses as stale counts as saved at the stored revision.
SaveStale ==
    /\ queue # <<>> /\ ~Accepted(Head(queue))
    /\ saved' = SavedAfter(disk)
    /\ queue' = Tail(queue)
    /\ UNCHANGED <<live, service, aborted, disk, call, cancelling, polling, history, counts>>

\* A stale revision, or another view at the same one: both are reported as a conflict.
SaveRefused ==
    /\ queue # <<>> /\ ~Accepted(Head(queue))
    /\ saved' = FailedAfter(Head(queue))
    /\ queue' = Tail(queue)
    /\ UNCHANGED <<live, service, aborted, disk, call, cancelling, polling, history, counts>>

\* An I/O error before the rename, or after it when the directory is synced.
SaveFails ==
    /\ queue # <<>> /\ Accepted(Head(queue))
    /\ "writeError" \in Faults /\ errors < MaxErrors
    /\ errors' = errors + 1
    /\ disk' \in {disk, Head(queue)}
    /\ saved' = FailedAfter(Head(queue))
    /\ queue' = Tail(queue)
    /\ UNCHANGED <<live, service, aborted, call, cancelling, polling, history, reports, crashes>>

\* Mistake: any revision that has been saved satisfies a flush.
FlushedAny(target) == saved.status = "failed" \/ saved.rev >= 0 \/ queue = <<>>

\* Mistake: a flush returns only when its revision has been saved.
FlushedSaved(target) == saved.status = "saved" /\ saved.rev >= target

\* flushPersistence returns; while a newer view waits the state is pending, and it waits on.
Flushed(target) ==
    \/ saved.status = "failed"
    \/ saved.status = "saved" /\ saved.rev >= target
    \/ queue = <<>>

-----------------------------------------------------------------------------
(* The service comes up; the run is registered and started. *)

\* initialize: the run is known if it has a snapshot, unless the directory cannot be listed.
Initialize ==
    /\ ~up
    /\ up' = TRUE
    /\ \/ known' = (disk # None) /\ UNCHANGED errors
       \/ /\ "listError" \in Faults /\ disk # None /\ errors < MaxErrors
          /\ errors' = errors + 1
          /\ known' = FALSE
    /\ UNCHANGED <<record, aborted, disk, call, cancelling, polling, history, reports, crashes>>

\* Mistake: a run id is free when no live run has it.
NotLive == up /\ live = None

\* register refuses an id that is live or known.
Free == up /\ live = None /\ ~known

\* register, by a service that starts the run in a later turn or not at all.
Register ==
    /\ Free
    /\ Publish(<<Registered>>)
    /\ known' = TRUE
    /\ committed' = None
    /\ UNCHANGED <<up, aborted, disk, call, cancelling, polling, starts, counts>>

\* The configured executor is unavailable, or the caller has gone: the run never starts.
Refuse(status) ==
    /\ pc = "idle" /\ live # None /\ live.status = "pending"
    /\ MarkAuthoritativeTerminal(status)
    /\ pc' = "ended"
    /\ UNCHANGED <<service, aborted, disk, awaited, dispatched, cancelling, polling, history, counts>>

\* Mistake: the operation begins without waiting for the snapshot.
StartAtOnce(revision) == pc' = "working" /\ awaited' = revision /\ starts' = starts + 1

\* start waits for the running view's snapshot before it calls the operation.
StartAt(revision) == pc' = "starting" /\ awaited' = revision /\ UNCHANGED starts

\* start, up to its first await.
Start ==
    /\ pc = "idle" /\ live # None /\ live.status = "pending"
    /\ Publish(<<Started(live)>>)
    /\ StartAt(live.rev + 1)
    /\ UNCHANGED <<service, aborted, disk, dispatched, cancelling, polling, committed, counts>>

\* ResearchDispatchService: register, start and the pending execution result in one turn.
Dispatch ==
    /\ Free
    /\ LET started == Started(Registered)
       IN  /\ Publish(<<Registered, started, WithResult(started, TRUE)>>)
           /\ StartAt(started.rev)
    /\ known' = TRUE
    /\ dispatched' = TRUE /\ polling' = TRUE
    /\ committed' = None
    /\ UNCHANGED <<up, aborted, disk, cancelling, counts>>

\* The flush is over: a run that has been cancelled meanwhile does not begin.
Begin ==
    /\ pc = "starting" /\ Flushed(awaited)
    /\ IF aborted
       THEN pc' = "ending" /\ UNCHANGED starts
       ELSE pc' = "working" /\ starts' = starts + 1
    /\ UNCHANGED <<record, service, aborted, disk, awaited, dispatched, cancelling, polling,
                   committed, counts>>

-----------------------------------------------------------------------------
(* The operation. *)

\* Mistake: a report is recorded whatever the run's status is.
ReportAlways(open) == Publish(<<[live EXCEPT !.open = open, !.rev = @ + 1]>>)

\* startStage and its like: a run that is over records nothing more.
Observe(open) ==
    IF live.status \in Terminal THEN UNCHANGED record
    ELSE Publish(<<[live EXCEPT !.open = open, !.rev = @ + 1]>>)

\* A call of the run's observation reporter: it starts or closes something, and waits.
Report(open) ==
    /\ pc = "working" /\ reports < MaxReports
    /\ Observe(open)
    /\ pc' = "reporting" /\ awaited' = live'.rev
    /\ reports' = reports + 1
    /\ UNCHANGED <<service, aborted, disk, dispatched, cancelling, polling, history, crashes, errors>>

Reported ==
    /\ pc = "reporting" /\ Flushed(awaited)
    /\ pc' = "working"
    /\ UNCHANGED <<record, service, aborted, disk, awaited, dispatched, cancelling, polling, history,
                   counts>>

\* The operation's work is in the Knowledge Base or in a report: it says so itself.
OperationCommits(status) ==
    /\ pc = "working"
    /\ MarkAuthoritativeTerminal(status)
    /\ committed' = status
    /\ pc' = "ending"
    /\ UNCHANGED <<service, aborted, disk, awaited, dispatched, cancelling, polling, starts, counts>>

\* Mistake: what the operation returns is recorded although the run has been cancelled.
ReturnOverCancelled(status) ==
    /\ pc = "working"
    /\ Publish(<<Closed(live, status)>>)
    /\ pc' = "ending"
    /\ UNCHANGED <<aborted, service, disk, awaited, dispatched, cancelling, polling, history, counts>>

\* The operation returns an outcome, or throws ("failed"), and `start` records it unless the
\* run has been cancelled.
OperationReturns(status) ==
    /\ pc = "working"
    /\ IF live.status = "cancelled" \/ aborted THEN UNCHANGED <<record, aborted>>
       ELSE IF status = "cancelled" THEN CancelWorkflow
       ELSE MarkTerminal(status) /\ UNCHANGED aborted
    /\ pc' = "ending"
    /\ UNCHANGED <<service, disk, awaited, dispatched, cancelling, polling, history, counts>>

\* start waits for the newest view's snapshot, and returns or throws.
End ==
    /\ pc = "ending" /\ Flushed(live.rev)
    /\ pc' = "ended"
    /\ UNCHANGED <<record, service, aborted, disk, awaited, dispatched, cancelling, polling, history,
                   counts>>

\* Mistake: the final result is left out when the run has failed.
AttachToSuccess ==
    /\ pc = "ended" /\ dispatched
    /\ IF live.status = "failed" THEN UNCHANGED record ELSE Publish(<<WithResult(live, FALSE)>>)
    /\ pc' = "done"
    /\ UNCHANGED <<service, aborted, disk, awaited, dispatched, cancelling, polling, history, counts>>

\* persistDispatchResult, persistDispatchFailure: the bundle is settled and the result final.
AttachResult ==
    /\ pc = "ended" /\ dispatched
    /\ Publish(<<WithResult(live, FALSE)>>)
    /\ pc' = "done"
    /\ UNCHANGED <<service, aborted, disk, awaited, dispatched, cancelling, polling, history, counts>>

-----------------------------------------------------------------------------
(* The other actors. *)

\* POST /api/workflows/:runId/cancel; a caller that goes away does the same.
Cancel ==
    /\ live # None /\ ~cancelling
    /\ CancelWorkflow
    /\ cancelling' = TRUE
    /\ UNCHANGED <<service, disk, call, polling, history, counts>>

\* The response is sent when the newest view has been flushed.
CancelReturns ==
    /\ cancelling /\ Flushed(live.rev)
    /\ cancelling' = FALSE
    /\ UNCHANGED <<record, service, aborted, disk, call, polling, history, counts>>

\* What GET /api/workflows/:runId shows of a view read back from disk.
Recovered(v) == IF v.status \in Terminal THEN v ELSE [v EXCEPT !.status = "interrupted"]
Shown == IF live # None THEN live ELSE Recovered(disk)

\* isWorkflowFinalResultSynchronized
Synchronized(v) ==
    \/ v.status = "interrupted"
    \/ v.status \in Terminal /\ v.result # None /\ v.result.of = v.status /\ ~v.result.pending

\* The client's timer fires; an answer that is no view (the server is down) changes nothing.
Poll ==
    /\ polling /\ up /\ (live # None \/ disk # None)
    /\ polling' = ~Synchronized(Shown)
    /\ UNCHANGED <<record, service, aborted, disk, call, cancelling, history, counts>>

\* The process dies; the snapshot file and the client survive.
Crash ==
    /\ up /\ "crash" \in Faults /\ crashes < MaxCrashes
    /\ crashes' = crashes + 1
    /\ up' = FALSE /\ known' = FALSE
    /\ live' = None /\ queue' = <<>> /\ saved' = Unsaved
    /\ aborted' = FALSE
    /\ pc' = "idle" /\ awaited' = -1 /\ dispatched' = FALSE
    /\ cancelling' = FALSE
    /\ UNCHANGED <<disk, polling, history, reports, errors>>

-----------------------------------------------------------------------------
Write == Save \/ SaveRefused \/ SaveFails

Operate ==
    \/ \E open \in BOOLEAN : Report(open)
    \/ \E status \in {"completed", "blocked"} : OperationCommits(status)
    \/ \E status \in Terminal : OperationReturns(status)

Next ==
    \/ Initialize
    \/ Register
    \/ \E status \in {"blocked", "cancelled"} : Refuse(status)
    \/ Start \/ Dispatch \/ Begin
    \/ Operate \/ Reported \/ End \/ AttachResult
    \/ Write
    \/ Cancel \/ CancelReturns
    \/ Poll
    \/ Crash

Spec == Init /\ [][Next]_vars

\* Files are written or fail, operations are assumed to end, timers fire, and a server that went
\* down is started again.  No one has to start or to cancel a run.
FairSpec ==
    /\ Spec
    /\ WF_vars(Initialize) /\ WF_vars(Write)
    /\ WF_vars(Begin) /\ WF_vars(Operate) /\ WF_vars(Reported) /\ WF_vars(End)
    /\ WF_vars(AttachResult) /\ WF_vars(CancelReturns) /\ WF_vars(Poll)

-----------------------------------------------------------------------------
(* What the run promises. *)

\* The type invariant: the service never claims a saved revision the run has not had, which a
\* stale snapshot of an earlier process would make it do.
TypeOK ==
    /\ up \in BOOLEAN /\ known \in BOOLEAN /\ aborted \in BOOLEAN /\ dispatched \in BOOLEAN
    /\ cancelling \in BOOLEAN /\ polling \in BOOLEAN
    /\ live \in View \cup {None} /\ disk \in View \cup {None} /\ queue \in Seq(View)
    /\ saved \in [status : {"none", "pending", "saved", "failed"}, rev : Nat \cup {-1}]
    /\ live = None => queue = <<>> /\ saved = Unsaved
    /\ live # None => up /\ known /\ saved.rev <= live.rev
    /\ pc \in {"idle", "starting", "working", "reporting", "ending", "ended", "done"}
    /\ pc # "idle" => live # None
    /\ awaited \in Nat \cup {-1}
    /\ starts \in Nat /\ committed \in Terminal \cup {None}
    /\ reports \in 0..MaxReports /\ crashes \in 0..MaxCrashes /\ errors \in 0..MaxErrors

\* `historyPersistence: saved` in a live view means that a restart would show this very view:
\* a write that ends while newer views wait behind it must not claim it (persist).
SavedIsDurable == saved.status = "saved" => disk = live

\* The operation begins, a report returns and `start` returns only when the view they wait for
\* is in the snapshot file, or writing has visibly failed (flushPersistence, confirmTransition).
Durable(target) ==
    saved.status = "failed" \/ (disk # None /\ disk.life = live.life /\ disk.rev >= target)
ConfirmedIsDurable ==
    [][/\ pc \in {"starting", "reporting"} /\ pc' \notin {pc, "idle"} => Durable(awaited)
       /\ pc = "ending" /\ pc' = "ended" => Durable(live.rev)]_vars

\* The operation of a run id begins at most once, whatever crashes in between: the snapshot that
\* `start` waits for makes `register` refuse the id in every later process.  It does not when
\* that snapshot could not be written, which `start` tolerates.
RunsAtMostOnce == errors = 0 => starts <= 1

\* What the operation has made authoritative is what the live record shows from then on, even
\* though the run was cancelled before; and a cancellation that was acknowledged stays, unless
\* such an outcome came (markAuthoritativeTerminal, cancelWorkflow, start).
OutcomeIsShown ==
    /\ live # None /\ committed # None => live.status = committed
    /\ aborted /\ committed = None => live.status = "cancelled"

\* A stored outcome is final: a snapshot file that says how the run ended never says otherwise
\* later, except that an authoritative outcome replaces a cancellation.  Only a process that
\* could not list the snapshots at its start may give the run id away again.
StoredOutcomeIsFinal ==
    [][disk # None /\ disk.status \in Terminal /\ (errors = 0 \/ disk'.life = disk.life) =>
         /\ disk'.status \in Terminal
         /\ disk'.status # disk.status => disk.status = "cancelled" /\ disk'.status = committed]_vars

\* Nothing is shown as still running in a run that is over, live or on disk: reports of an
\* operation that goes on after its cancellation are dropped.
NothingRunsWhenOver ==
    \A v \in {live, disk} : v # None /\ v.status \in Terminal => ~v.open

\* Neither `start` nor a cancel request waits for ever, also when snapshots cannot be written.
EveryCallReturns ==
    /\ pc = "starting" ~> pc \in {"idle", "ended", "done"}
    /\ cancelling ~> ~cancelling

\* "Polling stops on a terminal state" (docs, RHL-UX-003): a client that polls a dispatched run
\* stops polling in the end.
PollingStops == polling ~> ~polling

\* It does so at least when the runtime is not killed, also when the snapshots of the run fail:
\* the final execution result then follows every terminal status (AttachResult, Synchronized).
PollingStopsUnlessKilled == polling ~> ~polling \/ crashes > 0
=============================================================================
