----------------------------- MODULE ThesisDecision -----------------------------
(***************************************************************************)
(* The decision about one thesis review case: the calls that decide it,    *)
(* the file of its decision events, the Writer command an acceptance runs, *)
(* and the report that is told.                                            *)
(*                                                                         *)
(*   knowledge/review/decision-store.ts          the decision's events     *)
(*   app/services/thesis-decision-service.ts     decide, reconcile, execute *)
(*   knowledge/production/gateway.ts             submit, as it is used here *)
(*   app/runtime/application-runtime.ts          report synchronisation    *)
(*   app/services/thesis-lifecycle-service.ts    updateDecisionReport      *)
(*                                                                         *)
(* Calls overlap; every store call and every Writer commit is one step, as *)
(* the mutation lock of the Knowledge Base serializes them (MutationLock)  *)
(* and the journal makes a commit atomic (KnowledgeRoot).  Every other read *)
(* is a step of its own.  Of the Knowledge Base a decision sees whether the *)
(* reviewed scope still rebinds and whether the expected edges are there.  *)
(***************************************************************************)
EXTENDS Integers, FiniteSets, SequencesExt

CONSTANTS
    Callers,
    Notes,                \* the note a decision is sent with; it is part of its payload hash
    Inputs,               \* the decisions that are sent
    None,
    MAX_EVENTS,           \* the limit of the store
    MaxForeign,           \* commits of other producers
    MaxFaults             \* failed gateway submissions and crashes

Diagnostics == {"rebind failed", "already present", "base changed", "log mismatch",
                "verification failed"}
States == {"OPEN", "DEFERRED", "APPLYING", "ACCEPTED", "REJECTED", "STALE"}
Event == [type : States \ {"OPEN"}, note : Notes \cup Diagnostics, at : Nat]

ASSUME DecisionAssumption ==
    /\ Inputs \subseteq {"ACCEPT", "REJECT", "DEFER"} \X Notes
    /\ MAX_EVENTS \in Nat \ {0} /\ MaxForeign \in Nat /\ MaxFaults \in Nat
    /\ None \notin Callers \cup Notes \cup States

VARIABLES
    events,     \* the decision's file: every event, the last one is its state
    base,       \* the Knowledge Base: its revision, whether the scope rebinds, the expected edges
    logs,       \* logs[n]: the revision the Writer run for note n has committed, None without a log
    report,     \* decisionState in the report of the run that made the case
    call,       \* the calls of decide()
    alone,      \* no two calls have overlapped so far
    foreign, faults

knowledge == <<base, logs>>
counts == <<foreign, faults>>
vars == <<events, knowledge, report, call, alone, counts>>

Idle == [pc |-> "idle", reply |-> "none"]

Init ==
    /\ events = <<>>
    /\ base = [revision |-> 0, rebinds |-> TRUE, edges |-> FALSE]
    /\ logs = [n \in Notes |-> None]
    /\ report = None
    /\ call = [c \in Callers |-> Idle]
    /\ alone = TRUE
    /\ foreign = 0 /\ faults = 0

-----------------------------------------------------------------------------
(* The decision store. *)

StateOf(es) == IF es = <<>> THEN "OPEN" ELSE Last(es).type
state == StateOf(events)

\* validateRecord, for an event that follows `from`.
Transition(from, to) ==
    CASE to \in {"DEFERRED", "APPLYING", "REJECTED"} -> from \in {"OPEN", "DEFERRED"}
      [] to = "ACCEPTED"                             -> from = "APPLYING"
      [] to = "STALE"                                -> from \in {"OPEN", "DEFERRED", "APPLYING"}

\* What each store call takes for a replay of what is already there.
IsReplay(e) ==
    /\ state = e.type /\ Last(events).note = e.note
    /\ e.type \in {"APPLYING", "ACCEPTED"} => Last(events).at = e.at

\* Mistake: the bound on events is not checked.
Unbounded(e, seen) ==
    CASE IsReplay(e)                 -> "replay"
      [] ~IsReplay(e) /\ (seen # events \/ ~Transition(state, e.type)) -> "conflict"
      [] OTHER                       -> "written"

\* Mistake: a decision that somebody else has changed counts as a replay.
ChangedIsReplay(e, seen) ==
    CASE IsReplay(e) \/ seen # events         -> "replay"
      [] seen = events /\ ~Transition(state, e.type) -> "conflict"
      [] OTHER -> IF Len(events) = MAX_EVENTS THEN "throws" ELSE "written"

\* mutate: replay, expectation, transition, the bound on events.
Verdict(e, seen) ==
    CASE IsReplay(e)                 -> "replay"
      [] ~IsReplay(e) /\ (seen # events \/ ~Transition(state, e.type)) -> "conflict"
      [] OTHER -> IF Len(events) = MAX_EVENTS THEN "throws" ELSE "written"

-----------------------------------------------------------------------------
(* Calls of decide().  `stage` says what the mounted Knowledge Base is read for. *)

Goto(c, pc) == call' = [call EXCEPT ![c].pc = pc]
Reply(c, reply) == call' = [call EXCEPT ![c] = [pc |-> "sync", reply |-> reply]]

\* The store call that ends a decision, with what it takes along.
Conclude(c, type) ==
    call' = [call EXCEPT ![c] = [pc |-> type, seen |-> call[c].seen, note |-> call[c].note,
                                 log |-> call[c].log, reply |-> "none"]]
Stale(c, why) ==
    call' = [call EXCEPT ![c] = [pc |-> "STALE", seen |-> call[c].seen, why |-> why,
                                 reply |-> "none"]]

\* The case and the decision are loaded; the state decides where the call goes.
Decide(c) ==
    /\ call[c].pc = "idle"
    /\ \E input \in Inputs :
         LET decision == input[1]
             note == input[2]
             at(pc, stage) ==
               [pc |-> pc, decision |-> decision, note |-> note, seen |-> events, stage |-> stage,
                revision |-> 0, log |-> None, written |-> "none", reply |-> "none"]
             said(reply) == [pc |-> "sync", reply |-> reply]
         IN  call' = [call EXCEPT ![c] =
               CASE state = "REJECTED" /\ decision = "REJECT" -> at("REJECTED", "rebind")
                 [] state = "DEFERRED" /\ decision = "DEFER"  -> at("DEFERRED", "rebind")
                 [] state = "APPLYING" /\ decision # "ACCEPT" -> said("in_progress")
                 [] state \in {"APPLYING", "ACCEPTED"} /\ decision = "ACCEPT" ->
                      IF Last(events).note # note THEN said("conflict")
                      ELSE at("log", "verify")
                 [] state = "OPEN" \/ (state = "DEFERRED" /\ decision # "DEFER") -> at("mount", "rebind")
                 [] OTHER -> said("conflict")]
    /\ alone' = (alone /\ \A d \in Callers \ {c} : call[d].pc = "idle")
    /\ UNCHANGED <<events, knowledge, report, counts>>

\* KnowledgeBaseRegistry.mount: the handle keeps the revision it has seen.
Mount(c) ==
    /\ call[c].pc = "mount"
    /\ call' = [call EXCEPT ![c].pc = "assets", ![c].revision = base.revision]
    /\ UNCHANGED <<events, knowledge, report, alone, counts>>

\* loadWriterLog, before the assets are read.
ReadLog(c) ==
    /\ call[c].pc = "log"
    /\ call' = [call EXCEPT ![c].pc = "mount", ![c].log = logs[call[c].note]]
    /\ UNCHANGED <<events, knowledge, report, alone, counts>>

\* current() and what decide or reconcileApplying makes of it.
Rebind(c) ==
    /\ call[c].pc = "assets" /\ call[c].stage = "rebind"
    /\ LET k == call[c]
           reconciling == StateOf(k.seen) = "APPLYING"
       IN  CASE ~base.rebinds -> Stale(c, "rebind failed")
             [] base.rebinds /\ reconciling ->
                  IF k.revision # Last(k.seen).at \/ base.edges THEN Stale(c, "base changed")
                  ELSE Goto(c, "submit")
             [] base.rebinds /\ ~reconciling ->
                  CASE k.decision = "DEFER"  -> Conclude(c, "DEFERRED")
                    [] k.decision = "REJECT" -> Conclude(c, "REJECTED")
                    [] k.decision = "ACCEPT" -> IF base.edges THEN Stale(c, "already present")
                                                ELSE Goto(c, "APPLYING")
    /\ UNCHANGED <<events, knowledge, report, alone, counts>>

\* verifyCurrentResult in reconcileApplying, for a repeated ACCEPT, and after the gateway has returned.
Good(k) == k.log # None /\ base.edges /\ k.revision >= k.log

\* Mistake: the log is not looked at; the base is expected as it was.
RebindFirst(c) ==
    /\ call[c].pc = "assets" /\ call[c].stage = "verify" /\ call[c].written = "none"
    /\ call' = [call EXCEPT ![c].pc = "mount", ![c].stage = "rebind"]
    /\ UNCHANGED <<events, knowledge, report, alone, counts>>

\* Mistake: without a log the call waits for the one that has begun.
WaitForLog(c) ==
    /\ call[c].pc = "assets" /\ call[c].stage = "verify" /\ call[c].written = "none"
    /\ IF call[c].log = None THEN Reply(c, "in_progress") ELSE Conclude(c, "ACCEPTED")
    /\ UNCHANGED <<events, knowledge, report, alone, counts>>

VerifyReconciled(c) ==
    /\ call[c].pc = "assets" /\ call[c].stage = "verify" /\ call[c].written = "none"
    /\ LET k == call[c]
       IN  IF StateOf(k.seen) = "ACCEPTED"
           THEN Reply(c, IF Good(k) /\ Last(k.seen).at = k.log THEN "accepted" ELSE "conflict")
           ELSE CASE k.log = None -> call' = [call EXCEPT ![c].pc = "mount", ![c].stage = "rebind"]
                  [] Good(k)      -> Conclude(c, "ACCEPTED")
                  [] OTHER        -> Stale(c, "log mismatch")
    /\ UNCHANGED <<events, knowledge, report, alone, counts>>

\* Mistake: a gateway that has reported success is believed.
VerifyNothing(c) ==
    /\ call[c].pc = "assets" /\ call[c].stage = "verify" /\ call[c].written # "none"
    /\ IF call[c].written = "failed" THEN Reply(c, "failed") ELSE Conclude(c, "ACCEPTED")
    /\ UNCHANGED <<events, knowledge, report, alone, counts>>

VerifyWritten(c) ==
    /\ call[c].pc = "assets" /\ call[c].stage = "verify" /\ call[c].written # "none"
    /\ LET k == call[c]
           nothingToDo == k.written = "no_changes" /\ base.edges /\ k.revision = Last(k.seen).at
       IN  CASE k.log = None /\ nothingToDo          -> Stale(c, "already present")
             [] k.log = None /\ k.written = "failed" -> Reply(c, "failed")
             [] Good(k)                              -> Conclude(c, "ACCEPTED")
             [] OTHER                                -> Stale(c, "verification failed")
    /\ UNCHANGED <<events, knowledge, report, alone, counts>>

\* The store call the caller has come to.  Only the intent is followed by the Writer command.
Store(c) ==
    /\ call[c].pc \in States \ {"OPEN"}
    /\ LET k == call[c]
           e == [type |-> k.pc,
                 note |-> IF k.pc = "STALE" THEN k.why ELSE k.note,
                 at   |-> CASE k.pc = "APPLYING" -> k.revision
                            [] k.pc = "ACCEPTED" -> k.log
                            [] OTHER             -> 0]
           verdict == Verdict(e, k.seen)
           reply == CASE k.pc = "DEFERRED" -> "deferred" [] k.pc = "REJECTED" -> "rejected"
                      [] k.pc = "ACCEPTED" -> "accepted" [] k.pc = "STALE" -> "stale"
                      [] OTHER -> "in_progress"
       IN  /\ events' = IF verdict = "written" THEN Append(events, e) ELSE events
           /\ CASE verdict = "throws"   -> call' = [call EXCEPT ![c] = Idle]
                [] verdict = "conflict" -> Reply(c, "conflict")
                [] verdict = "written" /\ k.pc = "APPLYING" ->
                     call' = [call EXCEPT ![c].pc = "submit", ![c].seen = events']
                [] OTHER                -> Reply(c, reply)
    /\ UNCHANGED <<knowledge, report, alone, counts>>

-----------------------------------------------------------------------------
(* The Writer command. *)

\* The gateway is given the command of the validated scope and reads the assets.  What the scope calls
\* present (expectedEdgesAbsent) leaves the gateway without an operation, and the other way round:
\* `base.edges` is both.
Plan(c) ==
    /\ call[c].pc = "submit"
    /\ call' = IF base.edges
               THEN [call EXCEPT ![c].pc = "log", ![c].stage = "verify", ![c].written = "no_changes"]
               ELSE [call EXCEPT ![c].pc = "commit"]
    /\ UNCHANGED <<events, knowledge, report, alone, counts>>

\* Mistake: the Writer does not compare the revision the command was planned for.
CommitAnyRevision(k) == logs[k.note] = None

\* The Writer commits a new run against the revision it was planned for.
MayCommit(k) == logs[k.note] = None /\ base.revision = k.revision

\* The Writer under its lock: a run it has a log of is not written again.
Commit(c) ==
    /\ call[c].pc = "commit"
    /\ LET k == call[c]
           replay == logs[k.note] = k.revision + 1 /\ base.edges
       IN  /\ IF MayCommit(k)
              THEN /\ base' = [base EXCEPT !.revision = @ + 1, !.edges = TRUE]
                   /\ logs' = [logs EXCEPT ![k.note] = base.revision + 1]
              ELSE UNCHANGED knowledge
           /\ call' = [call EXCEPT ![c].pc = "log", ![c].stage = "verify",
                                   ![c].written = IF MayCommit(k) THEN "committed"
                                                  ELSE IF replay THEN "no_changes" ELSE "failed"]
    /\ UNCHANGED <<events, report, alone, counts>>

\* Validation or the Writer refuses, or the gateway throws.
SubmissionFails(c) ==
    /\ call[c].pc \in {"submit", "commit"} /\ faults < MaxFaults
    /\ faults' = faults + 1
    /\ \/ call' = [call EXCEPT ![c].pc = "log", ![c].stage = "verify", ![c].written = "failed"]
       \/ Reply(c, "failed")
    /\ UNCHANGED <<events, knowledge, report, alone, foreign>>

\* Another producer's commit: it may touch the reviewed scope, and bring or take away the edges.
Foreign ==
    /\ foreign < MaxForeign
    /\ foreign' = foreign + 1
    /\ \E rebinds, edges \in BOOLEAN :
         base' = [revision |-> base.revision + 1, rebinds |-> rebinds, edges |-> edges]
    /\ UNCHANGED <<events, logs, report, call, alone, faults>>

-----------------------------------------------------------------------------
(* The report. *)

StateFor == [accepted |-> "ACCEPTED", rejected |-> "REJECTED", deferred |-> "DEFERRED",
             stale |-> "STALE"]

\* Nothing is reported unless the file still holds the state the answer stands for.
Sync(c) ==
    /\ call[c].pc = "sync"
    /\ IF call[c].reply \in DOMAIN StateFor /\ state = StateFor[call[c].reply]
       THEN Goto(c, "report") ELSE call' = [call EXCEPT ![c] = Idle]
    /\ UNCHANGED <<events, knowledge, report, alone, counts>>

\* Mistake: the report takes whatever it is told last.
ReportsAll(prior, next) == TRUE

\* Nor does the code report another writerRunId than before; a case has one intent, hence one run.
MayReport(prior, next) == prior \in {None, next, "DEFERRED"}

\* updateDecisionReport, one call at a time.
Report(c) ==
    /\ call[c].pc = "report"
    /\ report' = LET next == StateFor[call[c].reply]
                 IN  IF MayReport(report, next) THEN next ELSE report
    /\ call' = [call EXCEPT ![c] = Idle]
    /\ UNCHANGED <<events, knowledge, alone, counts>>

Crash ==
    /\ faults < MaxFaults
    /\ faults' = faults + 1
    /\ call' = [c \in Callers |-> Idle]
    /\ UNCHANGED <<events, knowledge, report, alone, foreign>>

-----------------------------------------------------------------------------
Step(c) ==
    \/ Mount(c) \/ ReadLog(c) \/ Rebind(c) \/ VerifyReconciled(c) \/ VerifyWritten(c)
    \/ Store(c) \/ Plan(c) \/ Commit(c) \/ SubmissionFails(c)
    \/ Sync(c) \/ Report(c)

Next == (\E c \in Callers : Decide(c) \/ Step(c)) \/ Foreign \/ Crash

Spec == Init /\ [][Next]_vars

\* A user asks again, with the same decision, as long as an acceptance is neither done nor refused.
AskAgain(c) == state = "APPLYING" /\ Decide(c) /\ call'[c].pc = "log"

FairSpec ==
    /\ Spec
    /\ \A c \in Callers : WF_vars(Step(c))
    /\ SF_vars(\E c \in Callers : AskAgain(c))

-----------------------------------------------------------------------------
(* What a decision promises. *)

Types(es) == {es[i].type : i \in DOMAIN es}

\* The type invariant, with the history validateRecord demands.
TypeOK ==
    /\ events \in Seq(Event) /\ Len(events) <= MAX_EVENTS
    /\ \A i \in DOMAIN events :
         Transition(IF i = 1 THEN "OPEN" ELSE events[i - 1].type, events[i].type)
    /\ base \in [revision : Nat, rebinds : BOOLEAN, edges : BOOLEAN]
    /\ logs \in [Notes -> Nat \cup {None}]
    /\ report \in States \cup {None}
    /\ alone \in BOOLEAN

\* The thesis is written only under a recorded intent, by its run, once, and never for a decision that
\* was refused or put off, however calls, retries and crashes interleave.
WrittenUnderIntent ==
    /\ \A n \in Notes : logs[n] # None =>
         \E i \in DOMAIN events : /\ events[i].type = "APPLYING" /\ events[i].note = n
                                  /\ logs[n] = events[i].at + 1
    /\ Cardinality({n \in Notes : logs[n] # None}) <= 1
    /\ state = "REJECTED" => \A n \in Notes : logs[n] = None

\* "reload canonical Knowledge and verify the scoped result before appending ACCEPTED": an accepted
\* decision names the revision its own Writer run has committed.
AcceptedIsWritten ==
    state = "ACCEPTED" => LET e == Last(events) IN e.at # None /\ logs[e.note] = e.at

\* What a caller is told is, and stays, what the file says.
RepliesAreTrue ==
    \A c \in Callers :
        /\ call[c].reply \in {"accepted", "rejected", "stale"} => state = StateFor[call[c].reply]
        /\ call[c].reply = "deferred" => "DEFERRED" \in Types(events)

\* The report tells only what the decision's file has said, and never takes a final decision back,
\* whichever call comes last to report.
ReportFollows ==
    [][report' # report => /\ report' \in Types(events)
                           /\ report' \in {"ACCEPTED", "REJECTED", "STALE"} => report' = state
                           /\ report \notin {"ACCEPTED", "REJECTED", "STALE"}]_vars

\* "If the Writer execution log for that workflow run exists and the current canonical state satisfies
\* the stored result checks, finalize ACCEPTED" (thesis lifecycle amendment): an acceptance is given up
\* as stale only when its run has not committed or its result is not there.
GivesUp ==
    /\ state = "APPLYING" /\ events' # events /\ Last(events').type = "STALE"
    /\ logs[Last(events).note] # None /\ base.edges
NeverGivesUpWritten == [][~GivesUp]_vars

\* The same while calls do not overlap and no other producer writes: a crash at any step is recovered.
AloneIsExact == [][GivesUp => ~alone \/ foreign > 0]_vars

\* An acceptance that was begun is decided in the end if the user asks again, whatever step the
\* process died at, unless the store has no room for another event.
ApplyingEnds == state = "APPLYING" ~> state # "APPLYING" \/ Len(events) = MAX_EVENTS
=============================================================================
