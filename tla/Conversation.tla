------------------------------ MODULE Conversation ------------------------------
(***************************************************************************)
(* One conversation: the file that holds its accepted requests and its     *)
(* title, the HTTP requests that claim them, dispatch them and replay      *)
(* them, the Workflows and the agent prompts they start, and the restart   *)
(* that finds the file again.                                              *)
(*                                                                         *)
(*   app/runtime/conversation-state-store.ts   the file, its queue of calls *)
(*   app/runtime/server.ts                     dispatch, confirm, prompt   *)
(*   app/runtime/session-runtime.ts            agent events, recovery      *)
(*   app/services/research-dispatch-service.ts what a dispatch answers     *)
(*                                                                         *)
(* A call of the store reads the file, computes and writes it; calls of    *)
(* one conversation wait for one another.  Conversations share nothing.    *)
(* The id of an HTTP request stands for the ids it makes: its run, its     *)
(* question (confirmationId).  Capacity limits, tool activities, message   *)
(* ids, bundles and archiving are left out.                                *)
(***************************************************************************)
EXTENDS Integers, FiniteSets, SequencesExt

CONSTANTS
    None,
    Ops,           \* operation ids
    MaxRequests,   \* how many HTTP requests arrive
    Texts,         \* request texts
    Picked,        \* the texts sent with an explicitly chosen Workflow
    Arrivals,      \* what clients send
    Outcomes,      \* how Workflows and prompts end
    Faults, MaxFaults, MaxRenames   \* a crash or a failed write counts as a fault

Requests == 1..MaxRequests     \* in the order of their arrival

Terminal == {"completed", "cancelled", "failed"}
Routes == {"accept", "dispatch", "confirm", "prompt", "steer"}

ASSUME ConversationAssumption ==
    /\ Picked \subseteq Texts
    /\ Arrivals \subseteq [how : Routes, op : Ops, text : Texts]
    /\ Outcomes \subseteq Terminal
    /\ Faults \subseteq {"crash", "writeError", "refusal"}
    /\ MaxRequests \in Nat /\ MaxFaults \in Nat /\ MaxRenames \in Nat
    /\ None \notin Requests \cup Ops

Lifecycles == {"accepted", "submitting", "needs_clarification", "ready_for_chat", "started",
               "not_started", "interrupted"} \cup Terminal

\* An accepted request.  A started one is a chat or a Workflow, as `kind` says.
Record == [life      : Lifecycles,
           operation : {"prompt", "steer"},
           text      : Texts,
           picked    : BOOLEAN,                  \* acceptedWorkflowRegistryId is set
           kind      : {"chat", "workflow"},
           reserved  : Requests \cup {None},     \* reservedWorkflowRunId
           run       : Requests \cup {None},     \* workflowRunId
           question  : Requests \cup {None},     \* the confirmationId of the stored envelope
           confirmed : Requests \cup {None},     \* confirmedClarificationId
           linked    : SUBSET Requests]

ASSUME NoneAssumption == None \notin Record

\* What validateRequest demands, at every read and write, beyond the types of the fields.
ValidRequest(q) ==
    /\ q.life \in {"accepted", "ready_for_chat", "not_started"} => q.run = None /\ q.reserved = None
    /\ q.life \in {"submitting", "needs_clarification"} => q.run = None
    /\ q.life = "needs_clarification" => q.question # None
    /\ q.life = "ready_for_chat" => q.operation = "prompt"
    /\ q.life \in {"started", "completed", "cancelled"} =>
         q.reserved = None /\ (q.kind = "workflow") = (q.run # None)
    /\ q.life = "failed" => IF q.kind = "workflow" THEN q.run # None /\ q.reserved = None
                            ELSE q.run = None
    /\ q.life = "interrupted" => q.run = None \/ q.reserved = None

Sources == <<"DEFAULT", "FIRST_MESSAGE", "WORKFLOW", "USER">>

State == [req   : [Ops -> Record \cup {None}],
          title : [source : ToSet(Sources), of : Ops \cup {None}],
          named : BOOLEAN]                       \* firstWorkflowNamingOpportunityConsumed

\* What may wait in the store's queue, and on what an HTTP request may wait otherwise.
StoreCalls == {"get", "acceptRequest", "claimSubmission", "claimClarification",
               "recordDispatchEnvelope", "recordWorkflowCandidate", "markWorkflowStarted",
               "linkToolWorkflow", "markReadyForChat", "markNotStarted",
               "markPreparationCancelled", "markDispatchFailed", "completeWorkflowRequest",
               "claimChatCommand", "chatStarted", "chatOver", "renameConversation"}
Points == StoreCalls \cup {"new", "preparing", "prompting", "running", "done", "stranded"}
Answers == {"started", "needs_clarification", "chat", "not_started"}

VARIABLES
    up,          \* the runtime serves requests
    file,        \* the conversation's file
    tail,        \* the calls of the store that wait, each with the state it has read
    route,       \* the HTTP requests
    known,       \* the runs WorkflowService has a live record of
    agent,       \* the request whose prompt the agent works on
    speaking,    \* its agent_start event has been seen
    executed,    \* per operation: the requests that started a Workflow or a prompt for it
    ended,       \* how those ended
    questions,   \* the questions users have been asked
    crashes, errors, renames

history == <<executed, ended, questions>>
counts == <<crashes, errors, renames>>
vars == <<up, file, tail, route, known, agent, speaking, history, counts>>

Init ==
    /\ up = TRUE
    /\ file = [req |-> [o \in Ops |-> None], title |-> [source |-> "DEFAULT", of |-> None],
               named |-> FALSE]
    /\ tail = <<>>
    /\ route = [r \in Requests |-> [pc |-> "new"]]
    /\ known = {} /\ agent = None /\ speaking = FALSE
    /\ executed = [o \in Ops |-> {}] /\ ended = [r \in Requests |-> "no"] /\ questions = {}
    /\ crashes = 0 /\ errors = 0 /\ renames = 0

Call(by, name, op, arg) == [by |-> by, name |-> name, op |-> op, arg |-> arg, read |-> None]

-----------------------------------------------------------------------------
(* The store's operations: what call c makes of the state s it has read, and where the HTTP *)
(* request that waits for it goes on.                                                       *)

Answer(s, next) == [state |-> s, next |-> next, run |-> None]
Refused(s) == Answer(s, "done")
Stranded(s) == Answer(s, "stranded")     \* refused, and the request has been claimed

With(s, c, q) == [s EXCEPT !.req[c.op] = q]

\* Mistake: the reserved run is taken to have been started.
ReplayAsStarted(s, q) ==
    IF q.life = "submitting" /\ q.reserved # None
    THEN [state |-> s, next |-> "markWorkflowStarted", run |-> q.reserved]
    ELSE Answer(s, "done")

\* sendDispatchReplay: a claimed request whose reserved run is known is marked as started.
Replay(s, q) ==
    IF q.life = "submitting" /\ q.reserved \in known
    THEN [state |-> s, next |-> "markWorkflowStarted", run |-> q.reserved]
    ELSE Answer(s, "done")

Chooses(w) == w.how \in {"accept", "dispatch"} /\ w.text \in Picked
OperationOf(w) == IF w.how = "steer" THEN "steer" ELSE "prompt"

\* The start of dispatchResearch (both forms) and of acceptConversationCommand: look, then decide.
Get(s, c) ==
    LET q == s.req[c.op]
        w == route[c.by]
    IN  CASE w.how = "confirm" ->
               IF q = None THEN Refused(s)
               ELSE IF q.life = "needs_clarification" THEN Answer(s, "claimClarification")
               ELSE IF q.confirmed = w.question THEN Replay(s, q)
               ELSE Refused(s)
          [] w.how # "confirm" /\ q = None -> Answer(s, "acceptRequest")
          [] w.how = "dispatch" /\ q # None ->
               IF q.text # w.text \/ q.operation # "prompt" \/ q.picked # Chooses(w) THEN Refused(s)
               ELSE IF q.life # "accepted" THEN Replay(s, q)
               ELSE Answer(s, "claimSubmission")
          [] OTHER ->
               IF q.text # w.text \/ q.operation # OperationOf(w) THEN Refused(s)
               ELSE Answer(s, "claimChatCommand")

AfterAccept(s, q, w) ==
    CASE w.how = "accept"                             -> Answer(s, "done")
      [] w.how = "dispatch" /\ q.life # "accepted"    -> Replay(s, q)
      [] w.how = "dispatch" /\ q.life = "accepted"    -> Answer(s, "claimSubmission")
      [] OTHER                                        -> Answer(s, "claimChatCommand")

NewRecord(w) ==
    [life |-> "accepted", operation |-> OperationOf(w), text |-> w.text, picked |-> Chooses(w),
     kind |-> IF Chooses(w) THEN "workflow" ELSE "chat",
     reserved |-> None, run |-> None, question |-> None, confirmed |-> None, linked |-> {}]

\* The first request of a conversation names it, unless something else has.
FirstTitle(s, op) ==
    IF s.title.source = "DEFAULT" /\ \A o \in Ops : s.req[o] = None
    THEN [source |-> "FIRST_MESSAGE", of |-> op]
    ELSE s.title

\* Mistake: an operation id that is in use is not compared with the new text.
AcceptAnyText(s, c) ==
    LET q == s.req[c.op]
        w == route[c.by]
    IN  IF q # None THEN AfterAccept(s, q, w)
        ELSE AfterAccept([With(s, c, NewRecord(w)) EXCEPT !.title = FirstTitle(s, c.op)],
                         NewRecord(w), w)

AcceptRequest(s, c) ==
    LET q == s.req[c.op]
        w == route[c.by]
    IN  IF q # None
        THEN IF q.text # w.text \/ q.operation # OperationOf(w) \/ q.picked # Chooses(w)
             THEN Refused(s)
             ELSE AfterAccept(s, q, w)
        ELSE AfterAccept([With(s, c, NewRecord(w)) EXCEPT !.title = FirstTitle(s, c.op)],
                         NewRecord(w), w)

ClaimSubmission(s, c) ==
    LET q == s.req[c.op]
    IN  IF q.life # "accepted" THEN Replay(s, q)
        ELSE Answer(With(s, c, [q EXCEPT !.life = "submitting", !.reserved = c.by]), "preparing")

ClaimClarification(s, c) ==
    LET q == s.req[c.op]
        w == route[c.by]
    IN  IF q.life # "needs_clarification" THEN Replay(s, q)
        ELSE IF q.question # w.question THEN Refused(s)
        ELSE Answer(With(s, c, [q EXCEPT !.life = "submitting", !.reserved = c.by,
                                         !.confirmed = w.question]), "preparing")

ClaimChatCommand(s, c) ==
    LET q == s.req[c.op]
    IN  IF q.life = "accepted" /\ (q.kind = "workflow" \/ q.picked) THEN Refused(s)
        ELSE IF q.life = "ready_for_chat" /\ q.operation # "prompt" THEN Refused(s)
        ELSE IF q.life \notin {"accepted", "ready_for_chat"} THEN Answer(s, "done")
        ELSE Answer(With(s, c, [q EXCEPT !.life = "submitting"]), "prompting")

\* The envelope of a question keeps it until it is answered; what follows depends on the answer.
RecordDispatchEnvelope(s, c) ==
    LET q == s.req[c.op]
        asks == c.arg = "needs_clarification"
        stored == With(s, c, [q EXCEPT !.question = IF asks THEN c.by ELSE None,
                                       !.life = IF asks THEN "needs_clarification" ELSE @])
    IN  IF q.life # "submitting" THEN Stranded(s)
        ELSE Answer(stored, CASE c.arg = "started" -> "recordWorkflowCandidate"
                              [] c.arg = "chat"    -> "markReadyForChat"
                              [] asks              -> "done"
                              [] OTHER             -> "markNotStarted")

\* A candidate or a start that cannot be recorded is swallowed: the reservation stands.
RecordWorkflowCandidate(s, c) ==
    LET q == s.req[c.op]
    IN  IF q.life # "submitting" \/ q.operation # "prompt" THEN Answer(s, "linkToolWorkflow")
        ELSE Answer(With(s, c, [q EXCEPT !.kind = "workflow"]), "markWorkflowStarted")

\* Mistake: a Workflow names the conversation whatever the user has called it.
WorkflowTitleAlways(s, op) == IF ~s.named THEN [source |-> "WORKFLOW", of |-> op] ELSE s.title

\* The first Workflow of a conversation names it, unless the user has.
WorkflowTitle(s, op) ==
    IF ~s.named /\ s.title.source # "USER" THEN [source |-> "WORKFLOW", of |-> op] ELSE s.title

\* Mistake: the run is not noted with the start.
StartWithoutRun(s, c) ==
    LET q == s.req[c.op]
        next == IF route[c.by].run = c.by THEN "linkToolWorkflow" ELSE "done"
    IN  IF q.operation # "prompt" \/ q.life # "submitting" THEN Answer(s, next)
        ELSE Answer([With(s, c, [q EXCEPT !.life = "started", !.kind = "workflow"])
                       EXCEPT !.title = WorkflowTitle(s, c.op), !.named = TRUE], next)

MarkWorkflowStarted(s, c) ==
    LET q == s.req[c.op]
        run == route[c.by].run
        next == IF run = c.by THEN "linkToolWorkflow" ELSE "done"
        started == With(s, c, [q EXCEPT !.life = "started", !.kind = "workflow", !.run = run,
                                        !.reserved = None])
    IN  IF q.operation # "prompt" \/ q.life # "submitting" THEN Answer(s, next)
        ELSE Answer([started EXCEPT !.title = WorkflowTitle(s, c.op), !.named = TRUE], next)

\* Mistake: the route answers its client and does not stay for the completion.
LinkAndLeave(s, c) ==
    Answer(With(s, c, [s.req[c.op] EXCEPT !.linked = @ \cup {c.by}]), "done")

LinkToolWorkflow(s, c) ==
    Answer(With(s, c, [s.req[c.op] EXCEPT !.linked = @ \cup {c.by}]), "running")

MarkReadyForChat(s, c) ==
    LET q == s.req[c.op]
    IN  IF q.operation # "prompt" \/ q.life # "submitting" THEN Stranded(s)
        ELSE Answer(With(s, c, [q EXCEPT !.life = "ready_for_chat", !.reserved = None]), "done")

\* Mistake: a request that holds a question's answer is not given back.
KeepClarified(s, c) ==
    LET q == s.req[c.op]
    IN  IF q.life # "submitting" \/ q.confirmed # None THEN Answer(s, "done")
        ELSE Answer(With(s, c, [q EXCEPT !.life = "not_started", !.reserved = None]), "done")

\* markNotStarted and markPreparationCancelled: the dispatch has ended without a run.
MarkNotStarted(s, c) ==
    LET q == s.req[c.op]
    IN  IF q.life # "submitting" THEN Answer(s, "done")
        ELSE Answer(With(s, c, [q EXCEPT !.life = "not_started", !.reserved = None]), "done")

\* validateRequest takes a failed Workflow request only with the outcome of a run, which a failed
\* dispatch has not got: for such a request the call throws, and the route swallows it.
MarkDispatchFailed(s, c) ==
    LET q == s.req[c.op]
        failed == [q EXCEPT !.life = "failed"]
    IN  IF q.life \notin {"accepted", "submitting"} \/ ~ValidRequest(failed) THEN Stranded(s)
        ELSE Answer(With(s, c, failed), "done")

CompleteWorkflowRequest(s, c) ==
    LET q == s.req[c.op]
    IN  IF q.kind # "workflow" \/ q.life # "started" \/ q.run = None THEN Answer(s, "done")
        ELSE Answer(With(s, c, [q EXCEPT !.life = c.arg]), "done")

\* completeSubmission, chat started: told by the route and by the agent's event.
ChatStarted(s, c) ==
    LET q == s.req[c.op]
    IN  IF q.kind # "chat" THEN Stranded(s)
        ELSE IF q.life \in {"started", "interrupted"} \cup Terminal THEN Answer(s, "done")
        ELSE IF q.life # "submitting" THEN Stranded(s)
        ELSE Answer(With(s, c, [q EXCEPT !.life = "started"]), "done")

\* completeSubmission, chat over.
ChatOver(s, c) ==
    LET q == s.req[c.op]
    IN  IF q.kind # "chat" \/ q.life # "started" THEN Answer(s, "done")
        ELSE Answer(With(s, c, [q EXCEPT !.life = c.arg]), "done")

RenameConversation(s, c) ==
    Answer([s EXCEPT !.title = [source |-> "USER", of |-> None]], "done")

Result(c) ==
    LET s == c.read
    IN  CASE c.name = "get"                     -> Get(s, c)
          [] c.name = "acceptRequest"           -> AcceptRequest(s, c)
          [] c.name = "claimSubmission"         -> ClaimSubmission(s, c)
          [] c.name = "claimClarification"      -> ClaimClarification(s, c)
          [] c.name = "claimChatCommand"        -> ClaimChatCommand(s, c)
          [] c.name = "recordDispatchEnvelope"  -> RecordDispatchEnvelope(s, c)
          [] c.name = "recordWorkflowCandidate" -> RecordWorkflowCandidate(s, c)
          [] c.name = "markWorkflowStarted"     -> MarkWorkflowStarted(s, c)
          [] c.name = "linkToolWorkflow"        -> LinkToolWorkflow(s, c)
          [] c.name = "markReadyForChat"        -> MarkReadyForChat(s, c)
          [] c.name = "markDispatchFailed"      -> MarkDispatchFailed(s, c)
          [] c.name = "completeWorkflowRequest" -> CompleteWorkflowRequest(s, c)
          [] c.name = "chatStarted"             -> ChatStarted(s, c)
          [] c.name = "chatOver"                -> ChatOver(s, c)
          [] c.name = "renameConversation"      -> RenameConversation(s, c)
          [] OTHER                              -> MarkNotStarted(s, c)

-----------------------------------------------------------------------------
(* The queue: `serialized`. *)

\* Mistake: a call does not wait for the calls before it.
ServeAny(i) == TRUE

\* A call begins when the one before it has settled.
MayServe(i) == i = 1

\* Call i is answered; the HTTP request that made it goes on to its next call, in the same turn.
Answered(i, next, run) ==
    LET c == tail[i]
        mine == c.by # None
    IN  /\ tail' = RemoveAt(tail, i) \o
                   (IF mine /\ next \in StoreCalls THEN <<Call(c.by, next, c.op, None)>> ELSE <<>>)
        /\ route' = IF ~mine THEN route
                    ELSE [route EXCEPT ![c.by].pc = next,
                                       ![c.by].run = IF run = None THEN @ ELSE run]

Read(i) ==
    /\ MayServe(i) /\ tail[i].read = None
    /\ tail' = [tail EXCEPT ![i].read = file]
    /\ UNCHANGED <<up, file, route, known, agent, speaking, history, counts>>

\* The new state replaces the file, unless the call has changed nothing.
Write(i) ==
    /\ tail[i].read # None
    /\ LET a == Result(tail[i])
       IN  /\ file' = IF a.state = tail[i].read THEN file ELSE a.state
           /\ Answered(i, a.next, a.run)
    /\ UNCHANGED <<up, known, agent, speaking, history, counts>>

\* Whom an error reaches: the association with a run and the marks of a failed preparation are
\* attempted and no more; any other error ends the HTTP request.
AfterError(c) ==
    IF c.name \in {"recordWorkflowCandidate", "markWorkflowStarted"} /\ route[c.by].run = c.by
    THEN "linkToolWorkflow"
    ELSE "done"

\* Reading fails, or writing fails before the rename, or after it when the directory is synced.
WriteFails(i) ==
    /\ tail[i].read # None
    /\ "writeError" \in Faults /\ crashes + errors < MaxFaults
    /\ errors' = errors + 1
    /\ file' \in {file, Result(tail[i]).state}
    /\ Answered(i, AfterError(tail[i]), None)
    /\ UNCHANGED <<up, known, agent, speaking, history, crashes, renames>>

-----------------------------------------------------------------------------
(* The HTTP requests. *)

\* A client sends a request: the first one, a retry, or the answer to a question it was asked.
Arrive(r) ==
    /\ up /\ route[r].pc = "new" /\ \A q \in 1..(r - 1) : route[q].pc # "new"
    /\ \E a \in Arrivals, q \in questions \cup {None} :
         /\ (a.how = "confirm") = (q # None)
         /\ LET first == IF a.how = "accept" THEN "acceptRequest" ELSE "get"
            IN  /\ route' = [route EXCEPT ![r] = [pc |-> first, how |-> a.how, op |-> a.op,
                                                  text |-> a.text, question |-> q, run |-> r]]
                /\ tail' = Append(tail, Call(r, first, a.op, None))
    /\ UNCHANGED <<up, file, known, agent, speaking, history, counts>>

\* HTTP request r asks the store.
Ask(r, name, arg) ==
    /\ route' = [route EXCEPT ![r].pc = name]
    /\ tail' = Append(tail, Call(r, name, route[r].op, arg))

\* startAsync, confirmAsync: it answers, and has then started the Workflow under r's reserved id.
Dispatched(r, answer) ==
    /\ route[r].pc = "preparing"
    /\ answer = "started" => route[r].how \in {"dispatch", "confirm"}
    /\ Ask(r, "recordDispatchEnvelope", answer)
    /\ IF answer = "started"
       THEN /\ known' = known \cup {r}
            /\ executed' = [executed EXCEPT ![route[r].op] = @ \cup {r}]
       ELSE UNCHANGED <<known, executed>>
    /\ questions' = IF answer = "needs_clarification" THEN questions \cup {r} ELSE questions
    /\ UNCHANGED <<up, file, agent, speaking, ended, counts>>

\* It throws; `mark` depends on whether the user has aborted the preparation.
PreparationFails(r, mark) ==
    /\ route[r].pc = "preparing"
    /\ Ask(r, mark, None)
    /\ UNCHANGED <<up, file, known, agent, speaking, history, counts>>

RunEnds(r, outcome) ==
    /\ r \in known /\ ended[r] = "no"
    /\ ended' = [ended EXCEPT ![r] = outcome]
    /\ UNCHANGED <<up, file, tail, route, known, agent, speaking, executed, questions, counts>>

\* reconcileWorkflowTerminal, when the dispatch's completion has settled.
Reconcile(r) ==
    /\ route[r].pc = "running" /\ r \in known /\ ended[r] # "no"
    /\ Ask(r, "completeWorkflowRequest", ended[r])
    /\ UNCHANGED <<up, file, known, agent, speaking, history, counts>>

\* The agent takes a prompt when it is free; a steering or follow-up message is only queued.
AgentAccepts(r) ==
    /\ route[r].pc = "prompting"
    /\ IF route[r].how = "prompt"
       THEN agent = None /\ agent' = r /\ speaking' = FALSE
       ELSE UNCHANGED <<agent, speaking>>
    /\ executed' = [executed EXCEPT ![route[r].op] = @ \cup {r}]
    /\ Ask(r, "chatStarted", None)
    /\ UNCHANGED <<up, file, known, ended, questions, counts>>

\* A prompt or message that the runtime or the agent refuses: the HTTP request ends, no more.
AgentRefuses(r) ==
    /\ route[r].pc = "prompting" /\ "refusal" \in Faults
    /\ route' = [route EXCEPT ![r].pc = "stranded"]
    /\ UNCHANGED <<up, file, tail, known, agent, speaking, history, counts>>

\* The agent's events, written to the store by the session runtime.
AgentStarts ==
    /\ agent # None /\ ~speaking
    /\ speaking' = TRUE
    /\ tail' = Append(tail, Call(None, "chatStarted", route[agent].op, None))
    /\ UNCHANGED <<up, file, route, known, agent, history, counts>>

AgentEnds(outcome) ==
    /\ agent # None /\ speaking
    /\ agent' = None /\ speaking' = FALSE
    /\ ended' = [ended EXCEPT ![agent] = outcome]
    /\ tail' = Append(tail, Call(None, "chatOver", route[agent].op, outcome))
    /\ UNCHANGED <<up, file, route, known, executed, questions, counts>>

\* PATCH .../metadata with the version the user has seen; a stale one changes nothing.
Rename ==
    /\ up /\ renames < MaxRenames
    /\ renames' = renames + 1
    /\ tail' = Append(tail, Call(None, "renameConversation", None, None))
    /\ UNCHANGED <<up, file, route, known, agent, speaking, history, crashes, errors>>

\* The process dies; clients may send again what they have sent before.
Crash ==
    /\ up /\ "crash" \in Faults /\ crashes + errors < MaxFaults
    /\ crashes' = crashes + 1
    /\ up' = FALSE
    /\ tail' = <<>> /\ known' = {} /\ agent' = None /\ speaking' = FALSE
    /\ route' = [r \in Requests |-> IF route[r].pc = "new" THEN route[r]
                                    ELSE [route[r] EXCEPT !.pc = "done"]]
    /\ UNCHANGED <<file, history, errors, renames>>

\* Mistake: a request that was being dispatched is offered again after a restart.
Reopened(q) ==
    IF q = None \/ q.life \notin {"submitting", "started"} THEN q
    ELSE [q EXCEPT !.life = IF @ = "submitting" THEN "accepted" ELSE "interrupted"]

Interrupted(q) ==
    IF q = None \/ q.life \notin {"submitting", "started"} THEN q
    ELSE [q EXCEPT !.life = "interrupted"]

\* recoverInterruptedDispatches, before the first request is served.
Recover ==
    /\ ~up
    /\ up' = TRUE
    /\ file' = [file EXCEPT !.req = [o \in Ops |-> Interrupted(file.req[o])]]
    /\ UNCHANGED <<tail, route, known, agent, speaking, history, counts>>

-----------------------------------------------------------------------------
Serve == \E i \in DOMAIN tail : Read(i) \/ Write(i) \/ WriteFails(i)

Proceed(r) ==
    \/ \E answer \in Answers : Dispatched(r, answer)
    \/ \E mark \in {"markPreparationCancelled", "markDispatchFailed"} : PreparationFails(r, mark)
    \/ Reconcile(r)
    \/ AgentAccepts(r) \/ AgentRefuses(r)

Work ==
    \/ \E r \in Requests, outcome \in Outcomes : RunEnds(r, outcome)
    \/ AgentStarts
    \/ \E outcome \in Outcomes : AgentEnds(outcome)

Next ==
    \/ Serve
    \/ \E r \in Requests : Arrive(r) \/ Proceed(r)
    \/ Work
    \/ Rename
    \/ Crash \/ Recover

Spec == Init /\ [][Next]_vars

\* Calls of the store settle, preparations, Workflows and prompts are assumed to end, and a runtime
\* that went down is started again.  No client has to send or to retry anything.
FairSpec ==
    /\ Spec
    /\ WF_vars(Serve) /\ WF_vars(Recover) /\ WF_vars(AgentStarts)
    /\ WF_vars(\E outcome \in Outcomes : AgentEnds(outcome))
    /\ \A r \in Requests : /\ WF_vars(Proceed(r))
                           /\ WF_vars(\E outcome \in Outcomes : RunEnds(r, outcome))

-----------------------------------------------------------------------------
(* What the conversation promises. *)

Life(o) == IF file.req[o] = None THEN "none" ELSE file.req[o].life
Settled == {"not_started", "interrupted"} \cup Terminal

\* The type invariant; every write leaves a file that the next read accepts (validateState).
TypeOK ==
    /\ up \in BOOLEAN /\ speaking \in BOOLEAN
    /\ file \in State /\ \A o \in Ops : file.req[o] # None => ValidRequest(file.req[o])
    /\ \A i \in DOMAIN tail : /\ tail[i].by \in Requests \cup {None} /\ tail[i].name \in StoreCalls
                              /\ tail[i].read \in State \cup {None}
    /\ \A r \in Requests : route[r].pc \in Points
    /\ known \subseteq Requests /\ agent \in Requests \cup {None}
    /\ executed \in [Ops -> SUBSET Requests]
    /\ ended \in [Requests -> Outcomes \cup {"no"}] /\ questions \subseteq Requests
    /\ crashes \in 0..MaxFaults /\ errors \in 0..MaxFaults /\ renames \in 0..MaxRenames

\* "Only one accepted -> submitting claim can dispatch an operation ... Retries replay the recorded
\* outcome or reconcile that reserved run; they do not start a second Workflow" (RHL-UX-001): the
\* conversation keeps the promise of RequestLedger, with failed writes and restarts.
LedgerStatus(o) ==
    CASE Life(o) = "none"                                                     -> "none"
      [] Life(o) \in {"accepted", "needs_clarification", "ready_for_chat"}    -> "open"
      [] Life(o) \in {"submitting", "started"}                                -> "taken"
      [] OTHER                                                                -> "over"

Ledger == INSTANCE RequestLedger WITH status <- [o \in Ops |-> LedgerStatus(o)],
                                      executions <- [o \in Ops |-> Cardinality(executed[o])]
KeepsLedger == Ledger!Spec

\* What is executed for an operation id is what was first accepted under it, also when two clients
\* send different texts under one id at the same time (acceptRequest, claimSubmission).
ExecutesWhatWasAccepted ==
    \A o \in Ops : \A r \in executed[o] :
        /\ file.req[o] # None
        /\ route[r].how # "confirm" => route[r].text = file.req[o].text

\* A verdict in the file is true: what is said not to have started has not, and an outcome is the
\* one that the Workflow or the agent reported.
VerdictsAreTrue ==
    \A o \in Ops :
        /\ Life(o) = "not_started" => executed[o] = {}
        /\ Life(o) \in {"completed", "cancelled"} => \E r \in executed[o] : ended[r] = Life(o)
        /\ Life(o) = "failed" => \A r \in executed[o] : ended[r] = "failed"
        /\ Life(o) = "started" => executed[o] # {}

\* "USER > WORKFLOW > FIRST_MESSAGE > DEFAULT": a title gives way only to a stronger one, whoever
\* accepts, starts or renames meanwhile.
Strength(source) == CHOOSE i \in DOMAIN Sources : Sources[i] = source
TitleGivesWay ==
    [][file'.title # file.title => Strength(file'.title.source) > Strength(file.title.source)]_vars

\* A run that is over is over in the file in the end (reconcileWorkflowTerminal): the record does not
\* stay `started`.  It does after a failed write, until the next start-up.
RunsAreReconciled ==
    \A o \in Ops :
        (/\ Life(o) = "started" /\ file.req[o].kind = "workflow"
         /\ ended[file.req[o].run] # "no") ~> (Life(o) \in Settled \/ errors > 0)

\* A claimed request does not stay claimed: it is answered, given back, started or settled, unless
\* the agent has refused it, its failure could not be recorded, or a write has failed.
ClaimsEnd ==
    \A o \in Ops :
        Life(o) = "submitting" ~>
            \/ Life(o) # "submitting" \/ errors > 0
            \/ \E r \in Requests : route[r].pc = "stranded" /\ route[r].op = o

\* "Dispatch failure before a confirmed Workflow start stays a dispatch failure" (RHL-UX-003): the
\* store records it when the route asks it to, unless that very write fails.
DispatchFailureIsRecorded ==
    [][\A r \in Requests :
         /\ route[r].pc = "markDispatchFailed" /\ route'[r].pc # "markDispatchFailed"
         /\ up' /\ errors' = errors
         => file'.req[route[r].op].life = "failed"]_vars
=============================================================================
