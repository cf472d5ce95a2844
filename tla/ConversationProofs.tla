---------------------------- MODULE ConversationProofs ----------------------------
(***************************************************************************)
(* The conversation executes each accepted request at most once, as it was *)
(* accepted, and says the truth about it, for every number of operation    *)
(* ids, HTTP requests, faults and renames.                                 *)
(*                                                                         *)
(* The argument: the file is read and replaced by the first call of the    *)
(* queue only, so what a call computes from is what it replaces.  A        *)
(* request that is claimed and has not been executed has at most one HTTP  *)
(* request that can execute it or give it back (Holds); whoever else has a *)
(* call under way for it has seen it executed.  What a call of the store   *)
(* may make of a record is one of a few changes (Change), and those keep   *)
(* everybody else's assumptions.                                           *)
(***************************************************************************)
EXTENDS Conversation, FiniteSetTheorems, SequenceTheorems, TLAPS

Open == {"accepted", "needs_clarification", "ready_for_chat"}
Chats == {"prompt", "steer"}

-----------------------------------------------------------------------------
(* Shapes.                                                                 *)

NewRoute == [pc : {"new"}]
BusyRoute == [pc : Points \ {"new"}, how : Routes, op : Ops, text : Texts,
              question : Requests \cup {None}, run : Requests]
CallShape == [by : Requests \cup {None}, name : StoreCalls, op : Ops \cup {None},
              arg : Answers \cup Outcomes \cup {None}, read : State \cup {None}]

Shapes ==
    /\ up \in BOOLEAN /\ speaking \in BOOLEAN
    /\ file \in State
    /\ tail \in Seq(CallShape)
    /\ route \in [Requests -> NewRoute \cup BusyRoute]
    /\ known \subseteq Requests /\ agent \in Requests \cup {None}
    /\ executed \in [Ops -> SUBSET Requests]
    /\ ended \in [Requests -> Outcomes \cup {"no"}] /\ questions \subseteq Requests
    /\ crashes \in 0..MaxFaults /\ errors \in 0..MaxFaults /\ renames \in 0..MaxRenames

-----------------------------------------------------------------------------
(* Who may do what for a request.                                          *)

\* The HTTP request r, which is at pc, has claimed its request and has not executed it.
HoldPoints == {"preparing", "prompting", "markReadyForChat", "markNotStarted",
               "markPreparationCancelled", "markDispatchFailed"}
HoldsAt(r, pc) == \/ pc \in HoldPoints
                  \/ pc = "recordDispatchEnvelope" /\ r \notin executed[route[r].op]
Holds(r) == HoldsAt(r, route[r].pc)

\* What r relies on when it is at pc for the run `run`; q is the record of its request.
Claims == {"claimSubmission", "claimClarification", "claimChatCommand"}
Started == {"recordWorkflowCandidate", "linkToolWorkflow", "running", "completeWorkflowRequest", "chatStarted"}
RouteAt(r, pc, run, q) ==
    LET o == route[r].op
        how == route[r].how
    IN  /\ pc \in {"get", "acceptRequest"} \cup Claims => r \notin executed[o]
        /\ pc \in Claims => q # None
        /\ pc \in {"claimSubmission", "claimChatCommand"} => q.text = route[r].text
        /\ pc = "get" => how # "accept"
        /\ pc = "acceptRequest" => how # "confirm"
        /\ pc = "claimSubmission" => how = "dispatch"
        /\ pc = "claimClarification" => how = "confirm"
        /\ pc \in {"claimChatCommand", "prompting", "chatStarted"} => how \in Chats
        /\ pc = "preparing" => how \in {"dispatch", "confirm"}
        /\ pc = "prompting" => q.reserved = None
        /\ HoldsAt(r, pc) => /\ q # None /\ q.life = "submitting" /\ executed[o] = {}
                             /\ how # "confirm" => q.text = route[r].text
        /\ pc \in Started => r \in executed[o]
        /\ pc = "markWorkflowStarted" => run \in executed[o]
        /\ run # r => pc \in {"markWorkflowStarted", "done"}

RouteOK(r) ==
    route[r].pc # "new" => RouteAt(r, route[r].pc, route[r].run, file.req[route[r].op])

OneHolder == \A r, s \in Requests : Holds(r) /\ Holds(s) /\ route[r].op = route[s].op => r = s

\* What a call relies on, besides what the HTTP request that waits for it does.
CallOK(c) ==
    /\ c.by # None => route[c.by].pc = c.name /\ route[c.by].op = c.op
    /\ c.by = None => c.name \in {"chatStarted", "chatOver", "renameConversation"}
    /\ c.name = "renameConversation" => c.by = None
    /\ c.name = "chatOver" => c.by = None
    /\ c.name # "renameConversation" => c.op \in Ops
    /\ c.name = "chatStarted" => \E r \in executed[c.op] : route[r].how \in Chats
    /\ c.name \in {"chatOver", "completeWorkflowRequest"} =>
         c.arg \in Outcomes /\ \E r \in executed[c.op] : ended[r] = c.arg
    /\ c.name = "recordDispatchEnvelope" => c.arg \in Answers /\ (c.arg = "started" <=> c.by \in executed[c.op])

QueueOK ==
    /\ \A i \in DOMAIN tail : CallOK(tail[i])
    /\ \A i \in DOMAIN tail : tail[i].read # None => i = 1 /\ tail[i].read = file
    /\ \A i, j \in DOMAIN tail : tail[i].by = tail[j].by /\ tail[i].by # None => i = j

\* What is so of a request that has been executed, and what its record says.
RecordOK(o) ==
    LET q == file.req[o] IN
    /\ q # None => ValidRequest(q)
    /\ q # None /\ q.reserved # None => route[q.reserved].pc # "new" /\ route[q.reserved].op = o
    /\ \A r, s \in executed[o] : r = s
    /\ \A r \in executed[o] :
         /\ route[r].pc # "new" /\ route[r].op = o
         /\ q # None /\ q.life \notin Open /\ q.life # "not_started"
         /\ route[r].how # "confirm" => q.text = route[r].text
         /\ route[r].how \in Chats /\ q.life = "submitting" => q.reserved = None
         /\ q.life \in {"completed", "cancelled", "failed"} => ended[r] = q.life
    /\ q # None /\ q.life \in {"completed", "cancelled", "started"} => executed[o] # {}
    /\ q # None /\ q.kind = "workflow" /\ ~q.picked => executed[o] # {}

WorkOK ==
    /\ \A r \in known : route[r].pc # "new" /\ r \in executed[route[r].op]
    /\ \A r \in Requests : ended[r] # "no" => route[r].pc # "new" /\ r \in executed[route[r].op]
    /\ agent # None => /\ route[agent].pc # "new" /\ agent \in executed[route[agent].op]
                       /\ route[agent].how \in Chats /\ ended[agent] = "no"
    /\ \A r \in known : route[r].how \notin Chats
    /\ ~up => tail = <<>> /\ known = {} /\ agent = None /\ \A r \in Requests : route[r].pc \in {"new", "done"}

TitleOK ==
    /\ ~file.named => file.title.source # "WORKFLOW"
    /\ file.title.source = "USER" => file.title.of = None
    /\ file.title.source = "DEFAULT" => file.title.of = None

IInv ==
    /\ Shapes
    /\ \A r \in Requests : RouteOK(r)
    /\ OneHolder /\ QueueOK
    /\ \A o \in Ops : RecordOK(o)
    /\ WorkOK /\ TitleOK

-----------------------------------------------------------------------------
(* What a call of the store may make of the file.                          *)

\* What a request is about stays.
SameRequest(q, p) == p.text = q.text /\ p.kind = q.kind /\ p.picked = q.picked

\* q, the record of o, becomes p ...
Change(o, q, p) ==
    /\ p \in Record /\ ValidRequest(p)
    /\ q = None => p.life = "accepted"
    /\ q # None => /\ p.text = q.text
                   /\ p.life = q.life \/ (q.life \in Open /\ p.life = "submitting") \/ q.life \in {"submitting", "started"}
    /\ p.reserved # None => route[p.reserved].pc # "new" /\ route[p.reserved].op = o
    /\ executed[o] # {} => /\ q # None /\ p.life \notin Open /\ p.life # "not_started"
                           /\ p.life = "submitting" => p.reserved \in {q.reserved, None}
                           /\ p.life = "submitting" => q.life = "submitting"
    /\ \A r \in executed[o] : p.life \in {"completed", "cancelled", "failed"} => ended[r] = p.life
    /\ p.life \in {"completed", "cancelled", "started"} => executed[o] # {}
    /\ p.kind = "workflow" /\ ~p.picked => executed[o] # {}

\* ... by a call that leaves the request of another to whoever holds it.
Spares(c, q, p) ==
    q # None /\ q.life = "submitting" /\ executed[c.op] = {} =>
        \/ p.life = "submitting" /\ p.reserved = q.reserved
        \/ c.by # None /\ Holds(c.by)

TitleAt(t, named) ==
    /\ ~named => t.source # "WORKFLOW"
    /\ t.source = "USER" => t.of = None
    /\ t.source = "DEFAULT" => t.of = None

Stronger(t, u) ==
    \/ t.source # "USER" /\ u.source = "USER"
    \/ t.source \in {"DEFAULT", "FIRST_MESSAGE"} /\ u.source = "WORKFLOW"
    \/ t.source = "DEFAULT" /\ u.source = "FIRST_MESSAGE"

Served(c, s) ==
    /\ s \in State
    /\ TitleAt(s.title, s.named) /\ (s.title = file.title \/ Stronger(file.title, s.title))
    /\ \A o \in Ops : \/ s.req[o] = file.req[o]
                      \/ o = c.op /\ Change(o, file.req[o], s.req[o]) /\ Spares(c, file.req[o], s.req[o])

\* Where the HTTP request goes on that waited for the call.
Nexts == {"done", "stranded", "preparing", "prompting", "running", "acceptRequest", "claimSubmission",
          "claimClarification", "claimChatCommand", "recordWorkflowCandidate", "markWorkflowStarted",
          "linkToolWorkflow", "markReadyForChat", "markNotStarted"}

Goes(c, s, next, run) ==
    /\ next \in Nexts /\ run \in Requests \cup {None}
    /\ c.by # None =>
         /\ RouteAt(c.by, next, IF run = None THEN route[c.by].run ELSE run, s.req[c.op])
         /\ HoldsAt(c.by, next) => Holds(c.by) \/ file.req[c.op].life # "submitting"

\* The first call of the queue, which has read the file.
Serving(c) == IInv /\ c \in CallShape /\ CallOK(c) /\ c.read = file

LEMMA BusyShape ==
  ASSUME Shapes, NEW r \in Requests, route[r].pc # "new"
  PROVE  /\ route[r] \in BusyRoute /\ route[r].pc \in Points \ {"new"} /\ route[r].how \in Routes
         /\ route[r].op \in Ops /\ route[r].text \in Texts
         /\ route[r].question \in Requests \cup {None} /\ route[r].run \in Requests
BY DEF Shapes, NewRoute, BusyRoute

LEMMA RecordShape ==
  ASSUME Shapes, NEW o \in Ops
  PROVE  /\ file.req \in [Ops -> Record \cup {None}]
         /\ file.req[o] # None => file.req[o] \in Record
BY DEF Shapes, State

\* What may be used of a call that is served.
LEMMA ServingFacts ==
  ASSUME NEW c, Serving(c), c.name # "renameConversation"
  PROVE  /\ c.op \in Ops /\ RecordOK(c.op)
         /\ file \in State /\ TitleAt(file.title, file.named)
         /\ file.req[c.op] # None => file.req[c.op] \in Record /\ ValidRequest(file.req[c.op])
         /\ c.by # None => /\ c.by \in Requests /\ route[c.by].op = c.op /\ route[c.by].pc = c.name
                           /\ c.name # "new" /\ route[c.by] \in BusyRoute
                           /\ RouteAt(c.by, c.name, route[c.by].run, file.req[c.op])
<1>1. c.op \in Ops /\ c.by \in Requests \cup {None} /\ c.name \in StoreCalls
  BY DEF Serving, CallOK, CallShape
<1>2. RecordOK(c.op) /\ file \in State /\ TitleAt(file.title, file.named) /\ Shapes
  BY <1>1 DEF Serving, IInv, Shapes, TitleOK, TitleAt
<1>3. file.req[c.op] # None => file.req[c.op] \in Record /\ ValidRequest(file.req[c.op])
  BY <1>1, <1>2, RecordShape DEF RecordOK
<1>4. ASSUME c.by # None
      PROVE  /\ c.by \in Requests /\ route[c.by].op = c.op /\ route[c.by].pc = c.name
             /\ c.name # "new" /\ route[c.by] \in BusyRoute
             /\ RouteAt(c.by, c.name, route[c.by].run, file.req[c.op])
  <2>1. c.by \in Requests /\ route[c.by].op = c.op /\ route[c.by].pc = c.name /\ c.name # "new"
    BY <1>1, <1>4 DEF Serving, CallOK, StoreCalls
  <2>2. RouteAt(c.by, c.name, route[c.by].run, file.req[c.op])
    BY <2>1 DEF Serving, IInv, RouteOK
  <2> QED
    BY <1>2, <2>1, <2>2, BusyShape
<1> QED
  BY <1>1, <1>2, <1>3, <1>4

LEMMA WithRecord ==
  ASSUME file \in State, NEW c, c.op \in Ops, NEW p \in Record
  PROVE  LET s == With(file, c, p)
         IN  /\ s \in State /\ s.title = file.title /\ s.named = file.named
             /\ s.req[c.op] = p /\ \A o \in Ops \ {c.op} : s.req[o] = file.req[o]
BY DEF State, With

LEMMA SameFile ==
  ASSUME NEW c, file \in State, TitleAt(file.title, file.named)
  PROVE  Served(c, file)
BY DEF Served

LEMMA RecordServed ==
  ASSUME NEW c, file \in State, TitleAt(file.title, file.named), c.op \in Ops,
         NEW p \in Record, Change(c.op, file.req[c.op], p), Spares(c, file.req[c.op], p)
  PROVE  Served(c, With(file, c, p)) /\ With(file, c, p).req[c.op] = p
BY WithRecord DEF Served

LEMMA Ends ==
  ASSUME NEW c, NEW s, NEW next \in {"done", "stranded"}, c.by # None => next = "done" \/ route[c.by].run = c.by
  PROVE  Goes(c, s, next, None)
BY DEF Goes, Nexts, RouteAt, HoldsAt, HoldPoints, Claims, Started

LEMMA ReplayGoes ==
  ASSUME NEW c, Serving(c), c.name # "renameConversation", file.req[c.op] # None,
         NEW a, a = Replay(file, file.req[c.op])
  PROVE  Served(c, a.state) /\ Goes(c, a.state, a.next, a.run)
<1> DEFINE q == file.req[c.op]
<1>1. /\ q \in Record /\ file \in State /\ TitleAt(file.title, file.named) /\ RecordOK(c.op)
      /\ known \subseteq Requests /\ c.op \in Ops
      /\ c.by # None => route[c.by].op = c.op
  BY ServingFacts DEF Serving, IInv, Shapes
<1>2. CASE q.life = "submitting" /\ q.reserved \in known
  <2>1. a.state = file /\ a.next = "markWorkflowStarted" /\ a.run = q.reserved
    BY <1>2 DEF Replay
  <2>2. q.reserved \in Requests /\ q.reserved # None
    BY <1>1, <1>2, ConversationAssumption
  <2>3. q.reserved \in executed[c.op]
    BY <1>1, <1>2, <2>2 DEF RecordOK, Serving, IInv, WorkOK
  <2>4. Goes(c, file, "markWorkflowStarted", q.reserved)
    BY <1>1, <2>2, <2>3 DEF Goes, Nexts, RouteAt, HoldsAt, HoldPoints, Claims, Started
  <2> QED
    BY <1>1, <2>1, <2>4, SameFile
<1>3. CASE ~(q.life = "submitting" /\ q.reserved \in known)
  <2>1. a.state = file /\ a.next = "done" /\ a.run = None
    BY <1>3 DEF Replay, Answer
  <2> QED
    BY <1>1, <2>1, SameFile, Ends
<1> QED
  BY <1>2, <1>3

\* The call leaves the file alone, and r has nothing further to do.
LEMMA RefusedGoes ==
  ASSUME NEW c, Serving(c), c.name # "renameConversation", NEW a, a = Answer(file, "done")
  PROVE  Served(c, a.state) /\ Goes(c, a.state, a.next, a.run)
<1>1. a.state = file /\ a.next = "done" /\ a.run = None
  BY DEF Answer
<1> QED
  BY <1>1, ServingFacts, SameFile, Ends

LEMMA StrandedGoes ==
  ASSUME NEW c, Serving(c), c.name \notin {"renameConversation", "markWorkflowStarted"}, NEW a, a = Stranded(file)
  PROVE  Served(c, a.state) /\ Goes(c, a.state, a.next, a.run)
<1>1. a.state = file /\ a.next = "stranded" /\ a.run = None
  BY DEF Answer, Stranded
<1>2. c.by # None => route[c.by].run = c.by
  BY ServingFacts DEF RouteAt, Serving, CallOK, CallShape, StoreCalls
<1> QED
  BY <1>1, <1>2, ServingFacts, SameFile, Ends

LEMMA GetGoes ==
  ASSUME NEW c, Serving(c), c.name = "get", NEW a, a = Get(file, c)
  PROVE  Served(c, a.state) /\ Goes(c, a.state, a.next, a.run)
<1> DEFINE q == file.req[c.op]
           w == route[c.by]
<1>1. c.by \in Requests /\ c.by # None
  BY ConversationAssumption DEF Serving, CallOK, CallShape
<1>2. /\ c.op \in Ops /\ file \in State /\ TitleAt(file.title, file.named) /\ w.op = c.op /\ w \in BusyRoute
      /\ q # None => q \in Record
      /\ RouteAt(c.by, "get", w.run, q)
  BY <1>1, ServingFacts
<1>3. CASE a = Replay(file, q) /\ q # None
  BY <1>3, ReplayGoes
<1>4. CASE a = Answer(file, "done")
  BY <1>4, RefusedGoes
<1>5. CASE /\ a.state = file /\ a.run = None
           /\ \/ a.next = "claimClarification" /\ w.how = "confirm" /\ q # None
              \/ a.next = "acceptRequest" /\ w.how # "confirm"
              \/ a.next = "claimSubmission" /\ w.how = "dispatch" /\ q # None /\ q.text = w.text
              \/ a.next = "claimChatCommand" /\ w.how \in Chats /\ q # None /\ q.text = w.text
  BY <1>1, <1>2, <1>5, SameFile DEF Goes, Nexts, RouteAt, HoldsAt, HoldPoints, Claims, Started
<1>6. w.how # "accept" /\ w.how \in Routes
  BY <1>2 DEF RouteAt, BusyRoute
<1>7. CASE w.how = "confirm"
  <2>1. CASE q = None
    BY <1>4, <1>7, <2>1 DEF Get, Refused
  <2>4. CASE q # None /\ q.life # "needs_clarification" /\ q.confirmed # w.question
    BY <1>4, <1>7, <2>4 DEF Get, Refused
  <2>2. CASE q # None /\ q.life = "needs_clarification"
    BY <1>5, <1>7, <2>2 DEF Get, Answer
  <2>3. CASE q # None /\ q.life # "needs_clarification" /\ q.confirmed = w.question
    BY <1>3, <1>7, <2>3 DEF Get
  <2> QED
    BY <2>1, <2>2, <2>3, <2>4
<1>8. CASE w.how # "confirm" /\ q = None
  BY <1>5, <1>8 DEF Get, Answer, Refused
<1>9. CASE w.how = "dispatch" /\ q # None
  BY <1>3, <1>4, <1>5, <1>9 DEF Get, Answer, Refused
<1>10. CASE w.how \in Chats /\ q # None
  BY <1>4, <1>5, <1>10 DEF Get, Answer, Refused, Chats
<1> QED
  BY <1>6, <1>7, <1>8, <1>9, <1>10 DEF Routes, Chats

LEMMA TitleSet == ToSet(Sources) = {"DEFAULT", "FIRST_MESSAGE", "WORKFLOW", "USER"}
BY DEF ToSet, Sources

LEMMA NewRecordOK ==
  ASSUME NEW r \in Requests, route[r] \in BusyRoute
  PROVE  LET p == NewRecord(route[r])
         IN  /\ p \in Record /\ ValidRequest(p) /\ p.life = "accepted" /\ p.reserved = None
             /\ p.text = route[r].text /\ (p.kind = "workflow" => p.picked)
BY DEF NewRecord, Record, ValidRequest, BusyRoute, OperationOf, Chooses, Lifecycles, Terminal

LEMMA AcceptRequestGoes ==
  ASSUME NEW c, Serving(c), c.name = "acceptRequest", NEW a, a = AcceptRequest(file, c)
  PROVE  Served(c, a.state) /\ Goes(c, a.state, a.next, a.run)
<1> DEFINE q == file.req[c.op]
           w == route[c.by]
           p == NewRecord(w)
<1>1. c.by \in Requests /\ c.by # None
  BY ConversationAssumption DEF Serving, CallOK, CallShape
<1>2. /\ c.op \in Ops /\ file \in State /\ TitleAt(file.title, file.named) /\ w.op = c.op /\ w \in BusyRoute
      /\ q # None => q \in Record
      /\ RouteAt(c.by, "acceptRequest", w.run, q) /\ RecordOK(c.op)
  BY <1>1, ServingFacts
<1>3. w.how # "confirm" /\ w.how \in Routes
  BY <1>2 DEF RouteAt, BusyRoute
<1>4. ASSUME NEW s, NEW z, z # None, z = s.req[c.op], z.text = w.text, Served(c, s),
             z.life # "accepted" => s = file,
             a = AfterAccept(s, z, w)
      PROVE  Served(c, a.state) /\ Goes(c, a.state, a.next, a.run)
  <2>1. CASE w.how = "accept"
    <3>1. a.state = s /\ a.next = "done" /\ a.run = None
      BY <1>4, <2>1 DEF AfterAccept, Answer
    <3> QED
      BY <1>4, <3>1, Ends
  <2>2. CASE w.how = "dispatch" /\ z.life # "accepted"
    <3>1. a = Replay(file, q) /\ q # None
      BY <1>4, <2>2 DEF AfterAccept
    <3> QED
      BY <3>1, ReplayGoes
  <2>3. CASE /\ a.state = s /\ a.run = None
             /\ \/ a.next = "claimSubmission" /\ w.how = "dispatch"
                \/ a.next = "claimChatCommand" /\ w.how \in Chats
    BY <1>1, <1>2, <1>4, <2>3 DEF Goes, Nexts, RouteAt, HoldsAt, HoldPoints, Claims, Started
  <2>4. CASE w.how = "dispatch" /\ z.life = "accepted"
    BY <1>4, <2>3, <2>4 DEF AfterAccept, Answer
  <2>5. CASE w.how \in Chats
    <3>1. w.how # "accept" /\ w.how # "dispatch"
      BY <2>5 DEF Chats
    <3>2. a = Answer(s, "claimChatCommand")
      BY <1>4, <3>1 DEF AfterAccept
    <3>3. a.state = s /\ a.next = "claimChatCommand" /\ a.run = None
      BY <3>2 DEF Answer
    <3> QED
      BY <2>3, <2>5, <3>3
  <2> QED
    BY <1>3, <2>1, <2>2, <2>4, <2>5 DEF Routes, Chats
<1>5. CASE q # None
  <2>1. CASE q.text # w.text \/ q.operation # OperationOf(w) \/ q.picked # Chooses(w)
    BY <1>5, <2>1, RefusedGoes DEF AcceptRequest, Refused
  <2>2. CASE ~(q.text # w.text \/ q.operation # OperationOf(w) \/ q.picked # Chooses(w))
    <3>1. a = AfterAccept(file, q, w)
      BY <1>5, <2>2 DEF AcceptRequest
    <3> QED
      BY <1>2, <1>4, <1>5, <2>2, <3>1, SameFile
  <2> QED
    BY <2>1, <2>2
<1>6. CASE q = None
  <2> DEFINE t == FirstTitle(file, c.op)
             f == With(file, c, p)
             s == [f EXCEPT !.title = t]
  <2>1. /\ p \in Record /\ ValidRequest(p) /\ p.life = "accepted" /\ p.reserved = None /\ p.text = w.text
        /\ p # None /\ (p.kind = "workflow" => p.picked)
    BY <1>1, <1>2, NewRecordOK, NoneAssumption
  <2>2. executed[c.op] = {}
    BY <1>2, <1>6 DEF RecordOK
  <2>3. Change(c.op, q, p) /\ Spares(c, q, p)
    BY <1>6, <2>1, <2>2 DEF Change, Spares
  <2>4. Served(c, f) /\ f.req[c.op] = p /\ f \in State /\ f.named = file.named /\ f.title = file.title
    BY <1>2, <2>1, <2>3, RecordServed, WithRecord
  <2>5. /\ t \in [source : ToSet(Sources), of : Ops \cup {None}] /\ TitleAt(t, file.named)
        /\ t = file.title \/ Stronger(file.title, t)
    BY <1>2, TitleSet DEF FirstTitle, TitleAt, Stronger, State
  <2> HIDE DEF p, t, f
  <2>6. s \in State /\ s.req = f.req /\ s.named = file.named /\ s.title = t
    BY <2>4, <2>5 DEF State
  <2>7. Served(c, s)
    BY <2>4, <2>5, <2>6 DEF Served
  <2>8. a = AfterAccept(s, p, w)
    BY <1>6 DEF AcceptRequest, p, t, f
  <2> QED
    BY <1>4, <2>1, <2>4, <2>6, <2>7, <2>8
<1> QED
  BY <1>5, <1>6

LEMMA ClaimSubmissionGoes ==
  ASSUME NEW c, Serving(c), c.name = "claimSubmission", NEW a, a = ClaimSubmission(file, c)
  PROVE  Served(c, a.state) /\ Goes(c, a.state, a.next, a.run)
<1> DEFINE q == file.req[c.op]
           p == [q EXCEPT !.life = "submitting", !.reserved = c.by]
<1>1. c.by \in Requests /\ c.by # None
  BY ConversationAssumption DEF Serving, CallOK, CallShape
<1>2. /\ c.op \in Ops /\ file \in State /\ TitleAt(file.title, file.named)
      /\ route[c.by].op = c.op /\ route[c.by].pc # "new"
      /\ RouteAt(c.by, "claimSubmission", route[c.by].run, q) /\ RecordOK(c.op)
      /\ q # None /\ q \in Record /\ ValidRequest(q)
  BY <1>1, ServingFacts DEF RouteAt, Claims
<1>3. CASE q.life # "accepted"
  BY <1>2, <1>3, ReplayGoes DEF ClaimSubmission
<1>4. CASE q.life = "accepted"
  <2>1. /\ p \in Record /\ ValidRequest(p) /\ p.life = "submitting" /\ p.reserved = c.by
        /\ SameRequest(q, p)
    BY <1>1, <1>2, <1>4 DEF Record, ValidRequest, Lifecycles, Terminal, SameRequest
  <2>2. a.state = With(file, c, p) /\ a.next = "preparing" /\ a.run = None
    BY <1>4 DEF ClaimSubmission, Answer
  <2>3. executed[c.op] = {}
    BY <1>2, <1>4 DEF RecordOK, Open
  <2> HIDE DEF p
  <2>4. Change(c.op, q, p) /\ Spares(c, q, p) /\ p # None
    BY <1>2, <1>4, <2>1, <2>3, NoneAssumption DEF Change, Spares, Open, SameRequest, RecordOK
  <2>5. Served(c, a.state) /\ a.state.req[c.op] = p
    BY <1>2, <2>1, <2>2, <2>4, RecordServed
  <2> QED
    BY <1>1, <1>2, <1>4, <2>1, <2>2, <2>3, <2>4, <2>5
    DEF Goes, Nexts, RouteAt, HoldsAt, HoldPoints, Claims, Started, SameRequest
<1> QED
  BY <1>3, <1>4

LEMMA ClaimClarificationGoes ==
  ASSUME NEW c, Serving(c), c.name = "claimClarification", NEW a, a = ClaimClarification(file, c)
  PROVE  Served(c, a.state) /\ Goes(c, a.state, a.next, a.run)
<1> DEFINE q == file.req[c.op]
           p == [q EXCEPT !.life = "submitting", !.reserved = c.by, !.confirmed = route[c.by].question]
<1>1. c.by \in Requests /\ c.by # None
  BY ConversationAssumption DEF Serving, CallOK, CallShape
<1>2. /\ c.op \in Ops /\ file \in State /\ TitleAt(file.title, file.named)
      /\ route[c.by].op = c.op /\ route[c.by].pc # "new" /\ route[c.by].question \in Requests \cup {None}
      /\ RouteAt(c.by, "claimClarification", route[c.by].run, q) /\ RecordOK(c.op)
      /\ q # None /\ q \in Record /\ ValidRequest(q)
  BY <1>1, ServingFacts DEF RouteAt, Claims, BusyRoute
<1>3. CASE q.life # "needs_clarification"
  BY <1>2, <1>3, ReplayGoes DEF ClaimClarification
<1>4. CASE q.life = "needs_clarification" /\ q.question # route[c.by].question
  BY <1>4, RefusedGoes DEF ClaimClarification, Refused
<1>5. CASE q.life = "needs_clarification" /\ q.question = route[c.by].question
  <2>1. /\ p \in Record /\ ValidRequest(p) /\ p.life = "submitting" /\ p.reserved = c.by
        /\ SameRequest(q, p)
    BY <1>1, <1>2, <1>5 DEF Record, ValidRequest, Lifecycles, Terminal, SameRequest
  <2>2. a.state = With(file, c, p) /\ a.next = "preparing" /\ a.run = None
    BY <1>5 DEF ClaimClarification, Answer
  <2>3. executed[c.op] = {}
    BY <1>2, <1>5 DEF RecordOK, Open
  <2> HIDE DEF p
  <2>4. Change(c.op, q, p) /\ Spares(c, q, p) /\ p # None
    BY <1>2, <1>5, <2>1, <2>3, NoneAssumption DEF Change, Spares, Open, SameRequest, RecordOK
  <2>5. Served(c, a.state) /\ a.state.req[c.op] = p
    BY <1>2, <2>1, <2>2, <2>4, RecordServed
  <2> QED
    BY <1>1, <1>2, <1>5, <2>1, <2>2, <2>3, <2>4, <2>5
    DEF Goes, Nexts, RouteAt, HoldsAt, HoldPoints, Claims, Started, SameRequest
<1> QED
  BY <1>3, <1>4, <1>5

LEMMA ClaimChatCommandGoes ==
  ASSUME NEW c, Serving(c), c.name = "claimChatCommand", NEW a, a = ClaimChatCommand(file, c)
  PROVE  Served(c, a.state) /\ Goes(c, a.state, a.next, a.run)
<1> DEFINE q == file.req[c.op]
           p == [q EXCEPT !.life = "submitting"]
<1>1. c.by \in Requests /\ c.by # None
  BY ConversationAssumption DEF Serving, CallOK, CallShape
<1>2. /\ c.op \in Ops /\ file \in State /\ TitleAt(file.title, file.named)
      /\ route[c.by].op = c.op /\ route[c.by].pc # "new"
      /\ RouteAt(c.by, "claimChatCommand", route[c.by].run, q) /\ RecordOK(c.op)
      /\ q # None /\ q \in Record /\ ValidRequest(q)
  BY <1>1, ServingFacts DEF RouteAt, Claims
<1>3. CASE a = Answer(file, "done")
  BY <1>3, RefusedGoes
<1>4. CASE q.life \in {"accepted", "ready_for_chat"} /\ a = Answer(With(file, c, p), "prompting")
  <2>1. /\ p \in Record /\ ValidRequest(p) /\ p.life = "submitting" /\ p.reserved = None
        /\ SameRequest(q, p)
    BY <1>2, <1>4 DEF Record, ValidRequest, Lifecycles, Terminal, SameRequest
  <2>2. a.state = With(file, c, p) /\ a.next = "prompting" /\ a.run = None
    BY <1>4 DEF Answer
  <2>3. executed[c.op] = {}
    BY <1>2, <1>4 DEF RecordOK, Open
  <2> HIDE DEF p
  <2>4. Change(c.op, q, p) /\ Spares(c, q, p) /\ p # None
    BY <1>2, <1>4, <2>1, <2>3, NoneAssumption DEF Change, Spares, Open, SameRequest, RecordOK
  <2>5. Served(c, a.state) /\ a.state.req[c.op] = p
    BY <1>2, <2>1, <2>2, <2>4, RecordServed
  <2> QED
    BY <1>1, <1>2, <1>4, <2>1, <2>2, <2>3, <2>4, <2>5
    DEF Goes, Nexts, RouteAt, HoldsAt, HoldPoints, Claims, Started, SameRequest
<1> QED
  BY <1>3, <1>4 DEF ClaimChatCommand, Refused

\* Whoever works on a request finds its record.
LEMMA WorkerFacts ==
  ASSUME NEW c, Serving(c), c.by # None, c.name \in {"recordDispatchEnvelope"} \cup Started \cup HoldPoints
  PROVE  /\ c.by \in Requests /\ c.op \in Ops /\ file \in State /\ TitleAt(file.title, file.named)
         /\ route[c.by].op = c.op /\ route[c.by].pc = c.name /\ route[c.by].run = c.by
         /\ RouteAt(c.by, c.name, route[c.by].run, file.req[c.op]) /\ RecordOK(c.op)
         /\ file.req[c.op] # None /\ file.req[c.op] \in Record /\ ValidRequest(file.req[c.op])
<1>1. c.name # "renameConversation"
  BY DEF Started, HoldPoints
<1>2. /\ c.by \in Requests /\ c.op \in Ops /\ file \in State /\ TitleAt(file.title, file.named)
      /\ route[c.by].op = c.op /\ route[c.by].pc = c.name
      /\ RouteAt(c.by, c.name, route[c.by].run, file.req[c.op]) /\ RecordOK(c.op)
      /\ file.req[c.op] # None => file.req[c.op] \in Record /\ ValidRequest(file.req[c.op])
  BY <1>1, ServingFacts
<1>3. c.by \in executed[c.op] => file.req[c.op] # None
  BY <1>2 DEF RecordOK
<1> QED
  BY <1>2, <1>3 DEF RouteAt, HoldsAt, HoldPoints, Started

LEMMA RecordDispatchEnvelopeGoes ==
  ASSUME NEW c, Serving(c), c.name = "recordDispatchEnvelope", NEW a, a = RecordDispatchEnvelope(file, c)
  PROVE  Served(c, a.state) /\ Goes(c, a.state, a.next, a.run)
<1> DEFINE q == file.req[c.op]
           asks == c.arg = "needs_clarification"
           p == [q EXCEPT !.question = IF asks THEN c.by ELSE None,
                          !.life = IF asks THEN "needs_clarification" ELSE q.life]
<1>1. c.by # None /\ c.arg \in Answers /\ (c.arg = "started" <=> c.by \in executed[c.op])
  BY DEF Serving, CallOK
<1>2. /\ c.by \in Requests /\ c.op \in Ops /\ file \in State /\ TitleAt(file.title, file.named)
      /\ route[c.by].op = c.op /\ route[c.by].pc = c.name /\ route[c.by].run = c.by
      /\ RouteAt(c.by, c.name, route[c.by].run, q) /\ RecordOK(c.op)
      /\ q # None /\ q \in Record /\ ValidRequest(q)
  BY <1>1, WorkerFacts
<1>3. CASE q.life # "submitting"
  BY <1>3, StrandedGoes DEF RecordDispatchEnvelope
<1>4. CASE q.life = "submitting"
  <2>1. /\ p \in Record /\ ValidRequest(p) /\ p.reserved = q.reserved /\ SameRequest(q, p)
        /\ p.life = IF asks THEN "needs_clarification" ELSE "submitting"
    BY <1>1, <1>2, <1>4 DEF Record, ValidRequest, Lifecycles, Terminal, SameRequest
  <2>2. /\ a.state = With(file, c, p) /\ a.run = None
        /\ a.next = CASE c.arg = "started" -> "recordWorkflowCandidate"
                      [] c.arg = "chat"    -> "markReadyForChat"
                      [] asks              -> "done"
                      [] OTHER             -> "markNotStarted"
    BY <1>4 DEF RecordDispatchEnvelope, Answer
  <2>3. c.arg # "started" => executed[c.op] = {} /\ Holds(c.by)
    BY <1>1, <1>2 DEF RouteAt, HoldsAt, Holds
  <2>4. p.reserved # None => route[p.reserved].pc # "new" /\ route[p.reserved].op = c.op
    BY <1>2, <2>1 DEF RecordOK
  <2> HIDE DEF p
  <2>5. Change(c.op, q, p) /\ Spares(c, q, p) /\ p # None
    BY <1>1, <1>2, <1>4, <2>1, <2>3, <2>4, NoneAssumption DEF Change, Spares, Open, SameRequest, RecordOK
  <2>6. Served(c, a.state) /\ a.state.req[c.op] = p
    BY <1>2, <2>1, <2>2, <2>5, RecordServed
  <2>7. CASE c.arg = "started"
    BY <1>1, <1>2, <2>2, <2>6, <2>7 DEF Goes, Nexts, RouteAt, HoldsAt, HoldPoints, Claims, Started
  <2>8. CASE asks
    BY <1>2, <2>2, <2>6, <2>8, Ends
  <2>9. CASE c.arg \in {"chat", "not_started"}
    <3>1. a.next \in {"markReadyForChat", "markNotStarted"}
      BY <2>2, <2>9
    <3>2. /\ p.life = "submitting" /\ executed[c.op] = {} /\ Holds(c.by)
          /\ route[c.by].how # "confirm" => p.text = route[c.by].text
      BY <1>2, <2>1, <2>3, <2>9 DEF RouteAt, Holds, SameRequest
    <3> QED
      BY <1>1, <1>2, <2>2, <2>5, <2>6, <3>1, <3>2 DEF Goes, Nexts, RouteAt, HoldsAt, HoldPoints, Claims, Started
  <2> QED
    BY <1>1, <2>7, <2>8, <2>9 DEF Answers
<1> QED
  BY <1>3, <1>4

\* A request that has been executed is associated with its run, or is left as it is.
LEMMA LinkGoes ==
  ASSUME NEW c, Serving(c), c.by # None, c.by \in executed[c.op], route[c.by].op = c.op, route[c.by].run = c.by,
         NEW s, Served(c, s), NEW next \in {"linkToolWorkflow", "running", "markWorkflowStarted"}
  PROVE  Goes(c, s, next, None)
BY DEF Goes, Nexts, RouteAt, HoldsAt, HoldPoints, Claims, Started

LEMMA RecordWorkflowCandidateGoes ==
  ASSUME NEW c, Serving(c), c.name = "recordWorkflowCandidate", NEW a, a = RecordWorkflowCandidate(file, c)
  PROVE  Served(c, a.state) /\ Goes(c, a.state, a.next, a.run)
<1> DEFINE q == file.req[c.op]
           p == [q EXCEPT !.kind = "workflow"]
<1>1. c.by # None
  BY DEF Serving, CallOK
<1>2. /\ c.by \in Requests /\ c.op \in Ops /\ file \in State /\ TitleAt(file.title, file.named)
      /\ route[c.by].op = c.op /\ route[c.by].run = c.by /\ c.by \in executed[c.op] /\ RecordOK(c.op)
      /\ q # None /\ q \in Record /\ ValidRequest(q)
  BY <1>1, WorkerFacts DEF RouteAt, Started
<1>3. CASE a = Answer(file, "linkToolWorkflow")
  BY <1>1, <1>2, <1>3, SameFile, LinkGoes DEF Answer
<1>4. CASE q.life = "submitting" /\ a = Answer(With(file, c, p), "markWorkflowStarted")
  <2>1. p \in Record /\ ValidRequest(p) /\ p.life = "submitting" /\ p.reserved = q.reserved /\ p.text = q.text
    BY <1>2, <1>4 DEF Record, ValidRequest, Terminal
  <2>2. p.reserved # None => route[p.reserved].pc # "new" /\ route[p.reserved].op = c.op
    BY <1>2, <2>1 DEF RecordOK
  <2>3. a.state = With(file, c, p) /\ a.next = "markWorkflowStarted" /\ a.run = None
    BY <1>4 DEF Answer
  <2> HIDE DEF p
  <2>4. Change(c.op, q, p) /\ Spares(c, q, p)
    BY <1>2, <1>4, <2>1, <2>2 DEF Change, Spares, Open, SameRequest, RecordOK
  <2> QED
    BY <1>1, <1>2, <2>1, <2>3, <2>4, RecordServed, LinkGoes
<1> QED
  BY <1>3, <1>4 DEF RecordWorkflowCandidate

LEMMA MarkWorkflowStartedGoes ==
  ASSUME NEW c, Serving(c), c.name = "markWorkflowStarted", NEW a, a = MarkWorkflowStarted(file, c)
  PROVE  Served(c, a.state) /\ Goes(c, a.state, a.next, a.run)
<1> DEFINE q == file.req[c.op]
           run == route[c.by].run
           next == IF run = c.by THEN "linkToolWorkflow" ELSE "done"
           p == [q EXCEPT !.life = "started", !.kind = "workflow", !.run = run, !.reserved = None]
           f == With(file, c, p)
           t == WorkflowTitle(file, c.op)
           s == [f EXCEPT !.title = t, !.named = TRUE]
<1>1. c.by # None
  BY DEF Serving, CallOK
<1>2. /\ c.by \in Requests /\ c.op \in Ops /\ file \in State /\ TitleAt(file.title, file.named)
      /\ route[c.by].op = c.op /\ run \in executed[c.op] /\ run \in Requests /\ RecordOK(c.op)
      /\ q # None /\ q \in Record /\ ValidRequest(q)
  <2>1. /\ c.by \in Requests /\ c.op \in Ops /\ file \in State /\ TitleAt(file.title, file.named)
        /\ route[c.by].op = c.op /\ run \in executed[c.op] /\ run \in Requests /\ RecordOK(c.op)
        /\ q # None => q \in Record /\ ValidRequest(q)
    BY <1>1, ServingFacts DEF RouteAt, BusyRoute
  <2> QED
    BY <2>1 DEF RecordOK
<1>3. ASSUME NEW z, Served(c, z) PROVE Goes(c, z, next, None)
  BY <1>1, <1>2, <1>3, LinkGoes, Ends
<1>4. CASE a = Answer(file, next)
  BY <1>2, <1>3, <1>4, SameFile DEF Answer
<1>5. CASE q.life = "submitting" /\ a = Answer(s, next)
  <2>1. p \in Record /\ ValidRequest(p) /\ p.life = "started" /\ p.reserved = None /\ p.text = q.text
    BY <1>2, <1>5, ConversationAssumption, ZenonT(60) DEF Record, ValidRequest, Lifecycles, Terminal, SameRequest
  <2>2. Change(c.op, q, p) /\ Spares(c, q, p)
    <3> HIDE DEF p
    <3> QED
      BY <1>2, <1>5, <2>1 DEF Change, Spares, Open, SameRequest, RecordOK
  <2>3. Served(c, f) /\ f \in State
    BY <1>2, <2>1, <2>2, RecordServed, WithRecord
  <2>4. /\ t \in [source : ToSet(Sources), of : Ops \cup {None}] /\ TitleAt(t, TRUE)
        /\ t = file.title \/ Stronger(file.title, t)
    BY <1>2, TitleSet DEF WorkflowTitle, TitleAt, Stronger, State
  <2> HIDE DEF p, f, t
  <2>5. s \in State /\ s.req = f.req /\ s.named = TRUE /\ s.title = t
    BY <2>3, <2>4 DEF State
  <2>6. Served(c, s)
    BY <2>3, <2>4, <2>5 DEF Served
  <2> HIDE DEF s, next
  <2>7. a.state = s /\ a.next = next /\ a.run = None
    BY <1>5 DEF Answer
  <2> QED
    BY <1>3, <2>6, <2>7
<1> QED
  BY <1>4, <1>5 DEF MarkWorkflowStarted

LEMMA LinkToolWorkflowGoes ==
  ASSUME NEW c, Serving(c), c.name = "linkToolWorkflow", NEW a, a = LinkToolWorkflow(file, c)
  PROVE  Served(c, a.state) /\ Goes(c, a.state, a.next, a.run)
<1> DEFINE q == file.req[c.op]
           p == [q EXCEPT !.linked = q.linked \cup {c.by}]
<1>1. c.by # None
  BY DEF Serving, CallOK
<1>2. /\ c.by \in Requests /\ c.op \in Ops /\ file \in State /\ TitleAt(file.title, file.named)
      /\ route[c.by].op = c.op /\ route[c.by].run = c.by /\ c.by \in executed[c.op] /\ RecordOK(c.op)
      /\ q # None /\ q \in Record /\ ValidRequest(q)
  BY <1>1, WorkerFacts DEF RouteAt, Started
<1>3. p \in Record /\ ValidRequest(p) /\ p.life = q.life /\ p.reserved = q.reserved /\ p.text = q.text
  <2>1. p \in Record /\ p.life = q.life /\ p.text = q.text /\ p.reserved = q.reserved /\ p.run = q.run
      /\ p.question = q.question /\ p.operation = q.operation /\ p.kind = q.kind
    BY <1>2 DEF Record
  <2>2. ValidRequest(q)
    BY <1>2
  <2> QED
    BY <2>1, <2>2, <1>2 DEF ValidRequest
<1>4. a.state = With(file, c, p) /\ a.next = "running" /\ a.run = None
  BY DEF LinkToolWorkflow, Answer
<1> HIDE DEF p
<1>5. Change(c.op, q, p) /\ Spares(c, q, p)
  BY <1>2, <1>3 DEF Change, Spares, RecordOK
<1> QED
  BY <1>1, <1>2, <1>3, <1>4, <1>5, RecordServed, LinkGoes

\* Whoever holds a request and has executed nothing for it gives it back, or says that it has failed.
LEMMA GivesBack ==
  ASSUME NEW c, Serving(c), c.by # None, c.name \in HoldPoints,
         NEW p \in Record, ValidRequest(p), p.life \in {"ready_for_chat", "not_started", "failed"},
         SameRequest(file.req[c.op], p), p.reserved \in {None, file.req[c.op].reserved},
         NEW a, a = Answer(With(file, c, p), "done")
  PROVE  Served(c, a.state) /\ Goes(c, a.state, a.next, a.run)
<1> DEFINE q == file.req[c.op]
<1>1. /\ c.by \in Requests /\ c.op \in Ops /\ file \in State /\ TitleAt(file.title, file.named)
      /\ route[c.by].op = c.op /\ route[c.by].pc = c.name
      /\ RouteAt(c.by, c.name, route[c.by].run, q) /\ RecordOK(c.op)
      /\ q # None /\ q \in Record /\ ValidRequest(q)
  BY WorkerFacts
<1>2. Holds(c.by) /\ q.life = "submitting" /\ executed[c.op] = {}
  BY <1>1 DEF RouteAt, Holds, HoldsAt
<1>3. p.reserved # None => route[p.reserved].pc # "new" /\ route[p.reserved].op = c.op
  BY <1>1 DEF RecordOK
<1>4. p.kind = "workflow" /\ ~p.picked => executed[c.op] # {}
  BY <1>1 DEF RecordOK, SameRequest
<1>5. Change(c.op, q, p) /\ Spares(c, q, p)
  BY <1>1, <1>2, <1>3, <1>4 DEF Change, Spares, SameRequest
<1>6. a.state = With(file, c, p) /\ a.next = "done" /\ a.run = None
  BY DEF Answer
<1> QED
  BY <1>1, <1>5, <1>6, RecordServed, Ends

LEMMA MarkReadyForChatGoes ==
  ASSUME NEW c, Serving(c), c.name = "markReadyForChat", NEW a, a = MarkReadyForChat(file, c)
  PROVE  Served(c, a.state) /\ Goes(c, a.state, a.next, a.run)
<1> DEFINE q == file.req[c.op]
           p == [q EXCEPT !.life = "ready_for_chat", !.reserved = None]
<1>1. c.by # None /\ c.name \in HoldPoints
  BY DEF Serving, CallOK, HoldPoints
<1>2. q \in Record /\ ValidRequest(q)
  BY <1>1, WorkerFacts
<1>3. CASE a = Stranded(file)
  BY <1>3, StrandedGoes
<1>4. CASE q.life = "submitting" /\ q.operation = "prompt" /\ a = Answer(With(file, c, p), "done")
  <2>1. p \in Record /\ ValidRequest(p) /\ p.life = "ready_for_chat" /\ p.reserved = None /\ SameRequest(q, p)
    BY <1>2, <1>4 DEF Record, ValidRequest, Lifecycles, Terminal, SameRequest
  <2> HIDE DEF p
  <2> QED
    BY <1>1, <1>4, <2>1, GivesBack
<1> QED
  BY <1>3, <1>4 DEF MarkReadyForChat

LEMMA MarkNotStartedGoes ==
  ASSUME NEW c, Serving(c), c.name \in {"markNotStarted", "markPreparationCancelled"},
         NEW a, a = MarkNotStarted(file, c)
  PROVE  Served(c, a.state) /\ Goes(c, a.state, a.next, a.run)
<1> DEFINE q == file.req[c.op]
           p == [q EXCEPT !.life = "not_started", !.reserved = None]
<1>1. c.by # None /\ c.name \in HoldPoints
  BY DEF Serving, CallOK, HoldPoints
<1>2. q \in Record /\ ValidRequest(q)
  BY <1>1, WorkerFacts
<1>3. CASE a = Answer(file, "done")
  BY <1>3, RefusedGoes
<1>4. CASE q.life = "submitting" /\ a = Answer(With(file, c, p), "done")
  <2>1. p \in Record /\ ValidRequest(p) /\ p.life = "not_started" /\ p.reserved = None /\ SameRequest(q, p)
    BY <1>2, <1>4 DEF Record, ValidRequest, Lifecycles, Terminal, SameRequest
  <2> HIDE DEF p
  <2> QED
    BY <1>1, <1>4, <2>1, GivesBack
<1> QED
  BY <1>3, <1>4 DEF MarkNotStarted

LEMMA MarkDispatchFailedGoes ==
  ASSUME NEW c, Serving(c), c.name = "markDispatchFailed", NEW a, a = MarkDispatchFailed(file, c)
  PROVE  Served(c, a.state) /\ Goes(c, a.state, a.next, a.run)
<1> DEFINE q == file.req[c.op]
           p == [q EXCEPT !.life = "failed"]
<1>1. c.by # None /\ c.name \in HoldPoints
  BY DEF Serving, CallOK, HoldPoints
<1>2. q \in Record
  BY <1>1, WorkerFacts
<1>3. CASE a = Stranded(file)
  BY <1>3, StrandedGoes
<1>4. CASE ValidRequest(p) /\ a = Answer(With(file, c, p), "done")
  <2>1. p \in Record /\ p.life = "failed" /\ p.reserved = q.reserved /\ SameRequest(q, p)
    BY <1>2 DEF Record, Lifecycles, Terminal, SameRequest
  <2> HIDE DEF p
  <2> QED
    BY <1>1, <1>4, <2>1, GivesBack
<1> QED
  BY <1>3, <1>4 DEF MarkDispatchFailed

\* A request that has been executed is started or over.
LEMMA MovesOn ==
  ASSUME NEW c, Serving(c), c.name \in {"completeWorkflowRequest", "chatStarted", "chatOver"},
         executed[c.op] # {}, file.req[c.op].life \in {"submitting", "started"},
         NEW p \in Record, ValidRequest(p), p.text = file.req[c.op].text, p.reserved = None,
         p.life \in {"started"} \cup Terminal,
         \A r \in executed[c.op] : p.life \in Terminal => ended[r] = p.life,
         NEW a, a = Answer(With(file, c, p), "done")
  PROVE  Served(c, a.state) /\ Goes(c, a.state, a.next, a.run)
<1> DEFINE q == file.req[c.op]
<1>1. c.op \in Ops /\ RecordOK(c.op) /\ file \in State /\ TitleAt(file.title, file.named) /\ q # None
  BY ServingFacts DEF RecordOK
<1>2. Change(c.op, q, p) /\ Spares(c, q, p)
  BY <1>1 DEF Change, Spares, Terminal, Open
<1>3. a.state = With(file, c, p) /\ a.next = "done" /\ a.run = None
  BY DEF Answer
<1> QED
  BY <1>1, <1>2, <1>3, RecordServed, Ends

LEMMA CompleteWorkflowRequestGoes ==
  ASSUME NEW c, Serving(c), c.name = "completeWorkflowRequest", NEW a, a = CompleteWorkflowRequest(file, c)
  PROVE  Served(c, a.state) /\ Goes(c, a.state, a.next, a.run)
<1> DEFINE q == file.req[c.op]
           p == [q EXCEPT !.life = c.arg]
<1>1. c.arg \in Terminal /\ \E r \in executed[c.op] : ended[r] = c.arg
  BY ConversationAssumption DEF Serving, CallOK
<1>2. RecordOK(c.op) /\ (q # None => q \in Record /\ ValidRequest(q))
  BY ServingFacts
<1>3. CASE a = Answer(file, "done")
  BY <1>3, RefusedGoes
<1>4. CASE q.kind = "workflow" /\ q.life = "started" /\ q.run # None /\ a = Answer(With(file, c, p), "done")
  <2>1. q \in Record /\ ValidRequest(q) /\ \A r \in executed[c.op] : ended[r] = c.arg
    BY <1>1, <1>2 DEF RecordOK
  <2>2. p \in Record /\ ValidRequest(p) /\ p.life = c.arg /\ p.reserved = None /\ p.text = q.text
    BY <1>1, <1>4, <2>1 DEF Record, ValidRequest, Lifecycles, Terminal
  <2> HIDE DEF p
  <2> QED
    BY <1>1, <1>4, <2>1, <2>2, MovesOn
<1> QED
  BY <1>3, <1>4 DEF CompleteWorkflowRequest

LEMMA ChatStartedGoes ==
  ASSUME NEW c, Serving(c), c.name = "chatStarted", NEW a, a = ChatStarted(file, c)
  PROVE  Served(c, a.state) /\ Goes(c, a.state, a.next, a.run)
<1> DEFINE q == file.req[c.op]
           p == [q EXCEPT !.life = "started"]
<1>1. PICK r \in executed[c.op] : route[r].how \in Chats
  BY DEF Serving, CallOK
<1>2. RecordOK(c.op) /\ q \in Record /\ ValidRequest(q)
  BY <1>1, ServingFacts DEF RecordOK
<1>3. CASE a = Answer(file, "done")
  BY <1>3, RefusedGoes
<1>4. CASE a = Stranded(file)
  BY <1>4, StrandedGoes
<1>5. CASE q.kind = "chat" /\ q.life = "submitting" /\ a = Answer(With(file, c, p), "done")
  <2>1. q.reserved = None
    BY <1>1, <1>2, <1>5 DEF RecordOK
  <2>2. p \in Record /\ ValidRequest(p) /\ p.life = "started" /\ p.reserved = None /\ p.text = q.text
    BY <1>2, <1>5, <2>1 DEF Record, ValidRequest, Lifecycles, Terminal
  <2> HIDE DEF p
  <2> QED
    BY <1>1, <1>5, <2>2, MovesOn DEF Terminal
<1> QED
  BY <1>3, <1>4, <1>5 DEF ChatStarted

LEMMA ChatOverGoes ==
  ASSUME NEW c, Serving(c), c.name = "chatOver", NEW a, a = ChatOver(file, c)
  PROVE  Served(c, a.state) /\ Goes(c, a.state, a.next, a.run)
<1> DEFINE q == file.req[c.op]
           p == [q EXCEPT !.life = c.arg]
<1>1. c.arg \in Terminal /\ \E r \in executed[c.op] : ended[r] = c.arg
  BY ConversationAssumption DEF Serving, CallOK
<1>2. RecordOK(c.op) /\ (q # None => q \in Record /\ ValidRequest(q))
  BY ServingFacts
<1>3. CASE a = Answer(file, "done")
  BY <1>3, RefusedGoes
<1>4. CASE q.kind = "chat" /\ q.life = "started" /\ a = Answer(With(file, c, p), "done")
  <2>1. q \in Record /\ ValidRequest(q) /\ \A r \in executed[c.op] : ended[r] = c.arg
    BY <1>1, <1>2 DEF RecordOK
  <2>2. p \in Record /\ ValidRequest(p) /\ p.life = c.arg /\ p.reserved = None /\ p.text = q.text
    BY <1>1, <1>4, <2>1 DEF Record, ValidRequest, Lifecycles, Terminal
  <2> HIDE DEF p
  <2> QED
    BY <1>1, <1>4, <2>1, <2>2, MovesOn
<1> QED
  BY <1>3, <1>4 DEF ChatOver

LEMMA RenameGoes ==
  ASSUME NEW c, Serving(c), c.name = "renameConversation", NEW a, a = RenameConversation(file, c)
  PROVE  Served(c, a.state) /\ Goes(c, a.state, a.next, a.run)
<1> DEFINE t == [source |-> "USER", of |-> None]
           s == [file EXCEPT !.title = t]
<1>1. c.by = None /\ file \in State /\ TitleAt(file.title, file.named)
  BY DEF Serving, CallOK, IInv, Shapes, TitleOK, TitleAt
<1>2. t \in [source : ToSet(Sources), of : Ops \cup {None}] /\ t.source = "USER" /\ t.of = None
  BY TitleSet
<1>3. t = file.title \/ Stronger(file.title, t)
  <2>1. CASE file.title.source = "USER"
    BY <1>1, <2>1 DEF State, TitleAt
  <2> QED
    BY <1>2, <2>1 DEF Stronger
<1> HIDE DEF t
<1>4. s \in State /\ s.req = file.req /\ s.named = file.named /\ s.title = t
  BY <1>1, <1>2 DEF State
<1>5. Served(c, s)
  BY <1>1, <1>2, <1>3, <1>4 DEF Served, TitleAt
<1> HIDE DEF s
<1>6. a.state = s /\ a.next = "done" /\ a.run = None
  BY DEF RenameConversation, Answer, s, t
<1> QED
  BY <1>1, <1>5, <1>6, Ends

\* All the store's operations together.
LEMMA ResultGoes ==
  ASSUME NEW c, Serving(c), NEW a, a = Result(c)
  PROVE  Served(c, a.state) /\ Goes(c, a.state, a.next, a.run)
<1>1. c.read = file /\ c.name \in StoreCalls
  BY DEF Serving, CallShape
<1>2. CASE c.name \in {"get", "acceptRequest", "claimSubmission", "claimClarification", "claimChatCommand"}
  BY <1>1, <1>2, GetGoes, AcceptRequestGoes, ClaimSubmissionGoes, ClaimClarificationGoes, ClaimChatCommandGoes
     DEF Result
<1>3. CASE c.name \in {"recordDispatchEnvelope", "recordWorkflowCandidate", "markWorkflowStarted",
                       "linkToolWorkflow"}
  BY <1>1, <1>3, RecordDispatchEnvelopeGoes, RecordWorkflowCandidateGoes, MarkWorkflowStartedGoes,
     LinkToolWorkflowGoes DEF Result
<1>4. CASE c.name \in {"markReadyForChat", "markNotStarted", "markPreparationCancelled", "markDispatchFailed"}
  BY <1>1, <1>4, MarkReadyForChatGoes, MarkNotStartedGoes, MarkDispatchFailedGoes DEF Result
<1>5. CASE c.name \in {"completeWorkflowRequest", "chatStarted", "chatOver", "renameConversation"}
  BY <1>1, <1>5, CompleteWorkflowRequestGoes, ChatStartedGoes, ChatOverGoes, RenameGoes DEF Result
<1> QED
  BY <1>1, <1>2, <1>3, <1>4, <1>5 DEF StoreCalls

-----------------------------------------------------------------------------
(* The queue.                                                              *)

LEMMA FirstIsRemoved ==
  ASSUME NEW z \in Seq(CallShape), z # <<>>, NEW more \in Seq(CallShape)
  PROVE  LET t == RemoveAt(z, 1) \o more
             n == Len(z) - 1
         IN  /\ t \in Seq(CallShape) /\ n \in Nat
             /\ \A i \in DOMAIN t : \/ i \in 1..n /\ t[i] = z[i + 1]
                                    \/ i - n \in 1..Len(more) /\ t[i] = more[i - n]
<1> DEFINE n == Len(z) - 1
           y == Tail(z)
           t == y \o more
<1>1. Len(z) \in Nat /\ Len(z) >= 1 /\ n \in Nat /\ Len(more) \in Nat
  BY EmptySeq, LenProperties
<1>2. y \in Seq(CallShape) /\ Len(y) = n /\ \A i \in 1..n : y[i] = z[i + 1]
  BY HeadTailProperties
<1>3. RemoveAt(z, 1) = y
  <2>1. SubSeq(z, 1, 1 - 1) = <<>> /\ SubSeq(z, 1 + 1, Len(z)) = Tail(z)
    BY <1>1, TailIsSubSeq, SubSeqEmpty
  <2> QED
    BY <1>2, <2>1, ConcatEmptySeq DEF RemoveAt
<1> HIDE DEF y
<1>4. /\ t \in Seq(CallShape) /\ Len(t) = n + Len(more) /\ DOMAIN t = 1..Len(t)
      /\ \A i \in 1..n + Len(more) : t[i] = IF i <= n THEN y[i] ELSE more[i - n]
  <2>1. /\ t \in Seq(CallShape) /\ Len(t) = Len(y) + Len(more)
        /\ \A i \in 1..Len(y) + Len(more) : t[i] = IF i <= Len(y) THEN y[i] ELSE more[i - Len(y)]
    BY <1>2, ConcatProperties
  <2>2. Len(y) = n
    BY <1>2
  <2> HIDE DEF t, n
  <2> QED
    BY <2>1, <2>2, LenProperties
<1> HIDE DEF t, n
<1>5. ASSUME NEW i \in DOMAIN t
      PROVE  \/ i \in 1..n /\ t[i] = z[i + 1]
             \/ i - n \in 1..Len(more) /\ t[i] = more[i - n]
  BY <1>1, <1>2, <1>4
<1> QED
  BY <1>1, <1>3, <1>4, <1>5 DEF t, n

LEMMA QueueShifts ==
  ASSUME NEW z \in Seq(CallShape), z # <<>>, NEW more \in Seq(CallShape), Len(more) <= 1,
         tail' = RemoveAt(z, 1) \o more,
         \A j \in 2..Len(z) : CallOK(z[j])' /\ z[j].read = None,
         \A i, j \in 2..Len(z) : z[i].by = z[j].by /\ z[i].by # None => i = j,
         \A k \in 1..Len(more) : /\ CallOK(more[k])' /\ more[k].read = None
                                 /\ \A j \in 2..Len(z) : z[j].by = more[k].by => z[j].by = None
  PROVE  tail' \in Seq(CallShape) /\ QueueOK'
<1> DEFINE n == Len(z) - 1
<1>1. /\ tail' \in Seq(CallShape) /\ n \in Nat /\ Len(z) = n + 1 /\ Len(more) \in Nat
      /\ \A i \in DOMAIN tail' : \/ i \in 1..n /\ tail'[i] = z[i + 1]
                                 \/ i - n \in 1..Len(more) /\ tail'[i] = more[i - n]
  BY FirstIsRemoved, LenProperties
<1> HIDE DEF n
<1>2. \A i \in DOMAIN tail' : i \in Int
  BY <1>1, LenProperties
<1>3. ASSUME NEW i \in DOMAIN tail' PROVE CallOK(tail[i])' /\ tail'[i].read = None
  <2>1. PICK d \in CallShape : CallOK(d)' /\ d.read = None /\ d = tail'[i]
    <3>1. CASE i \in 1..n /\ tail'[i] = z[i + 1]
      <4>1. i + 1 \in 2..Len(z) /\ z[i + 1] \in CallShape
        BY <1>1, <1>2, <3>1, ElementOfSeq
      <4> QED
        BY <3>1, <4>1
    <3>2. CASE i - n \in 1..Len(more) /\ tail'[i] = more[i - n]
      BY <3>2, ElementOfSeq
    <3> QED
      BY <1>1, <3>1, <3>2
  <2> QED
    BY <2>1 DEF CallOK
<1>4. ASSUME NEW i \in DOMAIN tail', NEW j \in DOMAIN tail', tail'[i].by = tail'[j].by, tail'[i].by # None
      PROVE  i = j
  <2>0. \A k \in DOMAIN tail' : k \in 1..n => k + 1 \in 2..Len(z)
    BY <1>1, <1>2
  <2>1. CASE i \in 1..n /\ tail'[i] = z[i + 1] /\ j \in 1..n /\ tail'[j] = z[j + 1]
    <3>1. i + 1 \in 2..Len(z) /\ j + 1 \in 2..Len(z) /\ z[i + 1].by = z[j + 1].by /\ z[i + 1].by # None
      BY <1>4, <2>0, <2>1
    <3>2. i + 1 = j + 1
      BY <3>1
    <3> QED
      BY <1>2, <3>2
  <2>2. CASE i \in 1..n /\ tail'[i] = z[i + 1] /\ j - n \in 1..Len(more) /\ tail'[j] = more[j - n]
    <3>1. i + 1 \in 2..Len(z) /\ z[i + 1].by = more[j - n].by /\ z[i + 1].by # None
      BY <1>4, <2>0, <2>2
    <3> QED
      BY <2>2, <3>1
  <2>3. CASE j \in 1..n /\ tail'[j] = z[j + 1] /\ i - n \in 1..Len(more) /\ tail'[i] = more[i - n]
    <3>1. j + 1 \in 2..Len(z) /\ z[j + 1].by = more[i - n].by /\ z[j + 1].by # None
      BY <1>4, <2>0, <2>3
    <3> QED
      BY <2>3, <3>1
  <2>4. CASE i - n \in 1..Len(more) /\ j - n \in 1..Len(more)
    BY <1>1, <1>2, <2>4
  <2> QED
    BY <1>1, <2>1, <2>2, <2>3, <2>4
<1> QED
  BY <1>1, <1>3, <1>4 DEF QueueOK

LEMMA QueueGrows ==
  ASSUME QueueOK, NEW z \in Seq(CallShape), z = tail, NEW d \in CallShape, d.read = None,
         tail' = Append(z, d), file' = file,
         \A j \in DOMAIN z : CallOK(z[j])' /\ (z[j].by = d.by => d.by = None),
         CallOK(d)'
  PROVE  tail' \in Seq(CallShape) /\ QueueOK'
<1>1. /\ tail' \in Seq(CallShape) /\ Len(z) \in Nat /\ DOMAIN z = 1..Len(z) /\ DOMAIN tail' = 1..Len(z) + 1
      /\ \A i \in 1..Len(z) : tail'[i] = z[i]
      /\ tail'[Len(z) + 1] = d
  BY AppendProperties, LenProperties
<1>2. \A i \in DOMAIN tail' : (i \in DOMAIN z /\ tail'[i] = z[i]) \/ (i = Len(z) + 1 /\ tail'[i] = d)
  BY <1>1
<1>3. \A i \in DOMAIN tail' : CallOK(tail[i])'
  BY <1>2 DEF CallOK
<1>4. \A i \in DOMAIN tail' : tail'[i].read # None => i = 1 /\ tail'[i].read = file'
  BY <1>2 DEF QueueOK
<1>5. \A i, j \in DOMAIN tail' : tail'[i].by = tail'[j].by /\ tail'[i].by # None => i = j
  BY <1>2 DEF QueueOK
<1> QED
  BY <1>1, <1>3, <1>4, <1>5 DEF QueueOK

\* The HTTP request r goes on to pc.
Moves(r, pc, run) ==
    /\ route' \in [Requests -> NewRoute \cup BusyRoute]
    /\ route'[r].pc = pc /\ route'[r].run = run /\ pc # "new"
    /\ \A x \in Requests : route'[x].op = route[x].op /\ route'[x].how = route[x].how /\ route'[x].text = route[x].text
    /\ \A x \in Requests \ {r} : route'[x].pc = route[x].pc /\ route'[x].run = route[x].run

LEMMA MovesByPoint ==
  ASSUME Shapes, NEW r \in Requests, route[r].pc # "new", NEW pc \in Points \ {"new"},
         route' = [route EXCEPT ![r].pc = pc]
  PROVE  Moves(r, pc, route[r].run)
<1> DEFINE w == [route[r] EXCEPT !.pc = pc]
<1>1. route[r] \in BusyRoute
  BY BusyShape
<1>2. /\ w \in BusyRoute /\ w.pc = pc /\ w.run = route[r].run
      /\ w.op = route[r].op /\ w.how = route[r].how /\ w.text = route[r].text
  BY <1>1 DEF BusyRoute
<1>3. route' = [route EXCEPT ![r] = w]
  OBVIOUS
<1> HIDE DEF w
<1> QED
  BY <1>2, <1>3 DEF Moves, Shapes

LEMMA MovesByAnswer ==
  ASSUME Shapes, NEW r \in Requests, route[r].pc # "new", NEW pc \in Points \ {"new"},
         NEW run \in Requests \cup {None},
         route' = [route EXCEPT ![r].pc = pc, ![r].run = IF run = None THEN @ ELSE run]
  PROVE  Moves(r, pc, IF run = None THEN route[r].run ELSE run)
<1> DEFINE w == [route[r] EXCEPT !.pc = pc]
           x == IF run = None THEN route[r].run ELSE run
           v == [w EXCEPT !.run = x]
<1>1. route[r] \in BusyRoute /\ x \in Requests
  BY BusyShape
<1>2. /\ w \in BusyRoute /\ w.pc = pc /\ w.run = route[r].run
      /\ w.op = route[r].op /\ w.how = route[r].how /\ w.text = route[r].text
  BY <1>1 DEF BusyRoute
<1>3. /\ v \in BusyRoute /\ v.pc = pc /\ v.run = x
      /\ v.op = route[r].op /\ v.how = route[r].how /\ v.text = route[r].text
  BY <1>1, <1>2 DEF BusyRoute
<1>4. route' = [route EXCEPT ![r] = v]
  BY <1>2 DEF Shapes
<1> HIDE DEF v, w, x
<1>5. Moves(r, pc, x)
  BY <1>3, <1>4, ZenonT(60) DEF Moves, Shapes
<1> QED
  BY <1>5 DEF x

-----------------------------------------------------------------------------
(* A call of the store is answered.                                        *)

\* Everybody else finds what he relies on.
LEMMA OthersStay ==
  ASSUME NEW c, Serving(c), NEW s, Served(c, s), NEW x \in Requests, x # c.by, route[x].pc # "new"
  PROVE  RouteAt(x, route[x].pc, route[x].run, s.req[route[x].op])
<1> DEFINE o == route[x].op
           q == file.req[o]
           p == s.req[o]
<1>1. o \in Ops /\ RouteAt(x, route[x].pc, route[x].run, q)
  BY BusyShape DEF Serving, IInv, RouteOK
<1>2. CASE p = q
  BY <1>1, <1>2
<1>3. CASE o = c.op /\ Change(o, q, p) /\ Spares(c, q, p)
  <2>1. p # None
    BY <1>3, NoneAssumption DEF Change
  <2>2. q # None => p.text = q.text
    BY <1>3 DEF Change
  <2>3. Holds(x) => p.life = "submitting" /\ p.reserved = q.reserved
    <3> SUFFICES ASSUME Holds(x) PROVE p.life = "submitting" /\ p.reserved = q.reserved
      OBVIOUS
    <3>1. q # None /\ q.life = "submitting" /\ executed[c.op] = {}
      BY <1>1, <1>3 DEF RouteAt, Holds
    <3>2. ~(c.by # None /\ Holds(c.by))
      BY <1>3 DEF Serving, CallOK, CallShape, IInv, OneHolder, Shapes
    <3> QED
      BY <1>3, <3>1, <3>2 DEF Spares
  <2>4. RouteAt(x, route[x].pc, route[x].run, p)
    <3> HIDE DEF p, q
    <3> QED
      BY <1>1, <2>1, <2>2, <2>3 DEF RouteAt, HoldsAt, Holds, HoldPoints, Claims
  <2> QED
    BY <2>4
<1> QED
  BY <1>1, <1>2, <1>3 DEF Served

LEMMA RecordsStay ==
  ASSUME NEW c, Serving(c), Served(c, file'), NEW o \in Ops, UNCHANGED <<executed, ended>>,
         \A x \in Requests : /\ route'[x].op = route[x].op /\ route'[x].how = route[x].how
                             /\ route'[x].text = route[x].text
                             /\ route[x].pc # "new" => route'[x].pc # "new"
  PROVE  RecordOK(o)'
<1> DEFINE q == file.req[o]
           p == file'.req[o]
<1>1. RecordOK(o) /\ executed[o] \subseteq Requests
  BY DEF Serving, IInv, Shapes
<1>2. CASE p = q
  <2>1. q # None /\ q.reserved # None => q.reserved \in Requests
    BY RecordShape DEF Serving, IInv, Record
  <2> QED
    BY <1>1, <1>2, <2>1 DEF RecordOK, ValidRequest
<1>3. CASE o = c.op /\ Change(o, q, p)
  <2>1. p.reserved # None => p.reserved \in Requests /\ route'[p.reserved].pc # "new" /\ route'[p.reserved].op = o
    BY <1>3 DEF Change, Record
  <2>2. ValidRequest(p) /\ p # None
    BY <1>3, NoneAssumption DEF Change
  <2>3. ASSUME NEW r \in executed[o]
        PROVE  /\ route'[r].pc # "new" /\ route'[r].op = o
               /\ p.life \notin Open /\ p.life # "not_started"
               /\ route'[r].how # "confirm" => p.text = route'[r].text
               /\ route'[r].how \in Chats /\ p.life = "submitting" => p.reserved = None
               /\ p.life \in {"completed", "cancelled", "failed"} => ended'[r] = p.life
    <3>1. /\ route[r].pc # "new" /\ route[r].op = o /\ q # None /\ r \in Requests
          /\ route[r].how # "confirm" => q.text = route[r].text
          /\ route[r].how \in Chats /\ q.life = "submitting" => q.reserved = None
      BY <1>1, <2>3 DEF RecordOK
    <3>2. /\ p.text = q.text /\ p.life \notin Open /\ p.life # "not_started"
          /\ p.life = "submitting" => q.life = "submitting" /\ p.reserved \in {q.reserved, None}
          /\ p.life \in {"completed", "cancelled", "failed"} => ended[r] = p.life
      BY <1>3, <2>3, <3>1 DEF Change
    <3> QED
      BY <3>1, <3>2
  <2>4. p.life \in {"completed", "cancelled", "started"} => executed[o] # {}
    BY <1>3 DEF Change
  <2>5. \A r, x \in executed[o] : r = x
    BY <1>1 DEF RecordOK
  <2>6. p.kind = "workflow" /\ ~p.picked => executed[o] # {}
    BY <1>3 DEF Change
  <2> QED
    BY <2>1, <2>2, <2>3, <2>4, <2>5, <2>6 DEF RecordOK, ValidRequest
<1> QED
  BY <1>2, <1>3 DEF Served

LEMMA RouteMoves ==
  ASSUME NEW r, NEW pc, NEW run, NEW q, RouteAt(r, pc, run, q),
         route'[r].pc = pc, route'[r].run = run, route'[r].op = route[r].op,
         route'[r].how = route[r].how, route'[r].text = route[r].text,
         executed' = executed, file'.req[route'[r].op] = q
  PROVE  RouteAt(r, route[r].pc, route[r].run, file.req[route[r].op])'
BY DEF RouteAt, HoldsAt

LEMMA ServeKeeps ==
  ASSUME NEW z \in Seq(CallShape), z = tail, z # <<>>, NEW c, c = z[1], Serving(c), up,
         NEW s, Served(c, s), NEW next, NEW run, Goes(c, s, next, run),
         file' = s, Answered(1, next, run),
         UNCHANGED <<up, known, agent, speaking, history, renames>>,
         crashes' \in 0..MaxFaults, errors' \in 0..MaxFaults
  PROVE  IInv'
<1> DEFINE r == c.by
           x0 == IF run = None THEN route[r].run ELSE run
           continues == r # None /\ next \in StoreCalls
           d == Call(r, next, c.op, None)
           more == IF continues THEN <<d>> ELSE <<>>
<1>1. IInv /\ CallOK(c) /\ c \in CallShape /\ UNCHANGED <<executed, ended, questions>>
  BY DEF Serving, history
<1>2. r # None => r \in Requests /\ route[r].pc # "new" /\ route[r].op = c.op /\ c.op \in Ops
  <2>1. c.name # "new"
    BY <1>1 DEF CallShape, StoreCalls
  <2> QED
    BY <1>1, <2>1 DEF CallOK, CallShape
<1>3. next \in Points \ {"new"} /\ run \in Requests \cup {None}
  BY DEF Goes, Nexts, Points, StoreCalls
<1>4. r # None => Moves(r, next, x0)
  <2> SUFFICES ASSUME r # None PROVE Moves(r, next, x0)
    OBVIOUS
  <2>1. route' = [route EXCEPT ![r].pc = next, ![r].run = IF run = None THEN @ ELSE run]
    BY DEF Answered
  <2> QED
    BY <1>1, <1>2, <1>3, <2>1, MovesByAnswer DEF IInv
<1>5. r = None => route' = route
  BY DEF Answered
<1>6. tail' = RemoveAt(z, 1) \o more
  BY DEF Answered
<1> HIDE DEF x0, d, more
<1>7. \A x \in Requests : /\ route'[x].op = route[x].op /\ route'[x].how = route[x].how
                          /\ route'[x].text = route[x].text
                          /\ route'[x].pc = "new" <=> route[x].pc = "new"
                          /\ x # r => route'[x].pc = route[x].pc /\ route'[x].run = route[x].run
  BY <1>2, <1>4, <1>5 DEF Moves
<1>8. QueueOK' /\ tail' \in Seq(CallShape)
  <2>1. \A i \in DOMAIN z : /\ CallOK(z[i])
                            /\ z[i].read # None => i = 1
                            /\ \A j \in DOMAIN z : z[i].by = z[j].by /\ z[i].by # None => i = j
    BY <1>1 DEF IInv, QueueOK
  <2>2. \A i \in 2..Len(z) : i \in DOMAIN z /\ i # 1 /\ 1 \in DOMAIN z /\ z[i] \in CallShape
    BY LenProperties, ElementOfSeq, EmptySeq
  <2>3. \A i \in 2..Len(z) : z[i].by # None => z[i].by # r
    BY <2>1, <2>2
  <2>4. ASSUME NEW j \in 2..Len(z) PROVE CallOK(z[j])' /\ z[j].read = None
    <3>1. CallOK(z[j]) /\ z[j].read = None /\ z[j].by \in Requests \cup {None}
      BY <2>1, <2>2 DEF CallShape
    <3>2. z[j].by # None => route'[z[j].by].pc = route[z[j].by].pc /\ route'[z[j].by].op = route[z[j].by].op
      BY <1>7, <2>3, <3>1
    <3>3. \A y \in executed[z[j].op] : y \in Requests \/ z[j].op \notin Ops
      BY <1>1 DEF IInv, Shapes
    <3> QED
      BY <1>1, <1>7, <3>1, <3>2, <3>3 DEF CallOK
  <2>5. continues => d \in CallShape /\ CallOK(d)' /\ d.read = None /\ d.by = r
    <3> SUFFICES ASSUME continues PROVE d \in CallShape /\ CallOK(d)' /\ d.read = None /\ d.by = r
      OBVIOUS
    <3>1. next \in Nexts /\ next \in StoreCalls
      BY DEF Goes
    <3>2. d.by = r /\ d.name = next /\ d.op = c.op /\ d.read = None /\ d.arg = None /\ d \in CallShape
      BY <1>2, <3>1 DEF d, Call, CallShape
    <3>3. route'[r].pc = next /\ route'[r].op = c.op /\ c.op \in Ops
      BY <1>2, <1>4, <1>7 DEF Moves
    <3> HIDE DEF d
    <3> QED
      BY <3>1, <3>2, <3>3 DEF CallOK, Nexts
  <2>6. more \in Seq(CallShape) /\ Len(more) <= 1 /\ \A k \in 1..Len(more) : continues /\ more[k] = d
    <3>1. CASE continues
      <4>1. more = <<d>> /\ d \in CallShape
        BY <2>5, <3>1 DEF more
      <4> QED
        BY <3>1, <4>1
    <3>2. CASE ~continues
      <4>1. more = <<>>
        BY <3>2 DEF more
      <4> QED
        BY <4>1, EmptySeq
    <3> QED
      BY <3>1, <3>2
  <2>7. \A k \in 1..Len(more) : /\ CallOK(more[k])' /\ more[k].read = None
                                /\ \A j \in 2..Len(z) : z[j].by = more[k].by => z[j].by = None
    BY <2>3, <2>5, <2>6
  <2> HIDE DEF continues
  <2> QED
    BY <1>6, <2>1, <2>2, <2>4, <2>6, <2>7, QueueShifts
<1>9. Shapes'
  BY <1>1, <1>4, <1>5, <1>8 DEF IInv, Shapes, Moves, Served, history
<1>10. ASSUME NEW x \in Requests PROVE RouteOK(x)'
  <2> SUFFICES ASSUME route'[x].pc # "new" PROVE RouteAt(x, route[x].pc, route[x].run, file.req[route[x].op])'
    BY DEF RouteOK
  <2>1. CASE x # r
    <3>1. RouteAt(x, route[x].pc, route[x].run, s.req[route[x].op])
      BY <1>7, <2>1, OthersStay
    <3> QED
      BY <1>1, <1>7, <2>1, <3>1 DEF RouteAt, HoldsAt
  <2>2. CASE x = r
    <3>1. r # None /\ RouteAt(r, next, x0, s.req[c.op])
      BY <2>2, ConversationAssumption DEF Goes, x0
    <3>2. /\ route'[r].pc = next /\ route'[r].run = x0 /\ route'[r].op = c.op /\ route[r].op = c.op
          /\ route'[r].how = route[r].how /\ route'[r].text = route[r].text
      BY <1>2, <1>4, <1>7, <3>1 DEF Moves
    <3>3. executed' = executed /\ file'.req[route'[r].op] = s.req[c.op]
      BY <1>1, <3>2
    <3>4. RouteAt(r, route[r].pc, route[r].run, file.req[route[r].op])'
      BY <3>1, <3>2, <3>3, RouteMoves
    <3> QED
      BY <2>2, <3>4
  <2> QED
    BY <2>1, <2>2
<1>11. OneHolder'
  <2> SUFFICES ASSUME NEW x \in Requests, NEW y \in Requests, Holds(x)', Holds(y)', route'[x].op = route'[y].op, x # y
               PROVE  FALSE
    BY DEF OneHolder
  <2>1. ASSUME NEW u \in Requests, u # r, Holds(u)' PROVE Holds(u)
    BY <1>1, <1>7, <2>1 DEF Holds, HoldsAt
  <2>2. ASSUME NEW u \in Requests, u # r, Holds(u), r \in Requests, Holds(r)', route[u].op = route[r].op PROVE FALSE
    <3>1. r # None /\ HoldsAt(r, next)
      <4>1. r # None /\ route'[r].pc = next /\ route'[r].op = route[r].op /\ executed' = executed
        BY <1>1, <1>4, <1>7, <2>2, ConversationAssumption DEF Moves
      <4> QED
        BY <2>2, <4>1 DEF Holds, HoldsAt
    <3>2. Holds(r) \/ file.req[c.op].life # "submitting"
      BY <3>1 DEF Goes
    <3>3. route[u].pc # "new"
      BY <2>2 DEF Holds, HoldsAt, HoldPoints
    <3>4. file.req[c.op].life = "submitting"
      <4>1. RouteAt(u, route[u].pc, route[u].run, file.req[route[u].op])
        BY <1>1, <2>2, <3>3 DEF IInv, RouteOK
      <4>2. HoldsAt(u, route[u].pc) /\ route[u].op = c.op
        BY <1>2, <2>2, <3>1 DEF Holds
      <4> QED
        BY <4>1, <4>2 DEF RouteAt
    <3> QED
      BY <1>1, <2>2, <3>2, <3>4 DEF IInv, OneHolder
  <2>3. route[x].op = route[y].op
    BY <1>7
  <2>4. CASE x # r /\ y # r
    BY <1>1, <2>1, <2>3, <2>4 DEF IInv, OneHolder
  <2>5. CASE x = r
    BY <2>1, <2>2, <2>3, <2>5
  <2>6. CASE y = r
    BY <2>1, <2>2, <2>3, <2>6
  <2> QED
    BY <2>4, <2>5, <2>6
<1>12. \A o \in Ops : RecordOK(o)'
  BY <1>1, <1>7, RecordsStay
<1>13. WorkOK'
  <2>1. known \subseteq Requests /\ agent \in Requests \cup {None}
    BY <1>1 DEF IInv, Shapes
  <2> QED
    BY <1>1, <1>7, <2>1 DEF IInv, WorkOK
<1>14. TitleOK'
  BY DEF Served, TitleOK, TitleAt
<1> QED
  BY <1>8, <1>9, <1>10, <1>11, <1>12, <1>13, <1>14 DEF IInv

LEMMA Leads ==
  ASSUME IInv, NEW z, z = tail, NEW i \in DOMAIN z, z[i].read # None
  PROVE  /\ i = 1 /\ z \in Seq(CallShape) /\ z # <<>> /\ Serving(z[1]) /\ up
<1>1. z \in Seq(CallShape) /\ i = 1 /\ z[i].read = file /\ CallOK(z[i])
  BY DEF IInv, Shapes, QueueOK
<1>2. z[i] \in CallShape /\ z # <<>>
  BY <1>1, LenProperties, ElementOfSeq, EmptySeq
<1>3. up
  BY <1>2 DEF IInv, WorkOK, Shapes
<1> QED
  BY <1>1, <1>2, <1>3 DEF Serving

LEMMA WriteKeeps ==
  ASSUME IInv, NEW i \in DOMAIN tail, Write(i)
  PROVE  IInv'
<1> SUFFICES ASSUME NEW z, z = tail PROVE IInv'
  OBVIOUS
<1> DEFINE c == z[1]
           a == Result(c)
<1>1. i = 1 /\ z \in Seq(CallShape) /\ z # <<>> /\ Serving(c) /\ up /\ c.read = file
  BY Leads DEF Write, Serving
<1>2. Served(c, a.state) /\ Goes(c, a.state, a.next, a.run)
  BY <1>1, ResultGoes
<1>3. /\ file' = a.state /\ Answered(1, a.next, a.run)
      /\ UNCHANGED <<up, known, agent, speaking, history, renames>>
      /\ crashes' = crashes /\ errors' = errors
  BY <1>1 DEF Write, counts
<1>4. crashes \in 0..MaxFaults /\ errors \in 0..MaxFaults
  BY DEF IInv, Shapes
<1> HIDE DEF c, a
<1>5. c = z[1]
  BY DEF c
<1> QED
  BY <1>1, <1>2, <1>3, <1>4, <1>5, ServeKeeps

LEMMA WriteFailsKeeps ==
  ASSUME IInv, NEW i \in DOMAIN tail, WriteFails(i)
  PROVE  IInv'
<1> SUFFICES ASSUME NEW z, z = tail PROVE IInv'
  OBVIOUS
<1> DEFINE c == z[1]
           a == Result(c)
<1>1. i = 1 /\ z \in Seq(CallShape) /\ z # <<>> /\ Serving(c) /\ up
  BY Leads DEF WriteFails
<1>2. Served(c, a.state)
  BY <1>1, ResultGoes
<1>3. file \in State /\ TitleAt(file.title, file.named)
  BY DEF IInv, Shapes, TitleOK, TitleAt
<1>4. file' \in {file, a.state}
  BY <1>1 DEF WriteFails
<1>5. Served(c, file')
  BY <1>2, <1>3, <1>4, SameFile
<1>6. Goes(c, file', AfterError(c), None)
  <2>1. CASE AfterError(c) = "done"
    BY <2>1, Ends
  <2>2. CASE c.name \in {"recordWorkflowCandidate", "markWorkflowStarted"} /\ route[c.by].run = c.by
    <3>1. c.by # None /\ c.name # "renameConversation"
      BY <1>1, <2>2 DEF Serving, CallOK
    <3>2. route[c.by].op = c.op /\ RouteAt(c.by, c.name, route[c.by].run, file.req[c.op])
      BY <1>1, <3>1, ServingFacts
    <3>3. c.by \in executed[c.op]
      BY <2>2, <3>2 DEF RouteAt, Started
    <3> QED
      BY <1>1, <1>5, <2>2, <3>1, <3>2, <3>3, LinkGoes DEF AfterError
  <2> QED
    BY <2>1, <2>2 DEF AfterError
<1>7. /\ Answered(1, AfterError(c), None)
      /\ UNCHANGED <<up, known, agent, speaking, history, renames>>
      /\ crashes' \in 0..MaxFaults /\ errors' \in 0..MaxFaults
  <2>1. crashes \in 0..MaxFaults /\ errors \in 0..MaxFaults /\ MaxFaults \in Nat
    BY ConversationAssumption DEF IInv, Shapes
  <2> QED
    BY <1>1, <2>1 DEF WriteFails
<1> HIDE DEF c, a
<1>8. c = z[1]
  BY DEF c
<1> QED
  BY <1>1, <1>5, <1>6, <1>7, <1>8, ServeKeeps

-----------------------------------------------------------------------------
(* The other actions leave the file alone.                                 *)

\* At most one HTTP request, r, goes on, and may execute what it holds.
Acts(r) ==
    /\ UNCHANGED file
    /\ \A x \in Requests \ {r} : route'[x] = route[x]
    /\ \A x \in Requests : route[x].pc # "new" => /\ route'[x].pc # "new" /\ route'[x].op = route[x].op
                                                  /\ route'[x].how = route[x].how /\ route'[x].text = route[x].text
    /\ \A x \in Requests : ended[x] # "no" => ended'[x] = ended[x]
    /\ \A o \in Ops : \/ executed'[o] = executed[o]
                      \/ /\ r \in Requests /\ Holds(r) /\ o = route[r].op /\ executed'[o] = executed[o] \cup {r}
                         /\ route[r].how \in Chats => file.req[o].reserved = None

LEMMA ActsKeep ==
  ASSUME IInv, NEW r \in Requests \cup {None}, Acts(r), Shapes', QueueOK', WorkOK',
         r # None => RouteOK(r)' /\ (Holds(r)' => Holds(r))
  PROVE  IInv'
<1>0. \A x \in Requests : Holds(x) => route[x].pc # "new"
  BY DEF Holds, HoldsAt, HoldPoints
<1>1. ASSUME NEW x \in Requests, x # r, route[x].pc # "new" PROVE RouteOK(x)' /\ (Holds(x)' <=> Holds(x))
  <2>1. route'[x] = route[x] /\ route[x].op \in Ops
    BY <1>1, BusyShape DEF Acts, IInv
  <2>2. RouteAt(x, route[x].pc, route[x].run, file.req[route[x].op])
    BY <1>1 DEF IInv, RouteOK
  <2>3. CASE executed'[route[x].op] = executed[route[x].op]
    <3>1. file' = file
      BY DEF Acts
    <3>2. RouteAt(x, route[x].pc, route[x].run, file.req[route[x].op])'
      BY <2>1, <2>2, <2>3, <3>1 DEF RouteAt, HoldsAt
    <3>3. Holds(x)' <=> Holds(x)
      BY <2>1, <2>3 DEF Holds, HoldsAt
    <3> QED
      BY <3>2, <3>3 DEF RouteOK
  <2>4. CASE Holds(r) /\ r \in Requests /\ route[x].op = route[r].op
             /\ executed'[route[x].op] = executed[route[x].op] \cup {r}
    <3>1. ~Holds(x)
      BY <1>1, <2>4 DEF IInv, OneHolder
    <3>2. x \in executed'[route[x].op] <=> x \in executed[route[x].op]
      BY <1>1, <2>4
    <3>3. ~Holds(x)'
      BY <2>1, <3>1, <3>2 DEF Holds, HoldsAt
    <3>4. file' = file /\ executed[route[x].op] \subseteq executed'[route[x].op]
      BY <2>4 DEF Acts
    <3>5. route[x].pc \notin HoldPoints /\ ~(route[x].pc = "recordDispatchEnvelope" /\ x \notin executed[route[x].op])
      BY <3>1 DEF Holds, HoldsAt
    <3>6. route'[x].how = route[x].how /\ route'[x].text = route[x].text
      BY <2>1
    <3>7. RouteAt(x, route[x].pc, route[x].run, file.req[route[x].op])'
      BY <2>1, <2>2, <3>2, <3>4, <3>5, <3>6 DEF RouteAt, HoldsAt
    <3> QED
      BY <3>1, <3>3, <3>7 DEF RouteOK
  <2> QED
    BY <2>1, <2>3, <2>4 DEF Acts
<1>2. ASSUME NEW x \in Requests PROVE RouteOK(x)'
  <2>1. CASE x = r
    BY <2>1, ConversationAssumption
  <2>2. CASE x # r /\ route[x].pc # "new"
    BY <1>1, <2>2
  <2>3. CASE x # r /\ route[x].pc = "new"
    BY <2>3 DEF Acts, RouteOK
  <2> QED
    BY <2>1, <2>2, <2>3
<1>3. OneHolder'
  <2>1. ASSUME NEW x \in Requests, Holds(x)' PROVE Holds(x) /\ route'[x].op = route[x].op
    <3>1. CASE x = r
      BY <1>0, <2>1, <3>1, ConversationAssumption DEF Acts
    <3>2. CASE x # r
      <4>1. route'[x] = route[x] /\ route[x].pc # "new"
        BY <2>1, <3>2 DEF Acts, Holds, HoldsAt, HoldPoints
      <4> QED
        BY <1>1, <2>1, <3>2, <4>1
    <3> QED
      BY <3>1, <3>2
  <2> QED
    BY <2>1 DEF OneHolder, IInv
<1>4. ASSUME NEW o \in Ops PROVE RecordOK(o)'
  <2> DEFINE q == file.req[o]
  <2>1. RecordOK(o) /\ executed[o] \subseteq Requests
    BY DEF IInv, Shapes
  <2>2. file'.req[o] = q
    BY DEF Acts
  <2>3. q # None /\ q.reserved # None => route'[q.reserved].pc # "new" /\ route'[q.reserved].op = o
    <3>1. q # None /\ q.reserved # None => q.reserved \in Requests
      BY RecordShape DEF IInv, Record
    <3> QED
      BY <2>1, <3>1 DEF RecordOK, Acts
  <2>4. q # None => ValidRequest(q)
    BY <2>1 DEF RecordOK
  <2>5. ASSUME NEW x \in executed[o]
        PROVE  /\ route'[x].pc # "new" /\ route'[x].op = o
               /\ q # None /\ q.life \notin Open /\ q.life # "not_started"
               /\ route'[x].how # "confirm" => q.text = route'[x].text
               /\ route'[x].how \in Chats /\ q.life = "submitting" => q.reserved = None
               /\ q.life \in {"completed", "cancelled", "failed"} => ended'[x] = q.life
    BY <2>1, <2>5 DEF RecordOK, Acts
  <2>6. CASE executed'[o] = executed[o]
    <3>1. /\ \A x, y \in executed[o] : x = y
          /\ q # None /\ q.life \in {"completed", "cancelled", "started"} => executed[o] # {}
          /\ q # None /\ q.kind = "workflow" /\ ~q.picked => executed[o] # {}
      BY <2>1 DEF RecordOK
    <3> QED
      BY <2>2, <2>3, <2>4, <2>5, <2>6, <3>1 DEF RecordOK, ValidRequest
  <2>7. CASE /\ r \in Requests /\ Holds(r) /\ o = route[r].op /\ executed'[o] = executed[o] \cup {r}
             /\ route[r].how \in Chats => q.reserved = None
    <3>1. /\ executed[o] = {} /\ q # None /\ q.life = "submitting"
          /\ route[r].how # "confirm" => q.text = route[r].text
      BY <1>0, <2>7 DEF IInv, RouteOK, RouteAt, Holds
    <3>2. /\ route'[r].pc # "new" /\ route'[r].op = o /\ route'[r].how = route[r].how /\ route'[r].text = route[r].text
      BY <1>0, <2>7 DEF Acts
    <3> QED
      BY <2>2, <2>3, <2>4, <2>7, <3>1, <3>2 DEF RecordOK, ValidRequest, Open
  <2> QED
    BY <2>6, <2>7 DEF Acts
<1>5. TitleOK'
  BY DEF Acts, IInv, TitleOK
<1> QED
  BY <1>2, <1>3, <1>4, <1>5 DEF IInv

\* A call relies on what stays.
LEMMA CallKeeps ==
  ASSUME IInv, NEW r \in Requests \cup {None}, Acts(r), NEW c \in CallShape, CallOK(c), c.by # None => c.by # r
  PROVE  CallOK(c)'
<1>1. c.by # None => /\ c.by \in Requests /\ route'[c.by] = route[c.by]
                     /\ \A o \in Ops : c.by \in executed'[o] <=> c.by \in executed[o]
  BY DEF Acts, CallShape
<1>2. \A o \in Ops : executed[o] \subseteq executed'[o]
  BY DEF Acts
<1>3. \A o \in Ops : \A x \in executed[o] : x \in Requests /\ route[x].pc # "new"
  BY DEF IInv, RecordOK, Shapes
<1>4. "no" \notin Outcomes
  BY ConversationAssumption DEF Terminal
<1> QED
  BY <1>1, <1>2, <1>3, <1>4 DEF CallOK, Acts

LEMMA Waits ==
  ASSUME IInv, NEW r \in Requests \cup {None}, Acts(r), r # None => route[r].pc \notin StoreCalls,
         NEW z, z = tail, NEW d \in CallShape, d.by = r, d.read = None, CallOK(d)', tail' = Append(z, d)
  PROVE  tail' \in Seq(CallShape) /\ QueueOK'
<1>1. z \in Seq(CallShape) /\ QueueOK /\ file' = file
  BY DEF IInv, Shapes, Acts
<1>2. ASSUME NEW j \in DOMAIN z PROVE CallOK(z[j])' /\ (z[j].by = d.by => d.by = None)
  <2>1. CallOK(z[j]) /\ z[j] \in CallShape
    BY <1>1, LenProperties, ElementOfSeq DEF QueueOK
  <2>2. z[j].by # None => z[j].by # r
    BY <2>1 DEF CallOK, CallShape
  <2> QED
    BY <2>1, <2>2, CallKeeps
<1> QED
  BY <1>1, <1>2, QueueGrows

LEMMA QueueStays ==
  ASSUME IInv, NEW r \in Requests \cup {None}, Acts(r), r # None => route[r].pc \notin StoreCalls, tail' = tail
  PROVE  QueueOK'
<1> SUFFICES ASSUME NEW z, z = tail PROVE QueueOK'
  OBVIOUS
<1>1. z \in Seq(CallShape) /\ QueueOK /\ tail' = z /\ file' = file
  BY DEF IInv, Shapes, Acts
<1>2. ASSUME NEW j \in DOMAIN z PROVE CallOK(z[j])'
  <2>1. CallOK(z[j]) /\ z[j] \in CallShape
    BY <1>1, LenProperties, ElementOfSeq DEF QueueOK
  <2>2. z[j].by # None => z[j].by # r
    BY <2>1 DEF CallOK, CallShape
  <2> QED
    BY <2>1, <2>2, CallKeeps
<1>3. \A i \in DOMAIN tail' : CallOK(tail[i])'
  BY <1>1, <1>2 DEF CallOK
<1> QED
  BY <1>1, <1>3 DEF QueueOK

\* The HTTP request r, which waits for no call, asks the store with d.
LEMMA AskKeeps ==
  ASSUME IInv, up' = up, UNCHANGED <<ended, renames, crashes, errors>>,
         NEW r \in Requests, Acts(r), route[r].pc \notin {"new"} \cup StoreCalls,
         NEW name \in StoreCalls, NEW arg \in Answers \cup Outcomes \cup {None}, Ask(r, name, arg),
         RouteOK(r)', Holds(r)' => Holds(r),
         NEW d, d = Call(r, name, route[r].op, arg), CallOK(d)',
         executed' \in [Ops -> SUBSET Requests], questions' \subseteq Requests, known' \subseteq Requests,
         agent' \in Requests \cup {None}, speaking' \in BOOLEAN, WorkOK'
  PROVE  IInv'
<1>1. Moves(r, name, route[r].run)
  <2>1. name \in Points \ {"new"} /\ route' = [route EXCEPT ![r].pc = name]
    BY DEF Ask, Points, StoreCalls
  <2> QED
    BY <2>1, MovesByPoint DEF IInv
<1>2. d \in CallShape /\ d.by = r /\ d.read = None
  BY BusyShape DEF Call, CallShape, IInv
<1>3. tail' \in Seq(CallShape) /\ QueueOK'
  <2>1. tail' = Append(tail, d)
    BY DEF Ask
  <2> QED
    BY <1>2, <2>1, Waits
<1>4. Shapes'
  BY <1>1, <1>3 DEF IInv, Shapes, Moves, Acts
<1> QED
  BY <1>3, <1>4, ActsKeep

\* Where r is, it holds its request ...
LEMMA Held ==
  ASSUME IInv, NEW r \in Requests, route[r].pc \in {"preparing", "prompting"}
  PROVE  /\ up /\ Holds(r) /\ route[r].op \in Ops /\ route[r].run = r /\ executed[route[r].op] = {}
         /\ file.req[route[r].op] # None /\ file.req[route[r].op].life = "submitting"
         /\ RouteAt(r, route[r].pc, route[r].run, file.req[route[r].op])
         /\ \A x \in Requests : ended[x] # "no" => route[x].op # route[r].op
         /\ \A x \in known : route[x].op # route[r].op
         /\ agent # None => route[agent].op # route[r].op
<1>1. /\ route[r].op \in Ops /\ RouteAt(r, route[r].pc, route[r].run, file.req[route[r].op])
      /\ up \in BOOLEAN
  BY BusyShape DEF IInv, Shapes, RouteOK
<1>2. up /\ Holds(r)
  BY <1>1 DEF IInv, WorkOK, Holds, HoldsAt, HoldPoints
<1> QED
  BY <1>1, <1>2 DEF RouteAt, Holds, IInv, WorkOK

\* ... and when it executes it, nobody else is concerned.
LEMMA DispatchedKeeps ==
  ASSUME IInv, NEW r \in Requests, NEW answer \in Answers, Dispatched(r, answer)
  PROVE  IInv'
<1> SUFFICES ASSUME NEW o, o = route[r].op PROVE IInv'
  OBVIOUS
<1> DEFINE d == Call(r, "recordDispatchEnvelope", o, answer)
<1>1. /\ route[r].pc = "preparing" /\ Ask(r, "recordDispatchEnvelope", answer)
      /\ UNCHANGED <<up, file, agent, speaking, ended, renames, crashes, errors>>
      /\ answer = "started" => /\ executed' = [executed EXCEPT ![o] = @ \cup {r}] /\ known' = known \cup {r}
                               /\ route[r].how \in {"dispatch", "confirm"}
      /\ answer # "started" => UNCHANGED <<executed, known>>
      /\ questions' \in {questions, questions \cup {r}}
  BY DEF Dispatched, counts
<1>2. /\ Holds(r) /\ o \in Ops /\ route[r].run = r /\ executed[o] = {}
      /\ file.req[o] # None /\ file.req[o].life = "submitting"
      /\ route[r].how # "confirm" => file.req[o].text = route[r].text
  BY <1>1, Held DEF RouteAt, Holds
<1>3. Moves(r, "recordDispatchEnvelope", r)
  <2>1. /\ "recordDispatchEnvelope" \in Points \ {"new"} /\ route[r].pc # "new"
        /\ route' = [route EXCEPT ![r].pc = "recordDispatchEnvelope"]
    BY <1>1 DEF Ask, Points, StoreCalls
  <2> QED
    BY <1>2, <2>1, MovesByPoint DEF IInv
<1>4. executed \in [Ops -> SUBSET Requests] /\ questions \subseteq Requests /\ known \subseteq Requests
      /\ agent \in Requests \cup {None} /\ speaking \in BOOLEAN
  BY DEF IInv, Shapes
<1>5. /\ executed' \in [Ops -> SUBSET Requests] /\ (r \in executed'[o] <=> answer = "started")
      /\ \A p \in Ops : p # o => executed'[p] = executed[p]
      /\ executed'[o] = IF answer = "started" THEN {r} ELSE {}
      /\ questions' \subseteq Requests /\ known' \subseteq Requests
  <2>1. CASE answer = "started"
    <3>1. executed' = [executed EXCEPT ![o] = executed[o] \cup {r}] /\ known' = known \cup {r}
      BY <1>1, <2>1
    <3> QED
      BY <1>1, <1>2, <1>4, <2>1, <3>1
  <2>2. CASE answer # "started"
    BY <1>1, <1>2, <1>4, <2>2
  <2> QED
    BY <2>1, <2>2
<1>6. Acts(r)
  <2>1. \A x \in Requests \ {r} : route'[x] = route[x]
    BY <1>1 DEF Ask, IInv, Shapes
  <2> QED
    BY <1>1, <1>2, <1>3, <1>5, <2>1 DEF Acts, Moves, Chats
<1>7. WorkOK'
  <2>1. \A x \in known : x \in Requests
    BY <1>4
  <2>2. \A x \in Requests : route[x].pc # "new" => route[x].op \in Ops
    BY BusyShape DEF IInv
  <2>3. \A p \in Ops : executed[p] \subseteq executed'[p]
    BY <1>2, <1>5
  <2> QED
    BY <1>1, <1>2, <1>3, <1>4, <1>5, <1>6, <2>1, <2>2, <2>3, Held DEF IInv, WorkOK, Moves, Acts, Chats
<1>8. RouteOK(r)' /\ (Holds(r)' => Holds(r))
  <2>1. file' = file /\ route'[r].op = o /\ route'[r].how = route[r].how /\ route'[r].text = route[r].text
        /\ route'[r].run = r /\ route'[r].pc = "recordDispatchEnvelope"
    BY <1>1, <1>3 DEF Moves
  <2>2. Holds(r)' => executed'[o] = {}
    BY <1>5, <2>1 DEF Holds, HoldsAt, HoldPoints
  <2> QED
    BY <1>2, <2>1, <2>2 DEF RouteOK, RouteAt, Holds, HoldsAt, Claims, Started, HoldPoints
<1>9. CallOK(d)'
  <2>1. d.by = r /\ d.name = "recordDispatchEnvelope" /\ d.op = o /\ d.arg = answer
    BY DEF Call
  <2>2. route'[r].op = o /\ route'[r].pc = "recordDispatchEnvelope"
    BY <1>3 DEF Moves
  <2> HIDE DEF d
  <2> QED
    BY <1>2, <1>5, <2>1, <2>2, ConversationAssumption DEF CallOK
<1>10. route[r].pc \notin {"new"} \cup StoreCalls /\ "recordDispatchEnvelope" \in StoreCalls
  BY <1>1 DEF StoreCalls
<1>11. up' = up /\ UNCHANGED <<ended, renames, crashes, errors>> /\ agent' = agent /\ speaking' = speaking
  BY <1>1
<1>12. answer \in Answers \cup Outcomes \cup {None} /\ Ask(r, "recordDispatchEnvelope", answer)
  BY <1>1
<1>13. d = Call(r, "recordDispatchEnvelope", route[r].op, answer)
  OBVIOUS
<1> HIDE DEF d
<1> QED
  BY <1>4, <1>5, <1>6, <1>7, <1>8, <1>9, <1>10, <1>11, <1>12, <1>13, AskKeeps

LEMMA PreparationFailsKeeps ==
  ASSUME IInv, NEW r \in Requests, NEW mark \in {"markPreparationCancelled", "markDispatchFailed"},
         PreparationFails(r, mark)
  PROVE  IInv'
<1> SUFFICES ASSUME NEW o, o = route[r].op PROVE IInv'
  OBVIOUS
<1> DEFINE d == Call(r, mark, o, None)
<1>1. /\ route[r].pc = "preparing" /\ Ask(r, mark, None)
      /\ UNCHANGED <<up, file, known, agent, speaking, executed, ended, questions, crashes, errors, renames>>
  BY DEF PreparationFails, history, counts
<1>2. Holds(r) /\ o \in Ops /\ route[r].run = r /\ RouteOK(r) /\ route[r].pc # "new"
  BY <1>1, Held DEF IInv
<1>3. Moves(r, mark, r)
  <2>1. mark \in Points \ {"new"} /\ route' = [route EXCEPT ![r].pc = mark]
    BY <1>1 DEF Ask, Points, StoreCalls
  <2> QED
    BY <1>2, <2>1, MovesByPoint DEF IInv
<1>4. executed \in [Ops -> SUBSET Requests] /\ questions \subseteq Requests /\ known \subseteq Requests
      /\ agent \in Requests \cup {None} /\ speaking \in BOOLEAN
  BY DEF IInv, Shapes
<1>5. Acts(r)
  <2>1. \A x \in Requests \ {r} : route'[x] = route[x]
    BY <1>1 DEF Ask, IInv, Shapes
  <2> QED
    BY <1>1, <1>2, <1>3, <2>1 DEF Acts, Moves
<1>6. WorkOK'
  BY <1>1, <1>3, <1>4, <1>5, Held DEF IInv, WorkOK, Acts
<1>7. RouteOK(r)' /\ (Holds(r)' => Holds(r))
  BY <1>1, <1>2, <1>3 DEF RouteOK, RouteAt, Holds, HoldsAt, Claims, Started, HoldPoints, Moves
<1>8. CallOK(d)'
  <2>1. d.by = r /\ d.name = mark /\ d.op = o
    BY DEF Call
  <2>2. route'[r].op = o /\ route'[r].pc = mark
    BY <1>3 DEF Moves
  <2> HIDE DEF d
  <2> QED
    BY <1>2, <2>1, <2>2, ConversationAssumption DEF CallOK
<1>9. route[r].pc \notin {"new"} \cup StoreCalls /\ mark \in StoreCalls
  BY <1>1 DEF StoreCalls
<1>10. d = Call(r, mark, route[r].op, None)
  OBVIOUS
<1> HIDE DEF d
<1> QED
  BY <1>1, <1>4, <1>5, <1>6, <1>7, <1>8, <1>9, <1>10, AskKeeps

LEMMA ReconcileKeeps ==
  ASSUME IInv, NEW r \in Requests, Reconcile(r)
  PROVE  IInv'
<1> SUFFICES ASSUME NEW o, o = route[r].op, NEW outcome, outcome = ended[r] PROVE IInv'
  OBVIOUS
<1> DEFINE d == Call(r, "completeWorkflowRequest", o, outcome)
<1>1. /\ route[r].pc = "running" /\ r \in known /\ outcome # "no" /\ Ask(r, "completeWorkflowRequest", outcome)
      /\ UNCHANGED <<up, file, known, agent, speaking, executed, ended, questions, crashes, errors, renames>>
  BY DEF Reconcile, history, counts
<1>2. /\ o \in Ops /\ RouteOK(r) /\ r \in executed[o] /\ outcome \in Outcomes /\ ~Holds(r)
  BY <1>1, BusyShape DEF IInv, Shapes, WorkOK, Holds, HoldsAt, HoldPoints
<1>3. Moves(r, "completeWorkflowRequest", route[r].run)
  <2>1. /\ "completeWorkflowRequest" \in Points \ {"new"} /\ route[r].pc # "new"
        /\ route' = [route EXCEPT ![r].pc = "completeWorkflowRequest"]
    BY <1>1 DEF Ask, Points, StoreCalls
  <2> QED
    BY <2>1, MovesByPoint DEF IInv
<1>4. executed \in [Ops -> SUBSET Requests] /\ questions \subseteq Requests /\ known \subseteq Requests
      /\ agent \in Requests \cup {None} /\ speaking \in BOOLEAN
  BY DEF IInv, Shapes
<1>5. Acts(r)
  <2>1. \A x \in Requests \ {r} : route'[x] = route[x]
    BY <1>1 DEF Ask, IInv, Shapes
  <2> QED
    BY <1>1, <1>3, <2>1 DEF Acts, Moves
<1>6. WorkOK'
  BY <1>1, <1>4, <1>5 DEF IInv, WorkOK, Acts
<1>7. RouteOK(r)' /\ (Holds(r)' => Holds(r))
  BY <1>1, <1>2, <1>3 DEF RouteOK, RouteAt, Holds, HoldsAt, Claims, Started, HoldPoints, Moves
<1>8. CallOK(d)'
  <2>1. d.by = r /\ d.name = "completeWorkflowRequest" /\ d.op = o /\ d.arg = outcome
    BY DEF Call
  <2>2. route'[r].op = o /\ route'[r].pc = "completeWorkflowRequest"
    BY <1>3 DEF Moves
  <2>3. r \in executed'[o] /\ ended'[r] = outcome
    BY <1>1, <1>2
  <2> HIDE DEF d
  <2> QED
    BY <1>2, <2>1, <2>2, <2>3, ConversationAssumption DEF CallOK
<1>9. route[r].pc \notin {"new"} \cup StoreCalls /\ "completeWorkflowRequest" \in StoreCalls
  BY <1>1 DEF StoreCalls
<1>10. d = Call(r, "completeWorkflowRequest", route[r].op, outcome)
  OBVIOUS
<1> HIDE DEF d
<1> QED
  BY <1>1, <1>2, <1>4, <1>5, <1>6, <1>7, <1>8, <1>9, <1>10, AskKeeps

LEMMA AgentAcceptsKeeps ==
  ASSUME IInv, NEW r \in Requests, AgentAccepts(r)
  PROVE  IInv'
<1> SUFFICES ASSUME NEW o, o = route[r].op PROVE IInv'
  OBVIOUS
<1> DEFINE d == Call(r, "chatStarted", o, None)
<1>1. /\ route[r].pc = "prompting" /\ Ask(r, "chatStarted", None)
      /\ executed' = [executed EXCEPT ![o] = executed[o] \cup {r}]
      /\ UNCHANGED <<up, file, known, ended, questions, renames, crashes, errors>>
      /\ \/ agent' = r /\ speaking' = FALSE
         \/ UNCHANGED <<agent, speaking>>
  BY DEF AgentAccepts, counts
<1>2. /\ Holds(r) /\ o \in Ops /\ route[r].run = r /\ executed[o] = {} /\ route[r].how \in Chats
      /\ file.req[o] # None /\ file.req[o].life = "submitting" /\ file.req[o].reserved = None
      /\ RouteOK(r) /\ route[r].pc # "new"
  BY <1>1, Held DEF RouteAt, IInv
<1>3. Moves(r, "chatStarted", r)
  <2>1. "chatStarted" \in Points \ {"new"} /\ route' = [route EXCEPT ![r].pc = "chatStarted"]
    BY <1>1 DEF Ask, Points, StoreCalls
  <2> QED
    BY <1>2, <2>1, MovesByPoint DEF IInv
<1>4. executed \in [Ops -> SUBSET Requests] /\ questions \subseteq Requests /\ known \subseteq Requests
      /\ agent' \in Requests \cup {None} /\ agent \in Requests \cup {None} /\ speaking' \in BOOLEAN
  BY <1>1 DEF IInv, Shapes
<1>5. /\ executed' \in [Ops -> SUBSET Requests] /\ executed'[o] = {r}
      /\ \A p \in Ops : p # o => executed'[p] = executed[p]
  BY <1>1, <1>2, <1>4
<1>6. Acts(r)
  <2>1. \A x \in Requests \ {r} : route'[x] = route[x]
    BY <1>1 DEF Ask, IInv, Shapes
  <2> QED
    BY <1>1, <1>2, <1>3, <1>5, <2>1 DEF Acts, Moves
<1>7. WorkOK'
  <2>1. \A x \in known : x \in Requests
    BY <1>4
  <2>2. \A x \in Requests : route[x].pc # "new" => route[x].op \in Ops
    BY BusyShape DEF IInv
  <2>3. \A p \in Ops : executed[p] \subseteq executed'[p]
    BY <1>2, <1>5
  <2>4. ended[r] = "no"
    BY <1>1, Held
  <2>5. route'[r].op = o /\ route'[r].pc # "new" /\ route'[r].how \in Chats /\ up
    BY <1>1, <1>2, <1>3, Held DEF Moves
  <2> QED
    BY <1>1, <1>4, <1>5, <1>6, <2>1, <2>2, <2>3, <2>4, <2>5 DEF IInv, WorkOK, Acts
<1>8. RouteOK(r)' /\ (Holds(r)' => Holds(r))
  BY <1>1, <1>2, <1>3, <1>5 DEF RouteOK, RouteAt, Holds, HoldsAt, Claims, Started, HoldPoints, Moves
<1>9. CallOK(d)'
  <2>1. d.by = r /\ d.name = "chatStarted" /\ d.op = o
    BY DEF Call
  <2>2. route'[r].op = o /\ route'[r].pc = "chatStarted" /\ route'[r].how \in Chats /\ r \in executed'[o]
    BY <1>2, <1>3, <1>5 DEF Moves
  <2> HIDE DEF d
  <2> QED
    BY <1>2, <2>1, <2>2, ConversationAssumption DEF CallOK
<1>10. route[r].pc \notin {"new"} \cup StoreCalls /\ "chatStarted" \in StoreCalls
  BY <1>1 DEF StoreCalls
<1>11. d = Call(r, "chatStarted", route[r].op, None)
  OBVIOUS
<1> HIDE DEF d
<1> QED
  BY <1>1, <1>4, <1>5, <1>6, <1>7, <1>8, <1>9, <1>10, <1>11, AskKeeps

LEMMA AgentRefusesKeeps ==
  ASSUME IInv, NEW r \in Requests, AgentRefuses(r)
  PROVE  IInv'
<1>1. /\ route[r].pc = "prompting" /\ route' = [route EXCEPT ![r].pc = "stranded"]
      /\ UNCHANGED <<up, file, tail, known, agent, speaking, executed, ended, questions, crashes, errors, renames>>
  BY DEF AgentRefuses, history, counts
<1>2. Holds(r) /\ route[r].run = r /\ up
  BY <1>1, Held
<1>3. Moves(r, "stranded", r)
  <2>1. "stranded" \in Points \ {"new"} /\ route[r].pc # "new"
    BY <1>1 DEF Points
  <2> QED
    BY <1>1, <1>2, <2>1, MovesByPoint DEF IInv
<1>4. Acts(r)
  <2>1. \A x \in Requests \ {r} : route'[x] = route[x]
    BY <1>1 DEF IInv, Shapes
  <2> QED
    BY <1>1, <1>3, <2>1 DEF Acts, Moves
<1>5. Shapes'
  BY <1>1, <1>3 DEF IInv, Shapes, Moves
<1>6. WorkOK'
  <2>1. known \subseteq Requests /\ agent \in Requests \cup {None}
    BY DEF IInv, Shapes
  <2> QED
    BY <1>1, <1>2, <1>4, <2>1 DEF IInv, WorkOK, Acts
<1>7. RouteOK(r)' /\ (Holds(r)' => Holds(r))
  BY <1>2, <1>3 DEF RouteOK, RouteAt, HoldsAt, Claims, Started, HoldPoints, Moves
<1>8. QueueOK'
  BY <1>1, <1>4, QueueStays DEF StoreCalls
<1> QED
  BY <1>4, <1>5, <1>6, <1>7, <1>8, ActsKeep

LEMMA ArriveKeeps ==
  ASSUME IInv, NEW r \in Requests, Arrive(r)
  PROVE  IInv'
<1>1. PICK a \in Arrivals, q \in questions \cup {None} :
        LET first == IF a.how = "accept" THEN "acceptRequest" ELSE "get"
        IN  /\ route' = [route EXCEPT ![r] = [pc |-> first, how |-> a.how, op |-> a.op,
                                              text |-> a.text, question |-> q, run |-> r]]
            /\ tail' = Append(tail, Call(r, first, a.op, None))
  BY DEF Arrive
<1>2. /\ up /\ route[r].pc = "new"
      /\ UNCHANGED <<up, file, known, agent, speaking, executed, ended, questions, crashes, errors, renames>>
  BY DEF Arrive, history, counts
<1> DEFINE first == IF a.how = "accept" THEN "acceptRequest" ELSE "get"
           w == [pc |-> first, how |-> a.how, op |-> a.op, text |-> a.text, question |-> q, run |-> r]
           d == Call(r, first, a.op, None)
<1>3. a.how \in Routes /\ a.op \in Ops /\ a.text \in Texts /\ q \in Requests \cup {None}
  BY ConversationAssumption DEF IInv, Shapes
<1>4. w \in BusyRoute /\ w.pc = first /\ w.how = a.how /\ w.op = a.op /\ w.run = r
  BY <1>3 DEF BusyRoute, Points, StoreCalls
<1>5. d \in CallShape /\ d.by = r /\ d.name = first /\ d.op = a.op /\ d.read = None
  BY <1>3 DEF Call, CallShape, StoreCalls
<1>6. first \in {"acceptRequest", "get"} /\ (first = "get" => a.how # "accept") /\ (first = "acceptRequest" => a.how = "accept")
  OBVIOUS
<1>7. route' = [route EXCEPT ![r] = w] /\ tail' = Append(tail, d)
  BY <1>1
<1> HIDE DEF first, w, d
<1>8. route'[r] = w /\ route' \in [Requests -> NewRoute \cup BusyRoute] /\ \A x \in Requests \ {r} : route'[x] = route[x]
  BY <1>4, <1>7 DEF IInv, Shapes
<1>9. Acts(r)
  BY <1>2, <1>8 DEF Acts
<1>10. r \notin executed[a.op]
  BY <1>2, <1>3 DEF IInv, RecordOK
<1>11. CallOK(d)'
  BY <1>3, <1>4, <1>5, <1>6, <1>8, ConversationAssumption DEF CallOK
<1>12. tail' \in Seq(CallShape) /\ QueueOK'
  <2>1. route[r].pc \notin StoreCalls
    BY <1>2 DEF StoreCalls
  <2> QED
    BY <1>5, <1>7, <1>9, <1>11, <2>1, Waits
<1>13. Shapes'
  BY <1>2, <1>8, <1>12 DEF IInv, Shapes
<1>14. WorkOK'
  <2>1. known \subseteq Requests /\ agent \in Requests \cup {None}
    BY DEF IInv, Shapes
  <2> QED
    BY <1>2, <1>8, <1>9, <2>1 DEF IInv, WorkOK, Acts
<1>15. RouteOK(r)' /\ (Holds(r)' => Holds(r))
  BY <1>2, <1>4, <1>6, <1>8, <1>10 DEF RouteOK, RouteAt, Holds, HoldsAt, Claims, Started, HoldPoints
<1> QED
  BY <1>9, <1>12, <1>13, <1>14, <1>15, ActsKeep

LEMMA RunEndsKeeps ==
  ASSUME IInv, NEW r \in Requests, NEW outcome \in Outcomes, RunEnds(r, outcome)
  PROVE  IInv'
<1>1. /\ r \in known /\ ended[r] = "no" /\ ended' = [ended EXCEPT ![r] = outcome]
      /\ UNCHANGED <<up, file, tail, route, known, agent, speaking, executed, questions, crashes, errors, renames>>
  BY DEF RunEnds, counts
<1>2. ended \in [Requests -> Outcomes \cup {"no"}] /\ known \subseteq Requests /\ agent \in Requests \cup {None}
  BY DEF IInv, Shapes
<1>3. Acts(None)
  BY <1>1, <1>2, ConversationAssumption DEF Acts
<1>4. Shapes'
  BY <1>1, <1>2 DEF IInv, Shapes
<1>5. QueueOK'
  BY <1>1, <1>3, QueueStays
<1>6. WorkOK'
  BY <1>1, <1>2 DEF IInv, WorkOK
<1> QED
  BY <1>3, <1>4, <1>5, <1>6, ActsKeep

LEMMA AgentStartsKeeps ==
  ASSUME IInv, AgentStarts
  PROVE  IInv'
<1> SUFFICES ASSUME NEW r, r = agent, NEW o, o = route[r].op PROVE IInv'
  OBVIOUS
<1> DEFINE d == Call(None, "chatStarted", o, None)
<1>1. /\ r # None /\ speaking' = TRUE /\ tail' = Append(tail, d)
      /\ UNCHANGED <<up, file, route, known, agent, executed, ended, questions, crashes, errors, renames>>
  BY DEF AgentStarts, history, counts
<1>2. r \in Requests /\ route[r].pc # "new" /\ r \in executed[o] /\ route[r].how \in Chats /\ o \in Ops /\ up
  BY <1>1, BusyShape DEF IInv, Shapes, WorkOK
<1>3. Acts(None)
  BY <1>1 DEF Acts
<1>4. d \in CallShape /\ d.by = None /\ d.read = None /\ d.name = "chatStarted" /\ d.op = o
  BY <1>2 DEF Call, CallShape, StoreCalls
<1> HIDE DEF d
<1>5. CallOK(d)'
  BY <1>1, <1>2, <1>4 DEF CallOK
<1>6. tail' \in Seq(CallShape) /\ QueueOK'
  BY <1>1, <1>3, <1>4, <1>5, Waits
<1>7. Shapes'
  BY <1>1, <1>6 DEF IInv, Shapes
<1>8. WorkOK'
  BY <1>1, <1>2 DEF IInv, WorkOK
<1> QED
  BY <1>3, <1>6, <1>7, <1>8, ActsKeep

LEMMA AgentEndsKeeps ==
  ASSUME IInv, NEW outcome \in Outcomes, AgentEnds(outcome)
  PROVE  IInv'
<1> SUFFICES ASSUME NEW r, r = agent, NEW o, o = route[r].op PROVE IInv'
  OBVIOUS
<1> DEFINE d == Call(None, "chatOver", o, outcome)
<1>1. /\ r # None /\ agent' = None /\ speaking' = FALSE /\ tail' = Append(tail, d)
      /\ ended' = [ended EXCEPT ![r] = outcome]
      /\ UNCHANGED <<up, file, route, known, executed, questions, crashes, errors, renames>>
  BY DEF AgentEnds, counts
<1>2. /\ r \in Requests /\ route[r].pc # "new" /\ r \in executed[o] /\ o \in Ops /\ up /\ ended[r] = "no"
      /\ ended \in [Requests -> Outcomes \cup {"no"}]
  BY <1>1, BusyShape DEF IInv, Shapes, WorkOK
<1>3. Acts(None)
  BY <1>1, <1>2 DEF Acts
<1>4. d \in CallShape /\ d.by = None /\ d.read = None /\ d.name = "chatOver" /\ d.op = o /\ d.arg = outcome
  BY <1>2 DEF Call, CallShape, StoreCalls
<1> HIDE DEF d
<1>5. CallOK(d)'
  BY <1>1, <1>2, <1>4 DEF CallOK
<1>6. tail' \in Seq(CallShape) /\ QueueOK'
  BY <1>1, <1>3, <1>4, <1>5, Waits
<1>7. Shapes'
  BY <1>1, <1>2, <1>6 DEF IInv, Shapes
<1>8. WorkOK'
  <2>1. known \subseteq Requests
    BY DEF IInv, Shapes
  <2> QED
    BY <1>1, <1>2, <2>1 DEF IInv, WorkOK
<1> QED
  BY <1>3, <1>6, <1>7, <1>8, ActsKeep

LEMMA RenameKeeps ==
  ASSUME IInv, Rename
  PROVE  IInv'
<1> DEFINE d == Call(None, "renameConversation", None, None)
<1>1. /\ up /\ renames < MaxRenames /\ renames' = renames + 1 /\ tail' = Append(tail, d)
      /\ UNCHANGED <<up, file, route, known, agent, speaking, executed, ended, questions, crashes, errors>>
  BY DEF Rename, history
<1>2. Acts(None)
  BY <1>1 DEF Acts
<1>3. d \in CallShape /\ d.by = None /\ d.read = None /\ d.name = "renameConversation"
  BY DEF Call, CallShape, StoreCalls
<1> HIDE DEF d
<1>4. CallOK(d)'
  BY <1>3 DEF CallOK
<1>5. tail' \in Seq(CallShape) /\ QueueOK'
  BY <1>1, <1>2, <1>3, <1>4, Waits
<1>6. Shapes'
  BY <1>1, <1>5, ConversationAssumption DEF IInv, Shapes
<1>7. WorkOK'
  BY <1>1 DEF IInv, WorkOK
<1> QED
  BY <1>2, <1>5, <1>6, <1>7, ActsKeep

LEMMA ReadKeeps ==
  ASSUME IInv, NEW i \in DOMAIN tail, Read(i)
  PROVE  IInv'
<1> SUFFICES ASSUME NEW z, z = tail PROVE IInv'
  OBVIOUS
<1>1. /\ i = 1 /\ z[1].read = None /\ tail' = [z EXCEPT ![1].read = file]
      /\ UNCHANGED <<up, file, route, known, agent, speaking, executed, ended, questions, crashes, errors, renames>>
  BY DEF Read, MayServe, history, counts
<1>2. z \in Seq(CallShape) /\ QueueOK /\ up /\ file \in State /\ 1 \in 1..Len(z) /\ z[1] \in CallShape
  <2>1. z \in Seq(CallShape) /\ QueueOK /\ file \in State
    BY DEF IInv, Shapes
  <2>2. 1 \in 1..Len(z) /\ z[1] \in CallShape
    BY <1>1, <2>1, LenProperties, ElementOfSeq
  <2> QED
    BY <2>1, <2>2, EmptySeq DEF IInv, WorkOK, Shapes
<1>3. Acts(None)
  BY <1>1 DEF Acts
<1> DEFINE e == [z[1] EXCEPT !.read = file]
<1>4. e \in CallShape /\ e.by = z[1].by /\ e.name = z[1].name /\ e.op = z[1].op /\ e.arg = z[1].arg /\ e.read = file
  BY <1>2 DEF CallShape
<1>5. tail' = [z EXCEPT ![1] = e]
  BY <1>1
<1> HIDE DEF e
<1>6. /\ tail' \in Seq(CallShape) /\ DOMAIN tail' = DOMAIN z
      /\ \A j \in DOMAIN z : tail'[j] = IF j = 1 THEN e ELSE z[j]
  BY <1>2, <1>4, <1>5, ExceptSeq, LenProperties
<1>7. ASSUME NEW j \in DOMAIN tail' PROVE CallOK(tail[j])'
  <2>1. CallOK(z[j]) /\ z[j] \in CallShape
    BY <1>2, <1>6, LenProperties, ElementOfSeq DEF QueueOK
  <2>2. CallOK(z[j])'
    BY <1>3, <2>1, CallKeeps DEF CallShape
  <2>3. /\ tail'[j].by = z[j].by /\ tail'[j].name = z[j].name
        /\ tail'[j].op = z[j].op /\ tail'[j].arg = z[j].arg
    BY <1>4, <1>6
  <2> QED
    BY <2>2, <2>3 DEF CallOK
<1>8. \A j \in DOMAIN tail' : tail'[j].read # None => j = 1 /\ tail'[j].read = file'
  BY <1>1, <1>2, <1>4, <1>6 DEF QueueOK
<1>9. \A j, k \in DOMAIN tail' : tail'[j].by = tail'[k].by /\ tail'[j].by # None => j = k
  <2>1. \A j \in DOMAIN z : tail'[j].by = z[j].by
    BY <1>4, <1>6
  <2> QED
    BY <1>2, <1>6, <2>1 DEF QueueOK
<1>10. QueueOK'
  BY <1>7, <1>8, <1>9 DEF QueueOK
<1>11. Shapes'
  BY <1>1, <1>6 DEF IInv, Shapes
<1>12. WorkOK'
  BY <1>1, <1>2 DEF IInv, WorkOK
<1> QED
  BY <1>3, <1>10, <1>11, <1>12, ActsKeep

\* Without the runtime there is no call and no HTTP request under way.
LEMMA CrashKeeps ==
  ASSUME IInv, Crash
  PROVE  IInv'
<1>1. /\ crashes' = crashes + 1 /\ crashes + errors < MaxFaults
      /\ up' = FALSE /\ tail' = <<>> /\ known' = {} /\ agent' = None /\ speaking' = FALSE
      /\ route' = [r \in Requests |-> IF route[r].pc = "new" THEN route[r] ELSE [route[r] EXCEPT !.pc = "done"]]
      /\ UNCHANGED <<file, executed, ended, questions, errors, renames>>
  BY DEF Crash, history
<1>2. ASSUME NEW r \in Requests
      PROVE  /\ route'[r] \in NewRoute \cup BusyRoute /\ route'[r].op = route[r].op /\ route'[r].how = route[r].how
             /\ route'[r].text = route[r].text
             /\ route'[r].pc = IF route[r].pc = "new" THEN "new" ELSE "done"
  <2>1. CASE route[r].pc = "new"
    BY <1>1, <2>1 DEF IInv, Shapes
  <2>2. CASE route[r].pc # "new"
    <3>1. route[r] \in BusyRoute /\ route'[r] = [route[r] EXCEPT !.pc = "done"]
      BY <1>1, <2>2, BusyShape DEF IInv
    <3> QED
      BY <2>2, <3>1 DEF BusyRoute, Points
  <2> QED
    BY <2>1, <2>2
<1>3. Shapes'
  <2>1. crashes' \in 0..MaxFaults
    <3>1. crashes \in Nat /\ errors \in Nat /\ MaxFaults \in Nat
      BY ConversationAssumption DEF IInv, Shapes
    <3> QED
      BY <1>1, <3>1
  <2>2. tail' \in Seq(CallShape)
    BY <1>1, EmptySeq
  <2>3. route' \in [Requests -> NewRoute \cup BusyRoute]
    BY <1>1, <1>2
  <2> QED
    BY <1>1, <2>1, <2>2, <2>3 DEF IInv, Shapes
<1>4. \A r \in Requests : RouteOK(r)' /\ ~Holds(r)'
  BY <1>2 DEF RouteOK, RouteAt, Holds, HoldsAt, HoldPoints, Claims, Started
<1>5. OneHolder'
  BY <1>4 DEF OneHolder
<1>6. QueueOK'
  BY <1>1, EmptySeq DEF QueueOK
<1>7. ASSUME NEW o \in Ops PROVE RecordOK(o)'
  <2>1. RecordOK(o) /\ executed[o] \subseteq Requests
    BY DEF IInv, Shapes
  <2>2. file.req[o] # None /\ file.req[o].reserved # None => file.req[o].reserved \in Requests
    BY RecordShape DEF IInv, Record
  <2>3. file' = file /\ executed' = executed /\ ended' = ended
    BY <1>1
  <2>4. \A r \in Requests : /\ route'[r].op = route[r].op /\ route'[r].how = route[r].how
                            /\ route'[r].text = route[r].text
                            /\ route[r].pc # "new" => route'[r].pc # "new"
    BY <1>2
  <2> QED
    BY <2>1, <2>2, <2>3, <2>4 DEF RecordOK, ValidRequest
<1>8. WorkOK'
  BY <1>1, <1>2 DEF IInv, WorkOK
<1>9. TitleOK'
  BY <1>1 DEF IInv, TitleOK
<1> QED
  BY <1>3, <1>4, <1>5, <1>6, <1>7, <1>8, <1>9 DEF IInv

LEMMA InterruptedRecord ==
  ASSUME NEW q \in Record, ValidRequest(q)
  PROVE  /\ Interrupted(q) \in Record /\ ValidRequest(Interrupted(q)) /\ SameRequest(q, Interrupted(q))
         /\ Interrupted(q).reserved = q.reserved
         /\ Interrupted(q).life = IF q.life \in {"submitting", "started"} THEN "interrupted" ELSE q.life
<1>1. q # None
  BY NoneAssumption
<1>2. CASE q.life \notin {"submitting", "started"}
  BY <1>1, <1>2 DEF Interrupted, SameRequest
<1>3. CASE q.life \in {"submitting", "started"}
  <2>1. Interrupted(q) = [q EXCEPT !.life = "interrupted"]
    BY <1>1, <1>3 DEF Interrupted
  <2> QED
    BY <1>3, <2>1 DEF Record, ValidRequest, Lifecycles, Terminal, SameRequest
<1> QED
  BY <1>2, <1>3

LEMMA RecoverKeeps ==
  ASSUME IInv, Recover
  PROVE  IInv'
<1>1. /\ ~up /\ up' = TRUE /\ file' = [file EXCEPT !.req = [o \in Ops |-> Interrupted(file.req[o])]]
      /\ UNCHANGED <<tail, route, known, agent, speaking, executed, ended, questions, crashes, errors, renames>>
  BY DEF Recover, history, counts
<1>2. /\ tail = <<>> /\ known = {} /\ agent = None /\ \A r \in Requests : route[r].pc \in {"new", "done"}
      /\ file \in State
  BY <1>1 DEF IInv, WorkOK, Shapes
<1>3. file'.title = file.title /\ file'.named = file.named /\ \A o \in Ops : file'.req[o] = Interrupted(file.req[o])
  BY <1>1, <1>2 DEF State
<1>4. Interrupted(None) = None
  BY DEF Interrupted
<1>5. ASSUME NEW o \in Ops PROVE file'.req[o] \in Record \cup {None} /\ RecordOK(o)'
  <2> DEFINE q == file.req[o]
  <2>1. RecordOK(o) /\ q \in Record \cup {None}
    BY <1>2 DEF IInv, State
  <2>2. CASE q = None
    BY <1>1, <1>3, <1>4, <2>1, <2>2 DEF RecordOK
  <2>3. CASE q # None
    <3> DEFINE p == Interrupted(q)
    <3>1. /\ q \in Record /\ p \in Record /\ ValidRequest(p) /\ p.text = q.text /\ p.reserved = q.reserved /\ p # None
          /\ p.kind = q.kind /\ p.picked = q.picked
          /\ p.life = IF q.life \in {"submitting", "started"} THEN "interrupted" ELSE q.life
      BY <2>1, <2>3, InterruptedRecord, NoneAssumption DEF RecordOK, SameRequest
    <3>2. file'.req[o] = p
      BY <1>3
    <3> HIDE DEF p
    <3>3. p.reserved # None => route'[p.reserved].pc # "new" /\ route'[p.reserved].op = o
      BY <1>1, <2>1, <2>3, <3>1 DEF RecordOK
    <3>4. ASSUME NEW r \in executed[o]
          PROVE  /\ route'[r].pc # "new" /\ route'[r].op = o
                 /\ p.life \notin Open /\ p.life # "not_started"
                 /\ route'[r].how # "confirm" => p.text = route'[r].text
                 /\ route'[r].how \in Chats /\ p.life = "submitting" => p.reserved = None
                 /\ p.life \in {"completed", "cancelled", "failed"} => ended'[r] = p.life
      <4>1. /\ route[r].pc # "new" /\ route[r].op = o
            /\ q.life \notin Open /\ q.life # "not_started"
            /\ route[r].how # "confirm" => q.text = route[r].text
            /\ q.life \in {"completed", "cancelled", "failed"} => ended[r] = q.life
        BY <2>1, <2>3, <3>4 DEF RecordOK
      <4>2. p.life # "submitting" /\ p.life \notin Open /\ p.life # "not_started"
        BY <3>1, <4>1 DEF Open
      <4> QED
        BY <1>1, <3>1, <4>1, <4>2
    <3>5. p.life \in {"completed", "cancelled", "started"} => executed[o] # {}
      BY <2>1, <2>3, <3>1 DEF RecordOK
    <3>6. \A r, t \in executed[o] : r = t
      BY <2>1 DEF RecordOK
    <3>7. p.kind = "workflow" /\ ~p.picked => executed[o] # {}
      BY <2>1, <2>3, <3>1 DEF RecordOK
    <3> QED
      BY <1>1, <3>1, <3>2, <3>3, <3>4, <3>5, <3>6, <3>7 DEF RecordOK
  <2> QED
    BY <2>2, <2>3
<1>6. file' \in State
  <2>1. [o \in Ops |-> Interrupted(file.req[o])] \in [Ops -> Record \cup {None}]
    BY <1>3, <1>5
  <2> QED
    BY <1>1, <1>2, <2>1 DEF State
<1>7. Shapes'
  BY <1>1, <1>6 DEF IInv, Shapes
<1>8. \A r \in Requests : RouteOK(r)' /\ ~Holds(r)'
  BY <1>1, <1>2 DEF RouteOK, RouteAt, Holds, HoldsAt, HoldPoints, Claims, Started
<1>9. OneHolder' /\ QueueOK'
  BY <1>1, <1>2, <1>8, EmptySeq DEF OneHolder, QueueOK
<1>10. WorkOK'
  BY <1>1, <1>2 DEF IInv, WorkOK
<1>11. TitleOK'
  BY <1>3 DEF IInv, TitleOK
<1> QED
  BY <1>5, <1>7, <1>8, <1>9, <1>10, <1>11 DEF IInv

-----------------------------------------------------------------------------
(* The invariant is inductive.                                             *)

LEMMA InitOK == Init => IInv
<1> SUFFICES ASSUME Init PROVE IInv
  OBVIOUS
<1>1. /\ up = TRUE /\ tail = <<>> /\ known = {} /\ agent = None /\ speaking = FALSE
      /\ route = [r \in Requests |-> [pc |-> "new"]]
      /\ executed = [o \in Ops |-> {}] /\ ended = [r \in Requests |-> "no"] /\ questions = {}
      /\ crashes = 0 /\ errors = 0 /\ renames = 0
      /\ file.title.source = "DEFAULT" /\ file.title.of = None /\ file.named = FALSE
      /\ \A o \in Ops : file.req[o] = None
  BY DEF Init
<1>2. file \in State
  BY TitleSet DEF Init, State
<1>3. Shapes
  <2>1. 0 \in 0..MaxFaults /\ 0 \in 0..MaxRenames
    BY ConversationAssumption
  <2>2. tail \in Seq(CallShape)
    BY <1>1, EmptySeq
  <2>3. route \in [Requests -> NewRoute \cup BusyRoute]
    BY <1>1 DEF NewRoute
  <2> QED
    BY <1>1, <1>2, <2>1, <2>2, <2>3 DEF Shapes
<1>4. \A r \in Requests : RouteOK(r) /\ ~Holds(r)
  BY <1>1 DEF RouteOK, Holds, HoldsAt, HoldPoints
<1>5. OneHolder /\ QueueOK
  BY <1>1, <1>4, EmptySeq DEF OneHolder, QueueOK
<1> QED
  BY <1>1, <1>3, <1>4, <1>5 DEF IInv, RecordOK, WorkOK, TitleOK

LEMMA StepOK == IInv /\ [Next]_vars => IInv'
<1> SUFFICES ASSUME IInv, [Next]_vars PROVE IInv'
  OBVIOUS
<1>1. CASE Serve
  BY <1>1, ReadKeeps, WriteKeeps, WriteFailsKeeps DEF Serve
<1>2. ASSUME NEW r \in Requests, Arrive(r) \/ Proceed(r) PROVE IInv'
  BY <1>2, ArriveKeeps, DispatchedKeeps, PreparationFailsKeeps, ReconcileKeeps, AgentAcceptsKeeps,
     AgentRefusesKeeps DEF Proceed
<1>3. CASE Work
  BY <1>3, RunEndsKeeps, AgentStartsKeeps, AgentEndsKeeps DEF Work
<1>4. CASE Rename \/ Crash \/ Recover
  BY <1>4, RenameKeeps, CrashKeeps, RecoverKeeps
<1>5. CASE UNCHANGED vars
  <2>1. UNCHANGED <<up, file, tail, route, known, agent, speaking, executed, ended, questions, crashes, errors, renames>>
    BY <1>5 DEF vars, history, counts
  <2>2. Acts(None)
    BY <2>1 DEF Acts
  <2>3. QueueOK'
    BY <2>1, <2>2, QueueStays
  <2>4. Shapes' /\ WorkOK'
    BY <2>1 DEF IInv, Shapes, WorkOK
  <2> QED
    BY <2>2, <2>3, <2>4, ActsKeep
<1> QED
  BY <1>1, <1>2, <1>3, <1>4, <1>5 DEF Next

LEMMA Invariance == Spec => []IInv
BY InitOK, StepOK, PTL DEF Spec

-----------------------------------------------------------------------------
(* The invariants that are checked.                                        *)

\* The state is well-typed, and every record that is written is one that the next read accepts
\* (validateRequest, validateState), whatever fails or dies in between.
THEOREM TypeCorrect == Spec => []TypeOK
<1>1. IInv => TypeOK
  <2> SUFFICES ASSUME IInv PROVE TypeOK
    OBVIOUS
  <2>1. ASSUME NEW i \in DOMAIN tail
        PROVE  tail[i].by \in Requests \cup {None} /\ tail[i].name \in StoreCalls /\ tail[i].read \in State \cup {None}
    <3>1. tail[i] \in CallShape
      BY LenProperties, ElementOfSeq DEF IInv, Shapes
    <3> QED
      BY <3>1 DEF CallShape
  <2>2. \A r \in Requests : route[r].pc \in Points
    BY DEF IInv, Shapes, NewRoute, BusyRoute, Points
  <2>3. \A o \in Ops : file.req[o] # None => ValidRequest(file.req[o])
    BY DEF IInv, RecordOK
  <2> QED
    BY <2>1, <2>2, <2>3 DEF TypeOK, IInv, Shapes
<1> QED
  BY <1>1, Invariance, PTL

\* Whatever was sent under an operation id in the meantime, what is executed for it is what was
\* first accepted (acceptRequest, claimSubmission, claimChatCommand).
THEOREM ExecutesAccepted == Spec => []ExecutesWhatWasAccepted
<1>1. IInv => ExecutesWhatWasAccepted
  BY DEF IInv, RecordOK, ExecutesWhatWasAccepted
<1> QED
  BY <1>1, Invariance, PTL

\* A record says "not started" only of what has not been executed, and gives as the outcome what the
\* Workflow or the agent has reported (markNotStarted, completeWorkflowRequest, completeSubmission).
THEOREM VerdictsStayTrue == Spec => []VerdictsAreTrue
<1>1. IInv => VerdictsAreTrue
  <2> SUFFICES ASSUME IInv, NEW o \in Ops
               PROVE  /\ Life(o) = "not_started" => executed[o] = {}
                      /\ Life(o) \in {"completed", "cancelled"} => \E r \in executed[o] : ended[r] = Life(o)
                      /\ Life(o) = "failed" => \A r \in executed[o] : ended[r] = "failed"
                      /\ Life(o) = "started" => executed[o] # {}
    BY DEF VerdictsAreTrue
  <2>1. RecordOK(o)
    BY DEF IInv
  <2>2. CASE file.req[o] = None
    BY <2>2 DEF Life
  <2>3. CASE file.req[o] # None
    BY <2>1, <2>3 DEF Life, RecordOK
  <2> QED
    BY <2>2, <2>3
<1> QED
  BY <1>1, Invariance, PTL

-----------------------------------------------------------------------------
(* What a step may do to the file and to what has been executed.           *)

LEMMA WriteServes ==
  ASSUME IInv, NEW i \in DOMAIN tail, Write(i) \/ WriteFails(i)
  PROVE  UNCHANGED executed /\ \E c \in CallShape : Serving(c) /\ Served(c, file')
<1> SUFFICES ASSUME NEW z, z = tail PROVE UNCHANGED executed /\ \E c \in CallShape : Serving(c) /\ Served(c, file')
  OBVIOUS
<1> DEFINE c == z[1]
           a == Result(c)
<1>1. i = 1 /\ Serving(c) /\ c.read = file /\ c \in CallShape
  BY Leads DEF Write, WriteFails, Serving
<1>2. Served(c, a.state)
  BY <1>1, ResultGoes
<1>3. Served(c, file)
  BY SameFile DEF IInv, Shapes, TitleOK, TitleAt
<1>4. file' \in {file, a.state} /\ UNCHANGED executed
  BY <1>1 DEF Write, WriteFails, history
<1> HIDE DEF a
<1> QED
  BY <1>1, <1>2, <1>3, <1>4

LEMMA WhatChanges ==
  ASSUME IInv, [Next]_vars
  PROVE  \/ UNCHANGED executed /\ \E c \in CallShape : Serving(c) /\ Served(c, file')
         \/ UNCHANGED <<file, executed>>
         \/ /\ UNCHANGED file
            /\ \E r \in Requests : /\ Holds(r) /\ route[r].pc # "new"
                                   /\ executed' = [executed EXCEPT ![route[r].op] = executed[route[r].op] \cup {r}]
         \/ Recover
<1>1. CASE Serve
  <2>1. PICK i \in DOMAIN tail : Read(i) \/ Write(i) \/ WriteFails(i)
    BY <1>1 DEF Serve
  <2>2. CASE Read(i)
    BY <2>2 DEF Read, history
  <2> QED
    BY <2>1, <2>2, WriteServes
<1>2. ASSUME NEW r \in Requests, NEW answer \in Answers, Dispatched(r, answer)
      PROVE  \/ UNCHANGED <<file, executed>>
             \/ /\ UNCHANGED file /\ Holds(r) /\ route[r].pc # "new"
                /\ executed' = [executed EXCEPT ![route[r].op] = executed[route[r].op] \cup {r}]
  BY <1>2 DEF Dispatched, Holds, HoldsAt, HoldPoints
<1>3. ASSUME NEW r \in Requests, AgentAccepts(r)
      PROVE  /\ UNCHANGED file /\ Holds(r) /\ route[r].pc # "new"
             /\ executed' = [executed EXCEPT ![route[r].op] = executed[route[r].op] \cup {r}]
  BY <1>3 DEF AgentAccepts, Holds, HoldsAt, HoldPoints
<1>4. ASSUME NEW r \in Requests,
             \/ Arrive(r) \/ Reconcile(r) \/ AgentRefuses(r)
             \/ \E mark \in {"markPreparationCancelled", "markDispatchFailed"} : PreparationFails(r, mark)
      PROVE  UNCHANGED <<file, executed>>
  BY <1>4 DEF Arrive, Reconcile, AgentRefuses, PreparationFails, history
<1>5. CASE Work
  BY <1>5 DEF Work, RunEnds, AgentStarts, AgentEnds, history
<1>6. CASE Rename \/ Crash
  BY <1>6 DEF Rename, Crash, history
<1>7. CASE UNCHANGED vars
  BY <1>7 DEF vars, history
<1> QED
  BY <1>1, <1>2, <1>3, <1>4, <1>5, <1>6, <1>7 DEF Next, Proceed

LEMMA StrengthValues ==
  /\ Strength("DEFAULT") = 1 /\ Strength("FIRST_MESSAGE") = 2
  /\ Strength("WORKFLOW") = 3 /\ Strength("USER") = 4
<1>1. /\ DOMAIN Sources = 1..4 /\ Sources[1] = "DEFAULT" /\ Sources[2] = "FIRST_MESSAGE"
      /\ Sources[3] = "WORKFLOW" /\ Sources[4] = "USER"
  BY DEF Sources
<1>2. \A i \in DOMAIN Sources : i = 1 \/ i = 2 \/ i = 3 \/ i = 4
  BY <1>1
<1> QED
  BY <1>1, <1>2 DEF Strength

\* Who renames, accepts or starts a Workflow meanwhile may be lost, but never replaces a title that
\* is stronger than his own (acceptRequest, markWorkflowStarted, renameConversation).
THEOREM TitlesGiveWay == Spec => TitleGivesWay
<1>1. ASSUME IInv, [Next]_vars, file'.title # file.title
      PROVE  Strength(file'.title.source) > Strength(file.title.source)
  <2>1. CASE \E c \in CallShape : Serving(c) /\ Served(c, file')
    <3>1. Stronger(file.title, file'.title) /\ file \in State /\ file' \in State
      BY <1>1, <2>1 DEF Served, IInv, Shapes
    <3>2. file.title.source \in {"DEFAULT", "FIRST_MESSAGE", "WORKFLOW", "USER"}
      BY <3>1, TitleSet DEF State
    <3> QED
      BY <3>1, <3>2, StrengthValues DEF Stronger
  <2>2. CASE Recover
    BY <1>1, <2>2 DEF Recover, IInv, Shapes, State
  <2> QED
    BY <1>1, <2>1, <2>2, WhatChanges
<1>2. IInv /\ [Next]_vars => [file'.title # file.title => Strength(file'.title.source) > Strength(file.title.source)]_vars
  BY <1>1
<1> QED
  BY <1>2, Invariance, PTL DEF Spec, TitleGivesWay

-----------------------------------------------------------------------------
(* The conversation implements the ledger.                                 *)

Phase(q) ==
    IF q = None THEN "none"
    ELSE IF q.life \in Open THEN "open"
    ELSE IF q.life \in {"submitting", "started"} THEN "taken"
    ELSE "over"

LEMMA StatusIsPhase ==
  ASSUME Shapes, NEW o \in Ops
  PROVE  LedgerStatus(o) = Phase(file.req[o])
<1>1. CASE file.req[o] = None
  BY <1>1 DEF LedgerStatus, Life, Phase
<1>2. CASE file.req[o] # None
  BY <1>2, RecordShape DEF LedgerStatus, Life, Phase, Open, Record, Lifecycles, Terminal
<1> QED
  BY <1>1, <1>2

\* A change of a record is a move of the ledger, or none.
LEMMA ChangeMoves ==
  ASSUME NEW o \in Ops, NEW q \in Record \cup {None}, NEW p, Change(o, q, p)
  PROVE  \/ Phase(p) = Phase(q)
         \/ Phase(q) = "none" /\ Phase(p) = "open"
         \/ Phase(q) = "open" /\ Phase(p) = "taken"
         \/ Phase(q) = "taken" /\ Phase(p) = "open" /\ executed[o] = {}
         \/ Phase(q) = "taken" /\ Phase(p) = "over"
<1>1. p # None /\ p \in Record
  BY NoneAssumption DEF Change
<1>2. CASE q = None
  BY <1>1, <1>2 DEF Change, Phase, Open
<1>3. CASE q # None
  BY <1>1, <1>3 DEF Change, Phase, Open
<1> QED
  BY <1>2, <1>3

\* The same of the next state.
LEMMA NextStatusIsPhase ==
  ASSUME Shapes', NEW o \in Ops
  PROVE  LedgerStatus(o)' = Phase(file'.req[o])
<1>1. file'.req[o] \in Record \cup {None}
  BY DEF Shapes, State
<1>2. CASE file'.req[o] = None
  BY <1>2 DEF LedgerStatus, Life, Phase
<1>3. CASE file'.req[o] # None
  BY <1>1, <1>3 DEF LedgerStatus, Life, Phase, Open, Record, Lifecycles, Terminal
<1> QED
  BY <1>2, <1>3

LEMMA LedgerStep ==
  ASSUME IInv, IInv', [Next]_vars
  PROVE  [Ledger!Next]_(Ledger!vars)
<1> SUFFICES ASSUME NEW before, before = [o \in Ops |-> LedgerStatus(o)],
                    NEW after, after = [o \in Ops |-> LedgerStatus(o)'],
                    NEW counted, counted = [o \in Ops |-> Cardinality(executed[o])],
                    NEW recounted, recounted = [o \in Ops |-> Cardinality(executed'[o])]
             PROVE  [Ledger!Next]_(Ledger!vars)
  OBVIOUS
<1>1. \A o \in Ops : before[o] = Phase(file.req[o]) /\ after[o] = Phase(file'.req[o])
  BY StatusIsPhase, NextStatusIsPhase DEF IInv
<1>2. \A o \in Ops : file.req[o] \in Record \cup {None}
  BY DEF IInv, Shapes, State
<1>3. CASE after = before /\ recounted = counted
  BY <1>3 DEF Ledger!vars
<1>4. ASSUME NEW o \in Ops, recounted = counted,
             \/ before[o] = "none" /\ after = [before EXCEPT ![o] = "open"]
             \/ before[o] = "open" /\ after = [before EXCEPT ![o] = "taken"]
             \/ before[o] = "taken" /\ counted[o] = 0 /\ after = [before EXCEPT ![o] = "open"]
             \/ before[o] = "taken" /\ after = [before EXCEPT ![o] = "over"]
      PROVE  Ledger!Next
  BY <1>4 DEF Ledger!Next, Ledger!Accept, Ledger!Take, Ledger!Return, Ledger!Settle, Ledger!Move
<1>5. CASE UNCHANGED executed /\ \E c \in CallShape : Serving(c) /\ Served(c, file')
  <2>1. PICK c \in CallShape : Serving(c) /\ Served(c, file')
    BY <1>5
  <2>2. recounted = counted
    BY <1>5
  <2>3. CASE \A o \in Ops : file'.req[o] = file.req[o]
    <3>1. after = before
      BY <1>1, <2>3
    <3> QED
      BY <1>3, <2>2, <3>1
  <2>4. CASE ~(\A o \in Ops : file'.req[o] = file.req[o])
    <3>1. PICK o \in Ops : file'.req[o] # file.req[o]
      BY <2>4
    <3>2. Change(o, file.req[o], file'.req[o]) /\ \A x \in Ops \ {o} : file'.req[x] = file.req[x]
      BY <2>1, <3>1 DEF Served
    <3>3. after = [before EXCEPT ![o] = Phase(file'.req[o])]
      BY <1>1, <3>2
    <3>4. executed[o] = {} => counted[o] = 0
      BY FS_EmptySet
    <3>5. \/ Phase(file'.req[o]) = Phase(file.req[o])
          \/ Phase(file.req[o]) = "none" /\ Phase(file'.req[o]) = "open"
          \/ Phase(file.req[o]) = "open" /\ Phase(file'.req[o]) = "taken"
          \/ Phase(file.req[o]) = "taken" /\ Phase(file'.req[o]) = "open" /\ executed[o] = {}
          \/ Phase(file.req[o]) = "taken" /\ Phase(file'.req[o]) = "over"
      BY <1>2, <3>2, ChangeMoves
    <3>6. CASE Phase(file'.req[o]) = Phase(file.req[o])
      <4>1. after = before
        BY <1>1, <3>3, <3>6
      <4> QED
        BY <1>3, <2>2, <4>1
    <3> QED
      BY <1>1, <1>4, <2>2, <3>3, <3>4, <3>5, <3>6
  <2> QED
    BY <2>3, <2>4
<1>6. CASE UNCHANGED <<file, executed>>
  <2>1. after = before /\ recounted = counted
    BY <1>1, <1>6
  <2> QED
    BY <1>3, <2>1
<1>7. ASSUME UNCHANGED file, NEW r \in Requests, Holds(r), route[r].pc # "new",
             executed' = [executed EXCEPT ![route[r].op] = executed[route[r].op] \cup {r}]
      PROVE  Ledger!Next
  <2> SUFFICES ASSUME NEW o, o = route[r].op PROVE Ledger!Next
    OBVIOUS
  <2>1. o \in Ops /\ file.req[o] # None /\ file.req[o].life = "submitting" /\ executed[o] = {}
        /\ executed \in [Ops -> SUBSET Requests]
    BY <1>7, BusyShape DEF IInv, Shapes, RouteOK, RouteAt, Holds
  <2>2. executed'[o] = {r} /\ \A x \in Ops \ {o} : executed'[x] = executed[x]
    BY <1>7, <2>1
  <2>3. counted[o] = 0 /\ recounted = [counted EXCEPT ![o] = 1]
    <3>1. counted[o] = 0
      BY <2>1, FS_EmptySet
    <3>2. Cardinality({r}) = 1
      BY FS_Singleton
    <3>3. recounted[o] = Cardinality(executed'[o])
      BY <2>1
    <3>4. recounted[o] = 1
      BY <2>2, <3>2, <3>3
    <3>5. \A x \in Ops \ {o} : recounted[x] = counted[x]
      BY <2>2
    <3> QED
      BY <2>1, <3>1, <3>4, <3>5
  <2>4. before[o] = "taken" /\ after = before
    BY <1>1, <1>7, <2>1 DEF Phase, Open
  <2>5. Ledger!Execute(o)
    BY <2>3, <2>4 DEF Ledger!Execute
  <2> QED
    BY <2>1, <2>5 DEF Ledger!Next
<1>8. CASE Recover
  <2>1. recounted = counted /\ \A o \in Ops : file'.req[o] = Interrupted(file.req[o])
    BY <1>8 DEF Recover, history, IInv, Shapes, State
  <2>2. ASSUME NEW o \in Ops PROVE after[o] = IF before[o] = "taken" THEN "over" ELSE before[o]
    <3>1. CASE file.req[o] = None
      BY <1>1, <2>1, <3>1 DEF Interrupted, Phase
    <3>2. CASE file.req[o] # None
      <4>1. /\ Interrupted(file.req[o]) # None
            /\ Interrupted(file.req[o]).life = IF file.req[o].life \in {"submitting", "started"} THEN "interrupted"
                                               ELSE file.req[o].life
        BY <1>2, <3>2, InterruptedRecord, NoneAssumption DEF IInv, RecordOK
      <4> QED
        BY <1>1, <2>1, <3>2, <4>1 DEF Phase, Open
    <3> QED
      BY <3>1, <3>2
  <2>3. after = [o \in Ops |-> IF before[o] = "taken" THEN "over" ELSE before[o]]
    BY <2>2
  <2> QED
    BY <2>1, <2>3 DEF Ledger!Next, Ledger!Abandon
<1> QED
  BY <1>5, <1>6, <1>7, <1>8, WhatChanges

\* One caller at a time works on a request, it is executed at most once, what has been executed is
\* never offered again and what is over stays over, with retries, failed writes and restarts
\* (claimSubmission, claimClarification, claimChatCommand, recoverInterruptedDispatches).
THEOREM LedgerKept == Spec => KeepsLedger
<1>1. Init => Ledger!Init
  <2> SUFFICES ASSUME Init PROVE Ledger!Init
    OBVIOUS
  <2>1. \A o \in Ops : LedgerStatus(o) = "none" /\ Cardinality(executed[o]) = 0
    BY FS_EmptySet DEF Init, LedgerStatus, Life
  <2> QED
    BY <2>1 DEF Ledger!Init
<1>2. IInv /\ IInv' /\ [Next]_vars => [Ledger!Next]_(Ledger!vars)
  BY LedgerStep
<1> QED
  BY <1>1, <1>2, Invariance, PTL DEF Spec, KeepsLedger, Ledger!Spec

-----------------------------------------------------------------------------
(* The mark of a failed dispatch.                                          *)

\* An HTTP request that waits for the store goes on when its call is answered, fails or is lost.
LEMMA OnlyAnswersMove ==
  ASSUME IInv, [Next]_vars, NEW r \in Requests, route[r].pc = "markDispatchFailed",
         route'[r] # route[r], up', errors' = errors
  PROVE  tail # <<>> /\ tail[1].by = r /\ Write(1)
<1>1. route \in [Requests -> NewRoute \cup BusyRoute] /\ errors \in Nat
  BY ConversationAssumption DEF IInv, Shapes
<1>2. ASSUME NEW x \in Requests, Arrive(x) \/ Proceed(x) PROVE FALSE
  <2>1. \E p \in Points : route[x].pc = p /\ p # "markDispatchFailed"
    BY <1>2 DEF Arrive, Proceed, Dispatched, PreparationFails, Reconcile, AgentAccepts, AgentRefuses, Points
  <2>2. x # r
    BY <2>1
  <2>3. route'[r] = route[r]
    BY <1>1, <1>2, <2>2
    DEF Arrive, Proceed, Dispatched, PreparationFails, Reconcile, AgentAccepts, AgentRefuses, Ask
  <2> QED
    BY <2>3
<1>3. ~Crash
  BY DEF Crash
<1>4. ~(Rename \/ Recover \/ Work \/ UNCHANGED vars)
  BY DEF Rename, Recover, Work, RunEnds, AgentStarts, AgentEnds, vars
<1>5. Serve
  BY <1>2, <1>3, <1>4 DEF Next
<1>6. PICK i \in DOMAIN tail : Read(i) \/ Write(i) \/ WriteFails(i)
  BY <1>5 DEF Serve
<1>7. ~Read(i)
  BY DEF Read
<1>8. ~WriteFails(i)
  <2>1. WriteFails(i) => errors' = errors + 1
    BY DEF WriteFails
  <2> QED
    BY <1>1, <2>1
<1>9. Write(i) /\ i = 1 /\ tail # <<>>
  BY <1>6, <1>7, <1>8, Leads DEF Write
<1>10. tail[1].by = r
  BY <1>1, <1>9 DEF Write, Answered
<1> QED
  BY <1>9, <1>10

\* "Dispatch failure before a confirmed Workflow start stays a dispatch failure" (RHL-UX-003), where
\* the code keeps it: the store records the failure whenever it is asked to, unless the client had
\* chosen the Workflow with its text.  Of the others, a record says `workflow` only when its Workflow
\* has been executed, so validateRequest accepts the failed record (markDispatchFailed).
FailureIsRecordedUnlessChosen ==
    [][\A r \in Requests :
         /\ route[r].pc = "markDispatchFailed" /\ route'[r].pc # "markDispatchFailed"
         /\ up' /\ errors' = errors /\ ~file.req[route[r].op].picked
         => file'.req[route[r].op].life = "failed"]_vars

LEMMA FailedRecord ==
  ASSUME NEW q \in Record, ValidRequest(q), q.life = "submitting", q.kind # "workflow"
  PROVE  ValidRequest([q EXCEPT !.life = "failed"])
<1> DEFINE p == [q EXCEPT !.life = "failed"]
<1>1. p.life = "failed" /\ p.kind = q.kind /\ p.run = q.run
  BY DEF Record
<1> HIDE DEF p
<1>2. ValidRequest(p)
  BY <1>1 DEF ValidRequest
<1> QED
  BY <1>2 DEF p

LEMMA FailureStep ==
  ASSUME IInv, [Next]_vars, NEW r \in Requests, route[r].pc = "markDispatchFailed",
         route'[r].pc # "markDispatchFailed", up', errors' = errors, ~file.req[route[r].op].picked
  PROVE  file'.req[route[r].op].life = "failed"
<1>1. tail # <<>> /\ tail[1].by = r /\ Write(1)
  BY OnlyAnswersMove
<1> SUFFICES ASSUME NEW c, c = tail[1] PROVE file'.req[route[r].op].life = "failed"
  OBVIOUS
<1>2. 1 \in DOMAIN tail
  BY <1>1 DEF IInv, Shapes
<1>3. Serving(c) /\ c.read = file /\ c.by = r /\ c.by # None
  BY <1>1, <1>2, Leads, ConversationAssumption DEF Write, Serving
<1>4. c.name = "markDispatchFailed" /\ c.op = route[r].op
  BY <1>3 DEF Serving, CallOK
<1> DEFINE q == file.req[c.op]
           p == [q EXCEPT !.life = "failed"]
<1>5. /\ c.op \in Ops /\ file \in State /\ RecordOK(c.op)
      /\ RouteAt(c.by, c.name, route[c.by].run, q)
      /\ q # None /\ q \in Record /\ ValidRequest(q)
  BY <1>3, <1>4, WorkerFacts DEF HoldPoints
<1>6. q.life = "submitting" /\ executed[c.op] = {}
  BY <1>3, <1>4, <1>5 DEF RouteAt, HoldsAt, HoldPoints
<1>7. q.kind # "workflow"
  BY <1>4, <1>5, <1>6 DEF RecordOK
<1>8. ValidRequest(p)
  BY <1>5, <1>6, <1>7, FailedRecord
<1>9. p \in Record /\ p.life = "failed"
  BY <1>5 DEF Record, Lifecycles, Terminal
<1>10. Result(c) = Answer(With(file, c, p), "done")
  BY <1>3, <1>4, <1>6, <1>8 DEF Result, MarkDispatchFailed
<1>11. file' = IF With(file, c, p) = file THEN file ELSE With(file, c, p)
  BY <1>1, <1>3, <1>10 DEF Write, Answer
<1> HIDE DEF p
<1>12. file'.req[c.op] = p
  BY <1>5, <1>9, <1>11, WithRecord
<1> QED
  BY <1>4, <1>9, <1>12

\* The failure of a dispatch is recorded unless the client had chosen the Workflow: the exception the
\* run conversation_failed shows is the only one (markDispatchFailed, validateRequest).
THEOREM FailuresAreRecorded == Spec => FailureIsRecordedUnlessChosen
<1>1. IInv /\ [Next]_vars =>
        [\A r \in Requests :
           /\ route[r].pc = "markDispatchFailed" /\ route'[r].pc # "markDispatchFailed"
           /\ up' /\ errors' = errors /\ ~file.req[route[r].op].picked
           => file'.req[route[r].op].life = "failed"]_vars
  BY FailureStep
<1> QED
  BY <1>1, Invariance, PTL DEF Spec, FailureIsRecordedUnlessChosen

=============================================================================
