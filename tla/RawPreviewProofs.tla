---------------------------- MODULE RawPreviewProofs ----------------------------
(***************************************************************************)
(* What the preview workflow and the acceptance of its candidates say is   *)
(* true, for every number of attempts, runs, units and acceptance calls.   *)
(*                                                                         *)
(* The argument: every step lets the root grow (Grows), but for previews   *)
(* that the switch of an earlier copy drops, because only a preview can be *)
(* put into the root while a copy is made, and a copy has none but the     *)
(* root's (CopyOK).  What an attempt or an acceptance relies on is not     *)
(* disturbed by growth (AttemptKeeps, AcceptKeeps), so each action has to  *)
(* re-establish it for its own caller only.                                *)
(***************************************************************************)
EXTENDS RawPreview, FiniteSetTheorems, TLAPS

-----------------------------------------------------------------------------
(* The shapes of the callers' records.                                     *)

Statuses == {"blocked", "cancelled", "source_only", "preview_partial", "preview_ready"}
SourceStates == {"not_started", "blocked", "failed", "verified", "unknown"}
PreviewStates == {"not_attempted", "failed", "committable", "unknown"}

FlowActive == [pc : Running, run : Runs, handle : Nat, tries : Nat, at : Nat,
               content : Content \cup {None}, seen : Nat, found : Content \cup {None}]
FlowOver == [pc : {"over"}, run : Runs, handle : Nat, content : Content \cup {None},
             status : Statuses, source : SourceStates, preview : PreviewStates]
FlowShape == [pc : {"idle"}] \cup FlowActive \cup FlowOver

SubmitEarly == [pc : {"idle", "admit"}]
SubmitActive == [pc : {"archive", "plan", "write", "switching", "confirm"}, revision : Nat]
SubmitRefused == [pc : {"settled"}, outcome : {"failed", "blocked"}]
SubmitGranted == [pc : {"settled"}, outcome : {"ok", "same"}, base : Int, at : Nat]
SubmitShape == SubmitEarly \cup SubmitActive \cup SubmitRefused \cup SubmitGranted

PersistEarly == [pc : {"idle", "begin"}]
PersistActive == [pc : {"look", "link", "read"}, seen : Nat]
PersistFinal == [pc : {"final"}, seen : Nat, found : Content]
PersistSettled == [pc : {"settled"}, outcome : {"ok", "failed"}]
PersistShape == PersistEarly \cup PersistActive \cup PersistFinal \cup PersistSettled

AcceptPoints == {"mount", "verify", "refresh", "prior", "resolve", "recheck", "write", "switching",
                 "committed"}
Replies == {"accepted", "blocked", "failed", "stale"}
AcceptActive == [pc : AcceptPoints, run : Runs, unit : Picked, handle : Nat,
                 content : Content \cup {None}, prior : BOOLEAN]
AcceptOver == [pc : {"over"}, run : Runs, unit : Picked, content : Content \cup {None}, reply : Replies]
AcceptShape == [pc : {"idle"}] \cup AcceptActive \cup AcceptOver

Shapes ==
    /\ flow \in [Attempts -> FlowShape]
    /\ submit \in [Attempts -> SubmitShape]
    /\ persist \in [Attempts -> PersistShape]
    /\ accept \in [Acceptors -> AcceptShape]
    /\ did \in [Attempts -> SUBSET {"source", "preview"}]

Staging == [by : Attempts \cup Acceptors, away : BOOLEAN, tree : Tree]

-----------------------------------------------------------------------------
(* The root and the copy that is to take its place.                        *)

TreeOK(t) ==
    /\ t \in Tree
    /\ t.source <=> (\E r \in Runs : t.logs[r] # None)
    /\ t.source => t.raw
    /\ \A r, s \in Runs : t.logs[r] # None /\ t.logs[s] # None => r = s
    /\ \A u \in Units : t.entities[u] \in Selection =>
          t.entities[u].unit = u /\ u \in t.entities[u].content.units
    /\ \A s \in t.taken : t.entities[s.unit] = s

\* The tree new is at least what the tree old is.
Ahead(old, new) ==
    /\ old.revision <= new.revision
    /\ old.revision = new.revision => new.source = old.source /\ new.entities = old.entities
    /\ old.source => new.source
    /\ old.raw => new.raw
    /\ \A u \in Units : old.entities[u] # None => new.entities[u] = old.entities[u]
    /\ old.taken \subseteq new.taken

RootOK ==
    /\ TreeOK(root)
    /\ lost \subseteq Runs
    /\ staging \in Staging \cup {None}
    /\ staging # None => /\ TreeOK(staging.tree) /\ Ahead(root, staging.tree)
                         /\ staging.tree.revision = root.revision + 1

Grows ==
    /\ Ahead(root, root')
    /\ lost \subseteq lost'
    /\ \A r \in Runs : root.previews[r] # None => root'.previews[r] = root.previews[r] \/ r \in lost'

Mine(owner) == staging # None /\ staging.by = owner

-----------------------------------------------------------------------------
(* What an attempt relies on.                                              *)

\* Which calls an attempt can have made, and what they can have done.
CallsOK(a) ==
    /\ flow[a].pc \in {"idle", "acquire"} => submit[a].pc = "idle"
    /\ flow[a].pc = "verify" => submit[a] \in SubmitGranted
    /\ flow[a].pc \notin {"persist", "readback", "check", "over"} => persist[a].pc = "idle"
    /\ persist[a].pc # "idle" => flow[a].content \in Content
    /\ flow[a].pc \in {"persist", "readback", "check"} => flow[a].content \in Content
    /\ flow[a].pc = "over" =>
         /\ flow[a].source = "not_started" => submit[a].pc = "idle"
         /\ flow[a].source = "blocked" => submit[a].pc = "settled" /\ submit[a].outcome = "blocked"
         /\ flow[a].preview = "not_attempted" => persist[a].pc = "idle"

DoneOK(a) ==
    /\ persist[a].pc = "idle" => "preview" \notin did[a]
    /\ \/ submit[a].pc \in {"idle", "admit", "archive", "plan", "write"}
       \/ submit[a].pc = "settled" /\ submit[a].outcome = "blocked"
       => "source" \notin did[a]
    /\ Mine(a) => submit[a].pc = "switching"

\* What the gateway has seen of the root.
SourceOK(a) ==
    /\ submit[a].pc \in {"plan", "write", "switching", "confirm"} => root.raw
    /\ submit[a].pc \in {"archive", "plan", "write"} => submit[a].revision <= root.revision
    /\ submit[a].pc = "write" /\ submit[a].revision = root.revision => ~root.source

\* What the workflow has seen of its preview.
PreviewOK(a) ==
    /\ flow[a].pc = "check" /\ Ran(a) \notin lost => root.previews[Ran(a)] = flow[a].found
    /\ flow[a].pc = "check" => flow[a].found \in Content
    /\ flow[a].pc = "over" /\ flow[a].preview = "committable" =>
         /\ root.source /\ root.raw /\ flow[a].content \in Content
         /\ Ran(a) \notin lost => root.previews[Ran(a)] = flow[a].content
         /\ flow[a].status = "preview_ready" <=> flow[a].content.units = Units

AttemptOK(a) == CallsOK(a) /\ DoneOK(a) /\ SourceOK(a) /\ PreviewOK(a)

-----------------------------------------------------------------------------
(* What an acceptance relies on.                                           *)

AcceptOK(x) ==
    /\ accept[x].pc \in AcceptPoints => accept[x].handle <= root.revision
    /\ accept[x].pc \in AcceptPoints \ {"mount"} => accept[x].content \in Content
    /\ accept[x].pc \in AcceptPoints \ {"mount", "verify"} => accept[x].unit \in accept[x].content.units
    /\ accept[x].pc \in {"prior", "resolve"} /\ accept[x].prior => Chosen(x) \in root.taken
    /\ accept[x].pc \in {"recheck", "committed"} => Chosen(x) \in root.taken
    /\ accept[x].pc = "write" /\ accept[x].handle = root.revision => root.entities[accept[x].unit] = None
    /\ accept[x].pc = "over" /\ accept[x].reply = "accepted" => Chosen(x) \in root.taken
    /\ Mine(x) => accept[x].pc = "switching" /\ Chosen(x) \in staging.tree.taken

IInv == Shapes /\ RootOK /\ (\A a \in Attempts : AttemptOK(a)) /\ (\A x \in Acceptors : AcceptOK(x))
-----------------------------------------------------------------------------
(* The root only grows.                                                    *)

LEMMA AheadIsReflexive == ASSUME NEW t \in Tree PROVE Ahead(t, t)
BY DEF Ahead, Tree

LEMMA Untouched ==
  ASSUME RootOK, UNCHANGED <<root, staging, lost>>
  PROVE  RootOK' /\ Grows
<1>1. Ahead(root, root')
  BY AheadIsReflexive DEF RootOK, TreeOK
<1> QED
  BY <1>1 DEF RootOK, Grows

\* The copy that the Source, its log and the Raw are put in ...
LEMMA SourceTree ==
  ASSUME TreeOK(root), root.raw, ~root.source, NEW r \in Runs, NEW t,
         t = [[root EXCEPT !.source = TRUE, !.logs[r] = root.revision + 1] EXCEPT !.revision = root.revision + 1]
  PROVE  t \in Tree /\ TreeOK(t) /\ Ahead(root, t) /\ t.revision = root.revision + 1
<1> DEFINE logs == [root.logs EXCEPT ![r] = root.revision + 1]
<1>1. /\ root \in Tree /\ root.revision \in Nat /\ root.revision + 1 \in Nat
      /\ root.logs \in [Runs -> Nat \cup {None}] /\ logs \in [Runs -> Nat \cup {None}]
  BY DEF TreeOK, Tree
<1>2. /\ t.revision = root.revision + 1 /\ t.source = TRUE /\ t.logs = logs /\ t.raw = root.raw
      /\ t.entities = root.entities /\ t.taken = root.taken /\ t \in Tree
  BY <1>1 DEF Tree
<1>3. \A q \in Runs : logs[q] # None <=> q = r
  BY <1>1, NoneAssumption DEF TreeOK
<1> HIDE DEF logs
<1>6. t.source /\ t.raw /\ root.source = FALSE
  BY <1>1, <1>2 DEF Tree
<1>7. \A p, q \in Runs : t.logs[p] # None /\ t.logs[q] # None => p = q
  BY <1>2, <1>3
<1>8. \E q \in Runs : t.logs[q] # None
  BY <1>2, <1>3
<1>4. TreeOK(t)
  BY <1>2, <1>6, <1>7, <1>8 DEF TreeOK
<1>9. root.revision <= t.revision /\ root.revision # t.revision
  BY <1>1, <1>2
<1>10. /\ \A u \in Units : root.entities[u] # None => t.entities[u] = root.entities[u]
       /\ root.taken \subseteq t.taken
  BY <1>2
<1>5. Ahead(root, t)
  BY <1>6, <1>9, <1>10, Zenon DEF Ahead
<1> QED
  BY <1>2, <1>4, <1>5

\* ... or an Entity and the receipt of its selection.
LEMMA EntityTree ==
  ASSUME TreeOK(root), NEW sel \in Selection, sel.unit \in sel.content.units, root.entities[sel.unit] = None,
         NEW t, t = [[root EXCEPT !.entities[sel.unit] = sel, !.taken = @ \cup {sel}]
                       EXCEPT !.revision = root.revision + 1]
  PROVE  t \in Tree /\ TreeOK(t) /\ Ahead(root, t) /\ t.revision = root.revision + 1 /\ sel \in t.taken
<1> DEFINE entities == [root.entities EXCEPT ![sel.unit] = sel]
<1>1. /\ root \in Tree /\ root.revision \in Nat /\ root.revision + 1 \in Nat /\ sel.unit \in Units
      /\ root.entities \in [Units -> Owner] /\ entities \in [Units -> Owner]
      /\ root.taken \subseteq Selection /\ root.taken \cup {sel} \subseteq Selection
  BY DEF TreeOK, Tree, Selection, Owner
<1>2. /\ t.revision = root.revision + 1 /\ t.source = root.source /\ t.logs = root.logs /\ t.raw = root.raw
      /\ t.entities = entities /\ t.taken = root.taken \cup {sel} /\ t \in Tree
  BY <1>1 DEF Tree
<1>3. entities[sel.unit] = sel /\ \A u \in Units : u # sel.unit => entities[u] = root.entities[u]
  BY <1>1
<1> HIDE DEF entities
<1>4. \A s \in root.taken : s.unit # sel.unit
  BY <1>1, NoneAssumption DEF TreeOK
<1>5. \A s \in t.taken : t.entities[s.unit] = s
  BY <1>1, <1>2, <1>3, <1>4 DEF TreeOK, Selection
<1>6. \A u \in Units : t.entities[u] \in Selection =>
          t.entities[u].unit = u /\ u \in t.entities[u].content.units
  BY <1>1, <1>2, <1>3 DEF TreeOK
<1>7. TreeOK(t)
  BY <1>2, <1>5, <1>6 DEF TreeOK
<1>8. Ahead(root, t)
  BY <1>1, <1>2, <1>3 DEF Ahead
<1> QED
  BY <1>2, <1>7, <1>8

LEMMA StageGrows ==
  ASSUME RootOK, NEW owner \in Attempts \cup Acceptors, NEW change, Stage(owner, change), UNCHANGED <<root, lost>>,
         LET t == [change EXCEPT !.revision = root.revision + 1]
         IN  t \in Tree /\ TreeOK(t) /\ Ahead(root, t) /\ t.revision = root.revision + 1
  PROVE  RootOK' /\ Grows
<1> DEFINE t == [change EXCEPT !.revision = root.revision + 1]
<1>1. staging' = [by |-> owner, away |-> FALSE, tree |-> t]
  BY DEF Stage
<1>2. t \in Tree /\ TreeOK(t) /\ Ahead(root, t) /\ t.revision = root.revision + 1
  OBVIOUS
<1> HIDE DEF t
<1>3. Ahead(root, root')
  BY AheadIsReflexive DEF RootOK, TreeOK
<1>4. staging' \in Staging /\ staging'.tree = t
  BY <1>1, <1>2 DEF Staging
<1> QED
  BY <1>2, <1>3, <1>4 DEF RootOK, Grows

LEMMA MoveAsideGrows == RootOK /\ MoveAside => RootOK' /\ Grows
<1> SUFFICES ASSUME RootOK, MoveAside PROVE RootOK' /\ Grows
  OBVIOUS
<1>1. staging \in Staging /\ staging' = [staging EXCEPT !.away = TRUE] /\ UNCHANGED <<root, lost>>
  BY DEF RootOK, MoveAside
<1>2. staging' \in Staging /\ staging'.tree = staging.tree
  BY <1>1 DEF Staging
<1>3. Ahead(root, root')
  BY <1>1, AheadIsReflexive DEF RootOK, TreeOK
<1> QED
  BY <1>1, <1>2, <1>3 DEF RootOK, Grows, MoveAside

LEMMA MoveInGrows == RootOK /\ MoveIn => RootOK' /\ Grows
<1> SUFFICES ASSUME RootOK, MoveIn PROVE RootOK' /\ Grows
  OBVIOUS
<1>1. staging # None /\ root' = staging.tree /\ staging' = None
      /\ lost' = lost \cup {r \in Runs : root.previews[r] # staging.tree.previews[r]}
  BY DEF MoveIn, Away
<1> QED
  BY <1>1 DEF RootOK, Grows

LEMMA ArchiveGrows == ASSUME RootOK, NEW a \in Attempts, Archive(a) PROVE RootOK' /\ Grows
<1>1. staging = None /\ root' = [root EXCEPT !.raw = TRUE] /\ UNCHANGED <<staging, lost>> /\ root \in Tree
  BY DEF Archive, LockFree, RootOK, TreeOK
<1>2. /\ root' \in Tree /\ root'.raw = TRUE /\ root'.revision = root.revision /\ root'.source = root.source
      /\ root'.logs = root.logs /\ root'.previews = root.previews
      /\ root'.entities = root.entities /\ root'.taken = root.taken
  BY <1>1 DEF Tree
<1>3. root.revision \in Nat
  BY <1>1 DEF Tree
<1>4. Ahead(root, root')
  BY <1>2, <1>3 DEF Ahead
<1>5. TreeOK(root')
  BY <1>2 DEF RootOK, TreeOK
<1> QED
  BY <1>1, <1>2, <1>4, <1>5 DEF RootOK, Grows

LEMMA LinkGrows ==
  ASSUME RootOK, NEW a \in Attempts, Link(a), flow[a].run \in Runs, flow[a].content \in Content
  PROVE  RootOK' /\ Grows
<1>0. UNCHANGED <<staging, lost>>
  BY DEF Link
<1>1. CASE UNCHANGED root
  BY <1>0, <1>1, Untouched
<1>2. CASE MayLink(Ran(a)) /\ root' = [root EXCEPT !.previews[Ran(a)] = flow[a].content]
  <2>1. root \in Tree /\ root.previews \in [Runs -> Content \cup {None}] /\ Ran(a) \in Runs
        /\ root.revision \in Nat /\ root.previews[Ran(a)] = None
    BY <1>2 DEF RootOK, TreeOK, Tree, Ran, MayLink
  <2>2. [root.previews EXCEPT ![Ran(a)] = flow[a].content] \in [Runs -> Content \cup {None}]
    BY <2>1
  <2>3. /\ root' \in Tree /\ root'.raw = root.raw /\ root'.revision = root.revision /\ root'.source = root.source
        /\ root'.logs = root.logs /\ root'.entities = root.entities /\ root'.taken = root.taken
        /\ root'.previews = [root.previews EXCEPT ![Ran(a)] = flow[a].content]
    BY <1>2, <2>1, <2>2 DEF Tree
  <2>4. \A r \in Runs : root.previews[r] # None => root'.previews[r] = root.previews[r]
    BY <2>1, <2>3
  <2>5. Ahead(root, root')
    BY <2>1, <2>3 DEF Ahead
  <2>6. TreeOK(root')
    BY <2>3 DEF RootOK, TreeOK
  <2>7. staging # None => Ahead(root', staging.tree)
    BY <2>3 DEF RootOK, Ahead
  <2> QED
    BY <1>0, <2>3, <2>4, <2>5, <2>6, <2>7 DEF RootOK, Grows
<1> QED
  BY <1>1, <1>2 DEF Link

-----------------------------------------------------------------------------
(* Growth disturbs nobody.                                                 *)

LEMMA AttemptKeeps ==
  ASSUME Shapes, RootOK, RootOK', Grows, NEW a \in Attempts, AttemptOK(a), Mine(a)' => Mine(a),
         flow'[a] = flow[a], submit'[a] = submit[a], persist'[a] = persist[a], did'[a] = did[a]
  PROVE  AttemptOK(a)'
<1>1. CallsOK(a)' /\ DoneOK(a)'
  BY DEF AttemptOK, CallsOK, DoneOK
<1>2. root.revision \in Nat /\ root'.revision \in Nat
  BY DEF RootOK, TreeOK, Tree
<1>3. SourceOK(a)'
  <2>1. submit[a].pc \in {"archive", "plan", "write"} => submit[a].revision \in Nat
    BY DEF Shapes, SubmitShape, SubmitEarly, SubmitActive, SubmitRefused, SubmitGranted
  <2> QED
    BY <1>2, <2>1 DEF AttemptOK, SourceOK, Grows, Ahead
<1>4. PreviewOK(a)'
  <2>1. flow[a].pc \in {"check", "over"} => Ran(a) \in Runs
    BY DEF Shapes, FlowShape, FlowActive, FlowOver, Ran
  <2> QED
    BY <2>1, NoneAssumption DEF AttemptOK, PreviewOK, Grows, Ahead, Ran
<1> QED
  BY <1>1, <1>3, <1>4 DEF AttemptOK

LEMMA AcceptKeeps ==
  ASSUME Shapes, RootOK, RootOK', Grows, NEW x \in Acceptors, AcceptOK(x), accept'[x] = accept[x],
         Mine(x)' => Mine(x) /\ staging'.tree = staging.tree
  PROVE  AcceptOK(x)'
<1>1. root.revision \in Nat /\ root'.revision \in Nat
  BY DEF RootOK, TreeOK, Tree
<1>2. accept[x].pc \in AcceptPoints => accept[x].handle \in Nat /\ accept[x].unit \in Units
  BY PreviewAssumption DEF Shapes, AcceptShape, AcceptActive, AcceptOver, AcceptPoints
<1>3. Chosen(x)' = Chosen(x)
  BY DEF Chosen
<1>4. accept[x].pc = "write" /\ accept[x].handle = root'.revision => root'.entities[accept[x].unit] = None
  BY <1>1, <1>2 DEF AcceptOK, Grows, Ahead, AcceptPoints
<1>5. accept[x].pc \in AcceptPoints => accept[x].handle <= root'.revision
  BY <1>1, <1>2 DEF AcceptOK, Grows, Ahead
<1>6. root.taken \subseteq root'.taken
  BY DEF Grows, Ahead
<1> QED
  BY <1>3, <1>4, <1>5, <1>6 DEF AcceptOK

\* A step of the attempt a ...
LEMMA AttemptActs ==
  ASSUME IInv, NEW a \in Attempts, Shapes', RootOK', Grows, AttemptOK(a)', accept' = accept,
         staging' = staging \/ staging'.by = a,
         \A b \in Attempts \ {a} : flow'[b] = flow[b] /\ submit'[b] = submit[b]
                                   /\ persist'[b] = persist[b] /\ did'[b] = did[b]
  PROVE  IInv'
<1>1. ASSUME NEW b \in Attempts \ {a} PROVE AttemptOK(b)'
  <2>1. Mine(b)' => Mine(b)
    BY DEF Mine
  <2> QED
    BY <2>1, AttemptKeeps DEF IInv
<1>2. ASSUME NEW x \in Acceptors PROVE AcceptOK(x)'
  <2>1. Mine(x)' => Mine(x) /\ staging'.tree = staging.tree
    BY PreviewAssumption DEF Mine
  <2> QED
    BY <2>1, AcceptKeeps DEF IInv
<1> QED
  BY <1>1, <1>2 DEF IInv

\* ... or of the acceptance x.
LEMMA AcceptorActs ==
  ASSUME IInv, NEW x \in Acceptors, Shapes', RootOK', Grows, AcceptOK(x)', UNCHANGED <<flow, submit, persist, did>>,
         staging' = staging \/ staging'.by = x,
         \A y \in Acceptors \ {x} : accept'[y] = accept[y]
  PROVE  IInv'
<1>1. ASSUME NEW b \in Attempts PROVE AttemptOK(b)'
  <2>1. Mine(b)' => Mine(b)
    BY PreviewAssumption DEF Mine
  <2> QED
    BY <2>1, AttemptKeeps DEF IInv
<1>2. ASSUME NEW y \in Acceptors \ {x} PROVE AcceptOK(y)'
  <2>1. Mine(y)' => Mine(y) /\ staging'.tree = staging.tree
    BY DEF Mine
  <2> QED
    BY <2>1, AcceptKeeps DEF IInv
<1> QED
  BY <1>1, <1>2 DEF IInv

-----------------------------------------------------------------------------
(* What is known of a record at each of its points.                        *)

LEMMA FlowAt ==
  ASSUME Shapes, NEW a \in Attempts
  PROVE  /\ flow[a] \in FlowShape
         /\ flow[a].pc \in Running => flow[a] \in FlowActive
         /\ flow[a].pc = "over" => flow[a] \in FlowOver
BY DEF Shapes, FlowShape, FlowActive, FlowOver, Running

LEMMA SubmitAtPoint ==
  ASSUME Shapes, NEW a \in Attempts
  PROVE  /\ submit[a] \in SubmitShape
         /\ submit[a].pc \in {"archive", "plan", "write", "switching", "confirm"} => submit[a] \in SubmitActive
         /\ submit[a].pc = "settled" /\ submit[a].outcome \in {"ok", "same"} => submit[a] \in SubmitGranted
         /\ submit[a].pc = "settled" /\ submit[a].outcome \notin {"ok", "same"} => submit[a] \in SubmitRefused
BY DEF Shapes, SubmitShape, SubmitEarly, SubmitActive, SubmitRefused, SubmitGranted

LEMMA PersistAtPoint ==
  ASSUME Shapes, NEW a \in Attempts
  PROVE  /\ persist[a] \in PersistShape
         /\ persist[a].pc \in {"look", "link", "read"} => persist[a] \in PersistActive
         /\ persist[a].pc = "final" => persist[a] \in PersistFinal
BY DEF Shapes, PersistShape, PersistEarly, PersistActive, PersistFinal, PersistSettled

LEMMA AcceptAtPoint ==
  ASSUME Shapes, NEW x \in Acceptors
  PROVE  /\ accept[x] \in AcceptShape
         /\ accept[x].pc \in AcceptPoints => accept[x] \in AcceptActive
         /\ accept[x].pc = "over" => accept[x] \in AcceptOver
BY DEF Shapes, AcceptShape, AcceptActive, AcceptOver, AcceptPoints

-----------------------------------------------------------------------------
(* Steps of the gateway call, of the store's call, of the workflow, of an  *)
(* acceptance, from what the caller's new record is.                       *)

LEMMA SubmitMoves ==
  ASSUME IInv, NEW a \in Attempts, NEW s \in SubmitShape, submit' = [submit EXCEPT ![a] = s],
         submit[a].pc \notin {"idle", "settled", "switching"}, s.pc # "idle",
         submit[a].pc = "confirm" => s.pc = "settled" /\ s.outcome # "blocked",
         UNCHANGED <<flow, persist, accept, did>>, RootOK', Grows, SourceOK(a)',
         staging' = staging \/ staging'.by = a, Mine(a)' => Mine(a) \/ s.pc = "switching"
  PROVE  IInv'
<1>1. submit'[a] = s /\ Shapes'
  BY DEF IInv, Shapes
<1>2. AttemptOK(a) /\ submit[a] \in SubmitShape
  BY SubmitAtPoint DEF IInv
<1>3. submit[a].pc \in {"admit", "archive", "plan", "write", "confirm"}
  BY <1>2 DEF SubmitShape, SubmitEarly, SubmitActive, SubmitRefused, SubmitGranted
<1>4. CallsOK(a)'
  <2>1. flow[a].pc # "verify"
    BY <1>2, <1>3 DEF AttemptOK, CallsOK, SubmitGranted
  <2> QED
    BY <1>1, <1>2, <1>3, <2>1 DEF AttemptOK, CallsOK
<1>5. DoneOK(a)'
  BY <1>1, <1>2, <1>3 DEF AttemptOK, DoneOK
<1>6. PreviewOK(a)'
  <2>1. flow[a].pc \in {"check", "over"} => Ran(a) \in Runs
    BY FlowAt DEF IInv, FlowActive, FlowOver, Ran, Running
  <2> QED
    BY <1>2, <2>1, NoneAssumption DEF AttemptOK, PreviewOK, Grows, Ahead, Ran
<1>7. \A b \in Attempts \ {a} : submit'[b] = submit[b]
  BY DEF IInv, Shapes
<1> QED
  BY <1>1, <1>4, <1>5, <1>6, <1>7, AttemptActs DEF AttemptOK

LEMMA PersistMoves ==
  ASSUME IInv, NEW a \in Attempts, NEW p \in PersistShape, persist' = [persist EXCEPT ![a] = p],
         persist[a].pc # "idle", p.pc # "idle", UNCHANGED <<flow, submit, accept, staging>>, RootOK', Grows,
         did' = did \/ did' = [did EXCEPT ![a] = @ \cup {"preview"}]
  PROVE  IInv'
<1>1. persist'[a] = p /\ Shapes'
  BY DEF IInv, Shapes
<1>2. AttemptOK(a)
  BY DEF IInv
<1>3. CallsOK(a)'
  BY <1>1, <1>2 DEF AttemptOK, CallsOK
<1>4. DoneOK(a)'
  <2>1. "source" \in did'[a] <=> "source" \in did[a]
    BY DEF IInv, Shapes
  <2> QED
    BY <1>1, <1>2, <2>1 DEF AttemptOK, DoneOK, Mine
<1>5. SourceOK(a)'
  <2>1. root.revision \in Nat /\ root'.revision \in Nat
    BY DEF IInv, RootOK, TreeOK, Tree
  <2>2. submit[a].pc \in {"archive", "plan", "write"} => submit[a].revision \in Nat
    BY SubmitAtPoint DEF IInv, SubmitActive
  <2> QED
    BY <1>2, <2>1, <2>2 DEF AttemptOK, SourceOK, Grows, Ahead
<1>6. PreviewOK(a)'
  <2>1. flow[a].pc \in {"check", "over"} => Ran(a) \in Runs
    BY FlowAt DEF IInv, FlowActive, FlowOver, Ran, Running
  <2> QED
    BY <1>2, <2>1, NoneAssumption DEF AttemptOK, PreviewOK, Grows, Ahead, Ran
<1>7. \A b \in Attempts \ {a} : persist'[b] = persist[b] /\ did'[b] = did[b]
  BY DEF IInv, Shapes
<1> QED
  BY <1>1, <1>3, <1>4, <1>5, <1>6, <1>7, AttemptActs DEF AttemptOK

LEMMA FlowMoves ==
  ASSUME IInv, NEW a \in Attempts, NEW f \in FlowShape, flow' = [flow EXCEPT ![a] = f],
         UNCHANGED <<root, staging, accept, lost, did>>,
         submit' = submit \/ (submit[a].pc = "idle" /\ submit' = [submit EXCEPT ![a].pc = "admit"]),
         persist' = persist \/ (persist[a].pc = "idle" /\ persist' = [persist EXCEPT ![a].pc = "begin"]),
         CallsOK(a)', PreviewOK(a)'
  PROVE  IInv'
<1>1. flow'[a] = f /\ flow' \in [Attempts -> FlowShape]
  BY DEF IInv, Shapes
<1>2. AttemptOK(a) /\ RootOK' /\ Grows /\ submit[a] \in SubmitShape /\ persist[a] \in PersistShape
  BY Untouched, SubmitAtPoint, PersistAtPoint DEF IInv
<1>3. submit[a].pc = "idle" => submit[a] \in SubmitEarly
  BY <1>2 DEF SubmitShape, SubmitEarly, SubmitActive, SubmitRefused, SubmitGranted
<1>4. submit' \in [Attempts -> SubmitShape]
  <2>1. submit[a].pc = "idle" => [submit[a] EXCEPT !.pc = "admit"] \in SubmitShape
    BY <1>3 DEF SubmitEarly, SubmitShape
  <2> QED
    BY <2>1 DEF IInv, Shapes
<1>5. persist[a].pc = "idle" => persist[a] \in PersistEarly
  BY <1>2 DEF PersistShape, PersistEarly, PersistActive, PersistFinal, PersistSettled
<1>6. persist' \in [Attempts -> PersistShape]
  <2>1. persist[a].pc = "idle" => [persist[a] EXCEPT !.pc = "begin"] \in PersistShape
    BY <1>5 DEF PersistEarly, PersistShape
  <2> QED
    BY <2>1 DEF IInv, Shapes
<1>7. Shapes'
  BY <1>1, <1>4, <1>6 DEF IInv, Shapes
<1>8. submit'[a] = submit[a] \/ (submit[a].pc = "idle" /\ submit'[a].pc = "admit")
  BY <1>2, <1>3 DEF IInv, Shapes, SubmitEarly
<1>9. persist'[a] = persist[a] \/ (persist[a].pc = "idle" /\ persist'[a].pc = "begin")
  BY <1>2, <1>5 DEF IInv, Shapes, PersistEarly
<1>10. DoneOK(a)'
  BY <1>2, <1>8, <1>9 DEF AttemptOK, DoneOK, Mine
<1>11. SourceOK(a)'
  BY <1>2, <1>8 DEF AttemptOK, SourceOK
<1>12. \A b \in Attempts \ {a} : flow'[b] = flow[b] /\ submit'[b] = submit[b] /\ persist'[b] = persist[b]
  BY DEF IInv, Shapes
<1> QED
  BY <1>2, <1>7, <1>10, <1>11, <1>12, AttemptActs DEF AttemptOK

\* The attempt ends with the result given.
LEMMA FlowEnds ==
  ASSUME IInv, NEW a \in Attempts, flow[a].pc \in Running, NEW status \in Statuses, NEW source \in SourceStates,
         NEW preview \in PreviewStates, Result(a, status, source, preview), UNCHANGED <<root, staging, calls, accept, lost, did>>,
         source = "not_started" => submit[a].pc = "idle",
         source = "blocked" => submit[a].pc = "settled" /\ submit[a].outcome = "blocked",
         preview = "not_attempted" => persist[a].pc = "idle",
         preview = "committable" =>
           /\ root.source /\ root.raw /\ flow[a].content \in Content
           /\ Ran(a) \notin lost => root.previews[Ran(a)] = flow[a].content
           /\ status = "preview_ready" <=> flow[a].content.units = Units
  PROVE  IInv'
<1> DEFINE f == [pc |-> "over", run |-> flow[a].run, handle |-> flow[a].handle, content |-> flow[a].content,
                 status |-> status, source |-> source, preview |-> preview]
<1>1. flow[a] \in FlowActive /\ flow \in [Attempts -> FlowShape] /\ AttemptOK(a)
  BY FlowAt DEF IInv, Shapes
<1>2. f \in FlowShape
  BY <1>1 DEF FlowActive, FlowOver, FlowShape
<1>3. flow' = [flow EXCEPT ![a] = f]
  BY <1>1 DEF Result
<1>4. /\ f.pc = "over" /\ f.run = flow[a].run /\ f.content = flow[a].content
      /\ f.status = status /\ f.source = source /\ f.preview = preview
  OBVIOUS
<1> HIDE DEF f
<1>5. flow'[a] = f
  BY <1>1, <1>3
<1>6. CallsOK(a)'
  BY <1>1, <1>4, <1>5 DEF AttemptOK, CallsOK, calls, Running
<1>7. PreviewOK(a)'
  BY <1>4, <1>5 DEF PreviewOK, Ran
<1> QED
  BY <1>2, <1>3, <1>6, <1>7, FlowMoves DEF calls

LEMMA AcceptMoves ==
  ASSUME IInv, NEW x \in Acceptors, NEW r \in AcceptShape, accept' = [accept EXCEPT ![x] = r],
         UNCHANGED <<flow, calls, did>>, RootOK', Grows, AcceptOK(x)', staging' = staging \/ staging'.by = x
  PROVE  IInv'
<1>1. Shapes' /\ \A y \in Acceptors \ {x} : accept'[y] = accept[y]
  BY DEF IInv, Shapes, calls
<1> QED
  BY <1>1, AcceptorActs DEF calls

-----------------------------------------------------------------------------
(* The first states and the switch.                                        *)

LEMMA Begins == Init => IInv
<1> SUFFICES ASSUME Init PROVE IInv
  OBVIOUS
<1>1. Shapes
  BY DEF Init, Idle, Shapes, FlowShape, SubmitShape, SubmitEarly, PersistShape, PersistEarly, AcceptShape
<1>2. RootOK
  <2>1. root \in Tree /\ root.source = FALSE /\ root.taken = {} /\ root.logs = [r \in Runs |-> None]
    BY DEF Init, Tree, Owner
  <2>2. \A u \in Units : root.entities[u] \in {None, Other}
    BY DEF Init
  <2>3. Other \notin Selection /\ None \notin Selection
    BY NoneAssumption
  <2>4. TreeOK(root)
    BY <2>1, <2>2, <2>3 DEF TreeOK
  <2> QED
    BY <2>4 DEF Init, RootOK
<1>3. ASSUME NEW a \in Attempts PROVE AttemptOK(a)
  BY DEF Init, Idle, AttemptOK, CallsOK, DoneOK, SourceOK, PreviewOK, Mine
<1>4. ASSUME NEW x \in Acceptors PROVE AcceptOK(x)
  BY DEF Init, Idle, AcceptOK, AcceptPoints, Mine
<1> QED
  BY <1>1, <1>2, <1>3, <1>4 DEF IInv

LEMMA MoveAsideKeeps == IInv /\ MoveAside => IInv'
<1> SUFFICES ASSUME IInv, MoveAside PROVE IInv'
  OBVIOUS
<1>1. RootOK' /\ Grows
  BY MoveAsideGrows DEF IInv
<1>2. staging \in Staging /\ staging' = [staging EXCEPT !.away = TRUE] /\ UNCHANGED <<flow, submit, persist, accept, did>>
  BY DEF MoveAside, IInv, RootOK, calls
<1>3. staging'.by = staging.by /\ staging'.tree = staging.tree /\ staging # None
  BY <1>2 DEF Staging, MoveAside
<1>4. Shapes'
  BY <1>2 DEF IInv, Shapes
<1>5. ASSUME NEW a \in Attempts PROVE AttemptOK(a)'
  <2>1. Mine(a)' => Mine(a)
    BY <1>3 DEF Mine
  <2> QED
    BY <1>1, <1>2, <2>1, AttemptKeeps DEF IInv
<1>6. ASSUME NEW x \in Acceptors PROVE AcceptOK(x)'
  <2>1. Mine(x)' => Mine(x) /\ staging'.tree = staging.tree
    BY <1>3 DEF Mine
  <2> QED
    BY <1>1, <1>2, <2>1, AcceptKeeps DEF IInv
<1> QED
  BY <1>1, <1>4, <1>5, <1>6 DEF IInv

LEMMA MoveInKeeps == IInv /\ MoveIn => IInv'
<1> SUFFICES ASSUME IInv, MoveIn PROVE IInv'
  OBVIOUS
<1>1. RootOK' /\ Grows
  BY MoveInGrows DEF IInv
<1>2. /\ staging # None /\ root' = staging.tree /\ staging' = None /\ UNCHANGED <<flow, persist>>
      /\ submit' = [a \in Attempts |-> IF staging.by = a THEN [submit[a] EXCEPT !.pc = "confirm"] ELSE submit[a]]
      /\ accept' = [x \in Acceptors |-> IF staging.by = x THEN [accept[x] EXCEPT !.pc = "committed"] ELSE accept[x]]
      /\ did' = [a \in Attempts |-> IF staging.by = a THEN did[a] \cup {"source"} ELSE did[a]]
  BY DEF MoveIn, Away
<1>3. \A owner : ~Mine(owner)'
  BY <1>2 DEF Mine
<1>4. ASSUME NEW a \in Attempts PROVE submit'[a] \in SubmitShape /\ AttemptOK(a)'
  <2>1. CASE staging.by # a
    <3>1. submit'[a] = submit[a] /\ did'[a] = did[a] /\ flow'[a] = flow[a] /\ persist'[a] = persist[a]
      BY <1>2, <2>1
    <3> QED
      BY <1>1, <1>3, <3>1, AttemptKeeps, SubmitAtPoint DEF IInv
  <2>2. CASE staging.by = a
    <3>1. submit[a].pc = "switching" /\ submit[a] \in SubmitActive /\ AttemptOK(a)
      BY <1>2, <2>2, SubmitAtPoint DEF IInv, AttemptOK, DoneOK, Mine
    <3>2. submit'[a] = [submit[a] EXCEPT !.pc = "confirm"] /\ did'[a] = did[a] \cup {"source"}
      BY <1>2, <2>2
    <3>3. submit'[a] \in SubmitShape /\ submit'[a].pc = "confirm"
      BY <3>1, <3>2 DEF SubmitActive, SubmitShape
    <3>4. CallsOK(a)'
      <4>1. submit[a] \notin SubmitGranted
        BY <3>1 DEF SubmitGranted
      <4> QED
        BY <1>2, <3>1, <3>3, <4>1 DEF AttemptOK, CallsOK
    <3>5. DoneOK(a)'
      BY <1>2, <1>3, <3>1, <3>2, <3>3 DEF AttemptOK, DoneOK
    <3>6. SourceOK(a)'
      BY <1>1, <3>1, <3>3 DEF AttemptOK, SourceOK, Grows, Ahead
    <3>7. PreviewOK(a)'
      <4>1. flow[a].pc \in {"check", "over"} => Ran(a) \in Runs
        BY FlowAt DEF IInv, FlowActive, FlowOver, Ran, Running
      <4> QED
        BY <1>1, <1>2, <3>1, <4>1, NoneAssumption DEF AttemptOK, PreviewOK, Grows, Ahead, Ran
    <3> QED
      BY <3>3, <3>4, <3>5, <3>6, <3>7 DEF AttemptOK
  <2> QED
    BY <2>1, <2>2
<1>5. ASSUME NEW x \in Acceptors PROVE accept'[x] \in AcceptShape /\ AcceptOK(x)'
  <2>1. CASE staging.by # x
    <3>1. accept'[x] = accept[x]
      BY <1>2, <2>1
    <3> QED
      BY <1>1, <1>3, <3>1, AcceptKeeps, AcceptAtPoint DEF IInv
  <2>2. CASE staging.by = x
    <3>1. accept[x].pc = "switching" /\ Chosen(x) \in staging.tree.taken /\ AcceptOK(x) /\ accept[x] \in AcceptActive
      BY <1>2, <2>2, AcceptAtPoint DEF IInv, AcceptOK, Mine, AcceptPoints
    <3>2. accept'[x] = [accept[x] EXCEPT !.pc = "committed"]
      BY <1>2, <2>2
    <3>3. /\ accept'[x] \in AcceptShape /\ accept'[x].pc = "committed" /\ accept'[x].run = accept[x].run
          /\ accept'[x].content = accept[x].content /\ accept'[x].unit = accept[x].unit
          /\ accept'[x].handle = accept[x].handle /\ accept[x].handle \in Nat
      BY <3>1, <3>2 DEF AcceptActive, AcceptShape, AcceptPoints
    <3>4. Chosen(x)' = Chosen(x)
      BY <3>3 DEF Chosen
    <3>5. accept[x].handle <= root'.revision
      <4>1. root.revision \in Nat /\ root'.revision \in Nat
        BY <1>1 DEF IInv, RootOK, TreeOK, Tree
      <4> QED
        BY <1>1, <3>1, <3>3, <4>1 DEF AcceptOK, AcceptPoints, Grows, Ahead
    <3>6. accept[x].content \in Content /\ accept[x].unit \in accept[x].content.units
      BY <3>1 DEF AcceptOK, AcceptPoints
    <3>7. AcceptOK(x)'
      BY <1>2, <1>3, <3>1, <3>3, <3>4, <3>5, <3>6 DEF AcceptOK, AcceptPoints
    <3> QED
      BY <3>3, <3>7
  <2> QED
    BY <2>1, <2>2
<1>6. Shapes'
  <2>1. submit' \in [Attempts -> SubmitShape] /\ accept' \in [Acceptors -> AcceptShape]
    BY <1>2, <1>4, <1>5
  <2>2. did' \in [Attempts -> SUBSET {"source", "preview"}]
    BY <1>2 DEF IInv, Shapes
  <2> QED
    BY <1>2, <2>1, <2>2 DEF IInv, Shapes
<1> QED
  BY <1>1, <1>4, <1>5, <1>6 DEF IInv

-----------------------------------------------------------------------------
(* The gateway call.                                                       *)

LEMMA AdmitKeeps == ASSUME IInv, NEW a \in Attempts, Admit(a) PROVE IInv'
<1>1. AttemptOK(a) /\ RootOK' /\ Grows /\ submit[a].pc = "admit" /\ UNCHANGED <<root, staging, flow, persist, accept, did>>
  BY Untouched DEF IInv, Admit
<1>2. root.revision \in Nat
  BY DEF IInv, RootOK, TreeOK, Tree
<1>3. ASSUME NEW s \in SubmitRefused, submit' = [submit EXCEPT ![a] = s] PROVE IInv'
  <2>1. s \in SubmitShape /\ s.pc = "settled"
    BY <1>3 DEF SubmitShape, SubmitRefused
  <2>2. submit'[a] = s
    BY <1>3 DEF IInv, Shapes
  <2> QED
    BY <1>1, <1>3, <2>1, <2>2, SubmitMoves DEF SourceOK, Mine
<1>4. ASSUME submit' = [submit EXCEPT ![a] = [pc |-> "archive", revision |-> root.revision]] PROVE IInv'
  <2>1. [pc |-> "archive", revision |-> root.revision] \in SubmitShape
    BY <1>2 DEF SubmitShape, SubmitActive
  <2>2. submit'[a].pc = "archive" /\ submit'[a].revision = root.revision
    BY <1>4 DEF IInv, Shapes
  <2>3. SourceOK(a)'
    BY <1>1, <1>2, <2>2 DEF SourceOK
  <2> DEFINE s == [pc |-> "archive", revision |-> root.revision]
  <2>4. s.pc = "archive" /\ s \in SubmitShape /\ submit' = [submit EXCEPT ![a] = s]
    BY <1>4, <2>1
  <2> HIDE DEF s
  <2> QED
    BY <1>1, <2>3, <2>4, SubmitMoves DEF Mine
<1>5. [pc |-> "settled", outcome |-> "failed"] \in SubmitRefused /\ [pc |-> "settled", outcome |-> "blocked"] \in SubmitRefused
  BY DEF SubmitRefused
<1> QED
  BY <1>3, <1>4, <1>5 DEF Admit, Settle

LEMMA ArchiveKeeps == ASSUME IInv, NEW a \in Attempts, Archive(a) PROVE IInv'
<1>1. RootOK' /\ Grows /\ AttemptOK(a)
  BY ArchiveGrows DEF IInv
<1>2. /\ submit[a].pc = "archive" /\ submit' = [submit EXCEPT ![a].pc = "plan"] /\ root' = [root EXCEPT !.raw = TRUE]
      /\ UNCHANGED <<staging, flow, persist, accept, did>> /\ submit[a] \in SubmitActive /\ root \in Tree
  BY SubmitAtPoint DEF Archive, SubmitAt, IInv, RootOK, TreeOK
<1> DEFINE s == [submit[a] EXCEPT !.pc = "plan"]
<1>3. s \in SubmitShape /\ s.pc = "plan" /\ s.revision = submit[a].revision
  BY <1>2 DEF SubmitShape, SubmitActive
<1>4. submit' = [submit EXCEPT ![a] = s] /\ submit'[a] = s
  BY <1>2 DEF IInv, Shapes
<1>5. root'.raw /\ root'.revision = root.revision
  BY <1>2 DEF Tree
<1> HIDE DEF s
<1>6. SourceOK(a)'
  BY <1>1, <1>2, <1>3, <1>4, <1>5 DEF AttemptOK, SourceOK
<1> QED
  BY <1>1, <1>2, <1>3, <1>4, <1>6, SubmitMoves DEF Mine

LEMMA PrepareKeeps == ASSUME IInv, NEW a \in Attempts, Prepare(a) PROVE IInv'
<1>1. /\ AttemptOK(a) /\ RootOK' /\ Grows /\ submit[a].pc = "plan" /\ submit[a] \in SubmitActive
      /\ UNCHANGED <<root, staging, flow, persist, accept, did>>
  BY Untouched, SubmitAtPoint DEF IInv, Prepare
<1>2. root \in Tree /\ root.revision \in Nat /\ Ran(a) \in Runs
  <2>1. flow[a].pc # "idle"
    BY <1>1 DEF AttemptOK, CallsOK
  <2> QED
    BY <2>1, FlowAt DEF IInv, RootOK, TreeOK, Tree, FlowShape, FlowActive, FlowOver, Ran
<1>3. ASSUME NEW s \in SubmitRefused \cup SubmitGranted, submit' = [submit EXCEPT ![a] = s] PROVE IInv'
  <2>1. s \in SubmitShape /\ s.pc = "settled"
    BY <1>3 DEF SubmitShape, SubmitRefused, SubmitGranted
  <2>2. submit'[a] = s
    BY <1>3 DEF IInv, Shapes
  <2> QED
    BY <1>1, <1>3, <2>1, <2>2, SubmitMoves DEF SourceOK, Mine
<1>4. ASSUME root.logs[Ran(a)] = None, ~root.source, SubmitAt(a, "write") PROVE IInv'
  <2> DEFINE s == [submit[a] EXCEPT !.pc = "write"]
  <2>1. s \in SubmitShape /\ s.pc = "write" /\ s.revision = submit[a].revision
    BY <1>1 DEF SubmitShape, SubmitActive
  <2>2. submit' = [submit EXCEPT ![a] = s] /\ submit'[a] = s
    BY <1>4 DEF IInv, Shapes, SubmitAt
  <2> HIDE DEF s
  <2>3. SourceOK(a)'
    BY <1>1, <1>4, <2>1, <2>2 DEF AttemptOK, SourceOK
  <2> QED
    BY <1>1, <2>1, <2>2, <2>3, SubmitMoves DEF Mine
<1>5. ASSUME Settle(a, "failed") PROVE IInv'
  <2>1. [pc |-> "settled", outcome |-> "failed"] \in SubmitRefused
    BY DEF SubmitRefused
  <2> QED
    BY <1>3, <1>5, <2>1 DEF Settle
<1>6. ASSUME root.logs[Ran(a)] # None, Receipt(a, root.logs[Ran(a)] - 1, root.logs[Ran(a)]) PROVE IInv'
  <2>1. root.logs[Ran(a)] \in Nat
    BY <1>2, <1>6 DEF Tree
  <2>2. [pc |-> "settled", outcome |-> "ok", base |-> root.logs[Ran(a)] - 1, at |-> root.logs[Ran(a)]] \in SubmitGranted
    BY <2>1 DEF SubmitGranted
  <2> QED
    BY <1>3, <1>6, <2>2 DEF Receipt
<1>7. ASSUME submit' = [submit EXCEPT ![a] = [pc |-> "settled", outcome |-> "same",
                             base |-> submit[a].revision, at |-> root.revision]]
      PROVE  IInv'
  <2>1. [pc |-> "settled", outcome |-> "same", base |-> submit[a].revision, at |-> root.revision] \in SubmitGranted
    BY <1>1, <1>2 DEF SubmitGranted, SubmitActive
  <2> QED
    BY <1>3, <1>7, <2>1
<1>8. \/ Settle(a, "failed")
      \/ root.logs[Ran(a)] # None /\ Receipt(a, root.logs[Ran(a)] - 1, root.logs[Ran(a)])
      \/ submit' = [submit EXCEPT ![a] = [pc |-> "settled", outcome |-> "same",
                             base |-> submit[a].revision, at |-> root.revision]]
      \/ root.logs[Ran(a)] = None /\ ~root.source /\ ~Away /\ SubmitAt(a, "write")
  BY DEF Prepare
<1> QED
  BY <1>4, <1>5, <1>6, <1>7, <1>8

LEMMA WriteSourceKeeps == ASSUME IInv, NEW a \in Attempts, WriteSource(a) PROVE IInv'
<1>1. /\ AttemptOK(a) /\ submit[a].pc = "write" /\ submit[a] \in SubmitActive
      /\ UNCHANGED <<root, flow, persist, accept, lost, did>>
  BY SubmitAtPoint DEF IInv, WriteSource
<1>2. root \in Tree /\ root.revision \in Nat /\ Ran(a) \in Runs /\ TreeOK(root)
  <2>1. flow[a].pc # "idle"
    BY <1>1 DEF AttemptOK, CallsOK
  <2> QED
    BY <2>1, FlowAt DEF IInv, RootOK, TreeOK, Tree, FlowShape, FlowActive, FlowOver, Ran
<1>3. ASSUME NEW outcome \in {"failed", "blocked"}, Settle(a, outcome), UNCHANGED staging PROVE IInv'
  <2> DEFINE s == [pc |-> "settled", outcome |-> outcome]
  <2>1. s \in SubmitShape /\ s.pc = "settled"
    BY DEF SubmitShape, SubmitRefused
  <2>2. submit' = [submit EXCEPT ![a] = s] /\ submit'[a] = s
    BY <1>3 DEF IInv, Shapes, Settle
  <2>3. RootOK' /\ Grows
    BY <1>1, <1>3, Untouched DEF IInv
  <2> HIDE DEF s
  <2> QED
    BY <1>1, <1>3, <2>1, <2>2, <2>3, SubmitMoves DEF SourceOK, Mine
<1>4. ASSUME SubmitAt(a, "confirm"), UNCHANGED staging PROVE IInv'
  <2> DEFINE s == [submit[a] EXCEPT !.pc = "confirm"]
  <2>1. s \in SubmitShape /\ s.pc = "confirm" /\ s.revision = submit[a].revision
    BY <1>1 DEF SubmitShape, SubmitActive
  <2>2. submit' = [submit EXCEPT ![a] = s] /\ submit'[a] = s
    BY <1>4 DEF IInv, Shapes, SubmitAt
  <2>3. RootOK' /\ Grows
    BY <1>1, <1>4, Untouched DEF IInv
  <2> HIDE DEF s
  <2>4. SourceOK(a)'
    BY <1>1, <2>1, <2>2 DEF AttemptOK, SourceOK
  <2> QED
    BY <1>1, <1>4, <2>1, <2>2, <2>3, <2>4, SubmitMoves DEF Mine
<1>5. ASSUME MayCommit(a), SubmitAt(a, "switching"),
             Stage(a, [root EXCEPT !.source = TRUE, !.logs[Ran(a)] = root.revision + 1])
      PROVE  IInv'
  <2> DEFINE s == [submit[a] EXCEPT !.pc = "switching"]
             change == [root EXCEPT !.source = TRUE, !.logs[Ran(a)] = root.revision + 1]
             t == [change EXCEPT !.revision = root.revision + 1]
  <2>1. s \in SubmitShape /\ s.pc = "switching" /\ s.revision = submit[a].revision
    BY <1>1 DEF SubmitShape, SubmitActive
  <2>2. submit' = [submit EXCEPT ![a] = s] /\ submit'[a] = s
    BY <1>5 DEF IInv, Shapes, SubmitAt
  <2>3. root.raw /\ ~root.source
    BY <1>1, <1>5 DEF AttemptOK, SourceOK, MayCommit
  <2>4. t \in Tree /\ TreeOK(t) /\ Ahead(root, t) /\ t.revision = root.revision + 1
    BY <1>2, <2>3, SourceTree
  <2>5. Stage(a, change)
    BY <1>5
  <2>6. staging'.by = a
    BY <2>5 DEF Stage
  <2> HIDE DEF s
  <2>7. RootOK' /\ Grows
    BY <1>1, <2>4, <2>5, StageGrows DEF IInv
  <2>8. SourceOK(a)'
    BY <1>1, <2>1, <2>2, <2>3 DEF AttemptOK, SourceOK
  <2> QED
    BY <1>1, <2>1, <2>2, <2>6, <2>7, <2>8, SubmitMoves DEF Mine
<1> QED
  BY <1>3, <1>4, <1>5 DEF WriteSource

LEMMA ConfirmKeeps == ASSUME IInv, NEW a \in Attempts, Confirm(a) PROVE IInv'
<1>1. /\ AttemptOK(a) /\ RootOK' /\ Grows /\ submit[a].pc = "confirm" /\ submit[a] \in SubmitActive
      /\ UNCHANGED <<root, staging, flow, persist, accept, did>>
  BY Untouched, SubmitAtPoint DEF IInv, Confirm
<1>2. ASSUME NEW s \in SubmitRefused \cup SubmitGranted, submit' = [submit EXCEPT ![a] = s], s.outcome # "blocked"
      PROVE  IInv'
  <2>1. s \in SubmitShape /\ s.pc = "settled"
    BY <1>2 DEF SubmitShape, SubmitRefused, SubmitGranted
  <2>2. submit'[a] = s
    BY <1>2 DEF IInv, Shapes
  <2> QED
    BY <1>1, <1>2, <2>1, <2>2, SubmitMoves DEF SourceOK, Mine
<1>3. [pc |-> "settled", outcome |-> "failed"] \in SubmitRefused
  BY DEF SubmitRefused
<1>4. [pc |-> "settled", outcome |-> "ok", base |-> submit[a].revision, at |-> submit[a].revision + 1] \in SubmitGranted
  BY <1>1 DEF SubmitGranted, SubmitActive
<1> QED
  BY <1>2, <1>3, <1>4 DEF Confirm, Settle, Receipt

-----------------------------------------------------------------------------
(* The store's call.                                                       *)

LEMMA PersistingKeeps ==
  ASSUME IInv, NEW a \in Attempts, BeginPersist(a) \/ Look(a) \/ ReadStored(a) \/ FinalCheck(a)
  PROVE  IInv'
<1>1. /\ AttemptOK(a) /\ RootOK' /\ Grows /\ persist[a].pc # "idle"
      /\ UNCHANGED <<root, staging, flow, submit, accept, did>>
  BY Untouched DEF IInv, BeginPersist, Look, ReadStored, FinalCheck
<1>2. root \in Tree /\ root.revision \in Nat /\ Ran(a) \in Runs
  <2>1. flow[a].pc # "idle"
    BY <1>1 DEF AttemptOK, CallsOK
  <2> QED
    BY <2>1, FlowAt DEF IInv, RootOK, TreeOK, Tree, FlowShape, FlowActive, FlowOver, Ran
<1>3. ASSUME NEW p \in PersistShape, p.pc # "idle", persist' = [persist EXCEPT ![a] = p] PROVE IInv'
  BY <1>1, <1>3, PersistMoves
<1>4. ASSUME NEW outcome \in {"ok", "failed"}, Persisted(a, outcome) PROVE IInv'
  <2>1. [pc |-> "settled", outcome |-> outcome] \in PersistShape
    BY DEF PersistShape, PersistSettled
  <2> QED
    BY <1>3, <1>4, <2>1 DEF Persisted
<1>5. CASE BeginPersist(a)
  <2>1. [pc |-> "look", seen |-> root.revision] \in PersistShape
    BY <1>2 DEF PersistShape, PersistActive
  <2> QED
    BY <1>3, <1>4, <1>5, <2>1 DEF BeginPersist
<1>6. CASE Look(a)
  <2>1. persist[a] \in PersistActive
    BY <1>6, PersistAtPoint DEF IInv, Look
  <2>2. ASSUME NEW pc \in {"link", "read"}, PersistAt(a, pc) PROVE IInv'
    <3>1. [persist[a] EXCEPT !.pc = pc] \in PersistShape /\ [persist[a] EXCEPT !.pc = pc].pc = pc
      BY <2>1 DEF PersistShape, PersistActive
    <3>2. persist' = [persist EXCEPT ![a] = [persist[a] EXCEPT !.pc = pc]]
      BY <2>2 DEF PersistAt, IInv, Shapes
    <3> QED
      BY <1>3, <3>1, <3>2
  <2> QED
    BY <1>4, <1>6, <2>2 DEF Look
<1>7. CASE ReadStored(a)
  <2>1. root.previews[Ran(a)] # None =>
          [pc |-> "final", seen |-> root.revision, found |-> root.previews[Ran(a)]] \in PersistShape
    BY <1>2 DEF PersistShape, PersistFinal, Tree
  <2> QED
    BY <1>3, <1>4, <1>7, <2>1 DEF ReadStored
<1>8. CASE FinalCheck(a)
  BY <1>4, <1>8 DEF FinalCheck
<1> QED
  BY <1>5, <1>6, <1>7, <1>8

LEMMA LinkerFacts ==
  ASSUME IInv, NEW a \in Attempts, Link(a)
  PROVE  /\ AttemptOK(a) /\ persist[a].pc = "link" /\ persist[a] \in PersistActive
         /\ UNCHANGED <<staging, flow, submit, accept>>
         /\ flow[a].content \in Content /\ flow[a].pc # "idle" /\ flow[a].run \in Runs
<1>1. AttemptOK(a) /\ persist[a].pc = "link" /\ persist[a] \in PersistActive /\ UNCHANGED <<staging, flow, submit, accept>>
  BY PersistAtPoint DEF IInv, Link
<1>2. flow[a].content \in Content /\ flow[a].pc # "idle"
  BY <1>1 DEF AttemptOK, CallsOK
<1> QED
  BY <1>1, <1>2, FlowAt DEF IInv, FlowShape, FlowActive, FlowOver

LEMMA LinkKeeps == ASSUME IInv, NEW a \in Attempts, Link(a) PROVE IInv'
<1>1. AttemptOK(a) /\ persist[a].pc = "link" /\ persist[a] \in PersistActive /\ UNCHANGED <<staging, flow, submit, accept>>
  BY LinkerFacts
<1>2. flow[a].content \in Content /\ flow[a].pc # "idle"
  BY LinkerFacts
<1>3. flow[a].run \in Runs
  BY LinkerFacts
<1>4. RootOK' /\ Grows
  BY <1>2, <1>3, LinkGrows DEF IInv
<1>5. did' = did \/ did' = [did EXCEPT ![a] = @ \cup {"preview"}]
  BY DEF Link
<1>6. ASSUME NEW p \in PersistShape, p.pc # "idle", persist' = [persist EXCEPT ![a] = p] PROVE IInv'
  BY <1>1, <1>4, <1>5, <1>6, PersistMoves
<1>7. CASE Persisted(a, "failed")
  <2>1. [pc |-> "settled", outcome |-> "failed"] \in PersistShape
    BY DEF PersistShape, PersistSettled
  <2> QED
    BY <1>6, <1>7, <2>1 DEF Persisted
<1>8. CASE PersistAt(a, "read")
  <2>1. [persist[a] EXCEPT !.pc = "read"] \in PersistShape /\ [persist[a] EXCEPT !.pc = "read"].pc = "read"
    BY <1>1 DEF PersistShape, PersistActive
  <2>2. persist' = [persist EXCEPT ![a] = [persist[a] EXCEPT !.pc = "read"]]
    BY <1>8 DEF PersistAt, IInv, Shapes
  <2> QED
    BY <1>6, <2>1, <2>2
<1> QED
  BY <1>7, <1>8 DEF Link

-----------------------------------------------------------------------------
(* The workflow.                                                           *)

LEMMA BeginKeeps == ASSUME IInv, NEW a \in Attempts, Begin(a) PROVE IInv'
<1>1. flow[a].pc = "idle" /\ AttemptOK(a) /\ UNCHANGED <<root, staging, calls, accept, lost, did>> /\ root.revision \in Nat
  BY DEF Begin, IInv, RootOK, TreeOK, Tree
<1>2. submit[a].pc = "idle" /\ persist[a].pc = "idle"
  BY <1>1 DEF AttemptOK, CallsOK
<1>3. PICK r \in Runs :
         flow' = [flow EXCEPT ![a] = [pc |-> "acquire", run |-> r, handle |-> root.revision,
                tries |-> 0, at |-> 0, content |-> None, seen |-> 0, found |-> None]]
  BY DEF Begin
<1> DEFINE f == [pc |-> "acquire", run |-> r, handle |-> root.revision,
                 tries |-> 0, at |-> 0, content |-> None, seen |-> 0, found |-> None]
<1>4. f \in FlowShape /\ f.pc = "acquire" /\ flow' = [flow EXCEPT ![a] = f]
  BY <1>1, <1>3 DEF FlowShape, FlowActive, Running
<1> HIDE DEF f
<1>5. flow'[a] = f
  BY <1>4 DEF IInv, Shapes
<1>6. CallsOK(a)' /\ PreviewOK(a)'
  BY <1>1, <1>2, <1>4, <1>5 DEF CallsOK, PreviewOK, calls
<1> QED
  BY <1>1, <1>4, <1>6, FlowMoves DEF calls

\* The workflow goes on to its next await.
LEMMA FlowGoes ==
  ASSUME IInv, NEW a \in Attempts, NEW pc \in Running \ {"acquire", "submit"}, Goto(a, pc),
         flow[a].pc \in Running \ {"acquire"},
         pc \in {"persist", "readback", "check"} => flow[a].pc \in {"persist", "readback", "check"},
         pc = "verify" => submit[a] \in SubmitGranted,
         pc = "check" => flow[a].found \in Content /\ (Ran(a) \notin lost => root.previews[Ran(a)] = flow[a].found),
         flow[a].pc \in {"persist", "readback", "check"} => pc \in {"persist", "readback", "check"},
         UNCHANGED <<root, staging, calls, accept, lost, did>>
  PROVE  IInv'
<1> DEFINE f == [flow[a] EXCEPT !.pc = pc]
<1>1. flow[a] \in FlowActive /\ AttemptOK(a)
  BY FlowAt DEF IInv
<1>2. f \in FlowShape /\ f.pc = pc /\ f.content = flow[a].content /\ f.run = flow[a].run /\ f.found = flow[a].found
  BY <1>1 DEF FlowShape, FlowActive
<1>3. flow' = [flow EXCEPT ![a] = f] /\ flow'[a] = f
  BY DEF Goto, IInv, Shapes
<1> HIDE DEF f
<1>4. CallsOK(a)'
  BY <1>1, <1>2, <1>3 DEF AttemptOK, CallsOK, calls, Running
<1>5. PreviewOK(a)'
  BY <1>1, <1>2, <1>3 DEF AttemptOK, PreviewOK, Ran, Running
<1> QED
  BY <1>2, <1>3, <1>4, <1>5, FlowMoves DEF calls

LEMMA AcquireKeeps == ASSUME IInv, NEW a \in Attempts, Acquire(a) PROVE IInv'
<1>1. /\ flow[a].pc = "acquire" /\ AttemptOK(a) /\ UNCHANGED <<root, staging, persist, accept, lost, did>>
      /\ flow[a] \in FlowActive
  BY FlowAt DEF Acquire, At, IInv, Running
<1>2. submit[a].pc = "idle" /\ persist[a].pc = "idle" /\ submit[a] \in SubmitEarly
  <2>1. submit[a].pc = "idle" /\ persist[a].pc = "idle"
    BY <1>1 DEF AttemptOK, CallsOK
  <2> QED
    BY <2>1, SubmitAtPoint DEF IInv, SubmitShape, SubmitEarly, SubmitActive, SubmitRefused, SubmitGranted
<1>3. CASE Result(a, "blocked", "not_started", "not_attempted") /\ UNCHANGED submit
  <2>1. flow[a].pc \in Running /\ UNCHANGED <<root, staging, calls, accept, lost, did>>
    BY <1>1, <1>3 DEF Running, calls
  <2> QED
    BY <1>2, <1>3, <2>1, FlowEnds DEF Statuses, SourceStates, PreviewStates
<1>4. CASE Goto(a, "submit") /\ SubmitAt(a, "admit")
  <2> DEFINE f == [flow[a] EXCEPT !.pc = "submit"]
  <2>1. f \in FlowShape /\ f.pc = "submit" /\ flow' = [flow EXCEPT ![a] = f]
    BY <1>1, <1>4 DEF FlowShape, FlowActive, Goto, Running
  <2> HIDE DEF f
  <2>2. flow'[a] = f
    BY <2>1 DEF IInv, Shapes
  <2>3. CallsOK(a)' /\ PreviewOK(a)'
    BY <1>1, <1>2, <2>1, <2>2 DEF AttemptOK, CallsOK, PreviewOK
  <2> QED
    BY <1>1, <1>2, <1>4, <2>1, <2>3, FlowMoves DEF SubmitAt
<1> QED
  BY <1>3, <1>4 DEF Acquire

LEMMA ReceiveKeeps == ASSUME IInv, NEW a \in Attempts, Receive(a) PROVE IInv'
<1>1. /\ flow[a].pc = "submit" /\ submit[a].pc = "settled" /\ AttemptOK(a)
      /\ UNCHANGED <<root, staging, calls, accept, lost, did>>
  BY DEF Receive, At, IInv
<1>2. persist[a].pc = "idle"
  BY <1>1 DEF AttemptOK, CallsOK
<1>3. CASE submit[a].outcome \in {"ok", "same"}
  <2>1. submit[a] \in SubmitGranted /\ Goto(a, "verify")
    BY <1>1, <1>3, SubmitAtPoint DEF IInv, Receive
  <2> QED
    BY <1>1, <2>1, FlowGoes DEF Running
<1>4. CASE submit[a].outcome \notin {"ok", "same"}
  <2>1. submit[a] \in SubmitRefused /\ Result(a, "blocked", submit[a].outcome, "not_attempted")
    BY <1>1, <1>4, SubmitAtPoint DEF IInv, Receive
  <2>2. submit[a].outcome \in {"failed", "blocked"}
    BY <2>1 DEF SubmitRefused
  <2>3. flow[a].pc \in Running
    BY <1>1 DEF Running
  <2> QED
    BY <1>1, <1>2, <2>1, <2>2, <2>3, FlowEnds DEF Statuses, SourceStates, PreviewStates
<1> QED
  BY <1>3, <1>4

LEMMA VerifyKeeps == ASSUME IInv, NEW a \in Attempts, Verify(a) PROVE IInv'
<1>1. /\ flow[a].pc = "verify" /\ flow[a].pc \in Running /\ AttemptOK(a) /\ flow[a] \in FlowActive
      /\ UNCHANGED <<root, staging, calls, accept, lost, did>>
  BY FlowAt DEF Verify, At, IInv, Running
<1>2. persist[a].pc = "idle" /\ submit[a] \in SubmitGranted
  BY <1>1 DEF AttemptOK, CallsOK
<1>3. CASE Result(a, "blocked", "failed", "not_attempted")
  BY <1>1, <1>2, <1>3, FlowEnds DEF Statuses, SourceStates, PreviewStates
<1>4. CASE flow' = [flow EXCEPT ![a].pc = "parse", ![a].at = submit[a].at]
  <2> DEFINE f == [flow[a] EXCEPT !.pc = "parse", !.at = submit[a].at]
  <2>1. f \in FlowShape /\ f.pc = "parse"
    BY <1>1, <1>2 DEF FlowShape, FlowActive, SubmitGranted, Running
  <2>2. flow' = [flow EXCEPT ![a] = f] /\ flow'[a] = f
    BY <1>1, <1>4 DEF IInv, Shapes
  <2> HIDE DEF f
  <2>3. CallsOK(a)' /\ PreviewOK(a)'
    BY <1>1, <1>2, <2>1, <2>2 DEF AttemptOK, CallsOK, PreviewOK, calls
  <2> QED
    BY <1>1, <2>1, <2>2, <2>3, FlowMoves DEF calls
<1> QED
  BY <1>3, <1>4 DEF Verify

LEMMA ParseKeeps == ASSUME IInv, NEW a \in Attempts, Parse(a) PROVE IInv'
<1>1. flow[a].pc = "parse" /\ AttemptOK(a) /\ UNCHANGED <<root, staging, calls, accept, lost, did>>
  BY DEF Parse, At, IInv
<1>2. persist[a].pc = "idle"
  BY <1>1 DEF AttemptOK, CallsOK
<1>3. CASE Goto(a, "plan")
  BY <1>1, <1>3, FlowGoes DEF Running
<1>4. CASE SourceOnly(a, "not_attempted")
  <2>1. flow[a].pc \in Running
    BY <1>1 DEF Running
  <2> QED
    BY <1>1, <1>2, <1>4, <2>1, FlowEnds DEF Statuses, SourceStates, PreviewStates, SourceOnly
<1> QED
  BY <1>3, <1>4 DEF Parse

LEMMA PlanKeeps == ASSUME IInv, NEW a \in Attempts, Plan(a) PROVE IInv'
<1>1. /\ flow[a].pc = "plan" /\ flow[a].pc \in Running /\ AttemptOK(a) /\ flow[a] \in FlowActive
      /\ UNCHANGED <<root, staging, calls, accept, lost, did>>
  BY FlowAt DEF Plan, At, IInv, Running
<1>2. persist[a].pc = "idle"
  BY <1>1 DEF AttemptOK, CallsOK
<1>3. ASSUME NEW f \in FlowActive, f.pc \in {"plan", "extract"}, flow' = [flow EXCEPT ![a] = f] PROVE IInv'
  <2>1. flow'[a] = f /\ f \in FlowShape
    BY <1>3 DEF IInv, Shapes, FlowShape
  <2>2. CallsOK(a)' /\ PreviewOK(a)'
    BY <1>1, <1>2, <1>3, <2>1 DEF CallsOK, PreviewOK, calls
  <2> QED
    BY <1>1, <1>3, <2>1, <2>2, FlowMoves DEF calls
<1>4. CASE flow' = [flow EXCEPT ![a].pc = "extract", ![a].tries = 0]
  <2> DEFINE f == [flow[a] EXCEPT !.pc = "extract", !.tries = 0]
  <2>1. f \in FlowActive /\ f.pc = "extract"
    BY <1>1 DEF FlowActive, Running
  <2>2. flow' = [flow EXCEPT ![a] = f]
    BY <1>1, <1>4 DEF IInv, Shapes
  <2> HIDE DEF f
  <2> QED
    BY <1>3, <2>1, <2>2
<1>5. CASE flow' = [flow EXCEPT ![a].tries = @ + 1]
  <2> DEFINE f == [flow[a] EXCEPT !.tries = @ + 1]
  <2>1. f \in FlowActive /\ f.pc = "plan"
    BY <1>1 DEF FlowActive
  <2>2. flow' = [flow EXCEPT ![a] = f]
    BY <1>1, <1>5 DEF IInv, Shapes
  <2> HIDE DEF f
  <2> QED
    BY <1>3, <2>1, <2>2
<1>6. CASE SourceOnly(a, "not_attempted")
  BY <1>1, <1>2, <1>6, FlowEnds DEF Statuses, SourceStates, PreviewStates, SourceOnly
<1> QED
  BY <1>4, <1>5, <1>6 DEF Plan

LEMMA ExtractKeeps == ASSUME IInv, NEW a \in Attempts, Extract(a) PROVE IInv'
<1>1. /\ flow[a].pc = "extract" /\ flow[a].pc \in Running /\ AttemptOK(a) /\ flow[a] \in FlowActive
      /\ UNCHANGED <<root, staging, submit, accept, lost, did>>
  BY FlowAt DEF Extract, At, IInv, Running
<1>2. persist[a].pc = "idle"
  BY <1>1 DEF AttemptOK, CallsOK
<1>3. CASE SourceOnly(a, "not_attempted") /\ UNCHANGED persist
  BY <1>1, <1>2, <1>3, FlowEnds DEF Statuses, SourceStates, PreviewStates, SourceOnly, calls
<1>4. ASSUME NEW done \in SUBSET Units \ {{}}, PersistAt(a, "begin"),
             flow' = [flow EXCEPT ![a].pc = "persist", ![a].content = [units |-> done, at |-> flow[a].at]]
      PROVE  IInv'
  <2> DEFINE new == [units |-> done, at |-> flow[a].at]
             f == [flow[a] EXCEPT !.pc = "persist", !.content = new]
  <2>1. new \in Content
    BY <1>1 DEF FlowActive, Content
  <2>2. flow' = [flow EXCEPT ![a] = f]
    BY <1>4 DEF IInv, Shapes
  <2> HIDE DEF new
  <2>3. f \in FlowShape /\ f.pc = "persist" /\ f.content = new
    BY <1>1, <2>1 DEF FlowShape, FlowActive, Running
  <2> HIDE DEF f
  <2>4. flow'[a] = f
    BY <2>2 DEF IInv, Shapes
  <2>5. CallsOK(a)' /\ PreviewOK(a)'
    BY <1>1, <2>1, <2>3, <2>4 DEF CallsOK, PreviewOK
  <2> QED
    BY <1>1, <1>2, <1>4, <2>2, <2>3, <2>5, FlowMoves DEF PersistAt
<1> QED
  BY <1>3, <1>4 DEF Extract

LEMMA StoredKeeps == ASSUME IInv, NEW a \in Attempts, Stored(a) PROVE IInv'
<1>1. /\ flow[a].pc = "persist" /\ flow[a].pc \in Running /\ persist[a].pc = "settled" /\ AttemptOK(a)
      /\ UNCHANGED <<root, staging, calls, accept, lost, did>>
  BY DEF Stored, At, IInv, Running
<1>2. CASE Goto(a, "readback")
  BY <1>1, <1>2, FlowGoes DEF Running
<1>3. CASE SourceOnly(a, "failed")
  BY <1>1, <1>3, FlowEnds DEF Statuses, SourceStates, PreviewStates, SourceOnly
<1> QED
  BY <1>2, <1>3 DEF Stored

LEMMA ReadBackKeeps == ASSUME IInv, NEW a \in Attempts, ReadBack(a) PROVE IInv'
<1>1. /\ flow[a].pc = "readback" /\ flow[a].pc \in Running /\ AttemptOK(a) /\ flow[a] \in FlowActive
      /\ UNCHANGED <<root, staging, calls, accept, lost, did>> /\ root \in Tree
  BY FlowAt DEF ReadBack, At, IInv, Running, RootOK, TreeOK
<1>2. CASE SourceOnly(a, "failed")
  BY <1>1, <1>2, FlowEnds DEF Statuses, SourceStates, PreviewStates, SourceOnly
<1>3. CASE root.previews[Ran(a)] # None /\ flow' = [flow EXCEPT ![a].pc = "check", ![a].seen = root.revision,
                                                                ![a].found = root.previews[Ran(a)]]
  <2> DEFINE f == [flow[a] EXCEPT !.pc = "check", !.seen = root.revision, !.found = root.previews[Ran(a)]]
  <2>1. root.previews[Ran(a)] \in Content /\ root.revision \in Nat
    BY <1>1, <1>3 DEF FlowActive, Tree, Ran
  <2>2. /\ f \in FlowShape /\ f.pc = "check" /\ f.content = flow[a].content /\ f.run = flow[a].run
        /\ f.found = root.previews[Ran(a)]
    BY <1>1, <2>1 DEF FlowShape, FlowActive, Running
  <2>3. flow' = [flow EXCEPT ![a] = f]
    BY <1>1, <1>3 DEF IInv, Shapes
  <2> HIDE DEF f
  <2>4. flow'[a] = f
    BY <2>3 DEF IInv, Shapes
  <2>5. CallsOK(a)' /\ PreviewOK(a)'
    BY <1>1, <2>1, <2>2, <2>4 DEF AttemptOK, CallsOK, PreviewOK, Ran
  <2> QED
    BY <1>1, <2>2, <2>3, <2>5, FlowMoves DEF calls
<1> QED
  BY <1>2, <1>3 DEF ReadBack

LEMMA CommittableKeeps == ASSUME IInv, NEW a \in Attempts, Committable(a) PROVE IInv'
<1>1. /\ flow[a].pc = "check" /\ flow[a].pc \in Running /\ AttemptOK(a)
      /\ UNCHANGED <<root, staging, calls, accept, lost, did>>
  BY DEF Committable, At, IInv, Running
<1>2. CASE SourceOnly(a, "failed")
  BY <1>1, <1>2, FlowEnds DEF Statuses, SourceStates, PreviewStates, SourceOnly
<1>3. CASE /\ Canonical(flow[a].seen) /\ flow[a].found = flow[a].content
           /\ Result(a, IF flow[a].content.units = Units THEN "preview_ready" ELSE "preview_partial",
                     "verified", "committable")
  <2> DEFINE status == IF flow[a].content.units = Units THEN "preview_ready" ELSE "preview_partial"
  <2>1. status \in Statuses /\ (status = "preview_ready" <=> flow[a].content.units = Units)
        /\ Result(a, status, "verified", "committable")
    BY <1>3 DEF Statuses
  <2>2. root.source /\ root.raw /\ flow[a].content \in Content
        /\ (Ran(a) \notin lost => root.previews[Ran(a)] = flow[a].content)
    BY <1>1, <1>3 DEF AttemptOK, PreviewOK, Canonical
  <2> HIDE DEF status
  <2> QED
    BY <1>1, <2>1, <2>2, FlowEnds DEF Statuses, SourceStates, PreviewStates
<1> QED
  BY <1>2, <1>3 DEF Committable

LEMMA CancelKeeps == ASSUME IInv, NEW a \in Attempts, Cancel(a) PROVE IInv'
<1>1. /\ flow[a].pc \in Running /\ AttemptOK(a) /\ UNCHANGED <<root, staging, calls, accept, lost, did>>
      /\ Result(a, "cancelled", CancelledAt(flow[a].pc)[1], CancelledAt(flow[a].pc)[2])
  BY DEF Cancel, IInv
<1>2. flow[a].pc = "acquire" => submit[a].pc = "idle" /\ persist[a].pc = "idle"
  BY <1>1 DEF AttemptOK, CallsOK
<1>3. flow[a].pc \notin {"persist", "readback", "check"} => persist[a].pc = "idle"
  BY <1>1 DEF AttemptOK, CallsOK, Running
<1>4. CASE flow[a].pc = "acquire"
  <2>1. Result(a, "cancelled", "not_started", "not_attempted")
    BY <1>1, <1>4 DEF CancelledAt
  <2> QED
    BY <1>1, <1>2, <1>4, <2>1, FlowEnds DEF Statuses, SourceStates, PreviewStates
<1>5. CASE flow[a].pc \in {"submit", "verify"}
  <2>1. Result(a, "cancelled", "unknown", "not_attempted")
    BY <1>1, <1>5 DEF CancelledAt
  <2> QED
    BY <1>1, <1>3, <1>5, <2>1, FlowEnds DEF Statuses, SourceStates, PreviewStates
<1>6. CASE flow[a].pc \in {"parse", "plan", "extract"}
  <2>1. Result(a, "cancelled", "verified", "not_attempted")
    BY <1>1, <1>6 DEF CancelledAt
  <2> QED
    BY <1>1, <1>3, <1>6, <2>1, FlowEnds DEF Statuses, SourceStates, PreviewStates
<1>7. CASE flow[a].pc \in {"persist", "readback", "check"}
  <2>1. Result(a, "cancelled", "verified", "unknown")
    BY <1>1, <1>7 DEF CancelledAt
  <2> QED
    BY <1>1, <2>1, FlowEnds DEF Statuses, SourceStates, PreviewStates
<1> QED
  BY <1>1, <1>4, <1>5, <1>6, <1>7 DEF Running

-----------------------------------------------------------------------------
(* The acceptance.                                                         *)

\* The acceptance ends; what it is told is true of the root.
LEMMA AcceptEnds ==
  ASSUME IInv, NEW x \in Acceptors, accept[x].pc \in AcceptPoints \ {"switching"}, NEW reply \in Replies, Reply(x, reply),
         reply = "accepted" => Chosen(x) \in root.taken, UNCHANGED <<root, staging, flow, calls, lost, did>>
  PROVE  IInv'
<1> DEFINE r == [pc |-> "over", run |-> accept[x].run, unit |-> accept[x].unit,
                 content |-> accept[x].content, reply |-> reply]
<1>1. accept[x] \in AcceptActive /\ AcceptOK(x) /\ RootOK' /\ Grows
  BY AcceptAtPoint, Untouched DEF IInv
<1>2. r \in AcceptShape
  BY <1>1 DEF AcceptActive, AcceptOver, AcceptShape
<1>3. accept' = [accept EXCEPT ![x] = r] /\ accept'[x] = r
  BY DEF Reply, IInv, Shapes
<1>4. /\ r.pc = "over" /\ r.run = accept[x].run /\ r.unit = accept[x].unit /\ r.content = accept[x].content
      /\ r.reply = reply
  OBVIOUS
<1> HIDE DEF r
<1>5. Chosen(x)' = Chosen(x)
  BY <1>3, <1>4 DEF Chosen
<1>6. ~Mine(x)'
  BY <1>1 DEF AcceptOK, Mine
<1>7. AcceptOK(x)'
  BY <1>1, <1>3, <1>4, <1>5, <1>6 DEF AcceptOK, AcceptPoints
<1> QED
  BY <1>1, <1>2, <1>3, <1>7, AcceptMoves

\* The acceptance goes on to its next step.
LEMMA AcceptGoes ==
  ASSUME IInv, NEW x \in Acceptors, accept[x].pc \in AcceptPoints \ {"switching"},
         NEW r \in AcceptActive, accept' = [accept EXCEPT ![x] = r], r.pc # "switching",
         r.run = accept[x].run, r.unit = accept[x].unit, r.handle = accept[x].handle,
         r.pc # "mount" => r.content \in Content,
         r.pc \notin {"mount", "verify"} => r.unit \in r.content.units,
         accept[x].pc # "mount" => r.content = accept[x].content,
         r.pc \in {"recheck", "committed"} \/ (r.pc \in {"prior", "resolve"} /\ r.prior) => accept[x].pc # "mount" /\ Chosen(x) \in root.taken,
         r.pc = "write" => root.entities[r.unit] = None,
         UNCHANGED <<root, staging, flow, calls, lost, did>>
  PROVE  IInv'
<1>1. AcceptOK(x) /\ RootOK' /\ Grows /\ r \in AcceptShape /\ accept'[x] = r
  BY Untouched DEF IInv, Shapes, AcceptShape
<1>2. ~Mine(x)'
  BY <1>1 DEF AcceptOK, Mine
<1>3. accept[x].pc # "mount" => Chosen(x)' = Chosen(x)
  BY <1>1 DEF Chosen
<1>4. AcceptOK(x)'
  BY <1>1, <1>2, <1>3 DEF AcceptOK, AcceptActive, AcceptPoints
<1> QED
  BY <1>1, <1>4, AcceptMoves

LEMMA BeginAcceptKeeps == ASSUME IInv, NEW x \in Acceptors, BeginAccept(x) PROVE IInv'
<1>1. /\ accept[x].pc = "idle" /\ AcceptOK(x) /\ RootOK' /\ Grows /\ UNCHANGED <<root, staging, flow, calls, lost, did>>
      /\ root.revision \in Nat
  BY Untouched DEF IInv, BeginAccept, RootOK, TreeOK, Tree
<1>2. PICK run \in Runs, u \in Picked :
         accept' = [accept EXCEPT ![x] = [pc |-> "mount", run |-> run, unit |-> u,
             handle |-> root.revision, content |-> None, prior |-> FALSE]]
  BY DEF BeginAccept
<1> DEFINE r == [pc |-> "mount", run |-> run, unit |-> u, handle |-> root.revision, content |-> None, prior |-> FALSE]
<1>3. r \in AcceptShape /\ r.pc = "mount" /\ r.handle = root.revision /\ accept' = [accept EXCEPT ![x] = r]
  BY <1>1, <1>2 DEF AcceptShape, AcceptActive, AcceptPoints
<1> HIDE DEF r
<1>4. accept'[x] = r
  BY <1>3 DEF IInv, Shapes
<1>5. AcceptOK(x)'
  BY <1>1, <1>3, <1>4 DEF AcceptOK, AcceptPoints, Mine
<1> QED
  BY <1>1, <1>3, <1>5, AcceptMoves

LEMMA ReadPreviewKeeps == ASSUME IInv, NEW x \in Acceptors, ReadPreview(x) PROVE IInv'
<1>1. /\ accept[x].pc = "mount" /\ accept[x].pc \in AcceptPoints \ {"switching"}
      /\ UNCHANGED <<root, staging, flow, calls, lost, did>> /\ accept[x] \in AcceptActive /\ root \in Tree
  BY AcceptAtPoint DEF ReadPreview, AcceptPoints, IInv, RootOK, TreeOK
<1>2. CASE \E reply \in {"failed", "stale", "blocked"} : Reply(x, reply)
  BY <1>1, <1>2, AcceptEnds DEF Replies
<1>3. CASE /\ root.previews[accept[x].run] # None
           /\ accept' = [accept EXCEPT ![x].pc = "verify", ![x].content = root.previews[accept[x].run]]
  <2> DEFINE r == [accept[x] EXCEPT !.pc = "verify", !.content = root.previews[accept[x].run]]
  <2>1. root.previews[accept[x].run] \in Content
    BY <1>1, <1>3 DEF AcceptActive, Tree
  <2>2. /\ r \in AcceptActive /\ r.pc = "verify" /\ r.run = accept[x].run /\ r.unit = accept[x].unit
        /\ r.handle = accept[x].handle /\ r.content \in Content
    BY <1>1, <2>1 DEF AcceptActive, AcceptPoints
  <2>3. accept' = [accept EXCEPT ![x] = r]
    BY <1>3 DEF IInv, Shapes
  <2> HIDE DEF r
  <2> QED
    BY <1>1, <2>2, <2>3, AcceptGoes
<1> QED
  BY <1>2, <1>3 DEF ReadPreview

\* A step that moves the acceptance on and leaves the rest of its record alone.
LEMMA AcceptAtGoes ==
  ASSUME IInv, NEW x \in Acceptors, accept[x].pc \in AcceptPoints \ {"switching", "mount"},
         NEW pc \in {"refresh", "write", "recheck", "committed"}, AcceptAt(x, pc),
         accept[x].unit \in accept[x].content.units,
         pc \in {"recheck", "committed"} => Chosen(x) \in root.taken,
         pc = "write" => root.entities[accept[x].unit] = None,
         UNCHANGED <<root, staging, flow, calls, lost, did>>
  PROVE  IInv'
<1> DEFINE r == [accept[x] EXCEPT !.pc = pc]
<1>1. accept[x] \in AcceptActive /\ AcceptOK(x)
  BY AcceptAtPoint DEF IInv
<1>2. /\ r \in AcceptActive /\ r.pc = pc /\ r.run = accept[x].run /\ r.unit = accept[x].unit
      /\ r.handle = accept[x].handle /\ r.content = accept[x].content
  BY <1>1 DEF AcceptActive, AcceptPoints
<1>3. accept' = [accept EXCEPT ![x] = r]
  BY DEF AcceptAt, IInv, Shapes
<1> HIDE DEF r
<1>4. r.content \in Content
  BY <1>1, <1>2 DEF AcceptOK
<1> QED
  BY <1>2, <1>3, <1>4, AcceptGoes

LEMMA VerifyPreviewKeeps == ASSUME IInv, NEW x \in Acceptors, VerifyPreview(x) PROVE IInv'
<1>1. /\ accept[x].pc = "verify" /\ accept[x].pc \in AcceptPoints \ {"switching", "mount"}
      /\ UNCHANGED <<root, staging, flow, calls, lost, did>>
  BY DEF VerifyPreview, AcceptPoints
<1>2. CASE Reply(x, "blocked")
  BY <1>1, <1>2, AcceptEnds DEF Replies
<1>3. CASE accept[x].unit \in accept[x].content.units /\ AcceptAt(x, "refresh")
  BY <1>1, <1>3, AcceptAtGoes
<1> QED
  BY <1>2, <1>3 DEF VerifyPreview

LEMMA RefreshHandleKeeps == ASSUME IInv, NEW x \in Acceptors, RefreshHandle(x) PROVE IInv'
<1>1. /\ accept[x].pc = "refresh" /\ accept[x].pc \in AcceptPoints \ {"switching", "mount"} /\ AcceptOK(x)
      /\ UNCHANGED <<root, staging, flow, calls, lost, did>>
  BY DEF RefreshHandle, AcceptPoints, IInv
<1>2. CASE \E reply \in {"failed", "stale"} : Reply(x, reply)
  BY <1>1, <1>2, AcceptEnds DEF Replies
<1>3. CASE accept' = [accept EXCEPT ![x].pc = "prior", ![x].prior = Chosen(x) \in root.taken]
  <2> DEFINE known == Chosen(x) \in root.taken
             r == [accept[x] EXCEPT !.pc = "prior", !.prior = known]
  <2>1. accept' = [accept EXCEPT ![x] = r]
    BY <1>3 DEF IInv, Shapes
  <2>2. known \in BOOLEAN /\ (known => Chosen(x) \in root.taken) /\ accept[x] \in AcceptActive
    BY <1>1, AcceptAtPoint DEF IInv
  <2> HIDE DEF known
  <2>3. /\ r \in AcceptActive /\ r.pc = "prior" /\ r.run = accept[x].run /\ r.unit = accept[x].unit
        /\ r.handle = accept[x].handle /\ r.content = accept[x].content /\ r.prior = known
    BY <2>2 DEF AcceptActive, AcceptPoints
  <2> HIDE DEF r
  <2>4. r.content \in Content /\ r.unit \in r.content.units
    BY <1>1, <2>3 DEF AcceptOK, AcceptPoints
  <2> QED
    BY <1>1, <2>1, <2>2, <2>3, <2>4, AcceptGoes
<1> QED
  BY <1>2, <1>3 DEF RefreshHandle

LEMMA ReadPriorKeeps == ASSUME IInv, NEW x \in Acceptors, ReadPrior(x) PROVE IInv'
<1>1. /\ accept[x].pc = "prior" /\ accept[x].pc \in AcceptPoints \ {"switching"} /\ AcceptOK(x)
      /\ UNCHANGED <<root, staging, flow, calls, lost, did>> /\ accept[x] \in AcceptActive
  BY AcceptAtPoint DEF ReadPrior, AcceptPoints, IInv
<1> DEFINE known == accept[x].prior /\ ~Away
           r == [accept[x] EXCEPT !.pc = "resolve", !.prior = known]
<1>2. known \in BOOLEAN /\ (known => Chosen(x) \in root.taken)
  BY <1>1 DEF AcceptOK
<1>3. accept' = [accept EXCEPT ![x] = r]
  BY DEF ReadPrior, IInv, Shapes
<1> HIDE DEF known
<1>4. /\ r \in AcceptActive /\ r.pc = "resolve" /\ r.run = accept[x].run /\ r.unit = accept[x].unit
      /\ r.handle = accept[x].handle /\ r.content = accept[x].content /\ r.prior = known
  BY <1>1, <1>2 DEF AcceptActive, AcceptPoints
<1> HIDE DEF r
<1>5. r.content \in Content /\ r.unit \in r.content.units
  BY <1>1, <1>4 DEF AcceptOK, AcceptPoints
<1> QED
  BY <1>1, <1>2, <1>3, <1>4, <1>5, AcceptGoes

LEMMA ResolveKeeps == ASSUME IInv, NEW x \in Acceptors, Resolve(x) PROVE IInv'
<1>1. /\ accept[x].pc = "resolve" /\ accept[x].pc \in AcceptPoints \ {"switching", "mount"} /\ AcceptOK(x)
      /\ UNCHANGED <<root, staging, flow, calls, lost, did>>
  BY DEF Resolve, AcceptPoints, IInv
<1>2. accept[x].unit \in accept[x].content.units
  BY <1>1 DEF AcceptOK, AcceptPoints
<1>3. CASE \E reply \in {"failed", "blocked"} : Reply(x, reply)
  BY <1>1, <1>3, AcceptEnds DEF Replies
<1>4. CASE root.entities[accept[x].unit] = None /\ AcceptAt(x, "write")
  BY <1>1, <1>2, <1>4, AcceptAtGoes
<1>5. CASE accept[x].prior /\ AcceptAt(x, "recheck")
  <2>1. Chosen(x) \in root.taken
    BY <1>1, <1>5 DEF AcceptOK
  <2> QED
    BY <1>1, <1>2, <1>5, <2>1, AcceptAtGoes
<1> QED
  BY <1>3, <1>4, <1>5 DEF Resolve, OwnEntity

LEMMA RecheckKeeps == ASSUME IInv, NEW x \in Acceptors, Recheck(x) PROVE IInv'
<1>1. /\ accept[x].pc \in AcceptPoints \ {"switching"} /\ Chosen(x) \in root.taken
      /\ UNCHANGED <<root, staging, flow, calls, lost, did>>
  BY DEF Recheck, AcceptPoints, IInv, AcceptOK
<1>2. \E reply \in {"failed", "stale", "accepted"} : Reply(x, reply)
  BY DEF Recheck
<1> QED
  BY <1>1, <1>2, AcceptEnds DEF Replies

LEMMA WriteEntityKeeps == ASSUME IInv, NEW x \in Acceptors, WriteEntity(x) PROVE IInv'
<1>1. /\ accept[x].pc = "write" /\ accept[x].pc \in AcceptPoints \ {"switching", "mount"} /\ AcceptOK(x)
      /\ UNCHANGED <<root, flow, calls, lost, did>> /\ accept[x] \in AcceptActive
  BY AcceptAtPoint DEF WriteEntity, AcceptPoints, IInv
<1>2. /\ accept[x].unit \in accept[x].content.units /\ accept[x].content \in Content
      /\ accept[x].handle <= root.revision
      /\ accept[x].handle = root.revision => root.entities[accept[x].unit] = None
  BY <1>1 DEF AcceptOK, AcceptPoints
<1>3. CASE UNCHANGED staging /\ Reply(x, "failed")
  BY <1>1, <1>3, AcceptEnds DEF Replies
<1>4. CASE UNCHANGED staging /\ Chosen(x) \in root.taken /\ AcceptAt(x, "committed")
  BY <1>1, <1>2, <1>4, AcceptAtGoes
<1>5. CASE /\ root.revision = accept[x].handle /\ AcceptAt(x, "switching")
           /\ Stage(x, [root EXCEPT !.entities[accept[x].unit] = Chosen(x), !.taken = @ \cup {Chosen(x)}])
  <2> DEFINE r == [accept[x] EXCEPT !.pc = "switching"]
             sel == Chosen(x)
             change == [root EXCEPT !.entities[accept[x].unit] = sel, !.taken = @ \cup {sel}]
             t == [change EXCEPT !.revision = root.revision + 1]
  <2>1. /\ r \in AcceptShape /\ r.pc = "switching" /\ r.run = accept[x].run /\ r.unit = accept[x].unit
        /\ r.handle = accept[x].handle /\ r.content = accept[x].content
    BY <1>1 DEF AcceptActive, AcceptShape, AcceptPoints
  <2>2. accept' = [accept EXCEPT ![x] = r] /\ accept'[x] = r
    BY <1>5 DEF AcceptAt, IInv, Shapes
  <2>3. /\ sel \in Selection /\ sel.unit = accept[x].unit /\ sel.content = accept[x].content
        /\ root.entities[sel.unit] = None
    BY <1>1, <1>2, <1>5, PreviewAssumption DEF Chosen, Selection, AcceptActive
  <2>4. Stage(x, change)
    BY <1>5
  <2> HIDE DEF r, sel
  <2>5. t = [[root EXCEPT !.entities[sel.unit] = sel, !.taken = @ \cup {sel}] EXCEPT !.revision = root.revision + 1]
    BY <2>3
  <2> HIDE DEF t
  <2>6. t \in Tree /\ TreeOK(t) /\ Ahead(root, t) /\ t.revision = root.revision + 1 /\ sel \in t.taken
    BY <1>2, <2>3, <2>5, EntityTree DEF IInv, RootOK
  <2> USE DEF t
  <2>7. RootOK' /\ Grows
    BY <1>1, <2>4, <2>6, StageGrows DEF IInv
  <2>8. staging' = [by |-> x, away |-> FALSE, tree |-> t]
    BY <2>4 DEF Stage
  <2> HIDE DEF t
  <2>9. staging'.by = x /\ staging'.tree = t
    BY <2>8
  <2>10. Chosen(x)' = sel
    BY <2>1, <2>2 DEF Chosen, sel
  <2>11. AcceptOK(x)'
    BY <1>1, <1>2, <2>1, <2>2, <2>6, <2>9, <2>10 DEF AcceptOK, AcceptPoints
  <2> QED
    BY <1>1, <2>1, <2>2, <2>7, <2>9, <2>11, AcceptMoves
<1> QED
  BY <1>3, <1>4, <1>5 DEF WriteEntity

LEMMA CommittedKeeps == ASSUME IInv, NEW x \in Acceptors, Committed(x) PROVE IInv'
<1>1. /\ accept[x].pc \in AcceptPoints \ {"switching"} /\ Chosen(x) \in root.taken
      /\ UNCHANGED <<root, staging, flow, calls, lost, did>> /\ Reply(x, "accepted")
  BY DEF Committed, AcceptPoints, IInv, AcceptOK
<1> QED
  BY <1>1, AcceptEnds DEF Replies

-----------------------------------------------------------------------------
(* The invariant, and what follows from it.                                *)

LEMMA StepKeeps == IInv /\ [Next]_vars => IInv'
<1> SUFFICES ASSUME IInv, [Next]_vars PROVE IInv'
  OBVIOUS
<1>1. CASE MoveAside
  BY <1>1, MoveAsideKeeps
<1>2. CASE MoveIn
  BY <1>2, MoveInKeeps
<1>3. ASSUME NEW a \in Attempts, Submitting(a) PROVE IInv'
  BY <1>3, AdmitKeeps, ArchiveKeeps, PrepareKeeps, WriteSourceKeeps, ConfirmKeeps DEF Submitting
<1>4. ASSUME NEW a \in Attempts, Persisting(a) PROVE IInv'
  BY <1>4, PersistingKeeps, LinkKeeps DEF Persisting
<1>5. ASSUME NEW a \in Attempts, Working(a) PROVE IInv'
  BY <1>5, BeginKeeps, AcquireKeeps, ReceiveKeeps, VerifyKeeps, ParseKeeps, PlanKeeps, ExtractKeeps,
     StoredKeeps, ReadBackKeeps, CommittableKeeps, CancelKeeps DEF Working
<1>6. ASSUME NEW x \in Acceptors, Accepting(x) PROVE IInv'
  BY <1>6, BeginAcceptKeeps, ReadPreviewKeeps, VerifyPreviewKeeps, RefreshHandleKeeps, ReadPriorKeeps,
     ResolveKeeps, RecheckKeeps, WriteEntityKeeps, CommittedKeeps DEF Accepting
<1>7. CASE UNCHANGED vars
  <2>1. RootOK' /\ Grows /\ Shapes'
    BY <1>7, Untouched DEF IInv, Shapes, vars, calls
  <2>2. ASSUME NEW a \in Attempts PROVE AttemptOK(a)'
    BY <1>7, <2>1, AttemptKeeps DEF IInv, vars, calls, Mine
  <2>3. ASSUME NEW x \in Acceptors PROVE AcceptOK(x)'
    BY <1>7, <2>1, AcceptKeeps DEF IInv, vars, calls, Mine
  <2> QED
    BY <2>1, <2>2, <2>3 DEF IInv
<1> QED
  BY <1>1, <1>2, <1>3, <1>4, <1>5, <1>6, <1>7 DEF Next

LEMMA Inductive == Spec => []IInv
<1>1. Init => IInv
  BY Begins
<1>2. IInv /\ [Next]_vars => IInv'
  BY StepKeeps
<1> QED
  BY <1>1, <1>2, PTL DEF Spec

(* The types, and: the root never holds a Source without its Raw and the   *)
(* one log of the run that committed it, nor does the copy of a Writer     *)
(* (raw-document-gateway-v04.ts).                                          *)
THEOREM TypeCorrect == Spec => []TypeOK
<1>1. IInv => TypeOK
  <2> SUFFICES ASSUME IInv PROVE TypeOK
    OBVIOUS
  <2>1. Cardinality({r \in Runs : root.logs[r] # None}) <= 1
    <3> DEFINE S == {r \in Runs : root.logs[r] # None}
    <3>1. CASE S = {}
      BY <3>1, FS_EmptySet
    <3>2. ASSUME NEW r \in S PROVE Cardinality(S) <= 1
      <4>1. S = {r}
        BY DEF IInv, RootOK, TreeOK
      <4>2. Cardinality({r}) = 1
        BY FS_Singleton
      <4> QED
        BY <4>1, <4>2
    <3> QED
      BY <3>1, <3>2
  <2>2. staging # None => /\ staging.tree \in Tree /\ staging.away \in BOOLEAN
                          /\ staging.by \in Attempts \cup Acceptors
    BY DEF IInv, RootOK, Staging
  <2> QED
    BY <2>1, <2>2 DEF TypeOK, IInv, Shapes, RootOK, TreeOK
<1> QED
  BY <1>1, Inductive, PTL

(* What the result of an attempt rules out stays ruled out, although the   *)
(* calls that it no longer waits for go on (v04-preview-workflow.ts:691).  *)
THEOREM DeniedStaysTrue == Spec => []DeniedIsTrue
<1>1. IInv => DeniedIsTrue
  <2> SUFFICES ASSUME IInv, NEW a \in Attempts, flow[a].pc = "over"
               PROVE  /\ flow[a].source \in {"not_started", "blocked"} =>
                           "source" \notin did[a] /\ ~(staging # None /\ staging.by = a)
                      /\ flow[a].preview = "not_attempted" => "preview" \notin did[a]
    BY DEF DeniedIsTrue
  <2>1. CallsOK(a) /\ DoneOK(a)
    BY DEF IInv, AttemptOK
  <2> QED
    BY <2>1 DEF CallsOK, DoneOK, Mine
<1> QED
  BY <1>1, Inductive, PTL

(* A preview reported committable is in the Knowledge Base with that       *)
(* content, its Source and its Raw, unless a switch has dropped it         *)
(* (v04-preview-store.ts:833).                                             *)
THEOREM CommittableStaysStored == Spec => []CommittableIsKept
<1>1. IInv => CommittableIsKept
  BY DEF IInv, AttemptOK, PreviewOK, CommittableIsKept
<1> QED
  BY <1>1, Inductive, PTL

(* An accepted candidate is the Entity its selection wrote; nobody else's  *)
(* Entity is claimed (v04-candidate-acceptance.ts:248).                    *)
THEOREM AcceptedIsWritten == Spec => []AcceptanceIsTrue
<1>1. IInv => AcceptanceIsTrue
  <2> SUFFICES ASSUME IInv PROVE AcceptanceIsTrue
    OBVIOUS
  <2>1. TreeOK(root)
    BY DEF IInv, RootOK
  <2>2. ASSUME NEW x \in Acceptors, accept[x].pc = "over", accept[x].reply = "accepted"
        PROVE  root.entities[accept[x].unit] = Chosen(x) /\ Chosen(x) \in root.taken
    <3>1. Chosen(x) \in root.taken /\ Chosen(x).unit = accept[x].unit
      BY <2>2 DEF IInv, AcceptOK, Chosen
    <3> QED
      BY <2>1, <3>1 DEF TreeOK
  <2> QED
    BY <2>1, <2>2 DEF TreeOK, AcceptanceIsTrue
<1> QED
  BY <1>1, Inductive, PTL

-----------------------------------------------------------------------------
(* What a switch may drop.                                                 *)

(* A copy that waits holds of each preview what the root holds or nothing, *)
(* and every log of the root.                                              *)
CopyOK ==
    staging # None =>
        /\ \A r \in Runs : staging.tree.previews[r] \in {None, root.previews[r]}
        /\ \A r \in Runs : root.logs[r] # None => staging.tree.logs[r] = root.logs[r]

OnlyOldCopiesDrop ==
    [][/\ root.revision <= root'.revision /\ (root.source => root'.source) /\ (root.raw => root'.raw)
       /\ \A r \in Runs : root.logs[r] # None => root'.logs[r] = root.logs[r]
       /\ \A u \in Units : root.entities[u] # None => root'.entities[u] = root.entities[u]
       /\ root.taken \subseteq root'.taken
       /\ \A r \in Runs :
            root.previews[r] # None /\ root'.previews[r] # root.previews[r] =>
                /\ root'.previews[r] = None
                /\ Away /\ staging.tree.previews[r] = None]_vars

\* A copy that a Writer makes: of the root, with the Source and its log or an Entity added.
Copies(t) ==
    /\ t.previews = root.previews
    /\ \A r \in Runs : root.logs[r] # None => t.logs[r] = root.logs[r]

LEMMA CopyOfSource ==
  ASSUME IInv, NEW a \in Attempts, WriteSource(a), ~UNCHANGED staging
  PROVE  staging = None /\ UNCHANGED root /\ Copies(staging'.tree)
<1> DEFINE change == [root EXCEPT !.source = TRUE, !.logs[Ran(a)] = root.revision + 1]
           t == [change EXCEPT !.revision = root.revision + 1]
<1>1. staging = None /\ UNCHANGED root /\ root.logs[Ran(a)] = None /\ staging'.tree = t
  BY DEF WriteSource, Stage, LockFree
<1>2. root \in Tree /\ root.logs \in [Runs -> Nat \cup {None}]
  BY DEF IInv, RootOK, TreeOK, Tree
<1>3. t.previews = root.previews /\ t.logs = [root.logs EXCEPT ![Ran(a)] = root.revision + 1]
  BY <1>2 DEF Tree
<1> HIDE DEF t
<1> QED
  BY <1>1, <1>2, <1>3 DEF Copies

LEMMA CopyOfEntity ==
  ASSUME IInv, NEW x \in Acceptors, WriteEntity(x), ~UNCHANGED staging
  PROVE  staging = None /\ UNCHANGED root /\ Copies(staging'.tree)
<1> DEFINE change == [root EXCEPT !.entities[accept[x].unit] = Chosen(x), !.taken = @ \cup {Chosen(x)}]
           t == [change EXCEPT !.revision = root.revision + 1]
<1>1. staging = None /\ UNCHANGED root /\ staging'.tree = t
  BY DEF WriteEntity, Stage, LockFree
<1>2. root \in Tree
  BY DEF IInv, RootOK, TreeOK
<1>3. t.previews = root.previews /\ t.logs = root.logs
  BY <1>2 DEF Tree
<1> HIDE DEF t
<1> QED
  BY <1>1, <1>3 DEF Copies

(* The steps by what they do to the root and to the copy.                  *)
LEMMA RootSteps ==
  ASSUME IInv, [Next]_vars
  PROVE  \/ UNCHANGED <<root, staging>>
         \/ MoveAside \/ MoveIn
         \/ staging = None /\ UNCHANGED root /\ Copies(staging'.tree)
         \/ \E a \in Attempts : Archive(a)
         \/ \E a \in Attempts : Link(a)
<1>1. ASSUME NEW a \in Attempts, Submitting(a)
      PROVE  \/ UNCHANGED <<root, staging>> \/ Archive(a)
             \/ staging = None /\ UNCHANGED root /\ Copies(staging'.tree)
  <2>1. CASE WriteSource(a)
    BY <2>1, CopyOfSource DEF WriteSource
  <2> QED
    BY <1>1, <2>1 DEF Submitting, Admit, Prepare, Confirm
<1>2. ASSUME NEW a \in Attempts, Persisting(a) PROVE UNCHANGED <<root, staging>> \/ Link(a)
  BY <1>2 DEF Persisting, BeginPersist, Look, ReadStored, FinalCheck
<1>3. ASSUME NEW a \in Attempts, Working(a) PROVE UNCHANGED <<root, staging>>
  BY <1>3 DEF Working, Begin, Acquire, Receive, Verify, Parse, Plan, Extract, Stored, ReadBack,
              Committable, Cancel
<1>4. ASSUME NEW x \in Acceptors, Accepting(x)
      PROVE  \/ UNCHANGED <<root, staging>>
             \/ staging = None /\ UNCHANGED root /\ Copies(staging'.tree)
  <2>1. CASE WriteEntity(x)
    BY <2>1, CopyOfEntity DEF WriteEntity
  <2>2. CASE ~WriteEntity(x)
    BY <1>4, <2>2
    DEF Accepting, BeginAccept, ReadPreview, VerifyPreview, RefreshHandle, ReadPrior, Resolve, Recheck, Committed
  <2> QED
    BY <2>1, <2>2
<1>5. CASE UNCHANGED vars
  BY <1>5 DEF vars
<1> QED
  BY <1>1, <1>2, <1>3, <1>4, <1>5 DEF Next

LEMMA LinkAdds ==
  ASSUME IInv, NEW a \in Attempts, Link(a)
  PROVE  /\ UNCHANGED staging /\ root'.logs = root.logs
         /\ \A r \in Runs : root'.previews[r] # root.previews[r] => root.previews[r] = None
<1>1. root \in Tree /\ root.previews \in [Runs -> Content \cup {None}]
  BY DEF IInv, RootOK, TreeOK, Tree
<1>2. CASE UNCHANGED root
  BY <1>2 DEF Link
<1>3. CASE MayLink(Ran(a)) /\ root' = [root EXCEPT !.previews[Ran(a)] = flow[a].content]
  <2>1. root'.logs = root.logs /\ root'.previews = [root.previews EXCEPT ![Ran(a)] = flow[a].content]
    BY <1>1, <1>3 DEF Tree
  <2> QED
    BY <1>1, <1>3, <2>1 DEF Link, MayLink
<1> QED
  BY <1>2, <1>3 DEF Link

LEMMA CopyStep == IInv /\ CopyOK /\ [Next]_vars => CopyOK'
<1> SUFFICES ASSUME IInv, CopyOK, [Next]_vars PROVE CopyOK'
  OBVIOUS
<1>1. CASE UNCHANGED <<root, staging>>
  BY <1>1 DEF CopyOK
<1>2. CASE MoveAside
  <2>1. staging # None /\ UNCHANGED root /\ staging'.tree = staging.tree
    BY <1>2 DEF MoveAside, IInv, RootOK, Staging
  <2> QED
    BY <2>1 DEF CopyOK
<1>3. CASE MoveIn
  BY <1>3 DEF MoveIn, CopyOK
<1>4. CASE staging = None /\ UNCHANGED root /\ Copies(staging'.tree)
  BY <1>4 DEF CopyOK, Copies
<1>5. ASSUME NEW a \in Attempts, Archive(a) PROVE CopyOK'
  BY <1>5 DEF Archive, LockFree, CopyOK
<1>6. ASSUME NEW a \in Attempts, Link(a) PROVE CopyOK'
  <2>1. /\ UNCHANGED staging /\ root'.logs = root.logs
        /\ \A r \in Runs : root'.previews[r] # root.previews[r] => root.previews[r] = None
    BY <1>6, LinkAdds
  <2> QED
    BY <2>1 DEF CopyOK
<1> QED
  BY <1>1, <1>2, <1>3, <1>4, <1>5, <1>6, RootSteps

LEMMA DropStep ==
  ASSUME IInv, CopyOK, [Next]_vars
  PROVE  /\ root.revision <= root'.revision /\ (root.source => root'.source) /\ (root.raw => root'.raw)
         /\ \A r \in Runs : root.logs[r] # None => root'.logs[r] = root.logs[r]
         /\ \A u \in Units : root.entities[u] # None => root'.entities[u] = root.entities[u]
         /\ root.taken \subseteq root'.taken
         /\ \A r \in Runs :
              root.previews[r] # None /\ root'.previews[r] # root.previews[r] =>
                  /\ root'.previews[r] = None
                  /\ Away /\ staging.tree.previews[r] = None
<1>0. RootOK /\ root \in Tree
  BY DEF IInv, RootOK, TreeOK
<1> DEFINE Logs == \A r \in Runs : root.logs[r] # None => root'.logs[r] = root.logs[r]
           Previews == \A r \in Runs :
                         root.previews[r] # None /\ root'.previews[r] # root.previews[r] =>
                             root'.previews[r] = None /\ Away /\ staging.tree.previews[r] = None
<1>1. CASE UNCHANGED root
  <2>1. Ahead(root, root') /\ Logs /\ Previews
    BY <1>0, <1>1, AheadIsReflexive
  <2> QED
    BY <2>1 DEF Ahead
<1>2. CASE MoveIn
  <2>1. Ahead(root, root')
    BY <1>0, <1>2, MoveInGrows DEF Grows
  <2>2. Away /\ staging # None /\ root' = staging.tree
    BY <1>2 DEF MoveIn, Away
  <2>3. Logs /\ Previews
    BY <2>2 DEF CopyOK
  <2> QED
    BY <2>1, <2>3 DEF Ahead
<1>3. ASSUME NEW a \in Attempts, Archive(a) PROVE Ahead(root, root') /\ Logs /\ Previews
  <2>1. Ahead(root, root')
    BY <1>0, <1>3, ArchiveGrows DEF Grows
  <2>2. root'.logs = root.logs /\ root'.previews = root.previews
    BY <1>0, <1>3 DEF Archive, Tree
  <2> QED
    BY <2>1, <2>2
<1>4. ASSUME NEW a \in Attempts, Link(a) PROVE Ahead(root, root') /\ Logs /\ Previews
  <2>1. flow[a].run \in Runs /\ flow[a].content \in Content
    BY <1>4, LinkerFacts
  <2>2. Ahead(root, root')
    BY <1>0, <1>4, <2>1, LinkGrows DEF Grows
  <2> QED
    BY <1>4, <2>2, LinkAdds
<1>5. MoveAside => UNCHANGED root
  BY DEF MoveAside
<1> HIDE DEF Logs, Previews
<1>6. CASE \E a \in Attempts : Archive(a) \/ Link(a)
  <2>1. Ahead(root, root') /\ Logs /\ Previews
    BY <1>3, <1>4, <1>6
  <2> QED
    BY <2>1 DEF Ahead, Logs, Previews
<1> QED
  BY <1>1, <1>2, <1>5, <1>6, RootSteps

(* Nothing that a Writer has committed, and no Raw, ever leaves the root;  *)
(* a preview is never replaced by another one, and the only thing that     *)
(* removes it is the switch of a copy made before it was linked            *)
(* (root-transaction.ts, v04-preview-store.ts:833).                        *)
THEOREM OnlyASwitchDrops == Spec => OnlyOldCopiesDrop
<1>1. Init => CopyOK
  BY DEF Init, CopyOK
<1>2. IInv /\ CopyOK /\ [Next]_vars => CopyOK'
  BY CopyStep
<1>3. IInv /\ CopyOK /\ [Next]_vars =>
        [/\ root.revision <= root'.revision /\ (root.source => root'.source) /\ (root.raw => root'.raw)
         /\ \A r \in Runs : root.logs[r] # None => root'.logs[r] = root.logs[r]
         /\ \A u \in Units : root.entities[u] # None => root'.entities[u] = root.entities[u]
         /\ root.taken \subseteq root'.taken
         /\ \A r \in Runs :
              root.previews[r] # None /\ root'.previews[r] # root.previews[r] =>
                  /\ root'.previews[r] = None
                  /\ Away /\ staging.tree.previews[r] = None]_vars
  BY DropStep
<1> QED
  BY <1>1, <1>2, <1>3, Inductive, PTL DEF Spec, OnlyOldCopiesDrop
=============================================================================
