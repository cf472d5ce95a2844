-------------------------- MODULE ThesisDecisionProofs --------------------------
(***************************************************************************)
(* What ThesisDecision promises about its file, its Writer run and its     *)
(* replies, for every number of callers, notes, events, foreign commits    *)
(* and faults.                                                             *)
(*                                                                         *)
(* A call works with a copy of the file, `seen`, that is out of date as    *)
(* soon as another call writes.  The argument: a copy is always a prefix   *)
(* of the file, only the last event of the file can be final, so there is  *)
(* one intent at most; and a call that goes to the Writer or concludes     *)
(* carries the note, the revision and the log of the intent it has seen.   *)
(***************************************************************************)
EXTENDS ThesisDecision, FiniteSetTheorems, TLAPS

-----------------------------------------------------------------------------
(* The inductive invariant. *)

Full == [pc : {"mount", "assets", "log", "submit", "commit", "APPLYING", "REJECTED", "DEFERRED"},
         decision : {"ACCEPT", "REJECT", "DEFER"}, note : Notes, seen : Seq(Event),
         stage : {"rebind", "verify"}, revision : Nat, log : Nat \cup {None},
         written : {"none", "no_changes", "committed", "failed"}, reply : {"none"}]
Concluding == [pc : {"ACCEPTED", "REJECTED", "DEFERRED"}, seen : Seq(Event), note : Notes,
               log : Nat \cup {None}, reply : {"none"}]
Stopping == [pc : {"STALE"}, seen : Seq(Event), why : Diagnostics, reply : {"none"}]
Said == [pc : {"idle", "sync", "report"},
         reply : {"none", "accepted", "rejected", "deferred", "stale", "in_progress", "conflict",
                  "failed"}]

\* What a call has seen, of the file `es`.
Prefix(seen, es) == Len(seen) <= Len(es) /\ \A i \in 1..Len(seen) : seen[i] = es[i]

\* The intent a call has seen is the one it carries.
Carries(k) == StateOf(k.seen) = "APPLYING" /\ k.note = Last(k.seen).note

CallOK(k, es, lg) ==
    /\ k \in Full \cup Concluding \cup Stopping \cup Said
    /\ k.pc \notin {"idle", "sync", "report"} => Prefix(k.seen, es)
    /\ k.pc = "report" => k.reply \in DOMAIN StateFor
    /\ k.pc \in {"submit", "commit"} => Carries(k) /\ k.revision = Last(k.seen).at
    /\ k.pc = "log" => k.stage = "verify"
    /\ k.pc \in {"log", "mount", "assets"} /\ k.stage = "verify" =>
         /\ StateOf(k.seen) \in {"APPLYING", "ACCEPTED"} /\ k.note = Last(k.seen).note
         /\ k.written # "none" => StateOf(k.seen) = "APPLYING"
         /\ k.pc # "log" /\ k.log # None => k.log = lg[k.note]
    /\ k.pc \in {"mount", "assets"} /\ k.stage = "rebind" =>
         (StateOf(k.seen) = "APPLYING" => Carries(k))
    /\ k.pc = "ACCEPTED" => Carries(k) /\ k.log # None /\ k.log = lg[k.note]

\* What a call has been told, of the file `es`.
Told(k, es) ==
    /\ k.reply \in {"accepted", "rejected", "stale"} => StateOf(es) = StateFor[k.reply]
    /\ k.reply = "deferred" => "DEFERRED" \in Types(es)

FileOK(es) ==
    /\ es \in Seq(Event) /\ Len(es) <= MAX_EVENTS
    /\ \A i \in 1..Len(es) : Transition(IF i = 1 THEN "OPEN" ELSE es[i - 1].type, es[i].type)
    /\ \A i \in 1..Len(es) : i < Len(es) => es[i].type \in {"DEFERRED", "APPLYING"}

LogsOK(lg, es) ==
    /\ lg \in [Notes -> Nat \cup {None}]
    /\ \A n \in Notes : lg[n] # None =>
         \E i \in 1..Len(es) : es[i].type = "APPLYING" /\ es[i].note = n /\ lg[n] = es[i].at + 1
    /\ StateOf(es) = "ACCEPTED" => Last(es).at # None /\ lg[Last(es).note] = Last(es).at

IInv ==
    /\ FileOK(events) /\ LogsOK(logs, events)
    /\ base \in [revision : Nat, rebinds : BOOLEAN, edges : BOOLEAN]
    /\ report \in States \cup {None} /\ alone \in BOOLEAN
    /\ DOMAIN call = Callers /\ call = [c \in Callers |-> call[c]]
    /\ \A c \in Callers : CallOK(call[c], events, logs) /\ Told(call[c], events)

-----------------------------------------------------------------------------
(* Lemmas about the file. *)

\* The state of a copy is its last event.
LEMMA StateIsLast ==
    ASSUME NEW es \in Seq(Event)
    PROVE  /\ es = <<>> <=> StateOf(es) = "OPEN"
           /\ es # <<>> => Len(es) \in Nat \ {0} /\ Last(es) = es[Len(es)] /\ Last(es) \in Event
                           /\ StateOf(es) = Last(es).type
           /\ StateOf(es) \in States
<1>1. CASE es = <<>>
  BY <1>1 DEF StateOf, States
<1>2. CASE es # <<>>
  <2>1. Len(es) \in Nat \ {0} /\ es[Len(es)] \in Event
    BY <1>2
  <2> QED
    BY <1>2, <2>1 DEF StateOf, Last, Event, States
<1> QED
  BY <1>1, <1>2

\* A copy that ends in a final event is the file, and an intent that was seen is in it.
LEMMA PrefixFacts ==
    ASSUME NEW es, FileOK(es), NEW seen \in Seq(Event), Prefix(seen, es)
    PROVE  /\ StateOf(seen) \in {"ACCEPTED", "REJECTED", "STALE"} =>
                Len(seen) = Len(es) /\ StateOf(seen) = StateOf(es)
           /\ seen # <<>> => Len(seen) \in 1..Len(es) /\ Last(seen) = es[Len(seen)]
<1>1. seen # <<>> => Len(seen) \in 1..Len(es) /\ Last(seen) = es[Len(seen)]
  BY StateIsLast DEF Prefix, FileOK
<1>2. ASSUME StateOf(seen) \in {"ACCEPTED", "REJECTED", "STALE"}
      PROVE  Len(seen) = Len(es) /\ StateOf(seen) = StateOf(es)
  <2>1. seen # <<>> /\ StateOf(seen) = es[Len(seen)].type /\ Len(seen) \in 1..Len(es)
    BY <1>1, <1>2, StateIsLast
  <2>2. Len(seen) = Len(es)
    BY <2>1, <1>2 DEF FileOK, Prefix
  <2>3. es # <<>> /\ es \in Seq(Event)
    BY <2>1 DEF FileOK
  <2> QED
    BY <2>1, <2>2, <2>3, StateIsLast
<1> QED
  BY <1>1, <1>2

LEMMA AfterIntent ==
    ASSUME NEW t \in States \ {"OPEN"}, Transition("APPLYING", t)
    PROVE  t \in {"ACCEPTED", "STALE"}
<1>1. CASE t \in {"DEFERRED", "APPLYING", "REJECTED"}
  BY <1>1 DEF Transition
<1> QED
  BY <1>1 DEF States

\* There is one intent at most, and after it only the verdict on it.
LEMMA OneIntent ==
    ASSUME NEW es, FileOK(es), NEW i \in 1..Len(es), es[i].type = "APPLYING"
    PROVE  /\ i = Len(es) \/ (i = Len(es) - 1 /\ StateOf(es) \in {"ACCEPTED", "STALE"})
           /\ StateOf(es) \in {"APPLYING", "ACCEPTED", "STALE"}
           /\ \A j \in 1..Len(es) : es[j].type = "APPLYING" => j = i
<1>0. es \in Seq(Event) /\ es # <<>> /\ Len(es) \in Nat
  BY DEF FileOK
<1>a. \A j \in 1..Len(es) :
        Transition(IF j = 1 THEN "OPEN" ELSE es[j - 1].type, es[j].type)
  BY <1>0 DEF FileOK
<1>c. \A j \in 1..Len(es) : j < Len(es) => es[j].type \in {"DEFERRED", "APPLYING"}
  BY <1>0 DEF FileOK
<1>b. \A j \in 1..Len(es) : es[j] \in Event
  BY <1>0
<1>1. \A j \in 1..Len(es) : es[j].type = "APPLYING" /\ j # Len(es) =>
        j = Len(es) - 1 /\ es[Len(es)].type \in {"ACCEPTED", "STALE"}
  <2> SUFFICES ASSUME NEW j \in 1..Len(es), es[j].type = "APPLYING", j # Len(es)
               PROVE  j = Len(es) - 1 /\ es[Len(es)].type \in {"ACCEPTED", "STALE"}
    OBVIOUS
  <2>1. j + 1 \in 1..Len(es) /\ j \in Nat \ {0}
    BY <1>0
  <2>2. Transition("APPLYING", es[j + 1].type)
    <3>1. j + 1 \in 1..Len(es) /\ j + 1 # 1 /\ j + 1 - 1 = j
      BY <2>1, <1>0
    <3>2. Transition(es[j + 1 - 1].type, es[j + 1].type)
      BY <3>1, <1>a
    <3> QED
      BY <3>1, <3>2
  <2>3. es[j + 1].type \in States \ {"OPEN"}
    BY <2>1, <1>0, <1>b DEF Event
  <2>4. es[j + 1].type \in {"ACCEPTED", "STALE"}
    BY <2>2, <2>3, AfterIntent
  <2> QED
    <3>1. ~(j + 1 < Len(es))
      BY <2>1, <2>4, <1>0, <1>c
    <3> QED
      BY <2>1, <2>4, <3>1, <1>0
<1>2. StateOf(es) = es[Len(es)].type
  BY <1>0, StateIsLast
<1> QED
  BY <1>0, <1>1, <1>2

\* An event that is written leaves a file, and every copy a prefix of it.
LEMMA AppendFacts ==
    ASSUME NEW es, FileOK(es), NEW e \in Event, Len(es) < MAX_EVENTS,
           StateOf(es) \notin {"ACCEPTED", "REJECTED", "STALE"}, Transition(StateOf(es), e.type)
    PROVE  /\ FileOK(Append(es, e))
           /\ StateOf(Append(es, e)) = e.type /\ Last(Append(es, e)) = e
           /\ Types(es) \cup {e.type} \subseteq Types(Append(es, e))
           /\ \A seen \in Seq(Event) : Prefix(seen, es) => Prefix(seen, Append(es, e))
           /\ Prefix(Append(es, e), Append(es, e))
<1> DEFINE n == Len(es)
           all == Append(es, e)
<1>0. es \in Seq(Event) /\ n \in Nat /\ n < MAX_EVENTS /\ MAX_EVENTS \in Nat
  BY DecisionAssumption DEF FileOK
<1>1. /\ all \in Seq(Event) /\ Len(all) = n + 1 /\ all[n + 1] = e
      /\ \A i \in 1..n : all[i] = es[i]
  BY <1>0
<1>2. StateOf(all) = e.type /\ Last(all) = e
  <2>1. all # <<>> /\ Last(all) = e
    BY <1>0, <1>1 DEF Last
  <2> QED
    BY <1>1, <2>1, StateIsLast
<1>3. \A i \in 1..n + 1 : Transition(IF i = 1 THEN "OPEN" ELSE all[i - 1].type, all[i].type)
  <2> SUFFICES ASSUME NEW i \in 1..n + 1
               PROVE  Transition(IF i = 1 THEN "OPEN" ELSE all[i - 1].type, all[i].type)
    OBVIOUS
  <2>1. CASE i = n + 1
    <3>1. StateOf(es) = IF i = 1 THEN "OPEN" ELSE all[i - 1].type
      <4>1. CASE n = 0
        BY <4>1, <2>1, <1>0 DEF StateOf
      <4>2. CASE n # 0
        <5>1. es # <<>> /\ StateOf(es) = es[n].type
          BY <4>2, <1>0, StateIsLast
        <5> QED
          BY <5>1, <4>2, <2>1, <1>0, <1>1
      <4> QED
        BY <4>1, <4>2
    <3>2. all[i].type = e.type
      BY <2>1, <1>1
    <3> QED
      BY <3>1, <3>2
  <2>2. CASE i # n + 1
    <3>1. i \in 1..n /\ all[i] = es[i] /\ (i # 1 => all[i - 1] = es[i - 1])
      BY <2>2, <1>0, <1>1
    <3>2. Transition(IF i = 1 THEN "OPEN" ELSE es[i - 1].type, es[i].type)
      BY <3>1 DEF FileOK
    <3>3. (IF i = 1 THEN "OPEN" ELSE es[i - 1].type) = (IF i = 1 THEN "OPEN" ELSE all[i - 1].type)
      BY <3>1
    <3> QED
      BY <3>1, <3>2, <3>3
  <2> QED
    BY <2>1, <2>2
<1>4. \A i \in 1..n + 1 : i < n + 1 => all[i].type \in {"DEFERRED", "APPLYING"}
  <2> SUFFICES ASSUME NEW i \in 1..n PROVE es[i].type \in {"DEFERRED", "APPLYING"}
    BY <1>0, <1>1
  <2>1. CASE i < n
    BY <2>1, <1>0 DEF FileOK
  <2>2. CASE i = n
    BY <2>2, <1>0, StateIsLast DEF States
  <2> QED
    BY <2>1, <2>2, <1>0
<1>5. FileOK(all)
  BY <1>0, <1>1, <1>3, <1>4 DEF FileOK
<1>6. Types(es) \cup {e.type} \subseteq Types(all)
  BY <1>0, <1>1 DEF Types
<1>7. \A seen \in Seq(Event) : Prefix(seen, es) => Prefix(seen, all)
  BY <1>0, <1>1 DEF Prefix
<1>8. Prefix(all, all)
  BY <1>1, <1>0 DEF Prefix
<1> QED
  BY <1>2, <1>5, <1>6, <1>7, <1>8

\* A log that the Writer makes for an intent of the file is one that LogsOK admits.
LEMMA LogFacts ==
    ASSUME NEW es, FileOK(es), NEW lg, LogsOK(lg, es), NEW n \in Notes, lg[n] = None,
           NEW i \in 1..Len(es), es[i].type = "APPLYING", es[i].note = n
    PROVE  LogsOK([lg EXCEPT ![n] = es[i].at + 1], es)
<1>0. es \in Seq(Event) /\ es[i] \in Event /\ es # <<>>
  BY DEF FileOK
<1>1. es[i].at \in Nat
  BY <1>0 DEF Event
<1>2. StateOf(es) = "ACCEPTED" => Last(es) \in Event /\ lg[Last(es).note] # None
  BY <1>0, StateIsLast DEF LogsOK
<1> QED
  BY <1>1, <1>2 DEF LogsOK

-----------------------------------------------------------------------------
(* Steps that only take one call on. *)

LEMMA OnlyCall ==
    ASSUME IInv, NEW c \in Callers, NEW k, call' = [call EXCEPT ![c] = k],
           UNCHANGED <<events, base, logs, report>>, alone' \in BOOLEAN,
           CallOK(k, events, logs), Told(k, events)
    PROVE  IInv'
<1>1. \A d \in Callers : call'[d] = IF d = c THEN k ELSE call[d]
  BY DEF IInv
<1>2. \A d \in Callers : CallOK(call'[d], events, logs) /\ Told(call'[d], events)
  BY <1>1 DEF IInv
<1>3. DOMAIN call' = Callers /\ call' = [d \in Callers |-> call'[d]]
  BY DEF IInv
<1> QED
  BY <1>2, <1>3 DEF IInv

\* Where a call is tells what it carries.
LEMMA CallShape ==
    ASSUME NEW k, NEW es, NEW lg, CallOK(k, es, lg)
    PROVE  /\ k.pc \in {"mount", "assets", "log", "submit", "commit", "APPLYING"} => k \in Full
           /\ k.pc = "ACCEPTED" => k \in Concluding
           /\ k.pc = "STALE" => k \in Stopping
           /\ k.pc \in {"REJECTED", "DEFERRED"} => k \in Full \cup Concluding
           /\ k.pc \in {"idle", "sync", "report"} <=> k \in Said
  BY DEF CallOK, Full, Concluding, Stopping, Said

LEMMA MountKeeps == ASSUME IInv, NEW c \in Callers, Mount(c) PROVE IInv'
<1> DEFINE k == call[c]
           l == [k EXCEPT !.pc = "assets", !.revision = base.revision]
<1>1. k \in Full /\ k.pc = "mount" /\ CallOK(k, events, logs)
  BY CallShape DEF IInv, Mount
<1>2. base.revision \in Nat
  BY DEF IInv
<1>3. /\ l \in Full /\ l.pc = "assets" /\ l.seen = k.seen /\ l.note = k.note /\ l.stage = k.stage
      /\ l.log = k.log /\ l.written = k.written /\ l.reply = "none"
  BY <1>1, <1>2 DEF Full
<1>4. CallOK(l, events, logs) /\ Told(l, events)
  BY <1>1, <1>3 DEF CallOK, Told, Carries
<1>5. call' = [call EXCEPT ![c] = l]
  BY DEF Mount
<1> HIDE DEF l
<1> QED
  BY <1>4, <1>5, OnlyCall DEF Mount, knowledge, IInv

LEMMA ReadLogKeeps == ASSUME IInv, NEW c \in Callers, ReadLog(c) PROVE IInv'
<1> DEFINE k == call[c]
           l == [k EXCEPT !.pc = "mount", !.log = logs[k.note]]
<1>1. k \in Full /\ k.pc = "log" /\ CallOK(k, events, logs)
  BY CallShape DEF IInv, ReadLog
<1>2. k.note \in Notes /\ logs[k.note] \in Nat \cup {None}
  BY <1>1 DEF IInv, LogsOK, Full
<1>3. /\ l \in Full /\ l.pc = "mount" /\ l.seen = k.seen /\ l.note = k.note /\ l.stage = k.stage
      /\ l.log = logs[l.note] /\ l.written = k.written /\ l.reply = "none"
  BY <1>1, <1>2 DEF Full
<1>4. CallOK(l, events, logs) /\ Told(l, events)
  BY <1>1, <1>3 DEF CallOK, Told, Carries
<1>5. call' = [call EXCEPT ![c] = l]
  BY DEF ReadLog
<1> HIDE DEF l
<1> QED
  BY <1>4, <1>5, OnlyCall DEF ReadLog, knowledge, IInv

Untouched == UNCHANGED <<events, base, logs, report, alone>>

LEMMA StaleKeeps ==
    ASSUME IInv, NEW c \in Callers, NEW why \in Diagnostics, call[c] \in Full, Stale(c, why), Untouched
    PROVE  IInv'
<1> DEFINE l == [pc |-> "STALE", seen |-> call[c].seen, why |-> why, reply |-> "none"]
<1>1. call[c].seen \in Seq(Event) /\ Prefix(call[c].seen, events)
  BY DEF IInv, CallOK, Full
<1>2. CallOK(l, events, logs) /\ Told(l, events)
  BY <1>1 DEF CallOK, Told, Stopping
<1>3. call' = [call EXCEPT ![c] = l]
  BY DEF Stale
<1> HIDE DEF l
<1> QED
  BY <1>2, <1>3, OnlyCall DEF Untouched, IInv

LEMMA ConcludeKeeps ==
    ASSUME IInv, NEW c \in Callers, NEW type \in {"ACCEPTED", "REJECTED", "DEFERRED"},
           call[c] \in Full, Conclude(c, type), Untouched,
           type = "ACCEPTED" => /\ Carries(call[c]) /\ call[c].log # None
                                /\ call[c].log = logs[call[c].note]
    PROVE  IInv'
<1> DEFINE l == [pc |-> type, seen |-> call[c].seen, note |-> call[c].note, log |-> call[c].log,
                 reply |-> "none"]
<1>1. call[c].seen \in Seq(Event) /\ Prefix(call[c].seen, events)
  BY DEF IInv, CallOK, Full
<1>2. CallOK(l, events, logs) /\ Told(l, events)
  BY <1>1 DEF CallOK, Told, Concluding, Full, Carries
<1>3. call' = [call EXCEPT ![c] = l]
  BY DEF Conclude
<1> HIDE DEF l
<1> QED
  BY <1>2, <1>3, OnlyCall DEF Untouched, IInv

LEMMA ReplyKeeps ==
    ASSUME IInv, NEW c \in Callers,
           NEW reply \in {"accepted", "rejected", "deferred", "stale", "in_progress", "conflict", "failed"},
           Reply(c, reply), Untouched,
           reply \in {"accepted", "rejected", "stale"} => state = StateFor[reply],
           reply = "deferred" => "DEFERRED" \in Types(events)
    PROVE  IInv'
<1> DEFINE l == [pc |-> "sync", reply |-> reply]
<1>1. CallOK(l, events, logs) /\ Told(l, events)
  BY DEF CallOK, Told, Said, state
<1>2. call' = [call EXCEPT ![c] = l]
  BY DEF Reply
<1> HIDE DEF l
<1> QED
  BY <1>1, <1>2, OnlyCall DEF Untouched, IInv

LEMMA RebindKeeps == ASSUME IInv, NEW c \in Callers, Rebind(c) PROVE IInv'
<1> DEFINE k == call[c]
           Move(pc) == [k EXCEPT !.pc = pc]
<1>1. k \in Full /\ k.pc = "assets" /\ k.stage = "rebind" /\ CallOK(k, events, logs) /\ Untouched
  BY CallShape DEF IInv, Rebind, Untouched, knowledge
<1>2. ASSUME NEW why \in Diagnostics, Stale(c, why) PROVE IInv'
  BY <1>1, <1>2, StaleKeeps
<1>3. CASE Conclude(c, "DEFERRED") \/ Conclude(c, "REJECTED")
  BY <1>1, <1>3, ConcludeKeeps
<1>4. ASSUME Goto(c, "submit"), StateOf(k.seen) = "APPLYING", k.revision = Last(k.seen).at
      PROVE  IInv'
  <2>1. /\ Move("submit") \in Full /\ Move("submit").pc = "submit" /\ Move("submit").seen = k.seen
        /\ Move("submit").note = k.note /\ Move("submit").revision = k.revision
        /\ Move("submit").reply = "none"
    BY <1>1 DEF Full
  <2>2. CallOK(Move("submit"), events, logs) /\ Told(Move("submit"), events)
    BY <1>1, <1>4, <2>1 DEF CallOK, Told, Carries
  <2>3. call' = [call EXCEPT ![c] = Move("submit")]
    BY <1>4 DEF Goto
  <2> HIDE DEF Move
  <2> QED
    BY <1>1, <2>2, <2>3, OnlyCall DEF Untouched, IInv
<1>5. ASSUME Goto(c, "APPLYING") PROVE IInv'
  <2>1. /\ Move("APPLYING") \in Full /\ Move("APPLYING").pc = "APPLYING"
        /\ Move("APPLYING").seen = k.seen /\ Move("APPLYING").reply = "none"
    BY <1>1 DEF Full
  <2>2. CallOK(Move("APPLYING"), events, logs) /\ Told(Move("APPLYING"), events)
    BY <1>1, <2>1 DEF CallOK, Told
  <2>3. call' = [call EXCEPT ![c] = Move("APPLYING")]
    BY <1>5 DEF Goto
  <2> HIDE DEF Move
  <2> QED
    BY <1>1, <2>2, <2>3, OnlyCall DEF Untouched, IInv
<1>6. CASE ~base.rebinds
  BY <1>6, <1>2 DEF Rebind, Diagnostics
<1>7. CASE base.rebinds /\ StateOf(k.seen) = "APPLYING"
  <2>1. IF k.revision # Last(k.seen).at \/ base.edges THEN Stale(c, "base changed") ELSE Goto(c, "submit")
    BY <1>7 DEF Rebind
  <2> QED
    BY <2>1, <1>2, <1>4, <1>7 DEF Diagnostics
<1>8. CASE base.rebinds /\ StateOf(k.seen) # "APPLYING"
  <2>1. k.decision \in {"DEFER", "REJECT", "ACCEPT"}
    BY <1>1 DEF Full
  <2>2. \/ Conclude(c, "DEFERRED") \/ Conclude(c, "REJECTED")
        \/ Stale(c, "already present") \/ Goto(c, "APPLYING")
    BY <1>8, <2>1 DEF Rebind
  <2> QED
    BY <2>2, <1>2, <1>3, <1>5 DEF Diagnostics
<1>9. base.rebinds \in BOOLEAN
  BY DEF IInv
<1> QED
  BY <1>6, <1>7, <1>8, <1>9

LEMMA VerifyReconciledKeeps == ASSUME IInv, NEW c \in Callers, VerifyReconciled(c) PROVE IInv'
<1> DEFINE k == call[c]
           l == [k EXCEPT !.pc = "mount", !.stage = "rebind"]
<1>1. /\ k \in Full /\ k.pc = "assets" /\ k.stage = "verify" /\ CallOK(k, events, logs)
      /\ Untouched
  BY CallShape DEF IInv, VerifyReconciled, Untouched, knowledge
<1>2. /\ StateOf(k.seen) \in {"APPLYING", "ACCEPTED"} /\ k.note = Last(k.seen).note
      /\ Prefix(k.seen, events) /\ k.seen \in Seq(Event)
      /\ k.log # None => k.log = logs[k.note]
  BY <1>1 DEF CallOK, Full
<1>3. CASE StateOf(k.seen) = "ACCEPTED"
  <2>1. state = "ACCEPTED"
    BY <1>2, <1>3, PrefixFacts DEF IInv, state
  <2>2. Reply(c, "accepted") \/ Reply(c, "conflict")
    BY <1>3 DEF VerifyReconciled
  <2> QED
    BY <2>1, <2>2, <1>1, ReplyKeeps DEF StateFor
<1>4. CASE StateOf(k.seen) = "APPLYING" /\ k.log = None
  <2>1. /\ l \in Full /\ l.pc = "mount" /\ l.stage = "rebind" /\ l.seen = k.seen /\ l.note = k.note
        /\ l.reply = "none"
    BY <1>1 DEF Full
  <2>2. CallOK(l, events, logs) /\ Told(l, events)
    BY <1>2, <2>1 DEF CallOK, Told, Carries
  <2>3. call' = [call EXCEPT ![c] = l]
    BY <1>4 DEF VerifyReconciled, Good
  <2> HIDE DEF l
  <2> QED
    BY <1>1, <2>2, <2>3, OnlyCall DEF Untouched, IInv
<1>5. CASE StateOf(k.seen) = "APPLYING" /\ k.log # None /\ Good(k)
  <2>1. Conclude(c, "ACCEPTED")
    BY <1>5 DEF VerifyReconciled
  <2> QED
    BY <1>1, <1>2, <1>5, <2>1, ConcludeKeeps DEF Carries
<1>6. CASE StateOf(k.seen) = "APPLYING" /\ k.log # None /\ ~Good(k)
  <2>1. Stale(c, "log mismatch")
    BY <1>6 DEF VerifyReconciled
  <2> QED
    BY <1>1, <2>1, StaleKeeps DEF Diagnostics
<1> QED
  BY <1>2, <1>3, <1>4, <1>5, <1>6

LEMMA VerifyWrittenKeeps == ASSUME IInv, NEW c \in Callers, VerifyWritten(c) PROVE IInv'
<1> DEFINE k == call[c]
           nothing == k.written = "no_changes" /\ base.edges /\ k.revision = Last(k.seen).at
<1>1. /\ k \in Full /\ k.pc = "assets" /\ k.stage = "verify" /\ CallOK(k, events, logs)
      /\ k.written # "none" /\ Untouched
  BY CallShape DEF IInv, VerifyWritten, Untouched, knowledge
<1>2. /\ StateOf(k.seen) = "APPLYING" /\ k.note = Last(k.seen).note
      /\ k.log # None => k.log = logs[k.note]
  BY <1>1 DEF CallOK
<1>3. ASSUME NEW why \in Diagnostics, Stale(c, why) PROVE IInv'
  BY <1>1, <1>3, StaleKeeps
<1>4. CASE Reply(c, "failed")
  BY <1>1, <1>4, ReplyKeeps
<1>5. CASE Good(k) /\ Conclude(c, "ACCEPTED")
  BY <1>1, <1>2, <1>5, ConcludeKeeps DEF Carries, Good
<1>6. \/ Stale(c, "already present") \/ Stale(c, "verification failed")
      \/ Reply(c, "failed") \/ (Good(k) /\ Conclude(c, "ACCEPTED"))
  <2>1. CASE k.log = None /\ nothing
    BY <2>1 DEF VerifyWritten, Good
  <2>2. CASE k.log = None /\ ~nothing
    BY <2>2 DEF VerifyWritten, Good
  <2>3. CASE k.log # None
    BY <2>3 DEF VerifyWritten, Good
  <2> QED
    BY <2>1, <2>2, <2>3
<1> QED
  BY <1>3, <1>4, <1>5, <1>6 DEF Diagnostics

\* The call comes back from the gateway, whatever that has said.
LEMMA ReturnKeeps ==
    ASSUME IInv, NEW c \in Callers, NEW written \in {"no_changes", "committed", "failed"}, Untouched,
           call[c].pc \in {"submit", "commit"},
           call' = [call EXCEPT ![c].pc = "log", ![c].stage = "verify", ![c].written = written]
    PROVE  IInv'
<1> DEFINE k == call[c]
           l == [k EXCEPT !.pc = "log", !.stage = "verify", !.written = written]
<1>1. k \in Full /\ CallOK(k, events, logs)
  BY CallShape DEF IInv
<1>2. /\ l \in Full /\ l.pc = "log" /\ l.stage = "verify" /\ l.seen = k.seen /\ l.note = k.note
      /\ l.reply = "none"
  BY <1>1 DEF Full
<1>3. CallOK(l, events, logs) /\ Told(l, events)
  BY <1>1, <1>2 DEF CallOK, Told, Carries
<1>4. call' = [call EXCEPT ![c] = l]
  OBVIOUS
<1> HIDE DEF l
<1> QED
  BY <1>3, <1>4, OnlyCall DEF Untouched, IInv

LEMMA PlanKeeps == ASSUME IInv, NEW c \in Callers, Plan(c) PROVE IInv'
<1> DEFINE k == call[c]
           l == [k EXCEPT !.pc = "commit"]
<1>1. k \in Full /\ k.pc = "submit" /\ CallOK(k, events, logs) /\ Untouched
  BY CallShape DEF IInv, Plan, Untouched, knowledge
<1>2. CASE base.edges
  BY <1>1, <1>2, ReturnKeeps DEF Plan
<1>3. CASE ~base.edges
  <2>1. /\ l \in Full /\ l.pc = "commit" /\ l.seen = k.seen /\ l.note = k.note
        /\ l.revision = k.revision /\ l.reply = "none"
    BY <1>1 DEF Full
  <2>2. CallOK(l, events, logs) /\ Told(l, events)
    BY <1>1, <2>1 DEF CallOK, Told, Carries
  <2>3. call' = [call EXCEPT ![c] = l]
    BY <1>3 DEF Plan
  <2> HIDE DEF l
  <2> QED
    BY <1>1, <2>2, <2>3, OnlyCall DEF Untouched, IInv
<1> QED
  BY <1>2, <1>3

LEMMA SubmissionFailsKeeps == ASSUME IInv, NEW c \in Callers, SubmissionFails(c) PROVE IInv'
<1>1. Untouched /\ call[c].pc \in {"submit", "commit"}
  BY DEF SubmissionFails, Untouched, knowledge
<1>2. CASE call' = [call EXCEPT ![c].pc = "log", ![c].stage = "verify", ![c].written = "failed"]
  BY <1>1, <1>2, ReturnKeeps
<1>3. CASE Reply(c, "failed")
  BY <1>1, <1>3, ReplyKeeps
<1> QED
  BY <1>2, <1>3 DEF SubmissionFails

LEMMA IdleIsOK == ASSUME NEW es, NEW lg PROVE CallOK(Idle, es, lg) /\ Told(Idle, es)
  BY DEF CallOK, Told, Idle, Said

LEMMA SyncKeeps == ASSUME IInv, NEW c \in Callers, Sync(c) PROVE IInv'
<1> DEFINE k == call[c]
           l == [k EXCEPT !.pc = "report"]
<1>1. k \in Said /\ k.pc = "sync" /\ CallOK(k, events, logs) /\ Told(k, events) /\ Untouched
  BY CallShape DEF IInv, Sync, Untouched, knowledge
<1>2. CASE call' = [call EXCEPT ![c] = Idle]
  BY <1>1, <1>2, IdleIsOK, OnlyCall DEF Untouched, IInv
<1>3. CASE k.reply \in DOMAIN StateFor /\ Goto(c, "report")
  <2>1. l \in Said /\ l.pc = "report" /\ l.reply = k.reply
    BY <1>1 DEF Said
  <2>2. CallOK(l, events, logs) /\ Told(l, events)
    BY <1>1, <1>3, <2>1 DEF CallOK, Told
  <2>3. call' = [call EXCEPT ![c] = l]
    BY <1>3 DEF Goto
  <2> HIDE DEF l
  <2> QED
    BY <1>1, <2>2, <2>3, OnlyCall DEF Untouched, IInv
<1> QED
  BY <1>2, <1>3 DEF Sync

LEMMA DecideKeeps == ASSUME IInv, NEW c \in Callers, Decide(c) PROVE IInv'
<1> PICK input \in Inputs :
      LET at(pc, stage) ==
            [pc |-> pc, decision |-> input[1], note |-> input[2], seen |-> events, stage |-> stage,
             revision |-> 0, log |-> None, written |-> "none", reply |-> "none"]
          said(reply) == [pc |-> "sync", reply |-> reply]
      IN  call' = [call EXCEPT ![c] =
            CASE state = "REJECTED" /\ input[1] = "REJECT" -> at("REJECTED", "rebind")
              [] state = "DEFERRED" /\ input[1] = "DEFER"  -> at("DEFERRED", "rebind")
              [] state = "APPLYING" /\ input[1] # "ACCEPT" -> said("in_progress")
              [] state \in {"APPLYING", "ACCEPTED"} /\ input[1] = "ACCEPT" ->
                   IF Last(events).note # input[2] THEN said("conflict") ELSE at("log", "verify")
              [] state = "OPEN" \/ (state = "DEFERRED" /\ input[1] # "DEFER") -> at("mount", "rebind")
              [] OTHER -> said("conflict")]
  BY DEF Decide
<1> DEFINE at(pc, stage) ==
             [pc |-> pc, decision |-> input[1], note |-> input[2], seen |-> events, stage |-> stage,
              revision |-> 0, log |-> None, written |-> "none", reply |-> "none"]
           said(reply) == [pc |-> "sync", reply |-> reply]
<1>1. input[1] \in {"ACCEPT", "REJECT", "DEFER"} /\ input[2] \in Notes
  BY DecisionAssumption
<1>2. events \in Seq(Event) /\ Prefix(events, events)
  BY DEF IInv, FileOK, Prefix
<1>3. ASSUME NEW pc \in {"REJECTED", "DEFERRED", "log", "mount"}, NEW stage \in {"rebind", "verify"},
             pc = "log" => /\ stage = "verify" /\ state \in {"APPLYING", "ACCEPTED"}
                           /\ input[2] = Last(events).note,
             pc = "mount" => stage = "rebind" /\ state # "APPLYING"
      PROVE  CallOK(at(pc, stage), events, logs) /\ Told(at(pc, stage), events)
  <2>1. at(pc, stage) \in Full
    BY <1>1, <1>2 DEF Full
  <2> QED
    BY <2>1, <1>2, <1>3 DEF CallOK, Told, state
<1>4. ASSUME NEW reply \in {"in_progress", "conflict"}
      PROVE  CallOK(said(reply), events, logs) /\ Told(said(reply), events)
  BY DEF CallOK, Told, Said
<1>5. \E l : CallOK(l, events, logs) /\ Told(l, events) /\ call' = [call EXCEPT ![c] = l]
  <2>1. CASE state = "REJECTED" /\ input[1] = "REJECT"
    <3>1. call' = [call EXCEPT ![c] = at("REJECTED", "rebind")]
      BY <2>1
    <3> QED
      BY <3>1, <1>3
  <2>2. CASE state = "DEFERRED" /\ input[1] = "DEFER"
    <3>1. call' = [call EXCEPT ![c] = at("DEFERRED", "rebind")]
      BY <2>2
    <3> QED
      BY <3>1, <1>3
  <2>3. CASE state = "APPLYING" /\ input[1] # "ACCEPT"
    <3>1. call' = [call EXCEPT ![c] = said("in_progress")]
      BY <2>3
    <3> QED
      BY <3>1, <1>4
  <2>4. CASE state \in {"APPLYING", "ACCEPTED"} /\ input[1] = "ACCEPT" /\ Last(events).note # input[2]
    <3>1. call' = [call EXCEPT ![c] = said("conflict")]
      BY <2>4
    <3> QED
      BY <3>1, <1>4
  <2>5. CASE state \in {"APPLYING", "ACCEPTED"} /\ input[1] = "ACCEPT" /\ Last(events).note = input[2]
    <3>1. call' = [call EXCEPT ![c] = at("log", "verify")]
      BY <2>5
    <3> QED
      BY <3>1, <1>3, <2>5
  <2>6. CASE state = "OPEN" \/ (state = "DEFERRED" /\ input[1] # "DEFER")
    <3>1. call' = [call EXCEPT ![c] = at("mount", "rebind")]
      BY <2>6
    <3> QED
      BY <3>1, <1>3, <2>6
  <2>7. CASE \/ state = "REJECTED" /\ input[1] # "REJECT"
             \/ state = "ACCEPTED" /\ input[1] # "ACCEPT"
             \/ state = "STALE"
    <3>1. call' = [call EXCEPT ![c] = said("conflict")]
      BY <2>7
    <3> QED
      BY <3>1, <1>4
  <2>8. state \in States
    BY <1>2, StateIsLast DEF state
  <2> QED
    BY <2>1, <2>2, <2>3, <2>4, <2>5, <2>6, <2>7, <2>8 DEF States
<1>6. UNCHANGED <<events, base, logs, report>> /\ alone' \in BOOLEAN
  BY DEF Decide, knowledge, IInv
<1> QED
  BY <1>5, <1>6, OnlyCall

-----------------------------------------------------------------------------
(* Steps that change the file, the Knowledge Base or the report. *)

\* The other calls, when the file gets an event that follows what it says.
LEMMA OthersKeep ==
    ASSUME IInv, NEW c \in Callers, NEW e \in Event, Len(events) < MAX_EVENTS,
           state \notin {"ACCEPTED", "REJECTED", "STALE"}, Transition(state, e.type),
           NEW d \in Callers
    PROVE  CallOK(call[d], Append(events, e), logs) /\ Told(call[d], Append(events, e))
<1> DEFINE k == call[d]
<1>1. /\ CallOK(k, events, logs) /\ Told(k, events) /\ FileOK(events)
      /\ \A seen \in Seq(Event) : Prefix(seen, events) => Prefix(seen, Append(events, e))
      /\ Types(events) \subseteq Types(Append(events, e))
  BY AppendFacts DEF IInv, state
<1>2. k.pc \notin {"idle", "sync", "report"} => k.seen \in Seq(Event)
  BY <1>1 DEF CallOK, Full, Concluding, Stopping, Said
<1>3. CallOK(k, Append(events, e), logs)
  BY <1>1, <1>2 DEF CallOK
<1>4. k.reply \notin {"accepted", "rejected", "stale"}
  BY <1>1 DEF Told, StateFor, state
<1> QED
  BY <1>1, <1>3, <1>4 DEF Told

LEMMA TransitionFacts ==
    ASSUME NEW from \in States, NEW t \in States \ {"OPEN"}, Transition(from, t)
    PROVE  from \notin {"ACCEPTED", "REJECTED", "STALE"}
<1>1. CASE t \in {"DEFERRED", "APPLYING", "REJECTED"}
  BY <1>1 DEF Transition
<1>2. CASE t = "ACCEPTED"
  BY <1>2 DEF Transition
<1>3. CASE t = "STALE"
  BY <1>3 DEF Transition
<1> QED
  BY <1>1, <1>2, <1>3 DEF States

LEMMA VerdictFacts ==
    ASSUME NEW e, NEW seen
    PROVE  /\ Verdict(e, seen) \in {"replay", "conflict", "throws", "written"}
           /\ Verdict(e, seen) = "replay" => state = e.type
           /\ Verdict(e, seen) = "written" =>
                seen = events /\ Transition(state, e.type) /\ Len(events) # MAX_EVENTS
<1>1. CASE IsReplay(e)
  BY <1>1 DEF Verdict, IsReplay
<1>2. CASE ~IsReplay(e) /\ (seen # events \/ ~Transition(state, e.type))
  BY <1>2 DEF Verdict
<1>3. CASE ~IsReplay(e) /\ seen = events /\ Transition(state, e.type)
  <2>1. Verdict(e, seen) = IF Len(events) = MAX_EVENTS THEN "throws" ELSE "written"
    BY <1>3 DEF Verdict
  <2> QED
    BY <1>3, <2>1
<1> QED
  BY <1>1, <1>2, <1>3

\* The file takes an event, and the call that has brought it goes on as `l`.
LEMMA WrittenKeeps ==
    ASSUME IInv, NEW c \in Callers, NEW e \in Event, NEW l, Len(events) < MAX_EVENTS,
           state \notin {"ACCEPTED", "REJECTED", "STALE"}, Transition(state, e.type),
           e.type = "ACCEPTED" => e.at # None /\ logs[e.note] = e.at,
           events' = Append(events, e), call' = [call EXCEPT ![c] = l],
           CallOK(l, Append(events, e), logs), Told(l, Append(events, e)),
           UNCHANGED <<base, logs, report, alone>>
    PROVE  IInv'
<1>1. /\ FileOK(events') /\ StateOf(events') = e.type /\ Last(events') = e
  BY AppendFacts DEF IInv, state
<1>2. LogsOK(logs', events')
  <2>1. events \in Seq(Event) /\ Len(events') = Len(events) + 1 /\ \A i \in 1..Len(events) : events'[i] = events[i]
    BY DEF IInv, FileOK
  <2> QED
    BY <1>1, <2>1 DEF IInv, LogsOK
<1>3. \A d \in Callers : CallOK(call'[d], events', logs') /\ Told(call'[d], events')
  <2> SUFFICES ASSUME NEW d \in Callers
               PROVE  CallOK(call'[d], events', logs') /\ Told(call'[d], events')
    OBVIOUS
  <2>1. CASE d = c
    BY <2>1 DEF IInv
  <2>2. CASE d # c
    <3>1. call'[d] = call[d]
      BY <2>2 DEF IInv
    <3> QED
      BY <3>1, OthersKeep
  <2> QED
    BY <2>1, <2>2
<1>4. DOMAIN call' = Callers /\ call' = [d \in Callers |-> call'[d]]
  BY DEF IInv
<1> QED
  BY <1>1, <1>2, <1>3, <1>4 DEF IInv

LEMMA StoreKeeps == ASSUME IInv, NEW c \in Callers, Store(c) PROVE IInv'
<1> DEFINE k == call[c]
           e == [type |-> k.pc,
                 note |-> IF k.pc = "STALE" THEN k.why ELSE k.note,
                 at   |-> CASE k.pc = "APPLYING" -> k.revision
                            [] k.pc = "ACCEPTED" -> k.log
                            [] OTHER             -> 0]
           verdict == Verdict(e, k.seen)
           reply == CASE k.pc = "DEFERRED" -> "deferred" [] k.pc = "REJECTED" -> "rejected"
                      [] k.pc = "ACCEPTED" -> "accepted" [] k.pc = "STALE" -> "stale"
                      [] OTHER -> "in_progress"
<1>1. /\ k.pc \in States \ {"OPEN"} /\ CallOK(k, events, logs)
      /\ UNCHANGED <<base, logs, report, alone>>
      /\ FileOK(events) /\ events \in Seq(Event) /\ Len(events) \in Nat /\ Len(events) <= MAX_EVENTS
      /\ state \in States
  BY StateIsLast DEF IInv, Store, knowledge, FileOK, state
<1>2. e \in Event /\ e.type = k.pc /\ (k.pc = "ACCEPTED" => e.at = k.log /\ e.note = k.note)
      /\ (k.pc = "APPLYING" => e.at = k.revision /\ e.note = k.note)
  <2>1. CASE k.pc = "APPLYING"
    BY <1>1, <2>1, CallShape DEF Event, Full, States
  <2>2. CASE k.pc = "ACCEPTED"
    BY <1>1, <2>2, CallShape DEF Event, Concluding, States, CallOK
  <2>3. CASE k.pc = "STALE"
    BY <1>1, <2>3, CallShape DEF Event, Stopping, States
  <2>4. CASE k.pc \in {"REJECTED", "DEFERRED"}
    <3>1. k.note \in Notes
      BY <1>1, <2>4, CallShape DEF Full, Concluding
    <3> QED
      BY <3>1, <2>4 DEF Event, States
  <2> QED
    BY <1>1, <2>1, <2>2, <2>3, <2>4 DEF States
<1>3. /\ reply \in {"accepted", "rejected", "deferred", "stale", "in_progress"}
      /\ reply \in {"accepted", "rejected", "stale"} => StateFor[reply] = k.pc
      /\ reply = "deferred" => k.pc = "DEFERRED"
  BY <1>1 DEF States, StateFor
<1>4. /\ events' = IF verdict = "written" THEN Append(events, e) ELSE events
      /\ verdict = "throws" => call' = [call EXCEPT ![c] = Idle]
      /\ verdict = "conflict" => Reply(c, "conflict")
      /\ verdict = "written" /\ k.pc = "APPLYING" =>
           call' = [call EXCEPT ![c].pc = "submit", ![c].seen = events']
      /\ verdict = "replay" \/ (verdict = "written" /\ k.pc # "APPLYING") => Reply(c, reply)
  BY DEF Store
<1>5. /\ verdict \in {"replay", "conflict", "throws", "written"}
      /\ verdict = "replay" => state = k.pc
      /\ verdict = "written" => /\ Transition(state, e.type) /\ Len(events) < MAX_EVENTS
                                /\ state \notin {"ACCEPTED", "REJECTED", "STALE"}
  <2>1. MAX_EVENTS \in Nat
    BY DecisionAssumption
  <2> QED
    BY <1>1, <1>2, <2>1, VerdictFacts, TransitionFacts
<1> HIDE DEF e, verdict, reply
<1>6. CASE verdict = "throws"
  BY <1>1, <1>4, <1>6, IdleIsOK, OnlyCall DEF IInv
<1>7. CASE verdict = "conflict"
  BY <1>1, <1>4, <1>7, ReplyKeeps DEF Untouched
<1>8. CASE verdict = "replay"
  <2>1. reply = "deferred" => "DEFERRED" \in Types(events)
    <3> SUFFICES ASSUME reply = "deferred" PROVE "DEFERRED" \in Types(events)
      OBVIOUS
    <3>1. StateOf(events) = "DEFERRED" /\ events # <<>>
      BY <1>1, <1>3, <1>5, <1>8, StateIsLast DEF state
    <3>2. Len(events) \in DOMAIN events /\ events[Len(events)].type = "DEFERRED"
      BY <1>1, <3>1, StateIsLast
    <3> QED
      BY <3>2 DEF Types
  <2> QED
    BY <1>1, <1>3, <1>4, <1>5, <1>8, <2>1, ReplyKeeps DEF Untouched
<1>9. CASE verdict = "written" /\ k.pc = "APPLYING"
  <2> DEFINE l == [k EXCEPT !.pc = "submit", !.seen = Append(events, e)]
  <2>1. /\ FileOK(Append(events, e)) /\ StateOf(Append(events, e)) = "APPLYING"
        /\ Last(Append(events, e)) = e /\ Prefix(Append(events, e), Append(events, e))
        /\ Append(events, e) \in Seq(Event)
    BY <1>1, <1>2, <1>5, <1>9, AppendFacts DEF state
  <2>2. k \in Full
    BY <1>1, <1>9, CallShape
  <2>3. /\ l \in Full /\ l.pc = "submit" /\ l.seen = Append(events, e) /\ l.note = k.note
        /\ l.revision = k.revision /\ l.reply = "none"
    BY <2>1, <2>2 DEF Full
  <2>4. CallOK(l, Append(events, e), logs) /\ Told(l, Append(events, e))
    BY <1>2, <1>9, <2>1, <2>3 DEF CallOK, Told, Carries
  <2>5. call' = [call EXCEPT ![c] = l] /\ events' = Append(events, e) /\ e.type # "ACCEPTED"
    BY <1>2, <1>4, <1>9
  <2> HIDE DEF l
  <2> QED
    BY <1>1, <1>2, <1>5, <1>9, <2>4, <2>5, WrittenKeeps
<1>10. CASE verdict = "written" /\ k.pc # "APPLYING"
  <2> DEFINE l == [pc |-> "sync", reply |-> reply]
  <2>1. /\ StateOf(Append(events, e)) = k.pc /\ k.pc \in Types(Append(events, e))
    BY <1>1, <1>2, <1>5, <1>10, AppendFacts DEF state
  <2>2. CallOK(l, Append(events, e), logs) /\ Told(l, Append(events, e))
    BY <1>3, <2>1 DEF CallOK, Told, Said
  <2>3. call' = [call EXCEPT ![c] = l] /\ events' = Append(events, e)
    BY <1>4, <1>10 DEF Reply
  <2>4. e.type = "ACCEPTED" => e.at # None /\ logs[e.note] = e.at
    BY <1>1, <1>2 DEF CallOK
  <2> HIDE DEF l
  <2> QED
    BY <1>1, <1>2, <1>5, <1>10, <2>2, <2>3, <2>4, WrittenKeeps
<1> QED
  BY <1>5, <1>6, <1>7, <1>8, <1>9, <1>10

LEMMA CommitKeeps == ASSUME IInv, NEW c \in Callers, Commit(c) PROVE IInv'
<1> DEFINE k == call[c]
           n == k.note
<1>1. k \in Full /\ k.pc = "commit" /\ CallOK(k, events, logs) /\ UNCHANGED <<events, report, alone>>
  BY CallShape DEF IInv, Commit
<1>2. PICK written \in {"no_changes", "committed", "failed"} :
        call' = [call EXCEPT ![c].pc = "log", ![c].stage = "verify", ![c].written = written]
  BY DEF Commit
<1>3. CASE ~MayCommit(k)
  <2>1. Untouched
    BY <1>1, <1>3 DEF Commit, Untouched, knowledge
  <2> QED
    BY <1>1, <1>2, <2>1, ReturnKeeps
<1>4. CASE MayCommit(k)
  <2> DEFINE l == [k EXCEPT !.pc = "log", !.stage = "verify", !.written = written]
             i == Len(k.seen)
  <2>1. /\ k.seen \in Seq(Event) /\ Prefix(k.seen, events) /\ Carries(k)
        /\ k.revision = Last(k.seen).at /\ n \in Notes /\ base.revision = k.revision /\ logs[n] = None
        /\ FileOK(events) /\ LogsOK(logs, events)
    BY <1>1, <1>4 DEF CallOK, Full, MayCommit, IInv
  <2>2. k.seen # <<>> /\ Last(k.seen).type = "APPLYING"
    BY <2>1, StateIsLast DEF Carries
  <2>3. i \in 1..Len(events) /\ events[i].type = "APPLYING" /\ events[i].note = n
        /\ events[i].at = k.revision
    BY <2>1, <2>2, PrefixFacts DEF Carries
  <2>4. logs' = [logs EXCEPT ![n] = events[i].at + 1]
        /\ base' = [base EXCEPT !.revision = @ + 1, !.edges = TRUE]
    BY <1>4, <2>1, <2>3 DEF Commit
  <2>5. LogsOK(logs', events)
    BY <2>1, <2>3, <2>4, LogFacts
  <2>6. base' \in [revision : Nat, rebinds : BOOLEAN, edges : BOOLEAN]
    <3>1. base \in [revision : Nat, rebinds : BOOLEAN, edges : BOOLEAN]
      BY DEF IInv
    <3>2. base' = [revision |-> base.revision + 1, rebinds |-> base.rebinds, edges |-> TRUE]
      BY <2>4, <3>1
    <3> QED
      BY <3>1, <3>2
  <2>7. \A m \in Notes : logs[m] # None => logs'[m] = logs[m]
    BY <2>1, <2>4 DEF LogsOK
  <2>8. CallOK(l, events, logs') /\ Told(l, events)
    <3>1. /\ l \in Full /\ l.pc = "log" /\ l.stage = "verify" /\ l.seen = k.seen /\ l.note = k.note
          /\ l.reply = "none"
      BY <1>1 DEF Full
    <3> QED
      BY <1>1, <2>1, <3>1 DEF CallOK, Told, Carries
  <2>9. ASSUME NEW d \in Callers, d # c
        PROVE  CallOK(call[d], events, logs') /\ Told(call[d], events)
    <3>1. CallOK(call[d], events, logs) /\ Told(call[d], events)
      BY DEF IInv
    <3>2. call[d].pc \in {"mount", "assets", "log", "ACCEPTED"} => call[d].note \in Notes
      BY <3>1, CallShape DEF Full, Concluding
    <3> QED
      BY <2>7, <3>1, <3>2 DEF CallOK
  <2>10. call' = [call EXCEPT ![c] = l]
    BY <1>2
  <2> HIDE DEF l
  <2>11. \A d \in Callers : CallOK(call'[d], events, logs') /\ Told(call'[d], events)
    BY <2>8, <2>9, <2>10 DEF IInv
  <2>12. DOMAIN call' = Callers /\ call' = [d \in Callers |-> call'[d]]
    BY <2>10 DEF IInv
  <2> QED
    BY <1>1, <2>5, <2>6, <2>11, <2>12 DEF IInv
<1> QED
  BY <1>3, <1>4

LEMMA ReportKeeps == ASSUME IInv, NEW c \in Callers, Report(c) PROVE IInv'
<1>1. StateFor[call[c].reply] \in States
  BY DEF Report, IInv, CallOK, StateFor, States
<1>2. report' \in States \cup {None}
  BY <1>1 DEF Report, IInv
<1>3. \A d \in Callers : CallOK(call'[d], events, logs) /\ Told(call'[d], events)
  BY IdleIsOK DEF Report, IInv
<1> QED
  BY <1>2, <1>3 DEF Report, IInv, knowledge

LEMMA ForeignKeeps == IInv /\ Foreign => IInv'
  BY DEF IInv, Foreign

LEMMA CrashKeeps == IInv /\ Crash => IInv'
<1> SUFFICES ASSUME IInv, Crash PROVE IInv'
  OBVIOUS
<1>1. \A d \in Callers : CallOK(call'[d], events, logs) /\ Told(call'[d], events)
  BY IdleIsOK DEF Crash
<1> QED
  BY <1>1 DEF Crash, IInv, knowledge

LEMMA InitInvariant == Init => IInv
<1> SUFFICES ASSUME Init PROVE IInv
  OBVIOUS
<1>1. FileOK(events) /\ StateOf(events) = "OPEN"
  BY DecisionAssumption DEF Init, FileOK, StateOf
<1>2. LogsOK(logs, events)
  BY <1>1 DEF Init, LogsOK
<1> QED
  BY <1>1, <1>2, IdleIsOK DEF Init, IInv

LEMMA StepInvariant == IInv /\ [Next]_vars => IInv'
<1> SUFFICES ASSUME IInv, [Next]_vars PROVE IInv'
  OBVIOUS
<1>1. CASE UNCHANGED vars
  BY <1>1 DEF vars, knowledge, IInv
<1>2. ASSUME NEW c \in Callers, Decide(c) \/ Step(c) PROVE IInv'
  BY <1>2, DecideKeeps, MountKeeps, ReadLogKeeps, RebindKeeps, VerifyReconciledKeeps,
     VerifyWrittenKeeps, StoreKeeps, PlanKeeps, CommitKeeps, SubmissionFailsKeeps, SyncKeeps,
     ReportKeeps DEF Step
<1> QED
  BY <1>1, <1>2, ForeignKeeps, CrashKeeps DEF Next

-----------------------------------------------------------------------------
\* The file keeps the history that validateRecord demands, within the bound on events, and every
\* variable its type.
THEOREM TypeCorrect == Spec => []TypeOK
<1>1. IInv => TypeOK
  BY DEF IInv, TypeOK, FileOK, LogsOK
<1> QED
  BY <1>1, InitInvariant, StepInvariant, PTL DEF Spec

\* One Writer run at most, under a recorded intent and at its revision, and none for a decision that
\* was refused (beginApplyingReviewCase, reconcileApplying, executeGateway).
THEOREM OnlyUnderIntent == Spec => []WrittenUnderIntent
<1>1. IInv => WrittenUnderIntent
  <2> SUFFICES ASSUME IInv PROVE WrittenUnderIntent
    OBVIOUS
  <2> DEFINE Done == {n \in Notes : logs[n] # None}
  <2>0. FileOK(events) /\ LogsOK(logs, events) /\ DOMAIN events = 1..Len(events)
    BY DEF IInv, FileOK
  <2>1. \A n \in Notes : logs[n] # None =>
          \E i \in DOMAIN events : events[i].type = "APPLYING" /\ events[i].note = n
                                   /\ logs[n] = events[i].at + 1
    BY <2>0 DEF LogsOK
  <2>2. \A n, m \in Done : n = m
    BY <2>0, <2>1, OneIntent
  <2>3. Cardinality(Done) <= 1
    <3>1. CASE Done = {}
      BY <3>1, FS_EmptySet
    <3>2. CASE Done # {}
      <4>1. PICK n : Done = {n}
        BY <2>2, <3>2
      <4> QED
        BY <4>1, FS_Singleton
    <3> QED
      BY <3>1, <3>2
  <2>4. state = "REJECTED" => \A n \in Notes : logs[n] = None
    BY <2>0, <2>1, OneIntent DEF state
  <2> QED
    BY <2>1, <2>3, <2>4 DEF WrittenUnderIntent
<1> QED
  BY <1>1, InitInvariant, StepInvariant, PTL DEF Spec

\* A decision that is recorded as accepted names the revision that its own Writer run has committed
\* (finalizeAcceptedReviewCase).
THEOREM AcceptedAreWritten == Spec => []AcceptedIsWritten
<1>1. IInv => AcceptedIsWritten
  BY DEF IInv, LogsOK, AcceptedIsWritten, state
<1> QED
  BY <1>1, InitInvariant, StepInvariant, PTL DEF Spec

\* What a caller has been told is what the file says, and stays so.
THEOREM RepliesStayTrue == Spec => []RepliesAreTrue
<1>1. IInv => RepliesAreTrue
  BY DEF IInv, Told, RepliesAreTrue, state
<1> QED
  BY <1>1, InitInvariant, StepInvariant, PTL DEF Spec

-----------------------------------------------------------------------------
(* The report.  Only Report writes it, and a call that has come to it has been told the truth. *)

LEMMA ReportStep ==
    ASSUME IInv, NEW c \in Callers, Report(c), report' # report
    PROVE  /\ report' \in Types(events)
           /\ report' \in {"ACCEPTED", "REJECTED", "STALE"} => report' = state
           /\ report \notin {"ACCEPTED", "REJECTED", "STALE"}
<1> DEFINE reply == call[c].reply
<1>1. /\ reply \in DOMAIN StateFor /\ Told(call[c], events)
      /\ events \in Seq(Event)
  BY DEF IInv, CallOK, Report, FileOK
<1>2. report' = StateFor[reply] /\ report \in {None, "DEFERRED"}
  BY DEF Report, MayReport
<1>3. report \notin {"ACCEPTED", "REJECTED", "STALE"}
  BY <1>2, DecisionAssumption DEF States
<1>4. CASE reply = "deferred"
  BY <1>1, <1>2, <1>3, <1>4 DEF Told, StateFor
<1>5. CASE reply \in {"accepted", "rejected", "stale"}
  <2>1. StateOf(events) = StateFor[reply] /\ StateFor[reply] \in {"ACCEPTED", "REJECTED", "STALE"}
    BY <1>1, <1>5 DEF Told, StateFor
  <2>2. Len(events) \in DOMAIN events /\ events[Len(events)].type = StateOf(events)
    BY <1>1, <2>1, StateIsLast
  <2>3. StateOf(events) \in Types(events)
    BY <2>2 DEF Types
  <2> QED
    BY <1>2, <1>3, <2>1, <2>3 DEF state
<1> QED
  BY <1>1, <1>4, <1>5 DEF StateFor

LEMMA OnlyReportReports ==
    ASSUME [Next]_vars, report' # report
    PROVE  \E c \in Callers : Report(c)
<1>1. CASE UNCHANGED vars \/ Foreign \/ Crash
  BY <1>1 DEF vars, Foreign, Crash
<1>2. ASSUME NEW c \in Callers, Decide(c) \/ Step(c) PROVE Report(c)
  <2>1. ~(Decide(c) \/ Mount(c) \/ ReadLog(c) \/ Rebind(c) \/ VerifyReconciled(c))
    BY DEF Decide, Mount, ReadLog, Rebind, VerifyReconciled
  <2>2. ~(VerifyWritten(c) \/ Store(c) \/ Plan(c) \/ Commit(c) \/ SubmissionFails(c) \/ Sync(c))
    BY DEF VerifyWritten, Store, Plan, Commit, SubmissionFails, Sync
  <2> QED
    BY <1>2, <2>1, <2>2 DEF Step
<1> QED
  BY <1>1, <1>2 DEF Next

\* The report tells only what the decision's file has said, and never takes a final decision back
\* (synchronizeReviewDecision, updateDecisionReport).
THEOREM ReportsFollow == Spec => ReportFollows
<1>1. IInv /\ [Next]_vars =>
        [report' # report => /\ report' \in Types(events)
                             /\ report' \in {"ACCEPTED", "REJECTED", "STALE"} => report' = state
                             /\ report \notin {"ACCEPTED", "REJECTED", "STALE"}]_vars
  BY ReportStep, OnlyReportReports
<1> QED
  BY <1>1, InitInvariant, StepInvariant, PTL DEF Spec, ReportFollows

-----------------------------------------------------------------------------
(* One call at a time, and no other producer.  What such a call has read of the log is still so, and *)
(* it comes to give an acceptance up only without a log.                                             *)

Fresh(k, lg) ==
    /\ k.pc \in {"mount", "assets"} =>
         /\ k.stage = "rebind" /\ StateOf(k.seen) = "APPLYING" => lg[k.note] = None
         /\ k.stage = "verify" => k.log = lg[k.note]
    /\ k.pc = "assets" => (k.stage = "verify" /\ k.log # None => k.revision >= k.log)
    /\ k.pc = "STALE" => (StateOf(k.seen) = "APPLYING" => lg[Last(k.seen).note] = None)

Quiet ==
    alone /\ foreign = 0 =>
        /\ \A c, d \in Callers : call[c].pc # "idle" /\ call[d].pc # "idle" => c = d
        /\ \A n \in Notes : logs[n] # None => base.edges /\ base.revision >= logs[n]
        /\ \A c \in Callers : Fresh(call[c], logs)

\* A step of one call that leaves the Knowledge Base alone.
LEMMA OnlyCallQuiet ==
    ASSUME IInv, Quiet, NEW c \in Callers, NEW l, call' = [call EXCEPT ![c] = l],
           UNCHANGED <<base, logs, foreign>>,
           alone' => alone /\ (call[c].pc # "idle" \/ \A d \in Callers \ {c} : call[d].pc = "idle"),
           alone /\ foreign = 0 => Fresh(l, logs)
    PROVE  Quiet'
<1> SUFFICES ASSUME alone', foreign' = 0
             PROVE  /\ \A d, e \in Callers : call'[d].pc # "idle" /\ call'[e].pc # "idle" => d = e
                    /\ \A n \in Notes : logs'[n] # None => base'.edges /\ base'.revision >= logs'[n]
                    /\ \A d \in Callers : Fresh(call'[d], logs')
  BY DEF Quiet
<1>1. /\ alone /\ foreign = 0
      /\ \A d, e \in Callers : call[d].pc # "idle" /\ call[e].pc # "idle" => d = e
      /\ \A n \in Notes : logs[n] # None => base.edges /\ base.revision >= logs[n]
      /\ \A d \in Callers : Fresh(call[d], logs)
      /\ Fresh(l, logs)
  BY DEF Quiet
<1>2. \A d \in Callers : call'[d] = IF d = c THEN l ELSE call[d]
  BY DEF IInv
<1>3. \A d \in Callers \ {c} : call[d].pc = "idle"
  BY <1>1
<1>4. \A d, e \in Callers : call'[d].pc # "idle" /\ call'[e].pc # "idle" => d = e
  BY <1>2, <1>3
<1>5. \A d \in Callers : Fresh(call'[d], logs')
  BY <1>1, <1>2
<1> QED
  BY <1>1, <1>4, <1>5

LEMMA NothingToRead ==
    ASSUME NEW k, NEW lg, k.pc \notin {"mount", "assets", "STALE"} PROVE Fresh(k, lg)
  BY DEF Fresh

\* The facts about a call between two of its steps.
LEMMA CallFacts ==
    ASSUME IInv, NEW c \in Callers
    PROVE  CallOK(call[c], events, logs) /\ events \in Seq(Event) /\ base.revision \in Nat
  BY DEF IInv, FileOK

\* The steps to a point where nothing read is used any more.
LEMMA AwayQuiet ==
    ASSUME IInv, Quiet, NEW c \in Callers, UNCHANGED <<base, logs, alone, foreign>>,
           call[c].pc # "idle",
           NEW l, call' = [call EXCEPT ![c] = l], l.pc \notin {"mount", "assets", "STALE"}
    PROVE  Quiet'
<1>1. Fresh(l, logs)
  BY NothingToRead
<1> QED
  BY <1>1, OnlyCallQuiet

LEMMA StaleQuiet ==
    ASSUME IInv, Quiet, NEW c \in Callers, NEW why, Stale(c, why), UNCHANGED <<base, logs, alone, foreign>>,
           call[c].pc # "idle",
           alone /\ foreign = 0 =>
             (StateOf(call[c].seen) = "APPLYING" => logs[Last(call[c].seen).note] = None)
    PROVE  Quiet'
<1> DEFINE l == [pc |-> "STALE", seen |-> call[c].seen, why |-> why, reply |-> "none"]
<1>1. call' = [call EXCEPT ![c] = l]
  BY DEF Stale
<1>2. l.pc = "STALE" /\ l.seen = call[c].seen
  OBVIOUS
<1> HIDE DEF l
<1>3. alone /\ foreign = 0 => Fresh(l, logs)
  BY <1>2 DEF Fresh
<1> QED
  BY <1>1, <1>3, OnlyCallQuiet

LEMMA DecideQuiet == ASSUME IInv, Quiet, NEW c \in Callers, Decide(c) PROVE Quiet'
<1> DEFINE at(pc, stage, input) ==
             [pc |-> pc, decision |-> input[1], note |-> input[2], seen |-> events, stage |-> stage,
              revision |-> 0, log |-> None, written |-> "none", reply |-> "none"]
           said(reply) == [pc |-> "sync", reply |-> reply]
<1>1. PICK input \in Inputs :
        call' = [call EXCEPT ![c] =
            CASE state = "REJECTED" /\ input[1] = "REJECT" -> at("REJECTED", "rebind", input)
              [] state = "DEFERRED" /\ input[1] = "DEFER"  -> at("DEFERRED", "rebind", input)
              [] state = "APPLYING" /\ input[1] # "ACCEPT" -> said("in_progress")
              [] state \in {"APPLYING", "ACCEPTED"} /\ input[1] = "ACCEPT" ->
                   IF Last(events).note # input[2] THEN said("conflict") ELSE at("log", "verify", input)
              [] state = "OPEN" \/ (state = "DEFERRED" /\ input[1] # "DEFER") ->
                   at("mount", "rebind", input)
              [] OTHER -> said("conflict")]
  BY DEF Decide
<1>2. /\ UNCHANGED <<base, logs, foreign>>
      /\ alone' => alone /\ \A d \in Callers \ {c} : call[d].pc = "idle"
  BY DEF Decide, knowledge, counts
<1>3. ASSUME NEW l, call' = [call EXCEPT ![c] = l],
             l.pc \notin {"mount", "assets", "STALE"}
             \/ (l.pc = "mount" /\ l.stage = "rebind" /\ StateOf(l.seen) # "APPLYING")
      PROVE  Quiet'
  <2>1. Fresh(l, logs)
    BY <1>3 DEF Fresh
  <2> QED
    BY <1>2, <1>3, <2>1, OnlyCallQuiet
<1>4. Quiet'
  <2>1. CASE state = "REJECTED" /\ input[1] = "REJECT"
    <3>1. call' = [call EXCEPT ![c] = at("REJECTED", "rebind", input)]
      BY <1>1, <2>1
    <3> QED
      BY <3>1, <1>3
  <2>2. CASE state = "DEFERRED" /\ input[1] = "DEFER"
    <3>1. call' = [call EXCEPT ![c] = at("DEFERRED", "rebind", input)]
      BY <1>1, <2>2
    <3> QED
      BY <3>1, <1>3
  <2>3. CASE state = "APPLYING" /\ input[1] # "ACCEPT"
    <3>1. call' = [call EXCEPT ![c] = said("in_progress")]
      BY <1>1, <2>3
    <3> QED
      BY <3>1, <1>3
  <2>4. CASE state \in {"APPLYING", "ACCEPTED"} /\ input[1] = "ACCEPT"
    <3>1. CASE Last(events).note # input[2]
      <4>1. call' = [call EXCEPT ![c] = said("conflict")]
        BY <1>1, <2>4, <3>1
      <4> QED
        BY <4>1, <1>3
    <3>2. CASE Last(events).note = input[2]
      <4>1. call' = [call EXCEPT ![c] = at("log", "verify", input)]
        BY <1>1, <2>4, <3>2
      <4> QED
        BY <4>1, <1>3
    <3> QED
      BY <3>1, <3>2
  <2>5. CASE state = "OPEN" \/ (state = "DEFERRED" /\ input[1] # "DEFER")
    <3>1. call' = [call EXCEPT ![c] = at("mount", "rebind", input)]
      BY <1>1, <2>5
    <3> QED
      BY <3>1, <1>3, <2>5 DEF state
  <2>6. CASE \/ state = "REJECTED" /\ input[1] # "REJECT"
             \/ state = "ACCEPTED" /\ input[1] # "ACCEPT"
             \/ state = "STALE"
    <3>1. call' = [call EXCEPT ![c] = said("conflict")]
      BY <1>1, <2>6
    <3> QED
      BY <3>1, <1>3
  <2>7. state \in States
    BY CallFacts, StateIsLast DEF state
  <2> QED
    BY <2>1, <2>2, <2>3, <2>4, <2>5, <2>6, <2>7 DEF States
<1> QED
  BY <1>4

LEMMA MountQuiet == ASSUME IInv, Quiet, NEW c \in Callers, Mount(c) PROVE Quiet'
<1> DEFINE k == call[c]
           l == [k EXCEPT !.pc = "assets", !.revision = base.revision]
<1>1. k \in Full /\ k.pc = "mount" /\ UNCHANGED <<base, logs, alone, foreign>>
  BY CallFacts, CallShape DEF Mount, knowledge, counts
<1>2. /\ l.pc = "assets" /\ l.seen = k.seen /\ l.note = k.note /\ l.stage = k.stage /\ l.log = k.log
      /\ l.revision = base.revision /\ k.note \in Notes
  BY <1>1 DEF Full
<1>3. call' = [call EXCEPT ![c] = l]
  BY DEF Mount
<1> HIDE DEF l
<1>4. alone /\ foreign = 0 => Fresh(l, logs)
  BY <1>1, <1>2 DEF Quiet, Fresh
<1> QED
  BY <1>1, <1>3, <1>4, OnlyCallQuiet

LEMMA ReadLogQuiet == ASSUME IInv, Quiet, NEW c \in Callers, ReadLog(c) PROVE Quiet'
<1> DEFINE k == call[c]
           l == [k EXCEPT !.pc = "mount", !.log = logs[k.note]]
<1>1. k \in Full /\ k.pc = "log" /\ k.stage = "verify" /\ UNCHANGED <<base, logs, alone, foreign>>
  BY CallFacts, CallShape DEF ReadLog, CallOK, knowledge, counts
<1>2. l.pc = "mount" /\ l.note = k.note /\ l.stage = "verify" /\ l.log = logs[l.note]
  BY <1>1 DEF Full
<1>3. call' = [call EXCEPT ![c] = l]
  BY DEF ReadLog
<1> HIDE DEF l
<1>4. Fresh(l, logs)
  BY <1>2 DEF Fresh
<1> QED
  BY <1>1, <1>3, <1>4, OnlyCallQuiet

LEMMA RebindQuiet == ASSUME IInv, Quiet, NEW c \in Callers, Rebind(c) PROVE Quiet'
<1> DEFINE k == call[c]
<1>1. /\ k \in Full /\ k.pc = "assets" /\ k.stage = "rebind" /\ CallOK(k, events, logs)
      /\ UNCHANGED <<base, logs, alone, foreign>>
  BY CallFacts, CallShape DEF Rebind, knowledge, counts
<1>2. alone /\ foreign = 0 => (StateOf(k.seen) = "APPLYING" => logs[Last(k.seen).note] = None)
  BY <1>1 DEF Quiet, Fresh, CallOK, Carries
<1>3. ASSUME NEW why, Stale(c, why) PROVE Quiet'
  BY <1>1, <1>2, <1>3, StaleQuiet
<1>4. ASSUME NEW pc \in {"submit", "APPLYING"}, Goto(c, pc) PROVE Quiet'
  <2> DEFINE l == [k EXCEPT !.pc = pc]
  <2>1. l.pc = pc /\ call' = [call EXCEPT ![c] = l]
    BY <1>1, <1>4 DEF Goto, Full
  <2> HIDE DEF l
  <2> QED
    BY <1>1, <2>1, AwayQuiet
<1>5. ASSUME NEW type \in {"DEFERRED", "REJECTED"}, Conclude(c, type) PROVE Quiet'
  <2> DEFINE l == [pc |-> type, seen |-> k.seen, note |-> k.note, log |-> k.log, reply |-> "none"]
  <2>1. l.pc = type /\ call' = [call EXCEPT ![c] = l]
    BY <1>5 DEF Conclude
  <2> HIDE DEF l
  <2> QED
    BY <1>1, <2>1, AwayQuiet
<1>6. CASE ~base.rebinds
  BY <1>6, <1>3 DEF Rebind
<1>7. CASE base.rebinds /\ StateOf(k.seen) = "APPLYING"
  <2>1. IF k.revision # Last(k.seen).at \/ base.edges THEN Stale(c, "base changed") ELSE Goto(c, "submit")
    BY <1>7 DEF Rebind
  <2> QED
    BY <2>1, <1>3, <1>4
<1>8. CASE base.rebinds /\ StateOf(k.seen) # "APPLYING"
  <2>1. k.decision \in {"DEFER", "REJECT", "ACCEPT"}
    BY <1>1 DEF Full
  <2>2. \/ Conclude(c, "DEFERRED") \/ Conclude(c, "REJECTED")
        \/ Stale(c, "already present") \/ Goto(c, "APPLYING")
    BY <1>8, <2>1 DEF Rebind
  <2> QED
    BY <2>2, <1>3, <1>4, <1>5
<1> QED
  BY <1>6, <1>7, <1>8

LEMMA AnswerQuiet ==
    ASSUME IInv, Quiet, NEW c \in Callers, UNCHANGED <<base, logs, alone, foreign>>,
           call[c].pc # "idle", NEW reply, Reply(c, reply)
    PROVE  Quiet'
<1> DEFINE l == [pc |-> "sync", reply |-> reply]
<1>1. l.pc = "sync" /\ call' = [call EXCEPT ![c] = l]
  BY DEF Reply
<1> HIDE DEF l
<1> QED
  BY <1>1, AwayQuiet

LEMMA AcceptQuiet ==
    ASSUME IInv, Quiet, NEW c \in Callers, UNCHANGED <<base, logs, alone, foreign>>,
           call[c].pc # "idle", Conclude(c, "ACCEPTED")
    PROVE  Quiet'
<1> DEFINE l == [pc |-> "ACCEPTED", seen |-> call[c].seen, note |-> call[c].note,
                 log |-> call[c].log, reply |-> "none"]
<1>1. l.pc = "ACCEPTED" /\ call' = [call EXCEPT ![c] = l]
  BY DEF Conclude
<1> HIDE DEF l
<1> QED
  BY <1>1, AwayQuiet

\* What is verified is there when there is a log of it.
LEMMA LoggedIsGood ==
    ASSUME IInv, Quiet, alone, foreign = 0, NEW c \in Callers,
           call[c].pc = "assets", call[c].stage = "verify"
    PROVE  /\ call[c].note = Last(call[c].seen).note
           /\ call[c].log = logs[call[c].note]
           /\ call[c].log # None => Good(call[c])
<1>1. call[c] \in Full /\ CallOK(call[c], events, logs) /\ Fresh(call[c], logs)
  BY CallFacts, CallShape DEF Quiet
<1>2. call[c].note = Last(call[c].seen).note /\ call[c].note \in Notes
  BY <1>1 DEF CallOK, Full
<1>3. call[c].log = logs[call[c].note] /\ (call[c].log # None => call[c].revision >= call[c].log)
  BY <1>1 DEF Fresh
<1>4. logs[call[c].note] # None => base.edges
  BY <1>2 DEF Quiet
<1> QED
  BY <1>2, <1>3, <1>4 DEF Good

LEMMA VerifyReconciledQuiet ==
    ASSUME IInv, Quiet, NEW c \in Callers, VerifyReconciled(c) PROVE Quiet'
<1> DEFINE k == call[c]
           l == [k EXCEPT !.pc = "mount", !.stage = "rebind"]
<1>1. /\ k \in Full /\ k.pc = "assets" /\ k.stage = "verify" /\ CallOK(k, events, logs)
      /\ UNCHANGED <<base, logs, alone, foreign>>
  BY CallFacts, CallShape DEF VerifyReconciled, knowledge, counts
<1>2. CASE StateOf(k.seen) = "ACCEPTED"
  <2>1. Reply(c, "accepted") \/ Reply(c, "conflict")
    BY <1>2 DEF VerifyReconciled
  <2> QED
    BY <1>1, <2>1, AnswerQuiet
<1>3. CASE StateOf(k.seen) # "ACCEPTED" /\ k.log = None
  <2>1. l.pc = "mount" /\ l.stage = "rebind" /\ l.note = k.note
    BY <1>1 DEF Full
  <2>2. call' = [call EXCEPT ![c] = l]
    BY <1>3 DEF VerifyReconciled, Good
  <2>3. alone /\ foreign = 0 => logs[k.note] = None
    BY <1>1, <1>3, LoggedIsGood
  <2> HIDE DEF l
  <2>4. alone /\ foreign = 0 => Fresh(l, logs)
    BY <2>1, <2>3 DEF Fresh
  <2> QED
    BY <1>1, <2>2, <2>4, OnlyCallQuiet
<1>4. CASE StateOf(k.seen) # "ACCEPTED" /\ k.log # None /\ Good(k)
  <2>1. Conclude(c, "ACCEPTED")
    BY <1>4 DEF VerifyReconciled
  <2> QED
    BY <1>1, <2>1, AcceptQuiet
<1>5. CASE StateOf(k.seen) # "ACCEPTED" /\ k.log # None /\ ~Good(k)
  <2>1. Stale(c, "log mismatch")
    BY <1>5 DEF VerifyReconciled
  <2>2. ~(alone /\ foreign = 0)
    BY <1>1, <1>5, LoggedIsGood
  <2> QED
    BY <1>1, <2>1, <2>2, StaleQuiet
<1> QED
  BY <1>2, <1>3, <1>4, <1>5

LEMMA VerifyWrittenQuiet == ASSUME IInv, Quiet, NEW c \in Callers, VerifyWritten(c) PROVE Quiet'
<1> DEFINE k == call[c]
           nothing == k.written = "no_changes" /\ base.edges /\ k.revision = Last(k.seen).at
<1>1. /\ k \in Full /\ k.pc = "assets" /\ k.stage = "verify" /\ CallOK(k, events, logs)
      /\ UNCHANGED <<base, logs, alone, foreign>>
  BY CallFacts, CallShape DEF VerifyWritten, knowledge, counts
<1>2. CASE k.log = None
  <2>1. \/ Stale(c, "already present") \/ Stale(c, "verification failed") \/ Reply(c, "failed")
    <3>1. CASE nothing
      BY <1>2, <3>1 DEF VerifyWritten, Good
    <3>2. CASE ~nothing
      BY <1>2, <3>2 DEF VerifyWritten, Good
    <3> QED
      BY <3>1, <3>2
  <2>2. alone /\ foreign = 0 => logs[Last(k.seen).note] = None
    BY <1>1, <1>2, LoggedIsGood
  <2> QED
    BY <1>1, <2>1, <2>2, AnswerQuiet, StaleQuiet
<1>3. CASE k.log # None /\ Good(k)
  <2>1. Conclude(c, "ACCEPTED")
    BY <1>3 DEF VerifyWritten
  <2> QED
    BY <1>1, <2>1, AcceptQuiet
<1>4. CASE k.log # None /\ ~Good(k)
  <2>1. Stale(c, "verification failed")
    BY <1>4 DEF VerifyWritten
  <2>2. ~(alone /\ foreign = 0)
    BY <1>1, <1>4, LoggedIsGood
  <2> QED
    BY <1>1, <2>1, <2>2, StaleQuiet
<1> QED
  BY <1>2, <1>3, <1>4

LEMMA IdleQuiet ==
    ASSUME IInv, Quiet, NEW c \in Callers, UNCHANGED <<base, logs, alone, foreign>>,
           call[c].pc # "idle", call' = [call EXCEPT ![c] = Idle]
    PROVE  Quiet'
<1>1. Idle.pc = "idle"
  BY DEF Idle
<1> QED
  BY <1>1, AwayQuiet

LEMMA ReturnQuiet ==
    ASSUME IInv, Quiet, NEW c \in Callers, UNCHANGED <<base, logs, alone, foreign>>,
           NEW written \in {"no_changes", "committed", "failed"}, call[c].pc \in {"submit", "commit"},
           call' = [call EXCEPT ![c].pc = "log", ![c].stage = "verify", ![c].written = written]
    PROVE  Quiet'
<1> DEFINE l == [call[c] EXCEPT !.pc = "log", !.stage = "verify", !.written = written]
<1>1. call[c] \in Full
  BY CallFacts, CallShape
<1>2. l.pc = "log"
  BY <1>1 DEF Full
<1>3. call' = [call EXCEPT ![c] = l]
  OBVIOUS
<1> HIDE DEF l
<1> QED
  BY <1>2, <1>3, AwayQuiet

LEMMA StoreQuiet == ASSUME IInv, Quiet, NEW c \in Callers, Store(c) PROVE Quiet'
<1> DEFINE k == call[c]
<1>1. k.pc \in States \ {"OPEN"} /\ UNCHANGED <<base, logs, alone, foreign>> /\ k.pc # "idle"
  BY DEF Store, knowledge, counts, States
<1>2. \/ call' = [call EXCEPT ![c] = Idle]
      \/ \E reply : Reply(c, reply)
      \/ k.pc = "APPLYING" /\ call' = [call EXCEPT ![c].pc = "submit", ![c].seen = events']
  BY DEF Store
<1>3. ASSUME k.pc = "APPLYING", call' = [call EXCEPT ![c].pc = "submit", ![c].seen = events']
      PROVE  Quiet'
  <2>1. k \in Full
    BY <1>3, CallFacts, CallShape
  <2> DEFINE l == [k EXCEPT !.pc = "submit", !.seen = events']
  <2>2. l.pc = "submit"
    BY <2>1 DEF Full
  <2>3. call' = [call EXCEPT ![c] = l]
    BY <1>3
  <2> HIDE DEF l
  <2> QED
    BY <1>1, <2>2, <2>3, AwayQuiet
<1> QED
  BY <1>1, <1>2, <1>3, IdleQuiet, AnswerQuiet

LEMMA PlanQuiet == ASSUME IInv, Quiet, NEW c \in Callers, Plan(c) PROVE Quiet'
<1> DEFINE l == [call[c] EXCEPT !.pc = "commit"]
<1>1. call[c].pc = "submit" /\ call[c] \in Full /\ UNCHANGED <<base, logs, alone, foreign>>
  BY CallFacts, CallShape DEF Plan, knowledge, counts
<1>2. CASE base.edges
  BY <1>1, <1>2, ReturnQuiet DEF Plan
<1>3. CASE ~base.edges
  <2>1. l.pc = "commit" /\ call' = [call EXCEPT ![c] = l]
    BY <1>1, <1>3 DEF Plan, Full
  <2> HIDE DEF l
  <2> QED
    BY <1>1, <2>1, AwayQuiet
<1> QED
  BY <1>2, <1>3

LEMMA SubmissionFailsQuiet ==
    ASSUME IInv, Quiet, NEW c \in Callers, SubmissionFails(c) PROVE Quiet'
<1>1. call[c].pc \in {"submit", "commit"} /\ UNCHANGED <<base, logs, alone, foreign>>
  BY DEF SubmissionFails, knowledge
<1> QED
  BY <1>1, ReturnQuiet, AnswerQuiet DEF SubmissionFails

LEMMA CommitQuiet == ASSUME IInv, Quiet, NEW c \in Callers, Commit(c) PROVE Quiet'
<1> DEFINE k == call[c]
<1>1. k \in Full /\ k.pc = "commit" /\ UNCHANGED <<alone, foreign>>
  BY CallFacts, CallShape DEF Commit, counts
<1>2. PICK written \in {"no_changes", "committed", "failed"} :
        call' = [call EXCEPT ![c].pc = "log", ![c].stage = "verify", ![c].written = written]
  BY DEF Commit
<1>3. CASE ~MayCommit(k)
  <2>1. UNCHANGED <<base, logs>>
    BY <1>3 DEF Commit, knowledge
  <2> QED
    BY <1>1, <1>2, <2>1, ReturnQuiet
<1>4. CASE MayCommit(k)
  <2> SUFFICES ASSUME alone, foreign = 0
               PROVE  /\ \A d, e \in Callers : call'[d].pc # "idle" /\ call'[e].pc # "idle" => d = e
                      /\ \A n \in Notes : logs'[n] # None => base'.edges /\ base'.revision >= logs'[n]
                      /\ \A d \in Callers : Fresh(call'[d], logs')
    BY <1>1 DEF Quiet
  <2>1. \A d \in Callers \ {c} : call[d].pc = "idle"
    BY <1>1 DEF Quiet
  <2>2. call'[c].pc = "log" /\ \A d \in Callers \ {c} : call'[d] = call[d]
    BY <1>1, <1>2 DEF IInv, Full
  <2>3. \A d \in Callers : call'[d].pc = "log" \/ call'[d].pc = "idle"
    BY <2>1, <2>2
  <2>4. \A d, e \in Callers : call'[d].pc # "idle" /\ call'[e].pc # "idle" => d = e
    BY <2>1, <2>2
  <2>5. \A d \in Callers : Fresh(call'[d], logs')
    BY <2>3, NothingToRead
  <2>6. base'.edges = TRUE /\ base'.revision = base.revision + 1 /\ base.revision \in Nat
    BY <1>4 DEF Commit, IInv
  <2>7. logs \in [Notes -> Nat \cup {None}] /\ logs' = [logs EXCEPT ![k.note] = base.revision + 1]
    BY <1>4 DEF Commit, IInv, LogsOK
  <2>8. ASSUME NEW n \in Notes, logs'[n] # None PROVE base'.edges /\ base'.revision >= logs'[n]
    <3>1. CASE n = k.note
      BY <2>6, <2>7, <3>1
    <3>2. CASE n # k.note
      <4>1. logs'[n] = logs[n] /\ logs[n] \in Nat
        BY <2>7, <2>8, <3>2
      <4>2. base.revision >= logs[n]
        BY <2>8, <4>1 DEF Quiet
      <4> QED
        BY <2>6, <4>1, <4>2
    <3> QED
      BY <3>1, <3>2
  <2> QED
    BY <2>4, <2>5, <2>8
<1> QED
  BY <1>3, <1>4

LEMMA SyncQuiet == ASSUME IInv, Quiet, NEW c \in Callers, Sync(c) PROVE Quiet'
<1>1. /\ call[c].pc = "sync" /\ call[c] \in Said /\ UNCHANGED <<base, logs, alone, foreign>>
  BY CallFacts, CallShape DEF Sync, knowledge, counts
<1>2. CASE call' = [call EXCEPT ![c] = Idle]
  BY <1>1, <1>2, IdleQuiet
<1>3. CASE Goto(c, "report")
  <2> DEFINE l == [call[c] EXCEPT !.pc = "report"]
  <2>1. l.pc = "report" /\ call' = [call EXCEPT ![c] = l]
    BY <1>1, <1>3 DEF Goto, Said
  <2> HIDE DEF l
  <2> QED
    BY <1>1, <2>1, AwayQuiet
<1> QED
  BY <1>2, <1>3 DEF Sync

LEMMA ReportQuiet == ASSUME IInv, Quiet, NEW c \in Callers, Report(c) PROVE Quiet'
  BY IdleQuiet DEF Report, knowledge, counts

LEMMA ForeignQuiet == ASSUME IInv, Quiet, Foreign, foreign \in Nat PROVE Quiet'
  BY DEF Foreign, Quiet

LEMMA CrashQuiet == ASSUME IInv, Quiet, Crash PROVE Quiet'
<1>1. \A d \in Callers : call'[d] = Idle
  BY DEF Crash
<1>2. \A d \in Callers : call'[d].pc = "idle" /\ Fresh(call'[d], logs')
  BY <1>1, NothingToRead DEF Idle
<1> QED
  BY <1>2 DEF Quiet, Crash, knowledge

Solitude == Quiet /\ foreign \in Nat

LEMMA InitQuiet == Init => Solitude
<1> SUFFICES ASSUME Init PROVE Quiet /\ foreign \in Nat
  BY DEF Solitude
<1>1. \A c \in Callers : call[c].pc = "idle" /\ Fresh(call[c], logs)
  BY NothingToRead DEF Init, Idle
<1> QED
  BY <1>1 DEF Init, Quiet

LEMMA StepQuiet == IInv /\ Solitude /\ [Next]_vars => Solitude'
<1> SUFFICES ASSUME IInv, Quiet, foreign \in Nat, [Next]_vars PROVE Quiet' /\ foreign' \in Nat
  BY DEF Solitude
<1>1. CASE UNCHANGED vars
  BY <1>1 DEF vars, knowledge, counts, Quiet
<1>2. ASSUME NEW c \in Callers, Decide(c) \/ Step(c) PROVE Quiet'
  BY <1>2, DecideQuiet, MountQuiet, ReadLogQuiet, RebindQuiet, VerifyReconciledQuiet,
     VerifyWrittenQuiet, StoreQuiet, PlanQuiet, CommitQuiet, SubmissionFailsQuiet, SyncQuiet,
     ReportQuiet DEF Step
<1>3. foreign' \in Nat
  <2>1. foreign' = foreign \/ Foreign
    <3>1. UNCHANGED vars \/ Crash => foreign' = foreign
      BY DEF vars, counts, Crash
    <3>2. ASSUME NEW c \in Callers,
                 Decide(c) \/ Mount(c) \/ ReadLog(c) \/ Rebind(c) \/ VerifyReconciled(c)
          PROVE  foreign' = foreign
      BY <3>2 DEF counts, Decide, Mount, ReadLog, Rebind, VerifyReconciled
    <3>3. ASSUME NEW c \in Callers, \/ VerifyWritten(c) \/ Store(c) \/ Plan(c) \/ Commit(c)
                                    \/ SubmissionFails(c) \/ Sync(c) \/ Report(c)
          PROVE  foreign' = foreign
      BY <3>3 DEF counts, VerifyWritten, Store, Plan, Commit, SubmissionFails, Sync, Report
    <3> QED
      BY <3>1, <3>2, <3>3 DEF Next, Step
  <2> QED
    BY <2>1 DEF Foreign
<1> QED
  BY <1>1, <1>2, <1>3, ForeignQuiet, CrashQuiet DEF Next

\* The event that gives an acceptance up.
LEMMA GivenUpWithoutLog ==
    ASSUME IInv, Quiet, foreign \in Nat, [Next]_vars, GivesUp
    PROVE  ~alone \/ foreign > 0
<1>1. PICK c \in Callers : Store(c)
  BY DEF GivesUp, Next, Step, vars, knowledge, Decide, Mount, ReadLog, Rebind, VerifyReconciled,
         VerifyWritten, Plan, Commit, SubmissionFails, Sync, Report, Foreign, Crash
<1> DEFINE k == call[c]
           e == [type |-> k.pc,
                 note |-> IF k.pc = "STALE" THEN k.why ELSE k.note,
                 at   |-> CASE k.pc = "APPLYING" -> k.revision
                            [] k.pc = "ACCEPTED" -> k.log
                            [] OTHER             -> 0]
<1>2. Verdict(e, k.seen) = "written" /\ events' = Append(events, e)
  BY <1>1 DEF Store, GivesUp
<1>3. k.seen = events
  BY <1>2, VerdictFacts
<1>4. events \in Seq(Event) /\ CallOK(k, events, logs)
  BY CallFacts
<1>5. Last(events').type = k.pc
  <2> DEFINE all == Append(events, e)
  <2>1. Len(all) = Len(events) + 1 /\ all[Len(all)] = e
    BY <1>4
  <2> QED
    BY <1>2, <2>1 DEF Last
<1>6. k.pc = "STALE" /\ StateOf(k.seen) = "APPLYING"
  BY <1>3, <1>5 DEF GivesUp, state
<1>7. alone /\ foreign = 0 => logs[Last(events).note] = None
  BY <1>3, <1>6 DEF Quiet, Fresh
<1> QED
  BY <1>7 DEF GivesUp

\* While calls do not overlap and nobody else writes, an acceptance whose run has committed is not given
\* up, whatever step the process dies at (reconcileApplying, verifyCurrentResult).
THEOREM RecoveryIsExact == Spec => AloneIsExact
<1>1. IInv /\ Solitude /\ [Next]_vars => [GivesUp => ~alone \/ foreign > 0]_vars
  BY GivenUpWithoutLog DEF Solitude
<1> QED
  BY <1>1, InitInvariant, StepInvariant, InitQuiet, StepQuiet, PTL DEF Spec, AloneIsExact
=============================================================================
