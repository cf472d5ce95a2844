--------------------------- MODULE WorkflowRunProofs ---------------------------
(***************************************************************************)
(* What a Workflow run promises, for every bound on crashes, failed writes *)
(* and reports.                                                            *)
(*                                                                         *)
(* The argument is about one chain: the snapshot file (if this process     *)
(* wrote it), the views that wait for the store, the live record.  Along   *)
(* the chain revisions grow and outcomes are final; the live record is its *)
(* end.  A writer that fails leaves an element out, which changes neither. *)
(***************************************************************************)
EXTENDS WorkflowRun, TLAPS

\* View y may follow view x, c being the outcome made authoritative.
Follows(x, y, c) ==
    /\ x.rev < y.rev
    /\ x.status \in Terminal =>
         /\ y.status \in Terminal
         /\ x.status # y.status => x.status = "cancelled" /\ y.status = c

Sound(v) == v.status \in Terminal => ~v.open

\* The snapshot d, the waiting views q and the live record l of the process with number n.
ChainOK(d, q, l, c, n) ==
    /\ l \in View /\ l.life = n /\ Sound(l)
    /\ q \in Seq(View)
    /\ \A i \in 1..Len(q) : q[i].life = n /\ Sound(q[i])
    /\ \A i, j \in 1..Len(q) : i < j => Follows(q[i], q[j], c)
    /\ Len(q) > 0 => q[Len(q)] = l
    /\ d # None /\ d.life = n =>
         /\ \A i \in 1..Len(q) : Follows(d, q[i], c)
         /\ d = l \/ Follows(d, l, c)

Chain == live # None => ChainOK(disk, queue, live, committed, crashes)

\* What persistenceStates says of the chain.
Persistence ==
    IF live = None THEN awaited = -1
    ELSE /\ saved.status \in {"pending", "saved", "failed"}
         /\ (saved.status = "pending") <=> (Len(queue) > 0)
         /\ saved.status = "saved" => disk = live
         /\ awaited <= live.rev

\* The snapshot of an earlier process is known by its life.
Stored ==
    disk # None => disk.life <= crashes /\ Sound(disk) /\ (live = None => disk.life < crashes)

Outcome ==
    /\ OutcomeIsShown
    /\ aborted => live # None
    /\ pc \in {"starting", "working", "reporting"} =>
         committed = None /\ live.status \in {"running", "cancelled"}

\* While no write and no listing has failed.
Once ==
    errors = 0 =>
        /\ saved.status # "failed"
        /\ starts <= 1 /\ (starts # 0 => disk # None)
        /\ up /\ ~known => disk = None
        /\ live # None /\ disk # None => disk.life = crashes
        /\ live # None /\ pc \in {"idle", "starting"} => starts = 0

IInv == TypeOK /\ Chain /\ Persistence /\ Stored /\ Outcome /\ Once

-----------------------------------------------------------------------------
(* The chain. *)

LEMMA Transitive ==
  ASSUME NEW x \in View, NEW y \in View, NEW z \in View, NEW c, Follows(x, y, c), Follows(y, z, c)
  PROVE  Follows(x, z, c)
BY DEF Follows, View, Terminal

\* As long as no outcome is authoritative, the one that becomes it contradicts no view.
LEMMA AnyOutcome ==
  ASSUME NEW x, NEW y \in View, NEW e, Follows(x, y, None)
  PROVE  Follows(x, y, e)
BY NoneAssumption DEF Follows, View, Status, Terminal

LEMMA Longer ==
  ASSUME NEW d \in View \cup {None}, NEW q, NEW l, NEW c, NEW e, NEW n, NEW v \in View,
         ChainOK(d, q, l, c, n), v.life = n, Sound(v), e = c \/ c = None, Follows(l, v, e)
  PROVE  ChainOK(d, Append(q, v), v, e, n)
<1> DEFINE r == Append(q, v)
           m == Len(q)
<1>1. /\ r \in Seq(View) /\ Len(r) = m + 1 /\ m \in Nat /\ r[m + 1] = v
      /\ \A i \in 1..m : r[i] = q[i] /\ q[i] \in View
  BY DEF ChainOK
<1>2. \A x, y \in View : Follows(x, y, c) => Follows(x, y, e)
  BY AnyOutcome
<1>3. \A x \in View : x = l \/ Follows(x, l, c) => Follows(x, v, e)
  BY <1>2, Transitive DEF ChainOK
<1>4. \A i \in 1..m : q[i] = l \/ Follows(q[i], l, c)
  BY <1>1 DEF ChainOK
<1>5. \A i \in 1..m : Follows(r[i], v, e)
  BY <1>1, <1>3, <1>4
<1>6. \A i, j \in 1..Len(r) : i < j => Follows(r[i], r[j], e)
  BY <1>1, <1>2, <1>5 DEF ChainOK
<1>7. \A i \in 1..Len(r) : r[i].life = n /\ Sound(r[i])
  BY <1>1 DEF ChainOK
<1>8. ASSUME d # None, d.life = n
      PROVE  Follows(d, v, e) /\ \A i \in 1..Len(r) : Follows(d, r[i], e)
  BY <1>1, <1>2, <1>3, <1>8 DEF ChainOK
<1> HIDE DEF r, m
<1> QED
  <2>1. ChainOK(d, r, v, e, n)
    BY <1>1, <1>6, <1>7, <1>8 DEF ChainOK
  <2> QED
    BY <2>1 DEF r

LEMMA First ==
  ASSUME NEW d, NEW n \in Nat, NEW c, NEW v \in View, v.life = n, Sound(v), d = None \/ d.life # n
  PROVE  ChainOK(d, <<v>>, v, c, n)
BY DEF ChainOK

\* A write is over: its view is in the file, or has been left out.
LEMMA Shorter ==
  ASSUME NEW d, NEW q, NEW l, NEW c, NEW n, ChainOK(d, q, l, c, n), Len(q) > 0,
         NEW w \in {d, Head(q)}
  PROVE  /\ ChainOK(w, Tail(q), l, c, n)
         /\ Head(q) \in View /\ Head(q).life = n /\ Sound(Head(q))
         /\ Len(Tail(q)) = 0 => Head(q) = l
         /\ Len(Tail(q)) > 0 => Head(q).rev < l.rev
         /\ Head(q).rev <= l.rev /\ Len(Tail(q)) \in Nat
<1> DEFINE t == Tail(q)
           h == Head(q)
<1>1. /\ t \in Seq(View) /\ Len(t) = Len(q) - 1 /\ Len(q) \in Nat /\ h = q[1] /\ h \in View
      /\ \A i \in 1..Len(t) : t[i] = q[i + 1] /\ i + 1 \in 1..Len(q)
  BY DEF ChainOK
<1>2. \A i, j \in 1..Len(t) : i < j => Follows(t[i], t[j], c)
  BY <1>1 DEF ChainOK
<1>3. \A i \in 1..Len(t) : Follows(h, t[i], c) /\ t[i].life = n /\ Sound(t[i])
  BY <1>1 DEF ChainOK
<1>4. Len(t) > 0 => t[Len(t)] = l
  BY <1>1 DEF ChainOK
<1>5. (Len(t) = 0 => h = l) /\ (Len(t) > 0 => Follows(h, l, c))
  BY <1>1, <1>3, <1>4 DEF ChainOK
<1>6. h.life = n /\ Sound(h) /\ l \in View /\ l.life = n /\ Sound(l)
  BY <1>1 DEF ChainOK
<1>7. ASSUME w # None, w.life = n
      PROVE  (\A i \in 1..Len(t) : Follows(w, t[i], c)) /\ (w = l \/ Follows(w, l, c))
  <2>1. CASE w = h
    BY <1>1, <1>3, <1>5, <2>1
  <2>2. CASE w = d
    BY <1>1, <1>7, <2>2 DEF ChainOK
  <2> QED
    BY <2>1, <2>2
<1> HIDE DEF t, h
<1>8. ChainOK(w, t, l, c, n)
  BY <1>1, <1>2, <1>3, <1>4, <1>6, <1>7 DEF ChainOK
<1>9. Len(t) > 0 => h.rev < l.rev
  BY <1>5 DEF Follows
<1>10. h.rev <= l.rev /\ Len(t) \in Nat
  <2>1. l.rev \in Nat /\ h.rev \in Nat /\ Len(t) \in Nat
    BY <1>1, <1>6 DEF View
  <2> QED
    BY <1>5, <1>9, <2>1
<1> QED
  BY <1>1, <1>5, <1>6, <1>8, <1>9, <1>10 DEF t, h

-----------------------------------------------------------------------------
(* The live record. *)

LEMMA SameRecord ==
  ASSUME IInv, UNCHANGED <<record, disk, crashes, committed, awaited>>
  PROVE  Chain' /\ Persistence' /\ Stored'
BY DEF IInv, Chain, Persistence, Stored, record

\* The next view of the live record.
LEMMA PublishKeeps ==
  ASSUME IInv, live # None, NEW v \in View, v.life = live.life, Sound(v),
         Follows(live, v, committed'), committed' = committed \/ committed = None,
         Publish(<<v>>), UNCHANGED <<disk, crashes>>, awaited' \in Nat \cup {-1}, awaited' <= v.rev
  PROVE  /\ Chain' /\ Persistence' /\ Stored'
         /\ live' = v /\ live' # None /\ queue' \in Seq(View)
         /\ saved' = [saved EXCEPT !.status = "pending"] /\ saved'.rev <= live'.rev
<1>1. live' = v /\ queue' = queue \o <<v>> /\ saved' = [saved EXCEPT !.status = "pending"]
  BY DEF Publish
<1>2. /\ ChainOK(disk, queue, live, committed, crashes) /\ disk \in View \cup {None}
      /\ saved \in [status : {"none", "pending", "saved", "failed"}, rev : Nat \cup {-1}]
      /\ queue \in Seq(View) /\ live \in View /\ saved.rev <= live.rev
  BY DEF IInv, Chain, TypeOK
<1>3. queue' = Append(queue, v)
  BY <1>1, <1>2
<1>4. ChainOK(disk, Append(queue, v), v, committed', crashes)
  <2>1. v.life = crashes
    BY <1>2 DEF ChainOK
  <2> QED
    BY <1>2, <2>1, Longer
<1>5. v # None
  BY NoneAssumption
<1>6. Chain'
  BY <1>1, <1>3, <1>4 DEF Chain
<1>7. queue' \in Seq(View) /\ Len(queue') = Len(queue) + 1 /\ Len(queue) \in Nat
  BY <1>2, <1>3
<1>8. saved' \in [status : {"none", "pending", "saved", "failed"}, rev : Nat \cup {-1}]
      /\ saved'.status = "pending" /\ saved'.rev = saved.rev
  BY <1>1, <1>2
<1>9. Persistence'
  BY <1>1, <1>5, <1>7, <1>8 DEF Persistence
<1>10. Stored'
  BY <1>1, <1>5 DEF Stored, IInv
<1>11. saved'.rev <= live'.rev
  BY <1>1, <1>2, <1>8 DEF Follows, View
<1> QED
  BY <1>1, <1>5, <1>6, <1>7, <1>9, <1>10, <1>11

\* The views that the service makes of a view v.
LEMMA ClosedViews ==
  ASSUME NEW v \in View, NEW status \in Terminal, NEW c
  PROVE  /\ Closed(v, status) \in View /\ Closed(v, status).life = v.life
         /\ Closed(v, status).status = status /\ Closed(v, status).rev = v.rev + 1
         /\ Sound(Closed(v, status))
         /\ v.status \notin Terminal \/ (v.status = "cancelled" /\ status = c) =>
              Follows(v, Closed(v, status), c)
<1> DEFINE w == Closed(v, status)
<1>1. v.rev \in Nat /\ v.rev + 1 \in Nat /\ v.rev < v.rev + 1 /\ status \in Status
  BY DEF View, Status
<1>2. w.life = v.life /\ w.status = status /\ w.rev = v.rev + 1 /\ ~w.open
  BY DEF Closed, View
<1>3. w \in View
  BY <1>1 DEF Closed, View
<1> HIDE DEF w
<1>4. /\ Sound(w)
      /\ v.status \notin Terminal \/ (v.status = "cancelled" /\ status = c) => Follows(v, w, c)
  BY <1>1, <1>2 DEF Sound, Follows
<1> QED
  BY <1>2, <1>3, <1>4 DEF w

LEMMA ResultViews ==
  ASSUME NEW v \in View, NEW pending \in BOOLEAN, NEW c
  PROVE  /\ WithResult(v, pending) \in View /\ WithResult(v, pending).life = v.life
         /\ WithResult(v, pending).status = v.status /\ WithResult(v, pending).rev = v.rev + 1
         /\ Sound(v) => Sound(WithResult(v, pending))
         /\ Follows(v, WithResult(v, pending), c)
<1> DEFINE w == WithResult(v, pending)
<1>1. v.rev \in Nat /\ v.rev + 1 \in Nat /\ v.rev < v.rev + 1 /\ v.status \in Status
  BY DEF View
<1>2. [of |-> v.status, pending |-> pending] \in Result
  BY <1>1 DEF Result
<1>3. w.life = v.life /\ w.status = v.status /\ w.rev = v.rev + 1 /\ w.open = v.open
  BY DEF WithResult, View
<1>4. w \in View
  BY <1>1, <1>2 DEF WithResult, View
<1> HIDE DEF w
<1>5. (Sound(v) => Sound(w)) /\ Follows(v, w, c)
  BY <1>1, <1>3 DEF Sound, Follows
<1> QED
  BY <1>3, <1>4, <1>5 DEF w

LEMMA BeginningViews ==
  ASSUME IInv, NEW v \in View, v.status = "pending"
  PROVE  /\ Registered \in View /\ Registered.life = crashes /\ Registered.status = "pending"
         /\ Registered.rev = 0 /\ Sound(Registered)
         /\ Started(v) \in View /\ Started(v).life = v.life /\ Started(v).status = "running"
         /\ Started(v).rev = v.rev + 1 /\ Sound(Started(v)) /\ \A c : Follows(v, Started(v), c)
<1> DEFINE started == Started(v)
<1>1. crashes \in Nat /\ v.rev \in Nat /\ v.rev + 1 \in Nat /\ v.rev < v.rev + 1
  BY RunAssumption DEF IInv, TypeOK, View
<1>2. Registered \in View /\ Registered.life = crashes /\ Registered.status = "pending"
      /\ Registered.rev = 0
  BY <1>1 DEF Registered, View, Status
<1>3. started.life = v.life /\ started.status = "running" /\ started.rev = v.rev + 1
  BY DEF Started, View
<1>4. started \in View
  BY <1>1 DEF Started, View, Status
<1> HIDE DEF started
<1>5. Sound(Registered) /\ Sound(started) /\ \A c : Follows(v, started, c)
  BY <1>1, <1>2, <1>3 DEF Sound, Follows, Terminal
<1> QED
  BY <1>2, <1>3, <1>4, <1>5 DEF started

LEMMA ReportedViews ==
  ASSUME NEW v \in View, v.status \notin Terminal, NEW open \in BOOLEAN, NEW c
  PROVE  /\ [v EXCEPT !.open = open, !.rev = @ + 1] \in View
         /\ [v EXCEPT !.open = open, !.rev = @ + 1].life = v.life
         /\ [v EXCEPT !.open = open, !.rev = @ + 1].status = v.status
         /\ [v EXCEPT !.open = open, !.rev = @ + 1].rev = v.rev + 1
         /\ Sound([v EXCEPT !.open = open, !.rev = @ + 1])
         /\ Follows(v, [v EXCEPT !.open = open, !.rev = @ + 1], c)
<1> DEFINE w == [v EXCEPT !.open = open, !.rev = @ + 1]
<1>1. v.rev \in Nat /\ v.rev + 1 \in Nat /\ v.rev < v.rev + 1
  BY DEF View
<1>2. w.life = v.life /\ w.status = v.status /\ w.rev = v.rev + 1
  BY DEF View
<1>3. w \in View
  BY <1>1 DEF View
<1> HIDE DEF w
<1>4. Sound(w) /\ Follows(v, w, c)
  BY <1>1, <1>2 DEF Sound, Follows
<1> QED
  BY <1>2, <1>3, <1>4 DEF w

-----------------------------------------------------------------------------
(* The steps. *)

LEMMA InitInvariant == Init => IInv
<1> SUFFICES ASSUME Init PROVE IInv
  OBVIOUS
<1>1. queue \in Seq(View) /\ saved = Unsaved
  BY DEF Init
<1>2. Unsaved \in [status : {"none", "pending", "saved", "failed"}, rev : Nat \cup {-1}]
  BY DEF Unsaved
<1>3. 0 \in 0..MaxReports /\ 0 \in 0..MaxCrashes /\ 0 \in 0..MaxErrors
  BY RunAssumption
<1>7. TypeOK
  BY <1>1, <1>2, <1>3 DEF Init, TypeOK
<1>4. Chain /\ Persistence /\ Stored /\ Outcome
  BY DEF Init, Chain, Persistence, Stored, Outcome, OutcomeIsShown
<1>5. saved.status # "failed"
  BY <1>1 DEF Unsaved
<1>6. Once
  BY <1>5 DEF Init, Once
<1> QED
  BY <1>4, <1>6, <1>7 DEF IInv

\* A write settles, whichever way.
LEMMA WriteSettles ==
  ASSUME IInv, queue # <<>>, disk' \in {disk, Head(queue)}, queue' = Tail(queue),
         UNCHANGED <<live, crashes, committed, awaited>>
  PROVE  /\ Chain' /\ Stored' /\ live # None /\ live \in View /\ queue' \in Seq(View)
         /\ Head(queue) \in View /\ Head(queue).life = crashes /\ Head(queue).rev <= live.rev
         /\ Len(queue') = 0 => Head(queue) = live
         /\ Len(queue') > 0 => Head(queue).rev < live.rev
         /\ Len(queue') \in Nat /\ disk' \in View \cup {None}
<1>1. live # None /\ live \in View /\ queue \in Seq(View) /\ disk \in View \cup {None}
  BY DEF IInv, TypeOK
<1>2. ChainOK(disk, queue, live, committed, crashes) /\ Len(queue) > 0
  BY <1>1 DEF IInv, Chain
<1>3. /\ ChainOK(disk', queue', live, committed, crashes)
      /\ Head(queue) \in View /\ Head(queue).life = crashes /\ Sound(Head(queue))
      /\ Len(queue') = 0 => Head(queue) = live
      /\ Len(queue') > 0 => Head(queue).rev < live.rev
      /\ Head(queue).rev <= live.rev /\ Len(queue') \in Nat
  <2>1. \A w \in {disk, Head(queue)} :
          /\ ChainOK(w, Tail(queue), live, committed, crashes)
          /\ Head(queue) \in View /\ Head(queue).life = crashes /\ Sound(Head(queue))
          /\ Len(Tail(queue)) = 0 => Head(queue) = live
          /\ Len(Tail(queue)) > 0 => Head(queue).rev < live.rev
          /\ Head(queue).rev <= live.rev /\ Len(Tail(queue)) \in Nat
    BY <1>2, Shorter
  <2> QED
    BY <2>1
<1>4. queue' \in Seq(View)
  BY <1>3 DEF ChainOK
<1>5. Chain'
  BY <1>3 DEF Chain
<1>6. crashes \in Nat
  BY RunAssumption DEF IInv, TypeOK
<1>7. Stored'
  BY <1>1, <1>3, <1>6 DEF Stored, IInv
<1> QED
  BY <1>1, <1>3, <1>4, <1>5, <1>7

\* What persist notes of a write that succeeded, and of one that failed.
LEMMA Notes ==
  ASSUME NEW v \in View, IInv, live \in View, v.rev <= live.rev, live # None
  PROVE  /\ SavedAfter(v) \in [status : {"pending", "saved"}, rev : Nat] /\ SavedAfter(v).rev <= live.rev
         /\ SavedAfter(v).status = "pending" <=> v.rev < live.rev
         /\ FailedAfter(v) \in [status : {"pending", "failed"}, rev : Nat \cup {-1}]
         /\ FailedAfter(v).rev <= live.rev
         /\ FailedAfter(v).status = "pending" <=> v.rev < live.rev
<1>1. v.rev \in Nat /\ live.rev \in Nat /\ saved.rev \in Nat \cup {-1} /\ saved.rev <= live.rev
      /\ saved \in [status : {"none", "pending", "saved", "failed"}, rev : Nat \cup {-1}]
  BY DEF View, IInv, TypeOK
<1>2. SavedAfter(v).rev \in Nat /\ SavedAfter(v).rev <= live.rev
  BY <1>1 DEF SavedAfter, Larger
<1>3. SavedAfter(v).status = IF live.rev > v.rev THEN "pending" ELSE "saved"
  BY DEF SavedAfter
<1>4. SavedAfter(v) \in [status : {"pending", "saved"}, rev : Nat]
  BY <1>2, <1>3 DEF SavedAfter
<1>5. FailedAfter(v).rev = saved.rev
      /\ FailedAfter(v).status = (IF live.rev > v.rev THEN "pending" ELSE "failed")
  BY <1>1 DEF FailedAfter
<1>6. FailedAfter(v) \in [status : {"pending", "failed"}, rev : Nat \cup {-1}]
  BY <1>1, <1>5 DEF FailedAfter
<1> QED
  BY <1>1, <1>2, <1>3, <1>4, <1>5, <1>6

\* As long as nothing has failed the store refuses no write.
LEMMA NothingRefused ==
  ASSUME IInv, errors = 0, queue # <<>>
  PROVE  Accepted(Head(queue))
<1>1. live # None /\ queue \in Seq(View) /\ disk \in View \cup {None}
  BY DEF IInv, TypeOK
<1>2. ChainOK(disk, queue, live, committed, crashes) /\ Len(queue) > 0 /\ Head(queue) = queue[1]
  BY <1>1 DEF IInv, Chain
<1>3. disk # None => disk.life = crashes
  BY <1>1 DEF IInv, Once
<1>4. disk # None => Follows(disk, queue[1], committed)
  BY <1>2, <1>3 DEF ChainOK
<1>5. disk # None => disk.rev \in Nat /\ queue[1].rev \in Nat
  <2>1. queue[1] \in View
    BY <1>1, <1>2
  <2> QED
    BY <1>1, <2>1 DEF View
<1> QED
  BY <1>2, <1>4, <1>5 DEF Follows, Accepted

LEMMA SaveKeeps == IInv /\ Save => IInv'
<1> SUFFICES ASSUME IInv, Save PROVE IInv'
  OBVIOUS
<1> DEFINE h == Head(queue)
<1>1. /\ Chain' /\ Stored' /\ live # None /\ live \in View /\ queue' \in Seq(View)
      /\ h \in View /\ h.life = crashes /\ h.rev <= live.rev /\ (Len(queue') = 0 => h = live)
      /\ (Len(queue') > 0 => h.rev < live.rev) /\ Len(queue') \in Nat
  BY WriteSettles DEF Save, record, call, history, counts, service
<1>2. /\ saved' \in [status : {"pending", "saved"}, rev : Nat] /\ saved'.rev <= live.rev
      /\ saved'.status = "pending" <=> h.rev < live.rev
  BY <1>1, Notes DEF Save
<1>3. disk' = h /\ UNCHANGED <<live, service, aborted, call, cancelling, polling, history, counts>>
  BY DEF Save
<1> HIDE DEF h
<1>4. TypeOK'
  BY <1>1, <1>2, <1>3 DEF IInv, TypeOK, service, call, history, counts
<1>5. Persistence'
  <2>1. (h.rev < live.rev <=> Len(queue') > 0) /\ (Len(queue') = 0 => h = live)
    BY <1>1 DEF View
  <2>2. saved'.status \in {"pending", "saved"} /\ (saved'.status = "saved" => disk' = live')
    BY <1>1, <1>2, <1>3, <2>1
  <2> QED
    BY <1>1, <1>2, <1>3, <2>1, <2>2 DEF Persistence, IInv, call
<1>6. Outcome'
  BY <1>3 DEF Outcome, OutcomeIsShown, IInv, call, history
<1>7. Once'
  BY <1>1, <1>2, <1>3, NoneAssumption DEF Once, IInv, TypeOK, call, history, counts, service
<1> QED
  BY <1>1, <1>4, <1>5, <1>6, <1>7 DEF IInv

\* A write that the store refuses, or that fails.
LEMMA FailureKeeps == IInv /\ (SaveRefused \/ SaveFails) => IInv'
<1> SUFFICES ASSUME IInv, SaveRefused \/ SaveFails PROVE IInv'
  OBVIOUS
<1> DEFINE h == Head(queue)
<1>1. /\ queue # <<>> /\ disk' \in {disk, h} /\ saved' = FailedAfter(h) /\ queue' = Tail(queue)
      /\ errors' \in Nat /\ errors' <= MaxErrors /\ errors' # 0
      /\ UNCHANGED <<live, service, aborted, call, cancelling, polling, history, reports, crashes>>
  <2>1. CASE SaveRefused
    BY <2>1, NothingRefused, RunAssumption DEF SaveRefused, counts, IInv, TypeOK
  <2>2. CASE SaveFails
    BY <2>2, RunAssumption DEF SaveFails, IInv, TypeOK
  <2> QED
    BY <2>1, <2>2
<1>2. /\ Chain' /\ Stored' /\ live # None /\ live \in View /\ queue' \in Seq(View)
      /\ h \in View /\ h.rev <= live.rev /\ (Len(queue') = 0 => h = live)
      /\ (Len(queue') > 0 => h.rev < live.rev) /\ Len(queue') \in Nat /\ disk' \in View \cup {None}
  BY <1>1, WriteSettles DEF record, call, history, service
<1>3. /\ saved' \in [status : {"pending", "failed"}, rev : Nat \cup {-1}] /\ saved'.rev <= live.rev
      /\ saved'.status = "pending" <=> h.rev < live.rev
  BY <1>1, <1>2, Notes
<1> HIDE DEF h
<1>4. TypeOK'
  BY <1>1, <1>2, <1>3, RunAssumption DEF IInv, TypeOK, service, call, history
<1>5. Persistence'
  <2>1. h.rev < live.rev <=> Len(queue') > 0
    BY <1>2 DEF View
  <2>2. saved'.status \in {"pending", "failed"}
    BY <1>3
  <2> QED
    BY <1>1, <1>2, <1>3, <2>1, <2>2 DEF Persistence, IInv, call
<1>6. Outcome'
  BY <1>1 DEF Outcome, OutcomeIsShown, IInv, call, history
<1>7. Once'
  BY <1>1 DEF Once
<1> QED
  BY <1>2, <1>4, <1>5, <1>6, <1>7 DEF IInv

\* The flush is over: the awaited view is in the file, or a write has failed.
LEMMA FlushedIsDurable ==
  ASSUME IInv, live # None, NEW target \in Nat \cup {-1}, target <= live.rev, Flushed(target)
  PROVE  saved.status \in {"saved", "failed"} /\ Durable(target)
         /\ (saved.status = "saved" => disk = live)
<1>1. saved.status \in {"saved", "failed"} /\ (saved.status = "saved" => disk = live)
  <2>1. queue \in Seq(View)
    BY DEF IInv, TypeOK
  <2> QED
    BY <2>1 DEF IInv, Persistence, Flushed
<1> QED
  BY <1>1 DEF Durable

LEMMA QuietKeeps ==
  IInv /\ (Initialize \/ Begin \/ Reported \/ End \/ CancelReturns \/ Poll) => IInv'
<1>1. ASSUME IInv, Initialize PROVE IInv'
  <2>1. Chain' /\ Persistence' /\ Stored'
    BY <1>1, SameRecord DEF Initialize, call, history
  <2>2. errors' \in 0..MaxErrors /\ (errors' = 0 => errors = 0 /\ known' = (disk # None))
    BY <1>1, RunAssumption DEF Initialize, IInv, TypeOK
  <2>3. TypeOK'
    BY <1>1, <2>2, ZenonT(60) DEF Initialize, IInv, TypeOK, record, call, history
  <2>4. Outcome'
    BY <1>1 DEF Initialize, IInv, Outcome, OutcomeIsShown, record, call, history
  <2>5. Once'
    BY <1>1, <2>2 DEF Initialize, IInv, Once, record, call, history
  <2> QED
    BY <2>1, <2>3, <2>4, <2>5 DEF IInv
<1>2. ASSUME IInv, Begin PROVE IInv'
  <2>1. Chain' /\ Persistence' /\ Stored'
    BY <1>2, SameRecord DEF Begin, counts
  <2>2. /\ pc' \in {"ending", "working"} /\ starts' \in Nat
        /\ starts' # starts => starts' = starts + 1
    BY <1>2 DEF Begin, IInv, TypeOK
  <2>3. TypeOK'
    BY <1>2, <2>2 DEF Begin, IInv, TypeOK, record, service, counts
  <2>4. Outcome'
    BY <1>2, <2>2 DEF Begin, IInv, Outcome, OutcomeIsShown, record
  <2>5. ASSUME errors = 0 PROVE disk # None /\ starts = 0
    <3>1. live # None /\ pc = "starting" /\ awaited \in Nat \cup {-1} /\ awaited <= live.rev
      BY <1>2 DEF Begin, IInv, TypeOK, Persistence
    <3>2. disk = live
      BY <1>2, <2>5, <3>1, FlushedIsDurable DEF Begin, IInv, Once
    <3> QED
      BY <1>2, <2>5, <3>1, <3>2 DEF IInv, Once
  <2>6. Once'
    BY <1>2, <2>2, <2>5 DEF Begin, IInv, Once, TypeOK, record, service, counts
  <2> QED
    BY <2>1, <2>3, <2>4, <2>6 DEF IInv
<1>3. ASSUME IInv, Reported \/ End \/ CancelReturns \/ Poll PROVE IInv'
  <2>1. /\ UNCHANGED <<record, service, aborted, disk, awaited, dispatched, history, counts>>
        /\ <<pc, pc'>> \in {<<pc, pc>>, <<"reporting", "working">>, <<"ending", "ended">>}
        /\ cancelling' \in BOOLEAN /\ polling' \in BOOLEAN
    <3>0. cancelling \in BOOLEAN /\ polling \in BOOLEAN
      BY <1>3 DEF IInv, TypeOK
    <3>1. CASE Reported
      BY <3>0, <3>1 DEF Reported, record, service, history, counts
    <3>2. CASE End
      BY <3>0, <3>2 DEF End
    <3>3. CASE CancelReturns
      BY <3>0, <3>3 DEF CancelReturns, record, service, call, history, counts
    <3>4. CASE Poll
      <4>1. polling' \in BOOLEAN
        BY <3>4 DEF Poll, Synchronized
      <4> QED
        BY <3>0, <3>4, <4>1 DEF Poll, record, service, call, history, counts
    <3> QED
      BY <1>3, <3>1, <3>2, <3>3, <3>4
  <2>2. Chain' /\ Persistence' /\ Stored'
    BY <1>3, <2>1, SameRecord DEF history, counts
  <2>3. TypeOK'
    BY <1>3, <2>1 DEF IInv, TypeOK, record, service, history, counts
  <2>4. Outcome'
    BY <1>3, <2>1 DEF IInv, Outcome, OutcomeIsShown, record, history
  <2>5. Once'
    BY <1>3, <2>1 DEF IInv, Once, record, service, history, counts
  <2> QED
    BY <2>2, <2>3, <2>4, <2>5 DEF IInv
<1> QED
  BY <1>1, <1>2, <1>3

\* The steps that publish the next view v of the live record, and no start of the operation.
LEMMA ViewKeeps ==
  ASSUME IInv, live # None, NEW v \in View, v.life = live.life, Sound(v),
         Follows(live, v, committed'), committed' = committed \/ committed = None, Publish(<<v>>),
         UNCHANGED <<service, disk, starts, dispatched, crashes, errors>>,
         awaited' \in Nat \cup {-1}, awaited' <= v.rev, reports' \in 0..MaxReports,
         cancelling' \in BOOLEAN, aborted' \in BOOLEAN, committed' \in Terminal \cup {None},
         pc' \in {"idle", "starting", "working", "reporting", "ending", "ended", "done"},
         polling' = polling,
         committed' # None => v.status = committed',
         aborted' /\ committed' = None => v.status = "cancelled",
         pc' \in {"starting", "working", "reporting"} =>
             committed' = None /\ v.status \in {"running", "cancelled"},
         pc' \in {"idle", "starting"} => pc \in {"idle", "starting"}
  PROVE  IInv'
<1>1. /\ Chain' /\ Persistence' /\ Stored'
      /\ live' = v /\ live' # None /\ queue' \in Seq(View)
      /\ saved' = [saved EXCEPT !.status = "pending"] /\ saved'.rev <= live'.rev
  BY PublishKeeps
<1>2. saved' \in [status : {"none", "pending", "saved", "failed"}, rev : Nat \cup {-1}]
      /\ saved'.status = "pending"
  BY <1>1 DEF IInv, TypeOK
<1>3. TypeOK'
  BY <1>1, <1>2 DEF IInv, TypeOK, service
<1>4. Outcome'
  BY <1>1 DEF Outcome, OutcomeIsShown
<1>5. Once'
  BY <1>1, <1>2 DEF IInv, Once, service
<1> QED
  BY <1>1, <1>3, <1>4, <1>5 DEF IInv

\* A call that finds nothing to record.
LEMMA NothingRecorded ==
  ASSUME IInv, UNCHANGED <<record, service, aborted, disk, dispatched, polling, history, crashes, errors>>,
         awaited' \in Nat \cup {-1}, live # None => awaited' <= live.rev,
         pc \notin {"idle", "starting"}, pc' \in {pc, "reporting", "ending"},
         pc' = "reporting" => pc = "working",
         cancelling' \in BOOLEAN, reports' \in 0..MaxReports
  PROVE  IInv'
<1>1. Chain' /\ Stored'
  BY DEF IInv, Chain, Stored, record, history
<1>2. Persistence'
  BY DEF IInv, TypeOK, Persistence, record
<1>3. TypeOK'
  BY DEF IInv, TypeOK, record, service, history
<1>4. Outcome'
  BY DEF IInv, Outcome, OutcomeIsShown, record, history
<1>5. Once'
  BY DEF IInv, Once, record, service, history
<1> QED
  BY <1>1, <1>2, <1>3, <1>4, <1>5 DEF IInv

LEMMA LiveFacts ==
  ASSUME IInv, live # None
  PROVE  /\ live \in View /\ live.rev \in Nat /\ live.rev + 1 \in Nat /\ Sound(live)
         /\ live.status \in Status /\ live.life = crashes
         /\ live.rev + 1 \in Nat \cup {-1} /\ live.rev <= live.rev + 1
         /\ awaited \in Nat \cup {-1} /\ awaited <= live.rev /\ awaited <= live.rev + 1
         /\ reports \in 0..MaxReports
<1>1. live \in View /\ Sound(live) /\ live.life = crashes
  BY DEF IInv, Chain, ChainOK
<1>2. live.rev \in Nat /\ live.status \in Status
  BY <1>1 DEF View
<1>3. awaited \in Nat \cup {-1} /\ awaited <= live.rev /\ reports \in 0..MaxReports
  BY DEF IInv, TypeOK, Persistence
<1> QED
  BY <1>1, <1>2, <1>3

LEMMA RefuseKeeps ==
  ASSUME IInv, NEW status \in {"blocked", "cancelled"}, Refuse(status)
  PROVE  IInv'
<1> DEFINE v == Closed(live, status)
<1>1. live # None /\ live.status = "pending" /\ pc = "idle" /\ pc' = "ended"
      /\ UNCHANGED <<service, aborted, disk, awaited, dispatched, cancelling, polling, history, counts>>
  BY DEF Refuse
<1>2. Publish(<<v>>)
  BY <1>1 DEF Refuse, MarkAuthoritativeTerminal, Terminal
<1>3. committed = None /\ ~aborted
  BY <1>1 DEF IInv, Outcome, OutcomeIsShown, TypeOK, Terminal
<1>4. v \in View /\ v.life = live.life /\ v.rev = live.rev + 1 /\ Sound(v) /\ Follows(live, v, None)
  BY <1>1, LiveFacts, ClosedViews DEF Terminal
<1> HIDE DEF v
<1> QED
  BY <1>1, <1>2, <1>3, <1>4, LiveFacts, ViewKeeps DEF history, counts, IInv, TypeOK

LEMMA StartKeeps == ASSUME IInv, Start PROVE IInv'
<1> DEFINE v == Started(live)
<1>1. /\ live # None /\ live.status = "pending" /\ pc = "idle" /\ pc' = "starting"
      /\ awaited' = live.rev + 1 /\ Publish(<<v>>)
      /\ UNCHANGED <<service, aborted, disk, dispatched, cancelling, polling, starts, committed, counts>>
  BY DEF Start, StartAt
<1>2. committed = None /\ ~aborted
  BY <1>1 DEF IInv, Outcome, OutcomeIsShown, TypeOK, Terminal
<1>3. v \in View /\ v.life = live.life /\ v.rev = live.rev + 1 /\ Sound(v) /\ Follows(live, v, None)
      /\ v.status = "running"
  BY <1>1, LiveFacts, BeginningViews
<1> HIDE DEF v
<1> QED
  BY <1>1, <1>2, <1>3, LiveFacts, ViewKeeps DEF counts, IInv, TypeOK

LEMMA ReportKeeps == ASSUME IInv, NEW open \in BOOLEAN, Report(open) PROVE IInv'
<1> DEFINE v == [live EXCEPT !.open = open, !.rev = @ + 1]
<1>1. /\ pc = "working" /\ pc' = "reporting" /\ awaited' = live'.rev /\ live # None
      /\ reports < MaxReports /\ reports' = reports + 1 /\ Observe(open)
      /\ UNCHANGED <<service, aborted, disk, dispatched, cancelling, polling, history, crashes, errors>>
  BY DEF Report, IInv, TypeOK
<1>2. reports' \in 0..MaxReports
  BY <1>1, RunAssumption DEF IInv, TypeOK
<1>3. committed = None /\ live.status \in {"running", "cancelled"}
      /\ (aborted => live.status = "cancelled")
  BY <1>1 DEF IInv, Outcome, OutcomeIsShown
<1>4. CASE live.status \in Terminal
  <2>1. UNCHANGED record
    BY <1>1, <1>4 DEF Observe
  <2>2. awaited' = live.rev
    BY <1>1, <2>1 DEF record
  <2> QED
    BY <1>1, <1>2, <1>3, <2>1, <2>2, LiveFacts, NothingRecorded DEF IInv, TypeOK
<1>5. CASE live.status \notin Terminal
  <2>1. Publish(<<v>>)
    BY <1>1, <1>5 DEF Observe
  <2>2. v \in View /\ v.life = live.life /\ v.rev = live.rev + 1 /\ Sound(v) /\ Follows(live, v, None)
        /\ v.status = live.status
    BY <1>1, <1>5, LiveFacts, ReportedViews
  <2> HIDE DEF v
  <2>3. awaited' = live.rev + 1
    BY <1>1, <2>1, <2>2 DEF Publish
  <2> QED
    BY <1>1, <1>2, <1>3, <2>1, <2>2, <2>3, LiveFacts, ViewKeeps DEF history, IInv, TypeOK
<1> QED
  BY <1>4, <1>5

LEMMA CommitsKeeps ==
  ASSUME IInv, NEW status \in {"completed", "blocked"}, OperationCommits(status)
  PROVE  IInv'
<1> DEFINE v == Closed(live, status)
<1>1. /\ live # None /\ pc = "working" /\ pc' = "ending" /\ committed' = status
      /\ UNCHANGED <<service, aborted, disk, awaited, dispatched, cancelling, polling, starts, counts>>
  BY DEF OperationCommits, IInv, TypeOK
<1>2. committed = None /\ live.status \in {"running", "cancelled"}
  BY <1>1 DEF IInv, Outcome
<1>3. Publish(<<v>>)
  BY <1>2 DEF OperationCommits, MarkAuthoritativeTerminal, Terminal
<1>4. /\ v \in View /\ v.life = live.life /\ v.rev = live.rev + 1 /\ Sound(v)
      /\ v.status = status /\ Follows(live, v, committed') /\ status \in Terminal
  BY <1>1, <1>2, LiveFacts, ClosedViews DEF Terminal
<1>5. status # None
  BY NoneAssumption DEF Status, Terminal
<1> HIDE DEF v
<1> QED
  BY <1>1, <1>2, <1>3, <1>4, <1>5, LiveFacts, ViewKeeps DEF counts, IInv, TypeOK

\* CancelWorkflow of a run that runs.
LEMMA CancelledKeeps ==
  ASSUME IInv, live # None, live.status = "running", CancelWorkflow,
         UNCHANGED <<service, disk, history, polling, counts, awaited, dispatched>>,
         cancelling' \in BOOLEAN, pc' \in {pc, "ending"}
  PROVE  IInv'
<1> DEFINE v == Closed(live, "cancelled")
<1>1. aborted' = TRUE /\ Publish(<<v>>)
  BY DEF CancelWorkflow
<1>2. committed = None
  BY DEF IInv, Outcome, OutcomeIsShown, TypeOK, Terminal
<1>3. v \in View /\ v.life = live.life /\ v.rev = live.rev + 1 /\ Sound(v)
      /\ v.status = "cancelled" /\ Follows(live, v, None)
  BY LiveFacts, ClosedViews DEF Terminal
<1> HIDE DEF v
<1> QED
  BY <1>1, <1>2, <1>3, LiveFacts, ViewKeeps DEF history, counts, IInv, TypeOK

LEMMA ReturnsKeeps ==
  ASSUME IInv, NEW status \in Terminal, OperationReturns(status)
  PROVE  IInv'
<1> DEFINE v == Closed(live, status)
<1>1. /\ live # None /\ pc = "working" /\ pc' = "ending"
      /\ UNCHANGED <<service, disk, awaited, dispatched, cancelling, polling, history, counts>>
  BY DEF OperationReturns, IInv, TypeOK
<1>2. committed = None /\ live.status \in {"running", "cancelled"}
  BY <1>1 DEF IInv, Outcome
<1>3. CASE live.status = "cancelled" \/ aborted
  <2>1. UNCHANGED <<record, aborted>>
    BY <1>3 DEF OperationReturns
  <2> QED
    BY <1>1, <2>1, LiveFacts, NothingRecorded DEF history, counts, IInv, TypeOK
<1>4. CASE ~(live.status = "cancelled" \/ aborted) /\ status = "cancelled"
  <2>1. CancelWorkflow
    BY <1>4 DEF OperationReturns
  <2> QED
    BY <1>1, <1>2, <1>4, <2>1, CancelledKeeps DEF IInv, TypeOK
<1>5. CASE ~(live.status = "cancelled" \/ aborted) /\ status # "cancelled"
  <2>1. Publish(<<v>>) /\ UNCHANGED aborted /\ ~aborted /\ live.status = "running"
    BY <1>2, <1>5 DEF OperationReturns, MarkTerminal, Terminal
  <2>2. v \in View /\ v.life = live.life /\ v.rev = live.rev + 1 /\ Sound(v)
        /\ v.status = status /\ Follows(live, v, None)
    BY <1>1, <2>1, LiveFacts, ClosedViews DEF Terminal
  <2> HIDE DEF v
  <2> QED
    BY <1>1, <1>2, <2>1, <2>2, LiveFacts, ViewKeeps DEF history, counts, IInv, TypeOK
<1> QED
  BY <1>3, <1>4, <1>5

LEMMA AttachKeeps == ASSUME IInv, AttachResult PROVE IInv'
<1> DEFINE v == WithResult(live, FALSE)
<1>1. /\ live # None /\ pc = "ended" /\ pc' = "done" /\ Publish(<<v>>)
      /\ UNCHANGED <<service, aborted, disk, awaited, dispatched, cancelling, polling, history, counts>>
  BY DEF AttachResult, IInv, TypeOK
<1>2. /\ v \in View /\ v.life = live.life /\ v.rev = live.rev + 1 /\ Sound(v)
      /\ v.status = live.status /\ Follows(live, v, committed)
  BY <1>1, LiveFacts, ResultViews
<1> HIDE DEF v
<1> QED
  BY <1>1, <1>2, LiveFacts, ViewKeeps DEF history, counts, IInv, TypeOK, Outcome, OutcomeIsShown

LEMMA CancelKeeps == ASSUME IInv, Cancel PROVE IInv'
<1>1. /\ live # None /\ CancelWorkflow /\ cancelling' = TRUE
      /\ UNCHANGED <<service, disk, call, polling, history, counts>>
  BY DEF Cancel
<1>2. CASE live.status = "running"
  BY <1>1, <1>2, CancelledKeeps DEF call
<1>3. CASE live.status # "running"
  <2>1. UNCHANGED <<aborted, record>>
    BY <1>1, <1>3 DEF CancelWorkflow
  <2>2. Chain' /\ Persistence' /\ Stored'
    BY <1>1, <2>1, SameRecord DEF call, history, counts
  <2>3. TypeOK'
    BY <1>1, <2>1 DEF IInv, TypeOK, record, service, call, history, counts
  <2>4. Outcome' /\ Once'
    BY <1>1, <2>1 DEF IInv, Outcome, OutcomeIsShown, Once, record, service, call, history, counts
  <2> QED
    BY <2>2, <2>3, <2>4 DEF IInv
<1> QED
  BY <1>2, <1>3

LEMMA CrashKeeps == ASSUME IInv, Crash PROVE IInv'
<1>1. /\ live' = None /\ queue' = <<>> /\ saved' = Unsaved /\ crashes' = crashes + 1
      /\ crashes' \in 0..MaxCrashes /\ crashes \in Nat
  BY RunAssumption DEF Crash, IInv, TypeOK
<1>2. queue' \in Seq(View)
  BY <1>1
<1>3. saved' \in [status : {"none", "pending", "saved", "failed"}, rev : Nat \cup {-1}]
      /\ saved'.status # "failed"
  BY <1>1 DEF Unsaved
<1>4. TypeOK'
  BY <1>1, <1>2, <1>3 DEF Crash, IInv, TypeOK, history
<1>5. Chain' /\ Persistence'
  BY <1>1 DEF Crash, Chain, Persistence
<1>6. Stored'
  <2>1. disk # None => disk.life \in Nat
    BY DEF IInv, TypeOK, View
  <2> QED
    BY <1>1, <2>1 DEF Crash, Stored, IInv
<1>7. Outcome'
  BY <1>1 DEF Crash, Outcome, OutcomeIsShown
<1>8. Once'
  BY <1>1, <1>3 DEF Crash, Once, IInv, history
<1> QED
  BY <1>4, <1>5, <1>6, <1>7, <1>8 DEF IInv

\* A fresh record of an id that is free; vs are the views it is published with.
LEMMA FreshKeeps ==
  ASSUME IInv, Free, NEW q \in Seq(View), NEW v \in View, Len(q) > 0,
         ChainOK(disk, q, v, None, crashes), v.status \in {"pending", "running"},
         live' = v, queue' = q, saved' = [saved EXCEPT !.status = "pending"],
         known' = TRUE, committed' = None, UNCHANGED <<up, aborted, disk, cancelling, starts, counts>>,
         awaited' \in Nat \cup {-1}, awaited' <= v.rev, dispatched' \in BOOLEAN, polling' \in BOOLEAN,
         pc' = "idle" \/ (pc' = "starting" /\ v.status = "running")
  PROVE  IInv'
<1>1. live = None /\ saved = Unsaved /\ up /\ ~known /\ ~aborted /\ v # None /\ v.rev \in Nat
      /\ crashes \in Nat
  BY NoneAssumption, RunAssumption DEF Free, IInv, TypeOK, Outcome, View
<1>2. saved' \in [status : {"none", "pending", "saved", "failed"}, rev : Nat \cup {-1}]
      /\ saved'.status = "pending" /\ saved'.rev = -1
  BY <1>1 DEF Unsaved
<1>3. saved'.rev <= v.rev
  BY <1>1, <1>2
<1>4. TypeOK'
  BY <1>1, <1>2, <1>3 DEF IInv, TypeOK, counts
<1>5. Chain' /\ Persistence' /\ Stored'
  BY <1>1, <1>2 DEF Chain, Persistence, Stored, IInv, counts
<1>6. Outcome'
  BY <1>1 DEF Outcome, OutcomeIsShown
<1>7. Once'
  BY <1>1, <1>2 DEF Once, IInv, counts
<1> QED
  BY <1>4, <1>5, <1>6, <1>7 DEF IInv

LEMMA RegisterKeeps == ASSUME IInv, Register PROVE IInv'
<1> DEFINE v == Registered
           q == <<v>>
<1>1. live = None /\ queue = <<>> /\ pc = "idle" /\ (disk = None \/ disk.life # crashes)
      /\ crashes \in Nat /\ awaited = -1
  BY RunAssumption DEF Register, Free, IInv, TypeOK, Stored, Persistence, View
<1>2. v \in View /\ v.life = crashes /\ v.status = "pending" /\ v.rev = 0 /\ Sound(v)
  BY <1>1 DEF Registered, View, Status, Sound, Terminal
<1>3. ChainOK(disk, q, v, None, crashes) /\ q \in Seq(View) /\ Len(q) > 0
  BY <1>1, <1>2, First
<1>4. live' = v /\ queue' = q /\ saved' = [saved EXCEPT !.status = "pending"]
  BY <1>1 DEF Register, Publish
<1> HIDE DEF v, q
<1> QED
  BY <1>1, <1>2, <1>3, <1>4, FreshKeeps DEF Register, call, IInv, TypeOK

LEMMA DispatchKeeps == ASSUME IInv, Dispatch PROVE IInv'
<1> DEFINE a == Registered
           b == Started(a)
           v == WithResult(b, TRUE)
           q == <<a, b, v>>
<1>1. live = None /\ queue = <<>> /\ pc = "idle" /\ (disk = None \/ disk.life # crashes)
      /\ crashes \in Nat /\ disk \in View \cup {None}
  BY RunAssumption DEF Dispatch, Free, IInv, TypeOK, Stored, View
<1>2. a \in View /\ a.life = crashes /\ a.status = "pending" /\ Sound(a)
  BY <1>1 DEF Registered, View, Status, Sound, Terminal
<1>3. b \in View /\ b.life = crashes /\ b.status = "running" /\ Sound(b) /\ Follows(a, b, None)
  BY <1>2, BeginningViews
<1>4. v \in View /\ v.life = crashes /\ v.status = "running" /\ v.rev = b.rev + 1 /\ Sound(v)
      /\ Follows(b, v, None)
  BY <1>3, ResultViews
<1>5. live' = v /\ queue' = <<a, b, v>> /\ saved' = [saved EXCEPT !.status = "pending"]
      /\ awaited' = b.rev /\ pc' = "starting" /\ UNCHANGED starts
  BY <1>1 DEF Dispatch, Publish, StartAt
<1> HIDE DEF a, b, v
<1>6. b.rev \in Nat /\ b.rev <= v.rev
  <2>1. b.rev \in Nat
    BY <1>3 DEF View
  <2> QED
    BY <1>4, <2>1
<1>7. Follows(a, v, None)
  BY <1>2, <1>3, <1>4, Transitive
<1>8. q \in Seq(View) /\ Len(q) = 3 /\ q[1] = a /\ q[2] = b /\ q[3] = v
  BY <1>2, <1>3, <1>4
<1>9. ChainOK(disk, q, v, None, crashes)
  <2> HIDE DEF q
  <2> QED
    BY <1>1, <1>2, <1>3, <1>4, <1>7, <1>8 DEF ChainOK
<1>10. queue' = q /\ Len(q) > 0
  BY <1>5, <1>8
<1>11. /\ Free /\ known' = TRUE /\ committed' = None /\ dispatched' \in BOOLEAN /\ polling' \in BOOLEAN
       /\ UNCHANGED <<up, aborted, disk, cancelling, starts, counts>>
       /\ awaited' \in Nat \cup {-1} /\ awaited' <= v.rev
  BY <1>5, <1>6 DEF Dispatch
<1> HIDE DEF q
<1> QED
  BY <1>4, <1>5, <1>8, <1>9, <1>10, <1>11, FreshKeeps

-----------------------------------------------------------------------------
LEMMA StepInvariant == IInv /\ [Next]_vars => IInv'
<1> SUFFICES ASSUME IInv, [Next]_vars PROVE IInv'
  OBVIOUS
<1>1. CASE UNCHANGED vars
  BY <1>1 DEF IInv, TypeOK, Chain, Persistence, Stored, Outcome, OutcomeIsShown, Once,
              vars, record, service, call, history, counts
<1>2. CASE Operate
  BY <1>2, ReportKeeps, CommitsKeeps, ReturnsKeeps DEF Operate
<1>3. CASE Write
  BY <1>3, SaveKeeps, FailureKeeps DEF Write
<1>4. CASE Register \/ Dispatch \/ Start \/ AttachResult \/ Cancel \/ Crash
  BY <1>4, RegisterKeeps, DispatchKeeps, StartKeeps, AttachKeeps, CancelKeeps, CrashKeeps
<1>5. CASE \E status \in {"blocked", "cancelled"} : Refuse(status)
  BY <1>5, RefuseKeeps
<1>6. CASE Initialize \/ Begin \/ Reported \/ End \/ CancelReturns \/ Poll
  BY <1>6, QuietKeeps
<1> QED
  BY <1>1, <1>2, <1>3, <1>4, <1>5, <1>6 DEF Next

\* Every variable keeps its type, and the service never claims a saved revision that the run has
\* not had (persist, initialize).
THEOREM TypeCorrect == Spec => []TypeOK
<1>1. IInv => TypeOK
  BY DEF IInv
<1> QED
  BY <1>1, InitInvariant, StepInvariant, PTL DEF Spec

\* A live view that says it is saved is the one a restart would show (persist).
THEOREM SavedStaysDurable == Spec => []SavedIsDurable
<1>1. IInv => SavedIsDurable
  BY DEF IInv, TypeOK, Persistence, SavedIsDurable, Unsaved
<1> QED
  BY <1>1, InitInvariant, StepInvariant, PTL DEF Spec

\* The operation of a run id begins at most once over all processes, unless a snapshot could not
\* be written or listed (register, start).
THEOREM BeginsAtMostOnce == Spec => []RunsAtMostOnce
<1>1. IInv => RunsAtMostOnce
  BY DEF IInv, Once, RunsAtMostOnce
<1> QED
  BY <1>1, InitInvariant, StepInvariant, PTL DEF Spec

\* The live record shows the authoritative outcome, or else an acknowledged cancellation
\* (markAuthoritativeTerminal, cancelWorkflow, start).
THEOREM OutcomeStaysShown == Spec => []OutcomeIsShown
<1>1. IInv => OutcomeIsShown
  BY DEF IInv, Outcome
<1> QED
  BY <1>1, InitInvariant, StepInvariant, PTL DEF Spec

\* Nothing is shown as running in a run that is over, live or on disk (startStage and its like).
THEOREM NothingStaysOpen == Spec => []NothingRunsWhenOver
<1>1. IInv => NothingRunsWhenOver
  BY DEF IInv, Chain, ChainOK, Stored, Sound, NothingRunsWhenOver
<1> QED
  BY <1>1, InitInvariant, StepInvariant, PTL DEF Spec

\* What a call has waited for is in the snapshot file when the call goes on, or writing has
\* visibly failed (flushPersistence).
THEOREM CallsWaitForTheFile == Spec => ConfirmedIsDurable
<1> DEFINE Confirmed == /\ pc \in {"starting", "reporting"} /\ pc' \notin {pc, "idle"} => Durable(awaited)
                        /\ pc = "ending" /\ pc' = "ended" => Durable(live.rev)
<1>1. IInv /\ [Next]_vars => [Confirmed]_vars
  <2> SUFFICES ASSUME IInv, Next PROVE Confirmed
    BY DEF vars, call, Confirmed
  <2>1. CASE Begin
    <3>1. live # None /\ pc = "starting" /\ Flushed(awaited)
      BY <2>1 DEF Begin, IInv, TypeOK
    <3> QED
      BY <3>1, LiveFacts, FlushedIsDurable
  <2>2. CASE Reported
    <3>1. live # None /\ pc = "reporting" /\ Flushed(awaited)
      BY <2>2 DEF Reported, IInv, TypeOK
    <3> QED
      BY <3>1, LiveFacts, FlushedIsDurable
  <2>3. CASE End
    <3>1. live # None /\ pc = "ending" /\ Flushed(live.rev)
      BY <2>3 DEF End, IInv, TypeOK
    <3>2. live.rev \in Nat \cup {-1} /\ live.rev <= live.rev
      BY <3>1, LiveFacts
    <3> QED
      BY <3>1, <3>2, FlushedIsDurable
  <2>4. CASE ~(Begin \/ Reported \/ End)
    <3>1. pc' = pc \/ pc' = "idle" \/ pc \in {"idle", "working", "ended"}
      BY <2>4 DEF Next, Initialize, Register, Refuse, Start, Dispatch, Operate, Report,
                  OperationCommits, OperationReturns, AttachResult, Write, Save, SaveRefused,
                  SaveFails, Cancel, CancelReturns, Poll, Crash, call, Free, IInv, TypeOK
    <3> QED
      BY <3>1
  <2> QED
    BY <2>1, <2>2, <2>3, <2>4
<1> QED
  BY <1>1, InitInvariant, StepInvariant, PTL DEF Spec, ConfirmedIsDurable

\* A snapshot file that says how the run ended never says otherwise later, but for an authoritative
\* outcome after a cancellation (WorkflowObservationStore.write, markAuthoritativeTerminal).
THEOREM StoredOutcomesAreFinal == Spec => StoredOutcomeIsFinal
<1> DEFINE Final == disk # None /\ disk.status \in Terminal /\ (errors = 0 \/ disk'.life = disk.life) =>
                      /\ disk'.status \in Terminal
                      /\ disk'.status # disk.status => disk.status = "cancelled" /\ disk'.status = committed
<1>1. IInv /\ [Next]_vars => [Final]_vars
  <2> SUFFICES ASSUME IInv, Next, disk # None, disk.status \in Terminal,
                      errors = 0 \/ disk'.life = disk.life
               PROVE  /\ disk'.status \in Terminal
                      /\ disk'.status # disk.status => disk.status = "cancelled" /\ disk'.status = committed
    BY DEF vars, Final
  <2>1. CASE disk' = disk
    BY <2>1
  <2>2. CASE disk' # disk
    <3>1. queue # <<>> /\ disk' = Head(queue)
      BY <2>2 DEF Next, Initialize, Register, Refuse, Start, Dispatch, Begin, Operate, Report,
                  OperationCommits, OperationReturns, Reported, End, AttachResult, Write, Save,
                  SaveRefused, SaveFails, Cancel, CancelReturns, Poll, Crash
    <3>2. live # None /\ queue \in Seq(View)
      BY <3>1 DEF IInv, TypeOK
    <3>3. ChainOK(disk, queue, live, committed, crashes) /\ Len(queue) > 0 /\ disk' = queue[1]
          /\ 1 \in 1..Len(queue)
      BY <3>1, <3>2 DEF IInv, Chain
    <3>4. disk.life = crashes
      BY <3>2, <3>3 DEF ChainOK, IInv, Once
    <3>5. Follows(disk, queue[1], committed)
      BY <3>3, <3>4 DEF ChainOK
    <3> QED
      BY <3>3, <3>5 DEF Follows
  <2> QED
    BY <2>1, <2>2
<1> QED
  BY <1>1, InitInvariant, StepInvariant, PTL DEF Spec, StoredOutcomeIsFinal

SnapshotsAdvance ==
    [][disk # None => disk' # None /\ (disk.life < disk'.life \/ (disk.life = disk'.life /\ disk.rev < disk'.rev))]_disk

(* The snapshot on disk never goes back to an earlier state of its run: a   *)
(* write replaces it by one of a later process, or by a later record of the *)
(* same process, whatever writes fail or wait when the process ends         *)
(* (workflow-service.ts:233, persistenceTails).                             *)
THEOREM SnapshotsNeverGoBack == Spec => SnapshotsAdvance
<1> DEFINE Later == disk # None => disk' # None /\ (disk.life < disk'.life \/ (disk.life = disk'.life /\ disk.rev < disk'.rev))
<1>1. IInv /\ [Next]_vars => [Later]_disk
  <2> SUFFICES ASSUME IInv, [Next]_vars, disk' # disk, disk # None
               PROVE  disk' # None /\ (disk.life < disk'.life \/ (disk.life = disk'.life /\ disk.rev < disk'.rev))
    OBVIOUS
  <2>1. queue # <<>> /\ disk' = Head(queue)
    BY DEF vars, Next, Initialize, Register, Refuse, Start, Dispatch, Begin, Operate, Report,
           OperationCommits, OperationReturns, Reported, End, AttachResult, Write, Save,
           SaveRefused, SaveFails, Cancel, CancelReturns, Poll, Crash
  <2>2. live # None /\ queue \in Seq(View) /\ disk \in View /\ crashes \in Nat
    BY <2>1 DEF IInv, TypeOK
  <2>3. ChainOK(disk, queue, live, committed, crashes) /\ Len(queue) > 0 /\ disk' = queue[1]
        /\ 1 \in 1..Len(queue) /\ queue[1] \in View
    BY <2>1, <2>2 DEF IInv, Chain
  <2>4. queue[1].life = crashes /\ disk.life <= crashes
    BY <2>3 DEF ChainOK, IInv, Stored
  <2>5. disk' # None
    BY <2>3, NoneAssumption DEF View
  <2>6. disk.life = crashes => disk.rev < queue[1].rev
    BY <2>3 DEF ChainOK, Follows
  <2>7. disk.life \in Nat
    BY <2>2 DEF View
  <2>8. disk.life < crashes \/ disk.life = crashes
    BY <2>2, <2>4, <2>7, SMT
  <2> QED
    BY <2>3, <2>4, <2>5, <2>6, <2>8
<1> QED
  BY <1>1, InitInvariant, StepInvariant, PTL DEF Spec, SnapshotsAdvance
=============================================================================
