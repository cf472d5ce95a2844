--------------------------- MODULE MutationLockProofs ---------------------------
(***************************************************************************)
(* Mutual exclusion and the promise chains of MutationLock, for every      *)
(* number of processes, calls, crashes and errors.  The lock directory     *)
(* alone gives mutual exclusion: a call that is inside is the maker of the *)
(* directory that is there.  The chains need an order: the calls under way *)
(* in a process can be numbered so that the tail has the last number, a    *)
(* call that awaits nobody the first, and a call and the one it awaits are *)
(* neighbours.  That no set of calls waits in a circle (Grounded) is what  *)
(* the order of KnowledgeLock needs: it replaces an induction on the chain *)
(* for the recursive function Waited.                                      *)
(***************************************************************************)
EXTENDS MutationLock, TLAPS

MakerIsInside == \A c \in Callers : pc[c] \in Inside => dir = c

IInv == TypeOK /\ MakerIsInside

LEMMA InitInvariant == Init => IInv
  BY LockAssumption DEF Init, IInv, TypeOK, MakerIsInside, Inside, Places

LEMMA StepInvariant == IInv /\ [Next]_vars => IInv'
<1> SUFFICES ASSUME IInv, [Next]_vars PROVE IInv'
  OBVIOUS
<1> USE LockAssumption
    DEF IInv, TypeOK, MakerIsInside, Inside, Places, Goto, Ends, Fault, Resolved, faultCounts
<1>1. ASSUME NEW c \in Callers, Call(c) PROVE IInv'
  BY <1>1 DEF Call
<1>2. ASSUME NEW c \in Callers, Resume(c) PROVE IInv'
  BY <1>2 DEF Resume
<1>3. ASSUME NEW c \in Callers, MakeDirectory(c) PROVE IInv'
  BY <1>3 DEF MakeDirectory
<1>4. ASSUME NEW c \in Callers, AlreadyHeld(c) PROVE IInv'
  BY <1>4 DEF AlreadyHeld
<1>5. ASSUME NEW c \in Callers, MakeDirectoryFails(c) PROVE IInv'
  BY <1>5 DEF MakeDirectoryFails
<1>6. ASSUME NEW c \in Callers, WriteOwner(c) PROVE IInv'
  BY <1>6 DEF WriteOwner
<1>7. ASSUME NEW c \in Callers, WriteOwnerFails(c) PROVE IInv'
  BY <1>7 DEF WriteOwnerFails
<1>8. ASSUME NEW c \in Callers, Task(c) PROVE IInv'
  BY <1>8 DEF Task
<1>9. ASSUME NEW c \in Callers, RemoveDirectory(c) PROVE IInv'
  BY <1>9 DEF RemoveDirectory
<1>10. ASSUME NEW c \in Callers, RemoveDirectoryFails(c) PROVE IInv'
  BY <1>10 DEF RemoveDirectoryFails
<1>11. ASSUME NEW c \in Callers, Settle(c) PROVE IInv'
  BY <1>11 DEF Settle
<1>12. ASSUME NEW p \in Procs, Crash(p) PROVE IInv'
  BY <1>12 DEF Crash
<1>13. CASE ClearLeftDirectory
  BY <1>13 DEF ClearLeftDirectory
<1>14. CASE UNCHANGED vars
  BY <1>14 DEF vars
<1> QED
  BY <1>1, <1>2, <1>3, <1>4, <1>5, <1>6, <1>7, <1>8, <1>9, <1>10, <1>11, <1>12, <1>13, <1>14
  DEF Next, Step

\* Every variable keeps its type, through any number of crashes and failed calls.
THEOREM TypeCorrect == Spec => []TypeOK
<1>1. IInv => TypeOK
  BY DEF IInv
<1> QED
  BY <1>1, InitInvariant, StepInvariant, PTL DEF Spec

\* At most one task runs at a time over all processes (withKnowledgeBaseMutationLock).
THEOREM AtMostOneInside == Spec => []MutualExclusion
<1>1. IInv => MutualExclusion
  BY DEF IInv, MakerIsInside, MutualExclusion
<1> QED
  BY <1>1, InitInvariant, StepInvariant, PTL DEF Spec

-----------------------------------------------------------------------------
(* The promise chains. *)

Active(c) == pc[c] # "idle"
Together(c, d) == Active(c) /\ Active(d) /\ ProcOf[c] = ProcOf[d]

ChainOK ==
    /\ \A c \in Callers : pc[c] # "await" => previous[c] = None
    /\ \A c \in Callers : previous[c] # None => Together(c, previous[c])
    /\ \A p \in Procs : tail[p] # None => Active(tail[p]) /\ ProcOf[tail[p]] = p
    /\ dir \in Callers => pc[dir] \in Inside

Ranked(f) ==
    /\ \A c \in Callers : Active(c) =>
         tail[ProcOf[c]] # None /\ f[c] <= f[tail[ProcOf[c]]]
    /\ \A c, d \in Callers : Together(c, d) /\ f[c] = f[d] => c = d
    /\ \A c, d \in Callers : Together(c, d) /\ previous[c] = None => f[c] <= f[d]
    /\ \A c, d \in Callers : Together(c, d) /\ previous[c] # None =>
         f[d] <= f[previous[c]] \/ f[c] <= f[d]
    /\ \A c \in Callers : previous[c] # None => f[previous[c]] < f[c]

\* However many calls are looked at, one of them awaits nobody among them.
Grounded == \A B \in SUBSET Callers : B # {} => \E d \in B : previous[d] \notin B

Chained == ChainOK /\ Grounded /\ \E f \in [Callers -> Nat] : Ranked(f)

LEMMA InitChained == Init => Chained
<1> SUFFICES ASSUME Init PROVE Chained
  OBVIOUS
<1>1. ChainOK
  BY LockAssumption DEF Init, ChainOK, Active, Together
<1>2. Ranked([c \in Callers |-> 0])
  BY DEF Init, Ranked, Active, Together
<1>3. Grounded
  BY LockAssumption DEF Init, Grounded
<1> QED
  BY <1>1, <1>2, <1>3 DEF Chained

\* A step in which one call goes on to another place of withKnowledgeBaseMutationLock.
LEMMA MoveRanked ==
    ASSUME IInv, Chained, NEW f \in [Callers -> Nat], Ranked(f), NEW c \in Callers, NEW l \in Places \ {"idle", "await"},
           Active(c), previous[c] = None, Goto(c, l), UNCHANGED <<tail, previous>>,
           dir' \in Callers => pc'[dir'] \in Inside
    PROVE  ChainOK' /\ Grounded' /\ Ranked(f)'
<1>1. \A d \in Callers : Active(d)' <=> Active(d)
  BY DEF IInv, TypeOK, Goto, Active, Places
<1>2. ChainOK'
  BY <1>1, LockAssumption DEF Chained, ChainOK, IInv, TypeOK, Goto, Together, Active, Places
<1>3. Ranked(f)'
  BY <1>1, LockAssumption DEF Ranked, Together, IInv, TypeOK
<1>4. Grounded'
  BY DEF Chained, Grounded
<1> QED
  BY <1>2, <1>3, <1>4

\* The same, when the numbers do not matter.
LEMMA MoveChained ==
    ASSUME IInv, Chained, NEW c \in Callers, NEW l \in Places \ {"idle", "await"},
           Active(c), previous[c] = None, Goto(c, l), UNCHANGED <<tail, previous>>,
           dir' \in Callers => pc'[dir'] \in Inside
    PROVE  Chained'
<1> PICK f \in [Callers -> Nat] : Ranked(f)
  BY DEF Chained
<1> QED
  BY MoveRanked DEF Chained

\* A call takes the last number of its process.
LEMMA CallRanked ==
    ASSUME IInv, Chained, NEW f \in [Callers -> Nat], Ranked(f), NEW c \in Callers, Call(c)
    PROVE  /\ ChainOK' /\ Grounded'
           /\ \E g \in [Callers -> Nat] :
                /\ Ranked(g)'
                /\ \A d \in Callers : d # c => g[d] = f[d]
                /\ \A d \in Callers : Active(d) /\ ProcOf[d] = ProcOf[c] => g[d] < g[c]
<1> USE LockAssumption
<1> PICK t \in Callers \cup {None} : t = tail[ProcOf[c]]
  BY DEF IInv, TypeOK
<1> PICK g \in [Callers -> Nat] : g = [f EXCEPT ![c] = IF t = None THEN 0 ELSE f[t] + 1]
  <2>1. (IF t = None THEN 0 ELSE f[t] + 1) \in Nat
    OBVIOUS
  <2> QED
    BY <2>1
<1>1. ~Active(c) /\ (t # None => t # c /\ Together(t, t))
  BY DEF Call, IInv, TypeOK, Chained, ChainOK, Active, Together
<1>2. /\ \A d \in Callers : Active(d)' <=> Active(d) \/ d = c
      /\ \A d \in Callers : previous'[d] = IF d = c THEN t ELSE previous[d]
      /\ \A p \in Procs : tail'[p] = IF p = ProcOf[c] THEN c ELSE tail[p]
      /\ dir' = dir /\ tail' \in [Procs -> Callers \cup {None}]
  BY DEF Call, Goto, IInv, TypeOK, Active
<1>3. ChainOK'
  <2>1. \A d \in Callers : pc'[d] # "await" => pc'[d] = pc[d] /\ d # c
    BY DEF Call, Goto, IInv, TypeOK
  <2>2. dir' \in Callers => pc'[dir'] \in Inside
    BY DEF Call, Goto, IInv, TypeOK, Chained, ChainOK, Inside
  <2> QED
    BY <1>1, <1>2, <2>1, <2>2 DEF Chained, ChainOK, Together, Active, IInv, TypeOK
<1>4. \A d \in Callers : g[d] = IF d = c THEN IF t = None THEN 0 ELSE f[t] + 1 ELSE f[d]
  OBVIOUS
<1>5. \A d \in Callers : Active(d) /\ ProcOf[d] = ProcOf[c] => t # None /\ f[d] <= f[t]
  BY DEF Ranked
<1>6. \A d \in Callers : ~Active(d) => \A e \in Callers : previous[e] # d
  BY DEF Chained, ChainOK, Together
<1>7. Ranked(g)'
  <2>1. \A d \in Callers : Active(d)' => tail'[ProcOf[d]] # None /\ g[d] <= g[tail'[ProcOf[d]]]
    BY <1>1, <1>2, <1>4, <1>5 DEF Ranked, IInv, TypeOK, Chained, ChainOK
  <2>2. \A d, e \in Callers : Together(d, e)' /\ g[d] = g[e] => d = e
    BY <1>1, <1>2, <1>4, <1>5 DEF Ranked, Together
  <2>3. \A d, e \in Callers : Together(d, e)' /\ previous'[d] = None => g[d] <= g[e]
    BY <1>1, <1>2, <1>4, <1>5 DEF Ranked, Together
  <2>4. \A d, e \in Callers : Together(d, e)' /\ previous'[d] # None =>
          g[e] <= g[previous'[d]] \/ g[d] <= g[e]
    <3> SUFFICES ASSUME NEW d \in Callers, NEW e \in Callers, Together(d, e)', previous'[d] # None
                 PROVE  g[e] <= g[previous'[d]] \/ g[d] <= g[e]
      OBVIOUS
    <3>1. CASE d = c
      BY <3>1, <1>1, <1>2, <1>4, <1>5 DEF Together
    <3>2. CASE d # c
      <4>1. Active(d) /\ previous'[d] = previous[d] /\ previous[d] \in Callers /\ previous[d] # c
        BY <3>2, <1>1, <1>2, <1>6 DEF Together, IInv, TypeOK
      <4>2. CASE e = c
        BY <4>1, <4>2, <3>2, <1>1, <1>2, <1>4, <1>5 DEF Together
      <4>3. CASE e # c
        BY <4>1, <4>3, <3>2, <1>2, <1>4 DEF Ranked, Together
      <4> QED
        BY <4>2, <4>3
    <3> QED
      BY <3>1, <3>2
  <2>5. \A d \in Callers : previous'[d] # None => g[previous'[d]] < g[d]
    BY <1>1, <1>2, <1>4, <1>6 DEF Ranked, IInv, TypeOK
  <2> QED
    BY <2>1, <2>2, <2>3, <2>4, <2>5 DEF Ranked
<1>8. Grounded'
  <2> SUFFICES ASSUME NEW B \in SUBSET Callers, B # {} PROVE \E d \in B : previous'[d] \notin B
    BY DEF Grounded
  <2>1. CASE B = {c}
    BY <2>1, <1>1, <1>2
  <2>2. CASE B # {c}
    <3>1. PICK d \in B \ {c} : previous[d] \notin B \ {c}
      BY <2>2 DEF Chained, Grounded
    <3> QED
      BY <3>1, <1>1, <1>2, <1>6
  <2> QED
    BY <2>1, <2>2
<1>9. \A d \in Callers : Active(d) /\ ProcOf[d] = ProcOf[c] => g[d] < g[c]
  BY <1>1, <1>4, <1>5
<1> QED
  BY <1>3, <1>4, <1>7, <1>8, <1>9

LEMMA SettleRanked ==
    ASSUME IInv, Chained, NEW f \in [Callers -> Nat], Ranked(f), NEW c \in Callers, Settle(c)
    PROVE  ChainOK' /\ Grounded' /\ Ranked(f)'
<1> USE LockAssumption
<1>1. Active(c) /\ previous[c] = None /\ dir # c
  BY DEF Settle, Chained, ChainOK, Active, Inside
<1>2. /\ \A d \in Callers : Active(d)' <=> Active(d) /\ d # c
      /\ \A d \in Callers : d # c => pc'[d] = pc[d]
      /\ \A d \in Callers : previous'[d] = IF previous[d] = c THEN None ELSE previous[d]
      /\ \A p \in Procs : tail'[p] = IF p = ProcOf[c] /\ tail[p] = c THEN None ELSE tail[p]
      /\ dir' = dir
  BY DEF Settle, Goto, Resolved, IInv, TypeOK, Active
<1>3. \A d \in Callers : Together(c, d) /\ d # c => f[c] < f[d]
  BY <1>1 DEF Ranked, Together
<1>4. \A d \in Callers : Together(c, d) /\ d # c => tail[ProcOf[c]] # c
  BY <1>3 DEF Ranked, Together
<1>5. ChainOK'
  BY <1>1, <1>2 DEF Chained, ChainOK, Together, Active, IInv, TypeOK, Inside
<1>6. Ranked(f)'
  <2>1. \A d \in Callers : Active(d)' => tail'[ProcOf[d]] # None /\ f[d] <= f[tail'[ProcOf[d]]]
    BY <1>1, <1>2, <1>4 DEF Ranked, Together
  <2>2. \A d, e \in Callers : Together(d, e)' /\ f[d] = f[e] => d = e
    BY <1>2 DEF Ranked, Together
  <2>3. \A d, e \in Callers : Together(d, e)' /\ previous'[d] = None => f[d] <= f[e]
    <3> SUFFICES ASSUME NEW d \in Callers, NEW e \in Callers, Together(d, e)', previous'[d] = None
                 PROVE  f[d] <= f[e]
      OBVIOUS
    <3>1. CASE previous[d] = None
      BY <3>1, <1>2 DEF Ranked, Together
    <3>2. CASE previous[d] = c
      <4>1. Together(d, c) /\ Together(d, e) /\ Together(c, e) /\ e # c
        BY <3>2, <1>1, <1>2 DEF Chained, ChainOK, Together
      <4>2. f[e] <= f[c] \/ f[d] <= f[e]
        BY <4>1, <3>2, <1>1 DEF Ranked
      <4> QED
        BY <4>1, <4>2, <1>3
    <3> QED
      BY <3>1, <3>2, <1>2
  <2>4. \A d, e \in Callers : Together(d, e)' /\ previous'[d] # None =>
          f[e] <= f[previous'[d]] \/ f[d] <= f[e]
    BY <1>2 DEF Ranked, Together
  <2>5. \A d \in Callers : previous'[d] # None => f[previous'[d]] < f[d]
    BY <1>2 DEF Ranked
  <2> QED
    BY <2>1, <2>2, <2>3, <2>4, <2>5 DEF Ranked
<1>7. Grounded'
  BY <1>2 DEF Chained, Grounded
<1> QED
  BY <1>5, <1>6, <1>7

LEMMA CrashRanked ==
    ASSUME IInv, Chained, NEW f \in [Callers -> Nat], Ranked(f), NEW q \in Procs, Crash(q)
    PROVE  ChainOK' /\ Grounded' /\ Ranked(f)'
<1> USE LockAssumption
<1>1. /\ \A d \in Callers : pc'[d] = IF ProcOf[d] = q THEN "idle" ELSE pc[d]
      /\ \A d \in Callers : previous'[d] = IF ProcOf[d] = q THEN None ELSE previous[d]
      /\ \A p \in Procs : tail'[p] = IF p = q THEN None ELSE tail[p]
      /\ dir' \in Callers => dir' = dir /\ ProcOf[dir] # q
  BY DEF Crash, IInv, TypeOK
<1>2. ChainOK'
  BY <1>1 DEF Chained, ChainOK, Together, Active, IInv, TypeOK
<1>3. Ranked(f)'
  BY <1>1 DEF Ranked, Together, Active
<1>4. Grounded'
  BY <1>1 DEF Chained, Grounded
<1> QED
  BY <1>2, <1>3, <1>4

LEMMA ChainedInvariant == IInv /\ Chained /\ [Next]_vars => Chained'
<1> SUFFICES ASSUME IInv, Chained, [Next]_vars PROVE Chained'
  OBVIOUS
<1> PICK f \in [Callers -> Nat] : Ranked(f)
  BY DEF Chained
<1> USE LockAssumption DEF Inside, Places, Active, faultCounts
<1>0. /\ \A c \in Callers : pc[c] # "await" => previous[c] = None
      /\ dir \in Callers => pc[dir] \in Inside
      /\ pc \in [Callers -> Places]
  BY DEF Chained, ChainOK, IInv, TypeOK
<1>1. ASSUME NEW c \in Callers, Call(c) PROVE Chained'
  BY <1>1, CallRanked DEF Chained
<1>2. ASSUME NEW c \in Callers, Resume(c) PROVE Chained'
  BY <1>0, <1>2, MoveChained DEF Resume, Goto
<1>3. ASSUME NEW c \in Callers, MakeDirectory(c) PROVE Chained'
  BY <1>0, <1>3, MoveChained DEF MakeDirectory, Goto
<1>4. ASSUME NEW c \in Callers, AlreadyHeld(c) PROVE Chained'
  BY <1>0, <1>4, MoveChained DEF AlreadyHeld, Goto
<1>5. ASSUME NEW c \in Callers, MakeDirectoryFails(c) PROVE Chained'
  BY <1>0, <1>5, MoveChained DEF MakeDirectoryFails, Goto
<1>6. ASSUME NEW c \in Callers, WriteOwner(c) PROVE Chained'
  BY <1>0, <1>6, MoveChained DEF WriteOwner, Goto
<1>7. ASSUME NEW c \in Callers, WriteOwnerFails(c) PROVE Chained'
  BY <1>0, <1>7, MoveChained DEF WriteOwnerFails, Goto
<1>8. ASSUME NEW c \in Callers, Task(c) PROVE Chained'
  BY <1>0, <1>8, MoveChained DEF Task, Goto
<1>9. ASSUME NEW c \in Callers, RemoveDirectory(c) PROVE Chained'
  BY <1>0, <1>9, MoveChained DEF RemoveDirectory, Goto
<1>10. ASSUME NEW c \in Callers, RemoveDirectoryFails(c) PROVE Chained'
  BY <1>0, <1>10, MoveChained DEF RemoveDirectoryFails, Goto
<1>11. ASSUME NEW c \in Callers, Settle(c) PROVE Chained'
  BY <1>11, SettleRanked DEF Chained
<1>12. ASSUME NEW p \in Procs, Crash(p) PROVE Chained'
  BY <1>12, CrashRanked DEF Chained
<1>13. CASE ClearLeftDirectory
  <2>1. UNCHANGED <<pc, tail, previous>> /\ dir' \notin Callers
    BY <1>13 DEF ClearLeftDirectory
  <2> QED
    BY <2>1 DEF Chained, ChainOK, Grounded, Ranked, Together
<1>14. CASE UNCHANGED vars
  BY <1>14 DEF vars, Chained, ChainOK, Grounded, Ranked, Together
<1> QED
  BY <1>1, <1>2, <1>3, <1>4, <1>5, <1>6, <1>7, <1>8, <1>9, <1>10, <1>11, <1>12, <1>13, <1>14
  DEF Next, Step

\* A call is never turned away on account of a call of its own process (processLocks, `await
\* previous`).
THEOREM ConflictsAreForeign == Spec => []ConflictIsForeign
<1>1. IInv /\ Chained => ConflictIsForeign
  <2> SUFFICES ASSUME IInv, Chained, NEW c \in Callers, pc[c] = "mkdir", dir \in Callers,
                      ProcOf[dir] = ProcOf[c]
               PROVE  FALSE
    BY DEF ConflictIsForeign
  <2> PICK f \in [Callers -> Nat] : Ranked(f)
    BY DEF Chained
  <2>1. pc[dir] \in Inside /\ previous[dir] = None /\ previous[c] = None /\ dir # c
    BY DEF Chained, ChainOK, Inside
  <2>2. Together(c, dir) /\ Together(dir, c)
    BY <2>1 DEF Together, Active, Inside
  <2>3. f[c] <= f[dir] /\ f[dir] <= f[c]
    BY <2>1, <2>2 DEF Ranked
  <2> QED
    BY <2>1, <2>2, <2>3 DEF Ranked
<1> QED
  BY <1>1, InitInvariant, StepInvariant, InitChained, ChainedInvariant, PTL DEF Spec

\* A process keeps an entry in processLocks exactly while a call of it is under way.
THEOREM ChainsAreDropped == Spec => []ChainIsDropped
<1>1. IInv /\ Chained => ChainIsDropped
  <2> SUFFICES ASSUME IInv, Chained, NEW p \in Procs
               PROVE  tail[p] = None <=> \A c \in Callers : ProcOf[c] = p => ~Active(c)
    BY DEF ChainIsDropped, Active
  <2> PICK f \in [Callers -> Nat] : Ranked(f)
    BY DEF Chained
  <2>1. tail[p] = None => \A c \in Callers : ProcOf[c] = p => ~Active(c)
    BY DEF Ranked
  <2>2. tail[p] # None => tail[p] \in Callers /\ ProcOf[tail[p]] = p /\ Active(tail[p])
    BY DEF Chained, ChainOK, IInv, TypeOK
  <2> QED
    BY <2>1, <2>2
<1> QED
  BY <1>1, InitInvariant, StepInvariant, InitChained, ChainedInvariant, PTL DEF Spec

-----------------------------------------------------------------------------
(* The refinement of KnowledgeLock.  Its `ahead` is the recursive function *)
(* Waited: the numbers say what that function is, because it satisfies one *)
(* equation, and Grounded says that no other function satisfies it.        *)

AheadBy(f) == [c \in Callers |-> {d \in Callers : Together(c, d) /\ f[d] < f[c]}]

WaitsFor(w) ==
    w = [c \in Callers |-> IF previous[c] = None THEN {} ELSE {previous[c]} \cup w[previous[c]]]

\* In a grounded chain at most one function solves the equation of Waited.
LEMMA OneSolution ==
    ASSUME Grounded, previous \in [Callers -> Callers \cup {None}], NEW v, NEW w,
           WaitsFor(v), WaitsFor(w)
    PROVE  v = w
<1> PICK B \in SUBSET Callers : B = {d \in Callers : v[d] # w[d]}
  OBVIOUS
<1>1. ASSUME B # {} PROVE FALSE
  <2>1. PICK d \in B : previous[d] \notin B
    BY <1>1 DEF Grounded
  <2>2. CASE previous[d] = None
    <3>1. v[d] = {}
      BY <2>2 DEF WaitsFor
    <3>2. w[d] = {}
      BY <2>2 DEF WaitsFor
    <3> QED
      BY <3>1, <3>2
  <2>3. CASE previous[d] # None
    <3>1. v[previous[d]] = w[previous[d]]
      BY <2>1, <2>3
    <3>2. v[d] = {previous[d]} \cup v[previous[d]]
      BY <2>3 DEF WaitsFor
    <3>3. w[d] = {previous[d]} \cup w[previous[d]]
      BY <2>3 DEF WaitsFor
    <3> QED
      BY <3>1, <3>2, <3>3
  <2> QED
    BY <2>2, <2>3
<1>2. \A d \in Callers : v[d] = w[d]
  BY <1>1
<1>3. v = [c \in Callers |-> v[c]] /\ w = [c \in Callers |-> w[c]]
  BY DEF WaitsFor
<1> QED
  BY <1>2, <1>3

\* The calls numbered before a call are a solution.
LEMMA AheadSolves ==
    ASSUME TypeOK, ChainOK, NEW f \in [Callers -> Nat], Ranked(f)
    PROVE  WaitsFor(AheadBy(f))
<1> USE LockAssumption
<1>1. ASSUME NEW c \in Callers, previous[c] = None PROVE AheadBy(f)[c] = {}
  BY <1>1 DEF AheadBy, Ranked
<1>2. ASSUME NEW c \in Callers, previous[c] # None
      PROVE  AheadBy(f)[c] = {previous[c]} \cup AheadBy(f)[previous[c]]
  <2>1. PICK b \in Callers : b = previous[c]
    BY <1>2 DEF TypeOK
  <2>2. Together(c, b) /\ b # c /\ f[b] < f[c]
    BY <1>2, <2>1 DEF ChainOK, Ranked, Together
  <2>3. \A d \in Callers : Together(c, d) <=> Together(b, d)
    BY <2>2 DEF Together
  <2>4. \A d \in Callers : Together(c, d) =>
          (f[d] < f[c] <=> d = b \/ f[d] < f[b])
    BY <1>2, <2>1, <2>2, <2>3 DEF Ranked
  <2> QED
    BY <2>1, <2>2, <2>3, <2>4 DEF AheadBy
<1> QED
  BY <1>1, <1>2 DEF WaitsFor, AheadBy

WaitedIsAhead ==
    \A f \in [Callers -> Nat] : TypeOK /\ ChainOK /\ Grounded /\ Ranked(f) => Waited = AheadBy(f)

LEMMA WaitedFact == WaitedIsAhead
<1> SUFFICES ASSUME NEW f \in [Callers -> Nat], TypeOK, ChainOK, Grounded, Ranked(f)
             PROVE  Waited = AheadBy(f)
  BY DEF WaitedIsAhead
<1>1. WaitsFor(AheadBy(f))
  BY AheadSolves
<1>2. \E w : WaitsFor(w)
  BY <1>1
<1>3. WaitsFor(CHOOSE w : WaitsFor(w))
  BY <1>2
<1>4. WaitsFor(Waited)
  BY <1>3 DEF Waited, WaitsFor
<1> QED
  BY <1>1, <1>4, OneSolution DEF TypeOK

LEMMA NextWaitedFact == WaitedIsAhead'
  BY WaitedFact, PTL

Calls == {c \in Callers : Active(c)}

\* What a call that goes on leaves as it is: who is under way, and who waits for whom.
LEMMA MoveKeepsWaiting ==
    ASSUME IInv, Chained, NEW c \in Callers, NEW l \in Places \ {"idle", "await"},
           Active(c), previous[c] = None, Goto(c, l), UNCHANGED <<tail, previous>>,
           dir' \in Callers => pc'[dir'] \in Inside
    PROVE  UNCHANGED <<Calls, Waited>>
<1>1. \A d \in Callers : Active(d)' <=> Active(d)
  BY DEF IInv, TypeOK, Goto, Active, Places
<1>2. Calls' = Calls
  BY <1>1 DEF Calls
<1>3. UNCHANGED previous
  OBVIOUS
<1> QED
  BY <1>2, <1>3 DEF Waited

\* A call that awaits nobody of its process waits for nobody.
LEMMA FirstWaitsForNobody ==
    ASSUME IInv, Chained, NEW c \in Callers, previous[c] = None
    PROVE  Waited[c] = {}
<1> PICK f \in [Callers -> Nat] : Ranked(f)
  BY DEF Chained
<1>1. WaitsFor(AheadBy(f)) /\ Waited = AheadBy(f)
  BY AheadSolves, WaitedFact DEF WaitedIsAhead, IInv, Chained
<1> QED
  BY <1>1 DEF WaitsFor

LEMMA CallCalls ==
    ASSUME IInv, Chained, NEW c \in Callers, Call(c)
    PROVE  KL!Call(c)
<1> USE LockAssumption
<1> PICK f \in [Callers -> Nat] : Ranked(f)
  BY DEF Chained
<1> PICK g \in [Callers -> Nat] :
            /\ Ranked(g)'
            /\ \A d \in Callers : d # c => g[d] = f[d]
            /\ \A d \in Callers : Active(d) /\ ProcOf[d] = ProcOf[c] => g[d] < g[c]
  BY CallRanked
<1>1. ~Active(c) /\ \A d \in Callers : Active(d)' <=> Active(d) \/ d = c
  BY DEF Call, Goto, IInv, TypeOK, Active
<1>2. Calls' = Calls \cup {c} /\ c \notin Calls
  BY <1>1 DEF Calls
<1>3. Waited = AheadBy(f)
  BY WaitedFact DEF WaitedIsAhead, IInv, Chained
<1>4. Waited' = AheadBy(g)'
  <2>1. (TypeOK /\ ChainOK /\ Grounded)'
    BY StepInvariant, CallRanked DEF Next, IInv
  <2> QED
    BY <2>1, NextWaitedFact DEF WaitedIsAhead
<1>5. ASSUME NEW d \in Callers, d # c PROVE AheadBy(g)'[d] = AheadBy(f)[d]
  <2>1. \A e \in Callers : Together(d, e)' /\ g[e] < g[d] <=> Together(d, e) /\ f[e] < f[d]
    BY <1>1, <1>5 DEF Together
  <2> QED
    BY <2>1 DEF AheadBy
<1>6. AheadBy(g)'[c] = {d \in Calls : ProcOf[d] = ProcOf[c]}
  <2>1. \A e \in Callers : Together(c, e)' /\ g[e] < g[c] <=> Active(e) /\ ProcOf[e] = ProcOf[c]
    BY <1>1 DEF Together
  <2> QED
    BY <2>1 DEF AheadBy, Calls
<1>7. Waited' = [Waited EXCEPT ![c] = {d \in Calls : ProcOf[d] = ProcOf[c]}]
  BY <1>3, <1>4, <1>5, <1>6 DEF AheadBy
<1>8. dir' = dir
  BY DEF Call
<1> QED
  BY <1>2, <1>7, <1>8 DEF KL!Call, Calls, Active

LEMMA SettleReturns ==
    ASSUME IInv, Chained, NEW c \in Callers, Settle(c)
    PROVE  KL!Return(c)
<1> USE LockAssumption
<1> PICK f \in [Callers -> Nat] : Ranked(f)
  BY DEF Chained
<1>1. /\ Active(c) /\ previous[c] = None /\ dir # c /\ dir' = dir
      /\ \A d \in Callers : Active(d)' <=> Active(d) /\ d # c
  BY DEF Settle, Goto, IInv, TypeOK, Active, Chained, ChainOK, Inside
<1>2. Calls' = Calls \ {c} /\ c \in Calls
  BY <1>1 DEF Calls
<1>3. Waited = AheadBy(f)
  BY WaitedFact DEF WaitedIsAhead, IInv, Chained
<1>4. Waited' = AheadBy(f)'
  <2>1. (TypeOK /\ ChainOK /\ Grounded /\ Ranked(f))'
    BY StepInvariant, SettleRanked DEF Next, Step, IInv
  <2> QED
    BY <2>1, NextWaitedFact DEF WaitedIsAhead
<1>5. ASSUME NEW d \in Callers PROVE AheadBy(f)'[d] = AheadBy(f)[d] \ {c}
  <2>1. \A e \in Callers : Together(d, e)' /\ f[e] < f[d] <=> Together(d, e) /\ f[e] < f[d] /\ e # c
    <3>1. d = c => \A e \in Callers : Together(d, e) => ~(f[e] < f[d])
      BY <1>1 DEF Ranked
    <3> QED
      BY <1>1, <3>1 DEF Together
  <2> QED
    BY <2>1 DEF AheadBy
<1>6. Waited' = [d \in Callers |-> Waited[d] \ {c}]
  BY <1>3, <1>4, <1>5 DEF AheadBy
<1>7. Waited[c] = {}
  BY <1>1, FirstWaitsForNobody
<1> QED
  BY <1>1, <1>2, <1>6, <1>7 DEF KL!Return, Calls, Active

LEMMA CrashDies ==
    ASSUME IInv, Chained, NEW q \in Procs, Crash(q)
    PROVE  KL!Die(q)
<1> USE LockAssumption
<1> PICK f \in [Callers -> Nat] : Ranked(f)
  BY DEF Chained
<1> PICK dead \in SUBSET Callers : dead = {c \in Calls : ProcOf[c] = q}
  BY DEF Calls
<1>1. /\ \A d \in Callers : Active(d)' <=> Active(d) /\ ProcOf[d] # q
      /\ dir' = IF dir \in dead THEN Left ELSE dir
  BY DEF Crash, IInv, TypeOK, Active, Calls, Chained, ChainOK, Inside
<1>2. Calls' = Calls \ dead
  BY <1>1 DEF Calls
<1>3. Waited = AheadBy(f)
  BY WaitedFact DEF WaitedIsAhead, IInv, Chained
<1>4. Waited' = AheadBy(f)'
  <2>1. (TypeOK /\ ChainOK /\ Grounded /\ Ranked(f))'
    BY StepInvariant, CrashRanked DEF Next, IInv
  <2> QED
    BY <2>1, NextWaitedFact DEF WaitedIsAhead
<1>5. ASSUME NEW d \in Callers PROVE AheadBy(f)'[d] = AheadBy(f)[d] \ dead
  <2>1. \A e \in Callers : Together(d, e)' <=> Together(d, e) /\ e \notin dead
    BY <1>1 DEF Together, Calls
  <2> QED
    BY <2>1 DEF AheadBy
<1>6. Waited' = [d \in Callers |-> Waited[d] \ dead]
  BY <1>3, <1>4, <1>5 DEF AheadBy
<1> QED
  BY <1>1, <1>2, <1>6 DEF KL!Die, Calls, Active

LEMMA LockInit == Init => KL!Init
<1> SUFFICES ASSUME Init PROVE KL!Init
  OBVIOUS
<1> PICK f \in [Callers -> Nat] : Ranked(f)
  BY InitChained DEF Chained
<1>1. Waited = AheadBy(f)
  BY InitInvariant, InitChained, WaitedFact DEF WaitedIsAhead, IInv, Chained
<1>2. \A c \in Callers : ~Active(c)
  BY DEF Init, Active
<1>3. Waited = [c \in Callers |-> {}]
  BY <1>1, <1>2 DEF AheadBy, Together
<1> QED
  BY <1>2, <1>3 DEF KL!Init, Init, Active

\* Every step of the promise chains and the directory is a step of the lock, or none.
LEMMA LockStep == IInv /\ Chained /\ [Next]_vars => [KL!Next]_(KL!vars)
<1> SUFFICES ASSUME IInv, Chained, [Next]_vars
             PROVE  KL!Next \/ UNCHANGED <<Calls, Waited, dir>>
  BY DEF KL!vars, Calls, Active
<1> USE LockAssumption DEF Inside, Places, Active, faultCounts
<1>0. /\ \A c \in Callers : pc[c] # "await" => previous[c] = None
      /\ dir \in Callers => pc[dir] \in Inside
      /\ pc \in [Callers -> Places]
      /\ \A c \in Callers : pc[c] \in Inside => dir = c
  BY DEF Chained, ChainOK, IInv, TypeOK, MakerIsInside
<1>1. ASSUME NEW c \in Callers, Call(c) PROVE KL!Next
  BY <1>1, CallCalls DEF KL!Next
<1>2. ASSUME NEW c \in Callers, Resume(c) PROVE UNCHANGED <<Calls, Waited, dir>>
  BY <1>0, <1>2, MoveKeepsWaiting DEF Resume, Goto
<1>3. ASSUME NEW c \in Callers, MakeDirectory(c) PROVE KL!Next
  <2>1. UNCHANGED <<Calls, Waited>>
    BY <1>0, <1>3, MoveKeepsWaiting DEF MakeDirectory, Goto
  <2>2. c \in Calls /\ Waited[c] = {} /\ dir = None /\ dir' = c
    BY <1>0, <1>3, FirstWaitsForNobody DEF MakeDirectory, Calls
  <2>3. KL!Enter(c)
    BY <2>1, <2>2 DEF KL!Enter, Calls
  <2> QED
    BY <2>3 DEF KL!Next
<1>4. ASSUME NEW c \in Callers, AlreadyHeld(c) PROVE UNCHANGED <<Calls, Waited, dir>>
  BY <1>0, <1>4, MoveKeepsWaiting DEF AlreadyHeld, Goto
<1>5. ASSUME NEW c \in Callers, MakeDirectoryFails(c) PROVE UNCHANGED <<Calls, Waited, dir>>
  BY <1>0, <1>5, MoveKeepsWaiting DEF MakeDirectoryFails, Goto
<1>6. ASSUME NEW c \in Callers, WriteOwner(c) PROVE UNCHANGED <<Calls, Waited, dir>>
  BY <1>0, <1>6, MoveKeepsWaiting DEF WriteOwner, Goto
<1>7. ASSUME NEW c \in Callers, WriteOwnerFails(c) PROVE KL!Next
  <2>1. UNCHANGED <<Calls, Waited>>
    BY <1>0, <1>7, MoveKeepsWaiting DEF WriteOwnerFails, Goto
  <2>2. KL!Leave(c)
    BY <1>0, <1>7, <2>1 DEF WriteOwnerFails, KL!Leave, Calls
  <2> QED
    BY <2>2 DEF KL!Next
<1>8. ASSUME NEW c \in Callers, Task(c) PROVE UNCHANGED <<Calls, Waited, dir>>
  BY <1>0, <1>8, MoveKeepsWaiting DEF Task, Goto
<1>9. ASSUME NEW c \in Callers, RemoveDirectory(c) PROVE KL!Next
  <2>1. UNCHANGED <<Calls, Waited>>
    BY <1>0, <1>9, MoveKeepsWaiting DEF RemoveDirectory, Goto
  <2>2. KL!Leave(c)
    BY <1>0, <1>9, <2>1 DEF RemoveDirectory, KL!Leave, Calls
  <2> QED
    BY <2>2 DEF KL!Next
<1>10. ASSUME NEW c \in Callers, RemoveDirectoryFails(c) PROVE KL!Next
  <2>1. UNCHANGED <<Calls, Waited>>
    BY <1>0, <1>10, MoveKeepsWaiting DEF RemoveDirectoryFails, Goto
  <2>2. KL!Leave(c)
    BY <1>0, <1>10, <2>1 DEF RemoveDirectoryFails, KL!Leave, Calls
  <2> QED
    BY <2>2 DEF KL!Next
<1>11. ASSUME NEW c \in Callers, Settle(c) PROVE KL!Next
  BY <1>11, SettleReturns DEF KL!Next
<1>12. ASSUME NEW p \in Procs, Crash(p) PROVE KL!Next
  BY <1>12, CrashDies DEF KL!Next
<1>13. CASE ClearLeftDirectory
  <2>1. UNCHANGED <<Calls, Waited>>
    BY <1>13 DEF ClearLeftDirectory, Calls, Waited
  <2>2. KL!Clear
    BY <1>13, <2>1 DEF ClearLeftDirectory, KL!Clear, Calls
  <2> QED
    BY <2>2 DEF KL!Next
<1>14. CASE UNCHANGED vars
  BY <1>14 DEF vars, Calls, Waited
<1> QED
  BY <1>1, <1>2, <1>3, <1>4, <1>5, <1>6, <1>7, <1>8, <1>9, <1>10, <1>11, <1>12, <1>13, <1>14
  DEF Next, Step

\* The promise chains of processLocks and the lock directory are one lock: whoever is inside found
\* it free and had no call of its process ahead, and each process is served in call order.
THEOREM LockImplementsKnowledgeLock == Spec => ImplementsKnowledgeLock
<1>1. Init => KL!Init
  BY LockInit
<1>2. IInv /\ Chained /\ [Next]_vars => [KL!Next]_(KL!vars)
  BY LockStep
<1> QED
  BY <1>1, <1>2, InitInvariant, StepInvariant, InitChained, ChainedInvariant, PTL
  DEF Spec, KL!Spec, ImplementsKnowledgeLock
=============================================================================
