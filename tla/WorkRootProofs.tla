--------------------------- MODULE WorkRootProofs ---------------------------
(***************************************************************************)
(* Theorems about WorkRoot, for any core processes, jobs, Test World       *)
(* attempts, probes, limits and failures.                                  *)
(***************************************************************************)
EXTENDS WorkRoot, FiniteSetTheorems, WellFoundedInduction, TLAPS

-----------------------------------------------------------------------------
(* There is always an inode to give to a new tree. *)
LEMMA FreshExists == Fresh \in Nat \ {0}
  <1> DEFINE N == 4 * Cardinality(Names) + 1
  <1>1. IsFiniteSet(Names) /\ Cardinality(Names) \in Nat
    BY WorkRootAssumption, FS_CardinalityType
  <1>2. \E i \in 1..N : i \notin Used
    <2> SUFFICES ASSUME \A i \in 1..N : i \in Used PROVE FALSE
      OBVIOUS
    <2> DEFINE S == Names \X (1..4)
               f == [x \in S |-> IF x[2] = 1 THEN ws[x[1]].ino
                                 ELSE IF x[2] = 2 THEN cand[x[1]].ino
                                 ELSE IF x[2] = 3 THEN marker[x[1]].before.ino
                                 ELSE marker[x[1]].after.ino]
    <2>1. IsFiniteSet(1..4) /\ Cardinality(1..4) = 4
      <3>1. 1 \in Int /\ 4 \in Int
        OBVIOUS
      <3>2. IsFiniteSet(1..4) /\ Cardinality(1..4) = IF 1 > 4 THEN 0 ELSE 4 - 1 + 1
        BY <3>1, FS_Interval
      <3> QED BY <3>2
    <2>2. IsFiniteSet(S) /\ Cardinality(S) = Cardinality(Names) * 4
      BY <1>1, <2>1, FS_Product
    <2>3. f \in Surjection(S, Used)
      <3>1. \A x \in S : f[x] \in Used
        BY DEF Used
      <3>2. ASSUME NEW t \in Used PROVE \E x \in S : f[x] = t
        <4>1. PICK n \in Names : t \in {ws[n].ino, cand[n].ino, marker[n].before.ino, marker[n].after.ino}
          BY DEF Used
        <4>2. <<n, 1>> \in S /\ <<n, 2>> \in S /\ <<n, 3>> \in S /\ <<n, 4>> \in S
          OBVIOUS
        <4>3. /\ f[<<n, 1>>] = ws[n].ino /\ f[<<n, 2>>] = cand[n].ino
              /\ f[<<n, 3>>] = marker[n].before.ino /\ f[<<n, 4>>] = marker[n].after.ino
          BY <4>2
        <4> HIDE DEF f, S
        <4> QED BY <4>1, <4>2, <4>3
      <3> HIDE DEF f, S
      <3>3. f \in [S -> Used]
        <4>1. f = [x \in S |-> f[x]]
          BY DEF f
        <4> QED BY <3>1, <4>1
      <3> QED BY <3>2, <3>3 DEF Surjection
    <2> HIDE DEF f, S
    <2>4. IsFiniteSet(Used) /\ Cardinality(Used) <= Cardinality(S)
      BY <2>2, <2>3, FS_Surjection
    <2>5. (1..N) \in SUBSET Used
      OBVIOUS
    <2>6. Cardinality(1..N) <= Cardinality(Used)
      BY <2>4, <2>5, FS_Subset
    <2>7. N \in Nat /\ N >= 1
      BY <1>1
    <2>8. Cardinality(1..N) = N
      BY <2>7, FS_Interval
    <2>9. Cardinality(Used) \in Nat
      BY <2>4, FS_CardinalityType
    <2> QED BY <1>1, <2>2, <2>4, <2>6, <2>8, <2>9
  <1>3. Fresh \in 1..N
    BY <1>2 DEF Fresh
  <1> QED BY <1>1, <1>3

-----------------------------------------------------------------------------
(* The journal. *)
Entries == [result : {"promoted", "rejected"}, before : Nat, after : Nat]

LEMMA MaxIsThere ==
    ASSUME NEW n \in Nat, NEW P, P \subseteq 1..n, P # {}
    PROVE  Max(P) \in P
  <1> DEFINE R == OpToRel(<, Nat)
             T == {n - k : k \in P}
  <1>0. \A k \in P : n - k \in Nat
    OBVIOUS
  <1>1. T \subseteq Nat /\ T # {}
    BY <1>0
  <1>2. IsWellFoundedOn(R, Nat)
    BY NatLessThanWellFounded
  <1>3. \A x, y \in Nat : x < y => <<x, y>> \in R
    BY DEF OpToRel
  <1> HIDE DEF R
  <1>4. PICK x \in T : \A y \in T : <<y, x>> \notin R
    BY <1>1, <1>2, WFMin
  <1>5. \A y \in T : x <= y
    <2> SUFFICES ASSUME NEW y \in T PROVE x <= y
      OBVIOUS
    <2>1. x \in Nat /\ y \in Nat
      BY <1>1
    <2>2. ~(y < x)
      BY <1>3, <1>4, <2>1
    <2> QED BY <2>1, <2>2
  <1>6. PICK m \in P : x = n - m
    OBVIOUS
  <1>7. \A k \in P : m >= k
    BY <1>5, <1>6
  <1> QED BY <1>7 DEF Max

LEMMA LeftKept ==
    ASSUME NEW j \in Seq(Entries), NEW e \in Entries, NEW i \in 1..(Len(j) + 1)
    PROVE  Left(Append(j, e), i) = Left(j, i)
  <1>1. \A k \in 1..Len(j) : Append(j, e)[k] = j[k]
    OBVIOUS
  <1>2. Len(j) \in Nat
    OBVIOUS
  <1>3. \A k \in 1..(i - 1) : k \in 1..Len(j)
    BY <1>2
  <1>4. Promoted(Append(j, e), i) = Promoted(j, i)
    BY <1>1, <1>3 DEF Promoted
  <1>5. CASE Promoted(j, i) = {}
    BY <1>4, <1>5 DEF Left
  <1>6. CASE Promoted(j, i) # {}
    <2>1. Promoted(j, i) \subseteq 1..Len(j)
      BY <1>3 DEF Promoted
    <2>2. Max(Promoted(j, i)) \in 1..Len(j)
      BY <1>2, <1>6, <2>1, MaxIsThere
    <2> QED BY <1>1, <1>4, <1>6, <2>2 DEF Left
  <1> QED BY <1>4, <1>5, <1>6 DEF Left

LEMMA EmptyJournal == Expected(<<>>) = Baseline
  <1>1. Promoted(<<>>, 1) = {}
    BY DEF Promoted
  <1>2. DOMAIN <<>> = {} /\ Len(<<>>) = 0
    OBVIOUS
  <1> QED BY <1>1, <1>2 DEF Expected, Left

LEMMA Lengthened ==
    ASSUME NEW j \in Seq(Entries), NEW e \in Entries, Expected(j) # 0, e.before = Expected(j)
    PROVE  /\ Append(j, e) \in Seq(Entries) /\ Len(Append(j, e)) = Len(j) + 1
           /\ Expected(Append(j, e)) = IF e.result = "promoted" THEN e.after ELSE Expected(j)
  <1> DEFINE a == Append(j, e)
  <1>1. /\ a \in Seq(Entries) /\ Len(a) = Len(j) + 1 /\ Len(j) \in Nat
        /\ \A k \in 1..Len(j) : a[k] = j[k]
    OBVIOUS
  <1>2. a[Len(j) + 1] = e /\ DOMAIN a = 1..(Len(j) + 1) /\ DOMAIN j = 1..Len(j)
    OBVIOUS
  <1>3. \A i \in 1..(Len(j) + 1) : Left(a, i) = Left(j, i)
    BY LeftKept
  <1>4. Expected(j) = Left(j, Len(j) + 1) /\ \A i \in 1..Len(j) : j[i].before = Left(j, i)
    BY <1>2 DEF Expected
  <1> HIDE DEF a
  <1>5. \A i \in DOMAIN a : a[i].before = Left(a, i)
    <2> SUFFICES ASSUME NEW i \in 1..(Len(j) + 1) PROVE a[i].before = Left(a, i)
      BY <1>2
    <2>1. CASE i = Len(j) + 1
      BY <1>2, <1>3, <1>4, <2>1
    <2>2. CASE i \in 1..Len(j)
      BY <1>1, <1>3, <1>4, <2>2
    <2> QED BY <1>1, <2>1, <2>2
  <1>6. Expected(a) = Left(a, Len(j) + 2)
    <2>1. Len(a) + 1 = Len(j) + 2
      BY <1>1
    <2> QED BY <1>5, <2>1 DEF Expected
  <1> DEFINE n == Len(j) + 1
  <1>7. n \in Nat /\ (Len(j) + 2) - 1 = n /\ n - 1 = Len(j) /\ n = Len(j) + 1
    BY <1>1
  <1> HIDE DEF n
  <1>8. CASE e.result = "promoted"
    <2>1. Promoted(a, Len(j) + 2) = {k \in 1..n : a[k].result = "promoted"}
      BY <1>7 DEF Promoted
    <2>2. n \in Promoted(a, Len(j) + 2) /\ \A k \in Promoted(a, Len(j) + 2) : k \in Nat /\ n >= k
      BY <1>2, <1>7, <1>8, <2>1
    <2>3. Max(Promoted(a, Len(j) + 2)) = n
      <3> PICK P : P = Promoted(a, Len(j) + 2)
        OBVIOUS
      <3>1. \A x \in P : (\A y \in P : x >= y) => x = n
        BY <1>7, <2>2
      <3>2. n \in P /\ \A y \in P : n >= y
        BY <2>2
      <3>3. Max(P) = n
        BY <3>1, <3>2 DEF Max
      <3> QED BY <3>3
    <2> QED BY <1>1, <1>2, <1>6, <1>7, <1>8, <2>2, <2>3 DEF Left, a
  <1>9. CASE e.result # "promoted"
    <2>1. Promoted(a, Len(j) + 2) = {k \in 1..n : a[k].result = "promoted"}
      BY <1>7 DEF Promoted
    <2>2. Promoted(a, n) = {k \in 1..Len(j) : a[k].result = "promoted"}
      BY <1>7 DEF Promoted
    <2>3. Promoted(a, Len(j) + 2) = Promoted(a, n)
      <3>1. \A k \in 1..n : a[k].result = "promoted" => k \in 1..Len(j)
        BY <1>1, <1>2, <1>7, <1>9
      <3>2. \A k \in 1..Len(j) : k \in 1..n
        BY <1>1, <1>7
      <3> QED BY <2>1, <2>2, <3>1, <3>2
    <2>4. Left(a, Len(j) + 2) = Left(a, n)
      BY <2>3 DEF Left
    <2>5. n \in 1..(Len(j) + 1)
      BY <1>1, <1>7
    <2>6. Left(a, n) = Expected(j)
      BY <1>3, <1>4, <1>7, <2>5
    <2> QED BY <1>1, <1>6, <1>9, <2>4, <2>6 DEF a
  <1> QED BY <1>8, <1>9


-----------------------------------------------------------------------------
(* The inductive invariant. *)
Runs == [by : Cores \cup Probes \cup {Nobody}, pc : PCs, w : Names \cup {Nobody},
         todo : SUBSET Names, before : Trees, after : Trees, journal : Seq(Entries),
         closed : BOOLEAN, left : 0..2, calls : 0..MaxCalls,
         dirty : BOOLEAN, broken : BOOLEAN, keep : BOOLEAN]

RootTyped ==
    /\ ws \in [Names -> Trees] /\ cand \in [Names -> Trees]
    /\ files \in [Names -> SUBSET {"patch", "tmp"}]
    /\ marker \in [Names -> [before : Trees, after : Trees]]
    /\ latch \in BOOLEAN
    /\ containers \subseteq Names
    /\ up \subseteq Cores /\ latched \subseteq up /\ spent \subseteq Probes
    /\ faults \in 0..MaxFaults

Typed == RootTyped /\ run \in Runs

(* The steps of one tool call, and of apply_patch up to the exchange. *)
Staging == {"stage", "staged", "bind", "temp", "publish"}
Marking == {"exchange", "revert", "revertMark", "verify", "dropOld", "dropMark"}
Tools == {"command", "wipe"} \cup Staging \cup Marking
Editing == {"agent", "final", "captured"} \cup Tools
Practice == {"prepare", "judge", "checking", "cleanAttempt"}

(* Who may be where: a job or an attempt in its workspace, a probe in its own. *)
HolderOK ==
    /\ run.pc = "idle" <=> run.by = Nobody
    /\ run.pc = "stale" => run.by \in Cores \ up
    /\ run.pc \in Preparing => run.by \in Cores /\ (run.by \in up => run.w \in Jobs)
    /\ run.pc \in {"load", "final", "captured", "teardown"} => run.w \in Jobs
    /\ run.pc \in Practice => run.w \in Attempts
    /\ run.pc \in {"seed", "cleanup", "cleanRoot", "unlatch"} => run.by \in Probes
    /\ run.pc \notin Preparing \cup {"idle"} => \/ run.by \in up /\ run.w \in Jobs \cup Attempts
                                                \/ run.by \in Probes /\ run.w = run.by
    /\ run.pc \in Tools \cup {"checking"} => run.left > 0

(* The journal has room for what may still be written to it. *)
RoomOK ==
    /\ Len(run.journal) <= MaxEntries
    /\ ~run.closed => Len(run.journal) < MaxEntries
    /\ run.pc \in Staging \cup {"exchange", "revert", "revertMark", "verify"} => ~run.closed /\ Fits(run)

(* A run starts with an empty journal. *)
FreshOK == run.pc \in Preparing \cup {"load", "seed", "prepare"} => run.journal = <<>>

(* The tree of the run, its candidate and the journal. *)
TreeOK ==
    /\ run.pc \in Editing => ws[run.w].digest # 0
    /\ run.pc \in Editing \ {"verify"} => Expected(run.journal) = ws[run.w].digest
    /\ run.pc \in Staging \cup {"exchange", "revert", "revertMark"} => ws[run.w] = run.before
    /\ run.pc = "bind" => cand[run.w].digest # 0
    /\ run.pc \in {"temp", "publish", "exchange"} => cand[run.w] = run.after /\ run.after.digest # 0
    /\ run.pc = "verify" => /\ ws[run.w] = run.after /\ run.before.digest # 0
                            /\ Expected(run.journal) = run.before.digest

(* The markers that can be there. *)
MarkOK ==
    /\ run.pc = "undo" => run.todo = Marked
    /\ run.pc \in {"load", "wipe"} \cup Staging => Marked = {}
    /\ run.w \in Jobs /\ run.pc \in {"agent", "command", "final", "captured"} => Marked = {}
    /\ run.pc \in Marking => Marked \subseteq {run.w}
    /\ run.pc = "teardown" => Marked \subseteq {run.w}
    /\ run.pc = "exchange" => marker[run.w] = [before |-> run.before, after |-> run.after]

Clean(n) == ws[n] = None /\ cand[n] = None /\ files[n] = {} /\ marker[n] = NoMarker

(* The other workspaces while a job runs. *)
AloneOK ==
    run.by \in Cores /\ run.w \in Jobs /\ run.pc \notin Preparing =>
        \A n \in Names \ {run.w} : marker[n] = NoMarker /\ cand[n] = None /\ files[n] = {}

(* A probe leaves traces only under its latch; containers may outlive the  *)
(* tmpfs, but not the start of a core process.                             *)
ProbesOK ==
    /\ run.by \in Cores => ~latch
    /\ run.by \in Probes => latch
    /\ \A t \in Probes :
         run.by # t /\ (latch => run.by \in Probes) =>
           /\ Clean(t)
           /\ up # {} \/ (run.by \in Cores /\ run.pc # "stale") => t \notin containers
    /\ run.pc = "seed" => Clean(run.w)
    /\ run.pc = "cleanRoot" => run.w \notin containers
    /\ run.pc = "unlatch" => Clean(run.w) /\ run.w \notin containers

IInv == /\ Typed /\ HolderOK /\ RoomOK /\ FreshOK /\ TreeOK /\ MarkOK /\ AloneOK /\ ProbesOK
        /\ MarkersDecidable

-----------------------------------------------------------------------------
(* Trees, markers and the record of a run. *)
LEMMA NoneType == /\ None \in Trees /\ None.ino = 0 /\ None.digest = 0
                  /\ NoMarker \in [before : Trees, after : Trees] /\ NoMarker.before = None
  <1>1. None \in Trees /\ None.ino = 0 /\ None.digest = 0
    BY DEF None, Trees
  <1> QED BY <1>1 DEF NoMarker

LEMMA TornType ==
    ASSUME NEW t \in Trees
    PROVE  Torn(t) \in Trees /\ Torn(t).ino = t.ino /\ (t = None => Torn(t) = None)
  <1>1. CASE t = None
    BY <1>1, NoneType DEF Torn
  <1>2. CASE t # None
    BY <1>2 DEF Torn, Tree, Trees
  <1> QED BY <1>1, <1>2

LEMMA NewTree ==
    ASSUME NEW d \in Nat
    PROVE  Tree(Fresh, d) \in Trees /\ Tree(Fresh, d).digest = d
  <1>1. PICK i \in Nat : i = Fresh
    BY FreshExists
  <1> QED BY <1>1 DEF Tree, Trees

LEMMA IdleType ==
    /\ Idle \in Runs /\ Idle.by = Nobody /\ Idle.pc = "idle" /\ Idle.journal = <<>>
    /\ Idle.closed = FALSE /\ Len(Idle.journal) = 0 /\ Idle.left = 0
  <1>1. <<>> \in Seq(Entries) /\ Len(<<>>) = 0
    OBVIOUS
  <1>2. 0 \in 0..MaxCalls /\ 0 \in 0..2
    BY WorkRootAssumption
  <1> QED BY <1>1, <1>2, NoneType DEF Idle, Runs, PCs

LEMMA FaultType == ASSUME Typed, Fault \/ NoFault PROVE faults' \in 0..MaxFaults
  BY WorkRootAssumption DEF Typed, RootTyped, Fault, NoFault

(* The fields that most steps of a run leave alone. *)
Same(r) == /\ r.by = run.by /\ r.w = run.w /\ r.journal = run.journal /\ r.closed = run.closed
           /\ r.before = run.before /\ r.after = run.after /\ r.left = run.left

LEMMA GotoRun ==
    ASSUME run \in Runs, NEW pc \in PCs, Goto(pc)
    PROVE  run' \in Runs /\ Same(run') /\ run'.pc = pc /\ run'.todo = run.todo
  BY DEF Goto, Runs, Same

LEMMA RecoverRun ==
    ASSUME NEW r \in Runs, Recover(r)
    PROVE  /\ run' \in Runs /\ run'.pc = Ending /\ run'.by = r.by /\ run'.w = r.w
           /\ run'.journal = r.journal /\ run'.closed = r.closed
  <1>1. Ending \in PCs
    BY DEF Ending, PCs
  <1> QED BY <1>1 DEF Recover, Runs

LEMMA ToolDoneRun ==
    ASSUME NEW r \in Runs, r.left > 0, ToolDone(r)
    PROVE  /\ run' \in Runs /\ run'.by = r.by /\ run'.w = r.w
           /\ run'.pc = "agent" \/ (run'.pc = "cleanAttempt" /\ run.w \in Attempts)
           /\ run'.journal = r.journal /\ run'.closed = r.closed
  <1> PICK n : n = r.left - 1
    OBVIOUS
  <1> PICK pc : pc = IF Replaying /\ Promoted(r.journal, Len(r.journal) + 1) = {}
                     THEN "cleanAttempt" ELSE "agent"
    OBVIOUS
  <1>1. n \in 0..2
    BY DEF Runs
  <1>2. run' = [r EXCEPT !.left = n, !.pc = pc]
    BY DEF ToolDone, Runs
  <1>3. pc \in PCs /\ (pc = "agent" \/ (pc = "cleanAttempt" /\ run.w \in Attempts))
    BY DEF PCs, Replaying
  <1> QED BY <1>1, <1>2, <1>3 DEF Runs

LEMMA RanRun ==
    ASSUME NEW r \in Runs, r.left > 0, NEW back \in PCs, Ran(r, back)
    PROVE  /\ run' \in Runs /\ run'.pc = back /\ run'.by = r.by /\ run'.w = r.w
           /\ run'.journal = r.journal /\ run'.closed = r.closed
  <1> PICK n : n = r.left - 1
    OBVIOUS
  <1>1. n \in 0..2
    BY DEF Runs
  <1>2. run' = [r EXCEPT !.pc = back, !.left = n]
    BY DEF Ran, Runs
  <1> QED BY <1>1, <1>2 DEF Runs

LEMMA RejectRun ==
    ASSUME NEW r \in Runs, NEW b \in Trees, b.digest # 0, Expected(r.journal) = b.digest,
           ~r.closed, Len(r.journal) < MaxEntries
    PROVE  LET q == Reject(r, b)
           IN  /\ q \in Runs /\ q.by = r.by /\ q.w = r.w /\ q.left = r.left /\ q.pc = r.pc
               /\ Expected(q.journal) = b.digest
               /\ Len(q.journal) <= MaxEntries /\ (~q.closed => Len(q.journal) < MaxEntries)
  <1> PICK e : e = Entry("rejected", b, b)
    OBVIOUS
  <1>1. e \in Entries /\ e.before = b.digest /\ e.result # "promoted"
    BY DEF Entry, Entries, Trees
  <1> PICK j : j = Append(r.journal, e)
    OBVIOUS
  <1>2. r.journal \in Seq(Entries)
    BY DEF Runs
  <1>3. j \in Seq(Entries) /\ Len(j) = Len(r.journal) + 1 /\ Expected(j) = b.digest
    BY <1>1, <1>2, Lengthened
  <1>4. Len(r.journal) \in Nat /\ MaxEntries \in Nat
    BY <1>2, WorkRootAssumption
  <1>5. CASE Fits(r)
    <2>1. Reject(r, b) = [r EXCEPT !.journal = j]
      BY <1>5 DEF Reject, Runs
    <2> PICK q : q = [r EXCEPT !.journal = j]
      OBVIOUS
    <2>2. /\ q \in Runs /\ q.by = r.by /\ q.w = r.w /\ q.left = r.left /\ q.pc = r.pc
          /\ q.journal = j /\ q.closed = r.closed
      BY <1>3 DEF Runs
    <2>3. Len(j) < MaxEntries
      BY <1>3, <1>4, <1>5 DEF Fits
    <2> QED BY <1>3, <1>4, <2>1, <2>2, <2>3
  <1>6. CASE ~Fits(r)
    <2>1. Reject(r, b) = [r EXCEPT !.journal = j, !.closed = TRUE]
      BY <1>6 DEF Reject, CloseJournal, Runs
    <2> PICK q : q = [r EXCEPT !.journal = j, !.closed = TRUE]
      OBVIOUS
    <2>2. /\ q \in Runs /\ q.by = r.by /\ q.w = r.w /\ q.left = r.left /\ q.pc = r.pc
          /\ q.journal = j /\ q.closed = TRUE
      BY <1>3 DEF Runs
    <2> QED BY <1>3, <1>4, <2>1, <2>2
  <1> QED BY <1>5, <1>6

-----------------------------------------------------------------------------
(* What keeps the markers decidable. *)
LEMMA ClassKept ==
    ASSUME NEW n \in Names, cand[n] \in Trees, Classifiable(n), ws'[n] = ws[n], marker'[n] = marker[n],
           cand'[n] \in {cand[n], None, Torn(cand[n])}
    PROVE  Classifiable(n)'
  <1>1. cand'[n].ino \in {0, cand[n].ino}
    BY NoneType, TornType
  <1> QED BY <1>1 DEF Classifiable, Prepared, Committed

LEMMA MarksKept ==
    ASSUME Typed, MarkersDecidable,
           \A n \in Names : \/ marker'[n] = NoMarker \/ n \in Attempts
                            \/ /\ ws'[n] = ws[n] /\ marker'[n] = marker[n]
                               /\ cand'[n] \in {cand[n], None, Torn(cand[n])}
    PROVE  MarkersDecidable'
  <1> SUFFICES ASSUME NEW n \in Names, n \notin Attempts, marker'[n] # NoMarker
               PROVE  Classifiable(n)'
    BY DEF MarkersDecidable, Marked
  <1>1. cand[n] \in Trees /\ Classifiable(n)
    BY DEF Typed, RootTyped, MarkersDecidable, Marked
  <1> QED BY <1>1, ClassKept

(* The lock is given back. *)
LEMMA Freed ==
    ASSUME run' = Idle, RootTyped', MarkersDecidable',
           \A t \in Probes : ~latch' => Clean(t)' /\ (up' # {} => t \notin containers')
    PROVE  IInv'
  <1>1. Typed'
    BY IdleType DEF Typed
  <1>2. Nobody \notin Cores \cup Probes /\ MaxEntries \in Nat /\ MaxEntries > 0
    BY WorkRootAssumption
  <1>3. HolderOK'
    BY <1>2, IdleType DEF HolderOK, Preparing, Tools, Staging, Marking, Practice
  <1>4. RoomOK'
    BY <1>2, IdleType DEF RoomOK, Staging
  <1>5. TreeOK' /\ MarkOK'
    BY <1>2, IdleType DEF TreeOK, MarkOK, Editing, Tools, Staging, Marking
  <1>6. AloneOK'
    BY <1>2, IdleType DEF AloneOK
  <1>7. ProbesOK'
    BY <1>2, IdleType DEF ProbesOK
  <1>8. FreshOK'
    BY IdleType DEF FreshOK
  <1> QED BY <1>1, <1>3, <1>4, <1>5, <1>6, <1>7, <1>8 DEF IInv

(* ... by a core process, whose run never touched a probe's workspace, *)
LEMMA JobFreed ==
    ASSUME IInv, run.by \in Cores, run' = Idle, RootTyped', MarkersDecidable',
           latch' = latch, containers' \subseteq containers, run.pc = "stale" => up' \subseteq up,
           \A t \in Probes : Clean(t) => Clean(t)'
    PROVE  IInv'
  <1>1. \A t \in Probes : Clean(t) /\ (up # {} \/ run.pc # "stale" => t \notin containers)
    BY WorkRootAssumption DEF IInv, ProbesOK
  <1> QED BY <1>1, Freed

(* ... or by a probe that leaves its latch. *)
LEMMA ProbeFreed ==
    ASSUME IInv, run.by \in Probes, run' = Idle, RootTyped', MarkersDecidable', latch' = latch
    PROVE  IInv'
  BY Freed DEF IInv, ProbesOK

-----------------------------------------------------------------------------
(* A step inside one workspace. *)
Frame(w) == /\ UNCHANGED <<latch, up>> /\ containers' \subseteq containers \cup {w}
            /\ \A n \in Names \ {w} : /\ ws'[n] = ws[n] /\ marker'[n] = marker[n]
                                      /\ cand'[n] = cand[n] /\ files'[n] = files[n]

LEMMA Local ==
    ASSUME IInv, NEW w \in Names, w = run.w, Frame(w), Typed',
           run.pc \notin Preparing \cup {"idle"}, run'.by = run.by, run'.w = run.w,
           run'.pc \notin Preparing \cup {"idle", "seed", "load", "prepare"},
           run'.pc \in {"cleanRoot", "unlatch"} => w \notin containers',
           run'.pc = "unlatch" => Clean(w)',
           HolderOK', RoomOK', TreeOK', MarkOK', marker'[w] # NoMarker /\ w \notin Attempts => Classifiable(w)'
    PROVE  IInv'
  <1>1. MarkersDecidable'
    <2> SUFFICES ASSUME NEW n \in Names, n \notin Attempts, marker'[n] # NoMarker
               PROVE  Classifiable(n)'
      BY DEF MarkersDecidable, Marked
    <2>1. CASE n = w
      BY <2>1
    <2>2. CASE n # w
      BY <2>2 DEF Frame, IInv, MarkersDecidable, Marked, Classifiable, Prepared, Committed
    <2> QED BY <2>1, <2>2
  <1>2. AloneOK'
    BY DEF IInv, AloneOK, Frame
  <1>3. ProbesOK'
    <2>1. \A t \in Probes : run.by # t => t # w
      BY WorkRootAssumption DEF IInv, HolderOK
    <2>2. \A t \in Probes : t # w /\ Clean(t) => Clean(t)'
      BY DEF Clean, Frame, Names
    <2>3. \A t \in Probes : t # w /\ t \notin containers => t \notin containers'
      BY DEF Frame
    <2>4. run.pc # "stale" /\ run'.pc # "stale"
      BY DEF Preparing
    <2> QED BY <2>1, <2>2, <2>3, <2>4 DEF IInv, ProbesOK, Frame
  <1>4. FreshOK'
    BY DEF FreshOK
  <1> QED BY <1>1, <1>2, <1>3, <1>4 DEF IInv

LEMMA Roles ==
    ASSUME IInv, run.pc \notin Preparing \cup {"idle"}
    PROVE  /\ run.w \in Names /\ run.by # Nobody
           /\ \/ /\ run.by \in Cores /\ run.by \notin Probes /\ run.by \in up
                 /\ run.w \in Jobs \cup Attempts /\ run.w \notin Probes
              \/ run.by \in Probes /\ run.by \notin Cores /\ run.w = run.by
  BY WorkRootAssumption DEF IInv, HolderOK, Names, Typed, RootTyped

LEMMA HolderKept ==
    ASSUME IInv, run.pc \notin Preparing \cup {"idle"}, up' = up, run'.by = run.by, run'.w = run.w,
           run'.pc \notin Preparing \cup {"idle"},
           run'.pc \in {"load", "final", "captured", "teardown"} => run.w \in Jobs,
           run'.pc \in Practice => run.w \in Attempts,
           run'.pc \in {"seed", "cleanup", "cleanRoot", "unlatch"} => run.by \in Probes,
           run'.pc \in Tools \cup {"checking"} => run'.left > 0
    PROVE  HolderOK'
  <1>1. run'.pc # "stale"
    BY DEF Preparing
  <1> QED BY <1>1, Roles DEF HolderOK

(* A run whose agent is done: it is judged or ends. *)
Closing == {"judge", "checking", "teardown", "cleanup", "cleanAttempt"}

LEMMA Leaves ==
    ASSUME IInv, NEW w \in Names, w = run.w, Frame(w), RootTyped', run.pc \notin Preparing \cup {"idle"},
           run' \in Runs, run'.pc \in Closing, run'.by = run.by, run'.w = run.w,
           run'.pc = "teardown" => w \in Jobs, run'.pc = "cleanup" => run.by \in Probes,
           run'.pc \in Practice => w \in Attempts, run'.pc = "checking" => run'.left > 0,
           Len(run'.journal) <= MaxEntries, ~run'.closed => Len(run'.journal) < MaxEntries,
           marker'[w] # NoMarker /\ w \notin Attempts => Classifiable(w)'
    PROVE  IInv'
  <1>1. run'.pc \notin Preparing \cup {"idle", "seed", "load", "prepare", "cleanRoot", "unlatch"} \cup Editing
    BY DEF Closing, Preparing, Editing, Tools, Staging, Marking
  <1>2. run'.pc \notin {"load", "final", "captured"} /\ run'.pc \notin Tools
    BY <1>1 DEF Editing
  <1>3. HolderOK'
    BY <1>1, <1>2, HolderKept DEF Frame
  <1>4. RoomOK' /\ TreeOK'
    BY <1>1 DEF RoomOK, TreeOK, Editing, Tools, Staging, Marking
  <1>5. MarkOK'
    <2>1. w \in Jobs => run.by \in Cores
      BY Roles, WorkRootAssumption
    <2>2. w \in Jobs => Marked' \subseteq {w}
      BY <2>1 DEF IInv, AloneOK, Marked, Frame
    <2> QED BY <1>1, <2>2 DEF MarkOK, Staging, Marking, Editing, Tools, Preparing
  <1> QED BY <1>1, <1>3, <1>4, <1>5, Local DEF Typed

(* A run that ends, and lets its caller decide what to keep. *)
LEMMA EndingRole ==
    ASSUME IInv, run.pc \notin Preparing \cup {"idle"}
    PROVE  /\ Ending \in {"teardown", "cleanup", "cleanAttempt"}
           /\ Ending = "teardown" => run.w \in Jobs
           /\ Ending = "cleanup" => run.by \in Probes
           /\ Ending = "cleanAttempt" => run.w \in Attempts
           /\ run.w \in Jobs => Ending = "teardown"
           /\ run.w \in Attempts => Ending = "cleanAttempt"
           /\ run.by \in Probes => Ending = "cleanup"
  <1>1. CASE run.by \in Probes /\ run.w = run.by
    BY <1>1, WorkRootAssumption DEF Ending
  <1>2. CASE run.w \in Jobs
    BY <1>2, Roles, WorkRootAssumption DEF Ending
  <1>3. CASE run.w \in Attempts
    BY <1>3, Roles, WorkRootAssumption DEF Ending
  <1> QED BY <1>1, <1>2, <1>3, Roles

LEMMA Ends ==
    ASSUME IInv, NEW w \in Names, w = run.w, Frame(w), RootTyped', run.pc \notin Preparing \cup {"idle"},
           run' \in Runs, run'.pc = Ending, run'.by = run.by, run'.w = run.w,
           Len(run'.journal) <= MaxEntries, ~run'.closed => Len(run'.journal) < MaxEntries,
           marker'[w] # NoMarker /\ w \notin Attempts => Classifiable(w)'
    PROVE  IInv'
  BY EndingRole, Leaves DEF Closing, Practice

LEMMA Recovers ==
    ASSUME IInv, NEW w \in Names, w = run.w, Frame(w), RootTyped', run.pc \notin Preparing \cup {"idle"},
           NEW r \in Runs, Recover(r), r.by = run.by, r.w = run.w,
           Len(r.journal) <= MaxEntries, ~r.closed => Len(r.journal) < MaxEntries,
           marker'[w] # NoMarker /\ w \notin Attempts => Classifiable(w)'
    PROVE  IInv'
  BY RecoverRun, Ends

(* A tool call that returns to the agent, *)
LEMMA BackToAgent ==
    ASSUME IInv, NEW w \in Names, w = run.w, Frame(w), RootTyped', run.pc \in {"agent"} \cup Tools,
           run' \in Runs, run'.pc = "agent", run'.by = run.by, run'.w = run.w,
           Len(run'.journal) <= MaxEntries, ~run'.closed => Len(run'.journal) < MaxEntries,
           ws'[w].digest # 0, Expected(run'.journal) = ws'[w].digest,
           w \in Jobs => marker'[w] = NoMarker,
           marker'[w] # NoMarker /\ w \notin Attempts => Classifiable(w)'
    PROVE  IInv'
  <1>2. /\ run.pc \notin Preparing \cup {"idle"}
        /\ "agent" \notin Preparing \cup Tools \cup Practice \cup {"checking"}
    BY DEF Preparing, Tools, Staging, Marking, Practice
  <1>3. HolderOK'
    BY <1>2, HolderKept DEF Frame
  <1>4. RoomOK'
    BY DEF RoomOK, Staging
  <1>5. TreeOK'
    BY DEF TreeOK, Staging
  <1>6. MarkOK'
    <2>1. w \in Jobs => run.by \in Cores
      BY <1>2, Roles, WorkRootAssumption
    <2>2. w \in Jobs => Marked' = {}
      BY <1>2, <2>1 DEF IInv, AloneOK, Marked, Frame
    <2> QED BY <2>2 DEF MarkOK, Staging, Marking
  <1> QED BY <1>2, <1>3, <1>4, <1>5, <1>6, Local DEF Typed

(* ... unless it was the replay of a patch that is not promoted again. *)
LEMMA Returns ==
    ASSUME IInv, NEW w \in Names, w = run.w, Frame(w), RootTyped', run.pc \in {"agent"} \cup Tools,
           NEW r \in Runs, r.left > 0, ToolDone(r), r.by = run.by, r.w = run.w,
           Len(r.journal) <= MaxEntries, ~r.closed => Len(r.journal) < MaxEntries,
           ws'[w].digest # 0, Expected(r.journal) = ws'[w].digest,
           w \in Jobs => marker'[w] = NoMarker,
           marker'[w] # NoMarker /\ w \notin Attempts => Classifiable(w)'
    PROVE  IInv'
  <1>1. /\ run' \in Runs /\ run'.by = run.by /\ run'.w = run.w
        /\ run'.pc = "agent" \/ (run'.pc = "cleanAttempt" /\ run.w \in Attempts)
        /\ run'.journal = r.journal /\ run'.closed = r.closed
    BY ToolDoneRun
  <1>2. run.pc \notin Preparing \cup {"idle"}
    BY DEF Preparing, Tools, Staging, Marking
  <1>3. CASE run'.pc = "agent"
    BY <1>1, <1>3, BackToAgent
  <1>4. CASE run'.pc = "cleanAttempt" /\ run.w \in Attempts
    BY <1>1, <1>2, <1>4, Leaves DEF Closing
  <1> QED BY <1>1, <1>3, <1>4

-----------------------------------------------------------------------------
(* Steps that move only the run. *)
Still == UNCHANGED <<root, containers, up>>

LEMMA StillFrame ==
    ASSUME Typed, Still, faults' \in 0..MaxFaults, latched' \subseteq up, spent' \subseteq Probes
    PROVE  RootTyped' /\ \A w : Frame(w)
  BY DEF Typed, RootTyped, Still, root, Frame

LEMMA StillMarked ==
    ASSUME Still
    PROVE  Marked' = Marked /\ \A n : Classifiable(n) <=> Classifiable(n)'
  BY DEF Still, root, Marked, Classifiable, Prepared, Committed

LEMMA RespondKeeps == ASSUME IInv, NEW k \in 1..2, Respond(k) PROVE IInv'
  <1>0. run \in Runs /\ run.pc = "agent" /\ Still /\ run.calls \in 0..MaxCalls /\ MaxCalls \in Nat
    BY WorkRootAssumption DEF IInv, Typed, Respond, At, Still, procs, Runs
  <1> PICK c : c = run.calls + k
    OBVIOUS
  <1>1. k \in 0..2 /\ c \in 0..MaxCalls
    BY <1>0 DEF Respond
  <1>2. run' = [run EXCEPT !.left = k, !.calls = c]
    BY <1>0 DEF Respond, Runs
  <1>3. /\ run' \in Runs /\ run'.pc = "agent" /\ run'.by = run.by /\ run'.w = run.w
        /\ run'.journal = run.journal /\ run'.closed = run.closed
    BY <1>0, <1>1, <1>2 DEF Runs
  <1>4. run.pc \notin Preparing \cup {"idle"} /\ "agent" \notin Preparing \cup Tools \cup Practice \cup {"checking"}
    BY <1>0 DEF Preparing, Tools, Staging, Marking, Practice
  <1>5. RootTyped' /\ Frame(run.w) /\ run.w \in Names
    BY <1>0, <1>4, StillFrame, Roles DEF IInv, Typed, RootTyped, Respond, procs
  <1>6. HolderOK'
    BY <1>0, <1>3, <1>4, HolderKept DEF Still
  <1>7. RoomOK'
    BY <1>0, <1>3 DEF IInv, RoomOK, Staging
  <1>8. TreeOK'
    BY <1>0, <1>3 DEF IInv, TreeOK, Editing, Staging, Still, root
  <1>9. MarkOK'
    BY <1>0, <1>3, StillMarked DEF IInv, MarkOK, Staging, Marking
  <1>10. marker'[run.w] # NoMarker /\ run.w \notin Attempts => Classifiable(run.w)'
    BY <1>0, <1>3, <1>5, StillMarked DEF IInv, MarkersDecidable, Marked, Still, root
  <1> QED BY <1>3, <1>4, <1>5, <1>6, <1>7, <1>8, <1>9, <1>10, Local DEF Typed

(* A step of a run that stays in its workspace, and what it has to show. *)
LEMMA Proceeds ==
    ASSUME IInv, NEW w \in Names, w = run.w, Frame(w), RootTyped', run.pc \notin Preparing \cup {"idle"},
           run' \in Runs, run'.by = run.by, run'.w = run.w, run'.pc \in Editing,
           run'.pc \in {"final", "captured"} => w \in Jobs,
           run'.pc \in Tools => run'.left > 0,
           RoomOK', TreeOK', MarkOK', marker'[w] # NoMarker /\ w \notin Attempts => Classifiable(w)'
    PROVE  IInv'
  <1>1. /\ run'.pc \notin Preparing \cup {"idle", "seed", "load", "teardown", "cleanup", "cleanRoot", "unlatch"}
        /\ run'.pc \notin Practice
    BY DEF Preparing, Editing, Tools, Staging, Marking, Practice
  <1>2. HolderOK'
    BY <1>1, HolderKept DEF Frame, Practice
  <1> QED BY <1>1, <1>2, Local DEF Typed, Practice

LEMMA StillClass ==
    ASSUME IInv, Still, NEW w \in Names
    PROVE  marker'[w] # NoMarker /\ w \notin Attempts => Classifiable(w)'
  BY StillMarked DEF IInv, MarkersDecidable, Marked, Still, root

LEMMA RoomKept ==
    ASSUME IInv, run'.journal = run.journal, run'.closed = run.closed,
           run'.pc \in Staging \cup {"exchange", "revert", "revertMark", "verify"} =>
             run.pc \in Staging \cup {"exchange", "revert", "revertMark", "verify"}
    PROVE  RoomOK'
  BY DEF IInv, RoomOK, Fits

LEMMA AnswerKeeps == ASSUME IInv, Answer PROVE IInv'
  <1>0. run \in Runs /\ run.pc = "agent" /\ Still /\ run.by \in Cores
    BY DEF IInv, Typed, Answer, At, Still, procs
  <1>1. run.pc \notin Preparing \cup {"idle"}
    BY <1>0 DEF Preparing
  <1>2. RootTyped' /\ Frame(run.w) /\ run.w \in Names /\ run.by \notin Probes
    BY <1>0, <1>1, StillFrame, Roles DEF IInv, Typed, RootTyped, Answer, procs
  <1>3. CASE run.w \in Jobs /\ Goto("final")
    <2>1. run' \in Runs /\ Same(run') /\ run'.pc = "final"
      BY <1>0, <1>3, GotoRun DEF PCs
    <2>2. RoomOK'
      BY <1>0, <2>1, RoomKept DEF Same, Staging
    <2>3. TreeOK'
      BY <1>0, <2>1 DEF IInv, TreeOK, Editing, Staging, Still, root, Same
    <2>4. MarkOK'
      BY <1>0, <2>1, StillMarked DEF IInv, MarkOK, Staging, Marking, Same
    <2> QED BY <1>0, <1>1, <1>2, <1>3, <2>1, <2>2, <2>3, <2>4, StillClass, Proceeds
            DEF Same, Editing, Tools, Staging, Marking
  <1>4. CASE run.w \in Attempts /\ \E k \in 1..2 : run' = [run EXCEPT !.pc = "judge", !.left = k]
    <2>1. PICK k \in 1..2 : run' = [run EXCEPT !.pc = "judge", !.left = k]
      BY <1>4
    <2>2. k \in 0..2 /\ "judge" \in PCs
      BY DEF PCs
    <2>3. /\ run' \in Runs /\ run'.pc = "judge" /\ run'.by = run.by /\ run'.w = run.w
          /\ run'.journal = run.journal /\ run'.closed = run.closed
      BY <1>0, <2>1, <2>2 DEF Runs
    <2> QED BY <1>0, <1>1, <1>2, <1>4, <2>3, StillClass, Leaves DEF Closing, IInv, RoomOK
  <1>5. CASE Goto(Ending)
    <2>1. Ending \in PCs
      BY DEF Ending, PCs
    <2>2. run' \in Runs /\ Same(run') /\ run'.pc = Ending
      BY <1>0, <1>5, <2>1, GotoRun
    <2> QED BY <1>0, <1>1, <1>2, <2>2, StillClass, Ends DEF Same, IInv, RoomOK
  <1> QED BY <1>3, <1>4, <1>5 DEF Answer

LEMMA ConcludeKeeps == ASSUME IInv, Conclude PROVE IInv'
  <1>0. run \in Runs /\ run.pc = "captured" /\ Still /\ run.w \in Jobs
    BY DEF IInv, Typed, Conclude, At, Still, procs, HolderOK
  <1>1. run.pc \notin Preparing \cup {"idle"}
    BY <1>0 DEF Preparing
  <1>2. RootTyped' /\ Frame(run.w) /\ run.w \in Names
    BY <1>0, <1>1, StillFrame, Roles DEF IInv, Typed, RootTyped, Conclude, procs
  <1>3. run' \in Runs /\ Same(run') /\ run'.pc = "teardown"
    BY <1>0, GotoRun DEF PCs, Conclude
  <1>4. Ending = "teardown"
    BY <1>0, <1>1, EndingRole
  <1> QED BY <1>0, <1>1, <1>2, <1>3, <1>4, StillClass, Ends DEF Same, IInv, RoomOK

LEMMA ProbeJudgesKeeps == ASSUME IInv, ProbeJudges PROVE IInv'
  <1>0. run \in Runs /\ run.pc = "agent" /\ Still /\ run.by \in Probes
    BY DEF IInv, Typed, ProbeJudges, At, Still, procs
  <1>1. run.pc \notin Preparing \cup {"idle"}
    BY <1>0 DEF Preparing
  <1>2. RootTyped' /\ Frame(run.w) /\ run.w \in Names
    BY <1>0, <1>1, StillFrame, Roles DEF IInv, Typed, RootTyped, ProbeJudges, procs
  <1>3. run' \in Runs /\ Same(run') /\ run'.pc = "cleanup"
    BY <1>0, GotoRun DEF PCs, ProbeJudges
  <1>4. Ending = "cleanup"
    BY <1>0, <1>1, EndingRole
  <1> QED BY <1>0, <1>1, <1>2, <1>3, <1>4, StillClass, Ends DEF Same, IInv, RoomOK

LEMMA VerifyKeeps == ASSUME IInv, Verify PROVE IInv'
  <1>0. /\ run \in Runs /\ run.pc = "verify" /\ Still /\ run.before \in Trees /\ run.after \in Trees
        /\ run.journal \in Seq(Entries) /\ run.left > 0 /\ MaxEntries \in Nat
    BY WorkRootAssumption DEF IInv, Typed, Verify, At, Still, procs, HolderOK, Tools, Marking, Runs
  <1>1. run.pc \notin Preparing \cup {"idle"}
    BY <1>0 DEF Preparing
  <1>2. RootTyped' /\ Frame(run.w) /\ run.w \in Names
    <2>1. faults' \in 0..MaxFaults
      BY FaultType DEF IInv, Verify
    <2> QED BY <1>0, <1>1, <2>1, StillFrame, Roles DEF IInv, Typed, RootTyped, Verify, procs
  <1>3. /\ ws[run.w] = run.after /\ run.after.digest # 0 /\ run.before.digest # 0
        /\ Expected(run.journal) = run.before.digest /\ ~run.closed /\ Fits(run)
    BY <1>0 DEF IInv, TreeOK, RoomOK, Editing, Tools, Marking
  <1>4. CASE run' = [run EXCEPT !.pc = "dropOld",
                                !.journal = Append(@, Entry("promoted", run.before, run.after))]
    <2> PICK e : e = Entry("promoted", run.before, run.after)
      OBVIOUS
    <2>1. /\ e \in Entries /\ e.before = run.before.digest /\ e.result = "promoted"
          /\ e.after = run.after.digest
      BY <1>0 DEF Entry, Entries, Trees
    <2> PICK j : j = Append(run.journal, e)
      OBVIOUS
    <2>2. j \in Seq(Entries) /\ Len(j) = Len(run.journal) + 1 /\ Expected(j) = run.after.digest
      BY <1>0, <1>3, <2>1, Lengthened
    <2>3. run' = [run EXCEPT !.pc = "dropOld", !.journal = j]
      BY <1>0, <1>4 DEF Runs
    <2>4. /\ run' \in Runs /\ run'.pc = "dropOld" /\ run'.by = run.by /\ run'.w = run.w
          /\ run'.journal = j /\ run'.closed = run.closed /\ run'.left = run.left
      BY <1>0, <2>2, <2>3 DEF Runs, PCs
    <2>5. RoomOK'
      <3>1. Len(run.journal) \in Nat /\ Len(j) < MaxEntries
        BY <1>0, <1>3, <2>2 DEF Fits
      <3> QED BY <1>0, <2>2, <2>4, <3>1 DEF RoomOK, Staging
    <2>6. TreeOK'
      BY <1>0, <1>3, <2>2, <2>4 DEF TreeOK, Editing, Tools, Marking, Staging, Still, root
    <2>7. MarkOK'
      BY <1>0, <2>4, StillMarked DEF IInv, MarkOK, Staging, Marking
    <2> QED BY <1>0, <1>1, <1>2, <2>4, <2>5, <2>6, <2>7, StillClass, Proceeds
            DEF Editing, Tools, Marking
  <1>5. CASE Recover(run)
    BY <1>0, <1>1, <1>2, <1>5, StillClass, Recovers DEF IInv, RoomOK
  <1> QED BY <1>4, <1>5 DEF Verify

-----------------------------------------------------------------------------
(* Commands and the staging container. *)
LEMMA CreateRun ==
    ASSUME IInv, NEW r \in Runs, r.w \in Names, Create(r)
    PROVE  /\ run' \in Runs /\ run'.pc = r.pc /\ run'.by = r.by /\ run'.w = r.w
           /\ run'.journal = r.journal /\ run'.closed = r.closed /\ run'.before = r.before
           /\ run'.left = r.left /\ containers' = containers \cup {r.w}
  <1> PICK b \in BOOLEAN : b = (r.broken \/ r.w \in containers)
    BY DEF Runs
  <1>1. run' = [r EXCEPT !.broken = b]
    BY DEF Create, Runs
  <1> QED BY <1>1 DEF Create, Runs

LEMMA OnlyContainers ==
    ASSUME Typed, UNCHANGED <<root, procs>>, faults' \in 0..MaxFaults, NEW w \in Names,
           containers' \subseteq containers \cup {w}
    PROVE  RootTyped' /\ Frame(w)
  BY DEF Typed, RootTyped, root, procs, Frame

LEMMA RootStill ==
    ASSUME IInv, UNCHANGED root
    PROVE  /\ Marked' = Marked
           /\ \A w \in Names : marker'[w] # NoMarker /\ w \notin Attempts => Classifiable(w)'
  BY DEF root, IInv, MarkersDecidable, Marked, Classifiable, Prepared, Committed

LEMMA RunCommandKeeps == ASSUME IInv, RunCommand PROVE IInv'
  <1>0. run \in Runs /\ run.pc = "agent" /\ run.left > 0
    BY DEF IInv, Typed, RunCommand, At
  <1>1. run.pc \notin Preparing \cup {"idle"}
    BY <1>0 DEF Preparing
  <1>2. run.w \in Names
    BY <1>1, Roles
  <1> PICK r : r = [run EXCEPT !.pc = "command"]
    OBVIOUS
  <1>3. /\ r \in Runs /\ r.pc = "command" /\ r.by = run.by /\ r.w = run.w /\ r.left = run.left
        /\ r.journal = run.journal /\ r.closed = run.closed
    BY <1>0 DEF Runs, PCs
  <1>4. /\ run' \in Runs /\ run'.pc = "command" /\ run'.by = run.by /\ run'.w = run.w
        /\ run'.journal = run.journal /\ run'.closed = run.closed /\ run'.left = run.left
        /\ containers' = containers \cup {run.w}
    BY <1>2, <1>3, CreateRun DEF RunCommand
  <1>5. RootTyped' /\ Frame(run.w)
    BY <1>2, <1>4, OnlyContainers DEF IInv, Typed, RootTyped, RunCommand
  <1>6. RoomOK'
    BY <1>0, <1>4, RoomKept DEF Staging
  <1>7. TreeOK'
    BY <1>0, <1>4 DEF IInv, TreeOK, Editing, Tools, Staging, RunCommand, root
  <1>8. MarkOK'
    BY <1>0, <1>4, RootStill DEF IInv, MarkOK, Staging, Marking, RunCommand
  <1> QED BY <1>0, <1>1, <1>2, <1>4, <1>5, <1>6, <1>7, <1>8, RootStill, Proceeds
          DEF Editing, Tools, RunCommand

LEMMA BrokenRun ==
    ASSUME NEW r \in Runs
    PROVE  LET q == [r EXCEPT !.broken = TRUE]
           IN  /\ q \in Runs /\ q.by = r.by /\ q.w = r.w /\ q.left = r.left /\ q.pc = r.pc
               /\ q.journal = r.journal /\ q.closed = r.closed /\ q.before = r.before
  BY DEF Runs

(* The end of a command: of the agent, or of a check. *)
LEMMA CommandEnds ==
    ASSUME IInv, EndCommand("agent") \/ EndCommand("judge"), run.left > 0,
           run.pc \notin Preparing \cup {"idle"}
    PROVE  /\ run.w \in Names /\ RootTyped' /\ Frame(run.w) /\ UNCHANGED <<root, procs>>
           /\ run' \in Runs /\ run'.by = run.by /\ run'.w = run.w
           /\ run'.pc \in {"agent", "judge"}
           /\ EndCommand("agent") => run'.pc = "agent"
           /\ EndCommand("judge") => run'.pc = "judge"
           /\ run'.journal = run.journal /\ run'.closed = run.closed
  <1>0. run \in Runs /\ run.w \in Names /\ UNCHANGED <<root, procs>> /\ "agent" \in PCs /\ "judge" \in PCs
    BY Roles DEF IInv, Typed, EndCommand, PCs
  <1>1. containers' \subseteq containers /\ faults' \in 0..MaxFaults
    BY FaultType DEF EndCommand, Removed, IInv
  <1>2. RootTyped' /\ Frame(run.w)
    BY <1>0, <1>1, OnlyContainers DEF IInv
  <1>3. ASSUME NEW back \in {"agent", "judge"}, EndCommand(back)
        PROVE  /\ run' \in Runs /\ run'.pc = back /\ run'.by = run.by /\ run'.w = run.w
               /\ run'.journal = run.journal /\ run'.closed = run.closed
    <2>1. PICK r \in Runs : /\ Ran(r, back) /\ r.by = run.by /\ r.w = run.w /\ r.left = run.left
                            /\ r.journal = run.journal /\ r.closed = run.closed
      BY <1>0, <1>3, BrokenRun DEF EndCommand
    <2> QED BY <1>0, <2>1, RanRun
  <1> QED BY <1>0, <1>2, <1>3

LEMMA CommandDoneKeeps == ASSUME IInv, CommandDone PROVE IInv'
  <1>0. run.pc = "command" /\ run.left > 0 /\ run.pc \in Tools /\ EndCommand("agent")
    BY DEF IInv, CommandDone, At, HolderOK, Tools
  <1>1. run.pc \notin Preparing \cup {"idle"}
    BY <1>0 DEF Preparing
  <1>2. /\ run.w \in Names /\ RootTyped' /\ Frame(run.w) /\ UNCHANGED <<root, procs>>
        /\ run' \in Runs /\ run'.by = run.by /\ run'.w = run.w /\ run'.pc = "agent"
        /\ run'.journal = run.journal /\ run'.closed = run.closed
    BY <1>0, <1>1, CommandEnds
  <1>3. /\ ws'[run.w].digest # 0 /\ Expected(run'.journal) = ws'[run.w].digest
        /\ run.w \in Jobs => marker'[run.w] = NoMarker
    BY <1>0, <1>2 DEF IInv, TreeOK, Editing, MarkOK, Marked, root
  <1> QED BY <1>0, <1>2, <1>3, RootStill, BackToAgent DEF IInv, RoomOK

-----------------------------------------------------------------------------
(* apply_patch. *)
LEMMA Here ==
    ASSUME IInv, run.pc \notin Preparing \cup {"idle"}
    PROVE  /\ run \in Runs /\ run.before \in Trees /\ run.after \in Trees /\ run.w \in Names
           /\ run.journal \in Seq(Entries) /\ Len(run.journal) <= MaxEntries
           /\ ~run.closed => Len(run.journal) < MaxEntries
           /\ ws \in [Names -> Trees] /\ cand \in [Names -> Trees]
           /\ files \in [Names -> SUBSET {"patch", "tmp"}]
           /\ marker \in [Names -> [before : Trees, after : Trees]]
           /\ run.pc \in Tools => run.left > 0
  BY Roles DEF IInv, Typed, RootTyped, Runs, RoomOK, HolderOK

LEMMA SweptHere ==
    ASSUME Typed, NEW w \in Names, Swept({w}) \/ SweptInPart({w})
    PROVE  /\ cand' \in [Names -> Trees] /\ files' \in [Names -> SUBSET {"patch", "tmp"}]
           /\ cand'[w] \in {cand[w], None, Torn(cand[w])}
           /\ Swept({w}) => cand'[w] = None /\ files'[w] = {}
           /\ \A n \in Names \ {w} : cand'[n] = cand[n] /\ files'[n] = files[n]
  <1>0. /\ cand \in [Names -> Trees] /\ files \in [Names -> SUBSET {"patch", "tmp"}]
        /\ \A n \in Names : Torn(cand[n]) \in Trees
        /\ None \in Trees
    BY TornType, NoneType DEF Typed, RootTyped
  <1>1. CASE Swept({w})
    BY <1>0, <1>1 DEF Swept
  <1>2. CASE SweptInPart({w})
    <2>1. PICK done \in SUBSET {w}, torn \in SUBSET {w} :
             /\ cand' = [n \in Names |-> IF n \in done THEN None
                                         ELSE IF n \in torn THEN Torn(cand[n]) ELSE cand[n]]
             /\ files' = [n \in Names |-> IF n \in done THEN {} ELSE files[n]]
      BY <1>2 DEF SweptInPart
    <2>2. cand'[w] \in {cand[w], None, Torn(cand[w])}
      BY <2>1
    <2>3. cand' \in [Names -> Trees] /\ files' \in [Names -> SUBSET {"patch", "tmp"}]
      BY <1>0, <2>1
    <2>4. \A n \in Names \ {w} : cand'[n] = cand[n] /\ files'[n] = files[n]
      BY <2>1
    <2>5. Swept({w}) => cand'[w] = None /\ files'[w] = {}
      BY DEF Swept
    <2> QED BY <2>2, <2>3, <2>4, <2>5
  <1> QED BY <1>1, <1>2

LEMMA Unmarked ==
    ASSUME Marked = {}, UNCHANGED marker
    PROVE  Marked' = {} /\ \A n \in Names : marker[n] = NoMarker /\ marker'[n] = NoMarker
  BY DEF Marked

LEMMA OpenPatchKeeps == ASSUME IInv, OpenPatch PROVE IInv'
  <1>0. /\ run.pc = "agent" /\ run.left > 0 /\ UNCHANGED <<ws, marker, latch, procs, containers>>
        /\ Fault \/ NoFault
    BY DEF OpenPatch, At
  <1>1. run.pc \notin Preparing \cup {"idle"} /\ "agent" \in {"agent"} \cup Tools
    BY <1>0 DEF Preparing
  <1> PICK w : w = run.w
    OBVIOUS
  <1>2. /\ run \in Runs /\ w \in Names /\ ws[w] \in Trees /\ ws[w].digest # 0
        /\ Expected(run.journal) = ws[w].digest
    BY <1>0, <1>1, Here DEF IInv, TreeOK, Editing
  <1>3. ASSUME /\ cand' \in [Names -> Trees] /\ files' \in [Names -> SUBSET {"patch", "tmp"}]
               /\ \A n \in Names \ {w} : cand'[n] = cand[n] /\ files'[n] = files[n]
        PROVE  RootTyped' /\ Frame(w)
    BY <1>0, <1>3, FaultType DEF IInv, Typed, RootTyped, Frame, procs
  <1>4. CASE Refused
    <2>1. Recover(run) /\ UNCHANGED <<cand, files>>
      BY <1>4 DEF OpenPatch
    <2>2. RootTyped' /\ Frame(w) /\ UNCHANGED root
      BY <1>0, <1>1, <1>3, <2>1, Here DEF root
    <2> QED BY <1>1, <1>2, <2>1, <2>2, Here, RootStill, Recovers
  <1>5. CASE ~Refused
    <2>0. Marked' = {} /\ \A n \in Names : marker'[n] = NoMarker
      BY <1>0, <1>5, Unmarked DEF Refused
    <2>1. CASE Swept({w}) /\ ToolDone(IF run.closed THEN run ELSE Reject(run, ws[w]))
      <3>1. RootTyped' /\ Frame(w)
        BY <1>2, <1>3, <2>1, SweptHere DEF IInv
      <3>2. PICK r : r = IF run.closed THEN run ELSE Reject(run, ws[w])
        OBVIOUS
      <3>3. /\ r \in Runs /\ r.by = run.by /\ r.w = run.w /\ r.left = run.left
            /\ Expected(r.journal) = ws[w].digest
            /\ Len(r.journal) <= MaxEntries /\ (~r.closed => Len(r.journal) < MaxEntries)
        BY <1>1, <1>2, <3>2, Here, RejectRun
      <3> QED BY <1>0, <1>1, <1>2, <2>0, <2>1, <3>1, <3>2, <3>3, Returns
    <2>2. CASE /\ ~run.closed /\ Fits(run)
               /\ cand' = [cand EXCEPT ![w] = Tree(Fresh, 0)]
               /\ files' = [files EXCEPT ![w] = {"patch"}]
               /\ run' = [run EXCEPT !.pc = "stage", !.before = ws[w]]
      <3>1. RootTyped' /\ Frame(w)
        BY <1>1, <1>2, <1>3, <2>2, Here, NewTree
      <3>2. /\ run' \in Runs /\ run'.pc = "stage" /\ run'.by = run.by /\ run'.w = run.w
            /\ run'.left = run.left /\ run'.journal = run.journal /\ run'.closed = run.closed
            /\ run'.before = ws[w]
        BY <1>2, <2>2 DEF Runs, PCs
      <3>3. RoomOK'
        BY <1>1, <2>2, <3>2, Here DEF RoomOK, Fits
      <3>4. TreeOK'
        BY <1>0, <1>2, <3>2 DEF TreeOK
      <3>5. MarkOK'
        BY <2>0, <3>2 DEF MarkOK, Marking
      <3> QED BY <1>0, <1>1, <1>2, <2>0, <3>1, <3>2, <3>3, <3>4, <3>5, Proceeds
              DEF Editing, Tools, Staging
    <2>3. CASE UNCHANGED <<cand, files>> /\ ToolDone(run)
      <3>1. RootTyped' /\ Frame(w)
        BY <1>1, <1>3, <2>3, Here
      <3> QED BY <1>0, <1>1, <1>2, <2>0, <2>3, <3>1, Here, Returns
    <2>4. CASE /\ cand' \in {cand, [cand EXCEPT ![w] = Tree(Fresh, 0)]}
               /\ Recover(run) /\ UNCHANGED files
      <3>1. RootTyped' /\ Frame(w)
        <4>1. cand' \in [Names -> Trees] /\ \A n \in Names \ {w} : cand'[n] = cand[n]
          BY <1>1, <1>2, <2>4, Here, NewTree
        <4> QED BY <1>1, <1>3, <2>4, <4>1, Here
      <3> QED BY <1>1, <1>2, <2>0, <2>4, <3>1, Here, Recovers
    <2> QED BY <1>5, <2>1, <2>2, <2>3, <2>4 DEF OpenPatch
  <1> QED BY <1>4, <1>5

LEMMA StageKeeps == ASSUME IInv, Stage PROVE IInv'
  <1>0. run.pc = "stage" /\ UNCHANGED <<root, procs, faults>> /\ "stage" \in Tools
    BY DEF Stage, At, Tools, Staging
  <1>1. run.pc \notin Preparing \cup {"idle"}
    BY <1>0 DEF Preparing
  <1>2. run \in Runs /\ run.w \in Names /\ run.left > 0
    BY <1>0, <1>1, Here
  <1> PICK r : r = [run EXCEPT !.pc = "staged"]
    OBVIOUS
  <1>3. /\ r \in Runs /\ r.pc = "staged" /\ r.by = run.by /\ r.w = run.w /\ r.left = run.left
        /\ r.journal = run.journal /\ r.closed = run.closed /\ r.before = run.before
    BY <1>2 DEF Runs, PCs
  <1>4. /\ run' \in Runs /\ run'.pc = "staged" /\ run'.by = run.by /\ run'.w = run.w
        /\ run'.journal = run.journal /\ run'.closed = run.closed /\ run'.left = run.left
        /\ run'.before = run.before /\ containers' = containers \cup {run.w}
    BY <1>2, <1>3, CreateRun DEF Stage
  <1>5. RootTyped' /\ Frame(run.w)
    BY <1>0, <1>2, <1>4, OnlyContainers DEF IInv, Typed, RootTyped
  <1>6. RoomOK'
    BY <1>0, <1>4, RoomKept DEF Staging
  <1>7. TreeOK'
    BY <1>0, <1>4 DEF IInv, TreeOK, Editing, Tools, Staging, root
  <1>8. MarkOK'
    BY <1>0, <1>4, RootStill DEF IInv, MarkOK, Staging, Marking
  <1> QED BY <1>0, <1>1, <1>2, <1>4, <1>5, <1>6, <1>7, <1>8, RootStill, Proceeds
          DEF Editing, Tools, Staging

(* A patch that is rejected before there is a marker. *)
LEMMA Wiping ==
    ASSUME IInv, run.pc \in Staging, NEW w, w = run.w, Frame(w), RootTyped', UNCHANGED <<ws, marker>>,
           run' \in Runs, run'.pc = "wipe", run'.by = run.by, run'.w = run.w, run'.left = run.left,
           Expected(run'.journal) = run.before.digest, Len(run'.journal) <= MaxEntries,
           ~run'.closed => Len(run'.journal) < MaxEntries
    PROVE  IInv'
  <1>1. run.pc \notin Preparing \cup {"idle"} /\ run.pc \in Tools /\ run.pc \in Editing
    BY DEF Preparing, Tools, Staging, Editing
  <1>2. w \in Names /\ run.left > 0 /\ ws[w] = run.before /\ ws[w].digest # 0
    BY <1>1, Here DEF IInv, TreeOK
  <1>3. Marked' = {} /\ \A n \in Names : marker'[n] = NoMarker
    BY Unmarked DEF IInv, MarkOK
  <1>4. RoomOK' /\ TreeOK' /\ MarkOK'
    BY <1>2, <1>3 DEF RoomOK, TreeOK, MarkOK, Staging, Marking
  <1> QED BY <1>1, <1>2, <1>3, <1>4, Proceeds DEF Editing, Tools

LEMMA StageDoneKeeps == ASSUME IInv, StageDone PROVE IInv'
  <1>0. /\ run.pc = "staged" /\ UNCHANGED <<ws, files, marker, latch, procs>>
        /\ Fault \/ NoFault
        /\ containers' \subseteq containers
    BY DEF StageDone, At, Removed
  <1>1. /\ run.pc \notin Preparing \cup {"idle"} /\ run.pc \in Tools /\ run.pc \in Editing
        /\ run.pc \in Staging
    BY <1>0 DEF Preparing, Tools, Staging, Editing
  <1> PICK w : w = run.w
    OBVIOUS
  <1>2. /\ run \in Runs /\ w \in Names /\ ws[w] = run.before /\ run.before \in Trees
        /\ run.before.digest # 0 /\ Expected(run.journal) = run.before.digest /\ ~run.closed
        /\ Len(run.journal) < MaxEntries /\ run.left > 0 /\ Fits(run)
    BY <1>0, <1>1, Here DEF IInv, TreeOK, RoomOK
  <1>3. ASSUME cand' \in [Names -> Trees], \A n \in Names \ {w} : cand'[n] = cand[n]
        PROVE  RootTyped' /\ Frame(w)
    BY <1>0, <1>1, <1>3, FaultType, Here DEF IInv, Typed, RootTyped, Frame, procs
  <1>4. ASSUME NEW d \in {run.before.digest, run.before.digest + 1},
               cand' = [cand EXCEPT ![w].digest = d], Goto("bind")
        PROVE  IInv'
    <2>1. d \in Nat /\ d # 0
      BY <1>2 DEF Trees
    <2>2. cand' \in [Names -> Trees] /\ cand'[w].digest = d
          /\ \A n \in Names \ {w} : cand'[n] = cand[n]
      BY <1>1, <1>2, <1>4, <2>1, Here DEF Trees
    <2>3. run' \in Runs /\ Same(run') /\ run'.pc = "bind"
      BY <1>2, <1>4, GotoRun DEF PCs
    <2>4. RoomOK'
      BY <1>1, <2>3, RoomKept DEF Same
    <2>5. TreeOK'
      BY <1>0, <1>2, <2>1, <2>2, <2>3 DEF TreeOK, Same
    <2>6. Marked' = {} /\ \A n \in Names : marker'[n] = NoMarker
      BY <1>0, <1>1, Unmarked DEF IInv, MarkOK
    <2>7. MarkOK'
      BY <2>3, <2>6 DEF MarkOK, Marking
    <2> QED BY <1>1, <1>2, <1>3, <2>2, <2>3, <2>4, <2>5, <2>6, <2>7, Proceeds
            DEF Same, Editing, Tools, Staging
  <1> PICK q : q = Reject(run, run.before)
    OBVIOUS
  <1>5. /\ q \in Runs /\ q.by = run.by /\ q.w = run.w /\ q.left = run.left
        /\ Expected(q.journal) = run.before.digest
        /\ Len(q.journal) <= MaxEntries /\ (~q.closed => Len(q.journal) < MaxEntries)
    BY <1>2, RejectRun
  <1>6. CASE run' = [q EXCEPT !.pc = "wipe"] /\ UNCHANGED cand
    <2>1. /\ run' \in Runs /\ run'.pc = "wipe" /\ run'.by = q.by /\ run'.w = q.w
          /\ run'.left = q.left /\ run'.journal = q.journal /\ run'.closed = q.closed
      BY <1>5, <1>6 DEF Runs, PCs
    <2> QED BY <1>0, <1>1, <1>3, <1>5, <1>6, <2>1, Here, Wiping
  <1>7. CASE run' = [q EXCEPT !.pc = "wipe", !.broken = TRUE, !.keep = TRUE] /\ UNCHANGED cand
    <2>1. /\ run' \in Runs /\ run'.pc = "wipe" /\ run'.by = q.by /\ run'.w = q.w
          /\ run'.left = q.left /\ run'.journal = q.journal /\ run'.closed = q.closed
      BY <1>5, <1>7 DEF Runs, PCs
    <2> QED BY <1>0, <1>1, <1>3, <1>5, <1>7, <2>1, Here, Wiping
  <1> QED BY <1>4, <1>6, <1>7 DEF StageDone

LEMMA BindKeeps == ASSUME IInv, Bind PROVE IInv'
  <1>0. /\ run.pc = "bind" /\ UNCHANGED <<ws, cand, marker, latch, procs, containers>>
        /\ NoFault /\ files' = [files EXCEPT ![run.w] = {}]
    BY DEF Bind, At
  <1>1. /\ run.pc \notin Preparing \cup {"idle"} /\ run.pc \in Tools /\ run.pc \in Editing
        /\ run.pc \in Staging
    BY <1>0 DEF Preparing, Tools, Staging, Editing
  <1> PICK w : w = run.w
    OBVIOUS
  <1>2. /\ run \in Runs /\ w \in Names /\ ws[w] = run.before /\ run.before \in Trees
        /\ run.before.digest # 0 /\ Expected(run.journal) = run.before.digest /\ ~run.closed
        /\ Len(run.journal) < MaxEntries /\ run.left > 0 /\ Fits(run)
        /\ cand[w].digest # 0 /\ cand[w] \in Trees
    BY <1>0, <1>1, Here DEF IInv, TreeOK, RoomOK
  <1>3. RootTyped' /\ Frame(w)
    BY <1>0, <1>1, <1>2, FaultType, Here DEF IInv, Typed, RootTyped, Frame, procs
  <1>4. CASE run' = [run EXCEPT !.pc = "temp", !.after = cand[w]]
    <2>1. /\ run' \in Runs /\ run'.pc = "temp" /\ run'.by = run.by /\ run'.w = run.w
          /\ run'.left = run.left /\ run'.journal = run.journal /\ run'.closed = run.closed
          /\ run'.before = run.before /\ run'.after = cand[w]
      BY <1>2, <1>4 DEF Runs, PCs
    <2>2. RoomOK'
      BY <1>1, <2>1, RoomKept
    <2>3. TreeOK'
      BY <1>0, <1>2, <2>1 DEF TreeOK
    <2>4. Marked' = {} /\ \A n \in Names : marker'[n] = NoMarker
      BY <1>0, <1>1, Unmarked DEF IInv, MarkOK
    <2>5. MarkOK'
      BY <2>1, <2>4 DEF MarkOK, Marking
    <2> QED BY <1>1, <1>2, <1>3, <2>1, <2>2, <2>3, <2>4, <2>5, Proceeds
            DEF Editing, Tools, Staging
  <1>5. CASE run' = [Reject(run, run.before) EXCEPT !.pc = "wipe"]
    <2> PICK q : q = Reject(run, run.before)
      OBVIOUS
    <2>1. /\ q \in Runs /\ q.by = run.by /\ q.w = run.w /\ q.left = run.left
          /\ Expected(q.journal) = run.before.digest
          /\ Len(q.journal) <= MaxEntries /\ (~q.closed => Len(q.journal) < MaxEntries)
      BY <1>2, RejectRun
    <2>2. /\ run' \in Runs /\ run'.pc = "wipe" /\ run'.by = q.by /\ run'.w = q.w
          /\ run'.left = q.left /\ run'.journal = q.journal /\ run'.closed = q.closed
      BY <1>5, <2>1 DEF Runs, PCs
    <2> QED BY <1>0, <1>1, <1>3, <2>1, <2>2, Wiping
  <1> QED BY <1>4, <1>5 DEF Bind

LEMMA WipeKeeps == ASSUME IInv, Wipe PROVE IInv'
  <1>0. /\ run.pc = "wipe" /\ UNCHANGED <<ws, marker, latch, procs, containers>>
        /\ Fault \/ NoFault
        /\ Swept({run.w}) \/ SweptInPart({run.w})
    BY DEF Wipe, At
  <1>1. run.pc \notin Preparing \cup {"idle"} /\ run.pc \in Tools /\ run.pc \in Editing
    BY <1>0 DEF Preparing, Tools, Editing
  <1> PICK w : w = run.w
    OBVIOUS
  <1>2. /\ run \in Runs /\ w \in Names /\ ws[w].digest # 0 /\ Expected(run.journal) = ws[w].digest
        /\ run.left > 0
    BY <1>0, <1>1, Here DEF IInv, TreeOK
  <1>3. RootTyped' /\ Frame(w)
    BY <1>0, <1>1, <1>2, FaultType, SweptHere, Here DEF IInv, Typed, RootTyped, Frame, procs
  <1>4. Marked' = {} /\ \A n \in Names : marker'[n] = NoMarker
    BY <1>0, Unmarked DEF IInv, MarkOK
  <1>5. CASE Recover(run)
    BY <1>1, <1>2, <1>3, <1>4, <1>5, Here, Recovers
  <1>6. CASE ToolDone(run)
    BY <1>0, <1>1, <1>2, <1>3, <1>4, <1>6, Here, Returns
  <1>7. CASE Recover([run EXCEPT !.dirty = TRUE])
    <2> PICK r : r = [run EXCEPT !.dirty = TRUE]
      OBVIOUS
    <2>1. /\ r \in Runs /\ r.by = run.by /\ r.w = run.w /\ r.journal = run.journal
          /\ r.closed = run.closed
      BY <1>2 DEF Runs
    <2> QED BY <1>1, <1>2, <1>3, <1>4, <1>7, <2>1, Here, Recovers
  <1> QED BY <1>5, <1>6, <1>7 DEF Wipe

LEMMA WriteMarkerKeeps == ASSUME IInv, WriteMarker PROVE IInv'
  <1>0. /\ run.pc = "temp" /\ UNCHANGED <<ws, cand, marker, latch, procs, containers>>
        /\ NoFault /\ files' = [files EXCEPT ![run.w] = {"tmp"}]
    BY DEF WriteMarker, At
  <1>1. /\ run.pc \notin Preparing \cup {"idle"} /\ run.pc \in Tools /\ run.pc \in Editing
        /\ run.pc \in Staging
    BY <1>0 DEF Preparing, Tools, Staging, Editing
  <1>2. run \in Runs /\ run.w \in Names /\ run.left > 0
    BY <1>1, Here
  <1>3. RootTyped' /\ Frame(run.w)
    BY <1>0, <1>1, <1>2, FaultType, Here DEF IInv, Typed, RootTyped, Frame, procs
  <1>4. run' \in Runs /\ Same(run') /\ run'.pc = "publish"
    BY <1>2, GotoRun DEF PCs, WriteMarker
  <1>5. RoomOK'
    BY <1>1, <1>4, RoomKept DEF Same
  <1>6. TreeOK'
    BY <1>0, <1>1, <1>4 DEF IInv, TreeOK, Same
  <1>7. Marked' = {} /\ \A n \in Names : marker'[n] = NoMarker
    BY <1>0, <1>1, Unmarked DEF IInv, MarkOK
  <1>8. MarkOK'
    BY <1>4, <1>7 DEF MarkOK, Marking
  <1> QED BY <1>1, <1>2, <1>3, <1>4, <1>5, <1>6, <1>7, <1>8, Proceeds
          DEF Same, Editing, Tools, Staging

(* What a step after the marker was published may do to its own trees. *)
LEMMA Doubt ==
    ASSUME IInv, NEW w \in Names, ws'[w] = ws[w], marker'[w] \in {marker[w], NoMarker},
           cand'[w] \in {cand[w], None, Torn(cand[w])}
    PROVE  marker'[w] # NoMarker /\ w \notin Attempts => Classifiable(w)'
  <1> SUFFICES ASSUME marker'[w] # NoMarker, w \notin Attempts PROVE Classifiable(w)'
    OBVIOUS
  <1>1. cand[w] \in Trees /\ Classifiable(w)
    BY DEF IInv, Typed, RootTyped, MarkersDecidable, Marked
  <1> QED BY <1>1, ClassKept

LEMMA OneMarked ==
    ASSUME NEW w, Marked \subseteq {w}, Frame(w)
    PROVE  /\ Marked' \subseteq {w}
           /\ marker'[w] = NoMarker => Marked' = {}
  BY DEF Marked, Frame

LEMMA PublishMarkerKeeps == ASSUME IInv, PublishMarker PROVE IInv'
  <1>0. /\ run.pc = "publish" /\ UNCHANGED <<ws, latch, procs, containers>>
        /\ Fault \/ NoFault
        /\ files' = [files EXCEPT ![run.w] = {}]
    BY DEF PublishMarker, At
  <1>1. /\ run.pc \notin Preparing \cup {"idle"} /\ run.pc \in Tools /\ run.pc \in Editing
        /\ run.pc \in Staging
    BY <1>0 DEF Preparing, Tools, Staging, Editing
  <1> PICK w : w = run.w
    OBVIOUS
  <1>2. /\ run \in Runs /\ w \in Names /\ ws[w] = run.before /\ run.before \in Trees
        /\ run.before.digest # 0 /\ Expected(run.journal) = run.before.digest /\ ~run.closed
        /\ Len(run.journal) < MaxEntries /\ run.left > 0 /\ Fits(run)
        /\ cand[w] = run.after /\ run.after \in Trees /\ run.after.digest # 0
        /\ cand \in [Names -> Trees] /\ marker \in [Names -> [before : Trees, after : Trees]]
        /\ Torn(cand[w]) \in Trees /\ None \in Trees
    BY <1>0, <1>1, Here, TornType, NoneType DEF IInv, TreeOK, RoomOK
  <1>3. ASSUME cand' \in [Names -> Trees], \A n \in Names \ {w} : cand'[n] = cand[n],
               marker' \in [Names -> [before : Trees, after : Trees]],
               \A n \in Names \ {w} : marker'[n] = marker[n]
        PROVE  RootTyped' /\ Frame(w)
    BY <1>0, <1>1, <1>2, <1>3, FaultType, Here DEF IInv, Typed, RootTyped, Frame, procs
  <1>4. Marked = {} /\ marker[w] = NoMarker
    BY <1>1, <1>2 DEF IInv, MarkOK, Marked
  <1>5. CASE marker' = Published /\ UNCHANGED cand /\ (Goto("exchange") \/ Recover(run))
    <2>1. /\ marker' \in [Names -> [before : Trees, after : Trees]]
          /\ marker'[w] = [before |-> run.before, after |-> run.after]
          /\ \A n \in Names \ {w} : marker'[n] = marker[n]
      BY <1>2, <1>5 DEF Published
    <2>2. RootTyped' /\ Frame(w)
      BY <1>2, <1>3, <1>5, <2>1
    <2>3. Classifiable(w)'
      BY <1>0, <1>2, <1>5, <2>1 DEF Classifiable, Prepared
    <2>4. CASE Goto("exchange")
      <3>1. run' \in Runs /\ Same(run') /\ run'.pc = "exchange"
        BY <1>2, <2>4, GotoRun DEF PCs
      <3>2. RoomOK'
        BY <1>1, <3>1, RoomKept DEF Same
      <3>3. TreeOK'
        BY <1>0, <1>2, <1>5, <3>1 DEF TreeOK, Same
      <3>4. Marked' \subseteq {w}
        BY <1>4, <2>2, OneMarked
      <3>5. MarkOK'
        BY <2>1, <3>1, <3>4 DEF MarkOK, Staging, Same
      <3> QED BY <1>1, <1>2, <2>2, <2>3, <3>1, <3>2, <3>3, <3>5, Proceeds
              DEF Same, Editing, Tools, Marking
    <2>5. CASE Recover(run)
      BY <1>1, <1>2, <2>2, <2>3, <2>5, Here, Recovers
    <2> QED BY <1>5, <2>4, <2>5
  <1>6. CASE /\ UNCHANGED marker /\ cand' = [cand EXCEPT ![w] = None]
             /\ ToolDone(Reject(run, run.before))
    <2> PICK q : q = Reject(run, run.before)
      OBVIOUS
    <2>1. /\ q \in Runs /\ q.by = run.by /\ q.w = run.w /\ q.left = run.left
          /\ Expected(q.journal) = run.before.digest
          /\ Len(q.journal) <= MaxEntries /\ (~q.closed => Len(q.journal) < MaxEntries)
      BY <1>2, RejectRun
    <2>2. RootTyped' /\ Frame(w)
      BY <1>2, <1>3, <1>6
    <2> QED BY <1>0, <1>1, <1>2, <1>4, <1>6, <2>1, <2>2, Returns
  <1>7. CASE /\ UNCHANGED marker /\ cand' = [cand EXCEPT ![w] = Torn(@)] /\ Recover(run)
    <2>2. RootTyped' /\ Frame(w)
      BY <1>2, <1>3, <1>7
    <2> QED BY <1>1, <1>2, <1>4, <1>7, <2>2, Here, Recovers
  <1> QED BY <1>5, <1>6, <1>7 DEF PublishMarker

LEMMA ExchangeKeeps == ASSUME IInv, Exchange PROVE IInv'
  <1>0. /\ run.pc = "exchange" /\ UNCHANGED <<files, marker, latch, procs, containers>>
        /\ Fault \/ NoFault
    BY DEF Exchange, At
  <1>1. /\ run.pc \notin Preparing \cup {"idle"} /\ run.pc \in Tools /\ run.pc \in Editing
        /\ run.pc \in Marking
    BY <1>0 DEF Preparing, Tools, Marking, Editing
  <1> PICK w : w = run.w
    OBVIOUS
  <1>2. /\ run \in Runs /\ w \in Names /\ ws[w] = run.before
        /\ run.before.digest # 0 /\ Expected(run.journal) = run.before.digest
        /\ run.left > 0 /\ cand[w] = run.after /\ run.after.digest # 0
        /\ marker[w] = [before |-> run.before, after |-> run.after]
        /\ cand \in [Names -> Trees] /\ ws \in [Names -> Trees] /\ Marked \subseteq {w}
    BY <1>0, <1>1, Here DEF IInv, TreeOK, MarkOK
  <1>3. ASSUME cand' \in [Names -> Trees], ws' \in [Names -> Trees],
               \A n \in Names \ {w} : cand'[n] = cand[n] /\ ws'[n] = ws[n]
        PROVE  RootTyped' /\ Frame(w) /\ Marked' \subseteq {w}
    <2>1. RootTyped' /\ Frame(w)
      BY <1>0, <1>1, <1>2, <1>3, FaultType, Here DEF IInv, Typed, RootTyped, Frame, procs
    <2> QED BY <1>2, <2>1, OneMarked
  <1>4. CASE Exchanged /\ (Goto("verify") \/ Recover(run))
    <2>1. /\ cand' \in [Names -> Trees] /\ ws' \in [Names -> Trees]
          /\ cand'[w] = run.before /\ ws'[w] = run.after
          /\ \A n \in Names \ {w} : cand'[n] = cand[n] /\ ws'[n] = ws[n]
      BY <1>2, <1>4 DEF Exchanged
    <2>2. Classifiable(w)'
      BY <1>0, <1>2, <2>1 DEF Classifiable, Committed
    <2>3. CASE Goto("verify")
      <3>1. run' \in Runs /\ Same(run') /\ run'.pc = "verify"
        BY <1>2, <2>3, GotoRun DEF PCs
      <3>2. RoomOK'
        BY <1>0, <3>1, RoomKept DEF Same
      <3>3. TreeOK'
        BY <1>2, <2>1, <3>1 DEF TreeOK, Same, Staging
      <3>4. MarkOK'
        BY <1>3, <2>1, <3>1 DEF MarkOK, Staging, Same
      <3> QED BY <1>1, <1>2, <1>3, <2>1, <2>2, <3>1, <3>2, <3>3, <3>4, Proceeds
              DEF Same, Editing, Tools, Marking
    <2>4. CASE Recover(run)
      BY <1>1, <1>2, <1>3, <2>1, <2>2, <2>4, Here, Recovers
    <2> QED BY <1>4, <2>3, <2>4
  <1>5. CASE UNCHANGED <<ws, cand>> /\ Goto("revert")
    <2>1. run' \in Runs /\ Same(run') /\ run'.pc = "revert"
      BY <1>2, <1>5, GotoRun DEF PCs
    <2>2. RoomOK'
      BY <1>0, <2>1, RoomKept DEF Same
    <2>3. TreeOK'
      BY <1>0, <1>2, <1>5, <2>1 DEF TreeOK, Same, Staging
    <2>4. MarkOK'
      BY <1>2, <1>3, <1>5, <2>1 DEF MarkOK, Staging, Same
    <2>5. marker'[w] # NoMarker /\ w \notin Attempts => Classifiable(w)'
      BY <1>0, <1>2, <1>5, Doubt
    <2> QED BY <1>1, <1>2, <1>3, <1>5, <2>1, <2>2, <2>3, <2>4, <2>5, Proceeds
            DEF Same, Editing, Tools, Marking
  <1> QED BY <1>4, <1>5 DEF Exchange

(* The rest of a promotion takes the candidate away, then the marker. *)
LEMMA Removing ==
    ASSUME IInv, NEW w, w = run.w, run.pc \in Marking, UNCHANGED <<ws, files, latch, procs, containers>>,
           Fault \/ NoFault,
           cand' \in {cand, [cand EXCEPT ![w] = None], [cand EXCEPT ![w] = Torn(@)]},
           marker' \in {marker, Unpublished}
    PROVE  /\ RootTyped' /\ Frame(w) /\ Marked' \subseteq {w}
           /\ marker'[w] # NoMarker /\ w \notin Attempts => Classifiable(w)'
           /\ marker' = Unpublished => marker'[w] = NoMarker
  <1>1. run.pc \notin Preparing \cup {"idle"}
    BY DEF Preparing, Marking
  <1>2. /\ w \in Names /\ Marked \subseteq {w} /\ Torn(cand[w]) \in Trees /\ None \in Trees
        /\ cand \in [Names -> Trees] /\ marker \in [Names -> [before : Trees, after : Trees]]
        /\ NoMarker \in [before : Trees, after : Trees]
    BY <1>1, Here, TornType, NoneType DEF IInv, MarkOK
  <1>3. /\ cand' \in [Names -> Trees] /\ cand'[w] \in {cand[w], None, Torn(cand[w])}
        /\ \A n \in Names \ {w} : cand'[n] = cand[n]
    BY <1>2
  <1>4. /\ marker' \in [Names -> [before : Trees, after : Trees]]
        /\ marker'[w] \in {marker[w], NoMarker}
        /\ marker' = Unpublished => marker'[w] = NoMarker
        /\ \A n \in Names \ {w} : marker'[n] = marker[n]
    BY <1>2 DEF Unpublished
  <1>5. RootTyped' /\ Frame(w)
    BY <1>3, <1>4, FaultType DEF IInv, Typed, RootTyped, Frame, procs
  <1> QED BY <1>2, <1>3, <1>4, <1>5, Doubt, OneMarked

LEMMA DirtyRun ==
    ASSUME NEW r \in Runs
    PROVE  LET q == [r EXCEPT !.dirty = TRUE]
           IN  /\ q \in Runs /\ q.by = r.by /\ q.w = r.w
               /\ q.journal = r.journal /\ q.closed = r.closed
  BY DEF Runs

LEMMA RevertKeeps == ASSUME IInv, Revert PROVE IInv'
  <1>0. /\ run.pc = "revert" /\ UNCHANGED <<ws, files, marker, latch, procs, containers>>
        /\ Fault \/ NoFault
        /\ cand' \in {cand, [cand EXCEPT ![run.w] = None], [cand EXCEPT ![run.w] = Torn(@)]}
    BY DEF Revert, At
  <1>1. /\ run.pc \notin Preparing \cup {"idle"} /\ run.pc \in Tools /\ run.pc \in Editing
        /\ run.pc \in Marking
    BY <1>0 DEF Preparing, Tools, Marking, Editing
  <1> PICK w : w = run.w
    OBVIOUS
  <1>2. /\ RootTyped' /\ Frame(w) /\ Marked' \subseteq {w}
        /\ marker'[w] # NoMarker /\ w \notin Attempts => Classifiable(w)'
    BY <1>0, <1>1, Removing
  <1>3. run \in Runs /\ w \in Names /\ run.left > 0
    BY <1>1, Here
  <1>4. CASE Goto("revertMark")
    <2>1. run' \in Runs /\ Same(run') /\ run'.pc = "revertMark"
      BY <1>3, <1>4, GotoRun DEF PCs
    <2>2. RoomOK'
      BY <1>0, <2>1, RoomKept DEF Same
    <2>3. TreeOK'
      BY <1>0, <1>1, <2>1 DEF IInv, TreeOK, Same, Staging
    <2>4. MarkOK'
      BY <1>2, <2>1 DEF MarkOK, Staging, Same
    <2> QED BY <1>1, <1>2, <1>3, <2>1, <2>2, <2>3, <2>4, Proceeds
            DEF Same, Editing, Tools, Marking
  <1>5. CASE Recover(run)
    BY <1>1, <1>2, <1>3, <1>5, Here, Recovers
  <1> QED BY <1>4, <1>5 DEF Revert

LEMMA RevertMarkerKeeps == ASSUME IInv, RevertMarker PROVE IInv'
  <1>0. /\ run.pc = "revertMark" /\ UNCHANGED <<ws, cand, files, latch, procs, containers>>
        /\ Fault \/ NoFault
        /\ marker' \in {marker, Unpublished}
    BY DEF RevertMarker, At
  <1>1. /\ run.pc \notin Preparing \cup {"idle"} /\ run.pc \in Tools /\ run.pc \in Editing
        /\ run.pc \in Marking
    BY <1>0 DEF Preparing, Tools, Marking, Editing
  <1> PICK w : w = run.w
    OBVIOUS
  <1>2. /\ RootTyped' /\ Frame(w) /\ Marked' \subseteq {w}
        /\ marker'[w] # NoMarker /\ w \notin Attempts => Classifiable(w)'
        /\ marker' = Unpublished => marker'[w] = NoMarker
    BY <1>0, <1>1, Removing
  <1>3. /\ run \in Runs /\ w \in Names /\ ws[w] = run.before /\ run.before \in Trees
        /\ run.before.digest # 0 /\ Expected(run.journal) = run.before.digest /\ ~run.closed
        /\ Len(run.journal) < MaxEntries /\ run.left > 0
    BY <1>0, <1>1, Here DEF IInv, TreeOK, RoomOK
  <1>4. CASE marker' = Unpublished /\ ToolDone(Reject(run, run.before))
    <2> PICK q : q = Reject(run, run.before)
      OBVIOUS
    <2>1. /\ q \in Runs /\ q.by = run.by /\ q.w = run.w /\ q.left = run.left
          /\ Expected(q.journal) = run.before.digest
          /\ Len(q.journal) <= MaxEntries /\ (~q.closed => Len(q.journal) < MaxEntries)
      BY <1>3, RejectRun
    <2> QED BY <1>0, <1>1, <1>2, <1>3, <1>4, <2>1, Returns
  <1>5. CASE Recover(run)
    BY <1>1, <1>2, <1>3, <1>5, Here, Recovers
  <1> QED BY <1>4, <1>5 DEF RevertMarker

LEMMA DropOldKeeps == ASSUME IInv, DropOld PROVE IInv'
  <1>0. /\ run.pc = "dropOld" /\ UNCHANGED <<ws, files, marker, latch, procs, containers>>
        /\ Fault \/ NoFault
        /\ cand' \in {cand, [cand EXCEPT ![run.w] = None], [cand EXCEPT ![run.w] = Torn(@)]}
    BY DEF DropOld, At
  <1>1. /\ run.pc \notin Preparing \cup {"idle"} /\ run.pc \in Tools /\ run.pc \in Editing
        /\ run.pc \in Marking
    BY <1>0 DEF Preparing, Tools, Marking, Editing
  <1> PICK w : w = run.w
    OBVIOUS
  <1>2. /\ RootTyped' /\ Frame(w) /\ Marked' \subseteq {w}
        /\ marker'[w] # NoMarker /\ w \notin Attempts => Classifiable(w)'
    BY <1>0, <1>1, Removing
  <1>3. run \in Runs /\ w \in Names /\ run.left > 0
    BY <1>1, Here
  <1>4. CASE Goto("dropMark")
    <2>1. run' \in Runs /\ Same(run') /\ run'.pc = "dropMark"
      BY <1>3, <1>4, GotoRun DEF PCs
    <2>2. RoomOK'
      BY <1>0, <2>1, RoomKept DEF Same, Staging
    <2>3. TreeOK'
      BY <1>0, <1>1, <2>1 DEF IInv, TreeOK, Same, Staging
    <2>4. MarkOK'
      BY <1>2, <2>1 DEF MarkOK, Staging, Same
    <2> QED BY <1>1, <1>2, <1>3, <2>1, <2>2, <2>3, <2>4, Proceeds
            DEF Same, Editing, Tools, Marking
  <1>5. CASE Recover([run EXCEPT !.dirty = TRUE])
    <2> PICK r : r = [run EXCEPT !.dirty = TRUE]
      OBVIOUS
    <2>1. /\ r \in Runs /\ r.by = run.by /\ r.w = run.w
          /\ r.journal = run.journal /\ r.closed = run.closed
      BY <1>3, DirtyRun
    <2> QED BY <1>1, <1>2, <1>3, <1>5, <2>1, Here, Recovers
  <1> QED BY <1>4, <1>5 DEF DropOld

LEMMA DropMarkerKeeps == ASSUME IInv, DropMarker PROVE IInv'
  <1>0. /\ run.pc = "dropMark" /\ UNCHANGED <<ws, cand, files, latch, procs, containers>>
        /\ Fault \/ NoFault
        /\ marker' \in {marker, Unpublished}
    BY DEF DropMarker, At
  <1>1. /\ run.pc \notin Preparing \cup {"idle"} /\ run.pc \in Tools /\ run.pc \in Editing
        /\ run.pc \in Marking
    BY <1>0 DEF Preparing, Tools, Marking, Editing
  <1> PICK w : w = run.w
    OBVIOUS
  <1>2. /\ RootTyped' /\ Frame(w) /\ Marked' \subseteq {w}
        /\ marker'[w] # NoMarker /\ w \notin Attempts => Classifiable(w)'
        /\ marker' = Unpublished => marker'[w] = NoMarker
    BY <1>0, <1>1, Removing
  <1>3. /\ run \in Runs /\ w \in Names /\ run.left > 0 /\ ws[w].digest # 0
        /\ Expected(run.journal) = ws[w].digest
    BY <1>0, <1>1, Here DEF IInv, TreeOK
  <1>4. CASE marker' = Unpublished /\ ToolDone(run)
    BY <1>0, <1>1, <1>2, <1>3, <1>4, Here, Returns
  <1>5. CASE Recover([run EXCEPT !.dirty = TRUE])
    <2> PICK r : r = [run EXCEPT !.dirty = TRUE]
      OBVIOUS
    <2>1. /\ r \in Runs /\ r.by = run.by /\ r.w = run.w
          /\ r.journal = run.journal /\ r.closed = run.closed
      BY <1>3, DirtyRun
    <2> QED BY <1>1, <1>2, <1>3, <1>5, <2>1, Here, Recovers
  <1> QED BY <1>4, <1>5 DEF DropMarker

-----------------------------------------------------------------------------
(* The end of a run. *)
LEMMA SweptAll ==
    ASSUME Typed, Swept(Names) \/ SweptInPart(Names)
    PROVE  /\ cand' \in [Names -> Trees] /\ files' \in [Names -> SUBSET {"patch", "tmp"}]
           /\ \A n \in Names : /\ cand'[n] \in {cand[n], None, Torn(cand[n])}
                               /\ files'[n] \in {files[n], {}}
           /\ Swept(Names) => \A n \in Names : cand'[n] = None /\ files'[n] = {}
  <1>0. /\ cand \in [Names -> Trees] /\ files \in [Names -> SUBSET {"patch", "tmp"}]
        /\ \A n \in Names : Torn(cand[n]) \in Trees
        /\ None \in Trees
    BY TornType, NoneType DEF Typed, RootTyped
  <1>1. CASE Swept(Names)
    BY <1>0, <1>1 DEF Swept
  <1>2. CASE SweptInPart(Names)
    <2>1. PICK done \in SUBSET Names, torn \in SUBSET Names :
             /\ cand' = [n \in Names |-> IF n \in done THEN None
                                         ELSE IF n \in torn THEN Torn(cand[n]) ELSE cand[n]]
             /\ files' = [n \in Names |-> IF n \in done THEN {} ELSE files[n]]
      BY <1>2 DEF SweptInPart
    <2>2. \A n \in Names : /\ cand'[n] \in {cand[n], None, Torn(cand[n])}
                           /\ files'[n] \in {files[n], {}}
      BY <2>1
    <2>3. cand' \in [Names -> Trees] /\ files' \in [Names -> SUBSET {"patch", "tmp"}]
      BY <1>0, <2>1
    <2>4. Swept(Names) => \A n \in Names : cand'[n] = None /\ files'[n] = {}
      BY DEF Swept
    <2> QED BY <2>2, <2>3, <2>4
  <1> QED BY <1>1, <1>2

LEMMA CaptureKeeps == ASSUME IInv, Capture PROVE IInv'
  <1>0. /\ run.pc = "final" /\ UNCHANGED <<ws, marker, latch, procs, containers>>
        /\ Fault \/ NoFault
    BY DEF Capture, At
  <1>1. run.pc \notin Preparing \cup {"idle"} /\ run.pc \in Editing
    BY <1>0 DEF Preparing, Editing
  <1> PICK w : w = run.w
    OBVIOUS
  <1>2. /\ run \in Runs /\ w \in Names /\ w \in Jobs /\ Marked = {}
        /\ \A n \in Names \ {w} : cand[n] = None /\ files[n] = {}
    <2>1. w \in Jobs /\ run \in Runs /\ w \in Names
      BY <1>0, <1>1, Here DEF IInv, HolderOK
    <2>2. run.by \in Cores
      BY <1>1, <2>1, Roles, WorkRootAssumption
    <2> QED BY <1>0, <1>1, <2>1, <2>2 DEF IInv, AloneOK, MarkOK
  <1>3. Marked' = {} /\ \A n \in Names : marker'[n] = NoMarker
    BY <1>0, <1>2, Unmarked
  <1>4. ASSUME cand' \in [Names -> Trees], files' \in [Names -> SUBSET {"patch", "tmp"}],
               \A n \in Names \ {w} : cand'[n] = cand[n] /\ files'[n] = files[n]
        PROVE  RootTyped' /\ Frame(w)
    BY <1>0, <1>4, FaultType DEF IInv, Typed, RootTyped, Frame, procs
  <1>5. CASE Recover(run) /\ UNCHANGED <<cand, files>>
    <2>1. RootTyped' /\ Frame(w)
      BY <1>1, <1>4, <1>5, Here
    <2> QED BY <1>1, <1>2, <1>3, <1>5, <2>1, Here, Recovers
  <1>6. CASE Swept(Names) \/ SweptInPart(Names)
    <2>1. Torn(None) = None
      BY DEF Torn
    <2>2. RootTyped' /\ Frame(w)
      <3>1. \A n \in Names \ {w} : cand'[n] \in {cand[n], None, Torn(cand[n])}
        BY <1>6, SweptAll DEF IInv
      <3>2. \A n \in Names \ {w} : cand'[n] = cand[n] /\ files'[n] = files[n]
        BY <1>2, <1>6, <2>1, <3>1, SweptAll DEF IInv
      <3> QED BY <1>4, <1>6, <3>2, SweptAll DEF IInv
    <2>3. CASE Goto("captured")
      <3>1. run' \in Runs /\ Same(run') /\ run'.pc = "captured"
        BY <1>2, <2>3, GotoRun DEF PCs
      <3>2. RoomOK'
        BY <3>1, RoomKept DEF Same, Staging
      <3>3. TreeOK'
        BY <1>0, <1>1, <3>1 DEF IInv, TreeOK, Same, Staging
      <3>4. MarkOK'
        BY <1>3, <3>1 DEF MarkOK, Marking
      <3> QED BY <1>1, <1>2, <1>3, <2>2, <3>1, <3>2, <3>3, <3>4, Proceeds
              DEF Same, Editing, Tools, Staging, Marking
    <2>4. CASE Recover(run)
      BY <1>1, <1>2, <1>3, <2>2, <2>4, Here, Recovers
    <2> QED BY <1>0, <1>6, <2>3, <2>4, <1>5 DEF Capture
  <1> QED BY <1>5, <1>6 DEF Capture

(* The workspace of a name is replaced where nothing is marked. *)
LEMMA NewWorkspace ==
    ASSUME IInv, Marked = {}, UNCHANGED marker, RootTyped'
    PROVE  MarkersDecidable' /\ \A n \in Names : marker'[n] = NoMarker
  BY Unmarked DEF MarkersDecidable

LEMMA TeardownKeeps == ASSUME IInv, Teardown PROVE IInv'
  <1>0. /\ run.pc = "teardown" /\ UNCHANGED <<cand, files, marker, latch, up, spent>>
        /\ Fault \/ NoFault
        /\ run' = Idle /\ containers' \subseteq containers
        /\ latched' \in {latched, latched \cup {run.by}}
    BY DEF Teardown, At, Removed
  <1>1. run.pc \notin Preparing \cup {"idle"} /\ run.pc # "stale"
    BY <1>0 DEF Preparing
  <1> PICK w : w = run.w
    OBVIOUS
  <1>2. /\ run.by \in Cores /\ run.by \in up /\ w \in Jobs /\ w \in Names /\ w \notin Probes
        /\ Marked \subseteq {w} /\ ws \in [Names -> Trees] /\ Torn(ws[w]) \in Trees /\ None \in Trees
    BY <1>0, <1>1, Roles, Here, TornType, NoneType, WorkRootAssumption DEF IInv, HolderOK, MarkOK
  <1>3. \/ UNCHANGED ws
        \/ ~RecoveryContext(run) /\ ws' \in {[ws EXCEPT ![w] = None], [ws EXCEPT ![w] = Torn(@)]}
    BY DEF Teardown
  <1>4. ws' \in [Names -> Trees] /\ \A n \in Names \ {w} : ws'[n] = ws[n]
    BY <1>2, <1>3
  <1>5. RootTyped'
    BY <1>0, <1>2, <1>4, FaultType DEF IInv, Typed, RootTyped
  <1>6. MarkersDecidable'
    <2>1. CASE UNCHANGED ws
      BY <1>0, <2>1, MarksKept DEF IInv
    <2>2. CASE ~RecoveryContext(run)
      <3>1. Marked = {}
        BY <1>2, <2>2 DEF RecoveryContext, Marked
      <3> QED BY <1>0, <1>5, <3>1, NewWorkspace
    <2> QED BY <1>3, <2>1, <2>2
  <1>7. \A t \in Probes : Clean(t) => Clean(t)'
    BY <1>0, <1>2, <1>4 DEF Clean, Names
  <1> QED BY <1>0, <1>1, <1>2, <1>5, <1>6, <1>7, JobFreed

(* A run gets its tree and starts the agent, or there is no run. *)
LEMMA Starts ==
    ASSUME IInv, NEW w \in Names, w = run.w, Frame(w), RootTyped', run.pc \in {"load", "seed", "prepare"},
           ws'[w].digest = Baseline, marker' = marker, marker[w] = NoMarker \/ w \in Attempts,
           run' \in Runs, run'.pc = "agent", run'.by = run.by, run'.w = run.w,
           run'.journal = run.journal, run'.closed = run.closed
    PROVE  IInv'
  <1>1. run.pc \notin Preparing \cup {"idle"}
    BY DEF Preparing
  <1>2. run.journal = <<>>
    BY DEF IInv, FreshOK
  <1>3. RoomOK'
    BY RoomKept DEF Staging
  <1>4. TreeOK'
    <2>1. Expected(run'.journal) = Baseline /\ Baseline # 0
      BY <1>2, EmptyJournal DEF Baseline
    <2> QED BY <2>1 DEF TreeOK, Staging
  <1>5. MarkOK'
    <2>1. w \in Jobs => run.by \in Cores /\ w \notin Attempts
      BY <1>1, Roles, WorkRootAssumption
    <2>2. w \in Jobs => Marked' = {}
      BY <1>1, <2>1 DEF IInv, AloneOK, Marked
    <2> QED BY <2>2 DEF MarkOK, Staging, Marking
  <1> QED BY <1>1, <1>3, <1>4, <1>5, Proceeds DEF Editing, Tools, Staging, Marking

LEMMA LoadKeeps == ASSUME IInv, Load PROVE IInv'
  <1>0. /\ run.pc = "load" /\ UNCHANGED <<cand, files, marker, latch, containers, up, spent>>
        /\ Fault \/ NoFault
    BY DEF Load, At
  <1>1. run.pc \notin Preparing \cup {"idle"} /\ run.pc # "stale"
    BY <1>0 DEF Preparing
  <1> PICK w : w = run.w
    OBVIOUS
  <1> PICK new : new = Tree(Fresh, Baseline)
    OBVIOUS
  <1>2. /\ run.by \in Cores /\ run.by \in up /\ w \in Jobs /\ w \in Names /\ w \notin Probes
        /\ Marked = {} /\ marker[w] = NoMarker /\ ws \in [Names -> Trees]
    BY <1>0, <1>1, Roles, Here, WorkRootAssumption DEF IInv, HolderOK, MarkOK, Marked
  <1>3. new \in Trees /\ new.digest = Baseline /\ Torn(new) \in Trees /\ Torn(ws[w]) \in Trees /\ None \in Trees
    BY <1>2, NewTree, TornType, NoneType DEF Baseline
  <1>4. ASSUME NEW t \in Trees, ws' = [ws EXCEPT ![w] = t], latched' \in {latched, latched \cup {run.by}}
        PROVE  /\ RootTyped' /\ Frame(w) /\ MarkersDecidable' /\ ws'[w] = t
               /\ run' = Idle => IInv'
    <2>1. /\ ws' \in [Names -> Trees] /\ ws'[w] = t
          /\ \A n \in Names \ {w} : ws'[n] = ws[n]
      BY <1>2, <1>4
    <2>2. RootTyped' /\ Frame(w)
      BY <1>0, <1>2, <1>4, <2>1, FaultType DEF IInv, Typed, RootTyped, Frame
    <2>3. MarkersDecidable'
      BY <1>0, <1>2, <2>2, NewWorkspace
    <2>4. \A p \in Probes : Clean(p) => Clean(p)'
      BY <1>0, <1>2, <2>1 DEF Clean, Names
    <2> QED BY <1>0, <1>1, <1>2, <2>1, <2>2, <2>3, <2>4, JobFreed
  <1>5. CASE ws' = [ws EXCEPT ![w] = new] /\ Goto("agent") /\ UNCHANGED latched
    <2>1. run' \in Runs /\ Same(run') /\ run'.pc = "agent"
      BY <1>1, <1>5, Here, GotoRun DEF PCs
    <2> QED BY <1>0, <1>2, <1>3, <1>4, <1>5, <2>1, Starts DEF Same
  <1>6. CASE ws' = [ws EXCEPT ![w] = None] /\ run' = Idle /\ UNCHANGED latched
    BY <1>3, <1>4, <1>6
  <1>7. CASE (\E t \in {ws[w], new} : ws' = [ws EXCEPT ![w] = Torn(t)]) /\ Refuse
    <2>1. run' = Idle /\ latched' \in {latched, latched \cup {run.by}}
      BY <1>7 DEF Refuse
    <2> QED BY <1>3, <1>4, <1>7, <2>1
  <1> QED BY <1>5, <1>6, <1>7 DEF Load

-----------------------------------------------------------------------------
(* A Test World attempt. *)
LEMMA AttemptTree ==
    ASSUME IInv, NEW w \in Attempts, w = run.w, run.pc \notin Preparing \cup {"idle"}, run.by \in Cores,
           NEW t \in Trees, ws' = [ws EXCEPT ![w] = t], containers' \subseteq containers, Fault \/ NoFault,
           UNCHANGED <<cand, files, marker, latch, procs>>
    PROVE  RootTyped' /\ Frame(w) /\ ws'[w] = t /\ (run' = Idle => IInv')
  <1>1. w \in Names /\ w \notin Probes /\ ws \in [Names -> Trees] /\ run.pc # "stale"
    BY WorkRootAssumption DEF IInv, Typed, RootTyped, Names, Preparing
  <1>2. ws' \in [Names -> Trees] /\ ws'[w] = t /\ \A n \in Names \ {w} : ws'[n] = ws[n]
    BY <1>1
  <1>3. RootTyped' /\ Frame(w)
    BY <1>2, FaultType DEF IInv, Typed, RootTyped, Frame, procs
  <1>4. MarkersDecidable'
    BY <1>2, MarksKept DEF IInv
  <1>5. \A p \in Probes : Clean(p) => Clean(p)'
    BY <1>1, <1>2 DEF Clean, Names
  <1> QED BY <1>1, <1>2, <1>3, <1>4, <1>5, JobFreed

LEMMA PrepareAttemptKeeps == ASSUME IInv, PrepareAttempt PROVE IInv'
  <1>0. /\ run.pc = "prepare" /\ UNCHANGED <<cand, files, marker, latch, procs, containers>>
        /\ Fault \/ NoFault
    BY DEF PrepareAttempt, At
  <1>1. run.pc \notin Preparing \cup {"idle"} /\ run.pc # "stale"
    BY <1>0 DEF Preparing
  <1> PICK w : w = run.w
    OBVIOUS
  <1> PICK new : new = Tree(Fresh, Baseline)
    OBVIOUS
  <1>2. /\ w \in Attempts /\ run.by \in Cores /\ w \in Names /\ w \notin Probes /\ ws \in [Names -> Trees]
        /\ run \in Runs
    <2>1. w \in Attempts
      BY <1>0 DEF IInv, HolderOK, Practice
    <2> QED BY <1>1, <2>1, Roles, Here, WorkRootAssumption DEF IInv
  <1>3. new \in Trees /\ new.digest = Baseline /\ Torn(new) \in Trees /\ Torn(ws[w]) \in Trees /\ None \in Trees
    BY <1>2, NewTree, TornType, NoneType DEF Baseline
  <1>4. ASSUME NEW t \in Trees, ws' = [ws EXCEPT ![w] = t]
        PROVE  /\ RootTyped' /\ Frame(w) /\ ws'[w] = t
               /\ run' = Idle => IInv'
    BY <1>0, <1>1, <1>2, <1>4, AttemptTree
  <1>5. CASE /\ ws' = [ws EXCEPT ![w] = new]
             /\ \E k \in 0..1 : run' = [run EXCEPT !.pc = "agent", !.left = k]
    <2>1. PICK k \in 0..1 : run' = [run EXCEPT !.pc = "agent", !.left = k]
      BY <1>5
    <2>2. k \in 0..2 /\ "agent" \in PCs
      BY DEF PCs
    <2>3. /\ run' \in Runs /\ run'.pc = "agent" /\ run'.by = run.by /\ run'.w = run.w
          /\ run'.journal = run.journal /\ run'.closed = run.closed
      BY <1>2, <2>1, <2>2 DEF Runs
    <2> QED BY <1>0, <1>2, <1>3, <1>4, <1>5, <2>3, Starts
  <1>6. CASE ws' = [ws EXCEPT ![w] = None] /\ run' = Idle
    BY <1>3, <1>4, <1>6
  <1>7. CASE (\E t \in {ws[w], new} : ws' = [ws EXCEPT ![w] = Torn(t)]) /\ run' = Idle
    BY <1>3, <1>4, <1>7
  <1> QED BY <1>5, <1>6, <1>7 DEF PrepareAttempt

LEMMA RunCheckKeeps == ASSUME IInv, RunCheck PROVE IInv'
  <1>0. /\ run \in Runs /\ run.pc = "judge" /\ run.left > 0
        /\ Create([run EXCEPT !.pc = "checking"]) /\ UNCHANGED <<root, procs, faults>>
    BY DEF IInv, Typed, RunCheck, At
  <1>1. run.pc \notin Preparing \cup {"idle"} /\ "checking" \in PCs
    BY <1>0 DEF Preparing, PCs
  <1>2. run.w \in Names /\ run.w \in Attempts
    BY <1>0, <1>1, Roles DEF IInv, HolderOK, Practice
  <1> PICK r : r = [run EXCEPT !.pc = "checking"]
    OBVIOUS
  <1>3. /\ r \in Runs /\ r.pc = "checking" /\ r.by = run.by /\ r.w = run.w /\ r.left = run.left
        /\ r.journal = run.journal /\ r.closed = run.closed
    BY <1>0, <1>1 DEF Runs
  <1>4. /\ run' \in Runs /\ run'.pc = "checking" /\ run'.by = run.by /\ run'.w = run.w
        /\ run'.journal = run.journal /\ run'.closed = run.closed /\ run'.left = run.left
        /\ containers' = containers \cup {run.w}
    BY <1>0, <1>2, <1>3, CreateRun
  <1>5. RootTyped' /\ Frame(run.w)
    BY <1>0, <1>2, <1>4, OnlyContainers DEF IInv, Typed, RootTyped
  <1> QED BY <1>0, <1>1, <1>2, <1>4, <1>5, Leaves DEF Closing, IInv, RoomOK

LEMMA CheckDoneKeeps == ASSUME IInv, CheckDone PROVE IInv'
  <1>0. run.pc = "checking" /\ run.left > 0 /\ run.w \in Attempts /\ EndCommand("judge")
    BY DEF IInv, CheckDone, At, HolderOK, Practice
  <1>1. run.pc \notin Preparing \cup {"idle"}
    BY <1>0 DEF Preparing
  <1>2. /\ run.w \in Names /\ RootTyped' /\ Frame(run.w)
        /\ run' \in Runs /\ run'.by = run.by /\ run'.w = run.w /\ run'.pc = "judge"
        /\ run'.journal = run.journal /\ run'.closed = run.closed
    BY <1>0, <1>1, CommandEnds
  <1> QED BY <1>0, <1>1, <1>2, Leaves DEF Closing, IInv, RoomOK

LEMMA JudgedKeeps == ASSUME IInv, Judged PROVE IInv'
  <1>0. run \in Runs /\ run.pc = "judge" /\ Still /\ run.w \in Attempts
    BY DEF IInv, Typed, Judged, At, Still, procs, HolderOK, Practice
  <1>1. run.pc \notin Preparing \cup {"idle"}
    BY <1>0 DEF Preparing
  <1>2. RootTyped' /\ Frame(run.w) /\ run.w \in Names
    BY <1>0, <1>1, StillFrame, Roles DEF IInv, Typed, RootTyped, Judged, procs
  <1>3. run' \in Runs /\ Same(run') /\ run'.pc = "cleanAttempt"
    BY <1>0, GotoRun DEF PCs, Judged
  <1> QED BY <1>0, <1>1, <1>2, <1>3, Leaves DEF Same, Closing, IInv, RoomOK

(* Its markers may be stranded here; no other is touched. *)
LEMMA CleanAttemptKeeps == ASSUME IInv, CleanAttempt PROVE IInv'
  <1>0. /\ run.pc = "cleanAttempt" /\ run' = Idle /\ UNCHANGED <<cand, files, marker, latch, procs>>
        /\ containers' \subseteq containers /\ (Fault \/ NoFault)
    BY DEF CleanAttempt, At, Removed
  <1>1. run.pc \notin Preparing \cup {"idle"} /\ run.pc # "stale"
    BY <1>0 DEF Preparing
  <1> PICK w : w = run.w
    OBVIOUS
  <1>2. /\ w \in Attempts /\ run.by \in Cores /\ w \in Names /\ ws \in [Names -> Trees]
    <2>1. w \in Attempts
      BY <1>0 DEF IInv, HolderOK, Practice
    <2> QED BY <1>1, <2>1, Roles, Here, WorkRootAssumption DEF IInv
  <1>3. ws[w] \in Trees /\ Torn(ws[w]) \in Trees /\ None \in Trees
    BY <1>2, TornType, NoneType
  <1>4. PICK t \in Trees : ws' = [ws EXCEPT ![w] = t]
    <2>1. [ws EXCEPT ![w] = ws[w]] = ws
      BY <1>2
    <2>2. ws' \in {ws, [ws EXCEPT ![w] = None], [ws EXCEPT ![w] = Torn(ws[w])]}
      BY <1>2 DEF CleanAttempt
    <2> QED BY <1>3, <2>1, <2>2
  <1> QED BY <1>0, <1>1, <1>2, <1>4, AttemptTree

-----------------------------------------------------------------------------
(* The probe. *)
LEMMA SeedKeeps == ASSUME IInv, Seed PROVE IInv'
  <1>0. /\ run.pc = "seed" /\ UNCHANGED <<cand, files, marker, latch, procs, containers>>
        /\ Fault \/ NoFault
    BY DEF Seed, At
  <1>1. run.pc \notin Preparing \cup {"idle"}
    BY <1>0 DEF Preparing
  <1> PICK w : w = run.w
    OBVIOUS
  <1>2. run.by \in Probes /\ w \in Names /\ marker[w] = NoMarker /\ ws \in [Names -> Trees]
    BY <1>0, <1>1, Here DEF IInv, HolderOK, ProbesOK, Clean
  <1>3. ASSUME NEW d \in Nat, ws' = [ws EXCEPT ![w] = Tree(Fresh, d)]
        PROVE  RootTyped' /\ Frame(w) /\ ws'[w].digest = d /\ MarkersDecidable'
    <2>1. /\ ws' \in [Names -> Trees] /\ ws'[w].digest = d
          /\ \A n \in Names \ {w} : ws'[n] = ws[n]
      BY <1>2, <1>3, NewTree
    <2>2. RootTyped' /\ Frame(w)
      BY <1>0, <1>2, <2>1, FaultType DEF IInv, Typed, RootTyped, Frame, procs
    <2>3. MarkersDecidable'
      <3>1. \A n \in Names : \/ marker'[n] = NoMarker
                             \/ ws'[n] = ws[n] /\ marker'[n] = marker[n] /\ cand'[n] = cand[n]
        BY <1>0, <1>2, <2>1
      <3> QED BY <3>1, MarksKept DEF IInv
    <2> QED BY <2>1, <2>2, <2>3
  <1>4. CASE ws' = [ws EXCEPT ![w] = Tree(Fresh, Baseline)] /\ Goto("agent")
    <2>1. Baseline \in Nat
      BY DEF Baseline
    <2>2. run' \in Runs /\ Same(run') /\ run'.pc = "agent"
      BY <1>1, <1>4, Here, GotoRun DEF PCs
    <2> QED BY <1>0, <1>2, <1>3, <1>4, <2>1, <2>2, Starts DEF Same
  <1>5. CASE ws' = [ws EXCEPT ![w] = Tree(Fresh, 0)] /\ run' = Idle
    BY <1>0, <1>2, <1>3, <1>5, ProbeFreed
  <1> QED BY <1>4, <1>5 DEF Seed

(* The cleanup of a probe stays in its workspace. *)
LEMMA Cleaning ==
    ASSUME IInv, NEW w \in Names, w = run.w, Frame(w), RootTyped', run.pc \in {"cleanup", "cleanRoot"},
           NEW pc \in {"cleanRoot", "unlatch"}, Goto(pc), w \notin containers', UNCHANGED marker,
           (ws'[w] = ws[w] /\ cand'[w] = cand[w]) \/ marker[w] = NoMarker,
           pc = "unlatch" => Clean(w)'
    PROVE  IInv'
  <1>1. /\ run.pc \notin Preparing \cup {"idle"} /\ pc \in PCs
        /\ pc \notin Preparing \cup {"idle", "seed", "load"} \cup Editing \cup Tools \cup Marking
        /\ pc \notin {"load", "final", "captured", "teardown", "checking", "prepare"} /\ pc \notin Practice
    BY DEF Preparing, PCs, Editing, Tools, Staging, Marking, Practice
  <1>2. run' \in Runs /\ Same(run') /\ run'.pc = pc
    BY <1>1, GotoRun DEF IInv, Typed
  <1>3. run.by \in Probes /\ run.by \notin Cores
    BY WorkRootAssumption DEF IInv, HolderOK
  <1>4. HolderOK'
    BY <1>1, <1>2, <1>3, HolderKept DEF Same, Frame
  <1>5. RoomOK'
    BY <1>1, <1>2, RoomKept DEF Same, Editing, Tools, Marking
  <1>6. TreeOK' /\ MarkOK'
    BY <1>1, <1>2, <1>3 DEF TreeOK, MarkOK, Editing, Tools, Marking, Preparing, Same
  <1>7. marker'[w] # NoMarker /\ w \notin Attempts => Classifiable(w)'
    BY Doubt
  <1> QED BY <1>1, <1>2, <1>4, <1>5, <1>6, <1>7, Local DEF Same, Typed

LEMMA CleanContainerKeeps == ASSUME IInv, CleanContainer PROVE IInv'
  <1>0. /\ run.pc = "cleanup" /\ UNCHANGED <<root, procs>> /\ (Fault \/ NoFault)
        /\ containers' \subseteq containers
    BY DEF CleanContainer, At, Removed
  <1>1. run.pc \notin Preparing \cup {"idle"}
    BY <1>0 DEF Preparing
  <1>2. run.w \in Names /\ run.by \in Probes
    BY <1>0, <1>1, Here DEF IInv, HolderOK
  <1>3. RootTyped' /\ Frame(run.w)
    BY <1>0, <1>2, FaultType, OnlyContainers DEF IInv
  <1>4. CASE Removed(run) /\ Goto("cleanRoot")
    <2>1. run.w \notin containers'
      BY <1>4 DEF Removed
    <2> QED BY <1>0, <1>2, <1>3, <1>4, <2>1, Cleaning DEF root
  <1>5. CASE run' = Idle
    <2>1. MarkersDecidable'
      BY <1>0, RootStill DEF MarkersDecidable, Marked
    <2> QED BY <1>0, <1>2, <1>3, <1>5, <2>1, ProbeFreed DEF root
  <1> QED BY <1>4, <1>5 DEF CleanContainer

LEMMA CleanRootKeeps == ASSUME IInv, CleanRoot PROVE IInv'
  <1>0. run.pc = "cleanRoot" /\ UNCHANGED <<marker, latch, procs, containers>> /\ (Fault \/ NoFault)
    BY DEF CleanRoot, At
  <1>1. run.pc \notin Preparing \cup {"idle"}
    BY <1>0 DEF Preparing
  <1> PICK w : w = run.w
    OBVIOUS
  <1>2. /\ w \in Names /\ run.by \in Probes /\ w \notin containers /\ ws \in [Names -> Trees]
        /\ None \in Trees /\ Torn(ws[w]) \in Trees
    BY <1>0, <1>1, Here, NoneType, TornType DEF IInv, HolderOK, ProbesOK
  <1>3. ASSUME Marked = {}, Swept({w}), NEW t \in Trees, ws' = [ws EXCEPT ![w] = t]
        PROVE  /\ RootTyped' /\ Frame(w) /\ MarkersDecidable' /\ marker'[w] = NoMarker
               /\ marker[w] = NoMarker
               /\ ws'[w] = t /\ cand'[w] = None /\ files'[w] = {}
    <2>1. ws' \in [Names -> Trees] /\ ws'[w] = t /\ \A n \in Names \ {w} : ws'[n] = ws[n]
      BY <1>2, <1>3
    <2>2. RootTyped' /\ Frame(w)
      BY <1>0, <1>2, <1>3, <2>1, FaultType, SweptHere DEF IInv, Typed, RootTyped, Frame, procs
    <2> QED BY <1>0, <1>2, <1>3, <2>1, <2>2, NewWorkspace, SweptHere DEF IInv
  <1>4. CASE Marked = {} /\ Swept({w}) /\ ws' = [ws EXCEPT ![w] = None] /\ Goto("unlatch")
    <2>1. Clean(w)'
      BY <1>2, <1>3, <1>4 DEF Clean
    <2> QED BY <1>0, <1>2, <1>3, <1>4, <2>1, Cleaning
  <1>5. CASE run' = Idle /\ UNCHANGED <<ws, cand, files>>
    <2>1. RootTyped'
      BY <1>0, <1>5, FaultType DEF IInv, Typed, RootTyped, procs
    <2> QED BY <1>0, <1>2, <1>5, <2>1, MarksKept, ProbeFreed DEF IInv
  <1>6. CASE Marked = {} /\ Swept({w}) /\ ws' = [ws EXCEPT ![w] = Torn(@)] /\ run' = Idle
    <2>1. ws' = [ws EXCEPT ![w] = Torn(ws[w])]
      BY <1>2, <1>6
    <2> QED BY <1>0, <1>2, <1>3, <1>6, <2>1, ProbeFreed
  <1> QED BY <1>4, <1>5, <1>6 DEF CleanRoot

LEMMA UnlatchKeeps == ASSUME IInv, Unlatch PROVE IInv'
  <1>0. /\ run.pc = "unlatch" /\ UNCHANGED <<ws, cand, files, marker, procs, containers>>
        /\ run' = Idle /\ (Fault \/ NoFault) /\ latch' \in BOOLEAN
    BY DEF Unlatch, At
  <1>1. run.pc \notin Preparing \cup {"idle"}
    BY <1>0 DEF Preparing
  <1>2. run.by \in Probes /\ run.w = run.by /\ Clean(run.w) /\ run.w \notin containers
    BY <1>0, <1>1, Roles DEF IInv, HolderOK, ProbesOK
  <1>3. RootTyped'
    BY <1>0, FaultType DEF IInv, Typed, RootTyped, procs
  <1>4. MarkersDecidable'
    BY <1>0, MarksKept DEF IInv
  <1>5. \A t \in Probes : Clean(t) /\ (up # {} => t \notin containers)
    BY <1>2 DEF IInv, ProbesOK
  <1>6. \A t \in Probes : Clean(t)' /\ (up' # {} => t \notin containers')
    BY <1>0, <1>5 DEF Clean, procs
  <1> QED BY <1>0, <1>3, <1>4, <1>6, Freed

LEMMA StartProbeKeeps == ASSUME IInv, NEW t \in Probes, StartProbe(t) PROVE IInv'
  <1>0. /\ run.by = Nobody /\ latch = FALSE /\ latch' = TRUE /\ (Fault \/ NoFault)
        /\ UNCHANGED <<ws, cand, files, marker, containers, up, latched>>
        /\ spent' = spent \cup {t}
    BY DEF StartProbe, Enterable, IInv, Typed, RootTyped
  <1>1. RootTyped'
    BY <1>0, FaultType DEF IInv, Typed, RootTyped
  <1>2. MarkersDecidable'
    BY <1>0, MarksKept DEF IInv
  <1>3. \A p \in Probes : Clean(p) /\ (up # {} => p \notin containers)
    BY <1>0, WorkRootAssumption DEF IInv, ProbesOK
  <1>4. CASE run' = [Idle EXCEPT !.by = t, !.pc = "seed", !.w = t, !.left = 2]
    <2>1. /\ run' \in Runs /\ run'.by = t /\ run'.pc = "seed" /\ run'.w = t
          /\ run'.journal = <<>> /\ run'.closed = FALSE
      <3>1. 2 \in 0..2 /\ t \in Names \cup {Nobody} /\ t \in Cores \cup Probes \cup {Nobody}
        BY DEF Names
      <3> QED BY <1>4, <3>1, IdleType DEF Runs, PCs
    <2>2. t \notin Cores /\ t # Nobody /\ Len(<<>>) = 0 /\ MaxEntries \in Nat /\ MaxEntries > 0
      BY WorkRootAssumption
    <2>3. HolderOK'
      BY <2>1, <2>2 DEF HolderOK, Preparing, Tools, Staging, Marking, Practice
    <2>4. RoomOK' /\ FreshOK'
      BY <2>1, <2>2 DEF RoomOK, FreshOK, Staging
    <2>5. TreeOK' /\ MarkOK' /\ AloneOK'
      BY <2>1, <2>2 DEF TreeOK, MarkOK, AloneOK, Editing, Tools, Staging, Marking
    <2>6. ProbesOK'
      <3>1. \A p \in Probes : Clean(p)'
        BY <1>0, <1>3 DEF Clean
      <3> QED BY <1>0, <1>3, <2>1, <2>2, <3>1 DEF ProbesOK
    <2> QED BY <1>1, <1>2, <2>1, <2>3, <2>4, <2>5, <2>6 DEF IInv, Typed
  <1>5. CASE run' = Idle
    BY <1>0, <1>1, <1>2, <1>5, Freed
  <1> QED BY <1>4, <1>5 DEF StartProbe

-----------------------------------------------------------------------------
(* Reconciliation. *)
LEMMA Prepares ==
    ASSUME RootTyped', MarkersDecidable', run' \in Runs, run'.by \in Cores, run'.pc \in Preparing,
           run'.journal = <<>>, run'.pc = "stale" => run'.by \notin up',
           run'.by \in up' => run'.w \in Jobs, run'.pc = "undo" => run'.todo = Marked',
           latch' = FALSE,
           \A t \in Probes : Clean(t)' /\ (up' # {} \/ run'.pc # "stale" => t \notin containers')
    PROVE  IInv'
  <1>1. run'.by \notin Probes /\ run'.by # Nobody /\ MaxEntries \in Nat /\ MaxEntries > 0 /\ Len(<<>>) = 0
    BY WorkRootAssumption
  <1>2. run'.pc \notin {"idle", "load", "final", "captured", "teardown", "seed", "cleanup", "cleanRoot",
                        "unlatch", "checking"} \cup Editing \cup Tools \cup Practice
    BY DEF Preparing, Editing, Tools, Staging, Marking, Practice
  <1>3. HolderOK'
    BY <1>1, <1>2 DEF HolderOK
  <1>4. RoomOK' /\ FreshOK'
    BY <1>1, <1>2 DEF RoomOK, FreshOK, Tools, Marking
  <1>5. TreeOK' /\ MarkOK' /\ AloneOK'
    BY <1>1, <1>2 DEF TreeOK, MarkOK, AloneOK, Editing, Tools, Staging, Marking
  <1>6. ProbesOK'
    BY <1>1, <1>2 DEF ProbesOK
  <1> QED BY <1>3, <1>4, <1>5, <1>6 DEF IInv, Typed

LEMMA BootKeeps == ASSUME IInv, NEW p \in Cores, Boot(p) PROVE IInv'
  <1>0. /\ run.by = Nobody /\ latch = FALSE /\ p \notin up
        /\ UNCHANGED <<ws, cand, files, marker, latch, containers, up, latched, spent, faults>>
    BY DEF Boot, Enterable, IInv, Typed, RootTyped, root, procs
  <1>1. RootTyped' /\ MarkersDecidable'
    BY <1>0, MarksKept DEF IInv, Typed, RootTyped
  <1>2. \A t \in Probes : Clean(t) /\ (up # {} => t \notin containers)
    BY <1>0, WorkRootAssumption DEF IInv, ProbesOK
  <1>3. run' \in Runs /\ run'.by = p /\ run'.pc = "stale" /\ run'.journal = <<>>
    BY IdleType DEF Boot, Runs, PCs
  <1>4. \A t \in Probes : Clean(t)'
    BY <1>0, <1>2 DEF Clean
  <1> QED BY <1>0, <1>1, <1>2, <1>3, <1>4, Prepares DEF Preparing

LEMMA AdmitKeeps == ASSUME IInv, NEW p \in Cores, NEW j \in Jobs, Admit(p, j) PROVE IInv'
  <1>0. /\ run.by = Nobody /\ latch = FALSE /\ p \in up
        /\ UNCHANGED <<ws, cand, files, marker, latch, containers, up, latched, spent, faults>>
    BY DEF Admit, Enterable, IInv, Typed, RootTyped, root, procs
  <1>1. RootTyped' /\ MarkersDecidable'
    BY <1>0, MarksKept DEF IInv, Typed, RootTyped
  <1>2. \A t \in Probes : Clean(t) /\ t \notin containers
    BY <1>0, WorkRootAssumption DEF IInv, ProbesOK
  <1>3. run' \in Runs /\ run'.by = p /\ run'.pc = "reconcile" /\ run'.journal = <<>> /\ run'.w = j
    BY IdleType DEF Admit, Runs, PCs, Names
  <1>4. \A t \in Probes : Clean(t)'
    BY <1>0, <1>2 DEF Clean
  <1> QED BY <1>0, <1>1, <1>2, <1>3, <1>4, Prepares DEF Preparing

LEMMA AdmitAttemptKeeps == ASSUME IInv, NEW p \in Cores, NEW a \in Attempts, AdmitAttempt(p, a) PROVE IInv'
  <1>0. /\ run.by = Nobody /\ latch = FALSE /\ p \in up
        /\ UNCHANGED <<ws, cand, files, marker, latch, containers, up, latched, spent, faults>>
    BY DEF AdmitAttempt, Enterable, IInv, Typed, RootTyped, root, procs
  <1>1. RootTyped' /\ MarkersDecidable'
    BY <1>0, MarksKept DEF IInv, Typed, RootTyped
  <1>2. \A t \in Probes : Clean(t) /\ t \notin containers
    BY <1>0, WorkRootAssumption DEF IInv, ProbesOK
  <1>3. /\ run' \in Runs /\ run'.by = p /\ run'.pc = "prepare" /\ run'.journal = <<>> /\ run'.w = a
        /\ run'.closed = FALSE
    BY IdleType DEF AdmitAttempt, Runs, PCs, Names
  <1>4. \A t \in Probes : Clean(t)'
    BY <1>0, <1>2 DEF Clean
  <1>5. p \notin Probes /\ p # Nobody /\ a \notin Jobs /\ Len(<<>>) = 0 /\ MaxEntries \in Nat /\ MaxEntries > 0
    BY WorkRootAssumption
  <1>6. HolderOK'
    BY <1>0, <1>3, <1>5 DEF HolderOK, Preparing, Tools, Staging, Marking, Practice
  <1>7. RoomOK' /\ FreshOK'
    BY <1>3, <1>5 DEF RoomOK, FreshOK, Staging
  <1>8. TreeOK' /\ MarkOK' /\ AloneOK'
    BY <1>3, <1>5 DEF TreeOK, MarkOK, AloneOK, Editing, Tools, Staging, Marking
  <1>9. ProbesOK'
    BY <1>0, <1>2, <1>3, <1>4, <1>5 DEF ProbesOK
  <1> QED BY <1>1, <1>3, <1>6, <1>7, <1>8, <1>9 DEF IInv, Typed

LEMMA There ==
    ASSUME IInv, run.pc \in Preparing
    PROVE  /\ run \in Runs /\ run.by \in Cores /\ run.journal = <<>> /\ latch = FALSE
           /\ run.by \in up => run.w \in Jobs
           /\ run.pc = "stale" => run.by \notin up
           /\ run.pc = "undo" => run.todo = Marked
           /\ run.todo \subseteq Names
           /\ \A t \in Probes : Clean(t) /\ (run.pc # "stale" => t \notin containers)
  BY WorkRootAssumption DEF IInv, Typed, RootTyped, HolderOK, FreshOK, MarkOK, ProbesOK, Runs

LEMMA CleanupStaleKeeps == ASSUME IInv, CleanupStale PROVE IInv'
  <1>0. /\ run.pc = "stale" /\ UNCHANGED <<ws, cand, files, marker, latch, up, latched, spent>>
        /\ containers' \subseteq containers /\ (Fault \/ NoFault)
    BY DEF CleanupStale, At, root, procs
  <1>1. run.pc \in Preparing
    BY <1>0 DEF Preparing
  <1>2. RootTyped' /\ MarkersDecidable'
    BY <1>0, FaultType, MarksKept DEF IInv, Typed, RootTyped
  <1>3. \A t \in Probes : Clean(t)'
    BY <1>0, <1>1, There DEF Clean
  <1>4. CASE containers' = {} /\ Goto("reconcile")
    <2>1. run' \in Runs /\ Same(run') /\ run'.pc = "reconcile"
      BY <1>1, <1>4, There, GotoRun DEF PCs
    <2> QED BY <1>0, <1>1, <1>2, <1>3, <1>4, <2>1, There, Prepares DEF Same, Preparing
  <1>5. CASE run' = Idle
    BY <1>0, <1>1, <1>2, <1>3, <1>5, There, JobFreed
  <1> QED BY <1>4, <1>5 DEF CleanupStale

LEMMA RefuseFrees ==
    ASSUME IInv, run.pc \in Preparing, run.pc # "stale", Refuse, UNCHANGED <<ws, latch, containers, up, spent>>,
           cand' \in [Names -> Trees], files' \in [Names -> SUBSET {"patch", "tmp"}],
           marker' \in [Names -> [before : Trees, after : Trees]], Fault \/ NoFault,
           \A n \in Names : /\ marker'[n] \in {marker[n], NoMarker}
                            /\ cand'[n] \in {cand[n], None, Torn(cand[n])}
                            /\ files'[n] \in {files[n], {}}
    PROVE  IInv'
  <1>1. run' = Idle /\ latched' \subseteq up
    BY DEF Refuse, IInv, Typed, RootTyped
  <1>2. RootTyped'
    BY <1>1, FaultType DEF IInv, Typed, RootTyped
  <1>3. MarkersDecidable'
    BY MarksKept DEF IInv
  <1>4. ASSUME NEW t \in Probes, Clean(t) PROVE Clean(t)'
    <2>1. t \in Names /\ Torn(None) = None
      BY DEF Names, Torn
    <2>2. cand'[t] \in {cand[t], None, Torn(cand[t])}
      BY <2>1
    <2> QED BY <1>4, <2>1, <2>2 DEF Clean
  <1> QED BY <1>1, <1>2, <1>3, <1>4, There, JobFreed

LEMMA ReconcileKeeps == ASSUME IInv, Reconcile PROVE IInv'
  <1>0. /\ run.pc = "reconcile" /\ UNCHANGED <<ws, cand, files, marker, latch, containers, up, spent>>
        /\ Fault \/ NoFault
    BY DEF Reconcile, At, root
  <1>1. run.pc \in Preparing
    BY <1>0 DEF Preparing
  <1>2. CASE run' = [run EXCEPT !.pc = "undo", !.todo = Marked] /\ UNCHANGED latched
    <2>1. Marked \in SUBSET Names /\ Marked' = Marked
      BY <1>0 DEF Marked
    <2>2. /\ run' \in Runs /\ run'.pc = "undo" /\ run'.todo = Marked /\ run'.by = run.by
          /\ run'.w = run.w /\ run'.journal = run.journal
      BY <1>1, <1>2, <2>1, There DEF Runs, PCs
    <2>3. RootTyped' /\ MarkersDecidable'
      BY <1>0, <1>2, FaultType, MarksKept DEF IInv, Typed, RootTyped
    <2>4. \A t \in Probes : Clean(t)'
      BY <1>0, <1>1, There DEF Clean
    <2> QED BY <1>0, <1>1, <2>1, <2>2, <2>3, <2>4, There, Prepares DEF Preparing
  <1>3. CASE Refuse
    BY <1>0, <1>1, <1>3, RefuseFrees DEF IInv, Typed, RootTyped
  <1> QED BY <1>2, <1>3 DEF Reconcile

LEMMA UndoCandidateKeeps == ASSUME IInv, NEW n \in Names, UndoCandidate(n) PROVE IInv'
  <1>0. /\ run.pc = "undo" /\ n \in run.todo
        /\ UNCHANGED <<ws, files, marker, latch, containers, up, spent>>
        /\ Fault \/ NoFault
    BY DEF UndoCandidate, At
  <1>1. run.pc \in Preparing
    BY <1>0 DEF Preparing
  <1>2. /\ cand \in [Names -> Trees] /\ None \in Trees /\ Torn(cand[n]) \in Trees
        /\ n \notin Probes
    <2>1. marker[n] # NoMarker
      BY <1>0, <1>1, There DEF Marked
    <2>2. n \notin Probes
      BY <1>1, <2>1, There DEF Clean
    <2> QED BY <2>2, NoneType, TornType DEF IInv, Typed, RootTyped
  <1>3. CASE /\ cand' = [cand EXCEPT ![n] = None]
             /\ run' = [run EXCEPT !.pc = "unmark", !.todo = {n}]
             /\ UNCHANGED latched
    <2>1. cand' \in [Names -> Trees] /\ \A m \in Names : cand'[m] \in {cand[m], None}
      BY <1>2, <1>3
    <2>2. /\ run' \in Runs /\ run'.pc = "unmark" /\ run'.by = run.by
          /\ run'.w = run.w /\ run'.journal = run.journal
      <3>1. run \in Runs /\ {n} \in SUBSET Names /\ "unmark" \in PCs
        BY <1>1, There DEF PCs
      <3> QED BY <1>3, <3>1 DEF Runs
    <2>3. RootTyped' /\ MarkersDecidable'
      BY <1>0, <1>3, <2>1, FaultType, MarksKept DEF IInv, Typed, RootTyped
    <2>4. \A t \in Probes : Clean(t)'
      BY <1>0, <1>1, <1>2, <1>3, There DEF Clean, Names
    <2> QED BY <1>0, <1>1, <2>2, <2>3, <2>4, There, Prepares DEF Preparing
  <1>4. CASE cand' = [cand EXCEPT ![n] = Torn(@)] /\ Refuse
    <2>1. cand' \in [Names -> Trees] /\ \A m \in Names : cand'[m] \in {cand[m], None, Torn(cand[m])}
      BY <1>2, <1>4
    <2> QED BY <1>0, <1>1, <1>4, <2>1, RefuseFrees DEF IInv, Typed, RootTyped
  <1> QED BY <1>3, <1>4 DEF UndoCandidate

LEMMA UnmarkKeeps == ASSUME IInv, Unmark PROVE IInv'
  <1>0. /\ run.pc = "unmark" /\ UNCHANGED <<ws, cand, files, latch, containers, up, spent>>
        /\ Fault \/ NoFault
    BY DEF Unmark, At
  <1>1. run.pc \in Preparing
    BY <1>0 DEF Preparing
  <1>2. ASSUME NEW gone, marker' = [n \in Names |-> IF n \in gone THEN NoMarker ELSE marker[n]]
        PROVE  /\ marker' \in [Names -> [before : Trees, after : Trees]]
               /\ \A n \in Names : marker'[n] \in {marker[n], NoMarker}
               /\ Marked' = Marked \ gone
    BY <1>2, NoneType DEF Marked, IInv, Typed, RootTyped
  <1>3. CASE /\ marker' = [n \in Names |-> IF n \in run.todo THEN NoMarker ELSE marker[n]]
             /\ run' = [run EXCEPT !.pc = "undo", !.todo = Marked \ @]
             /\ UNCHANGED latched
    <2> PICK todo : todo = Marked \ run.todo
      OBVIOUS
    <2>1. todo \in SUBSET Names /\ Marked' = todo
      BY <1>2, <1>3 DEF Marked
    <2>2. run' = [run EXCEPT !.pc = "undo", !.todo = todo]
      BY <1>1, <1>3, There DEF Runs
    <2>3. /\ run' \in Runs /\ run'.pc = "undo" /\ run'.todo = todo /\ run'.by = run.by
          /\ run'.w = run.w /\ run'.journal = run.journal
      BY <1>1, <2>1, <2>2, There DEF Runs, PCs
    <2>4. RootTyped' /\ MarkersDecidable'
      BY <1>0, <1>2, <1>3, FaultType, MarksKept DEF IInv, Typed, RootTyped
    <2>5. \A t \in Probes : Clean(t)'
      BY <1>0, <1>1, <1>3, There DEF Clean, Names
    <2> QED BY <1>0, <1>1, <2>1, <2>3, <2>4, <2>5, There, Prepares DEF Preparing
  <1>4. CASE /\ \E gone \in {{}, run.todo} :
                  marker' = [n \in Names |-> IF n \in gone THEN NoMarker ELSE marker[n]]
             /\ Refuse
    BY <1>0, <1>1, <1>2, <1>4, RefuseFrees DEF IInv, Typed, RootTyped
  <1> QED BY <1>3, <1>4 DEF Unmark

LEMMA SweepKeeps == ASSUME IInv, Sweep PROVE IInv'
  <1>0. /\ run.pc = "undo" /\ run.todo = {} /\ UNCHANGED <<ws, marker, latch, containers, spent>>
        /\ Fault \/ NoFault
        /\ Swept(Names) \/ SweptInPart(Names)
    BY DEF Sweep, At
  <1>1. run.pc \in Preparing /\ run.pc # "stale"
    BY <1>0 DEF Preparing
  <1>2. /\ cand' \in [Names -> Trees] /\ files' \in [Names -> SUBSET {"patch", "tmp"}]
        /\ \A n \in Names : /\ cand'[n] \in {cand[n], None, Torn(cand[n])}
                            /\ files'[n] \in {files[n], {}}
    BY <1>0, SweptAll DEF IInv
  <1>3. Marked = {} /\ Marked' = {}
    BY <1>0, <1>1, There, Unmarked
  <1>4. CASE Refuse /\ UNCHANGED up
    BY <1>0, <1>1, <1>2, <1>4, RefuseFrees DEF IInv, Typed, RootTyped
  <1>5. CASE /\ Swept(Names) /\ UNCHANGED latched
             /\ IF run.by \in up THEN Goto("load") /\ UNCHANGED up
                ELSE run' = Idle /\ up' = up \cup {run.by}
    <2>1. \A n \in Names : cand'[n] = None /\ files'[n] = {} /\ marker'[n] = NoMarker
      BY <1>0, <1>3, <1>5, SweptAll, Unmarked DEF IInv
    <2>2. RootTyped' /\ MarkersDecidable'
      <3>1. up' \subseteq Cores /\ latched' \subseteq up'
        BY <1>1, <1>5, There DEF IInv, Typed, RootTyped
      <3>2. RootTyped'
        BY <1>0, <1>2, <3>1, FaultType DEF IInv, Typed, RootTyped
      <3> QED BY <1>0, <2>1, <3>2, MarksKept DEF IInv
    <2>3. \A t \in Probes : Clean(t)' /\ t \notin containers'
      BY <1>0, <1>1, <2>1, There DEF Clean, Names
    <2>4. CASE run.by \in up /\ Goto("load") /\ UNCHANGED up
      <3>1. run' \in Runs /\ Same(run') /\ run'.pc = "load"
        BY <1>1, <2>4, There, GotoRun DEF PCs
      <3>2. /\ run.by \in Cores /\ run.by \notin Probes /\ run.by # Nobody /\ run.w \in Jobs
            /\ run.journal = <<>> /\ latch = FALSE
            /\ Len(<<>>) = 0 /\ MaxEntries \in Nat /\ MaxEntries > 0
        <4>1. /\ run.by \in Cores /\ run.w \in Jobs /\ run.journal = <<>> /\ latch = FALSE
          BY <1>1, <2>4, There
        <4>2. Len(<<>>) = 0
          OBVIOUS
        <4> QED BY <4>1, <4>2, WorkRootAssumption
      <3>3. HolderOK'
        BY <2>4, <3>1, <3>2 DEF HolderOK, Same, Preparing, Tools, Staging, Marking, Practice
      <3>4. RoomOK' /\ FreshOK'
        BY <3>1, <3>2 DEF RoomOK, FreshOK, Same, Staging
      <3>5. TreeOK' /\ MarkOK' /\ AloneOK'
        BY <1>3, <2>1, <3>1, <3>2 DEF TreeOK, MarkOK, AloneOK, Same, Editing, Tools, Staging, Marking
      <3>6. ProbesOK'
        BY <1>0, <2>3, <3>1, <3>2 DEF ProbesOK, Same
      <3> QED BY <2>2, <3>1, <3>3, <3>4, <3>5, <3>6 DEF IInv, Typed
    <2>5. CASE run' = Idle
      BY <2>2, <2>3, <2>5, Freed
    <2> QED BY <1>5, <2>4, <2>5
  <1> QED BY <1>4, <1>5 DEF Sweep

-----------------------------------------------------------------------------
(* Failures. *)
LEMMA DoomedUnmarked ==
    ASSUME IInv, NEW n \in DoomedWorkspaces, n \notin Attempts
    PROVE  Marked = {}
  <1>0. n = run.w
    BY DEF DoomedWorkspaces
  <1>1. CASE run.pc = "load"
    BY <1>1 DEF IInv, MarkOK
  <1>2. CASE run.pc \in {"prepare", "cleanAttempt"}
    BY <1>0, <1>2 DEF IInv, HolderOK, Practice
  <1>3. CASE run.pc = "teardown" /\ ~RecoveryContext(run)
    <2>1. Marked \subseteq {run.w} /\ marker[run.w] = NoMarker
      BY <1>3 DEF IInv, MarkOK, RecoveryContext
    <2> QED BY <2>1 DEF Marked
  <1> QED BY <1>1, <1>2, <1>3 DEF DoomedWorkspaces

LEMMA CrashKeeps == ASSUME IInv, Crash PROVE IInv'
  <1>0. /\ run.by # Nobody /\ Fault /\ run' = Idle /\ up' = up \ {run.by}
        /\ latched' = latched \ {run.by}
        /\ UNCHANGED <<files, marker, latch, containers, spent>>
    BY DEF Crash
  <1>1. PICK c \in SUBSET DoomedCandidates, d \in SUBSET DoomedWorkspaces :
          /\ cand' = [n \in Names |-> IF n \in c THEN Torn(cand[n]) ELSE cand[n]]
          /\ ws' = [n \in Names |-> IF n \in d THEN Torn(ws[n]) ELSE ws[n]]
    BY DEF Crash
  <1>2. /\ ws \in [Names -> Trees] /\ cand \in [Names -> Trees]
        /\ \A n \in Names : Torn(ws[n]) \in Trees /\ Torn(cand[n]) \in Trees
    BY TornType DEF IInv, Typed, RootTyped
  <1>3. RootTyped'
    <2>1. ws' \in [Names -> Trees] /\ cand' \in [Names -> Trees]
      BY <1>1, <1>2
    <2> QED BY <1>0, <2>1, FaultType DEF IInv, Typed, RootTyped
  <1>4. MarkersDecidable'
    <2>1. CASE \A n \in d : n \in Attempts
      <3>1. \A n \in Names : n \in Attempts \/ (ws'[n] = ws[n] /\ cand'[n] \in {cand[n], Torn(cand[n])})
        BY <1>1, <2>1
      <3> QED BY <1>0, <3>1, MarksKept DEF IInv
    <2>2. CASE ~ \A n \in d : n \in Attempts
      <3>1. Marked = {}
        BY <2>2, DoomedUnmarked
      <3> QED BY <1>0, <1>3, <3>1, NewWorkspace
    <2> QED BY <2>1, <2>2
  <1>5. CASE run.by \in Probes
    BY <1>0, <1>3, <1>4, <1>5, ProbeFreed
  <1>6. CASE run.by \in Cores
    <2>1. ASSUME NEW t \in Probes, Clean(t) PROVE Clean(t)'
      <3>1. t \in Names /\ Torn(None) = None
        BY DEF Names, Torn
      <3>2. cand'[t] = None /\ ws'[t] = None
        BY <1>1, <2>1, <3>1 DEF Clean
      <3> QED BY <1>0, <2>1, <3>2 DEF Clean
    <2> QED BY <1>0, <1>3, <1>4, <1>6, <2>1, JobFreed
  <1>7. run.by \in Cores \cup Probes
    BY <1>0 DEF IInv, Typed, Runs
  <1> QED BY <1>5, <1>6, <1>7

LEMMA StopKeeps == ASSUME IInv, NEW p \in Cores, Stop(p) PROVE IInv'
  <1>0. /\ run.by # p /\ up' = up \ {p} /\ latched' = latched \ {p} /\ run' = run
        /\ UNCHANGED <<ws, cand, files, marker, latch, containers, spent, faults>>
    BY DEF Stop, root
  <1>1. Typed'
    BY <1>0 DEF IInv, Typed, RootTyped
  <1>2. MarkersDecidable' /\ Marked' = Marked
    BY <1>0, MarksKept DEF IInv, Marked
  <1>3. HolderOK'
    BY <1>0 DEF IInv, HolderOK
  <1>4. RoomOK' /\ FreshOK' /\ TreeOK'
    BY <1>0 DEF IInv, RoomOK, FreshOK, TreeOK, Fits
  <1>5. MarkOK' /\ AloneOK'
    BY <1>0, <1>2 DEF IInv, MarkOK, AloneOK
  <1>6. ProbesOK'
    <2>1. \A n : Clean(n)' <=> Clean(n)
      BY <1>0 DEF Clean
    <2>2. up' # {} => up # {}
      BY <1>0
    <2> QED BY <1>0, <2>1, <2>2 DEF IInv, ProbesOK
  <1> QED BY <1>1, <1>2, <1>3, <1>4, <1>5, <1>6 DEF IInv

LEMMA ReplaceKeeps == ASSUME IInv, Replace PROVE IInv'
  <1>0. /\ \A n \in Names : ws'[n] = None /\ cand'[n] = None /\ files'[n] = {} /\ marker'[n] = NoMarker
        /\ run' = Idle /\ latch' = FALSE /\ up' = {}
    BY DEF Replace
  <1>1. RootTyped'
    BY FaultType, NoneType DEF Replace, IInv, Typed, RootTyped
  <1>2. MarkersDecidable'
    BY <1>0 DEF MarkersDecidable, Marked
  <1>3. \A t \in Probes : Clean(t)'
    BY <1>0 DEF Clean, Names
  <1> QED BY <1>0, <1>1, <1>2, <1>3, Freed

-----------------------------------------------------------------------------
(* The invariant. *)
LEMMA IInvInit == Init => IInv
  <1> SUFFICES ASSUME Init PROVE IInv
    OBVIOUS
  <1>1. /\ \A n \in Names : ws[n] = None /\ cand[n] = None /\ files[n] = {} /\ marker[n] = NoMarker
        /\ run = Idle /\ latch = FALSE /\ up = {} /\ containers = {}
    BY DEF Init
  <1>2. Typed
    <2>1. faults \in 0..MaxFaults
      BY WorkRootAssumption DEF Init
    <2>2. RootTyped
      BY <2>1, NoneType DEF Init, RootTyped
    <2> QED BY <1>1, <2>2, IdleType DEF Typed
  <1>3. Nobody \notin Cores \cup Probes /\ MaxEntries \in Nat /\ MaxEntries > 0
    BY WorkRootAssumption
  <1>4. HolderOK
    BY <1>1, <1>3, IdleType DEF HolderOK, Preparing, Tools, Staging, Marking, Practice
  <1>5. RoomOK /\ FreshOK
    BY <1>1, <1>3, IdleType DEF RoomOK, FreshOK, Staging
  <1>6. TreeOK /\ MarkOK /\ AloneOK
    BY <1>1, <1>3, IdleType DEF TreeOK, MarkOK, AloneOK, Editing, Tools, Staging, Marking
  <1>7. ProbesOK
    <2>1. \A t \in Probes : Clean(t)
      BY <1>1 DEF Clean, Names
    <2> QED BY <1>1, <1>3, <2>1, IdleType DEF ProbesOK
  <1>8. MarkersDecidable
    BY <1>1 DEF MarkersDecidable, Marked
  <1> QED BY <1>2, <1>4, <1>5, <1>6, <1>7, <1>8 DEF IInv

LEMMA IInvStutter == ASSUME IInv, UNCHANGED vars PROVE IInv'
  <1>0. UNCHANGED <<ws, cand, files, marker, latch, containers, up, latched, spent, run, faults>>
    BY DEF vars
  <1>1. Typed' /\ HolderOK' /\ RoomOK' /\ FreshOK' /\ TreeOK'
    BY <1>0 DEF IInv, Typed, RootTyped, HolderOK, RoomOK, FreshOK, TreeOK, Fits
  <1>2. MarkOK' /\ AloneOK' /\ ProbesOK'
    BY <1>0 DEF IInv, MarkOK, AloneOK, ProbesOK, Marked, Clean
  <1>3. MarkersDecidable'
    BY <1>0, MarksKept DEF IInv
  <1> QED BY <1>1, <1>2, <1>3 DEF IInv

LEMMA IInvWork == ASSUME IInv, Work PROVE IInv'
  <1>1. CASE CleanupStale \/ Reconcile \/ Unmark \/ Sweep \/ Load
    BY <1>1, CleanupStaleKeeps, ReconcileKeeps, UnmarkKeeps, SweepKeeps, LoadKeeps
  <1>2. CASE (\E n \in Names : UndoCandidate(n)) \/ (\E k \in 1..2 : Respond(k))
    BY <1>2, UndoCandidateKeeps, RespondKeeps
  <1>3. CASE Answer \/ RunCommand \/ CommandDone
    BY <1>3, AnswerKeeps, RunCommandKeeps, CommandDoneKeeps
  <1>4. CASE OpenPatch \/ Stage \/ StageDone \/ Bind \/ Wipe
    BY <1>4, OpenPatchKeeps, StageKeeps, StageDoneKeeps, BindKeeps, WipeKeeps
  <1>5. CASE WriteMarker \/ PublishMarker \/ Exchange \/ Revert \/ RevertMarker
    BY <1>5, WriteMarkerKeeps, PublishMarkerKeeps, ExchangeKeeps, RevertKeeps, RevertMarkerKeeps
  <1>6. CASE Verify \/ DropOld \/ DropMarker
    BY <1>6, VerifyKeeps, DropOldKeeps, DropMarkerKeeps
  <1>7. CASE Capture \/ Conclude \/ Teardown
    BY <1>7, CaptureKeeps, ConcludeKeeps, TeardownKeeps
  <1>9. CASE PrepareAttempt \/ RunCheck \/ CheckDone \/ Judged \/ CleanAttempt
    BY <1>9, PrepareAttemptKeeps, RunCheckKeeps, CheckDoneKeeps, JudgedKeeps, CleanAttemptKeeps
  <1>8. CASE Seed \/ ProbeJudges \/ CleanContainer \/ CleanRoot \/ Unlatch
    BY <1>8, SeedKeeps, ProbeJudgesKeeps, CleanContainerKeeps, CleanRootKeeps, UnlatchKeeps
  <1> QED BY <1>1, <1>2, <1>3, <1>4, <1>5, <1>6, <1>7, <1>8, <1>9 DEF Work

LEMMA IInvNext == IInv /\ [Next]_vars => IInv'
  <1> SUFFICES ASSUME IInv, [Next]_vars PROVE IInv'
    OBVIOUS
  <1>1. CASE \E p \in Cores : Boot(p) \/ Stop(p)
    BY <1>1, BootKeeps, StopKeeps
  <1>2. CASE \E p \in Cores, j \in Jobs : Admit(p, j)
    BY <1>2, AdmitKeeps
  <1>7. CASE \E p \in Cores, a \in Attempts : AdmitAttempt(p, a)
    BY <1>7, AdmitAttemptKeeps
  <1>3. CASE \E t \in Probes : StartProbe(t)
    BY <1>3, StartProbeKeeps
  <1>4. CASE Work
    BY <1>4, IInvWork
  <1>5. CASE Crash \/ Replace
    BY <1>5, CrashKeeps, ReplaceKeeps
  <1>6. CASE UNCHANGED vars
    BY <1>6, IInvStutter
  <1> QED BY <1>1, <1>2, <1>3, <1>4, <1>5, <1>6, <1>7 DEF Next

(* The inductive invariant holds of every core, job and probe on a work root. *)
THEOREM Invariance == Spec => []IInv
  BY IInvInit, IInvNext, PTL DEF Spec

-----------------------------------------------------------------------------
(* Every variable keeps its type: an agent run makes at most max_tool_calls  *)
(* calls, whatever responses are admitted and whatever fails.                *)
THEOREM TypeCorrect == Spec => []TypeOK
  <1>1. IInv => TypeOK
    <2> SUFFICES ASSUME IInv PROVE TypeOK
      OBVIOUS
    <2>1. RootTyped /\ run \in Runs /\ (run.pc = "idle" <=> run.by = Nobody)
      BY DEF IInv, Typed, HolderOK
    <2>2. /\ run.by \in Cores \cup Probes \cup {Nobody} /\ run.pc \in PCs
          /\ run.calls \in 0..MaxCalls /\ run.left \in 0..2
      BY <2>1 DEF Runs
    <2> QED BY <2>1, <2>2 DEF TypeOK, RootTyped
  <1> QED BY <1>1, Invariance, PTL

(* _classify_promotion_marker never meets a layout it cannot decide: at      *)
(* whatever step of _apply_patch, of a reconciliation or of a cleanup a      *)
(* process fails or dies, each published marker of a job or a probe finds    *)
(* its workspace whole on one side of the exchange; the Test World attempts  *)
(* that share the root, whose own markers have no such guarantee, never      *)
(* disturb it.                                                               *)
THEOREM MarkersStayDecidable == Spec => []MarkersDecidable
  <1>1. IInv => MarkersDecidable
    BY DEF IInv
  <1> QED BY <1>1, Invariance, PTL

(* After any sequence of tool calls and any failure the agent survives, the  *)
(* workspace is whole and is what _expected_proposal_digest computes from    *)
(* the edit journal; and the journal stays within the evidence limit.        *)
THEOREM JournalIsTrue == Spec => []JournalTrue
  <1>1. IInv => JournalTrue
    <2> SUFFICES ASSUME IInv PROVE JournalTrue
      OBVIOUS
    <2>1. run.pc \in {"agent", "final", "captured"} =>
            run.pc \in Editing /\ run.pc \in Editing \ {"verify"}
      BY DEF Editing
    <2> QED BY <2>1 DEF IInv, TreeOK, RoomOK, JournalTrue
  <1> QED BY <1>1, Invariance, PTL

(* By the time prepare_sources loads a job's sources, and until its          *)
(* teardown, no other workspace has a marker, a candidate or a temporary     *)
(* file of an earlier run.                                                   *)
THEOREM JobsRunAlone == Spec => []RunsAlone
  <1>1. IInv => RunsAlone
    BY DEF IInv, AloneOK, RunsAlone, Marked
  <1> QED BY <1>1, Invariance, PTL

(* A core process never shares the root or the podman host with what a       *)
(* runtime probe left, though a probe may die anywhere: its latch keeps the  *)
(* root shut, and a container replaced under it keeps no workspace.          *)
THEOREM ProbesAreContained == Spec => []ProbeContained
  <1>1. IInv => ProbeContained
    <2> SUFFICES ASSUME IInv, run.by \in Cores, run.pc # "stale", NEW t \in Probes
                 PROVE  /\ ws[t] = None /\ cand[t] = None /\ files[t] = {}
                        /\ t \notin Marked /\ t \notin containers
      BY DEF ProbeContained
    <2>1. run.by # t /\ ~latch
      BY WorkRootAssumption DEF IInv, ProbesOK
    <2>2. Clean(t) /\ t \notin containers
      BY <2>1 DEF IInv, ProbesOK
    <2> QED BY <2>2 DEF Clean, Marked
  <1> QED BY <1>1, Invariance, PTL
=============================================================================
