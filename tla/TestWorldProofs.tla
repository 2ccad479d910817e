--------------------------- MODULE TestWorldProofs ---------------------------
(***************************************************************************)
(* Theorems about TestWorld, for any worlds, budgets, judge checks, work   *)
(* roots, processes and failures.                                          *)
(***************************************************************************)
EXTENDS TestWorld, FiniteSetTheorems, TLAPS

(* Replacing one row of the table. *)
LEMMA RowReplaced ==
    ASSUME NEW s \in Seq(Attempts), NEW i \in 1..Len(s), NEW r \in Attempts
    PROVE  LET t == [s EXCEPT ![i] = r]
           IN  /\ t \in Seq(Attempts) /\ Len(t) = Len(s)
               /\ t[i] = r
               /\ \A a \in 1..Len(s) : a # i => t[a] = s[a]
  OBVIOUS

LEMMA AttemptsFinite ==
    ASSUME attempts \in Seq(Attempts), NEW w
    PROVE  IsFiniteSet(AttemptsOf(w)) /\ Cardinality(AttemptsOf(w)) \in Nat
  <1>1. Len(attempts) \in Nat
    OBVIOUS
  <1>2. IsFiniteSet(1..Len(attempts))
    BY <1>1, FS_Interval
  <1>3. AttemptsOf(w) \in SUBSET (1..Len(attempts))
    BY DEF AttemptsOf, Ids
  <1> QED BY <1>2, <1>3, FS_Subset, FS_CardinalityType

LEMMA RowFields ==
    ASSUME TypeOK, NEW a \in Ids
    PROVE  /\ attempts[a] \in Attempts
           /\ attempts[a].world \in Worlds /\ attempts[a].status \in Open \cup Closed
           /\ attempts[a].number \in Nat /\ attempts[a].previous \in Nat
  <1>1. attempts[a] \in Attempts
    BY DEF TypeOK, Ids
  <1> QED BY <1>1 DEF Attempts

(* The row a claim leaves, the ones a verdict and an error leave. *)
Claimed(row, k) == [row EXCEPT !.status = "running", !.gen = row.gen + 1, !.owner = k, !.live = TRUE]

Judged(row, r) == [row EXCEPT !.status = IF AllPassed(r.feedback) THEN "passed" ELSE "failed",
                              !.feedback = r.feedback, !.patch = r.patch,
                              !.owner = NoWorker, !.live = FALSE]

Errored(row) == [row EXCEPT !.status = "error", !.owner = NoWorker, !.live = FALSE]

Requeued(row) == [row EXCEPT !.status = "queued", !.owner = NoWorker]

Lapsed(row) == [row EXCEPT !.live = FALSE]

LEMMA RowTypes ==
    ASSUME NEW row \in Attempts, NEW k \in Workers, NEW r \in Runs
    PROVE  /\ Claimed(row, k) \in Attempts
           /\ Judged(row, r) \in Attempts
           /\ Errored(row) \in Attempts
           /\ Requeued(row) \in Attempts
           /\ Lapsed(row) \in Attempts
  <1>1. Claimed(row, k) \in Attempts
    <2> DEFINE g == row.gen + 1
    <2>1. g \in Nat /\ "running" \in Open \cup Closed
      BY DEF Attempts, Open
    <2>2. Claimed(row, k) = [row EXCEPT !.status = "running", !.gen = g, !.owner = k, !.live = TRUE]
      BY DEF Claimed
    <2> HIDE DEF g
    <2> QED BY <2>1, <2>2 DEF Attempts
  <1>2. Judged(row, r) \in Attempts
    BY DEF Judged, Attempts, Runs, Open, Closed
  <1>3. Errored(row) \in Attempts
    BY DEF Errored, Attempts, Open, Closed
  <1>4. Requeued(row) \in Attempts
    BY DEF Requeued, Attempts, Open, Closed
  <1>5. Lapsed(row) \in Attempts
    BY DEF Lapsed, Attempts
  <1> QED BY <1>1, <1>2, <1>3, <1>4, <1>5

LEMMA IdleRunType == IdleRun \in Runs
  BY DEF IdleRun, Runs, PCs, NoAttempt

LEMMA NewRowType ==
    ASSUME NEW w \in Worlds, NEW n \in Nat, NEW m \in Modes, NEW k \in Keys, NEW p \in Nat
    PROVE  [world |-> w, number |-> n, mode |-> m, key |-> k, previous |-> p,
            status |-> "queued", gen |-> 0, owner |-> NoWorker, live |-> FALSE,
            feedback |-> <<>>, patch |-> {}] \in Attempts
  BY DEF Attempts, Open

(* Whatever a step does to the rows, it changes only open ones, and in one of *)
(* these ways.                                                                *)
Stays(a) == attempts'[a] = attempts[a]

Touched(a) == /\ attempts[a].status \in Open
              /\ \/ \E k \in Workers : attempts[a].status = "queued" /\ attempts'[a] = Claimed(attempts[a], k)
                 \/ attempts[a].status = "running" /\ attempts'[a] = Requeued(attempts[a])
                 \/ attempts'[a] = Lapsed(attempts[a])

(* A step that closes the attempt of worker k. *)
Closes(k) ==
    LET i == run[k].attempt
    IN  /\ run[k].pc \in {"complete", "fail"} /\ i \in Ids /\ Holds(k, attempts[i])
        /\ \/ /\ run[k].pc = "complete"
              /\ attempts' = [attempts EXCEPT ![i] = Judged(attempts[i], run[k])]
              /\ world' = [world EXCEPT ![attempts[i].world] =
                             IF AllPassed(run[k].feedback) THEN "passed"
                             ELSE AfterFailure(attempts[i])]
           \/ /\ run[k].pc = "fail"
              /\ attempts' = [attempts EXCEPT ![i] = Errored(attempts[i])]
              /\ world' = [world EXCEPT ![attempts[i].world] = AfterFailure(attempts[i])]
        /\ run'[k].pc # run[k].pc

(* A step that only moves open rows. *)
Moves ==
    /\ attempts' \in Seq(Attempts) /\ Len(attempts') = Len(attempts)
    /\ \A a \in Ids : Stays(a) \/ Touched(a)
    /\ world' \in [Worlds -> WorldStatuses]
    /\ \A w \in Worlds : \/ world'[w] = world[w]
                         \/ /\ world'[w] = "running"
                            /\ \E a \in AttemptsOf(w) : attempts[a].status \in Open

RowsStep == \/ UNCHANGED <<world, attempts>>
            \/ \E w \in Worlds : CreateWorld(w)
            \/ \E w \in Worlds, k \in Keys, m \in Modes : EnqueueAttempt(w, k, m)
            \/ Moves
            \/ \E k \in Workers : Closes(k)

LEMMA ReconcileMoves == ASSUME TypeOK, Reconcile PROVE Moves
  <1>1. PICK S \in (SUBSET {a \in Ids : Abandoned(a)}) \ {{}} :
          /\ attempts' = [a \in Ids |->
                IF a \in S THEN [attempts[a] EXCEPT !.status = "queued", !.owner = NoWorker]
                           ELSE attempts[a]]
          /\ world' = [w \in Worlds |-> IF \E a \in S : attempts[a].world = w
                                        THEN "running" ELSE world[w]]
    BY DEF Reconcile
  <1>2. S \subseteq Ids /\ \A a \in S : attempts[a].status = "running"
    BY DEF Abandoned
  <1>3. attempts \in Seq(Attempts) /\ \A a \in Ids : attempts[a] \in Attempts
    BY DEF TypeOK, Ids
  <1>4. attempts' = [a \in Ids |-> IF a \in S THEN Requeued(attempts[a]) ELSE attempts[a]]
    BY <1>1 DEF Requeued
  <1>5. \A a \in Ids : Requeued(attempts[a]) \in Attempts
    BY <1>3, RowTypes DEF Requeued, Attempts, Open, Closed
  <1>6. attempts' \in Seq(Attempts) /\ Len(attempts') = Len(attempts)
    BY <1>3, <1>4, <1>5 DEF Ids
  <1>7. \A a \in Ids : Stays(a) \/ Touched(a)
    BY <1>2, <1>4 DEF Stays, Touched, Open
  <1>8. world' \in [Worlds -> WorldStatuses]
    BY <1>1 DEF TypeOK, WorldStatuses
  <1>9. \A w \in Worlds : \/ world'[w] = world[w]
                          \/ /\ world'[w] = "running"
                             /\ \E a \in AttemptsOf(w) : attempts[a].status \in Open
    BY <1>1, <1>2 DEF AttemptsOf, Open
  <1> QED BY <1>6, <1>7, <1>8, <1>9 DEF Moves

LEMMA ClaimMoves ==
    ASSUME TypeOK, NEW k \in Workers, Claim(k)
    PROVE  Moves
  <1> DEFINE i == listed[k]
  <1>1. attempts \in Seq(Attempts) /\ \A a \in Ids : attempts[a] \in Attempts
    BY DEF TypeOK, Ids
  <1>2. i \in Ids
    BY DEF TypeOK, Claim
  <1>3. world \in [Worlds -> WorldStatuses] /\ attempts[i].world \in Worlds
    BY <1>1, <1>2 DEF TypeOK, Attempts
  <1>4. CASE ~Schedulable(i)
    BY <1>1, <1>3, <1>4 DEF Claim, Moves, Stays
  <1>5. CASE Schedulable(i)
    <2>1. attempts' = [attempts EXCEPT ![i] = Claimed(attempts[i], k)] /\ attempts[i].status = "queued"
      BY <1>5 DEF Claim, Claimed, Schedulable
    <2>2. Claimed(attempts[i], k) \in Attempts
      BY <1>1, <1>2, IdleRunType, RowTypes
    <2>3. /\ attempts' \in Seq(Attempts) /\ Len(attempts') = Len(attempts)
          /\ attempts'[i] = Claimed(attempts[i], k)
          /\ \A a \in Ids : a # i => attempts'[a] = attempts[a]
      BY <1>1, <1>2, <2>1, <2>2, RowReplaced DEF Ids
    <2>4. \A a \in Ids : Stays(a) \/ Touched(a)
      BY <2>1, <2>3 DEF Stays, Touched, Open
    <2>5. world' = [world EXCEPT ![attempts[i].world] = "running"]
      BY <1>5 DEF Claim, SetWorld
    <2>6. i \in AttemptsOf(attempts[i].world) /\ attempts[i].status \in Open
      BY <1>2, <2>1 DEF AttemptsOf, Open
    <2>7. world' \in [Worlds -> WorldStatuses]
      BY <1>3, <2>5 DEF WorldStatuses
    <2> QED BY <1>3, <2>3, <2>4, <2>5, <2>6, <2>7 DEF Moves
  <1> QED BY <1>4, <1>5

LEMMA LapseMoves ==
    ASSUME TypeOK, NEW i \in Ids, LeaseLapses(i), \A a \in Ids : attempts[a].status \in Closed => ~attempts[a].live
    PROVE  Moves
  <1>1. attempts \in Seq(Attempts) /\ \A a \in Ids : attempts[a] \in Attempts
    BY DEF TypeOK, Ids
  <1>2. attempts' = [attempts EXCEPT ![i] = Lapsed(attempts[i])] /\ world' = world
    BY DEF LeaseLapses, Lapsed
  <1>3. Lapsed(attempts[i]) \in Attempts
    BY <1>1 DEF Lapsed, Attempts
  <1>4. /\ attempts' \in Seq(Attempts) /\ Len(attempts') = Len(attempts)
        /\ attempts'[i] = Lapsed(attempts[i])
        /\ \A a \in Ids : a # i => attempts'[a] = attempts[a]
    BY <1>1, <1>2, <1>3, RowReplaced DEF Ids
  <1>5. attempts[i].status \in Open
    BY <1>1 DEF LeaseLapses, Attempts
  <1>6. world \in [Worlds -> WorldStatuses]
    BY DEF TypeOK
  <1> QED BY <1>2, <1>4, <1>5, <1>6 DEF Moves, Stays, Touched

LEMMA CompleteEffect ==
    ASSUME TypeOK, NEW k \in Workers, Complete(k)
    PROVE  UNCHANGED <<world, attempts>> \/ Closes(k)
  <1>1. run[k].attempt \in Ids /\ run[k].pc = "complete" /\ run \in [Workers -> Runs]
    BY DEF TypeOK, Complete
  <1>2. CASE Holds(k, Row(k)) /\ RecordVerdict(k)
    <2>1. run'[k].pc \in {"finishing", "fail"}
      BY <1>1 DEF Complete, Goto, Runs
    <2> QED BY <1>1, <1>2, <2>1 DEF Closes, RecordVerdict, Row, Judged, SetWorld
  <1>3. CASE ~(Holds(k, Row(k)) /\ RecordVerdict(k))
    BY <1>3 DEF Complete
  <1> QED BY <1>2, <1>3

LEMMA FailEffect ==
    ASSUME TypeOK, NEW k \in Workers, Fail(k)
    PROVE  UNCHANGED <<world, attempts>> \/ Closes(k)
  <1>1. run[k].attempt \in Ids /\ run[k].pc = "fail" /\ run \in [Workers -> Runs]
    BY DEF TypeOK, Fail
  <1>2. CASE Holds(k, Row(k)) /\ RecordError(k)
    <2>1. run'[k].pc = "finishing"
      BY <1>1 DEF Fail, Goto, Runs
    <2> QED BY <1>1, <1>2, <2>1 DEF Closes, RecordError, Row, Errored, SetWorld
  <1>3. CASE ~(Holds(k, Row(k)) /\ RecordError(k))
    BY <1>3 DEF Fail
  <1> QED BY <1>2, <1>3

(* A closed attempt has no lease that could lapse. *)
ClosedUnleased == \A a \in Ids : attempts[a].status \in Closed => ~attempts[a].live

LEMMA Effects == ASSUME TypeOK, ClosedUnleased, [Next]_vars PROVE RowsStep
  <1>1. CASE Owner
    BY <1>1 DEF Owner, RowsStep
  <1>2. CASE Reconcile
    BY <1>2, ReconcileMoves DEF RowsStep
  <1>3. ASSUME NEW k \in Workers, Claim(k) PROVE RowsStep
    BY <1>3, ClaimMoves DEF RowsStep
  <1>4. ASSUME NEW k \in Workers, Complete(k) PROVE RowsStep
    BY <1>4, CompleteEffect DEF RowsStep
  <1>5. ASSUME NEW k \in Workers, Fail(k) PROVE RowsStep
    BY <1>5, FailEffect DEF RowsStep
  <1>6. ASSUME NEW k \in Workers,
               \/ List(k) \/ PollIdle(k) \/ Execute(k) \/ Check(k) \/ Prepare(k) \/ Agent(k)
               \/ Judge(k) \/ Cleanup(k) \/ Finish(k) \/ JobsEnter(k) \/ JobsLeave(k) \/ Crash(k)
        PROVE  RowsStep
    BY <1>6 DEF RowsStep, List, PollIdle, Execute, Check, Prepare, Agent, Judge, Cleanup, Finish,
                JobsEnter, JobsLeave, Crash, vars
  <1>7. ASSUME NEW a \in Ids, LeaseLapses(a) PROVE RowsStep
    BY <1>7, LapseMoves DEF RowsStep, ClosedUnleased
  <1>8. CASE UNCHANGED vars
    BY <1>8 DEF RowsStep, vars
  <1> QED BY <1>1, <1>2, <1>3, <1>4, <1>5, <1>6, <1>7, <1>8 DEF Next, RunStep

-----------------------------------------------------------------------------
(* How the attempts of a world are numbered and linked: without gaps, in the *)
(* order of the table, each to the one before it, within the budget.         *)
Newest(w, m) == /\ m \in AttemptsOf(w)
                /\ \A b \in AttemptsOf(w) : b <= m

Linked(w, a) ==
    IF attempts[a].number = 1 THEN attempts[a].previous = NoAttempt
    ELSE /\ attempts[a].previous \in AttemptsOf(w) /\ attempts[a].previous < a
         /\ attempts[attempts[a].previous].number = attempts[a].number - 1

Numbered(w) ==
    /\ AttemptsOf(w) # {} => \E m \in AttemptsOf(w) :
          Newest(w, m) /\ attempts[m].number = Cardinality(AttemptsOf(w))
    /\ {attempts[a].number : a \in AttemptsOf(w)} = 1..Cardinality(AttemptsOf(w))
    /\ Cardinality(AttemptsOf(w)) <= MaxAttempts[w]
    /\ \A a, b \in AttemptsOf(w) : attempts[a].number = attempts[b].number => a = b
    /\ \A a \in AttemptsOf(w) : Linked(w, a)

LEMMA LatestOf ==
    ASSUME TypeOK, NEW w \in Worlds, Numbered(w)
    PROVE  /\ AttemptsOf(w) = {} => Latest(w) = NoAttempt
           /\ AttemptsOf(w) # {} => /\ Newest(w, Latest(w))
                                    /\ attempts[Latest(w)].number = Cardinality(AttemptsOf(w))
           /\ Latest(w) \in Nat
  <1>1. CASE AttemptsOf(w) = {}
    BY <1>1 DEF Latest, NoAttempt
  <1>2. CASE AttemptsOf(w) # {}
    <2>1. PICK m \in AttemptsOf(w) : Newest(w, m) /\ attempts[m].number = Cardinality(AttemptsOf(w))
      BY <1>2 DEF Numbered
    <2>2. Latest(w) \in AttemptsOf(w) /\ \A b \in AttemptsOf(w) : b <= Latest(w)
      BY <1>2, <2>1 DEF Latest, Newest
    <2>3. AttemptsOf(w) \subseteq Nat
      BY DEF AttemptsOf, Ids, TypeOK
    <2>4. Latest(w) = m
      BY <2>1, <2>2, <2>3 DEF Newest
    <2> QED BY <1>2, <2>1, <2>3, <2>4
  <1> QED BY <1>1, <1>2

(* A step that keeps the rows and what never changes in a row. *)
SameTable == /\ Len(attempts') = Len(attempts)
             /\ \A a \in Ids : /\ attempts'[a].world = attempts[a].world
                               /\ attempts'[a].number = attempts[a].number
                               /\ attempts'[a].mode = attempts[a].mode
                               /\ attempts'[a].previous = attempts[a].previous

LEMMA SameTableKeeps ==
    ASSUME TypeOK, SameTable, NEW w \in Worlds
    PROVE  /\ Ids' = Ids /\ AttemptsOf(w)' = AttemptsOf(w) /\ Latest(w)' = Latest(w)
           /\ Numbered(w) => Numbered(w)'
  <1>1. Ids' = Ids
    BY DEF Ids, SameTable
  <1>2. AttemptsOf(w)' = AttemptsOf(w)
    BY <1>1 DEF AttemptsOf, SameTable
  <1>3. Latest(w)' = Latest(w)
    BY <1>2 DEF Latest
  <1>4. AttemptsOf(w) \subseteq Ids
    BY DEF AttemptsOf
  <1>5. ASSUME Numbered(w) PROVE Numbered(w)'
    <2>1. {attempts'[a].number : a \in AttemptsOf(w)} = {attempts[a].number : a \in AttemptsOf(w)}
      BY <1>4 DEF SameTable
    <2>2. \A a \in AttemptsOf(w) : Linked(w, a)'
      BY <1>2, <1>4, <1>5 DEF Numbered, Linked, SameTable
    <2>3. \A m : Newest(w, m)' <=> Newest(w, m)
      BY <1>2 DEF Newest
    <2> QED BY <1>2, <1>4, <1>5, <2>1, <2>2, <2>3 DEF Numbered, SameTable
  <1> QED BY <1>1, <1>2, <1>3, <1>5

LEMMA TouchKeeps ==
    ASSUME NEW a \in Ids, attempts \in Seq(Attempts), Stays(a) \/ Touched(a)
    PROVE  /\ attempts'[a].world = attempts[a].world
           /\ attempts'[a].number = attempts[a].number
           /\ attempts'[a].mode = attempts[a].mode
           /\ attempts'[a].previous = attempts[a].previous
           /\ attempts'[a].feedback = attempts[a].feedback
           /\ attempts'[a].patch = attempts[a].patch
           /\ attempts[a].status \in Open <=> attempts'[a].status \in Open
           /\ attempts[a].status \notin Open => attempts'[a] = attempts[a]
  <1>1. attempts[a] \in Attempts
    BY DEF Ids
  <1> QED BY <1>1 DEF Stays, Touched, Claimed, Requeued, Lapsed, Attempts, Open

LEMMA MovesKeep == ASSUME TypeOK, Moves PROVE SameTable
  BY TouchKeeps DEF Moves, SameTable, TypeOK

(* The table after a close. *)
LEMMA ClosesRows ==
    ASSUME TypeOK, NEW k \in Workers, Closes(k)
    PROVE  LET i == run[k].attempt
           IN  /\ attempts' \in Seq(Attempts) /\ SameTable
               /\ i \in Ids /\ attempts[i].status = "running"
               /\ \A a \in Ids : a # i => attempts'[a] = attempts[a]
               /\ attempts'[i].status \in Closed /\ ~attempts'[i].live
               /\ \/ /\ run[k].pc = "complete"
                     /\ attempts'[i].status = IF AllPassed(run[k].feedback) THEN "passed" ELSE "failed"
                     /\ attempts'[i].feedback = run[k].feedback
                     /\ attempts'[i].patch = run[k].patch
                  \/ attempts'[i].status = "error"
               /\ world' = [world EXCEPT ![attempts[i].world] =
                              IF attempts'[i].status = "passed" THEN "passed"
                              ELSE AfterFailure(attempts[i])]
  <1> DEFINE i == run[k].attempt
  <1>1. i \in Ids /\ attempts[i] \in Attempts /\ run[k] \in Runs /\ attempts \in Seq(Attempts)
    BY DEF TypeOK, Closes, Ids
  <1>2. attempts[i].status = "running"
    BY DEF Closes, Holds
  <1>3. ASSUME NEW r \in Attempts, attempts' = [attempts EXCEPT ![i] = r],
               r.world = attempts[i].world, r.number = attempts[i].number,
               r.mode = attempts[i].mode, r.previous = attempts[i].previous
        PROVE  /\ attempts' \in Seq(Attempts) /\ SameTable /\ attempts'[i] = r
               /\ \A a \in Ids : a # i => attempts'[a] = attempts[a]
    <2>1. /\ attempts' \in Seq(Attempts) /\ Len(attempts') = Len(attempts) /\ attempts'[i] = r
          /\ \A a \in Ids : a # i => attempts'[a] = attempts[a]
      BY <1>1, <1>3, RowReplaced DEF Ids
    <2> QED BY <1>3, <2>1 DEF SameTable
  <1>4. CASE run[k].pc = "complete"
    <2> DEFINE r == Judged(attempts[i], run[k])
    <2>1. r \in Attempts
      BY <1>1, RowTypes
    <2>2. attempts' = [attempts EXCEPT ![i] = r]
      BY <1>4 DEF Closes
    <2>3. /\ r.world = attempts[i].world /\ r.number = attempts[i].number
          /\ r.mode = attempts[i].mode /\ r.previous = attempts[i].previous
          /\ r.status = IF AllPassed(run[k].feedback) THEN "passed" ELSE "failed"
          /\ r.feedback = run[k].feedback /\ r.patch = run[k].patch /\ r.live = FALSE
      BY <1>1 DEF Judged, Attempts
    <2> HIDE DEF r
    <2>4. world' = [world EXCEPT ![attempts[i].world] =
                      IF AllPassed(run[k].feedback) THEN "passed" ELSE AfterFailure(attempts[i])]
      BY <1>4 DEF Closes
    <2> QED BY <1>1, <1>2, <1>3, <1>4, <2>1, <2>2, <2>3, <2>4 DEF Closed
  <1>5. CASE run[k].pc = "fail"
    <2> DEFINE r == Errored(attempts[i])
    <2>1. r \in Attempts
      BY <1>1, RowTypes
    <2>2. attempts' = [attempts EXCEPT ![i] = r]
      BY <1>5 DEF Closes
    <2>3. /\ r.world = attempts[i].world /\ r.number = attempts[i].number
          /\ r.mode = attempts[i].mode /\ r.previous = attempts[i].previous
          /\ r.status = "error" /\ r.live = FALSE
      BY <1>1 DEF Errored, Attempts
    <2> HIDE DEF r
    <2>4. world' = [world EXCEPT ![attempts[i].world] = AfterFailure(attempts[i])]
      BY <1>5 DEF Closes
    <2> QED BY <1>1, <1>2, <1>3, <2>1, <2>2, <2>3, <2>4 DEF Closed
  <1> QED BY <1>4, <1>5 DEF Closes

(* The table after a request for another attempt. *)
LEMMA EnqueueRows ==
    ASSUME TypeOK, \A w \in Worlds : Numbered(w),
           NEW v \in Worlds, NEW k \in Keys, NEW m \in Modes, EnqueueAttempt(v, k, m)
    PROVE  LET n == Len(attempts) + 1
           IN  /\ attempts' \in Seq(Attempts) /\ Len(attempts') = n /\ Ids' = Ids \cup {n} /\ n \notin Ids
               /\ \A a \in Ids : attempts'[a] = attempts[a]
               /\ attempts'[n].world = v /\ attempts'[n].status = "queued" /\ attempts'[n].live = FALSE
               /\ attempts'[n].number = Cardinality(AttemptsOf(v)) + 1
               /\ attempts'[n].previous = Latest(v) /\ attempts'[n].mode = m
               /\ AttemptsOf(v)' = AttemptsOf(v) \cup {n}
               /\ Cardinality(AttemptsOf(v)') = Cardinality(AttemptsOf(v)) + 1
               /\ \A w \in Worlds : w # v => AttemptsOf(w)' = AttemptsOf(w)
  <1> DEFINE n == Len(attempts) + 1
             r == [world |-> v, number |-> Cardinality(AttemptsOf(v)) + 1, mode |-> m, key |-> k,
                   previous |-> Latest(v), status |-> "queued", gen |-> 0, owner |-> NoWorker,
                   live |-> FALSE, feedback |-> <<>>, patch |-> {}]
  <1>1. attempts \in Seq(Attempts) /\ n \in Nat /\ Len(attempts) \in Nat
    BY DEF TypeOK
  <1>2. IsFiniteSet(AttemptsOf(v)) /\ Cardinality(AttemptsOf(v)) \in Nat
    BY <1>1, AttemptsFinite
  <1>3. Latest(v) \in Nat
    BY LatestOf
  <1>4. r \in Attempts
    BY <1>2, <1>3, NewRowType
  <1>5. attempts' = Append(attempts, r)
    BY DEF EnqueueAttempt
  <1>6. /\ r.world = v /\ r.number = Cardinality(AttemptsOf(v)) + 1 /\ r.previous = Latest(v)
        /\ r.status = "queued" /\ r.live = FALSE /\ r.mode = m
    OBVIOUS
  <1> HIDE DEF r
  <1>7. /\ attempts' \in Seq(Attempts) /\ Len(attempts') = n /\ attempts'[n] = r
        /\ \A a \in Ids : attempts'[a] = attempts[a]
    BY <1>1, <1>4, <1>5 DEF Ids
  <1>8. Ids' = Ids \cup {n} /\ n \notin Ids
    BY <1>1, <1>7 DEF Ids
  <1>9. \A w : AttemptsOf(w)' = {a \in Ids \cup {n} : attempts'[a].world = w}
    BY <1>8 DEF AttemptsOf
  <1>10. AttemptsOf(v)' = AttemptsOf(v) \cup {n} /\ n \notin AttemptsOf(v)
    BY <1>6, <1>7, <1>8, <1>9 DEF AttemptsOf
  <1>11. \A w \in Worlds : w # v => AttemptsOf(w)' = AttemptsOf(w)
    BY <1>6, <1>7, <1>8, <1>9 DEF AttemptsOf
  <1>12. Cardinality(AttemptsOf(v)') = Cardinality(AttemptsOf(v)) + 1
    BY <1>2, <1>10, FS_AddElement
  <1> QED BY <1>6, <1>7, <1>8, <1>10, <1>11, <1>12

LEMMA EnqueueNumbers ==
    ASSUME TypeOK, \A w \in Worlds : Numbered(w),
           NEW v \in Worlds, NEW k \in Keys, NEW m \in Modes, EnqueueAttempt(v, k, m),
           NEW n \in Nat, n = Len(attempts) + 1
    PROVE  /\ \A w \in Worlds : Numbered(w)'
           /\ Newest(v, n)'
  <1> DEFINE c == Cardinality(AttemptsOf(v))
  <1>1. /\ Ids' = Ids \cup {n} /\ n \notin Ids /\ \A a \in Ids : attempts'[a] = attempts[a]
        /\ attempts'[n].world = v /\ attempts'[n].number = c + 1 /\ attempts'[n].previous = Latest(v)
        /\ AttemptsOf(v)' = AttemptsOf(v) \cup {n}
        /\ Cardinality(AttemptsOf(v)') = c + 1
        /\ \A w \in Worlds : w # v => AttemptsOf(w)' = AttemptsOf(w)
    BY EnqueueRows
  <1>2. c \in Nat /\ n \in Nat /\ Ids \subseteq Nat /\ \A a \in Ids : a < n
    BY AttemptsFinite DEF TypeOK, Ids
  <1>3. \A w : AttemptsOf(w) \subseteq Ids
    BY DEF AttemptsOf
  <1>n. \A a \in AttemptsOf(v) : a \in Ids /\ a \in Nat /\ a < n /\ a # n
    <2> SUFFICES ASSUME NEW a \in AttemptsOf(v) PROVE a \in Ids /\ a \in Nat /\ a < n
      BY <1>2
    <2>1. a \in Ids
      BY DEF AttemptsOf
    <2> QED BY <1>2, <2>1
  <1>c. c = Cardinality(AttemptsOf(v))
    OBVIOUS
  <1> HIDE DEF c
  <1>4. c + 1 <= MaxAttempts[v]
    <2>1. c < MaxAttempts[v] /\ MaxAttempts[v] \in Nat
      BY <1>c, TestWorldAssumption DEF EnqueueAttempt, MayEnqueue
    <2> QED BY <1>2, <2>1
  <1>5. Newest(v, n)'
    BY <1>1, <1>2, <1>n DEF Newest
  <1>6. ASSUME NEW w \in Worlds, w # v PROVE Numbered(w)'
    <2>1. \A a \in AttemptsOf(w) : Linked(w, a)'
      BY <1>1, <1>3, <1>6 DEF Numbered, Linked
    <2>2. \A x : Newest(w, x)' <=> Newest(w, x)
      BY <1>1, <1>6 DEF Newest
    <2>3. {attempts'[a].number : a \in AttemptsOf(w)} = {attempts[a].number : a \in AttemptsOf(w)}
      BY <1>1, <1>3
    <2> QED BY <1>1, <1>3, <1>6, <2>1, <2>2, <2>3 DEF Numbered
  <1>7. Numbered(v)'
    <2>0. Numbered(v) /\ \A a \in AttemptsOf(v) : attempts[a].number \in 1..c
      BY <1>c DEF Numbered
    <2>1. {attempts'[a].number : a \in AttemptsOf(v) \cup {n}} = 1..(c + 1)
      <3>1. {attempts'[a].number : a \in AttemptsOf(v)} = 1..c
        BY <1>1, <1>3, <1>c, <2>0 DEF Numbered
      <3>2. {attempts'[a].number : a \in AttemptsOf(v) \cup {n}} = 1..c \cup {c + 1}
        BY <1>1, <3>1
      <3> QED BY <1>2, <3>2
    <2>2. \A a, b \in AttemptsOf(v) \cup {n} : attempts'[a].number = attempts'[b].number => a = b
      BY <1>1, <1>2, <1>n, <2>0 DEF Numbered
    <2>3. \A a \in AttemptsOf(v) : Linked(v, a)'
      BY <1>1, <1>3, <2>0 DEF Numbered, Linked
    <2>4. Linked(v, n)'
      <3>1. CASE AttemptsOf(v) = {}
        <4>1. c = 0 /\ Latest(v) = NoAttempt
          BY <1>c, <3>1, FS_EmptySet, LatestOf
        <4> QED BY <1>1, <4>1 DEF Linked
      <3>2. CASE AttemptsOf(v) # {}
        <4>1. Latest(v) \in AttemptsOf(v) /\ attempts[Latest(v)].number = c
          BY <1>c, <3>2, LatestOf DEF Newest
        <4>2. c >= 1 /\ Latest(v) < n
          BY <1>2, <1>n, <2>0, <4>1
        <4> QED BY <1>1, <1>2, <1>n, <4>1, <4>2 DEF Linked
      <3> QED BY <3>1, <3>2
    <2> QED BY <1>1, <1>4, <1>5, <2>1, <2>2, <2>3, <2>4 DEF Numbered
  <1> QED BY <1>5, <1>6, <1>7

(* What no step changes in the rows that are there. *)
LEMMA Frozen ==
    ASSUME TypeOK, \A w \in Worlds : Numbered(w), RowsStep
    PROVE  /\ attempts' \in Seq(Attempts)
           /\ \A a \in Ids : /\ a \in Ids'
                             /\ attempts[a].status \in Closed => attempts'[a] = attempts[a]
                             /\ attempts'[a].world = attempts[a].world
                             /\ attempts'[a].number = attempts[a].number
                             /\ attempts'[a].mode = attempts[a].mode
                             /\ attempts'[a].previous = attempts[a].previous
  <1>1. CASE UNCHANGED <<world, attempts>> \/ \E w \in Worlds : CreateWorld(w)
    BY <1>1 DEF CreateWorld, TypeOK, Ids
  <1>2. ASSUME NEW w \in Worlds, NEW k \in Keys, NEW m \in Modes, EnqueueAttempt(w, k, m)
        PROVE  attempts' \in Seq(Attempts) /\ \A a \in Ids : a \in Ids' /\ attempts'[a] = attempts[a]
    BY <1>2, EnqueueRows
  <1>3. CASE Moves
    <2>1. attempts' \in Seq(Attempts) /\ SameTable
      BY <1>3, MovesKeep DEF Moves
    <2>2. Ids' = Ids
      BY <2>1 DEF SameTable, Ids
    <2>3. \A a \in Ids : attempts[a].status \in Closed => attempts'[a] = attempts[a]
      BY <1>3, TouchKeeps DEF TypeOK, Open, Closed, Moves
    <2> QED BY <2>1, <2>2, <2>3 DEF SameTable
  <1>4. ASSUME NEW k \in Workers, Closes(k)
        PROVE  /\ attempts' \in Seq(Attempts) /\ SameTable
               /\ \A a \in Ids : attempts[a].status \in Closed => attempts'[a] = attempts[a]
    BY <1>4, ClosesRows DEF Closed
  <1>5. ASSUME SameTable PROVE Ids' = Ids
    BY <1>5 DEF SameTable, Ids
  <1> QED BY <1>1, <1>2, <1>3, <1>4, <1>5 DEF RowsStep, SameTable

-----------------------------------------------------------------------------
(* A world's part of WorldAgrees. *)
Reported(w) ==
    /\ \A a \in AttemptsOf(w) \ {Latest(w)} : attempts[a].status \in {"failed", "error"}
    /\ IF AttemptsOf(w) = {} THEN world[w] \in {"absent", "ready"}
       ELSE world[w] = CASE attempts[Latest(w)].status \in Open -> "running"
                         [] attempts[Latest(w)].status = "passed" -> "passed"
                         [] OTHER -> IF Cardinality(AttemptsOf(w)) = MaxAttempts[w] THEN "exhausted"
                                                                                    ELSE "failed"

LEMMA OpenIsLatest ==
    ASSUME TypeOK, \A w \in Worlds : Numbered(w) /\ Reported(w), NEW a \in Ids,
           attempts[a].status \notin {"failed", "error"}
    PROVE  a = Latest(attempts[a].world) /\ attempts[a].world \in Worlds /\ a \in AttemptsOf(attempts[a].world)
  <1>1. attempts[a].world \in Worlds
    BY RowFields
  <1>2. a \in AttemptsOf(attempts[a].world)
    BY DEF AttemptsOf
  <1> QED BY <1>1, <1>2 DEF Reported

(* The attempt a row continues is closed for good. *)
LEMMA PreviousClosed ==
    ASSUME TypeOK, \A w \in Worlds : Numbered(w) /\ Reported(w), NEW a \in Ids,
           attempts[a].previous # NoAttempt
    PROVE  /\ attempts[a].number # 1
           /\ attempts[a].previous \in Ids
           /\ attempts[attempts[a].previous].status \in {"failed", "error"}
  <1> DEFINE w == attempts[a].world
             p == attempts[a].previous
  <1>1. w \in Worlds
    BY RowFields
  <1>2. a \in AttemptsOf(w) /\ Linked(w, a) /\ Numbered(w) /\ Reported(w)
    BY <1>1 DEF AttemptsOf, Numbered
  <1>3. attempts[a].number # 1 /\ p \in AttemptsOf(w) /\ p < a
    BY <1>2 DEF Linked
  <1>4. a <= Latest(w) /\ Latest(w) \in Nat
    BY <1>1, <1>2, LatestOf DEF Newest
  <1>5. a \in Nat /\ p \in Nat /\ p \in Ids
    BY <1>3 DEF AttemptsOf, Ids, TypeOK
  <1>6. p # Latest(w)
    BY <1>3, <1>4, <1>5
  <1> QED BY <1>2, <1>3, <1>5, <1>6 DEF Reported

LEMMA ReportedNext ==
    ASSUME TypeOK, \A w \in Worlds : Numbered(w) /\ Reported(w), RowsStep
    PROVE  \A w \in Worlds : Numbered(w)' /\ Reported(w)'
  <1>1. CASE UNCHANGED <<world, attempts>>
    <2> SUFFICES ASSUME NEW w \in Worlds PROVE Numbered(w)' /\ Reported(w)'
      OBVIOUS
    <2>1. SameTable
      BY <1>1 DEF SameTable
    <2>2. AttemptsOf(w)' = AttemptsOf(w) /\ Latest(w)' = Latest(w) /\ Numbered(w)'
      BY <2>1, SameTableKeeps
    <2> QED BY <1>1, <2>2 DEF Reported
  <1>2. ASSUME NEW v \in Worlds, CreateWorld(v) PROVE \A w \in Worlds : Numbered(w)' /\ Reported(w)'
    <2> SUFFICES ASSUME NEW w \in Worlds PROVE Numbered(w)' /\ Reported(w)'
      OBVIOUS
    <2>1. SameTable /\ attempts' = attempts
      BY <1>2 DEF CreateWorld, SameTable
    <2>2. AttemptsOf(w)' = AttemptsOf(w) /\ Latest(w)' = Latest(w) /\ Numbered(w)'
      BY <2>1, SameTableKeeps
    <2>3. world' = [world EXCEPT ![v] = "ready"] /\ world[v] = "absent" /\ world \in [Worlds -> WorldStatuses]
      BY <1>2 DEF CreateWorld, SetWorld, TypeOK
    <2>4. CASE w # v
      BY <2>1, <2>2, <2>3, <2>4 DEF Reported
    <2>5. CASE w = v
      <3>1. AttemptsOf(w) = {}
        BY <2>3, <2>5 DEF Reported
      <3> QED BY <2>2, <2>3, <2>5, <3>1 DEF Reported
    <2> QED BY <2>2, <2>4, <2>5
  <1>3. ASSUME NEW v \in Worlds, NEW k \in Keys, NEW m \in Modes, EnqueueAttempt(v, k, m)
        PROVE  \A w \in Worlds : Numbered(w)' /\ Reported(w)'
    <2> SUFFICES ASSUME NEW w \in Worlds PROVE Reported(w)'
      BY <1>3, EnqueueNumbers DEF TypeOK
    <2>1. PICK n \in Nat : n = Len(attempts) + 1
      BY DEF TypeOK
    <2>2. Numbered(w)' /\ Newest(v, n)'
      BY <1>3, <2>1, EnqueueNumbers
    <2>3. /\ \A a \in Ids : attempts'[a] = attempts[a]
          /\ attempts'[n].status = "queued" /\ n \notin Ids
          /\ AttemptsOf(v)' = AttemptsOf(v) \cup {n}
          /\ \A u \in Worlds : u # v => AttemptsOf(u)' = AttemptsOf(u)
      BY <1>3, <2>1, EnqueueRows
    <2>4. world' = [world EXCEPT ![v] = "running"] /\ world \in [Worlds -> WorldStatuses]
      BY <1>3 DEF EnqueueAttempt, SetWorld, TypeOK
    <2>5. AttemptsOf(w) \subseteq Ids /\ AttemptsOf(v) \subseteq Ids
      BY DEF AttemptsOf
    <2>6. CASE w # v
      <3>0. AttemptsOf(w)' = AttemptsOf(w)
        BY <2>3, <2>6
      <3>1. Latest(w)' = Latest(w)
        BY <3>0 DEF Latest
      <3>2. AttemptsOf(w) # {} => Latest(w) \in AttemptsOf(w)
        BY LatestOf DEF Newest
      <3> QED BY <2>3, <2>4, <2>5, <2>6, <3>0, <3>1, <3>2 DEF Reported
    <2>7. CASE w = v
      <3>1. Latest(v)' = n
        <4>1. AttemptsOf(v)' \subseteq Nat
          BY <2>1, <2>3 DEF AttemptsOf, Ids
        <4> QED BY <2>2, <4>1 DEF Latest, Newest
      <3>2. \A a \in AttemptsOf(v) : attempts[a].status \in {"failed", "error"}
        <4>1. world[v] # "passed" /\ \A a \in AttemptsOf(v) : attempts[a].status \notin Open
          BY <1>3 DEF EnqueueAttempt, MayEnqueue, Finished
        <4>2. SUFFICES ASSUME NEW a \in AttemptsOf(v), a = Latest(v) PROVE attempts[a].status \in {"failed", "error"}
          BY DEF Reported
        <4>3. attempts[a].status \in Open \cup Closed
          BY <2>5, RowFields
        <4>4. attempts[a].status # "passed"
          BY <4>1, <4>2 DEF Reported, Open
        <4> QED BY <4>1, <4>3, <4>4 DEF Closed
      <3> QED BY <2>3, <2>4, <2>5, <2>7, <3>1, <3>2 DEF Reported, Open
    <2> QED BY <2>6, <2>7
  <1>4. CASE Moves
    <2> SUFFICES ASSUME NEW w \in Worlds PROVE Numbered(w)' /\ Reported(w)'
      OBVIOUS
    <2>1. AttemptsOf(w)' = AttemptsOf(w) /\ Latest(w)' = Latest(w) /\ Numbered(w)'
      BY <1>4, MovesKeep, SameTableKeeps
    <2>2. AttemptsOf(w) \subseteq Ids /\ (AttemptsOf(w) # {} => Latest(w) \in AttemptsOf(w))
      BY LatestOf DEF AttemptsOf, Newest
    <2>3. \A a \in Ids : /\ attempts[a].status \in Open <=> attempts'[a].status \in Open
                         /\ attempts[a].status \notin Open => attempts'[a].status = attempts[a].status
      BY <1>4, TouchKeeps DEF Moves, TypeOK
    <2>4. world'[w] = world[w] \/ (world'[w] = "running" /\ \E a \in AttemptsOf(w) : attempts[a].status \in Open)
      BY <1>4 DEF Moves
    <2>5. world'[w] = world[w]
      BY <2>4 DEF Reported, Open
    <2>0. Reported(w)
      OBVIOUS
    <2>t. \A a \in Ids : attempts[a].status \notin Open => attempts'[a].status = attempts[a].status
      BY <2>3
    <2>6. \A a \in AttemptsOf(w) \ {Latest(w)} : attempts'[a].status \in {"failed", "error"}
      <3> SUFFICES ASSUME NEW a \in AttemptsOf(w) \ {Latest(w)} PROVE attempts'[a].status \in {"failed", "error"}
        OBVIOUS
      <3>1. a \in Ids /\ attempts[a].status \in {"failed", "error"}
        BY <2>0, <2>2 DEF Reported
      <3> QED BY <2>t, <3>1 DEF Open
    <2>7. CASE AttemptsOf(w) = {}
      BY <2>1, <2>5, <2>6, <2>7 DEF Reported
    <2>8. CASE AttemptsOf(w) # {}
      <3>1. Latest(w) \in Ids
        BY <2>2, <2>8
      <3>2. CASE attempts[Latest(w)].status \in Open
        <4>1. attempts'[Latest(w)].status \in Open /\ world[w] = "running"
          BY <2>0, <2>3, <2>8, <3>1, <3>2 DEF Reported, Open
        <4> QED BY <2>1, <2>5, <2>6, <2>8, <4>1 DEF Reported, Open
      <3>3. CASE attempts[Latest(w)].status \notin Open
        BY <2>0, <2>1, <2>3, <2>5, <2>6, <2>8, <3>1, <3>3 DEF Reported
      <3> QED BY <3>2, <3>3
    <2> QED BY <2>1, <2>7, <2>8
  <1>5. ASSUME NEW k \in Workers, Closes(k) PROVE \A w \in Worlds : Numbered(w)' /\ Reported(w)'
    <2> SUFFICES ASSUME NEW w \in Worlds PROVE Numbered(w)' /\ Reported(w)'
      OBVIOUS
    <2> DEFINE i == run[k].attempt
    <2>1. /\ SameTable /\ i \in Ids /\ attempts[i].status = "running"
          /\ \A a \in Ids : a # i => attempts'[a] = attempts[a]
          /\ attempts'[i].status \in Closed
          /\ world' = [world EXCEPT ![attempts[i].world] =
                        IF attempts'[i].status = "passed" THEN "passed" ELSE AfterFailure(attempts[i])]
      BY <1>5, ClosesRows
    <2>2. AttemptsOf(w)' = AttemptsOf(w) /\ Latest(w)' = Latest(w) /\ Numbered(w)'
      BY <2>1, SameTableKeeps
    <2>3. AttemptsOf(w) \subseteq Ids /\ (AttemptsOf(w) # {} => Latest(w) \in AttemptsOf(w))
      BY LatestOf DEF AttemptsOf, Newest
    <2>4. i = Latest(attempts[i].world) /\ attempts[i].world \in Worlds /\ i \in AttemptsOf(attempts[i].world)
      BY <2>1, OpenIsLatest
    <2>5. world \in [Worlds -> WorldStatuses]
      BY DEF TypeOK
    <2> HIDE DEF i
    <2>6. CASE w # attempts[i].world
      <3>1. i \notin AttemptsOf(w)
        BY <2>6 DEF AttemptsOf
      <3> QED BY <2>1, <2>2, <2>3, <2>5, <2>6, <3>1 DEF Reported
    <2>7. CASE w = attempts[i].world
      <3>1. attempts[i].number = Cardinality(AttemptsOf(w)) /\ Cardinality(AttemptsOf(w)) <= MaxAttempts[w]
        BY <2>4, <2>7, LatestOf DEF Numbered
      <3>2. Cardinality(AttemptsOf(w)) \in Nat /\ MaxAttempts[w] \in Nat
        BY AttemptsFinite, TestWorldAssumption DEF TypeOK
      <3>3. AfterFailure(attempts[i]) = IF Cardinality(AttemptsOf(w)) = MaxAttempts[w] THEN "exhausted"
                                                                                       ELSE "failed"
        BY <2>7, <3>1, <3>2 DEF AfterFailure
      <3>4. \A a \in AttemptsOf(w) \ {Latest(w)} : attempts'[a].status \in {"failed", "error"}
        BY <2>1, <2>3, <2>4, <2>7 DEF Reported
      <3>5. world'[w] = IF attempts'[i].status = "passed" THEN "passed" ELSE AfterFailure(attempts[i])
        BY <2>1, <2>4, <2>5, <2>7
      <3> QED BY <2>1, <2>2, <2>4, <2>7, <3>3, <3>4, <3>5 DEF Reported, Open, Closed
    <2> QED BY <2>2, <2>6, <2>7
  <1> QED BY <1>1, <1>2, <1>3, <1>4, <1>5 DEF RowsStep

-----------------------------------------------------------------------------
(* A row's verdict rests on every check, and its patch on the row's base. *)
Judgement(a) ==
    attempts[a].status \in {"passed", "failed"} =>
        /\ Len(attempts[a].feedback) = NChecks
        /\ attempts[a].status = "passed" <=> AllPassed(attempts[a].feedback)
        /\ attempts[a].patch = {a} \cup BasePatch(attempts[a])

(* What a run has collected so far. *)
Collected(k) ==
    /\ run[k].pc \in {"submitted", "check", "prepare", "agent"} => run[k].feedback = <<>>
    /\ run[k].pc = "agent" => run[k].patch = BasePatch(Row(k))
    /\ run[k].pc = "judge" => Len(run[k].feedback) < NChecks
    /\ run[k].pc \in {"cleanup", "complete"} => Len(run[k].feedback) = NChecks
    /\ run[k].pc \in {"judge", "cleanup", "complete"} =>
         run[k].patch = {run[k].attempt} \cup BasePatch(Row(k))

Hops == {<<"submitted", "check">>, <<"submitted", "finishing">>, <<"check", "prepare">>,
         <<"check", "finishing">>, <<"prepare", "fail">>, <<"agent", "fail">>, <<"judge", "fail">>,
         <<"cleanup", "fail">>, <<"cleanup", "complete">>, <<"complete", "fail">>,
         <<"complete", "finishing">>, <<"fail", "finishing">>}

(* What a step of its executor does to a run. *)
RunMoves(k) ==
    \/ run'[k] = IdleRun
    \/ /\ run[k].pc # "idle" /\ run'[k].attempt = run[k].attempt /\ run'[k].gen = run[k].gen
       /\ \/ /\ <<run[k].pc, run'[k].pc>> \in Hops
             /\ run'[k].feedback = run[k].feedback /\ run'[k].patch = run[k].patch
          \/ /\ run[k].pc = "prepare" /\ run'[k].pc = "agent"
             /\ run'[k].feedback = run[k].feedback /\ run'[k].patch = BasePatch(Row(k))
          \/ /\ run[k].pc = "agent" /\ run'[k].pc = "judge"
             /\ run'[k].feedback = run[k].feedback /\ run'[k].patch = run[k].patch \cup {run[k].attempt}
          \/ /\ run[k].pc = "judge" /\ run'[k].patch = run[k].patch
             /\ Len(run'[k].feedback) = Len(run[k].feedback) + 1
             /\ run'[k].pc = IF Len(run[k].feedback) + 1 = NChecks THEN "cleanup" ELSE "judge"

(* The table patches a retry starts from. *)
LEMMA BasePatchType ==
    ASSUME TypeOK, \A w \in Worlds : Numbered(w) /\ Reported(w), NEW a \in Ids
    PROVE  BasePatch(attempts[a]) \in SUBSET Nat
  <1>1. CASE attempts[a].previous = NoAttempt
    BY <1>1 DEF BasePatch
  <1>2. CASE attempts[a].previous # NoAttempt
    <2>1. attempts[attempts[a].previous] \in Attempts
      BY <1>2, PreviousClosed, RowFields
    <2>2. attempts[attempts[a].previous].patch \in SUBSET Nat
      BY <2>1 DEF Attempts
    <2> QED BY <2>2 DEF BasePatch
  <1> QED BY <1>1, <1>2

LEMMA HopType ==
    ASSUME TypeOK, NEW k \in Workers, NEW p \in PCs, Goto(k, p),
           run[k].pc # "idle", <<run[k].pc, p>> \in Hops
    PROVE  /\ run' \in [Workers -> Runs] /\ RunMoves(k)
           /\ \A l \in Workers \ {k} : run'[l] = run[l]
  <1>1. run \in [Workers -> Runs]
    BY DEF TypeOK
  <1>2. run' = [run EXCEPT ![k].pc = p]
    BY DEF Goto
  <1>3. run' \in [Workers -> Runs] /\ \A l \in Workers \ {k} : run'[l] = run[l]
    BY <1>1, <1>2 DEF Runs
  <1>4. /\ run'[k].pc = p /\ run'[k].attempt = run[k].attempt /\ run'[k].gen = run[k].gen
        /\ run'[k].feedback = run[k].feedback /\ run'[k].patch = run[k].patch
    BY <1>1, <1>2 DEF Runs
  <1> QED BY <1>3, <1>4 DEF RunMoves

LEMMA RunStepMoves ==
    ASSUME TypeOK, \A w \in Worlds : Numbered(w) /\ Reported(w), NEW k \in Workers, RunStep(k)
    PROVE  /\ run' \in [Workers -> Runs] /\ RunMoves(k)
           /\ \A l \in Workers \ {k} : run'[l] = run[l]
  <1>0. run \in [Workers -> Runs] /\ run[k] \in Runs /\ (run[k].pc # "idle" => run[k].attempt \in Ids)
    BY DEF TypeOK
  <1>1. CASE Execute(k)
    BY <1>1, HopType DEF Execute, Hops, PCs, Inside
  <1>2. CASE Check(k)
    BY <1>2, HopType DEF Check, Hops, PCs, Inside
  <1>3. CASE Prepare(k)
    <2>1. CASE Goto(k, "fail")
      BY <1>3, <2>1, HopType DEF Prepare, Hops, PCs, Inside
    <2>2. CASE run' = [run EXCEPT ![k].pc = "agent", ![k].patch = BasePatch(Row(k))]
      <3>1. BasePatch(Row(k)) \in SUBSET Nat /\ run[k].pc = "prepare"
        BY <1>0, <1>3, BasePatchType DEF Prepare, Row
      <3>2. run' \in [Workers -> Runs] /\ \A l \in Workers \ {k} : run'[l] = run[l]
        BY <1>0, <2>2, <3>1 DEF Runs, PCs, Inside
      <3>3. /\ run'[k].attempt = run[k].attempt /\ run'[k].gen = run[k].gen /\ run'[k].pc = "agent"
            /\ run'[k].feedback = run[k].feedback /\ run'[k].patch = BasePatch(Row(k))
        BY <1>0, <2>2 DEF Runs
      <3> QED BY <3>1, <3>2, <3>3 DEF RunMoves
    <2> QED BY <1>3, <2>1, <2>2 DEF Prepare
  <1>4. CASE Agent(k)
    <2>1. CASE Goto(k, "fail")
      BY <1>4, <2>1, HopType DEF Agent, Hops, PCs, Inside
    <2>2. CASE run' = [run EXCEPT ![k].pc = "judge", ![k].patch = @ \cup {run[k].attempt}]
      <3>1. run[k].attempt \in Nat /\ run[k].pc = "agent" /\ run[k].patch \cup {run[k].attempt} \in SUBSET Nat
        BY <1>0, <1>4 DEF Agent, Runs
      <3>2. run' \in [Workers -> Runs] /\ \A l \in Workers \ {k} : run'[l] = run[l]
        BY <1>0, <2>2, <3>1 DEF Runs, PCs, Inside
      <3>3. /\ run'[k].attempt = run[k].attempt /\ run'[k].gen = run[k].gen /\ run'[k].pc = "judge"
            /\ run'[k].feedback = run[k].feedback /\ run'[k].patch = run[k].patch \cup {run[k].attempt}
        BY <1>0, <2>2 DEF Runs
      <3> QED BY <3>1, <3>2, <3>3 DEF RunMoves
    <2> QED BY <1>4, <2>1, <2>2 DEF Agent
  <1>5. CASE Judge(k)
    <2>1. CASE Goto(k, "fail")
      BY <1>5, <2>1, HopType DEF Judge, Hops, PCs, Inside
    <2>2. ASSUME NEW passed \in BOOLEAN,
                 run' = [run EXCEPT ![k].feedback = Append(@, passed),
                                    ![k].pc = IF Len(run[k].feedback) + 1 = NChecks
                                              THEN "cleanup" ELSE "judge"]
          PROVE  /\ run' \in [Workers -> Runs] /\ RunMoves(k)
                 /\ \A l \in Workers \ {k} : run'[l] = run[l]
      <3> DEFINE f == Append(run[k].feedback, passed)
                 p == IF Len(run[k].feedback) + 1 = NChecks THEN "cleanup" ELSE "judge"
      <3>1. f \in Seq(BOOLEAN) /\ Len(f) = Len(run[k].feedback) + 1
        <4>1. run[k].feedback \in Seq(BOOLEAN)
          BY <1>0 DEF Runs
        <4> QED BY <4>1
      <3>2. p \in PCs
        BY DEF PCs, Inside
      <3>3. run' = [run EXCEPT ![k].feedback = f, ![k].pc = p] /\ run[k].pc = "judge"
        BY <1>5, <2>2 DEF Judge
      <3>4. p = IF Len(run[k].feedback) + 1 = NChecks THEN "cleanup" ELSE "judge"
        OBVIOUS
      <3> HIDE DEF f, p
      <3>5. run' \in [Workers -> Runs] /\ \A l \in Workers \ {k} : run'[l] = run[l]
        BY <1>0, <3>1, <3>2, <3>3 DEF Runs
      <3>6. /\ run'[k].attempt = run[k].attempt /\ run'[k].gen = run[k].gen /\ run'[k].pc = p
            /\ run'[k].feedback = f /\ run'[k].patch = run[k].patch
        BY <1>0, <3>3 DEF Runs
      <3> QED BY <3>1, <3>3, <3>4, <3>5, <3>6 DEF RunMoves
    <2> QED BY <1>5, <2>1, <2>2 DEF Judge
  <1>6. CASE Cleanup(k)
    BY <1>6, HopType DEF Cleanup, Hops, PCs, Inside
  <1>7. CASE Complete(k)
    BY <1>7, HopType DEF Complete, Hops, PCs, Inside
  <1>8. CASE Fail(k)
    BY <1>8, HopType DEF Fail, Hops, PCs, Inside
  <1>9. CASE Finish(k)
    BY <1>0, <1>9, IdleRunType DEF Finish, RunMoves
  <1> QED BY <1>1, <1>2, <1>3, <1>4, <1>5, <1>6, <1>7, <1>8, <1>9 DEF RunStep

-----------------------------------------------------------------------------
(* The inductive invariant. *)
Inv == /\ TypeOK
       /\ ClosedUnleased
       /\ \A w \in Worlds : Numbered(w) /\ Reported(w)
       /\ \A a \in Ids : Judgement(a)
       /\ \A k \in Workers : Collected(k)
       /\ LanesExclude

(* Every run is left alone, or moves by a step of its executor, a claim or a crash. *)
RunEffect(k) ==
    \/ run'[k] = run[k]
    \/ RunMoves(k)
    \/ /\ listed[k] \in Ids
       /\ run'[k].pc = "submitted" /\ run'[k].attempt = listed[k] /\ run'[k].feedback = <<>>

LEMMA RunEffects ==
    ASSUME TypeOK, \A w \in Worlds : Numbered(w) /\ Reported(w), [Next]_vars
    PROVE  run' \in [Workers -> Runs] /\ \A k \in Workers : RunEffect(k)
  <1>0. run \in [Workers -> Runs] /\ listed \in [Workers -> Ids \cup {NoAttempt}]
    BY DEF TypeOK
  <1>1. ASSUME NEW k \in Workers, RunStep(k)
        PROVE  run' \in [Workers -> Runs] /\ \A l \in Workers : RunEffect(l)
    BY <1>1, RunStepMoves DEF RunEffect
  <1>2. ASSUME NEW k \in Workers, Claim(k)
        PROVE  run' \in [Workers -> Runs] /\ \A l \in Workers : RunEffect(l)
    <2>1. CASE ~Schedulable(listed[k])
      BY <1>0, <1>2, <2>1 DEF Claim, RunEffect
    <2>2. CASE Schedulable(listed[k])
      <3> DEFINE g == attempts[listed[k]].gen + 1
                 r == [IdleRun EXCEPT !.pc = "submitted", !.attempt = listed[k], !.gen = g]
      <3>1. listed[k] \in Ids
        BY <1>0, <1>2 DEF Claim
      <3>2. attempts[listed[k]] \in Attempts
        BY <3>1, RowFields
      <3>3. g \in Nat /\ listed[k] \in Nat
        <4>1. attempts[listed[k]].gen \in Nat
          BY <3>2 DEF Attempts
        <4> QED BY <3>1, <4>1 DEF Ids, TypeOK
      <3>4. run' = [run EXCEPT ![k] = r]
        BY <1>2, <2>2 DEF Claim
      <3> HIDE DEF g
      <3>5. r \in Runs /\ r.pc = "submitted" /\ r.attempt = listed[k] /\ r.feedback = <<>>
        <4>1. IdleRun \in Runs /\ IdleRun.feedback = <<>> /\ "submitted" \in PCs
          BY IdleRunType DEF IdleRun, PCs
        <4> QED BY <3>3, <4>1 DEF Runs
      <3> HIDE DEF r
      <3> QED BY <1>0, <3>1, <3>4, <3>5 DEF RunEffect
    <2> QED BY <2>1, <2>2
  <1>3. ASSUME NEW k \in Workers, Crash(k)
        PROVE  run' \in [Workers -> Runs] /\ \A l \in Workers : RunEffect(l)
    BY <1>0, <1>3, IdleRunType DEF Crash, RunEffect, RunMoves
  <1>4. ASSUME run' = run PROVE run' \in [Workers -> Runs] /\ \A l \in Workers : RunEffect(l)
    BY <1>0, <1>4 DEF RunEffect
  <1>5. ASSUME \/ Owner \/ Reconcile \/ UNCHANGED vars
               \/ \E k \in Workers : List(k) \/ PollIdle(k) \/ JobsEnter(k) \/ JobsLeave(k)
               \/ \E a \in Ids : LeaseLapses(a)
        PROVE  run' = run
    BY <1>5 DEF Owner, CreateWorld, EnqueueAttempt, Reconcile, vars, List, PollIdle, JobsEnter,
                JobsLeave, LeaseLapses
  <1> QED BY <1>1, <1>2, <1>3, <1>4, <1>5 DEF Next

LEMMA TypeNext ==
    ASSUME TypeOK, ClosedUnleased, \A w \in Worlds : Numbered(w) /\ Reported(w), [Next]_vars
    PROVE  TypeOK'
  <1>1. RowsStep
    BY Effects
  <1>2. attempts' \in Seq(Attempts) /\ \A a \in Ids : a \in Ids'
    BY <1>1, Frozen
  <1>3. run' \in [Workers -> Runs] /\ \A k \in Workers : RunEffect(k)
    BY RunEffects
  <1>4. \A k \in Workers : run'[k].pc # "idle" => run'[k].attempt \in Ids'
    <2> SUFFICES ASSUME NEW k \in Workers, run'[k].pc # "idle" PROVE run'[k].attempt \in Ids
      BY <1>2
    <2>1. run'[k] # IdleRun
      BY DEF IdleRun
    <2> QED BY <1>3, <2>1 DEF RunEffect, RunMoves, TypeOK
  <1>5. world' \in [Worlds -> WorldStatuses]
    <2>0. world \in [Worlds -> WorldStatuses]
      BY DEF TypeOK
    <2>1. CASE Moves
      BY <2>1 DEF Moves
    <2>2. ASSUME NEW k \in Workers, Closes(k) PROVE world' \in [Worlds -> WorldStatuses]
      BY <2>0, <2>2 DEF Closes, AfterFailure, WorldStatuses
    <2>3. ASSUME NEW w \in Worlds, CreateWorld(w) PROVE world' \in [Worlds -> WorldStatuses]
      BY <2>0, <2>3 DEF CreateWorld, SetWorld, WorldStatuses
    <2>4. ASSUME NEW w \in Worlds, NEW k \in Keys, NEW m \in Modes, EnqueueAttempt(w, k, m)
          PROVE  world' \in [Worlds -> WorldStatuses]
      BY <2>0, <2>4 DEF EnqueueAttempt, SetWorld, WorldStatuses
    <2> QED BY <1>1, <2>0, <2>1, <2>2, <2>3, <2>4 DEF RowsStep
  <1>6. listed' \in [Workers -> Ids' \cup {NoAttempt}]
    <2>1. listed \in [Workers -> Ids' \cup {NoAttempt}]
      BY <1>2 DEF TypeOK
    <2>2. ASSUME NEW k \in Workers, List(k) PROVE listed' \in [Workers -> Ids' \cup {NoAttempt}]
      BY <1>2, <2>1, <2>2 DEF List
    <2>3. ASSUME NEW k \in Workers, Claim(k) \/ Crash(k) PROVE listed' \in [Workers -> Ids' \cup {NoAttempt}]
      BY <2>1, <2>3 DEF Claim, Crash
    <2>4. ASSUME NEW k \in Workers, PollIdle(k) \/ RunStep(k) \/ JobsEnter(k) \/ JobsLeave(k)
          PROVE  listed' = listed
      BY <2>4 DEF PollIdle, vars, RunStep, Execute, Check, Prepare, Agent, Judge, Cleanup, Complete,
                  Fail, Finish, JobsEnter, JobsLeave
    <2>5. ASSUME Owner \/ Reconcile \/ UNCHANGED vars \/ \E a \in Ids : LeaseLapses(a) PROVE listed' = listed
      BY <2>5 DEF Owner, CreateWorld, EnqueueAttempt, Reconcile, vars, LeaseLapses
    <2> QED BY <2>1, <2>2, <2>3, <2>4, <2>5 DEF Next
  <1>7. active' \in [Workers -> BOOLEAN] /\ jobs' \in [Workers -> BOOLEAN]
    <2>1. active \in [Workers -> BOOLEAN] /\ jobs \in [Workers -> BOOLEAN]
      BY DEF TypeOK
    <2>2. ASSUME NEW k \in Workers,
                 List(k) \/ PollIdle(k) \/ Claim(k) \/ RunStep(k) \/ JobsEnter(k) \/ JobsLeave(k) \/ Crash(k)
          PROVE  /\ active' = active \/ \E b \in BOOLEAN : active' = [active EXCEPT ![k] = b]
                 /\ jobs' = jobs \/ \E b \in BOOLEAN : jobs' = [jobs EXCEPT ![k] = b]
      BY <2>2 DEF List, PollIdle, Claim, vars, RunStep, Execute, Check, Prepare, Agent, Judge, Cleanup,
                  Complete, Fail, Finish, JobsEnter, JobsLeave, Crash
    <2>3. ASSUME Owner \/ Reconcile \/ UNCHANGED vars \/ \E a \in Ids : LeaseLapses(a)
          PROVE  active' = active /\ jobs' = jobs
      BY <2>3 DEF Owner, CreateWorld, EnqueueAttempt, Reconcile, vars, LeaseLapses
    <2> QED BY <2>1, <2>2, <2>3 DEF Next
  <1>8. faults' \in 0..MaxFaults
    <2>1. faults \in 0..MaxFaults /\ MaxFaults \in Nat
      BY TestWorldAssumption DEF TypeOK
    <2>2. faults' = faults \/ (faults > 0 /\ faults' = faults - 1)
      <3>1. ASSUME NEW k \in Workers,
                   List(k) \/ PollIdle(k) \/ Claim(k) \/ RunStep(k) \/ JobsEnter(k) \/ JobsLeave(k) \/ Crash(k)
            PROVE  faults' = faults \/ (faults > 0 /\ faults' = faults - 1)
        BY <3>1 DEF List, PollIdle, Claim, vars, RunStep, Execute, Check, Prepare, Agent, Judge, Cleanup,
                    Complete, Fail, Finish, JobsEnter, JobsLeave, Crash, Fault, NoFault
      <3>2. ASSUME Owner \/ Reconcile \/ UNCHANGED vars \/ \E a \in Ids : LeaseLapses(a)
            PROVE  faults' = faults \/ (faults > 0 /\ faults' = faults - 1)
        BY <3>2 DEF Owner, CreateWorld, EnqueueAttempt, Reconcile, vars, LeaseLapses, Fault, NoFault
      <3> QED BY <3>1, <3>2 DEF Next
    <2> QED BY <2>1, <2>2
  <1> QED BY <1>2, <1>3, <1>4, <1>5, <1>6, <1>7, <1>8 DEF TypeOK

(* The patch a row starts from is fixed when the row is made. *)
LEMMA BaseKept ==
    ASSUME TypeOK, \A w \in Worlds : Numbered(w) /\ Reported(w), RowsStep, NEW a \in Ids
    PROVE  BasePatch(attempts[a])' = BasePatch(attempts[a])
  <1>1. /\ attempts'[a].mode = attempts[a].mode /\ attempts'[a].previous = attempts[a].previous
        /\ \A b \in Ids : attempts[b].status \in Closed => attempts'[b] = attempts[b]
    BY Frozen
  <1>2. CASE attempts[a].previous = NoAttempt
    BY <1>1, <1>2 DEF BasePatch
  <1>3. CASE attempts[a].previous # NoAttempt
    <2>1. attempts'[attempts[a].previous] = attempts[attempts[a].previous]
      BY <1>1, <1>3, PreviousClosed DEF Closed
    <2> QED BY <1>1, <2>1 DEF BasePatch
  <1> QED BY <1>2, <1>3

LEMMA JudgementNext ==
    ASSUME Inv, RowsStep
    PROVE  \A a \in Ids' : Judgement(a)' /\ (attempts'[a].status \in Closed => ~attempts'[a].live)
  <1>0. /\ TypeOK /\ ClosedUnleased /\ \A w \in Worlds : Numbered(w) /\ Reported(w)
        /\ \A a \in Ids : Judgement(a)
        /\ \A k \in Workers : Collected(k)
    BY DEF Inv
  <1>1. \A a \in Ids : attempts'[a] = attempts[a] => Judgement(a)'
    BY <1>0, BaseKept DEF Judgement, AllPassed
  <1>2. \A a \in Ids : attempts'[a].status \in Open => Judgement(a)'
    BY DEF Judgement, Open
  <1>3. CASE UNCHANGED <<world, attempts>> \/ \E w \in Worlds : CreateWorld(w)
    <2>1. attempts' = attempts /\ Ids' = Ids
      BY <1>3 DEF CreateWorld, Ids
    <2> QED BY <1>0, <1>1, <2>1 DEF ClosedUnleased
  <1>4. ASSUME NEW v \in Worlds, NEW k \in Keys, NEW m \in Modes, EnqueueAttempt(v, k, m),
               NEW a \in Ids'
        PROVE  Judgement(a)' /\ (attempts'[a].status \in Closed => ~attempts'[a].live)
    <2>1. PICK n \in Nat : n = Len(attempts) + 1
      BY <1>0 DEF TypeOK
    <2>2. /\ Ids' = Ids \cup {n} /\ attempts'[n].status = "queued"
          /\ \A b \in Ids : attempts'[b] = attempts[b]
      BY <1>0, <1>4, <2>1, EnqueueRows
    <2>3. Judgement(n)'
      BY <2>2 DEF Judgement
    <2> QED BY <1>0, <1>1, <1>4, <2>2, <2>3 DEF ClosedUnleased, Closed
  <1>5. CASE Moves
    <2>1. Ids' = Ids
      BY <1>5 DEF Moves, Ids
    <2>2. ASSUME NEW a \in Ids PROVE attempts'[a] = attempts[a] \/ attempts'[a].status \in Open
      BY <1>0, <1>5, <2>2, TouchKeeps DEF Moves, TypeOK
    <2> QED BY <1>0, <1>1, <1>2, <2>1, <2>2 DEF ClosedUnleased, Open, Closed
  <1>6. ASSUME NEW k \in Workers, Closes(k), NEW a \in Ids'
        PROVE  Judgement(a)' /\ (attempts'[a].status \in Closed => ~attempts'[a].live)
    <2> DEFINE i == run[k].attempt
    <2>1. /\ SameTable /\ i \in Ids
          /\ \A b \in Ids : b # i => attempts'[b] = attempts[b]
          /\ ~attempts'[i].live
          /\ \/ /\ run[k].pc = "complete"
                /\ attempts'[i].status = IF AllPassed(run[k].feedback) THEN "passed" ELSE "failed"
                /\ attempts'[i].feedback = run[k].feedback
                /\ attempts'[i].patch = run[k].patch
             \/ attempts'[i].status = "error"
      BY <1>0, <1>6, ClosesRows
    <2>2. Ids' = Ids
      BY <2>1 DEF SameTable, Ids
    <2>3. CASE a # i
      BY <1>0, <1>1, <1>6, <2>1, <2>2, <2>3 DEF ClosedUnleased
    <2>4. CASE a = i
      <3>1. BasePatch(attempts[a])' = BasePatch(attempts[a])
        BY <1>0, <1>6, <2>2, BaseKept
      <3>2. CASE attempts'[i].status = "error"
        BY <2>1, <2>4, <3>2 DEF Judgement
      <3>3. CASE attempts'[i].status # "error"
        <4>1. /\ Len(run[k].feedback) = NChecks
              /\ run[k].patch = {i} \cup BasePatch(attempts[i])
          BY <1>0, <2>1, <3>3 DEF Collected, Row
        <4>2. /\ Len(attempts'[a].feedback) = NChecks
              /\ attempts'[a].status = "passed" <=> AllPassed(attempts'[a].feedback)
              /\ attempts'[a].patch = {a} \cup BasePatch(attempts[a])
          BY <2>1, <2>4, <3>3, <4>1
        <4> QED BY <2>1, <2>4, <3>1, <4>2 DEF Judgement, AllPassed
      <3> QED BY <3>2, <3>3
    <2> QED BY <2>3, <2>4
  <1> QED BY <1>3, <1>4, <1>5, <1>6 DEF RowsStep

LEMMA CollectedNext ==
    ASSUME Inv, RowsStep, run' \in [Workers -> Runs], NEW k \in Workers, RunEffect(k)
    PROVE  Collected(k)'
  <1>0. /\ TypeOK /\ \A w \in Worlds : Numbered(w) /\ Reported(w)
        /\ Collected(k) /\ run[k] \in Runs /\ NChecks \in Nat /\ NChecks > 0
    BY TestWorldAssumption DEF Inv, TypeOK
  <1>1. \A a \in Ids : BasePatch(attempts[a])' = BasePatch(attempts[a])
    BY <1>0, BaseKept
  <1>2. CASE run'[k] = run[k]
    <2>1. CASE run[k].pc = "idle"
      BY <1>2, <2>1 DEF Collected
    <2>2. CASE run[k].pc # "idle"
      <3>1. BasePatch(Row(k))' = BasePatch(Row(k))
        BY <1>0, <1>1, <1>2, <2>2 DEF Row, TypeOK
      <3> QED BY <1>0, <1>2, <3>1 DEF Collected
    <2> QED BY <2>1, <2>2
  <1>3. CASE run'[k] = IdleRun
    BY <1>3 DEF Collected, IdleRun
  <1>4. CASE run'[k].pc = "submitted" /\ run'[k].feedback = <<>>
    BY <1>4 DEF Collected
  <1>5. CASE RunMoves(k) /\ run'[k] # IdleRun
    <2>0. run[k].pc # "idle" /\ run'[k].attempt = run[k].attempt
      BY <1>5 DEF RunMoves
    <2>1. BasePatch(Row(k))' = BasePatch(Row(k))
      BY <1>0, <1>1, <2>0 DEF Row, TypeOK
    <2>2. run[k].feedback \in Seq(BOOLEAN) /\ Len(run[k].feedback) \in Nat
      BY <1>0 DEF Runs
    <2>3. CASE /\ <<run[k].pc, run'[k].pc>> \in Hops
               /\ run'[k].feedback = run[k].feedback /\ run'[k].patch = run[k].patch
      <3>1. \/ run[k].pc = "submitted" /\ run'[k].pc = "check"
            \/ run[k].pc = "check" /\ run'[k].pc = "prepare"
            \/ run[k].pc = "cleanup" /\ run'[k].pc = "complete"
            \/ run'[k].pc \in {"fail", "finishing"}
        BY <2>3 DEF Hops
      <3> QED BY <1>0, <2>0, <2>1, <2>3, <3>1 DEF Collected
    <2>4. CASE /\ run[k].pc = "prepare" /\ run'[k].pc = "agent"
               /\ run'[k].feedback = run[k].feedback /\ run'[k].patch = BasePatch(Row(k))
      BY <1>0, <2>1, <2>4 DEF Collected
    <2>5. CASE /\ run[k].pc = "agent" /\ run'[k].pc = "judge"
               /\ run'[k].feedback = run[k].feedback /\ run'[k].patch = run[k].patch \cup {run[k].attempt}
      BY <1>0, <2>0, <2>1, <2>5 DEF Collected
    <2>6. CASE /\ run[k].pc = "judge" /\ run'[k].patch = run[k].patch
               /\ Len(run'[k].feedback) = Len(run[k].feedback) + 1
               /\ run'[k].pc = IF Len(run[k].feedback) + 1 = NChecks THEN "cleanup" ELSE "judge"
      BY <1>0, <2>0, <2>1, <2>2, <2>6 DEF Collected
    <2> QED BY <1>5, <2>3, <2>4, <2>5, <2>6 DEF RunMoves
  <1> QED BY <1>2, <1>3, <1>4, <1>5 DEF RunEffect

(* The flock is taken only when nobody on the root is inside. *)
LEMMA LockNext ==
    ASSUME TypeOK, LanesExclude, [Next]_vars
    PROVE  LanesExclude'
  <1>0. run \in [Workers -> Runs] /\ jobs \in [Workers -> BOOLEAN]
    BY DEF TypeOK
  <1>1. ASSUME \A k \in Workers : /\ run'[k].pc \in Inside => run[k].pc \in Inside
                                  /\ jobs'[k] => jobs[k]
        PROVE  LanesExclude'
    BY <1>1 DEF LanesExclude
  <1>2. ASSUME NEW k \in Workers, RunStep(k), ~Execute(k) PROVE LanesExclude'
    <2>1. jobs' = jobs
      BY <1>2 DEF RunStep, Check, Prepare, Agent, Judge, Cleanup, Complete, Fail, Finish
    <2>2. \A l \in Workers : l # k => run'[l] = run[l]
      BY <1>0, <1>2 DEF RunStep, Check, Prepare, Agent, Judge, Cleanup, Complete, Fail, Finish, Goto
    <2>3. run[k].pc \in Inside \/ run'[k] = IdleRun
      BY <1>0, <1>2 DEF RunStep, Check, Prepare, Agent, Judge, Cleanup, Complete, Fail, Finish, Inside
    <2> QED BY <1>1, <2>1, <2>2, <2>3 DEF IdleRun, Inside
  <1>3. ASSUME NEW k \in Workers, Execute(k) PROVE LanesExclude'
    <2>1. jobs' = jobs /\ \A l \in Workers : l # k => run'[l] = run[l]
      BY <1>0, <1>3 DEF Execute, Goto
    <2>2. CASE LockFree(RootOf[k])
      BY <2>1, <2>2 DEF LanesExclude, LockFree
    <2>3. CASE ~LockFree(RootOf[k])
      <3>1. run'[k].pc = "finishing"
        BY <1>0, <1>3, <2>3 DEF Execute, Goto, Runs
      <3> QED BY <1>1, <2>1, <3>1 DEF Inside
    <2> QED BY <2>2, <2>3
  <1>4. ASSUME NEW k \in Workers, JobsEnter(k) PROVE LanesExclude'
    BY <1>0, <1>4 DEF JobsEnter, LockFree, LanesExclude
  <1>5. ASSUME NEW k \in Workers, JobsLeave(k) PROVE LanesExclude'
    BY <1>0, <1>1, <1>5 DEF JobsLeave
  <1>6. ASSUME NEW k \in Workers, Crash(k) PROVE LanesExclude'
    BY <1>0, <1>1, <1>6 DEF Crash, IdleRun, Inside
  <1>7. ASSUME NEW k \in Workers, Claim(k) PROVE LanesExclude'
    <2>1. jobs' = jobs /\ \A l \in Workers : l # k => run'[l] = run[l]
      BY <1>0, <1>7 DEF Claim
    <2>2. run'[k] = run[k] \/ run'[k].pc = "submitted"
      BY <1>0, <1>7 DEF Claim, IdleRun
    <2> QED BY <1>1, <2>1, <2>2 DEF Inside
  <1>8. ASSUME \/ Owner \/ Reconcile \/ UNCHANGED vars
               \/ \E k \in Workers : List(k) \/ PollIdle(k)
               \/ \E a \in Ids : LeaseLapses(a)
        PROVE  run' = run /\ jobs' = jobs
    BY <1>8 DEF Owner, CreateWorld, EnqueueAttempt, Reconcile, vars, List, PollIdle, LeaseLapses
  <1> QED BY <1>1, <1>2, <1>3, <1>4, <1>5, <1>6, <1>7, <1>8 DEF Next

-----------------------------------------------------------------------------
LEMMA InvInit == Init => Inv
  <1> SUFFICES ASSUME Init PROVE Inv
    OBVIOUS
  <1>1. attempts = <<>> /\ Len(attempts) = 0 /\ Ids = {}
    BY DEF Init, Ids
  <1>2. \A w : AttemptsOf(w) = {}
    BY <1>1 DEF AttemptsOf
  <1>3. TypeOK
    BY <1>1, IdleRunType, TestWorldAssumption DEF Init, TypeOK, WorldStatuses, IdleRun
  <1>4. \A w \in Worlds : Numbered(w) /\ Reported(w)
    <2> SUFFICES ASSUME NEW w \in Worlds PROVE Numbered(w) /\ Reported(w)
      OBVIOUS
    <2>1. Cardinality(AttemptsOf(w)) = 0 /\ AttemptsOf(w) = {}
      BY <1>2, FS_EmptySet
    <2>2. world[w] = "absent" /\ MaxAttempts[w] \in Nat
      BY TestWorldAssumption DEF Init
    <2>3. {attempts[a].number : a \in AttemptsOf(w)} = 1..Cardinality(AttemptsOf(w))
      BY <2>1
    <2> QED BY <2>1, <2>2, <2>3 DEF Numbered, Reported
  <1>5. \A k \in Workers : Collected(k)
    BY DEF Init, Collected, IdleRun
  <1>6. LanesExclude
    BY DEF Init, LanesExclude, IdleRun, Inside
  <1> QED BY <1>1, <1>3, <1>4, <1>5, <1>6 DEF Inv, ClosedUnleased

LEMMA InvNext == Inv /\ [Next]_vars => Inv'
  <1> SUFFICES ASSUME Inv, [Next]_vars PROVE Inv'
    OBVIOUS
  <1>0. TypeOK /\ ClosedUnleased /\ LanesExclude /\ \A w \in Worlds : Numbered(w) /\ Reported(w)
    BY DEF Inv
  <1>1. RowsStep
    BY <1>0, Effects
  <1>2. TypeOK'
    BY <1>0, TypeNext
  <1>3. \A w \in Worlds : Numbered(w)' /\ Reported(w)'
    BY <1>0, <1>1, ReportedNext
  <1>4. \A a \in Ids' : Judgement(a)' /\ (attempts'[a].status \in Closed => ~attempts'[a].live)
    BY <1>1, JudgementNext
  <1>5. \A k \in Workers : Collected(k)'
    BY <1>0, <1>1, RunEffects, CollectedNext
  <1>6. LanesExclude'
    BY <1>0, LockNext
  <1> QED BY <1>2, <1>3, <1>4, <1>5, <1>6 DEF Inv, ClosedUnleased

LEMMA Invariance == Spec => []Inv
  BY InvInit, InvNext, PTL DEF Spec

(* The tables and the schedulers keep their types: no run refers to an     *)
(* attempt that is not there, and a status is one the CHECK constraints    *)
(* of migrations/003_test_world.sql allow.                                 *)
THEOREM TypeCorrect == Spec => []TypeOK
  <1>1. Inv => TypeOK
    BY DEF Inv
  <1> QED BY <1>1, Invariance, PTL

(* Practice and engineering exclude each other on every work root, for any *)
(* number of processes that share it.                                      *)
THEOREM LanesStayApart == Spec => []LanesExclude
  <1>1. Inv => LanesExclude
    BY DEF Inv
  <1> QED BY <1>1, Invariance, PTL

(* The status of a world agrees with its attempts, and that of an attempt  *)
(* with its checks, whatever five independent transactions, stale runs,    *)
(* lapsed leases and lost answers do, for any budget and number of checks. *)
THEOREM WorldsAgree == Spec => []WorldAgrees
  <1>1. Inv => WorldAgrees
    <2> SUFFICES ASSUME Inv PROVE WorldAgrees
      OBVIOUS
    <2>1. \A w \in Worlds : Numbered(w) /\ Reported(w)
      BY DEF Inv
    <2>2. \A a \in Ids : Judgement(a)
      BY DEF Inv
    <2> QED BY <2>1, <2>2 DEF WorldAgrees, Numbered, Reported, Judgement
  <1> QED BY <1>1, Invariance, PTL

(* A judged retry carries the patch of the attempt numbered before it and  *)
(* a fresh attempt only its own, whichever of several runs was recorded.   *)
THEOREM PatchesDescend == Spec => []PatchLineage
  <1>1. Inv => PatchLineage
    <2> SUFFICES ASSUME Inv, NEW a \in Ids, attempts[a].status \in {"passed", "failed"}
                 PROVE  attempts[a].patch = {a} \cup
                          (IF attempts[a].mode = "retry" /\ attempts[a].number > 1
                           THEN UNION {attempts[b].patch : b \in {b \in AttemptsOf(attempts[a].world) :
                                          attempts[b].number = attempts[a].number - 1}}
                           ELSE {})
      BY DEF PatchLineage
    <2> DEFINE w == attempts[a].world
               n == attempts[a].number
               p == attempts[a].previous
               before == {b \in AttemptsOf(w) : attempts[b].number = n - 1}
    <2>1. TypeOK /\ attempts[a].patch = {a} \cup BasePatch(attempts[a])
      BY DEF Inv, Judgement
    <2>2. w \in Worlds /\ n \in Nat /\ a \in AttemptsOf(w)
      BY <2>1, RowFields DEF AttemptsOf
    <2>3. Numbered(w) /\ Linked(w, a)
      BY <2>2 DEF Inv, Numbered
    <2>4. n \in 1..Cardinality(AttemptsOf(w))
      BY <2>2, <2>3 DEF Numbered
    <2>5. Cardinality(AttemptsOf(w)) \in Nat
      BY <2>1, AttemptsFinite DEF TypeOK
    <2>6. CASE n = 1
      <3>1. BasePatch(attempts[a]) = {}
        BY <2>3, <2>6 DEF Linked, BasePatch
      <3> QED BY <2>1, <2>6, <3>1
    <2>7. CASE n # 1
      <3>1. n > 1
        BY <2>4, <2>5, <2>7
      <3>2. p \in AttemptsOf(w) /\ attempts[p].number = n - 1 /\ p < a
        BY <2>3, <2>7 DEF Linked
      <3>3. before = {p}
        BY <2>3, <3>2 DEF Numbered
      <3>4. UNION {attempts[b].patch : b \in before} = attempts[p].patch
        BY <3>3
      <3>5. p # NoAttempt
        BY <3>2 DEF AttemptsOf, Ids, NoAttempt, Inv, TypeOK
      <3>6. BasePatch(attempts[a]) = IF attempts[a].mode = "retry" THEN attempts[p].patch ELSE {}
        BY <3>5 DEF BasePatch
      <3> QED BY <2>1, <3>1, <3>4, <3>6
    <2> QED BY <2>6, <2>7
  <1> QED BY <1>1, Invariance, PTL

(* Only the run that the row names as its lease holder closes an attempt.  *)
THEOREM ResultsAreFenced == Spec => ResultFenced
  <1> DEFINE Fenced == \A a \in Ids : attempts[a].status \in Open /\ attempts'[a].status \in Closed =>
                          \E k \in Workers : /\ run[k].attempt = a /\ run'[k] # run[k]
                                             /\ attempts[a].owner = k /\ attempts[a].gen = run[k].gen
  <1>1. Inv /\ [Next]_vars => [Fenced]_vars
    <2> SUFFICES ASSUME Inv, [Next]_vars, NEW a \in Ids,
                        attempts[a].status \in Open, attempts'[a].status \in Closed
                 PROVE  \E k \in Workers : /\ run[k].attempt = a /\ run'[k] # run[k]
                                           /\ attempts[a].owner = k /\ attempts[a].gen = run[k].gen
      OBVIOUS
    <2>0. TypeOK /\ ClosedUnleased /\ \A w \in Worlds : Numbered(w)
      BY DEF Inv
    <2>1. RowsStep /\ attempts'[a] # attempts[a]
      BY <2>0, Effects DEF Open, Closed
    <2>2. ~Moves
      BY <2>0, TouchKeeps DEF Moves, Open, Closed, TypeOK
    <2>3. \A w \in Worlds, k \in Keys, m \in Modes : ~EnqueueAttempt(w, k, m)
      BY <2>0, <2>1, EnqueueRows
    <2>4. PICK k \in Workers : Closes(k)
      BY <2>1, <2>2, <2>3 DEF RowsStep, CreateWorld
    <2>5. a = run[k].attempt
      BY <2>0, <2>1, <2>4, ClosesRows
    <2> QED BY <2>4, <2>5 DEF Closes, Holds
  <1> QED BY <1>1, Invariance, PTL DEF Spec, ResultFenced

(* A closed attempt never changes again.                                   *)
THEOREM ClosedStaysClosed == Spec => ClosedFrozen
  <1> DEFINE Kept == \A a \in Ids : attempts[a].status \in Closed => attempts'[a] = attempts[a]
  <1>1. Inv /\ [Next]_vars => [Kept]_vars
    BY Effects, Frozen DEF Inv
  <1> QED BY <1>1, Invariance, PTL DEF Spec, ClosedFrozen
=============================================================================
