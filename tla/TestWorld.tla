------------------------------ MODULE TestWorld ------------------------------
(***************************************************************************)
(* Tueiq Test Worlds: the owner opens worlds and queues attempts; every    *)
(* core process runs one TestWorldScheduler that claims, executes and      *)
(* judges one attempt at a time, under the same work-root flock as the     *)
(* engineering lane (core/lil_tweak/test_world*.py over the tables of      *)
(* migrations/003_test_world.sql).                                         *)
(*                                                                         *)
(* The store is PostgresTestWorldStore: a method is one transaction, hence *)
(* one step.  A world's definition never changes, so its fingerprint and   *)
(* judge_version always match and are left out.  "live" stands for         *)
(* lease_expires_at > now, as in JobStore.                                 *)
(***************************************************************************)
EXTENDS Naturals, Sequences, FiniteSets

CONSTANTS Worlds,
          MaxAttempts,  \* max_attempts of each world
          NChecks,      \* judge checks of a world
          Keys,         \* idempotency keys of the owner's attempt requests
          Workers,      \* core processes (world_worker_id)
          Roots,        \* work roots (one flock each)
          RootOf,       \* the work root of a process
          NoWorker,     \* lease_owner IS NULL
          JobLanes,     \* processes whose engineering lane has work
          MaxFaults     \* bound: failures in one behaviour

ASSUME TestWorldAssumption ==
    /\ MaxAttempts \in [Worlds -> Nat \ {0}]
    /\ NChecks \in Nat \ {0}
    /\ RootOf \in [Workers -> Roots]
    /\ NoWorker \notin Workers
    /\ JobLanes \subseteq Workers
    /\ MaxFaults \in Nat

VARIABLES world,     \* lil_tweak_test_worlds: the status of each world
          attempts,  \* lil_tweak_test_world_attempts, in created_at order
          listed,    \* the attempt a scheduler has selected and not yet claimed
          active,    \* _active of a scheduler
          run,       \* what a scheduler's executor and callbacks are doing
          jobs,      \* the process's engineering lane is inside the flock
          faults

vars == <<world, attempts, listed, active, run, jobs, faults>>

Ids == 1..Len(attempts)

NoAttempt == 0

(* "absent": no row yet.  "blocked" needs fail_attempt(blocked=True), which *)
(* no caller passes.                                                        *)
WorldStatuses == {"absent", "ready", "running", "failed", "passed", "exhausted", "blocked"}

Finished == {"passed", "exhausted", "blocked"}

Modes == {"retry", "fresh"}

Open == {"queued", "running"}

Closed == {"passed", "failed", "error"}

(* "patch" is the set of attempts whose changes cumulative_patch contains. *)
Attempts == [world : Worlds, number : Nat, mode : Modes, key : Keys, previous : Nat,
             status : Open \cup Closed, gen : Nat, owner : Workers \cup {NoWorker},
             live : BOOLEAN, feedback : Seq(BOOLEAN), patch : SUBSET Nat]

(* Between entering and leaving "with guard" in _execute. *)
Inside == {"check", "prepare", "agent", "judge", "cleanup", "complete", "fail"}

PCs == Inside \cup {"idle", "submitted", "finishing"}

Runs == [pc : PCs, attempt : Nat, gen : Nat, feedback : Seq(BOOLEAN), patch : SUBSET Nat]

IdleRun == [pc |-> "idle", attempt |-> NoAttempt, gen |-> 0, feedback |-> <<>>, patch |-> {}]

Init == /\ world = [w \in Worlds |-> "absent"]
        /\ attempts = <<>>
        /\ listed = [k \in Workers |-> NoAttempt]
        /\ active = [k \in Workers |-> FALSE]
        /\ run = [k \in Workers |-> IdleRun]
        /\ jobs = [k \in Workers |-> FALSE]
        /\ faults = MaxFaults

-----------------------------------------------------------------------------
Fault == faults > 0 /\ faults' = faults - 1

NoFault == UNCHANGED faults

Row(k) == attempts[run[k].attempt]

Goto(k, pc) == run' = [run EXCEPT ![k].pc = pc]

SetWorld(w, status) == world' = [world EXCEPT ![w] = status]

AttemptsOf(w) == {a \in Ids : attempts[a].world = w}

Latest(w) == IF AttemptsOf(w) = {} THEN NoAttempt
             ELSE CHOOSE a \in AttemptsOf(w) : \A b \in AttemptsOf(w) : b <= a

-----------------------------------------------------------------------------
(* Owner requests (test_world_api.py).  A request repeated under its key     *)
(* returns what the first one made; another request under it is a conflict.  *)

CreateWorld(w) ==
    /\ world[w] = "absent"
    /\ SetWorld(w, "ready")
    /\ UNCHANGED <<attempts, listed, active, run, jobs, faults>>

MayEnqueue(w, k) ==
    /\ \A a \in Ids : attempts[a].key # k
    /\ world[w] \notin Finished \cup {"absent"}
    /\ \A a \in AttemptsOf(w) : attempts[a].status \notin Open
    /\ Cardinality(AttemptsOf(w)) < MaxAttempts[w]

EnqueueAttempt(w, k, m) ==
    /\ MayEnqueue(w, k)
    /\ attempts' = Append(attempts,
          [world |-> w, number |-> Cardinality(AttemptsOf(w)) + 1, mode |-> m, key |-> k,
           previous |-> Latest(w), status |-> "queued", gen |-> 0, owner |-> NoWorker,
           live |-> FALSE, feedback |-> <<>>, patch |-> {}])
    /\ SetWorld(w, "running")
    /\ UNCHANGED <<listed, active, run, jobs, faults>>

Owner == \E w \in Worlds :
            \/ CreateWorld(w)
            \/ \E k \in Keys, m \in Modes : EnqueueAttempt(w, k, m)

-----------------------------------------------------------------------------
(* The scheduler thread: poll_once. *)

(* Mutant: closed attempts without a lease are taken for abandoned ones. *)
AbandonedAny(a) == ~attempts[a].live

(* Mutant: only a missing lease counts, not one that has run out. *)
AbandonedWithoutExpiry(a) == attempts[a].status = "running" /\ attempts[a].owner = NoWorker

Abandoned(a) == attempts[a].status = "running" /\ ~attempts[a].live

(* reconcile_active_attempts; SKIP LOCKED may leave any of the rows out. *)
Reconcile ==
    /\ \E S \in (SUBSET {a \in Ids : Abandoned(a)}) \ {{}} :
          /\ attempts' = [a \in Ids |->
                IF a \in S THEN [attempts[a] EXCEPT !.status = "queued", !.owner = NoWorker]
                           ELSE attempts[a]]
          /\ world' = [w \in Worlds |-> IF \E a \in S : attempts[a].world = w
                                        THEN "running" ELSE world[w]]
    /\ UNCHANGED <<listed, active, run, jobs, faults>>

Schedulable(a) == attempts[a].status = "queued" /\ ~attempts[a].live

(* list_schedulable_attempts(limit=1): the oldest. *)
List(k) ==
    /\ ~active[k] /\ listed[k] = NoAttempt
    /\ \E a \in Ids : /\ Schedulable(a)
                      /\ \A b \in 1..(a - 1) : ~Schedulable(b)
                      /\ listed' = [listed EXCEPT ![k] = a]
    /\ UNCHANGED <<world, attempts, active, run, jobs, faults>>

(* Nothing to do: the scheduler is busy or the queue is empty. *)
PollIdle(k) ==
    /\ listed[k] = NoAttempt
    /\ active[k] \/ \A a \in Ids : ~Schedulable(a)
    /\ UNCHANGED vars

(* claim_attempt and submit, or None for a listing that was out of date. *)
Claim(k) ==
    /\ listed[k] # NoAttempt
    /\ listed' = [listed EXCEPT ![k] = NoAttempt]
    /\ IF Schedulable(listed[k])
       THEN LET row == attempts[listed[k]]
            IN /\ attempts' = [attempts EXCEPT ![listed[k]] =
                                  [row EXCEPT !.status = "running", !.gen = row.gen + 1,
                                              !.owner = k, !.live = TRUE]]
               /\ SetWorld(row.world, "running")
               /\ active' = [active EXCEPT ![k] = TRUE]
               /\ run' = [run EXCEPT ![k] = [IdleRun EXCEPT !.pc = "submitted",
                                                !.attempt = listed[k], !.gen = row.gen + 1]]
       ELSE UNCHANGED <<world, attempts, active, run>>
    /\ UNCHANGED <<jobs, faults>>

-----------------------------------------------------------------------------
(* The executor thread: _execute and run_attempt. *)

LockFree(r) == \A k \in Workers : RootOf[k] = r => ~jobs[k] /\ run[k].pc \notin Inside

(* Mutant: the attempt runs without the flock. *)
ExecuteUnlocked(k) ==
    /\ run[k].pc = "submitted"
    /\ Goto(k, "check")
    /\ UNCHANGED <<world, attempts, listed, active, jobs, faults>>

(* The non-blocking flock: RuntimeExecutionBusy when anyone holds it. *)
Execute(k) ==
    /\ run[k].pc = "submitted"
    /\ Goto(k, IF LockFree(RootOf[k]) THEN "check" ELSE "finishing")
    /\ UNCHANGED <<world, attempts, listed, active, jobs, faults>>

(* get_attempt and get_world; the generation is not compared here. *)
Check(k) ==
    /\ run[k].pc = "check"
    /\ \/ NoFault /\ Goto(k, IF Row(k).status = "running" THEN "prepare" ELSE "finishing")
       \/ Fault /\ Goto(k, "finishing")
    /\ UNCHANGED <<world, attempts, listed, active, jobs>>

(* Mutant: a retry starts from the bare commit. *)
BasePatchDropped(row) == {}

(* The cumulative patch a retry replays; a fresh attempt has none. *)
BasePatch(row) == IF row.mode = "retry" /\ row.previous # NoAttempt
                  THEN attempts[row.previous].patch ELSE {}

(* prepare_workspace and apply_previous_patch. *)
Prepare(k) ==
    /\ run[k].pc = "prepare"
    /\ \/ NoFault /\ run' = [run EXCEPT ![k].pc = "agent", ![k].patch = BasePatch(Row(k))]
       \/ Fault /\ Goto(k, "fail")
    /\ UNCHANGED <<world, attempts, listed, active, jobs>>

(* run_agent and capture_cumulative_patch. *)
Agent(k) ==
    /\ run[k].pc = "agent"
    /\ \/ NoFault /\ run' = [run EXCEPT ![k].pc = "judge", ![k].patch = @ \cup {run[k].attempt}]
       \/ Fault /\ Goto(k, "fail")
    /\ UNCHANGED <<world, attempts, listed, active, jobs>>

(* run_check and _judge_feedback for the next check. *)
Judge(k) ==
    /\ run[k].pc = "judge"
    /\ \/ /\ NoFault
          /\ \E passed \in BOOLEAN :
                run' = [run EXCEPT ![k].feedback = Append(@, passed),
                                   ![k].pc = IF Len(run[k].feedback) + 1 = NChecks
                                             THEN "cleanup" ELSE "judge"]
       \/ Fault /\ Goto(k, "fail")
    /\ UNCHANGED <<world, attempts, listed, active, jobs>>

(* The sandbox must be torn down before the verdict counts. *)
Cleanup(k) ==
    /\ run[k].pc = "cleanup"
    /\ \/ NoFault /\ Goto(k, "complete")
       \/ Fault /\ Goto(k, "fail")
    /\ UNCHANGED <<world, attempts, listed, active, jobs>>

(* Mutant: neither the owner nor the generation of the lease is compared. *)
HoldsAnyLease(k, row) == row.status = "running"

(* complete_attempt and fail_attempt compare the lease, not its expiry. *)
Holds(k, row) == row.status = "running" /\ row.owner = k /\ row.gen = run[k].gen

AllPassed(feedback) == \A i \in 1..Len(feedback) : feedback[i]

(* Mutant: the budget is compared too late. *)
AfterFailureLate(row) == IF row.number > MaxAttempts[row.world] THEN "exhausted" ELSE "failed"

(* Mutant: a status outside the table's CHECK constraint. *)
AfterFailureUnlisted(row) == IF row.number >= MaxAttempts[row.world] THEN "spent" ELSE "failed"

(* The world after an attempt that did not pass. *)
AfterFailure(row) == IF row.number >= MaxAttempts[row.world] THEN "exhausted" ELSE "failed"

(* The effect of complete_attempt. *)
RecordVerdict(k) ==
    LET passed == AllPassed(run[k].feedback)
    IN /\ attempts' = [attempts EXCEPT ![run[k].attempt] =
                         [@ EXCEPT !.status = IF passed THEN "passed" ELSE "failed",
                                   !.feedback = run[k].feedback,
                                   !.patch = run[k].patch,
                                   !.owner = NoWorker, !.live = FALSE]]
       /\ SetWorld(Row(k).world, IF passed THEN "passed" ELSE AfterFailure(Row(k)))

(* The effect of fail_attempt: neither feedback of checks nor a patch. *)
RecordError(k) ==
    /\ attempts' = [attempts EXCEPT ![run[k].attempt] =
                      [@ EXCEPT !.status = "error", !.owner = NoWorker, !.live = FALSE]]
    /\ SetWorld(Row(k).world, AfterFailure(Row(k)))

(* The verdict is stored and acknowledged; stored, but the answer is lost;    *)
(* refused as stale; or not stored because the store failed.  Only a refusal  *)
(* (TestWorldConflict) is passed on, other exceptions lead to fail_attempt.   *)
Complete(k) ==
    /\ run[k].pc = "complete"
    /\ \/ Holds(k, Row(k)) /\ RecordVerdict(k) /\ NoFault /\ Goto(k, "finishing")
       \/ Holds(k, Row(k)) /\ RecordVerdict(k) /\ Fault /\ Goto(k, "fail")
       \/ ~Holds(k, Row(k)) /\ NoFault /\ Goto(k, "finishing") /\ UNCHANGED <<world, attempts>>
       \/ Fault /\ Goto(k, "fail") /\ UNCHANGED <<world, attempts>>
    /\ UNCHANGED <<listed, active, jobs>>

Fail(k) ==
    /\ run[k].pc = "fail"
    /\ Goto(k, "finishing")
    /\ \/ /\ Holds(k, Row(k)) /\ RecordError(k)
          /\ NoFault \/ Fault
       \/ ~Holds(k, Row(k)) /\ NoFault /\ UNCHANGED <<world, attempts>>
       \/ Fault /\ UNCHANGED <<world, attempts>>
    /\ UNCHANGED <<listed, active, jobs>>

(* _finished.  release_attempt clears the lease of a row that still has it,  *)
(* but such a row is "running" and the table's CHECK wants a running row to  *)
(* have a lease: the statement is refused.  When it raises, for that or any  *)
(* other reason, _release_active is not reached.                             *)
Finish(k) ==
    /\ run[k].pc = "finishing"
    /\ run' = [run EXCEPT ![k] = IdleRun]
    /\ \/ ~Holds(k, Row(k)) /\ NoFault /\ active' = [active EXCEPT ![k] = FALSE]
       \/ Holds(k, Row(k)) /\ NoFault /\ UNCHANGED active
       \/ Fault /\ UNCHANGED active
    /\ UNCHANGED <<world, attempts, listed, jobs>>

RunStep(k) == \/ Execute(k) \/ Check(k) \/ Prepare(k) \/ Agent(k) \/ Judge(k)
              \/ Cleanup(k) \/ Complete(k) \/ Fail(k) \/ Finish(k)

-----------------------------------------------------------------------------
(* The rest of the process, time and failures. *)

(* The engineering lane takes the flock for a job or an admission probe     *)
(* (the runtime probe's latch file has the same effect).                    *)
JobsEnter(k) ==
    /\ k \in JobLanes
    /\ LockFree(RootOf[k])
    /\ jobs' = [jobs EXCEPT ![k] = TRUE]
    /\ UNCHANGED <<world, attempts, listed, active, run, faults>>

JobsLeave(k) ==
    /\ jobs[k]
    /\ jobs' = [jobs EXCEPT ![k] = FALSE]
    /\ UNCHANGED <<world, attempts, listed, active, run, faults>>

(* The heartbeat thread renews the lease of a until the future is done, and  *)
(* the callback follows at once, with most of the lease left.                *)
Attends(k, a) == /\ run[k].pc # "idle" /\ run[k].attempt = a
                 /\ Holds(k, attempts[a])

(* Without a heartbeat a lease runs out; with one it takes a failure. *)
LeaseLapses(a) ==
    /\ attempts[a].live
    /\ IF \E k \in Workers : Attends(k, a) THEN Fault ELSE NoFault
    /\ attempts' = [attempts EXCEPT ![a].live = FALSE]
    /\ UNCHANGED <<world, listed, active, run, jobs>>

(* The process dies and starts again under a new worker id. *)
Crash(k) ==
    /\ Fault
    /\ listed' = [listed EXCEPT ![k] = NoAttempt]
    /\ active' = [active EXCEPT ![k] = FALSE]
    /\ run' = [run EXCEPT ![k] = IdleRun]
    /\ jobs' = [jobs EXCEPT ![k] = FALSE]
    /\ UNCHANGED <<world, attempts>>

Next == \/ Owner
        \/ Reconcile
        \/ \E k \in Workers : \/ List(k) \/ PollIdle(k) \/ Claim(k) \/ RunStep(k)
                              \/ JobsEnter(k) \/ JobsLeave(k) \/ Crash(k)
        \/ \E a \in Ids : LeaseLapses(a)

Spec == Init /\ [][Next]_vars

(* Polls repeat, threads run, leases run out and the engineering lane gives  *)
(* the flock back; nothing obliges the owner, a failure or a restart.        *)
Fairness ==
    /\ WF_vars(Reconcile)
    /\ WF_vars(\E a \in Ids : LeaseLapses(a) /\ NoFault)
    /\ \A k \in Workers : /\ WF_vars(List(k))
                          /\ WF_vars(Claim(k))
                          /\ WF_vars(RunStep(k))
                          /\ WF_vars(JobsLeave(k))

FairSpec == Spec /\ Fairness

-----------------------------------------------------------------------------
(* The values the tables and the schedulers can take. *)
TypeOK == /\ world \in [Worlds -> WorldStatuses]
          /\ attempts \in Seq(Attempts)
          /\ listed \in [Workers -> Ids \cup {NoAttempt}]
          /\ active \in [Workers -> BOOLEAN]
          /\ run \in [Workers -> Runs]
          /\ \A k \in Workers : run[k].pc # "idle" => run[k].attempt \in Ids
          /\ jobs \in [Workers -> BOOLEAN]
          /\ faults \in 0..MaxFaults

(* The status of a world, which five transactions write on their own, tells *)
(* the truth about its attempts: numbered without gaps within the budget,   *)
(* only the latest open or passed; running exactly while it is open, passed *)
(* or failed as the latest was, exhausted when the budget went unpassed.    *)
(* And so does the status of an attempt about its checks: a verdict rests   *)
(* on a result for every one, whatever stale runs and lost answers do.      *)
WorldAgrees ==
  /\ \A w \in Worlds :
        LET mine == AttemptsOf(w)
            last == attempts[Latest(w)]
            used == Cardinality(mine)
        IN /\ {attempts[a].number : a \in mine} = 1..used /\ used <= MaxAttempts[w]
           /\ \A a \in mine \ {Latest(w)} : attempts[a].status \in {"failed", "error"}
           /\ IF mine = {} THEN world[w] \in {"absent", "ready"}
              ELSE world[w] = CASE last.status \in Open -> "running"
                                [] last.status = "passed" -> "passed"
                                [] OTHER -> IF used = MaxAttempts[w] THEN "exhausted"
                                                                     ELSE "failed"
  /\ \A a \in Ids : attempts[a].status \in {"passed", "failed"} =>
        /\ Len(attempts[a].feedback) = NChecks
        /\ attempts[a].status = "passed" <=> AllPassed(attempts[a].feedback)

(* A judged retry contains what the attempt before it contained, and a      *)
(* fresh one only its own changes, whichever run of it was the one to count. *)
PatchLineage ==
    \A a \in Ids : attempts[a].status \in {"passed", "failed"} =>
        attempts[a].patch = {a} \cup
            (IF attempts[a].mode = "retry" /\ attempts[a].number > 1
             THEN UNION {attempts[b].patch : b \in {b \in AttemptsOf(attempts[a].world) :
                            attempts[b].number = attempts[a].number - 1}}
             ELSE {})

(* Practice and engineering, of all the processes that share a work root,   *)
(* are never inside it at once.                                             *)
LanesExclude ==
    \A k, l \in Workers : RootOf[k] = RootOf[l] /\ run[k].pc \in Inside =>
        ~jobs[l] /\ (run[l].pc \in Inside => k = l)

(* Only the run that the row names as its lease holder closes an attempt: a *)
(* stalled run whose attempt was given to another records nothing.          *)
ResultFenced ==
    [][\A a \in Ids : attempts[a].status \in Open /\ attempts'[a].status \in Closed =>
          \E k \in Workers : /\ run[k].attempt = a /\ run'[k] # run[k]
                             /\ attempts[a].owner = k /\ attempts[a].gen = run[k].gen]_vars

(* A closed attempt is history: no retry, late run or recovery alters it.   *)
ClosedFrozen ==
    [][\A a \in Ids : attempts[a].status \in Closed => attempts'[a] = attempts[a]]_vars

(* A scheduler that counts an attempt as active although nothing runs. *)
Wedged(k) == active[k] /\ run[k].pc = "idle"

(* A queued attempt is judged or ends in an error, whatever crashes, lapses *)
(* and store failures happen, unless every scheduler is wedged.             *)
AttemptSettles ==
    \A a \in 1..Cardinality(Keys) :
        (a \in Ids /\ attempts[a].status = "queued")
        ~> \/ a \in Ids /\ attempts[a].status \in Closed
           \/ \A k \in Workers : Wedged(k)

(* test_world_scheduler.py: "A transient store/runtime failure must not     *)
(* terminate future admission": a scheduler that admitted an attempt can    *)
(* sooner or later admit another.                                           *)
AdmissionResumes == \A k \in Workers : active[k] ~> ~active[k]
=============================================================================
