--------------------------- MODULE EngineeringCore ---------------------------
(***************************************************************************)
(* The durable job engine of core/: any number of core processes share one *)
(* PostgreSQL job table.  Each process polls it (DurableJobScheduler),     *)
(* admits jobs into the slots of its BackgroundJobRunner and executes them *)
(* one at a time under the work root's flock (prepare_sources and          *)
(* execute_job in core/main.py, run_job in orchestrator.py), while the     *)
(* owner creates, cancels, approves, rejects and exports through the API.  *)
(*                                                                         *)
(* Every store call is one transaction, hence one step; a value read in    *)
(* one step and used in a later one stays in the slot's local state.       *)
(* _move renews the lease and then runs the fenced transaction: both test  *)
(* the lease and only the second writes anything the model keeps, so they  *)
(* are one step.  Requests carry an expected revision: one that differs    *)
(* from the row's is refused without effect, so only matching ones appear, *)
(* at any time and with any payload, which covers delayed, repeated and    *)
(* reordered requests.                                                     *)
(*                                                                         *)
(* "faults" is the number of failures the environment may still cause.     *)
(***************************************************************************)
EXTENDS JobStore

CONSTANTS NJobs,      \* jobs 1..NJobs, numbered in created_at order
          Slots,      \* admission slots of all processes (max_admitted each)
          ProcOf,     \* the process a slot belongs to
          Roots,      \* work roots (one flock each)
          RootOf,     \* the work root of a process
          Tokens,     \* approval token hashes
          Keys,       \* idempotency keys of owner requests
          NoSlot,     \* the lock is free
          NoGit,      \* jobs whose source the GitHub verifier cannot accept
          MaxFaults,  \* bound: failures in one behaviour
          MaxClaims   \* bound: claims of one job (lease_generation)

Jobs == 1..NJobs

NoJob == 0

ASSUME CoreAssumption ==
    /\ NJobs \in Nat
    /\ NoSlot \notin Slots
    /\ ProcOf \in [Slots -> Procs]
    /\ RootOf \in [Procs -> Roots]
    /\ NoGit \subseteq Jobs
    /\ MaxFaults \in Nat
    /\ MaxClaims \in Nat

VARIABLES job,        \* lil_tweak_jobs
          approvals,  \* lil_tweak_approvals
          decided,    \* lil_tweak_decisions: keys of requests that took effect
          evidence,   \* bundles completely stored in R2
          listed,     \* the job a scheduler has selected and not yet claimed
          run,        \* what each admission slot is doing
          holder,     \* the slot holding the flock of a work root
          latched,    \* recovery_latched of a process
          faults

vars == <<job, approvals, decided, evidence, listed, run, holder, latched, faults>>

Ops == {"cancel", "approve", "reject", "export"}

(* The prefix of the stored idempotency key: both decisions share one. *)
Prefix(op) == IF op \in {"approve", "reject"} THEN "decide" ELSE op

Approvals == [token : Tokens, job : Jobs, digest : Digests, consumed : BOOLEAN]

(* The store calls of a run, by the state each one asks for. *)
MoveTarget ==
    [toIngest |-> "ingesting", toPlan |-> "planning", toExecute |-> "executing",
     toTest |-> "testing", toCollect |-> "collecting",
     toAwait |-> "awaiting_approval", toComplete |-> "completed",
     toTimeOut |-> "timed_out", cancelTry |-> "cancelled",
     cancelLate |-> "cancelled", toFail |-> "failed", toExpire |-> "timed_out"]

(* Where run_job continues after the call succeeds. *)
AfterMove ==
    [toIngest |-> "toPlan", toPlan |-> "planned", toExecute |-> "executed",
     toTest |-> "toCollect", toCollect |-> "collect", toAwait |-> "announce",
     toComplete |-> "teardown", toTimeOut |-> "teardown", cancelTry |-> "teardown",
     cancelLate |-> "teardown", toFail |-> "teardown", toExpire |-> "teardown"]

(* Inside the try block of run_job: an exception leads to its handler. *)
InTry == {"toIngest", "toPlan", "planned", "toExecute", "executed", "agent", "toTest",
          "toCollect", "collect", "upload", "toAwait", "toComplete", "toTimeOut",
          "cancelTry", "announce"}

(* In run_job, outside that block: an exception ends the run. *)
OutOfTry == {"begin", "handler", "handlerLate", "cancelLate", "toFail", "toExpire"}

(* prepare_sources: an exception ends the run before a sandbox exists. *)
Preparing == {"intake", "ingest", "load", "loadFailed", "recordFailure"}

(* Between entering and leaving "with guard" in _execute. *)
Inside == Preparing \cup OutOfTry \cup InTry \cup {"teardown"}

PCs == Inside \cup {"idle", "admitted", "releasing"}

Runs == [pc : PCs, job : Jobs \cup {NoJob}, gen : Nat, rev : Nat,
         digest : Digests \cup {NoDigest}]

IdleRun == [pc |-> "idle", job |-> NoJob, gen |-> 0, rev |-> 0, digest |-> NoDigest]

Init == /\ job = [j \in Jobs |-> NewRow]
        /\ approvals = {}
        /\ decided = {}
        /\ evidence = {}
        /\ listed = [p \in Procs |-> NoJob]
        /\ run = [s \in Slots |-> IdleRun]
        /\ holder = [r \in Roots |-> NoSlot]
        /\ latched = [p \in Procs |-> FALSE]
        /\ faults = MaxFaults

-----------------------------------------------------------------------------
(* Shorthand for the steps of a slot. *)

Row(s) == job[run[s].job]

Root(s) == RootOf[ProcOf[s]]

Fault == faults > 0 /\ faults' = faults - 1

NoFault == UNCHANGED faults

Goto(s, pc) == run' = [run EXCEPT ![s].pc = pc]

(* get_job: continue at pc with the revision just read. *)
Read(s, pc) == run' = [run EXCEPT ![s].pc = pc, ![s].rev = Row(s).revision]

(* Leave "with guard": the flock is released, the future's callbacks remain. *)
Leave(s) == /\ Goto(s, "releasing")
            /\ holder' = [holder EXCEPT ![Root(s)] = NoSlot]

Latch(s) == latched' = [latched EXCEPT ![ProcOf[s]] = TRUE]

OnError(pc) == IF pc \in InTry THEN "handler" ELSE "teardown"

StoreUnchanged == UNCHANGED <<job, approvals, decided, evidence>>

-----------------------------------------------------------------------------
(* Owner requests (api.py), each a transaction of the store. *)

(* create_job, keyed by the client's idempotency key. *)
Create(j) ==
    /\ job[j].state = "absent"
    /\ \A i \in 1..(j - 1) : job[i].state # "absent"
    /\ job' = [job EXCEPT ![j].state = "draft"]
    /\ UNCHANGED <<approvals, decided, evidence, listed, run, holder, latched, faults>>

(* The second transaction of POST /v1/jobs; a retry of the request runs it *)
(* again when the first attempt stopped in between.                        *)
Enqueue(j) ==
    /\ job[j].state = "draft"
    /\ MayMoveUnleased(job[j], job[j].revision, "queued", NoDigest)
    /\ job' = [job EXCEPT ![j] = Moved(@, "queued", NoDigest)]
    /\ UNCHANGED <<approvals, decided, evidence, listed, run, holder, latched, faults>>

(* A request takes effect under an unused key; a repetition of it changes    *)
(* nothing and another request under its key is a conflict.                  *)
Decide(op, k, j) ==
    /\ \A d \in decided : d.key = k => Prefix(d.op) # Prefix(op)
    /\ decided' = decided \cup {[op |-> op, key |-> k, job |-> j]}

RequestCancel(j, k) ==
    /\ Decide("cancel", k, j)
    /\ MayCancel(job[j], job[j].revision)
    /\ job' = [job EXCEPT ![j] = Cancelled(@)]
    /\ UNCHANGED <<approvals, evidence, listed, run, holder, latched, faults>>

Reject(j, k, d) ==
    /\ Decide("reject", k, j)
    /\ MayDecide(job[j], job[j].revision, d)
    /\ job' = [job EXCEPT ![j] = Rejected(@)]
    /\ UNCHANGED <<approvals, evidence, listed, run, holder, latched, faults>>

(* token_hash is the primary key of lil_tweak_approvals. *)
Approve(j, k, d, t) ==
    /\ Decide("approve", k, j)
    /\ MayDecide(job[j], job[j].revision, d)
    /\ job[j].fresh
    /\ \A a \in approvals : a.token # t
    /\ approvals' = approvals \cup
                     {[token |-> t, job |-> j, digest |-> d, consumed |-> FALSE]}
    /\ job' = [job EXCEPT ![j] = Approved(@)]
    /\ UNCHANGED <<evidence, listed, run, holder, latched, faults>>

Spend(a) == approvals' = (approvals \ {a}) \cup {[a EXCEPT !.consumed = TRUE]}

Export(j, k, d, t) ==
    /\ Decide("export", k, j)
    /\ \E a \in approvals : /\ a.token = t /\ a.job = j /\ a.digest = d
                            /\ ~a.consumed
                            /\ Spend(a)
    /\ job[j].fresh
    /\ MayExport(job[j], job[j].revision, d)
    /\ job' = [job EXCEPT ![j] = Exported(@)]
    /\ UNCHANGED <<evidence, listed, run, holder, latched, faults>>

Owner == \E j \in Jobs :
            \/ Create(j)
            \/ Enqueue(j)
            \/ \E k \in Keys :
                  \/ RequestCancel(j, k)
                  \/ \E d \in Digests : Reject(j, k, d)
                  \/ \E d \in Digests, t \in Tokens : Approve(j, k, d, t)
                  \/ \E d \in Digests, t \in Tokens : Export(j, k, d, t)

-----------------------------------------------------------------------------
(* The scheduler thread of a process: poll_once. *)

ApprovalsOf(j) == {a \in approvals : a.job = j /\ a.digest = job[j].proposal}

ValidApproval(j) == job[j].fresh /\ \E a \in ApprovalsOf(j) : ~a.consumed

SpentApproval(j) == \E a \in ApprovalsOf(j) : a.consumed

(* reconcile_active_jobs; SKIP LOCKED may leave any of the rows out. *)
Reconcile ==
    /\ \E S \in (SUBSET {j \in Jobs : Reconcilable(job[j], ValidApproval(j))}) \ {{}} :
          job' = [j \in Jobs |-> IF j \in S THEN Reconciled(job[j], SpentApproval(j))
                                            ELSE job[j]]
    /\ UNCHANGED <<approvals, decided, evidence, listed, run, holder, latched, faults>>

(* admission_guard: no latch, and the flock probe finds the lock free. *)
Admissible(p) == ~latched[p] /\ holder[RootOf[p]] = NoSlot

IdleSlots(p) == {s \in Slots : ProcOf[s] = p /\ run[s].pc = "idle"}

(* has_capacity, then list_schedulable_jobs(limit=1). *)
List(p) ==
    /\ listed[p] = NoJob
    /\ Admissible(p) /\ IdleSlots(p) # {}
    /\ \E j \in Jobs :
          /\ Schedulable(job[j])
          /\ \A i \in 1..(j - 1) : ~Schedulable(job[i])
          /\ listed' = [listed EXCEPT ![p] = j]
    /\ StoreUnchanged
    /\ UNCHANGED <<run, holder, latched, faults>>

(* claim_job returned None: the listing was out of date. *)
ClaimLost(p) ==
    /\ listed[p] # NoJob
    /\ ~Claimable(job[listed[p]])
    /\ listed' = [listed EXCEPT ![p] = NoJob]
    /\ StoreUnchanged
    /\ UNCHANGED <<run, holder, latched, faults>>

(* claim_job and submit.  A refused submission keeps the lease only to give *)
(* it back; it is refused when the guard fails now, or when another thread's *)
(* probe holds the flock for an instant.                                     *)
Claim(p, s) ==
    /\ listed[p] # NoJob
    /\ Claimable(job[listed[p]]) /\ job[listed[p]].gen < MaxClaims
    /\ s \in IdleSlots(p)
    /\ listed' = [listed EXCEPT ![p] = NoJob]
    /\ job' = [job EXCEPT ![listed[p]] = Claimed(@, p)]
    /\ \E pc \in {"admitted", "releasing"} :
          /\ run' = [run EXCEPT ![s] = [pc |-> pc, job |-> listed[p],
                                        gen |-> job'[listed[p]].gen,
                                        rev |-> 0, digest |-> NoDigest]]
          /\ IF pc = "admitted" THEN Admissible(p) /\ NoFault
             ELSE \/ ~Admissible(p) /\ NoFault
                  \/ Fault
    /\ UNCHANGED <<approvals, decided, evidence, holder, latched>>

-----------------------------------------------------------------------------
(* The executor thread of a process: _execute up to prepare_sources. *)

(* Mutant: the flock is taken without testing whether it is held. *)
StartUnlocked(s) ==
    /\ run[s].pc = "admitted"
    /\ \A t \in Slots : ProcOf[t] = ProcOf[s] => run[t].pc \notin Inside
    /\ holder' = [holder EXCEPT ![Root(s)] = s]
    /\ Goto(s, "intake")
    /\ NoFault
    /\ StoreUnchanged
    /\ UNCHANGED <<listed, latched>>

(* One executor thread per process, then the non-blocking flock. *)
Start(s) ==
    /\ run[s].pc = "admitted"
    /\ \A t \in Slots : ProcOf[t] = ProcOf[s] => run[t].pc \notin Inside
    /\ \/ /\ holder[Root(s)] = NoSlot
          /\ holder' = [holder EXCEPT ![Root(s)] = s]
          /\ Goto(s, "intake")
          /\ NoFault
       \/ /\ holder[Root(s)] # NoSlot \* RuntimeExecutionBusy: another process
          /\ Goto(s, "releasing")
          /\ UNCHANGED <<holder, faults>>
       \/ /\ Fault                    \* RuntimeExecutionBusy: a probe
          /\ Goto(s, "releasing")
          /\ UNCHANGED holder
    /\ StoreUnchanged
    /\ UNCHANGED <<listed, latched>>

Intake(s) ==
    /\ run[s].pc = "intake"
    /\ \/ /\ ~latched[ProcOf[s]]
          /\ \/ Row(s).state = "queued" /\ Read(s, "ingest")
             \/ Row(s).state = "ingesting" /\ Read(s, "load")
          /\ UNCHANGED <<holder, latched, faults>>
       \/ /\ latched[ProcOf[s]] \/ Row(s).state \notin {"queued", "ingesting"}
          /\ Leave(s)
          /\ UNCHANGED <<latched, faults>>
       \/ /\ ~latched[ProcOf[s]] /\ Fault \* reconcile_promotion_markers failed
          /\ Leave(s) /\ Latch(s)
    /\ StoreUnchanged
    /\ UNCHANGED listed

(* The fenced transition to "ingesting": acknowledged, committed without an *)
(* answer, or refused.                                                      *)
Ingest(s) ==
    /\ run[s].pc = "ingest"
    /\ LET may == MayMoveLeased(Row(s), ProcOf[s], run[s].gen, run[s].rev,
                                "ingesting", NoDigest)
           do == job' = [job EXCEPT ![run[s].job] = Moved(@, "ingesting", NoDigest)]
       IN \/ may /\ do /\ NoFault /\ Goto(s, "load") /\ UNCHANGED holder
          \/ may /\ do /\ Fault /\ Leave(s)
          \/ ~may /\ UNCHANGED job /\ NoFault /\ Leave(s)
    /\ UNCHANGED <<approvals, decided, evidence, listed, latched>>

(* Old trees are removed, then the sources are ingested. *)
Load(s) ==
    /\ run[s].pc = "load"
    /\ \/ Goto(s, "begin") /\ UNCHANGED <<holder, latched, faults>>
       \/ Fault /\ Goto(s, "loadFailed") /\ UNCHANGED <<holder, latched>>
       \/ Fault /\ Leave(s) /\ Latch(s) \* remove_runtime_tree failed
    /\ StoreUnchanged
    /\ UNCHANGED listed

(* The intake's except block: read the row, ... *)
LoadFailed(s) ==
    /\ run[s].pc = "loadFailed"
    /\ IF Row(s).state = "ingesting" THEN Read(s, "recordFailure") /\ UNCHANGED holder
                                     ELSE Leave(s)
    /\ StoreUnchanged
    /\ UNCHANGED <<listed, latched, faults>>

(* ... record source_intake_failed, drop the workspace, re-raise. *)
RecordFailure(s) ==
    /\ run[s].pc = "recordFailure"
    /\ IF MayMoveLeased(Row(s), ProcOf[s], run[s].gen, run[s].rev, "failed", NoDigest)
       THEN job' = [job EXCEPT ![run[s].job] = Moved(@, "failed", NoDigest)]
       ELSE UNCHANGED job
    /\ Leave(s)
    /\ \/ UNCHANGED <<latched, faults>>
       \/ Fault /\ Latch(s)             \* remove_runtime_tree failed
    /\ UNCHANGED <<approvals, decided, evidence, listed>>

-----------------------------------------------------------------------------
(* run_job. *)

(* Up to the try block.  A draft cannot be read here: only queued jobs are *)
(* listed, and no step goes back to draft.                                 *)
Begin(s) ==
    /\ run[s].pc = "begin"
    /\ IF Row(s).state \in TerminalStates THEN Goto(s, "teardown")
       ELSE IF Row(s).cancel THEN Read(s, "cancelLate")
       ELSE IF run[s].job \in NoGit THEN Goto(s, "teardown")
       ELSE Read(s, IF Row(s).state = "queued" THEN "toIngest" ELSE "toPlan")
    /\ StoreUnchanged
    /\ UNCHANGED <<listed, holder, latched, faults>>

(* The digest travels with the call that publishes the bundle. *)
MoveDigest(s) == IF run[s].pc \in {"toAwait", "toComplete", "toTimeOut"}
                 THEN run[s].digest ELSE NoDigest

MayMove(s) == MayMoveLeased(Row(s), ProcOf[s], run[s].gen, run[s].rev,
                            MoveTarget[run[s].pc], MoveDigest(s))

DoMove(s) == job' = [job EXCEPT ![run[s].job] =
                        Moved(@, MoveTarget[run[s].pc], MoveDigest(s))]

(* _move: committed and acknowledged; committed, but the connection fails   *)
(* before the answer; refused with StaleLease, StaleRevision or             *)
(* InvalidTransition.                                                       *)
Move(s) ==
    /\ run[s].pc \in DOMAIN MoveTarget
    /\ \/ /\ MayMove(s) /\ DoMove(s) /\ NoFault
          /\ run' = [run EXCEPT ![s].pc = AfterMove[@], ![s].rev = @ + 1]
       \/ MayMove(s) /\ DoMove(s) /\ Fault /\ Goto(s, OnError(run[s].pc))
       \/ ~MayMove(s) /\ UNCHANGED job /\ NoFault /\ Goto(s, OnError(run[s].pc))
    /\ UNCHANGED <<approvals, decided, evidence, listed, holder, latched>>

(* The reads after PLANNING, after EXECUTING and after agent.run: only the *)
(* last one also refreshes the revision.                                   *)
CheckCancel(s) ==
    /\ run[s].pc \in {"planned", "executed", "agent"}
    /\ IF Row(s).cancel THEN Read(s, "cancelTry")
       ELSE CASE run[s].pc = "planned" -> Goto(s, "toExecute")
              [] run[s].pc = "executed" -> Goto(s, "agent")
              [] run[s].pc = "agent" -> Read(s, "toTest")
    /\ StoreUnchanged
    /\ UNCHANGED <<listed, holder, latched, faults>>

(* The bundle is built and the lease renewed ... *)
Collect(s) ==
    /\ run[s].pc = "collect"
    /\ IF HoldsLease(Row(s), ProcOf[s], run[s].gen)
       THEN \E d \in Digests :
               run' = [run EXCEPT ![s].pc = "upload", ![s].digest = d]
       ELSE Goto(s, "handler")
    /\ StoreUnchanged
    /\ UNCHANGED <<listed, holder, latched, faults>>

(* Mutant: the row is moved on without storing the bundle. *)
UploadSkipped(s) ==
    /\ run[s].pc = "upload"
    /\ \E pc \in {"toAwait", "toComplete", "toTimeOut"} : Goto(s, pc)
    /\ StoreUnchanged
    /\ UNCHANGED <<listed, holder, latched, faults>>

(* ... and its files are put under owner/job/digest.  The lease is renewed   *)
(* before each file, so a run that lost it may stop short.                   *)
Upload(s) ==
    /\ run[s].pc = "upload"
    /\ \/ /\ evidence' = evidence \cup {<<run[s].job, run[s].digest>>}
          /\ \E pc \in {"toAwait", "toComplete", "toTimeOut"} : Goto(s, pc)
       \/ /\ ~HoldsLease(Row(s), ProcOf[s], run[s].gen)
          /\ Goto(s, "handler") /\ UNCHANGED evidence
    /\ UNCHANGED <<job, approvals, decided, listed, holder, latched, faults>>

(* append_event("approval_required"). *)
Announce(s) ==
    /\ run[s].pc = "announce"
    /\ Goto(s, "teardown")
    /\ StoreUnchanged
    /\ UNCHANGED <<listed, holder, latched, faults>>

(* except Exception: read the row and close the job. *)
Handler(s) ==
    /\ run[s].pc \in {"handler", "handlerLate"}
    /\ IF Row(s).state \in TerminalStates THEN Goto(s, "teardown")
       ELSE IF Row(s).cancel THEN Read(s, "cancelLate")
       ELSE Read(s, IF run[s].pc = "handlerLate" THEN "toExpire" ELSE "toFail")
    /\ StoreUnchanged
    /\ UNCHANGED <<listed, holder, latched, faults>>

(* Any store, model, sandbox or evidence call may raise. *)
RunError(s) ==
    /\ Fault
    /\ \/ run[s].pc \in InTry \cup OutOfTry /\ Goto(s, OnError(run[s].pc)) /\ UNCHANGED holder
       \/ run[s].pc = "agent" /\ Goto(s, "handlerLate") /\ UNCHANGED holder
       \/ run[s].pc \in Preparing \ {"load"} /\ Leave(s)
    /\ StoreUnchanged
    /\ UNCHANGED <<listed, latched>>

(* PromotionRecoveryRequired passes the handler and latches the process. *)
RecoveryRequired(s) ==
    /\ run[s].pc \in InTry
    /\ Fault
    /\ Goto(s, "teardown")
    /\ Latch(s)
    /\ StoreUnchanged
    /\ UNCHANGED <<listed, holder>>

(* execute_job's finally block, and the end of "with guard". *)
Teardown(s) ==
    /\ run[s].pc = "teardown"
    /\ Leave(s)
    /\ \/ UNCHANGED <<latched, faults>>
       \/ Fault /\ Latch(s)
    /\ StoreUnchanged
    /\ UNCHANGED listed

(* The done callbacks: release_claim, unless the store call raises. *)
Release(s) ==
    /\ run[s].pc = "releasing"
    /\ run' = [run EXCEPT ![s] = IdleRun]
    /\ \/ /\ job' = [job EXCEPT ![run[s].job] =
                        IF OwnsLease(@, ProcOf[s], run[s].gen) THEN Released(@) ELSE @]
          /\ NoFault
       \/ Fault /\ UNCHANGED job
    /\ UNCHANGED <<approvals, decided, evidence, listed, holder, latched>>

RunStep(s) == \/ Start(s) \/ Intake(s) \/ Ingest(s) \/ Load(s) \/ LoadFailed(s)
              \/ RecordFailure(s) \/ Begin(s) \/ Move(s) \/ CheckCancel(s)
              \/ Collect(s) \/ Upload(s) \/ Announce(s) \/ Handler(s)
              \/ Teardown(s) \/ Release(s)

-----------------------------------------------------------------------------
(* Time, and failures of whole processes. *)

(* A slot whose heartbeat thread is renewing the lease of job j, or has just *)
(* stopped doing so because the callback that gives it back is next.         *)
Attends(s, j) == /\ run[s].pc # "idle" /\ run[s].job = j
                 /\ OwnsLease(job[j], ProcOf[s], run[s].gen)

(* Without a heartbeat a lease runs out; with one it takes a failure (a    *)
(* stalled process, a store that cannot be reached for lease_seconds).     *)
LeaseLapses(j) ==
    /\ job[j].live
    /\ IF \E s \in Slots : Attends(s, j) THEN Fault ELSE NoFault
    /\ job' = [job EXCEPT ![j].live = FALSE]
    /\ UNCHANGED <<approvals, decided, evidence, listed, run, holder, latched>>

ProposalExpires(j) ==
    /\ job[j].fresh
    /\ job' = [job EXCEPT ![j].fresh = FALSE]
    /\ UNCHANGED <<approvals, decided, evidence, listed, run, holder, latched, faults>>

(* The process dies and starts again: its threads, latch and flock are gone, *)
(* the leases it held stay in the table.  Its new worker_id is new, but no   *)
(* slot keeps a lease taken before, so the process keeps its name.           *)
Crash(p) ==
    /\ Fault
    /\ run' = [s \in Slots |-> IF ProcOf[s] = p THEN IdleRun ELSE run[s]]
    /\ holder' = [r \in Roots |-> IF holder[r] # NoSlot /\ ProcOf[holder[r]] = p
                                  THEN NoSlot ELSE holder[r]]
    /\ listed' = [listed EXCEPT ![p] = NoJob]
    /\ latched' = [latched EXCEPT ![p] = FALSE]
    /\ StoreUnchanged

(* Nothing is left to do without the owner or an operator, or the bound on *)
(* claims stops a job that would be claimed again and again.                *)
Resting(j) == job[j].state \in TerminalStates \cup {"awaiting_approval"}

Rest == /\ \A s \in Slots : run[s].pc = "idle"
        /\ \/ \A j \in Jobs : Resting(j) \/ \A p \in Procs : latched[p]
           \/ \E j \in Jobs : job[j].gen = MaxClaims
        /\ UNCHANGED vars

Next == \/ Owner
        \/ Reconcile
        \/ \E p \in Procs : List(p) \/ ClaimLost(p) \/ \E s \in Slots : Claim(p, s)
        \/ \E s \in Slots : RunStep(s) \/ RunError(s) \/ RecoveryRequired(s)
        \/ \E j \in Jobs : LeaseLapses(j) \/ ProposalExpires(j)
        \/ \E p \in Procs : Crash(p)
        \/ Rest

Spec == Init /\ [][Next]_vars

(* Time passes, threads run and polls repeat; nothing obliges the owner to   *)
(* act, a failure to happen or a process to restart.                         *)
Fairness ==
    /\ WF_vars(Reconcile)
    /\ \A p \in Procs : /\ WF_vars(List(p))
                        /\ WF_vars(ClaimLost(p) \/ \E s \in Slots : Claim(p, s))
    /\ \A s \in Slots : WF_vars(RunStep(s))
    /\ \A j \in Jobs : /\ WF_vars(LeaseLapses(j) /\ NoFault)
                       /\ WF_vars(ProposalExpires(j))

FairSpec == Spec /\ Fairness

-----------------------------------------------------------------------------
(* The values the tables, the slots and the locks can take. *)
TypeOK == /\ job \in [Jobs -> Rows]
          /\ approvals \subseteq Approvals
          /\ decided \subseteq [op : Ops, key : Keys, job : Jobs]
          /\ evidence \subseteq Jobs \X (Digests \cup {NoDigest})
          /\ listed \in [Procs -> Jobs \cup {NoJob}]
          /\ run \in [Slots -> Runs]
          /\ \A s \in Slots : run[s].pc # "idle" => run[s].job \in Jobs
          /\ holder \in [Roots -> Slots \cup {NoSlot}]
          /\ latched \in [Procs -> BOOLEAN]
          /\ faults \in 0..MaxFaults

(* A slot whose next fenced store call on its job would pass the lease test. *)
Holding(s) == /\ run[s].pc # "idle"
              /\ HoldsLease(Row(s), ProcOf[s], run[s].gen)

(* Of all the runs of a job that exist at once (a stalled run, its          *)
(* replacement, a third after a crash) at most one passes the lease test of *)
(* renew_claim and transition_job.                                          *)
SingleWriter ==
    \A s, t \in Slots : Holding(s) /\ Holding(t) /\ s # t => run[s].job # run[t].job

(* Two runs never work in one work root at the same time, whichever         *)
(* processes they belong to (runtime_execution_lock).                       *)
ExclusiveExecution ==
    \A s, t \in Slots : /\ run[s].pc \in Inside /\ run[t].pc \in Inside
                        /\ Root(s) = Root(t)
                        => s = t

(* Once the owner's cancellation is recorded the job is never offered for   *)
(* approval, applied, rejected or completed, however the run's reads and    *)
(* moves interleave with the request.                                       *)
CancelHonoured ==
    \A j \in Jobs : job[j].cancel =>
        job[j].state \notin {"awaiting_approval", "applying", "rejected", "completed"}

(* The bundle of a recorded proposal is completely stored before the row    *)
(* names it, so the owner can always download what there is to approve.     *)
EvidenceBacked ==
    \A j \in Jobs : job[j].proposal # NoDigest => <<j, job[j].proposal>> \in evidence

Recorded(op, j) == \E d \in decided : d.op = op /\ d.job = j

(* A job being applied has one unspent approval, of exactly the proposal in *)
(* the row; a job whose approval is consumed was exported once, under an    *)
(* approval of that proposal which the owner gave and never took back; a    *)
(* job that is neither has spent no approval.                               *)
ApprovalBinds ==
    \A j \in Jobs :
        LET mine == {a \in approvals : a.job = j}
            bound(spent) == \E a \in mine : /\ mine = {a}
                                            /\ a.digest = job[j].proposal
                                            /\ a.consumed = spent
        IN /\ job[j].state = "applying" => bound(FALSE) /\ ~job[j].consumed
           /\ job[j].consumed => /\ bound(TRUE)
                                 /\ job[j].state = "completed"
                                 /\ Recorded("approve", j) /\ Recorded("export", j)
                                 /\ ~Recorded("reject", j) /\ ~Recorded("cancel", j)
           /\ ~job[j].consumed => \A a \in mine : ~a.consumed

(* A queued or running job is moved on, or closed, only by the run that     *)
(* holds its lease; everyone else can only send it back to the queue.       *)
FencedProgress ==
    [][\A j \in Jobs :
          /\ job[j].state \in PipelineStates \cup {"queued"}
          /\ job'[j].state \notin {job[j].state, "queued"}
          => \E s \in Slots : Holding(s) /\ run[s].job = j /\ run'[s] # run[s]]_vars

-----------------------------------------------------------------------------
(* What _job_json shows of a job. *)
View(j) == [state |-> job[j].state, revision |-> job[j].revision,
            proposal |-> job[j].proposal, consumed |-> job[j].consumed,
            cancel |-> job[j].cancel]

Contract(j) == INSTANCE JobContract WITH view <- View(j)

(* Whatever runs, requests, lapses and crashes happen, a reader of one job   *)
(* sees it take only the steps of JobContract, each with a new revision.     *)
(* This is \A j \in Jobs : Contract(j)!Spec with the quantifier inside.      *)
ImplementsContract == /\ \A j \in Jobs : Contract(j)!Init
                      /\ [][\A j \in Jobs : [Contract(j)!Next]_(View(j))]_vars

-----------------------------------------------------------------------------
AllLatched == \A p \in Procs : latched[p]

(* Jobs settle, whatever crashes, lapses and refusals happen: unless every   *)
(* process is latched, a queued job is finished or offered to the owner and  *)
(* a recorded cancellation of a queued or running job closes it; and an      *)
(* approved job does not wait for its export for ever.                       *)
JobsSettle ==
    \A j \in Jobs :
        /\ job[j].state = "queued" ~> Resting(j) \/ AllLatched
        /\ (job[j].cancel /\ job[j].state # "draft")
              ~> (job[j].state \in TerminalStates \/ AllLatched)
        /\ job[j].state = "applying" ~> job[j].state \in TerminalStates
=============================================================================
