------------------------------ MODULE JobStore ------------------------------
(***************************************************************************)
(* One row of lil_tweak_jobs and the guards and effects of the store's     *)
(* operations on it: the state policy of core/lil_tweak/state.py and the   *)
(* MemoryJobStore contract of core/lil_tweak/store.py, which the           *)
(* PostgresJobStore transactions repeat.  The module has no variables; the *)
(* transactions that use these operators are actions of EngineeringCore.   *)
(*                                                                         *)
(* A lease is the triple <owner, gen, live>: "live" is the comparison      *)
(* lease_expires_at > now, so a renewal of a live lease leaves the row as  *)
(* it is and the passing of time is the step that clears "live".           *)
(* "fresh" is the same comparison for the proposal's expiresAt, which      *)
(* decide_job_idempotent copies into the approval's expires_at.            *)
(***************************************************************************)
EXTENDS Naturals, FiniteSets

CONSTANTS Procs,     \* core processes (worker_id)
          Digests,   \* proposal digests
          NoProc,    \* lease_owner IS NULL
          NoDigest   \* proposal_digest IS NULL

ASSUME NullsAssumption == /\ NoProc \notin Procs
                          /\ NoDigest \notin Digests

TerminalStates == {"completed", "rejected", "cancelled", "failed", "timed_out"}

(* "absent": no row for the idempotency key yet. *)
JobStates == {"absent", "draft", "queued", "ingesting", "planning", "executing",
              "testing", "collecting", "awaiting_approval", "applying"}
             \cup TerminalStates

(* Mutant: one state is missing from the list. *)
PipelineWithoutCollecting == {"ingesting", "planning", "executing", "testing"}

(* The states reconcile_active_jobs sends back to the queue. *)
PipelineStates == {"ingesting", "planning", "executing", "testing", "collecting"}

Rows == [state    : JobStates,
         revision : Nat,
         proposal : Digests \cup {NoDigest},
         consumed : BOOLEAN,
         cancel   : BOOLEAN,
         gen      : Nat,
         owner    : Procs \cup {NoProc},
         live     : BOOLEAN,
         fresh    : BOOLEAN]

NewRow == [state |-> "absent", revision |-> 0, proposal |-> NoDigest,
           consumed |-> FALSE, cancel |-> FALSE, gen |-> 0, owner |-> NoProc,
           live |-> FALSE, fresh |-> FALSE]

-----------------------------------------------------------------------------
(* state.py: the edges of _FORWARD, and the exceptional targets. *)

Forward ==
    {<<"draft", "queued">>, <<"queued", "ingesting">>, <<"ingesting", "planning">>,
     <<"planning", "executing">>, <<"executing", "testing">>,
     <<"executing", "collecting">>, <<"testing", "collecting">>,
     <<"collecting", "awaiting_approval">>, <<"collecting", "completed">>,
     <<"awaiting_approval", "applying">>, <<"awaiting_approval", "rejected">>,
     <<"applying", "completed">>}

Exceptional == {"cancelled", "failed", "timed_out"}

(* transition(): "digest" is the proposal_digest argument; an approval is    *)
(* required to reach "applying", which transition_job never supplies.        *)
MayTransition(from, to, digest) ==
    /\ from \notin TerminalStates \cup {"absent"}
    /\ <<from, to>> \in Forward \/ to \in Exceptional
    /\ to = "awaiting_approval" => digest # NoDigest

-----------------------------------------------------------------------------
(* Leases. *)

Claimable(row) == /\ row.state \notin TerminalStates \cup {"absent", "awaiting_approval"}
                  /\ ~row.live

(* Mutant: a claim does not raise lease_generation. *)
ClaimedSameGeneration(row, p) == [row EXCEPT !.owner = p, !.live = TRUE]

Claimed(row, p) == [row EXCEPT !.gen = @ + 1, !.owner = p, !.live = TRUE]

OwnsLease(row, p, gen) == row.owner = p /\ row.gen = gen

HoldsLease(row, p, gen) == OwnsLease(row, p, gen) /\ row.live

Released(row) == [row EXCEPT !.owner = NoProc, !.live = FALSE]

Schedulable(row) == row.state = "queued" /\ ~row.live

-----------------------------------------------------------------------------
(* transition_job / update_job: the fenced compare-and-set of a state. *)

Moved(row, to, digest) ==
    [row EXCEPT !.state = to, !.revision = @ + 1,
                !.proposal = IF digest = NoDigest THEN @ ELSE digest,
                !.fresh = @ \/ to = "awaiting_approval"]

(* Mutant: only the revision is compared, not the lease. *)
MayMoveUnfenced(row, p, gen, rev, to, digest) ==
    /\ row.revision = rev
    /\ MayTransition(row.state, to, digest)
    /\ to # "applying"

MayMoveLeased(row, p, gen, rev, to, digest) ==
    /\ row.revision = rev
    /\ HoldsLease(row, p, gen)
    /\ MayTransition(row.state, to, digest)
    /\ to # "applying"

MayMoveUnleased(row, rev, to, digest) ==
    /\ row.revision = rev
    /\ ~row.live
    /\ MayTransition(row.state, to, digest)
    /\ to # "applying"

-----------------------------------------------------------------------------
(* reconcile_active_jobs, for one selected row.  "spent" and "valid" are what *)
(* the LEFT JOIN with lil_tweak_approvals finds: a consumed approval, and an  *)
(* unconsumed one that has not expired.                                       *)

Reconcilable(row, valid) ==
    /\ row.state \in PipelineStates \cup {"applying"}
    /\ ~row.live
    /\ row.state = "applying" => row.consumed \/ ~valid

ReconcileTarget(row, spent) ==
    IF row.state # "applying" THEN "queued"
    ELSE IF row.consumed /\ spent THEN "completed" ELSE "timed_out"

Reconciled(row, spent) ==
    [Released(row) EXCEPT !.state = ReconcileTarget(row, spent), !.revision = @ + 1]

-----------------------------------------------------------------------------
(* Owner requests. *)

MayCancel(row, rev) == row.revision = rev /\ MayTransition(row.state, "cancelled", NoDigest)

(* Mutant: the revision stays, so a run does not notice the request. *)
CancelledSameRevision(row) ==
    [row EXCEPT !.cancel = TRUE,
                !.state = IF @ \in {"awaiting_approval", "applying"} THEN "cancelled" ELSE @]

(* Mutant: a state name outside the table's CHECK constraint. *)
CancelledMisspelt(row) ==
    [row EXCEPT !.cancel = TRUE, !.revision = @ + 1,
                !.state = IF @ \in {"awaiting_approval", "applying"} THEN "canceled" ELSE @]

Cancelled(row) ==
    [row EXCEPT !.cancel = TRUE, !.revision = @ + 1,
                !.state = IF @ \in {"awaiting_approval", "applying"} THEN "cancelled" ELSE @]

(* Mutant: the digest the owner names is not compared with the row's. *)
MayDecideAnyDigest(row, rev, digest) ==
    row.state = "awaiting_approval" /\ row.revision = rev

MayDecide(row, rev, digest) ==
    /\ row.state = "awaiting_approval"
    /\ row.revision = rev
    /\ row.proposal = digest

Rejected(row) == [row EXCEPT !.state = "rejected", !.revision = @ + 1]

Approved(row) == [row EXCEPT !.state = "applying", !.revision = @ + 1, !.consumed = FALSE]

MayExport(row, rev, digest) ==
    /\ row.state = "applying"
    /\ row.revision = rev
    /\ row.proposal = digest
    /\ ~row.consumed

Exported(row) == [row EXCEPT !.state = "completed", !.revision = @ + 1, !.consumed = TRUE]
=============================================================================
