--------------------------- MODULE FailureRecovery ---------------------------
(***************************************************************************)
(* The failure recovery engine (failure_recovery/): a controller turns a   *)
(* failure signal and the context it happened in into one decision, bound  *)
(* to both, and appends it to the owner's history; later the outcome of    *)
(* the recovery is appended to the same history.  The engine only decides: *)
(* nothing here executes a retry.                                          *)
(*                                                                         *)
(* Several deciders share one history: runs of one task under successive   *)
(* leases, threads, processes on one SQLite file.  decide reads the        *)
(* history, applies the policy and then appends; the store locks each of   *)
(* the two calls, not both together, so they are two steps.                *)
(*                                                                         *)
(* The history is that of one owner: entries are selected by owner before  *)
(* anything else is looked at.  A digest is the record it is computed      *)
(* from; the plan digest is treated like the candidate's and is not kept   *)
(* apart.  Failure class and disposition are functions of code and action  *)
(* and are left out.                                                       *)
(***************************************************************************)
EXTENDS Naturals, Sequences, FiniteSets

CONSTANTS Deciders,        \* concurrent callers of decide
          Requests,        \* failures that may be reported: signal, context, resource
          Outcomes,        \* outcomes a caller may report
          NoOne,           \* no resource, no digest
          MaxFingerprint,  \* RecoveryBudgets.max_fingerprint_retries
          Limit,           \* RecoveryBudgets.limit_for
          MaxHistory       \* bound: entries of the history

(* FailureCode, by what the classifier does with it. *)
IntegrityCodes == {"repository_integrity_failure", "recovery_evidence_invalid"}

SecurityCodes == {"security_check_failure", "false_completion_claim", "lease_replayed",
                  "provider_auth_failure"}

FinalCodes == {"cancellation", "rollback_failed", "repair_budget_exhausted", "repair_repeated",
               "recovery_strategy_invalid", "recovery_strategy_no_progress"}

ApprovalCodes == {"missing_approval", "stale_approval", "provider_cost_gate"}

StaleCodes == {"stale_source", "source_changed", "stale_contract", "conflicting_contract",
               "plan_contract_violation"}

PlanCodes == {"plan_incomplete", "plan_invalid", "plan_scope_excessive", "plan_critic_failure",
              "mapper_incomplete", "dependency_uncertain"}

CandidateCodes == {"test_failure", "lint_failure", "format_failure", "typecheck_failure",
                   "build_failure", "deterministic_verification_failure",
                   "independent_verification_failure", "command_failed"}

ResourceCodes == {"runner_unavailable", "provider_unhealthy", "provider_timeout",
                  "provider_capacity_exhausted", "resource_exhaustion", "control_plane_failure"}

LeaseCodes == {"lease_expired", "lease_rejected"}

TransientCodes == {"timeout", "process_crash", "sandbox_failure", "repository_unavailable"}

Actions == {"retry_step", "replan", "repair_candidate", "rollback", "reroute_resource",
            "requalify_resource", "escalate", "block"}

Refusals == {"escalate", "block"}

NeedApproval == {"repair_candidate", "rollback", "reroute_resource", "requalify_resource"}

ASSUME RecoveryAssumption ==
    /\ IsFiniteSet(Deciders)
    /\ Deciders # {}
    /\ MaxFingerprint \in Nat
    /\ Limit \in [Actions -> Nat]
    /\ MaxHistory \in Nat
    /\ \A r \in Requests : r.resource # NoOne => r.resource.id # NoOne
    /\ \A o \in Outcomes : o.status \in {"pending", "succeeded", "failed", "blocked"}

VARIABLES history,  \* entries of recovery_history, by sequence
          pending   \* what each decider has decided and not yet appended

vars == <<history, pending>>

Nothing == [decided |-> FALSE]

-----------------------------------------------------------------------------
(* FailureClassifier.classify                                              *)

Class(action, reauthorize, freshLease, prohibited) ==
    [action |-> action, reauthorize |-> reauthorize, freshLease |-> freshLease,
     prohibited |-> prohibited]

Blocked == Class("block", FALSE, FALSE, TRUE)

ByCode(code) ==
    CASE code = "wrong_digest_binding" -> Class("block", TRUE, FALSE, TRUE)
      [] code \in ApprovalCodes \cup StaleCodes -> Class("escalate", TRUE, FALSE, FALSE)
      [] code \in PlanCodes -> Class("replan", FALSE, FALSE, FALSE)
      [] code \in CandidateCodes -> Class("repair_candidate", FALSE, FALSE, FALSE)
      [] code = "runner_unqualified" -> Class("requalify_resource", FALSE, TRUE, FALSE)
      [] code \in ResourceCodes -> Class("reroute_resource", FALSE, TRUE, FALSE)
      [] code \in LeaseCodes -> Class("block", FALSE, TRUE, TRUE)
      [] code \in TransientCodes -> Class("retry_step", FALSE, FALSE, FALSE)
      [] code = "cleanup_failure" -> Class("rollback", FALSE, FALSE, FALSE)
      [] OTHER -> Blocked   \* integrity, security and final codes, and unknown ones

Classify(signal) ==
    IF \/ signal.integrity \/ signal.security
       \/ signal.code \in TransientCodes /\ ~signal.transient
    THEN Blocked
    ELSE ByCode(signal.code)

(* failure_fingerprint: neither the attempt nor its lease is part of it. *)
Fingerprint(signal, context) ==
    [signal |-> signal, task |-> context.task, node |-> context.node,
     candidate |-> context.candidate, resource |-> context.resource]

-----------------------------------------------------------------------------
(* RecoveryPolicy.decide                                                   *)

Refuse(action, reason) ==
    [action |-> action, allowed |-> FALSE, reauthorize |-> action = "escalate",
     freshLease |-> reason = "resource", reason |-> reason]

(* Mutant: a refusal of the classifier comes out as allowed. *)
BaseAllowed(signal) ==
    LET c == Classify(signal)
    IN  [action |-> c.action, allowed |-> TRUE,
         reauthorize |-> c.reauthorize, freshLease |-> c.freshLease, reason |-> "code"]

(* Mutant: a partial mutation is rolled back whatever the failure was. *)
BaseRollback(signal) ==
    LET c == Classify(signal)
    IN  IF signal.partial
        THEN [action |-> "rollback", allowed |-> TRUE, reauthorize |-> FALSE,
              freshLease |-> FALSE, reason |-> "partial_mutation"]
        ELSE [action |-> c.action, allowed |-> c.action \notin Refusals,
              reauthorize |-> c.reauthorize, freshLease |-> c.freshLease, reason |-> "code"]

(* A partial mutation is rolled back, unless the authority to do so is in doubt. *)
Base(signal) ==
    LET c == Classify(signal)
    IN  IF signal.partial /\ ~c.prohibited /\ ~c.reauthorize /\ c.action \notin Refusals
        THEN [action |-> "rollback", allowed |-> TRUE, reauthorize |-> FALSE,
              freshLease |-> FALSE, reason |-> "partial_mutation"]
        ELSE [action |-> c.action, allowed |-> c.action \notin Refusals,
              reauthorize |-> c.reauthorize, freshLease |-> c.freshLease, reason |-> "code"]

(* _validate_resource: another resource that passed every gate. *)
Usable(resource, context) ==
    /\ resource # NoOne
    /\ resource.id # context.resource
    /\ resource.gates

Decisions(h) == {i \in DOMAIN h : h[i].status = "decision"}

Reported(h) == {i \in DOMAIN h : h[i].status # "decision"}

(* The last outcome for the fingerprint came from this action, failed and moved nothing. *)
NoProgress(h, fingerprint, action) ==
    \E i \in Reported(h) :
        /\ h[i].decision.fingerprint = fingerprint
        /\ \A k \in Reported(h) : h[k].decision.fingerprint = fingerprint => k <= i
        /\ h[i].decision.action = action
        /\ h[i].status = "failed"
        /\ ~h[i].progress

(* A fingerprint's decisions count whatever they decided. *)
Repeated(h, fingerprint) == {i \in Decisions(h) : h[i].decision.fingerprint = fingerprint}

(* Retries are counted for the node, everything else for the task. *)
Spent(h, context, action) ==
    {i \in Decisions(h) :
        /\ h[i].decision.task = context.task
        /\ h[i].decision.action = action
        /\ action = "retry_step" => h[i].decision.node = context.node}

Granted(h, fingerprint) == {i \in Repeated(h, fingerprint) : h[i].decision.allowed}

(* Mutant: only what was allowed counts against a fingerprint. *)
FingerprintGranted(h, fingerprint) == Cardinality(Granted(h, fingerprint)) >= MaxFingerprint

FingerprintSpent(h, fingerprint) == Cardinality(Repeated(h, fingerprint)) >= MaxFingerprint

(* Mutant: off by one. *)
ActionOverspent(h, context, action) == Cardinality(Spent(h, context, action)) > Limit[action]

ActionSpent(h, context, action) == Cardinality(Spent(h, context, action)) >= Limit[action]

Policy(request, h) ==
    LET signal == request.signal
        context == request.context
        base == Base(signal)
        fingerprint == Fingerprint(signal, context)
    IN  CASE context.newAuthority -> Refuse("escalate", "new_authority")
          [] /\ ~context.newAuthority
             /\ ~context.approval /\ base.action \in NeedApproval
                -> Refuse("escalate", "approval")
          [] /\ ~context.newAuthority
             /\ context.approval \/ base.action \notin NeedApproval
                -> CASE /\ base.action = "reroute_resource"
                        /\ ~Usable(request.resource, context) -> Refuse("block", "resource")
                     [] base.action \in Refusals -> base
                     [] /\ base.action \notin Refusals
                        /\ base.action = "reroute_resource" => Usable(request.resource, context)
                           -> IF NoProgress(h, fingerprint, base.action)
                              THEN Refuse("block", "no_progress")
                              ELSE IF FingerprintSpent(h, fingerprint)
                              THEN Refuse("block", "fingerprint_budget")
                              ELSE IF ActionSpent(h, context, base.action)
                              THEN Refuse("block", "action_budget")
                              ELSE base

(* RecoveryDecision: the policy's answer with everything it is bound to. *)
Decision(request, h) ==
    LET p == Policy(request, h)
    IN  [task |-> request.context.task, node |-> request.context.node,
         candidate |-> request.context.candidate, resource |-> request.context.resource,
         attempt |-> request.context.attempt, code |-> request.signal.code,
         fingerprint |-> Fingerprint(request.signal, request.context),
         action |-> p.action, allowed |-> p.allowed, reauthorize |-> p.reauthorize,
         freshLease |-> p.freshLease, reason |-> p.reason,
         target |-> IF p.allowed /\ p.action = "reroute_resource"
                    THEN request.resource.id ELSE NoOne]

-----------------------------------------------------------------------------
(* RecoveryAwareEngineeringOrchestrator: what it reports once a run has settled. *)

(* signal_from_exception, with _EXCEPTION_CODES. *)
Signal(code, transient, integrity) ==
    [code |-> code, transient |-> transient, partial |-> FALSE, integrity |-> integrity,
     security |-> FALSE, checks |-> {}]

SignalFromException(error) ==
    CASE error \in {"agent_deadline_exceeded", "TimeoutError"} -> Signal("timeout", TRUE, FALSE)
      [] error \in {"agent_round_limit", "agent_tool_capacity"} ->
            Signal("resource_exhaustion", FALSE, FALSE)
      [] error = "agent_protocol_error" -> Signal("command_failed", FALSE, FALSE)
      [] error = "admission_unavailable" -> Signal("runner_unavailable", TRUE, FALSE)
      [] error = "stale_lease" -> Signal("lease_rejected", FALSE, FALSE)
      [] error = "patch_reconciliation_required" ->
            Signal("recovery_evidence_invalid", FALSE, TRUE)
      [] OTHER -> Signal("unknown_failure", FALSE, FALSE)

(* run_job: the agent's error, or what the settled state alone says. *)
Settled(state, error) ==
    CASE error # NoOne -> SignalFromException(error)
      [] error = NoOne /\ state = "timed_out" ->
            [Signal("timeout", TRUE, FALSE) EXCEPT !.checks = {"command_timeout"}]
      [] error = NoOne /\ state = "failed" -> Signal("unknown_failure", FALSE, FALSE)

(* _context: the attempt is the lease generation; no other resource is offered. *)
Report(state, error, job, generation, approvalConsumed) ==
    [signal |-> Settled(state, error),
     context |-> [task |-> job, node |-> "executing", candidate |-> NoOne, attempt |-> generation,
                  resource |-> "current-runner", approval |-> approvalConsumed,
                  newAuthority |-> FALSE],
     resource |-> NoOne]

-----------------------------------------------------------------------------
(* FailureRecoveryController                                               *)

Init ==
    /\ history = <<>>
    /\ pending = [d \in Deciders |-> Nothing]

(* decide, up to the decision: the history is read once. *)
Decide(d, request) ==
    /\ ~pending[d].decided
    /\ pending' = [pending EXCEPT ![d] = [decided |-> TRUE, request |-> request,
                                          decision |-> Decision(request, history)]]
    /\ UNCHANGED history

Issued(h, decision) == \E i \in Decisions(h) : h[i].decision = decision

HasOutcome(h, decision) == \E i \in Reported(h) : h[i].decision = decision

(* append_decision: one that is already there is refused. *)
Persist(d) ==
    /\ pending[d].decided
    /\ LET decision == pending[d].decision
       IN  IF Issued(history, decision) THEN UNCHANGED history
           ELSE /\ Len(history) < MaxHistory
                /\ history' = Append(history,
                       [decision |-> decision, status |-> "decision", progress |-> FALSE,
                        checks |-> pending[d].request.signal.checks, candidate |-> NoOne, resource |-> NoOne])
    /\ pending' = [pending EXCEPT ![d] = Nothing]

(* The caller is gone between the two: nothing was decided. *)
Abandon(d) ==
    /\ pending[d].decided
    /\ pending' = [pending EXCEPT ![d] = Nothing]
    /\ UNCHANGED history

(* RecoveryOutcome: success is claimed with progress and an independent verification. *)
WellFormed(outcome) ==
    outcome.status = "succeeded" => outcome.progress /\ outcome.verified

(* The outcome names the resource that was authorised, or none. *)
OnAuthorisedResource(decision, outcome) ==
    IF decision.target = NoOne
    THEN outcome.resource \in {NoOne, decision.resource}
    ELSE /\ outcome.resource \in {NoOne, decision.target}
         /\ outcome.status = "succeeded" => outcome.resource = decision.target

(* _normalize_progress: what moved since the decision. *)
Moved(entry, outcome) ==
    \/ outcome.checks # {} /\ outcome.checks \subseteq entry.checks /\ outcome.checks # entry.checks
    \/ outcome.candidate # NoOne /\ outcome.candidate # entry.decision.candidate
    \/ entry.decision.target # NoOne /\ outcome.resource = entry.decision.target

(* record_outcome for the decision at i, by whoever holds it. *)
RecordOutcome(i, outcome) ==
    /\ i \in Decisions(history)
    /\ LET entry == history[i]
       IN  /\ WellFormed(outcome)
           /\ OnAuthorisedResource(entry.decision, outcome)
           /\ outcome.status # "succeeded" /\ outcome.progress => Moved(entry, outcome)
           /\ ~HasOutcome(history, entry.decision)
           /\ Len(history) < MaxHistory
           /\ history' = Append(history,
                  [decision |-> entry.decision, status |-> outcome.status,
                   progress |-> outcome.progress \/ Moved(entry, outcome),
                   checks |-> outcome.checks, candidate |-> outcome.candidate,
                   resource |-> outcome.resource])
    /\ UNCHANGED pending

Next ==
    \/ \E d \in Deciders : (\E r \in Requests : Decide(d, r)) \/ Persist(d) \/ Abandon(d)
    \/ \E i \in DOMAIN history, o \in Outcomes : RecordOutcome(i, o)

Spec == Init /\ [][Next]_vars

-----------------------------------------------------------------------------
(* Every entry is a decision or an outcome of an earlier one, and pending   *)
(* decisions are well formed (RecoveryHistoryEntry, RecoveryDecision).      *)
TypeOK ==
    /\ Len(history) <= MaxHistory
    /\ \A i \in DOMAIN history :
          /\ history[i].status \in {"decision", "pending", "succeeded", "failed", "blocked"}
          /\ history[i].decision.action \in Actions
          /\ history[i].decision.allowed <=> history[i].decision.action \notin Refusals
          /\ history[i].status # "decision" =>
                \E k \in 1..(i - 1) :
                    history[k].status = "decision" /\ history[k].decision = history[i].decision
    /\ \A d \in Deciders : pending[d].decided =>
          /\ pending[d].request \in Requests
          /\ (pending[d].decision.target # NoOne) <=>
                (pending[d].decision.action = "reroute_resource")

(* The precedence rules of the design, on whatever combination of code,     *)
(* flags, approval and offered resource the classifier and the policy meet: *)
(* an allowed recovery never comes from an integrity or security failure, a *)
(* failure that is final or needs authority renewed, or past an approval    *)
(* that is missing; after a partial mutation it is a rollback; a reroute    *)
(* goes to another resource that passed every gate, under a fresh lease.    *)
AuthorityHeld ==
    \A d \in Deciders : pending[d].decided /\ pending[d].decision.allowed =>
        LET signal == pending[d].request.signal
            context == pending[d].request.context
            decision == pending[d].decision
        IN  /\ ~signal.integrity /\ ~signal.security /\ ~context.newAuthority
            /\ signal.code \notin IntegrityCodes \cup SecurityCodes \cup FinalCodes
                                    \cup ApprovalCodes \cup StaleCodes \cup LeaseCodes
                                    \cup {"wrong_digest_binding", "unknown_failure"}
            /\ ~decision.reauthorize
            /\ context.approval \/ decision.action \in {"retry_step", "replan"}
            /\ signal.partial => decision.action = "rollback"
            /\ decision.action = "retry_step" => signal.transient
            /\ decision.action = "reroute_resource" =>
                  /\ pending[d].request.resource.gates
                  /\ decision.target = pending[d].request.resource.id
                  /\ decision.target \notin {decision.resource, NoOne}
                  /\ decision.freshLease

(* What the budgets guarantee when deciders share a history: a budget is     *)
(* overdrawn by at most the decisions the other deciders were holding when   *)
(* it ran out (decide reads the history before it appends to it).  The       *)
(* design's budgets have no such slack; they hold with one decider only.     *)
RaceBounded ==
    \A i \in Decisions(history) : history[i].decision.allowed =>
        LET decision == history[i].decision
            slack == Cardinality(Deciders) - 1
        IN  /\ Cardinality(Granted(history, decision.fingerprint)) <= MaxFingerprint + slack
            /\ Cardinality(Spent(history, decision, decision.action))
                  <= Limit[decision.action] + slack

(* A strategy that failed for a failure without progress is never granted    *)
(* for it again, even when the outcome of another decision on the same       *)
(* failure was recorded since and is now the latest one.                     *)
NoProgressStops ==
    [][\A d \in Deciders :
        ~pending[d].decided /\ pending'[d].decided /\ pending'[d].decision.allowed =>
            ~\E i \in Reported(history) :
                /\ history[i].decision.fingerprint = pending'[d].decision.fingerprint
                /\ history[i].decision.action = pending'[d].decision.action
                /\ history[i].status = "failed" /\ ~history[i].progress]_vars
=============================================================================
