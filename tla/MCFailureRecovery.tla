------------------------- MODULE MCFailureRecovery -------------------------
(* Instances of FailureRecovery for TLC. *)
EXTENDS FailureRecovery, TLC

Symmetry == Permutations(Deciders)

(* max_node_retries 2, max_full_replans 1, max_candidate_repairs 2, the rest at their defaults. *)
MCLimit == [a \in Actions |->
    CASE a \in {"retry_step", "repair_candidate"} -> 2
      [] a \in {"replan", "reroute_resource", "requalify_resource", "rollback"} -> 1
      [] a \in Refusals -> 0]

Failing(code) == [Signal(code, TRUE, FALSE) EXCEPT !.checks = {"lint", "unit"}]

At(attempt) ==
    [task |-> "t1", node |-> "n1", candidate |-> "c1", attempt |-> attempt,
     resource |-> "r1", approval |-> TRUE, newAuthority |-> FALSE]

Direct(signal, attempt) ==
    [signal |-> signal, context |-> At(attempt), resource |-> NoOne]

(* One failure met by successive attempts, that left the candidate half changed, and others the *)
(* policy tells apart: a stale source, a timeout, a provider with another resource at hand, and *)
(* two runs that settled, as the orchestrator's adapter reports them.                           *)
MCRequests ==
    {Direct([Failing("command_failed") EXCEPT !.partial = TRUE], a) : a \in 1..3}
    \cup {Direct([Failing("stale_source") EXCEPT !.partial = TRUE], 1),
          Direct(Failing("timeout"), 1),
          [Direct(Failing("provider_timeout"), 1) EXCEPT !.resource = [id |-> "r2", gates |-> TRUE]],
          Report("failed", "agent_round_limit", "t1", 1, TRUE),
          Report("failed", "agent_protocol_error", "t1", 1, FALSE)}

MCOutcomes ==
    {[status |-> "failed", progress |-> FALSE, verified |-> FALSE, checks |-> {"lint", "unit"},
      candidate |-> NoOne, resource |-> NoOne],
     [status |-> "failed", progress |-> FALSE, verified |-> FALSE, checks |-> {"unit"},
      candidate |-> NoOne, resource |-> NoOne],
     [status |-> "succeeded", progress |-> TRUE, verified |-> TRUE, checks |-> {},
      candidate |-> "c2", resource |-> "r2"]}
=============================================================================
