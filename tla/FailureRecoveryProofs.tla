----------------------- MODULE FailureRecoveryProofs -----------------------
(***************************************************************************)
(* Proofs about FailureRecovery, for any deciders, failures, outcomes,     *)
(* budgets and length of the history.                                      *)
(***************************************************************************)
EXTENDS FailureRecovery, FiniteSetTheorems, TLAPS

-----------------------------------------------------------------------------
(* What the classifier and the policy never allow.                         *)

(* The failures the design's first precedence rule excludes from recovery. *)
Barred == IntegrityCodes \cup SecurityCodes \cup FinalCodes \cup ApprovalCodes \cup StaleCodes
          \cup LeaseCodes \cup {"wrong_digest_binding", "unknown_failure"}

LEMMA CodeOfAllowed ==
    ASSUME NEW code, ByCode(code).action \notin Refusals
    PROVE  /\ code \notin Barred
           /\ ~ByCode(code).reauthorize /\ ~ByCode(code).prohibited
           /\ ByCode(code).action = "retry_step" => code \in TransientCodes
           /\ ByCode(code).action = "reroute_resource" => ByCode(code).freshLease
  <1> USE DEF Blocked, Class, Refusals
  <1>1. CASE code = "wrong_digest_binding"
    BY <1>1 DEF ByCode, PlanCodes, CandidateCodes, ResourceCodes, TransientCodes, ApprovalCodes,
                StaleCodes, LeaseCodes
  <1>2. CASE code \in ApprovalCodes \cup StaleCodes
    BY <1>2 DEF ByCode, PlanCodes, CandidateCodes, ResourceCodes, TransientCodes, ApprovalCodes,
                StaleCodes, LeaseCodes
  <1>3. CASE code \in PlanCodes
    BY <1>3 DEF ByCode, PlanCodes, ApprovalCodes, StaleCodes, IntegrityCodes, SecurityCodes,
                FinalCodes, LeaseCodes, Barred
  <1>4. CASE code \in CandidateCodes
    BY <1>4 DEF ByCode, PlanCodes, CandidateCodes, ApprovalCodes, StaleCodes, IntegrityCodes,
                SecurityCodes, FinalCodes, LeaseCodes, Barred
  <1>5. CASE code = "runner_unqualified"
    BY <1>5 DEF ByCode, PlanCodes, CandidateCodes, ApprovalCodes, StaleCodes, IntegrityCodes,
                SecurityCodes, FinalCodes, LeaseCodes, Barred
  <1>6. CASE code \in ResourceCodes
    BY <1>6 DEF ByCode, PlanCodes, CandidateCodes, ResourceCodes, ApprovalCodes, StaleCodes,
                IntegrityCodes, SecurityCodes, FinalCodes, LeaseCodes, Barred
  <1>7. CASE code \in LeaseCodes
    BY <1>7 DEF ByCode, PlanCodes, CandidateCodes, ResourceCodes, TransientCodes, ApprovalCodes,
                StaleCodes, LeaseCodes
  <1>8. CASE code \in TransientCodes
    BY <1>8 DEF ByCode, PlanCodes, CandidateCodes, ResourceCodes, TransientCodes, ApprovalCodes,
                StaleCodes, IntegrityCodes, SecurityCodes, FinalCodes, LeaseCodes, Barred
  <1>9. CASE code = "cleanup_failure"
    BY <1>9 DEF ByCode, PlanCodes, CandidateCodes, ResourceCodes, TransientCodes, ApprovalCodes,
                StaleCodes, IntegrityCodes, SecurityCodes, FinalCodes, LeaseCodes, Barred
  <1>10. CASE /\ code \notin {"wrong_digest_binding", "runner_unqualified", "cleanup_failure"}
              /\ code \notin ApprovalCodes \cup StaleCodes \cup PlanCodes \cup CandidateCodes
                             \cup ResourceCodes \cup LeaseCodes \cup TransientCodes
    BY <1>10 DEF ByCode
  <1> QED BY <1>1, <1>2, <1>3, <1>4, <1>5, <1>6, <1>7, <1>8, <1>9, <1>10

LEMMA BaseOfAllowed ==
    ASSUME NEW signal, Base(signal).action \notin Refusals
    PROVE  /\ ~signal.integrity /\ ~signal.security
           /\ signal.code \notin Barred
           /\ Base(signal).allowed /\ ~Base(signal).reauthorize
           /\ signal.partial => Base(signal).action = "rollback"
           /\ Base(signal).action = "retry_step" => signal.transient
           /\ Base(signal).action = "reroute_resource" => Base(signal).freshLease
  <1>1. Classify(signal).action \notin Refusals
    BY DEF Base
  <1>2. /\ ~signal.integrity /\ ~signal.security
        /\ signal.code \in TransientCodes => signal.transient
        /\ Classify(signal) = ByCode(signal.code)
    BY <1>1 DEF Classify, Blocked, Class, Refusals
  <1>3. /\ signal.code \notin Barred
        /\ ~Classify(signal).reauthorize /\ ~Classify(signal).prohibited
        /\ Classify(signal).action = "retry_step" => signal.transient
        /\ Classify(signal).action = "reroute_resource" => Classify(signal).freshLease
    BY <1>1, <1>2, CodeOfAllowed
  <1> QED BY <1>1, <1>2, <1>3 DEF Base

(* Only the answer the classifier and the partial-mutation rule give can be allowed, past the *)
(* checks on authority, resource and budgets.                                                 *)
LEMMA PolicyAllows ==
    ASSUME NEW request, NEW h, Policy(request, h).allowed
    PROVE  /\ Policy(request, h) = Base(request.signal)
           /\ Base(request.signal).action \notin Refusals
           /\ ~request.context.newAuthority
           /\ request.context.approval \/ Base(request.signal).action \notin NeedApproval
           /\ Base(request.signal).action = "reroute_resource" =>
                 Usable(request.resource, request.context)
           /\ ~FingerprintSpent(h, Fingerprint(request.signal, request.context))
           /\ ~ActionSpent(h, request.context, Base(request.signal).action)
  <1> DEFINE base == Base(request.signal)
  <1>1. \A a, r : ~Refuse(a, r).allowed
    BY DEF Refuse
  <1>2. base.action \in Refusals => ~base.allowed
    BY DEF Base, Refusals
  <1>3. ~request.context.newAuthority
    BY <1>1 DEF Policy
  <1>4. request.context.approval \/ base.action \notin NeedApproval
    BY <1>1, <1>3 DEF Policy
  <1>5. base.action = "reroute_resource" => Usable(request.resource, request.context)
    BY <1>1, <1>3, <1>4 DEF Policy, Refusals
  <1>6. base.action \notin Refusals
    BY <1>2, <1>3, <1>4, <1>5 DEF Policy, Refusals
  <1> QED BY <1>1, <1>3, <1>4, <1>5, <1>6 DEF Policy

-----------------------------------------------------------------------------
(* What one decider holds.                                                 *)

PendingOK == pending = [d \in Deciders |-> pending[d]]

Held(d) ==
    pending[d].decided /\ pending[d].decision.allowed =>
        LET signal == pending[d].request.signal
            context == pending[d].request.context
            decision == pending[d].decision
        IN  /\ ~signal.integrity /\ ~signal.security /\ ~context.newAuthority
            /\ signal.code \notin Barred
            /\ ~decision.reauthorize
            /\ context.approval \/ decision.action \in {"retry_step", "replan"}
            /\ signal.partial => decision.action = "rollback"
            /\ decision.action = "retry_step" => signal.transient
            /\ decision.action = "reroute_resource" =>
                  /\ pending[d].request.resource.gates
                  /\ decision.target = pending[d].request.resource.id
                  /\ decision.target \notin {decision.resource, NoOne}
                  /\ decision.freshLease

LEMMA DecidesHeld ==
    ASSUME PendingOK, NEW d \in Deciders, NEW request \in Requests, Decide(d, request)
    PROVE  PendingOK' /\ Held(d)' /\ \A e \in Deciders \ {d} : pending'[e] = pending[e]
  <1> DEFINE decision == Decision(request, history)
             base == Base(request.signal)
  <1>1. /\ pending'[d].request = request /\ pending'[d].decision = decision
        /\ PendingOK' /\ \A e \in Deciders \ {d} : pending'[e] = pending[e]
    BY DEF Decide, PendingOK
  <1>2. ASSUME decision.allowed
        PROVE  /\ ~request.signal.integrity /\ ~request.signal.security
               /\ ~request.context.newAuthority
               /\ request.signal.code \notin Barred
               /\ ~decision.reauthorize
               /\ request.context.approval \/ decision.action \in {"retry_step", "replan"}
               /\ request.signal.partial => decision.action = "rollback"
               /\ decision.action = "retry_step" => request.signal.transient
               /\ decision.action = "reroute_resource" =>
                     /\ request.resource.gates
                     /\ decision.target = request.resource.id
                     /\ decision.target \notin {decision.resource, NoOne}
                     /\ decision.freshLease
    <2>1. Policy(request, history).allowed
      BY <1>2 DEF Decision
    <2>2. /\ Policy(request, history) = base
          /\ base.action \notin Refusals
          /\ ~request.context.newAuthority
          /\ request.context.approval \/ base.action \notin NeedApproval
          /\ base.action = "reroute_resource" => Usable(request.resource, request.context)
      BY <2>1, PolicyAllows
    <2>3. /\ ~request.signal.integrity /\ ~request.signal.security
          /\ request.signal.code \notin Barred
          /\ ~base.reauthorize
          /\ request.signal.partial => base.action = "rollback"
          /\ base.action = "retry_step" => request.signal.transient
          /\ base.action = "reroute_resource" => base.freshLease
      BY <2>2, BaseOfAllowed
    <2>4. /\ decision.action = base.action /\ decision.reauthorize = base.reauthorize
          /\ decision.freshLease = base.freshLease
          /\ decision.resource = request.context.resource
          /\ base.action = "reroute_resource" => decision.target = request.resource.id
      BY <2>1, <2>2 DEF Decision
    <2>5. base.action = "reroute_resource" =>
             /\ request.resource.gates
             /\ request.resource.id \notin {request.context.resource, NoOne}
      BY <2>2, RecoveryAssumption DEF Usable
    <2>6. base.action \in Actions
      BY DEF Base, Classify, ByCode, Blocked, Class, Actions
    <2>7. base.action \notin NeedApproval => base.action \in {"retry_step", "replan"}
      BY <2>2, <2>6 DEF Actions, NeedApproval, Refusals
    <2> HIDE DEF decision, base
    <2> QED BY <2>2, <2>3, <2>4, <2>5, <2>7
  <1> HIDE DEF decision
  <1> QED BY <1>1, <1>2 DEF Held

(* Persisting or abandoning empties the decider's hands and nobody else's. *)
LEMMA LetsGo ==
    ASSUME PendingOK, NEW d \in Deciders, Persist(d) \/ Abandon(d)
    PROVE  PendingOK' /\ ~pending'[d].decided /\ \A e \in Deciders \ {d} : pending'[e] = pending[e]
  BY DEF Persist, Abandon, PendingOK, Nothing

LEMMA AuthorityIsHeld == AuthorityHeld <=> \A d \in Deciders : Held(d)
  BY DEF AuthorityHeld, Held, Barred

(* FailureClassifier and RecoveryPolicy, for every failure, context and offered resource and on *)
(* every history: whatever a controller is about to persist as allowed respects the precedence  *)
(* rules.                                                                                       *)
THEOREM Authority == Spec => []AuthorityHeld
  <1> DEFINE Inv == PendingOK /\ AuthorityHeld
  <1>1. Init => Inv
    BY AuthorityIsHeld DEF Init, PendingOK, Held, Nothing
  <1>2. Inv /\ [Next]_vars => Inv'
    <2> SUFFICES ASSUME PendingOK, AuthorityHeld, [Next]_vars
                 PROVE  PendingOK' /\ \A d \in Deciders : Held(d)'
      BY DEF AuthorityHeld, Held, Barred
    <2>0. \A d \in Deciders : Held(d)
      BY AuthorityIsHeld
    <2>1. ASSUME NEW d \in Deciders, NEW r \in Requests, Decide(d, r)
          PROVE  PendingOK' /\ \A e \in Deciders : Held(e)'
      BY <2>0, <2>1, DecidesHeld DEF Held
    <2>2. ASSUME NEW d \in Deciders, Persist(d) \/ Abandon(d)
          PROVE  PendingOK' /\ \A e \in Deciders : Held(e)'
      BY <2>0, <2>2, LetsGo DEF Held
    <2>3. CASE UNCHANGED pending
      BY <2>0, <2>3 DEF Held, PendingOK
    <2> QED BY <2>1, <2>2, <2>3 DEF Next, vars, RecordOutcome
  <1> QED BY <1>1, <1>2, PTL DEF Spec

-----------------------------------------------------------------------------
(* How far a shared budget can be overdrawn.                               *)

IsSequence == \E S : history \in Seq(S)

(* Who holds a decision not yet appended that a budget will be charged with. *)
HoldsFor(fingerprint) ==
    {d \in Deciders : /\ pending[d].decided
                      /\ pending[d].decision.allowed
                      /\ pending[d].decision.fingerprint = fingerprint}

HoldsAction(context, action) ==
    {d \in Deciders : /\ pending[d].decided
                      /\ pending[d].decision.task = context.task
                      /\ pending[d].decision.action = action
                      /\ action = "retry_step" => pending[d].decision.node = context.node}

(* Once a budget is spent, what was granted and what is about to be are within the slack. *)
Bounded(granted, holders, limit) ==
    Cardinality(granted) >= limit =>
        Cardinality(granted) + Cardinality(holders) <= limit + Cardinality(Deciders) - 1

FingerprintBounded ==
    \A f : Bounded(Granted(history, f), HoldsFor(f), MaxFingerprint)

ActionBounded ==
    \A c : \A a \in Actions \ Refusals : Bounded(Spent(history, c, a), HoldsAction(c, a), Limit[a])

LEMMA DecidersCount ==
    /\ Cardinality(Deciders) \in Nat \ {0}
    /\ \A H \in SUBSET Deciders : IsFiniteSet(H) /\ Cardinality(H) \in Nat
  <1>1. IsFiniteSet(Deciders) /\ Deciders # {}
    BY RecoveryAssumption
  <1>2. Cardinality(Deciders) \in Nat /\ Cardinality(Deciders) # 0
    BY <1>1, FS_CardinalityType, FS_EmptySet
  <1>3. \A H \in SUBSET Deciders : IsFiniteSet(H) /\ Cardinality(H) \in Nat
    BY <1>1, FS_Subset, FS_CardinalityType
  <1> QED BY <1>2, <1>3

(* A decider lets go of what it holds; if it was to be charged, the entry is at n. *)
LEMMA Charge ==
    ASSUME NEW granted, IsFiniteSet(granted), NEW granted2, NEW n, n \notin granted,
           NEW holders \in SUBSET Deciders, NEW holders2, NEW limit \in Nat,
           NEW d \in Deciders, Bounded(granted, holders, limit),
           holders2 = holders \ {d},
           \/ granted2 = granted
           \/ granted2 = granted \cup {n} /\ d \in holders
    PROVE  Bounded(granted2, holders2, limit)
  <1>1. /\ Cardinality(granted) \in Nat
        /\ Cardinality(granted \cup {n}) = Cardinality(granted) + 1
    BY FS_CardinalityType, FS_AddElement
  <1>2. /\ Cardinality(holders) \in Nat /\ Cardinality(holders2) \in Nat
        /\ IsFiniteSet(holders) /\ IsFiniteSet(Deciders)
        /\ Cardinality(Deciders) \in Nat \ {0}
    BY DecidersCount, RecoveryAssumption
  <1>3. /\ d \in holders => Cardinality(holders2) = Cardinality(holders) - 1
        /\ d \notin holders => holders2 = holders
    <2>1. ASSUME d \in holders PROVE Cardinality(holders \ {d}) = Cardinality(holders) - 1
      BY <1>2, <2>1, FS_RemoveElement
    <2>2. ASSUME d \notin holders PROVE holders \ {d} = holders
      BY <2>2
    <2> QED BY <2>1, <2>2
  <1>4. Cardinality(holders) <= Cardinality(Deciders)
    BY <1>2, FS_Subset
  <1>5. CASE granted2 = granted
    BY <1>1, <1>2, <1>3, <1>5 DEF Bounded
  <1>6. CASE granted2 = granted \cup {n} /\ d \in holders
    BY <1>1, <1>2, <1>3, <1>4, <1>6 DEF Bounded
  <1> QED BY <1>5, <1>6

(* An entry of the history that is appended. *)
LEMMA Appended ==
    ASSUME IsSequence, NEW e, history' = Append(history, e)
    PROVE  /\ IsSequence' /\ Len(history) + 1 \notin DOMAIN history
           /\ DOMAIN history' = DOMAIN history \cup {Len(history) + 1}
           /\ \A i \in DOMAIN history : history'[i] = history[i]
           /\ history'[Len(history) + 1] = e
  <1>1. PICK S : history \in Seq(S)
    BY DEF IsSequence
  <1>2. history \in Seq(S \cup {e})
    BY <1>1
  <1>3. history' \in Seq(S \cup {e})
    BY <1>2
  <1> QED BY <1>2, <1>3 DEF IsSequence

LEMMA ChargedFinite ==
    ASSUME IsSequence
    PROVE  /\ \A f : IsFiniteSet(Granted(history, f)) /\ IsFiniteSet(Repeated(history, f))
           /\ \A c, a : IsFiniteSet(Spent(history, c, a))
  <1>1. IsFiniteSet(DOMAIN history)
    <2>1. PICK S : history \in Seq(S) BY DEF IsSequence
    <2>2. Len(history) \in Nat /\ DOMAIN history = 1..Len(history) BY <2>1
    <2> QED BY <2>2, FS_Interval
  <1> QED BY <1>1, FS_Subset DEF Granted, Repeated, Spent, Decisions

(* The policy answers with an action that is not a refusal only when it allows it. *)
LEMMA PolicyActs ==
    ASSUME NEW request, NEW h, Policy(request, h).action \notin Refusals
    PROVE  Policy(request, h).allowed
  <1>1. \A r : Refuse("escalate", r).action \in Refusals /\ Refuse("block", r).action \in Refusals
    BY DEF Refuse, Refusals
  <1>2. ~request.context.newAuthority
    BY <1>1 DEF Policy
  <1>3. request.context.approval \/ Base(request.signal).action \notin NeedApproval
    BY <1>1, <1>2 DEF Policy
  <1>4. \/ Base(request.signal).action # "reroute_resource"
        \/ Usable(request.resource, request.context)
    BY <1>1, <1>2, <1>3 DEF Policy, Refusals
  <1>5. Policy(request, h) = Base(request.signal)
    BY <1>1, <1>2, <1>3, <1>4 DEF Policy, Refusals
  <1> QED BY <1>5, BaseOfAllowed

BudgetInv == PendingOK /\ IsSequence /\ FingerprintBounded /\ ActionBounded

(* A new decision is only allowed while its budgets are not spent. *)
LEMMA DecideKeepsBudgets ==
    ASSUME BudgetInv, NEW d \in Deciders, NEW request \in Requests, Decide(d, request)
    PROVE  BudgetInv'
  <1> DEFINE decision == Decision(request, history)
             policy == Policy(request, history)
  <1>1. /\ pending'[d].decision = decision
        /\ PendingOK' /\ \A e \in Deciders \ {d} : pending'[e] = pending[e]
        /\ ~pending[d].decided
    BY DEF Decide, PendingOK, BudgetInv
  <1>2. history' = history /\ IsSequence'
    BY DEF Decide, BudgetInv, IsSequence
  <1>3. /\ decision.allowed = policy.allowed /\ decision.action = policy.action
        /\ decision.fingerprint = Fingerprint(request.signal, request.context)
        /\ decision.task = request.context.task /\ decision.node = request.context.node
    BY DEF Decision
  <1> HIDE DEF decision, policy
  <1>4. FingerprintBounded'
    <2> SUFFICES ASSUME NEW f
                 PROVE  Bounded(Granted(history, f), HoldsFor(f)', MaxFingerprint)
      BY <1>2 DEF FingerprintBounded, Bounded
    <2>1. Bounded(Granted(history, f), HoldsFor(f), MaxFingerprint)
      BY DEF BudgetInv, FingerprintBounded
    <2>2. CASE decision.allowed /\ decision.fingerprint = f
      <3>1. ~FingerprintSpent(history, f)
        BY <1>3, <2>2, PolicyAllows DEF policy
      <3>2. Granted(history, f) \subseteq Repeated(history, f)
        BY DEF Granted
      <3>3. /\ IsFiniteSet(Repeated(history, f)) /\ IsFiniteSet(Granted(history, f))
        BY ChargedFinite DEF BudgetInv
      <3>4. /\ Cardinality(Granted(history, f)) <= Cardinality(Repeated(history, f))
            /\ Cardinality(Granted(history, f)) \in Nat
            /\ Cardinality(Repeated(history, f)) \in Nat
        BY <3>2, <3>3, FS_Subset, FS_CardinalityType
      <3>5. ~(Cardinality(Granted(history, f)) >= MaxFingerprint)
        BY <3>1, <3>4, RecoveryAssumption DEF FingerprintSpent
      <3> QED BY <3>5 DEF Bounded
    <2>3. CASE ~(decision.allowed /\ decision.fingerprint = f)
      <3>1. HoldsFor(f)' = HoldsFor(f)
        BY <1>1, <2>3 DEF HoldsFor
      <3> QED BY <2>1, <3>1
    <2> QED BY <2>2, <2>3
  <1>5. ActionBounded'
    <2> SUFFICES ASSUME NEW c, NEW a \in Actions \ Refusals
                 PROVE  Bounded(Spent(history, c, a), HoldsAction(c, a)', Limit[a])
      BY <1>2 DEF ActionBounded, Bounded
    <2>1. Bounded(Spent(history, c, a), HoldsAction(c, a), Limit[a])
      BY DEF BudgetInv, ActionBounded
    <2>2. CASE /\ decision.action = a /\ decision.task = c.task
               /\ a = "retry_step" => decision.node = c.node
      <3>1. policy.allowed
        BY <1>3, <2>2, PolicyActs DEF policy
      <3>2. ~ActionSpent(history, request.context, a)
        BY <1>3, <2>2, <3>1, PolicyAllows DEF policy
      <3>3. Spent(history, c, a) = Spent(history, request.context, a)
        BY <1>3, <2>2 DEF Spent
      <3>4. ~(Cardinality(Spent(history, c, a)) >= Limit[a])
        BY <3>2, <3>3 DEF ActionSpent
      <3> QED BY <3>4 DEF Bounded
    <2>3. CASE ~(/\ decision.action = a /\ decision.task = c.task
                 /\ a = "retry_step" => decision.node = c.node)
      <3>1. HoldsAction(c, a)' = HoldsAction(c, a)
        BY <1>1, <2>3 DEF HoldsAction
      <3> QED BY <2>1, <3>1
    <2> QED BY <2>2, <2>3
  <1> QED BY <1>1, <1>2, <1>4, <1>5 DEF BudgetInv

(* An appended decision moves from its decider's hands to what was granted. *)
LEMMA PersistKeepsBudgets ==
    ASSUME BudgetInv, NEW d \in Deciders, Persist(d)
    PROVE  BudgetInv'
  <1> DEFINE n == Len(history) + 1
             decision == pending[d].decision
  <1>1. PendingOK' /\ ~pending'[d].decided /\ \A e \in Deciders \ {d} : pending'[e] = pending[e]
    BY LetsGo DEF BudgetInv
  <1>2. pending[d].decided
    BY DEF Persist
  <1>3. n \notin DOMAIN history
    <2>1. PICK S : history \in Seq(S) BY DEF BudgetInv, IsSequence
    <2> QED BY <2>1
  <1>4. \/ history' = history
        \/ /\ DOMAIN history' = DOMAIN history \cup {n}
           /\ \A i \in DOMAIN history : history'[i] = history[i]
           /\ history'[n].decision = decision /\ history'[n].status = "decision"
    <2>1. CASE history' = history
      BY <2>1
    <2>2. CASE history' # history
      <3> DEFINE e == [decision |-> decision, status |-> "decision", progress |-> FALSE,
                       checks |-> pending[d].request.signal.checks, candidate |-> NoOne,
                       resource |-> NoOne]
      <3>1. history' = Append(history, e)
        BY <2>2 DEF Persist
      <3>2. e.decision = decision /\ e.status = "decision"
        OBVIOUS
      <3> HIDE DEF e, decision
      <3> QED BY <3>1, <3>2, Appended DEF BudgetInv
    <2> QED BY <2>1, <2>2
  <1>5. IsSequence'
    <2>1. CASE history' = history
      BY <2>1 DEF BudgetInv, IsSequence
    <2>2. CASE history' # history
      BY <2>2, Appended DEF Persist, BudgetInv
    <2> QED BY <2>1, <2>2
  <1> HIDE DEF n, decision
  <1>6. FingerprintBounded'
    <2> SUFFICES ASSUME NEW f
                 PROVE  Bounded(Granted(history', f), HoldsFor(f)', MaxFingerprint)
      BY DEF FingerprintBounded, Bounded, Granted, Repeated, Decisions
    <2>1. Bounded(Granted(history, f), HoldsFor(f), MaxFingerprint)
      BY DEF BudgetInv, FingerprintBounded
    <2>2. IsFiniteSet(Granted(history, f)) /\ n \notin Granted(history, f)
      BY <1>3, ChargedFinite DEF BudgetInv, Granted, Repeated, Decisions
    <2>3. HoldsFor(f) \in SUBSET Deciders /\ HoldsFor(f)' = HoldsFor(f) \ {d}
      BY <1>1 DEF HoldsFor
    <2>4. \/ Granted(history', f) = Granted(history, f)
          \/ Granted(history', f) = Granted(history, f) \cup {n} /\ d \in HoldsFor(f)
      <3>1. CASE history' = history
        BY <3>1
      <3>2. CASE /\ DOMAIN history' = DOMAIN history \cup {n}
                 /\ \A i \in DOMAIN history : history'[i] = history[i]
                 /\ history'[n].decision = decision /\ history'[n].status = "decision"
        <4>1. CASE decision.allowed /\ decision.fingerprint = f
          <5>1. d \in HoldsFor(f)
            BY <1>2, <4>1 DEF HoldsFor, decision
          <5>2. Granted(history', f) = Granted(history, f) \cup {n}
            BY <3>2, <4>1 DEF Granted, Repeated, Decisions
          <5> QED BY <5>1, <5>2
        <4>2. CASE ~(decision.allowed /\ decision.fingerprint = f)
          BY <1>3, <3>2, <4>2 DEF Granted, Repeated, Decisions
        <4> QED BY <4>1, <4>2
      <3> QED BY <1>4, <3>1, <3>2
    <2> QED BY <2>1, <2>2, <2>3, <2>4, Charge, RecoveryAssumption
  <1>7. ActionBounded'
    <2> SUFFICES ASSUME NEW c, NEW a \in Actions \ Refusals
                 PROVE  Bounded(Spent(history', c, a), HoldsAction(c, a)', Limit[a])
      BY DEF ActionBounded, Bounded, Spent, Decisions
    <2>1. Bounded(Spent(history, c, a), HoldsAction(c, a), Limit[a])
      BY DEF BudgetInv, ActionBounded
    <2>2. IsFiniteSet(Spent(history, c, a)) /\ n \notin Spent(history, c, a)
      BY <1>3, ChargedFinite DEF BudgetInv, Spent, Decisions
    <2>3. HoldsAction(c, a) \in SUBSET Deciders /\ HoldsAction(c, a)' = HoldsAction(c, a) \ {d}
      BY <1>1 DEF HoldsAction
    <2>4. \/ Spent(history', c, a) = Spent(history, c, a)
          \/ Spent(history', c, a) = Spent(history, c, a) \cup {n} /\ d \in HoldsAction(c, a)
      <3>1. CASE history' = history
        BY <3>1
      <3>2. CASE /\ DOMAIN history' = DOMAIN history \cup {n}
                 /\ \A i \in DOMAIN history : history'[i] = history[i]
                 /\ history'[n].decision = decision /\ history'[n].status = "decision"
        <4>1. CASE /\ decision.task = c.task /\ decision.action = a
                   /\ a = "retry_step" => decision.node = c.node
          <5>1. d \in HoldsAction(c, a)
            BY <1>2, <4>1 DEF HoldsAction, decision
          <5>2. Spent(history', c, a) = Spent(history, c, a) \cup {n}
            BY <3>2, <4>1 DEF Spent, Decisions
          <5> QED BY <5>1, <5>2
        <4>2. CASE ~(/\ decision.task = c.task /\ decision.action = a
                     /\ a = "retry_step" => decision.node = c.node)
          BY <1>3, <3>2, <4>2 DEF Spent, Decisions
        <4> QED BY <4>1, <4>2
      <3> QED BY <1>4, <3>1, <3>2
    <2>5. Limit[a] \in Nat
      BY RecoveryAssumption
    <2> QED BY <2>1, <2>2, <2>3, <2>4, <2>5, Charge
  <1> QED BY <1>1, <1>5, <1>6, <1>7 DEF BudgetInv

(* A decision that is never appended costs nothing. *)
LEMMA AbandonKeepsBudgets ==
    ASSUME BudgetInv, NEW d \in Deciders, Abandon(d)
    PROVE  BudgetInv'
  <1>1. PendingOK' /\ ~pending'[d].decided /\ \A e \in Deciders \ {d} : pending'[e] = pending[e]
    BY LetsGo DEF BudgetInv
  <1>2. history' = history /\ IsSequence'
    BY DEF Abandon, BudgetInv, IsSequence
  <1>3. Len(history) + 1 \notin DOMAIN history
    <2>1. PICK S : history \in Seq(S) BY DEF BudgetInv, IsSequence
    <2> QED BY <2>1
  <1>4. FingerprintBounded'
    <2> SUFFICES ASSUME NEW f
                 PROVE  Bounded(Granted(history, f), HoldsFor(f)', MaxFingerprint)
      BY <1>2 DEF FingerprintBounded, Bounded
    <2>1. Bounded(Granted(history, f), HoldsFor(f), MaxFingerprint)
      BY DEF BudgetInv, FingerprintBounded
    <2>2. IsFiniteSet(Granted(history, f)) /\ Len(history) + 1 \notin Granted(history, f)
      BY <1>3, ChargedFinite DEF BudgetInv, Granted, Repeated, Decisions
    <2>3. HoldsFor(f) \in SUBSET Deciders /\ HoldsFor(f)' = HoldsFor(f) \ {d}
      BY <1>1 DEF HoldsFor
    <2> QED BY <2>1, <2>2, <2>3, Charge, RecoveryAssumption
  <1>5. ActionBounded'
    <2> SUFFICES ASSUME NEW c, NEW a \in Actions \ Refusals
                 PROVE  Bounded(Spent(history, c, a), HoldsAction(c, a)', Limit[a])
      BY <1>2 DEF ActionBounded, Bounded
    <2>1. Bounded(Spent(history, c, a), HoldsAction(c, a), Limit[a])
      BY DEF BudgetInv, ActionBounded
    <2>2. IsFiniteSet(Spent(history, c, a)) /\ Len(history) + 1 \notin Spent(history, c, a)
      BY <1>3, ChargedFinite DEF BudgetInv, Spent, Decisions
    <2>3. HoldsAction(c, a) \in SUBSET Deciders /\ HoldsAction(c, a)' = HoldsAction(c, a) \ {d}
      BY <1>1 DEF HoldsAction
    <2>4. Limit[a] \in Nat
      BY RecoveryAssumption
    <2> QED BY <2>1, <2>2, <2>3, <2>4, Charge
  <1> QED BY <1>1, <1>2, <1>4, <1>5 DEF BudgetInv

(* An outcome is charged to nothing. *)
LEMMA OutcomeKeepsBudgets ==
    ASSUME BudgetInv, NEW i \in DOMAIN history, NEW o \in Outcomes, RecordOutcome(i, o)
    PROVE  BudgetInv'
  <1> DEFINE n == Len(history) + 1
             e == [decision |-> history[i].decision, status |-> o.status,
                   progress |-> o.progress \/ Moved(history[i], o),
                   checks |-> o.checks, candidate |-> o.candidate, resource |-> o.resource]
  <1>1. history' = Append(history, e) /\ pending' = pending
    BY DEF RecordOutcome
  <1>2. e.status # "decision"
    BY RecoveryAssumption
  <1> HIDE DEF e
  <1>3. /\ IsSequence' /\ DOMAIN history' = DOMAIN history \cup {n}
        /\ \A k \in DOMAIN history : history'[k] = history[k]
        /\ history'[n] = e
    BY <1>1, Appended DEF BudgetInv
  <1> HIDE DEF n
  <1>4. Decisions(history') = Decisions(history)
    BY <1>2, <1>3 DEF Decisions
  <1>5. \A k \in Decisions(history) : history'[k] = history[k]
    BY <1>3 DEF Decisions
  <1>6. /\ \A f : Granted(history', f) = Granted(history, f)
        /\ \A c, a : Spent(history', c, a) = Spent(history, c, a)
    BY <1>4, <1>5 DEF Granted, Repeated, Spent
  <1>7. /\ \A f : HoldsFor(f)' = HoldsFor(f)
        /\ \A c, a : HoldsAction(c, a)' = HoldsAction(c, a)
    BY <1>1 DEF HoldsFor, HoldsAction
  <1>8. FingerprintBounded'
    <2> SUFFICES ASSUME NEW f
                 PROVE  Bounded(Granted(history', f), HoldsFor(f)', MaxFingerprint)
      BY DEF FingerprintBounded, Bounded, Granted, Repeated, Decisions
    <2> QED BY <1>6, <1>7 DEF BudgetInv, FingerprintBounded
  <1>9. ActionBounded'
    <2> SUFFICES ASSUME NEW c, NEW a \in Actions \ Refusals
                 PROVE  Bounded(Spent(history', c, a), HoldsAction(c, a)', Limit[a])
      BY DEF ActionBounded, Bounded, Spent, Decisions
    <2> QED BY <1>6, <1>7 DEF BudgetInv, ActionBounded
  <1> QED BY <1>1, <1>3, <1>8, <1>9 DEF BudgetInv, PendingOK

LEMMA BudgetsStart == Init => BudgetInv
  <1> SUFFICES ASSUME Init PROVE BudgetInv
    OBVIOUS
  <1>1. PendingOK /\ IsSequence
    BY DEF Init, PendingOK, IsSequence
  <1>2. /\ \A f : Granted(history, f) = {} /\ HoldsFor(f) = {}
        /\ \A c, a : Spent(history, c, a) = {} /\ HoldsAction(c, a) = {}
    BY DEF Init, Nothing, Granted, Repeated, Spent, Decisions, HoldsFor, HoldsAction
  <1>3. \A limit \in Nat : Bounded({}, {}, limit)
    BY FS_EmptySet, DecidersCount DEF Bounded
  <1> QED BY <1>1, <1>2, <1>3, RecoveryAssumption
          DEF BudgetInv, FingerprintBounded, ActionBounded

LEMMA BudgetsAreBounded ==
    ASSUME BudgetInv,
           \A i \in Decisions(history) : history[i].decision.allowed =>
               history[i].decision.action \in Actions \ Refusals
    PROVE  RaceBounded
  <1> SUFFICES ASSUME NEW i \in Decisions(history), history[i].decision.allowed
               PROVE  LET decision == history[i].decision
                          slack == Cardinality(Deciders) - 1
                      IN  /\ Cardinality(Granted(history, decision.fingerprint))
                                <= MaxFingerprint + slack
                          /\ Cardinality(Spent(history, decision, decision.action))
                                <= Limit[decision.action] + slack
    BY DEF RaceBounded
  <1> DEFINE decision == history[i].decision
             f == decision.fingerprint
             a == decision.action
  <1>1. /\ Cardinality(Granted(history, f)) \in Nat
        /\ Cardinality(Spent(history, decision, a)) \in Nat
    BY ChargedFinite, FS_CardinalityType DEF BudgetInv
  <1>2. Cardinality(HoldsFor(f)) \in Nat /\ Cardinality(HoldsAction(decision, a)) \in Nat
    BY DecidersCount DEF HoldsFor, HoldsAction
  <1>3. a \in Actions \ Refusals
    OBVIOUS
  <1>4. MaxFingerprint \in Nat /\ Limit[a] \in Nat
    BY <1>3, RecoveryAssumption
  <1>5. /\ Bounded(Granted(history, f), HoldsFor(f), MaxFingerprint)
        /\ Bounded(Spent(history, decision, a), HoldsAction(decision, a), Limit[a])
    BY <1>3 DEF BudgetInv, FingerprintBounded, ActionBounded
  <1> HIDE DEF decision, f, a
  <1>6. /\ Cardinality(Granted(history, f)) <= MaxFingerprint + (Cardinality(Deciders) - 1)
        /\ Cardinality(Spent(history, decision, a)) <= Limit[a] + (Cardinality(Deciders) - 1)
    BY <1>1, <1>2, <1>4, <1>5, DecidersCount DEF Bounded
  <1> QED BY <1>6 DEF decision, f, a

(* What is allowed is something to do. *)
Acts(decision) == decision.allowed => decision.action \in Actions \ Refusals

ActsInv ==
    /\ \A d \in Deciders : pending[d].decided => Acts(pending[d].decision)
    /\ \A i \in Decisions(history) : Acts(history[i].decision)

LEMMA StepActs ==
    ASSUME PendingOK, IsSequence, ActsInv, [Next]_vars
    PROVE  ActsInv'
  <1>1. ASSUME NEW d \in Deciders, NEW request \in Requests, Decide(d, request)
        PROVE  ActsInv'
    <2>1. /\ pending'[d].decision = Decision(request, history)
          /\ \A e \in Deciders \ {d} : pending'[e] = pending[e]
          /\ history' = history
      BY <1>1 DEF Decide, PendingOK
    <2>2. ASSUME Decision(request, history).allowed
          PROVE  Decision(request, history).action \in Actions \ Refusals
      <3>1. Policy(request, history).allowed
        BY <2>2 DEF Decision
      <3>2. /\ Policy(request, history) = Base(request.signal)
            /\ Base(request.signal).action \notin Refusals
        BY <3>1, PolicyAllows
      <3>3. Base(request.signal).action \in Actions
        BY DEF Base, Classify, ByCode, Blocked, Class, Actions
      <3> QED BY <3>2, <3>3 DEF Decision
    <2>3. Acts(Decision(request, history))
      BY <2>2 DEF Acts
    <2>4. \A e \in Deciders : pending'[e].decided => Acts(pending'[e].decision)
      BY <2>1, <2>3 DEF ActsInv
    <2> QED BY <2>1, <2>4 DEF ActsInv
  <1>2. ASSUME NEW d \in Deciders, Persist(d)
        PROVE  ActsInv'
    <2>1. ~pending'[d].decided /\ \A e \in Deciders \ {d} : pending'[e] = pending[e]
      BY <1>2, LetsGo
    <2>2. \A e \in Deciders : pending'[e].decided => Acts(pending'[e].decision)
      BY <2>1 DEF ActsInv
    <2>3. \A i \in Decisions(history') : Acts(history'[i].decision)
      <3>1. CASE history' = history
        BY <3>1 DEF ActsInv
      <3>2. CASE history' # history
        <4> DEFINE e == [decision |-> pending[d].decision, status |-> "decision",
                         progress |-> FALSE, checks |-> pending[d].request.signal.checks,
                         candidate |-> NoOne, resource |-> NoOne]
        <4>1. history' = Append(history, e) /\ pending[d].decided
          BY <1>2, <3>2 DEF Persist
        <4>2. Acts(e.decision)
          BY <4>1 DEF ActsInv
        <4> HIDE DEF e
        <4>3. /\ DOMAIN history' = DOMAIN history \cup {Len(history) + 1}
              /\ \A i \in DOMAIN history : history'[i] = history[i]
              /\ history'[Len(history) + 1] = e
          BY <4>1, Appended
        <4> QED BY <4>2, <4>3 DEF ActsInv, Decisions
      <3> QED BY <3>1, <3>2
    <2> QED BY <2>2, <2>3 DEF ActsInv
  <1>3. ASSUME NEW d \in Deciders, Abandon(d)
        PROVE  ActsInv'
    <2>1. ~pending'[d].decided /\ \A e \in Deciders \ {d} : pending'[e] = pending[e]
      BY <1>3, LetsGo
    <2> QED BY <1>3, <2>1 DEF Abandon, ActsInv
  <1>4. ASSUME NEW i \in DOMAIN history, NEW o \in Outcomes, RecordOutcome(i, o)
        PROVE  ActsInv'
    <2> DEFINE e == [decision |-> history[i].decision, status |-> o.status,
                     progress |-> o.progress \/ Moved(history[i], o),
                     checks |-> o.checks, candidate |-> o.candidate, resource |-> o.resource]
    <2>1. history' = Append(history, e) /\ pending' = pending
      BY <1>4 DEF RecordOutcome
    <2>2. Acts(e.decision)
      BY <1>4 DEF ActsInv, RecordOutcome
    <2> HIDE DEF e
    <2>3. /\ DOMAIN history' = DOMAIN history \cup {Len(history) + 1}
          /\ \A k \in DOMAIN history : history'[k] = history[k]
          /\ history'[Len(history) + 1] = e
      BY <2>1, Appended
    <2> QED BY <2>1, <2>2, <2>3 DEF ActsInv, Decisions
  <1>5. CASE UNCHANGED vars
    BY <1>5 DEF vars, ActsInv
  <1> QED BY <1>1, <1>2, <1>3, <1>4, <1>5 DEF Next

(* RecoveryPolicy.decide and the history's two calls, for any number of deciders and any       *)
(* budgets: reading the history before appending to it lets a budget be overdrawn, by one      *)
(* decision for each other decider and never by more.                                          *)
THEOREM Budgets == Spec => []RaceBounded
  <1>1. Init => BudgetInv /\ ActsInv
    BY BudgetsStart DEF Init, ActsInv, Nothing, Decisions
  <1>2. BudgetInv /\ ActsInv /\ [Next]_vars => BudgetInv' /\ ActsInv'
    <2> SUFFICES ASSUME BudgetInv, ActsInv, [Next]_vars PROVE BudgetInv'
      BY StepActs DEF BudgetInv
    <2>1. CASE UNCHANGED vars
      BY <2>1 DEF vars, BudgetInv, PendingOK, IsSequence, FingerprintBounded, ActionBounded,
                  Bounded, HoldsFor, HoldsAction
    <2> QED BY <2>1, DecideKeepsBudgets, PersistKeepsBudgets, AbandonKeepsBudgets,
               OutcomeKeepsBudgets DEF Next
  <1>3. BudgetInv /\ ActsInv => RaceBounded
    BY BudgetsAreBounded DEF ActsInv, Acts
  <1> QED BY <1>1, <1>2, <1>3, PTL DEF Spec

-----------------------------------------------------------------------------
(* The history: decisions, and at most one outcome of each.                *)

WellMade(decision) ==
    /\ decision.action \in Actions
    /\ decision.allowed <=> decision.action \notin Refusals

Statuses == {"decision", "pending", "succeeded", "failed", "blocked"}

EntryOK(i) ==
    /\ history[i].status \in Statuses
    /\ WellMade(history[i].decision)
    /\ history[i].status # "decision" =>
          \E k \in 1..(i - 1) :
              history[k].status = "decision" /\ history[k].decision = history[i].decision

HeldOK(d) ==
    pending[d].decided =>
        /\ pending[d].request \in Requests
        /\ WellMade(pending[d].decision)
        /\ (pending[d].decision.target # NoOne) <=> (pending[d].decision.action = "reroute_resource")

OneOutcome ==
    \A i, k \in Reported(history) : history[i].decision = history[k].decision => i = k

HistoryInv ==
    /\ PendingOK /\ IsSequence /\ Len(history) <= MaxHistory
    /\ \A i \in DOMAIN history : EntryOK(i)
    /\ \A d \in Deciders : HeldOK(d)
    /\ OneOutcome

LEMMA ByCodeActs == ASSUME NEW code PROVE ByCode(code).action \in Actions
  BY DEF ByCode, Blocked, Class, Actions

LEMMA BaseActs ==
    ASSUME NEW signal
    PROVE  /\ Base(signal).action \in Actions
           /\ Base(signal).allowed <=> Base(signal).action \notin Refusals
  <1>1. Classify(signal).action \in Actions
    BY ByCodeActs DEF Classify, Blocked, Class, Actions
  <1> QED BY <1>1 DEF Base, Actions, Refusals

LEMMA RefuseActs ==
    ASSUME NEW action \in Refusals, NEW reason
    PROVE  LET p == Refuse(action, reason)
           IN  p.action \in Actions /\ (p.allowed <=> p.action \notin Refusals)
  BY DEF Refuse, Refusals, Actions

LEMMA PolicyWellMade ==
    ASSUME NEW request, NEW h
    PROVE  /\ Policy(request, h).action \in Actions
           /\ Policy(request, h).allowed <=> Policy(request, h).action \notin Refusals
  <1> DEFINE base == Base(request.signal)
             context == request.context
  <1>1. CASE context.newAuthority
    BY <1>1, RefuseActs DEF Policy, Refusals
  <1>2. CASE ~context.newAuthority /\ ~context.approval /\ base.action \in NeedApproval
    BY <1>2, RefuseActs DEF Policy, Refusals
  <1>3. CASE /\ ~context.newAuthority /\ (context.approval \/ base.action \notin NeedApproval)
             /\ base.action = "reroute_resource" /\ ~Usable(request.resource, context)
    BY <1>3, RefuseActs DEF Policy, Refusals
  <1>4. CASE /\ ~context.newAuthority /\ (context.approval \/ base.action \notin NeedApproval)
             /\ base.action = "reroute_resource" => Usable(request.resource, context)
    <2>1. CASE base.action \in Refusals
      <3>1. Policy(request, h) = base
        BY <1>4, <2>1 DEF Policy, Refusals
      <3> QED BY <3>1, BaseActs
    <2>2. CASE base.action \notin Refusals
      <3>1. \/ Policy(request, h) = base
            \/ \E r : Policy(request, h) = Refuse("block", r)
        BY <1>4, <2>2 DEF Policy
      <3> QED BY <3>1, BaseActs, RefuseActs DEF Refusals
    <2> QED BY <2>1, <2>2
  <1> QED BY <1>1, <1>2, <1>3, <1>4

LEMMA DecisionWellMade ==
    ASSUME NEW request \in Requests, NEW h
    PROVE  LET decision == Decision(request, h)
           IN  /\ WellMade(decision)
               /\ (decision.target # NoOne) <=> (decision.action = "reroute_resource")
               /\ decision.fingerprint = Fingerprint(request.signal, request.context)
  <1> PICK p : p = Policy(request, h)
    OBVIOUS
  <1> PICK decision : decision = Decision(request, h)
    OBVIOUS
  <1>1. /\ decision.action = p.action /\ decision.allowed = p.allowed
        /\ decision.fingerprint = Fingerprint(request.signal, request.context)
        /\ decision.target = IF p.allowed /\ p.action = "reroute_resource"
                             THEN request.resource.id ELSE NoOne
    BY DEF Decision
  <1>2. p.action \in Actions /\ (p.allowed <=> p.action \notin Refusals)
    BY PolicyWellMade
  <1>3. p.action = "reroute_resource" => p.allowed
    BY <1>2 DEF Refusals
  <1>4. p.action = "reroute_resource" => request.resource.id # NoOne
    <2> SUFFICES ASSUME p.action = "reroute_resource" PROVE request.resource.id # NoOne
      OBVIOUS
    <2>1. Usable(request.resource, request.context)
      BY <1>3, PolicyAllows
    <2> QED BY <2>1, RecoveryAssumption DEF Usable
  <1> QED BY <1>1, <1>2, <1>3, <1>4 DEF WellMade

(* One entry more: a decision, or the first outcome of one. *)
LEMMA HistoryGrows ==
    ASSUME HistoryInv, NEW e, history' = Append(history, e), Len(history) < MaxHistory,
           e.status \in Statuses, WellMade(e.decision),
           e.status # "decision" => Issued(history, e.decision) /\ ~HasOutcome(history, e.decision),
           PendingOK', \A d \in Deciders : HeldOK(d)'
    PROVE  HistoryInv'
  <1> PICK n : n = Len(history) + 1
    OBVIOUS
  <1>1. /\ IsSequence' /\ n \notin DOMAIN history
        /\ DOMAIN history' = DOMAIN history \cup {n}
        /\ \A i \in DOMAIN history : history'[i] = history[i]
        /\ history'[n] = e
    BY Appended DEF HistoryInv
  <1>2. /\ Len(history) \in Nat /\ DOMAIN history = 1..Len(history) /\ Len(history') = n
    <2>1. PICK S : history \in Seq(S)
      BY DEF HistoryInv, IsSequence
    <2>2. history \in Seq(S \cup {e}) /\ e \in S \cup {e}
      BY <2>1
    <2> QED BY <2>2
  <1>3. Len(history') <= MaxHistory
    BY <1>2, RecoveryAssumption
  <1>4. ASSUME NEW i \in DOMAIN history' PROVE EntryOK(i)'
    <2>1. CASE i = n
      <3>1. e.status # "decision" =>
              \E k \in 1..(n - 1) : history[k].status = "decision" /\ history[k].decision = e.decision
        BY <1>2 DEF Issued, Decisions
      <3>2. \A k \in 1..(n - 1) : history'[k] = history[k]
        BY <1>1, <1>2
      <3> QED BY <1>1, <2>1, <3>1, <3>2 DEF EntryOK
    <2>2. CASE i \in DOMAIN history
      <3>1. EntryOK(i) /\ history'[i] = history[i]
        BY <1>1, <2>2 DEF HistoryInv
      <3>2. \A k \in 1..(i - 1) : history'[k] = history[k]
        BY <1>1, <1>2, <2>2
      <3> QED BY <3>1, <3>2 DEF EntryOK
    <2> QED BY <1>1, <2>1, <2>2
  <1>5. OneOutcome'
    <2> SUFFICES ASSUME NEW i \in DOMAIN history', NEW k \in DOMAIN history',
                        history'[i].status # "decision", history'[k].status # "decision",
                        history'[i].decision = history'[k].decision
                 PROVE  i = k
      BY DEF OneOutcome, Reported
    <2>1. CASE i \in DOMAIN history /\ k \in DOMAIN history
      BY <1>1, <2>1 DEF HistoryInv, OneOutcome, Reported
    <2>2. CASE i = n /\ k \in DOMAIN history
      BY <1>1, <2>2 DEF HasOutcome, Reported
    <2>3. CASE k = n /\ i \in DOMAIN history
      BY <1>1, <2>3 DEF HasOutcome, Reported
    <2> QED BY <1>1, <2>1, <2>2, <2>3
  <1> QED BY <1>1, <1>3, <1>4, <1>5 DEF HistoryInv

LEMMA HistoryStep == HistoryInv /\ [Next]_vars => HistoryInv'
  <1> SUFFICES ASSUME HistoryInv, [Next]_vars PROVE HistoryInv'
    OBVIOUS
  <1>0. ASSUME UNCHANGED history, PendingOK', \A d \in Deciders : HeldOK(d)' PROVE HistoryInv'
    BY <1>0 DEF HistoryInv, IsSequence, EntryOK, OneOutcome, Reported
  <1>1. ASSUME NEW d \in Deciders, NEW request \in Requests, Decide(d, request) PROVE HistoryInv'
    <2>1. /\ PendingOK' /\ \A e \in Deciders \ {d} : pending'[e] = pending[e]
          /\ pending'[d].request = request /\ pending'[d].decision = Decision(request, history)
          /\ UNCHANGED history
      BY <1>1 DEF HistoryInv, Decide, PendingOK
    <2>2. HeldOK(d)'
      BY <2>1, DecisionWellMade DEF HeldOK
    <2>3. \A e \in Deciders : HeldOK(e)'
      BY <2>1, <2>2 DEF HistoryInv, HeldOK
    <2> QED BY <1>0, <2>1, <2>3
  <1>2. ASSUME NEW d \in Deciders, Persist(d) \/ Abandon(d) PROVE HistoryInv'
    <2>1. PendingOK' /\ ~pending'[d].decided /\ \A e \in Deciders \ {d} : pending'[e] = pending[e]
      BY <1>2, LetsGo DEF HistoryInv
    <2>2. \A e \in Deciders : HeldOK(e)'
      BY <2>1 DEF HistoryInv, HeldOK
    <2>3. CASE UNCHANGED history
      BY <1>0, <2>1, <2>2, <2>3
    <2>4. CASE Persist(d) /\ history' # history
      <3> PICK e : e = [decision |-> pending[d].decision, status |-> "decision", progress |-> FALSE,
                        checks |-> pending[d].request.signal.checks, candidate |-> NoOne,
                        resource |-> NoOne]
        OBVIOUS
      <3>1. history' = Append(history, e) /\ Len(history) < MaxHistory /\ pending[d].decided
        BY <2>4 DEF Persist
      <3>2. e.status = "decision" /\ e.decision = pending[d].decision
        OBVIOUS
      <3>3. WellMade(e.decision) /\ e.status \in Statuses
        BY <3>1, <3>2 DEF HistoryInv, HeldOK, Statuses
      <3> QED BY <2>1, <2>2, <3>1, <3>2, <3>3, HistoryGrows
    <2> QED BY <1>2, <2>3, <2>4 DEF Abandon
  <1>3. ASSUME NEW i \in DOMAIN history, NEW o \in Outcomes, RecordOutcome(i, o) PROVE HistoryInv'
    <2> PICK e : e = [decision |-> history[i].decision, status |-> o.status,
                      progress |-> o.progress \/ Moved(history[i], o),
                      checks |-> o.checks, candidate |-> o.candidate, resource |-> o.resource]
      OBVIOUS
    <2>1. /\ history' = Append(history, e) /\ Len(history) < MaxHistory /\ UNCHANGED pending
          /\ i \in Decisions(history) /\ ~HasOutcome(history, history[i].decision)
      BY <1>3 DEF RecordOutcome
    <2>2. e.status = o.status /\ e.decision = history[i].decision
      OBVIOUS
    <2>3. e.status \in Statuses /\ WellMade(e.decision) /\ Issued(history, e.decision)
      BY <2>1, <2>2, RecoveryAssumption DEF HistoryInv, EntryOK, Statuses, Issued
    <2>4. PendingOK' /\ \A d \in Deciders : HeldOK(d)'
      BY <2>1 DEF HistoryInv, PendingOK, HeldOK
    <2> QED BY <2>1, <2>2, <2>3, <2>4, HistoryGrows
  <1>4. CASE UNCHANGED vars
    BY <1>0, <1>4 DEF vars, HistoryInv, PendingOK, HeldOK
  <1> QED BY <1>1, <1>2, <1>3, <1>4 DEF Next

LEMMA HistoryStart == Init => HistoryInv
  <1> SUFFICES ASSUME Init PROVE HistoryInv
    OBVIOUS
  <1>1. Len(history) = 0 /\ DOMAIN history = {} /\ Reported(history) = {}
    BY DEF Init, Reported
  <1> QED BY <1>1, RecoveryAssumption
          DEF Init, HistoryInv, PendingOK, IsSequence, HeldOK, Nothing, OneOutcome

(* SQLiteRecoveryHistoryStore and RecoveryDecision, for any deciders and    *)
(* failures: an outcome follows the decision it belongs to, a decision is   *)
(* allowed exactly when it is something to do, and only a reroute names the *)
(* resource it goes to.                                                     *)
THEOREM TypeCorrect == Spec => []TypeOK
  <1>1. HistoryInv => TypeOK
    BY DEF HistoryInv, TypeOK, EntryOK, HeldOK, WellMade, Statuses
  <1> QED BY <1>1, HistoryStart, HistoryStep, PTL DEF Spec

-----------------------------------------------------------------------------
(* _no_progress looks at the latest outcome of a failure only.             *)

(* Outcomes of one failure belong to as many decisions about it. *)
LEMMA TwoOutcomes ==
    ASSUME HistoryInv, NEW f, NEW i \in Reported(history), NEW k \in Reported(history), i # k,
           history[i].decision.fingerprint = f, history[k].decision.fingerprint = f
    PROVE  Cardinality(Repeated(history, f)) >= 2
  <1>1. ASSUME NEW r \in Reported(history), history[r].decision.fingerprint = f
        PROVE  \E p \in Repeated(history, f) : history[p].decision = history[r].decision
    <2>1. r \in DOMAIN history /\ history[r].status # "decision"
      BY <1>1 DEF Reported
    <2>2. Len(history) \in Nat /\ DOMAIN history = 1..Len(history)
      <3>1. PICK S : history \in Seq(S)
        BY DEF HistoryInv, IsSequence
      <3> QED BY <3>1
    <2>3. PICK p \in 1..(r - 1) : history[p].status = "decision" /\ history[p].decision = history[r].decision
      BY <2>1 DEF HistoryInv, EntryOK
    <2>4. p \in DOMAIN history
      BY <2>1, <2>2, <2>3
    <2> QED BY <1>1, <2>3, <2>4 DEF Repeated, Decisions
  <1>2. PICK p \in Repeated(history, f) : history[p].decision = history[i].decision
    BY <1>1
  <1>3. PICK q \in Repeated(history, f) : history[q].decision = history[k].decision
    BY <1>1
  <1>4. history[i].decision # history[k].decision
    BY DEF HistoryInv, OneOutcome
  <1>5. p # q /\ {p, q} \subseteq Repeated(history, f)
    BY <1>2, <1>3, <1>4
  <1>6. IsFiniteSet(Repeated(history, f)) /\ Cardinality(Repeated(history, f)) \in Nat
    BY ChargedFinite, FS_CardinalityType DEF HistoryInv
  <1>7. Cardinality({p, q}) = 2
    <2>1. IsFiniteSet({p}) /\ Cardinality({p}) = 1
      BY FS_Singleton
    <2>2. q \notin {p} /\ {p, q} = {p} \cup {q}
      BY <1>5
    <2>3. Cardinality({p} \cup {q}) = Cardinality({p}) + 1
      BY <2>1, <2>2, FS_AddElement
    <2> QED BY <2>1, <2>2, <2>3
  <1>8. Cardinality({p, q}) <= Cardinality(Repeated(history, f))
    BY <1>5, <1>6, FS_Subset
  <1> QED BY <1>6, <1>7, <1>8

LEMMA NoProgressStep ==
    ASSUME MaxFingerprint <= 2, HistoryInv, [Next]_vars, NEW d \in Deciders,
           ~pending[d].decided, pending'[d].decided, pending'[d].decision.allowed,
           NEW i \in Reported(history),
           history[i].decision.fingerprint = pending'[d].decision.fingerprint,
           history[i].decision.action = pending'[d].decision.action,
           history[i].status = "failed", ~history[i].progress
    PROVE  FALSE
  <1>1. PICK request \in Requests : Decide(d, request)
    <2>1. ASSUME NEW e \in Deciders, NEW request \in Requests, Decide(e, request) PROVE e = d
      BY <2>1 DEF HistoryInv, PendingOK, Decide
    <2>2. ASSUME NEW e \in Deciders, Persist(e) \/ Abandon(e) PROVE FALSE
      <3>1. ~pending'[e].decided /\ \A c \in Deciders \ {e} : pending'[c] = pending[c]
        BY <2>2, LetsGo DEF HistoryInv
      <3> QED BY <3>1
    <2> QED BY <2>1, <2>2 DEF Next, RecordOutcome, vars
  <1> PICK f : f = Fingerprint(request.signal, request.context)
    OBVIOUS
  <1> PICK p : p = Policy(request, history)
    OBVIOUS
  <1>2. /\ pending'[d].decision.fingerprint = f /\ pending'[d].decision.action = p.action
        /\ p.allowed
    <2>1. pending'[d].decision = Decision(request, history)
      BY <1>1 DEF HistoryInv, PendingOK, Decide
    <2> QED BY <2>1 DEF Decision
  <1>3. /\ p = Base(request.signal) /\ ~FingerprintSpent(history, f)
        /\ ~NoProgress(history, f, p.action)
    <2>1. /\ p = Base(request.signal) /\ p.action \notin Refusals
          /\ ~request.context.newAuthority
          /\ request.context.approval \/ p.action \notin NeedApproval
          /\ p.action = "reroute_resource" => Usable(request.resource, request.context)
          /\ ~FingerprintSpent(history, f)
      BY <1>2, PolicyAllows
    <2>2. NoProgress(history, f, p.action) => p = Refuse("block", "no_progress")
      BY <2>1 DEF Policy
    <2> QED BY <1>2, <2>1, <2>2 DEF Refuse
  <1>4. PICK k \in Reported(history) : history[k].decision.fingerprint = f /\ ~(k <= i)
    BY <1>2, <1>3 DEF NoProgress
  <1>5. i # k
    <2>1. i \in Nat
      <3>1. PICK S : history \in Seq(S)
        BY DEF HistoryInv, IsSequence
      <3> QED BY <3>1 DEF Reported
    <2> QED BY <1>4, <2>1
  <1>6. Cardinality(Repeated(history, f)) >= 2
    BY <1>2, <1>4, <1>5, TwoOutcomes
  <1>7. Cardinality(Repeated(history, f)) \in Nat
    BY ChargedFinite, FS_CardinalityType DEF HistoryInv
  <1> QED BY <1>3, <1>6, <1>7, RecoveryAssumption DEF FingerprintSpent

(* RecoveryPolicy looks only at the latest outcome of a failure, and yet a   *)
(* strategy that failed without progress is never granted for it again: a    *)
(* second outcome needs a second decision, and RecoveryBudgets accepts no    *)
(* max_fingerprint_retries above 2.                                          *)
THEOREM NoProgressIsFinal ==
    ASSUME MaxFingerprint <= 2
    PROVE  Spec => NoProgressStops
  <1> DEFINE Stops ==
        \A d \in Deciders :
          ~pending[d].decided /\ pending'[d].decided /\ pending'[d].decision.allowed =>
            ~\E i \in Reported(history) :
                /\ history[i].decision.fingerprint = pending'[d].decision.fingerprint
                /\ history[i].decision.action = pending'[d].decision.action
                /\ history[i].status = "failed" /\ ~history[i].progress
  <1>1. HistoryInv /\ [Next]_vars => [Stops]_vars
    BY NoProgressStep
  <1>2. NoProgressStops <=> [][Stops]_vars
    BY DEF NoProgressStops
  <1> HIDE DEF Stops
  <1> QED BY <1>1, <1>2, HistoryStart, HistoryStep, PTL DEF Spec
=============================================================================
