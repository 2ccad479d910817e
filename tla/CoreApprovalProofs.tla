------------------------- MODULE CoreApprovalProofs -------------------------
(***************************************************************************)
(* The owner's approvals in EngineeringCore: what is applied and exported  *)
(* is what the owner approved, once, for any number of jobs, tokens, keys, *)
(* processes and failures.                                                 *)
(***************************************************************************)
EXTENDS CoreContractProofs

Mine(j) == {a \in approvals : a.job = j}

Bound(j, spent) == \E a \in Mine(j) : /\ Mine(j) = {a}
                                      /\ a.digest = job[j].proposal
                                      /\ a.consumed = spent

(* One job's part of ApprovalBinds ... *)
BindsOK(j) ==
    /\ job[j].state = "applying" => Bound(j, FALSE) /\ ~job[j].consumed
    /\ job[j].consumed => /\ Bound(j, TRUE)
                          /\ job[j].state = "completed"
                          /\ Recorded("approve", j) /\ Recorded("export", j)
                          /\ ~Recorded("reject", j) /\ ~Recorded("cancel", j)
    /\ ~job[j].consumed => \A a \in Mine(j) : ~a.consumed

(* ... and what makes it inductive: there is no approval before the owner    *)
(* decides, a rejection is final, a recorded cancellation is in the row, and *)
(* a job reaches "applying" by an approval only.                             *)
DecidedOK(j) ==
    /\ job[j].state \notin TerminalStates \cup {"applying"} => Mine(j) = {}
    /\ Recorded("reject", j) => job[j].state = "rejected"
    /\ Recorded("cancel", j) => job[j].cancel
    /\ job[j].state = "applying" => Recorded("approve", j)

ApprovalInv == \A j \in Jobs : BindsOK(j) /\ DecidedOK(j)

LEMMA BindsMeaning == (\A j \in Jobs : BindsOK(j)) <=> ApprovalBinds
  BY DEF BindsOK, ApprovalBinds, Mine, Bound

(* What a decision adds to lil_tweak_decisions. *)
LEMMA DecideRecords ==
    ASSUME NEW op, NEW k, NEW i, Decide(op, k, i)
    PROVE  \A o, j : Recorded(o, j)' <=> Recorded(o, j) \/ (o = op /\ j = i)
  <1> DEFINE e == [op |-> op, key |-> k, job |-> i]
  <1>1. decided' = decided \cup {e} /\ e.op = op /\ e.job = i
    BY DEF Decide
  <1> HIDE DEF e
  <1> QED BY <1>1 DEF Recorded

(* A step that decides nothing about job j. *)
Undecided(j) == Mine(j)' = Mine(j) /\ \A o : Recorded(o, j)' <=> Recorded(o, j)

LEMMA UndecidedKeeps ==
    ASSUME TypeOK, RowInv, ApprovalInv, NEW j \in Jobs, Undecided(j),
           \/ SameView(job[j], job'[j])
           \/ ReconcileStep(j)
           \/ MoveStep(j)
           \/ job[j].state = "absent" /\ job'[j] = [job[j] EXCEPT !.state = "draft"]
           \/ job[j].state = "draft" /\ job'[j] = Moved(job[j], "queued", NoDigest)
    PROVE  (BindsOK(j) /\ DecidedOK(j))'
  <1>0. job[j] \in Rows /\ BindsOK(j) /\ DecidedOK(j) /\ RowOK(job[j])
    BY DEF TypeOK, ApprovalInv, RowInv
  <1>1. CASE SameView(job[j], job'[j])
    BY <1>0, <1>1 DEF SameView, BindsOK, DecidedOK, Bound, Undecided
  <1>2. ASSUME NEW to, job'[j].state = to, to \notin {"applying", "rejected"},
               job'[j].consumed = job[j].consumed, ~job[j].consumed,
               job'[j].cancel = job[j].cancel, job[j].state # "rejected",
               to \notin TerminalStates =>
                  job[j].state \notin TerminalStates \cup {"applying"}
        PROVE  (BindsOK(j) /\ DecidedOK(j))'
    BY <1>0, <1>2 DEF BindsOK, DecidedOK, Undecided
  <1>3. CASE ReconcileStep(j)
    <2>1. /\ job'[j].consumed = job[j].consumed /\ job'[j].cancel = job[j].cancel
          /\ job'[j].state = ReconcileTarget(job[j], SpentApproval(j))
      BY <1>0, <1>3 DEF ReconcileStep, Reconciled, Released, Rows
    <2>2. job[j].state \in PipelineStates \cup {"applying"}
      BY <1>3 DEF ReconcileStep, Reconcilable
    <2>3. ~job[j].consumed /\ job[j].state # "rejected"
      BY <1>0, <2>2 DEF RowOK, PipelineStates
    <2> QED BY <1>2, <2>1, <2>2, <2>3
            DEF ReconcileTarget, PipelineStates, TerminalStates
  <1>4. CASE MoveStep(j)
    <2>1. PICK s \in Slots, to \in JobStates, d \in Digests \cup {NoDigest} :
             run[s].job = j /\ Moving(s, to, d)
      BY <1>4 DEF MoveStep
    <2>2. job'[j] = Moved(job[j], to, d) /\ MayTransition(job[j].state, to, d)
      BY <2>1, MoveFacts DEF Row
    <2>3. /\ job'[j].consumed = job[j].consumed /\ job'[j].cancel = job[j].cancel
          /\ job'[j].state = to
      BY <1>0, <2>2 DEF Moved, Rows
    <2>4. ~job[j].consumed /\ job[j].state # "rejected"
      BY <1>0, <2>2 DEF RowOK, MayTransition, TerminalStates
    <2>5. to \notin {"applying", "rejected"}
      <3>1. to # "applying"
        BY <2>1 DEF Moving, MayMoveLeased
      <3>2. to # "rejected"
        BY <2>1 DEF Moving, MoveTarget
      <3> QED BY <3>1, <3>2
    <2>6. to \notin TerminalStates => job[j].state \notin TerminalStates \cup {"applying"}
      BY <2>2 DEF MayTransition, Forward, Exceptional, TerminalStates
    <2> QED BY <1>2, <2>3, <2>4, <2>5, <2>6
  <1>5. CASE job[j].state = "absent" /\ job'[j] = [job[j] EXCEPT !.state = "draft"]
    <2>1. /\ job'[j].consumed = job[j].consumed /\ job'[j].cancel = job[j].cancel
          /\ job'[j].state = "draft" /\ ~job[j].consumed
      BY <1>0, <1>5 DEF Rows, RowOK
    <2> QED BY <1>2, <1>5, <2>1 DEF TerminalStates
  <1>6. CASE job[j].state = "draft" /\ job'[j] = Moved(job[j], "queued", NoDigest)
    <2>1. /\ job'[j].consumed = job[j].consumed /\ job'[j].cancel = job[j].cancel
          /\ job'[j].state = "queued" /\ ~job[j].consumed
      BY <1>0, <1>6 DEF Moved, Rows, RowOK
    <2> QED BY <1>2, <1>6, <2>1 DEF TerminalStates
  <1> QED BY <1>1, <1>3, <1>4, <1>5, <1>6

LEMMA CancelKeeps ==
    ASSUME TypeOK, CancelInv, RowInv, ApprovalInv, NEW j \in Jobs, NEW k, RequestCancel(j, k)
    PROVE  (BindsOK(j) /\ DecidedOK(j))'
  <1>0. job[j] \in Rows /\ BindsOK(j) /\ DecidedOK(j) /\ RowOK(job[j])
    BY DEF TypeOK, ApprovalInv, RowInv
  <1>1. job'[j] = Cancelled(job[j]) /\ MayCancel(job[j], job[j].revision)
    BY DEF RequestCancel, TypeOK
  <1>2. /\ job'[j].cancel /\ job'[j].consumed = job[j].consumed
        /\ job'[j].state = IF job[j].state \in {"awaiting_approval", "applying"}
                           THEN "cancelled" ELSE job[j].state
    BY <1>0, <1>1 DEF Cancelled, Rows
  <1>3. job[j].state \notin TerminalStates /\ ~job[j].consumed
    BY <1>0, <1>1 DEF MayCancel, MayTransition, RowOK, TerminalStates
  <1>4. Mine(j)' = Mine(j)
    BY DEF RequestCancel, Mine
  <1>5. Recorded("reject", j)' => Recorded("reject", j)
    BY DecideRecords DEF RequestCancel
  <1> QED BY <1>0, <1>2, <1>3, <1>4, <1>5 DEF BindsOK, DecidedOK, TerminalStates

LEMMA RejectKeeps ==
    ASSUME TypeOK, RowInv, ApprovalInv, NEW j \in Jobs, NEW k, NEW d, Reject(j, k, d)
    PROVE  (BindsOK(j) /\ DecidedOK(j))'
  <1>0. job[j] \in Rows /\ BindsOK(j) /\ DecidedOK(j) /\ RowOK(job[j])
    BY DEF TypeOK, ApprovalInv, RowInv
  <1>1. job'[j] = Rejected(job[j]) /\ job[j].state = "awaiting_approval"
    BY DEF Reject, MayDecide, TypeOK
  <1>2. /\ job'[j].state = "rejected" /\ job'[j].consumed = job[j].consumed
        /\ job'[j].cancel = job[j].cancel /\ ~job[j].consumed
    BY <1>0, <1>1 DEF Rejected, Rows, RowOK
  <1>3. Mine(j)' = Mine(j)
    BY DEF Reject, Mine
  <1>4. Recorded("cancel", j)' => Recorded("cancel", j)
    BY DecideRecords DEF Reject
  <1> QED BY <1>0, <1>1, <1>2, <1>3, <1>4 DEF BindsOK, DecidedOK, TerminalStates

LEMMA ApproveKeeps ==
    ASSUME TypeOK, RowInv, ApprovalInv, NEW j \in Jobs, NEW k, NEW d, NEW t,
           Approve(j, k, d, t)
    PROVE  (BindsOK(j) /\ DecidedOK(j))'
  <1>0. job[j] \in Rows /\ BindsOK(j) /\ DecidedOK(j)
    BY DEF TypeOK, ApprovalInv
  <1>1. /\ job'[j] = Approved(job[j]) /\ job[j].state = "awaiting_approval"
        /\ job[j].proposal = d
    BY DEF Approve, MayDecide, TypeOK
  <1>2. /\ job'[j].state = "applying" /\ job'[j].consumed = FALSE
        /\ job'[j].cancel = job[j].cancel /\ job'[j].proposal = d
    BY <1>0, <1>1 DEF Approved, Rows
  <1>3. Mine(j) = {}
    BY <1>0, <1>1 DEF DecidedOK, TerminalStates
  <1>4. \E a : Mine(j)' = {a} /\ a.digest = d /\ a.consumed = FALSE
    <2> DEFINE a == [token |-> t, job |-> j, digest |-> d, consumed |-> FALSE]
    <2>1. approvals' = approvals \cup {a} /\ a.job = j /\ a.digest = d /\ a.consumed = FALSE
      BY DEF Approve
    <2> HIDE DEF a
    <2>2. Mine(j)' = {a}
      BY <1>3, <2>1 DEF Mine
    <2> QED BY <2>1, <2>2
  <1>5. Bound(j, FALSE)'
    BY <1>2, <1>4 DEF Bound
  <1>6. /\ Recorded("reject", j)' => Recorded("reject", j)
        /\ Recorded("cancel", j)' => Recorded("cancel", j)
        /\ Recorded("approve", j)'
    BY DecideRecords DEF Approve
  <1>7. \A a \in Mine(j)' : ~a.consumed
    BY <1>4
  <1> QED BY <1>0, <1>1, <1>2, <1>5, <1>6, <1>7 DEF BindsOK, DecidedOK, TerminalStates

LEMMA ExportKeeps ==
    ASSUME TypeOK, CancelInv, ApprovalInv, NEW j \in Jobs, NEW k, NEW d, NEW t,
           Export(j, k, d, t)
    PROVE  (BindsOK(j) /\ DecidedOK(j))'
  <1>0. job[j] \in Rows /\ BindsOK(j) /\ DecidedOK(j)
    BY DEF TypeOK, ApprovalInv
  <1>1. job'[j] = Exported(job[j]) /\ job[j].state = "applying"
    BY DEF Export, MayExport, TypeOK
  <1>2. /\ job'[j].state = "completed" /\ job'[j].consumed = TRUE
        /\ job'[j].cancel = job[j].cancel /\ job'[j].proposal = job[j].proposal
    BY <1>0, <1>1 DEF Exported, Rows
  <1>3. ~job[j].cancel
    BY <1>1 DEF CancelInv, CancelHonoured
  <1>4. PICK a \in approvals : a.job = j /\ ~a.consumed /\ Spend(a)
    BY DEF Export
  <1>5. PICK b \in Mine(j) : Mine(j) = {b} /\ b.digest = job[j].proposal
    BY <1>0, <1>1 DEF BindsOK, Bound
  <1>6. b = a
    BY <1>4, <1>5 DEF Mine
  <1> DEFINE c == [a EXCEPT !.consumed = TRUE]
  <1>7. c.job = j /\ c.digest = a.digest /\ c.consumed = TRUE
    BY <1>4 DEF TypeOK, Approvals
  <1>8. approvals' = (approvals \ {a}) \cup {c}
    BY <1>4 DEF Spend
  <1> HIDE DEF c
  <1>9. Mine(j)' = {c}
    BY <1>5, <1>6, <1>7, <1>8 DEF Mine
  <1>10. Bound(j, TRUE)'
    BY <1>2, <1>5, <1>6, <1>7, <1>9 DEF Bound
  <1>11. /\ Recorded("reject", j)' => Recorded("reject", j)
         /\ Recorded("cancel", j)' => Recorded("cancel", j)
         /\ Recorded("approve", j) => Recorded("approve", j)'
         /\ Recorded("export", j)'
    BY DecideRecords DEF Export
  <1>12. Recorded("approve", j) /\ ~Recorded("reject", j) /\ ~Recorded("cancel", j)
    BY <1>0, <1>1, <1>3 DEF DecidedOK
  <1> QED BY <1>2, <1>10, <1>11, <1>12 DEF BindsOK, DecidedOK, TerminalStates

LEMMA ApprovalNext ==
    TypeOK /\ CancelInv /\ RowInv /\ ApprovalInv /\ [Next]_vars => ApprovalInv'
  <1> SUFFICES ASSUME TypeOK, CancelInv, RowInv, ApprovalInv, [Next]_vars, NEW j \in Jobs
               PROVE  (BindsOK(j) /\ DecidedOK(j))'
    BY DEF ApprovalInv
  <1>0. job \in [Jobs -> Rows] /\ RowStep(j)
    BY RowSteps DEF TypeOK
  <1>1. CASE Owner
    <2>0. PICK i \in Jobs :
             \/ Create(i)
             \/ Enqueue(i)
             \/ \E k \in Keys :
                   \/ RequestCancel(i, k)
                   \/ \E d \in Digests : Reject(i, k, d)
                   \/ \E d \in Digests, t \in Tokens : Approve(i, k, d, t)
                   \/ \E d \in Digests, t \in Tokens : Export(i, k, d, t)
      BY <1>1 DEF Owner
    <2>1. CASE Create(i) \/ Enqueue(i)
      <3>1. Undecided(j)
        BY <2>1 DEF Create, Enqueue, Undecided, Mine, Recorded
      <3>2. \/ job'[j] = job[j]
            \/ job[j].state = "absent" /\ job'[j] = [job[j] EXCEPT !.state = "draft"]
            \/ job[j].state = "draft" /\ job'[j] = Moved(job[j], "queued", NoDigest)
        BY <1>0, <2>1 DEF Create, Enqueue
      <3> QED BY <3>1, <3>2, UndecidedKeeps DEF SameView
    <2>2. ASSUME NEW k \in Keys,
                 \/ RequestCancel(i, k)
                 \/ \E d \in Digests : Reject(i, k, d)
                 \/ \E d \in Digests, t \in Tokens : Approve(i, k, d, t)
                 \/ \E d \in Digests, t \in Tokens : Export(i, k, d, t),
                 i # j
          PROVE  (BindsOK(j) /\ DecidedOK(j))'
      <3>1. job'[j] = job[j]
        BY <1>0, <2>2 DEF RequestCancel, Reject, Approve, Export
      <3>2. PICK op : Decide(op, k, i)
        BY <2>2 DEF RequestCancel, Reject, Approve, Export
      <3>3. \A o : Recorded(o, j)' <=> Recorded(o, j)
        BY <2>2, <3>2, DecideRecords
      <3>4. Mine(j)' = Mine(j)
        <4>1. CASE UNCHANGED approvals
          BY <4>1 DEF Mine
        <4>2. ASSUME NEW d \in Digests, NEW t \in Tokens, Approve(i, k, d, t)
              PROVE  Mine(j)' = Mine(j)
          <5> DEFINE a == [token |-> t, job |-> i, digest |-> d, consumed |-> FALSE]
          <5>1. approvals' = approvals \cup {a} /\ a.job = i
            BY <4>2 DEF Approve
          <5> HIDE DEF a
          <5> QED BY <2>2, <5>1 DEF Mine
        <4>3. ASSUME NEW d \in Digests, NEW t \in Tokens, Export(i, k, d, t)
              PROVE  Mine(j)' = Mine(j)
          <5>1. PICK a \in approvals : a.job = i /\ Spend(a)
            BY <4>3 DEF Export
          <5> DEFINE c == [a EXCEPT !.consumed = TRUE]
          <5>2. c.job = i
            BY <5>1 DEF TypeOK, Approvals
          <5>3. approvals' = (approvals \ {a}) \cup {c}
            BY <5>1 DEF Spend
          <5> HIDE DEF c
          <5> QED BY <2>2, <5>1, <5>2, <5>3 DEF Mine
        <4> QED BY <2>2, <4>1, <4>2, <4>3 DEF RequestCancel, Reject
      <3> QED BY <3>1, <3>3, <3>4, UndecidedKeeps DEF Undecided, SameView
    <2>3. CASE i = j
      BY <2>0, <2>1, <2>3, CancelKeeps, RejectKeeps, ApproveKeeps, ExportKeeps
    <2> QED BY <2>0, <2>1, <2>2, <2>3
  <1>2. CASE ~Owner
    <2>1. UNCHANGED <<approvals, decided>>
      <3>1. ASSUME NEW s \in Slots, RunStep(s) \/ RunError(s) \/ RecoveryRequired(s)
            PROVE  UNCHANGED <<approvals, decided>>
        BY <3>1 DEF RunStep, Start, Intake, Ingest, Load, LoadFailed, RecordFailure, Begin,
                    Move, CheckCancel, Collect, Upload, Announce, Handler, Teardown, Release,
                    RunError, RecoveryRequired, StoreUnchanged
      <3>2. CASE Reconcile \/ Rest \/ UNCHANGED vars
        BY <3>2 DEF Reconcile, Rest, vars
      <3>3. ASSUME NEW p \in Procs,
                   List(p) \/ ClaimLost(p) \/ Crash(p) \/ \E s \in Slots : Claim(p, s)
            PROVE  UNCHANGED <<approvals, decided>>
        BY <3>3 DEF List, ClaimLost, Crash, Claim, StoreUnchanged
      <3>4. ASSUME NEW i \in Jobs, LeaseLapses(i) \/ ProposalExpires(i)
            PROVE  UNCHANGED <<approvals, decided>>
        BY <3>4 DEF LeaseLapses, ProposalExpires
      <3> QED BY <1>2, <3>1, <3>2, <3>3, <3>4 DEF Next
    <2>2. Undecided(j)
      BY <2>1 DEF Undecided, Mine, Recorded
    <2> QED BY <1>2, <2>2, WorkSteps, UndecidedKeeps DEF WorkStep
  <1> QED BY <1>1, <1>2

(* A job that is being applied has exactly one approval, unspent, of the     *)
(* proposal in its row; an exported one spent it once, and was never         *)
(* rejected or cancelled: whatever requests are repeated, delayed or         *)
(* interleaved with runs, reconciliations and crashes.                       *)
THEOREM ApprovalsBind == Spec => []ApprovalBinds
  <1>1. Init => ApprovalInv
    <2> SUFFICES ASSUME Init, NEW j \in Jobs PROVE BindsOK(j) /\ DecidedOK(j)
      BY DEF ApprovalInv
    <2>1. job[j].state = "absent" /\ ~job[j].consumed /\ Mine(j) = {}
      BY DEF Init, NewRow, Mine
    <2>2. \A o : ~Recorded(o, j)
      BY DEF Init, Recorded
    <2> QED BY <2>1, <2>2 DEF BindsOK, DecidedOK
  <1>2. ApprovalInv => ApprovalBinds
    BY BindsMeaning DEF ApprovalInv
  <1> QED BY <1>1, <1>2, TypeInit, TypeNext, GenInit, GenNext, CancelInit, CancelNext,
             StageInit, StageNext, RowNext, ApprovalNext, PTL DEF Spec
=============================================================================
