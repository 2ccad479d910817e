----------------------- MODULE EngineeringCoreProofs -----------------------
(***************************************************************************)
(* Proofs about EngineeringCore, for any number of jobs, processes, slots, *)
(* work roots and failures.                                                *)
(***************************************************************************)
EXTENDS EngineeringCore, TLAPS

(* The effects of JobStore keep a row a row. *)
LEMMA RowEffects ==
    ASSUME NEW row \in Rows
    PROVE  /\ \A p \in Procs : Claimed(row, p) \in Rows
           /\ Released(row) \in Rows
           /\ \A to \in JobStates, d \in Digests \cup {NoDigest} : Moved(row, to, d) \in Rows
           /\ \A spent \in BOOLEAN : Reconciled(row, spent) \in Rows
           /\ Cancelled(row) \in Rows
           /\ Rejected(row) \in Rows
           /\ Approved(row) \in Rows
           /\ Exported(row) \in Rows
  <1>0. row.revision + 1 \in Nat /\ row.gen + 1 \in Nat
    BY DEF Rows
  <1>1. \A p \in Procs : Claimed(row, p) \in Rows
    BY <1>0, Zenon DEF Claimed, Rows
  <1>2. Released(row) \in Rows
    BY DEF Released, Rows
  <1>3. \A to \in JobStates, d \in Digests \cup {NoDigest} : Moved(row, to, d) \in Rows
    <2> SUFFICES ASSUME NEW to \in JobStates, NEW d \in Digests \cup {NoDigest}
                 PROVE  Moved(row, to, d) \in Rows
      OBVIOUS
    <2> DEFINE q == IF d = NoDigest THEN row.proposal ELSE d
               f == row.fresh \/ to = "awaiting_approval"
    <2>1. q \in Digests \cup {NoDigest} BY DEF Rows
    <2>2. f \in BOOLEAN OBVIOUS
    <2>3. Moved(row, to, d) = [row EXCEPT !.state = to, !.revision = row.revision + 1,
                                          !.proposal = q, !.fresh = f]
      BY DEF Moved
    <2> HIDE DEF q, f
    <2> QED BY <1>0, <2>1, <2>2, <2>3, Zenon DEF Rows
  <1>4. \A spent \in BOOLEAN : Reconciled(row, spent) \in Rows
    <2> SUFFICES ASSUME NEW spent \in BOOLEAN PROVE Reconciled(row, spent) \in Rows
      OBVIOUS
    <2>1. ReconcileTarget(row, spent) \in JobStates
      BY DEF ReconcileTarget, JobStates, TerminalStates
    <2>2. Released(row).revision + 1 \in Nat
      BY <1>2 DEF Rows
    <2> QED BY <1>2, <2>1, <2>2, Zenon DEF Reconciled, Rows
  <1>5. Cancelled(row) \in Rows
    <2> DEFINE st == IF row.state \in {"awaiting_approval", "applying"}
                     THEN "cancelled" ELSE row.state
    <2>1. st \in JobStates BY DEF JobStates, TerminalStates, Rows
    <2>2. Cancelled(row) = [row EXCEPT !.cancel = TRUE, !.revision = row.revision + 1,
                                       !.state = st]
      BY DEF Cancelled
    <2> HIDE DEF st
    <2> QED BY <1>0, <2>1, <2>2, Zenon DEF Rows
  <1>6. Rejected(row) \in Rows /\ Approved(row) \in Rows /\ Exported(row) \in Rows
    <2>1. "rejected" \in JobStates /\ "applying" \in JobStates /\ "completed" \in JobStates
      BY DEF JobStates, TerminalStates
    <2> QED BY <1>0, <2>1, Zenon DEF Rejected, Approved, Exported, Rows
  <1> QED BY <1>1, <1>2, <1>3, <1>4, <1>5, <1>6

(* The part of TypeOK that concerns the slots. *)
RunOK == /\ run \in [Slots -> Runs]
         /\ \A s \in Slots : run[s].pc # "idle" => run[s].job \in Jobs

LEMMA GotoType ==
    ASSUME RunOK, NEW s \in Slots, run[s].pc # "idle", NEW pc \in PCs, Goto(s, pc)
    PROVE  RunOK'
  BY DEF RunOK, Goto, Runs

LEMMA ReadType ==
    ASSUME RunOK, job \in [Jobs -> Rows], NEW s \in Slots, run[s].pc # "idle",
           NEW pc \in PCs, Read(s, pc)
    PROVE  RunOK'
  <1>1. Row(s).revision \in Nat
    BY DEF RunOK, Row, Rows
  <1> QED BY <1>1 DEF RunOK, Read, Runs

LEMMA LeaveType ==
    ASSUME RunOK, holder \in [Roots -> Slots \cup {NoSlot}],
           NEW s \in Slots, run[s].pc # "idle", Leave(s)
    PROVE  RunOK' /\ holder' \in [Roots -> Slots \cup {NoSlot}]
  <1>1. "releasing" \in PCs BY DEF PCs
  <1> QED BY <1>1, GotoType DEF Leave

LEMMA FaultType ==
    ASSUME faults \in 0..MaxFaults, Fault \/ NoFault
    PROVE  faults' \in 0..MaxFaults
  BY CoreAssumption DEF Fault, NoFault

LEMMA MoveType ==
    ASSUME TypeOK, NEW s \in Slots, run[s].pc \in DOMAIN MoveTarget, DoMove(s)
    PROVE  job' \in [Jobs -> Rows]
  <1>1. MoveTarget[run[s].pc] \in JobStates
    BY DEF MoveTarget, JobStates, TerminalStates
  <1>2. MoveDigest(s) \in Digests \cup {NoDigest}
    BY DEF TypeOK, MoveDigest, Runs
  <1>3. run[s].pc # "idle"
    BY DEF MoveTarget
  <1>4. run[s].job \in Jobs
    BY <1>3 DEF TypeOK
  <1>5. Moved(job[run[s].job], MoveTarget[run[s].pc], MoveDigest(s)) \in Rows
    BY <1>1, <1>2, <1>4, RowEffects DEF TypeOK
  <1> QED BY <1>5 DEF TypeOK, DoMove
(* Every place a step continues at is a program counter value. *)
LEMMA PCFacts ==
    /\ {"idle", "admitted", "releasing", "intake", "ingest", "load",
            "loadFailed", "recordFailure", "begin", "toIngest",
            "toPlan", "toExecute", "agent", "toTest", "upload",
            "handler", "handlerLate", "cancelTry", "cancelLate",
            "toFail", "toExpire", "teardown", "toAwait", "toComplete",
            "toTimeOut"} \subseteq PCs
    /\ \A pc \in PCs : OnError(pc) \in PCs
    /\ \A pc \in DOMAIN MoveTarget : AfterMove[pc] \in PCs /\ AfterMove[pc] # "idle"
    /\ "idle" \notin Inside \cup DOMAIN MoveTarget
  <1>1. {"idle", "admitted", "releasing", "intake", "ingest", "load",
            "loadFailed", "recordFailure", "begin", "toIngest",
            "toPlan", "toExecute", "agent", "toTest", "upload",
            "handler", "handlerLate", "cancelTry", "cancelLate",
            "toFail", "toExpire", "teardown", "toAwait", "toComplete",
            "toTimeOut"} \subseteq PCs
    BY DEF PCs, Inside, InTry, OutOfTry, Preparing
  <1>2. \A pc \in PCs : OnError(pc) \in PCs
    BY <1>1 DEF OnError
  <1>3. \A pc \in DOMAIN MoveTarget : AfterMove[pc] \in PCs /\ AfterMove[pc] # "idle"
    BY DEF MoveTarget, AfterMove, PCs, Inside, InTry, OutOfTry, Preparing
  <1>4. "idle" \notin Inside \cup DOMAIN MoveTarget
    BY DEF Inside, InTry, OutOfTry, Preparing, MoveTarget
  <1> QED BY <1>1, <1>2, <1>3, <1>4

-----------------------------------------------------------------------------
(* Type correctness, one lemma for each group of actions. *)

LEMMA OwnerType ==
    ASSUME TypeOK, Owner
    PROVE  TypeOK'
  <1> USE DEF TypeOK
  <1>0. PICK j \in Jobs :
           \/ Create(j)
           \/ Enqueue(j)
           \/ \E k \in Keys :
                 \/ RequestCancel(j, k)
                 \/ \E d \in Digests : Reject(j, k, d)
                 \/ \E d \in Digests, t \in Tokens : Approve(j, k, d, t)
                 \/ \E d \in Digests, t \in Tokens : Export(j, k, d, t)
    BY DEF Owner
  <1>d. ASSUME NEW op \in Ops, NEW k \in Keys, Decide(op, k, j)
        PROVE  decided' \subseteq [op : Ops, key : Keys, job : Jobs]
    BY <1>d DEF Decide
  <1>1. CASE Create(j)
    <2>1. [job[j] EXCEPT !.state = "draft"] \in Rows
      BY DEF Rows, JobStates
    <2>2. job' = [job EXCEPT ![j] = [job[j] EXCEPT !.state = "draft"]]
      BY <1>1 DEF Create
    <2> QED BY <1>1, <2>1, <2>2 DEF Create
  <1>2. CASE Enqueue(j)
    <2>1. Moved(job[j], "queued", NoDigest) \in Rows
      BY RowEffects DEF JobStates
    <2> QED BY <1>2, <2>1 DEF Enqueue
  <1>3. ASSUME NEW k \in Keys, RequestCancel(j, k)
        PROVE  TypeOK'
    <2>1. Cancelled(job[j]) \in Rows BY RowEffects
    <2> QED BY <1>3, <1>d, <2>1 DEF RequestCancel, Ops
  <1>4. ASSUME NEW k \in Keys, NEW d \in Digests, Reject(j, k, d)
        PROVE  TypeOK'
    <2>1. Rejected(job[j]) \in Rows BY RowEffects
    <2> QED BY <1>4, <1>d, <2>1 DEF Reject, Ops
  <1>5. ASSUME NEW k \in Keys, NEW d \in Digests, NEW t \in Tokens, Approve(j, k, d, t)
        PROVE  TypeOK'
    <2>1. Approved(job[j]) \in Rows BY RowEffects
    <2>3. [token |-> t, job |-> j, digest |-> d, consumed |-> FALSE] \in Approvals
      BY Zenon DEF Approvals
    <2>2. approvals' \subseteq Approvals BY <1>5, <2>3 DEF Approve
    <2> QED BY <1>5, <1>d, <2>1, <2>2 DEF Approve, Ops
  <1>6. ASSUME NEW k \in Keys, NEW d \in Digests, NEW t \in Tokens, Export(j, k, d, t)
        PROVE  TypeOK'
    <2>1. Exported(job[j]) \in Rows BY RowEffects
    <2>2. PICK a \in approvals : Spend(a) BY <1>6 DEF Export
    <2>3. [a EXCEPT !.consumed = TRUE] \in Approvals BY DEF Approvals
    <2>4. approvals' \subseteq Approvals BY <2>2, <2>3 DEF Spend
    <2> QED BY <1>6, <1>d, <2>1, <2>4 DEF Export, Ops
  <1> QED BY <1>0, <1>1, <1>2, <1>3, <1>4, <1>5, <1>6

LEMMA SchedulerType ==
    ASSUME TypeOK,
           \/ Reconcile
           \/ \E p \in Procs : List(p) \/ ClaimLost(p) \/ \E s \in Slots : Claim(p, s)
    PROVE  TypeOK'
  <1> USE DEF TypeOK
  <1>1. CASE Reconcile
    <2>1. \A j \in Jobs : Reconciled(job[j], SpentApproval(j)) \in Rows
      BY RowEffects DEF SpentApproval
    <2> QED BY <1>1, <2>1 DEF Reconcile
  <1>2. ASSUME NEW p \in Procs, List(p) \/ ClaimLost(p)
        PROVE  TypeOK'
    BY <1>2 DEF List, ClaimLost, StoreUnchanged
  <1>3. ASSUME NEW p \in Procs, NEW s \in Slots, Claim(p, s)
        PROVE  TypeOK'
    <2>1. listed[p] \in Jobs BY <1>3 DEF Claim
    <2>2. Claimed(job[listed[p]], p) \in Rows BY <2>1, RowEffects
    <2>3. job' \in [Jobs -> Rows] BY <1>3, <2>2 DEF Claim
    <2>4. job'[listed[p]].gen \in Nat BY <2>1, <2>3 DEF Rows
    <2>5. PICK pc \in {"admitted", "releasing"} :
             run' = [run EXCEPT ![s] = [pc |-> pc, job |-> listed[p],
                                        gen |-> job'[listed[p]].gen,
                                        rev |-> 0, digest |-> NoDigest]]
      BY <1>3 DEF Claim
    <2>6. [pc |-> pc, job |-> listed[p], gen |-> job'[listed[p]].gen,
           rev |-> 0, digest |-> NoDigest] \in Runs
      BY <2>1, <2>4, PCFacts DEF Runs
    <2>7. RunOK' BY <2>1, <2>5, <2>6 DEF RunOK
    <2>8. faults' \in 0..MaxFaults BY <1>3, FaultType DEF Claim
    <2> QED BY <1>3, <2>3, <2>7, <2>8 DEF Claim, RunOK
  <1> QED BY <1>1, <1>2, <1>3

LEMMA PrepareType ==
    ASSUME TypeOK, NEW s \in Slots,
           Start(s) \/ Intake(s) \/ Ingest(s) \/ Load(s) \/ LoadFailed(s) \/ RecordFailure(s)
    PROVE  TypeOK'
  <1>0. RunOK /\ job \in [Jobs -> Rows] /\ holder \in [Roots -> Slots \cup {NoSlot}]
    BY DEF TypeOK, RunOK
  <1>1. run[s].pc # "idle"
    BY DEF Start, Intake, Ingest, Load, LoadFailed, RecordFailure
  <1>2. run[s].job \in Jobs
    BY <1>1 DEF TypeOK
  <1>j. \A to \in {"ingesting", "failed"} : Moved(job[run[s].job], to, NoDigest) \in Rows
    BY <1>2, RowEffects DEF TypeOK, JobStates, TerminalStates
  <1>l. ASSUME Latch(s) PROVE latched' \in [Procs -> BOOLEAN]
    BY <1>l DEF Latch, TypeOK
  <1>3. CASE Start(s)
    <2>1. RunOK'
      BY <1>0, <1>1, <1>3, GotoType, PCFacts DEF Start
    <2>2. holder' \in [Roots -> Slots \cup {NoSlot}]
      BY <1>0, <1>3 DEF Start
    <2>3. faults' \in 0..MaxFaults
      BY <1>3, FaultType DEF Start, TypeOK, NoFault
    <2> QED BY <1>3, <2>1, <2>2, <2>3 DEF Start, TypeOK, RunOK, StoreUnchanged
  <1>4. CASE Intake(s)
    <2>1. RunOK' /\ holder' \in [Roots -> Slots \cup {NoSlot}]
      BY <1>0, <1>1, <1>4, ReadType, LeaveType, PCFacts DEF Intake
    <2>2. faults' \in 0..MaxFaults
      BY <1>4, FaultType DEF Intake, TypeOK, NoFault
    <2>3. latched' \in [Procs -> BOOLEAN]
      BY <1>4, <1>l DEF Intake, TypeOK
    <2> QED BY <1>4, <2>1, <2>2, <2>3 DEF Intake, TypeOK, RunOK, StoreUnchanged
  <1>5. CASE Ingest(s)
    <2>1. RunOK' /\ holder' \in [Roots -> Slots \cup {NoSlot}]
      BY <1>0, <1>1, <1>5, GotoType, LeaveType, PCFacts DEF Ingest
    <2>2. faults' \in 0..MaxFaults
      BY <1>5, FaultType DEF Ingest, TypeOK
    <2>3. job' \in [Jobs -> Rows]
      BY <1>0, <1>2, <1>5, <1>j DEF Ingest
    <2> QED BY <1>5, <2>1, <2>2, <2>3 DEF Ingest, TypeOK, RunOK
  <1>6. CASE Load(s)
    <2>1. RunOK' /\ holder' \in [Roots -> Slots \cup {NoSlot}]
      BY <1>0, <1>1, <1>6, GotoType, LeaveType, PCFacts DEF Load
    <2>2. faults' \in 0..MaxFaults
      BY <1>6, FaultType DEF Load, TypeOK, NoFault
    <2>3. latched' \in [Procs -> BOOLEAN]
      BY <1>6, <1>l DEF Load, TypeOK
    <2> QED BY <1>6, <2>1, <2>2, <2>3 DEF Load, TypeOK, RunOK, StoreUnchanged
  <1>7. CASE LoadFailed(s)
    <2>1. RunOK' /\ holder' \in [Roots -> Slots \cup {NoSlot}]
      BY <1>0, <1>1, <1>7, ReadType, LeaveType, PCFacts DEF LoadFailed
    <2> QED BY <1>7, <2>1 DEF LoadFailed, TypeOK, RunOK, StoreUnchanged
  <1>8. CASE RecordFailure(s)
    <2>1. RunOK' /\ holder' \in [Roots -> Slots \cup {NoSlot}]
      BY <1>0, <1>1, <1>8, LeaveType DEF RecordFailure
    <2>2. faults' \in 0..MaxFaults
      BY <1>8, FaultType DEF RecordFailure, TypeOK, NoFault
    <2>3. latched' \in [Procs -> BOOLEAN]
      BY <1>8, <1>l DEF RecordFailure, TypeOK
    <2>4. job' \in [Jobs -> Rows]
      BY <1>0, <1>2, <1>8, <1>j DEF RecordFailure
    <2> QED BY <1>8, <2>1, <2>2, <2>3, <2>4 DEF RecordFailure, TypeOK, RunOK
  <1> QED BY <1>3, <1>4, <1>5, <1>6, <1>7, <1>8

LEMMA RunType ==
    ASSUME TypeOK, NEW s \in Slots,
           \/ Begin(s) \/ Move(s) \/ CheckCancel(s) \/ Collect(s) \/ Upload(s)
           \/ Announce(s) \/ Handler(s) \/ RunError(s) \/ RecoveryRequired(s)
           \/ Teardown(s) \/ Release(s)
    PROVE  TypeOK'
  <1>0. RunOK /\ job \in [Jobs -> Rows] /\ holder \in [Roots -> Slots \cup {NoSlot}]
    BY DEF TypeOK, RunOK
  <1>1. run[s].pc # "idle"
    BY PCFacts DEF Begin, Move, CheckCancel, Collect, Upload, Announce, Handler,
                   RunError, RecoveryRequired, Teardown, Release, Inside
  <1>2. run[s].job \in Jobs
    BY <1>1 DEF TypeOK
  <1>p. run[s].pc \in PCs
    BY DEF TypeOK, Runs
  <1>e. OnError(run[s].pc) \in PCs
    BY <1>p, PCFacts
  <1>l. ASSUME Latch(s) PROVE latched' \in [Procs -> BOOLEAN]
    BY <1>l DEF Latch, TypeOK
  <1>3. CASE Begin(s)
    <2>1. RunOK'
      BY <1>0, <1>1, <1>3, GotoType, ReadType, PCFacts DEF Begin
    <2> QED BY <1>3, <2>1 DEF Begin, TypeOK, RunOK, StoreUnchanged
  <1>4. CASE Move(s)
    <2>1. run[s].pc \in DOMAIN MoveTarget
      BY <1>4 DEF Move
    <2>2. job' \in [Jobs -> Rows]
      BY <1>0, <1>4, <2>1, MoveType DEF Move
    <2>3. AfterMove[run[s].pc] \in PCs /\ AfterMove[run[s].pc] # "idle"
      BY <2>1, PCFacts
    <2>4. ASSUME run' = [run EXCEPT ![s].pc = AfterMove[@], ![s].rev = @ + 1]
          PROVE  RunOK'
      <3>1. run[s].rev + 1 \in Nat BY <1>0 DEF RunOK, Runs
      <3> QED BY <1>0, <1>2, <2>3, <2>4, <3>1 DEF RunOK, Runs
    <2>5. RunOK'
      BY <1>0, <1>1, <1>4, <1>e, <2>4, GotoType DEF Move
    <2>6. faults' \in 0..MaxFaults
      BY <1>4, FaultType DEF Move, TypeOK
    <2> QED BY <1>4, <2>2, <2>5, <2>6 DEF Move, TypeOK, RunOK
  <1>5. CASE CheckCancel(s)
    <2>1. RunOK'
      BY <1>0, <1>1, <1>5, GotoType, ReadType, PCFacts DEF CheckCancel
    <2> QED BY <1>5, <2>1 DEF CheckCancel, TypeOK, RunOK, StoreUnchanged
  <1>6. CASE Collect(s)
    <2>1. ASSUME NEW d \in Digests, run' = [run EXCEPT ![s].pc = "upload", ![s].digest = d]
          PROVE  RunOK'
      BY <1>0, <1>2, <2>1, PCFacts DEF RunOK, Runs
    <2>2. RunOK'
      BY <1>0, <1>1, <1>6, <2>1, GotoType, PCFacts DEF Collect
    <2> QED BY <1>6, <2>2 DEF Collect, TypeOK, RunOK, StoreUnchanged
  <1>7. CASE Upload(s)
    <2>1. RunOK'
      BY <1>0, <1>1, <1>7, GotoType, PCFacts DEF Upload
    <2>2. run[s].digest \in Digests \cup {NoDigest}
      BY <1>0 DEF RunOK, Runs
    <2>3. evidence' \subseteq Jobs \X (Digests \cup {NoDigest})
      BY <1>2, <1>7, <2>2 DEF Upload, TypeOK
    <2> QED BY <1>7, <2>1, <2>3 DEF Upload, TypeOK, RunOK
  <1>8. CASE Announce(s)
    <2>1. RunOK'
      BY <1>0, <1>1, <1>8, GotoType, PCFacts DEF Announce
    <2> QED BY <1>8, <2>1 DEF Announce, TypeOK, RunOK, StoreUnchanged
  <1>9. CASE Handler(s)
    <2>1. RunOK'
      BY <1>0, <1>1, <1>9, GotoType, ReadType, PCFacts DEF Handler
    <2> QED BY <1>9, <2>1 DEF Handler, TypeOK, RunOK, StoreUnchanged
  <1>10. CASE RunError(s)
    <2>1. RunOK' /\ holder' \in [Roots -> Slots \cup {NoSlot}]
      BY <1>0, <1>1, <1>10, <1>e, GotoType, LeaveType, PCFacts DEF RunError
    <2>2. faults' \in 0..MaxFaults
      BY <1>10, FaultType DEF RunError, TypeOK
    <2> QED BY <1>10, <2>1, <2>2 DEF RunError, TypeOK, RunOK, StoreUnchanged
  <1>11. CASE RecoveryRequired(s)
    <2>1. RunOK'
      BY <1>0, <1>1, <1>11, GotoType, PCFacts DEF RecoveryRequired
    <2>2. faults' \in 0..MaxFaults
      BY <1>11, FaultType DEF RecoveryRequired, TypeOK
    <2>3. latched' \in [Procs -> BOOLEAN]
      BY <1>11, <1>l DEF RecoveryRequired
    <2> QED BY <1>11, <2>1, <2>2, <2>3 DEF RecoveryRequired, TypeOK, RunOK, StoreUnchanged
  <1>12. CASE Teardown(s)
    <2>1. RunOK' /\ holder' \in [Roots -> Slots \cup {NoSlot}]
      BY <1>0, <1>1, <1>12, LeaveType DEF Teardown
    <2>2. faults' \in 0..MaxFaults
      BY <1>12, FaultType DEF Teardown, TypeOK, NoFault
    <2>3. latched' \in [Procs -> BOOLEAN]
      BY <1>12, <1>l DEF Teardown, TypeOK
    <2> QED BY <1>12, <2>1, <2>2, <2>3 DEF Teardown, TypeOK, RunOK, StoreUnchanged
  <1>13. CASE Release(s)
    <2>1. IdleRun \in Runs
      BY PCFacts DEF IdleRun, Runs
    <2>2. RunOK'
      BY <1>0, <1>13, <2>1 DEF Release, RunOK, IdleRun
    <2>3. Released(job[run[s].job]) \in Rows
      BY <1>0, <1>2, RowEffects
    <2>4. job' \in [Jobs -> Rows]
      BY <1>0, <1>2, <1>13, <2>3 DEF Release
    <2>5. faults' \in 0..MaxFaults
      BY <1>13, FaultType DEF Release, TypeOK
    <2> QED BY <1>13, <2>2, <2>4, <2>5 DEF Release, TypeOK, RunOK
  <1> QED BY <1>3, <1>4, <1>5, <1>6, <1>7, <1>8, <1>9, <1>10, <1>11, <1>12, <1>13

LEMMA EnvironmentType ==
    ASSUME TypeOK,
           \/ \E j \in Jobs : LeaseLapses(j) \/ ProposalExpires(j)
           \/ \E p \in Procs : Crash(p)
    PROVE  TypeOK'
  <1>1. ASSUME NEW j \in Jobs, LeaseLapses(j)
        PROVE  TypeOK'
    <2>0. job[j] \in Rows
      BY DEF TypeOK
    <2>1. [job[j] EXCEPT !.live = FALSE] \in Rows
      BY <2>0, Zenon DEF Rows
    <2>2. job' = [job EXCEPT ![j] = [job[j] EXCEPT !.live = FALSE]]
      BY <1>1 DEF LeaseLapses
    <2>3. faults' \in 0..MaxFaults
      BY <1>1, FaultType DEF LeaseLapses, TypeOK
    <2> QED BY <1>1, <2>1, <2>2, <2>3 DEF LeaseLapses, TypeOK
  <1>2. ASSUME NEW j \in Jobs, ProposalExpires(j)
        PROVE  TypeOK'
    <2>0. job[j] \in Rows
      BY DEF TypeOK
    <2>1. [job[j] EXCEPT !.fresh = FALSE] \in Rows
      BY <2>0, Zenon DEF Rows
    <2>2. job' = [job EXCEPT ![j] = [job[j] EXCEPT !.fresh = FALSE]]
      BY <1>2 DEF ProposalExpires
    <2> QED BY <1>2, <2>1, <2>2 DEF ProposalExpires, TypeOK
  <1>3. ASSUME NEW p \in Procs, Crash(p)
        PROVE  TypeOK'
    <2>1. IdleRun \in Runs
      BY PCFacts DEF IdleRun, Runs
    <2>2. RunOK'
      BY <1>3, <2>1 DEF Crash, RunOK, TypeOK, IdleRun
    <2>3. holder' \in [Roots -> Slots \cup {NoSlot}]
      BY <1>3 DEF Crash, TypeOK
    <2>4. listed' \in [Procs -> Jobs \cup {NoJob}] /\ latched' \in [Procs -> BOOLEAN]
      BY <1>3 DEF Crash, TypeOK
    <2>5. faults' \in 0..MaxFaults
      BY <1>3, FaultType DEF Crash, TypeOK
    <2> QED BY <1>3, <2>2, <2>3, <2>4, <2>5 DEF Crash, TypeOK, RunOK, StoreUnchanged
  <1> QED BY <1>1, <1>2, <1>3

LEMMA TypeInit == Init => TypeOK
  <1> SUFFICES ASSUME Init PROVE TypeOK
    OBVIOUS
  <1>1. NewRow \in Rows
    BY DEF NewRow, Rows, JobStates
  <1>2. IdleRun \in Runs
    BY PCFacts DEF IdleRun, Runs
  <1> QED BY <1>1, <1>2, CoreAssumption DEF Init, TypeOK, IdleRun

LEMMA TypeNext == TypeOK /\ [Next]_vars => TypeOK'
  <1> SUFFICES ASSUME TypeOK, [Next]_vars PROVE TypeOK'
    OBVIOUS
  <1>1. CASE UNCHANGED vars
    BY <1>1 DEF vars, TypeOK
  <1>2. CASE Rest
    BY <1>2 DEF Rest, vars, TypeOK
  <1>3. ASSUME NEW s \in Slots, RunStep(s) \/ RunError(s) \/ RecoveryRequired(s)
        PROVE  TypeOK'
    BY <1>3, PrepareType, RunType DEF RunStep
  <1> QED BY <1>1, <1>2, <1>3, OwnerType, SchedulerType, EnvironmentType DEF Next

(* Every table, slot, lock and latch keeps its type in every reachable      *)
(* state, however many processes, jobs and failures there are.              *)
THEOREM TypeCorrect == Spec => []TypeOK
  BY TypeInit, TypeNext, PTL DEF Spec

-----------------------------------------------------------------------------
(* The work root's lock. *)

(* A run inside "with guard" is the one its work root's lock names. *)
LockInv == \A s \in Slots : run[s].pc \in Inside => holder[Root(s)] = s

LEMMA RootType == \A s \in Slots : Root(s) \in Roots
  BY CoreAssumption DEF Root

(* Steps that keep the lock and do not enter or leave the guard. *)
LEMMA LockKept ==
    ASSUME TypeOK, LockInv, UNCHANGED holder,
           \A t \in Slots : run'[t].pc \in Inside => run[t].pc \in Inside
    PROVE  LockInv'
  BY DEF LockInv, Root

LEMMA LockLeave ==
    ASSUME TypeOK, LockInv, NEW s \in Slots, run[s].pc \in Inside, Leave(s)
    PROVE  LockInv'
  <1>1. "releasing" \notin Inside
    BY DEF Inside, InTry, OutOfTry, Preparing
  <1>2. run'[s].pc = "releasing"
    BY DEF TypeOK, Leave, Goto, Runs
  <1>3. \A t \in Slots \ {s} : run'[t] = run[t]
    BY DEF TypeOK, Leave, Goto
  <1> SUFFICES ASSUME NEW t \in Slots, run'[t].pc \in Inside
               PROVE  holder'[Root(t)] = t
    BY DEF LockInv, Root
  <1>4. t # s /\ run[t].pc \in Inside
    BY <1>1, <1>2, <1>3
  <1>5. holder[Root(t)] = t /\ holder[Root(s)] = s
    BY <1>4 DEF LockInv
  <1>6. Root(t) # Root(s)
    BY <1>4, <1>5
  <1> QED BY <1>5, <1>6, RootType DEF Leave, TypeOK

(* A step of a slot that only changes its own program counter, from inside *)
(* the guard.                                                              *)
LEMMA LockGoto ==
    ASSUME TypeOK, LockInv, UNCHANGED holder, NEW s \in Slots, run[s].pc \in Inside,
           \A t \in Slots \ {s} : run'[t] = run[t]
    PROVE  LockInv'
  BY LockKept

LEMMA LockPrepare ==
    ASSUME TypeOK, LockInv, NEW s \in Slots,
           Start(s) \/ Intake(s) \/ Ingest(s) \/ Load(s) \/ LoadFailed(s) \/ RecordFailure(s)
    PROVE  LockInv'
  <1>f. ASSUME NEW pc, Goto(s, pc) \/ Read(s, pc)
        PROVE  \A t \in Slots \ {s} : run'[t] = run[t]
    BY <1>f DEF Goto, Read, TypeOK
  <1>1. CASE Start(s)
    <2>1. CASE holder[Root(s)] = NoSlot /\ holder' = [holder EXCEPT ![Root(s)] = s]
               /\ Goto(s, "intake")
      <3> SUFFICES ASSUME NEW t \in Slots, run'[t].pc \in Inside
                   PROVE  holder'[Root(t)] = t
        BY DEF LockInv, Root
      <3>1. CASE t = s
        BY <2>1, <3>1, RootType DEF TypeOK
      <3>2. CASE t # s
        <4>1. holder[Root(t)] = t
          BY <1>f, <2>1, <3>2 DEF LockInv
        <4>2. Root(t) # Root(s)
          BY <2>1, <4>1, CoreAssumption
        <4> QED BY <2>1, <4>1, <4>2, RootType DEF TypeOK
      <3> QED BY <3>1, <3>2
    <2>2. CASE Goto(s, "releasing") /\ UNCHANGED holder
      <3>1. run'[s].pc = "releasing"
        BY <2>2 DEF Goto, TypeOK, Runs
      <3>2. "releasing" \notin Inside
        BY DEF Inside, InTry, OutOfTry, Preparing
      <3> QED BY <1>f, <2>2, <3>1, <3>2, LockKept
    <2> QED BY <1>1, <2>1, <2>2 DEF Start
  <1>2. CASE Intake(s) \/ Ingest(s) \/ Load(s) \/ LoadFailed(s) \/ RecordFailure(s)
    <2>1. run[s].pc \in Inside
      BY <1>2 DEF Intake, Ingest, Load, LoadFailed, RecordFailure, Inside, Preparing
    <2>2. \/ Leave(s)
          \/ UNCHANGED holder /\ \E pc : Goto(s, pc) \/ Read(s, pc)
      BY <1>2 DEF Intake, Ingest, Load, LoadFailed, RecordFailure
    <2> QED BY <1>f, <2>1, <2>2, LockLeave, LockGoto
  <1> QED BY <1>1, <1>2

LEMMA LockRun ==
    ASSUME TypeOK, LockInv, NEW s \in Slots,
           \/ Begin(s) \/ Move(s) \/ CheckCancel(s) \/ Collect(s) \/ Upload(s)
           \/ Announce(s) \/ Handler(s) \/ RunError(s) \/ RecoveryRequired(s)
           \/ Teardown(s) \/ Release(s)
    PROVE  LockInv'
  <1>1. CASE Release(s)
    <2>1. UNCHANGED holder /\ run' = [run EXCEPT ![s] = IdleRun]
      BY <1>1 DEF Release
    <2>2. \A t \in Slots : run'[t].pc \in Inside => run[t].pc \in Inside
      BY <2>1, PCFacts DEF TypeOK, IdleRun
    <2> QED BY <2>1, <2>2, LockKept
  <1>2. CASE ~Release(s)
    <2>1. run[s].pc \in Inside
      BY <1>2 DEF Begin, Move, CheckCancel, Collect, Upload, Announce, Handler, RunError,
                  RecoveryRequired, Teardown, Inside, InTry, OutOfTry, Preparing, MoveTarget
    <2>2. \/ Leave(s)
          \/ UNCHANGED holder /\ \A t \in Slots \ {s} : run'[t] = run[t]
      BY <1>2 DEF Begin, Move, CheckCancel, Collect, Upload, Announce, Handler, RunError,
                  RecoveryRequired, Teardown, Goto, Read, TypeOK
    <2> QED BY <2>1, <2>2, LockLeave, LockGoto
  <1> QED BY <1>1, <1>2

LEMMA LockNext == TypeOK /\ LockInv /\ [Next]_vars => LockInv'
  <1> SUFFICES ASSUME TypeOK, LockInv, [Next]_vars PROVE LockInv'
    OBVIOUS
  <1>1. CASE UNCHANGED <<run, holder>>
    BY <1>1 DEF LockInv, Root
  <1>2. ASSUME NEW s \in Slots, RunStep(s) \/ RunError(s) \/ RecoveryRequired(s)
        PROVE  LockInv'
    BY <1>2, LockPrepare, LockRun DEF RunStep
  <1>3. ASSUME NEW p \in Procs, NEW s \in Slots, Claim(p, s)
        PROVE  LockInv'
    <2>1. \A t \in Slots \ {s} : run'[t] = run[t]
      BY <1>3 DEF Claim, TypeOK
    <2>2. run'[s].pc \in {"admitted", "releasing"}
      BY <1>3 DEF Claim, TypeOK
    <2>3. "admitted" \notin Inside /\ "releasing" \notin Inside
      BY DEF Inside, InTry, OutOfTry, Preparing
    <2> QED BY <1>3, <2>1, <2>2, <2>3, LockKept DEF Claim
  <1>4. ASSUME NEW p \in Procs, Crash(p)
        PROVE  LockInv'
    <2> SUFFICES ASSUME NEW t \in Slots, run'[t].pc \in Inside
                 PROVE  holder'[Root(t)] = t
      BY DEF LockInv, Root
    <2>1. ProcOf[t] # p
      BY <1>4, PCFacts DEF Crash, IdleRun
    <2>2. holder[Root(t)] = t
      BY <1>4, <2>1 DEF Crash, LockInv
    <2> QED BY <1>4, <2>1, <2>2, RootType DEF Crash
  <1>5. CASE Owner
    BY <1>1, <1>5 DEF Owner, Create, Enqueue, RequestCancel, Reject, Approve, Export
  <1>6. CASE Reconcile
    BY <1>1, <1>6 DEF Reconcile
  <1>7. ASSUME NEW p \in Procs, List(p) \/ ClaimLost(p)
        PROVE  LockInv'
    BY <1>1, <1>7 DEF List, ClaimLost
  <1>8. ASSUME NEW j \in Jobs, LeaseLapses(j) \/ ProposalExpires(j)
        PROVE  LockInv'
    BY <1>1, <1>8 DEF LeaseLapses, ProposalExpires
  <1>9. CASE Rest \/ UNCHANGED vars
    BY <1>1, <1>9 DEF Rest, vars
  <1> QED BY <1>2, <1>3, <1>4, <1>5, <1>6, <1>7, <1>8, <1>9 DEF Next

(* No two runs ever work in the same work root at the same time: the lock   *)
(* discipline of _execute, for any number of processes sharing any roots.   *)
THEOREM ExecutionIsExclusive == Spec => []ExclusiveExecution
  <1>1. Init => LockInv
    BY PCFacts DEF Init, LockInv, IdleRun
  <1>2. LockInv => ExclusiveExecution
    BY DEF LockInv, ExclusiveExecution
  <1> QED BY <1>1, <1>2, TypeInit, TypeNext, LockNext, PTL DEF Spec

-----------------------------------------------------------------------------
(* Fencing: the generations of the runs of one job. *)

GenInv ==
    /\ \A s \in Slots : run[s].pc # "idle" => run[s].gen <= job[run[s].job].gen
    /\ \A s, t \in Slots : /\ s # t /\ run[s].pc # "idle" /\ run[t].pc # "idle"
                           /\ run[s].job = run[t].job
                           => run[s].gen # run[t].gen

(* Every effect but a claim keeps the generation of the row. *)
LEMMA GenerationKept ==
    ASSUME NEW row \in Rows
    PROVE  /\ Released(row).gen = row.gen
           /\ \A to, d : Moved(row, to, d).gen = row.gen
           /\ \A spent : Reconciled(row, spent).gen = row.gen
           /\ Cancelled(row).gen = row.gen
           /\ Rejected(row).gen = row.gen
           /\ Approved(row).gen = row.gen
           /\ Exported(row).gen = row.gen
  BY DEF Released, Moved, Reconciled, Cancelled, Rejected, Approved, Exported, Rows

(* A step that claims nothing: no generation changes, no run appears. *)
NoClaim ==
    /\ \A j \in Jobs : job'[j].gen = job[j].gen
    /\ \A s \in Slots : run'[s].pc # "idle" => /\ run[s].pc # "idle"
                                               /\ run'[s].job = run[s].job
                                               /\ run'[s].gen = run[s].gen

LEMMA NoClaimKeeps ==
    ASSUME TypeOK, GenInv, NoClaim
    PROVE  GenInv'
  BY DEF TypeOK, GenInv, NoClaim

(* A step of slot s leaves the other slots alone and keeps its own lease, or *)
(* ends.                                                                     *)
OnlySlot(s) ==
    /\ \A t \in Slots \ {s} : run'[t] = run[t]
    /\ \/ run'[s] = IdleRun
       \/ run'[s].job = run[s].job /\ run'[s].gen = run[s].gen

LEMMA SlotNoClaim ==
    ASSUME TypeOK, NEW s \in Slots, RunStep(s) \/ RunError(s) \/ RecoveryRequired(s)
    PROVE  NoClaim
  <1>1. run[s].pc # "idle"
    BY PCFacts DEF RunStep, Start, Intake, Ingest, Load, LoadFailed, RecordFailure, Begin, Move,
                   CheckCancel, Collect, Upload, Announce, Handler, RunError,
                   RecoveryRequired, Teardown, Release, Inside
  <1>2. run[s].job \in Jobs /\ job \in [Jobs -> Rows] /\ run \in [Slots -> Runs]
    BY <1>1 DEF TypeOK
  <1>3. \/ UNCHANGED job
        \/ \E to, d : job' = [job EXCEPT ![run[s].job] = Moved(@, to, d)]
        \/ job' = [job EXCEPT ![run[s].job] = Released(@)]
    <2>1. CASE Ingest(s)
      BY <2>1 DEF Ingest
    <2>2. CASE RecordFailure(s)
      BY <2>2 DEF RecordFailure
    <2>3. CASE Move(s)
      BY <2>3 DEF Move, DoMove
    <2>4. CASE Release(s)
      <3>1. \/ UNCHANGED job
            \/ job' = [job EXCEPT ![run[s].job] = job[run[s].job]]
            \/ job' = [job EXCEPT ![run[s].job] = Released(@)]
        BY <2>4 DEF Release
      <3> QED BY <1>2, <3>1
    <2>5. CASE \/ Start(s) \/ Intake(s) \/ Load(s) \/ LoadFailed(s) \/ Begin(s)
               \/ CheckCancel(s) \/ Collect(s) \/ Upload(s) \/ Announce(s) \/ Handler(s)
               \/ Teardown(s) \/ RunError(s) \/ RecoveryRequired(s)
      BY <2>5 DEF Start, Intake, Load, LoadFailed, Begin, CheckCancel, Collect, Upload,
                  Announce, Handler, Teardown, RunError, RecoveryRequired, StoreUnchanged
    <2> QED BY <2>1, <2>2, <2>3, <2>4, <2>5 DEF RunStep
  <1>4. \A j \in Jobs : job'[j].gen = job[j].gen
    BY <1>2, <1>3, GenerationKept
  <1>5. OnlySlot(s)
    <2>g. ASSUME NEW pc, Goto(s, pc) \/ Read(s, pc)
          PROVE  OnlySlot(s)
      BY <1>2, <2>g DEF Goto, Read, Runs, OnlySlot
    <2>1. CASE Move(s)
      <3>1. ASSUME run' = [run EXCEPT ![s].pc = AfterMove[@], ![s].rev = @ + 1]
            PROVE  OnlySlot(s)
        BY <1>2, <3>1 DEF Runs, OnlySlot
      <3> QED BY <2>1, <2>g, <3>1 DEF Move
    <2>2. CASE Collect(s)
      <3>1. ASSUME NEW d, run' = [run EXCEPT ![s].pc = "upload", ![s].digest = d]
            PROVE  OnlySlot(s)
        BY <1>2, <3>1 DEF Runs, OnlySlot
      <3> QED BY <2>2, <2>g, <3>1 DEF Collect
    <2>3. CASE Release(s)
      BY <1>2, <2>3 DEF Release, OnlySlot
    <2>4. CASE \/ Start(s) \/ Intake(s) \/ Ingest(s) \/ Load(s) \/ LoadFailed(s)
               \/ RecordFailure(s) \/ Begin(s) \/ CheckCancel(s) \/ Upload(s) \/ Announce(s)
               \/ Handler(s) \/ Teardown(s) \/ RunError(s) \/ RecoveryRequired(s)
      <3>1. \E pc : Goto(s, pc) \/ Read(s, pc)
        BY <2>4 DEF Start, Intake, Ingest, Load, LoadFailed, RecordFailure, Begin, CheckCancel,
                    Upload, Announce, Handler, Teardown, RunError, RecoveryRequired, Leave
      <3> QED BY <3>1, <2>g
    <2> QED BY <2>1, <2>2, <2>3, <2>4 DEF RunStep
  <1>6. \A t \in Slots : run'[t].pc # "idle" => /\ run[t].pc # "idle"
                                                /\ run'[t].job = run[t].job
                                                /\ run'[t].gen = run[t].gen
    BY <1>1, <1>5 DEF OnlySlot, IdleRun
  <1> QED BY <1>4, <1>6 DEF NoClaim

LEMMA GenNext == TypeOK /\ GenInv /\ [Next]_vars => GenInv'
  <1> SUFFICES ASSUME TypeOK, GenInv, [Next]_vars PROVE GenInv'
    OBVIOUS
  <1>0. job \in [Jobs -> Rows]
    BY DEF TypeOK
  <1>1. ASSUME UNCHANGED run, \A j \in Jobs : job'[j].gen = job[j].gen
        PROVE  GenInv'
    BY <1>1, NoClaimKeeps DEF NoClaim
  <1>2. ASSUME NEW s \in Slots, RunStep(s) \/ RunError(s) \/ RecoveryRequired(s)
        PROVE  GenInv'
    BY <1>2, SlotNoClaim, NoClaimKeeps
  <1>3. ASSUME NEW p \in Procs, NEW s \in Slots, Claim(p, s)
        PROVE  GenInv'
    <2> DEFINE j == listed[p]
    <2>1. j \in Jobs /\ run[s].pc = "idle"
      BY <1>3 DEF Claim, TypeOK, IdleSlots
    <2>2. \A t \in Slots \ {s} : run'[t] = run[t]
      BY <1>3 DEF Claim, TypeOK
    <2>3. run'[s].job = j /\ run'[s].gen = job'[j].gen
      BY <1>3 DEF Claim, TypeOK
    <2>4. job' = [job EXCEPT ![j] = Claimed(job[j], p)]
      BY <1>3 DEF Claim
    <2>5. job'[j].gen = job[j].gen + 1
      BY <1>0, <2>1, <2>4 DEF Claimed, Rows
    <2>6. \A i \in Jobs \ {j} : job'[i] = job[i]
      BY <1>0, <2>4
    <2>7. \A i \in Jobs : job[i].gen \in Nat
      BY <1>0 DEF Rows
    <2>8. \A t \in Slots : run[t].gen \in Nat /\ (run[t].pc # "idle" => run[t].job \in Jobs)
      BY DEF TypeOK, Runs
    <2> HIDE DEF j
    <2> QED BY <2>1, <2>2, <2>3, <2>5, <2>6, <2>7, <2>8 DEF GenInv
  <1>4. ASSUME NEW p \in Procs, Crash(p)
        PROVE  GenInv'
    <2>1. NoClaim
      BY <1>4 DEF Crash, StoreUnchanged, NoClaim, IdleRun
    <2> QED BY <2>1, NoClaimKeeps
  <1>5. CASE Owner
    <2>1. UNCHANGED run
      BY <1>5 DEF Owner, Create, Enqueue, RequestCancel, Reject, Approve, Export
    <2>2. \A j \in Jobs : job'[j].gen = job[j].gen
      <3>1. PICK j \in Jobs : \/ job' = [job EXCEPT ![j].state = "draft"]
                              \/ job' = [job EXCEPT ![j] = Moved(@, "queued", NoDigest)]
                              \/ job' = [job EXCEPT ![j] = Cancelled(@)]
                              \/ job' = [job EXCEPT ![j] = Rejected(@)]
                              \/ job' = [job EXCEPT ![j] = Approved(@)]
                              \/ job' = [job EXCEPT ![j] = Exported(@)]
        BY <1>5 DEF Owner, Create, Enqueue, RequestCancel, Reject, Approve, Export
      <3>2. CASE job' = [job EXCEPT ![j].state = "draft"]
        BY <1>0, <3>2 DEF Rows
      <3> QED BY <1>0, <3>1, <3>2, GenerationKept
    <2> QED BY <1>1, <2>1, <2>2
  <1>6. CASE Reconcile
    <2>1. \A j \in Jobs : job'[j].gen = job[j].gen
      BY <1>0, <1>6, GenerationKept DEF Reconcile
    <2> QED BY <1>1, <1>6, <2>1 DEF Reconcile
  <1>7. ASSUME NEW p \in Procs, List(p) \/ ClaimLost(p)
        PROVE  GenInv'
    BY <1>1, <1>7 DEF List, ClaimLost, StoreUnchanged
  <1>8. ASSUME NEW j \in Jobs, LeaseLapses(j) \/ ProposalExpires(j)
        PROVE  GenInv'
    <2>1. \A i \in Jobs : job'[i].gen = job[i].gen
      BY <1>0, <1>8 DEF LeaseLapses, ProposalExpires, Rows
    <2> QED BY <1>1, <1>8, <2>1 DEF LeaseLapses, ProposalExpires
  <1>9. CASE Rest \/ UNCHANGED vars
    BY <1>1, <1>9 DEF Rest, vars
  <1> QED BY <1>2, <1>3, <1>4, <1>5, <1>6, <1>7, <1>8, <1>9 DEF Next

LEMMA GenInit == Init => GenInv
  BY DEF Init, GenInv, IdleRun

(* Of all the runs of a job, stalled, replaced or current, at most one      *)
(* passes the lease test of the store, in every reachable state and for any *)
(* number of processes: the generation raised by each claim fences the rest.*)
THEOREM WritersAreFenced == Spec => []SingleWriter
  <1>1. GenInv => SingleWriter
    BY DEF GenInv, SingleWriter, Holding, HoldsLease, OwnsLease, Row
  <1> QED BY <1>1, TypeInit, TypeNext, GenInit, GenNext, PTL DEF Spec

-----------------------------------------------------------------------------
(* Cancellation: what a run may still do with the revision it remembers. *)

(* Places from which run_job goes on with the job. *)
Carrying == {"toIngest", "toPlan", "planned", "toExecute", "executed", "agent", "toTest",
             "toCollect", "collect", "upload", "toAwait", "toComplete", "toTimeOut"}

Uncancellable == {"awaiting_approval", "applying", "rejected", "completed"}

(* A remembered revision is never ahead of the row, and when it is the       *)
(* current one a run that goes on has seen that no cancellation is recorded. *)
CancelInv ==
    /\ \A s \in Slots : run[s].pc # "idle" =>
          /\ run[s].rev <= Row(s).revision
          /\ run[s].pc \in Carrying /\ run[s].rev = Row(s).revision => ~Row(s).cancel
    /\ CancelHonoured

(* What every transaction does to a row: the revision never falls, and the   *)
(* cancellation is recorded only together with a new revision.               *)
Advances(old, new) ==
    /\ new.revision >= old.revision
    /\ new.revision = old.revision => new.cancel = old.cancel
    /\ new.cancel => new.state \notin Uncancellable

LEMMA CancelRows ==
    ASSUME NEW row \in Rows, row.cancel => row.state \notin Uncancellable
    PROVE  /\ Advances(row, row)
           /\ \A p : Advances(row, Claimed(row, p))
           /\ Advances(row, Released(row))
           /\ \A to, d : (row.cancel => to \notin Uncancellable)
                            => Advances(row, Moved(row, to, d))
           /\ \A rev : MayCancel(row, rev) => Advances(row, Cancelled(row))
           /\ row.state = "awaiting_approval" => Advances(row, Rejected(row))
           /\ row.state = "awaiting_approval" => Advances(row, Approved(row))
           /\ row.state = "applying" => Advances(row, Exported(row))
           /\ Advances(row, [row EXCEPT !.live = FALSE])
           /\ Advances(row, [row EXCEPT !.fresh = FALSE])
           /\ row.state = "absent" => Advances(row, [row EXCEPT !.state = "draft"])
  <1> USE DEF Advances, Uncancellable
  <1>0. row.revision \in Nat
    BY DEF Rows
  <1>1. Advances(row, row) /\ \A p : Advances(row, Claimed(row, p))
    BY <1>0 DEF Claimed, Rows
  <1>2. Advances(row, Released(row))
    BY <1>0 DEF Released, Rows
  <1>3. \A to, d : (row.cancel => to \notin Uncancellable) => Advances(row, Moved(row, to, d))
    BY <1>0 DEF Moved, Rows
  <1>5. ASSUME NEW rev, MayCancel(row, rev)
        PROVE  Advances(row, Cancelled(row))
    <2>1. Cancelled(row).revision = row.revision + 1
      BY DEF Cancelled, Rows
    <2>2. Cancelled(row).state = IF row.state \in {"awaiting_approval", "applying"}
                                 THEN "cancelled" ELSE row.state
      BY DEF Cancelled, Rows
    <2>3. row.state \notin {"rejected", "completed"}
      BY <1>5 DEF MayCancel, MayTransition, TerminalStates
    <2> QED BY <1>0, <2>1, <2>2, <2>3
  <1>6. row.state = "awaiting_approval" => Advances(row, Rejected(row)) /\ Advances(row, Approved(row))
    BY <1>0 DEF Rejected, Approved, Rows
  <1>7. row.state = "applying" => Advances(row, Exported(row))
    BY <1>0 DEF Exported, Rows
  <1>8. Advances(row, [row EXCEPT !.live = FALSE]) /\ Advances(row, [row EXCEPT !.fresh = FALSE])
    BY <1>0 DEF Rows
  <1>9. row.state = "absent" => Advances(row, [row EXCEPT !.state = "draft"])
    BY <1>0 DEF Rows
  <1> QED BY <1>1, <1>2, <1>3, <1>5, <1>6, <1>7, <1>8, <1>9

(* A step of the store that no run takes part in. *)
LEMMA CancelStore ==
    ASSUME TypeOK, TypeOK', CancelInv, \A j \in Jobs : Advances(job[j], job'[j]),
           \A s \in Slots : run'[s] = run[s] \/ run'[s].pc = "idle"
    PROVE  CancelInv'
  <1>1. \A j \in Jobs : job[j].revision \in Nat /\ job'[j].revision \in Nat
    BY DEF TypeOK, Rows
  <1>2. \A s \in Slots : run[s].rev \in Nat /\ (run[s].pc # "idle" => run[s].job \in Jobs)
    BY DEF TypeOK, Runs
  <1>3. CancelHonoured'
    BY DEF CancelHonoured, Advances, Uncancellable
  <1> QED BY <1>1, <1>2, <1>3 DEF CancelInv, Row, Advances

(* A step of slot s that remembers revision "rev" afterwards. *)
LEMMA CancelSlot ==
    ASSUME TypeOK, TypeOK', CancelInv, NEW s \in Slots, run[s].pc # "idle",
           \A j \in Jobs : Advances(job[j], job'[j]),
           \A t \in Slots \ {s} : run'[t] = run[t],
           run'[s].job = run[s].job,
           run'[s].rev <= job'[run[s].job].revision,
           run'[s].pc \in Carrying /\ run'[s].rev = job'[run[s].job].revision
              => ~job'[run[s].job].cancel
    PROVE  CancelInv'
  <1>1. \A j \in Jobs : job[j].revision \in Nat /\ job'[j].revision \in Nat
    BY DEF TypeOK, Rows
  <1>2. \A t \in Slots : run[t].rev \in Nat /\ (run[t].pc # "idle" => run[t].job \in Jobs)
    BY DEF TypeOK, Runs
  <1>3. CancelHonoured'
    BY DEF CancelHonoured, Advances, Uncancellable
  <1>4. ASSUME NEW t \in Slots, run'[t].pc # "idle", t # s
        PROVE  /\ run'[t].rev <= Row(t)'.revision
               /\ run'[t].pc \in Carrying /\ run'[t].rev = Row(t)'.revision => ~Row(t)'.cancel
    BY <1>1, <1>2, <1>4 DEF CancelInv, Row, Advances
  <1>5. /\ run'[s].rev <= Row(s)'.revision
        /\ run'[s].pc \in Carrying /\ run'[s].rev = Row(s)'.revision => ~Row(s)'.cancel
    BY DEF Row
  <1> QED BY <1>3, <1>4, <1>5 DEF CancelInv

LEMMA CancelPrepare ==
    ASSUME TypeOK, TypeOK', CancelInv, NEW s \in Slots,
           Start(s) \/ Intake(s) \/ Ingest(s) \/ Load(s) \/ LoadFailed(s) \/ RecordFailure(s)
    PROVE  CancelInv'
  <1>1. run[s].pc # "idle"
    BY DEF Start, Intake, Ingest, Load, LoadFailed, RecordFailure
  <1>2. /\ run[s].job \in Jobs /\ Row(s) = job[run[s].job] /\ Row(s) \in Rows
        /\ run \in [Slots -> Runs] /\ job \in [Jobs -> Rows] /\ Row(s).revision \in Nat
    BY <1>1 DEF TypeOK, Row, Rows
  <1>3. \A j \in Jobs : Advances(job[j], job[j])
    BY <1>2, CancelRows DEF CancelInv, CancelHonoured, Uncancellable
  <1>4. \A j \in Jobs : Advances(job[j], job'[j])
    <2>1. CASE UNCHANGED job
      BY <1>3, <2>1
    <2>2. ASSUME NEW to \in {"ingesting", "failed"},
                 job' = [job EXCEPT ![run[s].job] = Moved(@, to, NoDigest)]
          PROVE  \A j \in Jobs : Advances(job[j], job'[j])
      <3>1. Advances(Row(s), Moved(Row(s), to, NoDigest))
        BY <1>2, CancelRows DEF CancelInv, CancelHonoured, Uncancellable
      <3> QED BY <1>2, <1>3, <2>2, <3>1
    <2> QED BY <2>1, <2>2
            DEF Start, Intake, Ingest, Load, LoadFailed, RecordFailure, StoreUnchanged
  <1>5. \E pc \in {"intake", "releasing", "ingest", "load", "begin", "loadFailed", "recordFailure"} :
           \/ Goto(s, pc)
           \/ Read(s, pc) /\ UNCHANGED job
    BY DEF Start, Intake, Ingest, Load, LoadFailed, RecordFailure, Leave, StoreUnchanged
  <1>6. /\ \A t \in Slots \ {s} : run'[t] = run[t]
        /\ run'[s].job = run[s].job
        /\ run'[s].pc \notin Carrying
        /\ \/ run'[s].rev = run[s].rev
           \/ run'[s].rev = Row(s).revision /\ UNCHANGED job
    BY <1>2, <1>5 DEF Goto, Read, Runs, Carrying
  <1>7. run[s].rev \in Nat /\ run[s].rev <= Row(s).revision
    BY <1>1, <1>2 DEF CancelInv, Runs
  <1>8. run'[s].rev <= job'[run[s].job].revision
    <2>1. job'[run[s].job].revision \in Nat
      BY <1>2 DEF TypeOK, Rows
    <2> QED BY <1>2, <1>4, <1>6, <1>7, <2>1 DEF Advances
  <1> QED BY <1>1, <1>4, <1>6, <1>8, CancelSlot

LEMMA CancelRun ==
    ASSUME TypeOK, TypeOK', CancelInv, NEW s \in Slots,
           \/ Begin(s) \/ CheckCancel(s) \/ Collect(s) \/ Upload(s) \/ Announce(s)
           \/ Handler(s) \/ RunError(s) \/ RecoveryRequired(s) \/ Teardown(s)
    PROVE  CancelInv'
  <1>1. run[s].pc # "idle"
    BY PCFacts DEF Begin, CheckCancel, Collect, Upload, Announce, Handler, RunError,
                   RecoveryRequired, Teardown, Inside
  <1>2. /\ run[s].job \in Jobs /\ Row(s) = job[run[s].job] /\ Row(s).revision \in Nat
        /\ run \in [Slots -> Runs] /\ job \in [Jobs -> Rows]
    BY <1>1 DEF TypeOK, Row, Rows
  <1>3. UNCHANGED job
    BY DEF Begin, CheckCancel, Collect, Upload, Announce, Handler, RunError,
           RecoveryRequired, Teardown, StoreUnchanged
  <1>4. \A j \in Jobs : Advances(job[j], job'[j])
    BY <1>2, <1>3, CancelRows DEF CancelInv, CancelHonoured, Uncancellable
  <1>5. run[s].rev \in Nat /\ run[s].rev <= Row(s).revision
    BY <1>1, <1>2 DEF CancelInv, Runs
  <1>6. \/ \E pc : Goto(s, pc) /\ (pc \in Carrying => run[s].pc \in Carrying)
        \/ \E pc : Read(s, pc) /\ (pc \in Carrying => ~Row(s).cancel)
        \/ /\ \E d : run' = [run EXCEPT ![s].pc = "upload", ![s].digest = d]
           /\ run[s].pc \in Carrying
    <2>1. CASE Begin(s)
      BY <2>1 DEF Begin, Carrying
    <2>2. CASE CheckCancel(s)
      <3>1. CASE Row(s).cancel
        BY <2>2, <3>1 DEF CheckCancel, Carrying
      <3>2. CASE ~Row(s).cancel
        BY <2>2, <3>2 DEF CheckCancel, Carrying
      <3> QED BY <3>1, <3>2
    <2>3. CASE Collect(s)
      BY <2>3 DEF Collect, Carrying
    <2>4. CASE Upload(s)
      BY <2>4 DEF Upload, Carrying
    <2>5. CASE Handler(s)
      BY <2>5 DEF Handler, Carrying
    <2>6. CASE RunError(s)
      <3>1. OnError(run[s].pc) \notin Carrying
        BY DEF OnError, Carrying
      <3> QED BY <2>6, <3>1 DEF RunError, Leave, Carrying
    <2>7. CASE Announce(s) \/ RecoveryRequired(s) \/ Teardown(s)
      BY <2>7 DEF Announce, RecoveryRequired, Teardown, Leave, Carrying
    <2> QED BY <2>1, <2>2, <2>3, <2>4, <2>5, <2>6, <2>7
  <1>7. /\ \A t \in Slots \ {s} : run'[t] = run[t]
        /\ run'[s].job = run[s].job
        /\ \/ /\ run'[s].rev = run[s].rev
              /\ run'[s].pc \in Carrying => run[s].pc \in Carrying
           \/ /\ run'[s].rev = Row(s).revision
              /\ run'[s].pc \in Carrying => ~Row(s).cancel
    BY <1>2, <1>6 DEF Goto, Read, Runs
  <1>8. /\ run'[s].rev <= job'[run[s].job].revision
        /\ run'[s].pc \in Carrying /\ run'[s].rev = job'[run[s].job].revision
              => ~job'[run[s].job].cancel
    BY <1>1, <1>2, <1>3, <1>5, <1>7 DEF CancelInv
  <1> QED BY <1>1, <1>4, <1>7, <1>8, CancelSlot

LEMMA CancelMove ==
    ASSUME TypeOK, TypeOK', CancelInv, NEW s \in Slots, Move(s)
    PROVE  CancelInv'
  <1>1. run[s].pc # "idle" /\ run[s].pc \in DOMAIN MoveTarget
    BY PCFacts DEF Move
  <1>2. /\ run[s].job \in Jobs /\ Row(s) = job[run[s].job] /\ Row(s) \in Rows
        /\ Row(s).revision \in Nat /\ run[s].rev \in Nat
        /\ run \in [Slots -> Runs] /\ job \in [Jobs -> Rows]
    BY <1>1 DEF TypeOK, Row, Rows, Runs
  <1>3. run[s].rev <= Row(s).revision
    BY <1>1 DEF CancelInv
  <1>i. \A j \in Jobs : job[j].cancel => job[j].state \notin Uncancellable
    BY DEF CancelInv, CancelHonoured, Uncancellable
  <1>4. CASE MayMove(s) /\ DoMove(s)
    <2>1. run[s].rev = Row(s).revision
      BY <1>4 DEF MayMove, MayMoveLeased
    <2>2. Row(s).cancel => MoveTarget[run[s].pc] \notin Uncancellable
      <3>1. Row(s).cancel => run[s].pc \notin Carrying
        BY <1>1, <2>1 DEF CancelInv
      <3> QED BY <1>1, <3>1 DEF MoveTarget, Carrying, Uncancellable
    <2> DEFINE new == Moved(Row(s), MoveTarget[run[s].pc], MoveDigest(s))
    <2>3. Advances(Row(s), new) /\ new.revision = Row(s).revision + 1 /\ new.cancel = Row(s).cancel
      BY <1>2, <1>i, <2>2, CancelRows DEF Moved, Rows
    <2>4. job' = [job EXCEPT ![run[s].job] = new]
      BY <1>2, <1>4 DEF DoMove
    <2> HIDE DEF new
    <2>5. \A j \in Jobs : Advances(job[j], job'[j])
      BY <1>2, <1>i, <2>3, <2>4, CancelRows
    <2>6. \/ run' = [run EXCEPT ![s].pc = AfterMove[@], ![s].rev = @ + 1]
          \/ Goto(s, OnError(run[s].pc))
      BY DEF Move
    <2>7. OnError(run[s].pc) \notin Carrying
      BY DEF OnError, Carrying
    <2>8. AfterMove[run[s].pc] \in Carrying => run[s].pc \in Carrying
      BY <1>1 DEF MoveTarget, AfterMove, Carrying
    <2>9. /\ \A t \in Slots \ {s} : run'[t] = run[t]
          /\ run'[s].job = run[s].job
          /\ \/ run'[s].rev = run[s].rev + 1 /\ run'[s].pc = AfterMove[run[s].pc]
             \/ run'[s].rev = run[s].rev /\ run'[s].pc = OnError(run[s].pc)
      BY <1>2, <2>6 DEF Goto, Runs
    <2>10. /\ run'[s].rev <= job'[run[s].job].revision
           /\ run'[s].pc \in Carrying /\ run'[s].rev = job'[run[s].job].revision
                 => ~job'[run[s].job].cancel
      <3>1. job'[run[s].job] = new
        BY <1>2, <2>4
      <3>2. run[s].pc \in Carrying => ~Row(s).cancel
        BY <1>1, <2>1 DEF CancelInv
      <3> QED BY <1>2, <2>1, <2>3, <2>7, <2>8, <2>9, <3>1, <3>2
    <2> QED BY <1>1, <2>5, <2>9, <2>10, CancelSlot
  <1>5. CASE ~MayMove(s)
    <2>1. UNCHANGED job /\ Goto(s, OnError(run[s].pc))
      BY <1>5 DEF Move
    <2>2. \A j \in Jobs : Advances(job[j], job'[j])
      BY <1>2, <1>i, <2>1, CancelRows
    <2>3. OnError(run[s].pc) \notin Carrying
      BY DEF OnError, Carrying
    <2>4. /\ \A t \in Slots \ {s} : run'[t] = run[t]
          /\ run'[s].job = run[s].job /\ run'[s].rev = run[s].rev
          /\ run'[s].pc = OnError(run[s].pc)
      BY <1>2, <2>1 DEF Goto, Runs
    <2> QED BY <1>1, <1>2, <1>3, <2>1, <2>2, <2>3, <2>4, CancelSlot
  <1> QED BY <1>4, <1>5 DEF Move

LEMMA CancelNext == TypeOK /\ TypeOK' /\ CancelInv /\ [Next]_vars => CancelInv'
  <1> SUFFICES ASSUME TypeOK, TypeOK', CancelInv, [Next]_vars PROVE CancelInv'
    OBVIOUS
  <1>0. job \in [Jobs -> Rows] /\ run \in [Slots -> Runs]
    BY DEF TypeOK
  <1>i. \A j \in Jobs : job[j].cancel => job[j].state \notin Uncancellable
    BY DEF CancelInv, CancelHonoured, Uncancellable
  <1>a. \A j \in Jobs : Advances(job[j], job[j])
    BY <1>0, <1>i, CancelRows
  <1>1. ASSUME NEW j \in Jobs, NEW row, job' = [job EXCEPT ![j] = row],
               Advances(job[j], row), UNCHANGED run
        PROVE  CancelInv'
    <2>1. \A i \in Jobs : Advances(job[i], job'[i])
      BY <1>0, <1>a, <1>1
    <2> QED BY <1>1, <2>1, CancelStore
  <1>2. CASE Owner
    <2>1. PICK j \in Jobs :
             \/ Create(j)
             \/ Enqueue(j)
             \/ \E k \in Keys :
                   \/ RequestCancel(j, k)
                   \/ \E d \in Digests : Reject(j, k, d)
                   \/ \E d \in Digests, t \in Tokens : Approve(j, k, d, t)
                   \/ \E d \in Digests, t \in Tokens : Export(j, k, d, t)
      BY <1>2 DEF Owner
    <2>2. CASE Create(j)
      <3>1. /\ job' = [job EXCEPT ![j] = [job[j] EXCEPT !.state = "draft"]]
            /\ UNCHANGED run /\ job[j].state = "absent"
        BY <2>2 DEF Create
      <3> QED BY <1>0, <1>1, <1>i, <3>1, CancelRows
    <2>3. CASE Enqueue(j)
      <3>1. Advances(job[j], Moved(job[j], "queued", NoDigest))
        BY <1>0, <1>i, CancelRows DEF Uncancellable
      <3> QED BY <1>1, <2>3, <3>1 DEF Enqueue
    <2>4. ASSUME NEW k \in Keys, RequestCancel(j, k)
          PROVE  CancelInv'
      <3>1. Advances(job[j], Cancelled(job[j]))
        BY <1>0, <1>i, <2>4, CancelRows DEF RequestCancel
      <3> QED BY <1>1, <2>4, <3>1 DEF RequestCancel
    <2>5. ASSUME NEW k \in Keys, NEW d \in Digests, Reject(j, k, d)
          PROVE  CancelInv'
      <3>1. Advances(job[j], Rejected(job[j]))
        BY <1>0, <1>i, <2>5, CancelRows DEF Reject, MayDecide
      <3> QED BY <1>1, <2>5, <3>1 DEF Reject
    <2>6. ASSUME NEW k \in Keys, NEW d \in Digests, NEW t \in Tokens, Approve(j, k, d, t)
          PROVE  CancelInv'
      <3>1. Advances(job[j], Approved(job[j]))
        BY <1>0, <1>i, <2>6, CancelRows DEF Approve, MayDecide
      <3> QED BY <1>1, <2>6, <3>1 DEF Approve
    <2>7. ASSUME NEW k \in Keys, NEW d \in Digests, NEW t \in Tokens, Export(j, k, d, t)
          PROVE  CancelInv'
      <3>1. Advances(job[j], Exported(job[j]))
        BY <1>0, <1>i, <2>7, CancelRows DEF Export, MayExport
      <3> QED BY <1>1, <2>7, <3>1 DEF Export
    <2> QED BY <2>1, <2>2, <2>3, <2>4, <2>5, <2>6, <2>7
  <1>3. CASE Reconcile
    <2>0. PICK S \in SUBSET {j \in Jobs : Reconcilable(job[j], ValidApproval(j))} :
             job' = [j \in Jobs |-> IF j \in S THEN Reconciled(job[j], SpentApproval(j))
                                               ELSE job[j]]
      BY <1>3 DEF Reconcile
    <2>1. ASSUME NEW j \in Jobs PROVE Advances(job[j], job'[j])
      <3>1. CASE j \in S
        <4>1. Reconcilable(job[j], ValidApproval(j))
          BY <2>0, <3>1
        <4>2. job'[j] = Reconciled(job[j], SpentApproval(j))
          BY <2>0, <3>1
        <4>3. job[j].state \in PipelineStates \cup {"applying"}
          BY <4>1 DEF Reconcilable
        <4>4. /\ job'[j].revision = job[j].revision + 1
              /\ job'[j].cancel = job[j].cancel
              /\ job'[j].state = ReconcileTarget(job[j], SpentApproval(j))
          BY <1>0, <4>2 DEF Reconciled, Released, Rows
        <4>5. job[j].state # "applying" => job'[j].state = "queued"
          BY <4>4 DEF ReconcileTarget
        <4>6. job[j].revision \in Nat
          BY <1>0 DEF Rows
        <4> QED BY <1>i, <4>3, <4>4, <4>5, <4>6 DEF Advances, Uncancellable
      <3>2. CASE j \notin S
        BY <1>a, <2>0, <3>2
      <3> QED BY <3>1, <3>2
    <2> QED BY <1>3, <2>1, CancelStore DEF Reconcile
  <1>4. ASSUME NEW p \in Procs, List(p) \/ ClaimLost(p)
        PROVE  CancelInv'
    BY <1>4, <1>a, CancelStore DEF List, ClaimLost, StoreUnchanged
  <1>5. ASSUME NEW p \in Procs, NEW s \in Slots, Claim(p, s)
        PROVE  CancelInv'
    <2>1. listed[p] \in Jobs
      BY <1>5 DEF Claim, TypeOK
    <2>2. Advances(job[listed[p]], Claimed(job[listed[p]], p))
      BY <1>0, <1>i, <2>1, CancelRows
    <2>3. \A j \in Jobs : Advances(job[j], job'[j])
      BY <1>0, <1>5, <1>a, <2>1, <2>2 DEF Claim
    <2>4. \A j \in Jobs : job[j].revision \in Nat /\ job'[j].revision \in Nat
      BY DEF TypeOK, Rows
    <2>5. \A t \in Slots : run[t].rev \in Nat /\ (run[t].pc # "idle" => run[t].job \in Jobs)
      BY DEF TypeOK, Runs
    <2>6. /\ \A t \in Slots \ {s} : run'[t] = run[t]
          /\ run'[s].job \in Jobs /\ run'[s].rev = 0 /\ run'[s].pc \in {"admitted", "releasing"}
      BY <1>5, <2>1 DEF Claim, TypeOK
    <2>7. CancelHonoured'
      BY <2>3 DEF CancelHonoured, Advances, Uncancellable
    <2>8. "admitted" \notin Carrying /\ "releasing" \notin Carrying
      BY DEF Carrying
    <2> QED BY <2>3, <2>4, <2>5, <2>6, <2>7, <2>8 DEF CancelInv, Row, Advances
  <1>6. ASSUME NEW s \in Slots, RunStep(s) \/ RunError(s) \/ RecoveryRequired(s)
        PROVE  CancelInv'
    <2>1. CASE Release(s)
      <3>1. run[s].job \in Jobs
        BY <2>1 DEF Release, TypeOK
      <3>2. Advances(job[run[s].job], Released(job[run[s].job]))
        BY <1>0, <1>i, <3>1, CancelRows
      <3>3. \A j \in Jobs : Advances(job[j], job'[j])
        BY <1>0, <1>a, <2>1, <3>1, <3>2 DEF Release
      <3>4. \A t \in Slots : run'[t] = run[t] \/ run'[t].pc = "idle"
        BY <1>0, <2>1 DEF Release, IdleRun
      <3> QED BY <3>3, <3>4, CancelStore
    <2> QED BY <1>6, <2>1, CancelPrepare, CancelRun, CancelMove DEF RunStep
  <1>7. ASSUME NEW j \in Jobs, LeaseLapses(j) \/ ProposalExpires(j)
        PROVE  CancelInv'
    <2>1. /\ UNCHANGED run
          /\ \/ job' = [job EXCEPT ![j] = [job[j] EXCEPT !.live = FALSE]]
             \/ job' = [job EXCEPT ![j] = [job[j] EXCEPT !.fresh = FALSE]]
      BY <1>7 DEF LeaseLapses, ProposalExpires
    <2> QED BY <1>0, <1>1, <1>i, <2>1, CancelRows
  <1>8. ASSUME NEW p \in Procs, Crash(p)
        PROVE  CancelInv'
    <2>1. \A t \in Slots : run'[t] = run[t] \/ run'[t].pc = "idle"
      BY <1>8 DEF Crash, IdleRun
    <2> QED BY <1>8, <1>a, <2>1, CancelStore DEF Crash, StoreUnchanged
  <1>9. CASE Rest \/ UNCHANGED vars
    BY <1>9, <1>a, CancelStore DEF Rest, vars
  <1> QED BY <1>2, <1>3, <1>4, <1>5, <1>6, <1>7, <1>8, <1>9 DEF Next

LEMMA CancelInit == Init => CancelInv
  BY DEF Init, CancelInv, CancelHonoured, NewRow, IdleRun

(* After the owner's cancellation is recorded no interleaving of runs,      *)
(* requests, reconciliations and crashes offers, applies, rejects or        *)
(* completes the job: the revision the request raises defeats every move    *)
(* that was prepared before it.                                             *)
THEOREM CancellationIsHonoured == Spec => []CancelHonoured
  <1>1. CancelInv => CancelHonoured
    BY DEF CancelInv
  <1> QED BY <1>1, TypeInit, TypeNext, CancelInit, CancelNext, PTL DEF Spec

=============================================================================
