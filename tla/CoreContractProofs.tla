------------------------- MODULE CoreContractProofs -------------------------
(***************************************************************************)
(* EngineeringCore implements JobContract for every job, publishes only    *)
(* stored bundles and lets only the holder of the lease move a job on: for *)
(* any number of jobs, processes, slots, work roots and failures.          *)
(***************************************************************************)
EXTENDS EngineeringCoreProofs

-----------------------------------------------------------------------------
(* What a run knows about its row while it owns the lease. *)

Owning(s) == OwnsLease(Row(s), ProcOf[s], run[s].gen)

Started == JobStates \ {"absent", "draft", "queued"}

(* Calls that carry a bundle's digest. *)
Publishing == {"toAwait", "toComplete", "toTimeOut"}

(* The state in which a run at pc finds its job.  prepare_sources has always *)
(* made the job "ingesting", so run_job never has to.                        *)
Expects(pc, state) ==
    /\ pc # "toIngest"
    /\ pc = "ingest" => state = "queued"
    /\ pc \in {"load", "loadFailed", "recordFailure", "begin", "toPlan"} => state = "ingesting"
    /\ pc \in {"planned", "toExecute"} => state = "planning"
    /\ pc \in {"executed", "agent", "toTest"} => state = "executing"
    /\ pc = "toCollect" => state = "testing"
    /\ pc \in {"collect", "upload"} \cup Publishing => state = "collecting"
    /\ pc \in {"announce", "cancelTry", "handler", "handlerLate", "cancelLate",
               "toFail", "toExpire"} => state \in Started

SlotOK(s) ==
    /\ run[s].pc # "idle" /\ Owning(s) => Expects(run[s].pc, Row(s).state)
    /\ run[s].pc \in {"cancelTry", "cancelLate"} => Row(s).cancel
    /\ run[s].pc \in Publishing \cup {"upload"} => run[s].digest \in Digests
    /\ run[s].pc \in Publishing => <<run[s].job, run[s].digest>> \in evidence

StageInv == \A s \in Slots : SlotOK(s)

Published == TerminalStates \cup {"awaiting_approval", "applying"}

(* A row names no proposal before it is published, and its approval is      *)
(* consumed by the export that completes it and by nothing else.            *)
RowOK(row) == /\ row.proposal # NoDigest => row.state \in Published
              /\ row.consumed => row.state = "completed"

RowInv == \A j \in Jobs : RowOK(job[j])

-----------------------------------------------------------------------------
(* Steps of others: a lease is lost, or what its owner knows stays true. *)

StateStays(from, to) == \/ to = from
                        \/ from \in {"absent", "draft"}
                        \/ from \in {"awaiting_approval", "applying"} /\ to \in Started

Faithful(old, new, p, gen) ==
    /\ old.cancel => new.cancel
    /\ OwnsLease(new, p, gen) => OwnsLease(old, p, gen) /\ StateStays(old.state, new.state)

LEMMA StaysExpected ==
    ASSUME NEW pc, NEW from, NEW to, Expects(pc, from), StateStays(from, to), pc \in PCs
    PROVE  Expects(pc, to) 
  BY DEF Expects, StateStays, Started, Publishing, PCs, Inside, InTry, OutOfTry, Preparing

(* What an owner's request does to its row ... *)
OwnerStep(old, new) ==
    \/ old.state = "absent" /\ new = [old EXCEPT !.state = "draft"]
    \/ old.state = "draft" /\ new = Moved(old, "queued", NoDigest)
    \/ MayCancel(old, old.revision) /\ new = Cancelled(old)
    \/ old.state = "awaiting_approval" /\ new = Rejected(old)
    \/ old.state = "awaiting_approval" /\ new = Approved(old)
    \/ old.state = "applying" /\ ~old.consumed /\ new = Exported(old)

(* ... and what a step that is not a run's fenced call does to any row. *)
OthersStep(old, new) ==
    \/ new = old
    \/ \E p \in Procs : new = Claimed(old, p)
    \/ new = Released(old)
    \/ \E spent \in BOOLEAN : new = Reconciled(old, spent)
    \/ new = [old EXCEPT !.live = FALSE]
    \/ new = [old EXCEPT !.fresh = FALSE]
    \/ OwnerStep(old, new)

LEMMA FaithfulRows ==
    ASSUME NEW row \in Rows, NEW new, OthersStep(row, new),
           NEW p \in Procs, NEW gen \in Nat, gen <= row.gen
    PROVE  Faithful(row, new, p, gen)
  <1> USE DEF Faithful, OwnsLease, StateStays
  <1>0. p # NoProc
    BY NullsAssumption
  <1>1. ASSUME NEW q, new = Claimed(row, q) PROVE Faithful(row, new, p, gen)
    <2>1. Claimed(row, q).gen = row.gen + 1 /\ Claimed(row, q).cancel = row.cancel
      BY DEF Claimed, Rows
    <2>2. row.gen \in Nat
      BY DEF Rows
    <2> QED BY <1>1, <2>1, <2>2
  <1>2. CASE new = Released(row)
    BY <1>0, <1>2 DEF Released, Rows
  <1>3. ASSUME NEW spent, new = Reconciled(row, spent) PROVE Faithful(row, new, p, gen)
    BY <1>0, <1>3 DEF Released, Reconciled, Rows
  <1>4. CASE new = [row EXCEPT !.live = FALSE] \/ new = [row EXCEPT !.fresh = FALSE]
    BY <1>4 DEF Rows
  <1>5. CASE OwnerStep(row, new)
    <2>1. CASE new = Cancelled(row)
      <3>1. /\ new.cancel /\ new.owner = row.owner /\ new.gen = row.gen
            /\ new.state = IF row.state \in {"awaiting_approval", "applying"}
                           THEN "cancelled" ELSE row.state
        BY <2>1 DEF Cancelled, Rows
      <3> QED BY <3>1 DEF Started, JobStates, TerminalStates
    <2>2. CASE row.state = "awaiting_approval" /\ (new = Rejected(row) \/ new = Approved(row))
      BY <2>2 DEF Rejected, Approved, Rows, Started, JobStates, TerminalStates
    <2>3. CASE row.state = "applying" /\ new = Exported(row)
      BY <2>3 DEF Exported, Rows, Started, JobStates, TerminalStates
    <2>4. CASE row.state = "draft" /\ new = Moved(row, "queued", NoDigest)
      BY <2>4 DEF Moved, Rows
    <2>5. CASE row.state = "absent" /\ new = [row EXCEPT !.state = "draft"]
      BY <2>5 DEF Rows
    <2> QED BY <1>5, <2>1, <2>2, <2>3, <2>4, <2>5 DEF OwnerStep
  <1> QED BY <1>1, <1>2, <1>3, <1>4, <1>5 DEF OthersStep

(* A slot that takes no part in a step keeps what it knows. *)
LEMMA SlotKept ==
    ASSUME TypeOK, NEW t \in Slots, SlotOK(t), run'[t] = run[t], evidence \subseteq evidence',
           run[t].pc # "idle" => Faithful(Row(t), Row(t)', ProcOf[t], run[t].gen)
    PROVE  SlotOK(t)'
  <1>1. CASE run[t].pc = "idle"
    BY <1>1 DEF SlotOK, Publishing
  <1>2. CASE run[t].pc # "idle"
    <2>1. Owning(t)' => Owning(t) /\ StateStays(Row(t).state, Row(t)'.state)
      BY <1>2 DEF Faithful, Owning
    <2>2. Owning(t)' => Expects(run'[t].pc, Row(t)'.state)
      <3>1. run[t].pc \in PCs
        BY DEF TypeOK, Runs
      <3> QED BY <1>2, <2>1, <3>1, StaysExpected DEF SlotOK
    <2> QED BY <1>2, <2>2 DEF SlotOK, Faithful
  <1> QED BY <1>1, <1>2

(* A step of the store in which no run takes part, except by ending. *)
LEMMA StageStore ==
    ASSUME TypeOK, GenInv, StageInv, evidence \subseteq evidence',
           \A s \in Slots : run'[s] = run[s] \/ run'[s].pc = "idle",
           \A j \in Jobs : OthersStep(job[j], job'[j])
    PROVE  StageInv'
  <1> SUFFICES ASSUME NEW t \in Slots PROVE SlotOK(t)'
    BY DEF StageInv
  <1>1. CASE run'[t].pc = "idle"
    BY <1>1 DEF SlotOK, Publishing
  <1>2. CASE run'[t] = run[t] /\ run'[t].pc # "idle"
    <2>1. /\ run[t].job \in Jobs /\ ProcOf[t] \in Procs /\ run[t].gen \in Nat
          /\ run[t].gen <= job[run[t].job].gen
      BY <1>2, CoreAssumption DEF TypeOK, Runs, GenInv
    <2>2. Faithful(Row(t), Row(t)', ProcOf[t], run[t].gen)
      BY <1>2, <2>1, FaithfulRows DEF Row, TypeOK
    <2> QED BY <1>2, <2>2, SlotKept DEF StageInv
  <1> QED BY <1>1, <1>2

(* A step of slot s that changes at most the row of its own job, and that   *)
(* only while it holds the lease.                                           *)
LEMMA StageSlot ==
    ASSUME TypeOK, GenInv, StageInv, NEW s \in Slots, run[s].pc # "idle",
           evidence \subseteq evidence',
           \A t \in Slots \ {s} : run'[t] = run[t],
           \/ UNCHANGED job
           \/ /\ Owning(s)
              /\ \A j \in Jobs \ {run[s].job} : job'[j] = job[j]
              /\ job'[run[s].job].gen = Row(s).gen
              /\ job'[run[s].job].cancel = Row(s).cancel,
           SlotOK(s)'
    PROVE  StageInv'
  <1> SUFFICES ASSUME NEW t \in Slots, t # s PROVE SlotOK(t)'
    BY DEF StageInv
  <1>1. SlotOK(t) /\ run'[t] = run[t]
    BY DEF StageInv
  <1>2. ASSUME run[t].pc # "idle"
        PROVE  Faithful(Row(t), Row(t)', ProcOf[t], run[t].gen)
    <2>0. run[t].job \in Jobs
      BY <1>2 DEF TypeOK
    <2>1. CASE Row(t)' = Row(t)
      BY <2>1 DEF Faithful, StateStays
    <2>2. CASE /\ Owning(s) /\ run[t].job = run[s].job
               /\ job'[run[s].job].gen = Row(s).gen
               /\ job'[run[s].job].cancel = Row(s).cancel
      <3>1. run[t].gen # run[s].gen
        BY <1>2, <2>2 DEF GenInv
      <3> QED BY <1>1, <2>2, <3>1 DEF Faithful, Owning, OwnsLease, Row
    <2> QED BY <1>1, <2>0, <2>1, <2>2 DEF Row
  <1> QED BY <1>1, <1>2, SlotKept

(* Steps of a run that leave the job table alone. *)
LEMMA GotoStage ==
    ASSUME TypeOK, GenInv, StageInv, NEW s \in Slots, run[s].pc # "idle", UNCHANGED job,
           evidence \subseteq evidence', NEW pc, Goto(s, pc) \/ Read(s, pc),
           Owning(s) => Expects(pc, Row(s).state),
           pc \in {"cancelTry", "cancelLate"} => Row(s).cancel,
           pc \in Publishing \cup {"upload"} => run[s].digest \in Digests,
           pc \in Publishing => <<run[s].job, run[s].digest>> \in evidence'
    PROVE  StageInv'
  <1>1. /\ \A t \in Slots \ {s} : run'[t] = run[t]
        /\ run'[s].pc = pc /\ run'[s].job = run[s].job
        /\ run'[s].gen = run[s].gen /\ run'[s].digest = run[s].digest
    BY DEF TypeOK, Runs, Goto, Read
  <1>2. Row(s)' = Row(s) /\ (Owning(s)' => Owning(s))
    BY <1>1 DEF Row, Owning
  <1>3. SlotOK(s)'
    BY <1>1, <1>2 DEF SlotOK
  <1> QED BY <1>1, <1>3, StageSlot

(* Leaving run_job or its guard asks for nothing. *)
LEMMA ExpectsNothing ==
    ASSUME NEW pc \in {"teardown", "releasing", "intake"}, NEW state
    PROVE  /\ Expects(pc, state)
           /\ pc \notin {"cancelTry", "cancelLate", "upload"} \cup Publishing
  BY DEF Expects, Publishing

(* The handler is entered only after the job was started. *)
LEMMA ExpectsOnError ==
    ASSUME NEW pc \in InTry \cup OutOfTry, NEW state
    PROVE  /\ Expects(pc, state) => Expects(OnError(pc), state)
           /\ OnError(pc) \notin {"cancelTry", "cancelLate", "upload"} \cup Publishing
  BY DEF Expects, OnError, InTry, OutOfTry, Publishing, Started, JobStates

LEMMA StagePrepare ==
    ASSUME TypeOK, GenInv, StageInv, NEW s \in Slots,
           Start(s) \/ Intake(s) \/ Load(s) \/ LoadFailed(s)
    PROVE  StageInv'
  <1>1. /\ run[s].pc # "idle" /\ UNCHANGED job /\ evidence' = evidence
        /\ SlotOK(s)
    BY DEF Start, Intake, Load, LoadFailed, StoreUnchanged, StageInv
  <1>2. ASSUME NEW pc \in {"releasing", "intake"}, Goto(s, pc)
        PROVE  StageInv'
    BY <1>1, <1>2, ExpectsNothing, GotoStage
  <1>3. CASE Start(s)
    BY <1>2, <1>3 DEF Start
  <1>4. CASE Intake(s)
    <2>1. CASE Row(s).state = "queued" /\ Read(s, "ingest")
      BY <1>1, <2>1, GotoStage DEF Expects, Publishing
    <2>2. CASE Row(s).state = "ingesting" /\ Read(s, "load")
      BY <1>1, <2>2, GotoStage DEF Expects, Publishing
    <2> QED BY <1>2, <1>4, <2>1, <2>2 DEF Intake, Leave
  <1>5. CASE Load(s)
    <2>1. Owning(s) => Row(s).state = "ingesting"
      BY <1>1, <1>5 DEF SlotOK, Expects, Load
    <2>2. ASSUME NEW pc \in {"begin", "loadFailed"}, Goto(s, pc)
          PROVE  StageInv'
      BY <1>1, <2>1, <2>2, GotoStage DEF Expects, Publishing
    <2> QED BY <1>2, <1>5, <2>2 DEF Load, Leave
  <1>6. CASE LoadFailed(s)
    <2>1. CASE Row(s).state = "ingesting" /\ Read(s, "recordFailure")
      BY <1>1, <2>1, GotoStage DEF Expects, Publishing
    <2> QED BY <1>2, <1>6, <2>1 DEF LoadFailed, Leave
  <1> QED BY <1>3, <1>4, <1>5, <1>6

LEMMA StageRun ==
    ASSUME TypeOK, GenInv, StageInv, NEW s \in Slots,
           \/ Begin(s) \/ CheckCancel(s) \/ Collect(s) \/ Upload(s) \/ Announce(s)
           \/ Handler(s) \/ RunError(s) \/ RecoveryRequired(s) \/ Teardown(s)
    PROVE  StageInv'
  <1>1. /\ run[s].pc # "idle" /\ UNCHANGED job /\ evidence \subseteq evidence'
        /\ SlotOK(s)
    BY PCFacts DEF Begin, CheckCancel, Collect, Upload, Announce, Handler, RunError,
                   RecoveryRequired, Teardown, StoreUnchanged, StageInv, Inside
  <1>x. /\ Owning(s) => Expects(run[s].pc, Row(s).state)
        /\ Row(s).state \in JobStates
    <2>1. run[s].job \in Jobs
      BY <1>1 DEF TypeOK
    <2>2. Row(s).state \in JobStates
      BY <2>1 DEF TypeOK, Row, Rows
    <2> QED BY <1>1, <2>2 DEF SlotOK
  <1>2. ASSUME NEW pc \in {"releasing", "teardown"}, Goto(s, pc)
        PROVE  StageInv'
    BY <1>1, <1>2, ExpectsNothing, GotoStage
  <1>3. CASE Begin(s)
    <2>0. Owning(s) => Row(s).state = "ingesting"
      BY <1>x, <1>3 DEF Begin, Expects
    <2>1. CASE Row(s).cancel /\ Read(s, "cancelLate")
      BY <1>1, <2>0, <2>1, GotoStage DEF Expects, Publishing, Started, JobStates
    <2>2. CASE Row(s).state = "queued" /\ Read(s, "toIngest")
      BY <1>1, <2>0, <2>2, GotoStage DEF Expects, Publishing
    <2>3. CASE Read(s, "toPlan")
      BY <1>1, <2>0, <2>3, GotoStage DEF Expects, Publishing
    <2> QED BY <1>2, <1>3, <2>1, <2>2, <2>3 DEF Begin
  <1>4. CASE CheckCancel(s)
    <2>0. /\ run[s].pc = "planned" /\ Owning(s) => Row(s).state = "planning"
          /\ run[s].pc \in {"executed", "agent"} /\ Owning(s) => Row(s).state = "executing"
      BY <1>x DEF Expects
    <2>1. CASE Row(s).cancel /\ Read(s, "cancelTry")
      BY <1>1, <1>4, <2>0, <2>1, GotoStage DEF CheckCancel, Expects, Publishing, Started, JobStates
    <2>2. CASE run[s].pc = "planned" /\ Goto(s, "toExecute")
      BY <1>1, <2>0, <2>2, GotoStage DEF Expects, Publishing
    <2>3. CASE run[s].pc = "executed" /\ Goto(s, "agent")
      BY <1>1, <2>0, <2>3, GotoStage DEF Expects, Publishing
    <2>4. CASE run[s].pc = "agent" /\ Read(s, "toTest")
      BY <1>1, <2>0, <2>4, GotoStage DEF Expects, Publishing
    <2> QED BY <1>4, <2>1, <2>2, <2>3, <2>4 DEF CheckCancel
  <1>5. CASE Collect(s)
    <2>0. Owning(s) => Row(s).state = "collecting"
      BY <1>x, <1>5 DEF Expects, Collect
    <2>1. ASSUME NEW d \in Digests, run' = [run EXCEPT ![s].pc = "upload", ![s].digest = d]
          PROVE  StageInv'
      <3>1. /\ \A t \in Slots \ {s} : run'[t] = run[t]
            /\ run'[s].pc = "upload" /\ run'[s].job = run[s].job
            /\ run'[s].gen = run[s].gen /\ run'[s].digest = d
        BY <2>1 DEF TypeOK, Runs
      <3>2. Row(s)' = Row(s) /\ (Owning(s)' => Owning(s))
        BY <1>1, <3>1 DEF Row, Owning
      <3>3. SlotOK(s)'
        BY <2>0, <3>1, <3>2 DEF SlotOK, Expects, Publishing
      <3> QED BY <1>1, <3>1, <3>3, StageSlot
    <2>2. CASE Goto(s, "handler")
      BY <1>1, <2>0, <2>2, GotoStage DEF Expects, Publishing, Started, JobStates
    <2> QED BY <1>5, <2>1, <2>2 DEF Collect
  <1>6. CASE Upload(s)
    <2>0. (Owning(s) => Row(s).state = "collecting") /\ run[s].digest \in Digests
      BY <1>1, <1>x, <1>6 DEF Expects, Upload, SlotOK
    <2>1. ASSUME NEW pc \in Publishing, Goto(s, pc),
                 evidence' = evidence \cup {<<run[s].job, run[s].digest>>}
          PROVE  StageInv'
      BY <1>1, <2>0, <2>1, GotoStage DEF Expects, Publishing
    <2>2. CASE Goto(s, "handler")
      BY <1>1, <2>0, <2>2, GotoStage DEF Expects, Publishing, Started, JobStates
    <2> QED BY <1>6, <2>1, <2>2 DEF Upload, Publishing
  <1>7. CASE Announce(s) \/ Teardown(s) \/ RecoveryRequired(s)
    BY <1>2, <1>7 DEF Announce, Teardown, RecoveryRequired, Leave
  <1>8. CASE Handler(s)
    <2>0. Owning(s) => Row(s).state \in Started
      BY <1>x, <1>8 DEF Handler, Expects
    <2>1. CASE Row(s).cancel /\ Read(s, "cancelLate")
      BY <1>1, <2>0, <2>1, GotoStage DEF Expects, Publishing
    <2>2. ASSUME NEW pc \in {"toFail", "toExpire"}, Read(s, pc)
          PROVE  StageInv'
      BY <1>1, <2>0, <2>2, GotoStage DEF Expects, Publishing
    <2> QED BY <1>2, <1>8, <2>1, <2>2 DEF Handler
  <1>9. CASE RunError(s)
    <2>1. CASE run[s].pc \in InTry \cup OutOfTry /\ Goto(s, OnError(run[s].pc))
      BY <1>1, <1>x, <2>1, ExpectsOnError, GotoStage
    <2>2. CASE run[s].pc = "agent" /\ Goto(s, "handlerLate")
      BY <1>1, <1>x, <2>2, GotoStage DEF Expects, Publishing, Started, JobStates
    <2> QED BY <1>2, <1>9, <2>1, <2>2 DEF RunError, Leave
  <1> QED BY <1>3, <1>4, <1>5, <1>6, <1>7, <1>8, <1>9

-----------------------------------------------------------------------------
(* The fenced store calls of a run. *)

(* Slot s, at a place where run_job or prepare_sources asks for state "to"   *)
(* with digest d, passes the store's tests.                                  *)
Moving(s, to, d) ==
    /\ run[s].pc # "idle"
    /\ \/ run[s].pc = "ingest" /\ to = "ingesting" /\ d = NoDigest
       \/ run[s].pc = "recordFailure" /\ to = "failed" /\ d = NoDigest
       \/ run[s].pc \in DOMAIN MoveTarget /\ to = MoveTarget[run[s].pc] /\ d = MoveDigest(s)
    /\ MayMoveLeased(Row(s), ProcOf[s], run[s].gen, run[s].rev, to, d)
    /\ job' = [job EXCEPT ![run[s].job] = Moved(@, to, d)]
    /\ run'[s].pc # run[s].pc

LEMMA PCMoves ==
    /\ \A pc \in DOMAIN MoveTarget : AfterMove[pc] # pc /\ OnError(pc) # pc
    /\ DOMAIN MoveTarget \subseteq InTry \cup OutOfTry
    /\ \A pc \in DOMAIN MoveTarget : MoveTarget[pc] \in JobStates
  BY DEF MoveTarget, AfterMove, OnError, InTry, OutOfTry, JobStates, TerminalStates

LEMMA MoveCases ==
    ASSUME TypeOK, NEW s \in Slots, Ingest(s) \/ RecordFailure(s) \/ Move(s)
    PROVE  UNCHANGED job \/ \E to \in JobStates, d \in Digests \cup {NoDigest} : Moving(s, to, d)
  <1>1. run[s].pc # "idle"
    BY PCFacts DEF Ingest, RecordFailure, Move
  <1>2. ASSUME NEW pc, Goto(s, pc)
        PROVE  run'[s].pc = pc
    BY <1>2 DEF TypeOK, Runs, Goto
  <1>3. CASE Ingest(s)
    <2>1. run'[s].pc # run[s].pc
      BY <1>2, <1>3 DEF Ingest, Leave
    <2>2. UNCHANGED job \/ Moving(s, "ingesting", NoDigest)
      BY <1>1, <1>3, <2>1 DEF Ingest, Moving
    <2> QED BY <2>2 DEF JobStates
  <1>4. CASE RecordFailure(s)
    <2>1. run'[s].pc # run[s].pc
      BY <1>2, <1>4 DEF RecordFailure, Leave
    <2>2. UNCHANGED job \/ Moving(s, "failed", NoDigest)
      BY <1>1, <1>4, <2>1 DEF RecordFailure, Moving
    <2> QED BY <2>2 DEF JobStates, TerminalStates
  <1>5. CASE Move(s)
    <2>0. run[s].pc \in DOMAIN MoveTarget
      BY <1>5 DEF Move
    <2>1. run'[s].pc # run[s].pc
      <3>1. run' = [run EXCEPT ![s].pc = AfterMove[@], ![s].rev = @ + 1]
               => run'[s].pc = AfterMove[run[s].pc]
        BY DEF TypeOK, Runs
      <3> QED BY <1>2, <1>5, <2>0, <3>1, PCMoves DEF Move
    <2>2. UNCHANGED job \/ Moving(s, MoveTarget[run[s].pc], MoveDigest(s))
      BY <1>1, <1>5, <2>0, <2>1 DEF Move, MayMove, DoMove, Moving
    <2>3. MoveDigest(s) \in Digests \cup {NoDigest}
      BY DEF TypeOK, Runs, MoveDigest
    <2> QED BY <2>0, <2>2, <2>3, PCMoves
  <1> QED BY <1>3, <1>4, <1>5

(* Where a call leads: acknowledged, or committed or refused with an error. *)
LEMMA ExpectsMove ==
    ASSUME NEW pc \in DOMAIN MoveTarget, NEW state, Expects(pc, state)
    PROVE  /\ Expects(AfterMove[pc], MoveTarget[pc])
           /\ Expects(OnError(pc), MoveTarget[pc])
  BY DEF Expects, MoveTarget, AfterMove, OnError, InTry, Publishing, Started, JobStates,
         TerminalStates

LEMMA AfterMovePlain ==
    ASSUME NEW pc \in DOMAIN MoveTarget
    PROVE  AfterMove[pc] \notin {"cancelTry", "cancelLate", "upload"} \cup Publishing
  BY DEF MoveTarget, AfterMove, Publishing

LEMMA StageMove ==
    ASSUME TypeOK, GenInv, StageInv, NEW s \in Slots, Ingest(s) \/ RecordFailure(s) \/ Move(s)
    PROVE  StageInv'
  <1>1. /\ run[s].pc # "idle" /\ evidence' = evidence /\ SlotOK(s)
    BY PCFacts DEF Ingest, RecordFailure, Move, StageInv
  <1>2. run[s].job \in Jobs /\ job \in [Jobs -> Rows] /\ Row(s) \in Rows
    BY <1>1 DEF TypeOK, Row
  <1>3. Owning(s) => Expects(run[s].pc, Row(s).state)
    BY <1>1 DEF SlotOK
  <1>4. CASE UNCHANGED job
    <2>1. ASSUME NEW pc \in {"releasing", "teardown"}, Goto(s, pc)
          PROVE  StageInv'
      BY <1>1, <1>4, <2>1, ExpectsNothing, GotoStage
    <2>2. CASE Move(s) /\ Goto(s, OnError(run[s].pc))
      <3>1. run[s].pc \in InTry \cup OutOfTry
        BY <2>2, PCMoves DEF Move
      <3> QED BY <1>1, <1>3, <1>4, <2>2, <3>1, ExpectsOnError, GotoStage
    <2>3. CASE Ingest(s) \/ RecordFailure(s)
      <3>1. CASE Leave(s)
        BY <2>1, <3>1 DEF Leave
      <3>2. CASE ~Leave(s)
        <4>1. PICK to, d : job' = [job EXCEPT ![run[s].job] = Moved(@, to, d)]
          BY <2>3, <3>2 DEF Ingest, RecordFailure
        <4>2. job'[run[s].job].revision = Row(s).revision + 1
          BY <1>2, <4>1 DEF Moved, Rows, Row
        <4>3. Row(s).revision \in Nat
          BY <1>2 DEF Rows
        <4> QED BY <1>4, <4>2, <4>3 DEF Row
      <3> QED BY <3>1, <3>2
    <2>4. CASE Move(s) /\ ~Goto(s, OnError(run[s].pc))
      <3>1. job' = [job EXCEPT ![run[s].job] = Moved(@, MoveTarget[run[s].pc], MoveDigest(s))]
        BY <2>4 DEF Move, DoMove
      <3>2. job'[run[s].job].revision = Row(s).revision + 1
        BY <1>2, <3>1 DEF Moved, Rows, Row
      <3>3. Row(s).revision \in Nat
        BY <1>2 DEF Rows
      <3> QED BY <1>4, <3>2, <3>3 DEF Row
    <2> QED BY <2>2, <2>3, <2>4
  <1>5. ASSUME NEW to \in JobStates, NEW d \in Digests \cup {NoDigest}, Moving(s, to, d)
        PROVE  StageInv'
    <2>1. Owning(s)
      BY <1>5 DEF Moving, MayMoveLeased, HoldsLease, Owning
    <2>2. /\ job'[run[s].job] = Moved(Row(s), to, d)
          /\ \A j \in Jobs \ {run[s].job} : job'[j] = job[j]
      BY <1>2, <1>5 DEF Moving, Row
    <2>3. /\ Moved(Row(s), to, d).gen = Row(s).gen
          /\ Moved(Row(s), to, d).cancel = Row(s).cancel
          /\ Moved(Row(s), to, d).state = to
      BY <1>2 DEF Moved, Rows
    <2>4. /\ \A t \in Slots \ {s} : run'[t] = run[t]
          /\ run'[s].job = run[s].job
          /\ \/ run[s].pc = "ingest" /\ run'[s].pc \in {"load", "releasing"}
             \/ run[s].pc = "recordFailure" /\ run'[s].pc = "releasing"
             \/ /\ run[s].pc \in DOMAIN MoveTarget
                /\ run'[s].pc \in {AfterMove[run[s].pc], OnError(run[s].pc)}
      BY DEF TypeOK, Runs, Ingest, RecordFailure, Move, Goto, Leave
    <2>5. /\ Expects(run'[s].pc, to)
          /\ run'[s].pc \notin {"cancelTry", "cancelLate", "upload"} \cup Publishing
      <3>1. CASE run[s].pc = "ingest" \/ run[s].pc = "recordFailure"
        <4>1. run[s].pc \notin DOMAIN MoveTarget
          BY <3>1 DEF MoveTarget
        <4> QED BY <1>5, <2>4, <3>1, <4>1 DEF Moving, Expects, Publishing
      <3>2. CASE run[s].pc \in DOMAIN MoveTarget
        <4>1. to = MoveTarget[run[s].pc] /\ run[s].pc \notin {"ingest", "recordFailure"}
          BY <1>5, <3>2 DEF Moving, MoveTarget
        <4> QED BY <1>3, <2>1, <2>4, <3>2, <4>1, ExpectsMove, ExpectsOnError, AfterMovePlain, PCMoves
      <3> QED BY <2>4, <3>1, <3>2
    <2>6. Row(s)' = Moved(Row(s), to, d)
      BY <2>2, <2>4 DEF Row
    <2>7. SlotOK(s)'
      BY <2>3, <2>5, <2>6 DEF SlotOK
    <2> QED BY <1>1, <2>1, <2>2, <2>3, <2>4, <2>7, StageSlot
  <1> QED BY <1>4, <1>5, MoveCases

-----------------------------------------------------------------------------
(* Everything that can happen to one row in one step. *)

SameView(old, new) ==
    /\ new.state = old.state /\ new.revision = old.revision /\ new.proposal = old.proposal
    /\ new.consumed = old.consumed /\ new.cancel = old.cancel

ReconcileStep(j) == /\ Reconcilable(job[j], ValidApproval(j))
                    /\ job'[j] = Reconciled(job[j], SpentApproval(j))

MoveStep(j) == \E s \in Slots, to \in JobStates, d \in Digests \cup {NoDigest} :
                  run[s].job = j /\ Moving(s, to, d)

WorkStep(j) == SameView(job[j], job'[j]) \/ ReconcileStep(j) \/ MoveStep(j)

RowStep(j) == WorkStep(j) \/ OwnerStep(job[j], job'[j])

LEMMA OwnerRows ==
    ASSUME TypeOK, Owner, NEW i \in Jobs
    PROVE  job'[i] = job[i] \/ OwnerStep(job[i], job'[i])
  <1>0. job \in [Jobs -> Rows]
    BY DEF TypeOK
  <1>1. PICK j \in Jobs :
           \/ Create(j)
           \/ Enqueue(j)
           \/ \E k \in Keys :
                 \/ RequestCancel(j, k)
                 \/ \E d \in Digests : Reject(j, k, d)
                 \/ \E d \in Digests, t \in Tokens : Approve(j, k, d, t)
                 \/ \E d \in Digests, t \in Tokens : Export(j, k, d, t)
    BY DEF Owner
  <1> DEFINE Done == \E row : job' = [job EXCEPT ![j] = row] /\ OwnerStep(job[j], row)
  <1>2. Done
    <2>1. CASE Create(j)
      <3>1. job' = [job EXCEPT ![j] = [job[j] EXCEPT !.state = "draft"]]
        BY <2>1 DEF Create
      <3> QED BY <2>1, <3>1 DEF Create, OwnerStep
    <2>2. CASE Enqueue(j)
      BY <2>2 DEF Enqueue, OwnerStep
    <2>3. ASSUME NEW k, RequestCancel(j, k) PROVE Done
      BY <2>3 DEF RequestCancel, OwnerStep
    <2>4. ASSUME NEW k, NEW d, Reject(j, k, d) PROVE Done
      BY <2>4 DEF Reject, MayDecide, OwnerStep
    <2>5. ASSUME NEW k, NEW d, NEW t, Approve(j, k, d, t) PROVE Done
      BY <2>5 DEF Approve, MayDecide, OwnerStep
    <2>6. ASSUME NEW k, NEW d, NEW t, Export(j, k, d, t) PROVE Done
      BY <2>6 DEF Export, MayExport, OwnerStep
    <2> QED BY <1>1, <2>1, <2>2, <2>3, <2>4, <2>5, <2>6
  <1> QED BY <1>0, <1>2

LEMMA WorkSteps ==
    ASSUME TypeOK, [Next]_vars, NEW j \in Jobs
    PROVE  Owner \/ WorkStep(j)
  <1> SUFFICES ASSUME ~Owner PROVE WorkStep(j)
    OBVIOUS
  <1>0. job \in [Jobs -> Rows]
    BY DEF TypeOK
  <1>2. CASE Reconcile
    <2>1. job'[j] = job[j] \/ ReconcileStep(j)
      BY <1>2 DEF Reconcile, ReconcileStep
    <2> QED BY <2>1 DEF WorkStep, SameView
  <1>3. ASSUME NEW p \in Procs, NEW s \in Slots, Claim(p, s)
        PROVE  WorkStep(j)
    <2>1. job'[j] = job[j] \/ job'[j] = Claimed(job[j], p)
      BY <1>0, <1>3 DEF Claim
    <2> QED BY <1>0, <2>1 DEF WorkStep, SameView, Claimed, Rows
  <1>4. ASSUME NEW s \in Slots, Ingest(s) \/ RecordFailure(s) \/ Move(s)
        PROVE  WorkStep(j)
    <2>1. CASE UNCHANGED job
      BY <2>1 DEF WorkStep, SameView
    <2>2. ASSUME NEW to \in JobStates, NEW d \in Digests \cup {NoDigest}, Moving(s, to, d)
          PROVE  WorkStep(j)
      <3>1. CASE run[s].job = j
        BY <2>2, <3>1 DEF WorkStep, MoveStep
      <3>2. CASE run[s].job # j
        <4>1. job'[j] = job[j]
          BY <1>0, <2>2, <3>2 DEF Moving
        <4> QED BY <4>1 DEF WorkStep, SameView
      <3> QED BY <3>1, <3>2
    <2> QED BY <1>4, <2>1, <2>2, MoveCases
  <1>5. ASSUME NEW s \in Slots, Release(s)
        PROVE  WorkStep(j)
    <2>1. job'[j] = job[j] \/ job'[j] = Released(job[j])
      BY <1>0, <1>5 DEF Release
    <2> QED BY <1>0, <2>1 DEF WorkStep, SameView, Released, Rows
  <1>6. ASSUME NEW i \in Jobs, LeaseLapses(i) \/ ProposalExpires(i)
        PROVE  WorkStep(j)
    BY <1>0, <1>6 DEF LeaseLapses, ProposalExpires, WorkStep, SameView, Rows
  <1>7. CASE UNCHANGED job
    BY <1>7 DEF WorkStep, SameView
  <1>8. ASSUME NEW s \in Slots, RunStep(s) \/ RunError(s) \/ RecoveryRequired(s)
        PROVE  WorkStep(j)
    <2>1. \/ Ingest(s) \/ RecordFailure(s) \/ Move(s) \/ Release(s)
          \/ UNCHANGED job
      BY <1>8 DEF RunStep, Start, Intake, Load, LoadFailed, Begin, CheckCancel, Collect, Upload,
                  Announce, Handler, Teardown, RunError, RecoveryRequired, StoreUnchanged
    <2> QED BY <1>4, <1>5, <1>7, <2>1
  <1>9. ASSUME NEW p \in Procs, List(p) \/ ClaimLost(p) \/ Crash(p)
        PROVE  WorkStep(j)
    BY <1>7, <1>9 DEF List, ClaimLost, Crash, StoreUnchanged
  <1>10. CASE Rest \/ UNCHANGED vars
    BY <1>7, <1>10 DEF Rest, vars
  <1> QED BY <1>2, <1>3, <1>6, <1>8, <1>9, <1>10 DEF Next

LEMMA RowSteps ==
    ASSUME TypeOK, [Next]_vars
    PROVE  \A j \in Jobs : RowStep(j)
  BY WorkSteps, OwnerRows DEF RowStep, WorkStep, SameView

LEMMA StageNext == TypeOK /\ GenInv /\ StageInv /\ [Next]_vars => StageInv'
  <1> SUFFICES ASSUME TypeOK, GenInv, StageInv, [Next]_vars PROVE StageInv'
    OBVIOUS
  <1>0. job \in [Jobs -> Rows] /\ run \in [Slots -> Runs]
    BY DEF TypeOK
  <1>k. \A j \in Jobs : OthersStep(job[j], job[j])
    BY DEF OthersStep
  <1>s. ASSUME \A j \in Jobs : OthersStep(job[j], job'[j]), evidence' = evidence,
               \A s \in Slots : run'[s] = run[s] \/ run'[s].pc = "idle"
        PROVE  StageInv'
    BY <1>s, StageStore
  <1>1. CASE Owner
    <2>1. UNCHANGED <<run, evidence>>
      BY <1>1 DEF Owner, Create, Enqueue, RequestCancel, Reject, Approve, Export
    <2>3. \A j \in Jobs : OthersStep(job[j], job'[j])
      BY <1>1, OwnerRows DEF OthersStep
    <2> QED BY <1>s, <2>1, <2>3
  <1>2. CASE Reconcile
    <2>1. \A j \in Jobs : OthersStep(job[j], job'[j])
      BY <1>0, <1>2 DEF Reconcile, OthersStep, SpentApproval
    <2> QED BY <1>2, <1>s, <2>1 DEF Reconcile
  <1>3. ASSUME NEW p \in Procs, NEW s \in Slots, Claim(p, s)
        PROVE  StageInv'
    <2> SUFFICES ASSUME NEW t \in Slots PROVE SlotOK(t)'
      BY DEF StageInv
    <2>1. CASE t = s
      <3>1. run'[s].pc \in {"admitted", "releasing"}
        BY <1>0, <1>3 DEF Claim
      <3> QED BY <2>1, <3>1 DEF SlotOK, Expects, Publishing
    <2>2. CASE t # s
      <3>1. run'[t] = run[t] /\ evidence' = evidence
        BY <1>0, <1>3, <2>2 DEF Claim
      <3>2. \A j \in Jobs : job'[j] = job[j] \/ job'[j] = Claimed(job[j], p)
        BY <1>0, <1>3 DEF Claim
      <3>3. ASSUME run[t].pc # "idle"
            PROVE  Faithful(Row(t), Row(t)', ProcOf[t], run[t].gen)
        <4>1. /\ run[t].job \in Jobs /\ ProcOf[t] \in Procs /\ run[t].gen \in Nat
              /\ run[t].gen <= job[run[t].job].gen
          BY <3>3, CoreAssumption DEF TypeOK, Runs, GenInv
        <4> QED BY <1>0, <3>1, <3>2, <4>1, FaithfulRows DEF Row, OthersStep
      <3> QED BY <3>1, <3>3, SlotKept DEF StageInv
    <2> QED BY <2>1, <2>2
  <1>4. ASSUME NEW s \in Slots, RunStep(s) \/ RunError(s) \/ RecoveryRequired(s)
        PROVE  StageInv'
    <2>1. CASE Release(s)
      <3>1. \A j \in Jobs : job'[j] = job[j] \/ job'[j] = Released(job[j])
        BY <1>0, <2>1 DEF Release
      <3>2. \A j \in Jobs : OthersStep(job[j], job'[j])
        BY <3>1 DEF OthersStep
      <3>3. \A t \in Slots : run'[t] = run[t] \/ run'[t].pc = "idle"
        BY <1>0, <2>1 DEF Release, IdleRun
      <3> QED BY <1>s, <2>1, <3>2, <3>3 DEF Release
    <2> QED BY <1>4, <2>1, StagePrepare, StageRun, StageMove DEF RunStep
  <1>5. ASSUME NEW j \in Jobs, LeaseLapses(j) \/ ProposalExpires(j)
        PROVE  StageInv'
    <2>1. UNCHANGED <<run, evidence>>
      BY <1>5 DEF LeaseLapses, ProposalExpires
    <2>2. \A i \in Jobs : \/ job'[i] = job[i]
                          \/ job'[i] = [job[i] EXCEPT !.live = FALSE]
                          \/ job'[i] = [job[i] EXCEPT !.fresh = FALSE]
      BY <1>0, <1>5 DEF LeaseLapses, ProposalExpires
    <2>3. \A i \in Jobs : OthersStep(job[i], job'[i])
      BY <2>2 DEF OthersStep
    <2> QED BY <1>s, <2>1, <2>3
  <1>6. ASSUME NEW p \in Procs, List(p) \/ ClaimLost(p) \/ Crash(p)
        PROVE  StageInv'
    <2>1. UNCHANGED <<job, evidence>>
      BY <1>6 DEF List, ClaimLost, Crash, StoreUnchanged
    <2>2. \A t \in Slots : run'[t] = run[t] \/ run'[t].pc = "idle"
      BY <1>6 DEF List, ClaimLost, Crash, IdleRun
    <2> QED BY <1>k, <1>s, <2>1, <2>2
  <1>7. CASE Rest \/ UNCHANGED vars
    <2>1. UNCHANGED <<job, run, evidence>>
      BY <1>7 DEF Rest, vars
    <2> QED BY <1>k, <1>s, <2>1
  <1> QED BY <1>1, <1>2, <1>3, <1>4, <1>5, <1>6, <1>7 DEF Next

LEMMA StageInit == Init => StageInv /\ RowInv
  BY DEF Init, StageInv, SlotOK, IdleRun, NewRow, RowInv, RowOK, Publishing

(* What the store's tests allow a run's call to be. *)
LEMMA MoveFacts ==
    ASSUME TypeOK, NEW s \in Slots, NEW to \in JobStates, NEW d \in Digests \cup {NoDigest},
           Moving(s, to, d)
    PROVE  /\ run[s].job \in Jobs /\ Row(s) \in Rows
           /\ Owning(s) /\ run[s].rev = Row(s).revision
           /\ MayTransition(Row(s).state, to, d)
           /\ job'[run[s].job] = Moved(Row(s), to, d)
           /\ d # NoDigest => run[s].pc \in Publishing /\ d = run[s].digest
  <1>1. run[s].job \in Jobs /\ Row(s) \in Rows
    BY DEF Moving, TypeOK, Row
  <1>2. job'[run[s].job] = Moved(Row(s), to, d)
    BY <1>1 DEF Moving, TypeOK, Row
  <1>3. Owning(s) /\ run[s].rev = Row(s).revision /\ MayTransition(Row(s).state, to, d)
    BY DEF Moving, MayMoveLeased, HoldsLease, Owning
  <1>4. d # NoDigest => run[s].pc \in Publishing /\ d = run[s].digest
    BY DEF Moving, MoveDigest, Publishing
  <1> QED BY <1>1, <1>2, <1>3, <1>4

LEMMA RowNext == TypeOK /\ StageInv /\ RowInv /\ [Next]_vars => RowInv'
  <1> SUFFICES ASSUME TypeOK, StageInv, RowInv, [Next]_vars, NEW j \in Jobs
               PROVE  RowOK(job'[j])
    BY DEF RowInv
  <1>0. RowStep(j) /\ RowOK(job[j]) /\ job[j] \in Rows
    BY RowSteps DEF RowInv, TypeOK
  <1>1. CASE SameView(job[j], job'[j])
    BY <1>0, <1>1 DEF SameView, RowOK
  <1>2. CASE OwnerStep(job[j], job'[j])
    <2>1. CASE job'[j] = Cancelled(job[j]) /\ MayCancel(job[j], job[j].revision)
      <3>1. /\ job'[j].proposal = job[j].proposal /\ job'[j].consumed = job[j].consumed
            /\ job'[j].state = IF job[j].state \in {"awaiting_approval", "applying"}
                               THEN "cancelled" ELSE job[j].state
        BY <1>0, <2>1 DEF Cancelled, Rows
      <3>2. job[j].state # "completed"
        BY <2>1 DEF MayCancel, MayTransition, TerminalStates
      <3> QED BY <1>0, <3>1, <3>2 DEF RowOK, Published, TerminalStates
    <2>2. CASE job[j].state = "awaiting_approval" /\ (job'[j] = Rejected(job[j]) \/ job'[j] = Approved(job[j]))
      BY <1>0, <2>2 DEF RowOK, Rejected, Approved, Rows, Published, TerminalStates
    <2>3. CASE job'[j] = Exported(job[j])
      BY <1>0, <2>3 DEF RowOK, Exported, Rows, Published, TerminalStates
    <2>4. CASE job[j].state = "draft" /\ job'[j] = Moved(job[j], "queued", NoDigest)
      BY <1>0, <2>4 DEF RowOK, Moved, Rows, Published, TerminalStates
    <2>5. CASE job[j].state = "absent" /\ job'[j] = [job[j] EXCEPT !.state = "draft"]
      BY <1>0, <2>5 DEF RowOK, Rows, Published, TerminalStates
    <2> QED BY <1>2, <2>1, <2>2, <2>3, <2>4, <2>5 DEF OwnerStep
  <1>3. CASE ReconcileStep(j)
    <2>1. /\ job'[j].proposal = job[j].proposal /\ job'[j].consumed = job[j].consumed
          /\ job'[j].state = ReconcileTarget(job[j], SpentApproval(j))
      BY <1>0, <1>3 DEF ReconcileStep, Reconciled, Released, Rows
    <2>2. job[j].state \in PipelineStates \cup {"applying"}
      BY <1>3 DEF ReconcileStep, Reconcilable
    <2>3. job[j].state \in PipelineStates => job[j].proposal = NoDigest
      BY <1>0 DEF RowOK, PipelineStates, Published, TerminalStates
    <2>4. ~job[j].consumed
      BY <1>0, <2>2 DEF RowOK, PipelineStates
    <2> QED BY <2>1, <2>2, <2>3, <2>4
            DEF ReconcileTarget, RowOK, PipelineStates, Published, TerminalStates
  <1>4. ASSUME NEW s \in Slots, NEW to \in JobStates, NEW d \in Digests \cup {NoDigest},
               run[s].job = j, Moving(s, to, d)
        PROVE  RowOK(job'[j])
    <2>1. /\ Row(s) = job[j] /\ job'[j] = Moved(job[j], to, d)
          /\ MayTransition(job[j].state, to, d)
          /\ d # NoDigest => run[s].pc \in Publishing
      BY <1>4, MoveFacts DEF Row
    <2>2. /\ job'[j].state = to /\ job'[j].consumed = job[j].consumed
          /\ job'[j].proposal = IF d = NoDigest THEN job[j].proposal ELSE d
      BY <1>0, <2>1 DEF Moved, Rows
    <2>3. ~job[j].consumed
      BY <1>0, <2>1 DEF RowOK, MayTransition, TerminalStates
    <2>4. d # NoDigest => to \in Published
      <3>1. d # NoDigest => to = MoveTarget[run[s].pc]
        BY <1>4 DEF Moving
      <3> QED BY <2>1, <3>1 DEF MoveTarget, Publishing, Published, TerminalStates
    <2>5. job[j].state \in Published => to \in Published
      BY <2>1 DEF MayTransition, Forward, Exceptional, Published, TerminalStates
    <2> QED BY <1>0, <2>2, <2>3, <2>4, <2>5 DEF RowOK
  <1> QED BY <1>0, <1>1, <1>2, <1>3, <1>4 DEF RowStep, WorkStep, MoveStep

(* A run never names a bundle before the last of its files is stored, and    *)
(* nothing but its fenced call writes the name into the row: every proposal  *)
(* the owner can see can be downloaded, after any crash, lapse or retry.     *)
THEOREM ProposalsAreStored == Spec => []EvidenceBacked
  <1>1. Init => EvidenceBacked
    BY DEF Init, NewRow, EvidenceBacked
  <1>2. TypeOK /\ StageInv /\ EvidenceBacked /\ [Next]_vars => EvidenceBacked'
    <2> SUFFICES ASSUME TypeOK, StageInv, EvidenceBacked, [Next]_vars, NEW j \in Jobs,
                        job'[j].proposal # NoDigest
                 PROVE  <<j, job'[j].proposal>> \in evidence'
      BY DEF EvidenceBacked
    <2>0. RowStep(j) /\ job[j] \in Rows
      BY RowSteps DEF TypeOK
    <2>e. evidence \subseteq evidence'
      <3>1. CASE Owner
        BY <3>1 DEF Owner, Create, Enqueue, RequestCancel, Reject, Approve, Export
      <3>2. ASSUME NEW s \in Slots, RunStep(s) \/ RunError(s) \/ RecoveryRequired(s)
            PROVE  evidence \subseteq evidence'
        BY <3>2 DEF RunStep, Start, Intake, Ingest, Load, LoadFailed, RecordFailure, Begin,
                    Move, CheckCancel, Collect, Upload, Announce, Handler, Teardown, Release,
                    RunError, RecoveryRequired, StoreUnchanged
      <3>3. CASE Reconcile \/ Rest \/ UNCHANGED vars
        BY <3>3 DEF Reconcile, Rest, vars
      <3>4. ASSUME NEW p \in Procs,
                   List(p) \/ ClaimLost(p) \/ Crash(p) \/ \E s \in Slots : Claim(p, s)
            PROVE  evidence \subseteq evidence'
        BY <3>4 DEF List, ClaimLost, Crash, Claim, StoreUnchanged
      <3>5. ASSUME NEW i \in Jobs, LeaseLapses(i) \/ ProposalExpires(i)
            PROVE  evidence \subseteq evidence'
        BY <3>5 DEF LeaseLapses, ProposalExpires
      <3> QED BY <3>1, <3>2, <3>3, <3>4, <3>5 DEF Next
    <2>1. CASE job'[j].proposal = job[j].proposal
      BY <2>1, <2>e DEF EvidenceBacked
    <2>2. ASSUME NEW s \in Slots, NEW to \in JobStates, NEW d \in Digests \cup {NoDigest},
                 run[s].job = j, Moving(s, to, d)
          PROVE  <<j, job'[j].proposal>> \in evidence'
      <3>1. /\ job'[j] = Moved(job[j], to, d)
            /\ d # NoDigest => run[s].pc \in Publishing /\ d = run[s].digest
        BY <2>2, MoveFacts DEF Row
      <3>2. job'[j].proposal = IF d = NoDigest THEN job[j].proposal ELSE d
        BY <2>0, <3>1 DEF Moved, Rows
      <3>3. d # NoDigest => <<j, d>> \in evidence
        BY <2>2, <3>1 DEF StageInv, SlotOK
      <3> QED BY <2>1, <2>e, <3>2, <3>3
    <2>3. SameView(job[j], job'[j]) \/ OwnerStep(job[j], job'[j]) \/ ReconcileStep(j)
             => job'[j].proposal = job[j].proposal
      BY <2>0 DEF SameView, OwnerStep, ReconcileStep, Moved, Cancelled, Rejected, Approved,
                  Exported, Reconciled, Released, Rows
    <2> QED BY <2>0, <2>1, <2>2, <2>3 DEF RowStep, WorkStep, MoveStep
  <1> QED BY <1>1, <1>2, TypeInit, TypeNext, GenInit, GenNext, StageInit, StageNext, PTL DEF Spec

(* A queued or running job leaves its state for another than the queue only  *)
(* by a step of the run that holds its lease at that moment: a stalled run,  *)
(* a reconciliation, an owner's request or a restart cannot carry it on.     *)
THEOREM ProgressIsFenced == Spec => FencedProgress
  <1> DEFINE Fenced == \A j \in Jobs :
          /\ job[j].state \in PipelineStates \cup {"queued"}
          /\ job'[j].state \notin {job[j].state, "queued"}
          => \E s \in Slots : Holding(s) /\ run[s].job = j /\ run'[s] # run[s]
  <1>1. TypeOK /\ [Next]_vars => Fenced
    <2> SUFFICES ASSUME TypeOK, [Next]_vars, NEW j \in Jobs,
                        job[j].state \in PipelineStates \cup {"queued"},
                        job'[j].state \notin {job[j].state, "queued"}
                 PROVE  \E s \in Slots : Holding(s) /\ run[s].job = j /\ run'[s] # run[s]
      OBVIOUS
    <2>0. RowStep(j) /\ job[j] \in Rows
      BY RowSteps DEF TypeOK
    <2>1. ~SameView(job[j], job'[j])
      BY DEF SameView
    <2>2. ~OwnerStep(job[j], job'[j])
      <3>1. job'[j] # Cancelled(job[j])
        BY <2>0 DEF Cancelled, Rows, PipelineStates
      <3> QED BY <3>1 DEF OwnerStep, PipelineStates
    <2>3. ~ReconcileStep(j)
      BY <2>0 DEF ReconcileStep, Reconciled, Released, ReconcileTarget, Rows, PipelineStates
    <2>4. ASSUME NEW s \in Slots, NEW to, NEW d, run[s].job = j, Moving(s, to, d)
          PROVE  Holding(s) /\ run'[s] # run[s]
      BY <2>4 DEF Moving, MayMoveLeased, Holding
    <2> QED BY <2>0, <2>1, <2>2, <2>3, <2>4 DEF RowStep, WorkStep, MoveStep
  <1>2. TypeOK /\ [Next]_vars => [Fenced]_vars
    BY <1>1
  <1> QED BY <1>2, TypeInit, TypeNext, PTL DEF Spec, FencedProgress

-----------------------------------------------------------------------------
(* The contract. *)

LEMMA ViewFields ==
    ASSUME NEW j \in Jobs
    PROVE  /\ /\ View(j).state = job[j].state /\ View(j).revision = job[j].revision
              /\ View(j).proposal = job[j].proposal /\ View(j).consumed = job[j].consumed
              /\ View(j).cancel = job[j].cancel
           /\ /\ View(j)'.state = job'[j].state /\ View(j)'.revision = job'[j].revision
              /\ View(j)'.proposal = job'[j].proposal /\ View(j)'.consumed = job'[j].consumed
              /\ View(j)'.cancel = job'[j].cancel
  BY DEF View

Shown == [state : JobStates, revision : Nat, proposal : Digests \cup {NoDigest},
          consumed : BOOLEAN, cancel : BOOLEAN]

LEMMA ViewType ==
    ASSUME NEW j \in Jobs
    PROVE  (TypeOK => View(j) \in Shown) /\ (TypeOK' => View(j)' \in Shown)
  <1>1. ASSUME NEW row \in Rows
        PROVE  [state |-> row.state, revision |-> row.revision, proposal |-> row.proposal,
                consumed |-> row.consumed, cancel |-> row.cancel] \in Shown
    BY <1>1 DEF Rows, Shown
  <1> QED BY <1>1 DEF TypeOK, View

(* The shapes of a change that the contract's actions write down. *)
LEMMA ViewBecomes ==
    ASSUME TypeOK, TypeOK', NEW j \in Jobs, NEW to, job'[j].state = to,
           job'[j].revision = job[j].revision + 1, job'[j].consumed = job[j].consumed,
           job'[j].proposal = job[j].proposal, job'[j].cancel = job[j].cancel
    PROVE  View(j)' = [View(j) EXCEPT !.state = to, !.revision = @ + 1]
  <1>1. View(j) \in Shown /\ View(j)' \in Shown
    BY ViewType
  <1>2. /\ View(j)'.state = to /\ View(j)'.revision = View(j).revision + 1
        /\ View(j)'.proposal = View(j).proposal /\ View(j)'.consumed = View(j).consumed
        /\ View(j)'.cancel = View(j).cancel
    BY ViewFields
  <1> QED BY <1>1, <1>2 DEF Shown

LEMMA OwnerContract ==
    ASSUME TypeOK, TypeOK', RowInv, NEW j \in Jobs, OwnerStep(job[j], job'[j])
    PROVE  Contract(j)!Next
  <1>0. job[j] \in Rows /\ RowOK(job[j])
    BY DEF TypeOK, RowInv
  <1>1. CASE job[j].state = "absent" /\ job'[j] = [job[j] EXCEPT !.state = "draft"]
    <2>1. View(j)' = [View(j) EXCEPT !.state = "draft"]
      BY <1>0, <1>1 DEF View, Rows
    <2> QED BY <1>1, <2>1, ViewFields DEF Contract!Create, Contract!Next
  <1>2. CASE job[j].state = "draft" /\ job'[j] = Moved(job[j], "queued", NoDigest)
    <2>0. /\ job'[j].state = "queued" /\ job'[j].revision = job[j].revision + 1
          /\ job'[j].proposal = job[j].proposal /\ job'[j].consumed = job[j].consumed
          /\ job'[j].cancel = job[j].cancel
      BY <1>0, <1>2 DEF Moved, Rows
    <2>1. View(j)' = [View(j) EXCEPT !.state = "queued", !.revision = @ + 1]
      BY <2>0, ViewBecomes
    <2> QED BY <1>2, <2>1, ViewFields DEF Contract!Enqueue, Contract!Become, Contract!Next
  <1>3. CASE MayCancel(job[j], job[j].revision) /\ job'[j] = Cancelled(job[j])
    <2>1. View(j)' = [View(j) EXCEPT !.cancel = TRUE, !.revision = @ + 1,
                            !.state = IF @ \in {"awaiting_approval", "applying"}
                                      THEN "cancelled" ELSE @]
      <3>1. /\ job'[j].revision = job[j].revision + 1
            /\ job'[j].proposal = job[j].proposal /\ job'[j].consumed = job[j].consumed
            /\ job'[j].cancel = TRUE
            /\ job'[j].state = IF job[j].state \in {"awaiting_approval", "applying"}
                               THEN "cancelled" ELSE job[j].state
        BY <1>0, <1>3 DEF Cancelled, Rows
      <3>2. /\ View(j)'.revision = View(j).revision + 1
            /\ View(j)'.proposal = View(j).proposal /\ View(j)'.consumed = View(j).consumed
            /\ View(j)'.cancel = TRUE
            /\ View(j)'.state = IF View(j).state \in {"awaiting_approval", "applying"}
                                THEN "cancelled" ELSE View(j).state
        BY <3>1, ViewFields
      <3>3. View(j) \in Shown /\ View(j)' \in Shown
        BY ViewType
      <3> QED BY <3>2, <3>3 DEF Shown
    <2>2. View(j).state \notin Contract(j)!Closed \cup {"absent"}
      BY <1>3, ViewFields DEF MayCancel, MayTransition, TerminalStates, Contract!Closed
    <2> QED BY <2>1, <2>2 DEF Contract!RequestCancel, Contract!Next
  <1>4. CASE job[j].state = "awaiting_approval" /\ job'[j] = Rejected(job[j])
    <2>0. /\ job'[j].state = "rejected" /\ job'[j].revision = job[j].revision + 1
          /\ job'[j].proposal = job[j].proposal /\ job'[j].consumed = job[j].consumed
          /\ job'[j].cancel = job[j].cancel
      BY <1>0, <1>4 DEF Rejected, Rows
    <2>1. View(j)' = [View(j) EXCEPT !.state = "rejected", !.revision = @ + 1]
      BY <2>0, ViewBecomes
    <2> QED BY <1>4, <2>1, ViewFields DEF Contract!Reject, Contract!Become, Contract!Next
  <1>5. CASE job[j].state = "awaiting_approval" /\ job'[j] = Approved(job[j])
    <2>1. job[j].consumed = FALSE
      BY <1>0, <1>5 DEF RowOK, Rows
    <2>0. /\ job'[j].state = "applying" /\ job'[j].revision = job[j].revision + 1
          /\ job'[j].proposal = job[j].proposal /\ job'[j].consumed = job[j].consumed
          /\ job'[j].cancel = job[j].cancel
      BY <1>0, <1>5, <2>1 DEF Approved, Rows
    <2>2. View(j)' = [View(j) EXCEPT !.state = "applying", !.revision = @ + 1]
      BY <2>0, ViewBecomes
    <2> QED BY <1>5, <2>2, ViewFields DEF Contract!Approve, Contract!Become, Contract!Next
  <1>6. CASE job[j].state = "applying" /\ ~job[j].consumed /\ job'[j] = Exported(job[j])
    <2>1. View(j)' = [View(j) EXCEPT !.state = "completed", !.revision = @ + 1, !.consumed = TRUE]
      <3>1. /\ job'[j].state = "completed" /\ job'[j].revision = job[j].revision + 1
            /\ job'[j].proposal = job[j].proposal /\ job'[j].consumed = TRUE
            /\ job'[j].cancel = job[j].cancel
        BY <1>0, <1>6 DEF Exported, Rows
      <3>2. /\ View(j)'.state = "completed" /\ View(j)'.revision = View(j).revision + 1
            /\ View(j)'.proposal = View(j).proposal /\ View(j)'.consumed = TRUE
            /\ View(j)'.cancel = View(j).cancel
        BY <3>1, ViewFields
      <3>3. View(j) \in Shown /\ View(j)' \in Shown
        BY ViewType
      <3> QED BY <3>2, <3>3 DEF Shown
    <2> QED BY <1>6, <2>1, ViewFields DEF Contract!Export, Contract!Next
  <1> QED BY <1>1, <1>2, <1>3, <1>4, <1>5, <1>6 DEF OwnerStep

(* Reconciliation requeues a running job and closes an approved one; it     *)
(* never completes one, because only an export consumes the approval.       *)
LEMMA ReconcileContract ==
    ASSUME TypeOK, TypeOK', RowInv, NEW j \in Jobs, ReconcileStep(j)
    PROVE  Contract(j)!Next
  <1>0. job[j] \in Rows /\ RowOK(job[j])
    BY DEF TypeOK, RowInv
  <1>1. job[j].state \in PipelineStates \cup {"applying"}
    BY DEF ReconcileStep, Reconcilable
  <1>2. View(j)' = [View(j) EXCEPT !.state = ReconcileTarget(job[j], SpentApproval(j)),
                                   !.revision = @ + 1]
    <2>1. /\ job'[j].state = ReconcileTarget(job[j], SpentApproval(j))
          /\ job'[j].revision = job[j].revision + 1 /\ job'[j].consumed = job[j].consumed
          /\ job'[j].proposal = job[j].proposal /\ job'[j].cancel = job[j].cancel
      BY <1>0 DEF ReconcileStep, Reconciled, Released, Rows
    <2> QED BY <2>1, ViewBecomes
  <1>3. CASE job[j].state \in PipelineStates
    <2>1. ReconcileTarget(job[j], SpentApproval(j)) = "queued"
      BY <1>3 DEF ReconcileTarget, PipelineStates
    <2> QED BY <1>2, <1>3, <2>1, ViewFields
            DEF PipelineStates, Contract!Pipeline, Contract!Requeue, Contract!Become,
                Contract!Work, Contract!Next
  <1>4. CASE job[j].state = "applying"
    <2>1. ReconcileTarget(job[j], SpentApproval(j)) = "timed_out"
      BY <1>0, <1>4 DEF ReconcileTarget, RowOK
    <2> QED BY <1>2, <1>4, <2>1, ViewFields
            DEF Contract!Abort, Contract!Fail, Contract!Become, Contract!Work, Contract!Next
  <1> QED BY <1>1, <1>3, <1>4

(* A run's call: the next stage, a published bundle, or the end of the job. *)
LEMMA MoveContract ==
    ASSUME TypeOK, TypeOK', CancelInv, StageInv, RowInv, NEW s \in Slots, NEW to \in JobStates,
           NEW d \in Digests \cup {NoDigest}, Moving(s, to, d),
           NEW j \in Jobs, run[s].job = j
    PROVE  Contract(j)!Next
  <1>0. /\ j \in Jobs /\ job[j] \in Rows /\ Row(s) = job[j] /\ RowOK(job[j])
        /\ run[s].pc # "idle"
    BY MoveFacts DEF RowInv, Row, Moving
  <1>1. /\ Owning(s) /\ run[s].rev = Row(s).revision
        /\ MayTransition(job[j].state, to, d)
        /\ job'[j] = Moved(job[j], to, d)
        /\ d # NoDigest => run[s].pc \in Publishing /\ d = run[s].digest
    BY <1>0, MoveFacts
  <1>2. Expects(run[s].pc, job[j].state)
    BY <1>0, <1>1 DEF StageInv, SlotOK
  <1>3. run[s].pc \in Carrying => job[j].cancel = FALSE
    BY <1>0, <1>1 DEF CancelInv, Rows
  <1>4. /\ View(j).state = job[j].state /\ View(j).revision = job[j].revision
        /\ View(j).proposal = job[j].proposal /\ View(j).cancel = job[j].cancel
    BY <1>0, ViewFields
  <1>m. /\ job'[j].state = to /\ job'[j].revision = job[j].revision + 1
        /\ job'[j].proposal = IF d = NoDigest THEN job[j].proposal ELSE d
        /\ job'[j].consumed = job[j].consumed /\ job'[j].cancel = job[j].cancel
    BY <1>0, <1>1 DEF Moved, Rows
  <1>5. ASSUME d = NoDigest
        PROVE  View(j)' = [View(j) EXCEPT !.state = to, !.revision = @ + 1]
    <2>1. job'[j].proposal = job[j].proposal
      BY <1>5, <1>m
    <2> QED BY <1>0, <1>m, <2>1, ViewBecomes
  <1>6. ASSUME d # NoDigest
        PROVE  View(j)' = [View(j) EXCEPT !.state = to, !.revision = @ + 1, !.proposal = d]
    <2>1. job'[j].proposal = d
      BY <1>6, <1>m
    <2>2. /\ View(j)'.state = to /\ View(j)'.revision = View(j).revision + 1
          /\ View(j)'.proposal = d /\ View(j)'.consumed = View(j).consumed
          /\ View(j)'.cancel = View(j).cancel
      BY <1>m, <2>1, ViewFields
    <2>3. View(j) \in Shown /\ View(j)' \in Shown
      BY ViewType
    <2> QED BY <2>2, <2>3 DEF Shown
  <1>7. \/ run[s].pc \in {"ingest", "recordFailure"}
        \/ run[s].pc \in DOMAIN MoveTarget
    BY DEF Moving
  <1>8. CASE run[s].pc \in {"ingest", "toPlan", "toExecute", "toTest", "toCollect"}
    <2>1. d = NoDigest
      BY <1>1, <1>8 DEF Publishing
    <2>2. to = IF run[s].pc = "ingest" THEN "ingesting" ELSE MoveTarget[run[s].pc]
      BY <1>8 DEF Moving, MoveTarget
    <2>3. <<job[j].state, to>> \in Contract(j)!Stages /\ to \in Contract(j)!Pipeline
      BY <1>2, <1>8, <2>2 DEF Expects, MoveTarget, Contract!Stages, Contract!Pipeline
    <2>4. job[j].cancel => to = "ingesting"
      BY <1>3, <1>8, <2>2 DEF Carrying
    <2>5. Contract(j)!Advance
      BY <1>4, <1>5, <2>1, <2>3, <2>4 DEF Contract!Advance, Contract!Become
    <2> QED BY <2>5 DEF Contract!Work, Contract!Next
  <1>9. CASE run[s].pc \in Publishing
    <2>1. d = run[s].digest /\ d \in Digests /\ to = MoveTarget[run[s].pc]
      BY <1>9 DEF StageInv, SlotOK, Moving, MoveDigest, Publishing
    <2>2. job[j].state = "collecting" /\ job[j].cancel = FALSE
      BY <1>2, <1>3, <1>9 DEF Expects, Carrying, Publishing
    <2>3. job[j].proposal = NoDigest
      BY <1>0, <2>2 DEF RowOK, Published, TerminalStates
    <2>4. d # NoDigest
      BY <2>1, NullsAssumption
    <2>5. Contract(j)!Publish(to, d)
      BY <1>4, <1>6, <2>2, <2>3, <2>4 DEF Contract!Publish
    <2>6. to \in {"awaiting_approval", "completed", "timed_out"}
      BY <1>9, <2>1 DEF MoveTarget, Publishing
    <2>7. Contract(j)!Offer \/ Contract(j)!Finish
      BY <2>1, <2>5, <2>6 DEF Contract!Offer, Contract!Finish
    <2> QED BY <2>7 DEF Contract!Work, Contract!Next
  <1>10. CASE run[s].pc \in {"recordFailure", "cancelTry", "cancelLate", "toFail", "toExpire"}
    <2>1. d = NoDigest
      BY <1>1, <1>10 DEF Publishing
    <2>2. to = IF run[s].pc = "recordFailure" THEN "failed" ELSE MoveTarget[run[s].pc]
      BY <1>10 DEF Moving, MoveTarget
    <2>3. /\ to \in {"failed", "timed_out", "cancelled"}
          /\ to = "cancelled" => run[s].pc \in {"cancelTry", "cancelLate"}
      BY <1>10, <2>2 DEF MoveTarget
    <2>4. to = "cancelled" => job[j].cancel
      BY <1>0, <2>3 DEF StageInv, SlotOK
    <2>5. job[j].state \in Contract(j)!Pipeline \cup {"awaiting_approval", "applying"}
      <3>1. job[j].state \in Started
        BY <1>2, <1>10 DEF Expects, Started, JobStates
      <3>2. job[j].state \notin TerminalStates
        BY <1>1 DEF MayTransition
      <3> QED BY <3>1, <3>2 DEF Started, JobStates, Contract!Pipeline
    <2>6. Contract(j)!Abort(to)
      BY <1>4, <1>5, <2>1, <2>5 DEF Contract!Abort, Contract!Become
    <2>7. Contract(j)!Fail
      BY <1>4, <2>3, <2>4, <2>6 DEF Contract!Fail
    <2> QED BY <2>7 DEF Contract!Work, Contract!Next
  <1>11. run[s].pc # "toIngest"
    BY <1>2 DEF Expects
  <1>12. run[s].pc \in DOMAIN MoveTarget =>
           \/ run[s].pc \in {"toIngest", "toPlan", "toExecute", "toTest", "toCollect"} \cup Publishing
           \/ run[s].pc \in {"cancelTry", "cancelLate", "toFail", "toExpire"}
    BY DEF MoveTarget, Publishing
  <1> QED BY <1>7, <1>8, <1>9, <1>10, <1>11, <1>12

LEMMA ContractStep ==
    ASSUME TypeOK, TypeOK', CancelInv, StageInv, RowInv, [Next]_vars, NEW j \in Jobs
    PROVE  [Contract(j)!Next]_(View(j))
  <1>0. RowStep(j)
    BY RowSteps
  <1>1. CASE SameView(job[j], job'[j])
    BY <1>1 DEF SameView, View
  <1>2. ASSUME NEW s \in Slots, NEW to \in JobStates, NEW d \in Digests \cup {NoDigest},
               run[s].job = j, Moving(s, to, d)
        PROVE  Contract(j)!Next
    BY <1>2, MoveContract
  <1> QED BY <1>0, <1>1, <1>2, OwnerContract, ReconcileContract DEF RowStep, WorkStep, MoveStep

(* Whatever the core's processes, its owner and its failures do, a reader of *)
(* any one job sees exactly a behaviour of JobContract: stages in order, one *)
(* published bundle, no step after the end, and a new revision each time.    *)
THEOREM CoreImplementsContract == Spec => ImplementsContract
  <1>1. Init => \A j \in Jobs : Contract(j)!Init
    <2> SUFFICES ASSUME Init, NEW j \in Jobs PROVE Contract(j)!Init
      OBVIOUS
    <2> QED BY DEF Init, Contract!Init, View, NewRow
  <1>2. TypeOK /\ TypeOK' /\ CancelInv /\ StageInv /\ RowInv /\ [Next]_vars
           => [\A j \in Jobs : [Contract(j)!Next]_(View(j))]_vars
    BY ContractStep
  <1> QED BY <1>1, <1>2, TypeInit, TypeNext, GenInit, GenNext, CancelInit, CancelNext,
             StageInit, StageNext, RowNext, PTL DEF Spec, ImplementsContract

(* The same, as the implication between the two specifications: the core     *)
(* implements JobContract of each of its jobs.                               *)
THEOREM JobImplementsContract ==
    ASSUME NEW CONSTANT j \in Jobs
    PROVE  Spec => Contract(j)!Spec
  <1>1. Init => Contract(j)!Init
    <2> SUFFICES ASSUME Init PROVE Contract(j)!Init
      OBVIOUS
    <2> QED BY DEF Init, Contract!Init, View, NewRow
  <1>2. TypeOK /\ TypeOK' /\ CancelInv /\ StageInv /\ RowInv /\ [Next]_vars
           => [Contract(j)!Next]_(View(j))
    BY ContractStep
  <1> QED BY <1>1, <1>2, TypeInit, TypeNext, GenInit, GenNext, CancelInit, CancelNext,
             StageInit, StageNext, RowNext, PTL DEF Spec, Contract!Spec
=============================================================================
