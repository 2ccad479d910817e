---------------------------- MODULE ControlPlane ----------------------------
(***************************************************************************)
(* The control plane's mirror of one job: the D1 row, the R2 objects and   *)
(* the requests that Cloudflare workers serve (app/api/engineering, with   *)
(* lib/engineering-d1.ts), against a core that keeps JobContract.          *)
(*                                                                         *)
(* A worker stops at every await whose answer it uses later, so requests   *)
(* interleave there with each other and with the core.  A worker may die   *)
(* or give up on a call at any point; the core may serve that call later.  *)
(***************************************************************************)
EXTENDS Naturals, FiniteSets

CONSTANTS Digests, NoDigest,     \* proposal digests
          Contexts, NoContext,   \* project contexts a creation may freeze
          Tokens, NoToken,       \* approval attempts (token and attempt id)
          Workers, OpsOf,        \* requests in flight, and what each may ask
          MaxRevision,           \* bound on the core's own steps
          MaxCancels,            \* bound on cancellations under new keys
          MaxFaults              \* bound on dead workers and lost answers

VARIABLES view, coreRequest, granted, decided, fresh,   \* the core
          d1, frozen, bundle,                           \* D1 and R2
          req, late, faults

Core == INSTANCE JobContract

core == <<view, coreRequest, granted, decided, fresh>>
vars == <<core, d1, frozen, bundle, req, late, faults>>

Operations == {"create", "poll", "dispatch", "cancel", "approve", "reject", "export"}

ASSUME PlaneAssumption ==
    /\ OpsOf \in [Workers -> SUBSET Operations]
    /\ NoDigest \notin Digests /\ NoContext \notin Contexts /\ NoToken \notin Tokens
    /\ MaxRevision \in Nat /\ MaxCancels \in Nat /\ MaxFaults \in Nat

States == {"queued", "awaiting_approval", "applying"} \cup Core!Pipeline \cup Core!Closed

Intents == [decision : {"none", "approve", "reject"}, digest : Digests \cup {NoDigest}]

(* The row; coreRev = 0 is NULL, since the core answers from revision 1 on, *)
(* and offer says that approval_proposal_json is set.                       *)
Row == [state : States \cup {"absent"}, revision : Nat, remote : BOOLEAN,
        reserved : BOOLEAN, coreRev : Nat, proposal : Digests \cup {NoDigest},
        offer : BOOLEAN, consumed : BOOLEAN, intent : Intents,
        request : Contexts \cup {NoContext}]

Calls == [op : Operations \cup {"none", "get"}, rev : Nat, expected : Nat,
          digest : Digests \cup {NoDigest}, token : Tokens \cup {NoToken}]

NoCall == [op |-> "none", rev |-> 0, expected |-> 0, digest |-> NoDigest, token |-> NoToken]

Get == [NoCall EXCEPT !.op = "get"]

(* What parseCoreSnapshot keeps of an answer. *)
Snapshot(v) == [state |-> v.state, revision |-> v.revision,
                proposal |-> v.proposal, consumed |-> v.consumed]

(* parsedApproval: the jobs that were offered and not closed otherwise. *)
Offered(snap) == \/ snap.state \in {"awaiting_approval", "applying", "rejected"}
                 \/ snap.consumed

NoIntent == [decision |-> "none", digest |-> NoDigest]

Idle == [op |-> "none", pc |-> "idle", rev |-> 0, state |-> "absent", current |-> 0,
         digest |-> NoDigest, token |-> NoToken, request |-> NoContext, coreRev |-> 0,
         intent |-> NoIntent, call |-> NoCall,
         snap |-> [state |-> "absent", revision |-> 0, proposal |-> NoDigest, consumed |-> FALSE]]

Init ==
    /\ Core!Init
    /\ coreRequest = NoContext /\ granted = NoToken /\ decided = {} /\ fresh = TRUE
    /\ d1 = [state |-> "absent", revision |-> 0, remote |-> FALSE, reserved |-> FALSE,
             coreRev |-> 0, proposal |-> NoDigest, offer |-> FALSE, consumed |-> FALSE,
             intent |-> NoIntent, request |-> NoContext]
    /\ frozen = NoContext /\ bundle = NoDigest
    /\ req = [w \in Workers |-> Idle] /\ late = {} /\ faults = 0

-----------------------------------------------------------------------------
(* A worker's steps.  Goto keeps only the fields the next steps use. *)
At(w, pc) == req[w].pc = pc

Goto(w, r) == req' = [req EXCEPT ![w] = r]

Return(w) == Goto(w, Idle)

(* Leave everything but the named parts alone. *)
OnlyWorker == UNCHANGED <<core, d1, frozen, bundle, late, faults>>
OnlyRow == UNCHANGED <<core, frozen, bundle, late, faults>>

Send(w, call) == Goto(w, [Idle EXCEPT !.op = req[w].op, !.rev = req[w].rev, !.pc = "call",
                                      !.request = req[w].request, !.call = call])

(* POST /jobs: the project's context is read ... *)
Create(w) ==
    /\ At(w, "idle") /\ "create" \in OpsOf[w]
    /\ \E c \in Contexts : Goto(w, [Idle EXCEPT !.op = "create", !.pc = "store", !.request = c])
    /\ OnlyWorker

(* Mutant: the object is written unconditionally. *)
StoreRequestOverwrites(w) ==
    /\ At(w, "store")
    /\ frozen' = req[w].request
    /\ Goto(w, [req[w] EXCEPT !.pc = "insert"])
    /\ UNCHANGED <<core, d1, bundle, late, faults>>

(* ... frozen in R2, or replaced by the one frozen before ... *)
StoreRequest(w) ==
    /\ At(w, "store")
    /\ frozen' = IF frozen = NoContext THEN req[w].request ELSE frozen
    /\ Goto(w, [req[w] EXCEPT !.pc = "insert", !.request = frozen'])
    /\ UNCHANGED <<core, d1, bundle, late, faults>>

(* ... and the row is inserted unless the key was used before. *)
InsertRow(w) ==
    /\ At(w, "insert")
    /\ d1' = IF d1.state # "absent" THEN d1
             ELSE [d1 EXCEPT !.state = "queued", !.request = req[w].request]
    /\ Return(w) /\ OnlyRow

(* Which requests a route goes on with, from its first read of the row. *)
Admitted(op) ==
    CASE op = "poll" -> TRUE
      [] op = "dispatch" -> d1.state = "queued"
      [] op = "cancel" -> d1.state \notin Core!Closed
      [] op = "reject" -> d1.offer /\ d1.state = "awaiting_approval"
      [] op = "approve" -> d1.offer /\ fresh /\ ~d1.consumed
                           /\ d1.state \in {"awaiting_approval", "applying"}
      [] op = "export" -> d1.offer /\ d1.proposal # NoDigest
                          /\ <<d1.state, d1.consumed>> \in {<<"applying", FALSE>>, <<"completed", TRUE>>}

(* The first read.  The owner's revision is the row's (another is refused), *)
(* but a repeated approval of an applying job may carry any earlier one.    *)
Begin(w, op) ==
    /\ At(w, "idle") /\ d1.state # "absent" /\ Admitted(op)
    /\ op = "cancel" => Cardinality({c \in decided : c.op = "cancel"}) < MaxCancels
    /\ \E rev \in IF op = "approve" /\ d1.state = "applying" THEN 0..d1.revision
                  ELSE {d1.revision},
          t \in IF op \in {"approve", "export"} THEN Tokens ELSE {NoToken} :
         Goto(w, [Idle EXCEPT !.op = op, !.pc = "link", !.rev = rev, !.token = t,
                              !.state = d1.state, !.digest = d1.proposal])
    /\ OnlyWorker

Decision(w, expected) ==
    [op |-> req[w].op, rev |-> req[w].rev, expected |-> expected,
     digest |-> req[w].digest, token |-> req[w].token]

(* The remote id and the core revision are read after the row. *)
Link(w) ==
    /\ At(w, "link")
    /\ LET op == req[w].op
           repeated == req[w].state \in {"applying", "completed"}
       IN  CASE op = "poll" -> IF d1.remote THEN Send(w, Get) ELSE Return(w)
             [] op = "dispatch" -> IF d1.remote THEN Send(w, Get)
                                   ELSE IF d1.request # frozen THEN Return(w)
                                   ELSE Goto(w, [req[w] EXCEPT !.pc = "current"])
             [] op = "cancel" ->
                  IF ~d1.remote THEN Goto(w, [req[w] EXCEPT !.pc = "unreserved"])
                  ELSE IF d1.coreRev = 0 THEN Return(w)
                  ELSE Send(w, [NoCall EXCEPT !.op = op, !.rev = req[w].rev,
                                              !.expected = d1.coreRev])
             [] OTHER ->
                  IF ~d1.remote \/ d1.coreRev = 0 THEN Return(w)
                  ELSE IF op = "export"
                  THEN Send(w, [Decision(w, IF req[w].state = "completed"
                                            THEN d1.coreRev - 1 ELSE d1.coreRev)
                                EXCEPT !.rev = 0])
                  ELSE IF repeated THEN Send(w, Decision(w, d1.coreRev - 1))
                  ELSE Goto(w, [req[w] EXCEPT !.pc = "intent", !.coreRev = d1.coreRev])
    /\ OnlyWorker

(* Mutant: the result of the conditional update is ignored. *)
RecordDecisionIntentUnchecked(w) ==
    /\ At(w, "intent")
    /\ LET intent == [decision |-> req[w].op, digest |-> req[w].digest]
       IN  d1' = IF /\ d1.revision = req[w].rev /\ d1.state = "awaiting_approval"
                    /\ d1.proposal = req[w].digest /\ d1.intent \in {NoIntent, intent}
                 THEN [d1 EXCEPT !.intent = intent] ELSE d1
    /\ Send(w, Decision(w, req[w].coreRev))
    /\ OnlyRow

(* recordDecisionIntent: a decision is durable before the core hears of it. *)
RecordDecisionIntent(w) ==
    /\ At(w, "intent")
    /\ LET intent == [decision |-> req[w].op, digest |-> req[w].digest]
       IN  IF /\ d1.revision = req[w].rev /\ d1.state = "awaiting_approval"
              /\ d1.proposal = req[w].digest /\ d1.intent \in {NoIntent, intent}
           THEN /\ d1' = [d1 EXCEPT !.intent = intent]
                /\ Send(w, Decision(w, req[w].coreRev))
           ELSE UNCHANGED d1 /\ Return(w)
    /\ OnlyRow

(* reserveDispatch reads the row once more ... *)
ReadCurrent(w) ==
    /\ At(w, "current")
    /\ IF d1.state # "queued" THEN Return(w)
       ELSE Goto(w, [req[w] EXCEPT !.pc = "reserve", !.current = d1.revision])
    /\ OnlyWorker

DispatchAs(w, rev) ==
    Goto(w, [Idle EXCEPT !.op = "dispatch", !.pc = "call", !.rev = rev,
                         !.request = frozen, !.call = [NoCall EXCEPT !.op = "create"]])

(* ... and goes on with a dispatch reserved before, which another worker    *)
(* may have done since that read, or reserves it.                           *)
ReserveDispatch(w) ==
    /\ At(w, "reserve")
    /\ \/ /\ d1.remote \/ d1.reserved
          /\ \/ DispatchAs(w, req[w].current)
             \/ /\ d1.reserved /\ req[w].current = req[w].rev
                /\ DispatchAs(w, d1.revision)
          /\ UNCHANGED d1
       \/ /\ ~d1.remote /\ ~d1.reserved
          /\ IF /\ req[w].current = req[w].rev /\ d1.revision = req[w].rev
                /\ d1.state = "queued"
             THEN /\ d1' = [d1 EXCEPT !.reserved = TRUE, !.revision = @ + 1]
                  /\ DispatchAs(w, d1.revision + 1)
             ELSE UNCHANGED d1 /\ Return(w)
    /\ OnlyRow

(* setRemoteJob. *)
SetRemoteJob(w) ==
    /\ At(w, "attach")
    /\ LET mine == d1.revision = req[w].rev /\ ~d1.remote /\ d1.reserved
       IN  /\ d1' = IF mine THEN [d1 EXCEPT !.remote = TRUE, !.reserved = FALSE,
                                            !.revision = @ + 1] ELSE d1
           /\ IF d1'.remote THEN Goto(w, [req[w] EXCEPT !.pc = "evidence", !.rev = 0])
              ELSE Return(w)
    /\ OnlyRow

(* The cancellation of a job that was never dispatched.  The reservation is *)
(* read before the update, which compares only the revision.               *)
DispatchIsReserved(w) ==
    /\ At(w, "unreserved")
    /\ IF d1.reserved THEN Return(w) ELSE Goto(w, [req[w] EXCEPT !.pc = "transition"])
    /\ OnlyWorker

(* Mutant: the update does not compare the revision. *)
TransitionUnfenced(w) ==
    /\ At(w, "transition")
    /\ d1' = IF d1.state \notin Core!Closed
             THEN [d1 EXCEPT !.state = "cancelled", !.revision = @ + 1] ELSE d1
    /\ Return(w) /\ OnlyRow

(* Mutant: the state is not one of JOB_STATES. *)
TransitionMisspelt(w) ==
    /\ At(w, "transition")
    /\ d1' = IF d1.revision = req[w].rev
             THEN [d1 EXCEPT !.state = "canceled", !.revision = @ + 1] ELSE d1
    /\ Return(w) /\ OnlyRow

Transition(w) ==
    /\ At(w, "transition")
    /\ d1' = IF d1.revision = req[w].rev /\ d1.state \notin Core!Closed
             THEN [d1 EXCEPT !.state = "cancelled", !.revision = @ + 1] ELSE d1
    /\ Return(w) /\ OnlyRow

-----------------------------------------------------------------------------
(* The core's side of a call. *)
Key(c) == IF c.op = "export" THEN <<c.op, c.token>> ELSE <<c.op, c.rev>>

KeyUsed(c) == \E d \in decided : Key(d) = Key(c)

(* A repeated request is answered with the job as it is now. *)
Replays(c) ==
    /\ c \in decided
    /\ CASE c.op = "cancel" -> view.cancel \/ view.state \in Core!Closed
         [] c.op = "export" -> /\ granted = c.token /\ fresh
                               /\ view.state = "completed" /\ view.consumed
         [] OTHER -> view.state \in {"applying", "completed", "rejected"}

TakesEffect(c) ==
    /\ ~KeyUsed(c) /\ view.revision = c.expected
    /\ CASE c.op = "cancel" -> view.state \notin Core!Closed
         [] c.op = "reject" -> view.state = "awaiting_approval" /\ view.proposal = c.digest
         [] c.op = "approve" -> /\ view.state = "awaiting_approval" /\ fresh
                                /\ view.proposal = c.digest
         [] c.op = "export" -> /\ view.state = "applying" /\ ~view.consumed
                               /\ view.proposal = c.digest /\ granted = c.token /\ fresh

(* A decision, cancellation or export of the owner. *)
Decide(c) ==
    /\ TakesEffect(c)
    /\ CASE c.op = "cancel" -> Core!RequestCancel
         [] c.op = "reject" -> Core!Reject
         [] c.op = "approve" -> Core!Approve
         [] c.op = "export" -> Core!Export
    /\ granted' = IF c.op = "approve" THEN c.token ELSE granted
    /\ decided' = decided \cup {c}
    /\ UNCHANGED <<coreRequest, fresh>>

(* POST /v1/jobs inserts a draft, then queues it; each is a transaction. *)
Insert(request) ==
    /\ coreRequest = NoContext /\ Core!Create /\ coreRequest' = request
    /\ UNCHANGED <<granted, decided, fresh>>

Queue(request) ==
    /\ coreRequest = request /\ view.state = "draft" /\ Core!Enqueue
    /\ UNCHANGED <<coreRequest, granted, decided, fresh>>

Reads(c, request) ==
    \/ c.op = "get"
    \/ c.op = "create" /\ coreRequest = request /\ view.state \notin {"absent", "draft"}
    \/ c.op \notin {"get", "create"} /\ Replays(c)

Refuses(c, request) ==
    \/ c.op = "create" /\ coreRequest \notin {NoContext, request}
    \/ c.op \notin {"get", "create"} /\ ~Replays(c) /\ ~TakesEffect(c)

(* The answer arrives: a snapshot, or a refusal.  A refused cancellation or *)
(* rejection is looked up, in case an earlier call of it had got through.   *)
Answered(w, snap) ==
    LET r == req[w]
        closes == <<r.op, snap.state>> \in {<<"cancel", "cancelled">>, <<"reject", "rejected">>}
    IN  IF r.op \in {"cancel", "reject"} /\ r.call = Get /\ ~closes THEN Return(w)
        ELSE Goto(w, [Idle EXCEPT !.op = r.op, !.snap = snap,
                        !.rev = IF r.call.op = "create" THEN r.rev ELSE 0,
                        !.pc = IF r.call.op = "create" THEN "attach" ELSE "evidence"])

Refused(w) ==
    LET c == req[w].call
    IN  IF \/ c.op = "reject"
           \/ c.op = "cancel" /\ (KeyUsed(c) \/ view.revision # c.expected)
        THEN Send(w, Get) ELSE Return(w)

Serve(w) ==
    /\ At(w, "call")
    /\ LET c == req[w].call
           request == req[w].request
       IN  \/ c.op = "create" /\ Insert(request) /\ UNCHANGED req
           \/ c.op = "create" /\ Queue(request) /\ Answered(w, Snapshot(view'))
           \/ c.op \notin {"get", "create"} /\ Decide(c) /\ Answered(w, Snapshot(view'))
           \/ Reads(c, request) /\ UNCHANGED core /\ Answered(w, Snapshot(view))
           \/ Refuses(c, request) /\ UNCHANGED core /\ Refused(w)
    /\ UNCHANGED <<d1, frozen, bundle, late, faults>>

(* A call whose worker has gone. *)
ServeLate ==
    /\ \E l \in late :
         LET c == l.call
         IN  \/ c.op = "create" /\ Insert(l.request) /\ UNCHANGED late
             \/ c.op = "create" /\ Queue(l.request) /\ late' = late \ {l}
             \/ c.op \notin {"get", "create"} /\ Decide(c) /\ late' = late \ {l}
    /\ UNCHANGED <<d1, frozen, bundle, req, faults>>

(* The core's own work, and time. *)
CoreWorks ==
    /\ view.revision < MaxRevision /\ Core!Work
    /\ UNCHANGED <<coreRequest, granted, decided, fresh, d1, frozen, bundle, req, late, faults>>

ProposalExpires ==
    /\ fresh /\ view.proposal # NoDigest /\ fresh' = FALSE
    /\ UNCHANGED <<view, coreRequest, granted, decided, d1, frozen, bundle, req, late, faults>>

-----------------------------------------------------------------------------
(* mirrorCoreEvidence: the files are in R2, once, before the row names them. *)
MirrorEvidence(w) ==
    /\ At(w, "evidence")
    /\ LET d == req[w].snap.proposal
       IN  /\ bundle' = IF bundle = NoDigest THEN d ELSE bundle
           /\ IF d \in {NoDigest, bundle'} THEN Goto(w, [req[w] EXCEPT !.pc = "meta"])
              ELSE Return(w)
    /\ UNCHANGED <<core, d1, frozen, late, faults>>

CoreProgress ==
    [s \in States |->
       CASE s = "queued" -> 1 [] s = "ingesting" -> 2 [] s = "planning" -> 3
         [] s = "executing" -> 4 [] s = "testing" -> 5 [] s = "collecting" -> 6
         [] s = "completed" -> 7 [] OTHER -> 0]

(* Mutant: a job that fails while its proposal is shown is forgotten. *)
CoreSnapshotTransitionNarrow(from, to, authorized) ==
    /\ from \notin Core!Closed
    /\ \/ from = to
       \/ 0 < CoreProgress[from] /\ CoreProgress[from] < CoreProgress[to]
       \/ /\ CoreProgress[from] \in 1..6
          /\ to \in {"awaiting_approval", "cancelled", "failed", "timed_out"}
       \/ from = "awaiting_approval" /\ authorized /\ to \in {"applying", "completed", "rejected"}
       \/ from = "applying" /\ to \in {"completed", "cancelled", "failed", "timed_out"}

CoreSnapshotTransitionAllowed(from, to, authorized) ==
    /\ from \notin Core!Closed
    /\ \/ from = to
       \/ 0 < CoreProgress[from] /\ CoreProgress[from] < CoreProgress[to]
       \/ /\ CoreProgress[from] \in 1..6
          /\ to \in {"awaiting_approval", "cancelled", "failed", "timed_out"}
       \/ /\ from \in {"awaiting_approval", "applying"}
          /\ to \in {"cancelled", "failed", "timed_out"}
       \/ from = "awaiting_approval" /\ authorized /\ to \in {"applying", "completed", "rejected"}
       \/ from = "applying" /\ to = "completed"

DecisionAuthorizesCoreState(intent, digest, next) ==
    /\ intent # NoIntent /\ intent.digest = digest
    /\ next \in IF intent.decision = "approve" THEN {"applying", "completed"} ELSE {"rejected"}

(* Mutant: the consumed approval is not copied. *)
MirroredUnconsumed(row, snap) ==
    [row EXCEPT !.state = snap.state, !.revision = @ + 1, !.coreRev = snap.revision,
                !.proposal = IF snap.proposal = NoDigest THEN @ ELSE snap.proposal,
                !.offer = @ \/ Offered(snap)]

(* The row a snapshot turns this row into ... *)
Mirrored(row, snap) ==
    [row EXCEPT !.state = snap.state, !.revision = @ + 1, !.coreRev = snap.revision,
                !.proposal = IF snap.proposal = NoDigest THEN @ ELSE snap.proposal,
                !.offer = @ \/ Offered(snap), !.consumed = @ \/ snap.consumed]

(* Mutant: only the very next revision is mirrored. *)
AcceptableNextOnly(row, coreRev, intent, snap) ==
    /\ coreRev = 0 \/ coreRev + 1 = snap.revision
    /\ CoreSnapshotTransitionAllowed(row.state, snap.state,
         DecisionAuthorizesCoreState(intent, row.proposal, snap.state))

(* ... if applyCoreSnapshot accepts it, given the core revision and the     *)
(* intent it has read.  The manifest of the evidence is append-only, so a   *)
(* row that names a proposal takes no snapshot without it.                  *)
Acceptable(row, coreRev, intent, snap) ==
    LET next == Mirrored(row, snap)
        approved == /\ intent.decision = "approve"
                    /\ next.proposal # NoDigest /\ intent.digest = next.proposal
    IN  /\ coreRev < snap.revision
        /\ row.proposal # NoDigest => snap.proposal = row.proposal
        /\ ~row.consumed /\ snap.consumed =>
             approved /\ row.state = "applying" /\ snap.state = "completed"
        /\ next.offer /\ snap.state = "applying" => approved /\ ~snap.consumed
        /\ next.offer /\ snap.state = "completed" => approved /\ snap.consumed
        /\ CoreSnapshotTransitionAllowed(row.state, snap.state,
             DecisionAuthorizesCoreState(intent, row.proposal, snap.state))

(* The reads of applyCoreSnapshot are concurrent; what matters is that the  *)
(* core revision and the intent may be older than the row it updates.       *)
ReadMeta(w) ==
    /\ At(w, "meta")
    /\ Goto(w, [req[w] EXCEPT !.pc = "apply", !.coreRev = d1.coreRev, !.intent = d1.intent])
    /\ OnlyWorker

ApplyCoreSnapshot(w) ==
    /\ At(w, "apply")
    /\ LET snap == req[w].snap
       IN  d1' = IF /\ Acceptable(d1, req[w].coreRev, req[w].intent, snap)
                    /\ d1.coreRev <= snap.revision
                 THEN Mirrored(d1, snap) ELSE d1
    /\ Return(w) /\ OnlyRow

-----------------------------------------------------------------------------
(* The worker dies, an answer is lost, or D1 or R2 fails.  The core may     *)
(* still serve a call that is under way.                                    *)
Abandon(w) ==
    /\ ~At(w, "idle") /\ faults < MaxFaults
    /\ faults' = faults + 1
    /\ late' = IF At(w, "call") /\ req[w].call # Get
               THEN late \cup {[call |-> req[w].call, request |-> req[w].request]} ELSE late
    /\ Return(w)
    /\ UNCHANGED <<core, d1, frozen, bundle>>

Step(w) == \/ StoreRequest(w) \/ InsertRow(w) \/ Link(w) \/ RecordDecisionIntent(w)
           \/ ReadCurrent(w) \/ ReserveDispatch(w) \/ SetRemoteJob(w)
           \/ DispatchIsReserved(w) \/ Transition(w) \/ Serve(w)
           \/ MirrorEvidence(w) \/ ReadMeta(w) \/ ApplyCoreSnapshot(w)

Next == \/ \E w \in Workers : Create(w) \/ Step(w) \/ Abandon(w)
        \/ \E w \in Workers : \E op \in OpsOf[w] \ {"create"} : Begin(w, op)
        \/ ServeLate \/ CoreWorks \/ ProposalExpires

Spec == Init /\ [][Next]_vars

(* The workbench asks for a fresh copy again and again in these states. *)
Polling == {"queued", "applying"} \cup Core!Pipeline

Poll(w) == d1.state \in Polling /\ "poll" \in OpsOf[w] /\ Begin(w, "poll")

(* A worker that runs is scheduled, and its calls return or time out. *)
FairSpec == /\ Spec
            /\ \A w \in Workers : WF_vars(Step(w)) /\ WF_vars(Poll(w))

-----------------------------------------------------------------------------
(* The core's view, the row, the objects and the calls under way are well   *)
(* typed; the row's state is one of JOB_STATES.                             *)
TypeOK ==
    /\ view \in Core!Views /\ coreRequest \in Contexts \cup {NoContext}
    /\ granted \in Tokens \cup {NoToken} /\ decided \subseteq Calls /\ fresh \in BOOLEAN
    /\ d1 \in Row /\ frozen \in Contexts \cup {NoContext}
    /\ bundle \in Digests \cup {NoDigest} /\ faults \in Nat
    /\ \A w \in Workers : req[w].call \in Calls
    /\ \A l \in late : l.call \in Calls

(* Every decision the core has acted on was recorded in D1 before, for the  *)
(* proposal the core holds, whatever calls were lost, late or repeated.     *)
IntentBeforeDecision ==
    /\ view.state = "applying" \/ view.consumed =>
         d1.intent = [decision |-> "approve", digest |-> view.proposal]
    /\ view.state = "rejected" => d1.intent = [decision |-> "reject", digest |-> view.proposal]

(* The mirror is never ahead of the core, agrees with it at equal revisions *)
(* and, once dispatched, is closed only as the core is; it names evidence   *)
(* only when that is in R2.                                                 *)
MirrorFaithful ==
    /\ d1.coreRev <= view.revision
    /\ d1.coreRev > 0 => d1.remote
    /\ d1.coreRev > 0 /\ d1.coreRev = view.revision =>
         /\ d1.state = view.state /\ d1.proposal = view.proposal
         /\ d1.consumed = view.consumed
    /\ d1.remote /\ d1.state \in Core!Closed => d1.coreRev = view.revision
    /\ d1.proposal # NoDigest => bundle = d1.proposal

(* A job cancelled before its dispatch never reaches the core.              *)
LocalCancelWins == d1.state = "cancelled" /\ ~d1.remote =>
                     view.state = "absent" /\ ~d1.reserved

(* The row, the R2 object and the core hold one and the same request,       *)
(* although every creation reads the project anew.                          *)
OneRequest == /\ d1.state # "absent" => d1.request = frozen /\ frozen # NoContext
              /\ view.state # "absent" => coreRequest = frozen /\ d1.request = frozen

(* The mirror cannot get stuck: when the core rests, or waits for the       *)
(* owner, its snapshot is one that a worker can mirror.                     *)
MirrorFollows ==
    /\ d1.remote /\ d1.coreRev < view.revision
    /\ view.state \in Core!Closed \cup {"awaiting_approval", "applying"}
    => /\ Acceptable(d1, d1.coreRev, d1.intent, Snapshot(view))
       /\ bundle \in {NoDigest, view.proposal}

-----------------------------------------------------------------------------
(* While the workbench polls, a proposal and the end of a job reach it.     *)
(* (It does not poll a proposal it shows: what becomes of that job then     *)
(* comes with the answer to the owner's next request.)                      *)
MirrorConverges ==
    /\ d1.remote /\ d1.state \in Polling
    /\ view.state \in Core!Closed \cup {"awaiting_approval"}
    ~> d1.state \notin Polling
=============================================================================
