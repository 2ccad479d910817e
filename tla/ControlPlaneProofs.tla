------------------------- MODULE ControlPlaneProofs -------------------------
(***************************************************************************)
(* Theorems about ControlPlane, for any workers, requests in flight, lost  *)
(* and late calls, project contexts, proposals and approval attempts.      *)
(***************************************************************************)
EXTENDS ControlPlane, TLAPS

PCs == {"idle", "store", "insert", "link", "intent", "current", "reserve", "call", "attach",
        "unreserved", "transition", "evidence", "meta", "apply"}

Snapshots == [state : States \cup {"absent", "draft"}, revision : Nat,
              proposal : Digests \cup {NoDigest}, consumed : BOOLEAN]

Requests == [op : Operations \cup {"none"}, pc : PCs, rev : Nat, state : States \cup {"absent"},
             current : Nat, digest : Digests \cup {NoDigest}, token : Tokens \cup {NoToken},
             request : Contexts \cup {NoContext}, coreRev : Nat, intent : Intents,
             call : Calls, snap : Snapshots]

Lates == [call : Calls, request : Contexts \cup {NoContext}]

(* Every variable, with the fields of a request that TypeOK leaves out. *)
Typed ==
    /\ view \in Core!Views /\ coreRequest \in Contexts \cup {NoContext}
    /\ granted \in Tokens \cup {NoToken} /\ decided \subseteq Calls /\ fresh \in BOOLEAN
    /\ d1 \in Row /\ frozen \in Contexts \cup {NoContext}
    /\ bundle \in Digests \cup {NoDigest} /\ faults \in Nat
    /\ req \in [Workers -> Requests] /\ late \subseteq Lates

-----------------------------------------------------------------------------
(* The core's view: a proposal comes with its publication, a consumed      *)
(* approval with the export, and revisions start with the queue.           *)
WasOffered(v) == \/ v.state \in {"awaiting_approval", "applying", "rejected", "cancelled", "failed", "timed_out"}
                 \/ v.consumed

ViewOK ==
    /\ view.state \in {"absent", "draft", "queued"} \cup Core!Pipeline => view.proposal = NoDigest
    /\ view.state \in {"awaiting_approval", "applying", "rejected"} \/ view.consumed => view.proposal # NoDigest
    /\ view.consumed => view.state = "completed"
    /\ view.state \in {"absent", "draft"} <=> view.revision = 0

(* A snapshot s of the job, taken now or earlier. *)
Seen(s) ==
    /\ s.state \in States /\ s.revision <= view.revision /\ s.revision > 0
    /\ s.revision = view.revision => s = Snapshot(view)
    /\ s.proposal # NoDigest => s.proposal = view.proposal
    /\ s.state \in Core!Closed => s.revision = view.revision
    /\ s.state = "applying" => view.state \in {"applying"} \cup Core!Closed
    /\ Offered(s) => WasOffered(view) /\ s.proposal # NoDigest
    /\ s.consumed => s.state = "completed"

(* How far the owner has seen the job go; neither is ever undone. *)
Decidable == d1.state \in {"awaiting_approval", "applying"} \cup Core!Closed
Exportable == d1.state \in {"applying"} \cup Core!Closed

(* A call to the core that is under way or late. *)
CallOK(c, request) ==
    /\ c.op \in {"create", "cancel", "approve", "reject", "export", "get"}
    /\ c.op = "create" => /\ request = frozen /\ frozen # NoContext /\ d1.state # "absent"
                          /\ d1.reserved \/ d1.remote
    /\ c.op # "create" => d1.remote
    /\ c.op \in {"approve", "reject"} => /\ d1.intent = [decision |-> c.op, digest |-> c.digest]
                                         /\ Decidable
    /\ c.op = "export" => Exportable

(* The part of the row's life before the dispatch. *)
DispatchOK ==
    /\ frozen = NoContext => d1.state = "absent"
    /\ d1.state # "absent" => d1.request = frozen
    /\ d1.state = "absent" => ~d1.reserved /\ ~d1.remote /\ d1.coreRev = 0
    /\ view.state = "absent" <=> coreRequest = NoContext
    /\ view.state # "absent" => coreRequest = frozen /\ (d1.reserved \/ d1.remote)
    /\ d1.remote => view.state \notin {"absent", "draft"}
    /\ ~d1.remote => d1.state \in {"absent", "queued", "cancelled"} /\ d1.coreRev = 0
    /\ d1.state = "cancelled" /\ ~d1.remote => ~d1.reserved

(* The row as a mirror of the core. *)
MirrorOK ==
    /\ d1.coreRev <= view.revision
    /\ d1.coreRev > 0 /\ d1.coreRev = view.revision =>
         d1.state = view.state /\ d1.proposal = view.proposal /\ d1.consumed = view.consumed
    /\ d1.remote /\ d1.state \in Core!Closed => d1.coreRev > 0 /\ d1.coreRev = view.revision
    /\ d1.proposal # NoDigest => d1.proposal = view.proposal /\ d1.proposal = bundle
    /\ bundle # NoDigest => bundle = view.proposal
    /\ d1.offer => WasOffered(view) /\ d1.proposal # NoDigest
    /\ d1.state \in {"awaiting_approval", "applying"} => d1.offer
    /\ d1.state = "applying" => /\ d1.intent = [decision |-> "approve", digest |-> d1.proposal]
                                /\ view.state \in {"applying"} \cup Core!Closed
    /\ d1.consumed => view.consumed

(* What the owner decided is in the row before the core has it. *)
DecisionOK ==
    /\ view.state = "applying" \/ view.consumed =>
         d1.intent = [decision |-> "approve", digest |-> view.proposal] /\ Decidable
    /\ view.state = "rejected" =>
         d1.intent = [decision |-> "reject", digest |-> view.proposal] /\ Decidable
    /\ view.consumed => Exportable

(* A worker between two awaits. *)
WorkerOK(w) ==
    LET r == req[w]
    IN  /\ r.pc = "store" => r.request # NoContext
        /\ r.pc = "insert" => r.request = frozen /\ frozen # NoContext
        /\ r.pc \notin {"idle", "store", "insert"} => d1.state # "absent"
        /\ r.pc = "link" => /\ r.op \notin {"none", "create"} /\ r.rev <= d1.revision
                            /\ r.op \in {"approve", "reject"} => Decidable
                            /\ r.op = "export" => Exportable
                            /\ r.op = "approve" /\ r.state = "applying" =>
                                 d1.intent = [decision |-> "approve", digest |-> r.digest]
                            /\ r.op = "approve" => r.state \in {"awaiting_approval", "applying"}
                            /\ r.op = "reject" => r.state = "awaiting_approval"
        /\ r.pc = "intent" => r.op \in {"approve", "reject"} /\ Decidable /\ d1.remote
        /\ r.pc = "call" => CallOK(r.call, r.request)
        /\ r.pc = "attach" => (d1.reserved \/ d1.remote) /\ view.state \notin {"absent", "draft"}
        /\ r.pc \in {"attach", "evidence", "meta", "apply"} => Seen(r.snap)
        /\ r.pc \in {"evidence", "meta", "apply"} => d1.remote
        /\ r.pc \in {"meta", "apply"} => r.snap.proposal \in {NoDigest, bundle}
        /\ r.pc = "apply" => r.intent \in {NoIntent, d1.intent} /\ r.coreRev <= d1.coreRev
        /\ r.pc \in {"unreserved", "transition"} =>
             /\ r.rev <= d1.revision
             /\ r.rev = d1.revision => ~d1.remote
        /\ r.pc = "transition" => (r.rev = d1.revision => ~d1.reserved)

Inv == /\ Typed /\ ViewOK /\ DispatchOK /\ MirrorOK /\ DecisionOK
       /\ \A w \in Workers : WorkerOK(w)
       /\ \A l \in late : CallOK(l.call, l.request)

-----------------------------------------------------------------------------
(* The core's steps, field by field. *)
SameProposal == view'.proposal = view.proposal /\ view'.consumed = view.consumed

(* What the core does without a decision of the owner. *)
Undecided ==
    \/ /\ view.state = "draft" /\ view'.state = "queued" /\ SameProposal
    \/ /\ view.state \in {"queued"} \cup Core!Pipeline /\ view'.state \in {"queued"} \cup Core!Pipeline
       /\ SameProposal
    \/ /\ view.state = "collecting" /\ view'.state \in {"awaiting_approval", "completed", "timed_out"}
       /\ view.proposal = NoDigest /\ view'.proposal \in Digests /\ view'.consumed = view.consumed
    \/ /\ view.state \in {"awaiting_approval", "applying"} \cup Core!Pipeline
       /\ view'.state \in {"cancelled", "failed", "timed_out"} /\ SameProposal

Decisions ==
    \/ view.state = "awaiting_approval" /\ view'.state \in {"applying", "rejected"} /\ SameProposal
    \/ /\ view.state = "applying" /\ ~view.consumed /\ view'.state = "completed"
       /\ view'.proposal = view.proposal /\ view'.consumed = TRUE

CoreMoves ==
    /\ view' \in Core!Views
    /\ \/ /\ view.state = "absent" /\ view'.state = "draft" /\ view'.revision = view.revision /\ SameProposal
       \/ view'.revision = view.revision + 1 /\ (Undecided \/ Decisions)

LEMMA BecomeMoves ==
    ASSUME view \in Core!Views, NEW to \in {"queued", "applying", "rejected", "cancelled", "failed", "timed_out"}
                                           \cup Core!Pipeline, Core!Become(to)
    PROVE  /\ view' \in Core!Views /\ view'.revision = view.revision + 1
           /\ view'.state = to /\ SameProposal
  <1> DEFINE n == view.revision + 1
  <1>1. n \in Nat /\ n = view.revision + 1
    BY DEF Core!Views
  <1>2. view' = [view EXCEPT !.state = to, !.revision = n]
    BY DEF Core!Become
  <1> HIDE DEF n
  <1>3. view' \in Core!Views
    BY <1>1, <1>2 DEF Core!Views, Core!Closed
  <1>4. view'.revision = n /\ view'.state = to
    BY <1>1, <1>2 DEF Core!Views
  <1>5. view'.proposal = view.proposal /\ view'.consumed = view.consumed
    BY <1>1, <1>2 DEF Core!Views
  <1> QED BY <1>1, <1>3, <1>4, <1>5 DEF SameProposal

LEMMA WorkMoves ==
    ASSUME view \in Core!Views, Core!Work
    PROVE  view' \in Core!Views /\ view'.revision = view.revision + 1 /\ Undecided
  <1>1. CASE Core!Advance
    <2>1. PICK to \in Core!Pipeline : <<view.state, to>> \in Core!Stages /\ Core!Become(to)
      BY <1>1 DEF Core!Advance
    <2>2. view.state \in {"queued"} \cup Core!Pipeline
      BY <2>1 DEF Core!Stages, Core!Pipeline
    <2> QED BY <2>1, <2>2, BecomeMoves DEF Undecided
  <1>2. CASE Core!Requeue
    BY <1>2, BecomeMoves DEF Core!Requeue, Undecided
  <1>3. ASSUME NEW d \in Digests, NEW to \in {"awaiting_approval", "completed", "timed_out"}, Core!Publish(to, d)
        PROVE  view' \in Core!Views /\ view'.revision = view.revision + 1 /\ Undecided
    <2> DEFINE n == view.revision + 1
    <2>0. n \in Nat /\ n = view.revision + 1
      BY DEF Core!Views
    <2>1. view' = [view EXCEPT !.state = to, !.revision = n, !.proposal = d]
      BY <1>3 DEF Core!Publish
    <2> HIDE DEF n
    <2>2. /\ view' \in Core!Views /\ view'.revision = view.revision + 1 /\ view'.state = to
          /\ view'.proposal = d /\ view'.consumed = view.consumed
      BY <2>0, <2>1 DEF Core!Views, Core!Closed
    <2> QED BY <1>3, <2>2 DEF Core!Publish, Undecided
  <1>4. ASSUME NEW to \in {"cancelled", "failed", "timed_out"}, Core!Abort(to)
        PROVE  view' \in Core!Views /\ view'.revision = view.revision + 1 /\ Undecided
    BY <1>4, BecomeMoves DEF Core!Abort, Undecided
  <1> QED BY <1>1, <1>2, <1>3, <1>4 DEF Core!Work, Core!Offer, Core!Finish, Core!Fail

LEMMA CancelMoves ==
    ASSUME view \in Core!Views, view.state # "draft", Core!RequestCancel
    PROVE  view' \in Core!Views /\ view'.revision = view.revision + 1 /\ Undecided
  <1> DEFINE to == IF view.state \in {"awaiting_approval", "applying"} THEN "cancelled" ELSE view.state
             n == view.revision + 1
  <1>0. n \in Nat /\ n = view.revision + 1
    BY DEF Core!Views
  <1>1. view' = [view EXCEPT !.cancel = TRUE, !.revision = n, !.state = to]
    BY DEF Core!RequestCancel
  <1>2. to \in {"absent", "draft", "queued", "awaiting_approval", "applying"} \cup Core!Pipeline \cup Core!Closed
    BY DEF Core!Views, Core!Closed
  <1>3. to = IF view.state \in {"awaiting_approval", "applying"} THEN "cancelled" ELSE view.state
    OBVIOUS
  <1> HIDE DEF to, n
  <1>4. /\ view' \in Core!Views /\ view'.revision = view.revision + 1 /\ view'.state = to
        /\ view'.proposal = view.proposal /\ view'.consumed = view.consumed
    BY <1>0, <1>1, <1>2 DEF Core!Views
  <1>5. view.state \in {"queued", "awaiting_approval", "applying"} \cup Core!Pipeline
    BY DEF Core!RequestCancel, Core!Views
  <1> QED BY <1>3, <1>4, <1>5 DEF Undecided, SameProposal

LEMMA CreateMoves ==
    ASSUME view \in Core!Views, Core!Create
    PROVE  view' \in Core!Views /\ view.state = "absent" /\ view'.state = "draft"
           /\ view'.revision = view.revision /\ SameProposal
  BY DEF Core!Create, Core!Views, SameProposal

LEMMA EnqueueMoves ==
    ASSUME view \in Core!Views, Core!Enqueue
    PROVE  view' \in Core!Views /\ view'.revision = view.revision + 1 /\ Undecided
  BY BecomeMoves DEF Core!Enqueue, Undecided

LEMMA ExportMoves ==
    ASSUME view \in Core!Views, Core!Export
    PROVE  view' \in Core!Views /\ view'.revision = view.revision + 1 /\ Decisions
           /\ view.state = "applying" /\ view'.consumed = TRUE /\ view'.proposal = view.proposal
  <1> DEFINE n == view.revision + 1
  <1>0. n \in Nat /\ n = view.revision + 1
    BY DEF Core!Views
  <1>1. view' = [view EXCEPT !.state = "completed", !.revision = n, !.consumed = TRUE]
    BY DEF Core!Export
  <1> HIDE DEF n
  <1>2. /\ view' \in Core!Views /\ view'.revision = view.revision + 1 /\ view'.state = "completed"
        /\ view'.proposal = view.proposal /\ view'.consumed = TRUE
    BY <1>0, <1>1 DEF Core!Views, Core!Closed
  <1> QED BY <1>2 DEF Core!Export, Decisions

-----------------------------------------------------------------------------
(* What a step of the core keeps. *)
LEMMA ViewKept == ASSUME Typed, ViewOK, CoreMoves PROVE ViewOK'
  <1>0. view.revision \in Nat /\ view.state \in {"absent", "draft", "queued", "awaiting_approval", "applying"}
                                                  \cup Core!Pipeline \cup Core!Closed
    BY DEF Typed, Core!Views
  <1>1. CASE /\ view.state = "absent" /\ view'.state = "draft" /\ view'.revision = view.revision
             /\ SameProposal
    BY <1>1 DEF SameProposal, ViewOK
  <1>2. CASE view'.revision = view.revision + 1 /\ Undecided
    <2>1. view'.revision > 0 /\ NoDigest \notin Digests /\ view.state # "absent"
      BY <1>0, <1>2, PlaneAssumption DEF Undecided, Core!Pipeline
    <2>2. view'.state \notin {"absent"} /\ (view'.state = "draft" => view.state = "draft")
      BY <1>2, <2>1 DEF Undecided, Core!Pipeline
    <2> QED BY <1>0, <1>2, <2>1, <2>2 DEF Undecided, SameProposal, ViewOK, Core!Pipeline
  <1>3. CASE view'.revision = view.revision + 1 /\ Decisions
    BY <1>0, <1>3 DEF Decisions, SameProposal, ViewOK, Core!Pipeline
  <1> QED BY <1>1, <1>2, <1>3 DEF CoreMoves

LEMMA SeenKept ==
    ASSUME Typed, ViewOK, CoreMoves, NEW s \in Snapshots, Seen(s)
    PROVE  Seen(s)'
  <1>0. /\ view.revision \in Nat /\ view'.revision \in Nat /\ s.revision \in Nat
        /\ view.state \in {"absent", "draft", "queued", "awaiting_approval", "applying"}
                          \cup Core!Pipeline \cup Core!Closed
    BY DEF Typed, Core!Views, Snapshots, CoreMoves
  <1>1. view.state \notin {"absent", "draft"}
    BY <1>0 DEF Seen, ViewOK
  <1>2. view'.revision = view.revision + 1 /\ (Undecided \/ Decisions)
    BY <1>1 DEF CoreMoves
  <1>3. view.state \notin Core!Closed
    BY <1>2 DEF Undecided, Decisions, Core!Closed, Core!Pipeline
  <1>4. s.state \notin Core!Closed
    <2> SUFFICES ASSUME s.state \in Core!Closed PROVE FALSE
      OBVIOUS
    <2>1. s = Snapshot(view)
      BY DEF Seen
    <2> QED BY <1>3, <2>1 DEF Snapshot
  <1>5. s.proposal # NoDigest => s.proposal = view'.proposal
    BY <1>2 DEF Seen, Undecided, Decisions, SameProposal
  <1>6. s.state = "applying" => view'.state \in {"applying"} \cup Core!Closed
    BY <1>2 DEF Seen, Undecided, Decisions, Core!Closed, Core!Pipeline
  <1>7. WasOffered(view) => WasOffered(view')
    BY <1>2 DEF WasOffered, Undecided, Decisions, SameProposal, Core!Pipeline
  <1> QED BY <1>0, <1>2, <1>4, <1>5, <1>6, <1>7 DEF Seen

LEMMA SeenNow ==
    ASSUME Typed, ViewOK, view.state \notin {"absent", "draft"}
    PROVE  Snapshot(view) \in Snapshots /\ Seen(Snapshot(view))
  <1>1. Snapshot(view) \in Snapshots
    BY DEF Typed, Core!Views, Snapshot, Snapshots, States
  <1>2. /\ Snapshot(view).state = view.state /\ Snapshot(view).revision = view.revision
        /\ Snapshot(view).proposal = view.proposal /\ Snapshot(view).consumed = view.consumed
    BY DEF Snapshot
  <1>3. view.revision \in Nat /\ view.state \in States
    BY DEF Typed, Core!Views, States
  <1> QED BY <1>1, <1>2, <1>3 DEF Seen, ViewOK, Offered, WasOffered

-----------------------------------------------------------------------------
(* What only ever grows, so that what a waiting worker knows stays true. *)
RowForward ==
    /\ d1.state # "absent" => d1'.state # "absent"
    /\ d1.remote => d1'.remote
    /\ d1.reserved => d1'.reserved \/ d1'.remote
    /\ d1.revision <= d1'.revision
    /\ d1'.revision = d1.revision => (d1'.remote => d1.remote) /\ (d1'.reserved => d1.reserved)
    /\ Decidable => Decidable'
    /\ Exportable => Exportable'
    /\ d1.intent # NoIntent => d1'.intent = d1.intent
    /\ d1.coreRev <= d1'.coreRev

CoreForward ==
    /\ view.state \notin {"absent", "draft"} => view'.state \notin {"absent", "draft"}
    /\ \A s \in Snapshots : Seen(s) => Seen(s)'

Forward ==
    /\ RowForward
    /\ CoreForward
    /\ frozen # NoContext => frozen' = frozen
    /\ bundle # NoDigest => bundle' = bundle

LEMMA IntentNotNone ==
    ASSUME NEW o \in {"approve", "reject"}, NEW d
    PROVE  [decision |-> o, digest |-> d] # NoIntent
  BY DEF NoIntent

LEMMA CallKept ==
    ASSUME Forward, NEW c, NEW q, CallOK(c, q)
    PROVE  CallOK(c, q)'
  <1>1. c.op = "create" => /\ q = frozen' /\ frozen' # NoContext /\ d1'.state # "absent"
                           /\ d1'.reserved \/ d1'.remote
    BY DEF CallOK, Forward, RowForward
  <1>2. c.op # "create" => d1'.remote
    BY DEF CallOK, Forward, RowForward
  <1>3. c.op \in {"approve", "reject"} => /\ d1'.intent = [decision |-> c.op, digest |-> c.digest]
                                          /\ Decidable'
    BY IntentNotNone DEF CallOK, Forward, RowForward
  <1>4. c.op = "export" => Exportable'
    BY DEF CallOK, Forward, RowForward
  <1> QED BY <1>1, <1>2, <1>3, <1>4 DEF CallOK

LEMMA WorkerKept ==
    ASSUME Typed, d1' \in Row, Forward, NEW w \in Workers, WorkerOK(w), req'[w] = req[w]
    PROVE  WorkerOK(w)'
  <1> DEFINE r == req[w]
  <1>0. /\ r \in Requests /\ r.rev \in Nat /\ r.coreRev \in Nat /\ r.snap \in Snapshots
        /\ d1.revision \in Nat /\ d1'.revision \in Nat /\ d1.coreRev \in Nat /\ d1'.coreRev \in Nat
    BY DEF Typed, Requests, Row
  <1>1. /\ r.pc = "store" => r.request # NoContext
        /\ r.pc = "insert" => r.request = frozen' /\ frozen' # NoContext
        /\ r.pc \notin {"idle", "store", "insert"} => d1'.state # "absent"
    BY DEF WorkerOK, Forward, RowForward
  <1>2. r.pc = "link" => /\ r.op \notin {"none", "create"} /\ r.rev <= d1'.revision
                         /\ r.op \in {"approve", "reject"} => Decidable'
                         /\ r.op = "export" => Exportable'
                         /\ r.op = "approve" => r.state \in {"awaiting_approval", "applying"}
                         /\ r.op = "reject" => r.state = "awaiting_approval"
    BY <1>0 DEF WorkerOK, Forward, RowForward
  <1>3. r.pc = "link" /\ r.op = "approve" /\ r.state = "applying" =>
          d1'.intent = [decision |-> "approve", digest |-> r.digest]
    BY IntentNotNone DEF WorkerOK, Forward, RowForward
  <1>4. r.pc = "intent" => r.op \in {"approve", "reject"} /\ Decidable' /\ d1'.remote
    BY DEF WorkerOK, Forward, RowForward
  <1>5. r.pc = "call" => CallOK(r.call, r.request)'
    <2> SUFFICES ASSUME r.pc = "call" PROVE CallOK(r.call, r.request)'
      OBVIOUS
    <2>1. CallOK(r.call, r.request)
      BY DEF WorkerOK
    <2>2. PICK c, q : c = r.call /\ q = r.request
      OBVIOUS
    <2>3. CallOK(c, q)'
      BY <2>1, <2>2, CallKept
    <2>4. c = req'[w].call /\ q = req'[w].request
      BY <2>2
    <2> QED BY <2>3, <2>4
  <1>6. /\ r.pc = "attach" => (d1'.reserved \/ d1'.remote) /\ view'.state \notin {"absent", "draft"}
        /\ r.pc \in {"evidence", "meta", "apply"} => d1'.remote
        /\ r.pc \in {"meta", "apply"} => r.snap.proposal \in {NoDigest, bundle'}
        /\ r.pc = "apply" => r.intent \in {NoIntent, d1'.intent} /\ r.coreRev <= d1'.coreRev
    BY <1>0 DEF WorkerOK, Forward, RowForward, CoreForward
  <1>7. r.pc \in {"attach", "evidence", "meta", "apply"} => Seen(r.snap)'
    <2> SUFFICES ASSUME r.pc \in {"attach", "evidence", "meta", "apply"} PROVE Seen(r.snap)'
      OBVIOUS
    <2>1. Seen(r.snap)
      BY DEF WorkerOK
    <2>2. PICK s \in Snapshots : s = r.snap
      BY <1>0
    <2>3. Seen(s)'
      BY <2>1, <2>2 DEF Forward, CoreForward
    <2>4. s = req'[w].snap
      BY <2>2
    <2> QED BY <2>3, <2>4
  <1>8. /\ r.pc \in {"unreserved", "transition"} =>
             /\ r.rev <= d1'.revision
             /\ r.rev = d1'.revision => ~d1'.remote
        /\ r.pc = "transition" => (r.rev = d1'.revision => ~d1'.reserved)
    BY <1>0 DEF WorkerOK, Forward, RowForward
  <1> QED BY <1>1, <1>2, <1>3, <1>4, <1>5, <1>6, <1>7, <1>8 DEF WorkerOK

(* A step of the core, seen from the row. *)
LEMMA CoreMovesKeep ==
    ASSUME Typed, ViewOK, CoreMoves
    PROVE  CoreForward
  <1>1. view.state \notin {"absent", "draft"} => view'.state \notin {"absent", "draft"}
    BY DEF CoreMoves, Undecided, Decisions, Core!Pipeline
  <1> QED BY <1>1, SeenKept DEF CoreForward

LEMMA MirrorKept ==
    ASSUME Typed, ViewOK, DispatchOK, MirrorOK, CoreMoves, UNCHANGED <<d1, bundle>>
    PROVE  MirrorOK'
  <1>0. /\ view.revision \in Nat /\ view'.revision \in Nat /\ d1.coreRev \in Nat
        /\ view.state \in {"absent", "draft", "queued", "awaiting_approval", "applying"}
                          \cup Core!Pipeline \cup Core!Closed
    BY DEF Typed, Core!Views, Row, CoreMoves
  <1>1. CASE view.state = "absent"
    <2>1. d1.coreRev = 0 /\ ~d1.offer /\ d1.proposal = NoDigest /\ bundle = NoDigest /\ ~d1.remote
          /\ d1.state # "applying" /\ ~d1.consumed
      BY <1>0, <1>1 DEF ViewOK, MirrorOK, DispatchOK, WasOffered, Core!Closed
    <2> QED BY <1>0, <2>1 DEF MirrorOK
  <1>2. CASE view.state # "absent"
    <2>1. view'.revision = view.revision + 1 /\ (Undecided \/ Decisions)
      BY <1>2 DEF CoreMoves
    <2>2. view.state \notin Core!Closed
      BY <2>1 DEF Undecided, Decisions, Core!Closed, Core!Pipeline
    <2>3. ~(d1.remote /\ d1.state \in Core!Closed)
      BY <2>2 DEF MirrorOK
    <2>4. view.proposal # NoDigest => view'.proposal = view.proposal
      BY <2>1 DEF Undecided, Decisions, SameProposal
    <2>5. WasOffered(view) => WasOffered(view')
      BY <2>1 DEF WasOffered, Undecided, Decisions, SameProposal, Core!Pipeline
    <2>6. view.state = "applying" => view'.state \in {"applying"} \cup Core!Closed
      BY <2>1 DEF Undecided, Decisions, Core!Closed, Core!Pipeline
    <2>7. view.consumed => view'.consumed
      BY <2>1 DEF Undecided, Decisions, SameProposal
    <2> QED BY <1>0, <2>1, <2>2, <2>3, <2>4, <2>5, <2>6, <2>7 DEF MirrorOK
  <1> QED BY <1>1, <1>2

LEMMA DispatchKept ==
    ASSUME Typed, ViewOK, DispatchOK, CoreMoves, view.state # "absent",
           UNCHANGED <<d1, frozen, coreRequest>>
    PROVE  DispatchOK'
  <1>1. view'.state # "absent" /\ (view.state # "draft" => view'.state # "draft")
    BY DEF CoreMoves, Undecided, Decisions, Core!Pipeline
  <1> QED BY <1>1 DEF DispatchOK

(* A step of the core that decides nothing. *)
LEMMA UndecidedKeeps ==
    ASSUME Typed, ViewOK, DecisionOK, CoreMoves, ~Decisions, UNCHANGED d1
    PROVE  DecisionOK'
  <1>1. CASE view.state = "absent"
    BY <1>1 DEF CoreMoves, SameProposal, DecisionOK, ViewOK, Undecided, Core!Pipeline
  <1>2. CASE view.state # "absent"
    <2>1. Undecided
      BY <1>2 DEF CoreMoves
    <2>2. view'.state \notin {"applying", "rejected"} /\ ~view'.consumed
      BY <2>1 DEF Undecided, SameProposal, ViewOK, Core!Pipeline
    <2> QED BY <2>2 DEF DecisionOK
  <1> QED BY <1>1, <1>2

-----------------------------------------------------------------------------
(* A worker's own steps: it moves to the request r, and nothing else moves. *)
LEMMA IdleType == Idle \in Requests /\ Idle.pc = "idle" /\ NoCall \in Calls /\ Get \in Calls /\ Get.op = "get"
  <1>1. NoCall \in Calls
    BY DEF NoCall, Calls
  <1>2. Get \in Calls /\ Get.op = "get"
    BY <1>1 DEF Get, Calls
  <1>3. NoIntent \in Intents
    BY DEF NoIntent, Intents
  <1>4. [state |-> "absent", revision |-> 0, proposal |-> NoDigest, consumed |-> FALSE] \in Snapshots
    BY DEF Snapshots
  <1>5. Idle \in Requests /\ Idle.pc = "idle"
    BY <1>1, <1>3, <1>4 DEF Idle, Requests, PCs
  <1> QED BY <1>1, <1>2, <1>5

LEMMA Moved ==
    ASSUME req \in [Workers -> Requests], NEW w \in Workers, NEW r \in Requests, Goto(w, r)
    PROVE  /\ req' \in [Workers -> Requests] /\ req'[w] = r
           /\ \A v \in Workers \ {w} : req'[v] = req[v]
  BY DEF Goto

LEMMA StillForward ==
    ASSUME Typed, UNCHANGED <<core, d1, frozen, bundle>>
    PROVE  Forward
  <1>1. RowForward
    BY DEF Typed, Row, RowForward, Decidable, Exportable
  <1>2. CoreForward
    BY DEF CoreForward, Seen, WasOffered, core
  <1> QED BY <1>1, <1>2 DEF Forward

(* The invariant after a step of one worker. *)
LEMMA Assemble ==
    ASSUME Inv, Typed', ViewOK', DispatchOK', MirrorOK', DecisionOK', Forward,
           NEW w \in Workers, \A v \in Workers \ {w} : req'[v] = req[v], WorkerOK(w)',
           \A l \in late' : l \in late \/ CallOK(l.call, l.request)'
    PROVE  Inv'
  <1>1. \A v \in Workers : WorkerOK(v)'
    BY WorkerKept DEF Inv, Typed
  <1>2. \A l \in late' : CallOK(l.call, l.request)'
    BY CallKept DEF Inv
  <1> QED BY <1>1, <1>2 DEF Inv

(* ... which is at rest, or has only looked. *)
LEMMA Rests ==
    ASSUME Inv, NEW w \in Workers, Return(w)
    PROVE  /\ req' \in [Workers -> Requests] /\ WorkerOK(w)'
           /\ \A v \in Workers \ {w} : req'[v] = req[v]
  <1>1. /\ req' \in [Workers -> Requests] /\ req'[w] = Idle
        /\ \A v \in Workers \ {w} : req'[v] = req[v]
    BY Moved, IdleType DEF Inv, Typed, Return
  <1> QED BY <1>1, IdleType DEF WorkerOK

LEMMA Looks ==
    ASSUME Inv, NEW w \in Workers, NEW r \in Requests, Goto(w, r), OnlyWorker,
           req'[w] = r => WorkerOK(w)'
    PROVE  Inv'
  <1>1. /\ req' \in [Workers -> Requests] /\ req'[w] = r
        /\ \A v \in Workers \ {w} : req'[v] = req[v]
    BY Moved DEF Inv, Typed
  <1>2. Typed'
    BY <1>1 DEF Inv, Typed, OnlyWorker, core
  <1>3. Forward
    BY StillForward DEF Inv, OnlyWorker
  <1>4. ViewOK' /\ DispatchOK'
    BY DEF Inv, OnlyWorker, core, ViewOK, DispatchOK
  <1>5. MirrorOK'
    BY DEF Inv, OnlyWorker, core, MirrorOK, WasOffered
  <1>6. DecisionOK'
    BY DEF Inv, OnlyWorker, core, DecisionOK, Decidable, Exportable
  <1> QED BY <1>1, <1>2, <1>3, <1>4, <1>5, <1>6, Assemble DEF OnlyWorker

LEMMA Leaves == ASSUME Inv, NEW w \in Workers, Return(w), OnlyWorker PROVE Inv'
  BY Rests, Looks, IdleType DEF Return

LEMMA CreateKeeps == ASSUME Inv, NEW w \in Workers, Create(w) PROVE Inv'
  <1>1. PICK c \in Contexts :
          Goto(w, [Idle EXCEPT !.op = "create", !.pc = "store", !.request = c])
    BY DEF Create
  <1> DEFINE r == [Idle EXCEPT !.op = "create", !.pc = "store", !.request = c]
  <1>2. r \in Requests /\ r.pc = "store" /\ r.request = c
    BY IdleType DEF Requests, PCs, Operations
  <1> HIDE DEF r
  <1>3. Goto(w, r)
    BY <1>1 DEF r
  <1>4. req'[w] = r => WorkerOK(w)'
    BY <1>2, PlaneAssumption DEF WorkerOK
  <1> QED BY <1>2, <1>3, <1>4, Looks DEF Create

LEMMA BeginKeeps ==
    ASSUME Inv, NEW w \in Workers, NEW op \in OpsOf[w] \ {"create"}, Begin(w, op)
    PROVE  Inv'
  <1>0. op \in Operations \ {"create", "none"} /\ d1 \in Row /\ d1.state # "absent"
    BY PlaneAssumption DEF Begin, Inv, Typed, Operations
  <1>1. PICK rev \in IF op = "approve" /\ d1.state = "applying" THEN 0..d1.revision
                     ELSE {d1.revision},
             t \in IF op \in {"approve", "export"} THEN Tokens ELSE {NoToken} :
          Goto(w, [Idle EXCEPT !.op = op, !.pc = "link", !.rev = rev, !.token = t,
                               !.state = d1.state, !.digest = d1.proposal])
    BY DEF Begin
  <1>2. rev \in Nat /\ rev <= d1.revision /\ t \in Tokens \cup {NoToken}
    BY <1>0 DEF Row
  <1> DEFINE r == [Idle EXCEPT !.op = op, !.pc = "link", !.rev = rev, !.token = t,
                               !.state = d1.state, !.digest = d1.proposal]
  <1>3. /\ r \in Requests /\ r.op = op /\ r.pc = "link" /\ r.rev = rev
        /\ r.state = d1.state /\ r.digest = d1.proposal
    BY <1>0, <1>2, IdleType DEF Requests, PCs, Row
  <1> HIDE DEF r
  <1>4. Goto(w, r)
    BY <1>1 DEF r
  <1>5. /\ op = "approve" => d1.state \in {"awaiting_approval", "applying"}
        /\ op = "reject" => d1.state = "awaiting_approval"
        /\ op = "export" => d1.state \in {"applying", "completed"}
    BY <1>0 DEF Begin, Admitted
  <1>6. req'[w] = r => WorkerOK(w)'
    <2> SUFFICES ASSUME req'[w] = r PROVE WorkerOK(w)'
      OBVIOUS
    <2>1. op \in {"approve", "reject"} => Decidable'
      BY <1>5 DEF Begin, OnlyWorker, Decidable
    <2>2. op = "export" => Exportable'
      BY <1>5 DEF Begin, OnlyWorker, Exportable, Core!Closed
    <2>3. d1.state = "applying" => d1'.intent = [decision |-> "approve", digest |-> d1.proposal]
      BY DEF Inv, MirrorOK, Begin, OnlyWorker
    <2> QED BY <1>0, <1>2, <1>3, <1>5, <2>1, <2>2, <2>3 DEF WorkerOK, Begin, OnlyWorker
  <1> QED BY <1>3, <1>4, <1>6, Looks DEF Begin

(* A worker that turns to the core. *)
LEMMA Sends ==
    ASSUME Inv, NEW w \in Workers, NEW c \in Calls, Send(w, c)
    PROVE  \E r \in Requests : /\ Goto(w, r) /\ r.pc = "call" /\ r.call = c
                               /\ r.request = req[w].request
  <1> DEFINE r == [Idle EXCEPT !.op = req[w].op, !.rev = req[w].rev, !.pc = "call",
                               !.request = req[w].request, !.call = c]
  <1>1. /\ req[w].op \in Operations \cup {"none"} /\ req[w].rev \in Nat
        /\ req[w].request \in Contexts \cup {NoContext}
    BY DEF Inv, Typed, Requests
  <1>2. r \in Requests /\ r.pc = "call" /\ r.call = c /\ r.request = req[w].request
    BY <1>1, IdleType DEF Requests, PCs
  <1>3. Goto(w, r)
    BY DEF Send
  <1> QED BY <1>2, <1>3

LEMMA CallsOn ==
    ASSUME NEW w \in Workers, NEW r, req'[w] = r, r.pc = "call", CallOK(r.call, r.request)',
           d1'.state # "absent"
    PROVE  WorkerOK(w)'
  BY DEF WorkerOK

LEMMA SendsQuietly ==
    ASSUME Inv, NEW w \in Workers, NEW c \in Calls, Send(w, c), OnlyWorker,
           d1.state # "absent", CallOK(c, req[w].request)
    PROVE  Inv'
  <1>1. PICK r \in Requests : /\ Goto(w, r) /\ r.pc = "call" /\ r.call = c
                              /\ r.request = req[w].request
    BY Sends
  <1>2. CallOK(r.call, r.request)'
    BY <1>1 DEF CallOK, OnlyWorker, Decidable, Exportable
  <1>3. req'[w] = r => WorkerOK(w)'
    BY <1>1, <1>2, CallsOn DEF OnlyWorker
  <1> QED BY <1>1, <1>3, Looks

LEMMA GetOK == ASSUME d1.remote, NEW q PROVE CallOK(Get, q)
  BY IdleType DEF CallOK

LEMMA LinkKeeps == ASSUME Inv, NEW w \in Workers, Link(w) PROVE Inv'
  <1> DEFINE r == req[w]
             op == r.op
  <1>0. /\ r \in Requests /\ d1 \in Row /\ r.pc = "link" /\ d1.coreRev \in Nat
        /\ op \in Operations \ {"create"} /\ d1.state # "absent" /\ WorkerOK(w)
    BY DEF Inv, Typed, Row, Link, At, WorkerOK, Requests
  <1>1. CASE Return(w)
    BY <1>1, Leaves DEF Link
  <1>2. CASE d1.remote /\ Send(w, Get)
    BY <1>0, <1>2, GetOK, IdleType, SendsQuietly DEF Link
  <1>3. CASE /\ op = "dispatch" /\ Goto(w, [req[w] EXCEPT !.pc = "current"])
    <2> DEFINE n == [req[w] EXCEPT !.pc = "current"]
    <2>1. n \in Requests /\ n.pc = "current"
      BY <1>0 DEF Requests, PCs
    <2> HIDE DEF n
    <2>2. req'[w] = n => WorkerOK(w)'
      BY <1>0, <2>1 DEF WorkerOK, Link, OnlyWorker
    <2> QED BY <1>3, <2>1, <2>2, Looks DEF n, Link
  <1>4. CASE op = "cancel" /\ ~d1.remote /\ Goto(w, [req[w] EXCEPT !.pc = "unreserved"])
    <2> DEFINE n == [req[w] EXCEPT !.pc = "unreserved"]
    <2>1. n \in Requests /\ n.pc = "unreserved" /\ n.rev = r.rev
      BY <1>0 DEF Requests, PCs
    <2> HIDE DEF n
    <2>2. req'[w] = n => WorkerOK(w)'
      BY <1>0, <1>4, <2>1 DEF WorkerOK, Link, OnlyWorker
    <2> QED BY <1>4, <2>1, <2>2, Looks DEF n, Link
  <1>5. CASE /\ op = "cancel" /\ d1.remote
             /\ Send(w, [NoCall EXCEPT !.op = op, !.rev = req[w].rev, !.expected = d1.coreRev])
    <2> DEFINE c == [NoCall EXCEPT !.op = op, !.rev = req[w].rev, !.expected = d1.coreRev]
    <2>1. c \in Calls /\ c.op = "cancel"
      BY <1>0, <1>5, IdleType DEF Calls, Requests, Operations
    <2> HIDE DEF c
    <2>2. CallOK(c, r.request)
      BY <1>5, <2>1 DEF CallOK
    <2> QED BY <1>0, <1>5, <2>1, <2>2, SendsQuietly DEF c, Link
  <1>6. CASE /\ op = "export" /\ d1.remote /\ d1.coreRev # 0
             /\ Send(w, [Decision(w, IF req[w].state = "completed" THEN d1.coreRev - 1 ELSE d1.coreRev)
                         EXCEPT !.rev = 0])
    <2> DEFINE e == IF req[w].state = "completed" THEN d1.coreRev - 1 ELSE d1.coreRev
               c == [Decision(w, e) EXCEPT !.rev = 0]
    <2>1. e \in Nat
      BY <1>0, <1>6
    <2>2. c = [op |-> "export", rev |-> 0, expected |-> e, digest |-> req[w].digest, token |-> req[w].token]
      BY <1>6 DEF Decision
    <2>3. Send(w, c)
      BY <1>6
    <2> HIDE DEF c, e
    <2>4. c \in Calls /\ c.op = "export"
      BY <1>0, <2>1, <2>2 DEF Calls, Requests, Operations
    <2>5. CallOK(c, r.request)
      BY <1>0, <1>6, <2>4 DEF CallOK, WorkerOK
    <2> QED BY <1>0, <2>3, <2>4, <2>5, SendsQuietly DEF Link
  <1>7. CASE /\ op \in {"approve", "reject"} /\ d1.remote /\ d1.coreRev # 0
             /\ r.state \in {"applying", "completed"}
             /\ Send(w, Decision(w, d1.coreRev - 1))
    <2> DEFINE e == d1.coreRev - 1
               c == Decision(w, e)
    <2>1. e \in Nat
      BY <1>0, <1>7
    <2>2. op = "approve" /\ r.state = "applying"
      BY <1>0, <1>7 DEF WorkerOK
    <2>3. Send(w, c)
      BY <1>7
    <2>4. c = [op |-> "approve", rev |-> req[w].rev, expected |-> e, digest |-> req[w].digest,
               token |-> req[w].token]
      BY <2>2 DEF Decision
    <2> HIDE DEF c, e
    <2>5. c \in Calls /\ c.op = "approve" /\ c.digest = r.digest
      BY <1>0, <2>1, <2>4 DEF Calls, Requests, Operations
    <2>6. CallOK(c, r.request)
      BY <1>0, <1>7, <2>2, <2>5 DEF CallOK, WorkerOK
    <2> QED BY <1>0, <2>3, <2>5, <2>6, SendsQuietly DEF Link
  <1>8. CASE /\ op \in {"approve", "reject"} /\ d1.remote
             /\ Goto(w, [req[w] EXCEPT !.pc = "intent", !.coreRev = d1.coreRev])
    <2> DEFINE n == [req[w] EXCEPT !.pc = "intent", !.coreRev = d1.coreRev]
    <2>1. n \in Requests /\ n.pc = "intent" /\ n.op = op
      BY <1>0 DEF Requests, PCs
    <2> HIDE DEF n
    <2>2. Decidable'
      BY <1>0, <1>8 DEF WorkerOK, Link, OnlyWorker, Decidable
    <2>3. req'[w] = n => WorkerOK(w)'
      BY <1>0, <1>8, <2>1, <2>2 DEF WorkerOK, Link, OnlyWorker
    <2> QED BY <1>8, <2>1, <2>3, Looks DEF n, Link
  <1> HIDE DEF r, op
  <1>9. op \in {"poll", "dispatch", "cancel", "approve", "reject", "export"}
    BY <1>0 DEF Operations
  <1> QED BY <1>1, <1>2, <1>3, <1>4, <1>5, <1>6, <1>7, <1>8, <1>9 DEF Link, op, r

LEMMA ReadCurrentKeeps == ASSUME Inv, NEW w \in Workers, ReadCurrent(w) PROVE Inv'
  <1>0. req[w] \in Requests /\ d1 \in Row /\ WorkerOK(w) /\ req[w].pc = "current"
    BY DEF Inv, Typed, ReadCurrent, At
  <1>1. CASE Return(w)
    BY <1>1, Leaves DEF ReadCurrent
  <1>2. CASE Goto(w, [req[w] EXCEPT !.pc = "reserve", !.current = d1.revision])
    <2> DEFINE n == [req[w] EXCEPT !.pc = "reserve", !.current = d1.revision]
    <2>1. n \in Requests /\ n.pc = "reserve"
      BY <1>0 DEF Requests, PCs, Row
    <2> HIDE DEF n
    <2>2. req'[w] = n => WorkerOK(w)'
      BY <1>0, <2>1 DEF WorkerOK, ReadCurrent, OnlyWorker
    <2> QED BY <1>2, <2>1, <2>2, Looks DEF n, ReadCurrent
  <1> QED BY <1>1, <1>2 DEF ReadCurrent

LEMMA DispatchIsReservedKeeps == ASSUME Inv, NEW w \in Workers, DispatchIsReserved(w) PROVE Inv'
  <1>0. req[w] \in Requests /\ WorkerOK(w) /\ req[w].pc = "unreserved"
    BY DEF Inv, Typed, DispatchIsReserved, At
  <1>1. CASE Return(w)
    BY <1>1, Leaves DEF DispatchIsReserved
  <1>2. CASE ~d1.reserved /\ Goto(w, [req[w] EXCEPT !.pc = "transition"])
    <2> DEFINE n == [req[w] EXCEPT !.pc = "transition"]
    <2>1. n \in Requests /\ n.pc = "transition" /\ n.rev = req[w].rev
      BY <1>0 DEF Requests, PCs
    <2> HIDE DEF n
    <2>2. req'[w] = n => WorkerOK(w)'
      BY <1>0, <1>2, <2>1 DEF WorkerOK, DispatchIsReserved, OnlyWorker
    <2> QED BY <1>2, <2>1, <2>2, Looks DEF n, DispatchIsReserved
  <1> QED BY <1>1, <1>2 DEF DispatchIsReserved

LEMMA ReadMetaKeeps == ASSUME Inv, NEW w \in Workers, ReadMeta(w) PROVE Inv'
  <1>0. req[w] \in Requests /\ d1 \in Row /\ WorkerOK(w) /\ req[w].pc = "meta"
    BY DEF Inv, Typed, ReadMeta, At
  <1> PICK n : n = [req[w] EXCEPT !.pc = "apply", !.coreRev = d1.coreRev, !.intent = d1.intent]
    OBVIOUS
  <1>1. /\ n \in Requests /\ n.pc = "apply" /\ n.coreRev = d1.coreRev /\ n.intent = d1.intent
        /\ n.snap = req[w].snap /\ d1.coreRev \in Nat
    BY <1>0 DEF Requests, PCs, Row
  <1>2. Goto(w, n)
    BY DEF ReadMeta
  <1>3. req'[w] = n => WorkerOK(w)'
    <2> SUFFICES ASSUME req'[w] = n PROVE WorkerOK(w)'
      OBVIOUS
    <2>1. Seen(req[w].snap)
      BY <1>0 DEF WorkerOK
    <2>2. Seen(n.snap)'
      BY <1>1, <2>1 DEF Seen, WasOffered, ReadMeta, OnlyWorker, core
    <2> QED BY <1>0, <1>1, <2>2 DEF WorkerOK, ReadMeta, OnlyWorker
  <1> QED BY <1>1, <1>2, <1>3, Looks DEF ReadMeta

LEMMA AbandonKeeps == ASSUME Inv, NEW w \in Workers, Abandon(w) PROVE Inv'
  <1>0. req[w] \in Requests /\ WorkerOK(w)
    BY DEF Inv, Typed
  <1> PICK l : l = [call |-> req[w].call, request |-> req[w].request]
    OBVIOUS
  <1>1. l \in Lates /\ l.call = req[w].call /\ l.request = req[w].request
    BY <1>0 DEF Lates, Requests
  <1>2. late' \subseteq late \cup {l} /\ (At(w, "call") \/ late' = late)
    BY DEF Abandon
  <1>3. At(w, "call") => CallOK(l.call, l.request)'
    <2> SUFFICES ASSUME At(w, "call") PROVE CallOK(l.call, l.request)'
      OBVIOUS
    <2>1. CallOK(l.call, l.request)
      BY <1>0, <1>1 DEF WorkerOK, At
    <2> QED BY <1>1, <2>1 DEF CallOK, Abandon, Decidable, Exportable
  <1>4. /\ req' \in [Workers -> Requests] /\ WorkerOK(w)'
        /\ \A v \in Workers \ {w} : req'[v] = req[v]
    BY Rests DEF Abandon
  <1>5. faults' \in Nat
    BY DEF Abandon, Inv, Typed
  <1>6. late' \subseteq Lates
    BY <1>1, <1>2 DEF Inv, Typed
  <1>7. Typed'
    BY <1>4, <1>5, <1>6 DEF Inv, Typed, Abandon, core
  <1>8. Forward
    BY StillForward DEF Inv, Abandon
  <1>9. ViewOK' /\ DispatchOK'
    BY DEF Inv, Abandon, core, ViewOK, DispatchOK
  <1>10. MirrorOK'
    BY DEF Inv, Abandon, core, MirrorOK, WasOffered
  <1>11. DecisionOK'
    BY DEF Inv, Abandon, core, DecisionOK, Decidable, Exportable
  <1> QED BY <1>2, <1>3, <1>4, <1>7, <1>8, <1>9, <1>10, <1>11, Assemble

-----------------------------------------------------------------------------
(* Steps on the R2 objects. *)
LEMMA CoreStill == ASSUME UNCHANGED core PROVE CoreForward
  BY DEF CoreForward, Seen, WasOffered, core

LEMMA RowStill == ASSUME Typed, UNCHANGED d1 PROVE RowForward
  BY DEF Typed, Row, RowForward, Decidable, Exportable

LEMMA StoreRequestKeeps == ASSUME Inv, NEW w \in Workers, StoreRequest(w) PROVE Inv'
  <1>0. /\ req[w] \in Requests /\ WorkerOK(w) /\ req[w].pc = "store"
        /\ req[w].request \in Contexts \cup {NoContext} /\ req[w].request # NoContext
    BY DEF Inv, Typed, StoreRequest, At, WorkerOK, Requests
  <1>1. frozen' \in Contexts \cup {NoContext} /\ frozen' # NoContext
    BY <1>0 DEF StoreRequest, Inv, Typed
  <1> PICK n : n = [req[w] EXCEPT !.pc = "insert", !.request = frozen']
    OBVIOUS
  <1>2. n \in Requests /\ n.pc = "insert" /\ n.request = frozen'
    BY <1>0, <1>1 DEF Requests, PCs
  <1>3. /\ req' \in [Workers -> Requests] /\ req'[w] = n
        /\ \A v \in Workers \ {w} : req'[v] = req[v]
    BY <1>2, Moved DEF Inv, Typed, StoreRequest
  <1>4. Typed'
    BY <1>1, <1>3 DEF Inv, Typed, StoreRequest, core
  <1>5. Forward
    BY CoreStill, RowStill DEF Inv, Typed, StoreRequest, Forward
  <1>6. ViewOK' /\ DispatchOK'
    BY <1>1 DEF Inv, StoreRequest, core, ViewOK, DispatchOK
  <1>7. MirrorOK'
    BY DEF Inv, StoreRequest, core, MirrorOK, WasOffered
  <1>8. DecisionOK'
    BY DEF Inv, StoreRequest, core, DecisionOK, Decidable, Exportable
  <1>9. WorkerOK(w)'
    BY <1>1, <1>2, <1>3 DEF WorkerOK
  <1> QED BY <1>3, <1>4, <1>5, <1>6, <1>7, <1>8, <1>9, Assemble DEF StoreRequest

LEMMA MirrorEvidenceKeeps == ASSUME Inv, NEW w \in Workers, MirrorEvidence(w) PROVE Inv'
  <1>0. /\ req[w] \in Requests /\ WorkerOK(w) /\ req[w].pc = "evidence"
        /\ req[w].snap \in Snapshots /\ Seen(req[w].snap) /\ d1.remote /\ d1.state # "absent"
    BY DEF Inv, Typed, MirrorEvidence, At, WorkerOK, Requests
  <1> PICK d : d = req[w].snap.proposal
    OBVIOUS
  <1>1. d \in Digests \cup {NoDigest} /\ (d # NoDigest => d = view.proposal)
    BY <1>0 DEF Seen, Snapshots
  <1>2. /\ bundle' = IF bundle = NoDigest THEN d ELSE bundle
        /\ \/ /\ d \in {NoDigest, bundle'}
              /\ Goto(w, [req[w] EXCEPT !.pc = "meta"])
           \/ Return(w)
    BY DEF MirrorEvidence
  <1>3. Forward
    BY <1>2, CoreStill, RowStill DEF Inv, Typed, MirrorEvidence, Forward
  <1>4. /\ req' \in [Workers -> Requests] /\ WorkerOK(w)'
        /\ \A v \in Workers \ {w} : req'[v] = req[v]
    <2>1. CASE Return(w)
      BY <2>1, Rests
    <2>2. CASE d \in {NoDigest, bundle'} /\ Goto(w, [req[w] EXCEPT !.pc = "meta"])
      <3> PICK n : n = [req[w] EXCEPT !.pc = "meta"]
        OBVIOUS
      <3>1. n \in Requests /\ n.pc = "meta" /\ n.snap = req[w].snap
        BY <1>0 DEF Requests, PCs
      <3>2. /\ req' \in [Workers -> Requests] /\ req'[w] = n
            /\ \A v \in Workers \ {w} : req'[v] = req[v]
        BY <2>2, <3>1, Moved DEF Inv, Typed
      <3>3. Seen(n.snap)'
        BY <1>0, <3>1 DEF Seen, WasOffered, MirrorEvidence, core
      <3>4. WorkerOK(w)'
        BY <1>0, <2>2, <3>1, <3>2, <3>3 DEF WorkerOK, MirrorEvidence
      <3> QED BY <3>2, <3>4
    <2> QED BY <1>2, <2>1, <2>2
  <1>5. Typed'
    BY <1>1, <1>2, <1>4 DEF Inv, Typed, MirrorEvidence, core
  <1>6. ViewOK' /\ DispatchOK'
    BY DEF Inv, MirrorEvidence, core, ViewOK, DispatchOK
  <1>7. MirrorOK'
    BY <1>1, <1>2 DEF Inv, MirrorEvidence, core, MirrorOK, WasOffered
  <1>8. DecisionOK'
    BY DEF Inv, MirrorEvidence, core, DecisionOK, Decidable, Exportable
  <1> QED BY <1>3, <1>4, <1>5, <1>6, <1>7, <1>8, Assemble DEF MirrorEvidence

-----------------------------------------------------------------------------
(* Steps on the row. *)
LEMMA RowMoves ==
    ASSUME Inv, NEW w \in Workers, OnlyRow, d1' \in Row, RowForward, DispatchOK', MirrorOK',
           req' \in [Workers -> Requests], \A v \in Workers \ {w} : req'[v] = req[v], WorkerOK(w)'
    PROVE  Inv'
  <1>1. Typed'
    BY DEF Inv, Typed, OnlyRow, core
  <1>2. Forward
    BY CoreStill DEF OnlyRow, Forward
  <1>3. ViewOK'
    BY DEF Inv, OnlyRow, core, ViewOK
  <1>4. DecisionOK'
    BY IntentNotNone DEF Inv, OnlyRow, core, DecisionOK, RowForward
  <1> QED BY <1>1, <1>2, <1>3, <1>4, Assemble DEF OnlyRow

LEMMA InsertRowKeeps == ASSUME Inv, NEW w \in Workers, InsertRow(w) PROVE Inv'
  <1>0. /\ req[w] \in Requests /\ req[w].request = frozen /\ frozen # NoContext /\ d1 \in Row
        /\ frozen \in Contexts \cup {NoContext}
    BY DEF Inv, Typed, InsertRow, At, WorkerOK
  <1>1. CASE d1.state # "absent"
    <2>1. OnlyWorker
      BY <1>1 DEF InsertRow, OnlyRow, OnlyWorker
    <2> QED BY <2>1, Leaves DEF InsertRow
  <1>2. CASE d1.state = "absent"
    <2>1. d1' = [d1 EXCEPT !.state = "queued", !.request = frozen]
      BY <1>0, <1>2 DEF InsertRow
    <2>2. /\ d1' \in Row /\ d1'.state = "queued" /\ d1'.request = frozen
          /\ d1'.revision = d1.revision /\ d1'.remote = d1.remote /\ d1'.reserved = d1.reserved
          /\ d1'.coreRev = d1.coreRev /\ d1'.proposal = d1.proposal /\ d1'.offer = d1.offer
          /\ d1'.consumed = d1.consumed /\ d1'.intent = d1.intent
      BY <1>0, <2>1 DEF Row, States
    <2>3. d1.revision \in Nat /\ d1.coreRev \in Nat
      BY <1>0 DEF Row
    <2>4. RowForward
      BY <1>2, <2>2, <2>3 DEF RowForward, Decidable, Exportable, Core!Closed
    <2>5. DispatchOK'
      BY <1>0, <1>2, <2>2 DEF Inv, DispatchOK, InsertRow, OnlyRow, core
    <2>6. MirrorOK'
      BY <1>0, <1>2, <2>2, <2>3 DEF Inv, DispatchOK, MirrorOK, WasOffered, InsertRow, OnlyRow, core, Core!Closed
    <2> QED BY <2>2, <2>4, <2>5, <2>6, Rests, RowMoves DEF InsertRow
  <1> QED BY <1>1, <1>2

LEMMA RecordDecisionIntentKeeps == ASSUME Inv, NEW w \in Workers, RecordDecisionIntent(w) PROVE Inv'
  <1>0. /\ req[w] \in Requests /\ d1 \in Row /\ req[w].pc = "intent" /\ WorkerOK(w)
        /\ req[w].op \in {"approve", "reject"} /\ Decidable /\ d1.remote
    BY DEF Inv, Typed, RecordDecisionIntent, At, WorkerOK
  <1> PICK intent : intent = [decision |-> req[w].op, digest |-> req[w].digest]
    OBVIOUS
  <1>1. CASE UNCHANGED d1 /\ Return(w)
    <2>1. OnlyWorker
      BY <1>1 DEF RecordDecisionIntent, OnlyRow, OnlyWorker
    <2> QED BY <1>1, <2>1, Leaves
  <1>2. CASE /\ d1.state = "awaiting_approval" /\ d1.intent \in {NoIntent, intent}
             /\ d1' = [d1 EXCEPT !.intent = intent]
             /\ Send(w, Decision(w, req[w].coreRev))
    <2>1. intent \in Intents
      BY <1>0 DEF Intents, Requests
    <2>2. /\ d1' \in Row /\ d1'.intent = intent /\ d1'.state = d1.state /\ d1'.request = d1.request
          /\ d1'.revision = d1.revision /\ d1'.remote = d1.remote /\ d1'.reserved = d1.reserved
          /\ d1'.coreRev = d1.coreRev /\ d1'.proposal = d1.proposal /\ d1'.offer = d1.offer
          /\ d1'.consumed = d1.consumed /\ d1.revision \in Nat /\ d1.coreRev \in Nat
      BY <1>0, <1>2, <2>1 DEF Row
    <2>3. RowForward
      BY <1>2, <2>2 DEF RowForward, Decidable, Exportable
    <2>4. DispatchOK' /\ MirrorOK'
      BY <1>2, <2>2 DEF Inv, DispatchOK, MirrorOK, WasOffered, RecordDecisionIntent, OnlyRow, core
    <2> PICK c : c = Decision(w, req[w].coreRev)
      OBVIOUS
    <2>5. c \in Calls /\ c.op = req[w].op /\ c.digest = req[w].digest
      BY <1>0 DEF Decision, Calls, Requests
    <2>6. PICK r \in Requests : Goto(w, r) /\ r.pc = "call" /\ r.call = c
      BY <1>2, <2>5, Sends
    <2>7. /\ req' \in [Workers -> Requests] /\ req'[w] = r
          /\ \A v \in Workers \ {w} : req'[v] = req[v]
      BY <2>6, Moved DEF Inv, Typed
    <2>8. CallOK(r.call, r.request)'
      BY <1>0, <1>2, <2>2, <2>5, <2>6 DEF CallOK, Decidable
    <2>9. WorkerOK(w)'
      BY <1>2, <2>2, <2>6, <2>7, <2>8, CallsOn
    <2> QED BY <2>2, <2>3, <2>4, <2>7, <2>9, RowMoves DEF RecordDecisionIntent
  <1> QED BY <1>1, <1>2 DEF RecordDecisionIntent

LEMMA Dispatches ==
    ASSUME Inv, NEW w \in Workers, NEW rev \in Nat, DispatchAs(w, rev), OnlyRow,
           d1.state # "absent", d1'.state = d1.state, d1'.reserved \/ d1'.remote
    PROVE  /\ req' \in [Workers -> Requests] /\ WorkerOK(w)'
           /\ \A v \in Workers \ {w} : req'[v] = req[v]
  <1>1. frozen # NoContext /\ frozen \in Contexts \cup {NoContext}
    BY DEF Inv, Typed, DispatchOK
  <1> PICK c : c = [NoCall EXCEPT !.op = "create"]
    OBVIOUS
  <1>2. c \in Calls /\ c.op = "create"
    BY IdleType DEF Calls, Operations
  <1> PICK r : r = [Idle EXCEPT !.op = "dispatch", !.pc = "call", !.rev = rev,
                                !.request = frozen, !.call = c]
    OBVIOUS
  <1>3. r \in Requests /\ r.pc = "call" /\ r.call = c /\ r.request = frozen
    BY <1>1, <1>2, IdleType DEF Requests, PCs, Operations
  <1>4. /\ req' \in [Workers -> Requests] /\ req'[w] = r
        /\ \A v \in Workers \ {w} : req'[v] = req[v]
    BY <1>3, Moved DEF Inv, Typed, DispatchAs
  <1>5. CallOK(r.call, r.request)'
    BY <1>1, <1>2, <1>3 DEF CallOK, OnlyRow
  <1> QED BY <1>3, <1>4, <1>5, CallsOn

LEMMA ReserveDispatchKeeps == ASSUME Inv, NEW w \in Workers, ReserveDispatch(w) PROVE Inv'
  <1>0. /\ req[w] \in Requests /\ d1 \in Row /\ d1.state # "absent" /\ d1.revision \in Nat
        /\ req[w].current \in Nat /\ d1.coreRev \in Nat
    BY DEF Inv, Typed, ReserveDispatch, At, WorkerOK, Row, Requests
  <1>1. CASE UNCHANGED d1 /\ Return(w)
    <2>1. OnlyWorker
      BY <1>1 DEF ReserveDispatch, OnlyRow, OnlyWorker
    <2> QED BY <1>1, <2>1, Leaves
  <1>2. ASSUME NEW rev \in Nat, d1.remote \/ d1.reserved, UNCHANGED d1, DispatchAs(w, rev)
        PROVE  Inv'
    <2>1. RowForward
      BY <1>2, RowStill DEF Inv
    <2>2. DispatchOK' /\ MirrorOK'
      BY <1>2 DEF Inv, DispatchOK, MirrorOK, WasOffered, ReserveDispatch, OnlyRow, core
    <2> QED BY <1>0, <1>2, <2>1, <2>2, Dispatches, RowMoves DEF ReserveDispatch
  <1>3. CASE /\ ~d1.remote /\ ~d1.reserved /\ d1.state = "queued"
             /\ d1' = [d1 EXCEPT !.reserved = TRUE, !.revision = @ + 1]
             /\ DispatchAs(w, d1.revision + 1)
    <2> PICK n : n = d1.revision + 1
      OBVIOUS
    <2>1. n \in Nat /\ d1.revision < n
      BY <1>0
    <2>2. /\ d1' = [d1 EXCEPT !.reserved = TRUE, !.revision = n]
          /\ DispatchAs(w, n)
      BY <1>3
    <2>3. /\ d1' \in Row /\ d1'.intent = d1.intent /\ d1'.state = d1.state /\ d1'.request = d1.request
          /\ d1'.revision = n /\ d1'.remote = d1.remote /\ d1'.reserved
          /\ d1'.coreRev = d1.coreRev /\ d1'.proposal = d1.proposal /\ d1'.offer = d1.offer
          /\ d1'.consumed = d1.consumed
      BY <1>0, <2>1, <2>2 DEF Row
    <2>4. RowForward
      BY <1>0, <2>1, <2>3 DEF RowForward, Decidable, Exportable
    <2>5. DispatchOK' /\ MirrorOK'
      BY <1>3, <2>3 DEF Inv, DispatchOK, MirrorOK, WasOffered, ReserveDispatch, OnlyRow, core
    <2> QED BY <1>0, <2>1, <2>2, <2>3, <2>4, <2>5, Dispatches, RowMoves DEF ReserveDispatch
  <1> QED BY <1>0, <1>1, <1>2, <1>3 DEF ReserveDispatch

LEMMA SetRemoteJobKeeps == ASSUME Inv, NEW w \in Workers, SetRemoteJob(w) PROVE Inv'
  <1>0. /\ req[w] \in Requests /\ d1 \in Row /\ d1.state # "absent" /\ d1.revision \in Nat
        /\ Seen(req[w].snap) /\ view.state \notin {"absent", "draft"} /\ d1.coreRev \in Nat
    BY DEF Inv, Typed, SetRemoteJob, At, WorkerOK, Row
  <1>1. ASSUME d1' \in Row, RowForward, DispatchOK', MirrorOK', d1'.state = d1.state
        PROVE  Inv'
    <2>1. CASE Return(w)
      BY <1>1, <2>1, Rests, RowMoves DEF SetRemoteJob
    <2>2. CASE d1'.remote /\ Goto(w, [req[w] EXCEPT !.pc = "evidence", !.rev = 0])
      <3> PICK n : n = [req[w] EXCEPT !.pc = "evidence", !.rev = 0]
        OBVIOUS
      <3>1. n \in Requests /\ n.pc = "evidence" /\ n.snap = req[w].snap
        BY <1>0 DEF Requests, PCs
      <3>2. /\ req' \in [Workers -> Requests] /\ req'[w] = n
            /\ \A v \in Workers \ {w} : req'[v] = req[v]
        BY <2>2, <3>1, Moved DEF Inv, Typed
      <3>3. Seen(n.snap)'
        BY <1>0, <3>1 DEF Seen, WasOffered, SetRemoteJob, OnlyRow, core
      <3>4. WorkerOK(w)'
        BY <1>0, <1>1, <2>2, <3>1, <3>2, <3>3 DEF WorkerOK
      <3> QED BY <1>1, <3>2, <3>4, RowMoves DEF SetRemoteJob
    <2> QED BY <2>1, <2>2 DEF SetRemoteJob
  <1>2. CASE d1.revision = req[w].rev /\ ~d1.remote /\ d1.reserved
    <2> PICK n : n = d1.revision + 1
      OBVIOUS
    <2>1. n \in Nat /\ d1.revision < n
      BY <1>0
    <2>2. d1' = [d1 EXCEPT !.remote = TRUE, !.reserved = FALSE, !.revision = n]
      BY <1>2 DEF SetRemoteJob
    <2>3. /\ d1' \in Row /\ d1'.intent = d1.intent /\ d1'.state = d1.state /\ d1'.request = d1.request
          /\ d1'.revision = n /\ d1'.remote /\ ~d1'.reserved
          /\ d1'.coreRev = d1.coreRev /\ d1'.proposal = d1.proposal /\ d1'.offer = d1.offer
          /\ d1'.consumed = d1.consumed
      BY <1>0, <2>1, <2>2 DEF Row
    <2>4. d1.state = "queued"
      BY <1>0, <1>2 DEF Inv, DispatchOK
    <2>5. RowForward
      BY <1>0, <2>1, <2>3 DEF RowForward, Decidable, Exportable
    <2>6. DispatchOK'
      BY <1>0, <1>2, <2>3, <2>4 DEF Inv, DispatchOK, SetRemoteJob, OnlyRow, core
    <2>7. MirrorOK'
      BY <1>0, <2>3, <2>4 DEF Inv, MirrorOK, WasOffered, SetRemoteJob, OnlyRow, core, Core!Closed
    <2> QED BY <1>1, <2>3, <2>5, <2>6, <2>7
  <1>3. CASE ~(d1.revision = req[w].rev /\ ~d1.remote /\ d1.reserved)
    <2>1. d1' = d1
      BY <1>3 DEF SetRemoteJob
    <2>2. DispatchOK' /\ MirrorOK'
      BY <2>1 DEF Inv, DispatchOK, MirrorOK, WasOffered, SetRemoteJob, OnlyRow, core
    <2> QED BY <1>0, <1>1, <2>1, <2>2, RowStill DEF Inv
  <1> QED BY <1>2, <1>3

LEMMA TransitionKeeps == ASSUME Inv, NEW w \in Workers, Transition(w) PROVE Inv'
  <1>0. /\ req[w] \in Requests /\ d1 \in Row /\ d1.state # "absent" /\ d1.revision \in Nat
        /\ WorkerOK(w) /\ req[w].pc = "transition" /\ d1.coreRev \in Nat
    BY DEF Inv, Typed, Transition, At, WorkerOK, Row
  <1>1. CASE d1' = d1
    <2>1. OnlyWorker
      BY <1>1 DEF Transition, OnlyRow, OnlyWorker
    <2> QED BY <2>1, Leaves DEF Transition
  <1>2. CASE d1.revision = req[w].rev /\ d1' # d1
    <2> PICK n : n = d1.revision + 1
      OBVIOUS
    <2>1. n \in Nat /\ d1.revision < n
      BY <1>0
    <2>2. d1' = [d1 EXCEPT !.state = "cancelled", !.revision = n]
      BY <1>2 DEF Transition
    <2>3. /\ d1' \in Row /\ d1'.intent = d1.intent /\ d1'.state = "cancelled" /\ d1'.request = d1.request
          /\ d1'.revision = n /\ d1'.remote = d1.remote /\ d1'.reserved = d1.reserved
          /\ d1'.coreRev = d1.coreRev /\ d1'.proposal = d1.proposal /\ d1'.offer = d1.offer
          /\ d1'.consumed = d1.consumed
      BY <1>0, <2>1, <2>2 DEF Row, States, Core!Closed
    <2>4. ~d1.remote /\ ~d1.reserved
      BY <1>0, <1>2 DEF WorkerOK
    <2>5. RowForward
      BY <1>0, <2>1, <2>3 DEF RowForward, Decidable, Exportable, Core!Closed
    <2>6. DispatchOK'
      BY <1>0, <2>3, <2>4 DEF Inv, DispatchOK, Transition, OnlyRow, core
    <2>7. MirrorOK'
      BY <1>0, <2>3, <2>4 DEF Inv, MirrorOK, DispatchOK, WasOffered, Transition, OnlyRow, core
    <2> QED BY <2>3, <2>5, <2>6, <2>7, Rests, RowMoves DEF Transition
  <1> QED BY <1>1, <1>2 DEF Transition

(* A proposal that is shown moves on only to a decision or an end. *)
LEMMA ShownMovesOn ==
    ASSUME NEW from \in {"awaiting_approval", "applying"}, NEW to, NEW a \in BOOLEAN,
           CoreSnapshotTransitionAllowed(from, to, a)
    PROVE  /\ to \in {"awaiting_approval", "applying"} \cup Core!Closed
           /\ from = "applying" => to \in {"applying"} \cup Core!Closed
  <1>1. from \in States /\ CoreProgress[from] = 0
    BY DEF CoreProgress, States
  <1> QED BY <1>1 DEF CoreSnapshotTransitionAllowed, Core!Closed

LEMMA RowRewritten ==
    ASSUME NEW row \in Row, NEW st \in States, NEW n \in Nat, NEW rv \in Nat,
           NEW p \in Digests \cup {NoDigest}, NEW o \in BOOLEAN, NEW k \in BOOLEAN
    PROVE  [row EXCEPT !.state = st, !.revision = n, !.coreRev = rv,
                       !.proposal = p, !.offer = o, !.consumed = k] \in Row
  <1>1. [row EXCEPT !.state = st, !.revision = n, !.coreRev = rv] \in Row
    BY DEF Row
  <1>2. \A x \in Row : [x EXCEPT !.proposal = p, !.offer = o, !.consumed = k] \in Row
    BY DEF Row
  <1> PICK x : x = [row EXCEPT !.state = st, !.revision = n, !.coreRev = rv]
    OBVIOUS
  <1>3. [x EXCEPT !.proposal = p, !.offer = o, !.consumed = k] \in Row
    BY <1>1, <1>2
  <1>4. [x EXCEPT !.proposal = p, !.offer = o, !.consumed = k]
          = [row EXCEPT !.state = st, !.revision = n, !.coreRev = rv,
                        !.proposal = p, !.offer = o, !.consumed = k]
    OBVIOUS
  <1> QED BY <1>3, <1>4

LEMMA ApplyCoreSnapshotKeeps == ASSUME Inv, NEW w \in Workers, ApplyCoreSnapshot(w) PROVE Inv'
  <1> PICK snap, intent, coreRev :
        snap = req[w].snap /\ intent = req[w].intent /\ coreRev = req[w].coreRev
    OBVIOUS
  <1>0. /\ d1 \in Row /\ d1.state # "absent" /\ d1.revision \in Nat /\ d1.coreRev \in Nat
        /\ snap \in Snapshots /\ intent \in Intents /\ Seen(snap) /\ d1.remote
        /\ snap.proposal \in {NoDigest, bundle} /\ intent \in {NoIntent, d1.intent}
        /\ snap.revision \in Nat /\ view.revision \in Nat
    BY DEF Inv, Typed, ApplyCoreSnapshot, At, WorkerOK, Row, Requests, Snapshots, Core!Views
  <1>1. CASE d1' = d1
    <2>1. OnlyWorker
      BY <1>1 DEF ApplyCoreSnapshot, OnlyRow, OnlyWorker
    <2> QED BY <2>1, Leaves DEF ApplyCoreSnapshot
  <1>2. CASE Acceptable(d1, coreRev, intent, snap) /\ d1.coreRev <= snap.revision /\ d1' = Mirrored(d1, snap)
    <2>1. PICK n \in Nat, p \in Digests \cup {NoDigest} :
             /\ n = d1.revision + 1 /\ d1.revision < n
             /\ p = IF snap.proposal = NoDigest THEN d1.proposal ELSE snap.proposal
      BY <1>0 DEF Row, Snapshots
    <2>2. PICK o \in BOOLEAN, k \in BOOLEAN :
             o = (d1.offer \/ Offered(snap)) /\ k = (d1.consumed \/ snap.consumed)
      BY <1>0 DEF Row, Snapshots, Offered
    <2>3. d1' = [d1 EXCEPT !.state = snap.state, !.revision = n, !.coreRev = snap.revision,
                           !.proposal = p, !.offer = o, !.consumed = k]
      BY <1>0, <1>2, <2>1, <2>2 DEF Mirrored, Row
    <2>4. snap.state \in States
      BY <1>0 DEF Seen
    <2>5. /\ d1' \in Row /\ d1'.intent = d1.intent /\ d1'.state = snap.state /\ d1'.request = d1.request
          /\ d1'.revision = n /\ d1'.remote = d1.remote /\ d1'.reserved = d1.reserved
          /\ d1'.coreRev = snap.revision /\ d1'.proposal = p /\ d1'.offer = o /\ d1'.consumed = k
      <3>1. PICK st \in States, rv \in Nat : st = snap.state /\ rv = snap.revision
        BY <1>0, <2>4
      <3>2. d1' = [d1 EXCEPT !.state = st, !.revision = n, !.coreRev = rv,
                             !.proposal = p, !.offer = o, !.consumed = k]
        BY <2>3, <3>1
      <3>3. d1' \in Row
        BY <1>0, <3>2, RowRewritten
      <3>4. /\ d1'.intent = d1.intent /\ d1'.state = st /\ d1'.request = d1.request
            /\ d1'.revision = n /\ d1'.remote = d1.remote /\ d1'.reserved = d1.reserved
        BY <1>0, <3>2 DEF Row
      <3>5. d1'.coreRev = rv /\ d1'.proposal = p /\ d1'.offer = o /\ d1'.consumed = k
        BY <1>0, <3>2 DEF Row
      <3> QED BY <3>1, <3>3, <3>4, <3>5
    <2>6. snap.state # "absent"
      BY <2>4 DEF States, Core!Pipeline, Core!Closed
    <2> DEFINE a == DecisionAuthorizesCoreState(intent, d1.proposal, snap.state)
    <2>7. a \in BOOLEAN /\ CoreSnapshotTransitionAllowed(d1.state, snap.state, a)
      BY <1>2 DEF Acceptable, DecisionAuthorizesCoreState
    <2> HIDE DEF a
    <2>8. d1.state \notin Core!Closed
      BY <2>7 DEF CoreSnapshotTransitionAllowed
    <2>9. RowForward
      <3>1. Decidable => Decidable'
        BY <2>5, <2>7, <2>8, ShownMovesOn DEF Decidable
      <3>2. Exportable => Exportable'
        BY <2>5, <2>7, <2>8, ShownMovesOn DEF Exportable
      <3> QED BY <1>0, <1>2, <2>1, <2>5, <2>6, <3>1, <3>2 DEF RowForward
    <2>10. DispatchOK'
      BY <1>0, <2>5, <2>6 DEF Inv, DispatchOK, ApplyCoreSnapshot, OnlyRow, core
    <2>11. MirrorOK'
      <3>0. UNCHANGED <<view, bundle>>
        BY DEF ApplyCoreSnapshot, OnlyRow, core
      <3>1. /\ snap.revision <= view.revision
            /\ snap.state \in Core!Closed => snap.revision > 0 /\ snap.revision = view.revision
        BY <1>0 DEF Seen
      <3>2. p # NoDigest => p = view.proposal /\ p = bundle
        BY <1>0, <2>1 DEF Seen, Inv, MirrorOK
      <3>3. snap.consumed => view.consumed
        BY <1>0, <3>1 DEF Seen, Snapshot, Core!Closed
      <3>4. snap.revision = view.revision => snap.state = view.state /\ p = view.proposal /\ k = view.consumed
        <4> SUFFICES ASSUME snap.revision = view.revision
                     PROVE  snap.state = view.state /\ p = view.proposal /\ k = view.consumed
          OBVIOUS
        <4>1. snap.state = view.state /\ snap.proposal = view.proposal /\ snap.consumed = view.consumed
          BY <1>0 DEF Seen, Snapshot
        <4>2. p = view.proposal
          BY <2>1, <4>1 DEF Inv, MirrorOK
        <4>3. d1.consumed \in BOOLEAN /\ view.consumed \in BOOLEAN
          BY <1>0 DEF Inv, Typed, Row, Core!Views
        <4> QED BY <2>2, <4>1, <4>2, <4>3 DEF Inv, MirrorOK
      <3>5. o => WasOffered(view) /\ p # NoDigest
        BY <1>0, <2>1, <2>2 DEF Seen, Inv, MirrorOK
      <3>6. snap.state \in {"awaiting_approval", "applying"} => o
        BY <2>2 DEF Offered
      <3>7. snap.state = "applying" => /\ d1.intent = [decision |-> "approve", digest |-> p]
                                       /\ view.state \in {"applying"} \cup Core!Closed
        <4> SUFFICES ASSUME snap.state = "applying"
                     PROVE  /\ d1.intent = [decision |-> "approve", digest |-> p]
                            /\ view.state \in {"applying"} \cup Core!Closed
          OBVIOUS
        <4>1. Mirrored(d1, snap).offer /\ Mirrored(d1, snap).proposal = p
          BY <1>2, <2>5, <3>6
        <4>2. intent.decision = "approve" /\ intent.digest = p
          BY <1>2, <4>1 DEF Acceptable
        <4>3. intent = [decision |-> "approve", digest |-> p]
          BY <1>0, <4>2 DEF Intents
        <4>4. intent = d1.intent
          BY <1>0, <4>3, IntentNotNone
        <4>5. view.state \in {"applying"} \cup Core!Closed
          BY <1>0 DEF Seen
        <4> QED BY <4>3, <4>4, <4>5
      <3>8. k => view.consumed
        BY <2>2, <3>3 DEF Inv, MirrorOK
      <3>9. o => WasOffered(view') /\ p # NoDigest
        BY <3>0, <3>5
      <3>10. /\ d1'.coreRev <= view'.revision
             /\ d1'.coreRev > 0 /\ d1'.coreRev = view'.revision =>
                  d1'.state = view'.state /\ d1'.proposal = view'.proposal /\ d1'.consumed = view'.consumed
             /\ d1'.remote /\ d1'.state \in Core!Closed => d1'.coreRev > 0 /\ d1'.coreRev = view'.revision
             /\ d1'.proposal # NoDigest => d1'.proposal = view'.proposal /\ d1'.proposal = bundle'
        BY <2>5, <3>0, <3>1, <3>2, <3>4
      <3>11. /\ bundle' # NoDigest => bundle' = view'.proposal
             /\ d1'.offer => WasOffered(view') /\ d1'.proposal # NoDigest
             /\ d1'.consumed => view'.consumed
        BY <2>5, <3>0, <3>8, <3>9 DEF Inv, MirrorOK
      <3>12. /\ d1'.state \in {"awaiting_approval", "applying"} => d1'.offer
             /\ d1'.state = "applying" => /\ d1'.intent = [decision |-> "approve", digest |-> d1'.proposal]
                                          /\ view'.state \in {"applying"} \cup Core!Closed
        BY <2>5, <3>0, <3>6, <3>7
      <3> QED BY <3>10, <3>11, <3>12 DEF MirrorOK
    <2> QED BY <2>5, <2>9, <2>10, <2>11, Rests, RowMoves DEF ApplyCoreSnapshot
  <1> QED BY <1>1, <1>2 DEF ApplyCoreSnapshot

-----------------------------------------------------------------------------
(* Steps of the core. *)
LEMMA CoreAssemble ==
    ASSUME Inv, Typed', CoreMoves, UNCHANGED <<d1, frozen, bundle>>, DispatchOK', DecisionOK',
           late' \subseteq late, \A v \in Workers : req'[v] = req[v] \/ WorkerOK(v)'
    PROVE  Inv'
  <1>1. Forward
    BY CoreMovesKeep, RowStill DEF Inv, Forward
  <1>2. ViewOK' /\ MirrorOK'
    BY ViewKept, MirrorKept DEF Inv
  <1>3. \A v \in Workers : WorkerOK(v)'
    BY <1>1, WorkerKept DEF Inv, Typed
  <1>4. \A l \in late' : CallOK(l.call, l.request)'
    BY <1>1, CallKept DEF Inv
  <1> QED BY <1>2, <1>3, <1>4 DEF Inv

LEMMA UndecidedNotDecided == ASSUME Undecided PROVE ~Decisions
  BY DEF Undecided, Decisions, SameProposal, Core!Pipeline

LEMMA WorksKeeps == ASSUME Inv, CoreWorks PROVE Inv'
  <1>0. view \in Core!Views
    BY DEF Inv, Typed
  <1>1. view' \in Core!Views /\ view'.revision = view.revision + 1 /\ Undecided
    BY <1>0, WorkMoves DEF CoreWorks
  <1>2. CoreMoves /\ ~Decisions /\ view.state # "absent"
    BY <1>1, UndecidedNotDecided DEF CoreMoves, Undecided, Core!Pipeline
  <1>3. DispatchOK'
    BY <1>2, DispatchKept DEF Inv, CoreWorks
  <1>4. DecisionOK'
    BY <1>2, UndecidedKeeps DEF Inv, CoreWorks
  <1>5. Typed'
    BY <1>1 DEF Inv, Typed, CoreWorks
  <1> QED BY <1>2, <1>3, <1>4, <1>5, CoreAssemble DEF CoreWorks

LEMMA ExpiresKeeps == ASSUME Inv, ProposalExpires PROVE Inv'
  <1>1. CoreForward
    BY DEF CoreForward, Seen, WasOffered, ProposalExpires
  <1>2. Forward
    BY <1>1, RowStill DEF Inv, Forward, ProposalExpires
  <1>3. Typed'
    BY DEF Inv, Typed, ProposalExpires
  <1>4. ViewOK' /\ DispatchOK'
    BY DEF Inv, ProposalExpires, ViewOK, DispatchOK
  <1>5. MirrorOK'
    BY DEF Inv, ProposalExpires, MirrorOK, WasOffered
  <1>6. DecisionOK'
    BY DEF Inv, ProposalExpires, DecisionOK, Decidable, Exportable
  <1>7. \A v \in Workers : WorkerOK(v)'
    BY <1>2, <1>3, WorkerKept DEF Inv, Typed, ProposalExpires
  <1>8. \A l \in late' : CallOK(l.call, l.request)'
    BY <1>2, CallKept DEF Inv, ProposalExpires
  <1> QED BY <1>3, <1>4, <1>5, <1>6, <1>7, <1>8 DEF Inv

(* POST /v1/jobs, for a call that CallOK describes. *)
CoreTyped == /\ view' \in Core!Views /\ coreRequest' \in Contexts \cup {NoContext}
             /\ granted' \in Tokens \cup {NoToken} /\ decided' \subseteq Calls /\ fresh' \in BOOLEAN

LEMMA InsertMoves ==
    ASSUME Inv, NEW c, NEW q, CallOK(c, q), c.op = "create", Insert(q), UNCHANGED <<d1, frozen>>
    PROVE  CoreTyped /\ CoreMoves /\ DispatchOK' /\ DecisionOK'
  <1>1. view \in Core!Views /\ q = frozen /\ frozen # NoContext /\ (d1.reserved \/ d1.remote)
    BY DEF Inv, Typed, CallOK
  <1>2. /\ view' \in Core!Views /\ view.state = "absent" /\ view'.state = "draft"
        /\ view'.revision = view.revision /\ SameProposal
    BY <1>1, CreateMoves DEF Insert
  <1>3. CoreMoves /\ ~Decisions
    BY <1>2 DEF CoreMoves, Decisions
  <1>4. DecisionOK'
    BY <1>3, UndecidedKeeps DEF Inv
  <1>5. DispatchOK'
    BY <1>1, <1>2 DEF Inv, DispatchOK, Insert
  <1>6. CoreTyped
    BY <1>1, <1>2 DEF CoreTyped, Inv, Typed, Insert
  <1> QED BY <1>3, <1>4, <1>5, <1>6

LEMMA QueueMoves ==
    ASSUME Inv, NEW q, Queue(q), UNCHANGED <<d1, frozen>>
    PROVE  CoreTyped /\ CoreMoves /\ DispatchOK' /\ DecisionOK' /\ view'.state \notin {"absent", "draft"}
  <1>1. view \in Core!Views
    BY DEF Inv, Typed
  <1>2. view' \in Core!Views /\ view'.revision = view.revision + 1 /\ Undecided
    BY <1>1, EnqueueMoves DEF Queue
  <1>3. CoreMoves /\ ~Decisions /\ view.state # "absent"
    BY <1>2, UndecidedNotDecided DEF CoreMoves, Queue
  <1>4. DecisionOK'
    BY <1>3, UndecidedKeeps DEF Inv
  <1>5. DispatchOK'
    BY <1>3, DispatchKept DEF Inv, Queue
  <1>6. CoreTyped
    BY <1>1, <1>2 DEF CoreTyped, Inv, Typed, Queue
  <1>7. view'.state \notin {"absent", "draft"}
    BY <1>1, BecomeMoves DEF Queue, Core!Enqueue
  <1> QED BY <1>3, <1>4, <1>5, <1>6, <1>7

(* The owner's decisions: D1 holds each of them already. *)
LEMMA DecideMoves ==
    ASSUME Inv, NEW c \in Calls, NEW q, CallOK(c, q), c.op \notin {"get", "create"}, Decide(c),
           UNCHANGED <<d1, frozen>>
    PROVE  CoreTyped /\ CoreMoves /\ DispatchOK' /\ DecisionOK' /\ view'.state \notin {"absent", "draft"}
  <1>0. view \in Core!Views /\ d1.remote /\ view.state \notin {"absent", "draft"}
    BY DEF Inv, Typed, CallOK, DispatchOK
  <1>1. c.op \in {"cancel", "approve", "reject", "export"}
    BY DEF CallOK
  <1>2. CoreMoves /\ DecisionOK'
    <2>1. CASE c.op = "cancel"
      <3>1. Core!RequestCancel
        BY <2>1 DEF Decide
      <3>2. view' \in Core!Views /\ view'.revision = view.revision + 1 /\ Undecided
        BY <1>0, <3>1, CancelMoves
      <3>3. CoreMoves /\ ~Decisions
        BY <3>2, UndecidedNotDecided DEF CoreMoves
      <3> QED BY <3>3, UndecidedKeeps DEF Inv
    <2>2. CASE c.op = "approve"
      <3>1. /\ view.state = "awaiting_approval" /\ Core!Become("applying") /\ view.proposal = c.digest
        BY <2>2 DEF Decide, TakesEffect, Core!Approve
      <3>2. /\ view' \in Core!Views /\ view'.revision = view.revision + 1
            /\ view'.state = "applying" /\ SameProposal
        BY <1>0, <3>1, BecomeMoves
      <3>3. CoreMoves
        BY <3>1, <3>2 DEF CoreMoves, Decisions
      <3>4. d1.intent = [decision |-> "approve", digest |-> view.proposal] /\ Decidable /\ ~view.consumed
        BY <2>2, <3>1 DEF CallOK, Inv, ViewOK
      <3>5. Decidable'
        BY <3>4 DEF Decidable
      <3> QED BY <3>2, <3>3, <3>4, <3>5 DEF DecisionOK, SameProposal
    <2>3. CASE c.op = "reject"
      <3>1. /\ view.state = "awaiting_approval" /\ Core!Become("rejected") /\ view.proposal = c.digest
        BY <2>3 DEF Decide, TakesEffect, Core!Reject
      <3>2. /\ view' \in Core!Views /\ view'.revision = view.revision + 1
            /\ view'.state = "rejected" /\ SameProposal
        BY <1>0, <3>1, BecomeMoves
      <3>3. CoreMoves
        BY <3>1, <3>2 DEF CoreMoves, Decisions
      <3>4. d1.intent = [decision |-> "reject", digest |-> view.proposal] /\ Decidable /\ ~view.consumed
        BY <2>3, <3>1 DEF CallOK, Inv, ViewOK
      <3>5. Decidable'
        BY <3>4 DEF Decidable
      <3> QED BY <3>2, <3>3, <3>4, <3>5 DEF DecisionOK, SameProposal
    <2>4. CASE c.op = "export"
      <3>1. Core!Export
        BY <2>4 DEF Decide
      <3>2. /\ view' \in Core!Views /\ view'.revision = view.revision + 1 /\ Decisions
            /\ view.state = "applying" /\ view'.consumed = TRUE /\ view'.proposal = view.proposal
        BY <1>0, <3>1, ExportMoves
      <3>3. CoreMoves /\ view'.state = "completed"
        BY <3>2 DEF CoreMoves, Decisions
      <3>4. /\ d1.intent = [decision |-> "approve", digest |-> view.proposal]
            /\ Decidable /\ Exportable
        BY <2>4, <3>2 DEF CallOK, Inv, DecisionOK
      <3>5. Decidable' /\ Exportable'
        BY <3>4 DEF Decidable, Exportable
      <3> QED BY <3>2, <3>3, <3>4, <3>5 DEF DecisionOK
    <2> QED BY <1>1, <2>1, <2>2, <2>3, <2>4
  <1>3. DispatchOK'
    BY <1>0, <1>2, DispatchKept DEF Inv, Decide
  <1>4. CoreTyped
    BY <1>2 DEF CoreTyped, CoreMoves, Inv, Typed, Decide, Calls
  <1>5. view'.state \notin {"absent", "draft"}
    BY <1>0, <1>2, CoreMovesKeep DEF Inv, CoreForward
  <1> QED BY <1>2, <1>3, <1>4, <1>5

LEMMA SeenAfter ==
    ASSUME view' \in Core!Views, ViewOK', view'.state \notin {"absent", "draft"}, NEW s, s = Snapshot(view')
    PROVE  s \in Snapshots /\ Seen(s)'
  <1>1. s \in Snapshots
    BY DEF Core!Views, Snapshot, Snapshots, States
  <1>2. /\ s.state = view'.state /\ s.revision = view'.revision
        /\ s.proposal = view'.proposal /\ s.consumed = view'.consumed
    BY DEF Snapshot
  <1>3. view'.revision \in Nat /\ view'.state \in States
    BY DEF Core!Views, States
  <1> QED BY <1>1, <1>2, <1>3 DEF Seen, ViewOK, Offered, WasOffered

(* The answer reaches the worker. *)
LEMMA Answers ==
    ASSUME Inv, NEW w \in Workers, At(w, "call"), NEW s \in Snapshots, Answered(w, s), Seen(s)',
           UNCHANGED d1, view'.state \notin {"absent", "draft"}
    PROVE  /\ req' \in [Workers -> Requests] /\ WorkerOK(w)'
           /\ \A v \in Workers \ {w} : req'[v] = req[v]
  <1>0. /\ req[w] \in Requests /\ CallOK(req[w].call, req[w].request) /\ d1.state # "absent"
        /\ req[w].op \in Operations \cup {"none"} /\ req[w].rev \in Nat
    BY DEF Inv, Typed, WorkerOK, At, Requests
  <1>1. CASE Return(w)
    BY <1>1, Rests
  <1>2. CASE ~Return(w)
    <2>1. PICK rev \in Nat, pc \in {"attach", "evidence"} :
             /\ Goto(w, [Idle EXCEPT !.op = req[w].op, !.snap = s, !.rev = rev, !.pc = pc])
             /\ pc = "attach" <=> req[w].call.op = "create"
      BY <1>0, <1>2 DEF Answered
    <2> PICK r : r = [Idle EXCEPT !.op = req[w].op, !.snap = s, !.rev = rev, !.pc = pc]
      OBVIOUS
    <2>2. r \in Requests /\ r.pc = pc /\ r.snap = s
      BY <1>0, IdleType DEF Requests, PCs
    <2>3. /\ req' \in [Workers -> Requests] /\ req'[w] = r
          /\ \A v \in Workers \ {w} : req'[v] = req[v]
      BY <2>1, <2>2, Moved DEF Inv, Typed
    <2>4. WorkerOK(w)'
      BY <1>0, <2>1, <2>2, <2>3 DEF WorkerOK, CallOK
    <2> QED BY <2>3, <2>4
  <1> QED BY <1>1, <1>2

LEMMA ServeKeeps == ASSUME Inv, NEW w \in Workers, Serve(w) PROVE Inv'
  <1> PICK c, q : c = req[w].call /\ q = req[w].request
    OBVIOUS
  <1>0. /\ c \in Calls /\ CallOK(c, q) /\ req[w].pc = "call" /\ d1.state # "absent"
        /\ UNCHANGED <<d1, frozen, bundle, late, faults>> /\ At(w, "call")
    BY DEF Inv, Typed, WorkerOK, Serve, At, Requests
  <1>1. CASE c.op = "create" /\ Insert(q) /\ UNCHANGED req
    <2>1. CoreTyped /\ CoreMoves /\ DispatchOK' /\ DecisionOK'
      BY <1>0, <1>1, InsertMoves
    <2>2. Typed'
      BY <1>0, <1>1, <2>1 DEF Inv, Typed, CoreTyped
    <2> QED BY <1>0, <1>1, <2>1, <2>2, CoreAssemble
  <1>2. ASSUME CoreTyped, CoreMoves, DispatchOK', DecisionOK', view'.state \notin {"absent", "draft"},
               Answered(w, Snapshot(view'))
        PROVE  Inv'
    <2>1. ViewOK'
      BY <1>2, ViewKept DEF Inv
    <2> PICK s : s = Snapshot(view')
      OBVIOUS
    <2>2. s \in Snapshots /\ Seen(s)'
      BY <1>2, <2>1, SeenAfter DEF CoreTyped
    <2>3. /\ req' \in [Workers -> Requests] /\ WorkerOK(w)'
          /\ \A v \in Workers \ {w} : req'[v] = req[v]
      BY <1>0, <1>2, <2>2, Answers
    <2>4. Typed'
      BY <1>0, <1>2, <2>3 DEF Inv, Typed, CoreTyped
    <2>5. late' \subseteq late /\ \A v \in Workers : req'[v] = req[v] \/ WorkerOK(v)'
      BY <1>0, <2>3
    <2> QED BY <1>0, <1>2, <2>4, <2>5, CoreAssemble
  <1>3. CASE c.op = "create" /\ Queue(q) /\ Answered(w, Snapshot(view'))
    BY <1>0, <1>2, <1>3, QueueMoves
  <1>4. CASE c.op \notin {"get", "create"} /\ Decide(c) /\ Answered(w, Snapshot(view'))
    BY <1>0, <1>2, <1>4, DecideMoves
  <1>5. CASE Reads(c, q) /\ UNCHANGED core /\ Answered(w, Snapshot(view))
    <2>1. view.state \notin {"absent", "draft"}
      BY <1>0, <1>5 DEF Reads, CallOK, Inv, DispatchOK
    <2>2. ViewOK' /\ view' = view /\ view' \in Core!Views
      BY <1>5 DEF Inv, Typed, ViewOK, core
    <2> PICK s : s = Snapshot(view')
      OBVIOUS
    <2>3. s \in Snapshots /\ Seen(s)'
      BY <2>1, <2>2, SeenAfter
    <2>4. Answered(w, s)
      BY <1>5, <2>2
    <2>5. /\ req' \in [Workers -> Requests] /\ WorkerOK(w)'
          /\ \A v \in Workers \ {w} : req'[v] = req[v]
      BY <1>0, <2>1, <2>2, <2>3, <2>4, Answers
    <2>6. req[w] \in Requests /\ req'[w] \in Requests
      BY <2>5 DEF Inv, Typed
    <2>7. Goto(w, req'[w])
      BY <2>5 DEF Goto, Inv, Typed
    <2> PICK r \in Requests : r = req'[w]
      BY <2>6
    <2>8. OnlyWorker
      BY <1>0, <1>5 DEF OnlyWorker
    <2> QED BY <2>5, <2>7, <2>8, Looks
  <1>6. CASE Refuses(c, q) /\ UNCHANGED core /\ Refused(w)
    <2>1. OnlyWorker
      BY <1>0, <1>6 DEF OnlyWorker
    <2>2. CASE Return(w)
      BY <2>1, <2>2, Leaves
    <2>3. CASE c.op \in {"reject", "cancel"} /\ Send(w, Get)
      <3>1. d1.remote
        BY <1>0, <2>3 DEF CallOK
      <3> QED BY <1>0, <2>1, <2>3, <3>1, GetOK, IdleType, SendsQuietly
    <2> QED BY <1>6, <2>2, <2>3 DEF Refused
  <1> QED BY <1>1, <1>3, <1>4, <1>5, <1>6 DEF Serve

LEMMA ServeLateKeeps == ASSUME Inv, ServeLate PROVE Inv'
  <1>1. PICK l \in late :
          \/ l.call.op = "create" /\ Insert(l.request) /\ UNCHANGED late
          \/ l.call.op = "create" /\ Queue(l.request) /\ late' = late \ {l}
          \/ l.call.op \notin {"get", "create"} /\ Decide(l.call) /\ late' = late \ {l}
    BY DEF ServeLate
  <1>2. l.call \in Calls /\ CallOK(l.call, l.request)
    BY DEF Inv, Typed, Lates
  <1>3. CoreTyped /\ CoreMoves /\ DispatchOK' /\ DecisionOK'
    <2>1. CASE l.call.op = "create" /\ Insert(l.request)
      BY <1>2, <2>1, InsertMoves DEF ServeLate
    <2>2. CASE l.call.op = "create" /\ Queue(l.request)
      BY <2>2, QueueMoves DEF ServeLate
    <2>3. CASE l.call.op \notin {"get", "create"} /\ Decide(l.call)
      BY <1>2, <2>3, DecideMoves DEF ServeLate
    <2> QED BY <1>1, <2>1, <2>2, <2>3
  <1>4. late' \subseteq late
    BY <1>1
  <1>5. Typed'
    BY <1>3, <1>4 DEF Inv, Typed, CoreTyped, ServeLate
  <1> QED BY <1>3, <1>4, <1>5, CoreAssemble DEF ServeLate

-----------------------------------------------------------------------------
LEMMA InvInit == ASSUME Init PROVE Inv
  <1>1. view \in Core!Views /\ view.state = "absent" /\ view.revision = 0
        /\ view.proposal = NoDigest /\ view.consumed = FALSE
    BY DEF Init, Core!Init, Core!Views
  <1>2. NoIntent \in Intents
    BY DEF NoIntent, Intents
  <1>3. /\ d1 \in Row /\ d1.state = "absent" /\ d1.remote = FALSE /\ d1.reserved = FALSE
        /\ d1.coreRev = 0 /\ d1.proposal = NoDigest /\ d1.offer = FALSE /\ d1.consumed = FALSE
    BY <1>2 DEF Init, Row
  <1>4. req \in [Workers -> Requests] /\ \A w \in Workers : req[w].pc = "idle"
    BY IdleType DEF Init
  <1>5. Typed
    BY <1>1, <1>3, <1>4 DEF Init, Typed
  <1>6. ViewOK
    BY <1>1 DEF ViewOK
  <1>7. DispatchOK
    BY <1>1, <1>3 DEF Init, DispatchOK
  <1>8. MirrorOK
    BY <1>1, <1>3 DEF Init, MirrorOK
  <1>9. DecisionOK
    BY <1>1 DEF DecisionOK
  <1>10. \A w \in Workers : WorkerOK(w)
    BY <1>4 DEF WorkerOK
  <1> QED BY <1>5, <1>6, <1>7, <1>8, <1>9, <1>10 DEF Inv, Init

LEMMA InvNext == ASSUME Inv, [Next]_vars PROVE Inv'
  <1>1. ASSUME NEW w \in Workers, Create(w) PROVE Inv'
    BY <1>1, CreateKeeps
  <1>2. ASSUME NEW w \in Workers, Step(w) PROVE Inv'
    BY <1>2, StoreRequestKeeps, InsertRowKeeps, LinkKeeps, RecordDecisionIntentKeeps, ReadCurrentKeeps,
       ReserveDispatchKeeps, SetRemoteJobKeeps, DispatchIsReservedKeeps, TransitionKeeps, ServeKeeps,
       MirrorEvidenceKeeps, ReadMetaKeeps, ApplyCoreSnapshotKeeps
    DEF Step
  <1>3. ASSUME NEW w \in Workers, Abandon(w) PROVE Inv'
    BY <1>3, AbandonKeeps
  <1>4. ASSUME NEW w \in Workers, NEW op \in OpsOf[w] \ {"create"}, Begin(w, op) PROVE Inv'
    BY <1>4, BeginKeeps
  <1>5. CASE ServeLate
    BY <1>5, ServeLateKeeps
  <1>6. CASE CoreWorks
    BY <1>6, WorksKeeps
  <1>7. CASE ProposalExpires
    BY <1>7, ExpiresKeeps
  <1>8. CASE UNCHANGED vars
    <2>1. UNCHANGED <<core, d1, frozen, bundle, req, late, faults>>
      BY <1>8 DEF vars
    <2>2. Forward
      BY <2>1, StillForward DEF Inv
    <2>3. Typed'
      BY <2>1 DEF Inv, Typed, core
    <2>4. ViewOK' /\ DispatchOK'
      BY <2>1 DEF Inv, core, ViewOK, DispatchOK
    <2>5. MirrorOK'
      BY <2>1 DEF Inv, core, MirrorOK, WasOffered
    <2>6. DecisionOK'
      BY <2>1 DEF Inv, core, DecisionOK, Decidable, Exportable
    <2>7. \A v \in Workers : WorkerOK(v)'
      BY <2>1, <2>2, <2>3, WorkerKept DEF Inv, Typed
    <2>8. \A l \in late' : CallOK(l.call, l.request)'
      BY <2>1, <2>2, CallKept DEF Inv
    <2> QED BY <2>3, <2>4, <2>5, <2>6, <2>7, <2>8 DEF Inv
  <1> QED BY <1>1, <1>2, <1>3, <1>4, <1>5, <1>6, <1>7, <1>8 DEF Next

LEMMA Invariance == Spec => []Inv
  <1>1. Init => Inv
    BY InvInit
  <1>2. Inv /\ [Next]_vars => Inv'
    BY InvNext
  <1> QED BY <1>1, <1>2, PTL DEF Spec

-----------------------------------------------------------------------------
(* Whatever requests run, die or are answered late, the core's view, the   *)
(* row, the R2 objects and the calls under way keep their types, and the   *)
(* row's state is one of JOB_STATES.                                       *)
THEOREM TypeCorrect == Spec => []TypeOK
  <1>1. Inv => TypeOK
    BY DEF Inv, Typed, TypeOK, Requests, Lates
  <1> QED BY <1>1, Invariance, PTL

(* The row, the R2 object and the core hold one and the same request,      *)
(* although every creation and every retry of one reads the project anew:  *)
(* createJob freezes it with a conditional put.                            *)
THEOREM OneRequestFrozen == Spec => []OneRequest
  <1>1. Inv => OneRequest
    BY DEF Inv, DispatchOK, OneRequest
  <1> QED BY <1>1, Invariance, PTL

(* A cancellation that the row takes before the dispatch is final: no      *)
(* reservation, retry or late call brings that job to the core.            *)
THEOREM LocalCancelFinal == Spec => []LocalCancelWins
  <1>1. Inv => LocalCancelWins
    BY DEF Inv, DispatchOK, LocalCancelWins
  <1> QED BY <1>1, Invariance, PTL

(* The core acts on an approval or a rejection only after the row holds    *)
(* that decision for that proposal, even when the call that carries it is  *)
(* late, repeated or its worker dead.                                      *)
THEOREM IntentsComeFirst == Spec => []IntentBeforeDecision
  <1>1. Inv => IntentBeforeDecision
    BY DEF Inv, DecisionOK, IntentBeforeDecision
  <1> QED BY <1>1, Invariance, PTL

(* Snapshots applied late and out of order never carry the mirror beyond   *)
(* the core, make it disagree at equal revisions, or close a dispatched    *)
(* job that the core still runs; evidence is in R2 before the row names it.*)
THEOREM MirrorIsFaithful == Spec => []MirrorFaithful
  <1>1. Inv => MirrorFaithful
    <2> SUFFICES ASSUME Inv PROVE MirrorFaithful
      OBVIOUS
    <2>1. d1.coreRev \in Nat
      BY DEF Inv, Typed, Row
    <2> QED BY <2>1 DEF Inv, MirrorOK, DispatchOK, MirrorFaithful
  <1> QED BY <1>1, Invariance, PTL

(* What MirrorFollows says, from the invariant: whatever the row has       *)
(* missed, the core's resting state is one of its legal successors.        *)
LEMMA RestIsAllowed ==
    ASSUME Inv, d1.remote, d1.coreRev < view.revision,
           view.state \in Core!Closed \cup {"awaiting_approval", "applying"}
    PROVE  CoreSnapshotTransitionAllowed(d1.state, view.state,
             DecisionAuthorizesCoreState(d1.intent, d1.proposal, view.state))
  <1>0. d1 \in Row /\ d1.state # "absent" /\ d1.coreRev \in Nat /\ view.revision \in Nat
    BY DEF Inv, Typed, Row, DispatchOK, Core!Views
  <1>1. d1.state \notin Core!Closed /\ d1.state \in States
    BY <1>0 DEF Inv, MirrorOK, Row
  <1> PICK a \in BOOLEAN : a = DecisionAuthorizesCoreState(d1.intent, d1.proposal, view.state)
    BY DEF DecisionAuthorizesCoreState
  <1>2. CASE d1.state \in {"queued"} \cup Core!Pipeline
    <2>1. ~Decidable
      BY <1>1, <1>2 DEF Decidable, Core!Pipeline
    <2>2. view.state \in {"awaiting_approval", "completed", "cancelled", "failed", "timed_out"}
      BY <2>1 DEF Inv, DecisionOK, Core!Closed
    <2>3. CoreProgress[d1.state] \in 1..6 /\ CoreProgress["completed"] = 7
      BY <1>1, <1>2 DEF CoreProgress, States, Core!Pipeline, Core!Closed
    <2> QED BY <1>1, <2>2, <2>3 DEF CoreSnapshotTransitionAllowed
  <1>3. CASE d1.state = "awaiting_approval"
    <2>1. d1.offer /\ WasOffered(view) /\ d1.proposal = view.proposal
      BY <1>3 DEF Inv, MirrorOK
    <2>2. ~view.consumed
      BY <1>1, <1>3 DEF Inv, DecisionOK, Exportable
    <2>3. view.state # "completed"
      BY <2>1, <2>2 DEF WasOffered
    <2>4. view.state = "applying" => a
      <3> SUFFICES ASSUME view.state = "applying" PROVE a
        OBVIOUS
      <3>1. d1.intent = [decision |-> "approve", digest |-> view.proposal]
        BY DEF Inv, DecisionOK
      <3>2. d1.intent # NoIntent /\ d1.intent.decision = "approve" /\ d1.intent.digest = d1.proposal
        BY <2>1, <3>1, IntentNotNone
      <3> QED BY <3>2 DEF DecisionAuthorizesCoreState
    <2>5. view.state = "rejected" => a
      <3> SUFFICES ASSUME view.state = "rejected" PROVE a
        OBVIOUS
      <3>1. d1.intent = [decision |-> "reject", digest |-> view.proposal]
        BY DEF Inv, DecisionOK
      <3>2. d1.intent # NoIntent /\ d1.intent.decision = "reject" /\ d1.intent.digest = d1.proposal
        BY <2>1, <3>1, IntentNotNone
      <3> QED BY <3>2 DEF DecisionAuthorizesCoreState
    <2> QED BY <1>1, <1>3, <2>3, <2>4, <2>5 DEF CoreSnapshotTransitionAllowed, Core!Closed
  <1>4. CASE d1.state = "applying"
    <2>1. /\ d1.intent = [decision |-> "approve", digest |-> d1.proposal]
          /\ view.state \in {"applying"} \cup Core!Closed
      BY <1>4 DEF Inv, MirrorOK
    <2>2. view.state # "rejected"
      BY <2>1 DEF Inv, DecisionOK
    <2> QED BY <1>1, <1>4, <2>1, <2>2 DEF CoreSnapshotTransitionAllowed, Core!Closed
  <1> QED BY <1>1, <1>2, <1>3, <1>4 DEF States

(* The mirror cannot get stuck: when the core rests or waits for the       *)
(* owner, applyCoreSnapshot would take its snapshot into the row as it is, *)
(* and the evidence in R2 is that of the core's proposal.                  *)
THEOREM MirrorCanFollow == Spec => []MirrorFollows
  <1>1. Inv => MirrorFollows
    <2> SUFFICES ASSUME Inv, d1.remote, d1.coreRev < view.revision,
                        view.state \in Core!Closed \cup {"awaiting_approval", "applying"}
                 PROVE  /\ Acceptable(d1, d1.coreRev, d1.intent, Snapshot(view))
                        /\ bundle \in {NoDigest, view.proposal}
      BY DEF MirrorFollows
    <2> PICK snap : snap = Snapshot(view)
      OBVIOUS
    <2>0. /\ snap.state = view.state /\ snap.revision = view.revision
          /\ snap.proposal = view.proposal /\ snap.consumed = view.consumed
          /\ d1 \in Row /\ d1.revision \in Nat /\ d1.coreRev \in Nat /\ view.revision \in Nat
      BY DEF Snapshot, Inv, Typed, Row, Core!Views
    <2> PICK next : next = Mirrored(d1, snap)
      OBVIOUS
    <2>1. /\ next.proposal = IF snap.proposal = NoDigest THEN d1.proposal ELSE snap.proposal
          /\ next.offer = (d1.offer \/ Offered(snap))
      BY <2>0 DEF Mirrored, Row
    <2>2. d1.state \notin Core!Closed
      BY <2>0 DEF Inv, MirrorOK
    <2>3. d1.proposal # NoDigest => snap.proposal = d1.proposal
      BY <2>0 DEF Inv, MirrorOK
    <2>4. view.state = "applying" \/ view.consumed =>
            d1.intent.decision = "approve" /\ next.proposal # NoDigest /\ d1.intent.digest = next.proposal
      BY <2>0, <2>1 DEF Inv, DecisionOK, ViewOK
    <2>5. view.consumed => d1.state = "applying" /\ snap.state = "completed"
      BY <2>0, <2>2 DEF Inv, DecisionOK, ViewOK, Exportable
    <2>6. next.offer /\ snap.state = "completed" => view.consumed
      BY <2>0, <2>1 DEF Inv, MirrorOK, WasOffered, Offered
    <2>7. snap.state = "applying" => ~snap.consumed
      BY <2>0 DEF Inv, ViewOK
    <2>8. CoreSnapshotTransitionAllowed(d1.state, snap.state,
            DecisionAuthorizesCoreState(d1.intent, d1.proposal, snap.state))
      BY <2>0, RestIsAllowed
    <2>9. Acceptable(d1, d1.coreRev, d1.intent, snap)
      BY <2>0, <2>3, <2>4, <2>5, <2>6, <2>7, <2>8 DEF Acceptable
    <2>10. bundle \in {NoDigest, view.proposal}
      BY DEF Inv, MirrorOK
    <2> QED BY <2>9, <2>10
  <1> QED BY <1>1, Invariance, PTL
=============================================================================
