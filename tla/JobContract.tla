---------------------------- MODULE JobContract ----------------------------
(***************************************************************************)
(* What the core promises about one job to whoever reads it through        *)
(* GET /v1/jobs/{id}: the fields that _job_json shows, and the steps they  *)
(* can take.  EngineeringCore implements it for every job and ControlPlane *)
(* is built on it.                                                         *)
(*                                                                         *)
(* Every visible change raises the revision by one, so a revision stands   *)
(* for one content; the control plane orders snapshots by it.              *)
(***************************************************************************)
EXTENDS Naturals

CONSTANTS Digests,   \* proposal digests
          NoDigest   \* proposal_digest IS NULL

VARIABLE view

Closed == {"completed", "rejected", "cancelled", "failed", "timed_out"}

Pipeline == {"ingesting", "planning", "executing", "testing", "collecting"}

Views == [state : {"absent", "draft", "queued", "awaiting_approval", "applying"}
                  \cup Pipeline \cup Closed,
          revision : Nat, proposal : Digests \cup {NoDigest},
          consumed : BOOLEAN, cancel : BOOLEAN]

Init == view = [state |-> "absent", revision |-> 0, proposal |-> NoDigest,
                consumed |-> FALSE, cancel |-> FALSE]

(* The order in which run_job moves a job on. *)
Stages == {<<"queued", "ingesting">>, <<"ingesting", "planning">>,
           <<"planning", "executing">>, <<"executing", "testing">>,
           <<"testing", "collecting">>}

-----------------------------------------------------------------------------
(* The row is inserted ... *)
Create == view.state = "absent" /\ view' = [view EXCEPT !.state = "draft"]

Become(state) == view' = [view EXCEPT !.state = state, !.revision = @ + 1]

(* ... and queued. *)
Enqueue == view.state = "draft" /\ Become("queued")

(* A cancelled job is not worked on beyond the start of its intake. *)
Advance == \E to \in Pipeline : /\ <<view.state, to>> \in Stages
                                /\ view.cancel => to = "ingesting"
                                /\ Become(to)

(* A run that died or lost its lease: the job starts over. *)
Requeue == view.state \in Pipeline /\ Become("queued")

Publish(to, d) == /\ view.state = "collecting" /\ ~view.cancel
                  /\ view.proposal = NoDigest
                  /\ view' = [view EXCEPT !.state = to, !.revision = @ + 1, !.proposal = d]

(* A bundle is published: with a proposal to decide on, or as a result. *)
Offer == \E d \in Digests : Publish("awaiting_approval", d)

Finish == \E d \in Digests, to \in {"completed", "timed_out"} : Publish(to, d)

(* A job ends without a new bundle. *)
Abort(to) == /\ view.state \in Pipeline \cup {"awaiting_approval", "applying"}
             /\ Become(to)

Fail == Abort("failed") \/ Abort("timed_out") \/ (view.cancel /\ Abort("cancelled"))

(* What the core does of its own accord once a job is queued. *)
Work == Advance \/ Requeue \/ Offer \/ Finish \/ Fail

(* What the owner's requests do. *)
RequestCancel ==
    /\ view.state \notin Closed \cup {"absent"}
    /\ view' = [view EXCEPT !.cancel = TRUE, !.revision = @ + 1,
                            !.state = IF @ \in {"awaiting_approval", "applying"}
                                      THEN "cancelled" ELSE @]

Reject == view.state = "awaiting_approval" /\ Become("rejected")

Approve == view.state = "awaiting_approval" /\ Become("applying")

Export == /\ view.state = "applying" /\ ~view.consumed
          /\ view' = [view EXCEPT !.state = "completed", !.revision = @ + 1, !.consumed = TRUE]

Next == \/ Create \/ Enqueue \/ Work
        \/ RequestCancel \/ Reject \/ Approve \/ Export

Spec == Init /\ [][Next]_view
=============================================================================
