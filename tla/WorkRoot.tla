------------------------------ MODULE WorkRoot ------------------------------
(***************************************************************************)
(* One core work root: the workspace of every engineering job, of every    *)
(* Test World attempt and of every runtime probe, and beside each          *)
(* of them what a patch leaves while it is applied: a candidate tree, a    *)
(* patch file, a marker being written and the promotion marker.  A patch   *)
(* is applied in a disposable container and copied out to the candidate;   *)
(* the marker then records both trees, the two directories are exchanged   *)
(* by one renameat2, the old tree and last the marker are removed.  After  *)
(* the death of a process the markers tell the next one which side of the  *)
(* exchange each workspace is on.                                          *)
(*                                                                         *)
(* Whoever touches the root holds its execution lock: build_app while it   *)
(* reconciles, a job from source intake to teardown, an attempt from the   *)
(* preparation of its workspace to its cleanup, a probe.  "run" is what    *)
(* the holder is doing; its death frees the lock.  The sections under      *)
(* .promotion.lock all lie inside, so that lock is never contended and is  *)
(* left out.  Two sweeps of one workspace's remnants bracket every use of  *)
(* a candidate, so one candidate name per workspace is enough.             *)
(*                                                                         *)
(* Jobs and attempts use the same agent and the same tools.  They differ   *)
(* at the ends: a job reconciles every marker before its intake and keeps  *)
(* a workspace that has one; an attempt does neither, and deletes its      *)
(* workspace before and after the run whatever marker stands beside it.    *)
(*                                                                         *)
(* A tree is an inode and the digest of its content; digest 0 stands for a *)
(* tree that is empty, half copied or half deleted.  An rmtree that fails, *)
(* or whose process dies, leaves such a tree.  The root is a tmpfs of the  *)
(* core's container: it outlives a process and ends with the container.    *)
(* Job states, leases and the evidence upload are EngineeringCore's, those *)
(* of attempts and their verdicts TestWorld's.                             *)
(***************************************************************************)
EXTENDS Naturals, Sequences, FiniteSets, FiniteSetsExt

CONSTANTS Cores,       \* core processes on this root
          Jobs,        \* jobs; each names its workspace and its container
          Attempts,    \* Test World attempts, each with a tw-* workspace and container
          Probes,      \* tokens of runtime probes, each used once
          Nobody,      \* the execution lock is free
          MaxEntries,  \* entries the edit journal may hold (evidence limit)
          MaxCalls,    \* bound: max_tool_calls of one agent run
          MaxFaults    \* bound: failures and deaths in one behaviour

Names == Jobs \cup Attempts \cup Probes

ASSUME WorkRootAssumption ==
    /\ Cores \cap Probes = {}
    /\ Jobs \cap Probes = {} /\ Jobs \cap Attempts = {} /\ Attempts \cap Probes = {}
    /\ Nobody \notin Cores \cup Probes
    /\ IsFiniteSet(Names)
    /\ MaxEntries \in Nat \ {0}
    /\ MaxCalls \in Nat
    /\ MaxFaults \in Nat

VARIABLES ws,          \* the workspace of each name
          cand,        \* its candidate tree
          files,       \* its patch file and unpublished marker
          marker,      \* its promotion marker
          latch,       \* .runtime-probe-active exists
          containers,  \* names with a podman container
          up,          \* core processes that finished build_app
          latched,     \* those whose recovery_latched is set
          spent,       \* probe tokens used
          run,         \* what the holder of the execution lock is doing
          faults       \* failures the environment may still cause

vars == <<ws, cand, files, marker, latch, containers, up, latched, spent, run, faults>>

None == [ino |-> 0, digest |-> 0]

NoMarker == [before |-> None, after |-> None]

Tree(i, d) == [ino |-> i, digest |-> d]

Torn(t) == IF t = None THEN None ELSE Tree(t.ino, 0)

(* An inode no tree has: the file system may reuse the ones that are free. *)
Used == UNION {{ws[n].ino, cand[n].ino, marker[n].before.ino, marker[n].after.ino} : n \in Names}

Fresh == CHOOSE i \in 1..(4 * Cardinality(Names) + 1) : i \notin Used

Marked == {n \in Names : marker[n] # NoMarker}

Idle == [by |-> Nobody, pc |-> "idle", w |-> Nobody, todo |-> {}, before |-> None,
         after |-> None, journal |-> <<>>, closed |-> FALSE, left |-> 0, calls |-> 0,
         dirty |-> FALSE, broken |-> FALSE, keep |-> FALSE]

Init ==
    /\ ws = [n \in Names |-> None]
    /\ cand = [n \in Names |-> None]
    /\ files = [n \in Names |-> {}]
    /\ marker = [n \in Names |-> NoMarker]
    /\ latch = FALSE
    /\ containers = {}
    /\ up = {}
    /\ latched = {}
    /\ spent = {}
    /\ run = Idle
    /\ faults = MaxFaults

Fault == faults > 0 /\ faults' = faults - 1

NoFault == UNCHANGED faults

At(pc) == run.pc = pc

Goto(pc) == run' = [run EXCEPT !.pc = pc]

root == <<ws, cand, files, marker, latch>>

procs == <<up, latched, spent>>

(* runtime_execution_lock: taken without waiting, refused while a probe's latch stands. *)
Enterable == run.by = Nobody /\ ~latch

-----------------------------------------------------------------------------
(* The journal of accepted and refused patches that becomes evidence.      *)

Entry(result, b, a) == [result |-> result, before |-> b.digest, after |-> a.digest]

(* _check_journal_capacity: the entry and, after it, the one that closes the journal. *)
Fits(r) == Len(r.journal) + 2 <= MaxEntries

CloseJournal(r, b) ==
    [r EXCEPT !.journal = Append(@, Entry("rejected", b, b)), !.closed = TRUE]

(* _reject_patch *)
Reject(r, b) ==
    IF Fits(r) THEN [r EXCEPT !.journal = Append(@, Entry("rejected", b, b))]
    ELSE CloseJournal(r, b)

(* _expected_proposal_digest: 0 when the entries do not follow each other. *)
Baseline == 1

Promoted(journal, i) == {k \in 1..(i - 1) : journal[k].result = "promoted"}

(* What the entries before the i-th leave in the workspace. *)
Left(journal, i) ==
    IF Promoted(journal, i) = {} THEN Baseline ELSE journal[Max(Promoted(journal, i))].after

Expected(journal) ==
    IF \E i \in DOMAIN journal : journal[i].before # Left(journal, i) THEN 0
    ELSE Left(journal, Len(journal) + 1)

-----------------------------------------------------------------------------
(* Reconciliation.                                                         *)

(* _classify_promotion_marker: which side of the exchange the workspace is on; a   *)
(* workspace that is gone or torn is on neither, and the classification raises.    *)
Prepared(n) == ws[n] = marker[n].before /\ cand[n].ino \in {0, marker[n].after.ino}

Committed(n) == ws[n] = marker[n].after /\ cand[n].ino \in {0, marker[n].before.ino}

Classifiable(n) == ws[n].digest # 0 /\ (Prepared(n) \/ Committed(n))

(* build_app fails, or prepare_sources latches its process. *)
Refuse ==
    /\ run' = Idle
    /\ latched' = IF run.by \in up THEN latched \cup {run.by} ELSE latched

Boot(p) ==
    /\ Enterable /\ p \notin up
    /\ run' = [Idle EXCEPT !.by = p, !.pc = "stale"]
    /\ UNCHANGED <<root, procs, containers, faults>>

(* PodmanSandbox.cleanup_stale: every container with the runner label. *)
CleanupStale ==
    /\ At("stale")
    /\ \/ containers' = {} /\ Goto("reconcile") /\ NoFault
       \/ containers' \in SUBSET containers /\ run' = Idle /\ Fault
    /\ UNCHANGED <<root, procs>>

(* A job admitted by a process whose recovery latch is clear. *)
Admit(p, j) ==
    /\ Enterable /\ p \in up \ latched
    /\ run' = [Idle EXCEPT !.by = p, !.pc = "reconcile", !.w = j]
    /\ UNCHANGED <<root, procs, containers, faults>>

(* Every marker is classified before anything is removed. *)
Reconcile ==
    /\ At("reconcile")
    /\ LET decided == \A n \in Marked : Classifiable(n)
       IN  \/ /\ decided /\ NoFault
              /\ run' = [run EXCEPT !.pc = "undo", !.todo = Marked] /\ UNCHANGED latched
           \/ Refuse /\ IF decided THEN Fault ELSE NoFault
    /\ UNCHANGED <<root, containers, up, spent>>

UndoCandidate(n) ==
    /\ At("undo") /\ n \in run.todo
    /\ \/ /\ cand' = [cand EXCEPT ![n] = None]
          /\ run' = [run EXCEPT !.pc = "unmark", !.todo = {n}]
          /\ UNCHANGED latched /\ NoFault
       \/ cand' = [cand EXCEPT ![n] = Torn(@)] /\ Refuse /\ Fault
    /\ UNCHANGED <<ws, files, marker, latch, containers, up, spent>>

(* Mutant: the marker just removed is still to be done. *)
UnmarkAgain ==
    /\ At("unmark")
    /\ marker' = [n \in Names |-> IF n \in run.todo THEN NoMarker ELSE marker[n]]
    /\ Goto("undo")
    /\ UNCHANGED <<ws, cand, files, latch, containers, procs, faults>>

(* The directory is synced, the marker unlinked, the directory synced again. *)
Unmark ==
    /\ At("unmark")
    /\ \/ /\ marker' = [n \in Names |-> IF n \in run.todo THEN NoMarker ELSE marker[n]]
          /\ run' = [run EXCEPT !.pc = "undo", !.todo = Marked \ @]
          /\ UNCHANGED latched /\ NoFault
       \/ /\ \E gone \in {{}, run.todo} :
                marker' = [n \in Names |-> IF n \in gone THEN NoMarker ELSE marker[n]]
          /\ Refuse /\ Fault
    /\ UNCHANGED <<ws, cand, files, latch, containers, up, spent>>

(* _cleanup_patch_remnants_locked of these names. *)
Swept(who) ==
    /\ cand' = [n \in Names |-> IF n \in who THEN None ELSE cand[n]]
    /\ files' = [n \in Names |-> IF n \in who THEN {} ELSE files[n]]

SweptInPart(who) ==
    \E done \in SUBSET who, torn \in SUBSET who :
        /\ cand' = [n \in Names |-> IF n \in done THEN None
                                    ELSE IF n \in torn THEN Torn(cand[n]) ELSE cand[n]]
        /\ files' = [n \in Names |-> IF n \in done THEN {} ELSE files[n]]

(* Mutant: only the remnants of the job's own workspace are swept. *)
SweepOwn ==
    /\ At("undo") /\ run.todo = {}
    /\ Swept({run.w})
    /\ IF run.by \in up THEN Goto("load") /\ UNCHANGED up
       ELSE run' = Idle /\ up' = up \cup {run.by}
    /\ UNCHANGED <<ws, marker, latch, containers, latched, spent, faults>>

(* cleanup_patch_remnants; build_app then empties .snapshots and is done. *)
Sweep ==
    /\ At("undo") /\ run.todo = {}
    /\ \/ /\ Swept(Names) /\ NoFault /\ UNCHANGED latched
          /\ IF run.by \in up THEN Goto("load") /\ UNCHANGED up
             ELSE run' = Idle /\ up' = up \cup {run.by}
       \/ SweptInPart(Names) /\ Refuse /\ UNCHANGED up /\ Fault
    /\ UNCHANGED <<ws, marker, latch, containers, spent>>

(* prepare_sources: an old workspace is removed and the sources loaded.    *)
Load ==
    /\ At("load")
    /\ \/ /\ ws' = [ws EXCEPT ![run.w] = Tree(Fresh, Baseline)]
          /\ Goto("agent") /\ UNCHANGED latched /\ NoFault
       \/ /\ ws' = [ws EXCEPT ![run.w] = None] \* the intake failed and was cleaned up
          /\ run' = Idle /\ UNCHANGED latched /\ Fault
       \/ /\ \E t \in {ws[run.w], Tree(Fresh, Baseline)} : ws' = [ws EXCEPT ![run.w] = Torn(t)]
          /\ Refuse /\ Fault                   \* remove_runtime_tree failed
    /\ UNCHANGED <<cand, files, marker, latch, containers, up, spent>>

-----------------------------------------------------------------------------
(* The intake of a Test World attempt.                                     *)

(* TestWorldScheduler._execute: under the execution lock, but beside whatever markers  *)
(* and remnants there are, and whether or not its process is latched.  An attempt      *)
(* that was released or whose lease lapsed is run again under the same name.           *)
AdmitAttempt(p, a) ==
    /\ Enterable /\ p \in up
    /\ run' = [Idle EXCEPT !.by = p, !.pc = "prepare", !.w = a]
    /\ UNCHANGED <<root, procs, containers, faults>>

(* prepare_workspace: the old workspace is deleted and the commit ingested; a retry    *)
(* then has the previous attempt's patch to apply (left = 1 before any call).          *)
PrepareAttempt ==
    /\ At("prepare")
    /\ \/ /\ ws' = [ws EXCEPT ![run.w] = Tree(Fresh, Baseline)] /\ NoFault
          /\ \E k \in 0..1 : run' = [run EXCEPT !.pc = "agent", !.left = k]
       \/ /\ ws' = [ws EXCEPT ![run.w] = None]
          /\ run' = Idle /\ Fault
       \/ /\ \E t \in {ws[run.w], Tree(Fresh, Baseline)} : ws' = [ws EXCEPT ![run.w] = Torn(t)]
          /\ run' = Idle /\ Fault
    /\ UNCHANGED <<cand, files, marker, latch, procs, containers>>

-----------------------------------------------------------------------------
(* The agent and its tools.                                                *)

Ending == CASE run.w \in Probes -> "cleanup"
            [] run.w \in Attempts -> "cleanAttempt"
            [] OTHER -> "teardown"

(* PromotionRecoveryRequired passes through the agent, unlike other errors. *)
Recover(r) == run' = [r EXCEPT !.pc = Ending, !.keep = TRUE]

(* apply_previous_patch: a retry applies the patch it continues before the agent runs. *)
Replaying == run.w \in Attempts /\ run.calls = 0 /\ run.left > 0

(* Back to the agent; but a replay that promoted nothing ends the attempt. *)
ToolDone(r) ==
    run' = [r EXCEPT !.left = @ - 1,
                     !.pc = IF Replaying /\ Promoted(r.journal, Len(r.journal) + 1) = {}
                            THEN "cleanAttempt" ELSE "agent"]

(* Mutant: the calls of a response are not counted before it is admitted. *)
RespondUncounted(k) ==
    /\ At("agent") /\ run.left = 0 /\ run.by \in Cores
    /\ run.calls < MaxCalls
    /\ run' = [run EXCEPT !.left = k, !.calls = @ + k]
    /\ UNCHANGED <<root, procs, containers, faults>>

(* A response with tool calls: admitted as a whole or not at all. *)
Respond(k) ==
    /\ At("agent") /\ run.left = 0 /\ run.by \in Cores
    /\ run.calls + k <= MaxCalls
    /\ run' = [run EXCEPT !.left = k, !.calls = @ + k]
    /\ UNCHANGED <<root, procs, containers, faults>>

(* A final answer, which for an attempt is followed by the checks of its world; or a  *)
(* limit, the deadline, a protocol error: the run ends.                               *)
Answer ==
    /\ At("agent") /\ run.left = 0 /\ run.by \in Cores
    /\ \/ run.w \in Jobs /\ Goto("final")
       \/ run.w \in Attempts /\ \E k \in 1..2 : run' = [run EXCEPT !.pc = "judge", !.left = k]
       \/ Goto(Ending)
    /\ UNCHANGED <<root, procs, containers, faults>>

(* podman create fails while a container of that name is left. *)
Create(r) ==
    /\ containers' = containers \cup {r.w}
    /\ run' = [r EXCEPT !.broken = @ \/ r.w \in containers]

(* run_ephemeral_batch *)
RunCommand ==
    /\ At("agent") /\ run.left > 0 /\ ~Replaying
    /\ run.by \in Probes => run.left = 2
    /\ Create([run EXCEPT !.pc = "command"])
    /\ UNCHANGED <<root, procs, faults>>

(* _strict_remove: a failure of it, or of a step before it, marks the sandbox. *)
Removed(r) == containers' = containers \ {r.w}

Ran(r, back) == run' = [r EXCEPT !.pc = back, !.left = @ - 1]

EndCommand(back) ==
    /\ \/ Removed(run) /\ Ran(run, back) /\ NoFault
       \/ Removed(run) /\ Ran([run EXCEPT !.broken = TRUE], back) /\ Fault
       \/ UNCHANGED containers /\ Ran([run EXCEPT !.broken = TRUE], back) /\ Fault
    /\ UNCHANGED <<root, procs>>

CommandDone == At("command") /\ EndCommand("agent")

(* _apply_patch up to the candidate: refusals, rejections and the two temporaries. *)
Refused == run.dirty \/ run.broken \/ Marked # {}

OpenPatch ==
    /\ At("agent") /\ run.left > 0
    /\ run.by \in Probes => run.left = 1
    /\ IF Refused THEN Recover(run) /\ UNCHANGED <<cand, files>> /\ NoFault
       ELSE \/ /\ Swept({run.w}) /\ NoFault
               /\ ToolDone(IF run.closed THEN run ELSE Reject(run, ws[run.w]))
            \/ /\ ~run.closed /\ Fits(run) /\ NoFault
               /\ cand' = [cand EXCEPT ![run.w] = Tree(Fresh, 0)]
               /\ files' = [files EXCEPT ![run.w] = {"patch"}]
               /\ run' = [run EXCEPT !.pc = "stage", !.before = ws[run.w]]
            \/ \* the workspace could not be captured: an ordinary tool error
               UNCHANGED <<cand, files>> /\ ToolDone(run) /\ Fault
            \/ \* a sweep failed, perhaps over a candidate without its patch file
               /\ ~run.closed /\ Fits(run) /\ Fault
               /\ cand' \in {cand, [cand EXCEPT ![run.w] = Tree(Fresh, 0)]}
               /\ Recover(run) /\ UNCHANGED files
    /\ UNCHANGED <<ws, marker, latch, procs, containers>>

(* stage_patch_candidate: the patch runs in a container seeded with the workspace. *)
Stage ==
    /\ At("stage")
    /\ Create([run EXCEPT !.pc = "staged"])
    /\ UNCHANGED <<root, procs, faults>>

StageDone ==
    /\ At("staged")
    /\ \/ /\ ~run.broken /\ Removed(run) /\ NoFault
          /\ \E d \in {run.before.digest, run.before.digest + 1} :
                cand' = [cand EXCEPT ![run.w].digest = d]
          /\ Goto("bind")
       \/ /\ ~run.broken /\ Removed(run) /\ NoFault    \* patch failed or timed out
          /\ run' = [Reject(run, run.before) EXCEPT !.pc = "wipe"]
          /\ UNCHANGED cand
       \/ /\ \/ run.broken /\ Removed(run) /\ NoFault   \* lifecycle_failed
             \/ containers' \in {containers, containers \ {run.w}} /\ Fault
          /\ run' = [Reject(run, run.before) EXCEPT !.pc = "wipe", !.broken = TRUE, !.keep = TRUE]
          /\ UNCHANGED cand
    /\ UNCHANGED <<ws, files, marker, latch, procs>>

(* The patch file goes; candidate and workspace are captured again; the delta is declared. *)
Bind ==
    /\ At("bind") /\ NoFault
    /\ files' = [files EXCEPT ![run.w] = {}]
    /\ \/ run' = [run EXCEPT !.pc = "temp", !.after = cand[run.w]]
       \/ run' = [Reject(run, run.before) EXCEPT !.pc = "wipe"]
    /\ UNCHANGED <<ws, cand, marker, latch, procs, containers>>

(* The finally block of _apply_patch, when no marker binds the candidate. *)
Wipe ==
    /\ At("wipe")
    /\ \/ /\ Swept({run.w}) /\ NoFault
          /\ IF run.keep THEN Recover(run) ELSE ToolDone(run)
       \/ /\ SweptInPart({run.w}) /\ Recover([run EXCEPT !.dirty = TRUE]) /\ Fault
    /\ UNCHANGED <<ws, marker, latch, procs, containers>>

(* _create_recovery_marker: written beside the marker's name, synced, ... *)
WriteMarker ==
    /\ At("temp") /\ NoFault
    /\ files' = [files EXCEPT ![run.w] = {"tmp"}]
    /\ Goto("publish")
    /\ UNCHANGED <<ws, cand, marker, latch, procs, containers>>

(* ... and renamed to it unless it exists. *)
Published == [marker EXCEPT ![run.w] = [before |-> run.before, after |-> run.after]]

PublishMarker ==
    /\ At("publish")
    /\ files' = [files EXCEPT ![run.w] = {}]
    /\ \/ marker' = Published /\ Goto("exchange") /\ NoFault /\ UNCHANGED cand
       \/ marker' = Published /\ Recover(run) /\ Fault /\ UNCHANGED cand  \* the sync failed
       \/ /\ UNCHANGED marker /\ Fault                    \* positively absent: rejected
          /\ cand' = [cand EXCEPT ![run.w] = None]
          /\ ToolDone(Reject(run, run.before))
       \/ /\ UNCHANGED marker /\ Fault                    \* absent, and the sweep failed
          /\ cand' = [cand EXCEPT ![run.w] = Torn(@)]
          /\ Recover(run)
    /\ UNCHANGED <<ws, latch, procs, containers>>

(* renameat2(RENAME_EXCHANGE); an error may come before or after the syscall. *)
Exchanged == /\ ws' = [ws EXCEPT ![run.w] = cand[run.w]]
             /\ cand' = [cand EXCEPT ![run.w] = ws[run.w]]

(* Mutant: every error of the exchange is taken to precede the syscall. *)
ExchangeUnclassified ==
    /\ At("exchange")
    /\ \/ Exchanged /\ Goto("verify") /\ NoFault
       \/ Exchanged /\ Goto("revert") /\ Fault
    /\ UNCHANGED <<files, marker, latch, procs, containers>>

Exchange ==
    /\ At("exchange")
    /\ \/ Exchanged /\ Goto("verify") /\ NoFault
       \/ Exchanged /\ Recover(run) /\ Fault
       \/ UNCHANGED <<ws, cand>> /\ Goto("revert") /\ Fault
    /\ UNCHANGED <<files, marker, latch, procs, containers>>

(* Not exchanged: the candidate, then the marker are removed, the patch rejected. *)
Revert ==
    /\ At("revert")
    /\ \/ cand' = [cand EXCEPT ![run.w] = None] /\ Goto("revertMark") /\ NoFault
       \/ cand' = [cand EXCEPT ![run.w] = Torn(@)] /\ Recover(run) /\ Fault
    /\ UNCHANGED <<ws, files, marker, latch, procs, containers>>

Unpublished == [marker EXCEPT ![run.w] = NoMarker]

RevertMarker ==
    /\ At("revertMark")
    /\ \/ marker' = Unpublished /\ ToolDone(Reject(run, run.before)) /\ NoFault
       \/ marker' \in {marker, Unpublished} /\ Recover(run) /\ Fault
    /\ UNCHANGED <<ws, cand, files, latch, procs, containers>>

(* Exchanged: both sides are captured again and the patch enters the journal. *)
Verify ==
    /\ At("verify")
    /\ \/ /\ run' = [run EXCEPT !.pc = "dropOld",
                                !.journal = Append(@, Entry("promoted", run.before, run.after))]
          /\ NoFault
       \/ Recover(run) /\ Fault
    /\ UNCHANGED <<root, procs, containers>>

DropOld ==
    /\ At("dropOld")
    /\ \/ cand' = [cand EXCEPT ![run.w] = None] /\ Goto("dropMark") /\ NoFault
       \/ /\ cand' = [cand EXCEPT ![run.w] = Torn(@)]
          /\ Recover([run EXCEPT !.dirty = TRUE]) /\ Fault
    /\ UNCHANGED <<ws, files, marker, latch, procs, containers>>

DropMarker ==
    /\ At("dropMark")
    /\ \/ marker' = Unpublished /\ ToolDone(run) /\ NoFault
       \/ marker' \in {marker, Unpublished} /\ Recover([run EXCEPT !.dirty = TRUE]) /\ Fault
    /\ UNCHANGED <<ws, cand, files, latch, procs, containers>>

-----------------------------------------------------------------------------
(* The end of a run.                                                       *)

(* capture_final_snapshot: nothing beside the workspaces, and the workspace is what    *)
(* the journal says.  A marker of its own would be finished here if the last entry     *)
(* were its; but every error that leaves one has already ended the run.                *)
Capture ==
    /\ At("final")
    /\ IF Refused \/ ws[run.w].digest # Expected(run.journal)
       THEN Recover(run) /\ UNCHANGED <<cand, files>> /\ NoFault
       ELSE \/ Swept(Names) /\ Goto("captured") /\ NoFault
            \/ SweptInPart(Names) /\ Recover(run) /\ Fault
    /\ UNCHANGED <<ws, marker, latch, procs, containers>>

Conclude ==
    /\ At("captured") /\ Goto("teardown")
    /\ UNCHANGED <<root, procs, containers, faults>>

(* Mutant: only the tools' own failures count, not the marker on disk. *)
RecoveryContextInMemory(r) == r.broken \/ r.dirty

(* The finally block of execute_job. *)
RecoveryContext(r) == r.keep \/ r.broken \/ r.dirty \/ marker[r.w] # NoMarker

Teardown ==
    /\ At("teardown") /\ run' = Idle
    /\ \/ /\ Removed(run) /\ NoFault
          /\ IF RecoveryContext(run)
             THEN latched' = latched \cup {run.by} /\ UNCHANGED ws
             ELSE ws' = [ws EXCEPT ![run.w] = None] /\ UNCHANGED latched
       \/ /\ UNCHANGED <<containers, ws>> /\ Fault
          /\ latched' = latched \cup {run.by}
       \/ /\ ~RecoveryContext(run) /\ Removed(run) /\ Fault
          /\ ws' = [ws EXCEPT ![run.w] = Torn(@)]
          /\ latched' = latched \cup {run.by}
    /\ UNCHANGED <<cand, files, marker, latch, up, spent>>

(* The checks of an attempt's world: each runs as a command of its own sandbox, a      *)
(* broken one included; all have run, or one raised.                                   *)
RunCheck ==
    /\ At("judge") /\ run.left > 0
    /\ Create([run EXCEPT !.pc = "checking"])
    /\ UNCHANGED <<root, procs, faults>>

CheckDone == At("checking") /\ EndCommand("judge")

Judged ==
    /\ At("judge") /\ Goto("cleanAttempt")
    /\ UNCHANGED <<root, procs, containers, faults>>

(* cleanup_workspace: sandbox, then workspace.  It looks at no marker and latches      *)
(* nothing; a failed teardown keeps the workspace.                                     *)
CleanAttempt ==
    /\ At("cleanAttempt") /\ run' = Idle
    /\ \/ Removed(run) /\ ws' = [ws EXCEPT ![run.w] = None] /\ NoFault
       \/ Removed(run) /\ ws' = [ws EXCEPT ![run.w] = Torn(@)] /\ Fault
       \/ UNCHANGED <<containers, ws>> /\ Fault
    /\ UNCHANGED <<cand, files, marker, latch, procs>>

-----------------------------------------------------------------------------
(* The runtime probe: a process of its own, started beside the core.       *)

(* The latch stands before anything else exists. *)
StartProbe(t) ==
    /\ Enterable /\ t \notin spent
    /\ latch' = TRUE
    /\ spent' = spent \cup {t}
    /\ \/ run' = [Idle EXCEPT !.by = t, !.pc = "seed", !.w = t, !.left = 2] /\ NoFault
       \/ run' = Idle /\ Fault
    /\ UNCHANGED <<ws, cand, files, marker, containers, up, latched>>

(* _create_workspace: without it there is no cleanup and the latch stays. *)
Seed ==
    /\ At("seed")
    /\ \/ ws' = [ws EXCEPT ![run.w] = Tree(Fresh, Baseline)] /\ Goto("agent") /\ NoFault
       \/ ws' = [ws EXCEPT ![run.w] = Tree(Fresh, 0)] /\ run' = Idle /\ Fault
    /\ UNCHANGED <<cand, files, marker, latch, procs, containers>>

(* An observation the probe does not accept, or the end of its two calls. *)
ProbeJudges ==
    /\ At("agent") /\ run.by \in Probes /\ run.left < 2
    /\ Goto("cleanup")
    /\ UNCHANGED <<root, procs, containers, faults>>

(* Mutant: a failed teardown does not stop the cleanup. *)
CleanContainerAnyway ==
    /\ At("cleanup")
    /\ \/ Removed(run) /\ NoFault
       \/ UNCHANGED containers /\ Fault
    /\ Goto("cleanRoot")
    /\ UNCHANGED <<root, procs>>

(* _strict_cleanup: container, remnants, workspace; any doubt keeps the latch. *)
CleanContainer ==
    /\ At("cleanup")
    /\ \/ Removed(run) /\ Goto("cleanRoot") /\ NoFault
       \/ UNCHANGED containers /\ run' = Idle /\ Fault
    /\ UNCHANGED <<root, procs>>

CleanRoot ==
    /\ At("cleanRoot")
    /\ \/ /\ Marked = {} /\ Swept({run.w}) /\ NoFault
          /\ ws' = [ws EXCEPT ![run.w] = None]
          /\ Goto("unlatch")
       \/ /\ Marked # {} /\ run' = Idle /\ NoFault
          /\ UNCHANGED <<ws, cand, files>>
       \/ /\ Marked = {} /\ Swept({run.w}) /\ Fault
          /\ ws' = [ws EXCEPT ![run.w] = Torn(@)]
          /\ run' = Idle
    /\ UNCHANGED <<marker, latch, procs, containers>>

Unlatch ==
    /\ At("unlatch") /\ run' = Idle
    /\ \/ latch' = FALSE /\ NoFault
       \/ latch' \in BOOLEAN /\ Fault
    /\ UNCHANGED <<ws, cand, files, marker, procs, containers>>

-----------------------------------------------------------------------------
(* Failures.                                                               *)

(* The trees an rmtree may be in the middle of. *)
DoomedCandidates ==
    CASE run.pc = "undo" -> IF run.todo = {} THEN Names ELSE run.todo
      [] run.pc = "final" -> IF Refused THEN {} ELSE Names
      [] run.pc \in {"wipe", "revert", "dropOld"} -> {run.w}
      [] run.pc = "cleanRoot" /\ Marked = {} -> {run.w}
      [] OTHER -> {}

DoomedWorkspaces ==
    IF \/ run.pc \in {"load", "prepare", "cleanAttempt"}
       \/ run.pc = "cleanRoot" /\ Marked = {}
       \/ run.pc = "teardown" /\ ~RecoveryContext(run)
    THEN {run.w} ELSE {}

(* The holder of the lock dies; a core process loses its latch with its memory. *)
Crash ==
    /\ run.by # Nobody /\ Fault
    /\ \E c \in SUBSET DoomedCandidates, w \in SUBSET DoomedWorkspaces :
          /\ cand' = [n \in Names |-> IF n \in c THEN Torn(cand[n]) ELSE cand[n]]
          /\ ws' = [n \in Names |-> IF n \in w THEN Torn(ws[n]) ELSE ws[n]]
    /\ run' = Idle
    /\ up' = up \ {run.by}
    /\ latched' = latched \ {run.by}
    /\ UNCHANGED <<files, marker, latch, containers, spent>>

(* A process is stopped between two runs. *)
Stop(p) ==
    /\ p \in up /\ run.by # p
    /\ up' = up \ {p}
    /\ latched' = latched \ {p}
    /\ UNCHANGED <<root, containers, spent, run, faults>>

(* The core's container is replaced: the tmpfs is empty, the runners stay. *)
Replace ==
    /\ Fault
    /\ ws' = [n \in Names |-> None]
    /\ cand' = [n \in Names |-> None]
    /\ files' = [n \in Names |-> {}]
    /\ marker' = [n \in Names |-> NoMarker]
    /\ latch' = FALSE
    /\ up' = {} /\ latched' = {}
    /\ run' = Idle
    /\ UNCHANGED <<containers, spent>>

-----------------------------------------------------------------------------

Work ==
    \/ CleanupStale \/ Reconcile \/ Unmark \/ Sweep \/ Load
    \/ \E n \in Names : UndoCandidate(n)
    \/ \E k \in 1..2 : Respond(k)
    \/ Answer \/ RunCommand \/ CommandDone
    \/ OpenPatch \/ Stage \/ StageDone \/ Bind \/ Wipe
    \/ WriteMarker \/ PublishMarker \/ Exchange \/ Revert \/ RevertMarker
    \/ Verify \/ DropOld \/ DropMarker
    \/ Capture \/ Conclude \/ Teardown
    \/ PrepareAttempt \/ RunCheck \/ CheckDone \/ Judged \/ CleanAttempt
    \/ Seed \/ ProbeJudges \/ CleanContainer \/ CleanRoot \/ Unlatch

Next ==
    \/ \E p \in Cores : Boot(p) \/ Stop(p)
    \/ \E p \in Cores, j \in Jobs : Admit(p, j)
    \/ \E p \in Cores, a \in Attempts : AdmitAttempt(p, a)
    \/ \E t \in Probes : StartProbe(t)
    \/ Work
    \/ Crash
    \/ Replace

Spec == Init /\ [][Next]_vars

(* A holder of the lock keeps executing. *)
FairSpec == Spec /\ WF_vars(Work)
-----------------------------------------------------------------------------
(* Properties.                                                             *)

PCs == {"idle", "stale", "reconcile", "undo", "unmark", "load", "agent", "command", "stage",
        "staged", "bind", "wipe", "temp", "publish", "exchange", "revert", "revertMark",
        "verify", "dropOld", "dropMark", "final", "captured", "teardown", "seed", "cleanup",
        "cleanRoot", "unlatch", "prepare", "judge", "checking", "cleanAttempt"}

Trees == [ino : Nat, digest : Nat]

(* Every variable has its type; one agent run makes at most max_tool_calls calls, *)
(* and only a holder of the lock is anywhere but idle.                            *)
TypeOK ==
    /\ ws \in [Names -> Trees] /\ cand \in [Names -> Trees]
    /\ files \in [Names -> SUBSET {"patch", "tmp"}]
    /\ marker \in [Names -> [before : Trees, after : Trees]]
    /\ latch \in BOOLEAN
    /\ containers \subseteq Names
    /\ up \subseteq Cores /\ latched \subseteq up /\ spent \subseteq Probes
    /\ run.by \in Cores \cup Probes \cup {Nobody}
    /\ run.pc \in PCs
    /\ run.pc = "idle" <=> run.by = Nobody
    /\ run.calls \in 0..MaxCalls /\ run.left \in 0..2
    /\ faults \in 0..MaxFaults

(* Whatever fails or dies, a published marker of an engineering job or a probe     *)
(* finds its workspace whole on one side of the exchange and its candidate on the  *)
(* other or gone, so that _classify_promotion_marker can decide it.  Test World    *)
(* attempts on the same root never disturb it.  It is false of their own markers:  *)
(* CleanAttempt and PrepareAttempt delete the workspace that a marker describes,   *)
(* and then every reconciliation raises, for every job and start of a process.     *)
MarkersDecidable == \A n \in Marked \ Attempts : Classifiable(n)

(* Between two tool calls and when the final snapshot is taken, the workspace is   *)
(* whole and is what the edit journal says it is: no patch is half applied, lost,  *)
(* or applied without an entry, after any failure the agent survives.  And the     *)
(* journal stays within the evidence limit with room for the entry that closes it. *)
JournalTrue ==
    /\ run.pc \in {"agent", "final", "captured"} =>
          ws[run.w].digest # 0 /\ ws[run.w].digest = Expected(run.journal)
    /\ Len(run.journal) <= MaxEntries
    /\ run.by # Nobody /\ ~run.closed => Len(run.journal) < MaxEntries

Preparing == {"stale", "reconcile", "undo", "unmark"}

(* The agent of an engineering job never works beside what an earlier run left of  *)
(* a promotion: by then other workspaces, those of attempts included, have no      *)
(* marker, candidate or temporary file.  An attempt has no such guarantee.         *)
RunsAlone ==
    run.by \in Cores /\ run.w \in Jobs /\ run.pc \notin Preparing =>
        \A n \in Names \ {run.w} : n \notin Marked /\ cand[n] = None /\ files[n] = {}

(* No job or attempt shares the root or the podman host with anything a probe      *)
(* left, although a probe may die at any point and its death frees the lock.       *)
ProbeContained ==
    run.by \in Cores /\ run.pc # "stale" =>
        \A t \in Probes : ws[t] = None /\ cand[t] = None /\ files[t] = {}
                         /\ t \notin Marked /\ t \notin containers

(* Whoever takes the execution lock gives it back: reconciliation, agent loop and  *)
(* cleanup come to an end.                                                         *)
RunEnds == run.by # Nobody ~> run.by = Nobody
=============================================================================
