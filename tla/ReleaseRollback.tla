--------------------------- MODULE ReleaseRollback ---------------------------
(***************************************************************************)
(* The release transaction of one host: the rollback receipt that          *)
(* scripts/lil-tweak-rollback.py captures, the installers that run under   *)
(* its lease and authorize what they change in its forward state, and the  *)
(* restore that puts the host back, by the installer's exit trap or by an  *)
(* operator, however often either dies on the way.                         *)
(*                                                                         *)
(* Contents are "old" (captured, so the receipt holds a copy), "new" (the  *)
(* release's own) and the members of Versions (written by anybody else,    *)
(* of which no other copy exists).  Modes and owners are part of the       *)
(* content.  The managed directories of the code are not nested in each    *)
(* other and neither are these.                                            *)
(***************************************************************************)
EXTENDS Naturals, Sequences, FiniteSets

CONSTANTS
  FileOrder,    \* the managed regular files, in the order of MANAGED_PATHS
  DirOrder,     \* the managed directories, in that order
  Parent,       \* [Files -> Dirs \cup {Root}]: the directory of each file
  Root,         \* the unmanaged parents, which always exist
  Objects,      \* podman containers, networks and secrets
  Volumes,      \* podman volumes
  CrossDevice,  \* the managed paths on another device than the receipt
  Versions,     \* bound: one foreign edit each
  MaxIds,       \* bound on podman objects ever created
  MaxFaults,    \* bound on kills and failing commands
  MaxInstalls   \* bound on installations attempted

Files == {FileOrder[i] : i \in DOMAIN FileOrder}
Dirs == {DirOrder[i] : i \in DOMAIN DirOrder}
Nodes == Files \cup Dirs
Names == Objects \cup Volumes
Contents == {"absent", "directory", "old", "new"} \cup Versions

ASSUME RollbackAssumption ==
  /\ Files \cap Dirs = {} /\ Root \notin Nodes /\ Objects \cap Volumes = {}
  /\ Parent \in [Files -> Dirs \cup {Root}]
  /\ Versions \cap {"absent", "directory", "old", "new"} = {}
  /\ FileOrder \in Seq(Files) /\ DirOrder \in Seq(Dirs) /\ Nodes # {}
  /\ MaxIds \in Nat \ {0} /\ MaxFaults \in Nat /\ MaxInstalls \in Nat

VARIABLES
  disk,       \* what is at each managed path
  extras,     \* what else lies in each directory: unmanaged files, leftovers
  obj,        \* the id of each podman object, 0 when absent
  image,      \* whether the release's images are in the local store
  units,      \* "base", "stopped" or "new": which services run
  account,    \* whether the service account exists
  auth,       \* whether a registry credential is staged in /run/user
  receipt,    \* "none", "partial" or "ready"
  base,       \* the captured manifest
  fwd,        \* forward-state.json
  quarantine, \* contents in the receipt's quarantine directory
  lease,      \* which processes hold the lock's open file description
  step,       \* where the installer is
  actor,      \* who restores: "none", "trap" or "operator"
  at,         \* where that restore is
  todo,       \* the managed paths it still has to visit
  moved,      \* what it took from the current path
  drift,      \* quarantined_drift
  listed,     \* the new objects it found: those to remove, and retained volumes
  report,     \* what the last restore said
  ids, installs, faults, used,  \* the bounds' counters
  live,       \* ghost: foreign contents nobody but the restore has touched
  seen,       \* ghost: foreign contents a restore found at a managed path
  acked,      \* ghost: contents the operator has acknowledged in quarantine
  touched     \* ghost: somebody changed the host since this restore began

hostVars == <<disk, extras, obj, image, units, account, auth>>
restoreVars == <<actor, at, todo, moved, drift, listed, report>>
ghostVars == <<live, seen, acked, touched>>
bounds == <<ids, installs, faults, used>>
receiptVars == <<receipt, base, fwd, quarantine>>
vars == <<hostVars, receiptVars, lease, step, restoreVars, bounds, ghostVars>>

----------------------------------------------------------------------------
(* The host. *)

Exists(d) == IF d = Root THEN TRUE ELSE disk[d] = "directory"

InDir(d) == {f \in Files : Parent[f] = d}

\* What a tree rooted at the node holds.
Held(n) ==
  IF n \in Dirs /\ disk[n] = "directory"
  THEN extras[n] \cup ({disk[f] : f \in InDir(n)} \ {"absent"})
  ELSE {disk[n]} \ {"absent"}

Fresh == CHOOSE v \in Versions \ used : TRUE

NoManifest ==
  [disk |-> [n \in Nodes |-> "absent"], obj |-> [o \in Names |-> 0],
   account |-> FALSE]

NoObjects == [o \in {} |-> 0]

NewForward ==
  [state |-> "open", outcome |-> "clean", files |-> {},
   objects |-> [o \in Objects |-> "none"], ids |-> [o \in Objects |-> 0],
   image |-> "none"]

\* A host before the release: fresh, or with an earlier installation on it.
Init ==
  /\ \E here \in SUBSET Files, run \in {{}, Names} :
       /\ disk = [n \in Nodes |->
            IF n \in Files THEN (IF n \in here THEN "old" ELSE "absent")
            ELSE IF \E f \in here : Parent[f] = n THEN "directory" ELSE "absent"]
       /\ account = (here # {})
       /\ run # {} => here = Files
       /\ obj = [o \in Names |-> IF o \in run THEN 1 ELSE 0]
       /\ image = (run # {})
  /\ extras = [d \in Dirs \cup {Root} |-> {}]
  /\ units = "base" /\ auth = FALSE
  /\ receipt = "none" /\ base = NoManifest /\ fwd = NewForward
  /\ quarantine = {}
  /\ lease = {} /\ step = "off"
  /\ actor = "none" /\ at = "idle" /\ todo = {} /\ moved = {}
  /\ drift = FALSE /\ listed = NoObjects /\ report = "none"
  /\ ids = 1 /\ installs = 0 /\ faults = 0 /\ used = {}
  /\ live = {} /\ seen = {} /\ acked = {} /\ touched = FALSE

----------------------------------------------------------------------------
(* The lock.  The lease's parent opens it, the installer and whatever the  *)
(* installer leaves behind inherit the same open file description, and     *)
(* flock holds until the last of them closes it.                           *)

\* Mutant: the lock is taken to be free once the lease's parent is gone.
LockFreeOfParent == "parent" \notin lease /\ actor # "operator"

LockFree == lease = {} /\ actor # "operator"

\* _require_open_transaction
OpenTransaction == fwd.state = "open" /\ fwd.outcome = "clean"

\* What capture records: the paths, the podman objects and the accounts.
Manifest == [disk |-> disk, obj |-> obj, account |-> account]

\* verify_receipt: complete, untouched and of this host.
Verified == receipt = "ready"

\* capture: payload copies, manifest and forward state, or, when it dies in
\* the middle, a receipt that verify_receipt refuses.
Capture ==
  /\ receipt = "none" /\ LockFree
  /\ \/ /\ receipt' = "ready"
        /\ base' = Manifest
        /\ UNCHANGED faults
     \/ /\ faults < MaxFaults /\ faults' = faults + 1
        /\ receipt' = "partial" /\ UNCHANGED base
  /\ UNCHANGED <<hostVars, fwd, quarantine, lease, step, restoreVars, ids,
                 installs, used, ghostVars>>

\* The operator gives up a receipt that was never completed and captures
\* again under another name.
Recapture ==
  /\ receipt = "partial" /\ receipt' = "none"
  /\ UNCHANGED <<hostVars, base, fwd, quarantine, lease, step, restoreVars,
                 bounds, ghostVars>>

\* lease_exec up to Popen
LeaseExec ==
  /\ Verified /\ LockFree /\ OpenTransaction /\ installs < MaxInstalls
  /\ lease' = {"parent", "child"} /\ step' = "leased" /\ report' = "none"
  /\ installs' = installs + 1
  /\ UNCHANGED <<hostVars, receiptVars, actor, at, todo, moved, drift, listed, ids,
                 faults, used, ghostVars>>

----------------------------------------------------------------------------
(* The installer, which holds the lease. *)

Child == "child" \in lease /\ actor = "none"

\* The child ends; while the parent lives it terminates every process that
\* still holds the lease and then releases it.
LeaseAfterChild ==
  IF "parent" \in lease THEN {} ELSE lease \ {"child"}

\* verify_fresh_install, which the installers demand before they start
FreshHost ==
  /\ \A n \in Nodes : base.disk[n] = "absent" /\ disk[n] = "absent"
  /\ \A o \in Names : base.obj[o] = 0 /\ obj[o] = 0
  /\ ~base.account /\ ~account /\ units = "base"

VerifyFresh ==
  /\ Child /\ step = "leased"
  /\ IF FreshHost /\ OpenTransaction
     THEN step' = "fresh" /\ UNCHANGED lease
     ELSE step' = "off" /\ lease' = LeaseAfterChild
  /\ UNCHANGED <<hostVars, receiptVars, restoreVars, bounds, ghostVars>>

\* The secret snapshot and the provenance gate: a refused input ends the
\* installer before it has changed the host.
Preflight ==
  /\ Child /\ step = "fresh"
  /\ \/ step' = "mutating" /\ account' = TRUE /\ UNCHANGED lease
     \/ step' = "off" /\ lease' = LeaseAfterChild /\ UNCHANGED account
  /\ UNCHANGED <<disk, extras, obj, image, units, auth, receiptVars,
                 restoreVars, bounds, ghostVars>>

Mutating == Child /\ step \in {"mutating", "staged", "pulled", "started"}

InstallerLeaves == UNCHANGED <<receipt, base, quarantine, lease, restoreVars,
                               installs, faults, used, seen, acked, touched>>

AuthorizeFile(f) ==
  /\ Mutating /\ step \in {"mutating", "started"}
  /\ OpenTransaction /\ f \notin fwd.files
  /\ fwd' = [fwd EXCEPT !.files = @ \cup {f}]
  /\ InstallerLeaves /\ UNCHANGED <<step, hostVars, ids, live>>

\* install_tree: directories are created or reused, files replaced by rename
InstallDir(d) ==
  /\ Mutating /\ step = "started" /\ disk[d] = "absent"
  /\ disk' = [disk EXCEPT ![d] = "directory"]
  /\ InstallerLeaves
  /\ UNCHANGED <<step, extras, obj, image, units, account, auth, fwd, ids, live>>

InstallFile(f) ==
  /\ Mutating /\ step = "started" /\ f \in fwd.files /\ Exists(Parent[f]) /\ disk[f] # "new"
  /\ disk' = [disk EXCEPT ![f] = "new"]
  /\ live' = live \ {disk[f]}
  /\ InstallerLeaves
  /\ UNCHANGED <<step, extras, obj, image, units, account, auth, fwd, ids>>

\* current_image
ImageState == IF image THEN "present" ELSE "absent"

AuthorizeImages ==
  /\ Mutating /\ step = "staged" /\ OpenTransaction /\ fwd.image = "none"
  /\ fwd' = [fwd EXCEPT !.image = ImageState]
  /\ InstallerLeaves /\ UNCHANGED <<step, hostVars, ids, live>>

\* stage-runtime-auth, the pulls, remove-runtime-auth
StageAuth ==
  /\ Mutating /\ step = "mutating" /\ auth' = TRUE /\ step' = "staged"
  /\ InstallerLeaves
  /\ UNCHANGED <<disk, extras, obj, image, units, account, fwd, ids, live>>

Pull ==
  /\ Mutating /\ step = "staged" /\ fwd.image # "none"
  /\ image' = TRUE /\ step' = "pulled"
  /\ InstallerLeaves
  /\ UNCHANGED <<disk, extras, obj, units, account, auth, fwd, ids, live>>

\* Mutant: the credential is left for the exit trap to remove.
RemoveAuthLater ==
  /\ Mutating /\ step = "pulled" /\ step' = "started"
  /\ InstallerLeaves
  /\ UNCHANGED <<disk, extras, obj, image, units, account, auth, fwd, ids, live>>

RemoveAuth ==
  /\ Mutating /\ step = "pulled" /\ auth' = FALSE /\ step' = "started"
  /\ InstallerLeaves
  /\ UNCHANGED <<disk, extras, obj, image, units, account, fwd, ids, live>>

AuthorizeObject(o) ==
  /\ Mutating /\ step = "started" /\ OpenTransaction /\ obj[o] = base.obj[o]
  /\ fwd.objects[o] = "none"
  /\ fwd' = [fwd EXCEPT !.objects[o] = "intent"]
  /\ InstallerLeaves /\ UNCHANGED <<step, hostVars, ids, live>>

\* podman creates the object when its unit starts, a volume beside it.
CreateObject(o) ==
  /\ Mutating /\ step = "started" /\ obj[o] = 0 /\ ids < MaxIds
  /\ \E p \in Objects : fwd.objects[p] = "intent" /\ (o \in Objects => o = p)
  /\ ids' = ids + 1 /\ obj' = [obj EXCEPT ![o] = ids + 1]
  /\ units' = "new"
  /\ InstallerLeaves
  /\ UNCHANGED <<step, disk, extras, image, account, auth, fwd, live>>

FinalizeObject(o) ==
  /\ Mutating /\ step = "started" /\ OpenTransaction
  /\ obj[o] # 0 /\ fwd.objects[o] = "intent"
  /\ fwd' = [fwd EXCEPT !.objects[o] = "finalized", !.ids[o] = obj[o]]
  /\ InstallerLeaves /\ UNCHANGED <<step, hostVars, ids, live>>

MarkCompleted ==
  /\ Mutating /\ OpenTransaction
  /\ fwd.files = Files /\ fwd.image # "none"
  /\ \A o \in Objects : fwd.objects[o] = "finalized"
  /\ fwd' = [fwd EXCEPT !.state = "completed"]
  /\ step' = "off" /\ lease' = LeaseAfterChild
  /\ UNCHANGED <<hostVars, receipt, base, quarantine, restoreVars, bounds, ghostVars>>

\* Something the installer started outlives its step and holds the lease.
LeaveResidual ==
  /\ Mutating /\ "residual" \notin lease /\ faults < MaxFaults
  /\ faults' = faults + 1 /\ lease' = lease \cup {"residual"}
  /\ UNCHANGED <<hostVars, receiptVars, step, restoreVars, ids, installs, used, ghostVars>>

ResidualEnds ==
  /\ "residual" \in lease /\ "parent" \notin lease
  /\ lease' = lease \ {"residual"}
  /\ UNCHANGED <<hostVars, receiptVars, step, restoreVars, bounds, ghostVars>>

\* SIGKILL of the lease's parent: the installer keeps running, and keeps the
\* lock through the descriptor it inherited.
KillParent ==
  /\ "parent" \in lease /\ faults < MaxFaults /\ faults' = faults + 1
  /\ lease' = lease \ {"parent"}
  /\ UNCHANGED <<hostVars, receiptVars, step, restoreVars, ids, installs, used, ghostVars>>

\* No restore is running any more.
Idle == /\ actor' = "none" /\ at' = "idle" /\ todo' = {} /\ moved' = {}
        /\ drift' = FALSE /\ listed' = NoObjects

\* SIGKILL of the installer, at worst between writing a temporary file and
\* renaming it.  A restore it was running dies with it.
KillChild ==
  /\ "child" \in lease /\ faults < MaxFaults /\ faults' = faults + 1
  /\ \/ UNCHANGED extras
     \/ \E d \in Dirs : /\ Mutating /\ Exists(d)
                        /\ extras' = [extras EXCEPT ![d] = @ \cup {"new"}]
  /\ lease' = LeaseAfterChild /\ step' = "off"
  /\ Idle
  /\ UNCHANGED <<disk, obj, image, units, account, auth, receiptVars, report, ids,
                 installs, used, ghostVars>>

\* A step of the installer fails: its exit traps remove the credential and
\* run the restore under the same lease.
InstallFails ==
  /\ Mutating /\ step' = "failed" /\ auth' = FALSE
  /\ UNCHANGED <<disk, extras, obj, image, units, account, receiptVars, lease,
                 restoreVars, bounds, ghostVars>>

----------------------------------------------------------------------------
(* The restore. *)

\* Mutant: a finalized object is recognised by its name alone.
UnresolvedByName ==
  \/ \E o \in Names : base.obj[o] # 0 /\ obj[o] # base.obj[o]
  \/ \E o \in Objects : base.obj[o] = 0 /\ obj[o] # 0 /\ fwd.objects[o] # "finalized"
  \/ fwd.image = "present" /\ ~image

\* Objects of the baseline that are no longer as captured, and new ones that
\* this transaction has not recorded under their id.
Unresolved ==
  \/ \E o \in Names : base.obj[o] # 0 /\ obj[o] # base.obj[o]
  \/ \E o \in Objects : /\ base.obj[o] = 0 /\ obj[o] # 0
                        /\ ~(fwd.objects[o] = "finalized" /\ fwd.ids[o] = obj[o])
  \/ fwd.image = "present" /\ ~image

\* New objects: the ones to remove, and volumes, which are always retained.
Added == {o \in Names : base.obj[o] = 0 /\ obj[o] # 0}

\* Directories that were there, then all files, then directories that were
\* not, each in the order of MANAGED_PATHS.
Place(order, n) == CHOOSE i \in DOMAIN order : order[i] = n

Rank(n) ==
  IF n \in Files THEN Len(DirOrder) + Place(FileOrder, n)
  ELSE IF base.disk[n] # "absent" THEN Place(DirOrder, n)
  ELSE Len(DirOrder) + Len(FileOrder) + Place(DirOrder, n)

\* The restore ends: the lock is free again, and the trap's installer exits.
Ends(said) ==
  /\ report' = said /\ Idle
  /\ lease' = IF actor = "operator" THEN lease ELSE LeaseAfterChild
  /\ step' = IF actor = "operator" THEN step ELSE "off"

StopForRestore == units' = "stopped"

\* restore_receipt up to stop_for_restore: nothing is touched when an earlier
\* quarantine is pending or an object's drift cannot be resolved.
RestoreStart(who) ==
  /\ Verified
  /\ CASE who = "operator" -> LockFree
       [] who = "trap" -> Child /\ step = "failed"
  /\ touched' = FALSE
  /\ IF fwd.outcome = "quarantined" \/ Unresolved
     THEN /\ report' = IF fwd.outcome = "quarantined" THEN "quarantined" ELSE "incomplete"
          /\ lease' = IF who = "trap" THEN LeaseAfterChild ELSE lease
          /\ step' = IF who = "trap" THEN "off" ELSE step
          /\ UNCHANGED <<actor, at, todo, moved, listed, units>>
     ELSE /\ actor' = who /\ at' = "outcome" /\ todo' = Nodes
          /\ listed' = [o \in Added |-> obj[o]]
          /\ StopForRestore /\ report' = "none"
          /\ UNCHANGED <<lease, step, moved>>
  /\ UNCHANGED <<disk, extras, obj, image, account, auth, receiptVars, drift, bounds,
                 live, seen, acked>>

Restoring(where) == actor # "none" /\ at = where

RestoreLeaves == UNCHANGED <<actor, report, account, auth, receipt, base, lease,
                             step, bounds, live, acked, touched>>

Retained == Volumes \cap DOMAIN listed

\* The outcome says that volumes stay before anything is removed.
RecordRetained ==
  /\ Restoring("outcome")
  /\ fwd' = IF Retained # {} THEN [fwd EXCEPT !.outcome = "retained-data"] ELSE fwd
  /\ at' = "objects"
  /\ RestoreLeaves
  /\ UNCHANGED <<disk, extras, obj, image, units, quarantine, todo, moved, drift, listed, seen>>

\* remove_object, unless somebody else already did
RemoveObject(o) ==
  /\ Restoring("objects") /\ o \in Objects \cap DOMAIN listed
  /\ obj[o] \in {0, listed[o]}
  /\ obj' = [obj EXCEPT ![o] = 0]
  /\ listed' = [p \in DOMAIN listed \ {o} |-> listed[p]]
  /\ RestoreLeaves
  /\ UNCHANGED <<disk, extras, image, units, fwd, quarantine, at, todo, moved, drift, seen>>

RemoveImages ==
  /\ Restoring("objects") /\ DOMAIN listed \subseteq Volumes
  /\ image' = (image /\ fwd.image # "absent")
  /\ at' = "check"
  /\ RestoreLeaves
  /\ UNCHANGED <<disk, extras, obj, units, fwd, quarantine, todo, moved, drift, listed, seen>>

Here == CHOOSE n \in todo : \A m \in todo : Rank(n) <= Rank(m)

WasAbsent == base.disk[Here] = "absent"

\* The next path, once this one is as it should be.
Onward == /\ todo' = todo \ {Here} /\ moved' = {}
          /\ at' = IF todo = {Here} THEN "verify" ELSE "check"

\* _matches(current, authorized)
Authorized(n) == n \in fwd.files /\ disk[n] = "new"

\* Mutant: the outcome is left to the report at the end.
MarkNothing(n) == fwd

\* _mark_quarantined: recorded before anything unauthorized is moved.
Mark(n) == IF Authorized(n) THEN fwd ELSE [fwd EXCEPT !.outcome = "quarantined"]

\* Something stands where the baseline has something else.
InTheWay(n) ==
  /\ disk[n] # "absent"
  /\ IF n \in Files THEN disk[n] # base.disk[n]
     ELSE IF base.disk[n] = "directory" THEN disk[n] # "directory"
     ELSE disk[n] # "directory" \/ Held(n) # {}

\* _open_managed_parent: something else stands where the path's directory belongs.
Unsafe(n) ==
  n \in Files /\ Parent[n] # Root /\ disk[Parent[n]] \notin {"absent", "directory"}

\* The restore does not end with this look.
GoesOn == UNCHANGED <<actor, report, lease, step, drift, listed>>

LookLeaves == UNCHANGED <<extras, obj, image, units, account, auth, receipt, base,
                          quarantine, bounds, live, acked, touched>>

\* Something is in the way: marked, and to be moved.
Condemn ==
  /\ fwd' = Mark(Here) /\ seen' = seen \cup (Held(Here) \cap Versions)
  /\ at' = "move" /\ UNCHANGED <<disk, todo, moved>>


\* One path is looked at: left alone, removed when it is an empty directory,
\* filled when nothing is there, or marked and moved away.  A file whose
\* directory is no directory ends the restore: the absent directories, where
\* what stands there would be moved away, come after the files.
Check ==
  /\ Restoring("check")
  /\ \/ Unsafe(Here) /\ Ends("failed") /\ UNCHANGED <<disk, fwd, seen>>
     \/ ~Unsafe(Here) /\ InTheWay(Here) /\ Condemn /\ GoesOn
     \/ /\ ~Unsafe(Here) /\ ~InTheWay(Here) /\ GoesOn /\ UNCHANGED <<fwd, seen>>
        /\ \/ /\ disk[Here] = base.disk[Here] /\ UNCHANGED disk /\ Onward
           \/ /\ WasAbsent /\ disk[Here] = "directory"
              /\ disk' = [disk EXCEPT ![Here] = "absent"] /\ Onward
           \/ /\ ~WasAbsent /\ disk[Here] = "absent"
              /\ at' = "put" /\ UNCHANGED <<disk, todo, moved>>
  /\ LookLeaves

\* Mutant: what lies in a moved directory is forgotten.
GoneAlone == [disk EXCEPT ![Here] = "absent"]

\* What the disk is like without the current path.
Gone == [n \in Nodes |->
           IF n = Here \/ (Here \in Dirs /\ n \in InDir(Here)) THEN "absent" ELSE disk[n]]

Emptied == IF Here \in Dirs THEN [extras EXCEPT ![Here] = {}] ELSE extras

\* _quarantine_at on one device: a rename takes whatever is there now.
Move ==
  /\ Restoring("move") /\ Here \notin CrossDevice /\ disk[Here] # "absent"
  /\ moved' = Held(Here) /\ quarantine' = quarantine \cup Held(Here)
  /\ disk' = Gone /\ extras' = Emptied /\ at' = "sift"
  /\ RestoreLeaves /\ UNCHANGED <<listed, obj, image, units, fwd, todo, drift, seen>>

\* _cross_device_quarantine_at: the verified copy is published first,
Copy ==
  /\ Restoring("move") /\ Here \in CrossDevice /\ disk[Here] # "absent"
  /\ moved' = Held(Here) /\ quarantine' = quarantine \cup Held(Here)
  /\ at' = "stage"
  /\ RestoreLeaves /\ UNCHANGED <<listed, disk, extras, obj, image, units, fwd, todo, drift, seen>>

\* then the source is renamed beside itself,
Up == IF Here \in Files THEN Parent[Here] ELSE Root

Stage ==
  /\ Restoring("stage") /\ disk[Here] # "absent"
  /\ extras' = [Emptied EXCEPT ![Up] = @ \cup Held(Here)]
  /\ disk' = Gone
  /\ IF Held(Here) = moved
     THEN at' = "discard" /\ UNCHANGED <<actor, todo, moved, drift, listed, report, lease, step>>
     ELSE Ends("failed")
  /\ UNCHANGED <<obj, image, units, account, auth, receiptVars, bounds, ghostVars>>

\* and deleted once it is known to be what was copied.
Discard ==
  /\ Restoring("discard")
  /\ extras' = [extras EXCEPT ![Up] = @ \ moved]
  /\ at' = "sift"
  /\ RestoreLeaves /\ UNCHANGED <<listed, disk, obj, image, units, fwd, quarantine, todo, moved, drift, seen>>

\* Mutant: an authorized path is deleted without reading it again.
SiftUnread ==
  /\ Restoring("sift")
  /\ IF Here \in fwd.files
     THEN quarantine' = quarantine \ moved /\ UNCHANGED drift
     ELSE drift' = TRUE /\ UNCHANGED quarantine
  /\ IF WasAbsent THEN Onward ELSE at' = "put" /\ UNCHANGED <<todo, moved>>
  /\ RestoreLeaves /\ UNCHANGED <<listed, disk, extras, obj, image, units, fwd, seen>>

\* What was moved is deleted if it is the authorized content, read again now;
\* everything else stays in quarantine.
Sift ==
  /\ Restoring("sift")
  /\ IF Here \in fwd.files /\ moved = {"new"}
     THEN quarantine' = quarantine \ {"new"} /\ UNCHANGED drift
     ELSE drift' = TRUE /\ UNCHANGED quarantine
  /\ IF WasAbsent THEN Onward ELSE at' = "put" /\ UNCHANGED <<todo, moved>>
  /\ RestoreLeaves /\ UNCHANGED <<listed, disk, extras, obj, image, units, fwd, seen>>

\* mkdir, or _restore_regular_at, whose rename overwrites what it finds.
Put ==
  /\ Restoring("put") /\ (Here \in Dirs => disk[Here] = "absent")
  /\ disk' = [disk EXCEPT ![Here] = base.disk[Here]]
  /\ Onward
  /\ RestoreLeaves /\ UNCHANGED <<listed, extras, obj, image, units, fwd, quarantine, drift, seen>>

\* restore_units: every unit, and last the account's linger by loginctl, which
\* _command refuses, as it is not among HOST_COMMAND_PATHS.  With the account
\* there the restore ends here (the refusals about a fresh service identity
\* before it, which also need the account, end it in the same way).
RestoreUnits ==
  /\ units' = "base"
  /\ IF account THEN Ends("failed")
     ELSE at' = "finish" /\ GoesOn /\ UNCHANGED <<todo, moved>>

\* Every path against the baseline, then the units.
VerifyPaths ==
  /\ Restoring("verify")
  /\ IF disk = base.disk THEN RestoreUnits
     ELSE /\ Ends(IF \E f \in Files : Unsafe(f) THEN "failed" ELSE "incomplete")
          /\ UNCHANGED units
  /\ UNCHANGED <<disk, extras, obj, image, account, auth, receiptVars, bounds, ghostVars>>

\* verify_restored, and the outcome
ObjectsRestored ==
  /\ \A o \in Names : obj[o] = IF o \in Retained THEN listed[o] ELSE base.obj[o]
  /\ fwd.image # "none" => (image = (fwd.image = "present"))

Finish ==
  /\ Restoring("finish")
  /\ Ends(CASE ~ObjectsRestored -> "failed"
             [] ObjectsRestored /\ drift -> "quarantined"
             [] ObjectsRestored /\ ~drift /\ Retained # {} -> "incomplete"
             [] OTHER -> "restored")
  /\ fwd' = IF report' = "restored" /\ fwd.outcome = "retained-data"
            THEN [fwd EXCEPT !.outcome = "clean"] ELSE fwd
  /\ UNCHANGED <<hostVars, receipt, base, quarantine, bounds, ghostVars>>

\* A path the restore is about to act on changed under it.
Changed ==
  /\ \/ at \in {"move", "stage"} /\ disk[Here] = "absent"
     \/ at = "put" /\ Here \in Dirs /\ disk[Here] # "absent"
     \/ at = "objects" /\ \E o \in Objects \cap DOMAIN listed : obj[o] \notin {0, listed[o]}
  /\ Ends("failed")
  /\ UNCHANGED <<hostVars, receiptVars, bounds, ghostVars>>

\* A command fails, or the operator's restore is killed, between two steps.
Abort ==
  /\ actor # "none" /\ faults < MaxFaults /\ faults' = faults + 1
  /\ Ends("failed")
  /\ UNCHANGED <<hostVars, receiptVars, ids, installs, used, ghostVars>>

Acknowledge ==
  /\ Verified /\ LockFree /\ fwd.outcome = "quarantined"
  /\ fwd' = [fwd EXCEPT !.outcome = "acknowledged"]
  /\ acked' = acked \cup quarantine
  /\ UNCHANGED <<hostVars, receipt, base, quarantine, lease, step, restoreVars,
                 bounds, live, seen, touched>>

----------------------------------------------------------------------------
(* Everybody else: other administrators and the services themselves. *)

Foreign == /\ touched' = TRUE
           /\ UNCHANGED <<receiptVars, lease, step, restoreVars, installs, faults, seen, acked>>

\* Between the move of a file and the rename that restores its baseline, that
\* rename overwrites whatever is created in its place.
Overwritable(f) ==
  /\ at \in {"discard", "sift", "put"} /\ Here = f /\ ~WasAbsent

\* A file is written in place or deleted.
EditFile(f) ==
  /\ receipt = "ready" /\ used # Versions /\ Exists(Parent[f])
  /\ \E c \in {Fresh, "absent"} :
       /\ disk[f] # c /\ disk' = [disk EXCEPT ![f] = c]
       /\ live' = (live \ {disk[f]}) \cup
            (IF c = "absent" \/ Overwritable(f) THEN {} ELSE {c})
  /\ used' = used \cup {Fresh}
  /\ Foreign /\ UNCHANGED <<extras, obj, image, units, account, auth, ids>>

\* Something else is put where a directory belongs, or into a directory.
EditDir(d) ==
  /\ receipt = "ready"
  /\ used # Versions /\ used' = used \cup {Fresh} /\ live' = live \cup {Fresh}
  /\ \/ /\ disk[d] = "absent" /\ disk' = [disk EXCEPT ![d] = Fresh] /\ UNCHANGED extras
     \/ /\ disk[d] = "directory" /\ UNCHANGED disk
        /\ extras' = [extras EXCEPT ![d] = @ \cup {Fresh}]
  /\ Foreign /\ UNCHANGED <<obj, image, units, account, auth, ids>>

EditObject(o) ==
  /\ receipt = "ready"
  /\ used # Versions /\ used' = used \cup {Fresh} /\ account
  /\ \/ obj[o] # 0 /\ obj' = [obj EXCEPT ![o] = 0] /\ UNCHANGED ids
     \/ obj[o] = 0 /\ ids < MaxIds /\ ids' = ids + 1 /\ obj' = [obj EXCEPT ![o] = ids + 1]
  /\ Foreign /\ UNCHANGED <<disk, extras, image, units, account, auth, live>>

\* The operator removes the account the installer created, with nothing of it
\* left; its runtime directory goes with it.
RemoveAccount ==
  /\ account /\ ~base.account /\ receipt = "ready" /\ lease = {} /\ actor = "none"
  /\ units # "new" /\ ~image /\ \A o \in Names : obj[o] = 0
  /\ account' = FALSE /\ auth' = FALSE /\ touched' = TRUE
  /\ UNCHANGED <<disk, extras, obj, image, units, receiptVars, lease, step, restoreVars,
                 bounds, live, seen, acked>>

Install ==
  \/ VerifyFresh \/ Preflight \/ AuthorizeImages \/ StageAuth \/ Pull \/ RemoveAuth
  \/ MarkCompleted \/ InstallFails
  \/ \E f \in Files : AuthorizeFile(f) \/ InstallFile(f)
  \/ \E d \in Dirs : InstallDir(d)
  \/ \E o \in Objects : AuthorizeObject(o) \/ FinalizeObject(o)
  \/ \E o \in Names : CreateObject(o)

Restore ==
  \/ RecordRetained \/ RemoveImages \/ Check \/ Move \/ Copy \/ Stage \/ Discard
  \/ Sift \/ Put \/ VerifyPaths \/ Finish \/ Changed
  \/ \E o \in Objects : RemoveObject(o)

Next ==
  \/ Capture \/ Recapture \/ LeaseExec \/ Install \/ Restore
  \/ LeaveResidual \/ ResidualEnds \/ KillParent \/ KillChild \/ Abort
  \/ \E who \in {"trap", "operator"} : RestoreStart(who)
  \/ Acknowledge \/ RemoveAccount
  \/ \E f \in Files : EditFile(f)
  \/ \E d \in Dirs : EditDir(d)
  \/ \E o \in Names : EditObject(o)

Spec == Init /\ [][Next]_vars

\* A restore, an installer and its leftovers go on until they end, and the
\* operator acknowledges and tries again until a restore succeeds.
FairSpec ==
  /\ Spec /\ WF_vars(Restore) /\ WF_vars(Install) /\ WF_vars(ResidualEnds)
  /\ WF_vars(RestoreStart("trap")) /\ WF_vars(Acknowledge)
  /\ WF_vars(report # "restored" /\ RestoreStart("operator"))

----------------------------------------------------------------------------
(* Properties. *)

\* Every piece of state is well formed: nothing is inside a directory that is
\* not there, and a restore is somewhere exactly while somebody runs one.
TypeOK ==
  /\ disk \in [Nodes -> Contents] /\ extras \in [Dirs \cup {Root} -> SUBSET Contents]
  /\ \A d \in Dirs : disk[d] # "directory" =>
                     extras[d] = {} /\ \A f \in InDir(d) : disk[f] = "absent"
  /\ obj \in [Names -> 0 .. MaxIds] /\ image \in BOOLEAN
  /\ units \in {"base", "stopped", "new"} /\ account \in BOOLEAN /\ auth \in BOOLEAN
  /\ receipt \in {"none", "partial", "ready"} /\ quarantine \subseteq Contents
  /\ fwd.state \in {"open", "completed"}
  /\ fwd.outcome \in {"clean", "quarantined", "acknowledged", "retained-data"}
  /\ fwd.files \subseteq Files /\ fwd.image \in {"none", "absent", "present"}
  /\ lease \subseteq {"parent", "child", "residual"}
  /\ actor \in {"none", "trap", "operator"} /\ (actor = "none") = (at = "idle")

\* Whatever somebody else wrote at a managed path or into a managed directory
\* is still there or in quarantine, wherever the restore that moves it dies
\* and even when it is written between the look at a path and its move. Not
\* counted (live): what is created at a file's path between that move and
\* the os.replace that restores its baseline, which overwrites it.
NothingLost ==
  live \subseteq {disk[n] : n \in Nodes} \cup (UNION {extras[d] : d \in DOMAIN extras})
               \cup quarantine

\* Foreign content a restore found and moved to quarantine is announced by the
\* receipt's outcome until the operator acknowledges it, although the restore
\* that moved it may have died before it could report anything.
QuarantineMarked ==
  (quarantine \cap seen) \ acked # {} => fwd.outcome = "quarantined"

\* When a restore reports success and nobody else interfered, every managed
\* path, every object and the services are as captured: no installer that was
\* orphaned, killed or retried has changed them since.  After an installation
\* no restore succeeds while the account is there (RestoreUnits); once the
\* operator has removed it, one may.
RestoredIsBaseline ==
  report = "restored" /\ ~touched =>
    disk = base.disk /\ obj = base.obj /\ units = "base"

\* No service of the release runs while the registry credential that pulled
\* its images is still staged, in this attempt or left by a killed one.
RegistryAuthGone == units = "new" => ~auth

\* The restore removes no volume, nothing that was captured, and of the new
\* objects only the very ones that the transaction recorded by id.
ObjectsKept ==
  [][\A o \in Names : obj[o] # 0 /\ obj'[o] = 0 /\ actor # "none" /\ used' = used =>
       /\ o \in Objects /\ obj[o] # base.obj[o] /\ fwd.ids[o] = obj[o]]_vars

\* A file or a link stands where a managed directory belongs that the baseline
\* does not have, and the managed files in it are never reached.
Blocked == \E f \in Files : Unsafe(f) /\ base.disk[Parent[f]] = "absent"


\* The failed stage's restore and the operator's "explicit manual restore"
\* (docs/operations/digitalocean.md, and test_release_rollback.py, where a
\* restored host keeps the account) end, repeated, in a restored host, unless
\* podman objects drifted, volumes have to be reconciled by hand or the
\* installation was completed.  Violated: while the account is there
\* restore_units raises after it has restored everything.
RollbackConverges ==
  []<>(\/ receipt # "ready" \/ report = "restored" \/ fwd.state = "completed"
       \/ Unresolved \/ Volumes \cap Added # {})
=============================================================================
