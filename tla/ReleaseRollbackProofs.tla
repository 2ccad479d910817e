------------------------ MODULE ReleaseRollbackProofs ------------------------
(***************************************************************************)
(* That a release transaction loses nothing, for every set of managed      *)
(* paths, podman objects and foreign contents, and for any number of       *)
(* kills, failing commands and installations: the safety invariants of     *)
(* ReleaseRollback follow from one inductive invariant.                    *)
(***************************************************************************)
EXTENDS ReleaseRollback, WellFoundedInduction, TLAPS

Steps == {"off", "leased", "fresh", "mutating", "staged", "pulled", "started", "failed"}

Places == {"idle", "outcome", "objects", "check", "move", "stage", "discard",
           "sift", "put", "verify", "finish"}

\* The places of a restore where it has a current path, or will have one.
Visiting == Places \ {"idle", "verify", "finish"}

Receipts == [disk : [Nodes -> Contents], obj : [Names -> 0 .. MaxIds], account : BOOLEAN]

Forwards ==
  [state : {"open", "completed"},
   outcome : {"clean", "quarantined", "acknowledged", "retained-data"},
   files : SUBSET Files, objects : [Objects -> {"none", "intent", "finalized"}],
   ids : [Objects -> 0 .. MaxIds], image : {"none", "absent", "present"}]

HostTyped ==
  /\ disk \in [Nodes -> Contents] /\ extras \in [Dirs \cup {Root} -> SUBSET Contents]
  /\ obj \in [Names -> 0 .. MaxIds] /\ image \in BOOLEAN
  /\ units \in {"base", "stopped", "new"} /\ account \in BOOLEAN /\ auth \in BOOLEAN

ReceiptTyped ==
  /\ receipt \in {"none", "partial", "ready"} /\ base \in Receipts
  /\ fwd \in Forwards /\ quarantine \subseteq Contents

RunTyped ==
  /\ lease \subseteq {"parent", "child", "residual"} /\ step \in Steps
  /\ actor \in {"none", "trap", "operator"} /\ at \in Places
  /\ (actor = "none") = (at = "idle")
  /\ todo \subseteq Nodes /\ (at \in Visiting => todo # {})
  /\ moved \subseteq Contents /\ drift \in BOOLEAN /\ DOMAIN listed \subseteq Names
  /\ ids \in 1 .. MaxIds /\ used \subseteq Versions

\* Nothing is inside a directory that is not there.
TreeOK ==
  \A d \in Dirs : disk[d] # "directory" =>
                  extras[d] = {} /\ \A f \in InDir(d) : disk[f] = "absent"

\* What a release finds on a host: files of an earlier one, in directories.
Plain(tree) ==
  /\ \A d \in Dirs : tree[d] \in {"directory", "absent"}
  /\ \A f \in Files : /\ tree[f] \in {"old", "absent"}
                      /\ tree[f] = "old" /\ Parent[f] # Root => tree[Parent[f]] = "directory"

\* Until the receipt is complete nobody acts; what it holds is such a host.
BaselineOK ==
  /\ Plain(base.disk)
  /\ receipt # "ready" =>
       lease = {} /\ actor = "none" /\ report = "none" /\ Plain(disk)

\* Who holds the lock: the installer while it runs, which a trap's restore is
\* part of, or the operator's restore.
LeaseOK ==
  /\ ("child" \in lease) = (step # "off")
  /\ actor = "trap" => step = "failed"
  /\ actor = "operator" => lease = {}

\* The directories of the baseline that a restore has passed are there.
VisitedOK ==
  actor # "none" =>
    \A d \in Dirs \ todo : base.disk[d] = "directory" => disk[d] = "directory"

\* The foreign contents are the ones written so far.
ForeignOK ==
  /\ live \subseteq used /\ seen \subseteq used
  /\ \A n \in Nodes : disk[n] \in Versions => disk[n] \in used
  /\ \A d \in Dirs \cup {Root} : extras[d] \cap Versions \subseteq used

\* What is deleted beside a path has been copied, and what the baseline is
\* about to be written over is nobody's.
MovedOK ==
  /\ at \in {"stage", "discard"} => moved \subseteq quarantine
  /\ at = "put" => base.disk[Here] # "absent"
  /\ at \in {"discard", "sift", "put"} /\ Here \in Files /\ base.disk[Here] # "absent" =>
       disk[Here] \notin live

\* A restore that has marked nothing has found nothing but the release's own.
MarkOK ==
  /\ at = "outcome" => fwd.outcome # "quarantined"
  /\ at = "move" /\ fwd.outcome # "quarantined" => Here \in Files /\ disk[Here] \notin seen
  /\ fwd.outcome # "quarantined" => quarantine \cap seen \subseteq acked

\* A success is reported only of a verified host that no installer holds.
ReportOK ==
  /\ actor # "none" => report = "none"
  /\ at = "finish" /\ ~touched => disk = base.disk /\ units = "base"
  /\ report = "restored" => step = "off"
  /\ RestoredIsBaseline

\* The credential is gone before the first service starts.
AuthOK ==
  /\ step \in {"fresh", "mutating", "staged", "pulled"} => units = "base"
  /\ step = "started" => ~auth
  /\ RegistryAuthGone

\* The objects to remove are new and recorded by id.
ListedOK ==
  actor # "none" =>
    \A o \in Objects \cap DOMAIN listed :
      base.obj[o] = 0 /\ fwd.ids[o] = listed[o]

\* The inductive invariant.
IInv ==
  /\ HostTyped /\ ReceiptTyped /\ RunTyped /\ TreeOK /\ BaselineOK /\ LeaseOK
  /\ VisitedOK /\ ForeignOK /\ NothingLost /\ MovedOK /\ MarkOK /\ ReportOK
  /\ AuthOK /\ ListedOK

-----------------------------------------------------------------------------
(* The order of the visits. *)

LEMMA PlaceIsThere ==
    ASSUME NEW order, NEW n, \E i \in DOMAIN order : order[i] = n
    PROVE  Place(order, n) \in DOMAIN order
  BY DEF Place

LEMMA RankIsNat ==
    ASSUME NEW n \in Nodes
    PROVE  /\ Rank(n) \in Nat
           /\ n \in Dirs /\ base.disk[n] # "absent" => Rank(n) <= Len(DirOrder)
           /\ n \in Files => Rank(n) > Len(DirOrder)
  <1>1. /\ Len(DirOrder) \in Nat /\ DOMAIN DirOrder = 1 .. Len(DirOrder)
        /\ Len(FileOrder) \in Nat /\ DOMAIN FileOrder = 1 .. Len(FileOrder)
    BY RollbackAssumption
  <1>2. n \in Files => Place(FileOrder, n) \in 1 .. Len(FileOrder)
    BY <1>1, PlaceIsThere DEF Files
  <1>3. n \in Dirs => Place(DirOrder, n) \in 1 .. Len(DirOrder)
    BY <1>1, PlaceIsThere DEF Dirs
  <1>4. n \in Files => n \notin Dirs
    BY RollbackAssumption
  <1>5. n \in Files \/ n \in Dirs
    BY DEF Nodes
  <1>6. CASE n \in Files
    <2>1. Rank(n) = Len(DirOrder) + Place(FileOrder, n)
      BY <1>6 DEF Rank
    <2> HIDE DEF Rank
    <2> QED BY <1>1, <1>2, <1>4, <1>6, <2>1
  <1>7. CASE n \notin Files
    <2>1. Rank(n) = IF base.disk[n] # "absent" THEN Place(DirOrder, n)
                    ELSE Len(DirOrder) + Len(FileOrder) + Place(DirOrder, n)
      BY <1>7 DEF Rank
    <2> QED BY <1>1, <1>3, <1>5, <1>7, <2>1
  <1> QED BY <1>6, <1>7

\* The current path is the first of those that are left.
LEMMA HereIsFirst ==
    ASSUME todo \subseteq Nodes, todo # {}
    PROVE  Here \in todo /\ \A m \in todo : Rank(Here) <= Rank(m)
  <1> DEFINE R == OpToRel(<, Nat)
             T == {Rank(n) : n \in todo}
  <1>1. \A n \in todo : Rank(n) \in Nat
    BY RankIsNat
  <1>2. T \subseteq Nat /\ T # {}
    BY <1>1
  <1>3. IsWellFoundedOn(R, Nat)
    BY NatLessThanWellFounded
  <1>4. \A x, y \in Nat : x < y => <<x, y>> \in R
    BY DEF OpToRel
  <1> HIDE DEF R
  <1>5. PICK x \in T : \A y \in T : <<y, x>> \notin R
    BY <1>2, <1>3, WFMin
  <1>6. \A y \in T : x <= y
    <2> SUFFICES ASSUME NEW y \in T PROVE x <= y
      OBVIOUS
    <2>1. x \in Nat /\ y \in Nat
      BY <1>2
    <2>2. ~(y < x)
      BY <1>4, <1>5, <2>1
    <2> QED BY <2>1, <2>2
  <1>7. PICK n \in todo : x = Rank(n)
    OBVIOUS
  <1>8. \A m \in todo : Rank(n) <= Rank(m)
    BY <1>6, <1>7
  <1> QED BY <1>8 DEF Here

LEMMA HereKept == UNCHANGED <<todo, base>> => Here' = Here
  BY DEF Here, Rank

\* While a restore visits, there is a current path; when it is a file, the
\* directories of the baseline lie behind.
LEMMA HereFacts ==
    ASSUME IInv, at \in Visiting
    PROVE  /\ Here \in todo /\ Here \in Nodes
           /\ Here \in Files /\ base.disk[Here] = "old" /\ Parent[Here] # Root =>
                Parent[Here] \in Dirs /\ disk[Parent[Here]] = "directory"
  <1>1. todo \subseteq Nodes /\ todo # {} /\ actor # "none"
    BY DEF IInv, RunTyped, Visiting
  <1>2. Here \in todo /\ \A m \in todo : Rank(Here) <= Rank(m)
    BY <1>1, HereIsFirst
  <1>3. ASSUME Here \in Files, base.disk[Here] = "old", Parent[Here] # Root
        PROVE  Parent[Here] \in Dirs /\ disk[Parent[Here]] = "directory"
    <2>1. Parent[Here] \in Dirs
      BY <1>3, RollbackAssumption
    <2>2. base.disk[Parent[Here]] = "directory"
      BY <1>3 DEF IInv, BaselineOK, Plain
    <2>3. Parent[Here] \notin todo
      <3> SUFFICES ASSUME Parent[Here] \in todo PROVE FALSE
        OBVIOUS
      <3> DEFINE p == Parent[Here]
      <3>1. p \in Nodes /\ Here \in Nodes
        BY <1>1, <1>2
      <3>2. Rank(p) \in Nat /\ Rank(p) <= Len(DirOrder)
        BY <2>1, <2>2, <3>1, RankIsNat
      <3>3. Rank(Here) \in Nat /\ Rank(Here) > Len(DirOrder)
        BY <1>3, <3>1, RankIsNat
      <3>4. Rank(Here) <= Rank(p)
        BY <1>2
      <3>5. Len(DirOrder) \in Nat
        BY RollbackAssumption
      <3> HIDE DEF p
      <3> QED BY <3>2, <3>3, <3>4, <3>5
    <2> QED BY <1>1, <2>1, <2>2, <2>3 DEF IInv, VisitedOK
  <1> QED BY <1>1, <1>2, <1>3

LEMMA FreshIsNew ==
    ASSUME used \subseteq Versions, used # Versions
    PROVE  /\ Fresh \in Versions /\ Fresh \notin used /\ Fresh \in Contents
           /\ Fresh \notin {"absent", "directory", "old", "new"}
  <1>1. Fresh \in Versions \ used
    BY DEF Fresh
  <1> HIDE DEF Fresh
  <1> QED BY <1>1, RollbackAssumption DEF Contents

LEMMA KnownContents ==
  /\ {"absent", "directory", "old", "new"} \cap Versions = {}
  /\ {"absent", "directory", "old", "new"} \subseteq Contents
  BY RollbackAssumption DEF Contents

-----------------------------------------------------------------------------
(* The initial states. *)

LEMMA InitIInv == Init => IInv
  <1> SUFFICES ASSUME Init PROVE IInv
    OBVIOUS
  <1>1. PICK here \in SUBSET Files, run \in {{}, Names} :
          /\ disk = [n \in Nodes |->
               IF n \in Files THEN (IF n \in here THEN "old" ELSE "absent")
               ELSE IF \E f \in here : Parent[f] = n THEN "directory" ELSE "absent"]
          /\ account = (here # {})
          /\ obj = [o \in Names |-> IF o \in run THEN 1 ELSE 0]
          /\ image = (run # {})
    BY DEF Init
  <1>2. /\ extras = [d \in Dirs \cup {Root} |-> {}]
        /\ units = "base" /\ auth = FALSE
        /\ receipt = "none" /\ base = NoManifest /\ fwd = NewForward
        /\ quarantine = {} /\ lease = {} /\ step = "off"
        /\ actor = "none" /\ at = "idle" /\ todo = {} /\ moved = {}
        /\ drift = FALSE /\ listed = NoObjects /\ report = "none"
        /\ ids = 1 /\ used = {} /\ live = {} /\ seen = {} /\ acked = {} /\ touched = FALSE
    BY DEF Init
  <1>3. \A d \in Dirs : d \in Nodes /\ d \notin Files
    BY RollbackAssumption DEF Nodes
  <1>4. \A f \in Files : f \in Nodes
    BY DEF Nodes
  <1>5. MaxIds \in Nat \ {0}
    BY RollbackAssumption
  <1>6. Plain(disk)
    <2>1. \A d \in Dirs : disk[d] \in {"directory", "absent"}
      BY <1>1, <1>3
    <2>2. ASSUME NEW f \in Files
          PROVE  /\ disk[f] \in {"old", "absent"}
                 /\ disk[f] = "old" /\ Parent[f] # Root => disk[Parent[f]] = "directory"
      <3>1. disk[f] = IF f \in here THEN "old" ELSE "absent"
        BY <1>1, <1>4
      <3>2. Parent[f] # Root => Parent[f] \in Dirs
        BY RollbackAssumption
      <3> QED BY <1>1, <1>3, <3>1, <3>2
    <2> QED BY <2>1, <2>2 DEF Plain
  <1>7. HostTyped
    <2>1. disk \in [Nodes -> Contents]
      BY <1>1, KnownContents
    <2>2. obj \in [Names -> 0 .. MaxIds]
      BY <1>1, <1>5
    <2>3. image \in BOOLEAN /\ account \in BOOLEAN
      BY <1>1
    <2> QED BY <1>2, <2>1, <2>2, <2>3 DEF HostTyped
  <1>8. ReceiptTyped
    <2>1. base \in Receipts
      BY <1>2, <1>5, KnownContents DEF Receipts, NoManifest
    <2>2. fwd \in Forwards
      BY <1>2, <1>5 DEF Forwards, NewForward
    <2> QED BY <1>2, <2>1, <2>2 DEF ReceiptTyped
  <1>9. RunTyped
    <2>1. DOMAIN listed = {}
      BY <1>2 DEF NoObjects
    <2>2. ids \in 1 .. MaxIds
      BY <1>2, <1>5
    <2>3. (actor = "none") = (at = "idle")
      BY <1>2
    <2>4. at \in Places /\ at \notin Visiting /\ step \in Steps
      BY <1>2 DEF Places, Visiting, Steps
    <2> QED BY <1>2, <2>1, <2>2, <2>3, <2>4 DEF RunTyped
  <1>10. TreeOK
    <2> SUFFICES ASSUME NEW d \in Dirs, disk[d] # "directory"
                 PROVE  extras[d] = {} /\ \A f \in InDir(d) : disk[f] = "absent"
      BY DEF TreeOK
    <2>1. \A f \in InDir(d) : f \in Files /\ disk[f] # "old"
      BY <1>6, RollbackAssumption, <1>3 DEF Plain, InDir, Nodes
    <2> QED BY <1>2, <1>6, <2>1 DEF Plain
  <1>11. BaselineOK
    <2>1. \A n \in Nodes : base.disk[n] = "absent"
      BY <1>2 DEF NoManifest
    <2> QED BY <1>2, <1>3, <1>4, <1>6, <2>1 DEF BaselineOK, Plain
  <1>12. ForeignOK
    <2>1. \A n \in Nodes : disk[n] \notin Versions
      BY <1>1, KnownContents
    <2> QED BY <1>2, <2>1 DEF ForeignOK
  <1>13. LeaseOK /\ VisitedOK /\ NothingLost /\ MovedOK
    BY <1>2 DEF LeaseOK, VisitedOK, NothingLost, MovedOK
  <1>14. MarkOK /\ ReportOK /\ AuthOK /\ ListedOK
    BY <1>2 DEF MarkOK, ReportOK, AuthOK, ListedOK, RestoredIsBaseline, RegistryAuthGone
  <1> QED BY <1>7, <1>8, <1>9, <1>10, <1>11, <1>12, <1>13, <1>14 DEF IInv

-----------------------------------------------------------------------------
(* What an action leaves alone. *)

LEMMA FilesKept ==
    ASSUME IInv, UNCHANGED <<disk, extras, live, used, seen, quarantine>>
    PROVE  TreeOK' /\ ForeignOK' /\ NothingLost'
  BY DEF IInv, TreeOK, ForeignOK, NothingLost, InDir

LEMMA InstallerFacts ==
    ASSUME IInv, Child
    PROVE  /\ actor = "none" /\ at = "idle" /\ step # "off" /\ "child" \in lease
           /\ report # "restored" /\ receipt = "ready"
  <1>1. actor = "none" /\ "child" \in lease
    BY DEF Child
  <1>2. step # "off" /\ lease # {}
    BY <1>1 DEF IInv, LeaseOK
  <1> QED BY <1>1, <1>2 DEF IInv, RunTyped, BaselineOK, ReportOK

\* While an installer works nobody restores and no success stands.
LEMMA InstallerKeeps ==
    ASSUME IInv, Child, fwd'.outcome = fwd.outcome,
           UNCHANGED <<receipt, base, quarantine, restoreVars, seen, acked, touched>>
    PROVE  VisitedOK' /\ MovedOK' /\ ListedOK' /\ MarkOK' /\ ReportOK' /\ BaselineOK'
  <1>1. /\ actor' = "none" /\ at' = "idle" /\ report' # "restored" /\ receipt' = "ready"
        /\ base' = base /\ quarantine' = quarantine /\ seen' = seen /\ acked' = acked
    BY InstallerFacts DEF restoreVars
  <1>2. VisitedOK' /\ MovedOK' /\ ListedOK'
    BY <1>1 DEF VisitedOK, MovedOK, ListedOK
  <1>3. MarkOK'
    BY <1>1 DEF IInv, MarkOK
  <1>4. ReportOK'
    BY <1>1 DEF ReportOK, RestoredIsBaseline
  <1>5. BaselineOK'
    BY <1>1 DEF IInv, BaselineOK, Plain
  <1> QED BY <1>2, <1>3, <1>4, <1>5

LEMMA AfterChild ==
    ASSUME RunTyped
    PROVE  LeaseAfterChild \subseteq lease /\ "child" \notin LeaseAfterChild
  BY DEF LeaseAfterChild

-----------------------------------------------------------------------------
(* The steps of the installer that write no file. *)

LEMMA VerifyFreshStep == IInv /\ VerifyFresh => IInv'
  <1> SUFFICES ASSUME IInv, VerifyFresh PROVE IInv'
    OBVIOUS
  <1>1. /\ Child /\ step = "leased"
        /\ UNCHANGED <<hostVars, receiptVars, restoreVars, bounds, ghostVars>>
        /\ \/ FreshHost /\ step' = "fresh" /\ lease' = lease
           \/ step' = "off" /\ lease' = LeaseAfterChild
    BY DEF VerifyFresh
  <1>2. VisitedOK' /\ MovedOK' /\ ListedOK' /\ MarkOK' /\ ReportOK' /\ BaselineOK'
    BY <1>1, InstallerKeeps DEF receiptVars, ghostVars
  <1>3. TreeOK' /\ ForeignOK' /\ NothingLost'
    BY <1>1, FilesKept DEF hostVars, ghostVars, bounds, receiptVars
  <1>4. HostTyped' /\ ReceiptTyped'
    BY <1>1 DEF IInv, HostTyped, ReceiptTyped, hostVars, receiptVars
  <1>5. RunTyped' /\ LeaseOK'
    <2>1. actor = "none" /\ "child" \in lease /\ RunTyped
      BY <1>1, InstallerFacts DEF IInv
    <2>2. LeaseAfterChild \subseteq lease /\ "child" \notin LeaseAfterChild
      BY <2>1, AfterChild
    <2>3. step' \in Steps /\ lease' \subseteq lease
      BY <1>1, <2>2 DEF Steps
    <2>4. RunTyped'
      BY <1>1, <2>1, <2>3 DEF RunTyped, restoreVars, bounds
    <2>5. LeaseOK'
      BY <1>1, <2>1, <2>2 DEF LeaseOK, restoreVars
    <2> QED BY <2>4, <2>5
  <1>6. AuthOK'
    BY <1>1 DEF IInv, AuthOK, RegistryAuthGone, hostVars, FreshHost
  <1> QED BY <1>2, <1>3, <1>4, <1>5, <1>6 DEF IInv

LEMMA PreflightStep == IInv /\ Preflight => IInv'
  <1> SUFFICES ASSUME IInv, Preflight PROVE IInv'
    OBVIOUS
  <1>1. /\ Child /\ step = "fresh"
        /\ UNCHANGED <<disk, extras, obj, image, units, auth, receiptVars,
                       restoreVars, bounds, ghostVars>>
        /\ \/ step' = "mutating" /\ account' = TRUE /\ lease' = lease
           \/ step' = "off" /\ lease' = LeaseAfterChild /\ account' = account
    BY DEF Preflight
  <1>2. VisitedOK' /\ MovedOK' /\ ListedOK' /\ MarkOK' /\ ReportOK' /\ BaselineOK'
    BY <1>1, InstallerKeeps DEF receiptVars, ghostVars
  <1>3. TreeOK' /\ ForeignOK' /\ NothingLost'
    BY <1>1, FilesKept DEF ghostVars, bounds, receiptVars
  <1>4. HostTyped' /\ ReceiptTyped'
    BY <1>1 DEF IInv, HostTyped, ReceiptTyped, receiptVars
  <1>5. RunTyped' /\ LeaseOK'
    <2>1. actor = "none" /\ "child" \in lease /\ RunTyped
      BY <1>1, InstallerFacts DEF IInv
    <2>2. LeaseAfterChild \subseteq lease /\ "child" \notin LeaseAfterChild
      BY <2>1, AfterChild
    <2>3. step' \in Steps /\ lease' \subseteq lease
      BY <1>1, <2>2 DEF Steps
    <2>4. RunTyped'
      BY <1>1, <2>1, <2>3 DEF RunTyped, restoreVars, bounds
    <2>5. LeaseOK'
      BY <1>1, <2>1, <2>2 DEF LeaseOK, restoreVars
    <2> QED BY <2>4, <2>5
  <1>6. AuthOK'
    BY <1>1 DEF IInv, AuthOK, RegistryAuthGone
  <1> QED BY <1>2, <1>3, <1>4, <1>5, <1>6 DEF IInv

\* A forward state that only grows leaves the rest as it is.
LEMMA ForwardGrows ==
    ASSUME IInv, Mutating, fwd' \in Forwards, fwd'.outcome = fwd.outcome,
           InstallerLeaves, UNCHANGED <<step, hostVars, ids, live>>
    PROVE  IInv'
  <1>1. /\ Child
        /\ UNCHANGED <<receipt, base, quarantine, restoreVars, seen, acked, touched,
                       lease, used>>
    BY DEF Mutating, InstallerLeaves
  <1>2. VisitedOK' /\ MovedOK' /\ ListedOK' /\ MarkOK' /\ ReportOK' /\ BaselineOK'
    BY <1>1, InstallerKeeps
  <1>3. TreeOK' /\ ForeignOK' /\ NothingLost'
    BY <1>1, FilesKept DEF hostVars
  <1>4. HostTyped' /\ ReceiptTyped'
    BY <1>1 DEF IInv, HostTyped, ReceiptTyped, hostVars
  <1>5. RunTyped' /\ LeaseOK'
    BY <1>1 DEF IInv, RunTyped, LeaseOK, restoreVars
  <1>6. AuthOK'
    BY <1>1 DEF IInv, AuthOK, RegistryAuthGone, hostVars
  <1> QED BY <1>2, <1>3, <1>4, <1>5, <1>6 DEF IInv

LEMMA AuthorizeFileStep == ASSUME IInv, NEW f \in Files, AuthorizeFile(f) PROVE IInv'
  <1>1. fwd \in Forwards /\ fwd' = [fwd EXCEPT !.files = @ \cup {f}]
    BY DEF IInv, ReceiptTyped, AuthorizeFile
  <1>2. fwd' \in Forwards /\ fwd'.outcome = fwd.outcome
    BY <1>1 DEF Forwards
  <1> QED BY <1>2, ForwardGrows DEF AuthorizeFile

LEMMA AuthorizeImagesStep == IInv /\ AuthorizeImages => IInv'
  <1> SUFFICES ASSUME IInv, AuthorizeImages PROVE IInv'
    OBVIOUS
  <1>1. fwd \in Forwards /\ fwd' = [fwd EXCEPT !.image = ImageState]
    BY DEF IInv, ReceiptTyped, AuthorizeImages
  <1>2. ImageState \in {"absent", "present"}
    BY DEF ImageState
  <1>3. fwd' \in Forwards /\ fwd'.outcome = fwd.outcome
    BY <1>1, <1>2 DEF Forwards
  <1> QED BY <1>3, ForwardGrows DEF AuthorizeImages

LEMMA AuthorizeObjectStep == ASSUME IInv, NEW o \in Objects, AuthorizeObject(o) PROVE IInv'
  <1>1. fwd \in Forwards /\ fwd' = [fwd EXCEPT !.objects[o] = "intent"]
    BY DEF IInv, ReceiptTyped, AuthorizeObject
  <1>2. fwd' \in Forwards /\ fwd'.outcome = fwd.outcome
    BY <1>1 DEF Forwards
  <1> QED BY <1>2, ForwardGrows DEF AuthorizeObject

LEMMA FinalizeObjectStep == ASSUME IInv, NEW o \in Objects, FinalizeObject(o) PROVE IInv'
  <1>1. fwd \in Forwards
    BY DEF IInv, ReceiptTyped
  <1>2. PICK n : n = obj[o]
    OBVIOUS
  <1>3. n \in 0 .. MaxIds
    BY <1>2 DEF IInv, HostTyped, Names
  <1>4. fwd' = [fwd EXCEPT !.objects[o] = "finalized", !.ids[o] = n]
    BY <1>2 DEF FinalizeObject
  <1>5. fwd' \in Forwards /\ fwd'.outcome = fwd.outcome
    <2>1. PICK os \in [Objects -> {"none", "intent", "finalized"}] :
            os = [fwd.objects EXCEPT ![o] = "finalized"]
      BY <1>1 DEF Forwards
    <2>2. PICK is \in [Objects -> 0 .. MaxIds] : is = [fwd.ids EXCEPT ![o] = n]
      BY <1>1, <1>3 DEF Forwards
    <2>3. fwd' = [fwd EXCEPT !.objects = os, !.ids = is]
      BY <1>1, <1>4, <2>1, <2>2 DEF Forwards
    <2> QED BY <1>1, <2>3 DEF Forwards
  <1> QED BY <1>5, ForwardGrows DEF FinalizeObject

\* A step of the installer that changes the host and none of its files.
LEMMA InstallerMoves ==
    ASSUME IInv, Mutating, InstallerLeaves, UNCHANGED <<disk, extras, live, fwd>>,
           step' \in Steps \ {"off"}, ids' \in 1 .. MaxIds, HostTyped', AuthOK'
    PROVE  IInv'
  <1>1. /\ Child
        /\ UNCHANGED <<receipt, base, quarantine, restoreVars, seen, acked, touched,
                       lease, used>>
    BY DEF Mutating, InstallerLeaves
  <1>2. VisitedOK' /\ MovedOK' /\ ListedOK' /\ MarkOK' /\ ReportOK' /\ BaselineOK'
    BY <1>1, InstallerKeeps
  <1>3. TreeOK' /\ ForeignOK' /\ NothingLost'
    BY <1>1, FilesKept
  <1>4. ReceiptTyped'
    BY <1>1 DEF IInv, ReceiptTyped
  <1>5. actor = "none" /\ "child" \in lease
    BY <1>1, InstallerFacts
  <1>6. RunTyped'
    BY <1>1 DEF IInv, RunTyped, restoreVars
  <1>7. LeaseOK'
    BY <1>1, <1>5 DEF LeaseOK, restoreVars
  <1> QED BY <1>2, <1>3, <1>4, <1>6, <1>7 DEF IInv

LEMMA StageAuthStep == IInv /\ StageAuth => IInv'
  <1> SUFFICES ASSUME IInv, StageAuth PROVE IInv'
    OBVIOUS
  <1>1. /\ Mutating /\ step = "mutating" /\ auth' = TRUE /\ step' = "staged"
        /\ InstallerLeaves
        /\ UNCHANGED <<disk, extras, obj, image, units, account, fwd, ids, live>>
    BY DEF StageAuth
  <1>2. HostTyped'
    BY <1>1 DEF IInv, HostTyped
  <1>3. AuthOK'
    BY <1>1 DEF IInv, AuthOK, RegistryAuthGone
  <1>4. ids' \in 1 .. MaxIds /\ step' \in Steps \ {"off"}
    BY <1>1 DEF IInv, RunTyped, Steps
  <1> QED BY <1>1, <1>2, <1>3, <1>4, InstallerMoves

LEMMA PullStep == IInv /\ Pull => IInv'
  <1> SUFFICES ASSUME IInv, Pull PROVE IInv'
    OBVIOUS
  <1>1. /\ Mutating /\ step = "staged" /\ image' = TRUE /\ step' = "pulled"
        /\ InstallerLeaves
        /\ UNCHANGED <<disk, extras, obj, units, account, auth, fwd, ids, live>>
    BY DEF Pull
  <1>2. HostTyped'
    BY <1>1 DEF IInv, HostTyped
  <1>3. AuthOK'
    BY <1>1 DEF IInv, AuthOK, RegistryAuthGone
  <1>4. ids' \in 1 .. MaxIds /\ step' \in Steps \ {"off"}
    BY <1>1 DEF IInv, RunTyped, Steps
  <1> QED BY <1>1, <1>2, <1>3, <1>4, InstallerMoves

LEMMA RemoveAuthStep == IInv /\ RemoveAuth => IInv'
  <1> SUFFICES ASSUME IInv, RemoveAuth PROVE IInv'
    OBVIOUS
  <1>1. /\ Mutating /\ step = "pulled" /\ auth' = FALSE /\ step' = "started"
        /\ InstallerLeaves
        /\ UNCHANGED <<disk, extras, obj, image, units, account, fwd, ids, live>>
    BY DEF RemoveAuth
  <1>2. HostTyped'
    BY <1>1 DEF IInv, HostTyped
  <1>3. AuthOK'
    BY <1>1 DEF AuthOK, RegistryAuthGone
  <1>4. ids' \in 1 .. MaxIds /\ step' \in Steps \ {"off"}
    BY <1>1 DEF IInv, RunTyped, Steps
  <1> QED BY <1>1, <1>2, <1>3, <1>4, InstallerMoves

LEMMA CreateObjectStep == ASSUME IInv, NEW o \in Names, CreateObject(o) PROVE IInv'
  <1>1. /\ Mutating /\ step = "started" /\ ids < MaxIds /\ units' = "new"
        /\ InstallerLeaves
        /\ UNCHANGED <<step, disk, extras, image, account, auth, fwd, live>>
    BY DEF CreateObject
  <1>2. PICK n : n = ids + 1
    OBVIOUS
  <1>3. n \in 1 .. MaxIds /\ n \in 0 .. MaxIds
    BY <1>1, <1>2, RollbackAssumption DEF IInv, RunTyped
  <1>4. ids' = n /\ obj' = [obj EXCEPT ![o] = n]
    BY <1>2 DEF CreateObject
  <1>5. obj' \in [Names -> 0 .. MaxIds]
    BY <1>3, <1>4 DEF IInv, HostTyped
  <1>6. HostTyped'
    BY <1>1, <1>5 DEF IInv, HostTyped
  <1>7. AuthOK'
    BY <1>1 DEF IInv, AuthOK, RegistryAuthGone
  <1>8. step' \in Steps \ {"off"}
    BY <1>1 DEF Steps
  <1> QED BY <1>1, <1>3, <1>4, <1>6, <1>7, <1>8, InstallerMoves

LEMMA InstallFailsStep == IInv /\ InstallFails => IInv'
  <1> SUFFICES ASSUME IInv, InstallFails PROVE IInv'
    OBVIOUS
  <1>1. /\ Mutating /\ step' = "failed" /\ auth' = FALSE
        /\ UNCHANGED <<disk, extras, obj, image, units, account, receiptVars, lease,
                       restoreVars, bounds, ghostVars>>
    BY DEF InstallFails
  <1>2. HostTyped'
    BY <1>1 DEF IInv, HostTyped
  <1>3. AuthOK'
    BY <1>1 DEF AuthOK, RegistryAuthGone
  <1>4. ids' \in 1 .. MaxIds /\ step' \in Steps \ {"off"}
    BY <1>1 DEF IInv, RunTyped, Steps, bounds
  <1>5. InstallerLeaves /\ UNCHANGED <<live, fwd>>
    BY <1>1 DEF InstallerLeaves, receiptVars, bounds, ghostVars
  <1> QED BY <1>1, <1>2, <1>3, <1>4, <1>5, InstallerMoves

-----------------------------------------------------------------------------
(* The lease. *)

\* Who holds the lock changes, and nothing else the invariant speaks of but
\* the forward state.
LEMMA LeaseChanges ==
    ASSUME IInv, receipt = "ready",
           UNCHANGED <<hostVars, receipt, base, quarantine, actor, at, todo, moved, drift,
                       listed, ids, used, ghostVars>>,
           fwd' \in Forwards, fwd'.outcome = fwd.outcome, fwd'.ids = fwd.ids,
           report' \in {report, "none"}, report' = "restored" => step' = "off",
           step' \in Steps, lease' \subseteq {"parent", "child", "residual"}, LeaseOK',
           step' \in {"fresh", "mutating", "staged", "pulled", "started"} => step = step'
    PROVE  IInv'
  <1> USE DEF hostVars, ghostVars
  <1>1. TreeOK' /\ ForeignOK' /\ NothingLost'
    BY FilesKept
  <1>2. HostTyped' /\ ReceiptTyped'
    BY DEF IInv, HostTyped, ReceiptTyped
  <1>3. RunTyped'
    BY DEF IInv, RunTyped
  <1>4. BaselineOK' /\ VisitedOK'
    BY DEF IInv, BaselineOK, Plain, VisitedOK
  <1>5. Here' = Here
    BY HereKept
  <1>6. MovedOK' /\ MarkOK'
    BY <1>5 DEF IInv, MovedOK, MarkOK
  <1>7. ReportOK'
    BY DEF IInv, ReportOK, RestoredIsBaseline
  <1>8. AuthOK'
    BY DEF IInv, AuthOK, RegistryAuthGone
  <1>9. ListedOK'
    BY DEF IInv, ListedOK
  <1> QED BY <1>1, <1>2, <1>3, <1>4, <1>6, <1>7, <1>8, <1>9 DEF IInv

LEMMA LeaseExecStep == IInv /\ LeaseExec => IInv'
  <1> SUFFICES ASSUME IInv, LeaseExec PROVE IInv'
    OBVIOUS
  <1>1. /\ receipt = "ready" /\ lease = {} /\ actor # "operator"
        /\ lease' = {"parent", "child"} /\ step' = "leased" /\ report' = "none"
        /\ UNCHANGED <<hostVars, receiptVars, actor, at, todo, moved, drift, listed, ids,
                       used, ghostVars>>
    BY DEF LeaseExec, Verified, LockFree
  <1>2. actor # "trap" /\ actor' = actor
    BY <1>1 DEF IInv, LeaseOK
  <1>3. LeaseOK'
    BY <1>1, <1>2 DEF LeaseOK
  <1>4. /\ fwd' \in Forwards /\ fwd' = fwd
        /\ UNCHANGED <<hostVars, receipt, base, quarantine, actor, at, todo, moved, drift,
                       listed, ids, used, ghostVars>>
    BY <1>1 DEF IInv, ReceiptTyped, receiptVars
  <1>5. step' \in Steps
    BY <1>1 DEF Steps
  <1> QED BY <1>1, <1>3, <1>4, <1>5, LeaseChanges

LEMMA MarkCompletedStep == IInv /\ MarkCompleted => IInv'
  <1> SUFFICES ASSUME IInv, MarkCompleted PROVE IInv'
    OBVIOUS
  <1>1. /\ Child /\ step' = "off" /\ lease' = LeaseAfterChild
        /\ fwd' = [fwd EXCEPT !.state = "completed"]
        /\ UNCHANGED <<hostVars, receipt, base, quarantine, restoreVars, bounds, ghostVars>>
    BY DEF MarkCompleted, Mutating
  <1>2. receipt = "ready" /\ actor = "none" /\ RunTyped /\ fwd \in Forwards
    BY <1>1, InstallerFacts DEF IInv, ReceiptTyped
  <1>3. LeaseAfterChild \subseteq lease /\ "child" \notin LeaseAfterChild
    BY <1>2, AfterChild
  <1>4. LeaseOK'
    BY <1>1, <1>2, <1>3 DEF LeaseOK, restoreVars
  <1>5. fwd' \in Forwards /\ fwd'.outcome = fwd.outcome /\ fwd'.ids = fwd.ids
    BY <1>1, <1>2 DEF Forwards
  <1>6. /\ lease' \subseteq {"parent", "child", "residual"} /\ step' \in Steps
        /\ report' = report
        /\ UNCHANGED <<hostVars, receipt, base, quarantine, actor, at, todo, moved, drift,
                       listed, ids, used, ghostVars>>
    BY <1>1, <1>2, <1>3 DEF RunTyped, Steps, restoreVars, bounds
  <1> QED BY <1>1, <1>2, <1>4, <1>5, <1>6, LeaseChanges

\* A holder other than the installer comes or goes.
LEMMA OthersHold ==
    ASSUME IInv, lease # {}, lease' \subseteq {"parent", "child", "residual"},
           ("child" \in lease') = ("child" \in lease),
           UNCHANGED <<hostVars, receiptVars, step, restoreVars, ids, used, ghostVars>>
    PROVE  IInv'
  <1>1. receipt = "ready" /\ actor # "operator"
    BY DEF IInv, BaselineOK, LeaseOK
  <1>2. LeaseOK'
    BY <1>1 DEF IInv, LeaseOK, restoreVars
  <1>3. /\ fwd' \in Forwards /\ fwd' = fwd /\ step' \in Steps /\ step' = step
        /\ report' = report /\ (report' = "restored" => step' = "off")
    BY DEF IInv, ReceiptTyped, receiptVars, RunTyped, restoreVars, ReportOK
  <1>4. UNCHANGED <<hostVars, receipt, base, quarantine, actor, at, todo, moved, drift,
                    listed, ids, used, ghostVars>>
    BY DEF receiptVars, restoreVars
  <1> QED BY <1>1, <1>2, <1>3, <1>4, LeaseChanges

LEMMA LeaveResidualStep == IInv /\ LeaveResidual => IInv'
  <1> SUFFICES ASSUME IInv, LeaveResidual PROVE IInv'
    OBVIOUS
  <1>1. lease \subseteq {"parent", "child", "residual"} /\ lease # {}
    BY DEF IInv, RunTyped, LeaveResidual, Mutating, Child
  <1>2. /\ lease' = lease \cup {"residual"}
        /\ UNCHANGED <<hostVars, receiptVars, step, restoreVars, ids, used, ghostVars>>
    BY DEF LeaveResidual
  <1> QED BY <1>1, <1>2, OthersHold

LEMMA ResidualEndsStep == IInv /\ ResidualEnds => IInv'
  <1> SUFFICES ASSUME IInv, ResidualEnds PROVE IInv'
    OBVIOUS
  <1>1. lease \subseteq {"parent", "child", "residual"} /\ lease # {}
    BY DEF IInv, RunTyped, ResidualEnds
  <1>2. /\ lease' = lease \ {"residual"}
        /\ UNCHANGED <<hostVars, receiptVars, step, restoreVars, ids, used, ghostVars>>
    BY DEF ResidualEnds, bounds
  <1> QED BY <1>1, <1>2, OthersHold

LEMMA KillParentStep == IInv /\ KillParent => IInv'
  <1> SUFFICES ASSUME IInv, KillParent PROVE IInv'
    OBVIOUS
  <1>1. lease \subseteq {"parent", "child", "residual"} /\ lease # {}
    BY DEF IInv, RunTyped, KillParent
  <1>2. /\ lease' = lease \ {"parent"}
        /\ UNCHANGED <<hostVars, receiptVars, step, restoreVars, ids, used, ghostVars>>
    BY DEF KillParent
  <1> QED BY <1>1, <1>2, OthersHold

LEMMA CaptureStep == IInv /\ Capture => IInv'
  <1> SUFFICES ASSUME IInv, Capture PROVE IInv'
    OBVIOUS
  <1>1. /\ receipt = "none" /\ receipt' \in {"ready", "partial"}
        /\ base' = Manifest \/ base' = base
        /\ UNCHANGED <<hostVars, fwd, quarantine, lease, step, restoreVars, ids,
                       installs, used, ghostVars>>
    BY DEF Capture
  <1>2. actor = "none" /\ report = "none" /\ lease = {} /\ Plain(disk) /\ at = "idle"
    BY <1>1 DEF IInv, BaselineOK, RunTyped
  <1>3. base' \in Receipts /\ Plain(base'.disk)
    BY <1>1, <1>2 DEF IInv, HostTyped, ReceiptTyped, BaselineOK, Manifest, Receipts
  <1>4. TreeOK' /\ ForeignOK' /\ NothingLost'
    BY <1>1, FilesKept DEF hostVars, ghostVars
  <1>5. HostTyped' /\ ReceiptTyped'
    BY <1>1, <1>3 DEF IInv, HostTyped, ReceiptTyped, hostVars
  <1>6. RunTyped' /\ LeaseOK'
    BY <1>1 DEF IInv, RunTyped, LeaseOK, restoreVars
  <1>7. BaselineOK'
    BY <1>1, <1>2, <1>3 DEF BaselineOK, Plain, hostVars, restoreVars
  <1>8. VisitedOK' /\ MovedOK' /\ ListedOK'
    BY <1>1, <1>2 DEF VisitedOK, MovedOK, ListedOK, restoreVars
  <1>9. MarkOK' /\ ReportOK' /\ AuthOK'
    BY <1>1, <1>2 DEF IInv, MarkOK, ReportOK, AuthOK, RestoredIsBaseline,
                      RegistryAuthGone, restoreVars, hostVars, ghostVars
  <1> QED BY <1>4, <1>5, <1>6, <1>7, <1>8, <1>9 DEF IInv

LEMMA RecaptureStep == IInv /\ Recapture => IInv'
  <1> SUFFICES ASSUME IInv, Recapture PROVE IInv'
    OBVIOUS
  <1>1. /\ receipt = "partial" /\ receipt' = "none"
        /\ UNCHANGED <<hostVars, base, fwd, quarantine, lease, step, restoreVars,
                       bounds, ghostVars>>
    BY DEF Recapture
  <1>2. actor = "none" /\ report = "none" /\ lease = {} /\ Plain(disk) /\ at = "idle"
    BY <1>1 DEF IInv, BaselineOK, RunTyped
  <1>3. TreeOK' /\ ForeignOK' /\ NothingLost'
    BY <1>1, FilesKept DEF hostVars, ghostVars, bounds
  <1>4. HostTyped' /\ ReceiptTyped'
    BY <1>1 DEF IInv, HostTyped, ReceiptTyped, hostVars
  <1>5. RunTyped' /\ LeaseOK'
    BY <1>1 DEF IInv, RunTyped, LeaseOK, restoreVars, bounds
  <1>6. BaselineOK'
    BY <1>1, <1>2 DEF IInv, BaselineOK, Plain, hostVars, restoreVars
  <1>7. VisitedOK' /\ MovedOK' /\ ListedOK'
    BY <1>1, <1>2 DEF VisitedOK, MovedOK, ListedOK, restoreVars
  <1>8. MarkOK' /\ ReportOK' /\ AuthOK'
    BY <1>1, <1>2 DEF IInv, MarkOK, ReportOK, AuthOK, RestoredIsBaseline,
                      RegistryAuthGone, restoreVars, hostVars, ghostVars
  <1> QED BY <1>3, <1>4, <1>5, <1>6, <1>7, <1>8 DEF IInv

-----------------------------------------------------------------------------
(* The steps of the installer that write files. *)

LEMMA InstallerWrites ==
    ASSUME IInv, Mutating, step = "started", InstallerLeaves,
           UNCHANGED <<step, extras, obj, image, units, account, auth, fwd, ids>>,
           disk' \in [Nodes -> Contents], TreeOK', ForeignOK', NothingLost'
    PROVE  IInv'
  <1>1. /\ Child
        /\ UNCHANGED <<receipt, base, quarantine, restoreVars, seen, acked, touched,
                       lease, used>>
    BY DEF Mutating, InstallerLeaves
  <1>2. VisitedOK' /\ MovedOK' /\ ListedOK' /\ MarkOK' /\ ReportOK' /\ BaselineOK'
    BY <1>1, InstallerKeeps
  <1>3. HostTyped' /\ ReceiptTyped'
    BY <1>1 DEF IInv, HostTyped, ReceiptTyped
  <1>4. RunTyped' /\ LeaseOK'
    BY <1>1 DEF IInv, RunTyped, LeaseOK, restoreVars
  <1>5. AuthOK'
    BY DEF IInv, AuthOK, RegistryAuthGone
  <1> QED BY <1>2, <1>3, <1>4, <1>5 DEF IInv

LEMMA InstallDirStep == ASSUME IInv, NEW d \in Dirs, InstallDir(d) PROVE IInv'
  <1>1. /\ Mutating /\ step = "started" /\ disk[d] = "absent" /\ InstallerLeaves
        /\ disk' = [disk EXCEPT ![d] = "directory"]
        /\ UNCHANGED <<step, extras, obj, image, units, account, auth, fwd, ids, live>>
    BY DEF InstallDir
  <1>2. d \in Nodes /\ d \notin Files /\ disk \in [Nodes -> Contents]
    BY RollbackAssumption DEF Nodes, IInv, HostTyped
  <1>3. UNCHANGED <<used, seen, quarantine>>
    BY <1>1 DEF InstallerLeaves
  <1>4. disk' \in [Nodes -> Contents]
    BY <1>1, <1>2, KnownContents
  <1>5. \A n \in Nodes : disk'[n] = IF n = d THEN "directory" ELSE disk[n]
    BY <1>1, <1>2
  <1>6. TreeOK'
    BY <1>1, <1>2, <1>5 DEF IInv, TreeOK, InDir, Nodes
  <1>7. ForeignOK'
    BY <1>1, <1>3, <1>5, KnownContents DEF IInv, ForeignOK
  <1>8. NothingLost'
    <2>1. live \subseteq Versions
      BY DEF IInv, ForeignOK, RunTyped
    <2>2. \A v \in live : v # "absent"
      BY <2>1, KnownContents
    <2> QED BY <1>1, <1>3, <1>5, <2>2 DEF IInv, NothingLost
  <1> QED BY <1>1, <1>4, <1>6, <1>7, <1>8, InstallerWrites

LEMMA InstallFileStep == ASSUME IInv, NEW f \in Files, InstallFile(f) PROVE IInv'
  <1>1. /\ Mutating /\ step = "started" /\ Exists(Parent[f]) /\ InstallerLeaves
        /\ disk' = [disk EXCEPT ![f] = "new"] /\ live' = live \ {disk[f]}
        /\ UNCHANGED <<step, extras, obj, image, units, account, auth, fwd, ids>>
    BY DEF InstallFile
  <1>2. f \in Nodes /\ f \notin Dirs /\ disk \in [Nodes -> Contents]
    BY RollbackAssumption DEF Nodes, IInv, HostTyped
  <1>3. UNCHANGED <<used, seen, quarantine>>
    BY <1>1 DEF InstallerLeaves
  <1>4. disk' \in [Nodes -> Contents]
    BY <1>1, <1>2, KnownContents
  <1>5. \A n \in Nodes : disk'[n] = IF n = f THEN "new" ELSE disk[n]
    BY <1>1, <1>2
  <1>6. TreeOK'
    <2> SUFFICES ASSUME NEW d \in Dirs, disk'[d] # "directory"
                 PROVE  extras'[d] = {} /\ \A g \in InDir(d) : disk'[g] = "absent"
      BY DEF TreeOK, InDir
    <2>1. d \in Nodes /\ disk'[d] = disk[d] /\ d # Root
      BY <1>2, <1>5, RollbackAssumption DEF Nodes
    <2>2. f \notin InDir(d)
      BY <1>1, <2>1 DEF InDir, Exists
    <2>3. \A g \in InDir(d) : g \in Nodes /\ g # f
      BY <2>2 DEF InDir, Nodes
    <2> QED BY <1>1, <1>5, <2>1, <2>3 DEF IInv, TreeOK
  <1>7. ForeignOK'
    BY <1>1, <1>3, <1>5, KnownContents DEF IInv, ForeignOK
  <1>8. NothingLost'
    BY <1>1, <1>3, <1>5 DEF IInv, NothingLost
  <1> QED BY <1>1, <1>4, <1>6, <1>7, <1>8, InstallerWrites

-----------------------------------------------------------------------------
(* The end of a restore, whichever way it comes. *)

LEMMA EndKeeps ==
    ASSUME IInv, receipt = "ready", Idle, step' \in {step, "off"}, LeaseOK',
           lease' \subseteq lease, units' \in {units, "base"},
           UNCHANGED <<auth, receipt, base, ids, used>>
    PROVE  /\ RunTyped' /\ VisitedOK' /\ MovedOK' /\ ListedOK' /\ BaselineOK' /\ AuthOK'
  <1>1. /\ actor' = "none" /\ at' = "idle" /\ todo' = {} /\ moved' = {}
        /\ drift' = FALSE /\ DOMAIN listed' = {}
    BY DEF Idle, NoObjects
  <1>2. at' \in Places /\ at' \notin Visiting /\ step' \in Steps
    BY <1>1 DEF Places, Visiting, IInv, RunTyped, Steps
  <1>3. (actor' = "none") = (at' = "idle")
    BY <1>1
  <1>4. RunTyped'
    BY <1>1, <1>2, <1>3 DEF IInv, RunTyped
  <1>5. VisitedOK' /\ MovedOK' /\ ListedOK'
    BY <1>1 DEF VisitedOK, MovedOK, ListedOK
  <1>6. BaselineOK' /\ AuthOK'
    BY DEF IInv, BaselineOK, Plain, AuthOK, RegistryAuthGone
  <1> QED BY <1>4, <1>5, <1>6

LEMMA EndReleases ==
    ASSUME IInv, actor # "none", NEW said, Ends(said), units' \in {units, "base"},
           UNCHANGED <<auth, receipt, base, ids, used>>
    PROVE  /\ RunTyped' /\ LeaseOK' /\ VisitedOK' /\ MovedOK' /\ ListedOK'
           /\ BaselineOK' /\ AuthOK' /\ actor' = "none" /\ at' = "idle" /\ report' = said
           /\ step' = "off"
  <1>1. RunTyped /\ receipt = "ready"
    BY DEF IInv, BaselineOK
  <1>2. LeaseAfterChild \subseteq lease /\ "child" \notin LeaseAfterChild
    BY <1>1, AfterChild
  <1>3. /\ report' = said /\ Idle /\ actor' = "none" /\ at' = "idle"
        /\ lease' = IF actor = "operator" THEN lease ELSE LeaseAfterChild
        /\ step' = IF actor = "operator" THEN step ELSE "off"
    BY DEF Ends, Idle
  <1>4. lease' \subseteq lease /\ step' \in {step, "off"}
    BY <1>2, <1>3
  <1>5. LeaseOK' /\ step' = "off"
    BY <1>2, <1>3 DEF IInv, LeaseOK
  <1> QED BY <1>1, <1>3, <1>4, <1>5, EndKeeps

\* A restore that fails before it has changed anything more than the units.
LEMMA EndFails ==
    ASSUME IInv, actor # "none", NEW said, said # "restored", Ends(said),
           units' \in {units, "base"},
           UNCHANGED <<disk, extras, obj, image, account, auth, receiptVars, ids, used, ghostVars>>
    PROVE  IInv'
  <1>1. UNCHANGED <<auth, receipt, base, ids, used>>
    BY DEF receiptVars
  <1>2. /\ RunTyped' /\ LeaseOK' /\ VisitedOK' /\ MovedOK' /\ ListedOK'
        /\ BaselineOK' /\ AuthOK' /\ actor' = "none" /\ at' = "idle" /\ report' = said
    BY <1>1, EndReleases
  <1>3. TreeOK' /\ ForeignOK' /\ NothingLost'
    BY FilesKept DEF ghostVars, receiptVars
  <1>4. HostTyped' /\ ReceiptTyped'
    BY DEF IInv, HostTyped, ReceiptTyped, receiptVars
  <1>5. MarkOK' /\ ReportOK'
    BY <1>2 DEF IInv, MarkOK, ReportOK, RestoredIsBaseline, receiptVars, ghostVars
  <1> QED BY <1>2, <1>3, <1>4, <1>5 DEF IInv

LEMMA KillChildStep == IInv /\ KillChild => IInv'
  <1> SUFFICES ASSUME IInv, KillChild PROVE IInv'
    OBVIOUS
  <1>1. /\ "child" \in lease /\ lease' = LeaseAfterChild /\ step' = "off" /\ Idle
        /\ UNCHANGED <<disk, obj, image, units, account, auth, receiptVars, report, ids,
                       installs, used, ghostVars>>
    BY DEF KillChild
  <1>2. RunTyped /\ step # "off" /\ actor # "operator" /\ receipt = "ready"
    BY <1>1 DEF IInv, LeaseOK, BaselineOK
  <1>3. LeaseAfterChild \subseteq lease /\ "child" \notin LeaseAfterChild
    BY <1>2, AfterChild
  <1>4. LeaseOK' /\ actor' = "none" /\ at' = "idle"
    BY <1>1, <1>3 DEF LeaseOK, Idle
  <1>5. UNCHANGED <<units, auth, receipt, base, ids, used>>
    BY <1>1 DEF receiptVars
  <1>6. RunTyped' /\ VisitedOK' /\ MovedOK' /\ ListedOK' /\ BaselineOK' /\ AuthOK'
    BY <1>1, <1>2, <1>3, <1>4, <1>5, EndKeeps
  <1>7. MarkOK' /\ ReportOK'
    BY <1>1, <1>2, <1>4 DEF IInv, MarkOK, ReportOK, RestoredIsBaseline, receiptVars, ghostVars
  <1>8. /\ extras' \in [Dirs \cup {Root} -> SUBSET Contents]
        /\ \A d \in Dirs \cup {Root} :
             /\ extras[d] \subseteq extras'[d] /\ extras'[d] \subseteq extras[d] \cup {"new"}
             /\ extras'[d] # extras[d] => d \in Dirs /\ disk[d] = "directory"
    <2>1. extras \in [Dirs \cup {Root} -> SUBSET Contents]
      BY DEF IInv, HostTyped
    <2>2. CASE extras' = extras
      BY <2>1, <2>2
    <2>3. CASE \E d \in Dirs : Exists(d) /\ extras' = [extras EXCEPT ![d] = @ \cup {"new"}]
      <3>1. PICK d \in Dirs : Exists(d) /\ extras' = [extras EXCEPT ![d] = @ \cup {"new"}]
        BY <2>3
      <3>2. disk[d] = "directory"
        BY <3>1, RollbackAssumption DEF Exists, Nodes
      <3> QED BY <2>1, <3>1, <3>2, KnownContents
    <2> QED BY <2>2, <2>3 DEF KillChild
  <1>9. HostTyped' /\ ReceiptTyped'
    BY <1>1, <1>8 DEF IInv, HostTyped, ReceiptTyped, receiptVars
  <1>10. TreeOK'
    BY <1>1, <1>8 DEF IInv, TreeOK, InDir
  <1>11. ForeignOK'
    BY <1>1, <1>8, KnownContents DEF IInv, ForeignOK, ghostVars
  <1>12. NothingLost'
    <2>1. DOMAIN extras' = Dirs \cup {Root} /\ DOMAIN extras = Dirs \cup {Root}
      BY <1>8 DEF IInv, HostTyped
    <2>2. UNION {extras[d] : d \in DOMAIN extras} \subseteq UNION {extras'[d] : d \in DOMAIN extras'}
      BY <1>8, <2>1
    <2> QED BY <1>1, <2>2 DEF IInv, NothingLost, receiptVars, ghostVars
  <1> QED BY <1>4, <1>6, <1>7, <1>9, <1>10, <1>11, <1>12 DEF IInv

-----------------------------------------------------------------------------
(* The steps of a restore that touch no path. *)

LEMMA RestoreFacts ==
    ASSUME IInv, actor # "none"
    PROVE  receipt = "ready" /\ report = "none" /\ step \in {"off", "failed"}
  <1>1. receipt = "ready" /\ report = "none"
    BY DEF IInv, BaselineOK, ReportOK
  <1>2. actor = "operator" => step = "off"
    BY DEF IInv, LeaseOK
  <1>3. actor = "trap" => step = "failed"
    BY DEF IInv, LeaseOK
  <1> QED BY <1>1, <1>2, <1>3 DEF IInv, RunTyped

\* What every step of a restore keeps that goes on afterwards.
LEMMA RestoreKeeps ==
    ASSUME IInv, actor # "none", RestoreLeaves, UNCHANGED units,
           at' \in Places \ {"idle", "finish"}, todo' \subseteq Nodes,
           at' \in Visiting => todo' # {}, moved' \subseteq Contents, drift' \in BOOLEAN,
           DOMAIN listed' \subseteq Names
    PROVE  RunTyped' /\ LeaseOK' /\ BaselineOK' /\ ReportOK' /\ AuthOK'
  <1>1. /\ receipt' = "ready" /\ report' = "none" /\ actor' # "none" /\ base' = base
        /\ UNCHANGED <<actor, lease, step, auth, ids, used>>
    BY RestoreFacts DEF RestoreLeaves, bounds
  <1>2. (actor' = "none") = (at' = "idle")
    BY <1>1
  <1>3. RunTyped'
    BY <1>1, <1>2 DEF IInv, RunTyped
  <1>4. LeaseOK' /\ AuthOK'
    BY <1>1 DEF IInv, LeaseOK, AuthOK, RegistryAuthGone
  <1>5. BaselineOK' /\ ReportOK'
    BY <1>1 DEF IInv, BaselineOK, Plain, ReportOK, RestoredIsBaseline
  <1> QED BY <1>3, <1>4, <1>5

LEMMA RecordRetainedStep == IInv /\ RecordRetained => IInv'
  <1> SUFFICES ASSUME IInv, RecordRetained PROVE IInv'
    OBVIOUS
  <1>1. /\ actor # "none" /\ at = "outcome" /\ at' = "objects" /\ RestoreLeaves
        /\ \/ fwd' = [fwd EXCEPT !.outcome = "retained-data"]
           \/ fwd' = fwd
        /\ UNCHANGED <<disk, extras, obj, image, units, quarantine, todo, moved, drift, listed, seen>>
    BY DEF RecordRetained, Restoring
  <1>2. UNCHANGED <<receipt, base, account, auth, live, acked, used, actor>>
    BY <1>1 DEF RestoreLeaves, bounds
  <1>3. RunTyped' /\ LeaseOK' /\ BaselineOK' /\ ReportOK' /\ AuthOK'
    BY <1>1, RestoreKeeps DEF IInv, RunTyped, Places, Visiting
  <1>4. TreeOK' /\ ForeignOK' /\ NothingLost'
    BY <1>1, <1>2, FilesKept
  <1>5. fwd' \in Forwards /\ fwd'.ids = fwd.ids /\ (fwd'.outcome # "quarantined")
    BY <1>1 DEF IInv, ReceiptTyped, Forwards, MarkOK
  <1>6. HostTyped' /\ ReceiptTyped'
    BY <1>1, <1>2, <1>5 DEF IInv, HostTyped, ReceiptTyped
  <1>7. VisitedOK' /\ MovedOK' /\ ListedOK'
    BY <1>1, <1>2, <1>5 DEF IInv, VisitedOK, MovedOK, ListedOK
  <1>8. MarkOK'
    BY <1>1, <1>2, <1>5 DEF IInv, MarkOK
  <1> QED BY <1>3, <1>4, <1>6, <1>7, <1>8 DEF IInv

LEMMA RemoveObjectStep == ASSUME IInv, NEW o \in Objects, RemoveObject(o) PROVE IInv'
  <1>1. /\ actor # "none" /\ at = "objects" /\ at' = at /\ RestoreLeaves
        /\ obj' = [obj EXCEPT ![o] = 0]
        /\ listed' = [p \in DOMAIN listed \ {o} |-> listed[p]]
        /\ UNCHANGED <<disk, extras, image, units, fwd, quarantine, todo, moved, drift, seen>>
    BY DEF RemoveObject, Restoring
  <1>2. UNCHANGED <<receipt, base, account, auth, live, acked, used, actor>>
    BY <1>1 DEF RestoreLeaves, bounds
  <1>3. DOMAIN listed' = DOMAIN listed \ {o} /\ \A p \in DOMAIN listed' : listed'[p] = listed[p]
    BY <1>1
  <1>4. RunTyped' /\ LeaseOK' /\ BaselineOK' /\ ReportOK' /\ AuthOK'
    <2>1. DOMAIN listed' \subseteq Names
      BY <1>3 DEF IInv, RunTyped
    <2> QED BY <1>1, <2>1, RestoreKeeps DEF IInv, RunTyped, Places, Visiting
  <1>5. TreeOK' /\ ForeignOK' /\ NothingLost'
    BY <1>1, <1>2, FilesKept
  <1>6. obj' \in [Names -> 0 .. MaxIds]
    <2>1. 0 \in 0 .. MaxIds
      BY RollbackAssumption
    <2> QED BY <1>1, <2>1 DEF IInv, HostTyped
  <1>7. HostTyped' /\ ReceiptTyped'
    BY <1>1, <1>2, <1>6 DEF IInv, HostTyped, ReceiptTyped
  <1>8. VisitedOK' /\ MovedOK' /\ MarkOK'
    BY <1>1, <1>2 DEF IInv, VisitedOK, MovedOK, MarkOK
  <1>9. ListedOK'
    BY <1>1, <1>2, <1>3 DEF IInv, ListedOK
  <1> QED BY <1>4, <1>5, <1>7, <1>8, <1>9 DEF IInv

LEMMA RemoveImagesStep == IInv /\ RemoveImages => IInv'
  <1> SUFFICES ASSUME IInv, RemoveImages PROVE IInv'
    OBVIOUS
  <1>1. /\ actor # "none" /\ at = "objects" /\ at' = "check" /\ RestoreLeaves
        /\ image' \in BOOLEAN
        /\ UNCHANGED <<disk, extras, obj, units, fwd, quarantine, todo, moved, drift, listed, seen>>
    BY DEF RemoveImages, Restoring
  <1>2. UNCHANGED <<receipt, base, account, auth, live, acked, used, actor>>
    BY <1>1 DEF RestoreLeaves, bounds
  <1>3. RunTyped' /\ LeaseOK' /\ BaselineOK' /\ ReportOK' /\ AuthOK'
    BY <1>1, RestoreKeeps DEF IInv, RunTyped, Places, Visiting
  <1>4. TreeOK' /\ ForeignOK' /\ NothingLost'
    BY <1>1, <1>2, FilesKept
  <1>5. HostTyped' /\ ReceiptTyped'
    BY <1>1, <1>2 DEF IInv, HostTyped, ReceiptTyped
  <1>6. VisitedOK' /\ MovedOK' /\ MarkOK' /\ ListedOK'
    BY <1>1, <1>2 DEF IInv, VisitedOK, MovedOK, MarkOK, ListedOK
  <1> QED BY <1>3, <1>4, <1>5, <1>6 DEF IInv

LEMMA VerifyPathsStep == IInv /\ VerifyPaths => IInv'
  <1> SUFFICES ASSUME IInv, VerifyPaths PROVE IInv'
    OBVIOUS
  <1>1. /\ actor # "none" /\ at = "verify"
        /\ UNCHANGED <<disk, extras, obj, image, account, auth, receiptVars, bounds, ghostVars>>
    BY DEF VerifyPaths, Restoring
  <1>2. CASE disk # base.disk
    <2>1. PICK said \in {"failed", "incomplete"} : Ends(said) /\ UNCHANGED units
      BY <1>2 DEF VerifyPaths
    <2> QED BY <1>1, <2>1, EndFails DEF bounds
  <1>4. CASE disk = base.disk /\ account
    BY <1>1, <1>4, EndFails DEF VerifyPaths, RestoreUnits, bounds
  <1>3. CASE disk = base.disk /\ ~account
    <2>1. /\ at' = "finish" /\ units' = "base"
          /\ UNCHANGED <<actor, todo, moved, drift, listed, report, lease, step>>
      BY <1>3 DEF VerifyPaths, RestoreUnits, GoesOn
    <2>2. report = "none" /\ receipt = "ready"
      BY <1>1, RestoreFacts
    <2>3. TreeOK' /\ ForeignOK' /\ NothingLost'
      BY <1>1, FilesKept DEF receiptVars, bounds, ghostVars
    <2>4. HostTyped' /\ ReceiptTyped'
      BY <1>1, <2>1 DEF IInv, HostTyped, ReceiptTyped, receiptVars
    <2>5. RunTyped'
      <3>1. at' \in Places /\ at' \notin Visiting /\ at' # "idle"
        BY <2>1 DEF Places, Visiting
      <3>2. (actor' = "none") = (at' = "idle")
        BY <1>1, <2>1
      <3> QED BY <1>1, <2>1, <3>1, <3>2 DEF IInv, RunTyped, bounds
    <2>6. LeaseOK' /\ BaselineOK' /\ VisitedOK' /\ ListedOK'
      BY <1>1, <2>1, <2>2 DEF IInv, LeaseOK, BaselineOK, Plain, VisitedOK, ListedOK, receiptVars
    <2>7. MovedOK' /\ MarkOK'
      BY <1>1, <2>1 DEF IInv, MovedOK, MarkOK, receiptVars, ghostVars
    <2>8. ReportOK'
      BY <1>1, <1>3, <2>1, <2>2 DEF ReportOK, RestoredIsBaseline, receiptVars
    <2>9. AuthOK'
      BY <1>1, <2>1 DEF IInv, AuthOK, RegistryAuthGone
    <2> QED BY <2>3, <2>4, <2>5, <2>6, <2>7, <2>8, <2>9 DEF IInv
  <1> QED BY <1>2, <1>3, <1>4

LEMMA FinishStep == IInv /\ Finish => IInv'
  <1> SUFFICES ASSUME IInv, Finish PROVE IInv'
    OBVIOUS
  <1> DEFINE said == CASE ~ObjectsRestored -> "failed"
                       [] ObjectsRestored /\ drift -> "quarantined"
                       [] ObjectsRestored /\ ~drift /\ Retained # {} -> "incomplete"
                       [] OTHER -> "restored"
  <1>1. /\ actor # "none" /\ at = "finish" /\ Ends(said)
        /\ \/ fwd' = fwd
           \/ fwd.outcome = "retained-data" /\ fwd' = [fwd EXCEPT !.outcome = "clean"]
        /\ UNCHANGED <<hostVars, receipt, base, quarantine, bounds, ghostVars>>
    BY DEF Finish, Restoring
  <1>2. said = "restored" => ObjectsRestored /\ Retained = {}
    OBVIOUS
  <1> HIDE DEF said
  <1>3. UNCHANGED <<units, auth, receipt, base, ids, used>>
    BY <1>1 DEF hostVars, bounds
  <1>4. /\ RunTyped' /\ LeaseOK' /\ VisitedOK' /\ MovedOK' /\ ListedOK' /\ BaselineOK'
        /\ AuthOK' /\ actor' = "none" /\ at' = "idle" /\ report' = said /\ step' = "off"
    BY <1>1, <1>3, EndReleases
  <1>5. TreeOK' /\ ForeignOK' /\ NothingLost'
    BY <1>1, FilesKept DEF hostVars, bounds, ghostVars
  <1>6. fwd' \in Forwards /\ (fwd'.outcome # "quarantined" => fwd.outcome # "quarantined")
    BY <1>1 DEF IInv, ReceiptTyped, Forwards
  <1>7. HostTyped' /\ ReceiptTyped'
    BY <1>1, <1>6 DEF IInv, HostTyped, ReceiptTyped, hostVars
  <1>8. MarkOK'
    BY <1>1, <1>4, <1>6 DEF IInv, MarkOK, ghostVars
  <1>9. ReportOK'
    <2>1. ASSUME said = "restored", ~touched
          PROVE  disk = base.disk /\ obj = base.obj /\ units = "base"
      <3>1. disk = base.disk /\ units = "base"
        BY <1>1, <2>1 DEF IInv, ReportOK
      <3>2. \A o \in Names : obj[o] = base.obj[o]
        BY <1>2, <2>1 DEF ObjectsRestored
      <3>3. obj \in [Names -> 0 .. MaxIds] /\ base.obj \in [Names -> 0 .. MaxIds]
        BY DEF IInv, HostTyped, ReceiptTyped, Receipts
      <3>4. obj = base.obj
        BY <3>2, <3>3
      <3> QED BY <3>1, <3>4
    <2> QED BY <1>1, <1>4, <2>1 DEF ReportOK, RestoredIsBaseline, hostVars, ghostVars
  <1> QED BY <1>4, <1>5, <1>7, <1>8, <1>9 DEF IInv

LEMMA ChangedStep == IInv /\ Changed => IInv'
  <1> SUFFICES ASSUME IInv, Changed PROVE IInv'
    OBVIOUS
  <1>1. actor # "none"
    BY DEF IInv, RunTyped, Changed
  <1>2. Ends("failed") /\ UNCHANGED <<hostVars, receiptVars, ids, used, ghostVars>>
    BY DEF Changed, bounds
  <1> QED BY <1>1, <1>2, EndFails DEF hostVars

LEMMA AbortStep == IInv /\ Abort => IInv'
  <1> SUFFICES ASSUME IInv, Abort PROVE IInv'
    OBVIOUS
  <1>1. /\ actor # "none" /\ Ends("failed")
        /\ UNCHANGED <<hostVars, receiptVars, ids, used, ghostVars>>
    BY DEF Abort
  <1> QED BY <1>1, EndFails DEF hostVars

-----------------------------------------------------------------------------
(* The steps of a restore on one path. *)

LEMMA DirsAndFiles ==
  /\ \A d \in Dirs : d \in Nodes /\ d \notin Files /\ d # Root
  /\ \A f \in Files : f \in Nodes /\ f \notin Dirs /\ f # Root /\ Parent[f] \in Dirs \cup {Root}
  /\ \A n \in Nodes : n \in Files \/ n \in Dirs
  BY RollbackAssumption DEF Nodes

\* What a tree holds is known content, and what is foreign in it was written.
LEMMA HeldIsKnown ==
    ASSUME IInv, NEW n \in Nodes
    PROVE  /\ Held(n) \subseteq Contents /\ Held(n) \cap Versions \subseteq used
           /\ n \in Dirs => extras[n] \subseteq Held(n)
  <1>1. disk \in [Nodes -> Contents] /\ extras \in [Dirs \cup {Root} -> SUBSET Contents]
    BY DEF IInv, HostTyped
  <1>2. /\ \A m \in Nodes : disk[m] \in Versions => disk[m] \in used
        /\ \A d \in Dirs \cup {Root} : extras[d] \cap Versions \subseteq used
    BY DEF IInv, ForeignOK
  <1>3. \A f \in InDir(n) : f \in Nodes
    BY DirsAndFiles DEF InDir
  <1>4. n \in Dirs /\ disk[n] # "directory" => extras[n] = {}
    BY DEF IInv, TreeOK
  <1>5. CASE n \in Dirs /\ disk[n] = "directory"
    <2>1. Held(n) = extras[n] \cup ({disk[f] : f \in InDir(n)} \ {"absent"})
      BY <1>5 DEF Held
    <2>2. {disk[f] : f \in InDir(n)} \subseteq Contents
      BY <1>1, <1>3
    <2>3. {disk[f] : f \in InDir(n)} \cap Versions \subseteq used
      BY <1>2, <1>3
    <2> QED BY <1>1, <1>2, <1>5, <2>1, <2>2, <2>3
  <1>6. CASE ~(n \in Dirs /\ disk[n] = "directory")
    <2>1. Held(n) = {disk[n]} \ {"absent"}
      BY <1>6 DEF Held
    <2> QED BY <1>1, <1>2, <1>4, <1>6, <2>1
  <1> QED BY <1>5, <1>6

\* A path taken away takes along exactly what it holds.
LEMMA GoneTakesHeld ==
    ASSUME IInv, Here \in Nodes
    PROVE  /\ Gone \in [Nodes -> Contents] /\ Gone[Here] = "absent"
           /\ \A n \in Nodes : \/ Gone[n] = disk[n]
                               \/ /\ Gone[n] = "absent"
                                  /\ disk[n] \in Held(Here) \cup {"absent", "directory"}
           /\ \A d \in Dirs : d # Here => Gone[d] = disk[d]
           /\ Here \in Dirs => \A f \in InDir(Here) : Gone[f] = "absent"
           /\ Emptied \in [Dirs \cup {Root} -> SUBSET Contents]
           /\ \A d \in Dirs \cup {Root} : Emptied[d] = IF d = Here THEN {} ELSE extras[d]
  <1>1. disk \in [Nodes -> Contents] /\ extras \in [Dirs \cup {Root} -> SUBSET Contents]
    BY DEF IInv, HostTyped
  <1>2. \A n \in Nodes : Gone[n] =
          IF n = Here \/ (Here \in Dirs /\ n \in InDir(Here)) THEN "absent" ELSE disk[n]
    BY DEF Gone
  <1>3. Gone \in [Nodes -> Contents]
    BY <1>1, KnownContents DEF Gone
  <1>4. \A n \in Nodes : Gone[n] = disk[n]
          \/ (Gone[n] = "absent" /\ disk[n] \in Held(Here) \cup {"absent", "directory"})
    <2> SUFFICES ASSUME NEW n \in Nodes, Gone[n] # disk[n]
                 PROVE  Gone[n] = "absent" /\ disk[n] \in Held(Here) \cup {"absent", "directory"}
      OBVIOUS
    <2>1. Gone[n] = "absent" /\ (n = Here \/ (Here \in Dirs /\ n \in InDir(Here)))
      BY <1>2
    <2>2. CASE n = Here
      BY <2>1, <2>2 DEF Held
    <2>3. CASE Here \in Dirs /\ n \in InDir(Here) /\ disk[Here] = "directory"
      BY <2>1, <2>3 DEF Held
    <2>4. CASE Here \in Dirs /\ n \in InDir(Here) /\ disk[Here] # "directory"
      BY <2>1, <2>4 DEF IInv, TreeOK
    <2> QED BY <2>1, <2>2, <2>3, <2>4
  <1>5. \A d \in Dirs : d # Here => Gone[d] = disk[d]
    BY <1>2, DirsAndFiles DEF InDir
  <1>6. Here \in Dirs => \A f \in InDir(Here) : Gone[f] = "absent"
    BY <1>2, DirsAndFiles DEF InDir
  <1>7. Emptied \in [Dirs \cup {Root} -> SUBSET Contents]
    BY <1>1 DEF Emptied
  <1>8. \A d \in Dirs \cup {Root} : Emptied[d] = IF d = Here THEN {} ELSE extras[d]
    BY <1>1, DirsAndFiles DEF Emptied
  <1> HIDE DEF Gone, Emptied
  <1> QED BY <1>2, <1>3, <1>4, <1>5, <1>6, <1>7, <1>8

\* Where a foreign content can be.
LEMMA Whereabouts ==
    ASSUME IInv, NEW v \in live
    PROVE  \/ \E n \in Nodes : v = disk[n]
           \/ \E d \in Dirs \cup {Root} : v \in extras[d]
           \/ v \in quarantine
  <1>1. DOMAIN extras = Dirs \cup {Root}
    BY DEF IInv, HostTyped
  <1> DEFINE A == {disk[n] : n \in Nodes}
             U == UNION {extras[d] : d \in DOMAIN extras}
  <1>2. v \in A \cup U \cup quarantine
    BY DEF IInv, NothingLost
  <1>3. v \in A => \E n \in Nodes : v = disk[n]
    OBVIOUS
  <1>4. v \in U => \E d \in DOMAIN extras : v \in extras[d]
    OBVIOUS
  <1> HIDE DEF A, U
  <1> QED BY <1>1, <1>2, <1>3, <1>4

LEMMA StillThere ==
    ASSUME extras' \in [Dirs \cup {Root} -> SUBSET Contents],
           \A v \in live' : \/ \E n \in Nodes : v = disk'[n]
                           \/ \E d \in Dirs \cup {Root} : v \in extras'[d]
                           \/ v \in quarantine'
    PROVE  NothingLost'
  <1>1. DOMAIN extras' = Dirs \cup {Root}
    OBVIOUS
  <1> DEFINE A == {disk'[n] : n \in Nodes}
             U == UNION {extras'[d] : d \in DOMAIN extras'}
  <1>2. \A n \in Nodes : disk'[n] \in A
    OBVIOUS
  <1>3. \A d \in DOMAIN extras' : \A v \in extras'[d] : v \in U
    OBVIOUS
  <1>4. live' \subseteq A \cup U \cup quarantine' => NothingLost'
    BY DEF NothingLost
  <1> HIDE DEF A, U
  <1>5. live' \subseteq A \cup U \cup quarantine'
    BY <1>1, <1>2, <1>3
  <1> QED BY <1>4, <1>5

LEMMA OnwardFacts ==
    ASSUME IInv, at \in Visiting, Onward
    PROVE  /\ todo' = todo \ {Here} /\ moved' = {} /\ at' \in {"check", "verify"}
           /\ todo' \subseteq Nodes /\ (at' \in Visiting => todo' # {})
  <1>1. todo' = todo \ {Here} /\ moved' = {} /\ at' = IF todo = {Here} THEN "verify" ELSE "check"
    BY DEF Onward
  <1>2. todo \subseteq Nodes /\ todo # {}
    BY DEF IInv, RunTyped
  <1>3. "verify" \notin Visiting
    BY DEF Visiting, Places
  <1> QED BY <1>1, <1>2, <1>3

\* What a restore does on the disk keeps what does not depend on it.
LEMMA PathKeeps ==
    ASSUME IInv, actor # "none", RestoreLeaves,
           UNCHANGED <<obj, image, units, listed>>, drift' \in BOOLEAN,
           at' \in Places \ {"idle", "finish"}, todo' \subseteq Nodes,
           at' \in Visiting => todo' # {}, moved' \subseteq Contents,
           disk' \in [Nodes -> Contents],
           extras' \in [Dirs \cup {Root} -> SUBSET Contents],
           fwd' \in Forwards, fwd'.ids = fwd.ids, quarantine' \subseteq Contents
    PROVE  /\ RunTyped' /\ LeaseOK' /\ BaselineOK' /\ ReportOK' /\ AuthOK'
           /\ HostTyped' /\ ReceiptTyped' /\ ListedOK'
  <1>1. UNCHANGED <<receipt, base, account, auth, actor>>
    BY DEF RestoreLeaves
  <1>2. RunTyped' /\ LeaseOK' /\ BaselineOK' /\ ReportOK' /\ AuthOK'
    BY RestoreKeeps DEF IInv, RunTyped
  <1>3. HostTyped' /\ ReceiptTyped'
    BY <1>1 DEF IInv, HostTyped, ReceiptTyped
  <1>4. ListedOK'
    BY <1>1 DEF IInv, ListedOK
  <1> QED BY <1>2, <1>3, <1>4

\* A look that does not end the restore.
LEMMA LookStep == ASSUME IInv, Check, ~Unsafe(Here) PROVE IInv'
  <1>1. /\ actor # "none" /\ at = "check" /\ RestoreLeaves
        /\ UNCHANGED <<extras, obj, image, units, quarantine, drift, listed>>
    BY DEF Check, Restoring, GoesOn, LookLeaves, RestoreLeaves
  <1>2. UNCHANGED <<receipt, base, live, acked, used, actor>>
    BY <1>1 DEF RestoreLeaves, bounds
  <1>3. at \in Visiting /\ Here \in todo /\ Here \in Nodes
    <2>1. at \in Visiting
      BY <1>1 DEF Visiting, Places
    <2> QED BY <2>1, HereFacts
  <1>4. /\ disk \in [Nodes -> Contents] /\ extras' \in [Dirs \cup {Root} -> SUBSET Contents]
        /\ fwd \in Forwards /\ quarantine' \subseteq Contents /\ drift' \in BOOLEAN
        /\ todo \subseteq Nodes /\ todo # {} /\ moved \subseteq Contents
        /\ base \in Receipts /\ live \subseteq Versions /\ used \subseteq Versions
    BY <1>1, <1>3 DEF IInv, HostTyped, ReceiptTyped, RunTyped, ForeignOK
  <1>5. CASE InTheWay(Here)
    <2>1. /\ fwd' = Mark(Here) /\ seen' = seen \cup (Held(Here) \cap Versions)
          /\ at' = "move" /\ UNCHANGED <<disk, todo, moved>>
      BY <1>5 DEF Check, Condemn
    <2>2. /\ fwd' \in Forwards /\ fwd'.ids = fwd.ids
          /\ fwd'.outcome = "quarantined" \/ (fwd' = fwd /\ Authorized(Here))
      BY <1>4, <2>1 DEF Mark, Forwards
    <2>3. at' \in Places \ {"idle", "finish"}
      BY <2>1 DEF Places
    <2>4. /\ RunTyped' /\ LeaseOK' /\ BaselineOK' /\ ReportOK' /\ AuthOK'
          /\ HostTyped' /\ ReceiptTyped' /\ ListedOK'
      BY <1>1, <1>4, <2>1, <2>2, <2>3, PathKeeps
    <2>5. TreeOK' /\ NothingLost' /\ VisitedOK'
      BY <1>1, <1>2, <2>1 DEF IInv, TreeOK, InDir, NothingLost, VisitedOK
    <2>6. ForeignOK'
      <3>1. Held(Here) \cap Versions \subseteq used
        BY <1>3, HeldIsKnown
      <3> QED BY <1>1, <1>2, <2>1, <3>1 DEF IInv, ForeignOK
    <2>7. Here' = Here
      BY <1>2, <2>1, HereKept
    <2>8. MovedOK'
      BY <2>1 DEF MovedOK
    <2>9. Authorized(Here) => Here \in Files /\ disk[Here] = "new" /\ seen' = seen
      <3> SUFFICES ASSUME Authorized(Here) PROVE Here \in Files /\ disk[Here] = "new" /\ seen' = seen
        OBVIOUS
      <3>1. Here \in Files /\ disk[Here] = "new"
        BY <1>4 DEF Authorized, Forwards
      <3>2. Held(Here) \subseteq {"new"}
        BY <3>1 DEF Held
      <3> QED BY <2>1, <3>1, <3>2, KnownContents
    <2>10. MarkOK'
      <3>1. seen \subseteq Versions
        BY <1>4 DEF IInv, ForeignOK
      <3>2. "new" \notin seen
        BY <3>1, KnownContents
      <3> QED BY <1>1, <1>2, <2>1, <2>2, <2>7, <2>9, <3>2 DEF IInv, MarkOK
    <2> QED BY <2>4, <2>5, <2>6, <2>8, <2>10 DEF IInv
  <1>6. CASE ~InTheWay(Here)
    <2>1. /\ UNCHANGED <<fwd, seen>>
          /\ \/ /\ disk[Here] = base.disk[Here] /\ UNCHANGED disk /\ Onward
             \/ /\ base.disk[Here] = "absent" /\ disk[Here] = "directory"
                /\ disk' = [disk EXCEPT ![Here] = "absent"] /\ Onward
             \/ /\ base.disk[Here] # "absent" /\ disk[Here] = "absent"
                /\ at' = "put" /\ UNCHANGED <<disk, todo, moved>>
      BY <1>6 DEF Check, WasAbsent
    <2>2. /\ at' \in {"check", "verify", "put"} /\ todo' \subseteq Nodes
          /\ (at' \in Visiting => todo' # {}) /\ moved' \subseteq Contents
          /\ at' \in Places \ {"idle", "finish"}
      <3>1. CASE Onward
        BY <1>3, <3>1, OnwardFacts DEF Places
      <3>2. CASE at' = "put" /\ UNCHANGED <<disk, todo, moved>>
        BY <1>4, <3>2 DEF Places
      <3> QED BY <2>1, <3>1, <3>2
    <2>3. disk' \in [Nodes -> Contents]
      BY <1>3, <1>4, <2>1, KnownContents
    <2>4. /\ RunTyped' /\ LeaseOK' /\ BaselineOK' /\ ReportOK' /\ AuthOK'
          /\ HostTyped' /\ ReceiptTyped' /\ ListedOK'
      BY <1>1, <1>4, <2>1, <2>2, <2>3, PathKeeps
    <2>5. CASE UNCHANGED disk
      <3>1. TreeOK' /\ ForeignOK' /\ NothingLost'
        BY <1>1, <1>2, <2>1, <2>5, FilesKept
      <3>2. VisitedOK'
        <4> SUFFICES ASSUME NEW d \in Dirs \ todo', base.disk[d] = "directory"
                     PROVE  disk[d] = "directory"
          BY <1>2, <2>5 DEF VisitedOK
        <4>1. CASE d \notin todo
          BY <1>1, <4>1 DEF IInv, VisitedOK
        <4>2. CASE d \in todo
          <5>1. Onward
            BY <2>1, <4>2
          <5>2. d = Here
            BY <4>2, <5>1 DEF Onward
          <5> QED BY <2>1, <2>5, <5>2, <4>2
        <4> QED BY <4>1, <4>2
      <3>3. MovedOK'
        <4>1. "absent" \notin live
          BY <1>4, KnownContents
        <4>2. at' = "put" => /\ Here' = Here /\ disk[Here] = "absent"
                             /\ base.disk[Here] # "absent"
          BY <1>2, <1>3, <2>1, HereKept, OnwardFacts
        <4> QED BY <1>2, <2>2, <2>5, <4>1, <4>2 DEF MovedOK
      <3>4. MarkOK'
        BY <1>1, <1>2, <2>1, <2>2 DEF IInv, MarkOK
      <3> QED BY <2>4, <3>1, <3>2, <3>3, <3>4 DEF IInv
    <2>6. CASE /\ base.disk[Here] = "absent" /\ disk[Here] = "directory"
               /\ disk' = [disk EXCEPT ![Here] = "absent"] /\ Onward
      <3>1. \A n \in Nodes : disk'[n] = IF n = Here THEN "absent" ELSE disk[n]
        BY <1>4, <2>6
      <3>2. Here \in Dirs /\ Held(Here) = {}
        BY <1>3, <1>6, <2>6, DirsAndFiles DEF InTheWay
      <3>3. extras[Here] = {} /\ \A f \in InDir(Here) : disk[f] = "absent"
        BY <2>6, <3>2 DEF Held
      <3>4. TreeOK'
        <4> SUFFICES ASSUME NEW d \in Dirs, disk'[d] # "directory"
                     PROVE  extras[d] = {} /\ \A f \in InDir(d) : disk'[f] = "absent"
          BY <1>1 DEF TreeOK, InDir
        <4>1. \A f \in InDir(d) : f \in Nodes
          BY DirsAndFiles DEF InDir
        <4>2. d = Here \/ disk[d] # "directory"
          BY <3>1, DirsAndFiles
        <4>3. extras[d] = {} /\ \A f \in InDir(d) : disk[f] = "absent"
          BY <3>3, <4>2 DEF IInv, TreeOK
        <4> QED BY <3>1, <4>1, <4>3
      <3>5. ForeignOK'
        BY <1>1, <1>2, <2>1, <3>1, KnownContents DEF IInv, ForeignOK
      <3>6. NothingLost'
        <4>1. \A v \in live : v # "directory"
          BY <1>4, KnownContents
        <4> QED BY <1>1, <1>2, <2>6, <3>1, <4>1 DEF IInv, NothingLost
      <3>7. todo' = todo \ {Here} /\ at' \in {"check", "verify"}
        BY <1>3, <2>6, OnwardFacts
      <3>8. VisitedOK'
        BY <1>1, <1>2, <2>6, <3>1, <3>7, DirsAndFiles DEF IInv, VisitedOK
      <3>9. MovedOK' /\ MarkOK'
        BY <1>1, <1>2, <2>1, <3>7 DEF IInv, MovedOK, MarkOK
      <3> QED BY <2>4, <3>4, <3>5, <3>6, <3>8, <3>9 DEF IInv
    <2> QED BY <2>1, <2>5, <2>6
  <1> QED BY <1>5, <1>6

LEMMA CheckStep == IInv /\ Check => IInv'
  <1> SUFFICES ASSUME IInv, Check PROVE IInv'
    OBVIOUS
  <1>0. CASE Unsafe(Here)
    <2>1. /\ actor # "none" /\ Ends("failed") /\ UNCHANGED <<disk, fwd, seen>>
          /\ UNCHANGED <<extras, obj, image, units, account, auth, receipt, base, quarantine,
                         bounds, live, acked, touched>>
      BY <1>0 DEF Check, Restoring, LookLeaves
    <2> QED BY <2>1, EndFails DEF bounds, receiptVars, ghostVars
  <1>1. CASE ~Unsafe(Here)
    BY <1>1, LookStep
  <1> QED BY <1>0, <1>1

LEMMA MoveStep == IInv /\ Move => IInv'
  <1> SUFFICES ASSUME IInv, Move PROVE IInv'
    OBVIOUS
  <1>1. /\ actor # "none" /\ at = "move" /\ RestoreLeaves /\ disk[Here] # "absent"
        /\ moved' = Held(Here) /\ quarantine' = quarantine \cup Held(Here)
        /\ disk' = Gone /\ extras' = Emptied /\ at' = "sift"
        /\ UNCHANGED <<listed, obj, image, units, fwd, todo, drift, seen>>
    BY DEF Move, Restoring
  <1>2. UNCHANGED <<receipt, base, live, acked, used, actor>>
    BY <1>1 DEF RestoreLeaves, bounds
  <1>3. at \in Visiting /\ Here \in todo /\ Here \in Nodes
    <2>1. at \in Visiting
      BY <1>1 DEF Visiting, Places
    <2> QED BY <2>1, HereFacts
  <1>4. Held(Here) \subseteq Contents /\ Held(Here) \cap Versions \subseteq used
    BY <1>3, HeldIsKnown
  <1>5. /\ Gone \in [Nodes -> Contents] /\ Gone[Here] = "absent"
        /\ \A n \in Nodes : \/ Gone[n] = disk[n]
                            \/ /\ Gone[n] = "absent"
                               /\ disk[n] \in Held(Here) \cup {"absent", "directory"}
        /\ \A d \in Dirs : d # Here => Gone[d] = disk[d]
        /\ Here \in Dirs => \A f \in InDir(Here) : Gone[f] = "absent"
        /\ Emptied \in [Dirs \cup {Root} -> SUBSET Contents]
        /\ \A d \in Dirs \cup {Root} : Emptied[d] = IF d = Here THEN {} ELSE extras[d]
    BY <1>3, GoneTakesHeld
  <1>6. /\ fwd \in Forwards /\ quarantine' \subseteq Contents /\ drift' \in BOOLEAN
        /\ todo \subseteq Nodes /\ todo # {} /\ live \subseteq Versions
        /\ DOMAIN extras = Dirs \cup {Root} /\ seen \subseteq Versions
    BY <1>1, <1>3, <1>4 DEF IInv, HostTyped, ReceiptTyped, RunTyped, ForeignOK
  <1>7. at' \in Places \ {"idle", "finish"}
    BY <1>1 DEF Places
  <1>8. /\ RunTyped' /\ LeaseOK' /\ BaselineOK' /\ ReportOK' /\ AuthOK'
        /\ HostTyped' /\ ReceiptTyped' /\ ListedOK'
    BY <1>1, <1>4, <1>5, <1>6, <1>7, PathKeeps
  <1>9. TreeOK'
    <2> SUFFICES ASSUME NEW d \in Dirs, Gone[d] # "directory"
                 PROVE  Emptied[d] = {} /\ \A f \in InDir(d) : Gone[f] = "absent"
      BY <1>1 DEF TreeOK, InDir
    <2>1. CASE d = Here
      BY <1>5, <2>1
    <2>2. CASE d # Here
      <3>1. extras[d] = {} /\ \A f \in InDir(d) : disk[f] = "absent"
        BY <1>5, <2>2 DEF IInv, TreeOK
      <3>2. \A f \in InDir(d) : f \in Nodes
        BY DirsAndFiles DEF InDir
      <3> QED BY <1>5, <2>2, <3>1, <3>2
    <2> QED BY <2>1, <2>2
  <1>10. ForeignOK'
    BY <1>1, <1>2, <1>5, KnownContents DEF IInv, ForeignOK
  <1>11. NothingLost'
    <2> SUFFICES ASSUME NEW v \in live
                 PROVE  \/ \E n \in Nodes : v = disk'[n]
                        \/ \E d \in Dirs \cup {Root} : v \in extras'[d]
                        \/ v \in quarantine'
      BY <1>1, <1>2, <1>5, StillThere
    <2>1. v # "absent" /\ v # "directory"
      BY <1>6, KnownContents
    <2>2. ASSUME NEW n \in Nodes, v = disk[n] PROVE v = disk'[n] \/ v \in quarantine'
      BY <1>1, <1>5, <2>1, <2>2
    <2>3. ASSUME NEW d \in Dirs \cup {Root}, v \in extras[d]
          PROVE  v \in extras'[d] \/ v \in quarantine'
      <3>1. CASE d = Here
        <4>1. extras[Here] \subseteq Held(Here)
          BY <1>3, <3>1, DirsAndFiles, HeldIsKnown
        <4> QED BY <1>1, <2>3, <3>1, <4>1
      <3>2. CASE d # Here
        BY <1>1, <1>5, <2>3, <3>2
      <3> QED BY <3>1, <3>2
    <2> QED BY <1>1, <2>2, <2>3, Whereabouts
  <1>12. VisitedOK'
    BY <1>1, <1>2, <1>3, <1>5 DEF IInv, VisitedOK
  <1>13. MovedOK'
    <2>1. "absent" \notin live
      BY <1>6, KnownContents
    <2>2. Here' = Here
      BY <1>1, <1>2, HereKept
    <2> QED BY <1>1, <1>2, <1>5, <2>1, <2>2 DEF MovedOK
  <1>14. MarkOK'
    <2>1. fwd.outcome # "quarantined" => Held(Here) \cap seen = {}
      <3> SUFFICES ASSUME fwd.outcome # "quarantined" PROVE Held(Here) \cap seen = {}
        OBVIOUS
      <3>1. Here \in Files /\ disk[Here] \notin seen
        BY <1>1 DEF IInv, MarkOK
      <3>2. Held(Here) = {disk[Here]} \ {"absent"}
        BY <3>1, DirsAndFiles DEF Held
      <3> QED BY <3>1, <3>2
    <2> QED BY <1>1, <1>2, <2>1 DEF IInv, MarkOK
  <1> QED BY <1>8, <1>9, <1>10, <1>11, <1>12, <1>13, <1>14 DEF IInv

LEMMA CopyStep == IInv /\ Copy => IInv'
  <1> SUFFICES ASSUME IInv, Copy PROVE IInv'
    OBVIOUS
  <1>1. /\ actor # "none" /\ at = "move" /\ RestoreLeaves
        /\ moved' = Held(Here) /\ quarantine' = quarantine \cup Held(Here) /\ at' = "stage"
        /\ UNCHANGED <<listed, disk, extras, obj, image, units, fwd, todo, drift, seen>>
    BY DEF Copy, Restoring
  <1>2. UNCHANGED <<receipt, base, live, acked, used, actor>>
    BY <1>1 DEF RestoreLeaves, bounds
  <1>3. at \in Visiting /\ Here \in Nodes
    <2>1. at \in Visiting
      BY <1>1 DEF Visiting, Places
    <2> QED BY <2>1, HereFacts
  <1>4. Held(Here) \subseteq Contents
    BY <1>3, HeldIsKnown
  <1>5. /\ fwd \in Forwards /\ quarantine' \subseteq Contents /\ drift' \in BOOLEAN
        /\ todo \subseteq Nodes /\ todo # {} /\ disk \in [Nodes -> Contents]
        /\ extras \in [Dirs \cup {Root} -> SUBSET Contents]
        /\ at' \in Places \ {"idle", "finish"}
    BY <1>1, <1>3, <1>4 DEF IInv, HostTyped, ReceiptTyped, RunTyped, Places
  <1>6. /\ RunTyped' /\ LeaseOK' /\ BaselineOK' /\ ReportOK' /\ AuthOK'
        /\ HostTyped' /\ ReceiptTyped' /\ ListedOK'
    BY <1>1, <1>4, <1>5, PathKeeps
  <1>7. TreeOK' /\ ForeignOK' /\ VisitedOK' /\ MovedOK'
    BY <1>1, <1>2 DEF IInv, TreeOK, InDir, ForeignOK, VisitedOK, MovedOK
  <1>8. NothingLost'
    BY <1>1, <1>2 DEF IInv, NothingLost
  <1>9. MarkOK'
    <2>1. fwd.outcome # "quarantined" => Held(Here) \cap seen = {}
      <3> SUFFICES ASSUME fwd.outcome # "quarantined" PROVE Held(Here) \cap seen = {}
        OBVIOUS
      <3>1. Here \in Files /\ disk[Here] \notin seen
        BY <1>1 DEF IInv, MarkOK
      <3>2. Held(Here) = {disk[Here]} \ {"absent"}
        BY <3>1, DirsAndFiles DEF Held
      <3> QED BY <3>1, <3>2
    <2> QED BY <1>1, <1>2, <2>1 DEF IInv, MarkOK
  <1> QED BY <1>6, <1>7, <1>8, <1>9 DEF IInv

LEMMA UpIsThere ==
    ASSUME IInv, Here \in Nodes, disk[Here] # "absent"
    PROVE  /\ Up \in Dirs \cup {Root} /\ Up # Here
           /\ Up \in Dirs => disk[Up] = "directory"
  <1>1. CASE Here \in Files
    <2>1. Up = Parent[Here]
      BY <1>1 DEF Up
    <2>2. Up \in Dirs \cup {Root} /\ Up # Here
      BY <1>1, <2>1, DirsAndFiles
    <2>3. Up \in Dirs => disk[Up] = "directory"
      BY <1>1, <2>1 DEF IInv, TreeOK, InDir
    <2> QED BY <2>2, <2>3
  <1>2. CASE Here \notin Files
    BY <1>2, RollbackAssumption DEF Up, Nodes
  <1> QED BY <1>1, <1>2

LEMMA StageStep == IInv /\ Stage => IInv'
  <1> SUFFICES ASSUME IInv, Stage PROVE IInv'
    OBVIOUS
  <1>1. /\ actor # "none" /\ at = "stage" /\ disk[Here] # "absent"
        /\ extras' = [Emptied EXCEPT ![Up] = @ \cup Held(Here)] /\ disk' = Gone
        /\ \/ /\ at' = "discard"
              /\ UNCHANGED <<actor, todo, moved, drift, listed, report, lease, step>>
           \/ Ends("failed")
        /\ UNCHANGED <<obj, image, units, account, auth, receiptVars, bounds, ghostVars>>
    BY DEF Stage, Restoring
  <1>2. UNCHANGED <<receipt, base, fwd, quarantine, ids, used, live, seen, acked, touched>>
    BY <1>1 DEF receiptVars, bounds, ghostVars
  <1>3. at \in Visiting /\ Here \in todo /\ Here \in Nodes
    <2>1. at \in Visiting
      BY <1>1 DEF Visiting, Places
    <2> QED BY <2>1, HereFacts
  <1>4. Held(Here) \subseteq Contents /\ Held(Here) \cap Versions \subseteq used
    BY <1>3, HeldIsKnown
  <1>5. /\ Gone \in [Nodes -> Contents] /\ Gone[Here] = "absent"
        /\ \A n \in Nodes : \/ Gone[n] = disk[n]
                            \/ /\ Gone[n] = "absent"
                               /\ disk[n] \in Held(Here) \cup {"absent", "directory"}
        /\ \A d \in Dirs : d # Here => Gone[d] = disk[d]
        /\ Here \in Dirs => \A f \in InDir(Here) : Gone[f] = "absent"
        /\ Emptied \in [Dirs \cup {Root} -> SUBSET Contents]
        /\ \A d \in Dirs \cup {Root} : Emptied[d] = IF d = Here THEN {} ELSE extras[d]
    BY <1>3, GoneTakesHeld
  <1>6. Up \in Dirs \cup {Root} /\ Up # Here /\ (Up \in Dirs => disk[Up] = "directory")
    BY <1>1, <1>3, UpIsThere
  <1>7. /\ extras' \in [Dirs \cup {Root} -> SUBSET Contents]
        /\ \A d \in Dirs \cup {Root} :
             extras'[d] = IF d = Up THEN Emptied[d] \cup Held(Here) ELSE Emptied[d]
    <2>1. extras' = [d \in Dirs \cup {Root} |->
                       IF d = Up THEN Emptied[d] \cup Held(Here) ELSE Emptied[d]]
      BY <1>1, <1>5
    <2> QED BY <1>4, <1>5, <2>1
  <1>8. /\ live \subseteq Versions /\ seen \subseteq Versions
        /\ extras \in [Dirs \cup {Root} -> SUBSET Contents]
    BY DEF IInv, HostTyped, RunTyped, ForeignOK
  <1>9. HostTyped' /\ ReceiptTyped'
    BY <1>1, <1>5, <1>7 DEF IInv, HostTyped, ReceiptTyped, receiptVars
  <1>10. TreeOK'
    <2> SUFFICES ASSUME NEW d \in Dirs, Gone[d] # "directory"
                 PROVE  extras'[d] = {} /\ \A f \in InDir(d) : Gone[f] = "absent"
      BY <1>1 DEF TreeOK, InDir
    <2>1. d # Up
      BY <1>5, <1>6
    <2>2. CASE d = Here
      BY <1>5, <1>7, <2>1, <2>2
    <2>3. CASE d # Here
      <3>1. extras[d] = {} /\ \A f \in InDir(d) : disk[f] = "absent"
        BY <1>5, <2>3 DEF IInv, TreeOK
      <3>2. \A f \in InDir(d) : f \in Nodes
        BY DirsAndFiles DEF InDir
      <3> QED BY <1>5, <1>7, <2>1, <2>3, <3>1, <3>2
    <2> QED BY <2>2, <2>3
  <1>11. ForeignOK'
    <2>1. \A n \in Nodes : disk'[n] \in Versions => disk'[n] \in used
      BY <1>1, <1>5, KnownContents DEF IInv, ForeignOK
    <2>2. \A d \in Dirs \cup {Root} : extras'[d] \cap Versions \subseteq used
      BY <1>4, <1>5, <1>7 DEF IInv, ForeignOK
    <2> QED BY <1>2, <2>1, <2>2 DEF IInv, ForeignOK
  <1>12. NothingLost'
    <2> SUFFICES ASSUME NEW v \in live
                 PROVE  \/ \E n \in Nodes : v = disk'[n]
                        \/ \E d \in Dirs \cup {Root} : v \in extras'[d]
                        \/ v \in quarantine'
      BY <1>2, <1>7, StillThere
    <2>1. v # "absent" /\ v # "directory"
      BY <1>8, KnownContents
    <2>2. ASSUME NEW n \in Nodes, v = disk[n] PROVE v = disk'[n] \/ v \in extras'[Up]
      BY <1>1, <1>5, <1>6, <1>7, <2>1, <2>2
    <2>3. ASSUME NEW d \in Dirs \cup {Root}, v \in extras[d]
          PROVE  v \in extras'[d] \/ v \in extras'[Up]
      <3>1. CASE d = Here
        <4>1. extras[Here] \subseteq Held(Here)
          BY <1>3, <3>1, DirsAndFiles, HeldIsKnown
        <4> QED BY <1>6, <1>7, <2>3, <3>1, <4>1
      <3>2. CASE d # Here
        BY <1>5, <1>7, <2>3, <3>2
      <3> QED BY <3>1, <3>2
    <2> QED BY <1>2, <1>6, <2>2, <2>3, Whereabouts
  <1>13. CASE Ends("failed")
    <2>1. /\ RunTyped' /\ LeaseOK' /\ VisitedOK' /\ MovedOK' /\ ListedOK'
          /\ BaselineOK' /\ AuthOK' /\ actor' = "none" /\ at' = "idle" /\ report' = "failed"
      BY <1>1, <1>2, <1>13, EndReleases
    <2>2. MarkOK' /\ ReportOK'
      BY <1>2, <2>1 DEF IInv, MarkOK, ReportOK, RestoredIsBaseline
    <2> QED BY <1>9, <1>10, <1>11, <1>12, <2>1, <2>2 DEF IInv
  <1>14. CASE /\ at' = "discard"
              /\ UNCHANGED <<actor, todo, moved, drift, listed, report, lease, step>>
    <2>1. RestoreLeaves
      BY <1>1, <1>14 DEF RestoreLeaves, receiptVars, ghostVars
    <2>2. /\ at' \in Places \ {"idle", "finish"} /\ todo \subseteq Nodes /\ todo # {}
          /\ moved \subseteq Contents /\ drift \in BOOLEAN /\ DOMAIN listed \subseteq Names
      BY <1>3, <1>14 DEF IInv, RunTyped, Places
    <2>3. RunTyped' /\ LeaseOK' /\ BaselineOK' /\ ReportOK' /\ AuthOK'
      BY <1>1, <1>14, <2>1, <2>2, RestoreKeeps
    <2>4. VisitedOK' /\ ListedOK'
      BY <1>1, <1>2, <1>3, <1>5, <1>14 DEF IInv, VisitedOK, ListedOK
    <2>5. Here' = Here /\ "absent" \notin live
      BY <1>2, <1>8, <1>14, HereKept, KnownContents
    <2>6. MovedOK' /\ MarkOK'
      BY <1>1, <1>2, <1>5, <1>14, <2>5 DEF IInv, MovedOK, MarkOK
    <2> QED BY <1>9, <1>10, <1>11, <1>12, <2>3, <2>4, <2>6 DEF IInv
  <1> QED BY <1>1, <1>13, <1>14

LEMMA DiscardStep == IInv /\ Discard => IInv'
  <1> SUFFICES ASSUME IInv, Discard PROVE IInv'
    OBVIOUS
  <1>1. /\ actor # "none" /\ at = "discard" /\ at' = "sift" /\ RestoreLeaves
        /\ extras' = [extras EXCEPT ![Up] = @ \ moved]
        /\ UNCHANGED <<listed, disk, obj, image, units, fwd, quarantine, todo, moved, drift, seen>>
    BY DEF Discard, Restoring
  <1>2. UNCHANGED <<receipt, base, live, acked, used, actor>>
    BY <1>1 DEF RestoreLeaves, bounds
  <1>3. at \in Visiting
    BY <1>1 DEF Visiting, Places
  <1>4. /\ fwd \in Forwards /\ quarantine \subseteq Contents /\ drift' \in BOOLEAN
        /\ todo \subseteq Nodes /\ todo # {} /\ disk \in [Nodes -> Contents]
        /\ extras \in [Dirs \cup {Root} -> SUBSET Contents] /\ moved \subseteq Contents
        /\ at' \in Places \ {"idle", "finish"} /\ moved \subseteq quarantine
    BY <1>1, <1>3 DEF IInv, HostTyped, ReceiptTyped, RunTyped, Places, MovedOK
  <1>5. /\ extras' \in [Dirs \cup {Root} -> SUBSET Contents]
        /\ \A d \in Dirs \cup {Root} :
             extras'[d] \subseteq extras[d] /\ extras[d] \subseteq extras'[d] \cup moved
    BY <1>1, <1>4
  <1>6. /\ RunTyped' /\ LeaseOK' /\ BaselineOK' /\ ReportOK' /\ AuthOK'
        /\ HostTyped' /\ ReceiptTyped' /\ ListedOK'
    BY <1>1, <1>4, <1>5, PathKeeps
  <1>7. TreeOK' /\ ForeignOK'
    BY <1>1, <1>2, <1>5 DEF IInv, TreeOK, InDir, ForeignOK
  <1>8. NothingLost'
    BY <1>1, <1>2, <1>4, <1>5, StillThere, Whereabouts
  <1>9. Here' = Here
    BY <1>1, <1>2, HereKept
  <1>10. VisitedOK' /\ MovedOK' /\ MarkOK'
    BY <1>1, <1>2, <1>9 DEF IInv, VisitedOK, MovedOK, MarkOK
  <1> QED BY <1>6, <1>7, <1>8, <1>10 DEF IInv

LEMMA SiftStep == IInv /\ Sift => IInv'
  <1> SUFFICES ASSUME IInv, Sift PROVE IInv'
    OBVIOUS
  <1>1. /\ actor # "none" /\ at = "sift" /\ RestoreLeaves
        /\ \/ quarantine' = quarantine \ {"new"} /\ drift' = drift
           \/ quarantine' = quarantine /\ drift' = TRUE
        /\ \/ base.disk[Here] = "absent" /\ Onward
           \/ base.disk[Here] # "absent" /\ at' = "put" /\ UNCHANGED <<todo, moved>>
        /\ UNCHANGED <<listed, disk, extras, obj, image, units, fwd, seen>>
    BY DEF Sift, Restoring, WasAbsent
  <1>2. UNCHANGED <<receipt, base, live, acked, used, actor>>
    BY <1>1 DEF RestoreLeaves, bounds
  <1>3. at \in Visiting
    BY <1>1 DEF Visiting, Places
  <1>4. /\ fwd \in Forwards /\ quarantine' \subseteq Contents /\ drift' \in BOOLEAN
        /\ todo \subseteq Nodes /\ todo # {} /\ disk \in [Nodes -> Contents]
        /\ extras \in [Dirs \cup {Root} -> SUBSET Contents] /\ moved \subseteq Contents
        /\ live \subseteq Versions /\ base \in Receipts
    BY <1>1, <1>3 DEF IInv, HostTyped, ReceiptTyped, RunTyped, ForeignOK
  <1>5. /\ at' \in {"check", "verify", "put"} /\ todo' \subseteq Nodes
        /\ (at' \in Visiting => todo' # {}) /\ moved' \subseteq Contents
        /\ at' \in Places \ {"idle", "finish"} /\ (at' = "put" => todo' = todo)
    <2>1. CASE Onward
      BY <1>3, <2>1, OnwardFacts DEF Places
    <2>2. CASE at' = "put" /\ UNCHANGED <<todo, moved>>
      BY <1>4, <2>2 DEF Places
    <2> QED BY <1>1, <2>1, <2>2
  <1>6. /\ RunTyped' /\ LeaseOK' /\ BaselineOK' /\ ReportOK' /\ AuthOK'
        /\ HostTyped' /\ ReceiptTyped' /\ ListedOK'
    BY <1>1, <1>4, <1>5, PathKeeps
  <1>7. TreeOK' /\ ForeignOK'
    BY <1>1, <1>2 DEF IInv, TreeOK, InDir, ForeignOK
  <1>8. NothingLost'
    <2>1. "new" \notin live
      BY <1>4, KnownContents
    <2> QED BY <1>1, <1>2, <1>4, <2>1, StillThere, Whereabouts
  <1>9. VisitedOK'
    <2> SUFFICES ASSUME NEW d \in Dirs \ todo', base.disk[d] = "directory"
                 PROVE  disk[d] = "directory"
      BY <1>1, <1>2 DEF VisitedOK
    <2>1. d \notin todo
      BY <1>1 DEF Onward
    <2> QED BY <1>1, <2>1 DEF IInv, VisitedOK
  <1>10. MovedOK'
    <2>1. at' = "put" => Here' = Here /\ base.disk[Here] # "absent"
      BY <1>1, <1>2, <1>3, <1>5, HereKept, OnwardFacts
    <2> QED BY <1>1, <1>2, <1>5, <2>1 DEF IInv, MovedOK
  <1>11. MarkOK'
    BY <1>1, <1>2, <1>5 DEF IInv, MarkOK
  <1> QED BY <1>6, <1>7, <1>8, <1>9, <1>10, <1>11 DEF IInv

LEMMA PutStep == IInv /\ Put => IInv'
  <1> SUFFICES ASSUME IInv, Put PROVE IInv'
    OBVIOUS
  <1>1. /\ actor # "none" /\ at = "put" /\ RestoreLeaves /\ Onward
        /\ (Here \in Dirs => disk[Here] = "absent")
        /\ disk' = [disk EXCEPT ![Here] = base.disk[Here]]
        /\ UNCHANGED <<listed, extras, obj, image, units, fwd, quarantine, drift, seen>>
    BY DEF Put, Restoring
  <1>2. UNCHANGED <<receipt, base, live, acked, used, actor>>
    BY <1>1 DEF RestoreLeaves, bounds
  <1>3. /\ at \in Visiting /\ Here \in todo /\ Here \in Nodes
        /\ Here \in Files /\ base.disk[Here] = "old" /\ Parent[Here] # Root =>
             Parent[Here] \in Dirs /\ disk[Parent[Here]] = "directory"
    <2>1. at \in Visiting
      BY <1>1 DEF Visiting, Places
    <2> QED BY <2>1, HereFacts
  <1>4. /\ fwd \in Forwards /\ quarantine \subseteq Contents /\ drift \in BOOLEAN
        /\ disk \in [Nodes -> Contents] /\ live \subseteq Versions
        /\ extras \in [Dirs \cup {Root} -> SUBSET Contents]
        /\ base.disk \in [Nodes -> Contents] /\ Plain(base.disk)
    BY DEF IInv, HostTyped, ReceiptTyped, RunTyped, ForeignOK, Receipts, BaselineOK
  <1>5. /\ todo' = todo \ {Here} /\ moved' = {} /\ at' \in {"check", "verify"}
        /\ todo' \subseteq Nodes /\ (at' \in Visiting => todo' # {})
    BY <1>1, <1>3, OnwardFacts
  <1>6. /\ disk' \in [Nodes -> Contents]
        /\ \A n \in Nodes : disk'[n] = IF n = Here THEN base.disk[Here] ELSE disk[n]
    BY <1>1, <1>3, <1>4
  <1>7. /\ RunTyped' /\ LeaseOK' /\ BaselineOK' /\ ReportOK' /\ AuthOK'
        /\ HostTyped' /\ ReceiptTyped' /\ ListedOK'
    <2>1. at' \in Places \ {"idle", "finish"} /\ moved' \subseteq Contents
      BY <1>5 DEF Places
    <2> QED BY <1>1, <1>4, <1>5, <1>6, <2>1, PathKeeps
  <1>8. TreeOK'
    <2> SUFFICES ASSUME NEW d \in Dirs, disk'[d] # "directory"
                 PROVE  extras[d] = {} /\ \A f \in InDir(d) : disk'[f] = "absent"
      BY <1>1 DEF TreeOK, InDir
    <2>1. disk[d] # "directory"
      BY <1>1, <1>6, DirsAndFiles
    <2>2. extras[d] = {} /\ \A f \in InDir(d) : disk[f] = "absent"
      BY <2>1 DEF IInv, TreeOK
    <2>3. ASSUME NEW f \in InDir(d) PROVE disk'[f] = "absent"
      <3>1. f \in Files /\ f \in Nodes /\ Parent[f] = d /\ d # Root
        BY DirsAndFiles DEF InDir
      <3>2. f = Here => base.disk[f] # "old"
        BY <1>3, <2>1, <3>1
      <3>3. base.disk[f] \in {"old", "absent"}
        BY <1>4, <3>1 DEF Plain
      <3> QED BY <1>6, <2>2, <3>1, <3>2, <3>3
    <2> QED BY <2>2, <2>3
  <1>9. base.disk[Here] \in {"old", "absent", "directory"}
    BY <1>3, <1>4, DirsAndFiles DEF Plain
  <1>10. ForeignOK'
    BY <1>1, <1>2, <1>6, <1>9, KnownContents DEF IInv, ForeignOK
  <1>11. NothingLost'
    <2>1. disk[Here] \in live => disk'[Here] = disk[Here]
      <3>1. Here \in Dirs => disk[Here] \notin live
        BY <1>1, <1>4, KnownContents
      <3>2. Here \in Files /\ base.disk[Here] # "absent" => disk[Here] \notin live
        BY <1>1 DEF IInv, MovedOK
      <3>3. base.disk[Here] # "absent"
        BY <1>1 DEF IInv, MovedOK
      <3> QED BY <1>3, <3>1, <3>2, <3>3, DirsAndFiles
    <2> QED BY <1>1, <1>2, <1>4, <1>6, <2>1, StillThere, Whereabouts
  <1>12. VisitedOK'
    BY <1>1, <1>2, <1>5, <1>6, DirsAndFiles DEF IInv, VisitedOK
  <1>13. MovedOK' /\ MarkOK'
    BY <1>1, <1>2, <1>5 DEF IInv, MovedOK, MarkOK
  <1> QED BY <1>7, <1>8, <1>10, <1>11, <1>12, <1>13 DEF IInv

-----------------------------------------------------------------------------
(* The operator and everybody else. *)

LEMMA RestoreStartStep ==
    ASSUME IInv, NEW who \in {"trap", "operator"}, RestoreStart(who) PROVE IInv'
  <1>1. /\ receipt = "ready" /\ touched' = FALSE
        /\ UNCHANGED <<disk, extras, obj, image, account, auth, receiptVars, drift, bounds,
                       live, seen, acked>>
    BY DEF RestoreStart, Verified
  <1>2. /\ who = "operator" => lease = {} /\ actor # "operator"
        /\ who = "trap" => "child" \in lease /\ actor = "none" /\ step = "failed"
    <2>1. CASE who = "operator"
      BY <2>1 DEF RestoreStart, LockFree
    <2>2. CASE who = "trap"
      BY <2>2 DEF RestoreStart, Child
    <2> QED BY <2>1, <2>2
  <1>3. actor = "none" /\ at = "idle" /\ step \in {"off", "failed"} /\ RunTyped
    BY <1>2 DEF IInv, LeaseOK, RunTyped
  <1>4. UNCHANGED <<receipt, base, fwd, quarantine, ids, used>>
    BY <1>1 DEF receiptVars, bounds
  <1>5. TreeOK' /\ ForeignOK' /\ NothingLost'
    BY <1>1, <1>4, FilesKept
  <1>6. ReceiptTyped'
    BY <1>4 DEF IInv, ReceiptTyped
  <1>7. BaselineOK'
    BY <1>1, <1>4 DEF IInv, BaselineOK, Plain
  <1>8. CASE fwd.outcome = "quarantined" \/ Unresolved
    <2>1. /\ report' \in {"quarantined", "incomplete"}
          /\ lease' = IF who = "trap" THEN LeaseAfterChild ELSE lease
          /\ step' = IF who = "trap" THEN "off" ELSE step
          /\ UNCHANGED <<actor, at, todo, moved, listed, units>>
      BY <1>8 DEF RestoreStart
    <2>2. LeaseAfterChild \subseteq lease /\ "child" \notin LeaseAfterChild
      BY <1>3, AfterChild
    <2>3. step' \in Steps /\ lease' \subseteq lease /\ step' \in {"off", "failed"}
      BY <1>3, <2>1, <2>2 DEF Steps
    <2>4. RunTyped'
      BY <1>1, <1>3, <1>4, <2>1, <2>3 DEF RunTyped
    <2>5. LeaseOK'
      BY <1>3, <2>1, <2>2 DEF IInv, LeaseOK
    <2>6. HostTyped'
      BY <1>1, <2>1 DEF IInv, HostTyped
    <2>7. VisitedOK' /\ MovedOK' /\ ListedOK'
      BY <1>3, <2>1 DEF VisitedOK, MovedOK, ListedOK
    <2>8. MarkOK' /\ ReportOK'
      BY <1>1, <1>3, <1>4, <2>1 DEF IInv, MarkOK, ReportOK, RestoredIsBaseline
    <2>9. AuthOK'
      BY <1>1, <2>1, <2>3 DEF IInv, AuthOK, RegistryAuthGone
    <2> QED BY <1>5, <1>6, <1>7, <2>4, <2>5, <2>6, <2>7, <2>8, <2>9 DEF IInv
  <1>9. CASE ~(fwd.outcome = "quarantined" \/ Unresolved)
    <2>1. /\ actor' = who /\ at' = "outcome" /\ todo' = Nodes
          /\ listed' = [o \in Added |-> obj[o]] /\ units' = "stopped" /\ report' = "none"
          /\ UNCHANGED <<lease, step, moved>>
      BY <1>9 DEF RestoreStart, StopForRestore
    <2>2. DOMAIN listed' = Added /\ Added \subseteq Names
      BY <2>1 DEF Added
    <2>3. RunTyped'
      <3>1. at' \in Places /\ todo' # {}
        BY <2>1, RollbackAssumption DEF Places
      <3>2. (actor' = "none") = (at' = "idle")
        BY <2>1
      <3> QED BY <1>1, <1>3, <1>4, <2>1, <2>2, <3>1, <3>2 DEF RunTyped
    <2>4. LeaseOK'
      BY <1>2, <2>1 DEF IInv, LeaseOK
    <2>5. HostTyped'
      BY <1>1, <2>1 DEF IInv, HostTyped
    <2>6. VisitedOK'
      BY <2>1, DirsAndFiles DEF VisitedOK
    <2>7. MovedOK' /\ MarkOK'
      BY <1>1, <1>4, <1>9, <2>1 DEF IInv, MovedOK, MarkOK
    <2>8. ReportOK'
      BY <2>1 DEF ReportOK, RestoredIsBaseline
    <2>9. AuthOK'
      BY <1>3, <2>1 DEF AuthOK, RegistryAuthGone
    <2>10. ListedOK'
      <3> SUFFICES ASSUME NEW o \in Objects, o \in Added
                   PROVE  base.obj[o] = 0 /\ fwd.ids[o] = listed'[o]
        BY <1>4, <2>2 DEF ListedOK
      <3>1. listed'[o] = obj[o] /\ base.obj[o] = 0 /\ obj[o] # 0
        BY <2>1 DEF Added
      <3>2. fwd.ids[o] = obj[o]
        BY <1>9, <3>1 DEF Unresolved
      <3> QED BY <3>1, <3>2
    <2> QED BY <1>5, <1>6, <1>7, <2>3, <2>4, <2>5, <2>6, <2>7, <2>8, <2>9, <2>10 DEF IInv
  <1> QED BY <1>8, <1>9

LEMMA AcknowledgeStep == IInv /\ Acknowledge => IInv'
  <1> SUFFICES ASSUME IInv, Acknowledge PROVE IInv'
    OBVIOUS
  <1>1. /\ receipt = "ready" /\ lease = {} /\ actor # "operator"
        /\ fwd' = [fwd EXCEPT !.outcome = "acknowledged"] /\ acked' = acked \cup quarantine
        /\ UNCHANGED <<hostVars, receipt, base, quarantine, lease, step, restoreVars,
                       bounds, live, seen, touched>>
    BY DEF Acknowledge, Verified, LockFree
  <1>2. actor = "none" /\ at = "idle"
    BY <1>1 DEF IInv, LeaseOK, RunTyped
  <1>3. actor' = "none" /\ at' = "idle"
    BY <1>1, <1>2 DEF restoreVars
  <1>4. fwd' \in Forwards
    BY <1>1 DEF IInv, ReceiptTyped, Forwards
  <1>5. TreeOK' /\ ForeignOK' /\ NothingLost'
    BY <1>1, FilesKept DEF hostVars, bounds
  <1>6. HostTyped' /\ ReceiptTyped'
    BY <1>1, <1>4 DEF IInv, HostTyped, ReceiptTyped, hostVars
  <1>7. RunTyped' /\ LeaseOK'
    BY <1>1 DEF IInv, RunTyped, LeaseOK, restoreVars, bounds
  <1>8. BaselineOK' /\ AuthOK'
    BY <1>1 DEF IInv, BaselineOK, Plain, AuthOK, RegistryAuthGone, hostVars
  <1>9. VisitedOK' /\ MovedOK' /\ ListedOK'
    BY <1>3 DEF VisitedOK, MovedOK, ListedOK
  <1>10. MarkOK'
    BY <1>1, <1>3 DEF MarkOK
  <1>11. ReportOK'
    BY <1>1, <1>3 DEF IInv, ReportOK, RestoredIsBaseline, restoreVars, hostVars
  <1> QED BY <1>5, <1>6, <1>7, <1>8, <1>9, <1>10, <1>11 DEF IInv

LEMMA RemoveAccountStep == IInv /\ RemoveAccount => IInv'
  <1> SUFFICES ASSUME IInv, RemoveAccount PROVE IInv'
    OBVIOUS
  <1>1. /\ receipt = "ready" /\ actor = "none"
        /\ account' = FALSE /\ auth' = FALSE /\ touched' = TRUE
        /\ UNCHANGED <<disk, extras, obj, image, units, receiptVars, lease, step, restoreVars,
                       bounds, live, seen, acked>>
    BY DEF RemoveAccount
  <1>2. actor' = "none" /\ at' = "idle"
    BY <1>1 DEF IInv, RunTyped, restoreVars
  <1>3. TreeOK' /\ ForeignOK' /\ NothingLost'
    BY <1>1, FilesKept DEF receiptVars, bounds
  <1>4. HostTyped' /\ ReceiptTyped'
    BY <1>1 DEF IInv, HostTyped, ReceiptTyped, receiptVars
  <1>5. RunTyped' /\ LeaseOK'
    BY <1>1 DEF IInv, RunTyped, LeaseOK, restoreVars, bounds
  <1>6. BaselineOK' /\ AuthOK'
    BY <1>1 DEF IInv, BaselineOK, Plain, AuthOK, RegistryAuthGone, receiptVars
  <1>7. VisitedOK' /\ MovedOK' /\ ListedOK'
    BY <1>2 DEF VisitedOK, MovedOK, ListedOK
  <1>8. MarkOK' /\ ReportOK'
    BY <1>1, <1>2 DEF IInv, MarkOK, ReportOK, RestoredIsBaseline, restoreVars, receiptVars
  <1> QED BY <1>3, <1>4, <1>5, <1>6, <1>7, <1>8 DEF IInv

LEMMA ForeignKeeps ==
    ASSUME IInv, receipt = "ready", Foreign, UNCHANGED <<units, auth>>,
           ids' \in 1 .. MaxIds, used' \subseteq Versions
    PROVE  /\ RunTyped' /\ LeaseOK' /\ BaselineOK' /\ ReportOK' /\ AuthOK'
           /\ ListedOK' /\ ReceiptTyped' /\ Here' = Here
  <1>1. /\ touched' = TRUE
        /\ UNCHANGED <<receiptVars, lease, step, restoreVars, seen, acked>>
    BY DEF Foreign
  <1>2. RunTyped' /\ LeaseOK'
    BY <1>1 DEF IInv, RunTyped, LeaseOK, restoreVars
  <1>3. BaselineOK' /\ ReceiptTyped'
    BY <1>1 DEF IInv, BaselineOK, Plain, ReceiptTyped, receiptVars
  <1>4. ReportOK' /\ AuthOK' /\ ListedOK'
    BY <1>1 DEF IInv, ReportOK, RestoredIsBaseline, AuthOK, RegistryAuthGone, ListedOK,
                restoreVars, receiptVars
  <1>5. Here' = Here
    BY <1>1, HereKept DEF restoreVars, receiptVars
  <1> QED BY <1>2, <1>3, <1>4, <1>5

LEMMA EditFileStep == ASSUME IInv, NEW f \in Files, EditFile(f) PROVE IInv'
  <1>1. PICK c \in {Fresh, "absent"} :
          /\ disk' = [disk EXCEPT ![f] = c]
          /\ live' = (live \ {disk[f]}) \cup
               (IF c = "absent" \/ Overwritable(f) THEN {} ELSE {c})
    BY DEF EditFile
  <1>2. /\ receipt = "ready" /\ used # Versions /\ Exists(Parent[f]) /\ Foreign
        /\ used' = used \cup {Fresh} /\ UNCHANGED <<extras, obj, image, units, account, auth, ids>>
    BY DEF EditFile
  <1>3. UNCHANGED <<receipt, base, fwd, quarantine, actor, at, todo, moved, seen, acked>>
    BY <1>2 DEF Foreign, receiptVars, restoreVars
  <1>4. /\ used \subseteq Versions /\ disk \in [Nodes -> Contents] /\ live \subseteq used
        /\ seen \subseteq used /\ ids \in 1 .. MaxIds
        /\ extras \in [Dirs \cup {Root} -> SUBSET Contents]
        /\ \A n \in Nodes : disk[n] \in Versions => disk[n] \in used
    BY DEF IInv, RunTyped, HostTyped, ForeignOK
  <1>5. /\ Fresh \in Versions /\ Fresh \notin used /\ Fresh \in Contents
        /\ Fresh \notin {"absent", "directory", "old", "new"}
    BY <1>2, <1>4, FreshIsNew
  <1>6. /\ RunTyped' /\ LeaseOK' /\ BaselineOK' /\ ReportOK' /\ AuthOK'
        /\ ListedOK' /\ ReceiptTyped' /\ Here' = Here
    BY <1>2, <1>4, <1>5, ForeignKeeps
  <1>7. f \in Nodes /\ f \notin Dirs
    BY DirsAndFiles
  <1>8. /\ c \in Contents /\ c \notin used /\ (c \in Versions => c = Fresh)
        /\ c \notin live /\ c \notin seen
    BY <1>4, <1>5, KnownContents
  <1>9. /\ disk' \in [Nodes -> Contents]
        /\ \A n \in Nodes : disk'[n] = IF n = f THEN c ELSE disk[n]
    BY <1>1, <1>4, <1>7, <1>8
  <1>10. HostTyped'
    BY <1>2, <1>9 DEF IInv, HostTyped
  <1>11. TreeOK'
    <2> SUFFICES ASSUME NEW d \in Dirs, disk'[d] # "directory"
                 PROVE  extras[d] = {} /\ \A g \in InDir(d) : disk'[g] = "absent"
      BY <1>2 DEF TreeOK, InDir
    <2>1. d \in Nodes /\ d # Root /\ disk[d] # "directory"
      BY <1>7, <1>9, DirsAndFiles
    <2>2. f \notin InDir(d)
      BY <1>2, <2>1 DEF InDir, Exists
    <2>3. \A g \in InDir(d) : g \in Nodes /\ g # f
      BY <2>2, DirsAndFiles DEF InDir
    <2> QED BY <1>9, <2>1, <2>3 DEF IInv, TreeOK
  <1>12. live' \subseteq live \cup {c} /\ disk[f] \notin live' \ {c} /\ live' \subseteq used'
    BY <1>1, <1>2, <1>4, <1>8
  <1>13. ForeignOK'
    BY <1>2, <1>3, <1>8, <1>9, <1>12 DEF IInv, ForeignOK
  <1>14. NothingLost'
    <2> SUFFICES ASSUME NEW v \in live'
                 PROVE  \/ \E n \in Nodes : v = disk'[n]
                        \/ \E d \in Dirs \cup {Root} : v \in extras'[d]
                        \/ v \in quarantine'
      BY <1>2, <1>4, StillThere
    <2>1. CASE v = c
      BY <1>7, <1>9, <2>1
    <2>2. CASE v # c
      <3>1. v \in live /\ v # disk[f]
        BY <1>12, <2>2
      <3>2. \A n \in Nodes : v = disk[n] => v = disk'[n]
        BY <1>9, <3>1
      <3> QED BY <1>2, <1>3, <3>1, <3>2, Whereabouts
    <2> QED BY <2>1, <2>2
  <1>15. VisitedOK'
    BY <1>3, <1>7, <1>9, DirsAndFiles DEF IInv, VisitedOK
  <1>16. MovedOK'
    <2> SUFFICES ASSUME at \in {"discard", "sift", "put"}, Here \in Files,
                        base.disk[Here] # "absent"
                 PROVE  disk'[Here] \notin live'
      BY <1>3, <1>6 DEF IInv, MovedOK
    <2>1. Here \in Nodes /\ disk[Here] \notin live
      BY DirsAndFiles DEF IInv, MovedOK
    <2>2. CASE Here = f
      <3>1. Overwritable(f)
        BY <2>2 DEF Overwritable, WasAbsent
      <3>2. live' \subseteq live
        BY <1>1, <3>1
      <3> QED BY <1>8, <1>9, <2>1, <2>2, <3>2
    <2>3. CASE Here # f
      <3>1. disk[Here] # c \/ c \notin live'
        BY <1>1, <1>4, <1>8, <2>1, <1>5
      <3> QED BY <1>9, <1>12, <2>1, <2>3, <3>1
    <2> QED BY <2>2, <2>3
  <1>17. MarkOK'
    BY <1>3, <1>6, <1>8, <1>9, DirsAndFiles DEF IInv, MarkOK
  <1> QED BY <1>6, <1>10, <1>11, <1>13, <1>14, <1>15, <1>16, <1>17 DEF IInv

LEMMA EditDirStep == ASSUME IInv, NEW d \in Dirs, EditDir(d) PROVE IInv'
  <1>1. /\ receipt = "ready" /\ used # Versions /\ Foreign
        /\ used' = used \cup {Fresh} /\ live' = live \cup {Fresh}
        /\ UNCHANGED <<obj, image, units, account, auth, ids>>
    BY DEF EditDir
  <1>2. \/ disk[d] = "absent" /\ disk' = [disk EXCEPT ![d] = Fresh] /\ UNCHANGED extras
        \/ /\ disk[d] = "directory" /\ UNCHANGED disk
           /\ extras' = [extras EXCEPT ![d] = @ \cup {Fresh}]
    BY DEF EditDir
  <1>3. UNCHANGED <<receipt, base, fwd, quarantine, actor, at, todo, moved, seen, acked>>
    BY <1>1 DEF Foreign, receiptVars, restoreVars
  <1>4. /\ used \subseteq Versions /\ disk \in [Nodes -> Contents] /\ live \subseteq used
        /\ seen \subseteq used /\ ids \in 1 .. MaxIds
        /\ extras \in [Dirs \cup {Root} -> SUBSET Contents]
        /\ \A n \in Nodes : disk[n] \in Versions => disk[n] \in used
    BY DEF IInv, RunTyped, HostTyped, ForeignOK
  <1>5. /\ Fresh \in Versions /\ Fresh \notin used /\ Fresh \in Contents
        /\ Fresh \notin {"absent", "directory", "old", "new"}
    BY <1>1, <1>4, FreshIsNew
  <1>6. /\ RunTyped' /\ LeaseOK' /\ BaselineOK' /\ ReportOK' /\ AuthOK'
        /\ ListedOK' /\ ReceiptTyped' /\ Here' = Here
    BY <1>1, <1>4, <1>5, ForeignKeeps
  <1>7. d \in Nodes /\ d \notin Files
    BY DirsAndFiles
  <1>8. /\ disk' \in [Nodes -> Contents]
        /\ \A n \in Nodes : disk'[n] = disk[n] \/ (n = d /\ disk[d] = "absent" /\ disk'[d] = Fresh)
    BY <1>2, <1>4, <1>5, <1>7
  <1>9. /\ extras' \in [Dirs \cup {Root} -> SUBSET Contents]
        /\ \A e \in Dirs \cup {Root} :
             /\ extras[e] \subseteq extras'[e] /\ extras'[e] \subseteq extras[e] \cup {Fresh}
             /\ extras'[e] # extras[e] => e = d /\ disk[d] = "directory"
    BY <1>2, <1>4, <1>5
  <1>10. disk'[d] = Fresh \/ Fresh \in extras'[d]
    BY <1>2, <1>4, <1>7
  <1>11. HostTyped'
    BY <1>1, <1>8, <1>9 DEF IInv, HostTyped
  <1>12. TreeOK'
    <2> SUFFICES ASSUME NEW e \in Dirs, disk'[e] # "directory"
                 PROVE  extras'[e] = {} /\ \A g \in InDir(e) : disk'[g] = "absent"
      BY DEF TreeOK, InDir
    <2>1. disk[e] # "directory"
      BY <1>8, DirsAndFiles
    <2>2. \A g \in InDir(e) : g \in Nodes /\ g # d
      BY <1>7, DirsAndFiles DEF InDir
    <2> QED BY <1>8, <1>9, <2>1, <2>2 DEF IInv, TreeOK
  <1>13. ForeignOK'
    <2>1. \A n \in Nodes : disk'[n] \in Versions => disk'[n] \in used'
      BY <1>1, <1>4, <1>8
    <2>2. \A e \in Dirs \cup {Root} : extras'[e] \cap Versions \subseteq used'
      BY <1>1, <1>9 DEF IInv, ForeignOK
    <2> QED BY <1>1, <1>3, <1>4, <2>1, <2>2 DEF ForeignOK
  <1>14. NothingLost'
    <2> SUFFICES ASSUME NEW v \in live'
                 PROVE  \/ \E n \in Nodes : v = disk'[n]
                        \/ \E e \in Dirs \cup {Root} : v \in extras'[e]
                        \/ v \in quarantine'
      BY <1>9, StillThere
    <2>1. CASE v = Fresh
      BY <1>7, <1>10, <2>1
    <2>2. CASE v \in live
      <3>1. v # "absent"
        BY <1>4, <2>2, KnownContents
      <3>2. \A n \in Nodes : v = disk[n] => v = disk'[n]
        BY <1>8, <3>1
      <3> QED BY <1>3, <1>9, <2>2, <3>2, Whereabouts
    <2> QED BY <1>1, <2>1, <2>2
  <1>15. VisitedOK'
    BY <1>3, <1>8, DirsAndFiles DEF IInv, VisitedOK
  <1>16. \A f \in Files : disk'[f] = disk[f] /\ disk[f] # Fresh
    BY <1>4, <1>5, <1>7, <1>8, DirsAndFiles
  <1>17. MovedOK' /\ MarkOK'
    BY <1>1, <1>3, <1>6, <1>16 DEF IInv, MovedOK, MarkOK
  <1> QED BY <1>6, <1>11, <1>12, <1>13, <1>14, <1>15, <1>17 DEF IInv

LEMMA EditObjectStep == ASSUME IInv, NEW o \in Names, EditObject(o) PROVE IInv'
  <1>1. /\ receipt = "ready" /\ used # Versions /\ used' = used \cup {Fresh} /\ Foreign
        /\ UNCHANGED <<disk, extras, image, units, account, auth, live>>
    BY DEF EditObject
  <1>2. UNCHANGED <<receipt, base, fwd, quarantine, actor, at, todo, moved, seen, acked>>
    BY <1>1 DEF Foreign, receiptVars, restoreVars
  <1>3. used \subseteq Versions /\ ids \in 1 .. MaxIds /\ MaxIds \in Nat
    BY RollbackAssumption DEF IInv, RunTyped
  <1>4. Fresh \in Versions
    BY <1>1, <1>3, FreshIsNew
  <1>5. PICK n : n = ids + 1
    OBVIOUS
  <1>6. \/ obj' = [obj EXCEPT ![o] = 0] /\ ids' = ids
        \/ ids < MaxIds /\ ids' = n /\ obj' = [obj EXCEPT ![o] = n]
    BY <1>5 DEF EditObject
  <1>7. 0 \in 0 .. MaxIds /\ (ids < MaxIds => n \in 1 .. MaxIds /\ n \in 0 .. MaxIds)
    BY <1>3, <1>5
  <1>8. obj' \in [Names -> 0 .. MaxIds] /\ ids' \in 1 .. MaxIds
    BY <1>3, <1>6, <1>7 DEF IInv, HostTyped
  <1>9. /\ RunTyped' /\ LeaseOK' /\ BaselineOK' /\ ReportOK' /\ AuthOK'
        /\ ListedOK' /\ ReceiptTyped' /\ Here' = Here
    BY <1>1, <1>3, <1>4, <1>8, ForeignKeeps
  <1>10. HostTyped'
    BY <1>1, <1>8 DEF IInv, HostTyped
  <1>11. TreeOK' /\ ForeignOK' /\ NothingLost'
    BY <1>1, <1>2 DEF IInv, TreeOK, InDir, ForeignOK, NothingLost
  <1>12. VisitedOK' /\ MovedOK' /\ MarkOK'
    BY <1>1, <1>2, <1>9 DEF IInv, VisitedOK, MovedOK, MarkOK
  <1> QED BY <1>9, <1>10, <1>11, <1>12 DEF IInv

-----------------------------------------------------------------------------
(* The specification. *)

LEMMA StutterStep == IInv /\ UNCHANGED vars => IInv'
  <1> SUFFICES ASSUME IInv, UNCHANGED vars PROVE IInv'
    OBVIOUS
  <1> USE DEF vars, hostVars, receiptVars, restoreVars, bounds, ghostVars
  <1>1. HostTyped' /\ ReceiptTyped'
    BY DEF IInv, HostTyped, ReceiptTyped
  <1>2. RunTyped' /\ LeaseOK'
    BY DEF IInv, RunTyped, LeaseOK
  <1>3. TreeOK' /\ ForeignOK' /\ NothingLost'
    BY FilesKept
  <1>4. BaselineOK' /\ VisitedOK' /\ ListedOK'
    BY DEF IInv, BaselineOK, Plain, VisitedOK, ListedOK
  <1>5. Here' = Here
    BY HereKept
  <1>6. MovedOK' /\ MarkOK'
    BY <1>5 DEF IInv, MovedOK, MarkOK
  <1>7. ReportOK' /\ AuthOK'
    BY DEF IInv, ReportOK, RestoredIsBaseline, AuthOK, RegistryAuthGone
  <1> QED BY <1>1, <1>2, <1>3, <1>4, <1>6, <1>7 DEF IInv

LEMMA InstallStep == IInv /\ Install => IInv'
  BY VerifyFreshStep, PreflightStep, AuthorizeImagesStep, StageAuthStep, PullStep,
     RemoveAuthStep, MarkCompletedStep, InstallFailsStep, AuthorizeFileStep,
     InstallFileStep, InstallDirStep, AuthorizeObjectStep, FinalizeObjectStep,
     CreateObjectStep
     DEF Install

LEMMA RestoreStep == IInv /\ Restore => IInv'
  BY RecordRetainedStep, RemoveImagesStep, CheckStep, MoveStep, CopyStep, StageStep,
     DiscardStep, SiftStep, PutStep, VerifyPathsStep, FinishStep, ChangedStep,
     RemoveObjectStep
     DEF Restore

LEMMA NextStep == IInv /\ [Next]_vars => IInv'
  BY CaptureStep, RecaptureStep, LeaseExecStep, InstallStep, RestoreStep,
     LeaveResidualStep, ResidualEndsStep, KillParentStep, KillChildStep, AbortStep,
     RestoreStartStep, AcknowledgeStep, RemoveAccountStep, EditFileStep, EditDirStep,
     EditObjectStep, StutterStep
     DEF Next

\* The inductive invariant holds in every state of a release transaction.
THEOREM Invariance == Spec => []IInv
  BY InitIInv, NextStep, PTL DEF Spec

LEMMA IInvIsTyped == IInv => TypeOK
  BY DEF IInv, TypeOK, HostTyped, ReceiptTyped, RunTyped, TreeOK, Forwards

\* Every piece of the host, the receipt and the restore is well formed, and
\* nothing is inside a directory that is not there (restore_receipt).
THEOREM TypeCorrect == Spec => []TypeOK
  BY Invariance, IInvIsTyped, PTL

\* Whatever a foreign hand wrote at a managed path survives every restore,
\* on one device or across two, wherever it dies: it is at a managed path,
\* beside it or in quarantine (_quarantine_at, _cross_device_quarantine_at).
\* Only what appears there after the move and before the os.replace of the
\* baseline is not counted: that call overwrites it.
THEOREM ForeignContentSurvives == Spec => []NothingLost
  <1>1. IInv => NothingLost
    BY DEF IInv
  <1> QED BY <1>1, Invariance, PTL

\* Foreign content that a restore found and moved is announced by the outcome
\* until it is acknowledged (_mark_quarantined before _quarantine_at).
THEOREM QuarantineIsAnnounced == Spec => []QuarantineMarked
  <1>1. IInv => QuarantineMarked
    BY DEF IInv, MarkOK, QuarantineMarked
  <1> QED BY <1>1, Invariance, PTL

\* A reported success is the captured host, as long as nobody else touches it
\* (the lock of lease_exec and restore_receipt, verify_restored).  After an
\* installation it is reported once the operator has removed the account:
\* before that restore_units ends every restore.
THEOREM SuccessIsTheBaseline == Spec => []RestoredIsBaseline
  <1>1. IInv => RestoredIsBaseline
    BY DEF IInv, ReportOK
  <1> QED BY <1>1, Invariance, PTL

\* No service of the release runs while the registry credential is staged
\* (remove_runtime_auth before the units start).
THEOREM CredentialIsGone == Spec => []RegistryAuthGone
  <1>1. IInv => RegistryAuthGone
    BY DEF IInv, AuthOK
  <1> QED BY <1>1, Invariance, PTL

\* What a step does to the podman objects while somebody restores.
Keeps ==
  \A o \in Names : obj[o] # 0 /\ obj'[o] = 0 /\ actor # "none" /\ used' = used =>
    /\ o \in Objects /\ obj[o] # base.obj[o] /\ fwd.ids[o] = obj[o]

LEMMA KeepsStep == IInv /\ [Next]_vars => Keeps
  <1> SUFFICES ASSUME IInv, [Next]_vars, NEW o \in Names, obj[o] # 0, obj'[o] = 0,
                      actor # "none", used' = used
               PROVE  o \in Objects /\ obj[o] # base.obj[o] /\ fwd.ids[o] = obj[o]
    BY DEF Keeps
  <1>1. obj' # obj /\ obj \in [Names -> 0 .. MaxIds] /\ used \subseteq Versions
    BY DEF IInv, HostTyped, RunTyped
  <1>2. CASE \E p \in Objects : RemoveObject(p)
    <2>1. PICK p \in Objects : RemoveObject(p)
      BY <1>2
    <2>2. o = p
      BY <1>1, <2>1 DEF RemoveObject
    <2>3. o \in Objects \cap DOMAIN listed /\ obj[o] = listed[o]
      BY <2>1, <2>2 DEF RemoveObject
    <2> QED BY <2>3 DEF IInv, ListedOK
  <1>3. CASE \E p \in Names : EditObject(p)
    <2>1. used # Versions /\ used' = used \cup {Fresh}
      BY <1>3 DEF EditObject
    <2>2. Fresh \notin used
      BY <1>1, <2>1, FreshIsNew
    <2> QED BY <2>1, <2>2
  <1>4. ~Install
    BY DEF Install, VerifyFresh, Preflight, AuthorizeImages, StageAuth, Pull, RemoveAuth,
           MarkCompleted, InstallFails, AuthorizeFile, InstallFile, InstallDir,
           AuthorizeObject, FinalizeObject, CreateObject, Mutating, Child
  <1>5. Restore => \E p \in Objects : RemoveObject(p)
    BY <1>1 DEF Restore, RecordRetained, RemoveImages, Check, LookLeaves, Move, Copy, Stage, Discard,
                Sift, Put, VerifyPaths, Finish, Changed, hostVars
  <1>6. Next => Restore \/ \E p \in Names : EditObject(p)
    BY <1>1, <1>4 DEF Next, Capture, Recapture, LeaseExec, LeaveResidual, ResidualEnds,
                KillParent, KillChild, Abort, RestoreStart, Acknowledge, RemoveAccount,
                EditFile, EditDir, hostVars
  <1>7. Next
    BY <1>1 DEF vars, hostVars
  <1> QED BY <1>2, <1>3, <1>5, <1>6, <1>7

\* A restore removes no volume and nothing captured, and of the new objects
\* only the very ones recorded by id (finalize_object, remove_object).
THEOREM OnlyRecordedObjectsGo == Spec => ObjectsKept
  <1>1. IInv /\ [Next]_vars => [Keeps]_vars
    BY KeepsStep
  <1>2. Spec => [][Keeps]_vars
    BY <1>1, Invariance, PTL DEF Spec
  <1> QED BY <1>2 DEF ObjectsKept, Keeps
=============================================================================
