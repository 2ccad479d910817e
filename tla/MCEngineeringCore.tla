------------------------- MODULE MCEngineeringCore -------------------------
(* Instances of EngineeringCore for TLC: which slots, processes and work   *)
(* roots there are.                                                        *)
EXTENDS EngineeringCore, TLC

CONSTANTS p1, p2, s1, s2, s3, r1, r2

(* One process, one slot. *)
OneSlotProc == [s \in {s1} |-> p1]
OneProcRoot == [p \in {p1} |-> r1]

(* Two processes, on two hosts or sharing a work root. *)
TwoProcSlots == (s1 :> p1) @@ (s2 :> p2)
TwoProcRoots == (p1 :> r1) @@ (p2 :> r2)
SharedRoot == [p \in {p1, p2} |-> r1]

(* One of the two processes has two slots (max_admitted = 2). *)
ThreeSlots == (s1 :> p1) @@ (s2 :> p1) @@ (s3 :> p2)

(* The two processes are interchangeable when each has its own slot and root. *)
SwapProcs == {(p1 :> p2) @@ (p2 :> p1) @@ (s1 :> s2) @@ (s2 :> s1) @@ (r1 :> r2) @@ (r2 :> r1)}
=============================================================================
