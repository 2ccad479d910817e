----------------------------- MODULE MCTestWorld -----------------------------
(* Instances of TestWorld for TLC. *)
EXTENDS TestWorld, TLC

CONSTANTS w1, k1, k2, r1, r2, key1, key2

(* A world of two attempts. *)
OneWorld == (w1 :> 2)

OneRoot == [k \in {k1} |-> r1]
OwnRoots == (k1 :> r1) @@ (k2 :> r2)
=============================================================================
