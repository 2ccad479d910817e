--------------------------- MODULE MCControlPlane ---------------------------
(* Instances of ControlPlane for TLC. *)
EXTENDS ControlPlane, TLC

CONSTANTS w1, w2

(* One browser tab polls while the other acts on the proposal. *)
PollAndDecide == w1 :> {"create", "dispatch", "poll"} @@ w2 :> {"approve", "reject", "export"}

(* A tab that only polls, and one that does everything else. *)
PollOnly == w1 :> {"poll"} @@ w2 :> {"create", "dispatch", "approve"}

SwapTokens == Permutations(Tokens)

(* Two tabs create, dispatch and cancel the same job, one of them polls it too. *)
TwoDispatchers == w1 :> {"create", "dispatch", "cancel", "poll"} @@ w2 :> {"create", "dispatch", "cancel"}
=============================================================================
