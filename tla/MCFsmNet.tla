------------------------------ MODULE MCFsmNet ------------------------------
(* FsmNet on three validators and two blocks. *)
EXTENDS FsmNet, TLC

CONSTANTS v1, v2, v3, a, b

TwoBlocks      == {a, b}
AnyBlock       == [r \in Rounds |-> Hash]
BlockSymmetry  == Permutations({a, b})

\* v3 is faulty: v1 and v2 are a quorum, and so are v1 and v3.
Trio           == {v1, v2, v3}
UnequalTrio    == (v1 :> 4) @@ (v2 :> 2) @@ (v3 :> 2)
V3Faulty       == {v3}
=============================================================================
