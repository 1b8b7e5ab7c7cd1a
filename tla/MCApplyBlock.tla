---------------------------- MODULE MCApplyBlock ----------------------------
(* ApplyViews on a chain of three heights with a fork: one task calls apply_block on
   the follower, two on the validator; the blocks with transactions are of two accounts. *)
EXTENDS ApplyViews, MCTxs, TLC

CONSTANTS a1, b1, a2, a3, x3, genesis, inbound, producer

\* b1 competes with a1, a3 with x3, which names a1 but skips a height.
Blocks   == {a1, b1, a2, a3, x3}
Parents  == (a1 :> genesis) @@ (b1 :> genesis) @@ (a2 :> a1) @@ (a3 :> a2) @@ (x3 :> a1)
HeightOf == (genesis :> 0) @@ (a1 :> 1) @@ (b1 :> 1) @@ (a2 :> 2) @@ (a3 :> 3) @@ (x3 :> 3)

Follower   == {inbound}
ToFollower == (inbound :> Blocks)

\* A validator builds its own block b1 and hears of the others.
OnValidator == {inbound, producer}
ToValidator == (inbound :> {a1, a2, x3}) @@ (producer :> {b1})
=============================================================================
