---------------------------- MODULE MCChainNode -----------------------------
(* ChainNode on small networks and a small tree of blocks. *)
EXTENDS ChainNode, TLC

CONSTANTS v1, v2, v3, genesis, a1, a2, b1, b2

\* Two branches from genesis.
Fork        == {a1, a2, b1, b2}
ForkParent  == (a1 :> genesis) @@ (b1 :> genesis) @@ (a2 :> a1) @@ (b2 :> b1)
ForkHeight  == (a1 :> 1) @@ (b1 :> 1) @@ (a2 :> 2) @@ (b2 :> 2)

NoneFaulty  == {}

\* Three validators, of which v3 is faulty.
Three        == {v1, v2, v3}
ThreePower   == (v1 :> 4) @@ (v2 :> 2) @@ (v3 :> 2)
ThreeOrder   == <<v1, v2, v3>>
ThreeHonest  == {v1, v2}
V3Faulty     == {v3}
ThreePropose == (a1 :> v1) @@ (a2 :> v1) @@ (b1 :> v2) @@ (b2 :> v3)

\* Two correct validators, both proposing at height 1.
Two         == {v1, v2}
TwoPower    == [v \in Two |-> 1]
TwoOrder    == <<v1, v2>>
TwoPropose  == (a1 :> v1) @@ (a2 :> v1) @@ (b1 :> v2) @@ (b2 :> v2)
=============================================================================
