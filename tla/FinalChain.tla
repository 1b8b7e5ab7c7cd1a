----------------------------- MODULE FinalChain -----------------------------
(***************************************************************************)
(* What the commit gate is there for: one chain for the whole network,     *)
(* that grows by a block that extends it and never loses one.              *)
(***************************************************************************)
EXTENDS Sequences

CONSTANTS
    Block,      \* block hashes
    Genesis,    \* the hash the first block extends
    Parent      \* header.parent_hash

VARIABLE final  \* the blocks no node will ever replace

Last(c) == IF c = <<>> THEN Genesis ELSE c[Len(c)]

Init == final = <<>>

Extend == \E b \in Block : Parent[b] = Last(final) /\ final' = Append(final, b)

Spec == Init /\ [][Extend]_final
=============================================================================
