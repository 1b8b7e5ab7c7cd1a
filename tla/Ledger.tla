------------------------------- MODULE Ledger -------------------------------
(***************************************************************************)
(* What State::apply_block promises about a node's database: the chain     *)
(* grows by one whole block that extends its last one; a block that could  *)
(* not be applied as a whole halts the node until the operator restores a  *)
(* snapshot of the chain.                                                  *)
(***************************************************************************)
EXTENDS Naturals, Sequences

CONSTANTS
    Block,      \* block hashes
    Genesis,    \* the hash the first block extends
    Parent      \* header.parent_hash

VARIABLES
    chain,      \* the blocks applied
    status      \* "clean", "applying", "halted"

TipOf(c) == IF c = <<>> THEN Genesis ELSE c[Len(c)]

Init ==
    /\ chain = <<>> \/ \E b \in Block : Parent[b] = Genesis /\ chain = <<b>>
    /\ status = "clean"

Begin ==
    /\ status = "clean" /\ status' = "applying"
    /\ UNCHANGED chain

Extend ==
    /\ status = "applying" /\ status' = "clean"
    /\ \E b \in Block : Parent[b] = TipOf(chain) /\ chain' = Append(chain, b)

Halt ==
    /\ status = "applying" /\ status' = "halted"
    /\ UNCHANGED chain

Restore ==
    /\ status = "halted" /\ status' = "clean"
    /\ \E h \in 0..Len(chain) : chain' = SubSeq(chain, 1, h)

Next == Begin \/ Extend \/ Halt \/ Restore

Spec == Init /\ [][Next]_<<chain, status>>
=============================================================================
