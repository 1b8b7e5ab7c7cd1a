---------------------------- MODULE VotingPower ----------------------------
(***************************************************************************)
(* The validator set and its 2/3+ quorum rule, shared by the modules of    *)
(* the consensus.                                                          *)
(*                                                                         *)
(* vote.rs, fsm_runtime.rs and state.rs all compute a quorum the same way: *)
(* the voting powers of distinct validators are summed and compared with   *)
(* total * 2 / 3 + 1 (integer division).                                   *)
(***************************************************************************)
EXTENDS Integers, FiniteSets, Functions

CONSTANTS
    Validators,   \* addresses in state.validators()
    Power         \* voting_power of each of them (u64)

ASSUME PowerAssumption ==
    /\ IsFiniteSet(Validators)
    /\ Power \in [Validators -> Nat]

\* Summed voting power of a set of distinct validators.
PowerOf(S) == SumFunctionOnSet(Power, S)

TotalPower == PowerOf(Validators)

\* The threshold: strictly more than two thirds of the total.
QuorumPower == (TotalPower * 2) \div 3 + 1

Quorums == {S \in SUBSET Validators : PowerOf(S) >= QuorumPower}

\* Sets with more than a third of the power: too many to be all faulty.
Blocking == {S \in SUBSET Validators : 3 * PowerOf(S) > TotalPower}
=============================================================================
