----------------------------- MODULE ApplyViews -----------------------------
(* apply_block on two kinds of nodes: on a follower, where one task calls it (the
   module this one extends), or on a validator, where several do (Validator); and what
   its blocks, those of a producer with its mempool and those of others, do to the
   accounts (Money).  A behaviour is that of a single view. *)
EXTENDS ApplyBlock, FiniteSets

CONSTANTS  \* Validator
    RaceWriters,   \* the validator's tasks that call apply_block
    RaceOffered    \* the blocks each of them may call it with
CONSTANTS  \* Money
    Account, Tx, Endowment, MinTxFee, NonceGap, MaxSize, MaxTxs, LastHeight, MaxSubmits

VARIABLES
    kind,  \* whose steps this behaviour is made of
    v_written, v_blocks, v_diskTip, v_marker, v_tip, v_task, v_node,
    p_pool, p_checked, p_block, p_height, p_ledger, p_stuck, p_submits

Validator == INSTANCE ApplyBlock WITH
    Writers <- RaceWriters, Offered <- RaceOffered, written <- v_written,
    blocks <- v_blocks, diskTip <- v_diskTip, marker <- v_marker, tip <- v_tip,
    task <- v_task, node <- v_node
Money == INSTANCE TxPool WITH
    Genesis <- Endowment, MaxHeight <- LastHeight, pool <- p_pool, checked <- p_checked,
    block <- p_block, height <- p_height, ledger <- p_ledger, stuck <- p_stuck,
    submits <- p_submits

ASSUME RaceAssumption == RaceOffered \in [RaceWriters -> SUBSET Block]

ASSUME MoneyAssumption ==
    /\ IsFiniteSet(Account)
    /\ \A t \in Tx :
          /\ {t.from, t.to} \subseteq Account
          /\ {t.amount, t.fee, t.nonce, t.price} \subseteq Nat
    /\ {Endowment, MaxSize, MaxTxs, LastHeight, MaxSubmits} \subseteq Nat

validatorVars == <<v_written, v_blocks, v_diskTip, v_marker, v_tip, v_task, v_node>>
moneyVars == <<p_pool, p_checked, p_block, p_height, p_ledger, p_stuck, p_submits>>
viewVars == <<kind, vars, validatorVars, moneyVars>>

ViewInit ==
    /\ kind \in {"follower", "validator", "money"}
    /\ Init /\ Validator!Init /\ Money!Init
    /\ kind # "follower" => diskTip = Genesis
    /\ kind # "validator" => v_diskTip = Genesis

ViewNext ==
    \/ kind = "follower" /\ Next /\ UNCHANGED <<kind, validatorVars, moneyVars>>
    \/ kind = "validator" /\ Validator!Next /\ UNCHANGED <<kind, vars, moneyVars>>
    \/ kind = "money" /\ Money!Next /\ UNCHANGED <<kind, vars, validatorVars>>

ViewSpec == ViewInit /\ [][ViewNext]_viewVars

-----------------------------------------------------------------------------
\* state.rs: even with several tasks in apply_block, the tip on disk names a block on disk.
TipStoredInRace == Validator!TipStored

\* mempool.rs, state.rs: no block makes or destroys money, and one that was foreseen
\* to apply is abandoned half-way for a swap only.
LedgerRight == Money!TypeOK /\ Money!Conserved /\ Money!TransfersNeverAbort
=============================================================================
