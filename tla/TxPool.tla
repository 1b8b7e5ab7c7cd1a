------------------------------- MODULE TxPool -------------------------------
(* The way of a transaction through a node: admission to the mempool, the blocks
   of the node's own producer, and what apply_block does to the accounts.  The
   mempool has a lock of its own; accounts are read before it is taken.  Between
   taking transactions and applying the block that holds them, another validator's
   block may be applied.

   A transaction is a transfer, or a swap of ZBX for zUSD, which moves the price
   of the pool and with it the bounds of the fees, and which fails when the price
   is not the one its min_out asks for.  Block rewards are left out, and the shares
   of the fees are one sum.  Signatures are perfect. *)
EXTENDS Naturals, Sequences, SequencesExt, FiniteSetsExt

CONSTANTS
    Account,
    Tx,          \* records [from, to, amount, fee, nonce, price]: price 0 is a transfer
    Genesis,     \* the first balance of every account
    MinTxFee,    \* MIN_TX_FEE_WEI
    NonceGap,    \* MAX_NONCE_GAP
    MaxSize,     \* the capacity of the mempool
    MaxTxs,      \* MAX_TXS_PER_BLOCK
    MaxHeight,   \* bound: blocks
    MaxSubmits   \* bound: submissions

VARIABLES
    pool,        \* the mempool
    checked,     \* transactions that passed the checks of add and wait for its lock
    block,       \* the block the producer has built: [height, txs]
    height,      \* the tip
    ledger,      \* what apply_tx changes
    stuck,       \* the block whose marker was left behind
    submits

vars == <<pool, checked, block, height, ledger, stuck, submits>>

Prices    == 1 .. 2
Nothing   == <<>>
IsSwap(t) == t.price # 0

Init ==
    /\ pool = {} /\ checked = {} /\ block = Nothing /\ height = 0
    /\ ledger = [balance |-> [a \in Account |-> Genesis], nonce |-> [a \in Account |-> 0],
                 price |-> 1, reserve |-> 0, fees |-> 0]
    /\ stuck = Nothing /\ submits = 0

-----------------------------------------------------------------------------
(* Mempool *)

Check(t) ==
    /\ submits < MaxSubmits /\ submits' = submits + 1
    /\ t.fee >= MinTxFee
    /\ t.nonce \in ledger.nonce[t.from] .. ledger.nonce[t.from] + NonceGap
    /\ t.amount + t.fee <= ledger.balance[t.from]
    /\ checked' = checked \cup {t}
    /\ UNCHANGED <<pool, block, height, ledger, stuck>>

Cheapest == {t \in pool : \A u \in pool : t.fee <= u.fee}

\* A full pool gives up one of its cheapest for a dearer one, or refuses.
Insert(t) ==
    /\ t \in checked /\ checked' = checked \ {t}
    /\ \/ t \in pool /\ UNCHANGED pool
       \/ t \notin pool /\ Cardinality(pool) < MaxSize /\ pool' = pool \cup {t}
       \/ /\ t \notin pool /\ Cardinality(pool) >= MaxSize
          /\ \/ \E u \in Cheapest : u.fee < t.fee /\ pool' = (pool \ {u}) \cup {t}
             \/ (\A u \in Cheapest : u.fee >= t.fee) /\ UNCHANGED pool
    /\ UNCHANGED <<block, height, ledger, stuck, submits>>

\* By sender, the dearest transaction of a sender ranking it, and by nonce for one
\* sender; ties are broken by the hash map.
BestFee(t) == Max({u.fee : u \in {x \in pool : x.from = t.from}})
Ranked(s) ==
    \A i, j \in DOMAIN s : i < j =>
        /\ s[i].from = s[j].from =>
               /\ s[i].nonce <= s[j].nonce
               /\ \A k \in i .. j : s[k].from = s[i].from
        /\ s[i].from # s[j].from => BestFee(s[i]) >= BestFee(s[j])
Take(max) == {SubSeq(s, 1, IF Len(s) < max THEN Len(s) ELSE max) :
                s \in {q \in SetToSeqs(pool) : Ranked(q)}}

-----------------------------------------------------------------------------
(* apply_block *)

InBounds(l, t) == t.fee \in l.price .. 10 * l.price

\* The pre-validation: bounds of the fees, nonces and debits, before the marker.
SimulateTx(sim, t) ==
    [balance |-> [sim.balance EXCEPT ![t.from] =
                      IF @ >= t.amount + t.fee THEN @ - (t.amount + t.fee) ELSE @],
     nonce   |-> [sim.nonce EXCEPT ![t.from] = @ + 1],
     ok      |-> /\ sim.ok /\ InBounds(ledger, t)
                 /\ sim.nonce[t.from] = t.nonce
                 /\ sim.balance[t.from] >= t.amount + t.fee]

\* Mutant: every transaction is checked against the balance before the block.
SimulateAlone(sim, t) ==
    [balance |-> sim.balance,
     nonce   |-> [sim.nonce EXCEPT ![t.from] = @ + 1],
     ok      |-> /\ sim.ok /\ InBounds(ledger, t)
                 /\ sim.nonce[t.from] = t.nonce
                 /\ sim.balance[t.from] >= t.amount + t.fee]

Simulate(sim, t) == SimulateTx(sim, t)

\* After the first n transactions of a block.
Simulated(txs) ==
    LET sim[n \in 0 .. Len(txs)] ==
            IF n = 0
            THEN [balance |-> ledger.balance, nonce |-> ledger.nonce, ok |-> TRUE]
            ELSE Simulate(sim[n - 1], txs[n])
    IN sim

PreValidated(txs) == Simulated(txs)[Len(txs)].ok

\* The sender's row, and then the receiver's, as it was read before; fees are
\* shared out at the end of the block.
Transfer(l, t) ==
    LET debited == [l.balance EXCEPT ![t.from] = @ - (t.amount + t.fee)]
        counted == [l.nonce EXCEPT ![t.from] = @ + 1]
    IN [l EXCEPT !.balance = [debited EXCEPT ![t.to] = l.balance[t.to] + t.amount],
                 !.nonce = IF t.to = t.from THEN l.nonce ELSE counted]

Swap(l, t) ==
    [l EXCEPT !.balance[t.from] = @ - (t.amount + t.fee), !.nonce[t.from] = @ + 1,
              !.reserve = @ + t.amount, !.price = 3 - @]

Acceptable(l, t) ==
    InBounds(l, t) /\ l.nonce[t.from] = t.nonce /\ l.balance[t.from] >= t.amount + t.fee

\* A swap that misses its price keeps the fee.
Refund(l, t) == [l EXCEPT !.balance[t.from] = @ - t.fee, !.nonce[t.from] = @ + 1]

\* apply_tx: an error ends the block.
ApplyTx(acc, t) ==
    IF acc.failed THEN acc
    ELSE IF ~Acceptable(acc.l, t) THEN [acc EXCEPT !.failed = TRUE]
    ELSE IF ~IsSwap(t) THEN [l |-> Transfer(acc.l, t), failed |-> FALSE]
    ELSE IF t.price = acc.l.price THEN [l |-> Swap(acc.l, t), failed |-> FALSE]
    ELSE [l |-> Refund(acc.l, t), failed |-> TRUE]

\* After the first n transactions of a block.
Applied(txs) ==
    LET run[n \in 0 .. Len(txs)] ==
            IF n = 0 THEN [l |-> ledger, failed |-> FALSE] ELSE ApplyTx(run[n - 1], txs[n])
    IN run

FeesOf(txs) == SumFunctionOnSet([i \in DOMAIN txs |-> txs[i].fee], DOMAIN txs)

\* Refused before the marker, applied, or abandoned with the marker left set.
ApplyBlock(b) ==
    IF stuck # Nothing \/ b.height # height + 1 \/ ~PreValidated(b.txs)
    THEN UNCHANGED <<height, ledger, stuck>>
    ELSE LET r == Applied(b.txs)[Len(b.txs)] IN
         IF r.failed
         THEN /\ stuck' = <<b>> /\ ledger' = r.l
              /\ UNCHANGED height
         ELSE /\ height' = b.height
              /\ ledger' = [r.l EXCEPT !.fees = @ + FeesOf(b.txs)]
              /\ UNCHANGED stuck

\* Mutant: a block copies the transactions and leaves them in the pool.
BuildCopying(b) ==
    /\ block = Nothing /\ height < MaxHeight
    /\ block' = <<b>> /\ UNCHANGED pool
    /\ UNCHANGED <<checked, height, ledger, stuck, submits>>

\* The producer's turn: build_block takes the transactions out of the pool, and
\* does not put them back.
Build(b) ==
    /\ block = Nothing /\ height < MaxHeight
    /\ block' = <<b>> /\ pool' = pool \ Range(b.txs)
    /\ UNCHANGED <<checked, height, ledger, stuck, submits>>

BuildBlock == \E s \in Take(MaxTxs) : Build([height |-> height + 1, txs |-> s])

ApplyOwn ==
    /\ block # Nothing /\ block' = Nothing
    /\ ApplyBlock(block[1])
    /\ UNCHANGED <<pool, checked, submits>>

\* The block of another validator, whose pool is its own.
ApplyForeign(t) ==
    /\ height < MaxHeight
    /\ ApplyBlock([height |-> height + 1, txs |-> <<t>>])
    /\ UNCHANGED <<pool, checked, block, submits>>

-----------------------------------------------------------------------------
Produce == BuildBlock \/ ApplyOwn

Next ==
    \/ Produce
    \/ \E t \in Tx : Check(t) \/ Insert(t) \/ ApplyForeign(t)

Spec     == Init /\ [][Next]_vars
FairSpec == Spec /\ WF_vars(BuildBlock) /\ WF_vars(ApplyOwn)

-----------------------------------------------------------------------------
\* The variables keep their types, and the pool its capacity.
TypeOK ==
    /\ pool \subseteq Tx /\ Cardinality(pool) <= MaxSize
    /\ checked \subseteq Tx
    /\ \A b \in {block, stuck} : b = Nothing \/ (b[1].height \in Nat /\ b[1].txs \in Seq(Tx))
    /\ height \in 0 .. MaxHeight /\ submits \in 0 .. MaxSubmits
    /\ ledger.balance \in [Account -> Nat] /\ ledger.nonce \in [Account -> Nat]
    /\ ledger.price \in Prices /\ ledger.reserve \in Nat /\ ledger.fees \in Nat

Total == SumFunctionOnSet(ledger.balance, Account) + ledger.reserve + ledger.fees

\* No block makes or destroys money: what leaves an account is in another one, in
\* the reserve of the pool, or a fee (apply_tx, redistribute_gas_fees).
Conserved == stuck = Nothing => Total = Genesis * Cardinality(Account)

\* A block that passed the pre-validation is abandoned half-way only because of a
\* swap: debits and nonces are foreseen exactly enough, whatever the senders pay
\* each other in the block (apply_block).
TransfersNeverAbort == stuck # Nothing => \E i \in DOMAIN stuck[1].txs : IsSwap(stuck[1].txs[i])

\* A pool of gaps, duplicates and stale nonces delays the chain and does not stop
\* it: the next block comes, unless a marker is left (build_block, take).
Grows == []<>(height = MaxHeight \/ stuck # Nothing)
=============================================================================
