------------------------------- MODULE Staking -------------------------------
(* The staking module of the chain: validators with stake and shares, delegations,
   the unbonding queue, rewards in locked buckets, slashing.  It is kept as one
   blob: a transaction reads the blob, changes it and writes it back, and so does
   the slashing of a double sign, which the inbound consumer runs when it sees the
   votes, beside the task that applies blocks.  Here the slashing is two steps and
   a transaction one: writes may be undone by a slash, and not a slash by a write.

   Amounts are small, in a unit of their own.  Nothing in the chain calls unjail,
   slash_downtime or force_unlock_for_validator. *)
EXTENDS Naturals, Sequences, FiniteSets, Functions

CONSTANTS
    Delegator,
    Validator,
    Founder,          \* the treasury, whose rewards are liquid
    Amounts,          \* what a delegator stakes
    MinSelfBond,      \* MIN_SELF_BOND_WEI
    MinDelegation,    \* MIN_DELEGATION_WEI
    UnbondingEpochs,  \* UNBONDING_EPOCHS
    SlashBps, CommissionBps, BpsDen,  \* SLASH_DOUBLE_SIGN_BPS, REWARDS_COMMISSION_BPS
    Reward,           \* what REWARDS_POOL holds when it is shared out
    MaxSteps          \* bound: operations, slashes and epochs

VARIABLES
    blob,       \* META_STAKING
    reading,    \* what the slashing has read of the blob, and whom it slashes
    paid,       \* what each account has taken out, in all
    deposited,  \* what each account has put in, in all
    minted,     \* rewards shared out, in all
    lost,       \* a write has undone another
    steps

vars == <<blob, reading, paid, deposited, minted, lost, steps>>

Nothing == <<>>
MulDiv(a, b, c) == IF c = 0 THEN 0 ELSE (a * b) \div c

SharesToAmount(s, v, n) == MulDiv(n, s.stake[v], s.shares[v])
AmountToShares(s, v, n) ==
    IF s.shares[v] = 0 \/ s.stake[v] = 0 THEN n ELSE MulDiv(n, s.shares[v], s.stake[v])

Registered(s, v) == s.operator[v] # Nothing

Init ==
    /\ blob = [stake |-> [v \in Validator |-> 0], shares |-> [v \in Validator |-> 0],
               operator |-> [v \in Validator |-> Nothing],
               jailed |-> {}, held |-> [x \in Delegator \X Validator |-> 0],
               queue |-> <<>>, epoch |-> 0, slashed |-> 0,
               locked |-> [d \in Delegator |-> 0]]
    /\ reading = Nothing
    /\ paid = [d \in Delegator |-> 0] /\ deposited = [d \in Delegator |-> 0]
    /\ minted = 0 /\ lost = FALSE /\ steps = 0

-----------------------------------------------------------------------------
(* What the operations do to the blob. *)

\* Mutant: shares are rounded up.
DepositRoundingUp(s, d, v, n) ==
    LET new == AmountToShares(s, v, n) + IF s.shares[v] = 0 THEN 0 ELSE 1
    IN [s EXCEPT !.stake[v] = @ + n, !.shares[v] = @ + new, !.held[<<d, v>>] = @ + new]

Deposit(s, d, v, n) ==
    LET new == AmountToShares(s, v, n)
    IN [s EXCEPT !.stake[v] = @ + n, !.shares[v] = @ + new, !.held[<<d, v>>] = @ + new]

Withdraw(s, d, v, n) ==
    [s EXCEPT !.stake[v] = @ - SharesToAmount(s, v, n), !.shares[v] = @ - n,
              !.held[<<d, v>>] = @ - n]

Move(s, d, v, w, n) == Deposit(Withdraw(s, d, v, n), d, w, SharesToAmount(s, v, n))

Unbond(s, d, v, n) ==
    [Withdraw(s, d, v, n) EXCEPT !.queue = Append(@,
        [to |-> d, validator |-> v, amount |-> SharesToAmount(s, v, n),
         matures |-> s.epoch + UnbondingEpochs])]

Cut(n) == MulDiv(n, SlashBps, BpsDen)

Cuts(q)      == [i \in DOMAIN q |-> Cut(q[i].amount)]
From(q, v)   == {i \in DOMAIN q : q[i].validator = v}
WithCuts(q, v) ==
    [i \in DOMAIN q |-> IF i \in From(q, v) THEN [q[i] EXCEPT !.amount = @ - Cut(@)] ELSE q[i]]

Slash(s, v) ==
    [s EXCEPT
        !.stake[v] = @ - Cut(@),
        !.queue = WithCuts(@, v),
        !.slashed = @ + Cut(s.stake[v]) + SumFunctionOnSet(Cuts(s.queue), From(s.queue, v)),
        !.jailed = @ \cup {v}]

\* distribute_pool_rewards: what each delegator of each validator gets.
Active(s) == Validator \ s.jailed
ShareOf(s, v) == MulDiv(Reward, s.stake[v], SumFunctionOnSet(s.stake, Active(s)))
CommissionOf(s, v) == MulDiv(ShareOf(s, v), CommissionBps, BpsDen)
SharesOf(s, v) == SumFunctionOnSet([d \in Delegator |-> s.held[<<d, v>>]], Delegator)
CutOf(s, d, v) ==
    MulDiv(ShareOf(s, v) - CommissionOf(s, v), s.held[<<d, v>>], SharesOf(s, v))
RewardOf(s, d) == SumFunctionOnSet([v \in Validator |-> CutOf(s, d, v)], Active(s))
Commissions(s) == SumFunctionOnSet([v \in Validator |-> CommissionOf(s, v)], Active(s))

Amount(s)       == [i \in DOMAIN s.queue |-> s.queue[i].amount]
Matured(s)      == {i \in DOMAIN s.queue : \A j \in 1 .. i : s.queue[j].matures <= s.epoch + 1}
MaturedOf(s, d) == SumFunctionOnSet(Amount(s), {i \in Matured(s) : s.queue[i].to = d})

-----------------------------------------------------------------------------
(* The operations of transactions, and what blocks do at their heights. *)

Bounded == steps < MaxSteps /\ steps' = steps + 1

Write(s) == blob' = s /\ UNCHANGED reading

CreateValidator(d, v, n) ==
    /\ Bounded /\ n >= MinSelfBond /\ ~Registered(blob, v)
    /\ Write([blob EXCEPT !.operator[v] = <<d>>, !.stake[v] = n, !.shares[v] = n,
                          !.held[<<d, v>>] = n])
    /\ deposited' = [deposited EXCEPT ![d] = @ + n]
    /\ UNCHANGED <<paid, minted, lost>>

Stake(d, v, n) ==
    /\ Bounded /\ n >= MinDelegation /\ Registered(blob, v) /\ v \notin blob.jailed
    /\ Write(Deposit(blob, d, v, n))
    /\ deposited' = [deposited EXCEPT ![d] = @ + n]
    /\ UNCHANGED <<paid, minted, lost>>

Unstake(d, v, n) ==
    /\ Bounded /\ n \in 1 .. blob.held[<<d, v>>]
    /\ Write(Unbond(blob, d, v, n))
    /\ UNCHANGED <<paid, deposited, minted, lost>>

Redelegate(d, v, w, n) ==
    /\ Bounded /\ v # w /\ n \in 1 .. blob.held[<<d, v>>]
    /\ Registered(blob, w) /\ w \notin blob.jailed
    /\ Write(Move(blob, d, v, w, n))
    /\ UNCHANGED <<paid, deposited, minted, lost>>

\* settle_unlock: some of the bucket, by the drip and the bulk release.
ClaimRewards(d, n) ==
    /\ Bounded /\ n \in 1 .. blob.locked[d]
    /\ Write([blob EXCEPT !.locked[d] = @ - n])
    /\ paid' = [paid EXCEPT ![d] = @ + n]
    /\ UNCHANGED <<deposited, minted, lost>>

DistributePoolRewards ==
    /\ Bounded /\ \E v \in Active(blob) : blob.stake[v] > 0
    /\ minted' = minted + Reward
    /\ Write([blob EXCEPT !.locked = [d \in Delegator |->
                 IF d = Founder THEN @[d] ELSE @[d] + RewardOf(blob, d)]])
    /\ paid' = [paid EXCEPT ![Founder] = @ + RewardOf(blob, Founder) + Commissions(blob)]
    /\ UNCHANGED <<deposited, lost>>

EndEpoch ==
    /\ Bounded
    /\ Write([blob EXCEPT !.epoch = @ + 1,
                          !.queue = SubSeq(@, Cardinality(Matured(blob)) + 1, Len(@))])
    /\ paid' = [d \in Delegator |-> paid[d] + MaturedOf(blob, d)]
    /\ UNCHANGED <<deposited, minted, lost>>

-----------------------------------------------------------------------------
(* slash_and_record_evidence, in the inbound consumer *)

SlashRead(v) ==
    /\ Bounded /\ reading = Nothing
    /\ Registered(blob, v)
    /\ reading' = <<[blob |-> blob, validator |-> v]>>
    /\ UNCHANGED <<blob, paid, deposited, minted, lost>>

\* What was written since the read is undone.
SlashWrite ==
    /\ reading # Nothing /\ reading' = Nothing
    /\ blob' = Slash(reading[1].blob, reading[1].validator)
    /\ lost' = (lost \/ blob # reading[1].blob)
    /\ UNCHANGED <<paid, deposited, minted, steps>>

-----------------------------------------------------------------------------
Operate(d) ==
    \/ \E v \in Validator, n \in Amounts : CreateValidator(d, v, n) \/ Stake(d, v, n)
    \/ \E v \in Validator : \E n \in 1 .. blob.held[<<d, v>>] :
           Unstake(d, v, n) \/ \E w \in Validator : Redelegate(d, v, w, n)
    \/ \E n \in 1 .. blob.locked[d] : ClaimRewards(d, n)

Next ==
    \/ \E d \in Delegator : Operate(d)
    \/ DistributePoolRewards \/ EndEpoch
    \/ SlashWrite \/ \E v \in Validator : SlashRead(v)

Spec == Init /\ [][Next]_vars

-----------------------------------------------------------------------------
\* The variables keep their types.
TypeOK ==
    /\ blob.stake \in [Validator -> Nat] /\ blob.shares \in [Validator -> Nat]
    /\ blob.held \in [Delegator \X Validator -> Nat] /\ blob.locked \in [Delegator -> Nat]
    /\ blob.jailed \subseteq Validator /\ blob.epoch \in Nat /\ blob.slashed \in Nat
    /\ \A i \in DOMAIN blob.queue : blob.queue[i].to \in Delegator /\ blob.queue[i].amount \in Nat
    /\ paid \in [Delegator -> Nat] /\ deposited \in [Delegator -> Nat]
    /\ minted \in Nat /\ lost \in BOOLEAN /\ steps \in 0 .. MaxSteps

\* The shares of a validator are those of its delegators, whatever is moved,
\* unbonded and slashed, and even when a slash undoes a write.
SharesHeld == \A v \in Validator : blob.shares[v] = SharesOf(blob, v)

\* Nothing leaves staking that has not come in: what was paid, what is burnt and
\* what is still owed do not exceed deposits and rewards, unless a slash has undone
\* another write (StakingModule, slash_and_record_evidence).
Solvent ==
    ~lost => SumFunction(paid) + blob.slashed + SumFunction(blob.stake) + SumFunction(blob.locked)
               + SumFunction(Amount(blob)) <= SumFunction(deposited) + minted

Worth(d) ==
    SumFunctionOnSet([v \in Validator |-> SharesToAmount(blob, v, blob.held[<<d, v>>])], Validator)
      + SumFunctionOnSet(Amount(blob), {i \in DOMAIN blob.queue : blob.queue[i].to = d})
      + blob.locked[d] + paid[d]

\* No order of stakes, exits, moves and slashes makes a delegator richer than its
\* own deposits and the rewards (stake, unstake, redelegate, slash).
NoGain == ~lost => \A d \in Delegator : Worth(d) <= deposited[d] + minted
=============================================================================
