------------------------------ MODULE TokenPool ------------------------------
(* The pool of a token against ZBX: reserves x and y, shares, swaps whose fee stays
   in the reserves, and a mirror of the reserves in the ledger of balances, under
   the address of the pool.  All arithmetic rounds down, in 256 bits, so that
   nothing overflows.  Amounts are small, in units of their own; min_out, which
   only refuses, is left out.  An operation is one transaction. *)
EXTENDS Naturals, FiniteSets, Functions

CONSTANTS
    Account,
    Creator,        \* who opens the pool
    FeeNum, FeeDen, \* TOKEN_POOL_FEE_BPS_NUM, TOKEN_POOL_FEE_BPS_DEN
    MinLiquidity,   \* MIN_TOKEN_POOL_LIQUIDITY
    Wealth,         \* what every account has at first, of both
    Amounts,        \* what operations ask for
    MaxSteps        \* bound: operations after the pool is opened

ASSUME PoolAssumption ==
    /\ IsFiniteSet(Account) /\ Creator \in Account
    /\ Wealth \in Nat /\ Amounts \subseteq Nat /\ MaxSteps \in Nat
    /\ FeeDen \in Nat \ {0} /\ FeeNum \in 0 .. FeeDen /\ MinLiquidity \in Nat \ {0}

VARIABLES
    own,            \* each account: ZBX, tokens, shares
    pool,           \* the TokenPool
    mirror,         \* the balances of the pool's address
    acted,          \* who has acted since the pool was opened
    steps

vars == <<own, pool, mirror, acted, steps>>

Least(a, b)  == IF a < b THEN a ELSE b
IsSqrt(r, n) == r * r <= n /\ n < (r + 1) * (r + 1)

Initialized == pool.lp > 0

Init ==
    /\ own = [a \in Account |-> [x |-> Wealth, y |-> Wealth, lp |-> 0]]
    /\ pool = [x |-> 0, y |-> 0, lp |-> 0]
    /\ mirror = [x |-> 0, y |-> 0]
    /\ acted = {} /\ steps = 0

\* The reserves, and what the account then has; the mirror follows.
Commit(a, p, x, y, lp) ==
    /\ pool' = p
    /\ own' = [own EXCEPT ![a] = [x |-> x, y |-> y, lp |-> lp]]
    /\ mirror' = [x |-> p.x, y |-> p.y]
    /\ acted' = IF Initialized THEN acted \cup {a} ELSE acted
    /\ steps' = IF Initialized THEN steps + 1 ELSE steps

Bounded == Initialized /\ steps < MaxSteps

-----------------------------------------------------------------------------
\* TokenPoolCreate, init: the locked shares belong to nobody.
Create(x, y) ==
    /\ ~Initialized /\ x <= own[Creator].x /\ y <= own[Creator].y
    /\ \E lp \in MinLiquidity + 1 .. x + y :
         /\ IsSqrt(lp, x * y)
         /\ Commit(Creator, [x |-> x, y |-> y, lp |-> lp],
                   own[Creator].x - x, own[Creator].y - y, lp - MinLiquidity)

\* What add_liquidity takes: the pair at the ratio of the reserves.
Pair(x, yMax) ==
    LET y == (x * pool.y) \div pool.x
    IN IF y <= yMax THEN [x |-> x, y |-> y]
       ELSE [x |-> (yMax * pool.x) \div pool.y, y |-> yMax]

\* Mutant: the shares are those of the better side.
SharesOfBest(in) ==
    LET a == (in.x * pool.lp) \div pool.x
        b == (in.y * pool.lp) \div pool.y
    IN IF a < b THEN b ELSE a

SharesFor(in) == Least((in.x * pool.lp) \div pool.x, (in.y * pool.lp) \div pool.y)

AddLiquidity(a, x, yMax) ==
    /\ Bounded /\ x <= own[a].x /\ yMax <= own[a].y
    /\ LET in == Pair(x, yMax)
           lp == SharesFor(in)
       IN /\ in.x > 0 /\ in.y > 0 /\ lp > 0
          /\ Commit(a, [x |-> pool.x + in.x, y |-> pool.y + in.y, lp |-> pool.lp + lp],
                    own[a].x - in.x, own[a].y - in.y, own[a].lp + lp)

RemoveLiquidity(a, lp) ==
    /\ Bounded /\ lp <= own[a].lp /\ lp <= pool.lp - MinLiquidity
    /\ LET x == (pool.x * lp) \div pool.lp
           y == (pool.y * lp) \div pool.lp
       IN /\ x > 0 /\ y > 0
          /\ Commit(a, [x |-> pool.x - x, y |-> pool.y - y, lp |-> pool.lp - lp],
                    own[a].x + x, own[a].y + y, own[a].lp - lp)

\* Mutant: the product is kept exactly, but for a rounding in favour of the trader.
QuoteRoundingUp(in, rIn, rOut) ==
    LET eff == in - (in * FeeNum) \div FeeDen
    IN (rOut * eff + rIn + eff - 1) \div (rIn + eff)

Quote(in, rIn, rOut) ==
    LET eff == in - (in * FeeNum) \div FeeDen
    IN (rOut * eff) \div (rIn + eff)

SwapZbxForToken(a, x) ==
    /\ Bounded /\ x <= own[a].x
    /\ LET y == Quote(x, pool.x, pool.y)
       IN /\ y > 0 /\ y < pool.y
          /\ Commit(a, [pool EXCEPT !.x = @ + x, !.y = @ - y],
                    own[a].x - x, own[a].y + y, own[a].lp)

SwapTokenForZbx(a, y) ==
    /\ Bounded /\ y <= own[a].y
    /\ LET x == Quote(y, pool.y, pool.x)
       IN /\ x > 0 /\ x < pool.x
          /\ Commit(a, [pool EXCEPT !.x = @ - x, !.y = @ + y],
                    own[a].x + x, own[a].y - y, own[a].lp)

Next ==
    \/ \E x, y \in Amounts : Create(x, y)
    \/ \E a \in Account, n \in Amounts :
         \/ RemoveLiquidity(a, n) \/ SwapZbxForToken(a, n) \/ SwapTokenForZbx(a, n)
         \/ \E m \in Amounts : AddLiquidity(a, n, m)

Spec == Init /\ [][Next]_vars

-----------------------------------------------------------------------------
\* The variables keep their types.
TypeOK ==
    /\ own \in [Account -> [x : Nat, y : Nat, lp : Nat]]
    /\ pool \in [x : Nat, y : Nat, lp : Nat] /\ mirror \in [x : Nat, y : Nat]
    /\ acted \subseteq Account /\ steps \in 0 .. MaxSteps

\* Every share but the locked ones has an owner, and the ledger holds of the pool
\* what its reserves say: nothing is made or lost by an operation (state.rs, Phase H).
Custody ==
    /\ Initialized =>
         pool.lp = MinLiquidity + SumFunctionOnSet([a \in Account |-> own[a].lp], Account)
    /\ mirror = [x |-> pool.x, y |-> pool.y]
    /\ mirror.x + SumFunctionOnSet([a \in Account |-> own[a].x], Account) = Wealth * Cardinality(Account)
    /\ mirror.y + SumFunctionOnSet([a \in Account |-> own[a].y], Account) = Wealth * Cardinality(Account)

\* No operation dilutes a share: the product of the reserves behind one, squared,
\* never falls, whatever the rounding (add_liquidity, remove_liquidity, the quotes).
ShareKeepsValue ==
    [][Initialized => pool'.x * pool'.y * pool.lp * pool.lp
                          >= pool.x * pool.y * pool'.lp * pool'.lp]_vars

\* No sequence of deposits, withdrawals and swaps of one account, while nobody else
\* acts, leaves it with more of one asset and no less of the other.
NoFreeLunch ==
    \A a \in Account \ {Creator} :
        acted \subseteq {a} /\ own[a].x >= Wealth /\ own[a].y >= Wealth =>
            own[a].x = Wealth /\ own[a].y = Wealth
=============================================================================
